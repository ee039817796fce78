------------------------------- MODULE Dedup -------------------------------
(***************************************************************************)
(* The vote handler up to the increment: internal/httpapi/vote.go           *)
(* (handleVote) with internal/dedup/redis.go (GuardedChecker.Check and its  *)
(* watchdog withDeadline) and the keys of Redis.                            *)
(*                                                                         *)
(* A voter sends the same vote several times, to one instance or to many.   *)
(* Every attempt runs the handler; its SET NX runs in a goroutine of its    *)
(* own, which outlives the handler when the deadline comes first.           *)
(***************************************************************************)
EXTENDS Naturals, FiniteSets

CONSTANTS
    Attempts,    \* requests to vote in one poll
    Voters,
    VoterOf,     \* the voter of the token of each attempt
    Ends,        \* the poll's ends_at plus the grace period
    Margin,      \* dedupTTLMargin
    Limit,       \* longest a handler runs after it has read the clock
    MaxRestarts, \* bound: restarts of Redis
    MaxTime      \* bound: end of time

ASSUME VoterAssumption == VoterOf \in [Attempts -> Voters]

\* main.go: a body is read within ReadTimeout, far below the margin of one minute.
ASSUME TimeAssumption ==
    /\ Ends \in Nat \ {0} /\ Margin \in Nat /\ Limit \in Nat /\ MaxTime \in Nat
    /\ MaxRestarts \in Nat
    /\ Limit <= Margin

VARIABLES
    clock,
    key,      \* when the key of each voter expires
    pc,       \* where the handler of each attempt is
    born,     \* its variable now
    verdict,  \* the result of Check
    cmd,      \* the goroutine of SET NX, and what it has put into the channel
    restarts  \* how often Redis has lost its keys

handler == <<pc, born, verdict>>
dedupVars == <<clock, key, handler, cmd, restarts>>

Time == 0..MaxTime
Working == {"decode", "wait", "count"}
Ended == {"accepted", "refused", "gone", "lost"}

DedupInit ==
    /\ clock = 0
    /\ key = [v \in Voters |-> 0]
    /\ pc = [a \in Attempts |-> "idle"]
    /\ born = [a \in Attempts |-> 0]
    /\ verdict = [a \in Attempts |-> "none"]
    /\ cmd = [a \in Attempts |-> "none"]
    /\ restarts = 0

Goto(a, l) == pc' = [pc EXCEPT ![a] = l]
Says(a, x) == verdict' = [verdict EXCEPT ![a] = x]
Replies(a, x) == cmd' = [cmd EXCEPT ![a] = x]

\* The handler goes on to the increment with the verdict x.
Accept(a, x) == Goto(a, "count") /\ Says(a, x) /\ UNCHANGED born

-----------------------------------------------------------------------------
(* The handler.                                                            *)

\* The poll takes votes: the clock is read before the body.
Arrive(a) ==
    /\ pc[a] = "idle"
    /\ clock < Ends
    /\ Goto(a, "decode")
    /\ born' = [born EXCEPT ![a] = clock]
    /\ UNCHANGED <<clock, key, verdict, cmd, restarts>>

ArriveLate(a) ==
    /\ pc[a] = "idle"
    /\ clock >= Ends
    /\ Goto(a, "gone")
    /\ UNCHANGED <<clock, key, born, verdict, cmd, restarts>>

\* A later check fails (not started, no token, no valid choice) before the key is taken.
Invalid(a) ==
    /\ pc[a] = "decode"
    /\ Goto(a, "gone")
    /\ UNCHANGED <<clock, key, born, verdict, cmd, restarts>>

\* The circuit is open: no request at all.
Bypass(a) ==
    /\ pc[a] = "decode"
    /\ Accept(a, "bypassed")
    /\ UNCHANGED <<clock, key, cmd, restarts>>

SendSetNX(a) ==
    /\ pc[a] = "decode"
    /\ Goto(a, "wait")
    /\ Replies(a, "sent")
    /\ UNCHANGED <<clock, key, born, verdict, restarts>>

\* The channel has a result.
Hear(a) ==
    /\ pc[a] = "wait"
    /\ \/ cmd[a] = "first" /\ Accept(a, "first")
       \/ cmd[a] = "error" /\ Accept(a, "bypassed")
       \/ cmd[a] = "duplicate" /\ Goto(a, "refused") /\ Says(a, "duplicate") /\ UNCHANGED born
    /\ UNCHANGED <<clock, key, cmd, restarts>>

\* Mutant: the handler has no watchdog.
NoDeadline(a) == FALSE /\ UNCHANGED dedupVars

\* The deadline, or the voter has gone away: whatever the channel has by now.
Deadline(a) ==
    /\ pc[a] = "wait"
    /\ Accept(a, "bypassed")
    /\ UNCHANGED <<clock, key, cmd, restarts>>

\* The increment, and the answer.
Count(a) ==
    /\ pc[a] = "count"
    /\ Goto(a, "accepted")
    /\ UNCHANGED <<clock, key, born, verdict, cmd, restarts>>

\* The instance is killed while the handler is at work.
Die(a) ==
    /\ pc[a] \in Working
    /\ Goto(a, "lost")
    /\ UNCHANGED <<clock, key, born, verdict, cmd, restarts>>

-----------------------------------------------------------------------------
(* SET NX, which may still run when nobody waits for it.                    *)

Keyed(v) == clock < key[v]

\* Mutant: the key lives until the poll ends, with no margin.
TtlWithoutMargin(a) == Ends - born[a]

\* dedupTTL, from the clock the handler has read; Ends is after it.
Ttl(a) == Ends - born[a] + Margin

Execute(a) ==
    LET v == VoterOf[a] IN
    IF Keyed(v)
    THEN Replies(a, "duplicate") /\ UNCHANGED key
    ELSE Replies(a, "first") /\ key' = [key EXCEPT ![v] = clock + Ttl(a)]

\* Redis runs the command and the reply comes back.
SetNX(a) ==
    /\ cmd[a] = "sent"
    /\ Execute(a)
    /\ UNCHANGED <<clock, handler, restarts>>

\* Mutant: the client repeats a command whose reply it has lost.
SetNXRetried(a) ==
    /\ cmd[a] = "sent"
    /\ key' = [key EXCEPT ![VoterOf[a]] = IF Keyed(VoterOf[a]) THEN @ ELSE clock + Ttl(a)]
    /\ UNCHANGED <<clock, handler, cmd, restarts>>

\* Redis runs the command, the reply is lost; the client does not retry.
SetNXUnheard(a) ==
    /\ cmd[a] = "sent"
    /\ key' = [key EXCEPT ![VoterOf[a]] = IF Keyed(VoterOf[a]) THEN @ ELSE clock + Ttl(a)]
    /\ Replies(a, "error")
    /\ UNCHANGED <<clock, handler, restarts>>

\* The command never gets to Redis.
SetNXFails(a) ==
    /\ cmd[a] = "sent"
    /\ Replies(a, "error")
    /\ UNCHANGED <<clock, key, handler, restarts>>

\* Redis keeps nothing on disk.
RestartRedis ==
    /\ restarts < MaxRestarts
    /\ restarts' = restarts + 1
    /\ key' = [v \in Voters |-> 0]
    /\ UNCHANGED <<clock, handler, cmd>>

DedupTick ==
    /\ clock < MaxTime
    /\ \A a \in Attempts : pc[a] \in Working => clock < born[a] + Limit
    /\ clock' = clock + 1
    /\ UNCHANGED <<key, handler, cmd, restarts>>

-----------------------------------------------------------------------------
Proceed(a) ==
    Invalid(a) \/ Bypass(a) \/ SendSetNX(a) \/ Hear(a) \/ Deadline(a) \/ Count(a)

Handle(a) == Arrive(a) \/ ArriveLate(a) \/ Proceed(a)

Store(a) == SetNX(a) \/ SetNXUnheard(a) \/ SetNXFails(a)

DedupNext == RestartRedis \/ DedupTick \/ \E a \in Attempts : Handle(a) \/ Store(a) \/ Die(a)

DedupSpec == DedupInit /\ [][DedupNext]_dedupVars

\* The goroutine of a handler that has begun is scheduled and its deadline comes.  The store
\* may never answer, and nobody has to vote.
DedupFairness == \A a \in Attempts : WF_dedupVars(Proceed(a))

-----------------------------------------------------------------------------
DedupTypeOK ==
    /\ clock \in Time
    /\ key \in [Voters -> Nat]
    /\ pc \in [Attempts -> {"idle"} \cup Working \cup Ended]
    /\ born \in [Attempts -> {t \in Time : t < Ends}]
    /\ verdict \in [Attempts -> {"none", "first", "duplicate", "bypassed"}]
    /\ cmd \in [Attempts -> {"none", "sent", "first", "duplicate", "error"}]
    /\ restarts \in 0..MaxRestarts

\* The token of a voter passes as a first vote once, whatever attempts overlap, time out or
\* come at the very end of the poll, unless Redis lost the key (vote.go: dedup goes before
\* the increment; dedupTTL: the key outlives the votes still being handled).
FirstOnce ==
    restarts = 0 =>
        \A a, b \in Attempts :
            VoterOf[a] = VoterOf[b] /\ verdict[a] = "first" /\ verdict[b] = "first" => a = b

\* A voter is refused only when another attempt of the same voter set the key, and that one
\* has been counted, is about to be, or died with its instance: no attempt is refused on
\* account of its own key (platform/redis.go: the client does not repeat a command).
RefusedForAnother ==
    \A a \in Attempts : pc[a] = "refused" =>
        \E b \in Attempts \ {a} :
            /\ VoterOf[b] = VoterOf[a]
            /\ pc[b] \in {"wait", "count", "accepted", "lost"}
            /\ cmd[b] \in {"first", "error"}

\* Every handler ends, also when the store never answers (withDeadline).
HandlerEnds == \A a \in Attempts : pc[a] # "idle" ~> pc[a] \in Ended
=============================================================================
