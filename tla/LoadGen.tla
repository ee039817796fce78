------------------------------ MODULE LoadGen ------------------------------
(***************************************************************************)
(* One run of the load generator against a fresh poll with one choice:      *)
(* cmd/loadgen/main.go.  The service is external: it answers as httpapi     *)
(* does, and every reply may be lost after the service has counted.         *)
(***************************************************************************)
EXTENDS Integers, Sequences, FiniteSets, Functions

CONSTANTS
    Workers,
    Total,          \* the votes of the schedule
    Duration,       \* its length, in seconds
    QueueLength,    \* capacity of jobs
    Refusals,       \* the codes of the service other than 200
    LastSecond      \* bound: end of time

ASSUME LoadAssumption ==
    /\ Total \in Nat \ {0} /\ Duration \in Nat /\ QueueLength \in Nat \ {0}
    /\ Refusals \subseteq 201..599 /\ LastSecond \in Nat /\ IsFiniteSet(Workers)

VARIABLES
    second,             \* since the start of the metrics
    fire, next, jobs,   \* fire: where it is, the job to send next, the channel
    work,               \* where each worker is
    code,               \* the answer on its way to it
    lagged, mintFails, codes, votes, buckets,   \* the fields of metrics
    voters,             \* the votes that the service has counted
    seen                \* what verify has read of it

loadVars == <<second, fire, next, jobs, work, code, lagged, mintFails, codes, votes, buckets,
              voters, seen>>

Codes == {0, 200} \cup Refusals     \* 0: no answer
Fields == {"ok", "dup", "limited", "other"}
Unread == -1

LoadInit ==
    /\ second = 0 /\ fire = "idle" /\ next = 0 /\ jobs = <<>>
    /\ work = [w \in Workers |-> "ready"] /\ code = [w \in Workers |-> 0]
    /\ lagged = 0 /\ mintFails = 0 /\ codes = [c \in Codes |-> 0] /\ votes = 0
    /\ buckets = [s \in 0..(Duration + 1) |-> [f \in Fields |-> 0]]
    /\ voters = 0 /\ seen = Unread

-----------------------------------------------------------------------------
(* fire.                                                                   *)

\* The profile flat; that of tv only differs in the offsets.
Offset(i) == (Duration * i) \div Total

Start ==
    /\ fire = "idle" /\ fire' = "sending"
    /\ UNCHANGED <<second, next, jobs, work, code, lagged, mintFails, codes, votes, buckets,
                   voters, seen>>

\* A job is due: it is queued, or the generator lags behind.
Send ==
    /\ fire = "sending" /\ next < Total /\ second >= Offset(next)
    /\ IF Len(jobs) < QueueLength
        THEN jobs' = Append(jobs, next) /\ UNCHANGED lagged
        ELSE lagged' = lagged + 1 /\ UNCHANGED jobs
    /\ next' = next + 1
    /\ UNCHANGED <<second, fire, work, code, mintFails, codes, votes, buckets, voters, seen>>

\* Mutant: the channel is never closed.
NeverClose ==
    /\ fire = "sending" /\ next = Total
    /\ fire' = "waiting"
    /\ UNCHANGED <<second, next, jobs, work, code, lagged, mintFails, codes, votes, buckets,
                   voters, seen>>

Close ==
    /\ fire = "sending" /\ next = Total
    /\ fire' = "closed"
    /\ UNCHANGED <<second, next, jobs, work, code, lagged, mintFails, codes, votes, buckets,
                   voters, seen>>

\* wg.Wait returns.
FireReturns ==
    /\ fire = "closed" /\ \A w \in Workers : work[w] = "ended"
    /\ fire' = "done"
    /\ UNCHANGED <<second, next, jobs, work, code, lagged, mintFails, codes, votes, buckets,
                   voters, seen>>

-----------------------------------------------------------------------------
(* A worker: castOne, and what the service does with it.                   *)

Works(w, x) == work' = [work EXCEPT ![w] = x]

Take(w) ==
    /\ work[w] = "ready"
    /\ \/ jobs # <<>> /\ jobs' = Tail(jobs) /\ Works(w, "mint")
       \/ jobs = <<>> /\ fire = "closed" /\ Works(w, "ended") /\ UNCHANGED jobs
    /\ UNCHANGED <<second, fire, next, code, lagged, mintFails, codes, votes, buckets, voters,
                   seen>>

Minted(w) ==
    /\ work[w] = "mint"
    /\ Works(w, "vote")
    /\ UNCHANGED <<second, fire, next, jobs, code, lagged, mintFails, codes, votes, buckets,
                   voters, seen>>

\* Mutant: a failed mint ends the job without a trace.
MintForgotten(w) ==
    /\ work[w] = "mint"
    /\ Works(w, "ready")
    /\ UNCHANGED <<second, fire, next, jobs, code, lagged, mintFails, codes, votes, buckets,
                   voters, seen>>

MintFails(w) ==
    /\ work[w] = "mint"
    /\ mintFails' = mintFails + 1
    /\ Works(w, "ready")
    /\ UNCHANGED <<second, fire, next, jobs, code, lagged, codes, votes, buckets, voters, seen>>

\* The service answers the vote; it counts it when it answers 200.
Serve(w) ==
    /\ work[w] = "vote"
    /\ \E c \in Codes \ {0} : code' = [code EXCEPT ![w] = c]
    /\ voters' = IF code'[w] = 200 THEN voters + 1 ELSE voters
    /\ Works(w, "reply")
    /\ UNCHANGED <<second, fire, next, jobs, lagged, mintFails, codes, votes, buckets, seen>>

FieldOf(c) ==
    CASE c = 200 -> "ok" [] c = 409 -> "dup" [] c = 429 -> "limited" [] OTHER -> "other"

\* metrics.record: what falls behind the last bucket is in no bucket.
Record(w, c) ==
    /\ votes' = votes + 1
    /\ codes' = [codes EXCEPT ![c] = @ + 1]
    /\ buckets' = IF second \in DOMAIN buckets
                    THEN [buckets EXCEPT ![second][FieldOf(c)] = @ + 1] ELSE buckets
    /\ Works(w, "ready") /\ code' = [code EXCEPT ![w] = 0]
    /\ UNCHANGED <<second, fire, next, jobs, lagged, mintFails, voters, seen>>

Reply(w) == work[w] = "reply" /\ Record(w, code[w])

\* Mutant: an error counts as the answer that was expected.
FailAsOk(w) == work[w] \in {"vote", "reply"} /\ Record(w, 200)

\* The vote is lost, or its reply is, or the client's timeout comes first.
Fail(w) == work[w] \in {"vote", "reply"} /\ Record(w, 0)

-----------------------------------------------------------------------------
\* verify, three seconds later: the votes have arrived in the results.
Verify3s ==
    /\ fire = "done" /\ seen = Unread
    /\ seen' = voters
    /\ UNCHANGED <<second, fire, next, jobs, work, code, lagged, mintFails, codes, votes,
                   buckets, voters>>

LoadTick ==
    /\ fire \in {"sending", "closed"} /\ second < LastSecond
    /\ second' = second + 1
    /\ UNCHANGED <<fire, next, jobs, work, code, lagged, mintFails, codes, votes, buckets,
                   voters, seen>>

Worker(w) == Take(w) \/ Minted(w) \/ MintFails(w) \/ Serve(w) \/ Reply(w) \/ Fail(w)

\* What goes on by itself.
LoadSteps ==
    Send \/ Close \/ FireReturns \/ LoadTick \/ \E w \in Workers : Worker(w)

LoadNext == Start \/ LoadSteps \/ Verify3s

\* Some goroutine that can run does, and the client's timeout ends a request without answer.
LoadFairness == WF_loadVars(LoadSteps)

-----------------------------------------------------------------------------
LoadTypeOK ==
    /\ second \in 0..LastSecond /\ fire \in {"idle", "sending", "closed", "done"}
    /\ next \in 0..Total /\ Len(jobs) <= QueueLength
    /\ work \in [Workers -> {"ready", "mint", "vote", "reply", "ended"}]
    /\ code \in [Workers -> Codes] /\ codes \in [Codes -> 0..Total]
    /\ voters \in 0..Total /\ seen \in {Unread} \cup 0..Total

\* The votes of the buckets that are shown in the field f.
InBuckets(f) == SumFunction([s \in DOMAIN buckets |-> buckets[s][f]])

\* main.go fire, castOne, record: every scheduled vote is in exactly one place: it lags, its
\* mint failed, it is recorded under one code, or it is still queued or at a worker; and the
\* buckets of the report add up to the codes while there is a bucket for the time.
VotesAccounted ==
    /\ next = lagged + mintFails + SumFunction(codes) + Len(jobs)
                + Cardinality({w \in Workers : work[w] \in {"mint", "vote", "reply"}})
    /\ votes = SumFunction(codes)
    /\ InBuckets("ok") <= codes[200]
    /\ second \in DOMAIN buckets =>
        InBuckets("ok") = codes[200] /\ SumFunction([f \in Fields |-> InBuckets(f)]) = votes

\* main.go verify ("the divergence of the counters proves it"): against a service that counts
\* every vote it accepts, the divergence is no more than the requests without an answer, and
\* never a vote that is missing in the service.
DivergenceExplained == seen # Unread => seen - codes[200] \in 0..codes[0]

\* main.go fire: the run ends once it has begun, whatever the service answers or loses.
FireEnds == fire = "sending" ~> fire = "done"
=============================================================================
