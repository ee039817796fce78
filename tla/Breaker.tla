------------------------------ MODULE Breaker ------------------------------
(***************************************************************************)
(* The circuit breaker of one instance: internal/breaker/breaker.go, as     *)
(* internal/dedup/redis.go (GuardedChecker.Check) calls it.                 *)
(*                                                                         *)
(* Every request of a handler runs Allow, the guarded call if it was let    *)
(* through, and Success or Failure.  The breaker has no lock: one action is *)
(* one atomic load, store, swap or compare-and-swap, or one reading of the  *)
(* clock, and the steps of concurrent requests interleave freely.           *)
(***************************************************************************)
EXTENDS Naturals, FiniteSets

CONSTANTS
    Requests,       \* goroutines that call Check, over and over
    ErrorThreshold, \* Config: as many errors within the window open the circuit
    Window,         \* Config: length of the window of errors
    ProbeInterval,  \* Config: time between two probes
    Limit,          \* longest a request takes, from Allow to the end of its report
    Outage,         \* bound: the guarded call no longer fails from this time on
    MaxTime         \* bound: end of time

\* New replaces a threshold that is not positive by 1.
Threshold == IF ErrorThreshold = 0 THEN 1 ELSE ErrorThreshold

ASSUME ConfigAssumption ==
    /\ ErrorThreshold \in Nat /\ Window \in Nat /\ ProbeInterval \in Nat
    /\ Outage \in Nat /\ MaxTime \in Nat

\* The timeout of the guarded call is much shorter than the interval between probes.
ASSUME LimitAssumption == Limit \in Nat /\ 2 * Limit < ProbeInterval

VARIABLES
    now,            \* the clock
    state, stamp, errs, windowStart,    \* the fields of Breaker
    pc,             \* where each request is
    t,              \* its local variable now
    seen,           \* the stamp, or the windowStart, that it has loaded
    born,           \* when it called Allow
    probes,         \* history: the requests let through as a probe, at work
    opened          \* history: when it last became open

fields == <<state, stamp, errs, windowStart>>
locals == <<t, seen, born>>
history == <<probes, opened>>
vars == <<now, fields, pc, locals, history>>

Time == 0..MaxTime
Labels == {"idle", "clock", "age", "swap", "halve", "call", "succeed", "reset", "close",
           "fail", "judge", "reopen", "open", "window", "shift", "clear", "count"}

Init ==
    /\ now = 0
    /\ state = "closed" /\ stamp = 0 /\ errs = 0 /\ windowStart = 0
    /\ pc = [r \in Requests |-> "idle"]
    /\ t = [r \in Requests |-> 0] /\ seen = [r \in Requests |-> 0]
    /\ born = [r \in Requests |-> 0]
    /\ probes = {} /\ opened = 0

\* Control of r moves on.
At(r, l) == pc[r] = l
Goto(r, l) == pc' = [pc EXCEPT ![r] = l]

\* r reads the clock; r loads a field.
ReadClock(r) == t' = [t EXCEPT ![r] = now] /\ UNCHANGED <<seen, born>>
Load(r, x) == seen' = [seen EXCEPT ![r] = x] /\ UNCHANGED <<t, born>>

\* r leaves the breaker.
Leave(r) ==
    /\ Goto(r, "idle")
    /\ t' = [t EXCEPT ![r] = 0] /\ seen' = [seen EXCEPT ![r] = 0]
    /\ born' = [born EXCEPT ![r] = 0]
    /\ probes' = probes \ {r}

-----------------------------------------------------------------------------
(* Allow.                                                                  *)

\* A closed circuit lets everybody through.
AllowLoad(r) ==
    /\ At(r, "idle")
    /\ born' = [born EXCEPT ![r] = now]
    /\ Goto(r, IF state = "closed" THEN "call" ELSE "clock")
    /\ UNCHANGED <<now, fields, t, seen, history>>

AllowClock(r) ==
    /\ At(r, "clock")
    /\ ReadClock(r)
    /\ Goto(r, "age")
    /\ UNCHANGED <<now, fields, history>>

\* Too early for a probe: the request bypasses the store.
AllowDeny(r) ==
    /\ At(r, "age")
    /\ t[r] < stamp + ProbeInterval
    /\ Leave(r)
    /\ UNCHANGED <<now, fields, opened>>

AllowStamp(r) ==
    /\ At(r, "age")
    /\ t[r] >= stamp + ProbeInterval
    /\ Load(r, stamp)
    /\ Goto(r, "swap")
    /\ UNCHANGED <<now, fields, history>>

\* Mutant: the winner of the race is not decided by the stamp.
AllowWithoutSwap(r) ==
    /\ At(r, "swap")
    /\ stamp' = t[r]
    /\ Goto(r, "halve")
    /\ probes' = probes \cup {r}
    /\ UNCHANGED <<now, state, errs, windowStart, locals, opened>>

\* CompareAndSwap on the stamp decides who is the probe.
AllowSwap(r) ==
    /\ At(r, "swap")
    /\ stamp = seen[r]
    /\ stamp' = t[r]
    /\ Goto(r, "halve")
    /\ probes' = probes \cup {r}
    /\ UNCHANGED <<now, state, errs, windowStart, locals, opened>>

AllowLoses(r) ==
    /\ At(r, "swap")
    /\ stamp # seen[r]
    /\ Leave(r)
    /\ UNCHANGED <<now, fields, opened>>

AllowHalf(r) ==
    /\ At(r, "halve")
    /\ state' = "half-open"
    /\ Goto(r, "call")
    /\ UNCHANGED <<now, stamp, errs, windowStart, locals, history>>

Allow(r) ==
    \/ AllowLoad(r) \/ AllowClock(r) \/ AllowDeny(r) \/ AllowStamp(r)
    \/ AllowSwap(r) \/ AllowLoses(r) \/ AllowHalf(r)

-----------------------------------------------------------------------------
(* The guarded call, which always ends by its deadline.                    *)

Answered(r) ==
    /\ At(r, "call")
    /\ Goto(r, "succeed")
    /\ UNCHANGED <<now, fields, locals, history>>

\* An error, the timeout, or a cancelled request.
Failed(r) ==
    /\ At(r, "call")
    /\ now < Outage
    /\ Goto(r, "fail")
    /\ UNCHANGED <<now, fields, locals, history>>

-----------------------------------------------------------------------------
(* Success.                                                                *)

\* Mutant: a half-open circuit is left as it is.
SuccessLoadOpen(r) ==
    /\ At(r, "succeed")
    /\ IF state # "open" THEN Leave(r) ELSE Goto(r, "reset") /\ UNCHANGED <<locals, probes>>
    /\ UNCHANGED <<now, fields, opened>>

SuccessLoad(r) ==
    /\ At(r, "succeed")
    /\ IF state = "closed" THEN Leave(r) ELSE Goto(r, "reset") /\ UNCHANGED <<locals, probes>>
    /\ UNCHANGED <<now, fields, opened>>

SuccessReset(r) ==
    /\ At(r, "reset")
    /\ errs' = 0
    /\ Goto(r, "close")
    /\ UNCHANGED <<now, state, stamp, windowStart, locals, history>>

\* Mutant: Success only resets the count of errors.
SuccessKeepsState(r) ==
    /\ At(r, "close")
    /\ Leave(r)
    /\ UNCHANGED <<now, fields, opened>>

SuccessClose(r) ==
    /\ At(r, "close")
    /\ state' = "closed"
    /\ Leave(r)
    /\ UNCHANGED <<now, stamp, errs, windowStart, opened>>

Success(r) == SuccessLoad(r) \/ SuccessReset(r) \/ SuccessClose(r)

-----------------------------------------------------------------------------
(* Failure.                                                                *)

FailureClock(r) ==
    /\ At(r, "fail")
    /\ ReadClock(r)
    /\ Goto(r, "judge")
    /\ UNCHANGED <<now, fields, history>>

FailureLoad(r) ==
    /\ At(r, "judge")
    /\ Goto(r, IF state # "closed" THEN "reopen" ELSE "window")
    /\ UNCHANGED <<now, fields, locals, history>>

\* Mutant: the stamp stays what it was.
FailureKeepsStamp(r) ==
    /\ At(r, "reopen")
    /\ Goto(r, "open")
    /\ UNCHANGED <<now, fields, locals, history>>

\* The circuit opens: the stamp is stored before the state.
FailureStamp(r) ==
    /\ At(r, "reopen")
    /\ stamp' = t[r]
    /\ Goto(r, "open")
    /\ UNCHANGED <<now, state, errs, windowStart, locals, history>>

FailureOpen(r) ==
    /\ At(r, "open")
    /\ state' = "open"
    /\ opened' = IF state = "open" THEN opened ELSE now
    /\ Leave(r)
    /\ UNCHANGED <<now, stamp, errs, windowStart>>

FailureWindow(r) ==
    /\ At(r, "window")
    /\ Load(r, windowStart)
    /\ Goto(r, IF t[r] > windowStart + Window THEN "shift" ELSE "count")
    /\ UNCHANGED <<now, fields, history>>

\* CompareAndSwap on windowStart: the loser goes on to count its error.
FailureShift(r) ==
    /\ At(r, "shift")
    /\ windowStart' = IF windowStart = seen[r] THEN t[r] ELSE windowStart
    /\ Goto(r, IF windowStart = seen[r] THEN "clear" ELSE "count")
    /\ UNCHANGED <<now, state, stamp, errs, locals, history>>

\* Mutant: one error falls out of the window, not all of them.
FailureForgivesOne(r) ==
    /\ At(r, "clear")
    /\ errs' = errs - 1
    /\ Goto(r, "count")
    /\ UNCHANGED <<now, state, stamp, windowStart, locals, history>>

FailureClear(r) ==
    /\ At(r, "clear")
    /\ errs' = 0
    /\ Goto(r, "count")
    /\ UNCHANGED <<now, state, stamp, windowStart, locals, history>>

\* Below the threshold the error is only counted; at the threshold the circuit opens.
FailureCount(r) ==
    /\ At(r, "count")
    /\ errs' = errs + 1
    /\ IF errs + 1 >= Threshold THEN Goto(r, "reopen") /\ UNCHANGED <<locals, probes>>
                                ELSE Leave(r)
    /\ UNCHANGED <<now, state, stamp, windowStart, opened>>

Failure(r) ==
    \/ FailureClock(r) \/ FailureLoad(r) \/ FailureStamp(r) \/ FailureOpen(r)
    \/ FailureWindow(r) \/ FailureShift(r) \/ FailureClear(r) \/ FailureCount(r)

-----------------------------------------------------------------------------
\* Time passes, but no request outlives its limit.
Tick ==
    /\ now < MaxTime
    /\ \A r \in Requests : pc[r] # "idle" => now < born[r] + Limit
    /\ now' = now + 1
    /\ UNCHANGED <<fields, pc, locals, history>>

Request(r) == Allow(r) \/ Answered(r) \/ Failed(r) \/ Success(r) \/ Failure(r)

Next == (\E r \in Requests : Request(r)) \/ Tick

Spec == Init /\ [][Next]_vars

\* The goroutine of a request is scheduled, voters keep voting, time goes on.
FairSpec == Spec /\ SF_vars(Tick) /\ \A r \in Requests : WF_vars(Request(r))

-----------------------------------------------------------------------------
TypeOK ==
    /\ now \in Time
    /\ state \in {"closed", "open", "half-open"}
    /\ stamp \in Time /\ errs \in Nat /\ windowStart \in Time
    /\ pc \in [Requests -> Labels]
    /\ t \in [Requests -> Time] /\ seen \in [Requests -> Time] /\ born \in [Requests -> Time]
    /\ probes \in SUBSET Requests /\ opened \in Time

\* At most one probe is at work (breaker.go Allow: "exactly one request passes as the
\* probe"): however the compare-and-swaps, a late Failure that stores an older stamp and
\* a late Success that closes the circuit interleave.
OneProbe == Cardinality(probes) <= 1

\* A half-open circuit has its probe at work, which will close or reopen it: it is never
\* half-open with nobody to report (breaker.go Allow, Success, Failure).
HalfOpenHasProbe == state = "half-open" => probes # {}

\* A request goes to the store as a probe only when the circuit has been open for the
\* probe interval (breaker.go Failure: "a failed probe opens the circuit again for the
\* whole interval"), less two requests' time: a Failure may store its stamp that late, and
\* over the newer stamp of another one.
ProbeKeepsInterval ==
    [][probes' \subseteq probes \/ now + 2 * Limit >= opened + ProbeInterval]_vars

\* Once the store answers again the circuit closes for good, although failed probes,
\* races for the stamp and denied requests go on meanwhile.
Recovers == <>[](state = "closed")

\* breaker.go: an open circuit lets no request through before the probe interval is over.
OpenForInterval ==
    [][state = "open" /\ state' # "open" => now >= stamp + ProbeInterval]_vars
=============================================================================
