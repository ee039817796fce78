--------------------------- MODULE BreakerProofs ---------------------------
(***************************************************************************)
(* Proofs about Breaker, for every number of requests, every threshold,     *)
(* every window and every interval between probes.                         *)
(*                                                                         *)
(* Whatever value is stored into the stamp was read from the clock by a     *)
(* request at work, so it is at most Limit old when it is stored.  A second *)
(* probe would have to read a time ProbeInterval after the stamp, while the *)
(* first one is at work, which began at most Limit after the stamp and      *)
(* takes at most Limit: too early, because 2 * Limit < ProbeInterval.       *)
(***************************************************************************)
EXTENDS Breaker, FiniteSetTheorems, TLAPS

\* A request that has a reading of the clock in t.
Timed == {"age", "swap", "halve", "judge", "reopen", "open", "window", "shift", "clear", "count"}

\* A request in the branch of Failure that found the circuit closed.
Counting == {"window", "shift", "clear", "count"}

\* A request that was let through, until the end of its report.
Sent == {"halve", "call", "succeed", "reset", "close", "fail", "judge", "reopen", "open"}
            \cup Counting

\* No request outlives its limit, and the clock was read while it was at work.
Aged ==
    \A r \in Requests :
        /\ pc[r] # "idle" => born[r] <= now /\ now <= born[r] + Limit
        /\ pc[r] \in Timed => born[r] <= t[r] /\ t[r] <= now

\* A probe is due when its request goes to swap the stamp.
Due == \A r \in Requests : pc[r] = "swap" => t[r] >= seen[r] + ProbeInterval

\* The stamp is never much older than the probe at work, or than the last opening.
StampInv ==
    /\ \A r \in probes : stamp + Limit >= born[r]
    /\ \A r \in Requests : pc[r] = "open" => stamp + Limit >= born[r]
    /\ opened <= now /\ stamp + 2 * Limit >= opened

\* There is one probe, it was let through, and it is the one that makes the circuit half-open.
ProbeInv ==
    /\ \A r \in probes : pc[r] \in Sent
    /\ \A r \in Requests : pc[r] = "halve" => r \in probes
    /\ \A r, s \in probes : r = s

\* A probe that counts its error has found the circuit closed.
HalfInv ==
    /\ state = "half-open" => probes # {}
    /\ \A r \in probes : pc[r] \in Counting => state # "half-open"

IInv == TypeOK /\ Aged /\ Due /\ StampInv /\ ProbeInv /\ HalfInv

-----------------------------------------------------------------------------
\* The steps of a request, one by one.
LEMMA RequestSteps ==
  ASSUME NEW r \in Requests, Request(r)
  PROVE  \/ AllowLoad(r) \/ AllowClock(r) \/ AllowDeny(r) \/ AllowStamp(r) \/ AllowSwap(r)
         \/ AllowLoses(r) \/ AllowHalf(r) \/ Answered(r) \/ Failed(r)
         \/ SuccessLoad(r) \/ SuccessReset(r) \/ SuccessClose(r)
         \/ FailureClock(r) \/ FailureLoad(r) \/ FailureStamp(r) \/ FailureOpen(r)
         \/ FailureWindow(r) \/ FailureShift(r) \/ FailureClear(r) \/ FailureCount(r)
BY DEF Request, Allow, Success, Failure

\* Every step keeps the types.
LEMMA TypeStep ==
  ASSUME TypeOK, [Next]_vars
  PROVE  TypeOK'
<1> USE ConfigAssumption DEF TypeOK, Labels, Time, fields, locals, history, At, Goto, ReadClock, Load, Leave
<1>1. ASSUME NEW r \in Requests, Request(r)
      PROVE  TypeOK'
  <2>1. CASE AllowLoad(r) \/ AllowClock(r) \/ AllowDeny(r) \/ AllowStamp(r)
    BY <2>1 DEF AllowLoad, AllowClock, AllowDeny, AllowStamp
  <2>2. CASE AllowSwap(r) \/ AllowLoses(r) \/ AllowHalf(r)
    BY <2>2 DEF AllowSwap, AllowLoses, AllowHalf
  <2>3. CASE Answered(r) \/ Failed(r) \/ SuccessLoad(r) \/ SuccessReset(r) \/ SuccessClose(r)
    BY <2>3 DEF Answered, Failed, SuccessLoad, SuccessReset, SuccessClose
  <2>4. CASE FailureClock(r) \/ FailureLoad(r) \/ FailureStamp(r) \/ FailureOpen(r)
    BY <2>4 DEF FailureClock, FailureLoad, FailureStamp, FailureOpen
  <2>5. CASE FailureWindow(r) \/ FailureShift(r) \/ FailureClear(r)
    BY <2>5 DEF FailureWindow, FailureShift, FailureClear
  <2>6. CASE FailureCount(r)
    BY <2>6 DEF FailureCount
  <2> QED
    BY <1>1, <2>1, <2>2, <2>3, <2>4, <2>5, <2>6, RequestSteps
<1>2. CASE Tick
  BY <1>2 DEF Tick
<1>3. CASE UNCHANGED vars
  BY <1>3 DEF vars
<1> QED
  BY <1>1, <1>2, <1>3 DEF Next

\* Every step keeps the ages of the requests and their readings of the clock.
LEMMA AgedStep ==
  ASSUME TypeOK, Aged, [Next]_vars
  PROVE  Aged'
<1> USE ConfigAssumption, LimitAssumption
    DEF TypeOK, Aged, Timed, Time, fields, locals, history, At, Goto, ReadClock, Load, Leave
<1>1. ASSUME NEW r \in Requests, Request(r)
      PROVE  Aged'
  <2>1. CASE AllowLoad(r) \/ AllowClock(r) \/ AllowDeny(r) \/ AllowStamp(r)
    BY <2>1 DEF AllowLoad, AllowClock, AllowDeny, AllowStamp
  <2>2. CASE AllowSwap(r) \/ AllowLoses(r) \/ AllowHalf(r)
    BY <2>2 DEF AllowSwap, AllowLoses, AllowHalf
  <2>3. CASE Answered(r) \/ Failed(r) \/ SuccessLoad(r) \/ SuccessReset(r) \/ SuccessClose(r)
    BY <2>3 DEF Answered, Failed, SuccessLoad, SuccessReset, SuccessClose
  <2>4. CASE FailureClock(r) \/ FailureLoad(r) \/ FailureStamp(r) \/ FailureOpen(r)
    BY <2>4 DEF FailureClock, FailureLoad, FailureStamp, FailureOpen
  <2>5. CASE FailureWindow(r) \/ FailureShift(r) \/ FailureClear(r)
    BY <2>5 DEF FailureWindow, FailureShift, FailureClear
  <2>6. CASE FailureCount(r)
    BY <2>6 DEF FailureCount
  <2> QED
    BY <1>1, <2>1, <2>2, <2>3, <2>4, <2>5, <2>6, RequestSteps
<1>2. CASE Tick
  BY <1>2 DEF Tick
<1>3. CASE UNCHANGED vars
  BY <1>3 DEF vars
<1> QED
  BY <1>1, <1>2, <1>3 DEF Next

\* Every step keeps the requests that go to swap the stamp due.
LEMMA DueStep ==
  ASSUME TypeOK, Due, [Next]_vars
  PROVE  Due'
<1> USE ConfigAssumption DEF TypeOK, Due, Time, fields, locals, history, At, Goto, ReadClock, Load, Leave
<1>1. ASSUME NEW r \in Requests, Request(r)
      PROVE  Due'
  <2>1. CASE AllowStamp(r)
    BY <2>1 DEF AllowStamp
  <2>2. CASE AllowLoad(r) \/ AllowClock(r) \/ AllowDeny(r)
    BY <2>2 DEF AllowLoad, AllowClock, AllowDeny
  <2>3. CASE AllowSwap(r) \/ AllowLoses(r) \/ AllowHalf(r) \/ Answered(r) \/ Failed(r)
    BY <2>3 DEF AllowSwap, AllowLoses, AllowHalf, Answered, Failed
  <2>4. CASE SuccessLoad(r) \/ SuccessReset(r) \/ SuccessClose(r)
    BY <2>4 DEF SuccessLoad, SuccessReset, SuccessClose
  <2>5. CASE FailureClock(r) \/ FailureLoad(r) \/ FailureStamp(r) \/ FailureOpen(r)
    BY <2>5 DEF FailureClock, FailureLoad, FailureStamp, FailureOpen
  <2>6. CASE FailureWindow(r) \/ FailureShift(r) \/ FailureClear(r) \/ FailureCount(r)
    BY <2>6 DEF FailureWindow, FailureShift, FailureClear, FailureCount
  <2> QED
    BY <1>1, <2>1, <2>2, <2>3, <2>4, <2>5, <2>6, RequestSteps
<1>2. CASE Tick \/ UNCHANGED vars
  BY <1>2 DEF Tick, vars
<1> QED
  BY <1>1, <1>2 DEF Next

-----------------------------------------------------------------------------
\* A request wins the stamp only when nobody is a probe.
LEMMA SwapFindsNoProbe ==
  ASSUME TypeOK, Aged, Due, StampInv, ProbeInv, NEW r \in Requests, AllowSwap(r)
  PROVE  probes = {}
<1>1. SUFFICES ASSUME NEW s \in probes
               PROVE  FALSE
  OBVIOUS
<1>2. s \in Requests /\ pc[s] # "idle"
  BY DEF TypeOK, ProbeInv, Sent, Counting
<1>3. /\ born[s] \in Nat /\ t[r] \in Nat /\ stamp \in Nat /\ now \in Nat
      /\ ProbeInterval \in Nat /\ Limit \in Nat
  BY <1>2, ConfigAssumption, LimitAssumption DEF TypeOK, Time
<1>4. t[r] >= stamp + ProbeInterval /\ t[r] <= now
  BY DEF AllowSwap, At, Due, Aged, Timed
<1>5. now <= born[s] + Limit /\ stamp + Limit >= born[s]
  BY <1>2 DEF Aged, StampInv
<1> QED
  BY <1>3, <1>4, <1>5, LimitAssumption

\* A time that a request stores into the stamp is at most Limit old.
LEMMA StoredStamp ==
  ASSUME TypeOK, Aged, StampInv, NEW r \in Requests, pc[r] \in Timed,
         NEW s \in Requests, pc[s] # "idle"
  PROVE  t[r] + Limit >= born[s] /\ t[r] + Limit >= opened
<1>1. /\ born[r] \in Nat /\ born[s] \in Nat /\ t[r] \in Nat /\ now \in Nat
      /\ opened \in Nat /\ Limit \in Nat
  BY ConfigAssumption, LimitAssumption DEF TypeOK, Time
<1>2. born[r] <= t[r] /\ now <= born[r] + Limit
  BY DEF Aged, Timed
<1>3. born[s] <= now /\ opened <= now
  BY DEF Aged, StampInv
<1> QED
  BY <1>1, <1>2, <1>3

\* Every step keeps the stamp close to the probe and to the last opening.
LEMMA StampStep ==
  ASSUME TypeOK, Aged, Due, StampInv, ProbeInv, [Next]_vars
  PROVE  StampInv'
<1> USE ConfigAssumption, LimitAssumption DEF fields, locals, history, At, Goto, Leave
<1>1. ASSUME NEW r \in Requests, Request(r)
      PROVE  StampInv'
  <2>1. CASE AllowSwap(r)
    <3>1. probes' = {r} /\ stamp' = t[r] /\ born' = born /\ opened' = opened /\ now' = now
      BY <2>1, SwapFindsNoProbe DEF AllowSwap
    <3>2. pc[r] \in Timed /\ \A s \in Requests : pc'[s] = "open" => pc[s] = "open"
      BY <2>1 DEF AllowSwap, TypeOK, Timed
    <3> QED
      BY <3>1, <3>2, StoredStamp DEF StampInv, TypeOK, Time, Timed
  <2>2. CASE FailureStamp(r)
    <3>1. probes' = probes /\ stamp' = t[r] /\ born' = born /\ opened' = opened /\ now' = now
      BY <2>2 DEF FailureStamp
    <3>2. pc[r] \in Timed /\ pc[r] # "idle" /\ \A s \in Requests : pc'[s] = "open" => pc[s] # "idle"
      BY <2>2 DEF FailureStamp, TypeOK, Timed
    <3>3. probes \subseteq Requests /\ \A s \in probes : pc[s] # "idle"
      BY DEF TypeOK, ProbeInv, Sent, Counting
    <3>4. \A s \in Requests : pc[s] # "idle" => t[r] + Limit >= born[s] /\ t[r] + Limit >= opened
      BY <3>2, StoredStamp
    <3>5. t[r] + 2 * Limit >= opened
      BY <3>2, <3>4 DEF TypeOK, Time
    <3> QED
      BY <3>1, <3>2, <3>3, <3>4, <3>5 DEF StampInv
  <2>3. CASE FailureOpen(r)
    <3>1. pc[r] = "open" /\ now <= born[r] + Limit /\ stamp + Limit >= born[r]
      BY <2>3 DEF FailureOpen, Aged, StampInv
    <3>2. stamp + 2 * Limit >= now
      BY <3>1 DEF TypeOK, Time
    <3> QED
      BY <2>3, <3>1, <3>2 DEF FailureOpen, StampInv, TypeOK, Time
  <2>4. CASE AllowLoad(r) \/ AllowClock(r) \/ AllowDeny(r) \/ AllowStamp(r)
    BY <2>4 DEF AllowLoad, AllowClock, AllowDeny, AllowStamp, ReadClock, Load, StampInv, ProbeInv, Sent, Counting, TypeOK, Time
  <2>5. CASE AllowLoses(r) \/ AllowHalf(r) \/ Answered(r) \/ Failed(r)
    BY <2>5 DEF AllowLoses, AllowHalf, Answered, Failed, StampInv, TypeOK, Time
  <2>6. CASE SuccessLoad(r) \/ SuccessReset(r) \/ SuccessClose(r)
    BY <2>6 DEF SuccessLoad, SuccessReset, SuccessClose, StampInv, TypeOK, Time
  <2>7. CASE FailureClock(r) \/ FailureLoad(r) \/ FailureWindow(r) \/ FailureShift(r) \/ FailureClear(r)
    BY <2>7 DEF FailureClock, FailureLoad, FailureWindow, FailureShift, FailureClear, ReadClock, Load, StampInv, TypeOK, Time
  <2>8. CASE FailureCount(r)
    BY <2>8 DEF FailureCount, StampInv, TypeOK, Time
  <2> QED
    BY <1>1, <2>1, <2>2, <2>3, <2>4, <2>5, <2>6, <2>7, <2>8, RequestSteps
<1>2. CASE Tick
  BY <1>2 DEF Tick, StampInv, TypeOK, Time
<1>3. CASE UNCHANGED vars
  BY <1>3 DEF vars, StampInv
<1> QED
  BY <1>1, <1>2, <1>3 DEF Next

\* Every step keeps the probe the only one.
LEMMA ProbeStep ==
  ASSUME TypeOK, Aged, Due, StampInv, ProbeInv, [Next]_vars
  PROVE  ProbeInv'
<1> USE DEF fields, locals, history, At, Goto, Leave, TypeOK, ProbeInv, Sent, Counting
<1>1. ASSUME NEW r \in Requests, Request(r)
      PROVE  ProbeInv'
  <2>1. CASE AllowSwap(r)
    <3>1. probes' = {r}
      BY <2>1, SwapFindsNoProbe DEF AllowSwap
    <3> QED
      BY <2>1, <3>1 DEF AllowSwap
  <2>2. CASE AllowLoad(r) \/ AllowClock(r) \/ AllowDeny(r) \/ AllowStamp(r)
    BY <2>2 DEF AllowLoad, AllowClock, AllowDeny, AllowStamp
  <2>3. CASE AllowLoses(r) \/ AllowHalf(r) \/ Answered(r) \/ Failed(r)
    BY <2>3 DEF AllowLoses, AllowHalf, Answered, Failed
  <2>4. CASE SuccessLoad(r) \/ SuccessReset(r) \/ SuccessClose(r)
    BY <2>4 DEF SuccessLoad, SuccessReset, SuccessClose
  <2>5. CASE FailureClock(r) \/ FailureLoad(r) \/ FailureStamp(r) \/ FailureOpen(r)
    BY <2>5 DEF FailureClock, FailureLoad, FailureStamp, FailureOpen
  <2>6. CASE FailureWindow(r) \/ FailureShift(r) \/ FailureClear(r) \/ FailureCount(r)
    BY <2>6 DEF FailureWindow, FailureShift, FailureClear, FailureCount
  <2> QED
    BY <1>1, <2>1, <2>2, <2>3, <2>4, <2>5, <2>6, RequestSteps
<1>2. CASE Tick \/ UNCHANGED vars
  BY <1>2 DEF Tick, vars
<1> QED
  BY <1>1, <1>2 DEF Next

\* Every step keeps a probe at work while the circuit is half-open.
LEMMA HalfStep ==
  ASSUME TypeOK, ProbeInv, HalfInv, [Next]_vars
  PROVE  HalfInv'
<1> USE DEF fields, locals, history, At, Goto, Leave, TypeOK, ProbeInv, HalfInv, Sent, Counting
<1>1. ASSUME NEW r \in Requests, Request(r)
      PROVE  HalfInv'
  <2>1. CASE AllowSwap(r)
    BY <2>1 DEF AllowSwap
  <2>2. CASE AllowLoad(r) \/ AllowClock(r) \/ AllowDeny(r) \/ AllowStamp(r)
    BY <2>2 DEF AllowLoad, AllowClock, AllowDeny, AllowStamp
  <2>3. CASE AllowLoses(r) \/ Answered(r) \/ Failed(r)
    BY <2>3 DEF AllowLoses, Answered, Failed
  <2>4. CASE AllowHalf(r)
    BY <2>4 DEF AllowHalf
  <2>5. CASE SuccessLoad(r) \/ SuccessReset(r) \/ SuccessClose(r)
    BY <2>5 DEF SuccessLoad, SuccessReset, SuccessClose
  <2>6. CASE FailureClock(r) \/ FailureLoad(r) \/ FailureStamp(r)
    BY <2>6 DEF FailureClock, FailureLoad, FailureStamp
  <2>7. CASE FailureOpen(r)
    BY <2>7 DEF FailureOpen
  <2>8. CASE FailureWindow(r) \/ FailureShift(r) \/ FailureClear(r) \/ FailureCount(r)
    BY <2>8 DEF FailureWindow, FailureShift, FailureClear, FailureCount
  <2> QED
    BY <1>1, <2>1, <2>2, <2>3, <2>4, <2>5, <2>6, <2>7, <2>8, RequestSteps
<1>2. CASE Tick \/ UNCHANGED vars
  BY <1>2 DEF Tick, vars
<1> QED
  BY <1>1, <1>2 DEF Next

-----------------------------------------------------------------------------
\* The inductive invariant holds at first.
LEMMA InitInv ==
  ASSUME Init
  PROVE  IInv
BY ConfigAssumption, LimitAssumption
DEF Init, IInv, TypeOK, Labels, Time, Aged, Timed, Due, StampInv, ProbeInv, HalfInv

\* Every step keeps the inductive invariant.
LEMMA NextInv ==
  ASSUME IInv, [Next]_vars
  PROVE  IInv'
BY TypeStep, AgedStep, DueStep, StampStep, ProbeStep, HalfStep DEF IInv

\* The inductive invariant holds in every state.
THEOREM Invariance == Spec => []IInv
BY InitInv, NextInv, PTL DEF Spec

\* The fields of the breaker and the requests keep their types (breaker.go Breaker).
THEOREM Types == Spec => []TypeOK
<1>1. IInv => TypeOK
  BY DEF IInv
<1> QED
  BY <1>1, Invariance, PTL

\* At most one probe is at work, whatever the interleaving (breaker.go Allow).
THEOREM ProbeIsAlone == Spec => []OneProbe
<1>1. ASSUME IInv
      PROVE  OneProbe
  <2>1. CASE probes = {}
    BY <2>1, FS_EmptySet DEF OneProbe
  <2>2. CASE probes # {}
    <3>1. PICK r \in probes : TRUE
      BY <2>2
    <3>2. probes = {r}
      BY <1>1, <3>1 DEF IInv, ProbeInv
    <3>3. Cardinality(probes) = 1
      BY <3>2, FS_Singleton
    <3> QED
      BY <3>3 DEF OneProbe
  <2> QED
    BY <2>1, <2>2
<1> QED
  BY <1>1, Invariance, PTL

\* A half-open circuit has its probe at work (breaker.go Allow, Success, Failure).
THEOREM HalfOpenIsProbed == Spec => []HalfOpenHasProbe
<1>1. IInv => HalfOpenHasProbe
  BY DEF IInv, HalfInv, HalfOpenHasProbe
<1> QED
  BY <1>1, Invariance, PTL

\* A probe goes to the store only when the circuit has been open for the probe interval,
\* less two requests' time (breaker.go Failure, Allow).
THEOREM ProbesKeepInterval == Spec => ProbeKeepsInterval
<1>1. ASSUME IInv, [Next]_vars
      PROVE  probes' \subseteq probes \/ now + 2 * Limit >= opened + ProbeInterval
  <2> USE DEF fields, locals, history, Leave
  <2>1. ASSUME NEW r \in Requests, AllowSwap(r)
        PROVE  now + 2 * Limit >= opened + ProbeInterval
    <3>1. t[r] >= stamp + ProbeInterval /\ t[r] <= now /\ stamp + 2 * Limit >= opened
      BY <1>1, <2>1 DEF AllowSwap, At, IInv, Due, Aged, Timed, StampInv
    <3>2. /\ t[r] \in Nat /\ stamp \in Nat /\ now \in Nat /\ opened \in Nat
          /\ ProbeInterval \in Nat /\ Limit \in Nat
      BY <1>1, ConfigAssumption, LimitAssumption DEF IInv, TypeOK, Time
    <3> QED
      BY <3>1, <3>2
  <2>2. ASSUME NEW r \in Requests, Request(r), ~AllowSwap(r)
        PROVE  probes' \subseteq probes
    <3>1. CASE Allow(r)
      BY <2>2, <3>1 DEF Allow, AllowLoad, AllowClock, AllowDeny, AllowStamp, AllowLoses, AllowHalf
    <3>2. CASE Answered(r) \/ Failed(r) \/ Success(r)
      BY <3>2 DEF Answered, Failed, Success, SuccessLoad, SuccessReset, SuccessClose
    <3>3. CASE Failure(r)
      BY <3>3 DEF Failure, FailureClock, FailureLoad, FailureStamp, FailureOpen,
                  FailureWindow, FailureShift, FailureClear, FailureCount
    <3> QED
      BY <2>2, <3>1, <3>2, <3>3 DEF Request
  <2>3. CASE Tick \/ UNCHANGED vars
    BY <2>3 DEF Tick, vars
  <2> QED
    BY <1>1, <2>1, <2>2, <2>3 DEF Next
<1> QED
  BY <1>1, Invariance, PTL DEF Spec, ProbeKeepsInterval
=============================================================================
