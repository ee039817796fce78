---------------------------- MODULE DedupProofs ----------------------------
(***************************************************************************)
(* Proofs about Dedup, for every number of attempts and voters, every       *)
(* length of the poll and every number of restarts.                        *)
(*                                                                         *)
(* A second SET NX that succeeds finds the key expired, so it runs after    *)
(* Ends + Margin; the handlers still at work read their clock before Ends   *)
(* and have Limit <= Margin to go, so by then nobody waits for it.          *)
(***************************************************************************)
EXTENDS Dedup, TLAPS

\* A handler at work has read the clock at most Limit ago.
ClockInv ==
    \A a \in Attempts :
        /\ born[a] <= clock
        /\ pc[a] \in Working => clock <= born[a] + Limit

\* The goroutine of SET NX agrees with its handler.
CmdInv ==
    \A a \in Attempts :
        /\ pc[a] \in {"idle", "decode", "gone"} => cmd[a] = "none"
        /\ verdict[a] = "first" => cmd[a] = "first"
        /\ cmd[a] \in {"first", "error"} => pc[a] \in {"wait", "count", "accepted", "lost"}
        /\ pc[a] = "refused" => cmd[a] = "duplicate"

\* The verdict of a is First, or may still become it.
CanWin(a) == cmd[a] = "first" /\ (verdict[a] = "first" \/ pc[a] = "wait")

\* A key that was set outlives the poll by the margin, and one attempt has won it.
KeyInv ==
    restarts = 0 =>
        /\ \A a \in Attempts : cmd[a] = "first" => key[VoterOf[a]] >= Ends + Margin
        /\ \A a, b \in Attempts :
               VoterOf[a] = VoterOf[b] /\ CanWin(a) /\ CanWin(b) => a = b

\* A key was set by some attempt, and a duplicate is a duplicate of another attempt.
SetterInv ==
    /\ \A v \in Voters : key[v] # 0 =>
           \E b \in Attempts : VoterOf[b] = v /\ cmd[b] \in {"first", "error"}
    /\ \A a \in Attempts : cmd[a] = "duplicate" =>
           \E b \in Attempts : VoterOf[b] = VoterOf[a] /\ cmd[b] \in {"first", "error"}

DedupInv == DedupTypeOK /\ ClockInv /\ CmdInv /\ KeyInv /\ SetterInv

-----------------------------------------------------------------------------
\* The time to live of a key is positive and ends after Ends + Margin, whenever SET NX runs.
LEMMA TtlBound ==
  ASSUME DedupTypeOK, ClockInv, NEW a \in Attempts
  PROVE  /\ clock + Ttl(a) \in Nat
         /\ clock + Ttl(a) >= Ends + Margin
<1>1. /\ clock \in Nat /\ born[a] \in Nat /\ born[a] < Ends /\ born[a] <= clock
      /\ Ends \in Nat /\ Margin \in Nat
  BY TimeAssumption DEF DedupTypeOK, ClockInv, Time
<1> QED
  BY <1>1 DEF Ttl

\* Every step keeps the types.
LEMMA TypeStep ==
  ASSUME DedupTypeOK, ClockInv, [DedupNext]_dedupVars
  PROVE  DedupTypeOK'
<1> USE VoterAssumption, TimeAssumption DEF DedupTypeOK, Working, Ended, handler
<1>1. ASSUME NEW a \in Attempts, Handle(a) \/ Die(a)
      PROVE  DedupTypeOK'
  <2>1. CASE Arrive(a)
    BY <2>1 DEF Arrive, Goto
  <2>2. CASE ArriveLate(a) \/ Invalid(a) \/ Count(a) \/ Die(a)
    BY <2>2 DEF ArriveLate, Invalid, Count, Die, Goto
  <2>3. CASE Bypass(a) \/ Hear(a) \/ Deadline(a)
    BY <2>3 DEF Bypass, Hear, Deadline, Accept, Goto, Says
  <2>4. CASE SendSetNX(a)
    BY <2>4 DEF SendSetNX, Goto, Replies
  <2> QED
    BY <1>1, <2>1, <2>2, <2>3, <2>4 DEF Handle, Proceed
<1>2. ASSUME NEW a \in Attempts, Store(a)
      PROVE  DedupTypeOK'
  <2>1. clock + Ttl(a) \in Nat /\ VoterOf[a] \in Voters
    BY TtlBound
  <2>2. CASE SetNX(a)
    BY <2>1, <2>2 DEF SetNX, Execute, Replies
  <2>3. CASE SetNXUnheard(a)
    BY <2>1, <2>3 DEF SetNXUnheard, Replies
  <2>4. CASE SetNXFails(a)
    BY <2>4 DEF SetNXFails, Replies
  <2> QED
    BY <1>2, <2>2, <2>3, <2>4 DEF Store
<1>3. CASE RestartRedis
  BY <1>3 DEF RestartRedis
<1>4. CASE DedupTick
  BY <1>4 DEF DedupTick, Time
<1>5. CASE UNCHANGED dedupVars
  BY <1>5 DEF dedupVars
<1> QED
  BY <1>1, <1>2, <1>3, <1>4, <1>5 DEF DedupNext

\* Every step keeps the bounds on the clock.
LEMMA ClockStep ==
  ASSUME DedupTypeOK, ClockInv, [DedupNext]_dedupVars
  PROVE  ClockInv'
<1> USE TimeAssumption DEF DedupTypeOK, ClockInv, Time, Working, handler
<1>1. ASSUME NEW a \in Attempts, Handle(a) \/ Store(a) \/ Die(a)
      PROVE  ClockInv'
  <2>1. CASE Arrive(a)
    BY <2>1 DEF Arrive, Goto
  <2>2. CASE (Handle(a) /\ ~Arrive(a)) \/ Die(a)
    BY <2>2 DEF Handle, Proceed, ArriveLate, Invalid, Bypass, SendSetNX, Hear, Deadline, Count, Die, Accept, Goto
  <2>3. CASE Store(a)
    BY <2>3 DEF Store, SetNX, SetNXUnheard, SetNXFails
  <2> QED
    BY <1>1, <2>1, <2>2, <2>3
<1>2. CASE DedupTick
  BY <1>2 DEF DedupTick
<1>3. CASE RestartRedis \/ UNCHANGED dedupVars
  BY <1>3 DEF RestartRedis, dedupVars
<1> QED
  BY <1>1, <1>2, <1>3 DEF DedupNext

\* Every step keeps goroutines and handlers in agreement.
LEMMA CmdStep ==
  ASSUME DedupTypeOK, CmdInv, [DedupNext]_dedupVars
  PROVE  CmdInv'
<1> USE DEF DedupTypeOK, CmdInv, Working, handler, Goto, Says, Replies
<1>1. ASSUME NEW a \in Attempts, Handle(a) \/ Die(a)
      PROVE  CmdInv'
  <2>1. CASE Arrive(a) \/ ArriveLate(a) \/ Invalid(a) \/ Count(a) \/ Die(a)
    BY <2>1 DEF Arrive, ArriveLate, Invalid, Count, Die
  <2>2. CASE Bypass(a) \/ Hear(a) \/ Deadline(a)
    BY <2>2 DEF Bypass, Hear, Deadline, Accept
  <2>3. CASE SendSetNX(a)
    BY <2>3 DEF SendSetNX
  <2> QED
    BY <1>1, <2>1, <2>2, <2>3 DEF Handle, Proceed
<1>2. ASSUME NEW a \in Attempts, Store(a)
      PROVE  CmdInv'
  <2>1. /\ cmd[a] = "sent" /\ pc' = pc /\ verdict' = verdict
        /\ cmd'[a] \in {"first", "duplicate", "error"}
        /\ \A b \in Attempts \ {a} : cmd'[b] = cmd[b]
    BY <1>2 DEF Store, SetNX, SetNXUnheard, SetNXFails, Execute
  <2>2. pc[a] \in {"wait", "count", "accepted", "lost"} /\ verdict[a] # "first"
    BY <2>1 DEF Ended
  <2> QED
    BY <2>1, <2>2
<1>3. CASE DedupTick \/ RestartRedis \/ UNCHANGED dedupVars
  BY <1>3 DEF DedupTick, RestartRedis, dedupVars
<1> QED
  BY <1>1, <1>2, <1>3 DEF DedupNext

\* Every step keeps the winner of a key unique.
LEMMA KeyStep ==
  ASSUME DedupInv, [DedupNext]_dedupVars
  PROVE  KeyInv'
<1> USE VoterAssumption, TimeAssumption DEF DedupInv, DedupTypeOK, KeyInv, CanWin, handler, Goto, Says, Replies
<1>1. ASSUME NEW a \in Attempts, Handle(a) \/ Die(a)
      PROVE  KeyInv'
  <2>1. /\ key' = key /\ restarts' = restarts
        /\ \A b \in Attempts : CanWin(b)' => CanWin(b)
        /\ \A b \in Attempts : cmd'[b] = "first" => cmd[b] = "first"
    <3>1. CASE (Handle(a) /\ ~SendSetNX(a)) \/ Die(a)
      BY <3>1 DEF Handle, Proceed, Arrive, ArriveLate, Invalid, Bypass, Hear, Deadline, Count, Die, Accept
    <3>2. CASE SendSetNX(a)
      BY <3>2 DEF SendSetNX
    <3> QED
      BY <1>1, <3>1, <3>2
  <2> QED
    BY <2>1
<1>2. ASSUME NEW a \in Attempts, Store(a)
      PROVE  KeyInv'
  <2>0. /\ clock + Ttl(a) \in Nat /\ clock + Ttl(a) >= Ends + Margin
        /\ VoterOf[a] \in Voters
    BY TtlBound
  <2>1. /\ cmd[a] = "sent" /\ restarts' = restarts /\ pc' = pc /\ verdict' = verdict
        /\ \A b \in Attempts \ {a} : cmd'[b] = cmd[b]
        /\ cmd'[a] = "first" => ~Keyed(VoterOf[a])
        /\ cmd'[a] = "first" => key'[VoterOf[a]] = clock + Ttl(a)
        /\ \A v \in Voters : key'[v] \in {key[v], clock + Ttl(a)}
    BY <1>2 DEF Store, SetNX, SetNXUnheard, SetNXFails, Execute
  <2>2. ASSUME restarts' = 0, NEW b \in Attempts, cmd'[b] = "first"
        PROVE  key'[VoterOf[b]] >= Ends + Margin
    <3>1. CASE b = a
      BY <2>0, <2>1, <2>2, <3>1
    <3>2. CASE b # a
      <4>1. key[VoterOf[b]] >= Ends + Margin /\ VoterOf[b] \in Voters
        BY <2>1, <2>2, <3>2
      <4> QED
        BY <2>0, <2>1, <4>1
    <3> QED
      BY <3>1, <3>2
  <2>3. ASSUME restarts' = 0, CanWin(a)', NEW b \in Attempts \ {a}, VoterOf[b] = VoterOf[a], CanWin(b)'
        PROVE  FALSE
    <3>1. cmd[b] = "first" /\ key[VoterOf[a]] >= Ends + Margin
      BY <2>1, <2>3
    <3>2. clock >= Ends + Margin
      BY <2>1, <2>3, <3>1 DEF Keyed, Time
    <3>3. pc[a] = "wait"
      BY <2>1, <2>3 DEF CmdInv
    <3>4. clock <= born[a] + Limit /\ born[a] < Ends /\ born[a] \in Nat
      BY <3>3 DEF ClockInv, Working, Time
    <3> QED
      BY <3>2, <3>4 DEF Time
  <2>4. ASSUME restarts' = 0, NEW b \in Attempts, NEW d \in Attempts,
               VoterOf[b] = VoterOf[d], CanWin(b)', CanWin(d)'
        PROVE  b = d
    <3>1. CASE b = a \/ d = a
      BY <2>3, <2>4, <3>1
    <3>2. CASE b # a /\ d # a
      BY <2>1, <2>4, <3>2
    <3> QED
      BY <3>1, <3>2
  <2> QED
    BY <2>2, <2>4
<1>3. CASE DedupTick \/ UNCHANGED dedupVars
  BY <1>3 DEF DedupTick, dedupVars
<1>4. CASE RestartRedis
  BY <1>4 DEF RestartRedis
<1> QED
  BY <1>1, <1>2, <1>3, <1>4 DEF DedupNext

\* Every step keeps the setter of each key.
LEMMA SetterStep ==
  ASSUME DedupInv, [DedupNext]_dedupVars
  PROVE  SetterInv'
<1> USE VoterAssumption DEF DedupInv, DedupTypeOK, SetterInv, handler, Goto, Says, Replies
<1>1. ASSUME NEW a \in Attempts, Handle(a) \/ Die(a)
      PROVE  SetterInv'
  <2>1. CASE (Handle(a) /\ ~SendSetNX(a)) \/ Die(a)
    BY <2>1 DEF Handle, Proceed, Arrive, ArriveLate, Invalid, Bypass, Hear, Deadline, Count, Die, Accept
  <2>2. CASE SendSetNX(a)
    <3>1. cmd[a] = "none"
      BY <2>2 DEF SendSetNX, CmdInv
    <3> QED
      BY <2>2, <3>1 DEF SendSetNX
  <2> QED
    BY <1>1, <2>1, <2>2
<1>2. ASSUME NEW a \in Attempts, Store(a)
      PROVE  SetterInv'
  <2>1. /\ cmd[a] = "sent"
        /\ \A b \in Attempts \ {a} : cmd'[b] = cmd[b]
        /\ cmd'[a] = "duplicate" => key[VoterOf[a]] # 0
        /\ \A v \in Voters : key'[v] # 0 =>
               key[v] # 0 \/ (v = VoterOf[a] /\ cmd'[a] \in {"first", "error"})
    <3>1. CASE SetNX(a)
      <4>1. CASE Keyed(VoterOf[a])
        <5>1. key[VoterOf[a]] # 0
          BY <4>1, TimeAssumption DEF Keyed, Time
        <5>2. key' = key /\ cmd[a] = "sent" /\ cmd' = [cmd EXCEPT ![a] = "duplicate"]
          BY <3>1, <4>1 DEF SetNX, Execute
        <5>3. cmd'[a] = "duplicate" /\ \A b \in Attempts \ {a} : cmd'[b] = cmd[b]
          BY <5>2
        <5> QED
          BY <5>1, <5>2, <5>3
      <4>2. CASE ~Keyed(VoterOf[a])
        BY <3>1, <4>2 DEF SetNX, Execute
      <4> QED
        BY <4>1, <4>2
    <3>2. CASE SetNXUnheard(a)
      BY <3>2 DEF SetNXUnheard
    <3>3. CASE SetNXFails(a)
      BY <3>3 DEF SetNXFails
    <3> QED
      BY <1>2, <3>1, <3>2, <3>3 DEF Store
  <2>2. \A b \in Attempts : cmd[b] \in {"first", "error"} => cmd'[b] \in {"first", "error"}
    BY <2>1
  <2> QED
    BY <2>1, <2>2
<1>3. CASE DedupTick \/ RestartRedis \/ UNCHANGED dedupVars
  BY <1>3 DEF DedupTick, RestartRedis, dedupVars
<1> QED
  BY <1>1, <1>2, <1>3 DEF DedupNext

-----------------------------------------------------------------------------
\* The invariant holds at first.
LEMMA DedupInitInv == DedupInit => DedupInv
BY TimeAssumption, VoterAssumption
DEF DedupInit, DedupInv, DedupTypeOK, ClockInv, CmdInv, KeyInv, CanWin, SetterInv, Time, Working, Ended

\* Every step keeps the invariant.
LEMMA DedupNextInv == DedupInv /\ [DedupNext]_dedupVars => DedupInv'
BY TypeStep, ClockStep, CmdStep, KeyStep, SetterStep DEF DedupInv

\* The invariant holds in every reachable state.
THEOREM Invariance == DedupSpec => []DedupInv
BY DedupInitInv, DedupNextInv, PTL DEF DedupSpec

\* Every variable keeps its type.
THEOREM Typing == DedupSpec => []DedupTypeOK
<1>1. DedupInv => DedupTypeOK
  BY DEF DedupInv
<1> QED
  BY <1>1, Invariance, PTL

\* Without a restart of Redis the token of a voter passes as a first vote at most once.
THEOREM TokenPassesOnce == DedupSpec => []FirstOnce
<1>1. DedupInv => FirstOnce
  BY DEF DedupInv, CmdInv, KeyInv, CanWin, FirstOnce
<1> QED
  BY <1>1, Invariance, PTL

\* A voter is refused only on account of another attempt, which was counted, is about to be,
\* or was lost in a crash.
THEOREM NobodyRefusedForNothing == DedupSpec => []RefusedForAnother
<1>1. DedupInv => RefusedForAnother
  <2> SUFFICES ASSUME DedupInv, NEW a \in Attempts, pc[a] = "refused"
               PROVE  \E b \in Attempts \ {a} :
                          /\ VoterOf[b] = VoterOf[a]
                          /\ pc[b] \in {"wait", "count", "accepted", "lost"}
                          /\ cmd[b] \in {"first", "error"}
    BY DEF RefusedForAnother
  <2>1. cmd[a] = "duplicate"
    BY DEF DedupInv, CmdInv
  <2>2. PICK b \in Attempts : VoterOf[b] = VoterOf[a] /\ cmd[b] \in {"first", "error"}
    BY <2>1 DEF DedupInv, SetterInv
  <2> QED
    BY <2>1, <2>2 DEF DedupInv, CmdInv
<1> QED
  BY <1>1, Invariance, PTL
=============================================================================
