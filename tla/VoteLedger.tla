----------------------------- MODULE VoteLedger -----------------------------
(***************************************************************************)
(* What the write path promises for every increment (one vote, one         *)
(* counter): it is made once, stays pending until it is counted in Redis or *)
(* lost, is never resurrected once lost, and is counted again only after    *)
(* an explicit replay.  Batcher implements this specification.              *)
(***************************************************************************)
CONSTANT Increments

VARIABLES pending, counted, again, lost

ledger == <<pending, counted, again, lost>>

Init == pending = {} /\ counted = {} /\ again = {} /\ lost = {}

\* A handler increments a counter.
Make(i) ==
    /\ i \in Increments \ (pending \cup counted \cup lost)
    /\ pending' = pending \cup {i}
    /\ UNCHANGED <<counted, again, lost>>

\* Redis executes a command that carries the increments S.
Count(S) ==
    /\ S \subseteq pending
    /\ pending' = pending \ S
    /\ counted' = counted \cup S
    /\ again' = again \cup (S \cap counted)
    /\ UNCHANGED lost

\* A batch is dropped, a command fails, or the process dies.
Lose(S) ==
    /\ S \subseteq pending
    /\ pending' = pending \ S
    /\ lost' = lost \cup S
    /\ UNCHANGED <<counted, again>>

\* Counted increments go back to the counters, to be sent once more.
Replay(S) ==
    /\ S \subseteq counted
    /\ pending' = pending \cup S
    /\ UNCHANGED <<counted, again, lost>>

Next ==
    \/ \E i \in Increments : Make(i)
    \/ \E S \in SUBSET pending : Count(S) \/ Lose(S)
    \/ \E S \in SUBSET counted : Replay(S)

Spec == Init /\ [][Next]_ledger
=============================================================================
