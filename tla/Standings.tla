----------------------------- MODULE Standings -----------------------------
(***************************************************************************)
(* What the results of a poll promise to their readers, run by run: what    *)
(* is stored never goes down, and is never more than has been counted.  A   *)
(* reset begins a new run, of which nothing is counted or stored.  Results  *)
(* implements this specification.                                          *)
(***************************************************************************)
EXTENDS Naturals

CONSTANT Cells

VARIABLES run, counted, stored

standings == <<run, counted, stored>>

Nil == [c \in Cells |-> 0]

Init == run = 1 /\ counted = Nil /\ stored = Nil

\* A vote adds one to a count.
Vote(c) ==
    /\ counted' = [counted EXCEPT ![c] = @ + 1]
    /\ UNCHANGED <<run, stored>>

\* Counts that are at least low and at most high.
Between(low, high) ==
    {n \in [Cells -> Nat] : \A c \in Cells : low[c] <= n[c] /\ n[c] <= high[c]}

\* What is stored comes nearer to what has been counted.
Store == UNCHANGED <<run, counted>> /\ stored' \in Between(stored, counted)

\* A new run begins.
Reset == run' = run + 1 /\ counted' = Nil /\ stored' = Nil

Next == Store \/ (\E c \in Cells : Vote(c)) \/ Reset

Spec == Init /\ [][Next]_standings
=============================================================================
