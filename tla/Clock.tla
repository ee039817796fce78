------------------------------- MODULE Clock -------------------------------
(* The true time of the components that read a clock. *)
EXTENDS Integers

VARIABLE now

\* Time goes on, until the bound on it.
Passes(end) == now < end /\ now' = now + 1
=============================================================================
