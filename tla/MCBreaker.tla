------------------------------ MODULE MCBreaker ------------------------------
(* Instances of Breaker for TLC. *)
EXTENDS Breaker

CONSTANTS r1, r2

TwoRequests == {r1, r2}
=============================================================================
