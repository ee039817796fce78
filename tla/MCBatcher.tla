------------------------------ MODULE MCBatcher ------------------------------
(* Instances of Batcher for TLC. *)
EXTENDS Batcher, TLC

CONSTANTS v1, v2, p1

TwoVotes == {v1, v2}
OneChoice == {{1}}
OnePoll == {p1}
SingleChoices == {{1}, {2}}          \* a single-choice poll of two options

VoteSymmetry == Permutations(TwoVotes)
=============================================================================
