------------------------------ MODULE MCResults ------------------------------
(* Instances of Results for TLC. *)
EXTENDS Results, TLC

CONSTANTS i1, i2

OneInstance == {i1}
TwoInstances == {i1, i2}
InstanceSymmetry == Permutations(TwoInstances)

\* MaxCount: one of each cell; two voters and no option; one of each option and no voter.
OneEach == [c \in Cells |-> 1]
VotersOnly == [c \in Cells |-> IF c = VotersCell THEN 2 ELSE 0]
OptionsOnly == [c \in Cells |-> IF c = VotersCell THEN 0 ELSE 1]
=============================================================================
