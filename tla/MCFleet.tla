------------------------------ MODULE MCFleet ------------------------------
(* Instances of Fleet for model checking.                                    *)
EXTENDS Fleet, TLC

CONSTANTS w1, d1, j1, j2

OneHost == [d \in Device |-> w1]
Symmetry == Permutations(Job)
=============================================================================
