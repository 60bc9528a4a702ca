------------------------------ MODULE MCStore ------------------------------
(* Instances of Store for model checking.                                     *)
EXTENDS Store, TLC

CONSTANTS w1, d1, j1, j2, b1, b2

OneHost == [d \in Device |-> w1]
Symmetry == Permutations(BootId)
=============================================================================
