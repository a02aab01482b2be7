------------------------------ MODULE MCHealth ------------------------------
(* Instances of Health for TLC. *)
EXTENDS Health, TLC

Symmetry == Permutations(Req)
=============================================================================
