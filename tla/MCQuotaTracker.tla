--------------------------- MODULE MCQuotaTracker ---------------------------
(* Instances of QuotaTracker for TLC. *)
EXTENDS QuotaTracker, TLC

Symmetry == Permutations(Task)
=============================================================================
