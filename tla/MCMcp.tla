------------------------------- MODULE MCMcp -------------------------------
(* Small instances of Mcp for TLC. *)
EXTENDS Mcp, TLC

CONSTANTS hand1, hand2, acc1, acc2

Handlers2 == {hand1, hand2}
Accounts2 == {acc1, acc2}
Alike == Permutations(Handlers) \cup Permutations(Accounts)
=============================================================================
