----------------------------- MODULE MCAccounts -----------------------------
(* Two processes (a server and a command) on the pool of one provider with *)
(* two accounts.  The first blob of account 1 is too large for the         *)
(* keychain and its second fits; the blob of account 2 outgrows the limit. *)
EXTENDS Accounts, TLC

CONSTANTS p1, p2

MCProcs == {p1, p2}
MCAlone == {p1}
MCIds == {1, 2}
MCBig == {<<1, 2>>, <<2, 3>>}
\* The properties speak of behaviours without a race: others end there.
Unraced == ~raced
Symmetric == Permutations(MCProcs)
=============================================================================
