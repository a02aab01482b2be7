------------------------------ MODULE Filters -------------------------------
(***************************************************************************)
(* The loops that copy the members of a slice that pass a test, in their   *)
(* order.  The test is a set of values, which the provers can handle where *)
(* an operator argument (SelectSeq) is beyond them.                        *)
(***************************************************************************)
EXTENDS Integers, Sequences, SequencesExt

\* The members of s that are in keep.
Keep(s, keep) ==
  LET kept[i \in 0..Len(s)] ==
        IF i = 0 THEN <<>>
        ELSE IF s[i] \in keep THEN Append(kept[i - 1], s[i]) ELSE kept[i - 1]
  IN kept[Len(s)]

\* The members of s that are not in drop.
Without(s, drop) == Keep(s, ToSet(s) \ drop)
=============================================================================
