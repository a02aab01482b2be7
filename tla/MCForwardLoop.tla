---------------------------- MODULE MCForwardLoop ----------------------------
(* Instances of ForwardLoop for TLC: the cfg files name the targets as     *)
(* model values.  The targets play different parts (pinned, on the route,  *)
(* cross-route), so there is no symmetry to use.                           *)
EXTENDS ForwardLoop
=============================================================================
