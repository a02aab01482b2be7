----------------------------- MODULE MCStreams -----------------------------
EXTENDS Streams

CONSTANTS item1, item2, call1, call2

MCKindOf == (item1 :> "text") @@ (item2 :> "think")
              @@ [i \in {call1, call2} |-> "tool"]
Sym == Permutations({call1, call2})
=============================================================================
