--------------------------- MODULE MCStatsFlusher ---------------------------
(* The statistics pipeline on small instances. *)
EXTENDS StatsFlusher, TLC
CONSTANTS e1, e2, m1, m2, m3, m4, lg, old, new
MCPipeOf == [e \in Event |-> IF e \in {e1, e2, lg} THEN "provider" ELSE "mcp"]
Sym == Permutations({m1, m2})

\* Steady service: nothing is reset, renamed or pruned, no name is dropped by
\* a reload and nothing stops.
SteadyNext ==
    \/ \E e \in Event, k \in Key : RecordMCP(e, k) \/ Add(<<e, k>>)
    \/ \E now \in 1..MaxNow : Collect(now)
    \/ \E p \in Pipe : FlushBatch(p) \/ EndDrain(p)
    \/ Prune(0)
    \/ phase = "down" /\ Boot
SteadySpec == Init /\ [][SteadyNext]_vars

\* "Totals are not lost" when a long outage folds the two oldest batches: in
\* steady service every call that was recorded is still to be added, owed, or
\* in the database (docs/web-api.md:115, flusher.go:431).
TotalsNotLost == used \subseteq EventsOf(held) \cup Owed \cup Saved
=============================================================================
