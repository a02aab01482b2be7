----------------------------- MODULE MCRouting ------------------------------
(* Two routes over a pool of two accounts (providers 1 and 2, pool 9) and  *)
(* a provider with two models (3): "q" ranks by quota and has grades, "l"  *)
(* balances the load and prefers targets.                                  *)
EXTENDS Routing

CONSTANTS q1, q2, s1, none

MCProviderOf == [a1 |-> 1, a2 |-> 2, b |-> 3, c |-> 3]
MCParentOf == [a1 |-> 9, a2 |-> 9, b |-> 0, c |-> 0]
MCPriority == [a1 |-> 1, a2 |-> 1, b |-> 1, c |-> 2]
MCGradeOf == [a1 |-> "fast", a2 |-> "fast", b |-> "strong", c |-> "none"]
MCChain == [q |-> <<"a1", "a2", "b">>, l |-> <<"a1", "c">>]
MCStrategy == [q |-> "quota", l |-> "load_balance"]
Level == [t \in {"a1", "a2", "b", "c"} |-> [tier |-> 0, score |-> 0]]
Better == [Level EXCEPT !["b"] = [tier |-> 0, score |-> 2]]
MCFactSets == {Level, Better}
Alike == Permutations(Req)

Plain == [fit |-> {"a1", "a2", "b", "c"}, band |-> "none", cat |-> TRUE]
Long == [fit |-> {"a2", "b"}, band |-> "fast", cat |-> TRUE]
On(route, sess, prof) == [route |-> route, sess |-> sess, off |-> FALSE, prof |-> prof]
Gone == [what |-> "gone", turn |-> FALSE]

(* Bindings under changing measurements. *)
Binding == [arrivals |-> {On("q", s1, Plain), On("l", s1, Plain), On("l", none, Plain)},
            outcomes |-> {Gone}, passes |-> 3,
            changes |-> {[facts |-> Better]}]
(* The operator's changes. *)
Operating == [arrivals |-> {On("q", s1, Long), [On("q", s1, Plain) EXCEPT !.off = TRUE]},
              outcomes |-> {Gone}, passes |-> 2,
              changes |-> {[pin |-> "q", who |-> 9, expires |-> TRUE], [disable |-> "b"]}]
(* Requests that no target of their route can serve. *)
Overflowing == [arrivals |-> {On("l", s1, Long)},
                outcomes |-> {Gone}, passes |-> 2,
                changes |-> {[reload |-> TRUE]}]
(* A target that fails and recovers. *)
Recovering == [arrivals |-> {On("q", s1, Long), On("l", none, Plain)}, passes |-> 2,
               outcomes |-> {Gone}, changes |-> {[down |-> "a1"]}]
(* Escalation. *)
Escalating == [arrivals |-> {On("q", s1, Long)}, passes |-> 3,
               outcomes |-> [what : {"ok", "error", "unplanned"}, turn : BOOLEAN],
               changes |-> {}]
Returning == {[Recovering EXCEPT !.passes = 3, !.arrivals = {On("q", s1, Plain)}]}
MCScenarios == {Binding, Operating, Overflowing, Recovering, Escalating}
=============================================================================
