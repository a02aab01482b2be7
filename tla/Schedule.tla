------------------------------ MODULE Schedule ------------------------------
(***************************************************************************)
(* decideOrder: the order in which one pass of a request tries the targets *)
(* of a route, as a function of the request and of the state the runtime   *)
(* manager holds.  Two strategies share the filters (operator disables,    *)
(* pin, availability): "quota" ranks by tier, priority and score and keeps *)
(* a session on its provider; "load_balance" deals sessions out in turn.   *)
(*                                                                         *)
(* A call's input is a record                                              *)
(*   in = [exposed, strategy, chain, sess, off, now, commit]               *)
(* (chain: the targets, off: the request ignores stickiness) and the state *)
(* it reads a record                                                       *)
(*   st = [sticky, spread, rr, pin, down, disabled, facts].                *)
(* down holds the targets that health, a model lock or an exhausted quota  *)
(* keeps out; facts gives each target's tier and its score (the surplus    *)
(* less the quality penalty).                                              *)
(***************************************************************************)
EXTENDS Integers, Sequences, FiniteSets, SequencesExt, Filters

CONSTANTS
  ProviderOf,    \* provider of a target, a number: numbers order as names do
  ParentOf,      \* pool that the provider is an account of, 0 when it is none
  Priority,      \* configured priority of a target, lower first
  RouteKeys,     \* names of the routes in the configuration
  NoSession,     \* the session of a request that names none
  Dwell,         \* sticky_dwell
  SwitchMargin   \* surplus that makes a better provider worth a switch

ASSUME ScheduleAssumption == Dwell \in Nat /\ SwitchMargin \in Nat

NoStick == [prov |-> 0, since |-> 0]
NoPin == [who |-> 0, until |-> 0]

\* Mutant: a binding per session, whatever the route.
StickyKey_SessionOnly(sess, exposed) ==
  <<sess, IF sess = NoSession THEN exposed ELSE CHOOSE r \in RouteKeys : TRUE>>

(* The binding is kept per session and route; without a session, per route. *)
StickyKey(sess, exposed) == <<sess, exposed>>

IsRouteKey(key) == key[1] = NoSession /\ key[2] \in RouteKeys

(* A committed call drops the bindings that were idle for longer than the   *)
(* dwell, those of routes excepted.                                         *)
Swept(in, st) ==
  [k \in DOMAIN st.sticky |->
     IF in.commit /\ ~IsRouteKey(k) /\ in.now - st.sticky[k].since > Dwell
       THEN NoStick ELSE st.sticky[k]]

Names(t, who) == who # 0 /\ who \in {ProviderOf[t], ParentOf[t]}
PinActive(pin, now) == pin.who # 0 /\ now < pin.until
Enabled(in, st) == Without(in.chain, st.disabled)
PinMatches(in, st) ==
  IF PinActive(st.pin[in.exposed], in.now)
    THEN Keep(Enabled(in, st), {t \in ToSet(in.chain) : Names(t, st.pin[in.exposed].who)})
    ELSE <<>>

(* The candidates of a call: those the pin names, available or not, or      *)
(* every available one when there is no pin or it names none of them.       *)
Offered(in, st) ==
  IF PinMatches(in, st) # <<>>
    THEN PinMatches(in, st)
    ELSE Without(Enabled(in, st), st.down)

\* The numbers 1..n in the order Before, which is strict and total on them.
InOrder(n, Before(_, _)) ==
  [k \in 1..n |-> CHOOSE i \in 1..n : Cardinality({j \in 1..n : Before(j, i)}) = k - 1]

(* tier, then priority, then score; a stable sort.                          *)
Ranked(av, facts) ==
  LET Before(i, j) ==
        LET l == facts[av[i]]
            r == facts[av[j]]
        IN IF l.tier # r.tier THEN l.tier < r.tier
           ELSE IF Priority[av[i]] # Priority[av[j]] THEN Priority[av[i]] < Priority[av[j]]
           ELSE IF l.score # r.score THEN l.score > r.score ELSE i < j
      perm == InOrder(Len(av), Before)
  IN [k \in 1..Len(av) |-> av[perm[k]]]

\* The binding a call reads: none when the request opts out.
Bound(in, sticky) ==
  IF in.off THEN NoStick ELSE sticky[StickyKey(in.sess, in.exposed)]

(* keepSticky: within the dwell a session stays; after it, it stays unless  *)
(* the best candidate has a better tier, a better priority or a score       *)
(* better by the margin.                                                    *)
Held(in, cur, av, facts) ==
  LET i == SelectInSeq(av, LAMBDA t : ProviderOf[t] = cur.prov)
  IN /\ cur.prov # 0 /\ i # 0
     /\ \/ in.now - cur.since < Dwell
        \/ ProviderOf[av[1]] = cur.prov
        \/ /\ facts[av[1]].tier >= facts[av[i]].tier
           /\ Priority[av[1]] >= Priority[av[i]]
           /\ facts[av[1]].score - facts[av[i]].score < SwitchMargin

(* The accounts of the winner's pool that rank as it does.                  *)
Peers(av, pick, facts) ==
  Keep(av, {t \in ToSet(av) : /\ ParentOf[t] = ParentOf[pick]
                              /\ facts[t].tier = facts[pick].tier
                              /\ Priority[t] = Priority[pick]})

\* By name.
ByName(band) ==
  LET Before(i, j) == \/ ProviderOf[band[i]] < ProviderOf[band[j]]
                      \/ ProviderOf[band[i]] = ProviderOf[band[j]] /\ i < j
      perm == InOrder(Len(band), Before)
  IN [k \in 1..Len(band) |-> band[perm[k]]]

PoolBand(av, pick, facts) == ByName(Peers(av, pick, facts))

(* The quota strategy.  Beside the head, the order holds the candidates of  *)
(* other providers.  park is the provider to bind, 0 to leave the binding.  *)
QuotaOrder(in, st) ==
  LET av == Ranked(Offered(in, st), st.facts)
      cur == Bound(in, Swept(in, st))
      held == Held(in, cur, av, st.facts)
      parent == IF held \/ av = <<>> THEN 0 ELSE ParentOf[av[1]]
      band == PoolBand(av, av[1], st.facts)
      head == IF held THEN av[SelectInSeq(av, LAMBDA t : ProviderOf[t] = cur.prov)]
              ELSE IF parent # 0 THEN band[1 + (st.spread[parent] % Len(band))]
              ELSE av[1]
  IN IF av = <<>>
       THEN [order |-> <<>>, park |-> 0, spread |-> st.spread, rr |-> st.rr]
       ELSE [order  |-> <<head>> \o Keep(av, {t \in ToSet(av) : ProviderOf[t] # ProviderOf[head]}),
             park   |-> IF in.off \/ (held /\ in.sess = NoSession) THEN 0
                        ELSE ProviderOf[head],
             spread |-> IF parent # 0 /\ in.commit
                          THEN [st.spread EXCEPT ![parent] = @ + 1] ELSE st.spread,
             rr     |-> st.rr]

\* Mutant: the rotation moves on with every committed request.
LoadBalance_PerRequest(in, st) ==
  LET av == Offered(in, st)
      cur == Bound(in, Swept(in, st))
      at == IF in.sess = NoSession \/ cur.prov = 0 THEN 0
            ELSE SelectInSeq(av, LAMBDA t : ProviderOf[t] = cur.prov)
      slot == IF at # 0 THEN at ELSE 1 + (st.rr[in.exposed] % Len(av))
  IN IF av = <<>>
       THEN [order |-> <<>>, park |-> 0, spread |-> st.spread, rr |-> st.rr]
       ELSE [order  |-> SubSeq(av, slot, Len(av)) \o SubSeq(av, 1, slot - 1),
             park   |-> IF in.off \/ in.sess = NoSession THEN 0 ELSE ProviderOf[av[slot]],
             spread |-> st.spread,
             rr     |-> IF in.commit THEN [st.rr EXCEPT ![in.exposed] = @ + 1] ELSE st.rr]

(* The load-balance strategy: a bound session keeps its slot, anyone else   *)
(* takes the next one; the rest of the rotation is the failover chain.      *)
LoadBalance(in, st) ==
  LET av == Offered(in, st)
      cur == Bound(in, Swept(in, st))
      at == IF in.sess = NoSession \/ cur.prov = 0 THEN 0
            ELSE SelectInSeq(av, LAMBDA t : ProviderOf[t] = cur.prov)
      slot == IF at # 0 THEN at ELSE 1 + (st.rr[in.exposed] % Len(av))
  IN IF av = <<>>
       THEN [order |-> <<>>, park |-> 0, spread |-> st.spread, rr |-> st.rr]
       ELSE [order  |-> SubSeq(av, slot, Len(av)) \o SubSeq(av, 1, slot - 1),
             park   |-> IF in.off \/ in.sess = NoSession THEN 0 ELSE ProviderOf[av[slot]],
             spread |-> st.spread,
             rr     |-> IF at = 0 /\ in.commit
                          THEN [st.rr EXCEPT ![in.exposed] = @ + 1] ELSE st.rr]

DecideOrder(in, st) ==
  IF in.strategy = "load_balance" THEN LoadBalance(in, st) ELSE QuotaOrder(in, st)
=============================================================================
