------------------------------ MODULE Routing -------------------------------
(***************************************************************************)
(* The routing state of the runtime manager under concurrent requests:     *)
(* sticky bindings, rotation and spread counters, pins, disabled targets,  *)
(* latches and repeated turns, and the passes of the requests that read    *)
(* and change them.  One pass reads the clock, decides an order in one     *)
(* critical section, writes the binding in another, fits the order to the  *)
(* request (which may schedule the targets of the other routes, again in   *)
(* two sections), applies the route's policy, and at the end of the        *)
(* request reports its outcome to the session's latch in two more.         *)
(***************************************************************************)
EXTENDS Schedule, RoutePolicy, TLC

CONSTANTS
  Req,           \* request slots: how many requests overlap
  Session,       \* sessions clients name
  Chain,         \* expanded targets of each route
  Strategy,      \* strategy of each route
  Graded,        \* routes whose policy has grades; the others prefer targets
  Strong,        \* the grade (or its targets) that escalation prefers
  Fallbacks,     \* fallback modes a graded policy may have
  FactSets,      \* measurements: tier and score of every target
  StartFacts,    \* the ones at the start
  Latching,      \* routes whose policy escalates
  Consecutive,   \* bad runs that escalate
  LatchDwell,    \* escalation.dwell
  TurnCap,       \* turns remembered per session and route
  MaxTime,       \* bound of the clock
  Scenarios      \* what may happen, one of these per behaviour: the requests that
                 \* arrive, how they end, what changes around them, how many passes

Target == UNION {ToSet(Chain[r]) : r \in RouteKeys}
ReqKey(r) == r \o "#req"          \* the key the pool of all routes is scheduled under
Exposed == RouteKeys \cup {ReqKey(r) : r \in RouteKeys}
Parents == {ParentOf[t] : t \in Target} \ {0}
Sessions == Session \cup {NoSession}
TalkKeys == Session \X RouteKeys
LatchKeys == Session \X Latching
Forever == MaxTime + 1

ASSUME RoutingAssumption ==
  /\ RouteKeys # {} /\ NoSession \notin Session /\ NoGrade # Strong
  /\ Consecutive \in Nat \ {0} /\ LatchDwell \in Nat /\ TurnCap \in Nat \ {0}
  /\ MaxTime \in Nat
  /\ \A f \in FactSets \cup {StartFacts}, t \in Target : f[t].tier \in Int /\ f[t].score \in Int
  /\ \A x \in Scenarios :
       /\ DOMAIN x = {"arrivals", "outcomes", "changes", "passes"}
       /\ \A a \in x.arrivals : a.route \in RouteKeys /\ a.sess \in Sessions /\ a.off \in BOOLEAN

(* What the configuration gives: an entry of a route's list is a target of  *)
(* its own, providers have a name, and no route has the name of a pool that *)
(* the planner makes up (config.go strips the "#" and what follows).        *)
ASSUME ConfigAssumption ==
  /\ IsFiniteSet(Target)
  /\ \A r \in RouteKeys : Chain[r] \in Seq(Target) /\ IsInjective(Chain[r])
  /\ \A r \in RouteKeys : ReqKey(r) \notin RouteKeys
  /\ \A t \in Target : ProviderOf[t] \in Nat \ {0} /\ ParentOf[t] \in Nat /\ Priority[t] \in Int

VARIABLES
  gen, clock,
  sticky, spread, rr, pin,      \* manager: bindings, counters, pins
  down, disabled, facts,        \* what health, operator and quota say of targets
  latch, turns,                 \* manager: escalations and recent turns
  req,                          \* what each request slot is doing
  scene, passes, changes,       \* the scenario and what happened of it
  talk,    \* ghost: where a session was sent last, and before an outage moved it
  dealt,   \* ghost: slots dealt to each target since the candidates changed
  bads     \* ghost: bad outcomes of a session since its last good one

manager == <<sticky, spread, rr, latch, turns>>
outside == <<pin, down, disabled, facts>>
ghosts == <<talk, dealt, bads>>
vars == <<gen, clock, manager, outside, req, scene, passes, changes, ghosts>>

NoLatch == [here |-> FALSE, on |-> FALSE, since |-> 0, runs |-> 0]
NoTalk == [prov |-> 0, since |-> 0, was |-> NoStick]
NoDeal == [list |-> <<>>, n |-> [t \in Target |-> 0]]
Idle == [phase |-> "idle"]
NoChoice == [made |-> FALSE, grade |-> NoGrade, targets |-> {}]

State == [sticky |-> sticky, spread |-> spread, rr |-> rr, pin |-> pin,
          down |-> down, disabled |-> disabled, facts |-> facts]
Input(r) == [exposed |-> r.exposed, strategy |-> Strategy[r.route], chain |-> r.chain,
             sess |-> r.sess, off |-> r.off, now |-> r.now, commit |-> r.gen = gen]

NoBindings == [k \in Sessions \X Exposed |-> NoStick]
NoSpread == [p \in Parents |-> 0]
NoTurn == [e \in Exposed |-> 0]

Init ==
  /\ gen = 0 /\ clock = 0 /\ scene \in Scenarios /\ passes = 0 /\ changes = {}
  /\ sticky = NoBindings /\ spread = NoSpread /\ rr = NoTurn
  /\ latch = [k \in LatchKeys |-> NoLatch] /\ turns = [k \in LatchKeys |-> <<>>]
  /\ talk = [k \in TalkKeys |-> NoTalk] /\ dealt = [r \in RouteKeys |-> NoDeal]
  /\ bads = [k \in LatchKeys |-> <<>>]
  /\ pin = [e \in Exposed |-> NoPin] /\ down = {} /\ disabled = {}
  /\ facts = StartFacts
  /\ req = [q \in Req |-> Idle]

(***************************************************************************)
(* A request and its passes.                                               *)
(***************************************************************************)
\* A request takes its snapshot; the operator's disables and the pin are read here.
Arrive(q) ==
  /\ req[q].phase = "idle" /\ passes < scene.passes
  /\ \E a \in scene.arrivals :
       LET r == a.route
           chain == Without(Chain[r], disabled)
       IN /\ chain # <<>>
          /\ req' = [req EXCEPT ![q] =
               [phase |-> "due", route |-> r, exposed |-> r, targets |-> chain, chain |-> chain,
                sess |-> a.sess, off |-> a.off, gen |-> gen, prof |-> a.prof, choice |-> NoChoice, now |-> clock,
                base |-> <<>>, order |-> <<>>, park |-> 0, moved |-> FALSE,
                force |-> /\ PinActive(pin[r], clock)
                          /\ \E i \in 1..Len(chain) : Names(chain[i], pin[r].who)]]
  /\ passes' = passes + 1
  /\ UNCHANGED <<gen, clock, manager, outside, scene, changes, ghosts>>

\* Ghost: one more slot dealt, counted from the last change of the candidates.
Dealing(r, list, t) ==
  LET old == IF dealt[r].list = list THEN dealt[r].n ELSE NoDeal.n
      n == [old EXCEPT ![t] = @ + 1]
      full == \A i \in 1..Len(list) : n[list[i]] > 0
  IN [list |-> list, n |-> [x \in Target |-> IF full /\ x \in ToSet(list) THEN n[x] - 1 ELSE n[x]]]

\* The providers a call may choose from.
Eligible(r) == {ProviderOf[t] : t \in ToSet(Offered(Input(r), State))}

\* The call takes a slot of the rotation: no binding that it could follow.
Assigned(r) == /\ Strategy[r.route] = "load_balance" /\ r.exposed \in RouteKeys
               /\ r.gen = gen /\ Eligible(r) # {}
               /\ \/ r.sess = NoSession
                  \/ Bound(Input(r), Swept(Input(r), State)).prov \notin Eligible(r)

(* Manager.DecideOrder, for the pass's clock reading.                       *)
Decide(q) ==
  LET r == req[q]
      res == DecideOrder(Input(r), State)
      k == <<r.sess, r.exposed>>
      moved == /\ k \in TalkKeys /\ talk[k].prov # 0 /\ clock - talk[k].since < Dwell
               /\ talk[k].prov \notin Eligible(r)
  IN /\ r.phase = "due"
     /\ sticky' = Swept(Input(r), State)
     /\ spread' = res.spread /\ rr' = res.rr
     /\ req' = [req EXCEPT ![q].phase = "decided", ![q].order = res.order,
                           ![q].park = res.park, ![q].moved = moved]
     /\ dealt' = IF Assigned(r)
                   THEN [dealt EXCEPT ![r.route] = Dealing(r.route, Offered(Input(r), State), res.order[1])]
                   ELSE dealt
     /\ UNCHANGED <<gen, clock, latch, turns, outside, scene, passes, changes, talk, bads>>

(* Manager.SetSticky, skipped when the decision leaves the binding alone.   *)
SetSticky(q) ==
  LET r == req[q]
      k == <<r.sess, r.exposed>>
      counts == k \in TalkKeys /\ ~r.off /\ r.gen = gen /\ r.order # <<>>
  IN /\ r.phase = "decided"
     /\ sticky' = IF r.park # 0 /\ r.gen = gen
                    THEN [sticky EXCEPT ![StickyKey(r.sess, r.exposed)] = [prov |-> r.park, since |-> r.now]]
                    ELSE sticky
     /\ talk' = IF counts
                  THEN [talk EXCEPT ![k] = [prov |-> ProviderOf[r.order[1]], since |-> r.now,
                          was |-> IF r.moved THEN [prov |-> @.prov, since |-> @.since] ELSE NoStick]]
                  ELSE talk
     /\ req' = [req EXCEPT ![q].phase = "parked", ![q].park = 0, ![q].moved = FALSE]
     /\ UNCHANGED <<gen, clock, spread, rr, latch, turns, outside, scene, passes, changes, dealt, bads>>

\* Targets of all routes that fit the request.
Pool(p) == Target \cap p.fit
Rerouting(r) == /\ ~r.force /\ r.prof.cat /\ r.exposed = r.route /\ r.order # <<>>
                /\ Fitting(r.order, r.prof.fit) = <<>> /\ Pool(r.prof) # {}

(* ApplyWithProfile when nothing in the order fits: the pool, collected in  *)
(* no particular order, is scheduled under a key of its own.                *)
Reroute(q) ==
  LET r == req[q]
  IN /\ r.phase = "parked" /\ Rerouting(r)
     /\ \E chain \in SetToSeqs(Pool(r.prof)) :
          req' = [req EXCEPT ![q].phase = "due", ![q].exposed = ReqKey(r.route),
                    ![q].chain = chain, ![q].base = r.order, ![q].now = clock]
     /\ UNCHANGED <<gen, clock, manager, outside, scene, passes, changes, ghosts>>

(* The order that ApplyWithProfile leaves.                                  *)
Applied(r) ==
  IF r.force \/ ~r.prof.cat THEN r.order
  ELSE IF r.exposed = r.route
    THEN IF Fitting(r.order, r.prof.fit) = <<>> THEN r.order ELSE Fitting(r.order, r.prof.fit)
  ELSE IF r.order = <<>> THEN r.base
  ELSE PreferProviders(r.order, {ProviderOf[t] : t \in ToSet(r.base)}, ProviderOf)

\* The session's latch is in force.
Escalated(r, now) ==
  LET k == <<r.sess, r.route>>
  IN k \in LatchKeys /\ latch[k].here /\ latch[k].on /\ now - latch[k].since <= LatchDwell

WantOf(g) == {t \in Target : g # NoGrade /\ GradeOf[t] = g}

\* It also has a target in the order, and so decides.
Latched(r, ordered) ==
  IF r.route \in Graded
    THEN Escalated(r, clock) /\ HasTargets(Groups(ordered, r.prof.fit), Strong)
    ELSE Escalated(r, r.now) /\ ToSet(ordered) \cap WantOf(Strong) # {}

(* What the selector may have chosen: asked once per request, and not when  *)
(* a latch decides or the request is pinned; it may also fail, or not be    *)
(* sure enough.                                                             *)
Selected(r, ordered) ==
  IF r.force \/ Latched(r, ordered) \/ r.choice.made THEN {r.choice}
  ELSE {[NoChoice EXCEPT !.made = TRUE]} \cup
       IF r.route \in Graded
         THEN LET groups == Groups(ordered, r.prof.fit)
              IN {[made |-> TRUE, grade |-> groups[i].name, targets |-> {}] :
                    i \in {j \in 1..Len(groups) : groups[j].targets # <<>>}}
         ELSE {[made |-> TRUE, grade |-> NoGrade, targets |-> {t}] : t \in ToSet(ordered)}

(* The order a pass tries: the policy step of serveOnce, which pinned       *)
(* requests skip, for the selector's choice c and the fallback mode f.      *)
Planned(r, ordered, c, f) ==
  LET latched == Latched(r, ordered)
  IN IF r.force THEN ordered
     ELSE IF r.route \in Graded
       THEN GradePolicy(ordered, r.prof.fit, IF latched THEN Strong ELSE NoGrade, r.prof.band, c.grade, f)
       ELSE TargetPolicy(ordered, IF latched THEN WantOf(Strong) ELSE {}, WantOf(r.prof.band), c.targets)

(* The pass has its order.  All its targets may fail while one recovers     *)
(* soon: the whole pass again, with the choice of the selector.             *)
Plan(q) ==
  LET r == req[q]
  IN /\ r.phase = "parked" /\ ~Rerouting(r)
     /\ \/ req' = [req EXCEPT ![q] = [phase |-> "planned", sess |-> r.sess, route |-> r.route, gen |-> r.gen]]
        \/ \E c \in Selected(r, Applied(r)) :
             /\ passes < scene.passes
             /\ req' = [req EXCEPT ![q] = [r EXCEPT !.phase = "failed", !.exposed = r.route, !.choice = c,
                           !.now = 0, !.chain = <<>>, !.base = <<>>, !.order = <<>>]]
     /\ UNCHANGED <<gen, clock, manager, outside, scene, passes, changes, ghosts>>

Retry(q) ==
  /\ req[q].phase = "failed" /\ passes < scene.passes
  /\ req' = [req EXCEPT ![q].phase = "due", ![q].now = clock, ![q].chain = req[q].targets]
  /\ passes' = passes + 1
  /\ UNCHANGED <<gen, clock, manager, outside, scene, changes, ghosts>>

(***************************************************************************)
(* The end of a request: recordLatchOutcome.                               *)
(***************************************************************************)
Recent(window, now) == SelectSeq(window, LAMBDA at : at >= now - LatchDwell)
Capped(window) == IF Len(window) > TurnCap THEN SubSeq(window, 2, Len(window)) ELSE window

\* CheckRepeatTurn: a session that resends a turn does so with one turn at a time,
\* so a window keeps when the turn was seen.
TurnsSeen(k, now) ==
  [j \in LatchKeys |->
     LET kept == IF j[2] = k[2] THEN Recent(turns[j], now) ELSE turns[j]
     IN IF j = k THEN Capped(Append(kept, now)) ELSE kept]

(* What the request came to ("ok", "empty", "error", "gone" for a client    *)
(* that left, "unplanned" for one without any target), with or without a    *)
(* turn key.                                                                *)
Signals(o, repeat) == (IF o \in {"empty", "error"} THEN 1 ELSE 0) + (IF repeat THEN 1 ELSE 0)

(* The first section: the turn is checked and remembered.                   *)
Finish(q) ==
  LET r == req[q]
      k == <<r.sess, r.route>>
  IN /\ r.phase \in {"planned", "failed"}
     /\ \E end \in scene.outcomes :
          LET o == end.what
              reported == k \in LatchKeys /\ o # "unplanned"
              checked == reported /\ end.turn /\ r.gen = gen
              repeat == checked /\ Recent(turns[k], clock) # <<>>
              n == Signals(o, repeat)
          IN /\ turns' = IF checked THEN TurnsSeen(k, clock) ELSE turns
             /\ req' = [req EXCEPT ![q] =
                          IF reported /\ (n > 0 \/ o = "ok")
                            THEN [phase |-> "ending", sess |-> r.sess, route |-> r.route,
                                  gen |-> r.gen, now |-> clock, n |-> n, good |-> n = 0]
                            ELSE Idle]
     /\ UNCHANGED <<gen, clock, sticky, spread, rr, latch, outside, scene, passes, changes, ghosts>>

\* Mutant: a good run does not end the streak.
Streak_NeverEnds(l, r) == l

\* A good run ends the streak of a latch and keeps the latch.
Streak(l, r) == IF r.good /\ l.here THEN [l EXCEPT !.runs = 0] ELSE l

Expired(l, now) == l.here /\ now - l.since > LatchDwell

\* Ghost: the bad signals of a run of outcomes, each with those before it.
Total(runs) == IF runs = <<>> THEN 0 ELSE runs[Len(runs)].before + runs[Len(runs)].n

(* Manager.RecordLatchOutcome: expiry, streak and escalation in one section. *)
RecordLatchOutcome(q) ==
  LET r == req[q]
      k == <<r.sess, r.route>>
      swept == [j \in LatchKeys |->
                  IF j[2] = r.route /\ Expired(latch[j], r.now) THEN NoLatch ELSE latch[j]]
      old == swept[k]
      runs == old.runs + r.n
      up == runs >= Consecutive
  IN /\ r.phase = "ending"
     /\ IF r.gen # gen THEN UNCHANGED <<latch, bads>>
        ELSE /\ latch' = [swept EXCEPT ![k] =
                   IF r.n = 0 THEN Streak(old, r)
                   ELSE [here |-> TRUE, on |-> old.on \/ up, runs |-> IF up THEN 0 ELSE runs,
                         since |-> IF up \/ ~old.here THEN r.now ELSE old.since]]
             /\ bads' = [bads EXCEPT ![k] =
                   IF r.n = 0 THEN <<>>
                   ELSE Append(@, [read |-> r.now, at |-> clock, n |-> r.n, before |-> Total(@)])]
     /\ req' = [req EXCEPT ![q] = Idle]
     /\ UNCHANGED <<gen, clock, sticky, spread, rr, turns, outside, scene, passes, changes, talk, dealt>>

(***************************************************************************)
(* Time, the operator, and what other parts of the manager learn.          *)
(***************************************************************************)
Tick == /\ clock < MaxTime /\ clock' = clock + 1
        /\ UNCHANGED <<gen, manager, outside, req, scene, passes, changes, ghosts>>

\* One change of a kind the scenario has; taking it back is not bounded.
Change(c) == /\ c \in scene.changes \ changes /\ changes' = changes \cup {c}
             /\ UNCHANGED <<clock, req, scene, passes>>
Undo == UNCHANGED <<clock, req, scene, passes, changes>>
Steady == UNCHANGED <<gen, manager, ghosts>>

\* Health, a model lock or an exhausted quota takes a target out, or lets it back in.
Availability ==
  /\ \E t \in Target :
       \/ t \notin down /\ Change([down |-> t]) /\ down' = down \cup {t}
       \/ t \in down /\ Undo /\ down' = down \ {t}
  /\ Steady /\ UNCHANGED <<pin, disabled, facts>>

Measure == /\ \E f \in FactSets : Change([facts |-> f]) /\ facts' = f
           /\ Steady /\ UNCHANGED <<pin, down, disabled>>

SetPin == /\ \E r \in RouteKeys, t \in Target, until \in {clock + 1, Forever} :
               \E who \in {ProviderOf[t], ParentOf[t]} \ {0} :
                 /\ Change([pin |-> r, who |-> who, expires |-> until # Forever])
                 /\ pin' = [pin EXCEPT ![r] = [who |-> who, until |-> until]]
          /\ Steady /\ UNCHANGED <<down, disabled, facts>>

ClearPin == /\ Undo /\ Steady
            /\ \E r \in RouteKeys : pin[r] # NoPin /\ pin' = [pin EXCEPT ![r] = NoPin]
            /\ UNCHANGED <<down, disabled, facts>>

SetModelDisabled ==
  /\ \E t \in Target :
       \/ t \notin disabled /\ Change([disable |-> t]) /\ disabled' = disabled \cup {t}
       \/ t \in disabled /\ Undo /\ disabled' = disabled \ {t}
  /\ Steady /\ UNCHANGED <<pin, down, facts>>

(* Manager.ReplaceGeneration: pins, disables and quotas outlive a reload,   *)
(* the rest of the routing state does not; health starts afresh.            *)
Reload == /\ Change([reload |-> TRUE]) /\ gen' = gen + 1
          /\ sticky' = NoBindings /\ spread' = NoSpread /\ rr' = NoTurn
          /\ latch' = [k \in LatchKeys |-> NoLatch] /\ turns' = [k \in LatchKeys |-> <<>>]
          /\ talk' = [k \in TalkKeys |-> NoTalk] /\ dealt' = [r \in RouteKeys |-> NoDeal]
          /\ bads' = [k \in LatchKeys |-> <<>>]
          /\ down' = {}
          /\ UNCHANGED <<pin, disabled, facts>>

Next ==
  \/ \E q \in Req : \/ Arrive(q) \/ Decide(q) \/ SetSticky(q) \/ Reroute(q) \/ Plan(q)
                     \/ Retry(q) \/ Finish(q) \/ RecordLatchOutcome(q)
  \/ Tick \/ Availability \/ Measure \/ SetPin \/ ClearPin \/ SetModelDisabled \/ Reload

Spec == Init /\ [][Next]_vars
-----------------------------------------------------------------------------
(***************************************************************************)
(* Properties.                                                             *)
(***************************************************************************)
DecidesNow(q) == req[q].phase = "due" /\ req'[q].phase = "decided"
HeadOf(q) == ProviderOf[req'[q].order[1]]
\* The decision of q may follow a binding of its session on its route.
Follows(q) == <<req[q].sess, req[q].exposed>> \in TalkKeys /\ ~req[q].off
Still(b) == b.prov # 0 /\ clock - b.since < Dwell

(* A session stays where it was sent last on this route, as long as it      *)
(* comes back within the dwell and the provider may be chosen: whatever its *)
(* requests on other routes, the sweeps of other sessions' requests and new *)
(* measurements did meanwhile (the session's prompt cache is there).        *)
SessionStays ==
  [][\A q \in Req :
       DecidesNow(q) /\ Follows(q) =>
         LET t == talk[<<req[q].sess, req[q].exposed>>]
         IN Still(t) /\ t.prov \in Eligible(req[q]) => HeadOf(q) = t.prov]_vars

(* routing-and-failure.md calls it a contract that a session whose provider *)
(* went down returns to it when it recovers within the dwell.               *)
RecoverAndReturn ==
  [][\A q \in Req :
       DecidesNow(q) /\ Follows(q) =>
         LET w == talk[<<req[q].sess, req[q].exposed>>].was
         IN Still(w) /\ w.prov \in Eligible(req[q]) => HeadOf(q) = w.prov]_vars

(* load_balance deals sessions and anonymous requests out evenly: as long   *)
(* as a route's candidates stay the same, no target is ever two slots ahead *)
(* of another, however many requests of bound sessions, previews and        *)
(* requests of old generations come in between.                             *)
EvenDeal ==
  \A r \in RouteKeys : \A t, u \in ToSet(dealt[r].list) :
    dealt[r].n[t] - dealt[r].n[u] <= 1

\* A run of bad outcomes, no good one between them, that earns an escalation.
Earned(runs) ==
  \E i \in 1..Len(runs) :
    /\ Total(runs) - runs[i].before >= Consecutive
    /\ runs[Len(runs)].read - runs[i].at <= LatchDwell

(* A session is escalated only by as many bad runs in a row as the policy   *)
(* asks for, within its dwell (the last one's clock reading against the     *)
(* time the first was recorded), whatever other requests of the session     *)
(* ended between them and however late an outcome is recorded.              *)
EscalationEarned ==
  [][\A k \in LatchKeys : latch'[k].on /\ ~latch[k].on => Earned(bads'[k])]_vars

(* Fitting the order and applying the policy never lose the last target     *)
(* that can serve the request: if any target that was left by the planner   *)
(* fits, the request still has one to try, in every fallback mode and for   *)
(* every latch, choice and band (policy.go: "the policy must never leave    *)
(* the pipeline with zero targets").                                        *)
PolicyKeepsTargets ==
  \A q \in Req : req[q].phase = "parked" =>
    LET r == req[q]
        ordered == Applied(r)
        Fits(seq) == \E i \in 1..Len(seq) : seq[i] \in r.prof.fit
    IN r.prof.cat /\ ~Rerouting(r) /\ Fits(ordered) =>
         \A c \in Selected(r, ordered), f \in Fallbacks : Fits(Planned(r, ordered, c, f))
=============================================================================
