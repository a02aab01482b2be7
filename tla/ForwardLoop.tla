----------------------------- MODULE ForwardLoop -----------------------------
(***************************************************************************)
(* One client request in internal/forward: up to three scheduling and      *)
(* failover passes (serveOnce), the cooldown-aware wait between them, the  *)
(* terminal answer, the live start/end events and the latch outcome.       *)
(*                                                                         *)
(* The request shares provider health, quota snapshots, model locks and    *)
(* pins with everything else the process does, and reads them in separate  *)
(* critical sections.  The rest of the system may change them between any  *)
(* two of those, so each section here reads an arbitrary value: the        *)
(* parameter enabled, avail or pinned, or the bound h, of its action.  A   *)
(* deadline is read as the time left until it.                             *)
(*                                                                         *)
(* Targets are told apart by their provider.  The order in which a pass    *)
(* tries its targets is arbitrary.  A fusion target is an attempt that     *)
(* commits or fails hard.                                                  *)
(***************************************************************************)
EXTENDS Integers, FiniteSets

CONSTANTS
    Route,      \* the targets of the called route, disabled ones left out
    Other,      \* targets of other routes (the cross-route pool)
    Pinned,     \* the targets a pin on this route selects
    RetryWait,  \* scheduling.retry_wait
    MaxLeft     \* the longest cooldown explored

Target == Route \cup Other

ASSUME ForwardAssumption ==
    /\ Pinned \subseteq Route /\ Pinned # {}
    /\ RetryWait \in Nat /\ MaxLeft \in Nat

\* A configuration lists its targets.
ASSUME TargetsFinite == IsFiniteSet(Target)

MaxRetryRounds == 2

VARIABLES
    pc,       \* where the request's goroutine stands
    targets,  \* forward's targets, after force-provider narrowing
    force,    \* pinForces, read once before the cache lookup
    forced,   \* forcedProvider # ""
    round,    \* passes already retried
    pass,     \* serveOnce's ordered, ti and serveResult
    retried,  \* serveState.retriedForContext
    sawHard, sawCool,  \* forward's classes, accumulated over the passes
    view,     \* what CooldownState returned
    sleep,    \* FailureDecision.Wait
    status,   \* the terminal answer
    ends,     \* live "end" events published
    latch,    \* what recordLatchOutcome did
    seen      \* history: what really happened, for the properties

answer == <<status, ends, latch>>
vars == <<pc, targets, force, forced, round, pass, retried, sawHard, sawCool,
          view, sleep, answer, seen>>

-----------------------------------------------------------------------------
(* The state. *)

PC == {"arrive", "schedule", "targets", "decide", "waiting", "done"}

(* relayed is a committed upstream answer, failclosed a 502 written by the *)
(* executor's commit, 499 a client that went away.                         *)
Status == {"none", "rejected", "relayed", "failclosed", "400", "429", "499", "502"}
Verdict == {"none", "exempt", "ignored", "good", "bad"}

Pass ==
    [all : SUBSET Target, left : SUBSET Target, tried : SUBSET Target,
     hard : BOOLEAN, cool : BOOLEAN, conversionErr : BOOLEAN,
     planningErr : BOOLEAN]

NewPass(ordered) ==
    [all |-> ordered, left |-> ordered, tried |-> {}, hard |-> FALSE,
     cool |-> FALSE, conversionErr |-> FALSE, planningErr |-> FALSE]

View == [allDown : BOOLEAN, allRateLimited : BOOLEAN, earliest : 0..MaxLeft]
NoView == [allDown |-> FALSE, allRateLimited |-> FALSE, earliest |-> 0]

Seen == [hard : BOOLEAN, cool : BOOLEAN, strayed : BOOLEAN,
         attempts : Nat, waited : Nat, records : Nat]

TypeOK ==
    /\ pc \in PC
    /\ targets \subseteq Route
    /\ force \in BOOLEAN /\ forced \in BOOLEAN
    /\ round \in 0..MaxRetryRounds
    /\ pass \in Pass
    /\ retried \in BOOLEAN /\ sawHard \in BOOLEAN /\ sawCool \in BOOLEAN
    /\ view \in View
    /\ sleep \in 0..RetryWait
    /\ status \in Status /\ ends \in 0..1 /\ latch \in Verdict
    /\ seen \in Seen

-----------------------------------------------------------------------------
(* Reads of the shared state.  limit is the later of the 429 horizon and   *)
(* the fresh quota-exhausted horizon, circuit the open circuit, down a     *)
(* freeze or a half-open circuit whose probe is out.                       *)

Reading == [limit : 0..MaxLeft, circuit : 0..MaxLeft, down : BOOLEAN]

Available(h) == h.limit = 0 /\ h.circuit = 0 /\ ~h.down

Until(h) == IF h.limit > h.circuit THEN h.limit ELSE h.circuit

RateLimitOnly(h) == h.limit > 0 /\ h.circuit = 0

CooldownState(h) ==
    IF DOMAIN h = {} \/ \E t \in DOMAIN h : Available(h[t])
    THEN NoView
    ELSE [allDown |-> TRUE,
          allRateLimited |-> \A t \in DOMAIN h : RateLimitOnly(h[t]),
          earliest |-> CHOOSE e \in {Until(h[t]) : t \in DOMAIN h} :
                         \A t \in DOMAIN h : e <= Until(h[t])]

(* The targets this read and the next one are about. *)
CheckTargets == IF pass.all = {} THEN targets ELSE pass.all

(* avail are the targets that are available and not quota-exhausted. *)
HasRecoveredUntried(avail) == (avail \cap CheckTargets) \ pass.tried # {}

-----------------------------------------------------------------------------
(* How a request ends. *)

(* Fault: the client leaving is taken for an upstream error. *)
LatchVerdict_GoneIsBad(committed, gone) ==
    IF pass.tried = {} /\ (pass.conversionErr \/ pass.planningErr) THEN "exempt"
    ELSE IF committed THEN "good" ELSE "bad"

(* recordLatchOutcome with the upstream_error signal. *)
LatchVerdict(committed, gone) ==
    IF pass.tried = {} /\ (pass.conversionErr \/ pass.planningErr) THEN "exempt"
    ELSE IF committed THEN "good"
    ELSE IF gone THEN "ignored"
    ELSE "bad"

(* Fault: this way out publishes no end event. *)
Finish_Silent(s, committed, gone, published) ==
    /\ pc' = "done" /\ status' = s
    /\ ends' = ends + (IF published /\ ~gone THEN 1 ELSE 0)
    /\ latch' = LatchVerdict(committed, gone)
    /\ seen' = [seen EXCEPT !.records = @ + 1]
    /\ UNCHANGED <<targets, force, forced, round, retried, sleep>>

Finish(s, committed, gone, published) ==
    /\ pc' = "done"
    /\ status' = s
    /\ ends' = ends + (IF published THEN 1 ELSE 0)
    /\ latch' = LatchVerdict(committed, gone)
    /\ seen' = [seen EXCEPT !.records = @ + 1]
    /\ UNCHANGED <<targets, force, forced, round, retried, sleep>>

-----------------------------------------------------------------------------
(* Before the passes. *)

(* An oversized body, a missing model, an unknown or disabled model, a     *)
(* guard block, a cache hit or a force-provider that is no target: one end *)
(* event and no start.  A body that cannot be read: neither.               *)
Reject(published) ==
    /\ pc = "arrive"
    /\ pc' = "done"
    /\ status' = "rejected"
    /\ ends' = IF published THEN 1 ELSE 0
    /\ UNCHANGED <<targets, force, forced, round, pass, retried, sawHard,
                   sawCool, view, sleep, latch, seen>>

(* The pin is read; x-mp-force-provider, or a provider/model name, narrows *)
(* the targets to S; the start event is published.                         *)
Arrive(pinned, forcing, S) ==
    /\ pc = "arrive"
    /\ S # {} /\ (forcing \/ S = Route)
    /\ pc' = "schedule"
    /\ targets' = S
    /\ force' = pinned
    /\ forced' = forcing
    /\ UNCHANGED <<round, pass, retried, sawHard, sawCool, view, sleep, answer,
                   seen>>

-----------------------------------------------------------------------------
(* One pass. *)

(* decideOrder: the operator's toggles and the pin are read again.  A pin  *)
(* with an enabled target narrows to those, whatever their health;         *)
(* otherwise the available enabled targets are kept.                       *)
Ordered(enabled, avail, pinned) ==
    IF pinned /\ Pinned \cap targets \cap enabled # {}
    THEN Pinned \cap targets \cap enabled
    ELSE targets \cap enabled \cap avail

(* Request-aware fit and the route policy of a free request may drop       *)
(* targets, or replace a chain that does not fit by a cross-route one.     *)
Schedule(enabled, avail, pinned, ordered) ==
    LET base == Ordered(enabled, avail, pinned) IN
    /\ pc = "schedule"
    /\ IF force \/ forced THEN ordered = base
       ELSE ordered \subseteq base \/ (base # {} /\ ordered \subseteq Target)
    /\ pass' = NewPass(ordered)
    /\ pc' = "targets"
    /\ UNCHANGED <<targets, force, forced, round, retried, sawHard, sawCool,
                   view, sleep, answer, seen>>

(* A target that is passed over before any attempt: it cannot be planned,  *)
(* has no runtime provider or no expandable history (plan), asks for a     *)
(* conversion that is not supported (conversion), or fails to convert.     *)
SkipTarget(t, why) ==
    /\ pc = "targets" /\ t \in pass.left
    /\ pass' = [pass EXCEPT !.left = @ \ {t},
                  !.planningErr = @ \/ why = "plan",
                  !.conversionErr = @ \/ why = "conversion"]
    /\ UNCHANGED <<pc, targets, force, forced, round, retried, sawHard, sawCool,
                   view, sleep, answer, seen>>

(* Attempts are counted up to one more than a request may make. *)
MaxAttempts == (MaxRetryRounds + 2) * Cardinality(Target)
Counted(n) == IF n <= MaxAttempts THEN n + 1 ELSE n

Note(t, out) ==
    seen' = [seen EXCEPT !.hard = @ \/ out \in {"unsent", "hard"},
               !.cool = @ \/ out = "limit",
               !.strayed = @ \/ (force /\ t \notin Pinned),
               !.attempts = Counted(@)]

(* The attempt that ends the request. *)
NoteLast(t) ==
    seen' = [seen EXCEPT !.records = @ + 1,
               !.strayed = @ \/ (force /\ t \notin Pinned),
               !.attempts = Counted(@)]

(* Execute, without a commit: refused by the model lock or the half-open   *)
(* slot (locked; a forced attempt asks neither), failed before or after it *)
(* reached the upstream, or rate limited.                                  *)
Execute(t, out) ==
    /\ pc = "targets" /\ t \in pass.left
    /\ out = "locked" => ~force
    /\ pass' = [pass EXCEPT !.left = @ \ {t}, !.tried = @ \cup {t},
                  !.hard = @ \/ out \in {"unsent", "hard"},
                  !.cool = @ \/ out = "limit"]
    /\ Note(t, out)
    /\ UNCHANGED <<pc, targets, force, forced, round, retried, sawHard, sawCool,
                   view, sleep, answer>>

(* A context-overflow answer, once per request and never for a pinned or   *)
(* forced one: the pass goes on with targets of a larger context window    *)
(* than any it has gone through.                                           *)
ContextRetry(t, larger) ==
    /\ pc = "targets" /\ t \in pass.left
    /\ ~retried /\ ~force /\ ~forced
    /\ larger # {} /\ larger \cap ((pass.all \ pass.left) \cup {t}) = {}
    /\ pass' = [pass EXCEPT !.all = larger, !.left = larger, !.tried = @ \cup {t}]
    /\ retried' = TRUE
    /\ Note(t, "overflow")
    /\ UNCHANGED <<pc, targets, force, forced, round, sawHard, sawCool, view,
                   sleep, answer>>

(* Execute commits: the upstream's answer is relayed and Effects.Committed *)
(* publishes the end event; or the answer cannot be read or converted, and *)
(* commit writes a 502 of its own and returns before that call.            *)
Commit(t, s) ==
    /\ pc = "targets" /\ t \in pass.left
    /\ pass' = [pass EXCEPT !.left = @ \ {t}, !.tried = @ \cup {t}]
    /\ pc' = "done" /\ status' = s
    /\ ends' = ends + (IF s = "relayed" THEN 1 ELSE 0)
    /\ latch' = "good"
    /\ NoteLast(t)
    /\ UNCHANGED <<targets, force, forced, round, retried, sawHard, sawCool,
                   view, sleep>>

(* The client leaves while the upstream is asked: OutcomeClientGone. *)
Abandon(t) ==
    /\ pc = "targets" /\ t \in pass.left
    /\ pass' = [pass EXCEPT !.left = @ \ {t}, !.tried = @ \cup {t}]
    /\ pc' = "done" /\ status' = "499"
    /\ ends' = ends + 1
    /\ latch' = "ignored"
    /\ NoteLast(t)
    /\ UNCHANGED <<targets, force, forced, round, retried, sawHard, sawCool,
                   view, sleep>>

(* The client is found gone at the head of the loop over the targets.      *)
ClientGone ==
    /\ pc = "targets" /\ pass.left # {}
    /\ Finish("499", FALSE, TRUE, TRUE)
    /\ UNCHANGED <<pass, sawHard, sawCool, view>>

-----------------------------------------------------------------------------
(* After a pass. *)

(* Fault: only the last pass is classified. *)
Accumulate_LastPass ==
    /\ sawHard' = pass.hard
    /\ sawCool' = pass.cool

Accumulate ==
    /\ sawHard' = (sawHard \/ pass.hard)
    /\ sawCool' = (sawCool \/ pass.cool)

(* Every target was tried or passed over.  A pass that tried none because  *)
(* of an unsupported conversion answers 400; otherwise its failure classes *)
(* are added up and CooldownState is read.                                 *)
PassFailed ==
    /\ pc = "targets" /\ pass.left = {}
    /\ \/ /\ pass.conversionErr /\ pass.tried = {}
          /\ Finish("400", FALSE, FALSE, TRUE)
          /\ UNCHANGED <<sawHard, sawCool, view>>
       \/ /\ ~(pass.conversionErr /\ pass.tried = {})
          /\ Accumulate
          /\ \E h \in [CheckTargets -> Reading] : view' = CooldownState(h)
          /\ pc' = "decide"
          /\ UNCHANGED <<targets, force, forced, round, retried, sleep, answer,
                         seen>>
    /\ UNCHANGED pass

MayRetry == ~forced /\ RetryWait > 0 /\ round < MaxRetryRounds

ShortWait == view.allDown /\ view.earliest > 0 /\ view.earliest <= RetryWait

(* DecideFailure: FailureWait. *)
WaitBegin ==
    /\ pc = "decide" /\ MayRetry /\ ShortWait
    /\ sleep' = view.earliest
    /\ pc' = "waiting"
    /\ UNCHANGED <<targets, force, forced, round, pass, retried, sawHard,
                   sawCool, view, answer, seen>>

(* Fault: a wait does not count as a round. *)
WaitEnd_Uncounted ==
    /\ pc = "waiting"
    /\ seen' = [seen EXCEPT !.waited = @ + sleep]
    /\ sleep' = 0
    /\ pc' = "schedule"
    /\ UNCHANGED <<targets, force, forced, round, pass, retried, sawHard,
                   sawCool, view, answer>>

WaitEnd ==
    /\ pc = "waiting"
    /\ seen' = [seen EXCEPT !.waited = @ + sleep]
    /\ sleep' = 0
    /\ round' = round + 1
    /\ pc' = "schedule"
    /\ UNCHANGED <<targets, force, forced, pass, retried, sawHard, sawCool,
                   view, answer>>

(* The client gives up while the request waits.  The result that goes to   *)
(* the latch is that of the failed pass, whose clientGone is false.        *)
WaitCancelled ==
    /\ pc = "waiting"
    /\ Finish("499", FALSE, FALSE, TRUE)
    /\ UNCHANGED <<pass, sawHard, sawCool, view>>

Recovered(avail) == MayRetry /\ ~view.allDown /\ HasRecoveredUntried(avail)

(* Fault: an immediate retry does not count as a round. *)
RetryNow_Uncounted(avail) ==
    /\ pc = "decide" /\ Recovered(avail)
    /\ pc' = "schedule"
    /\ UNCHANGED <<targets, force, forced, round, pass, retried, sawHard,
                   sawCool, view, sleep, answer, seen>>

(* DecideFailure: FailureRetryNow. *)
RetryNow(avail) ==
    /\ pc = "decide" /\ Recovered(avail)
    /\ round' = round + 1
    /\ pc' = "schedule"
    /\ UNCHANGED <<targets, force, forced, pass, retried, sawHard, sawCool,
                   view, sleep, answer, seen>>

RateLimited ==
    ~sawHard /\ (sawCool \/ (view.allDown /\ view.allRateLimited))

(* Fault: a short cooldown met after the last round is no way out. *)
Terminal_KeepsHoping(avail) ==
    /\ pc = "decide"
    /\ ~ShortWait /\ ~Recovered(avail)
    /\ Finish(IF RateLimited THEN "429" ELSE "502", FALSE, FALSE, TRUE)
    /\ UNCHANGED <<pass, sawHard, sawCool, view>>

(* DecideFailure: FailureTerminal, and writeAllTargetsFailed. *)
Terminal(avail) ==
    /\ pc = "decide"
    /\ ~(MayRetry /\ ShortWait) /\ ~Recovered(avail)
    /\ Finish(IF RateLimited THEN "429" ELSE "502", FALSE, FALSE, TRUE)
    /\ UNCHANGED <<pass, sawHard, sawCool, view>>

-----------------------------------------------------------------------------

Init ==
    /\ pc = "arrive" /\ targets = {} /\ force = FALSE /\ forced = FALSE
    /\ round = 0 /\ pass = NewPass({}) /\ retried = FALSE
    /\ sawHard = FALSE /\ sawCool = FALSE
    /\ view = NoView /\ sleep = 0
    /\ status = "none" /\ ends = 0 /\ latch = "none"
    /\ seen = [hard |-> FALSE, cool |-> FALSE,
               strayed |-> FALSE, attempts |-> 0, waited |-> 0, records |-> 0]

Attempts(t) ==
    \/ \E why \in {"plan", "conversion", "convert"} : SkipTarget(t, why)
    \/ \E out \in {"locked", "unsent", "hard", "limit"} : Execute(t, out)
    \/ \E larger \in SUBSET Target : ContextRetry(t, larger)
    \/ \E s \in {"relayed", "failclosed"} : Commit(t, s)
    \/ Abandon(t)

Next ==
    \/ \E published \in BOOLEAN : Reject(published)
    \/ \E pinned, forcing \in BOOLEAN, S \in SUBSET Route :
         Arrive(pinned, forcing, S)
    \/ \E enabled, avail \in SUBSET Route, pinned \in BOOLEAN,
          ordered \in SUBSET Target :
         Schedule(enabled, avail, pinned, ordered)
    \/ \E t \in Target : Attempts(t)
    \/ ClientGone
    \/ PassFailed
    \/ \E avail \in SUBSET Target : RetryNow(avail) \/ Terminal(avail)
    \/ WaitBegin
    \/ WaitEnd
    \/ WaitCancelled

Spec == Init /\ [][Next]_vars

(* The request's goroutine is scheduled, and every upstream call and wait  *)
(* in it is bounded by a timeout.                                          *)
FairSpec == Spec /\ WF_vars(Next)

-----------------------------------------------------------------------------
(* Properties. *)

(* The terminal status tells the truth about all passes, not the last one: *)
(* 429 only if nothing failed hard in any pass and a rate limit, or quota  *)
(* exhaustion of every candidate, was met; 502 only if something failed    *)
(* hard or no target answered with a rate limit.                           *)
HonestStatus ==
    /\ status = "429" => /\ ~seen.hard
                         /\ seen.cool \/ view.allRateLimited
    /\ status = "502" => seen.hard \/ ~seen.cool

(* The silent waits of a request add up to no more than two retry_wait     *)
(* budgets, however the cooldowns it waits for move meanwhile.             *)
BoundedWait == seen.waited <= MaxRetryRounds * RetryWait

(* A request makes no more attempts than three passes over its candidates  *)
(* and one larger-context list allow, whatever recovers, overflows or is   *)
(* passed over in between.                                                 *)
BoundedAttempts == seen.attempts <= MaxAttempts

(* Every way out reports to the latch and to the live monitor exactly once, *)
(* and neither happens while the request may still go on: a bad run is     *)
(* counted once whatever the number of passes.  (A commit that fails       *)
(* closed publishes no end event: see EveryStartEnds.)                     *)
ReportedOnce ==
    status # "rejected" =>
      /\ seen.records = IF pc = "done" THEN 1 ELSE 0
      /\ ends = IF pc = "done" /\ status # "failclosed" THEN 1 ELSE 0

(* A client that leaves while the request waits: the only 499 with a wait  *)
(* under way.                                                              *)
LeftWaiting == status = "499" /\ sleep > 0

(* A latch hears of a bad run only after a pass that failed: for an error  *)
(* that is answered with 429 or 502, or in a wait that the client cuts     *)
(* short, never for one that leaves before or during a pass, and never for *)
(* the 400 of a request that no target can be asked in.  It hears of a     *)
(* good run for a commit only (recordLatchOutcome; LeavingTellsNothing is what *)
(* its comment says of a client that left).                                *)
LatchFollowsAnswer ==
    /\ latch = "bad" => status \in {"429", "502"} \/ LeftWaiting
    /\ latch = "good" <=> status \in {"relayed", "failclosed"}
    /\ status = "499" /\ ~LeftWaiting => latch \in {"ignored", "exempt"}
    /\ status = "400" => latch = "exempt"

(* Every request is answered in the end. *)
Terminates == <>(pc = "done")

(* recordLatchOutcome: "A client-gone outcome records nothing at all."     *)
LeavingTellsNothing == status = "499" => latch \in {"ignored", "exempt"}

(* docs/architecture/fusion-shadow-cache.md and PublishTerminalEvent: a    *)
(* 502 must produce an end event as well.                                  *)
EveryStartEnds == pc = "done" /\ status # "rejected" => ends = 1

(* README.md: after retries, the terminal answer follows the failure       *)
(* classes of all passes, and pure rate limiting is a 429.  A request with *)
(* a rate-limited target is not answered 400.                              *)
RateLimitIsNot400 == status = "400" => ~seen.cool

(* README.md: a pin is hard-exclusive, without failover.  A request that   *)
(* runs under the pin, past every circuit and lock, reaches no other       *)
(* provider.                                                               *)
PinExclusive == ~seen.strayed
=============================================================================
