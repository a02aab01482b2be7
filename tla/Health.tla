------------------------------- MODULE Health -------------------------------
(***************************************************************************)
(* Provider health as internal/runtime keeps it (Manager.health and        *)
(* Manager.modelLocks, one mutex), driven by the upstream attempts that    *)
(* internal/targetexec runs concurrently.  Every Manager method is one     *)
(* critical section, hence one atomic step; an attempt is a sequence of    *)
(* such steps, and other attempts, a config reload, an operator command or *)
(* a quota poll may run between any two of them.                           *)
(*                                                                         *)
(* Time.  A deadline is kept as the time that is left until it; Tick moves *)
(* every deadline one unit closer.  `now.Before(d)' is therefore `d > 0',  *)
(* and a zero deadline of the code is either 0 (already past) or, where    *)
(* the code tells a zero deadline from a past one (circuitOpenUntil),      *)
(* Closed.  streakStartedAt is kept as the age of the streak, saturated at *)
(* Persist, the only value it is compared with; consecutiveFailures        *)
(* saturates at Threshold for the same reason.  Clock reads are taken to   *)
(* happen inside the critical section that uses them.                      *)
(***************************************************************************)
EXTENDS Integers

CONSTANTS
    Provider,    \* runtime provider keys (config names, pooled name#id keys)
    Model,       \* upstream model names
    Req,         \* attempt slots: how many attempts may overlap
    Threshold,   \* scheduling.circuit_threshold
    Cooldown,    \* scheduling.circuit_cooldown
    Persist,     \* scheduling.circuit_persist
    MaxLimit,    \* the longest rate-limit horizon an upstream may announce
    Lockout,     \* scheduling.model_lockout
    ForceChoices, \* the values of policy.Force that requests may carry
    MaxGen       \* bound on the number of config generations explored

ASSUME ConstantsAssumption ==
    /\ Threshold \in Nat \ {0}
    /\ Cooldown \in Nat \ {0}
    /\ Persist \in Nat
    /\ MaxLimit \in Nat \ {0}
    /\ Lockout \in Nat \ {0}
    /\ ForceChoices \subseteq BOOLEAN
    /\ MaxGen \in Nat \ {0}

VARIABLES
    generation,  \* Manager.generation
    health,      \* Manager.health; an absent entry behaves as NoHealth
    modelLocks,  \* Manager.modelLocks: time left, 0 when absent or expired
    attempt      \* what each attempt slot is doing

vars == <<generation, health, modelLocks, attempt>>

-----------------------------------------------------------------------------
(* The state. *)

Closed == -1

RateLimitKind == {"transient", "quota", "daily"}

HealthState ==
    [consecutiveFailures : 0..Threshold,
     streakAge           : 0..Persist,
     circuitOpenUntil    : {Closed} \cup 0..Cooldown,
     rateLimitedUntil    : 0..MaxLimit,
     rateLimitKind       : RateLimitKind,
     halfOpenInFlight    : BOOLEAN,
     frozen              : BOOLEAN]

NoHealth ==
    [consecutiveFailures |-> 0, streakAge |-> 0, circuitOpenUntil |-> Closed,
     rateLimitedUntil |-> 0, rateLimitKind |-> "transient",
     halfOpenInFlight |-> FALSE, frozen |-> FALSE]

Phase == {"idle", "scheduled", "checked", "inflight", "releasing",
          "succeeding", "streaming"}

(* gen is the generation the request captured with its runtime snapshot;   *)
(* force is targetexec's policy.Force; probe is TRUE for an attempt whose  *)
(* TakeHalfOpenSlot set halfOpenInFlight, FALSE for one that was let       *)
(* through without the slot.  The code does not record probe.              *)
Attempt ==
    [phase : Phase, provider : Provider, model : Model, gen : 1..MaxGen,
     force : BOOLEAN, probe : BOOLEAN]

TypeOK ==
    /\ generation \in 1..MaxGen
    /\ health \in [Provider -> HealthState]
    /\ modelLocks \in [Provider -> [Model -> 0..Lockout]]
    /\ attempt \in [Req -> Attempt]

-----------------------------------------------------------------------------
(* Reads. *)

(* Fault: a circuit whose cooldown ran out is not offered for a probe. *)
Available_ClosedOnly(h) ==
    /\ ~h.frozen
    /\ h.rateLimitedUntil = 0
    /\ h.circuitOpenUntil = Closed

(* providerHealth.available *)
Available(h) ==
    /\ ~h.frozen
    /\ h.rateLimitedUntil = 0
    /\ h.circuitOpenUntil <= 0
    /\ ~(h.circuitOpenUntil = 0 /\ h.halfOpenInFlight)

ModelLocked(p, m) == modelLocks[p][m] > 0

(* Manager.TargetHealthy, the filter decideOrder applies to each target. *)
TargetHealthy(p, m) == Available(health[p]) /\ ~ModelLocked(p, m)

(* generationMatchesLocked: requests always carry a nonzero generation. *)
GenerationMatches(r) == attempt[r].gen = generation

(* An attempt between its TakeHalfOpenSlot and its last report. *)
Running(r) == attempt[r].phase \in {"inflight", "releasing", "succeeding"}

-----------------------------------------------------------------------------
(* The critical sections of Manager that an attempt calls.  Each is gated  *)
(* by the generation the attempt carries.                                  *)

(* Fault: the generation gate is missing. *)
SetHealth_Ungated(r, h) ==
    health' = [health EXCEPT ![attempt[r].provider] = h]

SetHealth(r, h) ==
    LET p == attempt[r].provider IN
    health' = IF GenerationMatches(r) THEN [health EXCEPT ![p] = h] ELSE health

SetModelLock(r, left) ==
    modelLocks' = IF GenerationMatches(r)
                  THEN [modelLocks EXCEPT
                          ![attempt[r].provider][attempt[r].model] = left]
                  ELSE modelLocks

Released(h) == [h EXCEPT !.halfOpenInFlight = FALSE]

Succeeded(h) ==
    [h EXCEPT !.consecutiveFailures = 0, !.streakAge = 0,
              !.circuitOpenUntil = Closed, !.halfOpenInFlight = FALSE]

(* Fault: the circuit opens on the count alone. *)
Failed_NoSpanGate(h) ==
    LET n   == IF h.consecutiveFailures < Threshold
               THEN h.consecutiveFailures + 1 ELSE Threshold
        age == IF h.consecutiveFailures = 0 THEN 0 ELSE h.streakAge
    IN  [h EXCEPT !.consecutiveFailures = n, !.streakAge = age,
                  !.halfOpenInFlight = FALSE,
                  !.circuitOpenUntil = IF n >= Threshold THEN Cooldown ELSE @]

(* RecordFailure: the streak starts at the 0 -> 1 transition, and the      *)
(* circuit opens when it is both long enough and old enough.               *)
Failed(h) ==
    LET n   == IF h.consecutiveFailures < Threshold
               THEN h.consecutiveFailures + 1 ELSE Threshold
        age == IF h.consecutiveFailures = 0 THEN 0 ELSE h.streakAge
    IN  [h EXCEPT !.consecutiveFailures = n, !.streakAge = age,
                  !.halfOpenInFlight = FALSE,
                  !.circuitOpenUntil =
                      IF n >= Threshold /\ age >= Persist THEN Cooldown ELSE @]

(* RecordRateLimit: the later horizon wins and brings its kind. *)
RateLimited(h, until, kind) ==
    [h EXCEPT !.halfOpenInFlight = FALSE,
              !.rateLimitedUntil = IF until > @ THEN until ELSE @,
              !.rateLimitKind = IF until > h.rateLimitedUntil THEN kind ELSE @]

-----------------------------------------------------------------------------
(* Steps of an attempt (Executor.Execute). *)

Goto(r, phase) == attempt' = [attempt EXCEPT ![r].phase = phase]

(* decideOrder admits a target that is healthy now; a forced or pinned     *)
(* request takes its target whatever its health.  The request runs later,  *)
(* on this decision and on the generation it captured.                     *)
Schedule(r, p, m, force) ==
    /\ attempt[r].phase = "idle"
    /\ force \/ TargetHealthy(p, m)
    /\ attempt' = [attempt EXCEPT ![r] =
                     [phase |-> "scheduled", provider |-> p, model |-> m,
                      gen |-> generation, force |-> force, probe |-> FALSE]]
    /\ UNCHANGED <<generation, health, modelLocks>>

(* The model lock is checked in a critical section of its own, and whatever *)
(* the generation; a forced attempt skips this check and the slot.          *)
CheckModelLock(r) ==
    LET a == attempt[r] IN
    /\ a.phase = "scheduled"
    /\ Goto(r, IF a.force THEN "inflight"
               ELSE IF ModelLocked(a.provider, a.model) THEN "idle"
               ELSE "checked")
    /\ UNCHANGED <<generation, health, modelLocks>>

(* TakeHalfOpenSlot: refused while rate limited, while the circuit is open *)
(* and while another probe is out; takes the slot when the circuit is      *)
(* half-open; otherwise lets the attempt through without it.               *)
TakeHalfOpenSlot(r) ==
    LET p == attempt[r].provider
        h == health[p]
        refused == \/ h.rateLimitedUntil > 0
                   \/ h.circuitOpenUntil > 0
                   \/ h.circuitOpenUntil = 0 /\ h.halfOpenInFlight
        takes   == ~refused /\ h.circuitOpenUntil = 0
    IN
    /\ attempt[r].phase = "checked"
    /\ IF GenerationMatches(r)
         THEN /\ attempt' = [attempt EXCEPT
                    ![r].phase = IF refused THEN "idle" ELSE "inflight",
                    ![r].probe = takes]
              /\ health' = IF takes
                           THEN [health EXCEPT ![p].halfOpenInFlight = TRUE]
                           ELSE health
         ELSE Goto(r, "inflight") /\ UNCHANGED health
    /\ UNCHANGED <<generation, modelLocks>>

(* Fault: an exit path returns without releasing. *)
ReleaseHalfOpenSlot_Forgotten(r) ==
    /\ attempt[r].phase \in {"inflight", "releasing"}
    /\ Goto(r, "idle")
    /\ UNCHANGED <<generation, health, modelLocks>>

(* ReleaseHalfOpenSlot: the client went away, the request could not be     *)
(* built or authorised, the upstream refused the content, the context was  *)
(* too large, an ordinary 4xx is about to be relayed; or the second half   *)
(* of a model denial.                                                      *)
ReleaseHalfOpenSlot(r) ==
    /\ attempt[r].phase \in {"inflight", "releasing"}
    /\ SetHealth(r, Released(health[attempt[r].provider]))
    /\ Goto(r, "idle")
    /\ UNCHANGED <<generation, modelLocks>>

(* RecordSuccess, before the 2xx body is streamed to the client. *)
RecordSuccess(r) ==
    /\ attempt[r].phase \in {"inflight", "succeeding"}
    /\ SetHealth(r, Succeeded(health[attempt[r].provider]))
    /\ SetModelLock(r, 0)
    /\ Goto(r, "streaming")
    /\ UNCHANGED generation

(* RecordFailure: timeout, connection error after the one redispatch, 5xx, *)
(* a 401 that survives the refresh, an HTML page for an answer.            *)
RecordFailure(r) ==
    /\ attempt[r].phase = "inflight"
    /\ SetHealth(r, Failed(health[attempt[r].provider]))
    /\ Goto(r, "idle")
    /\ UNCHANGED <<generation, modelLocks>>

(* RecordRateLimit: a 429, or a 402/403 whose body proves exhaustion. *)
RecordRateLimit(r, until, kind) ==
    /\ attempt[r].phase = "inflight"
    /\ SetHealth(r, RateLimited(health[attempt[r].provider], until, kind))
    /\ Goto(r, "idle")
    /\ UNCHANGED <<generation, modelLocks>>

(* RecordModelFailure: model denied or unknown, then release; or an        *)
(* announced empty 2xx body, then release with targets left to try and     *)
(* success on the last target.                                             *)
RecordModelFailure(r, next) ==
    /\ attempt[r].phase = "inflight"
    /\ SetModelLock(r, Lockout)
    /\ Goto(r, next)
    /\ UNCHANGED <<generation, health>>

(* The committed body ends; one that turned out empty locks the model. *)
StreamEnd(r, empty) ==
    /\ attempt[r].phase = "streaming"
    /\ IF empty THEN SetModelLock(r, Lockout) ELSE UNCHANGED modelLocks
    /\ Goto(r, "idle")
    /\ UNCHANGED <<generation, health>>

-----------------------------------------------------------------------------
(* Steps of the rest of the system. *)

(* A config reload: ReplaceGeneration drops all health and all locks. *)
ReplaceGeneration ==
    /\ generation < MaxGen
    /\ generation' = generation + 1
    /\ health' = [p \in Provider |-> NoHealth]
    /\ modelLocks' = [p \in Provider |-> [m \in Model |-> 0]]
    /\ UNCHANGED attempt

(* The operator's unfreeze of the matched providers S. *)
ResetHealth(S) ==
    /\ health' = [p \in Provider |-> IF p \in S THEN NoHealth ELSE health[p]]
    /\ modelLocks' = [p \in Provider |->
                        IF p \in S THEN [m \in Model |-> 0] ELSE modelLocks[p]]
    /\ UNCHANGED <<generation, attempt>>

FreezeHealth(p) ==
    /\ health' = [health EXCEPT ![p].frozen = TRUE]
    /\ UNCHANGED <<generation, modelLocks, attempt>>

(* A poll of the current generation measured budget: the 429 horizon goes. *)
QuotaRecoveredClearCooldown(p) ==
    /\ health[p].rateLimitedUntil > 0
    /\ health' = [health EXCEPT ![p].rateLimitedUntil = 0,
                                ![p].rateLimitKind = "transient"]
    /\ UNCHANGED <<generation, modelLocks, attempt>>

Earlier(left) == IF left > 0 THEN left - 1 ELSE left

(* One unit of time passes. *)
Tick ==
    /\ health' = [p \in Provider |->
         [health[p] EXCEPT
            !.circuitOpenUntil = Earlier(@),
            !.rateLimitedUntil = Earlier(@),
            !.streakAge = IF health[p].consecutiveFailures > 0 /\ @ < Persist
                          THEN @ + 1 ELSE @]]
    /\ modelLocks' = [p \in Provider |->
                        [m \in Model |-> Earlier(modelLocks[p][m])]]
    /\ UNCHANGED <<generation, attempt>>

-----------------------------------------------------------------------------

(* RestoreHealth: what a previous process may have left in the state file: *)
(* cooldowns that are still in the future, and freezes.  A restored        *)
(* circuit carries Threshold failures and the zero streakStartedAt, which  *)
(* any clock reads as older than Persist.                                  *)
RestoredEntry(rl, kind, c, f) ==
    [NoHealth EXCEPT
       !.rateLimitedUntil = rl,
       !.rateLimitKind = IF rl > 0 THEN kind ELSE "transient",
       !.circuitOpenUntil = IF c > 0 THEN c ELSE Closed,
       !.consecutiveFailures = IF c > 0 THEN Threshold ELSE 0,
       !.streakAge = IF c > 0 THEN Persist ELSE 0,
       !.frozen = f]

Restored ==
    { RestoredEntry(rl, kind, c, f) :
        rl \in 0..MaxLimit, kind \in RateLimitKind, c \in 0..Cooldown,
        f \in BOOLEAN }

Idle(p, m) ==
    [phase |-> "idle", provider |-> p, model |-> m, gen |-> 1,
     force |-> FALSE, probe |-> FALSE]

Init ==
    /\ generation = 1
    /\ health \in [Provider -> Restored]
    /\ modelLocks \in [Provider -> [Model -> 0..Lockout]]
    /\ \E p \in Provider, m \in Model :
         attempt = [r \in Req |-> Idle(p, m)]

Step(r) ==
    \/ CheckModelLock(r)
    \/ TakeHalfOpenSlot(r)
    \/ ReleaseHalfOpenSlot(r)
    \/ RecordSuccess(r)
    \/ RecordFailure(r)
    \/ \E until \in 1..MaxLimit, kind \in RateLimitKind :
         RecordRateLimit(r, until, kind)
    \/ \E next \in {"releasing", "succeeding"} : RecordModelFailure(r, next)
    \/ \E empty \in BOOLEAN : StreamEnd(r, empty)

Operator ==
    \/ \E p \in Provider : ResetHealth({p}) \/ FreezeHealth(p)
    \/ ResetHealth(Provider)

Next ==
    \/ \E r \in Req, p \in Provider, m \in Model, force \in ForceChoices :
         Schedule(r, p, m, force)
    \/ \E r \in Req : Step(r)
    \/ ReplaceGeneration
    \/ Operator
    \/ \E p \in Provider : QuotaRecoveredClearCooldown(p)
    \/ Tick

Spec == Init /\ [][Next]_vars

(* The scheduler of the Go runtime runs every attempt's goroutine, and the *)
(* upstream timeout of scheduling.timeout bounds every wait in it.         *)
Fairness == WF_vars(Tick) /\ \A r \in Req : WF_vars(Step(r))

FairSpec == Spec /\ Fairness

-----------------------------------------------------------------------------
(* Properties. *)

Probes(p) == {r \in Req : /\ Running(r)
                          /\ attempt[r].probe
                          /\ attempt[r].provider = p
                          /\ GenerationMatches(r)}

(* A half-open slot that is marked taken always has a live owner: a        *)
(* running attempt of the current generation that took it and whose exits  *)
(* all give it back.  An orphaned flag would keep a recovered provider out *)
(* of every schedule until the next reload (available, TakeHalfOpenSlot).  *)
SlotHasOwner ==
    \A p \in Provider : health[p].halfOpenInFlight => Probes(p) # {}

(* A circuit is open or half-open only on the evidence RecordFailure asks  *)
(* for: Threshold failures with no success among them, spanning Persist.   *)
(* In particular nothing but a success forgets failure history, so a       *)
(* failed probe reopens the circuit at once; and the slot is only ever     *)
(* taken on a half-open circuit.                                           *)
Earned(h) ==
    /\ h.circuitOpenUntil # Closed =>
         /\ h.consecutiveFailures = Threshold
         /\ h.streakAge = Persist
    /\ h.halfOpenInFlight => h.circuitOpenUntil = 0

CircuitEarned == \A p \in Provider : Earned(health[p])

Moves(r) == attempt'[r] # attempt[r]

(* An attempt that outlived a config reload finishes without touching the  *)
(* new generation's health or model locks, whichever of its reports is     *)
(* still to come.                                                          *)
StaleAttemptsAreInert ==
    [][\A r \in Req :
         Moves(r) /\ attempt[r].phase # "idle" /\ ~GenerationMatches(r)
           => UNCHANGED <<health, modelLocks>>]_vars

(* With no forced traffic and no freeze, a provider is available again and *)
(* again, whatever its upstream answers: every cooldown runs out and every *)
(* probe gives its slot back.                                              *)
AlwaysRecovers ==
    \A p \in Provider :
      /\ <>[](\A r \in Req : ~attempt[r].force)
      /\ <>[](~health[p].frozen)
      => []<>Available(health[p])

(* docs/architecture/routing-and-failure.md: the half-open state is        *)
(* single-flight.  At most one attempt probes a half-open provider.        *)
HalfOpenSingleFlight ==
    \A p \in Provider : \A r, s \in Probes(p) : r = s
=============================================================================
