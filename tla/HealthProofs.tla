---------------------------- MODULE HealthProofs ----------------------------
(***************************************************************************)
(* Proofs about Health, for every set of providers, models and attempts    *)
(* and every value of the scheduling parameters.                           *)
(***************************************************************************)
EXTENDS Health, TLAPS

-----------------------------------------------------------------------------
(* The reports map health states to health states.  The record updates are *)
(* typed first, with the arithmetic kept out of them.                      *)

(* The fields RecordSuccess and RecordFailure write. *)
LEMMA CircuitUpdateTyped ==
    ASSUME NEW h \in HealthState, NEW n \in 0..Threshold,
           NEW age \in 0..Persist, NEW c \in {Closed} \cup 0..Cooldown,
           NEW b \in BOOLEAN
    PROVE  /\ [h EXCEPT !.consecutiveFailures = n, !.streakAge = age,
                        !.circuitOpenUntil = c, !.halfOpenInFlight = b]
                \in HealthState
           /\ [h EXCEPT !.consecutiveFailures = n, !.streakAge = age,
                        !.halfOpenInFlight = b, !.circuitOpenUntil = c]
                \in HealthState
BY DEF HealthState

(* The fields RecordRateLimit writes. *)
LEMMA LimitUpdateTyped ==
    ASSUME NEW h \in HealthState, NEW u \in 0..MaxLimit,
           NEW k \in RateLimitKind, NEW b \in BOOLEAN
    PROVE  [h EXCEPT !.halfOpenInFlight = b, !.rateLimitedUntil = u,
                     !.rateLimitKind = k] \in HealthState
BY DEF HealthState

(* RecordSuccess leaves a typed entry. *)
LEMMA SucceededTyped ==
    ASSUME NEW h \in HealthState
    PROVE  Succeeded(h) \in HealthState
<1>1. 0 \in 0..Threshold /\ 0 \in 0..Persist
  BY ConstantsAssumption
<1> QED BY <1>1, CircuitUpdateTyped DEF Succeeded

(* RecordFailure leaves a typed entry. *)
LEMMA FailedTyped ==
    ASSUME NEW h \in HealthState
    PROVE  Failed(h) \in HealthState
<1> DEFINE n   == IF h.consecutiveFailures < Threshold
                  THEN h.consecutiveFailures + 1 ELSE Threshold
           age == IF h.consecutiveFailures = 0 THEN 0 ELSE h.streakAge
           c   == IF n >= Threshold /\ age >= Persist
                  THEN Cooldown ELSE h.circuitOpenUntil
           g   == [h EXCEPT !.consecutiveFailures = n, !.streakAge = age,
                            !.halfOpenInFlight = FALSE,
                            !.circuitOpenUntil = c]
<1>1. n \in 0..Threshold
  BY ConstantsAssumption DEF HealthState
<1>2. age \in 0..Persist
  BY ConstantsAssumption DEF HealthState
<1>3. c \in {Closed} \cup 0..Cooldown
  BY ConstantsAssumption DEF HealthState
<1>4. Failed(h) = g
  BY DEF Failed, HealthState
<1>5. g \in HealthState
  <2> HIDE DEF n, age, c
  <2> QED BY <1>1, <1>2, <1>3, CircuitUpdateTyped, Zenon
<1> HIDE DEF g
<1> QED BY <1>4, <1>5

(* RecordRateLimit leaves a typed entry. *)
LEMMA RateLimitedTyped ==
    ASSUME NEW h \in HealthState,
           NEW until \in 1..MaxLimit, NEW kind \in RateLimitKind
    PROVE  RateLimited(h, until, kind) \in HealthState
<1> DEFINE u == IF until > h.rateLimitedUntil THEN until ELSE h.rateLimitedUntil
           k == IF until > h.rateLimitedUntil THEN kind ELSE h.rateLimitKind
           g == [h EXCEPT !.halfOpenInFlight = FALSE, !.rateLimitedUntil = u,
                          !.rateLimitKind = k]
<1>1. u \in 0..MaxLimit
  BY ConstantsAssumption DEF HealthState
<1>2. k \in RateLimitKind
  BY DEF HealthState
<1>3. RateLimited(h, until, kind) = g
  BY DEF RateLimited, HealthState
<1>4. g \in HealthState
  <2> HIDE DEF u, k
  <2> QED BY <1>1, <1>2, LimitUpdateTyped, Zenon
<1> HIDE DEF g
<1> QED BY <1>3, <1>4

(* The empty entry, and every entry RestoreHealth may build, is typed. *)
LEMMA EntriesTyped == NoHealth \in HealthState /\ Restored \subseteq HealthState
<1>1. NoHealth \in HealthState
  BY ConstantsAssumption DEF NoHealth, HealthState, Closed, RateLimitKind
<1>2. ASSUME NEW n \in 0..Threshold, NEW age \in 0..Persist,
             NEW c \in {Closed} \cup 0..Cooldown, NEW u \in 0..MaxLimit,
             NEW k \in RateLimitKind, NEW f \in BOOLEAN
      PROVE  [NoHealth EXCEPT
                !.rateLimitedUntil = u, !.rateLimitKind = k,
                !.circuitOpenUntil = c, !.consecutiveFailures = n,
                !.streakAge = age, !.frozen = f] \in HealthState
  BY <1>1 DEF HealthState
<1>3. ASSUME NEW u \in 0..MaxLimit, NEW k \in RateLimitKind,
             NEW c \in 0..Cooldown
      PROVE  /\ (IF c > 0 THEN Threshold ELSE 0) \in 0..Threshold
             /\ (IF c > 0 THEN Persist ELSE 0) \in 0..Persist
             /\ (IF c > 0 THEN c ELSE Closed) \in {Closed} \cup 0..Cooldown
             /\ (IF u > 0 THEN k ELSE "transient") \in RateLimitKind
  BY ConstantsAssumption DEF RateLimitKind
<1>4. Restored \subseteq HealthState
  <2> SUFFICES ASSUME NEW x \in Restored PROVE x \in HealthState
    OBVIOUS
  <2>1. PICK u \in 0..MaxLimit, k \in RateLimitKind, c \in 0..Cooldown,
             f \in BOOLEAN :
          x = RestoredEntry(u, k, c, f)
    BY DEF Restored
  <2> DEFINE k2 == IF u > 0 THEN k ELSE "transient"
             c2 == IF c > 0 THEN c ELSE Closed
             n2 == IF c > 0 THEN Threshold ELSE 0
             age2 == IF c > 0 THEN Persist ELSE 0
  <2>2. /\ k2 \in RateLimitKind /\ c2 \in {Closed} \cup 0..Cooldown
        /\ n2 \in 0..Threshold /\ age2 \in 0..Persist
    BY <1>3
  <2>3. x = [NoHealth EXCEPT
               !.rateLimitedUntil = u, !.rateLimitKind = k2,
               !.circuitOpenUntil = c2, !.consecutiveFailures = n2,
               !.streakAge = age2, !.frozen = f]
    BY <2>1, Zenon DEF RestoredEntry
  <2> HIDE DEF k2, c2, n2, age2
  <2> QED BY <1>2, <2>2, <2>3, Zenon
<1> QED BY <1>1, <1>4

(* The two gated writes preserve the types of what they write. *)
LEMMA GatedWritesTyped ==
    ASSUME TypeOK, NEW r \in Req, NEW h \in HealthState, NEW left \in 0..Lockout
    PROVE  /\ SetHealth(r, h) => health' \in [Provider -> HealthState]
           /\ SetModelLock(r, left) =>
                modelLocks' \in [Provider -> [Model -> 0..Lockout]]
<1>1. attempt[r].provider \in Provider /\ attempt[r].model \in Model
  BY DEF TypeOK, Attempt
<1>2. SetHealth(r, h) => health' \in [Provider -> HealthState]
  BY <1>1 DEF TypeOK, SetHealth
<1>3. [modelLocks EXCEPT ![attempt[r].provider][attempt[r].model] = left]
        \in [Provider -> [Model -> 0..Lockout]]
  BY <1>1 DEF TypeOK
<1> QED BY <1>2, <1>3 DEF TypeOK, SetModelLock

(* Moving an attempt to another phase leaves a typed attempt. *)
LEMMA GotoTyped ==
    ASSUME TypeOK, NEW r \in Req, NEW phase \in Phase, Goto(r, phase)
    PROVE  attempt' \in [Req -> Attempt]
BY DEF TypeOK, Goto, Attempt

-----------------------------------------------------------------------------
(* Type correctness. *)

(* The initial states, the restored ones included, are typed. *)
LEMMA InitTyped == Init => TypeOK
<1> SUFFICES ASSUME Init PROVE TypeOK
  OBVIOUS
<1>1. health \in [Provider -> HealthState]
  BY EntriesTyped DEF Init
<1>2. PICK p \in Provider, m \in Model : attempt = [r \in Req |-> Idle(p, m)]
  BY DEF Init
<1>3. Idle(p, m) \in Attempt
  BY ConstantsAssumption DEF Idle, Attempt, Phase
<1>4. attempt \in [Req -> Attempt]
  BY <1>2, <1>3
<1> QED BY <1>1, <1>4, ConstantsAssumption DEF Init, TypeOK

(* Every step of an attempt preserves the types. *)
LEMMA StepTyped ==
    ASSUME TypeOK, NEW r \in Req, Step(r)
    PROVE  TypeOK'
<1> DEFINE p == attempt[r].provider
<1>0. /\ attempt[r] \in Attempt /\ p \in Provider /\ attempt[r].model \in Model
      /\ health[p] \in HealthState
      /\ Lockout \in 0..Lockout /\ 0 \in 0..Lockout
  BY ConstantsAssumption DEF TypeOK, Attempt
<1>1. CASE CheckModelLock(r)
  BY <1>1, GotoTyped DEF CheckModelLock, TypeOK, Phase
<1>2. CASE TakeHalfOpenSlot(r)
  <2>1. \/ Goto(r, "inflight")
        \/ \E ph \in {"idle", "inflight"}, takes \in BOOLEAN :
             attempt' = [attempt EXCEPT ![r].phase = ph, ![r].probe = takes]
    BY <1>2, Zenon DEF TakeHalfOpenSlot
  <2>2. attempt' \in [Req -> Attempt]
    <3>1. CASE Goto(r, "inflight")
      BY <3>1, GotoTyped DEF Phase
    <3>2. CASE \E ph \in {"idle", "inflight"}, takes \in BOOLEAN :
             attempt' = [attempt EXCEPT ![r].phase = ph, ![r].probe = takes]
      <4>1. PICK ph \in {"idle", "inflight"}, takes \in BOOLEAN :
              attempt' = [attempt EXCEPT ![r].phase = ph, ![r].probe = takes]
        BY <3>2
      <4>2. [attempt[r] EXCEPT !.phase = ph, !.probe = takes] \in Attempt
        BY <1>0 DEF Attempt, Phase
      <4>3. attempt' = [attempt EXCEPT ![r] =
                          [attempt[r] EXCEPT !.phase = ph, !.probe = takes]]
        BY <4>1 DEF TypeOK, Attempt
      <4> QED BY <4>2, <4>3 DEF TypeOK
    <3> QED BY <2>1, <3>1, <3>2
  <2>3. \/ health' = health
        \/ health' = [health EXCEPT ![p].halfOpenInFlight = TRUE]
    BY <1>2 DEF TakeHalfOpenSlot
  <2>4. health' \in [Provider -> HealthState]
    <3>1. [health[p] EXCEPT !.halfOpenInFlight = TRUE] \in HealthState
      BY <1>0 DEF HealthState
    <3> QED BY <2>3, <3>1, <1>0 DEF TypeOK
  <2> QED BY <1>2, <2>2, <2>4 DEF TakeHalfOpenSlot, TypeOK
<1>3. CASE ReleaseHalfOpenSlot(r)
  <2>1. Released(health[p]) \in HealthState
    BY <1>0 DEF Released, HealthState
  <2>2. health' \in [Provider -> HealthState]
    BY <1>3, <2>1, <1>0, GatedWritesTyped DEF ReleaseHalfOpenSlot
  <2> QED BY <1>3, <2>2, GotoTyped DEF ReleaseHalfOpenSlot, TypeOK, Phase
<1>4. CASE RecordSuccess(r)
  <2>1. Succeeded(health[p]) \in HealthState
    BY <1>0, SucceededTyped
  <2>2. /\ health' \in [Provider -> HealthState]
        /\ modelLocks' \in [Provider -> [Model -> 0..Lockout]]
    BY <1>4, <2>1, <1>0, GatedWritesTyped DEF RecordSuccess
  <2> QED BY <1>4, <2>2, GotoTyped DEF RecordSuccess, TypeOK, Phase
<1>5. CASE RecordFailure(r)
  <2>1. Failed(health[p]) \in HealthState
    BY <1>0, FailedTyped
  <2>2. health' \in [Provider -> HealthState]
    BY <1>5, <2>1, <1>0, GatedWritesTyped DEF RecordFailure
  <2> QED BY <1>5, <2>2, GotoTyped DEF RecordFailure, TypeOK, Phase
<1>6. ASSUME NEW until \in 1..MaxLimit, NEW kind \in RateLimitKind,
             RecordRateLimit(r, until, kind)
      PROVE  TypeOK'
  <2>1. RateLimited(health[p], until, kind) \in HealthState
    BY <1>0, RateLimitedTyped
  <2>2. health' \in [Provider -> HealthState]
    BY <1>6, <2>1, <1>0, GatedWritesTyped DEF RecordRateLimit
  <2> QED BY <1>6, <2>2, GotoTyped DEF RecordRateLimit, TypeOK, Phase
<1>7. ASSUME NEW next \in {"releasing", "succeeding"},
             RecordModelFailure(r, next)
      PROVE  TypeOK'
  <2>1. modelLocks' \in [Provider -> [Model -> 0..Lockout]]
    BY <1>7, <1>0, GatedWritesTyped DEF RecordModelFailure
  <2> QED BY <1>7, <2>1, GotoTyped DEF RecordModelFailure, TypeOK, Phase
<1>8. ASSUME NEW empty \in BOOLEAN, StreamEnd(r, empty)
      PROVE  TypeOK'
  <2>1. modelLocks' \in [Provider -> [Model -> 0..Lockout]]
    BY <1>8, <1>0, GatedWritesTyped DEF StreamEnd, TypeOK
  <2> QED BY <1>8, <2>1, GotoTyped DEF StreamEnd, TypeOK, Phase
<1> QED BY <1>1, <1>2, <1>3, <1>4, <1>5, <1>6, <1>7, <1>8 DEF Step

(* One unit of time leaves every deadline in its range. *)
LEMMA TickTyped == TypeOK /\ Tick => TypeOK'
<1> SUFFICES ASSUME TypeOK, Tick PROVE TypeOK'
  OBVIOUS
<1>1. ASSUME NEW p \in Provider PROVE health'[p] \in HealthState
  <2> DEFINE h == health[p]
             c == Earlier(h.circuitOpenUntil)
             u == Earlier(h.rateLimitedUntil)
             age == IF h.consecutiveFailures > 0 /\ h.streakAge < Persist
                    THEN h.streakAge + 1 ELSE h.streakAge
  <2>1. h \in HealthState
    BY DEF TypeOK
  <2>2. c \in {Closed} \cup 0..Cooldown /\ u \in 0..MaxLimit
    BY <2>1, ConstantsAssumption DEF HealthState, Earlier, Closed
  <2>3. age \in 0..Persist
    BY <2>1, ConstantsAssumption DEF HealthState
  <2>4. health'[p] = [h EXCEPT !.circuitOpenUntil = c, !.rateLimitedUntil = u,
                               !.streakAge = age]
    BY <2>1 DEF Tick, HealthState
  <2> HIDE DEF h, c, u, age
  <2> QED BY <2>1, <2>2, <2>3, <2>4 DEF HealthState
<1>2. health' \in [Provider -> HealthState]
  BY <1>1 DEF Tick
<1>3. modelLocks' \in [Provider -> [Model -> 0..Lockout]]
  <2>1. ASSUME NEW left \in 0..Lockout PROVE Earlier(left) \in 0..Lockout
    BY ConstantsAssumption DEF Earlier
  <2> QED BY <2>1 DEF Tick, TypeOK
<1> QED BY <1>2, <1>3 DEF Tick, TypeOK

(* Every step of the system preserves the types. *)
LEMMA NextTyped == TypeOK /\ [Next]_vars => TypeOK'
<1> SUFFICES ASSUME TypeOK, [Next]_vars PROVE TypeOK'
  OBVIOUS
<1>1. ASSUME NEW r \in Req, NEW p \in Provider, NEW m \in Model,
             NEW force \in ForceChoices, Schedule(r, p, m, force)
      PROVE  TypeOK'
  BY <1>1, ConstantsAssumption DEF Schedule, TypeOK, Attempt, Phase
<1>2. ASSUME NEW r \in Req, Step(r) PROVE TypeOK'
  BY <1>2, StepTyped
<1>3. CASE ReplaceGeneration
  BY <1>3, EntriesTyped, ConstantsAssumption DEF ReplaceGeneration, TypeOK
<1>4. CASE Operator
  <2>1. ASSUME NEW S, ResetHealth(S) PROVE TypeOK'
    BY <2>1, EntriesTyped, ConstantsAssumption DEF ResetHealth, TypeOK
  <2>2. ASSUME NEW p \in Provider, FreezeHealth(p) PROVE TypeOK'
    BY <2>2 DEF FreezeHealth, TypeOK, HealthState
  <2> QED BY <1>4, <2>1, <2>2 DEF Operator
<1>5. ASSUME NEW p \in Provider, QuotaRecoveredClearCooldown(p) PROVE TypeOK'
  <2>1. 0 \in 0..MaxLimit /\ "transient" \in RateLimitKind
    BY ConstantsAssumption DEF RateLimitKind
  <2>2. health[p] \in HealthState
    BY DEF TypeOK
  <2>3. [health[p] EXCEPT !.rateLimitedUntil = 0, !.rateLimitKind = "transient"]
          \in HealthState
    BY <2>1, <2>2 DEF HealthState
  <2>4. health' = [health EXCEPT ![p] =
                     [health[p] EXCEPT !.rateLimitedUntil = 0,
                                       !.rateLimitKind = "transient"]]
    BY <1>5 DEF QuotaRecoveredClearCooldown, TypeOK, HealthState
  <2> QED BY <1>5, <2>3, <2>4 DEF QuotaRecoveredClearCooldown, TypeOK
<1>6. CASE Tick
  BY <1>6, TickTyped
<1>7. CASE UNCHANGED vars
  BY <1>7 DEF vars, TypeOK
<1> QED BY <1>1, <1>2, <1>3, <1>4, <1>5, <1>6, <1>7 DEF Next

(* The health state and every attempt stay well typed in every behaviour: *)
(* no report, reload, command or passage of time takes a deadline or a    *)
(* counter out of its range.                                              *)
THEOREM HealthTypeCorrect == Spec => []TypeOK
BY InitTyped, NextTyped, PTL DEF Spec

-----------------------------------------------------------------------------
(* The circuit is earned. *)

(* No report of an attempt opens a circuit without the evidence, or keeps  *)
(* the slot marked on a circuit that is not half-open.                     *)
LEMMA ReportsEarned ==
    ASSUME NEW h \in HealthState, Earned(h), NEW until, NEW kind
    PROVE  /\ Earned(Released(h))
           /\ Earned(Succeeded(h))
           /\ Earned(Failed(h))
           /\ Earned(RateLimited(h, until, kind))
<1>1. Earned(Released(h))
  BY DEF Earned, Released, HealthState
<1>2. Earned(Succeeded(h))
  BY DEF Earned, Succeeded, HealthState
<1>3. Earned(Failed(h))
  <2>1. /\ Failed(h).consecutiveFailures =
             IF h.consecutiveFailures < Threshold
             THEN h.consecutiveFailures + 1 ELSE Threshold
        /\ Failed(h).streakAge =
             IF h.consecutiveFailures = 0 THEN 0 ELSE h.streakAge
        /\ Failed(h).circuitOpenUntil =
             IF /\ Failed(h).consecutiveFailures >= Threshold
                /\ Failed(h).streakAge >= Persist
             THEN Cooldown ELSE h.circuitOpenUntil
        /\ Failed(h).halfOpenInFlight = FALSE
    BY DEF Failed, HealthState
  <2>2. /\ h.consecutiveFailures \in 0..Threshold /\ h.streakAge \in 0..Persist
        /\ h.circuitOpenUntil \in {Closed} \cup 0..Cooldown
    BY DEF HealthState
  <2> QED BY <2>1, <2>2, ConstantsAssumption DEF Earned, Closed
<1>4. Earned(RateLimited(h, until, kind))
  BY DEF Earned, RateLimited, HealthState
<1> QED BY <1>1, <1>2, <1>3, <1>4

(* The empty entry and the restored ones are earned: a restored circuit    *)
(* carries the full streak.                                                *)
LEMMA EntriesEarned ==
    Earned(NoHealth) /\ \A x \in Restored : Earned(x)
<1>1. Earned(NoHealth)
  BY DEF Earned, NoHealth
<1>2. ASSUME NEW x \in Restored PROVE Earned(x)
  <2>1. PICK u \in 0..MaxLimit, k \in RateLimitKind, c \in 0..Cooldown,
             f \in BOOLEAN : x = RestoredEntry(u, k, c, f)
    BY DEF Restored
  <2>2. /\ x.circuitOpenUntil = IF c > 0 THEN c ELSE Closed
        /\ x.consecutiveFailures = IF c > 0 THEN Threshold ELSE 0
        /\ x.streakAge = IF c > 0 THEN Persist ELSE 0
        /\ x.halfOpenInFlight = FALSE
    BY <2>1 DEF RestoredEntry, NoHealth
  <2> QED BY <2>2 DEF Earned
<1> QED BY <1>1, <1>2

(* A gated write of an earned entry keeps every circuit earned. *)
LEMMA GatedWriteEarned ==
    ASSUME TypeOK, CircuitEarned, NEW r \in Req, NEW h, Earned(h),
           SetHealth(r, h)
    PROVE  CircuitEarned'
<1>1. ASSUME NEW p \in Provider PROVE health'[p] = health[p] \/ health'[p] = h
  BY DEF TypeOK, SetHealth
<1> QED BY <1>1 DEF CircuitEarned, Earned

(* Every step of an attempt keeps every circuit earned. *)
LEMMA StepEarned ==
    ASSUME TypeOK, CircuitEarned, NEW r \in Req, Step(r)
    PROVE  CircuitEarned'
<1> DEFINE p == attempt[r].provider
<1>0. p \in Provider /\ health[p] \in HealthState /\ Earned(health[p])
  BY DEF TypeOK, Attempt, CircuitEarned
<1>1. CASE UNCHANGED health
  BY <1>1 DEF CircuitEarned, Earned
<1>2. CASE TakeHalfOpenSlot(r)
  <2>1. CASE health' = health
    BY <2>1 DEF CircuitEarned, Earned
  <2>2. CASE /\ health[p].circuitOpenUntil = 0
             /\ health' = [health EXCEPT ![p].halfOpenInFlight = TRUE]
    <3>1. ASSUME NEW q \in Provider PROVE Earned(health'[q])
      <4>1. CASE q = p
        <5>1. health'[p] = [health[p] EXCEPT !.halfOpenInFlight = TRUE]
          BY <2>2, <1>0 DEF TypeOK
        <5> QED BY <5>1, <4>1, <2>2, <1>0 DEF Earned, HealthState
      <4>2. CASE q # p
        BY <4>2, <2>2, <1>0 DEF TypeOK, CircuitEarned
      <4> QED BY <4>1, <4>2
    <3> QED BY <3>1 DEF CircuitEarned, Earned
  <2> QED BY <1>2, <2>1, <2>2, Zenon DEF TakeHalfOpenSlot
<1>3. CASE ReleaseHalfOpenSlot(r)
  BY <1>3, <1>0, ReportsEarned, GatedWriteEarned DEF ReleaseHalfOpenSlot
<1>4. CASE RecordSuccess(r)
  BY <1>4, <1>0, ReportsEarned, GatedWriteEarned DEF RecordSuccess
<1>5. CASE RecordFailure(r)
  BY <1>5, <1>0, ReportsEarned, GatedWriteEarned DEF RecordFailure
<1>6. ASSUME NEW until \in 1..MaxLimit, NEW kind \in RateLimitKind,
             RecordRateLimit(r, until, kind)
      PROVE  CircuitEarned'
  BY <1>6, <1>0, ReportsEarned, GatedWriteEarned DEF RecordRateLimit
<1> QED BY <1>1, <1>2, <1>3, <1>4, <1>5, <1>6
        DEF Step, CheckModelLock, RecordModelFailure, StreamEnd

(* Every step of the system keeps every circuit earned. *)
LEMMA NextEarned == TypeOK /\ CircuitEarned /\ [Next]_vars => CircuitEarned'
<1> SUFFICES ASSUME TypeOK, CircuitEarned, [Next]_vars PROVE CircuitEarned'
  OBVIOUS
<1>1. CASE UNCHANGED health
  BY <1>1 DEF CircuitEarned, Earned
<1>2. ASSUME NEW r \in Req, Step(r) PROVE CircuitEarned'
  BY <1>2, StepEarned
<1>3. CASE ReplaceGeneration
  BY <1>3, EntriesEarned DEF ReplaceGeneration, CircuitEarned, Earned
<1>4. ASSUME NEW S, ResetHealth(S) PROVE CircuitEarned'
  BY <1>4, EntriesEarned DEF ResetHealth, CircuitEarned, Earned
<1>5. ASSUME NEW p \in Provider, FreezeHealth(p) PROVE CircuitEarned'
  <2>1. ASSUME NEW q \in Provider
        PROVE  /\ health'[q].circuitOpenUntil = health[q].circuitOpenUntil
               /\ health'[q].consecutiveFailures = health[q].consecutiveFailures
               /\ health'[q].streakAge = health[q].streakAge
               /\ health'[q].halfOpenInFlight = health[q].halfOpenInFlight
    BY <1>5 DEF FreezeHealth, TypeOK, HealthState
  <2> QED BY <2>1 DEF CircuitEarned, Earned
<1>6. ASSUME NEW p \in Provider, QuotaRecoveredClearCooldown(p)
      PROVE  CircuitEarned'
  <2>1. ASSUME NEW q \in Provider
        PROVE  /\ health'[q].circuitOpenUntil = health[q].circuitOpenUntil
               /\ health'[q].consecutiveFailures = health[q].consecutiveFailures
               /\ health'[q].streakAge = health[q].streakAge
               /\ health'[q].halfOpenInFlight = health[q].halfOpenInFlight
    BY <1>6 DEF QuotaRecoveredClearCooldown, TypeOK, HealthState
  <2> QED BY <2>1 DEF CircuitEarned, Earned
<1>7. CASE Tick
  <2>1. ASSUME NEW q \in Provider PROVE Earned(health'[q])
    <3> DEFINE h == health[q]
    <3>1. /\ h \in HealthState /\ Earned(h)
          /\ h.circuitOpenUntil \in {Closed} \cup 0..Cooldown
          /\ h.streakAge \in 0..Persist
      BY DEF TypeOK, CircuitEarned, HealthState
    <3>2. /\ health'[q].circuitOpenUntil = Earlier(h.circuitOpenUntil)
          /\ health'[q].consecutiveFailures = h.consecutiveFailures
          /\ health'[q].streakAge =
               IF h.consecutiveFailures > 0 /\ h.streakAge < Persist
               THEN h.streakAge + 1 ELSE h.streakAge
          /\ health'[q].halfOpenInFlight = h.halfOpenInFlight
      BY <1>7, <3>1 DEF Tick, HealthState
    <3> QED BY <3>1, <3>2, ConstantsAssumption DEF Earned, Earlier, Closed
  <2> QED BY <2>1 DEF CircuitEarned, Earned
<1> QED BY <1>1, <1>2, <1>3, <1>4, <1>5, <1>6, <1>7
        DEF Next, Operator, Schedule, vars

-----------------------------------------------------------------------------
(* The slot has an owner. *)

(* An attempt's last report clears the flag of its own provider, and an    *)
(* attempt of an old generation owns nothing, so the owners of the flags   *)
(* that remain are other attempts.                                         *)
LEMMA LastReportKeepsOwners ==
    ASSUME TypeOK, SlotHasOwner, NEW r \in Req, NEW phase,
           NEW h, h.halfOpenInFlight = FALSE,
           SetHealth(r, h), Goto(r, phase), UNCHANGED generation
    PROVE  SlotHasOwner'
<1> SUFFICES ASSUME NEW q \in Provider, health'[q].halfOpenInFlight
             PROVE  Probes(q)' # {}
  BY DEF SlotHasOwner
<1>1. health'[q] = health[q]
  BY DEF SetHealth, TypeOK
<1>2. PICK s \in Req : s \in Probes(q)
  BY <1>1 DEF SlotHasOwner, Probes
<1>3. s # r
  <2>1. CASE GenerationMatches(r)
    BY <2>1, <1>2 DEF SetHealth, TypeOK, Probes
  <2>2. CASE ~GenerationMatches(r)
    BY <2>2, <1>2 DEF Probes
  <2> QED BY <2>1, <2>2
<1>4. attempt'[s] = attempt[s]
  BY <1>3 DEF Goto, TypeOK
<1>5. s \in Probes(q)'
  BY <1>2, <1>4 DEF Probes, Running, GenerationMatches
<1> QED BY <1>5

(* A step that marks no slot and ends no running attempt keeps the owners. *)
LEMMA QuietStepKeepsOwners ==
    ASSUME SlotHasOwner, UNCHANGED generation,
           \A q \in Provider :
             health'[q].halfOpenInFlight => health[q].halfOpenInFlight,
           \A s \in Req : Running(s) =>
             /\ Running(s)'
             /\ attempt'[s].probe = attempt[s].probe
             /\ attempt'[s].provider = attempt[s].provider
             /\ attempt'[s].gen = attempt[s].gen
    PROVE  SlotHasOwner'
BY DEF SlotHasOwner, Probes, GenerationMatches

(* Every step of an attempt keeps an owner for every taken slot. *)
LEMMA StepKeepsOwners ==
    ASSUME TypeOK, SlotHasOwner, NEW r \in Req, Step(r)
    PROVE  SlotHasOwner'
<1> DEFINE p == attempt[r].provider
<1>0. p \in Provider /\ health[p] \in HealthState /\ attempt[r] \in Attempt
  BY DEF TypeOK, Attempt
<1>1. CASE CheckModelLock(r)
  <2>1. ASSUME NEW s \in Req, Running(s) PROVE attempt'[s] = attempt[s]
    BY <1>1, <2>1 DEF CheckModelLock, Goto, TypeOK, Running
  <2>2. UNCHANGED <<generation, health>>
    BY <1>1 DEF CheckModelLock
  <2> QED BY <2>1, <2>2, QuietStepKeepsOwners DEF Running
<1>2. CASE TakeHalfOpenSlot(r)
  <2>1. ASSUME NEW s \in Req, Running(s) PROVE s # r /\ attempt'[s] = attempt[s]
    BY <1>2, <2>1 DEF TakeHalfOpenSlot, Goto, TypeOK, Running
  <2>2. UNCHANGED generation
    BY <1>2 DEF TakeHalfOpenSlot
  <2>3. CASE health' = health
    BY <2>1, <2>2, <2>3, QuietStepKeepsOwners DEF Running
  <2>4. CASE /\ GenerationMatches(r)
             /\ attempt' = [attempt EXCEPT ![r].phase = "inflight",
                                           ![r].probe = TRUE]
             /\ health' = [health EXCEPT ![p].halfOpenInFlight = TRUE]
    <3> SUFFICES ASSUME NEW q \in Provider, health'[q].halfOpenInFlight
                 PROVE  Probes(q)' # {}
      BY DEF SlotHasOwner
    <3>1. CASE q = p
      <4>1. attempt'[r] = [attempt[r] EXCEPT !.phase = "inflight",
                                             !.probe = TRUE]
        BY <2>4 DEF TypeOK
      <4>2. /\ attempt'[r].phase = "inflight" /\ attempt'[r].probe = TRUE
            /\ attempt'[r].provider = p /\ attempt'[r].gen = attempt[r].gen
        BY <4>1, <1>0 DEF Attempt
      <4> QED BY <4>2, <2>4, <2>2, <3>1 DEF Probes, Running, GenerationMatches
    <3>2. CASE q # p
      <4>1. health'[q] = health[q]
        BY <3>2, <2>4 DEF TypeOK
      <4>2. PICK s \in Req : s \in Probes(q)
        BY <4>1 DEF SlotHasOwner, Probes
      <4>3. attempt'[s] = attempt[s]
        BY <4>2, <2>1 DEF Probes
      <4>4. s \in Probes(q)'
        BY <4>2, <4>3, <2>2 DEF Probes, Running, GenerationMatches
      <4> QED BY <4>4
    <3> QED BY <3>1, <3>2
  <2> QED BY <1>2, <2>3, <2>4, Zenon DEF TakeHalfOpenSlot
<1>3. CASE ReleaseHalfOpenSlot(r)
  <2>1. Released(health[p]).halfOpenInFlight = FALSE
    BY <1>0 DEF Released, HealthState
  <2> QED BY <1>3, <2>1, LastReportKeepsOwners DEF ReleaseHalfOpenSlot
<1>4. CASE RecordSuccess(r)
  <2>1. Succeeded(health[p]).halfOpenInFlight = FALSE
    BY <1>0 DEF Succeeded, HealthState
  <2> QED BY <1>4, <2>1, LastReportKeepsOwners DEF RecordSuccess
<1>5. CASE RecordFailure(r)
  <2>1. Failed(health[p]).halfOpenInFlight = FALSE
    BY <1>0 DEF Failed, HealthState
  <2> QED BY <1>5, <2>1, LastReportKeepsOwners DEF RecordFailure
<1>6. ASSUME NEW until \in 1..MaxLimit, NEW kind \in RateLimitKind,
             RecordRateLimit(r, until, kind)
      PROVE  SlotHasOwner'
  <2>1. RateLimited(health[p], until, kind).halfOpenInFlight = FALSE
    BY <1>0 DEF RateLimited, HealthState
  <2> QED BY <1>6, <2>1, LastReportKeepsOwners DEF RecordRateLimit
<1>7. ASSUME NEW next \in {"releasing", "succeeding"},
             RecordModelFailure(r, next)
      PROVE  SlotHasOwner'
  <2>1. attempt' = [attempt EXCEPT ![r].phase = next]
    BY <1>7 DEF RecordModelFailure, Goto
  <2>2. ASSUME NEW s \in Req, Running(s)
        PROVE  /\ Running(s)' /\ attempt'[s].probe = attempt[s].probe
               /\ attempt'[s].provider = attempt[s].provider
               /\ attempt'[s].gen = attempt[s].gen
    BY <2>1, <2>2, <1>7 DEF TypeOK, Running, Attempt
  <2>3. UNCHANGED <<generation, health>>
    BY <1>7 DEF RecordModelFailure
  <2> QED BY <2>2, <2>3, QuietStepKeepsOwners
<1>8. ASSUME NEW empty \in BOOLEAN, StreamEnd(r, empty)
      PROVE  SlotHasOwner'
  <2>1. ASSUME NEW s \in Req, Running(s) PROVE attempt'[s] = attempt[s]
    BY <1>8, <2>1 DEF StreamEnd, Goto, TypeOK, Running
  <2>2. UNCHANGED <<generation, health>>
    BY <1>8 DEF StreamEnd
  <2> QED BY <2>1, <2>2, QuietStepKeepsOwners DEF Running
<1> QED BY <1>1, <1>2, <1>3, <1>4, <1>5, <1>6, <1>7, <1>8 DEF Step

(* Every step of the system keeps an owner for every taken slot. *)
LEMMA NextKeepsOwners == TypeOK /\ SlotHasOwner /\ [Next]_vars => SlotHasOwner'
<1> SUFFICES ASSUME TypeOK, SlotHasOwner, [Next]_vars PROVE SlotHasOwner'
  OBVIOUS
<1>1. ASSUME NEW r \in Req, Step(r) PROVE SlotHasOwner'
  BY <1>1, StepKeepsOwners
<1>2. ASSUME NEW r \in Req, NEW p \in Provider, NEW m \in Model,
             NEW force \in ForceChoices, Schedule(r, p, m, force)
      PROVE  SlotHasOwner'
  <2>1. ASSUME NEW s \in Req, Running(s) PROVE attempt'[s] = attempt[s]
    BY <1>2, <2>1 DEF Schedule, TypeOK, Running
  <2>2. UNCHANGED <<generation, health>>
    BY <1>2 DEF Schedule
  <2> QED BY <2>1, <2>2, QuietStepKeepsOwners DEF Running
<1>3. CASE ReplaceGeneration
  BY <1>3 DEF ReplaceGeneration, SlotHasOwner, NoHealth
<1>4. ASSUME UNCHANGED <<generation, attempt>>,
             \A q \in Provider :
               health'[q].halfOpenInFlight => health[q].halfOpenInFlight
      PROVE  SlotHasOwner'
  BY <1>4, QuietStepKeepsOwners DEF Running
<1>5. ASSUME NEW S, ResetHealth(S) PROVE SlotHasOwner'
  BY <1>5, <1>4 DEF ResetHealth, NoHealth
<1>6. ASSUME NEW p \in Provider, FreezeHealth(p) PROVE SlotHasOwner'
  BY <1>6, <1>4 DEF FreezeHealth, TypeOK, HealthState
<1>7. ASSUME NEW p \in Provider, QuotaRecoveredClearCooldown(p)
      PROVE  SlotHasOwner'
  BY <1>7, <1>4 DEF QuotaRecoveredClearCooldown, TypeOK, HealthState
<1>8. CASE Tick
  BY <1>8, <1>4 DEF Tick, TypeOK, HealthState
<1>9. CASE UNCHANGED vars
  BY <1>9, <1>4 DEF vars
<1> QED BY <1>1, <1>2, <1>3, <1>5, <1>6, <1>7, <1>8, <1>9 DEF Next, Operator

-----------------------------------------------------------------------------
(* The theorems. *)

(* A circuit is open or half-open only on Threshold failures that span     *)
(* Persist with no success among them, and the half-open slot is taken     *)
(* only on a half-open circuit (RecordFailure, RecordSuccess,              *)
(* TakeHalfOpenSlot, RestoreHealth).                                       *)
THEOREM HealthCircuitEarned == Spec => []CircuitEarned
<1>1. Init => CircuitEarned
  BY EntriesEarned DEF Init, CircuitEarned
<1> QED BY <1>1, NextEarned, HealthTypeCorrect, PTL DEF Spec

(* A taken half-open slot always has a running owner of the current        *)
(* generation, so no interleaving of attempts, reloads and operator        *)
(* commands leaves a provider refused by a probe that no longer exists.    *)
THEOREM HealthSlotHasOwner == Spec => []SlotHasOwner
<1>1. \A x \in Restored : x.halfOpenInFlight = FALSE
  <2> SUFFICES ASSUME NEW x \in Restored PROVE x.halfOpenInFlight = FALSE
    OBVIOUS
  <2>1. PICK u \in 0..MaxLimit, k \in RateLimitKind, c \in 0..Cooldown,
             f \in BOOLEAN : x = RestoredEntry(u, k, c, f)
    BY DEF Restored
  <2> QED BY <2>1 DEF RestoredEntry, NoHealth
<1>2. Init => SlotHasOwner
  BY <1>1 DEF Init, SlotHasOwner
<1> QED BY <1>2, NextKeepsOwners, HealthTypeCorrect, PTL DEF Spec

(* Whichever report an attempt of a replaced generation still has to make, *)
(* it leaves the health and the model locks of the new generation alone    *)
(* (generationMatchesLocked in every Manager method a request calls).      *)
THEOREM HealthStaleInert == Spec => StaleAttemptsAreInert
<1> DEFINE Inert == \A r \in Req :
             Moves(r) /\ attempt[r].phase # "idle" /\ ~GenerationMatches(r)
               => UNCHANGED <<health, modelLocks>>
<1>1. TypeOK /\ [Next]_vars => [Inert]_vars
  <2> SUFFICES ASSUME TypeOK, Next,
                      NEW r \in Req, Moves(r), attempt[r].phase # "idle",
                      ~GenerationMatches(r)
               PROVE  UNCHANGED <<health, modelLocks>>
    OBVIOUS
  <2>1. ASSUME NEW s \in Req, Step(s) PROVE s = r
    <3>1. \A q \in Req : q # s => attempt'[q] = attempt[q]
      BY <2>1 DEF Step, CheckModelLock, TakeHalfOpenSlot, ReleaseHalfOpenSlot,
                  RecordSuccess, RecordFailure, RecordRateLimit,
                  RecordModelFailure, StreamEnd, Goto, TypeOK
    <3> QED BY <3>1 DEF Moves
  <2>2. CASE Step(r)
    BY <2>2 DEF Step, CheckModelLock, TakeHalfOpenSlot, ReleaseHalfOpenSlot,
                RecordSuccess, RecordFailure, RecordRateLimit,
                RecordModelFailure, StreamEnd, SetHealth, SetModelLock
  <2>3. ASSUME NEW s \in Req, NEW p \in Provider, NEW m \in Model,
               NEW force \in ForceChoices, Schedule(s, p, m, force)
        PROVE  FALSE
    BY <2>3 DEF Schedule, Moves, TypeOK
  <2>4. ASSUME UNCHANGED attempt PROVE FALSE
    BY <2>4 DEF Moves
  <2> QED BY <2>1, <2>2, <2>3, <2>4
          DEF Next, Operator, ReplaceGeneration, ResetHealth, FreezeHealth,
              QuotaRecoveredClearCooldown, Tick
<1> QED BY <1>1, HealthTypeCorrect, PTL DEF Spec, StaleAttemptsAreInert
=============================================================================
