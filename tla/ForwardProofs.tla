---------------------------- MODULE ForwardProofs ----------------------------
(***************************************************************************)
(* Proofs about ForwardLoop, for every route, cross-route pool, pin,       *)
(* retry_wait and cooldown length.                                         *)
(*                                                                         *)
(* HonestStatus is about what happened in all passes, while the code keeps *)
(* the classes of the pass at hand and of the passes before it apart and   *)
(* adds them up late (Accumulate).  The inductive invariant therefore says *)
(* where the request's history is to be found at every point (Tallied),    *)
(* and that nothing has been reported while the request may still go on    *)
(* (Unreported).                                                           *)
(***************************************************************************)
EXTENDS ForwardLoop, WellFoundedInduction, FiniteSetTheorems, TLAPS

Tallied ==
    /\ pc \in {"arrive", "schedule", "decide", "waiting"} =>
         seen.hard = sawHard /\ seen.cool = sawCool
    /\ pc = "targets" =>
         /\ seen.hard = (sawHard \/ pass.hard)
         /\ seen.cool = (sawCool \/ pass.cool)

Unreported ==
    pc # "done" =>
      status = "none" /\ latch = "none" /\ ends = 0 /\ seen.records = 0

(* A wait is begun only with a round left for the pass after it, and lasts. *)
Budgeted ==
    /\ pc = "waiting" => round < MaxRetryRounds /\ sleep > 0
    /\ seen.waited <= round * RetryWait

IInv ==
    /\ TypeOK /\ Tallied /\ Unreported /\ Budgeted
    /\ HonestStatus /\ ReportedOnce /\ LatchFollowsAnswer

-----------------------------------------------------------------------------

LEMMA InitIInv == Init => IInv
<1> SUFFICES ASSUME Init PROVE IInv
  OBVIOUS
<1>1. pass \in Pass /\ pass.hard = FALSE /\ pass.cool = FALSE
  BY DEF Init, Pass, NewPass
<1>2. /\ seen \in Seen /\ seen.hard = FALSE /\ seen.cool = FALSE
      /\ seen.waited = 0 /\ seen.records = 0
  BY DEF Init, Seen
<1>3. view \in View
  BY ForwardAssumption DEF Init, View, NoView
<1>4. TypeOK
  <2>1. round \in 0..MaxRetryRounds /\ sleep \in 0..RetryWait /\ ends \in 0..1
    BY ForwardAssumption DEF Init, MaxRetryRounds
  <2>2. /\ pc \in PC /\ status \in Status /\ latch \in Verdict
        /\ targets \subseteq Route
    BY DEF Init, PC, Status, Verdict
  <2>3. /\ force \in BOOLEAN /\ forced \in BOOLEAN /\ retried \in BOOLEAN
        /\ sawHard \in BOOLEAN /\ sawCool \in BOOLEAN
    BY DEF Init
  <2> QED BY <1>1, <1>2, <1>3, <2>1, <2>2, <2>3 DEF TypeOK
<1>5. Tallied /\ Unreported
  BY <1>1, <1>2 DEF Init, Tallied, Unreported
<1>6. Budgeted
  BY <1>2, ForwardAssumption DEF Init, Budgeted
<1>7. HonestStatus /\ ReportedOnce /\ LatchFollowsAnswer
  BY <1>2 DEF Init, HonestStatus, ReportedOnce, LatchFollowsAnswer
<1> QED BY <1>4, <1>5, <1>6, <1>7 DEF IInv

(* A nonempty set of naturals has a least element. *)
LEMMA LeastExists ==
    ASSUME NEW S \in SUBSET Nat, S # {}
    PROVE  \E e \in S : \A n \in S : e <= n
<1>1. PICK e \in S : \A n \in S : ~(<<n, e>> \in OpToRel(<, Nat))
  BY NatLessThanWellFounded, WFMin
<1>2. \A n \in S : ~(n < e)
  BY <1>1 DEF OpToRel
<1> QED BY <1>2

(* CooldownState returns a view: the earliest recovery exists and is one   *)
(* of the deadlines read.                                                  *)
LEMMA CooldownStateType ==
    ASSUME NEW S, NEW h \in [S -> Reading]
    PROVE  CooldownState(h) \in View
<1>1. CASE DOMAIN h = {} \/ \E t \in DOMAIN h : Available(h[t])
  BY <1>1, ForwardAssumption DEF CooldownState, View, NoView
<1>2. CASE ~(DOMAIN h = {} \/ \E t \in DOMAIN h : Available(h[t]))
  <2> DEFINE U == {Until(h[t]) : t \in DOMAIN h}
             E == CHOOSE e \in U : \A t \in DOMAIN h : e <= Until(h[t])
  <2>1. \A t \in DOMAIN h : Until(h[t]) \in 0..MaxLeft
    BY DEF Reading, Until
  <2>2. U \subseteq Nat /\ U # {}
    BY <1>2, <2>1, ForwardAssumption, SMTT(40)
  <2>3. \E e \in U : \A n \in U : e <= n
    BY <2>2, LeastExists
  <2>4. \E e \in U : \A t \in DOMAIN h : e <= Until(h[t])
    BY <2>3
  <2>5. E \in U
    BY <2>4
  <2>6. E \in 0..MaxLeft
    BY <2>1, <2>5
  <2>7. CooldownState(h) = [allDown |-> TRUE,
            allRateLimited |-> \A t \in DOMAIN h : RateLimitOnly(h[t]),
            earliest |-> E]
    BY <1>2 DEF CooldownState
  <2>8. (\A t \in DOMAIN h : RateLimitOnly(h[t])) \in BOOLEAN
    OBVIOUS
  <2> HIDE DEF E
  <2> QED BY <2>6, <2>7, <2>8 DEF View
<1> QED BY <1>1, <1>2

(* The verdicts recordLatchOutcome may give when nothing was committed. *)
LEMMA VerdictOfFailure ==
    /\ LatchVerdict(FALSE, FALSE) \in {"exempt", "bad"}
    /\ LatchVerdict(FALSE, TRUE) \in {"exempt", "ignored"}
BY DEF LatchVerdict

(* A request that ends in Finish reports once, and says the truth if the   *)
(* status it is given does.                                                *)
LEMMA FinishKeeps ==
    ASSUME IInv, pc # "done",
           NEW s \in {"400", "429", "499", "502"}, NEW gone \in BOOLEAN,
           Finish(s, FALSE, gone, TRUE),
           UNCHANGED <<pass, sawHard, sawCool, view>>,
           s = "499" => gone \/ sleep > 0,
           gone => s = "499",
           s = "400" => pass.conversionErr /\ pass.tried = {},
           s = "429" => ~seen.hard /\ (seen.cool \/ view.allRateLimited),
           s = "502" => seen.hard \/ ~seen.cool
    PROVE  IInv'
<1>0. TypeOK /\ Unreported /\ Budgeted
  BY DEF IInv
<1>1. seen.records = 0 /\ ends = 0
  BY <1>0 DEF Unreported
<1>2. /\ pc' = "done" /\ status' = s /\ ends' = 1
      /\ seen' = [seen EXCEPT !.records = 1]
      /\ latch' = LatchVerdict(FALSE, gone)
      /\ UNCHANGED <<targets, force, forced, round, retried, sleep>>
  BY <1>1 DEF Finish
<1>3. /\ seen' \in Seen
      /\ seen'.hard = seen.hard /\ seen'.cool = seen.cool
      /\ seen'.records = 1 /\ seen'.waited = seen.waited
  BY <1>0, <1>2 DEF TypeOK, Seen
<1>4. /\ gone => latch' \in {"exempt", "ignored"}
      /\ ~gone => latch' \in {"exempt", "bad"}
  <2>1. CASE gone = TRUE
    BY <1>2, <2>1, VerdictOfFailure
  <2>2. CASE gone = FALSE
    BY <1>2, <2>2, VerdictOfFailure
  <2> QED BY <2>1, <2>2
<1>40. s = "400" => latch' = "exempt"
  BY <1>2 DEF LatchVerdict
<1>5. TypeOK'
  <2>1. pc' \in PC /\ status' \in Status /\ ends' \in 0..1
    BY <1>2 DEF PC, Status
  <2>2. latch' \in Verdict
    BY <1>4 DEF Verdict
  <2> QED BY <1>0, <1>2, <1>3, <2>1, <2>2 DEF TypeOK
<1>6. Tallied' /\ Unreported'
  BY <1>2 DEF Tallied, Unreported
<1>7. Budgeted'
  BY <1>0, <1>2, <1>3 DEF Budgeted
<1>8. HonestStatus'
  BY <1>2, <1>3 DEF HonestStatus
<1>9. ReportedOnce'
  BY <1>2, <1>3 DEF ReportedOnce
<1>10. LatchFollowsAnswer'
  <2>1. latch' \in {"exempt", "ignored", "bad"}
    BY <1>4
  <2>2. CASE s = "499"
    <3>1. ~LeftWaiting' => gone
      BY <1>2, <2>2 DEF LeftWaiting
    <3> QED BY <1>2, <1>4, <2>1, <2>2, <3>1 DEF LatchFollowsAnswer
  <2>3. CASE s # "499"
    BY <1>2, <1>40, <2>1, <1>4, <2>3 DEF LatchFollowsAnswer
  <2> QED BY <2>2, <2>3
<1> QED BY <1>5, <1>6, <1>7, <1>8, <1>9, <1>10 DEF IInv

LEMMA CountedType == \A n \in Nat : Counted(n) \in Nat
BY DEF Counted

(* What an attempt that does not commit leaves of the history. *)
LEMMA NoteKeeps ==
    ASSUME TypeOK, NEW t, NEW out, Note(t, out)
    PROVE  /\ seen' \in Seen /\ seen'.records = seen.records
           /\ seen'.waited = seen.waited
           /\ seen'.hard = (seen.hard \/ out \in {"unsent", "hard"})
           /\ seen'.cool = (seen.cool \/ out = "limit")
<1> DEFINE hard == seen.hard \/ out \in {"unsent", "hard"}
           cool == seen.cool \/ out = "limit"
           strayed == seen.strayed \/ (force /\ t \notin Pinned)
           attempts == Counted(seen.attempts)
<1>1. seen \in Seen
  BY DEF TypeOK
<1>2. /\ hard \in BOOLEAN /\ cool \in BOOLEAN
      /\ strayed \in BOOLEAN
  OBVIOUS
<1>3. attempts \in Nat
  BY <1>1, CountedType DEF Seen
<1>4. seen' = [seen EXCEPT !.hard = hard, !.cool = cool,
                 !.strayed = strayed,
                 !.attempts = attempts]
  BY DEF Note
<1> HIDE DEF hard, cool, strayed, attempts
<1>5. /\ seen' \in Seen /\ seen'.records = seen.records
      /\ seen'.waited = seen.waited
      /\ seen'.hard = hard /\ seen'.cool = cool
  BY <1>1, <1>2, <1>3, <1>4 DEF Seen
<1> QED BY <1>5 DEF hard, cool

(* What the attempt that ends the request leaves of it. *)
LEMMA LastAttemptNoted ==
    ASSUME TypeOK, seen.records = 0, NEW t, NoteLast(t)
    PROVE  /\ seen' \in Seen /\ seen'.records = 1
           /\ seen'.waited = seen.waited
<1> DEFINE strayed == seen.strayed \/ (force /\ t \notin Pinned)
           attempts == Counted(seen.attempts)
<1>1. seen \in Seen
  BY DEF TypeOK
<1>2. strayed \in BOOLEAN
  OBVIOUS
<1>3. attempts \in Nat
  BY <1>1, CountedType DEF Seen
<1>4. seen' = [seen EXCEPT !.records = 1,
                 !.strayed = strayed, !.attempts = attempts]
  BY DEF NoteLast
<1> HIDE DEF strayed, attempts
<1> QED BY <1>1, <1>2, <1>3, <1>4 DEF Seen

(* A step inside the request that reports nothing keeps the answer clean.  *)
LEMMA QuietKeeps ==
    ASSUME IInv, pc # "done", pc' # "done", UNCHANGED answer,
           seen'.records = seen.records
    PROVE  /\ Unreported'
           /\ HonestStatus' /\ ReportedOnce' /\ LatchFollowsAnswer'
BY DEF IInv, Unreported, HonestStatus, ReportedOnce, LatchFollowsAnswer,
       LeftWaiting, answer

-----------------------------------------------------------------------------

LEMMA StepIInv == IInv /\ [Next]_vars => IInv'
<1> SUFFICES ASSUME IInv, [Next]_vars PROVE IInv'
  OBVIOUS
<1>0. TypeOK /\ Tallied /\ Unreported /\ Budgeted
  BY DEF IInv
<1>1. ASSUME NEW published \in BOOLEAN, Reject(published) PROVE IInv'
  <2>1. /\ pc = "arrive" /\ pc' = "done" /\ status' = "rejected"
        /\ ends' \in 0..1
        /\ UNCHANGED <<targets, force, forced, round, pass, retried, sawHard,
                       sawCool, view, sleep, latch, seen>>
    BY <1>1 DEF Reject
  <2>2. latch' = "none"
    BY <1>0, <2>1 DEF Unreported
  <2>3. TypeOK'
    BY <1>0, <2>1 DEF TypeOK, PC, Status
  <2>4. Tallied' /\ Unreported' /\ Budgeted'
    BY <1>0, <2>1 DEF Tallied, Unreported, Budgeted
  <2>5. HonestStatus' /\ ReportedOnce' /\ LatchFollowsAnswer'
    BY <2>1, <2>2 DEF HonestStatus, ReportedOnce, LatchFollowsAnswer, LeftWaiting
  <2> QED BY <2>3, <2>4, <2>5 DEF IInv
<1>2. ASSUME NEW pinned \in BOOLEAN, NEW forcing \in BOOLEAN,
             NEW S \in SUBSET Route, Arrive(pinned, forcing, S)
      PROVE  IInv'
  <2>1. /\ pc = "arrive" /\ pc' = "schedule"
        /\ targets' = S /\ force' = pinned /\ forced' = forcing
        /\ UNCHANGED <<round, pass, retried, sawHard, sawCool, view, sleep,
                       answer, seen>>
    BY <1>2 DEF Arrive
  <2>2. TypeOK'
    BY <1>0, <2>1 DEF TypeOK, PC, answer
  <2>3. Tallied' /\ Budgeted'
    BY <1>0, <2>1 DEF Tallied, Budgeted
  <2> QED BY <2>1, <2>2, <2>3, QuietKeeps DEF IInv
<1>3. ASSUME NEW enabled \in SUBSET Route, NEW avail \in SUBSET Route,
             NEW pinned \in BOOLEAN, NEW ordered \in SUBSET Target,
             Schedule(enabled, avail, pinned, ordered)
      PROVE  IInv'
  <2>1. /\ pc = "schedule" /\ pc' = "targets"
        /\ pass' = NewPass(ordered)
        /\ UNCHANGED <<targets, force, forced, round, retried, sawHard,
                       sawCool, view, sleep, answer, seen>>
    BY <1>3 DEF Schedule
  <2>2. pass' \in Pass /\ pass'.hard = FALSE /\ pass'.cool = FALSE
    BY <2>1 DEF Pass, NewPass
  <2>3. TypeOK'
    BY <1>0, <2>1, <2>2 DEF TypeOK, PC, answer
  <2>4. Tallied' /\ Budgeted'
    BY <1>0, <2>1, <2>2 DEF TypeOK, Tallied, Budgeted
  <2> QED BY <2>1, <2>3, <2>4, QuietKeeps DEF IInv
<1>4. ASSUME NEW t \in Target,
             NEW why \in {"plan", "conversion", "convert"}, SkipTarget(t, why)
      PROVE  IInv'
  <2>1. /\ pc = "targets"
        /\ pass' = [pass EXCEPT !.left = @ \ {t},
                      !.planningErr = @ \/ why = "plan",
                      !.conversionErr = @ \/ why = "conversion"]
        /\ UNCHANGED <<pc, targets, force, forced, round, retried, sawHard,
                       sawCool, view, sleep, answer, seen>>
    BY <1>4 DEF SkipTarget
  <2>2. pass' \in Pass /\ pass'.hard = pass.hard /\ pass'.cool = pass.cool
    BY <1>0, <2>1 DEF TypeOK, Pass
  <2>3. TypeOK'
    BY <1>0, <2>1, <2>2 DEF TypeOK, answer
  <2>4. Tallied' /\ Budgeted'
    BY <1>0, <2>1, <2>2 DEF Tallied, Budgeted
  <2> QED BY <2>1, <2>3, <2>4, QuietKeeps DEF IInv
<1>5. ASSUME NEW t \in Target,
             NEW out \in {"locked", "unsent", "hard", "limit"}, Execute(t, out)
      PROVE  IInv'
  <2>1. /\ pc = "targets"
        /\ pass' = [pass EXCEPT !.left = @ \ {t}, !.tried = @ \cup {t},
                      !.hard = @ \/ out \in {"unsent", "hard"},
                      !.cool = @ \/ out = "limit"]
        /\ Note(t, out)
        /\ UNCHANGED <<pc, targets, force, forced, round, retried, sawHard,
                       sawCool, view, sleep, answer>>
    BY <1>5 DEF Execute
  <2>2. /\ pass' \in Pass
        /\ pass'.hard = (pass.hard \/ out \in {"unsent", "hard"})
        /\ pass'.cool = (pass.cool \/ out = "limit")
    BY <1>0, <2>1 DEF TypeOK, Pass
  <2>3. /\ seen' \in Seen /\ seen'.records = seen.records
        /\ seen'.waited = seen.waited
        /\ seen'.hard = (seen.hard \/ out \in {"unsent", "hard"})
        /\ seen'.cool = (seen.cool \/ out = "limit")
    BY <1>0, <2>1, NoteKeeps
  <2>4. TypeOK'
    BY <1>0, <2>1, <2>2, <2>3 DEF TypeOK, answer
  <2>5. Tallied' /\ Budgeted'
    BY <1>0, <2>1, <2>2, <2>3 DEF Tallied, Budgeted
  <2> QED BY <2>1, <2>3, <2>4, <2>5, QuietKeeps DEF IInv
<1>6. ASSUME NEW t \in Target, NEW larger \in SUBSET Target,
             ContextRetry(t, larger)
      PROVE  IInv'
  <2>1. /\ pc = "targets" /\ retried' = TRUE
        /\ pass' = [pass EXCEPT !.all = larger, !.left = larger,
                                !.tried = @ \cup {t}]
        /\ Note(t, "overflow")
        /\ UNCHANGED <<pc, targets, force, forced, round, sawHard, sawCool,
                       view, sleep, answer>>
    BY <1>6 DEF ContextRetry
  <2>2. pass' \in Pass /\ pass'.hard = pass.hard /\ pass'.cool = pass.cool
    BY <1>0, <2>1 DEF TypeOK, Pass
  <2>3. /\ seen' \in Seen /\ seen'.records = seen.records
        /\ seen'.waited = seen.waited
        /\ seen'.hard = seen.hard /\ seen'.cool = seen.cool
    <3>1. seen.hard \in BOOLEAN /\ seen.cool \in BOOLEAN
      BY <1>0 DEF TypeOK, Seen
    <3>2. /\ seen' \in Seen /\ seen'.records = seen.records
          /\ seen'.waited = seen.waited
          /\ seen'.hard = (seen.hard \/ "overflow" \in {"unsent", "hard"})
          /\ seen'.cool = (seen.cool \/ "overflow" = "limit")
      BY <1>0, <2>1, NoteKeeps
    <3> QED BY <3>1, <3>2
  <2>4. TypeOK'
    BY <1>0, <2>1, <2>2, <2>3 DEF TypeOK, answer
  <2>5. Tallied' /\ Budgeted'
    BY <1>0, <2>1, <2>2, <2>3 DEF Tallied, Budgeted
  <2> QED BY <2>1, <2>3, <2>4, <2>5, QuietKeeps DEF IInv
<1>7. ASSUME NEW t \in Target, NEW s \in {"relayed", "failclosed"}, Commit(t, s)
      PROVE  IInv'
  <2>1. /\ pc = "targets" /\ pc' = "done" /\ status' = s /\ latch' = "good"
        /\ ends' = ends + (IF s = "relayed" THEN 1 ELSE 0)
        /\ pass' = [pass EXCEPT !.left = @ \ {t}, !.tried = @ \cup {t}]
        /\ NoteLast(t)
        /\ UNCHANGED <<targets, force, forced, round, retried, sawHard,
                       sawCool, view, sleep>>
    BY <1>7 DEF Commit
  <2>2. ends' = (IF s = "relayed" THEN 1 ELSE 0) /\ seen.records = 0
    BY <1>0, <2>1 DEF Unreported
  <2>3. pass' \in Pass
    BY <1>0, <2>1 DEF TypeOK, Pass
  <2>4. seen' \in Seen /\ seen'.records = 1 /\ seen'.waited = seen.waited
    BY <1>0, <2>1, <2>2, LastAttemptNoted
  <2>5. TypeOK'
    BY <1>0, <2>1, <2>2, <2>3, <2>4 DEF TypeOK, PC, Status, Verdict
  <2>6. Tallied' /\ Unreported' /\ Budgeted'
    BY <1>0, <2>1, <2>4 DEF Tallied, Unreported, Budgeted
  <2>7. HonestStatus' /\ ReportedOnce' /\ LatchFollowsAnswer'
    BY <2>1, <2>2, <2>4 DEF HonestStatus, ReportedOnce, LatchFollowsAnswer, LeftWaiting
  <2> QED BY <2>5, <2>6, <2>7 DEF IInv
<1>8. ASSUME NEW t \in Target, Abandon(t) PROVE IInv'
  <2>1. /\ pc = "targets" /\ pc' = "done" /\ status' = "499"
        /\ latch' = "ignored" /\ ends' = ends + 1
        /\ pass' = [pass EXCEPT !.left = @ \ {t}, !.tried = @ \cup {t}]
        /\ NoteLast(t)
        /\ UNCHANGED <<targets, force, forced, round, retried, sawHard,
                       sawCool, view, sleep>>
    BY <1>8 DEF Abandon
  <2>2. ends' = 1 /\ seen.records = 0
    BY <1>0, <2>1 DEF Unreported
  <2>3. pass' \in Pass
    BY <1>0, <2>1 DEF TypeOK, Pass
  <2>4. seen' \in Seen /\ seen'.records = 1 /\ seen'.waited = seen.waited
    BY <1>0, <2>1, <2>2, LastAttemptNoted
  <2>5. TypeOK'
    BY <1>0, <2>1, <2>2, <2>3, <2>4 DEF TypeOK, PC, Status, Verdict
  <2>6. Tallied' /\ Unreported' /\ Budgeted'
    BY <1>0, <2>1, <2>4 DEF Tallied, Unreported, Budgeted
  <2>7. HonestStatus' /\ ReportedOnce' /\ LatchFollowsAnswer'
    BY <2>1, <2>2, <2>4 DEF HonestStatus, ReportedOnce, LatchFollowsAnswer, LeftWaiting
  <2> QED BY <2>5, <2>6, <2>7 DEF IInv
<1>9. CASE ClientGone
  <2>1. /\ pc # "done" /\ Finish("499", FALSE, TRUE, TRUE)
        /\ UNCHANGED <<pass, sawHard, sawCool, view>>
    BY <1>9 DEF ClientGone
  <2> QED BY <2>1, FinishKeeps
<1>10. CASE PassFailed
  <2>1. pc = "targets" /\ UNCHANGED pass
    BY <1>10 DEF PassFailed
  <2>2. CASE /\ pass.conversionErr /\ pass.tried = {}
             /\ Finish("400", FALSE, FALSE, TRUE)
             /\ UNCHANGED <<sawHard, sawCool, view>>
    BY <2>1, <2>2, FinishKeeps
  <2>3. CASE /\ Accumulate /\ pc' = "decide"
             /\ \E h \in [CheckTargets -> Reading] : view' = CooldownState(h)
             /\ UNCHANGED <<targets, force, forced, round, retried, sleep,
                            answer, seen>>
    <3>1. view' \in View
      BY <2>3, CooldownStateType
    <3>2. TypeOK'
      BY <1>0, <2>1, <2>3, <3>1 DEF TypeOK, PC, Accumulate, answer
    <3>3. Tallied' /\ Budgeted'
      BY <1>0, <2>1, <2>3 DEF Tallied, Accumulate, Budgeted
    <3> QED BY <2>1, <2>3, <3>2, <3>3, QuietKeeps DEF IInv
  <2> QED BY <1>10, <2>2, <2>3 DEF PassFailed
<1>11. ASSUME NEW avail \in SUBSET Target, RetryNow(avail) PROVE IInv'
  <2>1. /\ pc = "decide" /\ pc' = "schedule"
        /\ round < MaxRetryRounds /\ round' = round + 1
        /\ UNCHANGED <<targets, force, forced, pass, retried, sawHard, sawCool,
                       view, sleep, answer, seen>>
    BY <1>11 DEF RetryNow, Recovered, MayRetry
  <2>2. TypeOK'
    BY <1>0, <2>1 DEF TypeOK, PC, MaxRetryRounds, answer
  <2>3. Tallied'
    BY <1>0, <2>1 DEF Tallied
  <2>4. Budgeted'
    <3>1. round \in {0, 1}
      BY <1>0, <2>1 DEF TypeOK, MaxRetryRounds
    <3>2. seen.waited \in Nat
      BY <1>0 DEF TypeOK, Seen
    <3> QED BY <1>0, <2>1, <3>1, <3>2, ForwardAssumption DEF Budgeted
  <2> QED BY <2>1, <2>2, <2>3, <2>4, QuietKeeps DEF IInv
<1>12. ASSUME NEW avail \in SUBSET Target, Terminal(avail) PROVE IInv'
  <2> DEFINE s == IF RateLimited THEN "429" ELSE "502"
  <2>1. /\ pc = "decide" /\ UNCHANGED <<pass, sawHard, sawCool, view>>
        /\ Finish(s, FALSE, FALSE, TRUE)
    BY <1>12 DEF Terminal
  <2>2. seen.hard = sawHard /\ seen.cool = sawCool
    BY <1>0, <2>1 DEF Tallied
  <2>3. /\ s = "429" => ~seen.hard /\ (seen.cool \/ view.allRateLimited)
        /\ s = "502" => seen.hard \/ ~seen.cool
    BY <2>2 DEF RateLimited
  <2>4. s \in {"400", "429", "499", "502"} /\ s # "499" /\ s # "400"
    OBVIOUS
  <2> HIDE DEF s
  <2> QED BY <2>1, <2>3, <2>4, FinishKeeps
<1>13. CASE WaitBegin
  <2>1. /\ pc = "decide" /\ pc' = "waiting" /\ sleep' = view.earliest
        /\ round < MaxRetryRounds /\ view.earliest <= RetryWait
        /\ view.earliest > 0
        /\ UNCHANGED <<targets, force, forced, round, pass, retried, sawHard,
                       sawCool, view, answer, seen>>
    BY <1>13 DEF WaitBegin, MayRetry, ShortWait
  <2>2. view.earliest \in 0..RetryWait
    BY <1>0, <2>1, ForwardAssumption DEF TypeOK, View
  <2>3. TypeOK'
    BY <1>0, <2>1, <2>2 DEF TypeOK, PC, answer
  <2>4. Tallied' /\ Budgeted'
    BY <1>0, <2>1 DEF Tallied, Budgeted
  <2> QED BY <2>1, <2>3, <2>4, QuietKeeps DEF IInv
<1>14. CASE WaitEnd
  <2>1. /\ pc = "waiting" /\ pc' = "schedule" /\ sleep' = 0
        /\ round' = round + 1
        /\ seen' = [seen EXCEPT !.waited = @ + sleep]
        /\ UNCHANGED <<targets, force, forced, pass, retried, sawHard, sawCool,
                       view, answer>>
    BY <1>14 DEF WaitEnd
  <2>2. round \in {0, 1} /\ sleep \in 0..RetryWait
    BY <1>0, <2>1 DEF TypeOK, Budgeted, MaxRetryRounds
  <2>3. /\ seen' \in Seen /\ seen'.records = seen.records
        /\ seen'.hard = seen.hard /\ seen'.cool = seen.cool
        /\ seen'.waited = seen.waited + sleep /\ seen.waited \in Nat
    BY <1>0, <2>1, <2>2, ForwardAssumption DEF TypeOK, Seen
  <2>4. TypeOK'
    BY <1>0, <2>1, <2>2, <2>3, ForwardAssumption
       DEF TypeOK, PC, MaxRetryRounds, answer
  <2>5. Tallied'
    BY <1>0, <2>1, <2>3 DEF Tallied
  <2>6. Budgeted'
    BY <1>0, <2>1, <2>2, <2>3, ForwardAssumption DEF Budgeted
  <2> QED BY <2>1, <2>3, <2>4, <2>5, <2>6, QuietKeeps DEF IInv
<1>15. CASE WaitCancelled
  <2>1. /\ pc = "waiting" /\ Finish("499", FALSE, FALSE, TRUE)
        /\ UNCHANGED <<pass, sawHard, sawCool, view>>
    BY <1>15 DEF WaitCancelled
  <2>2. sleep > 0
    BY <1>0, <2>1 DEF Budgeted
  <2> QED BY <2>1, <2>2, FinishKeeps
<1>16. CASE UNCHANGED vars
  BY <1>16 DEF vars, answer, IInv, TypeOK, Tallied, Unreported, Budgeted,
               HonestStatus, ReportedOnce, LatchFollowsAnswer, LeftWaiting
<1> QED
  <2>1. CASE \E t \in Target : Attempts(t)
    BY <1>4, <1>5, <1>6, <1>7, <1>8, <2>1 DEF Attempts
  <2> QED BY <1>1, <1>2, <1>3, <2>1, <1>9, <1>10, <1>11, <1>12, <1>13, <1>14,
             <1>15, <1>16 DEF Next

LEMMA InvariantOfSpec == Spec => []IInv
BY InitIInv, StepIInv, PTL DEF Spec

-----------------------------------------------------------------------------

(* Every reachable state is well typed: in particular a request never      *)
(* sleeps longer than retry_wait at a time and never starts a fourth pass, *)
(* whatever deadlines CooldownState reads.                                 *)
THEOREM ForwardTypeCorrect == Spec => []TypeOK
<1>1. IInv => TypeOK
  BY DEF IInv
<1> QED BY <1>1, InvariantOfSpec, PTL

(* For every route, pin, health history and number of passes, the terminal *)
(* status is honest about all of them (DecideFailure).                     *)
THEOREM ForwardHonestStatus == Spec => []HonestStatus
<1>1. IInv => HonestStatus
  BY DEF IInv
<1> QED BY <1>1, InvariantOfSpec, PTL

(* The waits of one request add up to at most two retry_wait budgets.      *)
THEOREM ForwardBoundedWait == Spec => []BoundedWait
<1>1. IInv => BoundedWait
  <2> SUFFICES ASSUME IInv PROVE BoundedWait
    OBVIOUS
  <2>1. /\ round \in {0, 1, 2} /\ seen.waited \in Nat
        /\ seen.waited <= round * RetryWait
    BY DEF IInv, TypeOK, Budgeted, Seen, MaxRetryRounds
  <2> QED BY <2>1, ForwardAssumption DEF BoundedWait, MaxRetryRounds
<1> QED BY <1>1, InvariantOfSpec, PTL

(* Every way out of forward reports to the latch, and all but a commit     *)
(* that fails closed to the live monitor, exactly once.                    *)
THEOREM ForwardReportedOnce == Spec => []ReportedOnce
<1>1. IInv => ReportedOnce
  BY DEF IInv
<1> QED BY <1>1, InvariantOfSpec, PTL

(* The latch hears of a bad run only for a failed pass whose error is      *)
(* answered or whose wait the client cuts short, and of a good run only    *)
(* for a commit (recordLatchOutcome).                                      *)
THEOREM ForwardLatchFollowsAnswer == Spec => []LatchFollowsAnswer
<1>1. IInv => LatchFollowsAnswer
  BY DEF IInv
<1> QED BY <1>1, InvariantOfSpec, PTL

-----------------------------------------------------------------------------
(* The number of attempts.  Every pass, and the one larger-context list,   *)
(* pays for the attempts on its targets when it begins; an attempt takes   *)
(* its target off the list.                                                *)

Lists == round + IF retried THEN 1 ELSE 0
Worth(n) == n * Cardinality(Target)

Paced ==
    /\ pc = "arrive" => seen.attempts = 0
    /\ pc = "schedule" => seen.attempts <= Worth(Lists)
    /\ pc = "targets" => seen.attempts + Cardinality(pass.left) <= Worth(Lists + 1)
    /\ pc \in {"decide", "waiting", "done"} => seen.attempts <= Worth(Lists + 1)

(* What a list of targets is worth. *)
LEMMA WorthOf ==
    /\ Cardinality(Target) \in Nat
    /\ \A n \in 0..4 : Worth(n) \in Nat /\ Worth(n) <= MaxAttempts
    /\ \A n \in 0..3 : Worth(n + 1) = Worth(n) + Cardinality(Target)
<1>1. Cardinality(Target) \in Nat
  BY TargetsFinite, FS_CardinalityType
<1>2. ASSUME NEW n \in 0..4 PROVE Worth(n) \in Nat /\ Worth(n) <= MaxAttempts
  <2>1. n = 0 \/ n = 1 \/ n = 2 \/ n = 3 \/ n = 4
    OBVIOUS
  <2> QED BY <1>1, <2>1 DEF Worth, MaxAttempts, MaxRetryRounds
<1>3. ASSUME NEW n \in 0..3 PROVE Worth(n + 1) = Worth(n) + Cardinality(Target)
  <2>1. n = 0 \/ n = 1 \/ n = 2 \/ n = 3
    OBVIOUS
  <2> QED BY <1>1, <2>1 DEF Worth
<1> QED BY <1>1, <1>2, <1>3

(* A list has no more targets than there are, and one less without one. *)
LEMMA ListSize ==
    ASSUME NEW S \in SUBSET Target
    PROVE  /\ Cardinality(S) \in Nat /\ Cardinality(S) <= Cardinality(Target)
           /\ \A t \in S : Cardinality(S \ {t}) = Cardinality(S) - 1 /\ Cardinality(S) >= 1
<1>1. IsFiniteSet(S) /\ Cardinality(S) <= Cardinality(Target)
  BY TargetsFinite, FS_Subset
<1>2. Cardinality(S) \in Nat
  BY <1>1, FS_CardinalityType
<1>3. ASSUME NEW t \in S PROVE Cardinality(S \ {t}) = Cardinality(S) - 1 /\ Cardinality(S) >= 1
  <2>1. Cardinality(S \ {t}) = Cardinality(S) - 1
    BY <1>1, FS_RemoveElement
  <2>2. Cardinality(S) # 0
    BY <1>1, FS_EmptySet
  <2> QED BY <1>2, <2>1, <2>2
<1> QED BY <1>1, <1>2, <1>3

(* The pace of the request is kept by every step. *)
LEMMA StepPaced == IInv /\ Paced /\ [Next]_vars => Paced'
<1> SUFFICES ASSUME IInv, Paced, [Next]_vars PROVE Paced'
  OBVIOUS
<1> DEFINE N == Cardinality(Target)
<1>a. /\ round \in 0..2 /\ retried \in BOOLEAN /\ Lists \in 0..3
      /\ seen \in Seen /\ seen.attempts \in Nat
      /\ pass \in Pass /\ pass.left \in SUBSET Target
  BY DEF IInv, TypeOK, Seen, Pass, Lists, MaxRetryRounds
<1>b. N \in Nat /\ Worth(0) = 0
  BY WorthOf DEF Worth
<1>c. /\ Worth(Lists) \in Nat /\ Worth(Lists + 1) = Worth(Lists) + N
  BY <1>a, WorthOf
<1>d. Counted(seen.attempts) \in Nat /\ Counted(seen.attempts) <= seen.attempts + 1
  BY <1>a, <1>b DEF Counted, MaxAttempts, MaxRetryRounds
<1> HIDE DEF N
<1>e. ASSUME seen'.attempts = seen.attempts, UNCHANGED <<round, retried>>, pc' = "done"
      PROVE  Paced'
  <2>1. seen.attempts <= Worth(Lists + 1)
    <3>1. Cardinality(pass.left) \in Nat
      BY <1>a, ListSize
    <3>2. pc \in PC
      BY DEF IInv, TypeOK
    <3> QED BY <1>a, <1>b, <1>c, <3>1, <3>2 DEF Paced, PC
  <2>2. Lists' = Lists
    BY <1>e DEF Lists
  <2> QED BY <1>e, <2>1, <2>2 DEF Paced, Worth
<1>f. ASSUME NEW s, NEW c, NEW g, NEW b, Finish(s, c, g, b) PROVE Paced'
  <2>1. seen'.attempts = seen.attempts /\ UNCHANGED <<round, retried>> /\ pc' = "done"
    BY <1>a, <1>f DEF Finish, Seen
  <2> QED BY <1>e, <2>1
<1>g. ASSUME NEW t \in pass.left, pc = "targets", UNCHANGED <<round, retried>>,
             pass'.left = pass.left \ {t}, pc' \in {"targets", "done"},
             seen'.attempts \in {seen.attempts, Counted(seen.attempts)}
      PROVE  Paced'
  <2>1. /\ Cardinality(pass.left) \in Nat /\ Cardinality(pass.left) >= 1
        /\ Cardinality(pass'.left) = Cardinality(pass.left) - 1
    BY <1>a, <1>g, ListSize
  <2>2. Lists' = Lists
    BY <1>g DEF Lists
  <2>3. seen.attempts + Cardinality(pass.left) <= Worth(Lists + 1)
    BY <1>g DEF Paced
  <2>4. seen'.attempts + Cardinality(pass'.left) <= Worth(Lists + 1) /\ seen'.attempts <= Worth(Lists + 1)
    BY <1>a, <1>c, <1>d, <1>g, <2>1, <2>3, <1>b
  <2> QED BY <1>g, <2>2, <2>4 DEF Paced, Worth
<1>1. ASSUME NEW published \in BOOLEAN, Reject(published) PROVE Paced'
  BY <1>1, <1>e DEF Reject
<1>2. ASSUME NEW pinned \in BOOLEAN, NEW forcing \in BOOLEAN, NEW S \in SUBSET Route,
             Arrive(pinned, forcing, S) PROVE Paced'
  <2>1. pc = "arrive" /\ pc' = "schedule" /\ Lists' = Lists /\ UNCHANGED seen
    BY <1>2 DEF Arrive, Lists
  <2>2. seen.attempts = 0
    BY <2>1 DEF Paced
  <2> QED BY <1>c, <2>1, <2>2 DEF Paced, Worth
<1>3. ASSUME NEW enabled, NEW avail, NEW pinned, NEW ordered \in SUBSET Target,
             Schedule(enabled, avail, pinned, ordered) PROVE Paced'
  <2>1. /\ pc = "schedule" /\ pc' = "targets" /\ Lists' = Lists /\ UNCHANGED seen
        /\ pass'.left = ordered
    BY <1>3 DEF Schedule, NewPass, Lists
  <2>2. seen.attempts <= Worth(Lists)
    BY <2>1 DEF Paced
  <2>3. Cardinality(ordered) \in Nat /\ Cardinality(ordered) <= N
    BY ListSize DEF N
  <2>4. seen.attempts + Cardinality(ordered) <= Worth(Lists + 1)
    BY <1>a, <1>b, <1>c, <2>2, <2>3
  <2> QED BY <2>1, <2>4 DEF Paced, Worth
<1>4. ASSUME NEW t \in Target, NEW why, SkipTarget(t, why) PROVE Paced'
  <2>1. /\ pc = "targets" /\ pc' = "targets" /\ t \in pass.left
        /\ UNCHANGED <<round, retried, seen>> /\ pass'.left = pass.left \ {t}
    BY <1>a, <1>4 DEF SkipTarget, Pass
  <2> QED BY <1>g, <2>1
<1>5. ASSUME NEW t \in Target, NEW out, Execute(t, out) PROVE Paced'
  <2>1. /\ pc = "targets" /\ pc' = "targets" /\ t \in pass.left
        /\ UNCHANGED <<round, retried>> /\ pass'.left = pass.left \ {t}
    BY <1>a, <1>5 DEF Execute, Pass
  <2>2. seen'.attempts = Counted(seen.attempts)
    BY <1>a, <1>5 DEF Execute, Note, Seen
  <2> QED BY <1>g, <2>1, <2>2
<1>6. ASSUME NEW t \in Target, NEW larger \in SUBSET Target, ContextRetry(t, larger) PROVE Paced'
  <2>1. /\ pc = "targets" /\ pc' = "targets" /\ t \in pass.left
        /\ ~retried /\ retried' /\ round' = round /\ pass'.left = larger
    BY <1>a, <1>6 DEF ContextRetry, Pass
  <2>2. seen'.attempts = Counted(seen.attempts)
    BY <1>a, <1>6 DEF ContextRetry, Note, Seen
  <2>3. Lists' = Lists + 1 /\ Lists \in 0..2
    BY <1>a, <2>1 DEF Lists
  <2>4. /\ Cardinality(pass.left) \in Nat /\ Cardinality(pass.left) >= 1
        /\ Cardinality(larger) \in Nat /\ Cardinality(larger) <= N
    BY <1>a, <2>1, ListSize DEF N
  <2>5. Worth((Lists + 1) + 1) = Worth(Lists + 1) + N
    BY <2>3, WorthOf DEF N
  <2>6. seen.attempts + Cardinality(pass.left) <= Worth(Lists + 1)
    BY <2>1 DEF Paced
  <2>7. seen'.attempts + Cardinality(larger) <= Worth((Lists + 1) + 1)
    BY <1>a, <1>b, <1>c, <1>d, <2>2, <2>4, <2>5, <2>6
  <2> QED BY <2>1, <2>3, <2>7 DEF Paced, Worth
<1>7. ASSUME NEW t \in Target, NEW s, Commit(t, s) PROVE Paced'
  <2>1. /\ pc = "targets" /\ pc' = "done" /\ t \in pass.left
        /\ UNCHANGED <<round, retried>> /\ pass'.left = pass.left \ {t}
    BY <1>a, <1>7 DEF Commit, Pass
  <2>2. seen'.attempts = Counted(seen.attempts)
    BY <1>a, <1>7 DEF Commit, NoteLast, Seen
  <2> QED BY <1>g, <2>1, <2>2
<1>8. ASSUME NEW t \in Target, Abandon(t) PROVE Paced'
  <2>1. /\ pc = "targets" /\ pc' = "done" /\ t \in pass.left
        /\ UNCHANGED <<round, retried>> /\ pass'.left = pass.left \ {t}
    BY <1>a, <1>8 DEF Abandon, Pass
  <2>2. seen'.attempts = Counted(seen.attempts)
    BY <1>a, <1>8 DEF Abandon, NoteLast, Seen
  <2> QED BY <1>g, <2>1, <2>2
<1>9. CASE ClientGone
  BY <1>9, <1>f DEF ClientGone
<1>10. CASE PassFailed
  <2>1. CASE Finish("400", FALSE, FALSE, TRUE)
    BY <2>1, <1>f
  <2>2. CASE pc = "targets" /\ pc' = "decide" /\ UNCHANGED <<round, retried, seen>>
    <3>1. seen.attempts + Cardinality(pass.left) <= Worth(Lists + 1) /\ Lists' = Lists
      BY <2>2 DEF Paced, Lists
    <3>2. Cardinality(pass.left) \in Nat
      BY <1>a, ListSize
    <3>3. seen.attempts <= Worth(Lists + 1)
      BY <1>a, <1>b, <1>c, <3>1, <3>2
    <3> QED BY <2>2, <3>1, <3>3 DEF Paced, Worth
  <2> QED BY <1>10, <2>1, <2>2 DEF PassFailed
<1>11. ASSUME pc \in {"decide", "waiting"}, pc' = "schedule", round' = round + 1,
              UNCHANGED retried, seen'.attempts = seen.attempts
       PROVE  Paced'
  <2>1. seen.attempts <= Worth(Lists + 1)
    BY <1>11 DEF Paced
  <2>2. Lists' = Lists + 1
    BY <1>a, <1>11 DEF Lists
  <2> QED BY <1>11, <2>1, <2>2 DEF Paced, Worth
<1>12. ASSUME NEW avail, RetryNow(avail) PROVE Paced'
  BY <1>11, <1>12 DEF RetryNow
<1>13. ASSUME NEW avail, Terminal(avail) PROVE Paced'
  BY <1>13, <1>f DEF Terminal
<1>14. CASE WaitBegin
  <2>1. pc = "decide" /\ pc' = "waiting" /\ Lists' = Lists /\ UNCHANGED seen
    BY <1>14 DEF WaitBegin, Lists
  <2>2. seen.attempts <= Worth(Lists + 1)
    BY <2>1 DEF Paced
  <2> QED BY <2>1, <2>2 DEF Paced, Worth
<1>15. CASE WaitEnd
  <2>1. seen'.attempts = seen.attempts
    BY <1>a, <1>15 DEF WaitEnd, Seen
  <2> QED BY <1>11, <1>15, <2>1 DEF WaitEnd
<1>16. CASE WaitCancelled
  BY <1>16, <1>f DEF WaitCancelled
<1>17. CASE UNCHANGED vars
  BY <1>17 DEF vars, Paced, Worth, Lists
<1> QED
  <2>1. CASE \E t \in Target : Attempts(t)
    BY <1>4, <1>5, <1>6, <1>7, <1>8, <2>1 DEF Attempts
  <2> QED BY <1>1, <1>2, <1>3, <2>1, <1>9, <1>10, <1>12, <1>13, <1>14, <1>15,
             <1>16, <1>17 DEF Next

(* For every route and every number of targets, a request makes no more    *)
(* attempts than three passes and one larger-context list have targets     *)
(* (serveOnce, DecideFailure).                                             *)
THEOREM ForwardBoundedAttempts == Spec => []BoundedAttempts
<1>1. Init => Paced
  <2> SUFFICES ASSUME Init PROVE Paced
    OBVIOUS
  <2>1. pc = "arrive" /\ seen.attempts = 0
    BY DEF Init
  <2> QED BY <2>1 DEF Paced
<1>2. IInv /\ Paced => BoundedAttempts
  <2> SUFFICES ASSUME IInv, Paced PROVE BoundedAttempts
    OBVIOUS
  <2>1. /\ Lists \in 0..3 /\ seen.attempts \in Nat /\ pc \in PC
        /\ Cardinality(pass.left) \in Nat
    <3>1. pass.left \in SUBSET Target
      BY DEF IInv, TypeOK, Pass
    <3> QED BY <3>1, ListSize DEF IInv, TypeOK, Seen, Lists, MaxRetryRounds
  <2>2. /\ Worth(Lists) \in Nat /\ Worth(Lists) <= MaxAttempts
        /\ Worth(Lists + 1) \in Nat /\ Worth(Lists + 1) <= MaxAttempts
    BY <2>1, WorthOf
  <2>3. MaxAttempts \in Nat
    BY WorthOf DEF MaxAttempts, MaxRetryRounds
  <2> QED BY <2>1, <2>2, <2>3 DEF Paced, PC, BoundedAttempts
<1> QED BY <1>1, <1>2, StepPaced, InvariantOfSpec, PTL DEF Spec
=============================================================================
