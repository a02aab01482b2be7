---------------------------- MODULE QuotaProofs ----------------------------
(***************************************************************************)
(* Proofs about QuotaTracker, for every set of keys, every number of polls *)
(* and refreshes at a time and every number of reloads.                    *)
(***************************************************************************)
EXTENDS QuotaTracker, FiniteSetTheorems, TLAPS

-----------------------------------------------------------------------------
(* The inductive invariant. *)

(* The two generation counters differ only while Reload holds Proxy.mu for *)
(* writing; the built keys exist only between the build and the swap.      *)
Swap ==
    /\ swapping <=> reload = "locked"
    /\ cfgGen = IF swapping THEN mgrGen + 1 ELSE mgrGen
    /\ reload = "built" => cfgGen < MaxGen
    /\ reload \notin {"built", "locked"} => built = {}

(* persistMu is held by the one caller that is writing. *)
Locked ==
    /\ \A t \in Task : task[t].phase = "writing" <=> writer = t
    /\ reload = "writing" <=> writer = Reloader
    /\ closing = "writing" <=> writer = Closer

(* What is on disk and what is about to be written never goes backwards. *)
Durable ==
    /\ acked <= file /\ file <= mgrGen
    /\ writer # NoCaller => file <= pending[writer] /\ pending[writer] <= mgrGen
    /\ reload = "writing" => pending[Reloader] = mgrGen

(* What a task holds: a single poll and a refresh have one key, only       *)
(* refreshes have a guard to give back, a commit has all its results.      *)
HeldBy(t) ==
    /\ task[t].phase # "idle" /\ task[t].kind # "poll" =>
         \E n \in Name : task[t].names = {n}
    /\ task[t].phase = "finish" => task[t].kind = "refresh"
    /\ task[t].phase = "commit" =>
         \A n \in task[t].names : task[t].result[n] # "none"
    /\ task[t].gen <= cfgGen

Held == \A t \in Task : HeldBy(t)

(* A measurement of the current generation was taken with the provider     *)
(* objects of this generation, for keys that are live.                     *)
Measured ==
    \A t \in Task :
      LET a == task[t] IN
      a.phase \in {"fetching", "commit"} =>
        /\ a.gen <= mgrGen
        /\ a.gen = mgrGen => a.src = mgrGen /\ a.names \subseteq live

(* The guard of a key is set exactly while a refresh of it runs, and one   *)
(* refresh at a time runs.                                                 *)
Guarded ==
    /\ \A n \in Name : n \in inFlight <=> \E t \in Task : Refreshing(t, n)
    /\ \A n \in Name, t, u \in Task : Refreshing(t, n) /\ Refreshing(u, n) => t = u

IInv ==
    /\ TypeOK /\ Swap /\ Locked /\ Durable /\ Held /\ Measured /\ Guarded
    /\ LiveQuotaOnly /\ QuietAfterClose

-----------------------------------------------------------------------------
(* A task that has nothing to do. *)
LEMMA IdleTyped ==
    /\ IdleTask \in TaskState
    /\ IdleTask.phase = "idle" /\ IdleTask.kind = "poll" /\ IdleTask.sync = FALSE
    /\ IdleTask.gen = 0 /\ IdleTask.names = {}
<1>1. 0 \in Gen
  BY TrackerAssumption DEF Gen
<1>2. [n \in Name |-> "none"] \in [Name -> Outcome \cup {"none"}]
  OBVIOUS
<1> DEFINE r == [n \in Name |-> "none"]
<1>3. r \in [Name -> Outcome \cup {"none"}]
  BY <1>2
<1> HIDE DEF r
<1>4. IdleTask = [phase |-> "idle", kind |-> "poll", sync |-> FALSE, gen |-> 0,
                  src |-> 0, names |-> {}, result |-> r, applied |-> FALSE,
                  late |-> {}]
  BY DEF IdleTask, r
<1> QED BY <1>1, <1>3, <1>4 DEF TaskState, Phase, Kind

(* What the helpers of the model do to the tasks: the one that moves       *)
(* changes as they say, the others stay.                                   *)
Moves(t, phase, kind, sync, gen, names) ==
    /\ task' \in [Task -> TaskState]
    /\ \A u \in Task : u # t => task'[u] = task[u]
    /\ task'[t].phase = phase
    /\ task'[t].kind = kind
    /\ task'[t].sync = sync
    /\ task'[t].gen = gen
    /\ task'[t].names = names

(* Goto changes the phase of the task and nothing else. *)
LEMMA GotoMoves ==
    ASSUME task \in [Task -> TaskState], NEW t \in Task, NEW phase \in Phase,
           Goto(t, phase)
    PROVE  /\ Moves(t, phase, task[t].kind, task[t].sync, task[t].gen, task[t].names)
           /\ task'[t].src = task[t].src
           /\ task'[t].result = task[t].result
<1>1. task[t] \in TaskState
  OBVIOUS
<1>2. task' = [task EXCEPT ![t] = [task[t] EXCEPT !.phase = phase]]
  BY DEF Goto
<1>3. [task[t] EXCEPT !.phase = phase] \in TaskState
  BY <1>1 DEF TaskState
<1> QED BY <1>1, <1>2, <1>3 DEF Moves, TaskState

(* Done makes the task idle. *)
LEMMA DoneMoves ==
    ASSUME task \in [Task -> TaskState], NEW t \in Task, Done(t)
    PROVE  Moves(t, "idle", "poll", FALSE, 0, {})
BY IdleTyped DEF Done, Moves

(* The state of a task that Launch, or its caller, has just started. *)
LaunchedTask(kind, sync, gen, names) ==
    [IdleTask EXCEPT !.phase = "launched", !.kind = kind, !.sync = sync,
       !.gen = gen, !.names = names]

(* A started task is launched with what it was given. *)
LEMMA LaunchedTyped ==
    ASSUME NEW kind \in Kind, NEW sync \in BOOLEAN, NEW gen \in Gen,
           NEW names \in SUBSET Name
    PROVE  LET b == LaunchedTask(kind, sync, gen, names)
           IN  /\ b \in TaskState
               /\ b.phase = "launched" /\ b.kind = kind /\ b.sync = sync
               /\ b.gen = gen /\ b.names = names
BY IdleTyped DEF LaunchedTask, TaskState, Phase

(* Dispatch starts the task. *)
LEMMA DispatchMoves ==
    ASSUME task \in [Task -> TaskState], NEW t \in Task, NEW kind \in Kind,
           NEW sync \in BOOLEAN, NEW gen \in Gen, NEW names \in SUBSET Name,
           Dispatch(t, kind, sync, gen, names)
    PROVE  Moves(t, "launched", kind, sync, gen, names)
<1>1. task' = [task EXCEPT ![t] = LaunchedTask(kind, sync, gen, names)]
  BY DEF Dispatch, LaunchedTask
<1> QED BY <1>1, LaunchedTyped DEF Moves

(* A process that starts is in a state of the invariant. *)
LEMMA InitIInv == Init => IInv
<1> SUFFICES ASSUME Init PROVE IInv
  OBVIOUS
<1> USE TrackerAssumption, CallerAssumption
<1>t. \A t \in Task : task[t].phase = "idle" /\ task[t].kind = "poll" /\ task[t].gen = 0
  BY IdleTyped DEF Init
<1>1. TypeOK
  <2>1. quotas \in [Name -> Snap \cup {NoSnap}]
    <3>1. [out |-> "nobudget", src |-> 0] \in Snap
      BY DEF Snap, Outcome, Gen
    <3> QED BY <3>1 DEF Init
  <2>2. task \in [Task -> TaskState]
    BY IdleTyped DEF Init
  <2>3. pending \in [Caller -> Gen]
    BY DEF Init, Gen
  <2>4. cfgGen \in Gen /\ mgrGen \in Gen /\ file \in Gen /\ acked \in Gen
    BY DEF Init, Gen
  <2>5. /\ swapping \in BOOLEAN /\ live \subseteq Name /\ built \subseteq Name
        /\ limited \subseteq Name /\ syncErrs \subseteq Name
        /\ inFlight \subseteq Name /\ recent \subseteq Name
        /\ reload = "idle" /\ closing = "open" /\ writer \in Caller \cup {NoCaller}
    BY DEF Init
  <2> QED BY <2>1, <2>2, <2>3, <2>4, <2>5 DEF TypeOK
<1>2. Swap
  BY DEF Init, Swap
<1>3. Locked
  BY <1>t DEF Init, Locked, NoCaller, Reloader, Closer
<1>4. Durable
  BY DEF Init, Durable
<1>5. Held
  BY <1>t DEF Init, Held, HeldBy
<1>6. Measured
  BY <1>t DEF Measured
<1>7. Guarded
  BY <1>t DEF Init, Guarded, Refreshing
<1>8. LiveQuotaOnly
  BY DEF Init, LiveQuotaOnly
<1>9. QuietAfterClose
  BY DEF Init, QuietAfterClose
<1> QED BY <1>1, <1>2, <1>3, <1>4, <1>5, <1>6, <1>7, <1>8, <1>9 DEF IInv

-----------------------------------------------------------------------------
(* One lemma per action: the invariant survives it. *)

LEMMA PollAllKeeps ==
    ASSUME IInv, NEW t \in Task, NEW sync \in BOOLEAN, PollAll(t, sync)
    PROVE  IInv'
<1> USE TrackerAssumption, CallerAssumption DEF IInv
<1>g. /\ task[t].phase = "idle" /\ (~sync => closing \in {"open", "stopping"})
      /\ UNCHANGED <<cfgGen, swapping, live, built, mgrGen, quotas, limited, syncErrs, inFlight,
                     recent, reload, closing, writer, pending, file, acked>>
  BY DEF PollAll, tracker, disk
<1>m. Moves(t, "launched", "poll", sync, cfgGen, {})
  BY DispatchMoves DEF PollAll, TypeOK, Kind
<1>r. \A u \in Task, n \in Name : Refreshing(u, n)' <=> Refreshing(u, n)
  BY <1>g, <1>m DEF Moves, Refreshing
<1>1. TypeOK'
  BY <1>g, <1>m DEF Moves, TypeOK
<1>2. Swap'
  BY <1>g, <1>m DEF Moves, Swap, TypeOK, Gen
<1>3. Locked'
  BY <1>g, <1>m, SMTT(40) DEF Moves, Locked, TypeOK, TaskState, Caller, NoCaller, Reloader, Closer
<1>4. Durable'
  BY <1>g, <1>m DEF Moves, Durable, Locked, TypeOK, Gen, Caller, NoCaller, Reloader, Closer, Swap
<1>5. Held'
  <2> SUFFICES ASSUME NEW u \in Task PROVE HeldBy(u)'
    BY DEF Held
  <2>1. CASE u # t
    BY <1>g, <1>m, <2>1 DEF Moves, Held, HeldBy
  <2>2. CASE u = t
    BY <1>g, <1>m, <2>2 DEF Moves, Held, HeldBy, Swap, TypeOK, Gen, TaskState, Kind
  <2> QED BY <2>1, <2>2
<1>6. Measured'
  BY <1>g, <1>m DEF Moves, Measured, Swap, Held, HeldBy, TypeOK, TaskState, Kind, Gen
<1>7. Guarded'
  BY <1>g, <1>r DEF Guarded
<1>8. LiveQuotaOnly'
  BY <1>g, <1>m DEF Moves, LiveQuotaOnly, Measured, Swap, Held, HeldBy, TypeOK, NoSnap, TaskState
<1>9. QuietAfterClose'
  BY <1>g, <1>m DEF Moves, QuietAfterClose, Launched, TypeOK, TaskState
<1> QED BY <1>1, <1>2, <1>3, <1>4, <1>5, <1>6, <1>7, <1>8, <1>9

LEMMA PollOneKeeps ==
    ASSUME IInv, NEW t \in Task, NEW n \in Name, PollOne(t, n)
    PROVE  IInv'
<1> USE TrackerAssumption, CallerAssumption DEF IInv
<1>g. /\ task[t].phase = "idle"
      /\ UNCHANGED <<cfgGen, swapping, live, built, mgrGen, quotas, limited, syncErrs, inFlight,
                     recent, reload, closing, writer, pending, file, acked>>
  BY DEF PollOne, tracker, disk
<1>m. Moves(t, "launched", "one", TRUE, cfgGen, {n})
  BY DispatchMoves DEF PollOne, TypeOK, Kind
<1>r. \A u \in Task, m \in Name : Refreshing(u, m)' <=> Refreshing(u, m)
  BY <1>g, <1>m DEF Moves, Refreshing
<1>1. TypeOK'
  BY <1>g, <1>m DEF Moves, TypeOK
<1>2. Swap'
  BY <1>g, <1>m DEF Moves, Swap, TypeOK, Gen
<1>3. Locked'
  BY <1>g, <1>m DEF Moves, Locked, TypeOK, TaskState, Caller, NoCaller, Reloader, Closer
<1>4. Durable'
  BY <1>g, <1>m DEF Moves, Durable, Locked, TypeOK, Gen, Caller, NoCaller, Reloader, Closer, Swap
<1>5. Held'
  <2> SUFFICES ASSUME NEW u \in Task PROVE HeldBy(u)'
    BY DEF Held
  <2>1. CASE u # t
    BY <1>g, <1>m, <2>1 DEF Moves, Held, HeldBy
  <2>2. CASE u = t
    BY <1>g, <1>m, <2>2 DEF Moves, Held, HeldBy, Swap, TypeOK, Gen, TaskState, Kind
  <2> QED BY <2>1, <2>2
<1>6. Measured'
  BY <1>g, <1>m DEF Moves, Measured, Swap, Held, HeldBy, TypeOK, TaskState, Kind, Gen
<1>7. Guarded'
  BY <1>g, <1>r DEF Guarded
<1>8. LiveQuotaOnly'
  BY <1>g, <1>m DEF Moves, LiveQuotaOnly, Measured, Swap, Held, HeldBy, TypeOK, NoSnap, TaskState
<1>9. QuietAfterClose'
  BY <1>g, <1>m DEF Moves, QuietAfterClose, Launched, TypeOK, TaskState
<1> QED BY <1>1, <1>2, <1>3, <1>4, <1>5, <1>6, <1>7, <1>8, <1>9

LEMMA RateLimitKeeps ==
    ASSUME IInv, NEW t \in Task, NEW n \in Name, RateLimit(t, n)
    PROVE  IInv'
<1> USE TrackerAssumption, CallerAssumption DEF IInv
<1>g. /\ task[t].phase = "idle" /\ (~Stopped => closing = "open")
      /\ limited' = limited \cup {n}
      /\ UNCHANGED <<cfgGen, swapping, live, built, mgrGen, quotas, syncErrs, inFlight,
                     recent, reload, closing, writer, pending, file, acked>>
  BY DEF RateLimit, Stopped, tracker, disk
<1>m. /\ task' \in [Task -> TaskState]
      /\ \A u \in Task : u # t \/ Stopped =>
           /\ task'[u].phase = task[u].phase /\ task'[u].kind = task[u].kind
           /\ task'[u].sync = task[u].sync /\ task'[u].gen = task[u].gen
           /\ task'[u].names = task[u].names /\ task'[u].src = task[u].src
           /\ task'[u].result = task[u].result
      /\ ~Stopped =>
           /\ task'[t].phase = "launched" /\ task'[t].kind = "refresh"
           /\ task'[t].names = {n} /\ task'[t].gen = mgrGen
  <2> DEFINE mark(u) == IF task[u].result[n] = "budget"
                        THEN [task[u] EXCEPT !.late = @ \cup {n}] ELSE task[u]
             marked == [u \in Task |-> mark(u)]
             new == [IdleTask EXCEPT !.phase = "launched", !.kind = "refresh",
                       !.gen = mgrGen, !.names = {n}]
  <2>1. \A u \in Task :
          /\ mark(u) \in TaskState
          /\ mark(u).phase = task[u].phase /\ mark(u).kind = task[u].kind
          /\ mark(u).sync = task[u].sync /\ mark(u).gen = task[u].gen
          /\ mark(u).names = task[u].names /\ mark(u).src = task[u].src
          /\ mark(u).result = task[u].result
    <3> TAKE u \in Task
    <3>1. task[u] \in TaskState
      BY DEF TypeOK
    <3>2. CASE task[u].result[n] = "budget"
      <4>1. mark(u) = [task[u] EXCEPT !.late = task[u].late \cup {n}]
        BY <3>1, <3>2 DEF TaskState
      <4> HIDE DEF mark
      <4>2. task[u].late \cup {n} \in SUBSET Name
        BY <3>1 DEF TaskState
      <4> QED BY <3>1, <4>1, <4>2 DEF TaskState
    <3> QED BY <3>1, <3>2
  <2>2. /\ new \in TaskState
        /\ new.phase = "launched" /\ new.kind = "refresh"
        /\ new.gen = mgrGen /\ new.names = {n}
    BY IdleTyped DEF TypeOK, TaskState, Phase, Kind
  <2>3. task' = IF Stopped THEN marked ELSE [marked EXCEPT ![t] = new]
    BY DEF RateLimit
  <2> HIDE DEF new, mark
  <2> QED BY <2>1, <2>2, <2>3 DEF TypeOK
<1>r. \A u \in Task, m \in Name : Refreshing(u, m)' <=> Refreshing(u, m)
  BY <1>g, <1>m DEF Stopped, Refreshing
<1>1. TypeOK'
  BY <1>g, <1>m DEF TypeOK
<1>2. Swap'
  BY <1>g, <1>m DEF Swap, TypeOK, Gen
<1>3. Locked'
  BY <1>g, <1>m DEF Locked, TypeOK, TaskState, Caller, NoCaller, Reloader, Closer
<1>4. Durable'
  BY <1>g, <1>m DEF Durable, Locked, TypeOK, Gen, Caller, NoCaller, Reloader, Closer, Swap
<1>5. Held'
  <2> SUFFICES ASSUME NEW u \in Task PROVE HeldBy(u)'
    BY DEF Held
  <2> QED BY <1>g, <1>m DEF Held, HeldBy, Swap, TypeOK, Gen
<1>6. Measured'
  BY <1>g, <1>m DEF Measured, Swap, Held, HeldBy, TypeOK, TaskState, Kind, Gen
<1>7. Guarded'
  BY <1>g, <1>r DEF Guarded
<1>8. LiveQuotaOnly'
  BY <1>g, <1>m DEF LiveQuotaOnly, Measured, Swap, Held, HeldBy, TypeOK, NoSnap, TaskState
<1>9. QuietAfterClose'
  BY <1>g, <1>m DEF QuietAfterClose, Launched, TypeOK, TaskState
<1> QED BY <1>1, <1>2, <1>3, <1>4, <1>5, <1>6, <1>7, <1>8, <1>9

LEMMA BeginKeeps ==
    ASSUME IInv, NEW t \in Task, Begin(t)
    PROVE  IInv'
<1> USE TrackerAssumption, CallerAssumption DEF IInv
<1>g. /\ task[t].phase = "launched"
      /\ UNCHANGED <<cfgGen, swapping, live, built, mgrGen, quotas, limited, syncErrs,
                     recent, reload, closing, writer, pending, file, acked>>
  BY DEF Begin, disk
<1>m. \/ Moves(t, "idle", "poll", FALSE, 0, {}) /\ inFlight' = inFlight
      \/ /\ Moves(t, "admitted", task[t].kind, task[t].sync, task[t].gen, task[t].names)
         /\ inFlight' = IF task[t].kind = "refresh"
                        THEN inFlight \cup task[t].names ELSE inFlight
         /\ task[t].kind = "refresh" => task[t].names \cap inFlight = {}
  BY DoneMoves, GotoMoves DEF Begin, TypeOK, Phase
<1>r. /\ task'[t].phase = "idle" \/ task'[t].kind # "refresh" =>
           inFlight' = inFlight /\ \A u \in Task, n \in Name : Refreshing(u, n)' <=> Refreshing(u, n)
      /\ task'[t].phase # "idle" /\ task'[t].kind = "refresh" =>
           /\ task[t].names \cap inFlight = {} /\ inFlight' = inFlight \cup task[t].names
           /\ \A u \in Task, n \in Name :
                Refreshing(u, n)' <=> Refreshing(u, n) \/ (u = t /\ n \in task[t].names)
  BY <1>g, <1>m DEF Moves, Refreshing
<1>1. TypeOK'
  BY <1>g, <1>m DEF Moves, TypeOK, TaskState
<1>2. Swap'
  BY <1>g, <1>m DEF Moves, Swap, TypeOK, Gen
<1>3. Locked'
  BY <1>g, <1>m DEF Moves, Locked, TypeOK, TaskState, Caller, NoCaller, Reloader, Closer
<1>4. Durable'
  BY <1>g, <1>m DEF Moves, Durable, Locked, TypeOK, Gen, Caller, NoCaller, Reloader, Closer, Swap
<1>5. Held'
  <2> SUFFICES ASSUME NEW u \in Task PROVE HeldBy(u)'
    BY DEF Held
  <2>1. CASE u # t
    BY <1>g, <1>m, <2>1 DEF Moves, Held, HeldBy
  <2>2. CASE u = t
    BY <1>g, <1>m, <2>2 DEF Moves, Held, HeldBy, TypeOK, Gen
  <2> QED BY <2>1, <2>2
<1>6. Measured'
  BY <1>g, <1>m DEF Moves, Measured, Swap, Held, HeldBy, TypeOK, TaskState, Kind, Gen
<1>7. Guarded'
  BY <1>g, <1>r DEF Guarded
<1>8. LiveQuotaOnly'
  BY <1>g, <1>m DEF Moves, LiveQuotaOnly, Measured, Swap, Held, HeldBy, TypeOK, NoSnap, TaskState
<1>9. QuietAfterClose'
  BY <1>g, <1>m DEF Moves, QuietAfterClose, Launched, TypeOK, TaskState
<1> QED BY <1>1, <1>2, <1>3, <1>4, <1>5, <1>6, <1>7, <1>8, <1>9

LEMMA ProvsKeeps ==
    ASSUME IInv, NEW t \in Task, Provs(t)
    PROVE  IInv'
<1> USE TrackerAssumption, CallerAssumption DEF IInv
<1>g. /\ task[t].phase = "admitted" /\ ~swapping
      /\ UNCHANGED <<cfgGen, swapping, live, built, mgrGen, quotas, limited, syncErrs, inFlight,
                     recent, reload, closing, writer, pending, file, acked>>
  BY DEF Provs, tracker, disk
<1> DEFINE names == IF task[t].kind = "poll" THEN live ELSE task[t].names \cap live
<1>b. ASSUME NEW p \in Phase, NEW ns \in SUBSET Name,
             task' = [task EXCEPT ![t].phase = p, ![t].src = cfgGen, ![t].names = ns]
      PROVE  /\ Moves(t, p, task[t].kind, task[t].sync, task[t].gen, ns)
             /\ task'[t].src = cfgGen
  <2>1. task[t] \in TaskState /\ cfgGen \in Gen
    BY DEF TypeOK
  <2>2. task' = [task EXCEPT ![t] = [task[t] EXCEPT !.phase = p, !.src = cfgGen, !.names = ns]]
    BY <1>b, <2>1 DEF TypeOK, TaskState
  <2>3. [task[t] EXCEPT !.phase = p, !.src = cfgGen, !.names = ns] \in TaskState
    BY <2>1 DEF TaskState
  <2> QED BY <2>1, <2>2, <2>3 DEF Moves, TaskState, TypeOK
<1>m. \/ /\ task[t].kind = "one"
         /\ Moves(t, "idle", "poll", FALSE, 0, {})
      \/ /\ task[t].kind = "refresh"
         /\ Moves(t, "finish", "refresh", task[t].sync, task[t].gen, task[t].names)
      \/ /\ names = {} /\ task[t].kind = "poll"
         /\ Moves(t, "commit", "poll", task[t].sync, task[t].gen, names)
         /\ task'[t].src = cfgGen
      \/ /\ names # {}
         /\ Moves(t, "fetching", task[t].kind, task[t].sync, task[t].gen, names)
         /\ task'[t].src = cfgGen
  <2>1. task[t] \in TaskState /\ names \in SUBSET Name
    BY DEF TypeOK, TaskState
  <2>2. CASE names # {}
    <3>1. task' = [task EXCEPT ![t].phase = "fetching", ![t].src = cfgGen, ![t].names = names]
      BY <2>2 DEF Provs
    <3> QED BY <3>1, <1>b, <2>1, <2>2 DEF Phase
  <2>3. CASE names = {} /\ task[t].kind = "poll"
    <3>1. task' = [task EXCEPT ![t].phase = "commit", ![t].src = cfgGen, ![t].names = names]
      BY <2>3 DEF Provs
    <3> QED BY <3>1, <1>b, <2>1, <2>3 DEF Phase
  <2>4. CASE names = {} /\ task[t].kind = "one"
    BY <2>4, DoneMoves DEF Provs, TypeOK
  <2>5. CASE names = {} /\ task[t].kind = "refresh"
    <3>1. task' = [task EXCEPT ![t].phase = "finish", ![t].src = cfgGen, ![t].names = task[t].names]
      BY <2>5 DEF Provs, TypeOK, TaskState
    <3>2. task[t].names \in SUBSET Name
      BY <2>1 DEF TaskState
    <3> QED BY <3>1, <3>2, <1>b, <2>1, <2>5 DEF Phase
  <2> QED BY <2>1, <2>2, <2>3, <2>4, <2>5 DEF TaskState, Kind
<1>r. \A u \in Task, n \in Name : Refreshing(u, n)' <=> Refreshing(u, n)
  BY <1>g, <1>m DEF Moves, Refreshing, Held, HeldBy, Guarded
<1>1. TypeOK'
  BY <1>g, <1>m DEF Moves, TypeOK
<1>2. Swap'
  BY <1>g, <1>m DEF Moves, Swap, TypeOK, Gen
<1>3. Locked'
  BY <1>g, <1>m DEF Moves, Locked, TypeOK, TaskState, Caller, NoCaller, Reloader, Closer
<1>4. Durable'
  BY <1>g, <1>m DEF Moves, Durable, Locked, TypeOK, Gen, Caller, NoCaller, Reloader, Closer, Swap
<1>5. Held'
  <2> SUFFICES ASSUME NEW u \in Task PROVE HeldBy(u)'
    BY DEF Held
  <2>1. CASE u # t
    BY <1>g, <1>m, <2>1 DEF Moves, Held, HeldBy
  <2>2. CASE u = t
    BY <1>g, <1>m, <2>2 DEF Moves, Held, HeldBy, Swap, TypeOK, Gen, TaskState, Kind
  <2> QED BY <2>1, <2>2
<1>6. Measured'
  BY <1>g, <1>m, SMTT(40) DEF Moves, Measured, Swap, Held, HeldBy, TypeOK, TaskState, Kind, Gen
<1>7. Guarded'
  BY <1>g, <1>r DEF Guarded
<1>8. LiveQuotaOnly'
  BY <1>g, <1>m DEF Moves, LiveQuotaOnly, Measured, Swap, Held, HeldBy, TypeOK, NoSnap, TaskState
<1>9. QuietAfterClose'
  BY <1>g, <1>m DEF Moves, QuietAfterClose, Launched, TypeOK, TaskState
<1> QED BY <1>1, <1>2, <1>3, <1>4, <1>5, <1>6, <1>7, <1>8, <1>9

LEMMA FetchQuotaKeeps ==
    ASSUME IInv, NEW t \in Task, NEW n \in Name, NEW out \in Outcome, FetchQuota(t, n, out)
    PROVE  IInv'
<1> USE TrackerAssumption, CallerAssumption DEF IInv
<1>g. /\ task[t].phase = "fetching" /\ n \in task[t].names
      /\ syncErrs' \subseteq Name
      /\ UNCHANGED <<cfgGen, swapping, live, built, mgrGen, quotas, limited, inFlight,
                     recent, reload, closing, writer, pending, file, acked>>
  BY DEF FetchQuota, disk, TypeOK
<1>m. /\ task' \in [Task -> TaskState]
      /\ \E p \in {"fetching", "commit"} :
           Moves(t, p, task[t].kind, task[t].sync, task[t].gen, task[t].names)
      /\ task'[t].src = task[t].src
      /\ task'[t].phase = "commit" => \A m \in task[t].names : task'[t].result[m] # "none"
  <2> DEFINE left == {m \in task[t].names : task[t].result[m] = "none"}
             p    == IF left = {n} THEN "commit" ELSE "fetching"
             r    == [task[t].result EXCEPT ![n] = out]
  <2>1. task[t] \in TaskState
    BY DEF TypeOK
  <2>2. p \in Phase /\ r \in [Name -> Outcome \cup {"none"}]
    BY <2>1 DEF Phase, TaskState
  <2>3. task' = [task EXCEPT ![t] = [task[t] EXCEPT !.result = r, !.phase = p]]
    BY <2>1 DEF FetchQuota, TypeOK, TaskState
  <2>4. p = "commit" => \A m \in task[t].names : r[m] # "none"
    BY <2>1 DEF TaskState, Outcome
  <2>5. p \in {"fetching", "commit"}
    OBVIOUS
  <2> HIDE DEF left, p, r
  <2>6. [task[t] EXCEPT !.result = r, !.phase = p] \in TaskState
    BY <2>1, <2>2 DEF TaskState
  <2> QED BY <2>1, <2>3, <2>4, <2>5, <2>6 DEF Moves, TaskState, TypeOK
<1>r. \A u \in Task, m \in Name : Refreshing(u, m)' <=> Refreshing(u, m)
  BY <1>g, <1>m DEF Moves, Refreshing
<1>1. TypeOK'
  BY <1>g, <1>m DEF Moves, TypeOK
<1>2. Swap'
  BY <1>g, <1>m DEF Moves, Swap, TypeOK, Gen
<1>3. Locked'
  BY <1>g, <1>m, SMTT(40) DEF Moves, Locked, TypeOK, TaskState, Caller, NoCaller, Reloader, Closer
<1>4. Durable'
  BY <1>g, <1>m DEF Moves, Durable, Locked, TypeOK, Gen, Caller, NoCaller, Reloader, Closer, Swap
<1>5. Held'
  <2> SUFFICES ASSUME NEW u \in Task PROVE HeldBy(u)'
    BY DEF Held
  <2>1. CASE u # t
    BY <1>g, <1>m, <2>1 DEF Moves, Held, HeldBy
  <2>2. CASE u = t
    BY <1>g, <1>m, <2>2 DEF Moves, Held, HeldBy
  <2> QED BY <2>1, <2>2
<1>6. Measured'
  BY <1>g, <1>m DEF Moves, Measured, Swap, Held, HeldBy, TypeOK, TaskState, Kind, Gen
<1>7. Guarded'
  BY <1>g, <1>r DEF Guarded
<1>8. LiveQuotaOnly'
  BY <1>g, <1>m DEF Moves, LiveQuotaOnly, Measured, Swap, Held, HeldBy, TypeOK, NoSnap, TaskState
<1>9. QuietAfterClose'
  BY <1>g, <1>m DEF Moves, QuietAfterClose, Launched, TypeOK, TaskState
<1> QED BY <1>1, <1>2, <1>3, <1>4, <1>5, <1>6, <1>7, <1>8, <1>9

LEMMA CommitKeeps ==
    ASSUME IInv, NEW t \in Task, Commit(t)
    PROVE  IInv'
<1> USE TrackerAssumption, CallerAssumption DEF IInv
<1>g. /\ task[t].phase = "commit"
      /\ UNCHANGED <<cfgGen, swapping, live, built, mgrGen, limited, syncErrs, inFlight,
                     recent, reload, closing, writer, pending, file, acked>>
  BY DEF Commit, tracker, disk
<1>a. task[t] \in TaskState
  BY DEF TypeOK
<1>b. ASSUME NEW p \in Phase, task' = [task EXCEPT ![t].applied = TRUE, ![t].phase = p]
      PROVE  Moves(t, p, task[t].kind, task[t].sync, task[t].gen, task[t].names)
  <2>2. task' = [task EXCEPT ![t] = [task[t] EXCEPT !.applied = TRUE, !.phase = p]]
    BY <1>a, <1>b DEF TypeOK, TaskState
  <2>3. [task[t] EXCEPT !.applied = TRUE, !.phase = p] \in TaskState
    BY <1>a DEF TaskState
  <2> QED BY <1>a, <2>2, <2>3 DEF Moves, TaskState, TypeOK
<1>m. \/ /\ Moves(t, "idle", "poll", FALSE, 0, {})
         /\ task[t].kind # "refresh"
         /\ quotas' = quotas
      \/ /\ task[t].kind = "refresh"
         /\ Moves(t, "finish", "refresh", task[t].sync, task[t].gen, task[t].names)
         /\ quotas' = quotas
      \/ /\ \E p \in {"clear", "persist"} :
              Moves(t, p, task[t].kind, task[t].sync, task[t].gen, task[t].names)
         /\ mgrGen = task[t].gen
         /\ \/ quotas' = [n \in Name |-> IF n \in task[t].names THEN Merged(t, n) ELSE quotas[n]]
            \/ \E n \in task[t].names : quotas' = [quotas EXCEPT ![n] = Merged(t, n)]
  <2>1. CASE task[t].kind = "poll"
    BY <2>1, GotoMoves, DoneMoves DEF Commit, MergeQuotas, TypeOK, Phase
  <2>2. CASE task[t].kind # "poll"
    <3> DEFINE n == CHOOSE m \in task[t].names : TRUE
    <3>1. n \in task[t].names
      <4>1. \E m \in Name : task[t].names = {m}
        BY <1>g, <2>2 DEF Held, HeldBy
      <4> QED BY <4>1
    <3>2. CASE /\ mgrGen = task[t].gen
               /\ quotas' = [quotas EXCEPT ![n] = Merged(t, n)]
               /\ task' = [task EXCEPT ![t].applied = TRUE,
                             ![t].phase = IF task[t].kind = "one" THEN "clear" ELSE "persist"]
      <4> DEFINE p == IF task[t].kind = "one" THEN "clear" ELSE "persist"
      <4>1. p \in Phase /\ p \in {"clear", "persist"}
        BY DEF Phase
      <4>2. Moves(t, p, task[t].kind, task[t].sync, task[t].gen, task[t].names)
        BY <1>b, <3>2, <4>1
      <4> QED BY <3>1, <3>2, <4>1, <4>2
    <3>3. CASE /\ quotas' = quotas
               /\ IF task[t].kind = "one" THEN Done(t) ELSE Goto(t, "finish")
      <4>1. CASE task[t].kind = "one"
        BY <3>3, <4>1, DoneMoves DEF TypeOK
      <4>2. CASE task[t].kind # "one"
        <5>1. task[t].kind = "refresh"
          BY <1>a, <2>2, <4>2 DEF TaskState, Kind
        <5> QED BY <3>3, <5>1, GotoMoves DEF TypeOK, Phase
      <4> QED BY <4>1, <4>2
    <3>4. CommitSnapshot(t)
      BY <2>2 DEF Commit
    <3> QED BY <3>2, <3>3, <3>4 DEF CommitSnapshot
  <2> QED BY <2>1, <2>2
<1>n. ASSUME NEW n \in task[t].names
      PROVE  Merged(t, n) \in Snap /\ Merged(t, n) # NoSnap
  <2>1. /\ task[t].result[n] # "none" /\ task[t].result[n] \in Outcome \cup {"none"}
        /\ task[t].src \in Gen /\ n \in Name
    BY <1>g, <1>a DEF Held, HeldBy, TaskState
  <2>2. quotas[n] \in Snap \cup {NoSnap}
    BY <2>1 DEF TypeOK
  <2> QED BY <2>1, <2>2 DEF Merged, Snap, NoSnap, Outcome
<1>q. /\ quotas' \in [Name -> Snap \cup {NoSnap}]
      /\ \A n \in Name : quotas'[n] # quotas[n] =>
           n \in task[t].names /\ mgrGen = task[t].gen
  <2>1. task[t].names \subseteq Name
    BY <1>a DEF TaskState
  <2>2. CASE quotas' = quotas
    BY <2>2 DEF TypeOK
  <2>3. CASE quotas' = [n \in Name |-> IF n \in task[t].names THEN Merged(t, n) ELSE quotas[n]]
             /\ mgrGen = task[t].gen
    BY <1>n, <2>1, <2>3 DEF TypeOK
  <2>4. CASE /\ \E n \in task[t].names : quotas' = [quotas EXCEPT ![n] = Merged(t, n)]
             /\ mgrGen = task[t].gen
    BY <1>n, <2>1, <2>4 DEF TypeOK
  <2> QED BY <1>m, <2>2, <2>3, <2>4
<1>r. \A u \in Task, n \in Name : Refreshing(u, n)' <=> Refreshing(u, n)
  BY <1>g, <1>m DEF Moves, Refreshing
<1>1. TypeOK'
  BY <1>g, <1>m, <1>q DEF Moves, TypeOK
<1>2. Swap'
  BY <1>g, <1>m, <1>q DEF Moves, Swap, TypeOK, Gen
<1>3. Locked'
  BY <1>g, <1>m, <1>q DEF Moves, Locked, TypeOK, TaskState, Caller, NoCaller, Reloader, Closer
<1>4. Durable'
  BY <1>g, <1>m, <1>q DEF Moves, Durable, Locked, TypeOK, Gen, Caller, NoCaller, Reloader, Closer, Swap
<1>5. Held'
  <2> SUFFICES ASSUME NEW u \in Task PROVE HeldBy(u)'
    BY DEF Held
  <2>1. CASE u # t
    BY <1>g, <1>m, <2>1 DEF Moves, Held, HeldBy
  <2>2. CASE u = t
    BY <1>g, <1>m, <2>2 DEF Moves, Held, HeldBy, Swap, TypeOK, Gen, TaskState, Kind
  <2> QED BY <2>1, <2>2
<1>6. Measured'
  BY <1>g, <1>m, <1>q DEF Moves, Measured, Swap, Held, HeldBy, TypeOK, TaskState, Kind, Gen
<1>7. Guarded'
  BY <1>g, <1>r DEF Guarded
<1>8. LiveQuotaOnly'
  BY <1>g, <1>m, <1>q DEF Moves, LiveQuotaOnly, Measured, Swap, Held, HeldBy, TypeOK, NoSnap, TaskState
<1>9. QuietAfterClose'
  BY <1>g, <1>m, <1>q DEF Moves, QuietAfterClose, Launched, TypeOK, TaskState
<1> QED BY <1>1, <1>2, <1>3, <1>4, <1>5, <1>6, <1>7, <1>8, <1>9

LEMMA ClearCooldownKeeps ==
    ASSUME IInv, NEW t \in Task, ClearCooldown(t)
    PROVE  IInv'
<1> USE TrackerAssumption, CallerAssumption DEF IInv
<1>g. /\ task[t].phase = "clear"
      /\ limited' \subseteq limited
      /\ UNCHANGED <<cfgGen, swapping, live, built, mgrGen, quotas, syncErrs, inFlight,
                     recent, reload, closing, writer, pending, file, acked>>
  BY DEF ClearCooldown, tracker, disk
<1>m. Moves(t, "persist", task[t].kind, task[t].sync, task[t].gen, task[t].names)
  BY GotoMoves DEF ClearCooldown, TypeOK, Phase
<1>r. \A u \in Task, n \in Name : Refreshing(u, n)' <=> Refreshing(u, n)
  BY <1>g, <1>m DEF Moves, Refreshing
<1>1. TypeOK'
  BY <1>g, <1>m DEF Moves, TypeOK
<1>2. Swap'
  BY <1>g, <1>m DEF Moves, Swap, TypeOK, Gen
<1>3. Locked'
  BY <1>g, <1>m DEF Moves, Locked, TypeOK, TaskState, Caller, NoCaller, Reloader, Closer
<1>4. Durable'
  BY <1>g, <1>m DEF Moves, Durable, Locked, TypeOK, Gen, Caller, NoCaller, Reloader, Closer, Swap
<1>5. Held'
  <2> SUFFICES ASSUME NEW u \in Task PROVE HeldBy(u)'
    BY DEF Held
  <2>1. CASE u # t
    BY <1>g, <1>m, <2>1 DEF Moves, Held, HeldBy
  <2>2. CASE u = t
    BY <1>g, <1>m, <2>2 DEF Moves, Held, HeldBy
  <2> QED BY <2>1, <2>2
<1>6. Measured'
  BY <1>g, <1>m DEF Moves, Measured, Swap, Held, HeldBy, TypeOK, TaskState, Kind, Gen
<1>7. Guarded'
  BY <1>g, <1>r DEF Guarded
<1>8. LiveQuotaOnly'
  BY <1>g, <1>m DEF Moves, LiveQuotaOnly, Measured, Swap, Held, HeldBy, TypeOK, NoSnap, TaskState
<1>9. QuietAfterClose'
  BY <1>g, <1>m DEF Moves, QuietAfterClose, Launched, TypeOK, TaskState
<1> QED BY <1>1, <1>2, <1>3, <1>4, <1>5, <1>6, <1>7, <1>8, <1>9

LEMMA TaskPersistKeeps ==
    ASSUME IInv, NEW t \in Task, TaskPersist(t)
    PROVE  IInv'
<1> USE TrackerAssumption, CallerAssumption DEF IInv
<1>g. /\ task[t].phase = "persist" /\ writer = NoCaller /\ writer' = t
      /\ ~swapping /\ pending' = [pending EXCEPT ![t] = mgrGen]
      /\ UNCHANGED <<cfgGen, swapping, live, built, mgrGen, quotas, limited, syncErrs,
                     inFlight, recent, reload, closing, file, acked>>
  BY DEF TaskPersist, PersistBegin, tracker
<1>m. Moves(t, "writing", task[t].kind, task[t].sync, task[t].gen, task[t].names)
  BY GotoMoves DEF TaskPersist, TypeOK, Phase
<1>r. \A u \in Task, n \in Name : Refreshing(u, n)' <=> Refreshing(u, n)
  BY <1>g, <1>m DEF Moves, Refreshing
<1>1. TypeOK'
  BY <1>g, <1>m DEF Moves, TypeOK, Gen, Caller
<1>2. Swap'
  BY <1>g, <1>m DEF Moves, Swap, TypeOK, Gen
<1>3. Locked'
  BY <1>g, <1>m DEF Moves, Locked, TypeOK, TaskState, Caller, NoCaller, Reloader, Closer
<1>4. Durable'
  BY <1>g, <1>m DEF Moves, Durable, Locked, TypeOK, Gen, Caller, NoCaller, Reloader, Closer, Swap
<1>5. Held'
  <2> SUFFICES ASSUME NEW u \in Task PROVE HeldBy(u)'
    BY DEF Held
  <2>1. CASE u # t
    BY <1>g, <1>m, <2>1 DEF Moves, Held, HeldBy
  <2>2. CASE u = t
    BY <1>g, <1>m, <2>2, SMTT(40) DEF Moves, Held, HeldBy, Swap, TypeOK, Gen, TaskState, Kind
  <2> QED BY <2>1, <2>2
<1>6. Measured'
  BY <1>g, <1>m DEF Moves, Measured, Swap, Held, HeldBy, TypeOK, TaskState, Kind, Gen
<1>7. Guarded'
  BY <1>g, <1>r DEF Guarded
<1>8. LiveQuotaOnly'
  BY <1>g, <1>m DEF Moves, LiveQuotaOnly, Measured, Swap, Held, HeldBy, TypeOK, NoSnap, TaskState
<1>9. QuietAfterClose'
  BY <1>g, <1>m DEF Moves, QuietAfterClose, Launched, TypeOK, TaskState
<1> QED BY <1>1, <1>2, <1>3, <1>4, <1>5, <1>6, <1>7, <1>8, <1>9

LEMMA TaskPersistedKeeps ==
    ASSUME IInv, NEW t \in Task, NEW ok \in BOOLEAN, TaskPersisted(t, ok)
    PROVE  IInv'
<1> USE TrackerAssumption, CallerAssumption DEF IInv
<1>g. /\ task[t].phase = "writing" /\ writer' = NoCaller
      /\ file' = IF ok THEN pending[t] ELSE file
      /\ pending' = [pending EXCEPT ![t] = 0]
      /\ UNCHANGED <<cfgGen, swapping, live, built, mgrGen, quotas, limited,
                     syncErrs, inFlight, recent, reload, closing, acked>>
  BY DEF TaskPersisted, PersistEnd, tracker
<1>m. \/ /\ task[t].kind = "refresh"
         /\ Moves(t, "finish", task[t].kind, task[t].sync, task[t].gen, task[t].names)
      \/ task[t].kind # "refresh" /\ Moves(t, "idle", "poll", FALSE, 0, {})
  BY DoneMoves, GotoMoves DEF TaskPersisted, TypeOK, Phase
<1>r. \A u \in Task, n \in Name : Refreshing(u, n)' <=> Refreshing(u, n)
  BY <1>g, <1>m DEF Moves, Refreshing
<1>1. TypeOK'
  BY <1>g, <1>m DEF Moves, TypeOK, Gen, Caller
<1>2. Swap'
  BY <1>g, <1>m DEF Moves, Swap, TypeOK, Gen
<1>3. Locked'
  BY <1>g, <1>m DEF Moves, Locked, TypeOK, TaskState, Caller, NoCaller, Reloader, Closer
<1>4. Durable'
  BY <1>g, <1>m DEF Moves, Durable, Locked, TypeOK, Gen, Caller, NoCaller, Reloader, Closer, Swap
<1>5. Held'
  <2> SUFFICES ASSUME NEW u \in Task PROVE HeldBy(u)'
    BY DEF Held
  <2>1. CASE u # t
    BY <1>g, <1>m, <2>1 DEF Moves, Held, HeldBy
  <2>2. CASE u = t
    BY <1>g, <1>m, <2>2, SMTT(40) DEF Moves, Held, HeldBy, Swap, TypeOK, Gen, TaskState, Kind
  <2> QED BY <2>1, <2>2
<1>6. Measured'
  BY <1>g, <1>m DEF Moves, Measured, Swap, Held, HeldBy, TypeOK, TaskState, Kind, Gen
<1>7. Guarded'
  BY <1>g, <1>r DEF Guarded
<1>8. LiveQuotaOnly'
  BY <1>g, <1>m DEF Moves, LiveQuotaOnly, Measured, Swap, Held, HeldBy, TypeOK, NoSnap, TaskState
<1>9. QuietAfterClose'
  BY <1>g, <1>m DEF Moves, QuietAfterClose, Launched, TypeOK, TaskState
<1> QED BY <1>1, <1>2, <1>3, <1>4, <1>5, <1>6, <1>7, <1>8, <1>9

LEMMA FinishRefreshKeeps ==
    ASSUME IInv, NEW t \in Task, FinishRefresh(t)
    PROVE  IInv'
<1> USE TrackerAssumption, CallerAssumption DEF IInv
<1>g. /\ task[t].phase = "finish"
      /\ inFlight' = inFlight \ task[t].names
      /\ recent' \subseteq recent \cup task[t].names
      /\ UNCHANGED <<cfgGen, swapping, live, built, mgrGen, quotas, limited, syncErrs,
                     reload, closing, writer, pending, file, acked>>
  BY DEF FinishRefresh, disk
<1>m. Moves(t, "idle", "poll", FALSE, 0, {})
  BY DoneMoves DEF FinishRefresh, TypeOK
<1>r. \A u \in Task, n \in Name : Refreshing(u, n)' <=> Refreshing(u, n) /\ u # t
  BY <1>g, <1>m DEF Moves, Refreshing
<1>s. \A n \in Name : n \in task[t].names <=> Refreshing(t, n)
  BY <1>g DEF Held, HeldBy, Refreshing
<1>1. TypeOK'
  BY <1>g, <1>m DEF Moves, TypeOK, TaskState
<1>2. Swap'
  BY <1>g, <1>m DEF Moves, Swap, TypeOK, Gen
<1>3. Locked'
  BY <1>g, <1>m DEF Moves, Locked, TypeOK, TaskState, Caller, NoCaller, Reloader, Closer
<1>4. Durable'
  BY <1>g, <1>m DEF Moves, Durable, Locked, TypeOK, Gen, Caller, NoCaller, Reloader, Closer, Swap
<1>5. Held'
  <2> SUFFICES ASSUME NEW u \in Task PROVE HeldBy(u)'
    BY DEF Held
  <2>1. CASE u # t
    BY <1>g, <1>m, <2>1 DEF Moves, Held, HeldBy
  <2>2. CASE u = t
    BY <1>g, <1>m, <2>2 DEF Moves, Held, HeldBy, Swap, TypeOK, Gen, TaskState, Kind
  <2> QED BY <2>1, <2>2
<1>6. Measured'
  BY <1>g, <1>m DEF Moves, Measured, Swap, Held, HeldBy, TypeOK, TaskState, Kind, Gen
<1>7. Guarded'
  BY <1>g, <1>r, <1>s DEF Guarded
<1>8. LiveQuotaOnly'
  BY <1>g, <1>m DEF Moves, LiveQuotaOnly, Measured, Swap, Held, HeldBy, TypeOK, NoSnap, TaskState
<1>9. QuietAfterClose'
  BY <1>g, <1>m DEF Moves, QuietAfterClose, Launched, TypeOK, TaskState
<1> QED BY <1>1, <1>2, <1>3, <1>4, <1>5, <1>6, <1>7, <1>8, <1>9

LEMMA ExpireKeeps ==
    ASSUME IInv, NEW n \in Name, Expire(n)
    PROVE  IInv'
<1> USE TrackerAssumption, CallerAssumption DEF IInv, Expire, disk
<1>1. TypeOK'
  BY DEF TypeOK, Gen, Snap, NoSnap, Outcome, TaskState, Phase, Kind, Caller, NoCaller, Swap, Held, HeldBy
<1>2. Swap'
  BY DEF Swap, TypeOK, Gen
<1>3. Locked'
  BY DEF Locked, TypeOK, TaskState, Caller, NoCaller, Reloader, Closer
<1>4. Durable'
  BY DEF Durable, Locked, TypeOK, Gen, Caller, NoCaller, Reloader, Closer, Swap
<1>5. Held'
  BY DEF Held, HeldBy, Swap, TypeOK, TaskState, Kind, Gen, Snap, Outcome
<1>6. Measured'
  BY DEF Measured, Swap, Held, HeldBy, TypeOK, TaskState, Kind, Gen
<1>7. Guarded'
  BY DEF Guarded, Refreshing, Held, HeldBy, TypeOK, TaskState, Kind
<1>8. LiveQuotaOnly'
  BY DEF LiveQuotaOnly, Measured, Swap, Held, HeldBy, TypeOK, NoSnap, TaskState
<1>9. QuietAfterClose'
  BY DEF QuietAfterClose, Launched, TypeOK, TaskState
<1> QED BY <1>1, <1>2, <1>3, <1>4, <1>5, <1>6, <1>7, <1>8, <1>9

LEMMA ReloadBuildKeeps ==
    ASSUME IInv, NEW new \in SUBSET Name, NEW from \in Name, NEW to \in Name, ReloadBuild(new, from, to)
    PROVE  IInv'
<1> USE TrackerAssumption, CallerAssumption DEF IInv, ReloadBuild, tracker, disk
<1>1. TypeOK'
  BY DEF TypeOK, Gen, Snap, NoSnap, Outcome, TaskState, Phase, Kind, Caller, NoCaller, Swap, Held, HeldBy
<1>2. Swap'
  BY DEF Swap, TypeOK, Gen
<1>3. Locked'
  BY DEF Locked, TypeOK, TaskState, Caller, NoCaller, Reloader, Closer
<1>4. Durable'
  BY DEF Durable, Locked, TypeOK, Gen, Caller, NoCaller, Reloader, Closer, Swap
<1>5. Held'
  BY DEF Held, HeldBy, Swap, TypeOK, TaskState, Kind, Gen, Snap, Outcome
<1>6. Measured'
  BY DEF Measured, Swap, Held, HeldBy, TypeOK, TaskState, Kind, Gen
<1>7. Guarded'
  BY DEF Guarded, Refreshing, Held, HeldBy, TypeOK, TaskState, Kind
<1>8. LiveQuotaOnly'
  BY DEF LiveQuotaOnly, Measured, Swap, Held, HeldBy, TypeOK, NoSnap, TaskState
<1>9. QuietAfterClose'
  BY DEF QuietAfterClose, Launched, TypeOK, TaskState
<1> QED BY <1>1, <1>2, <1>3, <1>4, <1>5, <1>6, <1>7, <1>8, <1>9

LEMMA ReloadLockKeeps ==
    ASSUME IInv, ReloadLock
    PROVE  IInv'
<1> USE TrackerAssumption, CallerAssumption DEF IInv, ReloadLock, tracker, disk
<1>1. TypeOK'
  BY DEF TypeOK, Gen, Snap, NoSnap, Outcome, TaskState, Phase, Kind, Caller, NoCaller, Swap, Held, HeldBy
<1>2. Swap'
  BY DEF Swap, TypeOK, Gen
<1>3. Locked'
  BY DEF Locked, TypeOK, TaskState, Caller, NoCaller, Reloader, Closer
<1>4. Durable'
  BY DEF Durable, Locked, TypeOK, Gen, Caller, NoCaller, Reloader, Closer, Swap
<1>5. Held'
  BY DEF Held, HeldBy, Swap, TypeOK, TaskState, Kind, Gen, Snap, Outcome
<1>6. Measured'
  BY DEF Measured, Swap, Held, HeldBy, TypeOK, TaskState, Kind, Gen
<1>7. Guarded'
  BY DEF Guarded, Refreshing, Held, HeldBy, TypeOK, TaskState, Kind
<1>8. LiveQuotaOnly'
  BY DEF LiveQuotaOnly, Measured, Swap, Held, HeldBy, TypeOK, NoSnap, TaskState
<1>9. QuietAfterClose'
  BY DEF QuietAfterClose, Launched, TypeOK, TaskState
<1> QED BY <1>1, <1>2, <1>3, <1>4, <1>5, <1>6, <1>7, <1>8, <1>9

LEMMA ReplaceGenerationKeeps ==
    ASSUME IInv, ReplaceGeneration
    PROVE  IInv'
<1> USE TrackerAssumption, CallerAssumption DEF IInv, ReplaceGeneration, tracker, disk
<1>1. TypeOK'
  BY DEF TypeOK, Gen, Snap, NoSnap, Outcome, TaskState, Phase, Kind, Caller, NoCaller, Swap, Held, HeldBy
<1>2. Swap'
  BY DEF Swap, TypeOK, Gen
<1>3. Locked'
  BY DEF Locked, TypeOK, TaskState, Caller, NoCaller, Reloader, Closer
<1>4. Durable'
  BY DEF Durable, Locked, TypeOK, Gen, Caller, NoCaller, Reloader, Closer, Swap
<1>5. Held'
  BY DEF Held, HeldBy, Swap, TypeOK, TaskState, Kind, Gen, Snap, Outcome
<1>6. Measured'
  BY DEF Measured, Swap, Held, HeldBy, TypeOK, TaskState, Kind, Gen
<1>7. Guarded'
  BY DEF Guarded, Refreshing, Held, HeldBy, TypeOK, TaskState, Kind
<1>8. LiveQuotaOnly'
  BY DEF LiveQuotaOnly, Measured, Swap, Held, HeldBy, TypeOK, NoSnap, TaskState
<1>9. QuietAfterClose'
  BY DEF QuietAfterClose, Launched, TypeOK, TaskState
<1> QED BY <1>1, <1>2, <1>3, <1>4, <1>5, <1>6, <1>7, <1>8, <1>9

LEMMA ReloadPersistKeeps ==
    ASSUME IInv, ReloadPersist
    PROVE  IInv'
<1> USE TrackerAssumption, CallerAssumption DEF IInv, ReloadPersist, PersistBegin, tracker
<1>1. TypeOK'
  BY DEF TypeOK, Gen, Snap, NoSnap, Outcome, TaskState, Phase, Kind, Caller, NoCaller, Swap, Held, HeldBy
<1>2. Swap'
  BY DEF Swap, TypeOK, Gen
<1>3. Locked'
  BY DEF Locked, TypeOK, TaskState, Caller, NoCaller, Reloader, Closer
<1>4. Durable'
  BY DEF Durable, Locked, TypeOK, Gen, Caller, NoCaller, Reloader, Closer, Swap
<1>5. Held'
  BY DEF Held, HeldBy, Swap, TypeOK, TaskState, Kind, Gen, Snap, Outcome
<1>6. Measured'
  BY DEF Measured, Swap, Held, HeldBy, TypeOK, TaskState, Kind, Gen
<1>7. Guarded'
  BY DEF Guarded, Refreshing, Held, HeldBy, TypeOK, TaskState, Kind
<1>8. LiveQuotaOnly'
  BY DEF LiveQuotaOnly, Measured, Swap, Held, HeldBy, TypeOK, NoSnap, TaskState
<1>9. QuietAfterClose'
  BY DEF QuietAfterClose, Launched, TypeOK, TaskState
<1> QED BY <1>1, <1>2, <1>3, <1>4, <1>5, <1>6, <1>7, <1>8, <1>9

LEMMA ReloadPersistedKeeps ==
    ASSUME IInv, NEW ok \in BOOLEAN, ReloadPersisted(ok)
    PROVE  IInv'
<1> USE TrackerAssumption, CallerAssumption DEF IInv, ReloadPersisted, PersistEnd, tracker
<1>1. TypeOK'
  BY DEF TypeOK, Gen, Snap, NoSnap, Outcome, TaskState, Phase, Kind, Caller, NoCaller, Swap, Held, HeldBy
<1>2. Swap'
  BY DEF Swap, TypeOK, Gen
<1>3. Locked'
  BY DEF Locked, TypeOK, TaskState, Caller, NoCaller, Reloader, Closer
<1>4. Durable'
  BY DEF Durable, Locked, TypeOK, Gen, Caller, NoCaller, Reloader, Closer, Swap
<1>5. Held'
  BY DEF Held, HeldBy, Swap, TypeOK, TaskState, Kind, Gen, Snap, Outcome
<1>6. Measured'
  BY DEF Measured, Swap, Held, HeldBy, TypeOK, TaskState, Kind, Gen
<1>7. Guarded'
  BY DEF Guarded, Refreshing, Held, HeldBy, TypeOK, TaskState, Kind
<1>8. LiveQuotaOnly'
  BY DEF LiveQuotaOnly, Measured, Swap, Held, HeldBy, TypeOK, NoSnap, TaskState
<1>9. QuietAfterClose'
  BY DEF QuietAfterClose, Launched, TypeOK, TaskState
<1> QED BY <1>1, <1>2, <1>3, <1>4, <1>5, <1>6, <1>7, <1>8, <1>9

LEMMA ReloadPollKeeps ==
    ASSUME IInv, NEW t \in Task, ReloadPoll(t)
    PROVE  IInv'
<1> USE TrackerAssumption, CallerAssumption DEF IInv
<1>g. /\ reload = "poll" /\ reload' = "idle"
      /\ task' # task => task[t].phase = "idle" /\ closing = "open"
      /\ UNCHANGED <<cfgGen, swapping, live, built, mgrGen, quotas, limited, syncErrs,
                     inFlight, recent, closing, writer, pending, file, acked>>
  BY DEF ReloadPoll, Stopped, tracker, disk
<1>m. task' = task \/ Moves(t, "launched", "poll", FALSE, cfgGen, {})
  BY DispatchMoves DEF ReloadPoll, TypeOK, Kind
<1>r. \A u \in Task, n \in Name : Refreshing(u, n)' <=> Refreshing(u, n)
  BY <1>g, <1>m DEF Moves, Refreshing
<1>1. TypeOK'
  BY <1>g, <1>m DEF Moves, TypeOK
<1>2. Swap'
  BY <1>g, <1>m DEF Moves, Swap, TypeOK, Gen
<1>3. Locked'
  BY <1>g, <1>m DEF Moves, Locked, TypeOK, TaskState, Caller, NoCaller, Reloader, Closer
<1>4. Durable'
  BY <1>g, <1>m DEF Moves, Durable, Locked, TypeOK, Gen, Caller, NoCaller, Reloader, Closer, Swap
<1>5. Held'
  <2> SUFFICES ASSUME NEW u \in Task PROVE HeldBy(u)'
    BY DEF Held
  <2>1. CASE u # t
    BY <1>g, <1>m, <2>1 DEF Moves, Held, HeldBy
  <2>2. CASE u = t
    BY <1>g, <1>m, <2>2 DEF Moves, Held, HeldBy, Swap, TypeOK, Gen, TaskState, Kind
  <2> QED BY <2>1, <2>2
<1>6. Measured'
  <2> SUFFICES ASSUME NEW u \in Task, task'[u].phase \in {"fetching", "commit"}
               PROVE  /\ task'[u].gen <= mgrGen'
                      /\ task'[u].gen = mgrGen' =>
                           task'[u].src = mgrGen' /\ task'[u].names \subseteq live'
    BY DEF Measured
  <2>1. task'[u] = task[u]
    BY <1>m DEF Moves
  <2> QED BY <1>g, <2>1 DEF Measured
<1>7. Guarded'
  BY <1>g, <1>r DEF Guarded
<1>8. LiveQuotaOnly'
  BY <1>g, <1>m DEF Moves, LiveQuotaOnly, Measured, Swap, Held, HeldBy, TypeOK, NoSnap, TaskState
<1>9. QuietAfterClose'
  BY <1>g, <1>m DEF Moves, QuietAfterClose, Launched, TypeOK, TaskState
<1> QED BY <1>1, <1>2, <1>3, <1>4, <1>5, <1>6, <1>7, <1>8, <1>9

LEMMA StopSignalKeeps ==
    ASSUME IInv, StopSignal
    PROVE  IInv'
<1> USE TrackerAssumption, CallerAssumption DEF IInv, StopSignal, tracker, disk
<1>1. TypeOK'
  BY DEF TypeOK, Gen, Snap, NoSnap, Outcome, TaskState, Phase, Kind, Caller, NoCaller, Swap, Held, HeldBy
<1>2. Swap'
  BY DEF Swap, TypeOK, Gen
<1>3. Locked'
  BY DEF Locked, TypeOK, TaskState, Caller, NoCaller, Reloader, Closer
<1>4. Durable'
  BY DEF Durable, Locked, TypeOK, Gen, Caller, NoCaller, Reloader, Closer, Swap
<1>5. Held'
  BY DEF Held, HeldBy, Swap, TypeOK, TaskState, Kind, Gen, Snap, Outcome
<1>6. Measured'
  BY DEF Measured, Swap, Held, HeldBy, TypeOK, TaskState, Kind, Gen
<1>7. Guarded'
  BY DEF Guarded, Refreshing, Held, HeldBy, TypeOK, TaskState, Kind
<1>8. LiveQuotaOnly'
  BY DEF LiveQuotaOnly, Measured, Swap, Held, HeldBy, TypeOK, NoSnap, TaskState
<1>9. QuietAfterClose'
  BY DEF QuietAfterClose, Launched, TypeOK, TaskState
<1> QED BY <1>1, <1>2, <1>3, <1>4, <1>5, <1>6, <1>7, <1>8, <1>9

LEMMA StopWaitKeeps ==
    ASSUME IInv, StopWait
    PROVE  IInv'
<1> USE TrackerAssumption, CallerAssumption DEF IInv, StopWait, tracker, disk
<1>1. TypeOK'
  BY DEF TypeOK, Gen, Snap, NoSnap, Outcome, TaskState, Phase, Kind, Caller, NoCaller, Swap, Held, HeldBy
<1>2. Swap'
  BY DEF Swap, TypeOK, Gen
<1>3. Locked'
  BY DEF Locked, TypeOK, TaskState, Caller, NoCaller, Reloader, Closer
<1>4. Durable'
  BY DEF Durable, Locked, TypeOK, Gen, Caller, NoCaller, Reloader, Closer, Swap
<1>5. Held'
  BY DEF Held, HeldBy, Swap, TypeOK, TaskState, Kind, Gen, Snap, Outcome
<1>6. Measured'
  BY DEF Measured, Swap, Held, HeldBy, TypeOK, TaskState, Kind, Gen
<1>7. Guarded'
  BY DEF Guarded, Refreshing, Held, HeldBy, TypeOK, TaskState, Kind
<1>8. LiveQuotaOnly'
  BY DEF LiveQuotaOnly, Measured, Swap, Held, HeldBy, TypeOK, NoSnap, TaskState
<1>9. QuietAfterClose'
  BY DEF QuietAfterClose, Launched, TypeOK, TaskState
<1> QED BY <1>1, <1>2, <1>3, <1>4, <1>5, <1>6, <1>7, <1>8, <1>9

LEMMA FinalPersistKeeps ==
    ASSUME IInv, FinalPersist
    PROVE  IInv'
<1> USE TrackerAssumption, CallerAssumption DEF IInv, FinalPersist, PersistBegin, tracker
<1>1. TypeOK'
  BY DEF TypeOK, Gen, Snap, NoSnap, Outcome, TaskState, Phase, Kind, Caller, NoCaller, Swap, Held, HeldBy
<1>2. Swap'
  BY DEF Swap, TypeOK, Gen
<1>3. Locked'
  BY DEF Locked, TypeOK, TaskState, Caller, NoCaller, Reloader, Closer
<1>4. Durable'
  BY DEF Durable, Locked, TypeOK, Gen, Caller, NoCaller, Reloader, Closer, Swap
<1>5. Held'
  BY DEF Held, HeldBy, Swap, TypeOK, TaskState, Kind, Gen, Snap, Outcome
<1>6. Measured'
  BY DEF Measured, Swap, Held, HeldBy, TypeOK, TaskState, Kind, Gen
<1>7. Guarded'
  BY DEF Guarded, Refreshing, Held, HeldBy, TypeOK, TaskState, Kind
<1>8. LiveQuotaOnly'
  BY DEF LiveQuotaOnly, Measured, Swap, Held, HeldBy, TypeOK, NoSnap, TaskState
<1>9. QuietAfterClose'
  BY DEF QuietAfterClose, Launched, TypeOK, TaskState
<1> QED BY <1>1, <1>2, <1>3, <1>4, <1>5, <1>6, <1>7, <1>8, <1>9

LEMMA FinalPersistedKeeps ==
    ASSUME IInv, NEW ok \in BOOLEAN, FinalPersisted(ok)
    PROVE  IInv'
<1> USE TrackerAssumption, CallerAssumption DEF IInv, FinalPersisted, PersistEnd, tracker
<1>1. TypeOK'
  BY DEF TypeOK, Gen, Snap, NoSnap, Outcome, TaskState, Phase, Kind, Caller, NoCaller, Swap, Held, HeldBy
<1>2. Swap'
  BY DEF Swap, TypeOK, Gen
<1>3. Locked'
  BY DEF Locked, TypeOK, TaskState, Caller, NoCaller, Reloader, Closer
<1>4. Durable'
  BY DEF Durable, Locked, TypeOK, Gen, Caller, NoCaller, Reloader, Closer, Swap
<1>5. Held'
  BY DEF Held, HeldBy, Swap, TypeOK, TaskState, Kind, Gen, Snap, Outcome
<1>6. Measured'
  BY DEF Measured, Swap, Held, HeldBy, TypeOK, TaskState, Kind, Gen
<1>7. Guarded'
  BY DEF Guarded, Refreshing, Held, HeldBy, TypeOK, TaskState, Kind
<1>8. LiveQuotaOnly'
  BY DEF LiveQuotaOnly, Measured, Swap, Held, HeldBy, TypeOK, NoSnap, TaskState
<1>9. QuietAfterClose'
  BY DEF QuietAfterClose, Launched, TypeOK, TaskState
<1> QED BY <1>1, <1>2, <1>3, <1>4, <1>5, <1>6, <1>7, <1>8, <1>9

-----------------------------------------------------------------------------
(* The invariant holds in every reachable state. *)

(* Every step keeps the invariant, the steps that change nothing included. *)
LEMMA NextKeeps == IInv /\ [Next]_vars => IInv'
<1> SUFFICES ASSUME IInv, [Next]_vars PROVE IInv'
  OBVIOUS
<1>1. CASE \E t \in Task, sync \in BOOLEAN : PollAll(t, sync)
  BY <1>1, PollAllKeeps
<1>2. CASE \E t \in Task, n \in Name : PollOne(t, n) \/ RateLimit(t, n)
  BY <1>2, PollOneKeeps, RateLimitKeeps
<1>3. ASSUME NEW t \in Task, TaskStep(t) PROVE IInv'
  BY <1>3, BeginKeeps, ProvsKeeps, FetchQuotaKeeps, CommitKeeps, ClearCooldownKeeps,
     TaskPersistKeeps, TaskPersistedKeeps, FinishRefreshKeeps DEF TaskStep
<1>4. CASE \E n \in Name : Expire(n)
  BY <1>4, ExpireKeeps
<1>5. CASE \E new \in SUBSET Name, from, to \in Name : ReloadBuild(new, from, to)
  BY <1>5, ReloadBuildKeeps
<1>6. CASE ReloadStep
  BY <1>6, ReloadLockKeeps, ReplaceGenerationKeeps, ReloadPersistKeeps,
     ReloadPersistedKeeps, ReloadPollKeeps DEF ReloadStep
<1>7. CASE StopSignal
  BY <1>7, StopSignalKeeps
<1>8. CASE CloseStep
  BY <1>8, StopWaitKeeps, FinalPersistKeeps, FinalPersistedKeeps DEF CloseStep
<1>9. CASE UNCHANGED vars
  <2> USE <1>9 DEF IInv, vars, tracker, disk
  <2>1. TypeOK' /\ Swap' /\ Durable'
    BY DEF TypeOK, Swap, Durable
  <2>2. Locked' /\ Held' /\ Measured'
    BY DEF Locked, Held, HeldBy, Measured
  <2>3. Guarded' /\ LiveQuotaOnly' /\ QuietAfterClose'
    BY DEF Guarded, Refreshing, LiveQuotaOnly, QuietAfterClose, Launched
  <2> QED BY <2>1, <2>2, <2>3
<1> QED BY <1>1, <1>2, <1>3, <1>4, <1>5, <1>6, <1>7, <1>8, <1>9 DEF Next

(* The inductive invariant holds in every state of every behaviour. *)
THEOREM Invariance == Spec => []IInv
<1> QED BY InitIInv, NextKeeps, PTL DEF Spec

(* Every variable keeps its type, whatever the polls, the refreshes, the   *)
(* reloads and the shutdown do.                                            *)
THEOREM TypeCorrect == Spec => []TypeOK
<1>1. IInv => TypeOK
  BY DEF IInv
<1> QED BY Invariance, <1>1, PTL

(* RefreshGuard admits one refresh of a key at a time and every exit of    *)
(* RefreshOne gives the guard back: the guard is exact.                    *)
THEOREM GuardIsExact == Spec => []RefreshGuardExact
<1>1. IInv => RefreshGuardExact
  <2> SUFFICES ASSUME IInv, NEW n \in Name
               PROVE  Cardinality({t \in Task : Refreshing(t, n)})
                        = IF n \in inFlight THEN 1 ELSE 0
    BY DEF RefreshGuardExact
  <2>1. CASE n \in inFlight
    <3>1. PICK t \in Task : Refreshing(t, n)
      BY <2>1 DEF IInv, Guarded
    <3>2. {u \in Task : Refreshing(u, n)} = {t}
      BY <3>1 DEF IInv, Guarded
    <3> QED BY <2>1, <3>2, FS_Singleton
  <2>2. CASE n \notin inFlight
    <3>1. {u \in Task : Refreshing(u, n)} = {}
      BY <2>2 DEF IInv, Guarded
    <3> QED BY <2>2, <3>1, FS_EmptySet
  <2> QED BY <2>1, <2>2
<1> QED BY Invariance, <1>1, PTL

(* The state file never falls behind the last reload that was reported     *)
(* durable, however the persists of polls, refreshes, reloads and the      *)
(* shutdown interleave.                                                    *)
THEOREM ReloadIsDurable == Spec => []DurableReload
<1>1. IInv => DurableReload
  BY DEF IInv, Durable, DurableReload
<1> QED BY Invariance, <1>1, PTL

(* No snapshot outlives its provider. *)
THEOREM QuotasAreLive == Spec => []LiveQuotaOnly
<1>1. IInv => LiveQuotaOnly
  BY DEF IInv
<1> QED BY Invariance, <1>1, PTL

(* Nothing that Launch admitted runs once Stop has waited. *)
THEOREM CloseIsQuiet == Spec => []QuietAfterClose
<1>1. IInv => QuietAfterClose
  BY DEF IInv
<1> QED BY Invariance, <1>1, PTL

(* A commit stores a measurement of the generation it commits into, or     *)
(* keeps what was there.                                                   *)
LEMMA CommitMeasured ==
    ASSUME IInv, NEW t \in Task, Commit(t), NEW n \in Name,
           quotas'[n] # quotas[n], quotas'[n] # NoSnap
    PROVE  quotas'[n].src = mgrGen
<1>1. quotas \in [Name -> Snap \cup {NoSnap}] /\ task[t] \in TaskState
  BY DEF IInv, TypeOK
<1>2. mgrGen = task[t].gen /\ quotas'[n] = Merged(t, n)
  BY <1>1 DEF Commit, MergeQuotas, CommitSnapshot
<1>3. Merged(t, n) = [out |-> task[t].result[n], src |-> task[t].src]
  BY <1>2 DEF Merged
<1>4. task[t].src = mgrGen
  BY <1>2 DEF IInv, Measured, Commit
<1> QED BY <1>2, <1>3, <1>4

(* A poll or a refresh that straddles a reload commits nothing.            *)
THEOREM CommitsAreCurrent == Spec => MeasuredByThisGeneration
<1> DEFINE Current ==
      \A n \in Name :
         /\ quotas'[n] # quotas[n]
         /\ quotas'[n] # NoSnap
         /\ reload' = reload
         => quotas'[n].src = mgrGen
<1>1. IInv /\ [Next]_vars => [Current]_vars
  <2> SUFFICES ASSUME IInv, Next PROVE Current
    OBVIOUS
  <2>1. ASSUME NEW t \in Task, TaskStep(t) PROVE Current
    <3>1. CASE Commit(t)
      BY <3>1, CommitMeasured
    <3>2. CASE ~Commit(t)
      <4>1. quotas' = quotas
        BY <2>1, <3>2 DEF TaskStep, Begin, Provs, FetchQuota, ClearCooldown,
                          TaskPersist, TaskPersisted, FinishRefresh
      <4> QED BY <4>1
    <3> QED BY <3>1, <3>2
  <2>2. ASSUME NEW new \in SUBSET Name, NEW from \in Name, NEW to \in Name,
               ReloadBuild(new, from, to)
        PROVE  Current
    <3>1. reload' # reload
      BY <2>2 DEF ReloadBuild
    <3> QED BY <3>1
  <2>3. CASE ReloadStep
    <3>1. CASE ReplaceGeneration
      <4>1. reload' # reload
        BY <3>1 DEF ReplaceGeneration
      <4> QED BY <4>1
    <3>2. CASE ~ReplaceGeneration
      <4>1. quotas' = quotas
        BY <2>3, <3>2 DEF ReloadStep, ReloadLock, ReloadPersist, ReloadPersisted,
                          ReloadPoll
      <4> QED BY <4>1
    <3> QED BY <3>1, <3>2
  <2>4. ASSUME quotas' = quotas PROVE Current
    BY <2>4
  <2>5. CASE \/ \E t \in Task, sync \in BOOLEAN : PollAll(t, sync)
             \/ \E t \in Task, n \in Name : PollOne(t, n) \/ RateLimit(t, n)
             \/ \E n \in Name : Expire(n)
             \/ StopSignal
             \/ CloseStep
    <3>1. quotas' = quotas
      BY <2>5 DEF PollAll, PollOne, RateLimit, Expire, StopSignal, CloseStep,
                  StopWait, FinalPersist, FinalPersisted
    <3> QED BY <3>1, <2>4
  <2> HIDE DEF Current
  <2> QED BY <2>1, <2>2, <2>3, <2>5 DEF Next
<1>2. Spec => [][Current]_vars
  BY Invariance, <1>1, PTL DEF Spec
<1> QED BY <1>2 DEF MeasuredByThisGeneration
=============================================================================
