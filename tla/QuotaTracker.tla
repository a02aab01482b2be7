---------------------------- MODULE QuotaTracker ----------------------------
(***************************************************************************)
(* The quota tracker of internal/runtime: background and operator-driven   *)
(* polls of the providers' usage endpoints, their commits into the shared  *)
(* Manager, the clearing of 429 cooldowns, the refreshes a 429 triggers,   *)
(* the state file, config reloads and shutdown.                            *)
(*                                                                         *)
(* A poll spends its life outside every lock, so a reload, a 429, another  *)
(* poll or the shutdown may fall between any two of its steps.  Two        *)
(* counters carry the generation: Proxy.configGeneration, which a reload   *)
(* bumps first, and Manager.generation, which gates the commits.           *)
(*                                                                         *)
(* A snapshot is reduced to what decides: an error, proof of budget left   *)
(* (quotaProvesBudgetAvailable), or neither; and, for the properties, the  *)
(* generation whose provider object measured it.  The freshness window     *)
(* (three poll intervals) is taken to outlast a fetch.                     *)
(***************************************************************************)
EXTENDS Integers, FiniteSets

CONSTANTS
    Name,      \* the quota keys looked at: provider names, pooled name#id keys
    Task,      \* bound on the number of polls and refreshes at one time
    MaxGen,    \* bound on the number of config generations explored
    Traffic    \* bound: which entry points are explored, a subset of Kind

VARIABLES
    cfgGen,    \* Proxy.configGeneration
    swapping,  \* Proxy.mu is write-locked by a reload
    live,      \* the keys of Proxy.providers
    built,     \* the keys a reload has built and not yet swapped in
    mgrGen,    \* Manager.generation
    quotas,    \* Manager.quotas
    limited,   \* the providers whose rateLimitedUntil is in the future
    syncErrs,  \* QuotaTracker.syncErrs (its keys)
    inFlight,  \* RefreshGuard: the keys whose inFlight is set
    recent,    \* RefreshGuard: the keys whose last is within half a poll
    task,      \* what each poll or refresh is doing
    reload,    \* where Proxy.Reload stands
    closing,   \* where closeRuntimeServices stands in stopping the tracker
    writer,    \* who holds persistMu
    pending,   \* the generation of the state each caller is about to write
    file,      \* the generation of the state in quota_state.json
    acked      \* the last generation whose reload reported a durable state

tracker == <<syncErrs, inFlight, recent>>
disk    == <<writer, pending, file>>
vars == <<cfgGen, swapping, live, built, mgrGen, quotas, limited, tracker, task,
          reload, closing, disk, acked>>

-----------------------------------------------------------------------------
(* The state. *)

Gen == 0..MaxGen
Outcome == {"budget", "nobudget", "err"}

NoSnap == [out |-> "none", src |-> 0]
Snap == [out : Outcome, src : Gen]

Kind == {"poll", "one", "refresh"}

ASSUME TrackerAssumption == MaxGen \in Nat \ {0} /\ Traffic \subseteq Kind

Phase == {"idle", "launched", "admitted", "fetching", "commit", "clear",
          "persist", "writing", "finish"}

(* sync marks a call made on a request's own goroutine (PollOne, and the   *)
(* operator's PollAll), which Launch never counted.  names is the set of   *)
(* keys to fetch, src the generation of the provider objects used, late    *)
(* the keys that answered a 429 after this task measured them.             *)
TaskState ==
    [phase : Phase, kind : Kind, sync : BOOLEAN, gen : Gen, src : Gen,
     names : SUBSET Name, result : [Name -> Outcome \cup {"none"}],
     applied : BOOLEAN, late : SUBSET Name]

IdleTask ==
    [phase |-> "idle", kind |-> "poll", sync |-> FALSE, gen |-> 0, src |-> 0,
     names |-> {}, result |-> [n \in Name |-> "none"], applied |-> FALSE,
     late |-> {}]

NoCaller == "none"
Reloader == "reload"
Closer   == "close"
Caller == Task \cup {Reloader, Closer}

ASSUME CallerAssumption == {NoCaller, Reloader, Closer} \cap Task = {}

TypeOK ==
    /\ cfgGen \in Gen /\ mgrGen \in Gen /\ file \in Gen /\ acked \in Gen
    /\ swapping \in BOOLEAN
    /\ live \subseteq Name /\ built \subseteq Name
    /\ quotas \in [Name -> Snap \cup {NoSnap}]
    /\ limited \subseteq Name /\ syncErrs \subseteq Name
    /\ inFlight \subseteq Name /\ recent \subseteq Name
    /\ task \in [Task -> TaskState]
    /\ reload \in {"idle", "built", "locked", "persist", "writing", "poll"}
    /\ closing \in {"open", "stopping", "final", "writing", "closed"}
    /\ writer \in Caller \cup {NoCaller}
    /\ pending \in [Caller -> Gen]

-----------------------------------------------------------------------------
(* Persist: one writer at a time snapshots the state and renames it over   *)
(* the file.  The snapshot read-locks Proxy.mu, so it waits out a swap.    *)

Stopped == closing # "open"

(* Fault: the state is snapshotted before persistMu is taken. *)
PersistBegin_Unlocked(c) ==
    /\ ~swapping
    /\ pending' = [pending EXCEPT ![c] = mgrGen]
    /\ UNCHANGED <<writer, file>>

PersistBegin(c) ==
    /\ writer = NoCaller
    /\ ~swapping
    /\ writer' = c
    /\ pending' = [pending EXCEPT ![c] = mgrGen]
    /\ UNCHANGED file

(* Fault: an early return leaves persistMu locked. *)
PersistEnd_KeepsLock(c, ok) ==
    /\ file' = IF ok THEN pending[c] ELSE file
    /\ pending' = [pending EXCEPT ![c] = 0]
    /\ writer' = IF ok THEN NoCaller ELSE writer

(* Any of the write, the sync and the rename may fail; the file then       *)
(* keeps its old content.                                                  *)
PersistEnd(c, ok) ==
    /\ file' = IF ok THEN pending[c] ELSE file
    /\ pending' = [pending EXCEPT ![c] = 0]
    /\ writer' = NoCaller

-----------------------------------------------------------------------------
(* Polls and refreshes. *)

Goto(t, phase) == task' = [task EXCEPT ![t].phase = phase]
Done(t) == task' = [task EXCEPT ![t] = IdleTask]

(* The generation a task will commit under is read first.  A launched task *)
(* is admitted only while the tracker accepts work (Launch).               *)
Dispatch(t, kind, sync, gen, names) ==
    task' = [task EXCEPT ![t] =
               [IdleTask EXCEPT !.phase = "launched", !.kind = kind,
                  !.sync = sync, !.gen = gen, !.names = names]]

(* The ticker and the bootstrap timer, whose goroutine may pick a tick     *)
(* over the stop signal, and the operator's "poll all".                    *)
PollAll(t, sync) ==
    /\ "poll" \in Traffic
    /\ task[t].phase = "idle"
    /\ sync \/ closing \in {"open", "stopping"}
    /\ Dispatch(t, "poll", sync, cfgGen, {})
    /\ UNCHANGED <<cfgGen, swapping, live, built, mgrGen, quotas, limited, tracker,
                   reload, closing, disk, acked>>

PollOne(t, n) ==
    /\ "one" \in Traffic
    /\ task[t].phase = "idle"
    /\ Dispatch(t, "one", TRUE, cfgGen, {n})
    /\ UNCHANGED <<cfgGen, swapping, live, built, mgrGen, quotas, limited, tracker,
                   reload, closing, disk, acked>>

(* A request of the current generation met a 429: recordRateLimit, then    *)
(* RefreshAsync under the request's generation.                            *)
RateLimit(t, n) ==
    LET marked == [u \in Task |-> IF task[u].result[n] = "budget"
                                  THEN [task[u] EXCEPT !.late = @ \cup {n}]
                                  ELSE task[u]]
    IN
    /\ "refresh" \in Traffic
    /\ n \in live
    /\ task[t].phase = "idle"
    /\ limited' = limited \cup {n}
    /\ task' = IF Stopped THEN marked
               ELSE [marked EXCEPT ![t] =
                       [IdleTask EXCEPT !.phase = "launched",
                          !.kind = "refresh", !.gen = mgrGen, !.names = {n}]]
    /\ UNCHANGED <<cfgGen, swapping, live, built, mgrGen, quotas, tracker, reload,
                   closing, disk, acked>>

(* Fault: a refresh ignores the one in flight. *)
Begin_NoGuard(t) ==
    LET a == task[t] IN
    /\ a.phase = "launched"
    /\ inFlight' = IF a.kind = "refresh" THEN inFlight \cup a.names ELSE inFlight
    /\ Goto(t, "admitted")
    /\ UNCHANGED <<cfgGen, swapping, live, built, mgrGen, quotas, limited, syncErrs,
                   recent, reload, closing, disk, acked>>

(* The task starts.  A launched one returns if stop was signalled; only    *)
(* the ticker's own poll does not look.  A refresh returns if its          *)
(* generation is gone, or if a refresh of the key is in flight or ran just *)
(* now; otherwise it takes the guard.                                      *)
Begin(t) ==
    LET a == task[t]
        stop    == ~a.sync /\ Stopped
        dropped == /\ a.kind = "refresh"
                   /\ \/ cfgGen # a.gen
                      \/ a.names \cap (inFlight \cup recent) # {}
    IN
    /\ a.phase = "launched"
    /\ \/ /\ stop \/ dropped
          /\ Done(t) /\ UNCHANGED inFlight
       \/ /\ stop => a.kind = "poll"
          /\ ~dropped
          /\ Goto(t, "admitted")
          /\ inFlight' = IF a.kind = "refresh"
                         THEN inFlight \cup a.names ELSE inFlight
    /\ UNCHANGED <<cfgGen, swapping, live, built, mgrGen, quotas, limited, syncErrs,
                   recent, reload, closing, disk, acked>>

(* provs(): read-locks Proxy.mu, hence not during a swap.  A key that is   *)
(* not a live provider ends a PollOne or a refresh.                        *)
Provs(t) ==
    LET a == task[t]
        names == IF a.kind = "poll" THEN live ELSE a.names \cap live
        next == IF names # {} THEN "fetching"
                ELSE IF a.kind = "poll" THEN "commit"
                ELSE IF a.kind = "one" THEN "idle" ELSE "finish"
    IN
    /\ a.phase = "admitted"
    /\ ~swapping
    /\ IF next = "idle" THEN Done(t)
       ELSE task' = [task EXCEPT ![t].phase = next, ![t].src = cfgGen,
                       ![t].names = IF next = "finish" THEN @ ELSE names]
    /\ UNCHANGED <<cfgGen, swapping, live, built, mgrGen, quotas, limited, tracker,
                   reload, closing, disk, acked>>

(* FetchQuota for one key, its retries included, and recordSyncOutcome. *)
FetchQuota(t, n, out) ==
    LET a == task[t]
        left == {m \in a.names : a.result[m] = "none"}
    IN
    /\ a.phase = "fetching"
    /\ n \in left
    /\ task' = [task EXCEPT ![t].result[n] = out,
                            ![t].phase = IF left = {n} THEN "commit" ELSE @]
    /\ syncErrs' = IF out = "err" THEN syncErrs \cup {n} ELSE syncErrs \ {n}
    /\ UNCHANGED <<cfgGen, swapping, live, built, mgrGen, quotas, limited, inFlight,
                   recent, reload, closing, disk, acked>>

(* quotaSyncFailedKeepsExisting *)
Merged(t, n) ==
    IF task[t].result[n] = "err" /\ quotas[n] # NoSnap
    THEN quotas[n]
    ELSE [out |-> task[t].result[n], src |-> task[t].src]

(* Fault: the commit is not gated by the generation. *)
MergeQuotas_Ungated(t) ==
    LET a == task[t] IN
    /\ quotas' = [n \in Name |-> IF n \in a.names THEN Merged(t, n) ELSE quotas[n]]
    /\ Goto(t, "clear")

(* MergeQuotas: rejected when a reload came in between. *)
MergeQuotas(t) ==
    LET a == task[t] IN
    IF mgrGen = a.gen
    THEN /\ quotas' = [n \in Name |-> IF n \in a.names THEN Merged(t, n)
                                      ELSE quotas[n]]
         /\ Goto(t, "clear")
    ELSE UNCHANGED quotas /\ Done(t)

(* Fault: the snapshot is committed whatever the generation. *)
CommitSnapshot_Ungated(t) ==
    LET n == CHOOSE m \in task[t].names : TRUE IN
    /\ quotas' = [quotas EXCEPT ![n] = Merged(t, n)]
    /\ task' = [task EXCEPT ![t].applied = TRUE, ![t].phase = "persist"]

(* commitSnapshot: applied, kept (a failed sync with a snapshot to keep)   *)
(* or rejected.  The two generation counters are read one after the other; *)
(* a swap that starts in between may be seen by either read.               *)
CommitSnapshot(t) ==
    LET a == task[t]
        n == CHOOSE m \in a.names : TRUE
        kept == a.result[n] = "err" /\ quotas[n] # NoSnap
    IN
    \/ /\ mgrGen = a.gen
       /\ ~kept
       /\ quotas' = [quotas EXCEPT ![n] = Merged(t, n)]
       /\ task' = [task EXCEPT ![t].applied = TRUE,
                     ![t].phase = IF a.kind = "one" THEN "clear" ELSE "persist"]
    \/ /\ cfgGen # a.gen \/ kept
       /\ UNCHANGED quotas
       /\ IF a.kind = "one" THEN Done(t) ELSE Goto(t, "finish")

Commit(t) ==
    /\ task[t].phase = "commit"
    /\ IF task[t].kind = "poll" THEN MergeQuotas(t) ELSE CommitSnapshot(t)
    /\ UNCHANGED <<cfgGen, swapping, live, built, mgrGen, limited, tracker, reload,
                   closing, disk, acked>>

(* QuotaRecoveredClearCooldown, for the keys whose sync succeeded and      *)
(* whose stored snapshot proves budget.                                    *)
Recovered(t) ==
    {n \in task[t].names : /\ task[t].result[n] # "err"
                           /\ quotas[n].out = "budget"}

ClearCooldown(t) ==
    /\ task[t].phase = "clear"
    /\ limited' = IF mgrGen = task[t].gen THEN limited \ Recovered(t) ELSE limited
    /\ Goto(t, "persist")
    /\ UNCHANGED <<cfgGen, swapping, live, built, mgrGen, quotas, tracker, reload,
                   closing, disk, acked>>

TaskPersist(t) ==
    /\ task[t].phase = "persist"
    /\ PersistBegin(t)
    /\ Goto(t, "writing")
    /\ UNCHANGED <<cfgGen, swapping, live, built, mgrGen, quotas, limited, tracker,
                   reload, closing, acked>>

TaskPersisted(t, ok) ==
    /\ task[t].phase = "writing"
    /\ PersistEnd(t, ok)
    /\ IF task[t].kind = "refresh" THEN Goto(t, "finish") ELSE Done(t)
    /\ UNCHANGED <<cfgGen, swapping, live, built, mgrGen, quotas, limited, tracker,
                   reload, closing, acked>>

(* The guard is given back; a refresh that committed starts the debounce. *)
FinishRefresh(t) ==
    LET a == task[t] IN
    /\ a.phase = "finish"
    /\ inFlight' = inFlight \ a.names
    /\ recent' = IF a.applied THEN recent \cup a.names ELSE recent
    /\ Done(t)
    /\ UNCHANGED <<cfgGen, swapping, live, built, mgrGen, quotas, limited, syncErrs,
                   reload, closing, disk, acked>>

(* Half a poll interval, or a 429 horizon, runs out. *)
Expire(n) ==
    /\ n \in recent \cup limited
    /\ \/ recent' = recent \ {n} /\ UNCHANGED limited
       \/ limited' = limited \ {n} /\ UNCHANGED recent
    /\ UNCHANGED <<cfgGen, swapping, live, built, mgrGen, quotas, syncErrs, inFlight,
                   task, reload, closing, disk, acked>>

-----------------------------------------------------------------------------
(* Proxy.Reload. *)

(* The config is loaded and its providers built; RenameQuotaKeys: one that *)
(* turned into a pool (the bare key from gone, the pooled key to new)      *)
(* takes its snapshot along, unless the new key already has one.  from =   *)
(* to stands for no rename.  A config that does not load, or whose guard   *)
(* patterns do not compile, is refused by the load and changes nothing.    *)
ReloadBuild(new, from, to) ==
    LET moved == [quotas EXCEPT ![from] = NoSnap,
                                ![to] = IF @ = NoSnap THEN quotas[from] ELSE @]
    IN
    /\ reload = "idle"
    /\ cfgGen < MaxGen
    /\ closing = "open"
    /\ from = to \/ (from \notin new /\ to \in new)
    /\ quotas' = IF from # to /\ quotas[from] # NoSnap THEN moved ELSE quotas
    /\ built' = new
    /\ reload' = "built"
    /\ UNCHANGED <<cfgGen, swapping, live, mgrGen, limited, tracker, task,
                   closing, disk, acked>>

(* The write lock is taken and configGeneration bumped. *)
ReloadLock ==
    /\ reload = "built"
    /\ swapping' = TRUE
    /\ cfgGen' = cfgGen + 1
    /\ reload' = "locked"
    /\ UNCHANGED <<live, built, mgrGen, quotas, limited, tracker, task, closing,
                   disk, acked>>

(* The providers are swapped and Manager.ReplaceGeneration drops health    *)
(* and prunes quotas to the new keys, before the lock is released.         *)
ReplaceGeneration ==
    /\ reload = "locked"
    /\ swapping' = FALSE
    /\ mgrGen' = cfgGen
    /\ live' = built
    /\ built' = {}
    /\ quotas' = [n \in Name |-> IF n \in built THEN quotas[n] ELSE NoSnap]
    /\ limited' = {}
    /\ reload' = "persist"
    /\ UNCHANGED <<cfgGen, tracker, task, closing, disk, acked>>

ReloadPersist ==
    /\ reload = "persist"
    /\ PersistBegin(Reloader)
    /\ reload' = "writing"
    /\ UNCHANGED <<cfgGen, swapping, live, built, mgrGen, quotas, limited, tracker,
                   task, closing, acked>>

(* A failed persist turns the reload's result into ReloadAppliedWarning. *)
ReloadPersisted(ok) ==
    /\ reload = "writing"
    /\ PersistEnd(Reloader, ok)
    /\ acked' = IF ok THEN mgrGen ELSE acked
    /\ reload' = "poll"
    /\ UNCHANGED <<cfgGen, swapping, live, built, mgrGen, quotas, limited, tracker,
                   task, closing>>

(* PollAsync; refused once the tracker stops accepting. *)
ReloadPoll(t) ==
    /\ reload = "poll"
    /\ \/ Stopped /\ UNCHANGED task
       \/ /\ ~Stopped
          /\ task[t].phase = "idle"
          /\ Dispatch(t, "poll", FALSE, cfgGen, {})
    /\ reload' = "idle"
    /\ UNCHANGED <<cfgGen, swapping, live, built, mgrGen, quotas, limited, tracker,
                   closing, disk, acked>>

-----------------------------------------------------------------------------
(* closeRuntimeServices: Stop, then one last Persist. *)

Launched(t) == task[t].phase # "idle" /\ ~task[t].sync

StopSignal ==
    /\ closing = "open"
    /\ closing' = "stopping"
    /\ UNCHANGED <<cfgGen, swapping, live, built, mgrGen, quotas, limited, tracker,
                   task, reload, disk, acked>>

(* Fault: Stop does not wait. *)
StopWait_NoWait ==
    /\ closing = "stopping"
    /\ closing' = "final"
    /\ UNCHANGED <<cfgGen, swapping, live, built, mgrGen, quotas, limited, tracker,
                   task, reload, disk, acked>>

(* poller.Wait *)
StopWait ==
    /\ closing = "stopping"
    /\ \A t \in Task : ~Launched(t)
    /\ closing' = "final"
    /\ UNCHANGED <<cfgGen, swapping, live, built, mgrGen, quotas, limited, tracker,
                   task, reload, disk, acked>>

FinalPersist ==
    /\ closing = "final"
    /\ PersistBegin(Closer)
    /\ closing' = "writing"
    /\ UNCHANGED <<cfgGen, swapping, live, built, mgrGen, quotas, limited, tracker,
                   task, reload, acked>>

FinalPersisted(ok) ==
    /\ closing = "writing"
    /\ PersistEnd(Closer, ok)
    /\ closing' = "closed"
    /\ UNCHANGED <<cfgGen, swapping, live, built, mgrGen, quotas, limited, tracker,
                   task, reload, acked>>

-----------------------------------------------------------------------------

(* A process starts with the snapshots Load kept: those of live keys. *)
Init ==
    /\ cfgGen = 1 /\ mgrGen = 1 /\ file = 0 /\ acked = 0
    /\ swapping = FALSE /\ built = {}
    /\ live \in SUBSET Name
    /\ quotas \in [Name -> {NoSnap, [out |-> "nobudget", src |-> 0]}]
    /\ \A n \in Name \ live : quotas[n] = NoSnap
    /\ limited = {} /\ syncErrs = {} /\ inFlight = {} /\ recent = {}
    /\ task = [t \in Task |-> IdleTask]
    /\ reload = "idle" /\ closing = "open"
    /\ writer = NoCaller /\ pending = [c \in Caller |-> 0]

TaskStep(t) ==
    \/ Begin(t)
    \/ Provs(t)
    \/ \E n \in Name, out \in Outcome : FetchQuota(t, n, out)
    \/ Commit(t)
    \/ ClearCooldown(t)
    \/ TaskPersist(t)
    \/ \E ok \in BOOLEAN : TaskPersisted(t, ok)
    \/ FinishRefresh(t)

ReloadStep ==
    \/ ReloadLock
    \/ ReplaceGeneration
    \/ ReloadPersist
    \/ \E ok \in BOOLEAN : ReloadPersisted(ok)
    \/ \E t \in Task : ReloadPoll(t)

CloseStep ==
    \/ StopWait
    \/ FinalPersist
    \/ \E ok \in BOOLEAN : FinalPersisted(ok)

Next ==
    \/ \E t \in Task, sync \in BOOLEAN : PollAll(t, sync)
    \/ \E t \in Task, n \in Name : PollOne(t, n) \/ RateLimit(t, n)
    \/ \E t \in Task : TaskStep(t)
    \/ \E n \in Name : Expire(n)
    \/ \E new \in SUBSET Name, from, to \in Name :
         ReloadBuild(new, from, to)
    \/ ReloadStep
    \/ StopSignal
    \/ CloseStep

Spec == Init /\ [][Next]_vars

(* Every goroutine of the tracker is scheduled, every upstream call is     *)
(* bounded by its client's timeout, and persistMu, held for one write at a *)
(* time, is a Go mutex, which hands itself to a starving waiter.  The      *)
(* ticker's select picks at random among the tick and the stop signal, so  *)
(* that it does not pass the stop signal over for ever.                    *)
Fairness ==
    /\ \A t \in Task : WF_vars(TaskStep(t)) /\ SF_vars(TaskPersist(t))
    /\ WF_vars(ReloadStep) /\ SF_vars(ReloadPersist)
    /\ WF_vars(CloseStep) /\ SF_vars(StopWait) /\ SF_vars(FinalPersist)

FairSpec == Spec /\ Fairness

-----------------------------------------------------------------------------
(* Properties. *)

(* A snapshot is only ever committed into the generation whose provider    *)
(* object measured it: a poll that straddles a reload, with the old        *)
(* account's numbers in hand, commits nothing (MergeQuotas, CommitQuota).  *)
MeasuredByThisGeneration ==
    [][\A n \in Name :
         /\ quotas'[n] # quotas[n]
         /\ quotas'[n] # NoSnap
         /\ reload' = reload
         => quotas'[n].src = mgrGen]_vars

(* No snapshot outlives its provider: neither the swap nor a poll or a     *)
(* refresh that ends after it leaves an entry for a key the running config *)
(* does not serve.  A reload parks a renamed entry for the moment between  *)
(* the rename and the swap.                                                *)
LiveQuotaOnly ==
    \A n \in Name : quotas[n] # NoSnap => n \in live \cup built

Refreshing(t, n) ==
    /\ task[t].kind = "refresh"
    /\ task[t].phase \notin {"idle", "launched"}
    /\ n \in task[t].names

(* The refresh guard is exact: a 429 storm has at most one refresh of a    *)
(* key upstream, and the guard is held by a task that is still running, so *)
(* no exit of RefreshOne leaves a key that can never be refreshed again.   *)
RefreshGuardExact ==
    \A n \in Name :
      Cardinality({t \in Task : Refreshing(t, n)})
        = IF n \in inFlight THEN 1 ELSE 0

(* Once a reload reported its state durable, the file holds that           *)
(* generation or a later one, whichever of the concurrent persists ends    *)
(* last: a crash at any moment restores no state of a dropped config.      *)
DurableReload == file >= acked

(* After Close nothing that Launch admitted is still running: no poll or   *)
(* refresh writes the state file behind the final persist.                 *)
QuietAfterClose ==
    closing \in {"final", "writing", "closed"} => \A t \in Task : ~Launched(t)

(* Stop is never held up for good: a tracker told to stop is closed in the *)
(* end, with whatever polls, refreshes, reloads and persists around it.    *)
CloseCompletes == (closing = "stopping") ~> (closing = "closed")

(* A refresh that took the guard of a key gives it back in the end.        *)
GuardReleased == \A n \in Name : n \in inFlight ~> n \notin inFlight

(* quota_tracker.go, PollAll: "A fresh poll is the measurement that can    *)
(* overturn a stale 429 prediction".  A poll never clears a 429 that came  *)
(* after it had measured.                                                  *)
OnlyStaleLimitsOverturned ==
    [][\A t \in Task :
         task[t].phase = "clear" /\ task'[t].phase = "persist"
           => task[t].late \cap (limited \ limited') = {}]_vars

(* quota_tracker.go, RefreshOne: a dropped refresh was "coalesced/debounced *)
(* - a covering refresh already ran or is running".  A refresh dropped for *)
(* one in flight is covered by one of its own generation.                  *)
CoalescedIsCovered ==
    [][\A t \in Task, n \in Name :
         /\ task[t].phase = "launched" /\ task'[t].phase = "idle"
         /\ task[t].kind = "refresh" /\ task[t].names = {n}
         /\ task[t].gen = cfgGen /\ ~Stopped
         /\ n \in inFlight
         => \E u \in Task : Refreshing(u, n) /\ task[u].gen = task[t].gen]_vars
=============================================================================
