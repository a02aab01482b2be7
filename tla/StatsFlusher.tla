---------------------------- MODULE StatsFlusher ----------------------------
(***************************************************************************)
(* The statistics pipeline: hot counters that requests bump, the flusher   *)
(* that diffs them into minute batches and drains the batches into the     *)
(* database, its reset, the rename of a provider key at a reload, pruning, *)
(* the shutdown retry window, crash and bootstrap.                         *)
(*                                                                         *)
(* A counter is modelled by the set of increments it has absorbed, each an *)
(* Event under the key it was recorded for: adding counters is union,      *)
(* subtracting a baseline is set difference.  This is exact as long as no  *)
(* baseline exceeds its counter when a diff is taken, which is the         *)
(* invariant CountedOnce's first conjunct.  The fields of a row (requests, *)
(* tokens, latency sums) are alike to the pipeline and are not told apart. *)
(***************************************************************************)
EXTENDS Naturals, Sequences

CONSTANTS
    Event,        \* increments (each is recorded at most once)
    PipeOf,       \* [Event -> Pipe]: the pipeline each belongs to
    Legacy,       \* events found in the legacy token file
    Key,          \* runtime keys (provider, model) or MCP names
    FromKey,      \* the provider key a reload renames ...
    ToKey,        \* ... and its new name
    MaxPending,   \* MaxPendingStatsBatches
    MaxPerFlush,  \* MaxStatsBatchesPerFlush
    MaxNow,       \* bound: wall-clock minutes 1..MaxNow
    MaxCrash      \* bound: restarts in a behaviour

\* Provider/model, agent and MCP pipelines (the per-tool MCP pipeline is a
\* copy of the MCP one and is not told apart from it).
Pipe == {"provider", "agent", "mcp"}

\* What stands for the name of an MCP delta that has lost it: every delta has
\* the empty name then, and <<k>> tells it was counted under k.
Nameless == {<<k>> : k \in Key} \cup {<<>>}
Name == Key \cup Nameless

ASSUME StatsAssumption ==
    /\ PipeOf \in [Event -> Pipe]
    /\ Legacy \subseteq {e \in Event : PipeOf[e] = "provider"}
    /\ FromKey \in Key /\ ToKey \in Key /\ FromKey # ToKey
    /\ Key \cap Nameless = {}
    /\ MaxPending \in Nat \ {0}
    /\ MaxPerFlush \in Nat \ {0}
    /\ MaxNow \in Nat \ {0}
    /\ MaxCrash \in Nat

VARIABLES
    phase,       \* "down", "up", "stopping" (FlushForShutdown), "closed"
    live,        \* the hot counters, per pipeline: SUBSET (Event \X Key)
    held,        \* entries looked up and not yet incremented
    used,        \* events whose recording has begun (history)
    prev,        \* the diff baselines
    queue,       \* pending batches, per pipeline
    db,          \* rows: SUBSET (Event \X Name \X Minute), per pipeline
    lastBucket,  \* the newest minute handed out
    hold,        \* what the holder of flusher.mu does next, "free" if nobody
    left,        \* attempts left in the drain loop of the current pipeline
    known,       \* MCP names the configuration resolves
    stopper,     \* FlushForShutdown: "idle", "cycle", "busy", "check"
    expired,     \* its context has ended
    before,      \* events counted when the shutdown began (history)
    crashes

vars == <<phase, live, held, used, prev, queue, db, lastBucket, hold, left,
          known, stopper, expired, before, crashes>>

recorders == <<live, held, used>>
flusher == <<prev, queue, lastBucket>>
mutex == <<hold, left>>
closing == <<phase, stopper, expired, before, crashes>>

Minute == Nat
Batch == [minute : Minute, deltas : SUBSET (Event \X Name)]

EventsOf(S) == {x[1] : x \in S}
Empty == [p \in Pipe |-> {}]
Legacied == {<<e, FromKey, 0>> : e \in Legacy}

Init ==
    /\ phase = "down"
    /\ live = Empty /\ held = {} /\ used = {} /\ prev = Empty
    /\ queue = [p \in Pipe |-> <<>>]
    /\ db = Empty
    /\ lastBucket = 0 /\ hold = "free" /\ left = 0
    /\ known = Key
    /\ stopper = "idle" /\ expired = FALSE /\ before = {}
    /\ crashes = 0

----------------------------------------------------------------------------
(* Requests. *)

Serving == phase \in {"up", "stopping"}

\* Entry: the hot path of metrics and MCP counters takes the map's lock only
\* to find the entry; the add comes later.
Lookup(e, k) ==
    /\ Serving /\ e \notin used \cup Legacy
    /\ held' = held \cup {<<e, k>>}
    /\ used' = used \cup {e}
    /\ UNCHANGED <<live, flusher, db, mutex, known, closing>>

Inc(e, k) == PipeOf[e] = "provider" /\ Lookup(e, k)
RecordMCP(e, k) == PipeOf[e] = "mcp" /\ Lookup(e, k)

\* The atomic add on the entry that was found.  An entry that a reset or a
\* rename has detached meanwhile is in nobody's map: such a holder has left
\* `held` and its add is lost (adopt's documented degradation).
Add(x) ==
    /\ Serving /\ x \in held
    /\ held' = held \ {x}
    /\ live' = [live EXCEPT ![PipeOf[x[1]]] = @ \cup {x}]
    /\ UNCHANGED <<used, flusher, db, mutex, known, closing>>

\* Agent and token counters find the entry and add to it under one lock.
Mutate(e, k) ==
    /\ Serving /\ e \notin used \cup Legacy
    /\ PipeOf[e] \in {"provider", "agent"}
    /\ used' = used \cup {e}
    /\ live' = [live EXCEPT ![PipeOf[e]] = @ \cup {<<e, k>>}]
    /\ UNCHANGED <<held, flusher, db, mutex, known, closing>>

\* A reload changes which MCP names resolve to a server or a route.
ReloadMCP(S) ==
    /\ phase = "up" /\ S # known
    /\ known' = S
    /\ UNCHANGED <<recorders, flusher, db, mutex, closing>>

----------------------------------------------------------------------------
(* One flush cycle: collect, diff, enqueue, move the baselines; then drain *)
(* the pipelines one after the other; then prune.                          *)

DiffCounters(p) == live[p] \ prev[p]

\* Names whose kind cannot be resolved are skipped, and the baseline moves
\* past them all the same.
DiffMCP == {x \in live["mcp"] \ prev["mcp"] : x[2] \in known}

Diff(p) == IF p = "mcp" THEN DiffMCP ELSE DiffCounters(p)

NamesOf(S) == {x[2] : x \in S}
Bare(k) == IF k \in Key THEN <<k>> ELSE k

\* The MCP fold adds each newer delta to the record it finds under the same
\* name.  A name that only the newer batch has finds the zero record, and the
\* sum keeps that record's empty name.  The older batch goes into the map by
\* name, so that of its nameless deltas one is left, the last.
FoldMCP(older, newer, last) ==
    {x \in older : x[2] \in Key}
      \cup {<<x[1], <<>>>> : x \in {y \in older : y[2] = last}}
      \cup {x \in newer : x[2] \in NamesOf(older)}
      \cup {<<x[1], Bare(x[2])>> : x \in {y \in newer : y[2] \notin NamesOf(older)}}

Fold(p, older, newer, last) ==
    IF p = "mcp" THEN FoldMCP(older, newer, last) ELSE older \cup newer

\* As if the oldest batch stayed in the backlog once it has been folded.
EnqueueTwice(p, q, b, last) ==
    LET a == Append(q, b) IN
    IF Len(a) <= MaxPending THEN a
    ELSE [a EXCEPT ![2] = [minute |-> a[1].minute,
                           deltas |-> Fold(p, a[1].deltas, a[2].deltas, last)]]

\* A full backlog folds its two oldest batches under the older minute.
Enqueue(p, q, b, last) ==
    LET a == Append(q, b) IN
    IF Len(a) <= MaxPending THEN a
    ELSE <<[minute |-> a[1].minute, deltas |-> Fold(p, a[1].deltas, a[2].deltas, last)]>>
           \o SubSeq(a, 3, Len(a))

\* The nameless delta that a fold of the backlog would leave: any of them.
Lasting(q) ==
    LET nameless == IF q = <<>> THEN {} ELSE NamesOf(q[1].deltas) \cap Nameless IN
    IF nameless = {} THEN {<<>>} ELSE nameless

BucketFor(now) == IF now <= lastBucket THEN lastBucket + 1 ELSE now

\* A cycle runs from the minute loop while the proxy is up, or from
\* FlushForShutdown.  A recorder's add is either in the snapshot or not.
Collect(now) ==
    /\ hold = "free"
    /\ \/ phase = "up" /\ stopper' = stopper
       \/ phase = "stopping" /\ stopper = "cycle" /\ stopper' = "busy"
    /\ \E last \in Lasting(queue["mcp"]) :
         queue' = [p \in Pipe |->
                     IF Diff(p) = {} THEN queue[p]
                     ELSE Enqueue(p, queue[p],
                            [minute |-> BucketFor(now), deltas |-> Diff(p)], last)]
    /\ lastBucket' = IF \A p \in Pipe : Diff(p) = {} THEN lastBucket ELSE BucketFor(now)
    /\ prev' = live
    /\ hold' = "provider" /\ left' = MaxPerFlush
    /\ UNCHANGED <<recorders, db, known, phase, expired, before, crashes>>

Following == [provider |-> "agent", agent |-> "mcp", mcp |-> "prune"]

\* The upserts of one batch, one transaction per batch; what has no name goes
\* under the empty one.
Stored(k) == IF k \in Key THEN k ELSE <<>>
FlushContext(rows, b) == rows \cup {<<x[1], Stored(x[2]), b.minute>> : x \in b.deltas}

\* The oldest batch of the pipeline.  A transaction on a context that has
\* ended does not commit.
FlushBatch(p) ==
    /\ hold = p /\ queue[p] # <<>> /\ left > 0
    /\ phase = "up" \/ ~expired
    /\ db' = [db EXCEPT ![p] = FlushContext(@, Head(queue[p]))]
    /\ queue' = [queue EXCEPT ![p] = Tail(@)]
    /\ left' = left - 1
    /\ UNCHANGED <<recorders, prev, lastBucket, hold, known, closing>>

\* As if a batch left the backlog before its transaction has committed.
EndDrainDropping(p) ==
    /\ hold = p
    /\ hold' = Following[p] /\ left' = MaxPerFlush
    /\ queue' = [queue EXCEPT ![p] = IF @ = <<>> THEN @ ELSE Tail(@)]
    /\ UNCHANGED <<recorders, prev, lastBucket, db, known, closing>>

\* The loop ends: nothing pending, the limit reached, or a failed transaction.
EndDrain(p) ==
    /\ hold = p
    /\ hold' = Following[p] /\ left' = MaxPerFlush
    /\ UNCHANGED <<recorders, flusher, db, known, closing>>

\* Rows older than the retention go, whatever pipeline they are of; or the
\* transaction fails (cutoff 0).  Then the cycle is over.
Prune(cutoff) ==
    /\ hold = "prune"
    /\ db' = [p \in Pipe |-> {r \in db[p] : r[3] >= cutoff}]
    /\ hold' = "free" /\ left' = 0
    /\ stopper' = IF stopper = "busy" THEN "check" ELSE stopper
    /\ UNCHANGED <<recorders, flusher, known, phase, expired, before, crashes>>

----------------------------------------------------------------------------
(* Reset: the database first, then the counters, then baselines and queues. *)

ResetStore ==
    /\ phase = "up" /\ hold = "free"
    /\ db' = Empty
    /\ hold' = "reset"
    /\ UNCHANGED <<recorders, flusher, left, known, closing>>

ResetCounters ==
    /\ hold = "reset"
    /\ live' = Empty /\ held' = {}
    /\ hold' = "rebase"
    /\ UNCHANGED <<used, flusher, db, left, known, closing>>

\* The new baseline is what has been counted since the counters were emptied.
ResetBaseline ==
    /\ hold = "rebase"
    /\ prev' = live
    /\ queue' = [p \in Pipe |-> <<>>]
    /\ lastBucket' = 0
    /\ hold' = "free"
    /\ UNCHANGED <<recorders, db, left, known, closing>>

----------------------------------------------------------------------------
(* RenameProviderKeyLive, for the pipelines keyed by provider. *)

Renamed(k) == IF k = FromKey THEN ToKey ELSE k
RekeyEntries(S) == {<<x[1], Renamed(x[2])>> : x \in S}
RekeyRows(S) == {<<x[1], Renamed(x[2]), x[3]>> : x \in S}
OnProviderKeys(f, Op(_)) == [p \in Pipe |-> IF p = "mcp" THEN f[p] ELSE Op(f[p])]

\* A failed transaction leaves everything as it was, so only success is a step.
RenameStore ==
    /\ phase = "up" /\ hold = "free"
    /\ db' = OnProviderKeys(db, RekeyRows)
    /\ hold' = "adopt"
    /\ UNCHANGED <<recorders, flusher, left, known, closing>>

\* AdoptProviderKey moves the entries; a holder of a moved one is detached.
Adopt ==
    /\ hold = "adopt"
    /\ live' = OnProviderKeys(live, RekeyEntries)
    /\ held' = {x \in held : PipeOf[x[1]] = "mcp" \/ x[2] # FromKey}
    /\ hold' = "rekey"
    /\ UNCHANGED <<used, flusher, db, left, known, closing>>

RekeyBatches(q) ==
    [i \in DOMAIN q |-> [q[i] EXCEPT !.deltas = RekeyEntries(@)]]

RekeyQueuesOnly ==
    /\ hold = "rekey"
    /\ queue' = OnProviderKeys(queue, RekeyBatches)
    /\ hold' = "free"
    /\ UNCHANGED <<recorders, prev, lastBucket, db, left, known, closing>>

RekeyBaseline ==
    /\ hold = "rekey"
    /\ prev' = OnProviderKeys(prev, RekeyEntries)
    /\ queue' = OnProviderKeys(queue, RekeyBatches)
    /\ hold' = "free"
    /\ UNCHANGED <<recorders, lastBucket, db, left, known, closing>>

----------------------------------------------------------------------------
(* Shutdown, crash and bootstrap. *)

\* closeRuntimeServices waits for the minute loop; a handler's reset or a
\* reload's rename may still hold the mutex.
Stop ==
    /\ phase = "up" /\ hold \notin {"provider", "agent", "mcp", "prune"}
    /\ phase' = "stopping" /\ stopper' = "cycle"
    /\ before' = (UNION {EventsOf(live[p] \ prev[p]) : p \in {"provider", "agent"}})
                   \cup (UNION {UNION {EventsOf(queue[p][i].deltas) : i \in DOMAIN queue[p]} : p \in Pipe})
    /\ UNCHANGED <<recorders, flusher, db, mutex, known, expired, crashes>>

Expire ==
    /\ phase = "stopping" /\ ~expired
    /\ expired' = TRUE
    /\ UNCHANGED <<recorders, flusher, db, mutex, known, phase, stopper, before, crashes>>

\* The cycle gives up waiting for the mutex when the window ends.
SkipCycle ==
    /\ phase = "stopping" /\ stopper = "cycle" /\ expired /\ hold # "free"
    /\ stopper' = "check"
    /\ UNCHANGED <<recorders, flusher, db, mutex, known, phase, expired, before, crashes>>

\* Nothing pending, or the window is over (also while waiting for the mutex):
\* the store is closed.  Otherwise another cycle.
CheckProviderPending ==
    /\ phase = "stopping" /\ stopper = "check"
    /\ hold = "free" \/ expired
    /\ IF expired \/ queue["agent"] = <<>>
       THEN phase' = "closed" /\ stopper' = "idle"
       ELSE phase' = phase /\ stopper' = "cycle"
    /\ UNCHANGED <<recorders, flusher, db, mutex, known, expired, before, crashes>>

CheckPending ==
    /\ phase = "stopping" /\ stopper = "check"
    /\ hold = "free" \/ expired
    /\ IF expired \/ (\A p \in Pipe : queue[p] = <<>>)
       THEN phase' = "closed" /\ stopper' = "idle"
       ELSE phase' = phase /\ stopper' = "cycle"
    /\ UNCHANGED <<recorders, flusher, db, mutex, known, expired, before, crashes>>

\* The process ends, in order or not; only the database survives.
Exit ==
    /\ phase # "down" /\ crashes < MaxCrash
    /\ phase' = "down" /\ crashes' = crashes + 1
    /\ live' = Empty /\ held' = {} /\ prev' = Empty
    /\ queue' = [p \in Pipe |-> <<>>]
    /\ lastBucket' = 0 /\ hold' = "free" /\ left' = 0
    /\ stopper' = "idle" /\ expired' = FALSE /\ before' = {}
    /\ UNCHANGED <<used, db, known>>

\* The legacy file is imported into an empty provider table, and kept.
ImportLegacyTokens(rows) ==
    [rows EXCEPT !["provider"] = IF @ = {} THEN Legacied ELSE @]

LoadCumulative(rows) == {<<r[1], r[2]>> : r \in rows}

\* Bootstrap imports, applies a pending rename or not, and seeds counters and
\* baselines of the provider and agent pipelines from what the database
\* holds.  MCP counters start at zero.
Boot ==
    /\ phase = "down"
    /\ db' \in {ImportLegacyTokens(db), OnProviderKeys(ImportLegacyTokens(db), RekeyRows)}
    /\ live' = OnProviderKeys([db' EXCEPT !["mcp"] = {}], LoadCumulative)
    /\ prev' = live'
    /\ phase' = "up"
    /\ UNCHANGED <<held, used, queue, lastBucket, mutex, known, stopper, expired, before, crashes>>

Next ==
    \/ \E e \in Event, k \in Key :
         Inc(e, k) \/ RecordMCP(e, k) \/ Add(<<e, k>>) \/ Mutate(e, k)
    \/ \E S \in {{}, Key} : ReloadMCP(S)
    \/ \E now \in 1..MaxNow : Collect(now)
    \/ \E p \in Pipe : FlushBatch(p) \/ EndDrain(p)
    \/ \E cutoff \in 0..MaxNow : Prune(cutoff)
    \/ ResetStore \/ ResetCounters \/ ResetBaseline
    \/ RenameStore \/ Adopt \/ RekeyBaseline
    \/ Stop \/ Expire \/ SkipCycle \/ CheckPending \/ Exit \/ Boot

Spec == Init /\ [][Next]_vars

----------------------------------------------------------------------------
(* Properties. *)

Uncollected(p) == EventsOf(live[p]) \ EventsOf(prev[p])
Queued(p) == UNION {EventsOf(queue[p][i].deltas) : i \in DOMAIN queue[p]}
Rows(p) == EventsOf(db[p])

\* A reset takes effect when it empties the database: what is counted before
\* it has moved the baselines goes with it.
Owed ==
    IF hold \in {"reset", "rebase"} THEN {}
    ELSE UNION {Uncollected(p) \cup Queued(p) : p \in Pipe}
Saved == UNION {Rows(p) : p \in Pipe}

\* No increment is ever counted twice, whatever fails and whatever races: no
\* baseline exceeds its counter when a diff can be taken (the diff subtracts
\* unsigned counters), and an increment is in one place at most: counted and
\* not collected, in one batch, or in one row (flusher.go:317, rename.go:106).
CountedOnce ==
    /\ hold = "free" => \A p \in Pipe : prev[p] \subseteq live[p]
    /\ hold \notin {"reset", "rebase"} =>
         \A p \in Pipe :
            /\ Uncollected(p) \cap (Queued(p) \cup Rows(p)) = {}
            /\ Queued(p) \cap Rows(p) = {}
            /\ \A i, j \in DOMAIN queue[p] :
                  i # j => EventsOf(queue[p][i].deltas) \cap EventsOf(queue[p][j].deltas) = {}
    /\ \A p \in Pipe : \A r, s \in db[p] : r[1] = s[1] => r = s

\* A shutdown that ends before its retry window does leaves nothing behind of
\* what had been counted when it began and is not saved, in any of the
\* pipelines (FlushForShutdown, flusher.go:618).
ShutdownSaves ==
    phase = "closed" /\ ~expired => before \cap Owed = {}

Ledger == INSTANCE StatsLedger WITH
            Volatile <- {e \in Event : PipeOf[e] = "mcp"},
            owed <- Owed,
            saved <- Saved

\* The pipeline implements the ledger: an increment that is owed stays owed
\* until it is saved, or a crash, a reset, an unresolved name or a fold of the
\* MCP backlog drops it, and what is saved stays saved until retention or a reset takes it.
KeepsTheLedger == Ledger!Spec
=============================================================================
