# TLA+ verification of model-proxy

model-proxy is a local reverse proxy in front of LLM providers. A client calls
an exposed model; the proxy picks an order of upstream targets, tries them one
after the other, converts between protocols, and keeps shared runtime state
about every provider: circuits, rate limits, quota snapshots, model locks, pins
and latches. This directory models the parts of it where requests, background
polls, config reloads, operator commands and the shutdown meet, and the parts
that carry a client's data across them: the converters, the logs, the statistics
and the credential store.

`PROJECT.json` holds the machine-readable side: components, runs, mutants, the
map from definitions to source lines, findings, hazards and theorems.

## 1. Inventory

### The parts, their state and how they interact

| part | source | state | operations | talks to |
|---|---|---|---|---|
| Runtime manager: health | `internal/runtime/manager_health.go`, `manager.go` | per provider: failure streak, circuit deadline, 429 deadline and kind, half-open flag, freeze; per provider and model: lock deadline; the config generation | `TakeHalfOpenSlot`, `ReleaseHalfOpenSlot`, `RecordSuccess/Failure/RateLimit/ModelFailure`, `ResetHealth`, `FreezeHealth`, `ReplaceGeneration` | called by every attempt, by the scheduler, the quota tracker and the admin API; one mutex |
| Runtime manager: routing state | `manager_schedule.go`, `manager_routing_state.go`, `manager_disabled.go` | sticky sessions, pins, load-balance counters, toggles | `decideOrder`, pin and toggle commands | forward loop |
| Quota tracker | `quota_tracker.go`, `manager_quota.go` | quota snapshots, refresh guard, sync errors, `quota_state.json` | periodic poll, poll of one provider, refresh after a 429, `Persist`, `Stop` | providers (HTTP), manager, reload, shutdown |
| Forward loop | `internal/forward/forward.go`, `internal/routing/retry.go` | per request: pass, round, failure classes | `serveOnce`, `DecideFailure`, terminal answers, start and end events, latch outcome | scheduler, executor, cache, guard, events |
| Target executor | `internal/targetexec` | per attempt | dispatch, 401 refresh, classification, commit and stream | manager, provider, converter |
| Grade policy, latch | `internal/forward/policy.go`, `latch.go` | per route latch: bad runs, hold | order by grade, record outcome | forward loop, admin API |
| Config reload | `internal/app/proxy_reload.go` | `configGeneration`, the provider set, `Proxy.mu` | `Reload` | everything |
| Lifecycle | `internal/runtime/lifecycle.go`, `internal/app/proxy_lifecycle.go` | admission gate, two wait groups | `Run`, `RunBeforeLogDrain`, `closeRuntimeServices` | everything |
| Response cache | `internal/cache` | entries, counters | lookup, put, reset | forward loop, reload |
| Account pools | `internal/accounts`, `credstore`, `login` | pool files, a lock file, the OS keychain | `WithLock`, load, save, remove, restore | CLI and daemon, as separate processes |
| Statistics | `internal/observe/stats` | counters, baselines, queues of minute batches, SQLite | flush, reset, shutdown flush | forward loop, admin API |
| Live events | `internal/observe/events` | two rings, subscribers | publish, subscribe | forward loop, web UI |
| MCP gateway | `internal/mcp`, `internal/app/proxy_mcp*.go` | sessions, child processes, pending calls | call, spawn, kill, evict | clients, children, shutdown |
| Adjudication, guard | `internal/adjudicate`, `internal/guard` | verdict caches, blocks, queue | scan, judge, block | forward loop, logs |
| Fusion, shadow | `internal/fusion`, `internal/shadow` | panel results; a semaphore | fan out, collect; sample and replay | executor |
| Request log | `internal/observe/logfile`, `requestlog` | queue, JSONL files, cursors and rows in SQLite, session cache | enqueue, write, rotate, sweep, index, look up | forward loop, admin API, shutdown |
| Protocol converters | `internal/protocol` | per stream: open blocks, pending pieces; continuation store; counter of placeholder ids | convert a request, a response, each frame; expand a chain | executor, cache |
| Provider clients, config, CLI, takeover, web | the rest | mostly none of their own | | |

### What is hard

* A Manager method is atomic, an attempt is not: scheduling, the model lock
  check, the half-open slot and the final report are separate critical sections,
  and other attempts, reloads, freezes and polls run between them.
* A request carries the config generation it started under for its whole life,
  and reports under it after any number of reloads.
* A poll holds no lock while it asks the upstream, and commits to whatever
  generation is current when it returns.
* Two generation counters move at different moments of one reload.
* The state file has many writers; a crash may come between any two writes.
* A request may sleep, retry, jump to other targets and lose its client, and has
  to account for all its passes when it finally answers.
* The decision of an order and the binding it leads to are two critical sections,
  and a latch hears of outcomes in any order, with clock readings taken earlier.
* A stream converter sees frames that are early, repeated, missing or cut off, and
  its client may refuse a single frame out of place.
* A history is converted again at every turn, and each turn may have gone through
  another dialect; what one conversion does to an id shows turns later.
* Counters are diffed, queued, coalesced and saved by steps that fail one by one,
  while a rename moves their keys.
* The log's indexer reads sizes, cursors and files at different moments, while the
  writer rotates them and a crash tears the last line.
* MCP sessions are evicted while their children are being started.
* Secrets move between files and a keychain in several steps, by processes that
  crash and that hold a lock other processes may take for dead; a keychain call that
  was given up on may still take effect, and a secret may outgrow the keychain.

### What makes the modelled parts correct

* Health: a taken half-open slot is always given back; circuits open on evidence
  only; a stale attempt writes nothing; a provider always becomes schedulable again.
* Quota tracker: a measurement is committed only into the generation that took
  it; no snapshot outlives its provider; one refresh per key; the state file never
  falls back behind an acknowledged reload; `Close` ends and nothing runs behind it.
* Forward loop: the terminal status is honest over all passes; waits and attempts
  are bounded; each request reports once; the latch hears of a bad run only when a
  pass failed and of a good one only for a commit; every request ends.
* Routing: a session stays where its prompt cache is; load is dealt evenly; a
  session is escalated only by what the policy asks for; no policy takes the last
  target that could have served a request.
* Streams: a strict client accepts what it is sent (but for a stream with a line over
  8 MiB that is passed through, which is not completed), gets every piece once, and a
  stream that was cut never passes for a complete one.
* Histories: the target is sent the conversation, all of it, once, in order; a
  result answers its own call; the target's rules accept it, but for a picture between
  two results and a hosted search that nothing answers; a chain is expanded to the
  conversation the client means.
* Statistics: an increment is counted once and leaves the books only in the ways the
  ledger names; a shutdown within its window loses nothing.
* Request log: a record is written or counted as dropped; the index of a clean
  shutdown is the log; a record in a file can be looked up, until the file that
  took its file's name has grown past its place.
* MCP: no child process outlives its session; a frozen account serves no later request
  of an HTTP server and no later call or list of a route; a call gets its own answer.
* Accounts: an acknowledged secret is kept, a removed account stays removed and
  leaves no keychain entry but one that a larger secret could not replace.

## 2. Modules and their correspondence to the code

### `Health` (checked by `MCHealth`, proved in `HealthProofs`)

State: `health` is `Manager.health` (an absent entry is `NoHealth`),
`modelLocks` is `Manager.modelLocks`, `generation` is `Manager.generation`, and
`attempt[r]` is where a goroutine in `Executor.Execute` stands.

A deadline is the time left until it; `Tick` moves all of them. A circuit
deadline has one extra value, `Closed`, for Go's zero time, because `available`
and `TakeHalfOpenSlot` tell a zero deadline from a past one (half-open). The
failure count saturates at the threshold and the streak's age at `Persist`, the
only values they are compared with.

Actions: one per Manager method an attempt calls (`CheckModelLock`,
`TakeHalfOpenSlot`, `ReleaseHalfOpenSlot`, `RecordSuccess`, `RecordFailure`,
`RecordRateLimit`, `RecordModelFailure`, `StreamEnd`), the scheduling decision,
`ReplaceGeneration`, the operator's `ResetHealth` and `FreezeHealth`, the quota
tracker's `QuotaRecoveredClearCooldown`, and time. A model denial is two steps,
lock then release, as in the code. `Init` is any state `RestoreHealth` may leave.
What an upstream answers is arbitrary.

### `QuotaTracker` (checked by `MCQuotaTracker`, proved in `QuotaProofs`)

State: the two generation counters (`cfgGen`, `mgrGen`), the provider keys before
and during a swap, `quotas`, the keys under a 429, the refresh guard, what each
poll or refresh is doing, where `Reload` and `closeRuntimeServices` stand, who
holds `persistMu`, what each writer is about to write, and the generation of the
state in the file.

A task goes through `Begin` (stop check, refresh guard), `Provs` (needs
`Proxy.mu` for reading), `FetchQuota` per key, `Commit` (`MergeQuotas` or
`commitSnapshot`), `ClearCooldown`, `TaskPersist`, `TaskPersisted` and
`FinishRefresh`. `Reload` goes through build and rename, lock and bump, swap,
persist, poll. A snapshot is reduced to error, proof of budget or neither, and
carries as a history variable the generation of the provider object that
measured it. `late` is history too: which keys answered a 429 after a task had
measured them.

### `ForwardLoop` (checked by `MCForwardLoop`, proved in `ForwardProofs`)

One request. Shared health, quota and pins are not variables here: every critical
section in which the code reads them is an action that reads an arbitrary value,
which covers everything `Health` and `QuotaTracker` may do in between. The
targets of a pass are a set and are tried in an arbitrary order; planning,
request-aware fit and grade policy may drop or replace targets freely, except for
a pinned or forced request, where the code applies none of them.

`pass` is `serveOnce`'s list and `serveResult`; `round`, `sawHard` and `sawCool`
are `forward`'s; `view` is what `CooldownState` returned, computed from readings
with the edge cases of the code (a frozen target recovers "now"). `seen` is
history, for the properties. A client may leave at three places. At the head of a pass
and while the upstream is asked, the latch ignores the run; in the wait between two
passes (`WaitCancelled`) the code hands `recordLatchOutcome` the result of the pass that
failed, and a bad run is recorded for a request that ends as 499. `LatchFollowsAnswer`
says so (`LeftWaiting`); that the comment of `recordLatchOutcome` says otherwise is a
finding.

### `Filters`, `Schedule`, `RoutePolicy`, `Routing` (checked by `MCRouting`, proved in `RoutingProofs`)

`Schedule` is `decideOrder` as operators: the sweep of idle bindings, operator
toggles, pin, availability, then the quota strategy (tier, priority, score; a
session kept within the dwell, or after it unless another is better by the margin;
the pool's accounts dealt in turn) or the load-balance strategy (one rotation for
new sessions and anonymous requests). `RoutePolicy` is what `serveOnce` does to the
order: the targets that fit the request, the pool of the other routes, grades, band,
selector, latch and fallback mode. `Routing` holds the manager's state (`sticky`,
`spread`, `rr`, `pin`, `disabled`, `latch`, `turns`) and the requests; a pass is the
steps Arrive, Decide, SetSticky, the rerouting of a request that fits no target (a
second decision under the key `route#req`, again in two sections), and the outcome,
reported in the two sections the code has. Measurements, availability, pins, toggles,
reloads and the clock move between any two of them. `talk`, `dealt` and `bads` are
history. `Filters` has the loop that copies the members of a slice that pass a test; the
test is a set, because an operator argument (`SelectSeq`) is opaque to the provers.

### `SSEClient`, `ConvertStream`, `Streams` (checked by `MCStreams`)

`ConvertStream` has the six stream converters, each a function from the fields of
its Go struct and one frame to the next fields and the events it writes. `Streams`
puts one of them, or the terminal watcher of a stream that is passed through,
between an upstream that announces late, repeats, skips, ends early, fails or is cut,
and a strict client of the other dialect (`SSEClient`, external: what the three APIs
demand of a stream). Text is a numbered piece; a converter that loses or repeats one
shows it. The watcher stops at a line over 8 MiB (`gaveUp`) and then adds nothing to a
stream that is cut; `StrictClientAccepts` asks of such a stream only that no second
terminal was added.

### `ConvertHistory`, `Conversation` (checked by `MCConversation`)

`ConvertHistory` has the six request conversions, the response conversions, the
normalisation of call ids with its collision suffixes, the placeholders for missing
ids, the flattening of tool namespaces and the rules of the Anthropic and chat APIs.
Both demand that every call is answered by a result of its own behind it. `ChatAccepts`
names its two exceptions: a picture that the conversion puts between two results of one
answer (`Reinjected`; a finding) and a hosted search, which the code turns into a call
of a chat history that no result answers.
`Conversation` is a client of one dialect whose turns go to targets of any dialect;
it replays what it was given, with results that fail or carry images, ids that are
missing or illegal, or chains by `previous_response_id` through the continuation
store (hits, misses, restarts, forks).

### `StatsLedger`, `StatsFlusher` (checked by `MCStatsFlusher`, proved in `StatsProofs`)

`StatsLedger` is the promise: an accepted increment is owed until it is saved, once,
and leaves the books only by a crash, retention, reset, an unresolved MCP name or a fold
of the MCP backlog.
`StatsFlusher` is the pipeline: counters, baselines, minute queues that coalesce when
full, the drain with its failing store, the reset, the rename of a provider key step
by step, pruning, the shutdown window, crash and boot. A counter is the set of
increments it absorbed. A fold of two MCP batches is the code's: what only the newer
one has loses its name (`Nameless`), and of the nameless deltas of the older one, which
share the empty key of its map, one is kept, whichever the loop met last (`Lasting`).
The refinement maps what is uncollected or queued to `owed` and the rows to `saved`;
`KeepsTheLedger` is the abstract specification itself.

### `RequestLog` (checked by `MCRequestLog`, proved in `RequestLogProofs`)

The queue and its drop counter, the writer with its two-part writes, rotation by size
and day (a rename that may fail), the sweep, the indexer's pass as the steps in which
it reads the directory, the cursors and the files, the batch commit, the fold into the
session cache, the shutdown and a crash between any two steps, also inside a line.
A file is a name (`<<day, 0>>` active, `<<day, k>>` an archive), an identity and its
lines. The identity `ino` is a ghost, the name the file gets when it is archived; the
code goes by names and sizes alone. A cursor and the sizes a pass saw remember the
identity they were taken from, so that the model can tell when a pass takes a file
that replaced another for its continuation (`fooled`). A lookup by id (`Detail`) reads what
is at the places of the id's rows, whichever record that is (`Decodes`: the code compares
no id), and scans what is not indexed only when nothing decodes there. `DetailFinds`
excludes records whose old place another file has taken and filled (`Overtaken`).

### `McpSessions`, `Mcp` (checked by `MCMcp`, proved in `McpProofs`)

`McpSessions` is the session table, one operator per critical section. `Mcp` has the
handlers of direct and routed requests, the registry of children with its per-key
spawn lock, the children with their pipes, timeouts, evictions and their callbacks
(which run after the table's lock is released), expiry, deletion, death, hang, and
the operator's freeze. A notification or a DELETE on a route copies the sub-sessions
(`R_Subs`), goes to those of HTTP servers with the account they are bound to, without a
look at the freeze, and reaches those of stdio servers one by one (`R_Tell`, `Notify`,
`R_Kill`). The ghost `misuse` tells this use of a frozen account from the others.

### `Accounts` (checked by `MCAccounts`, proved in `AccountsProofs`)

One provider's pool on disk: pool file, legacy file, keychain entries, restore marker,
lock file. Every file or keychain access of `LoadPool`, the logins, the refresh, the
removals, the migrations and the restore is a step that may fail or be the last one of
its process. A lock file left by a dead process is judged stale and removed in two
steps, as in the code. Whether a secret fits the keychain is a property of its version
(`Big` is a set of blobs): a save that finds it too large keeps it in the file and leaves
the entry, with its predecessor, as it is. A keychain call that fails may have timed out;
then it stays in `late` and takes effect at any later moment, or never (`Land`), whoever
holds the lock by then. A later call on the entry that succeeds overtakes it (`old`).

The ghost `raced` is set when an unlocked write of a load overwrites another process's
change, when a live lock is removed, or when a call takes effect after it was overtaken:
all three are possible in the code (section 4), and the three properties speak of
behaviours without them. The ghost `stray` holds the entries that a removal may leave:
set by a save or a migration that has not finished, by a call that landed late, or older
than a secret that was too large to replace them.
The ghost `stale` holds the processes whose unlocked view has been replaced since; it
also catches a file that was replaced and changed back.

## 3. Runs

| run | instance | checks |
|---|---|---|
| `health` | 1 provider, 1 model, 2 overlapping attempts, threshold 2, cooldown 2, persist 1, limit 2, 2 generations, forced and free traffic; 171,720 states | SlotHasOwner, CircuitEarned, StaleAttemptsAreInert, AlwaysRecovers |
| `quota` | 1 key, 2 tasks, 2 generations, refreshes; 157,173 states | RefreshGuardExact, DurableReload, QuietAfterClose, MeasuredByThisGeneration, CloseCompletes, GuardReleased |
| `quota_keys` | 2 keys, 1 task, 2 generations, polls of all and of one; 931,543 states | LiveQuotaOnly |
| `forward` | 2 targets, one of them pinned, retry_wait 1, cooldowns up to 2; 79,519 states | HonestStatus, BoundedWait, BoundedAttempts, ReportedOnce, LatchFollowsAnswer, Terminates |
| `routing` | 2 routes, 4 targets of 3 providers, 2 requests at a time, one session and anonymous requests, 5 scenarios; 807,300 states | EvenDeal, PolicyKeepsTargets, SessionStays, EscalationEarned |
| `recover_return` | the same with an outage and 3 passes | RecoverAndReturn: violated, a finding |
| `streams` | 4 items (text, reasoning, 2 calls) of 2 pieces, 9 directions; 3,779,861 states | StrictClientAccepts, ContentDeliveredOnce, CacheOnlySealed |
| `conversation` | 3 turns, 4 kinds of client, 3 tools, 7 shapes of answer; 951,368 states | ChainFaithful, ContentKept, PairingKept, TargetAccepts |
| `stats` | 4 increments (1 request, 2 MCP calls, 1 of the legacy file), queue of 1, 1 crash; 2,289,847 states | CountedOnce, ShutdownSaves, KeepsTheLedger (refinement) |
| `request_log` | 4 records, queue of 1, files of 2 lines, 2 days, 1 database error, 1 crash; 1,954,912 states | Accounted, ShutdownIndexed, DetailFinds |
| `mcp` | 2 handlers, 3 requests, table of 1, cap 1, 2 children, 1 fault; 751,333 states | NoOrphan, FrozenStops, AnswersOwn |
| `accounts` | 2 processes, 2 accounts, 3 versions of their secrets of which one each is too large for the keychain, 4 operations, 2 faults, 1 backend switch (the two processes may start on different backends); 2,906,314 states | KeepsSecrets, StaysRemoved, RemovalCleans |

Every property of a passing run has a mutant in `PROJECT.json`: a plausible fault
in a mapped definition (the operators named `X_Fault` in the modules) under which
TLC finds the property violated.

### Why the bounds are enough

* Health is kept per provider and no operation looks at two of them, so one
  provider shows every interaction; two attempts are what a slot can be disputed
  between. Threshold 2 with persist 1 separates the count from the span; a cooldown
  of 2 gives a state strictly inside it; a second generation gives stale attempts.
  The theorems remove these bounds for the safety properties.
* `Traffic` limits which entry points a quota run explores. With two tasks a
  refresh meets another refresh, a reload and the shutdown; with two keys one poll
  meets keys that are added, dropped and renamed under it.
* A cooldown of 2 against a `retry_wait` of 1 gives waits that fit and waits that
  do not; two targets give a pass one target to fail on and another to recover. All
  three passes and the context retry are explored. The forward theorems hold for
  every route, pin, budget and cooldown.
* `Routing` explores one of five scenarios per behaviour, since the product of all
  changes is out of reach: changing measurements (`Binding`), pin and toggle
  (`Operating`), a request that fits no target of its route, and a reload
  (`Overflowing`), an outage (`Recovering`), latch outcomes (`Escalating`). Within one,
  everything interleaves. Dwell 2 and four clock values put decisions inside, at and
  behind the dwell; three passes let a binding be made, overtaken and read; two bad
  runs escalate. Larger variants (Binding with an outage, 2.0 M states; Escalating
  with four passes, 2.7 M states) give the same results.
* Two calls, a text and a reasoning item are the least that interleave with each
  other and with a held-back call; two pieces make a first and a last one.
* Three turns are what an id needs to be made in one dialect, changed in a second and
  read in a third; two calls per answer make results that could be swapped.
* A queue of one is full at once and so coalesces (`stats`) or drops (`request_log`)
  in the middle of every other step. Four records and files of two lines give two
  rotations. Larger variants of `request_log` (5 records, 11.8 M states; 7 records
  without errors and crashes, 8.6 M states) give the same results.
* A table and a cap of one make every second session evict the first.
* Two processes with two faults let one die in the middle of an operation and the
  other fail in the recovery, or two keychain calls be given up on and land in either
  order. Three versions of an OAuth secret let a login and a refresh cross the size limit
  in both directions: version 2 is too large for one account, version 3 for the other.
* Deadlock checking is off where the system may stop: an answered request, a closed
  tracker, a closed flusher, and bounded numbers of requests or operations. The
  `accounts` run stops at a race (`CONSTRAINT Unraced`), where its properties no longer
  claim anything.

### Fairness

* `health`: weak fairness of the clock and of every attempt's steps. Goroutines are
  scheduled, and the upstream timeout bounds each wait. Nothing is assumed of new
  requests, operators or reloads.
* `quota`: weak fairness of every task, of a reload under way and of the
  shutdown; strong fairness of the three `Persist` calls, because `sync.Mutex` hands
  itself to a starving waiter; strong fairness of the end of `Stop`'s wait, because
  the ticker's `select` chooses at random between a tick and the stop signal. No
  fairness of polls, refreshes or the stop signal itself. Liveness is checked with
  refresh traffic: with two tasks of ticker polls the model would let them alternate
  behind the stop signal for ever, although the code has one ticker.
* `forward`: weak fairness of the request's goroutine as a whole: it goes on, with
  any of its possible steps.

## 4. Findings

`recover_return` is kept as a run. A pass made during an outage of the session's
provider commits the stand-in over the binding (`proxy_schedule.go:51`), so after the
recovery the session stays with the stand-in, while `routing-and-failure.md:154` and
`:165-168` promise that it returns. The test of that contract calls `DecideOrder`
alone and never commits.

The following were found with TLC too. The formulas are in the modules and are
violated on the constants named; they have no runs of their own.

| formula | constants | what happens |
|---|---|---|
| `Health!HalfOpenSingleFlight` | 3 attempts, threshold 1, cooldown 1, persist 0, 1 generation | `halfOpenInFlight` is cleared by any attempt that reports, also by one admitted before the circuit opened; two probes may be out (`manager_health.go:187`; `routing-and-failure.md:133` calls it a single flight) |
| `QuotaTracker!OnlyStaleLimitsOverturned` | 1 key, 2 tasks, all traffic | a poll clears a 429 recorded after it had measured (`quota_tracker.go:323`; `:308` speaks of a stale prediction) |
| `QuotaTracker!CoalescedIsCovered` | 1 key, 2 tasks, 2 generations | the refresh guard outlives the generation; a refresh of the new one is dropped for one of the old, whose commit is rejected (`quota_tracker.go:452`, comment `:454`) |
| `ForwardLoop!EveryStartEnds` | as `forward`, with a cross-route target | a commit that fails closed answers 502 and publishes no end event (`executor.go:431`; `fusion-shadow-cache.md:72`, `forward.go:1054`) |
| `ForwardLoop!RateLimitIsNot400` | as above | a rate limit of an earlier pass is forgotten when a later one meets only targets that cannot be converted to; the answer is 400 (`forward.go:286`; `README.md:639`). The same exit exempts the request from its latch |
| `ForwardLoop!PinExclusive` | as `forward` | the pin is read once for the executor's force and again in every pass; when it ends in between, the request runs past circuits and locks on other providers (`forward.go:147`; `README.md:551`) |
| `ForwardLoop!LeavingTellsNothing` | as `forward` | a client that leaves during the wait between two passes counts as a bad run of its latch (`forward.go:338`, `:409`; `:440-441` says "A client-gone outcome records nothing at all") |
| `MCStatsFlusher!TotalsNotLost` (`SteadySpec`) | 4 MCP calls | a fold of the MCP backlog takes the name of what only the newer batch has; at the next fold all but one of the nameless deltas are lost (`flusher.go:443`, `:482`; `docs/web-api.md:115` and `flusher_root_test.go:507-508` say that totals are not) |
| `Conversation!ResultsAdjacent` | as `conversation` | the picture of the first of two results becomes a user message between the two (`convert.go:421`; `convert_responses_request_from.go:685-686` and `convert_borrowed_parity_test.go:182` speak of strict upstreams that refuse it) |
| `RequestLog!DetailIsOfTheId` | as `request_log` | between a rotation and the next pass an id is answered with the record that the successor file has at the same place (`index.go:1045`; `:1006-1009` promises the records of the id, and a scan when the file was rotated away) |
| `Mcp!FrozenIsToldNothing` | as `mcp` | a notification or DELETE on a route is sent with the credential of an account frozen since (`proxy_mcp_route.go:490`; `:334-336` and `docs/architecture/mcp.md:67` say that its use must stop) |
| `Accounts!NoOrphanedSecret` | 1 process, no faults, 1 switch | a secret that outgrows the keychain leaves its predecessor there; a removal in file mode deletes entries on a marker only, and there is none (`store_keychain.go:343`, `store_remove.go:159`; `CLI.md:289` and `intentional-behaviors.md:33` promise that no orphan is left). In keychain mode the removal does delete it |
| `RequestLog!SessionCacheExact` | 2 records, no day change, error or crash, 1 query | a listing between the commit of a batch and its fold counts the batch twice (`index.go:1557`; comments `:1395-1400`, `:1554-1557`) |
| `Mcp!RequestsFinish` (`FairSpec`) | 1 handler, 2 requests, 1 child | a write into the full pipe of a child that stopped reading blocks under the connection's lock, whatever the context says (`stdio.go:163`, comment `:139-140`) |
| `Mcp!FrozenStopsPinned`, `Mcp!AnswersOwnRoute` | as `mcp` | a pinned stdio session is dispatched before the freeze check (`proxy_mcp.go:189`); the canned id of a route's tool listing collides with a late answer |
| `Accounts!NextSaveFixes` | 3 operations, 1 fault, 1 switch | a removal that deleted the entry and could not write the file leaves a pool that no login can load, hence none can repair (`store_keychain.go:138`, comment `:316`) |
| `Accounts` without `Unraced` and `~raced` | as `accounts` | a load writes keychain entries and the migrated legacy file without the lock (`store_keychain.go:291`); two waiters may both steal a dead lock, the second one a live one (`store.go:466`); a keychain call that was given up on lands after a later login and undoes it (`credstore/keychain.go:79` says that it may) |

Met while modelling, stated without a formula:

* Routing: the fallback mode `any` appends only the grades after the selected one
  (`policy.go`, `selectedIdx+1`), where `config.go:541` and `request-routing.md:124`
  say every other; without a catalog the requirement filter is off but the grade
  filter is not, so an emptied last grade leaves no target; a good run keeps the
  streak's start, so two bad runs in a row may fail to escalate
  (`manager_routing_state.go:76-92`); the quota order drops the other models of the
  head's provider (`manager_schedule.go:337-341`); a binding committed under a pin
  outlives the pin.
* Reload: freezes are dropped (`runtime-state.md:433` says only an unfreeze does), and
  `ClearForGeneration` is not called (`runtime-state.md:69` says it is).
* Request log: a successor of a rotated file that outgrows the old cursor before the
  next pass is read from the middle (`index.go:495`, ghost `fooled`); a lookup between
  the archive's commit and the rewind may miss a record.
* MCP: dropping a route's sub-session does not kill its child
  (`proxy_mcp_route.go:336`); a route session can be deleted without an ownership check;
  children are killed once at the start of the shutdown (`proxy_lifecycle.go:81`).
* Conversion: a hosted search of a responses history becomes a call of a chat history
  that no result answers (`convert_responses_request_from.go:720-750`); the chain of a
  missed `previous_response_id` stays cut for good.
* Streams: anthropic to responses does not suppress content after the stop reason; a
  held custom call may be emitted as a plain function call; the pass-through watcher
  does not take a bare `error` event for a terminal.
* Statistics: the legacy token file is imported again after a reset.
* Accounts: an unfinished migration leaves a keychain copy, `.migrated.bak` keeps the
  plain text, and a pool of mixed rows is refused in file mode.

## 5. Proofs

`HealthProofs` proves, for every set of providers, models and attempts and every
value of the parameters allowed by `ConstantsAssumption` (positive threshold,
cooldowns and number of generations, any `Persist`):

* `HealthTypeCorrect`: TypeOK, which is inductive. It says more than types:
  horizons stay within what was announced, counters within their bounds.
* `HealthCircuitEarned`: CircuitEarned is inductive relative to TypeOK. The
  restore at start satisfies it because a restored circuit carries a full streak.
* `HealthSlotHasOwner`: SlotHasOwner is inductive relative to TypeOK. The step that
  sets the flag makes its attempt an owner; every step that ends an owner under the
  current generation clears the flag; the reload that makes owners stale drops it; and
  a report of another attempt can only clear it.
* `HealthStaleInert`: the action property StaleAttemptsAreInert, by cases on the
  step; it needs TypeOK to tell whose step it was.

`ForwardProofs` proves, under `ForwardAssumption` (the pin selects some targets of
the route; the budget and the cooldowns are naturals) and `TargetsFinite`:

* `ForwardTypeCorrect`, `ForwardHonestStatus`, `ForwardBoundedWait`,
  `ForwardBoundedAttempts`, `ForwardReportedOnce`, `ForwardLatchFollowsAnswer`.

The last five are not inductive alone. The invariant `IInv` adds: `Tallied`,
what a pass and the earlier passes have noted together is what really happened
(`seen`), which ties the terminal class to all passes; `Budgeted`, the time slept
so far is at most `round` times the budget, and a wait is begun only with a round left
for the pass behind it and lasts, so that a client that leaves in it is told from one
that leaves elsewhere; `Unreported`, nothing is published or
recorded before the request is done. The bound on attempts counts, in every pass,
the targets behind it and the one it is at. The step proof has one case per action.

`QuotaProofs`, for any keys, tasks and generations (`TrackerAssumption`; `CallerAssumption`:
a task is neither the reload nor the shutdown):

* `TypeCorrect`, `GuardIsExact`, `ReloadIsDurable`, `QuotasAreLive`, `CloseIsQuiet` and the
  action property `CommitsAreCurrent`.

`IInv` says besides these how the two generation counters relate while a reload swaps
(`Swap`); that `persistMu` has the one holder that writes (`Locked`); that the file, the
copy about to be written and the manager are ordered by generation (`Durable`); what a
task holds in each phase (`Held`); that a measurement of the current generation was made
with its providers, for live keys (`Measured`); and that a guard has exactly one refresh
(`Guarded`), from which the cardinality of `RefreshGuardExact` follows.

`StatsProofs`, for any increments, pipelines, keys and queue bounds (`StatsAssumption`):

* `TypeCorrect`, `CountsAreSingle`, `ShutdownIsComplete`, and `ImplementsLedger`: every
  behaviour of `StatsFlusher` is one of `StatsLedger` under the refinement mapping.

`IInv` places every increment in one key and pipeline (`Placed`, `Keyed`), keeps baselines
below the counters except inside a rename or a reset (`Based`), states counting once per
pipeline (`Once`), with the fold of the MCP backlog, which only drops deltas or their
names, and follows the shutdown's cycle (`Closing`): what had been counted
when it began is collected by the cycle that is not cut short, and what comes later is new.

`AccountsProofs`, for any processes, accounts, versions and sizes of secrets, crashes,
late keychain calls and backend switches
(`AccountsAssumption`; `HolderAssumption`: the two marks of an unheld lock file are not
processes):

* `TypeCorrect`, `SecretsAreKept`, `RemovedStaysRemoved`, `RemovalIsClean`.

The three properties together are not inductive. `IInv` adds, as long as no race was
met, for every process what it may assume at each of its steps: the lock it holds
(`Locked`); that what it read is still what is stored, unless it reads without the lock
and is in `stale` (`Fetched`); that the pool it is about to write forgets no account,
brings none back and has no secret older than the acknowledged one (`Pooled`); and how far
the keychain entries are (`Entries`). `Entered` says that every entry has a row that
refers to it, the marker, or is a stray. Since a call that was given up on may land at any
moment, what is known of an entry is never its content alone: `Fixed` adds that every
call still to land on it was overtaken, `Sure` that each one that was not would write a
secret no older than the acknowledged one, and `Held` says the latter of every entry that
a metadata row refers to. A step that makes a call makes its entry `Fixed` (`CallMade`),
one that fails keeps it `Sure` (`CallSure`), and `Land` keeps both (`LandKeeps`).
Writing the proof showed that an earlier `raced` compared only what a load had read with
what it found, and missed a file that was replaced twice; `stale` came from there.

`RequestLogProofs`, for any number of records, days, rotations, failing passes and crashes
and any sizes of queue and file (`RequestLogAssumption`):

* `TypeCorrect`, `RecordsAreAccounted`, `ShutdownIsIndexed`, `DetailIsFound`. The last is
  about what the code checks at a row's place, that some record decodes there: the rows
  of a record lead to it as long as its file keeps its name or its successor is shorter.

`IInv` relates four things that the code reads at different moments. The files: `Sound`
(the names that an identity can have, a record is in one place) and `Writing`. The rows and
cursors: `Faithful` and `Counted` (a cursor counts terminated lines of one identity, and
its rows are exactly the records among them, whatever the file is called now), `Fresh` and
`Single` (a file is counted under two names only while a pass is still to notice it). What a
pass has read: `Passing`, `Batch`. And the last pass: `Final` (every file it is done with is
completely indexed) and `Closed`. The index part holds until a pass is fooled. A step of
the writer is proved once, by what it leaves of the files (`Grows`). Writing the proof
showed that an earlier `fooled` missed two rotations within one pass, where the size seen
belonged to a file that was replaced before it was read; TLC confirms it with five records.

`McpProofs`, for any handlers, accounts, caps, table sizes and numbers of requests, children
and faults (`McpAssumption`: the cap is not zero, and the marks of nobody and of no account
are neither handlers nor accounts; `SessionsAssumption`: the table holds at least one):

* `McpTypeCorrect`, `NoOrphans`, `FrozenServesNobody`, `PinnedAnswers`.

None of the three properties is inductive: a child belongs to a session that its handler
has yet to store, an eviction's callback runs after the table's lock is released, and the
id of a call that timed out is still owed an answer. `IInv` says what a handler may hold at
each of its steps (`Shaped`, `Pending`); that every running child is in a session, or there
is a handler or a callback that minds it (`Orphans`); that an id in flight belongs to one
call, and that no answer for an id is left once the id is given out again (`Answers`); and
which accounts a handler, a session or a callback may still use after a freeze (`Freezes`).
`FrozenServesNobody` is about requests of HTTP servers and calls and lists of a route; what a
route passes on to its servers is outside it, and TLC shows that it must be (section 4).

`RoutingProofs`, for any routes, targets, sessions, measurements, policies and scenarios and
any number of overlapping requests (`ScheduleAssumption`, `RoutingAssumption`: dwells,
thresholds and measurements are numbers; `ConfigAssumption`: there are finitely many
targets, an entry of a route's list is a target of its own, so that none is twice in it,
providers have a name, and no route is called like the pool that the planner makes up for
one, because the configuration strips `#` and what follows from a route's name):

* `TypeCorrect`, `DealtEvenly`, `Sticks`, `Earns`, `PolicyKeeps`.

`IInv` has a part for each, since none follows from what it says itself. `Passes`: what a
pass remembers of itself, in particular that the pool it was given fits the request when
the route's order did not, that a decision binds the provider it tries first or none, and
that no clock reading is of the future. `Bindings`: a session's binding is where it was sent
last, unless that was longer ago than the dwell; a sweep with an old clock reading drops
only what is older still. `Streaks`: what a latch counts are the last bad runs of its
session, all recorded after its dwell began. `Deals`: the counter of a rotation and the
slots dealt agree, that is, the targets one ahead are the last `c` before the counter's
position, for some `c` below their number; evenness is what remains when the position is
forgotten. Beneath are lemmas on what the code computes whatever its input: the ranking and
the pool's sort are permutations of the candidates (`Reordered`: the position that a strict
order gives is a bijection), filters keep members and their order, and every decision of
either strategy is one of `Decision`. Induction over a sequence is written out, as the least
position at which a set of good positions would end (`Counting`).

Only model-checked: liveness (`AlwaysRecovers`, `CloseCompletes`, `GuardReleased`,
`Terminates`), which is out of the prover's reach; and what the stream and history
converters compute (`StrictClientAccepts`, `ContentDeliveredOnce`, `CacheOnlySealed` and the
`conversation` properties): each says what a client has after it has read all that six
converters, or a chain of them, have put out, an induction over their output for each.

## 6. Not modelled

Usage payloads, message formats, prompts and the text of answers are abstracted to
the verdict the code draws from them, or to numbered pieces. `FetchQuota`'s retries
are part of one fetch. The freshness window of a quota snapshot is taken to outlast a
fetch. Clock reads happen in the critical section that uses them, except where the
code reads the clock before a lock and a property depends on it (`Routing`); a clock
that jumps is not modelled. Reloads run one at a time.

Within the modelled components: the header that forces a provider, the text a
selector matches and the quality projection (`Routing`); sampling parameters, usage,
citations (converters); tool name rewriting and the SSE transport (`Mcp`); labels, the
absorption of a legacy OAuth account and pairs of secrets (`Accounts`); the ledger
rebuild (`StatsFlusher`); the security log (`RequestLog` models the writer it shares).

Code without state or without concurrency of its own (CLI, config parsing and
validation, takeover templates, web UI, admin read models, presets, vendor clients,
tests) is left to the repository's tests; it is most of the repository's lines.
`PROJECT.json` says for every component what is covered.

## 7. Plan

Done: `Health`, `ForwardLoop`, `QuotaTracker`, `StatsFlusher` with its ledger, `RequestLog`,
`Accounts`, `Mcp` and `Routing`, with proofs of all their safety properties; `Streams` and
`Conversation`, checked only.

Models next: the lifecycle (admission gates, the order of `closeRuntimeServices` and
the services that producers may outlive; concurrent reloads); the debounced persist of
the continuation store; adjudication (verdict cache, queue, breaker); the takeover
journal; fusion's quorum; the response cache and shadow permits; single-flight token
refresh; the events hub.
