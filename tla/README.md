# Formal models of the assisted migration agent

The agent runs next to a vCenter. It collects an inventory into a DuckDB file,
lets users group, label and exclude virtual machines, inspects and benchmarks
them, and reports its status and its inventories to console.redhat.com. The API
is served by `internal/handlers`; behind it are services, a small asynchronous
work library and the stores. Paths below are relative to `src/`.

This directory holds TLA+ modules of the parts where goroutines, crashes and
failures meet, and of the pure algorithms that are easy to get wrong, the TLC
configurations that check them on small instances, and TLAPS proofs of the safety
properties of thirteen of them for every size. `PROJECT.json` lists components, runs,
mutants, findings, hazards and theorems, and maps each definition to the lines it
models.

## 1. Inventory

### Work library

| Part | State | Operations | What makes it correct |
|---|---|---|---|
| `pkg/scheduler` | queue, idle workers of two kinds, channels `work`, `done`, `close`, WaitGroup, futures | AddWork, AddPriorityWork, Future.Stop, Close; the goroutines `run` and `worker.Work` | no worker is lost; normal work never takes a reserved worker; nothing waits that could run; Close leaves nothing behind, for every caller; each future gets one result |
| `pkg/work/pipeline2.go` | stop channel, progress | Start's goroutine, Stop | units in order, the last result reaches Finalize, Finalize runs whatever happened |
| `pkg/work/pool2.go` | entries, CancelCh, done | Start, run, Stop, Cancel, IsRunning | the pool's finalizer is last; Stop and Cancel return, and then everything is final |
| `pkg/work/pipeline.go` | stop channel, state | Start, Stop, IsRunning | used by the console's loop; no Finalize, does not wait for a unit in flight |
| `pkg/work/service.go` | a Pipeline with its scheduler | Start, Stop, IsRunning | used by the v1 rightsizing run |
| `pkg/work/pool.go` | Pool2's predecessor, for the v1 inspector and forecaster | Start, Stop, Cancel | not modelled |

### Collections

| Part | State | Operations | What makes it correct |
|---|---|---|---|
| `services/v2/manager.go` | `mu`, current collector, inspector | StartCollecting, StartRVToolsCollecting, StopCollecting, InspectorService, LatestEventService | one collection at a time, no inspection on a collection that is going away |
| `services/v2/collector.go` | scheduler, pipeline | Start, Stop, GetStatus | Stop waits for Finalize |
| `collector_work.go`, `rvtools_work.go`, `sync.go` | the units' closure: name, `collectionDb` | Provision ... Publish, Finalize | a collection is served if and only if it is complete; nothing of an abandoned one is left |
| `store/collection.go` | markers (table `collections` of the main database) | Create, MarkFailed, Delete, List | a marker outlives every partial file |
| `store/pool.go` | registered databases, the latest one, connections | Add, Get, Latest, Store, Clone, Close, cleanup | as above; one connection per file, none closed under a request on the latest collection |
| `store/migrations` | recorded versions, per database | Migrate | what is served has every migration, recorded exactly when applied |
| `cmd/run.go` | - | initPool, cleanupStaleCollections, initV1, the shutdown | after a crash only complete collections are registered |
| `services/v1/collector*.go`, `store/store.go` | the current run, attached databases, markers | Start, Stop, GetStatus, the units, Finalize, LoadDatabases | collected means collected and published; a restart finds it |

### Console

| Part | State | Operations | What makes it correct |
|---|---|---|---|
| `services/v2/console.go` | persisted mode, status, error, `close`; a loop, a pipeline and a scheduler per `run` | SetMode, Stop, run, createPipeline | SetMode returns; one loop when connected, none when disconnected; events arrive, none is lost, in order |
| `services/v1/console.go` | as v2, over one database | as v2; a clear unit deletes what was sent | as v2 |
| `store/outbox.go`, `services/v2/event.go` | events with increasing ids, in the collection database | Insert, Get, Delete up to an id | only delivered events are deleted |
| `pkg/console` | - | RequestBuilder.Build, the client's requests | outcomes of a request: taken, refused (4xx, fatal), failed with or without effect |

### What users and requests work on

| Part | State | Operations | What makes it correct |
|---|---|---|---|
| `services/v2/inspector.go`, `inspection_builder.go` | pool, vCenter session, rows per VM, snapshots | Start, Stop, Cancel, GetStatus; the units of a VM | no snapshot is forgotten, every session has somebody to log it out; rows settle; completed means stored; requests return |
| `services/v2/vddk.go` | the library's folder and its row | Upload, Status | the row describes the folder, also after a crash |
| `services/v2/forecaster.go`, `forecast_builder.go`, `strategy_vm.go` | pool, session, images, VMs, disks and directories on datastores, runs | Start, Stop, StopPair; the units of a pair | datastores are cleaned, one forecast at a time, nothing happens after Stop |
| `services/v2/vm.go`, `group.go`, `event.go` and v1 | exclusions, labels, groups, matches, inventories, outbox | the handlers' requests, Sync and Publish of a collection | inventories follow the VMs, matches and exclusions, the console catches up, a refused request changes nothing |
| `store/rightsizing.go`, `services/v1/rightsizing.go`, units 6a-6d | reports, batches, warnings, utilization, a session | TriggerCollection, GetStatus, Stop, the units, the reads | a report counts what it holds; utilization is served from whole reports |
| `services/v2/comparison.go` | - | Summary, Diff | lists and counts agree, pages cover the list |
| `services/v2/credentials.go`, `pkg/crypto`, v1 | key file, master password, one record | SetMasterPassword, Put, Get, Delete, capabilities | what is stored stays readable; only the owner changes the password |
| `pkg/filter`, `internal/filter` | - | lex, parse, translate | tokens are where they are said to be, the parser follows a grammar, the SQL means the expression |

The inventory, application and export services format the result of one query;
the rest of the stores is SQL text; the server and the configuration keep no
state. The v1 inspector and forecaster repeat the v2 ones on `work.Pool`.

### How the parts interact, and what is hard

* A request calls a ServiceManager method, which holds `m.mu`. StopCollecting
  waits for the run *with the mutex held*; units run on the run's own scheduler.
* A pipeline hands one unit at a time to a scheduler and waits for the future or
  for stop. Finalize is priority work of the same scheduler.
* Effects of one logical change are spread over two stores (marker in the main
  database, file on disk) and over the pool in memory; a crash or a stop may
  fall between any two of them.
* The console's loop, a mode change and the loop's own exits share one channel
  of capacity one in both directions.
* Inspections and benchmarks make things in vCenter (sessions, snapshots, VMs,
  disks) that nothing but the agent removes; a unit that Stop gave up on goes on.
* A request obtains a service bound to the latest collection and uses it later;
  in between that collection may be replaced and its connection closed.
* The outbox belongs to a collection and the console reads the latest one's, so
  a promotion changes which outbox is read.

## 2. Modules

| Module | Models |
|---|---|
| `Executor` | what the scheduler promises its clients: bounded, prioritised, closable |
| `Scheduler` | `pkg/scheduler`, channel operation by channel operation; implements `Executor` |
| `Pool2` | `pool2.go` and `pipeline2.go` on top of `Executor` |
| `Collection` | manager, collector, units of both factories, markers, files, pool, startup, user changes |
| `Console` | `console.go`, `pipeline.go`, outbox and client |
| `Console1` | `services/v1/console.go`, as the differences from `Console`, which it extends |
| `Collection1` | the v1 collection: collector, units, Finalize, startup |
| `Inspection` | the v2 inspector, its units and handlers, and the VDDK upload |
| `Forecast` | the v2 forecaster, its units call by call, and its handlers |
| `Databases` | `store/pool.go`, connections, migrations, startup, promotion and shutdown |
| `Secrets` | key manager, master password, credentials, capabilities; v1 and v2 |
| `UserData` | groups, labels, exclusions, inventories and their events; v1, v2 and a collection's Sync, Refresh and Publish |
| `Rightsizing` | reports, the v1 run, the v2 units and the reads |
| `Comparison` | the comparison of two collections |
| `Filter` | lexer, parser, type checks and SQL of the filter language |
| `Scheduler_proofs`, `Pool2_proofs`, `Collection_proofs`, `Console_proofs`, `Inspection_proofs`, `Forecast_proofs` | theorems about the module of that name; those about `Console1` are in `Console_proofs` |
| `Services_proofs` | theorems about Collection1, Secrets, Databases and Comparison |
| `ServedData_proofs` | theorems about UserData and Rightsizing |
| `MCScheduler`, `MCPool2`, `MCCollection`, `MCConsole`, `MCInspection`, `MCForecast`, `MCUserData`, `MCRightsizing` | values for the constants |
| `MCFilter`, `MCServices` | the inputs of Filter; the five components that are checked in one run |

Interacting parts meet in one module: manager, collector, pool and markers in
Collection; inspector, VDDK and collections in Inspection; services, Sync and the
console's view in UserData; collection and rightsizing run in Rightsizing. Where
a part is used through what another module shows of it, the module says so:
Pool2 uses Executor, Inspection and Forecast use what Pool2 shows.

Definitions marked *Mutant* in a module are variants of the definition below
them with a plausible mistake in it. No specification uses them; each shows that
one of the properties would notice.

### Scheduler

`caller` is where an `addWork` call is, `loop` where `run` is, `goroutine` where
`worker.Work` is for each work, `once` how far the function in `once.Do` is.
Unbuffered sends are one step of two goroutines (`Accept`, `LoopExit`). The
queue is a set: `dispatch` sorts it before it takes the head and the comparison
has no tie-breaker, so any work of the highest priority may be the head
(`Heads`). Workers are counted per kind: a worker carries only `isReserved`.
A panic is recovered and sent like a result, hence not told apart.

### Pool2

`pc` is Pipeline2's goroutine, `drainer` the goroutine that ranges over its
ticks and then sends the done event, `run` is `Pool2.run`. Each pipeline has
`Units` units. Start is `Init`; Stop visits the pipelines in any order, because
the code ranges over a map. Cancel of a key is called at most once per key at a
time, which is how its users call it: the constant `Target` gives each caller a
key, and the instances have one caller.

### Collection

A *name* is the second in which a run was built; a run's file and marker carry
it. `step` is where the run's pipeline is, `stage` which unit. Units are kept
apart where their effects on marker, file, user data or outbox differ and merged
where not: Verify and Collect are `connect`, Ingest and Applications `ingest`,
the four rightsizing units `rightsizing`. Provision, Sync and Finalize are two
steps each, one per effect on disk, so that a crash may fall between them.
`groups` is the set of user changes a database reflects.

Three constants switch hard cases on: `IOFailures` (removing a file or a marker,
creating or migrating a database, reading the main store), `SlowRelease` (the
next unit is submitted before the worker of the previous one is back, so that
Finalize can overtake it) and `SameSecond` (two runs share a name). SlowRelease
stands for the interleaving of `worker.Work` that `Scheduler` has in full: the
result is sent before `done`. A graceful shutdown is StopCollecting followed by
`Crash`; a shutdown that does not get that far is `Crash` alone. Instances with
`SameSecond` have two runs.

### Console

A loop is identified by its channel. `buf` is the number of values in it.
`parked` tells a loop that waits in its `select` from one that has not got there
yet: a value sent to the former goes to it directly, to the latter it stays in
the channel, where the sender itself may take it back. `batch` is what is left
of the snapshot `createPipeline` took, with the status unit as 0. A request that
failed may have reached the console (`SendFails` with `delivered` changed).
There is one outbox; what a promotion does to it is in Collection. Intervals and
the backoff are left out: a tick may come at any time the loop waits, which
covers every interval.

### Console1 and Collection1

`Console1` has a unit per event and, at the end, the clear unit with the `lastID`
of the snapshot (`clear`). `MCConsole` chooses the generation in the initial state,
so both run against the same properties. In `Collection1` a run is numbered like its
timestamp; `file1` says what its database holds, `torn1` which runs a crash cut
off. `GetStatus` derives "collected" from the inventory in the attached database. Removing
a file or a marker may fail, which the code only logs; `left1` are the runs that ended
between the units 7 and 8 with their database still there, after a crash or a failed
removal. `CollectedIsPublished` excepts them by name, `CollectedIsComplete` does not
and fails.

### Inspection and Forecast

A request obtains an inspector from the manager and calls it later, so there may
be several (`insp`). `pipe` is where the pipeline of a VM or a pair is, `job` the
unit a worker is executing, which may be one the pipeline has given up on. In
Forecast a unit is a sequence of calls and each may fail, with or without effect;
`objects` is what exists on the datastores and `leaks` what the code had no way to
know of. Lists of VMs are sets, statuses the last one set. A pool's promises (order,
Finalize last, the finalizer after all) are those Pool2 checks. Any logout may fail. In
Inspection `sessions` are vCenter's: a crash logs nobody out, and `strays` are those
whose logout failed or whose agent died. Finalize of a benchmark deletes two
directories, and any of the deletions may fail.

### Databases and Secrets

`conn` counts connections, `user` is a request with the handle it holds: none,
live, or dead once somebody closed it. A migration and its record are one
transaction. Clone succeeds with the copy complete, or fails and may leave a file when
its removal fails too; it is one step, so that a connection closed in the middle of an
export is not represented. In Secrets a ciphertext is a key and a plain text, so that
decrypting with another key fails as it does in `crypto.go`; a URL keeps what
`NormalizeAndValidateURL` looks at. A change of the master password is two steps, the
verification of the old one and the transaction. The three operations have a set of
privileges each, and `Capabilities` answers for each with its own.

### UserData

A collection database is a record. A transaction is a step, because DuckDB has one
connection; what a handler reads before it is a step before it. An inventory is
the set of VMs it is about, those excluded from it, the labels of its VMs, and whether
it has the cluster utilization. Both ways to build one are there: `SaveInventory` of
unit 8 adds the utilization, the rebuild after a change of an exclusion does not. `view` is what the console
holds after the events it has read; Replay applies the pending ones, the last one
about a subject deciding. The loops over groups are written as functions over the
groups, because each of their steps reads and writes one group only; the events
they add are a list in the order of `SetToSeq`.

### Rightsizing, Comparison and Filter

Metrics are the counters vCenter answered for a VM; batches are cut with the code's
arithmetic. `DiscoverVMs` gives each VM that passes the filter its rank, powered-on
VMs first, instead of appending to two lists: the prover knows nothing of
`SelectSeq`. `GetReport`, `GetVMUtilization` and the other reads are operators over
the stored report. Comparison computes the six lists as the two loops do, with
the flips recorded in the loop over A; a list is what the loop appends at the
positions where its condition holds, in their order (`Picked`), again instead of
`SelectSeq`, and `ORDER BY` is the one increasing enumeration of the ids
(`InOrder`). Filter reads sources character by character
with the lexer's offsets, parses with one operator per method of the parser, and
is compared with `Grammar` and `Means`, the meaning of an expression on a row with
NULLs. `Grammar` is not the parser's code: `DocumentedAtom` is `doc.go`'s grammar, and
`ExtraAtom` what the parser takes besides, each form with its source: the empty list (a
test expects it), `like` (`docs/filter-by-expression.md`), and a regular expression
after any comparison (nothing but the code). `ParseIsGrammar` compares the parser with
both, `ParseIsDocumented` with the first alone, and fails.

## 3. Runs

Bounds are constants; each run says in its cfg which. Requests of
`services` and names of `userdata` are interchangeable and checked up to symmetry. Deadlock is not checked:
every specification allows the system to be idle for good (nobody submits,
starts or connects any more, bounds are used up).

| Run | Bounds | Shows |
|---|---|---|
| `scheduler` | 3 works of priorities 0, 0, 1; 1 + 1 workers; 1 closer | `DoneNeverBlocks`, `DispatchIsWorkConserving`, `CloseIsQuiescent`; nothing starts after `run` has exited (`NothingStartsAfterExit`); Scheduler implements Executor under the mapping of `Status` and `Phase`; every accepted work is resolved if all work returns (`FutureResolves`) |
| `pool2` | 2 pipelines of 2 units, 1 + 1 workers, 2 stoppers, 1 canceller | `FinalizeAlwaysRuns`, `FinalizeSeesLastResult`; what Stop guarantees when it returns (`StopIsFinal`) |
| `pool2_live` | 2 pipelines of 1 unit, 1 stopper, 1 canceller | `StopReturns` |
| `collection` | 2 runs of either kind, 2 crashes, 1 user change, the three switches off | pool, files and markers agree (`RegisteredIsComplete`); ended runs are clean (`EndedIsClean`); `UserDataCarriedOver` |
| `collection_live` | 2 vCenter runs, 1 crash, the three switches on | StopCollecting returns (`StopReturns`), Finalize promotes complete collections only (`PromotionIsComplete`) |
| `console` | either generation, 2 events, 1 loop at a time, 1 restart; failing requests, deletions and pipelines | `NoEventLost`, `DeliveredInOrder`; SetMode and Stop return (`SetModeReturns`), events leave the outbox (`EventsDelivered`) |
| `inspection` | 2 requests, 2 inspectors, 2 pools, 2 VMs of which 1 is inspected at a time, 2 collections, 1 fault, a crash | `SnapshotsAccounted`; a session that nobody will log out is one whose logout failed or whose agent died (`SessionsOwned`); `VddkRowDescribesFolder`; requests end (`RequestsReturn`) |
| `forecast` | 2 requests, 2 pools, 2 pairs (one within a datastore), 2 iterations, 1 fault | `DatastoresClean` but for what nobody could know, `OneForecast`, `StopIsFinal`, `ForecastsEnd` |
| `services` | Databases: 2 requests, 2 collections, 2 migrations, 1 fault. Secrets: 2 requests, 2 passwords, 2 keys, 2 datacenters, one privilege for each of the three operations. Collection1: 2 runs, 2 crashes, removals that fail. Comparison: 3 VMs, every content of two collections, 1 change of exclusion. Filter: every source of up to 4 of 8 characters, every literal of up to 4 characters between quotes, every phrase of up to 5 words, about 1500 conditions | five components that share no state; the initial state says which moves. Databases: `OneConnection`, `LatestUndisturbed`, `ServedIsMigrated`. Secrets: `RecordsReadable`. Collection1: `CollectedIsPublished`. Comparison: `AnswersExact`. Filter: `TokensSpellSource`, `ParseIsGrammar`, `SelectsMeaning` |
| `userdata` | 2 VMs, 1 user label, 2 interchangeable names, 3 requests that each name no VM, both, or one twice, up to 3 collections, 4 requests and promotions together, 2 of the requests on the latest collection (v2), both generations | `InventoriesCurrent`, `ConsoleCatchesUp` |
| `rightsizing` | 2 runs, 3 VMs (powered off, not in the inventory, excluded), batches of 1, 1 fault, a crash | reports are whole when they are served, and list each VM once (`ServedFromWhole`); the collection's wait for its run ends (`CollectorReturns`) |

Each property has a mutant of the code it is about, listed in `PROJECT.json`. The
type invariants (`TypeOK`, `DbTypeOK`, ...) say what the variables hold. Those of
the modules of section 4 are part of what is proved; the others document the
modules and no run repeats them. The inductive invariants of section 4 were
model-checked on the instances above before they were proved.

Two runs, requests or loops are enough for the races: every race in this code is
between two such actors, and the proofs cover any number for most of the safety
properties (section 4). The cap on faults is what keeps the runs finite; one or two of them reach
every error path, because each path is entered from a single failure. A Start that comes while
a Stop waits needs three requests to the forecaster, one more than the run `forecast`
has; the theorem `OneForecastRuns` covers it. Two loops of either console
generation over two events are 9.4 million states, too many for a run that is
repeated often; they hold, and for v2 the proofs cover them. Two crashes let a crash hit the
cleanup after a crash.

### Disagreements between the code and what the repository says

In one run, `collection_late`, TLC finds a behaviour of the code that contradicts
a sentence of the repository, quoted in `PROJECT.json`: stop while a unit is queued
behind a worker not yet released; Finalize overtakes the unit, which then recreates
the removed file; the next start serves the empty database.

The modules state more such sentences, each with its source. They have no run of
their own: to see the behaviour, put the property in
the place of those of the module's cfg (for those of Filter, Databases, Secrets,
Collection1 and Comparison that is `MCServices.cfg`).

| Property | Behaviour |
|---|---|
| `Collection!OneCollectionAtATime` | StartCollecting is accepted before the first unit of a run has set its state, and during Publish, whose state is "collected" |
| `Collection!ServedIsKept` | a crash between `pool.Add` and the deletion of the marker: the next start deletes a complete collection |
| `Collection!FailedIsMarked` | rightsizing errors are not put into the result, Finalize takes them for a cancellation |
| `Collection!InspectorUsesLatest` | an inspection starts on the previous collection between Publish and the promotion |
| `Collection!PublishWritesEvent` | an RVTools collection writes no inventory event (`JobKinds <- RVTools`) |
| `Collection!PendingIsReachable` | events pending in the previous collection are not read after a promotion (`Edits = {e1}`); Publish makes up for them but for emptied groups |
| `Collection!RegisteredIsComplete` | one crash after a failed `os.Remove`, or after a failed listing of the markers (`IOFailures = TRUE` alone), or two runs of one second and a crash (`SameSecond = TRUE` alone): the pool has a file that is not a complete collection, against `store/pool.go:30-32` |
| `Pool2!IdleMeansNoGoroutine` | IsRunning is false while the pool's finalizer runs |
| `Console!DisconnectedIsSilent` | SetMode takes back its own value; the loop keeps sending while disconnected |
| `Console!ConnectedIsServed` | an error of createPipeline ends the loop, the agent stays "connected" (`CreateFailures = TRUE`) |
| `Console!ErrorIsCleared` | an error reported after SetMode cleared it stays (`Outages = TRUE`) |
| `Collection1!CollectedSurvives` | the database of a crashed run is newer and hides the finished one |
| `Collection1!OneCollection1` | Stop forgets the run before it waits for it; Start then overlaps it |
| `Collection1!CollectedIsComplete` | a crash, or an error or stop with a failing `os.Remove`, between the units 7 and 8: the next start says "collected" of an inventory never published |
| `Inspection!OneInspection` | two requests that hold two inspectors both start one |
| `Inspection!NoUploadWhileInspecting` | an inspection starts right after the upload's check |
| `Forecast!CanceledIsShown` | a pair stopped by the user is never shown as canceled |
| `Databases!ClosedStaysClosed` | a request still under way opens a database behind the shutdown |
| `Secrets!RightPasswordAccepted` | records are encrypted with the key file's key and re-encrypted from a key made of the old password, so with a stored record no change of password succeeds |
| `Secrets!OldPasswordNeeded` | the old password is verified before the transaction and not in it: of two changes at once the second replaces a password it was not given |
| `UserData!EmptiedGroupsLeaveConsole` | a group that lost its VMs in a new collection gets no event |
| `UserData!LabelsCurrent` | label changes rebuild no inventory (`vm.go:259-295`), though inventories embed labels (`collector_work.go:362`) |
| `UserData!UtilizationKept` | the first change of an exclusion replaces the inventory by one without cluster utilization (`vm.go:183`), which unit 8 had embedded |
| `Rightsizing!CompletedIsClean` | GetStatus reads the error, then IsRunning; a run that fails in between is completed |
| `Rightsizing!LatestIsCompleted` | a report counts as the latest completed one from its first batch on |
| `Comparison!ExcludedNotCounted` | clusters whose VMs are all excluded are counted |
| `Filter!FieldsCanBeNamed` | identifiers stop at a digit (`lexer.go:42`), though `pkg/filter/doc.go:20` allows digits and `docs/filter-by-expression.md:165` uses `net.ipv4` |
| `Filter!ParseIsDocumented` | the parser takes `a in []` (`doc.go:14` and the comment at `parser.go:190` want a string), `a = /y/` (`doc.go:18`) and `a like 'x'`, and refuses expressions nested too deep |

### Fairness

* `Scheduler!RuntimeFairness`: goroutines that can run do. Cases of `run`'s
  select have strong fairness, because Go chooses at random among ready cases.
* `Scheduler!CooperativeSpec` adds that a work function returns once its context is
  canceled (`pkg/scheduler/doc.go` requires it) and that priority work, which is
  cleanup, returns by itself. Nothing is assumed of other work; `FutureResolves`
  has the premise that every work function returns.
* `Pool2!FairSpec`: the same for the pipelines' goroutines; units return only
  once canceled. Nobody has to call Stop or Cancel.
* `Collection!FairSpec`: runs, the waiting StopCollecting and the startup
  proceed. Starting, stopping, crashing and editing need not happen.
* `Inspection` and `Forecast`: pipelines, workers, finalizers and the code after a
  lock proceed; a unit returns once its context is canceled, a vSphere call returns
  (the client has timeouts). No request has to come, and nothing has to fail.
* `Rightsizing!RsFairSpec`: pipelines, workers and the goroutine that polls
  proceed; stops, crashes and new runs need not happen.
* `Console!Fairness`: callers, loops, pipelines and workers proceed. The strong
  fairness of sending and deleting is an assumption on the environment: a
  console that is tried again and again answers at last. `SetModeReturns` does
  not depend on it.

## 4. Proofs

All are checked by TLAPS, for any value of the constants the `ASSUME`s allow. An
invariant a run checks is rarely inductive alone; what had to be added to it is
named below, and stands in the component's module after its properties.

**Scheduler.** `IndInv` adds to the properties `FutureLifecycle` (where a work
may be, and that its future is empty exactly while it has not been refused or
has not returned), `WaitGroupCounts` and `ClosePhases`. That `done` has room
follows from the conservation of workers,
a result's room from the life cycle of its future, quiescence from the WaitGroup
and how far Close has come. Work conservation needs `DispatchReturn`'s guard and
that nothing else returns `run` to its select; all queued works of one priority
class see the same idle workers, so the head decides. Theorems: `Invariance`,
one per safety property, and `ExitIsFinal` for the action property.

`SchedulerImplementsExecutor` is the refinement that the run `scheduler` checks.
A work's `Status` and the scheduler's `Phase` are the mapping. A step that starts a
worker is the Executor's `Start`, which has the capacity because of `IndInv`: the
busy workers and the free ones make up the two sizes. The steps of the channels
(a result on its way, a worker coming back, a caller in `addWork`) map to a
stutter. Pool2 uses Executor, so its theorems hold of the scheduler the code has.

**Pool2.** `IndInv` ties the pipeline's `pc`, its drainer and `run` to the works
in the scheduler: units are submitted in order and only one is outstanding
(`UnitsInOrder`), Finalize is submitted once and before the pipeline ends
(`FinalizeProgress`), a done event follows its pipeline (`EventsFollowPipelines`),
the pool's finalizer comes after all of them (`PoolFinalizeProgress`) and the
scheduler is closed after it (`ShutdownOrder`). The last one is why no finalizer
is refused: `run` closes the scheduler, and nothing else does. `FinalizeRuns`,
`StopEndsEverything` (for any number of callers) and `LastResultReachesFinalize`
follow.

**Collection.** `TypeCorrect` holds with every switch. `Invariance`,
`ServedIsComplete` and `EndLeavesNothing` assume `Reliable`, all three switches
off: with `SlowRelease` the property is false (`collection_late`), and a failing
`os.Remove` leaves a file nobody accounts for. The argument: names are the runs'
own (`RunsNumbered`), a partial file has a marker (`PartialIsMarked`), the cleanup
at startup knows every marker (`DownIsEmpty`), so what is left for `Register` is
complete; and a run in progress has a `collectionDb` as soon as it has a file
(`LiveRun`), so Finalize can remove it.
`UserDataIsCarriedOver` has the same assumption and adds `SyncInv`: what Clone saw
is in the run's database from the end of Sync on, and a database is complete only
once its run is at Publish. `PromotedIsComplete`, an action property, assumes only that no two runs
are built in the same second: with failing calls and overtaken units a file may be
wrong on disk, but `PromotionInv` (a run that completed and is alive has its file)
does not depend on either, so Finalize never promotes it.

**Console.** `Invariance` needs, for each loop, that the snapshot is a suffix of
the events as far as they are not delivered (`BatchIsSuffix`), that the unit about
to delete has delivered its event (`DeletesDelivered`), and that a loop has no
unit in flight when it makes its next pipeline (`UnitHasPipeline`). From these
`DeleteUpTo` deletes delivered or unknown events only, whatever the other loops
do and whatever is inserted meanwhile. `Invariance1` is the same for the v1
console, which deletes once, up to the last id of its snapshot: `IndInv1` has
`ClearsDelivered` in the place of `DeletesDelivered`. What the loop is to clear is
delivered or still in its snapshot, and the snapshot is empty when the clear unit
begins, so an event inserted after the snapshot has a larger id and stays. That
`lastID` is the largest id of the snapshot rests on the well-founded order of the
naturals (`LastIdIsLast`). `EventsAreNotLost1` and `EventsStayInOrder1` follow.

**Databases.** `DbInv` has the three properties and three facts: the database a
collection run works on is not one requests or the pool know, nor the one it
closes in the end the latest (`JobIsApart`); a request refers to a database of the
pool and has a handle only between Store and its last query (`RequestsApart`); and
a database has exactly the versions it records (`SchemaIsRecorded`). `ClosePrevious` and the idle cleanup then never close what
the latest collection's requests hold.

**Inspection.** `IndInv` needs that requests and pools are bound to inspectors
that exist and those to collections (`Bound`, `BoundToCollections`), that a
pipeline moves only in a pool that was started (`PoolsStarted`), that a snapshot's
name is where its pipeline's Finalize will look (`SnapshotsTracked`), and that one
upload at a time holds the semaphore (`UploadExclusive`). `SessionsAreOwned` is about
every session but the strays, hence says of any crash and any failing logout that it
loses the sessions it concerns and no other. The constants only have
to be finite sets and bounds, with at least one collection.

**Forecast.** `IndInv` says who will delete each object a benchmark has made: the
unit itself its filler VM and its clone, Finalize the image once `s.cleanup` is set
and the directories with the disk once `b.tempDir` is (`DeletedLater`); otherwise
it is one of the leaks. This needs that a worker runs exactly while its pipeline
waits for it or has dropped it (`WorkerFollows`), which call belongs to which unit
(`UnitsCounted`), and that `tempDir` is assigned before a directory can exist
(`TempDirSet`). `StopIsFinal` follows from `PoolEnds`: the scheduler of a pool is
closed after `run` has ended and with no worker left. `OneForecastRuns` has an
invariant of its own: Start and Stop keep `f.mu` from their check of the pool to the
end, and find no pool meanwhile (`MutexKept`), so that Start cannot make one while Stop
waits for the old one. The proofs are for any number of pairs, iterations, requests,
crashes and failing calls.

**Collection1.** `Collection1Inv`: Completed is set by the last unit only and with
the database whole (`Completed1`); what Finalize leaves without it has no file,
unless a crash came first or the removal failed (`Removed1`); the run in progress is not being stopped, so
that it ends by an error or by completing, and a completed run has put an
inventory in use before it is over (`Current1`). The last one is what rules out a status
"collected" of a run that has ended without an inventory.

**Secrets.** `SecretInv`: the agent serves with the key that is in the file, and
while it writes one the file has none, hence no record exists (`KeyInFile` with
`RecordsReadable`); no record is ever under a key made of a master password
(in the type of the row), so a change of password re-encrypts nothing. Where there is no data folder, v2 keeps the records and forgets
the key, and `RecordsReadable` says nothing.

**UserData.** `UserInv` adds two facts to `InventoriesCurrent` and
`ConsoleCatchesUp`, which are about the VMs and exclusions of every inventory, and about the
labels of a collection that is being promoted. A group that is there was created by a request that has been
answered, and one that is not there matches nothing (`GroupsOwned`): hence the
request that creates a group finds no inventory of an earlier one, and an exclusion
misses no group. A collection that is built but not promoted has an event about
every inventory it holds (`Announced`): the console may meanwhile read events of
the old collection, so its view at the promotion is not known, and only events that
decide without regard to it are enough. `Keeps` says what every transaction has to
do and each of them is shown to do it: the database it leaves is current, and
whatever the console held, reading the longer outbox leads to the new inventories
(`TellsCatchUp`, from `LastWins`). The constants only have to be typed, and the
requests finitely many, so that a set of groups has a list.

**Rightsizing.** `RsInv` says, for the unit each run is at, which rows its report has
(`BeforeUnit`): none before the first batch, those of the first `batch - 1` batches
before a batch, all of them before the warnings, and a `Whole` report before the
utilization. Two things make it inductive. The unit a stopped pipeline has dropped
still counts (`UnitOf`), because it may yet commit its transaction, once. And
utilization rows, whenever there are some, belong to a whole report, since no unit
before the last writes any and the last one only follows the others. That is enough
for `ServedFromWhole`: a read that answers has found a utilization row, although it
looked for `written_batch_count > 0`. That a whole report lists every VM once is
arithmetic: the VM at position `j` is in batch `(j - 1) / size + 1`, which is one of
the `ceil(n / size)` (`PositionHasBatch`, `AllBatchesMeasure`). The lists only have
to be lists and the default batch size positive.

**Comparison.** `CmpInv`: as long as nobody has changed an exclusion since the request
or its walk began, the rows it holds are the rows there are, what the walk has read
is the first pages of the lists as they are now, and an answer is the one those
lists give (`ReadIsCurrent`). A change of exclusion makes the request disturbed for
good, since `since` is never above `exclusions`. The rest is about the operators. A
finite set of numbers can be put in order: otherwise there is a smallest number of
elements for which it cannot, and taking the least element away contradicts it
(`OrderExists`, in the place of an induction). Hence the rows list the eligible VMs
once (`ListForComparisonRows`), the loops append each VM of a dimension once
(`DiffSetsExact`; the flips and the VMs absent from A are disjoint), a page continues
the pages before it and the last one ends the list (`PageStep`, `PagesCover`), and
the entries of a summary add up (`EntriesExact`). The VMs are a finite set of
numbers, the default and the largest page size are positive, and a client may ask
for any size.

**Only model-checked.** Liveness and everything under fairness, which the prover
does not do (`FutureResolves`, both `StopReturns`, `SetModeReturns`,
`EventsDelivered`, `RequestsReturn`, `ForecastsEnd`, `CollectorReturns`). And the
three properties of Filter, whose lexer and parser are recursive: what they compute
for every input needs induction over data, which the installed provers cannot
instantiate.

## 5. Not modelled

The content of SQL results, file formats, HTTP, logging, time. What vCenter and
DuckDB answer is a nondeterministic choice, with failures where the code handles
them. Not modelled at all: the inventory, application and export services (one
query, then formatting), the offload registry (table lookups), the v1 inspector,
VDDK and forecaster with `work.Pool` (the v2 ones on the previous library), the
statistics over benchmark runs, the vSphere collector's reads, the conversion to
API types, and generated code. vCenter sessions are in the state of Inspection,
Forecast, Secrets and Rightsizing, not of Collection. `Console.Stop` is modelled
although the v2 ServiceManager does not call it. Outbox events whose payload cannot
be decoded fail like a request that never succeeds; under the strong fairness of
sending they do not occur.

## 6. Plan

Done: the modules above, with the proofs of section 4.

1. `work.Pool` with the v1 inspector and forecaster, and which of Pool2's promises
   it does not make.
2. The offload registry's pair capabilities as operators, with the forecaster's
   strategies.
