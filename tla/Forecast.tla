------------------------------ MODULE Forecast ------------------------------
(***************************************************************************)
(* Storage benchmarks, v2: ForecasterService, the units of                 *)
(* forecast_builder.go, vmStrategy, the calls of DiskManager and           *)
(* DeployFillerImage they make, ForecastStore, and the /forecaster         *)
(* handlers.                                                               *)
(*                                                                         *)
(* The units of a pair share the builder value: a unit that Stop gave up   *)
(* on keeps running, and writes to the builder and to the datastores,      *)
(* while Finalize cleans up. A unit is therefore a sequence of calls made  *)
(* by a worker, next to the pipeline that may or may not still listen.     *)
(***************************************************************************)
EXTENDS Integers, FiniteSets

CONSTANTS
    Requests,         \* HTTP requests, each one operation
    Pairs,            \* datastore pairs
    SameDatastore,    \* the pairs whose source is also their target
    None,
    Limit,            \* maxForecastPairs
    Iterations,       \* req.Iterations
    MaxPools,         \* bound: forecasts started
    MaxFaults         \* bound: crashes, and store and vCenter calls that fail

ASSUME ForecastAssumption ==
    /\ IsFiniteSet(Requests) /\ IsFiniteSet(Pairs) /\ SameDatastore \subseteq Pairs
    /\ None \notin Requests
    /\ {Limit, MaxPools, MaxFaults} \subseteq Nat /\ Iterations \in Nat \ {0}

Pools == 1..MaxPools
Last == 5 + Iterations           \* the unit that only reports completed
Units == 1..Last
Free == None

VARIABLES
    mu,               \* f.mu
    workPool,         \* f.workPool, 0 for nil
    run,              \* Pool2.run of each pool
    sched,            \* the scheduler of each pool
    pipe,             \* the pipeline of each pair
    job,              \* the worker running a unit of the pair, if any
    builder,          \* the forecastBuilder and its vmStrategy
    objects,          \* what exists in vCenter: <<pool, pair, kind>>
    rows,             \* forecast_runs: <<pool, pair, iteration>>
    req,
    sessions,         \* vCenter sessions not logged out, by who holds them
    leaks,            \* history: objects nobody is left to delete
    faults

serviceVars == <<mu, workPool>>
poolVars == <<run, sched>>
vars == <<serviceVars, poolVars, pipe, job, builder, objects, rows, req,
          sessions, leaks, faults>>

NoPipe == [pc |-> "none", unit |-> 0, stop |-> FALSE, err |-> FALSE, runs |-> 0]
NoJob == [unit |-> 0, call |-> "none", dropped |-> FALSE, err |-> FALSE,
          appended |-> FALSE]
NoBuilder == [tempDir |-> FALSE, cleanup |-> FALSE]
NewRequest == [pc |-> "idle", op |-> "none", pairs |-> {}, todo |-> {}, pool |-> 0]
Kinds == {"image", "srcdir", "tgtdir", "disk", "vm", "clone"}
Calls == Kinds \cup {"validate", "host", "cleanup", "tempDir", "destroy", "unclone",
                     "insert", "return", "none"}

PipeValues == [pc : {"none", "next", "work", "teardown", "delete", "event", "done"},
               unit : 0..Last, stop : BOOLEAN, err : BOOLEAN, runs : 0..Iterations]
JobValues == [unit : 0..Last, call : Calls, dropped : BOOLEAN, err : BOOLEAN, appended : BOOLEAN]
BuilderValues == [tempDir : BOOLEAN, cleanup : BOOLEAN]
RequestStates == {"idle", "lock", "login", "pool", "pipes", "cancel", "wait", "done"}
RequestValues == [pc : RequestStates, op : {"none", "start", "stop", "stopPair"},
                  pairs : SUBSET Pairs, todo : SUBSET Pairs, pool : {0} \cup Pools]

TypeOK ==
    /\ mu \in Requests \cup {Free} /\ workPool \in {0} \cup Pools
    /\ run \in [Pools -> {"none", "events", "closed"}]
    /\ sched \in [Pools -> {"none", "open", "closed"}]
    /\ pipe \in [Pools -> [Pairs -> PipeValues]]
    /\ job \in [Pools -> [Pairs -> JobValues]]
    /\ builder \in [Pools -> [Pairs -> BuilderValues]]
    /\ objects \subseteq Pools \X Pairs \X Kinds /\ leaks \subseteq Pools \X Pairs \X Kinds
    /\ rows \subseteq Pools \X Pairs \X (1..Iterations)
    /\ req \in [Requests -> RequestValues]
    /\ sessions \subseteq Requests \cup Pools
    /\ faults \in 0..MaxFaults

\* NewForecasterService
Init ==
    /\ mu = Free /\ workPool = 0
    /\ run = [p \in Pools |-> "none"] /\ sched = run
    /\ pipe = [p \in Pools |-> [x \in Pairs |-> NoPipe]]
    /\ job = [p \in Pools |-> [x \in Pairs |-> NoJob]]
    /\ builder = [p \in Pools |-> [x \in Pairs |-> NoBuilder]]
    /\ objects = {} /\ rows = {} /\ sessions = {} /\ leaks = {}
    /\ req = [r \in Requests |-> NewRequest] /\ faults = 0

Fault == faults < MaxFaults /\ faults' = faults + 1

Goto(r, to) == req' = [req EXCEPT ![r].pc = to]
Done(r) == req' = [req EXCEPT ![r] = [NewRequest EXCEPT !.pc = "done"]]

\* Pool2.IsRunning
IsRunning(p) == \E x \in Pairs : pipe[p][x].pc \notin {"none", "done"}

-----------------------------------------------------------------------------
(* The handlers and ForecasterService *)

StartForecaster(r) ==
    \E pairs \in SUBSET Pairs :
        req' = [req EXCEPT ![r].pc = "lock", ![r].op = "start", ![r].pairs = pairs]

StopForecaster(r) == req' = [req EXCEPT ![r].pc = "lock", ![r].op = "stop"]

StopForecasterPair(r) ==
    \E x \in Pairs :
        req' = [req EXCEPT ![r].pc = "lock", ![r].op = "stopPair", ![r].pairs = {x}]

Arrive(r) ==
    /\ req[r].pc = "idle"
    /\ StartForecaster(r) \/ StopForecaster(r) \/ StopForecasterPair(r)
    /\ UNCHANGED <<serviceVars, poolVars, pipe, job, builder, objects, rows, sessions,
                   leaks, faults>>

\* Start takes f.mu: refused while the pool runs; the previous pool is
\* forgotten before the request is looked at.
StartChecks(r) ==
    LET busy == workPool # 0 /\ IsRunning(workPool)
        fits == req[r].pairs # {} /\ Cardinality(req[r].pairs) <= Limit
    IN
    /\ req[r].pc = "lock" /\ req[r].op = "start" /\ mu = Free
    /\ \/ busy /\ Done(r) /\ UNCHANGED serviceVars
       \/ ~busy /\ ~fits /\ Done(r) /\ workPool' = 0 /\ UNCHANGED mu
       \/ ~busy /\ fits /\ Goto(r, "login") /\ workPool' = 0 /\ mu' = r
    /\ UNCHANGED <<poolVars, pipe, job, builder, objects, rows, sessions, leaks, faults>>

\* Resolve, the URL and NewVsphereClient: with the login there is a session.
StartLogin(r) ==
    /\ req[r].pc = "login"
    /\ \/ Fault /\ Done(r) /\ mu' = Free /\ UNCHANGED sessions
       \/ sessions' = sessions \cup {r} /\ Goto(r, "pool") /\ UNCHANGED <<mu, faults>>
    /\ UNCHANGED <<workPool, poolVars, pipe, job, builder, objects, rows, leaks>>

\* mainStore and NextSessionID (an error logs out, and ignores whether that
\* works), one builder per pair and NewPool2(...).Start(), whose finalizer takes
\* over the session.
StartPool(r) ==
    /\ req[r].pc = "pool"
    /\ \/ /\ Fault
          /\ sessions' \in {sessions, sessions \ {r}}
          /\ UNCHANGED <<workPool, poolVars, pipe>>
       \/ \E p \in Pools :
             /\ run[p] = "none" /\ \A q \in Pools : run[q] = "none" => p <= q
             /\ run' = [run EXCEPT ![p] = "events"]
             /\ sched' = [sched EXCEPT ![p] = "open"]
             /\ pipe' = [pipe EXCEPT ![p] = [x \in Pairs |->
                    IF x \in req[r].pairs THEN [NoPipe EXCEPT !.pc = "next"] ELSE NoPipe]]
             /\ workPool' = p
             /\ sessions' = (sessions \ {r}) \cup {p}
             /\ UNCHANGED faults
    /\ mu' = Free /\ Done(r)
    /\ UNCHANGED <<job, builder, objects, rows, leaks>>

\* Mutant: the mutex is given back before the pool is stopped, as in StopPair.
StopLockShort(r) ==
    /\ req[r].pc = "lock" /\ req[r].op = "stop" /\ mu = Free
    /\ workPool' = 0
    /\ IF workPool = 0
       THEN Done(r)
       ELSE req' = [req EXCEPT ![r].pc = "pipes", ![r].pool = workPool,
                         ![r].todo = {x \in Pairs : pipe[workPool][x].pc # "none"}]
    /\ UNCHANGED <<mu, poolVars, pipe, job, builder, objects, rows, sessions, leaks, faults>>

\* Stop takes f.mu and keeps it until the pool has ended.
StopLock(r) ==
    /\ req[r].pc = "lock" /\ req[r].op = "stop" /\ mu = Free
    /\ workPool' = 0
    /\ IF workPool = 0
       THEN Done(r) /\ UNCHANGED mu
       ELSE /\ mu' = r
            /\ req' = [req EXCEPT ![r].pc = "pipes", ![r].pool = workPool,
                         ![r].todo = {x \in Pairs : pipe[workPool][x].pc # "none"}]
    /\ UNCHANGED <<poolVars, pipe, job, builder, objects, rows, sessions, leaks, faults>>

\* Pipeline2.Stop on one pair after the other, in the order of a Go map.
StopPipe(r) ==
    LET p == req[r].pool IN
    \E x \in req[r].todo :
       /\ req[r].pc = "pipes"
       /\ \A y \in req[r].todo : pipe[p][y].stop => y = x
       /\ ~pipe[p][x].stop
       /\ pipe' = [pipe EXCEPT ![p][x].stop = TRUE]
       /\ UNCHANGED <<serviceVars, poolVars, job, builder, objects, rows, req, sessions,
                      leaks, faults>>

PipeStopped(r) ==
    LET p == req[r].pool IN
    \E x \in req[r].todo :
       /\ req[r].pc = "pipes"
       /\ pipe[p][x].stop /\ pipe[p][x].pc \in {"event", "done"}
       /\ req' = [req EXCEPT ![r].todo = @ \ {x}]
       /\ UNCHANGED <<serviceVars, poolVars, pipe, job, builder, objects, rows, sessions,
                      leaks, faults>>

\* Mutant: the scheduler is closed without waiting for its workers.
StopReturnEarly(r) ==
    LET p == req[r].pool IN
    /\ req[r].pc = "pipes" /\ req[r].todo = {} /\ run[p] = "closed"
    /\ sched' = [sched EXCEPT ![p] = "closed"]
    /\ Done(r) /\ mu' = Free
    /\ UNCHANGED <<workPool, run, pipe, job, builder, objects, rows, sessions, leaks,
                   faults>>

\* Pool2.Stop waits for run, then Scheduler.Close for the units still running.
StopReturn(r) ==
    LET p == req[r].pool IN
    /\ req[r].pc = "pipes" /\ req[r].todo = {} /\ run[p] = "closed"
    /\ \A x \in Pairs : job[p][x] = NoJob
    /\ sched' = [sched EXCEPT ![p] = "closed"]
    /\ Done(r) /\ mu' = Free
    /\ UNCHANGED <<workPool, run, pipe, job, builder, objects, rows, sessions, leaks,
                   faults>>

\* StopPair reads the pool under f.mu and gives the mutex back.
StopPairRead(r) ==
    /\ req[r].pc = "lock" /\ req[r].op = "stopPair" /\ mu = Free
    /\ IF workPool = 0
       THEN Done(r)
       ELSE req' = [req EXCEPT ![r].pc = "cancel", ![r].pool = workPool]
    /\ UNCHANGED <<serviceVars, poolVars, pipe, job, builder, objects, rows, sessions,
                   leaks, faults>>

\* Pool2.Cancel: an unknown or finished pair returns at once.
StopPairCancel(r) ==
    LET p == req[r].pool IN
    \E x \in req[r].pairs :
       /\ req[r].pc = "cancel"
       /\ IF pipe[p][x].pc \in {"none", "done"}
          THEN Done(r) /\ UNCHANGED pipe
          ELSE Goto(r, "wait") /\ pipe' = [pipe EXCEPT ![p][x].stop = TRUE]
       /\ UNCHANGED <<serviceVars, poolVars, job, builder, objects, rows, sessions,
                      leaks, faults>>

StopPairReturn(r) ==
    /\ req[r].pc = "wait"
    /\ \A x \in req[r].pairs : pipe[req[r].pool][x].pc = "done"
    /\ Done(r)
    /\ UNCHANGED <<serviceVars, poolVars, pipe, job, builder, objects, rows, sessions,
                   leaks, faults>>

\* ForecastStore.DeleteRun
DeleteRun(row) == rows' = rows \ {row}

\* DELETE /forecaster/runs/{id}, outside f.mu.
DeleteForecasterRun ==
    \E row \in rows :
       /\ DeleteRun(row)
       /\ UNCHANGED <<serviceVars, poolVars, pipe, job, builder, objects, req, sessions,
                      leaks, faults>>

-----------------------------------------------------------------------------
(* The units of a pair: the calls a worker makes *)

\* Mutant: tempDir is assigned after the directories have been created.
FirstCallDirs(u) == CASE u = 1 -> "validate" [] u = 2 -> "host" [] u = 3 -> "srcdir"
                      [] u = 4 -> "disk" [] u = Last -> "return" [] OTHER -> "clone"

\* The units of build: validate, strategy setup, directories, preparation, one
\* per iteration, completed.
FirstCall(u) == CASE u = 1 -> "validate" [] u = 2 -> "host" [] u = 3 -> "tempDir"
                  [] u = 4 -> "disk" [] u = Last -> "return" [] OTHER -> "clone"

AfterCall(x, c) ==
    CASE c = "host" -> "image"
      [] c = "image" -> "cleanup"
      [] c = "tempDir" -> "srcdir"
      [] c = "srcdir" /\ x \notin SameDatastore -> "tgtdir"
      [] c = "disk" -> "vm"
      [] c = "vm" -> "destroy"
      [] c = "clone" -> "unclone"
      [] c = "unclone" -> "insert"
      [] OTHER -> "return"

\* The directory that holds the clone.
TargetDir(x) == IF x \in SameDatastore THEN "srcdir" ELSE "tgtdir"

\* CreateDisk and CopyDisk need the directory they write to.
Possible(p, x, c) ==
    /\ c \in {"disk", "vm"} => <<p, x, "srcdir">> \in objects
    /\ c = "clone" => {<<p, x, TargetDir(x)>>, <<p, x, "disk">>} \subseteq objects

Create(p, x, kind) == objects' = objects \cup {<<p, x, kind>>}
Delete(p, x, kinds) == objects' = objects \ {<<p, x, k>> : k \in kinds}

\* DeleteDirectory deletes a directory with what it holds.
DeleteDirectory(x, dir) == {dir} \cup (IF dir = "srcdir" THEN {"disk"} ELSE {})
                       \cup (IF dir = TargetDir(x) THEN {"clone"} ELSE {})

\* An object made for a unit whose result nobody reads is one that Finalize may
\* already have looked for.
Unheard(p, x, c) == IF job[p][x].dropped THEN leaks \cup {<<p, x, c>>} ELSE leaks

\* A call that makes one of Kinds.
Makes(p, x, c) ==
    /\ job[p][x].call = c /\ Possible(p, x, c)
    /\ Create(p, x, c) /\ leaks' = Unheard(p, x, c)
    /\ job' = [job EXCEPT ![p][x].call = AfterCall(x, c)]
    /\ UNCHANGED <<serviceVars, poolVars, pipe, builder, rows, req, sessions, faults>>

\* The directory of the filler image, its VMDK and the seed ISO.
DeployFillerImage(p, x) == Makes(p, x, "image")

CreateDirectory(p, x) == Makes(p, x, "srcdir") \/ Makes(p, x, "tgtdir")

CreateDisk(p, x) == Makes(p, x, "disk")

\* FillDisk, up to the filler VM that fills the disk.
FillDisk(p, x) == Makes(p, x, "vm")

\* RunBenchmark is CopyDisk.
CopyDisk(p, x) == Makes(p, x, "clone")

\* The builder is written: b.tempDir before the directories exist, s.cleanup
\* after the image does.
CallAssigns(p, x) ==
    LET c == job[p][x].call IN
    /\ c \in {"tempDir", "cleanup"}
    /\ builder' = [builder EXCEPT ![p][x].tempDir = @ \/ c = "tempDir",
                                  ![p][x].cleanup = @ \/ c = "cleanup"]
    /\ job' = [job EXCEPT ![p][x].call = AfterCall(x, c)]
    /\ UNCHANGED <<serviceVars, poolVars, pipe, objects, rows, req, sessions, leaks, faults>>

\* The lookups of the validation (FindDatacenterForDatastore, DatastoreExists)
\* and of Setup (the host, its pool and folder) before the image is deployed.
Lookup(p, x) ==
    /\ job[p][x].call \in {"validate", "host"}
    /\ job' = [job EXCEPT ![p][x].call = AfterCall(x, job[p][x].call)]
    /\ UNCHANGED <<serviceVars, poolVars, pipe, builder, objects, rows, req, sessions,
                   leaks, faults>>

\* A deletion that only logs its failure.
Deletes(p, x, c, kind) ==
    /\ job[p][x].call = c
    /\ \/ Delete(p, x, {kind}) /\ UNCHANGED <<leaks, faults>>
       \/ Fault /\ leaks' = leaks \cup {<<p, x, kind>>} /\ UNCHANGED objects
    /\ job' = [job EXCEPT ![p][x].call = AfterCall(x, c), ![p][x].appended = c = "unclone"]
    /\ UNCHANGED <<serviceVars, poolVars, pipe, builder, rows, req, sessions>>

\* FillDisk destroys the filler VM whatever happened, with a context of its own.
DestroyVM(p, x) == Deletes(p, x, "destroy", "vm")

\* The clone is deleted with a context of its own; then the run, failed or not,
\* is appended to the result.
DeleteDisk(p, x) == Deletes(p, x, "unclone", "clone")

\* FillDisk gives up waiting for the filler VM: cancelled, deadline, power on.
FillFails(p, x) ==
    /\ job[p][x].call = "destroy" /\ ~job[p][x].err
    /\ IF job[p][x].dropped THEN UNCHANGED faults ELSE Fault
    /\ job' = [job EXCEPT ![p][x].err = TRUE]
    /\ UNCHANGED <<serviceVars, poolVars, pipe, builder, objects, rows, req, sessions, leaks>>

\* ForecastStore.InsertRun in a transaction of the unit's context; a failure is
\* logged and the run is in the result only.
InsertRun(p, x) ==
    /\ job[p][x].call = "insert"
    /\ \/ rows' = rows \cup {<<p, x, job[p][x].unit - 4>>} /\ UNCHANGED faults
       \/ IF job[p][x].dropped THEN UNCHANGED <<rows, faults>> ELSE Fault /\ UNCHANGED rows
    /\ job' = [job EXCEPT ![p][x].call = "return"]
    /\ UNCHANGED <<serviceVars, poolVars, pipe, builder, objects, req, sessions, leaks>>

\* A call fails: the unit returns the error, except that a failed benchmark is
\* recorded in its run and the unit goes on. What the call was to make may exist
\* all the same, when only the wait for the task failed; DeployFillerImage
\* cleans up behind itself, nobody knows of the filler VM.
CallFails(p, x) ==
    LET c == job[p][x].call
        made == c \in {"srcdir", "tgtdir", "disk", "vm", "clone"}
    IN
    /\ c \in Kinds \cup {"validate", "host"}
    /\ IF job[p][x].dropped \/ ~Possible(p, x, c) THEN UNCHANGED faults ELSE Fault
    /\ \/ UNCHANGED <<objects, leaks>>
       \/ /\ made /\ Possible(p, x, c)
          /\ Create(p, x, c)
          /\ leaks' = IF c = "vm" THEN leaks \cup {<<p, x, c>>} ELSE Unheard(p, x, c)
    /\ job' = [job EXCEPT ![p][x].call = IF c = "clone" THEN "unclone" ELSE "return",
                          ![p][x].err = c # "clone"]
    /\ UNCHANGED <<serviceVars, poolVars, pipe, builder, rows, req, sessions>>

Worker(p, x) ==
    \/ Lookup(p, x) \/ CallAssigns(p, x)
    \/ DeployFillerImage(p, x) \/ CreateDirectory(p, x) \/ CreateDisk(p, x)
    \/ FillDisk(p, x) \/ CopyDisk(p, x) \/ DestroyVM(p, x) \/ DeleteDisk(p, x)
    \/ FillFails(p, x) \/ InsertRun(p, x) \/ CallFails(p, x)

-----------------------------------------------------------------------------
(* The pipeline of pair x in pool p *)

\* Next and Status, then the tick or, once stop is closed, possibly the end.
UnitStart(p, x) ==
    LET u == pipe[p][x].unit + 1 IN
    /\ pipe[p][x].pc = "next"
    /\ \/ /\ pipe[p][x].unit = Last
          /\ pipe' = [pipe EXCEPT ![p][x].pc = "teardown"] /\ UNCHANGED job
       \/ /\ pipe[p][x].unit # Last
          /\ pipe' = [pipe EXCEPT ![p][x].pc = "work", ![p][x].unit = u]
          /\ job' = [job EXCEPT ![p][x] = [NoJob EXCEPT !.unit = u, !.call = FirstCall(u)]]
       \/ /\ pipe[p][x].unit # Last /\ pipe[p][x].stop
          /\ pipe' = [pipe EXCEPT ![p][x].pc = "teardown", ![p][x].unit = u] /\ UNCHANGED job
    /\ UNCHANGED <<serviceVars, poolVars, builder, objects, rows, req, sessions, leaks, faults>>

\* The unit returns; the pipeline takes its result in, or nobody does.
UnitReturn(p, x) ==
    LET j == job[p][x]
        runs == IF j.appended THEN 1 ELSE 0
    IN
    /\ j.call = "return"
    /\ job' = [job EXCEPT ![p][x] = NoJob]
    /\ pipe' = IF j.dropped THEN pipe
               ELSE [pipe EXCEPT ![p][x].pc = IF j.err THEN "teardown" ELSE "next",
                                 ![p][x].err = j.err, ![p][x].runs = @ + runs]
    /\ UNCHANGED <<serviceVars, poolVars, builder, objects, rows, req, sessions, leaks, faults>>

\* stop is seen while the unit runs: its context is cancelled, its result is
\* not read; an image it has deployed but not handed over is not found.
UnitDropped(p, x) ==
    /\ pipe[p][x].pc = "work" /\ pipe[p][x].stop
    /\ pipe' = [pipe EXCEPT ![p][x].pc = "teardown"]
    /\ job' = [job EXCEPT ![p][x].dropped = TRUE]
    /\ leaks' = IF job[p][x].call = "cleanup" THEN leaks \cup {<<p, x, "image">>} ELSE leaks
    /\ UNCHANGED <<serviceVars, poolVars, builder, objects, rows, req, sessions, faults>>

\* finalize, first part: vmStrategy.Teardown deletes the filler image.
Teardown(p, x) ==
    /\ pipe[p][x].pc = "teardown"
    /\ \/ ~builder[p][x].cleanup /\ UNCHANGED <<objects, leaks, faults>>
       \/ builder[p][x].cleanup /\ Delete(p, x, {"image"}) /\ UNCHANGED <<leaks, faults>>
       \/ /\ builder[p][x].cleanup /\ Fault
          /\ leaks' = leaks \cup {<<p, x, "image">>} /\ UNCHANGED objects
    /\ builder' = [builder EXCEPT ![p][x].cleanup = FALSE]
    /\ pipe' = [pipe EXCEPT ![p][x].pc = "delete"]
    /\ UNCHANGED <<serviceVars, poolVars, job, rows, req, sessions>>

\* finalize, second part: both directories, each deletion only logs a failure.
DeleteDirs(p, x) ==
    LET Gone(dirs) == Delete(p, x, UNION {DeleteDirectory(x, d) : d \in dirs})
        both == {"srcdir", "tgtdir"}
    IN
    /\ pipe[p][x].pc = "delete"
    /\ \/ ~builder[p][x].tempDir /\ UNCHANGED <<objects, leaks, faults>>
       \/ builder[p][x].tempDir /\ Gone(both) /\ UNCHANGED <<leaks, faults>>
       \/ \E kept \in SUBSET both \ {{}} :
             /\ builder[p][x].tempDir /\ Fault
             /\ Gone(both \ kept)
             /\ leaks' = leaks \cup
                   {<<p, x, k>> : k \in UNION {DeleteDirectory(x, d) : d \in kept}}
    /\ pipe' = [pipe EXCEPT ![p][x].pc = "event"]
    /\ UNCHANGED <<serviceVars, poolVars, job, builder, rows, req, sessions>>

\* Pool2.run receives the event of the ended pipeline.
EntryDone(p, x) ==
    /\ pipe[p][x].pc = "event"
    /\ pipe' = [pipe EXCEPT ![p][x].pc = "done"]
    /\ UNCHANGED <<serviceVars, poolVars, job, builder, objects, rows, req, sessions, leaks,
                   faults>>

\* The result of a logout is ignored.
Logout(s) == \/ sessions' = sessions \ {s} /\ UNCHANGED faults
             \/ Fault /\ UNCHANGED sessions

\* Mutant: run misses the last event.
PoolFinalizerStuck(p) ==
    /\ run[p] = "events" /\ ~IsRunning(p) /\ \A x \in Pairs : ~pipe[p][x].stop
    /\ run' = [run EXCEPT ![p] = "closed"]
    /\ Logout(p)
    /\ UNCHANGED <<serviceVars, sched, pipe, job, builder, objects, rows, req, leaks>>

\* The pool's finalizer logs out of vCenter; done is closed.
PoolFinalizer(p) ==
    /\ run[p] = "events" /\ ~IsRunning(p)
    /\ run' = [run EXCEPT ![p] = "closed"]
    /\ Logout(p)
    /\ UNCHANGED <<serviceVars, sched, pipe, job, builder, objects, rows, req, leaks>>

\* The process dies: vCenter and the database keep what they have.
Crash ==
    /\ Fault
    /\ mu' = Free /\ workPool' = 0
    /\ req' = [r \in Requests |-> [NewRequest EXCEPT
                 !.pc = IF req[r].pc = "idle" THEN "idle" ELSE "done"]]
    /\ pipe' = [p \in Pools |-> [x \in Pairs |->
                 IF pipe[p][x].pc = "none" THEN NoPipe ELSE [NoPipe EXCEPT !.pc = "done"]]]
    /\ job' = [p \in Pools |-> [x \in Pairs |-> NoJob]]
    /\ run' = [p \in Pools |-> IF run[p] = "none" THEN "none" ELSE "closed"]
    /\ sched' = [p \in Pools |-> IF sched[p] = "none" THEN "none" ELSE "closed"]
    /\ leaks' = leaks \cup objects
    /\ UNCHANGED <<builder, objects, rows, sessions>>

Handler(r) ==
    \/ StartChecks(r) \/ StartLogin(r) \/ StartPool(r)
    \/ StopLock(r) \/ StopPipe(r) \/ PipeStopped(r) \/ StopReturn(r)
    \/ StopPairRead(r) \/ StopPairCancel(r) \/ StopPairReturn(r)

Pipeline(p, x) ==
    \/ UnitStart(p, x) \/ UnitReturn(p, x) \/ UnitDropped(p, x)
    \/ Teardown(p, x) \/ DeleteDirs(p, x) \/ EntryDone(p, x)

Next ==
    \/ \E r \in Requests : Arrive(r) \/ Handler(r)
    \/ \E p \in Pools : PoolFinalizer(p)
                        \/ \E x \in Pairs : Pipeline(p, x) \/ Worker(p, x)
    \/ DeleteForecasterRun \/ Crash

Spec == Init /\ [][Next]_vars

\* A handler goes on once it can, the goroutines of a pool run, a call to
\* vCenter returns (FillDisk has its own deadline). Nothing makes requests
\* arrive or calls fail.
Progress == /\ \A r \in Requests : WF_vars(Handler(r))
            /\ \A p \in Pools : WF_vars(PoolFinalizer(p))
            /\ \A p \in Pools, x \in Pairs :
                  WF_vars(Pipeline(p, x)) /\ WF_vars(Worker(p, x))
FairSpec == Spec /\ Progress

-----------------------------------------------------------------------------
(* Properties *)

\* What GetStatus shows of a pair: the state its last unit set, or error once
\* the whole pool has ended.
Shown(p, x) ==
    CASE ~IsRunning(p) /\ pipe[p][x].err -> "error"
      [] pipe[p][x].unit = Last -> "completed"
      [] pipe[p][x].unit \in 5..(4 + Iterations) -> "running"
      [] OTHER -> "preparing"

\* What a benchmark makes on the datastores (filler image and VM, directories,
\* disk, clone) is gone when its pair has ended, whichever unit failed and
\* wherever a directory was half made. What remains is what a dropped unit made
\* behind Finalize's back, what a deletion failed on, the VM of a creation whose
\* task could not be awaited, and what a crash left.
DatastoresClean ==
    \A p \in Pools : \A x \in Pairs :
        pipe[p][x].pc \in {"event", "done"} /\ job[p][x] = NoJob =>
            {o \in objects : o[1] = p /\ o[2] = x} \subseteq leaks

\* When Stop has returned nothing of that forecast touches the datastores or the
\* run table any more, the units it dropped included: Close waits for them.
StopIsFinal ==
    [][\A p \in Pools : sched[p] = "closed" =>
          /\ \A o \in objects' \ objects : o[1] # p
          /\ \A row \in rows' \ rows : row[1] # p]_vars

\* One forecast at a time, and one that can be stopped: a pair is benchmarked in
\* the pool of f.workPool, which Stop and StopPair find, or in the one that a Stop
\* is waiting for with f.mu held, although Stop has cleared f.workPool by then and
\* Start looks at nothing else.
OneForecast ==
    /\ \A p, q \in Pools : IsRunning(p) /\ IsRunning(q) => p = q
    /\ \A p \in Pools : IsRunning(p) =>
          \/ workPool = p
          \/ \E r \in Requests : mu = r /\ req[r].pc = "pipes" /\ req[r].pool = p

\* Every forecast ends: its pool runs its finalizer, whatever is stopped or fails.
ForecastsEnd == \A p \in Pools : run[p] = "events" ~> run[p] = "closed"

-----------------------------------------------------------------------------
(* The inductive invariant of Forecast_proofs *)

\* The pipeline waits for its unit exactly while one runs that was not dropped;
\* a dropped one goes on next to Finalize and after it.
WorkerFollows(P, j) ==
    /\ P.pc = "work" => j.call # "none" /\ ~j.dropped /\ j.unit = P.unit
    /\ j # NoJob => IF j.dropped THEN P.pc \in {"teardown", "delete", "event", "done"}
                    ELSE P.pc = "work"
    /\ j.call = "none" => j = NoJob

\* Where in the sequence of units a call is made; a run is appended once per
\* iteration.
UnitsCounted(P, j) ==
    /\ j.call = "tempDir" => j.unit = 3
    /\ j.call \in {"srcdir", "tgtdir", "disk"} => j.unit >= 3
    /\ j.call \in {"clone", "unclone", "insert"} \/ j.appended => j.unit \in 5..(4 + Iterations)
    /\ P.runs > 0 => P.runs + (IF P.pc = "work" THEN 5 ELSE 4) <= P.unit

\* b.tempDir is set before the first directory may exist.
TempDirSet(P, j, b) ==
    /\ P.pc = "work" /\ (P.unit > 3 \/ (P.unit = 3 /\ j.call # "tempDir")) => b.tempDir
    /\ P.pc = "next" /\ P.unit >= 3 => b.tempDir

\* The objects of pair x in pool p that somebody still has to delete.
Owed(p, x, k) == <<p, x, k>> \in objects /\ <<p, x, k>> \notin leaks

\* Who will delete an object of kind k: the unit itself its VM and its clone,
\* Finalize the image once s.cleanup is set, and the directories with the disk.
DeletedLater(k, P, j, b) ==
    /\ k = "vm" => j.call = "destroy"
    /\ k = "clone" => j.call = "unclone"
    /\ k = "image" => \/ j.call = "cleanup" /\ ~j.dropped
                      \/ b.cleanup /\ P.pc \in {"next", "work", "teardown"}
    /\ k \in {"srcdir", "tgtdir", "disk"} =>
          b.tempDir /\ P.pc \in {"next", "work", "teardown", "delete"}

ObjectsOwed(p, x) ==
    \A k \in Kinds : Owed(p, x, k) => DeletedLater(k, pipe[p][x], job[p][x], builder[p][x])

PairInv(p, x) ==
    /\ WorkerFollows(pipe[p][x], job[p][x])
    /\ UnitsCounted(pipe[p][x], job[p][x])
    /\ TempDirSet(pipe[p][x], job[p][x], builder[p][x])
    /\ ObjectsOwed(p, x)

\* A pool moves from its start to its end, and its scheduler is closed after it.
PoolEnds(p) ==
    /\ run[p] = "none" => sched[p] = "none" /\ \A x \in Pairs : pipe[p][x].pc = "none"
    /\ run[p] = "closed" => \A x \in Pairs : pipe[p][x].pc \in {"none", "done"}
    /\ sched[p] = "closed" => run[p] = "closed" /\ \A x \in Pairs : job[p][x] = NoJob

\* A request that stops something knows its pool.
RequestsBound ==
    \A r \in Requests : req[r].pc \in {"pipes", "cancel", "wait"} => req[r].pool \in Pools

IndInv == /\ TypeOK /\ RequestsBound
          /\ \A p \in Pools : PoolEnds(p)
          /\ \A p \in Pools : \A x \in Pairs : PairInv(p, x)

\* Start and Stop work on a service without a pool, and keep f.mu meanwhile.
MutexKept ==
    \A r \in Requests : req[r].pc \in {"login", "pool", "pipes"} => mu = r /\ workPool = 0

ServiceInv == MutexKept /\ OneForecast

-----------------------------------------------------------------------------
(* What the repository says and the code does not do *)

\* handlers/v2/forecaster.go, StopForecasterPair answers with state "canceled",
\* a state of ForecastPairStatus in api/v2/openapi.yaml. GetStatus never shows
\* it: the pair keeps the state of the unit that was running.
CanceledIsShown ==
    \A p \in Pools : \A x \in Pairs :
        pipe[p][x].pc = "done" => Shown(p, x) \in {"completed", "canceled", "error"}
=============================================================================
