------------------------------ MODULE Inspection ------------------------------
(***************************************************************************)
(* Deep inspection, v2: ServiceManager.InspectorService, InspectorService, *)
(* the per-VM work units of inspection_builder.go, the handlers of         *)
(* /inspector and VddkService.Upload.                                      *)
(*                                                                         *)
(* A request first obtains an InspectorService from the manager and calls  *)
(* it later, so several services, each with its own pool, can be alive. A  *)
(* pool is used through what module Pool2 shows of it: the units of a VM   *)
(* run in order, Finalize runs once after them with the last result taken, *)
(* the pool's finalizer runs after every Finalize. A unit whose result was *)
(* dropped by Stop keeps running until the scheduler is closed.            *)
(***************************************************************************)
EXTENDS Integers, FiniteSets

CONSTANTS
    Requests,         \* HTTP requests, each one operation
    VMs,              \* virtual machines that can be selected
    None,
    Old,              \* the VDDK archive of an earlier upload
    Limit,            \* inspectionLimit
    MaxInspectors,    \* bound: InspectorService values created
    MaxPools,         \* bound: pools started
    MaxCollections,   \* bound: collections promoted
    MaxFaults         \* bound: crashes, and store and vCenter calls that fail

ASSUME InspectionAssumption ==
    /\ IsFiniteSet(Requests) /\ IsFiniteSet(VMs)
    /\ None \notin Requests \cup VMs /\ Old \notin Requests \cup {None}
    /\ {Limit, MaxInspectors, MaxPools, MaxCollections,
        MaxFaults} \subseteq Nat
    /\ MaxCollections >= 1

Inspectors == 1..MaxInspectors
Pools == 1..MaxPools
Units == 1..4                    \* validate, snapshot, detect, persist
Free == None

VARIABLES
    latest,           \* pool.Latest(): 0 when there is no collection
    collecting,       \* m.collector is running
    current,          \* m.inspector, 0 for nil
    insp,             \* the InspectorService values
    pipe,             \* the pipelines of each pool, per VM
    run,              \* Pool2.run of each pool
    owner,            \* the inspector of each pool
    req,              \* the requests
    rows,             \* status rows: <<collection, vm>> -> state
    results,          \* persisted results: set of <<collection, vm>>
    snaps,            \* inspection snapshots that exist in vCenter
    sessions,         \* vCenter sessions not logged out, by who holds them
    folder, vddkRow,  \* the vddk folder and the row of the vddk table
    upload,           \* uploadSemaphore
    leaks,            \* history: <<pool, vm>> whose snapshot was lost sight of
    strays,           \* history: sessions whose logout failed or was never made
    torn,             \* history: an upload ended between its writes
    faults

requestVars == <<req>>
managerVars == <<latest, collecting, current>>
poolVars == <<pipe, run, owner>>
sessionVars == <<sessions, strays>>
dataVars == <<rows, results, snaps, sessionVars, leaks>>
vddkVars == <<folder, vddkRow, upload, torn>>
vars == <<managerVars, insp, poolVars, requestVars, dataVars, vddkVars,
          faults>>

Ops == {"start", "stop", "cancel", "upload"}
NoPipe == [pc |-> "none", unit |-> 0, stop |-> FALSE, snap |-> FALSE,
           err |-> FALSE, completed |-> FALSE, zombie |-> 0]
NewPipe == [NoPipe EXCEPT !.pc = "next"]
NoInspector == [coll |-> 0, lock |-> Free, pool |-> 0, open |-> FALSE]
NewRequest == [pc |-> "idle", op |-> "none", vms |-> {}, at |-> 0, todo |-> {},
               pool |-> 0]

InspectorValues == [coll : 0..MaxCollections, open : BOOLEAN,
                    lock : Requests \cup {Free}, pool : {0} \cup Pools]
PipeValues == [pc : {"none", "next", "work", "final", "event", "done"},
               unit : 0..4, stop : BOOLEAN, snap : BOOLEAN, err : BOOLEAN,
               completed : BOOLEAN, zombie : 0..4]
RequestStates == {"idle", "vddk", "lock", "rows", "pipes", "wait", "busy",
                  "extract", "replace", "rename", "save", "done"}
RequestValues == [pc : RequestStates, op : Ops \cup {"none"}, vms : SUBSET VMs,
                  at : {0} \cup Inspectors, todo : SUBSET VMs,
                  pool : {0} \cup Pools]

TypeOK ==
    /\ latest \in 0..MaxCollections /\ collecting \in BOOLEAN
    /\ current \in {0} \cup Inspectors
    /\ insp \in [Inspectors -> InspectorValues]
    /\ pipe \in [Pools -> [VMs -> PipeValues]]
    /\ run \in [Pools -> {"none", "events", "closed"}]
    /\ owner \in [Pools -> {0} \cup Inspectors]
    /\ req \in [Requests -> RequestValues]
    /\ rows \in [(1..MaxCollections) \X VMs ->
            {"none", "pending", "running", "completed", "error", "canceled"}]
    /\ results \subseteq (1..MaxCollections) \X VMs
    /\ snaps \subseteq Pools \X VMs /\ leaks \subseteq Pools \X VMs
    /\ sessions \subseteq Requests \cup Pools
    /\ strays \subseteq Requests \cup Pools
    /\ {folder, vddkRow} \subseteq Requests \cup {None, Old}
    /\ upload \in Requests \cup {Free} /\ torn \in BOOLEAN
    /\ faults \in 0..MaxFaults

\* newServiceManager: no inspector; the collections of earlier runs are
\* registered, and a VDDK may have been uploaded.
Init ==
    /\ latest \in 0..1 /\ collecting = FALSE /\ current = 0
    /\ insp = [i \in Inspectors |-> NoInspector]
    /\ pipe = [p \in Pools |-> [v \in VMs |-> NoPipe]]
    /\ run = [p \in Pools |-> "none"] /\ owner = [p \in Pools |-> 0]
    /\ req = [r \in Requests |-> NewRequest]
    /\ rows = [x \in (1..MaxCollections) \X VMs |-> "none"]
    /\ results = {} /\ snaps = {} /\ sessions = {} /\ leaks = {} /\ strays = {}
    /\ folder \in {None, Old} /\ vddkRow = folder /\ upload = Free /\ torn = FALSE
    /\ faults = 0

\* A call that may fail uses one of the bounded faults.
Fault == faults < MaxFaults /\ faults' = faults + 1

\* vClient.Logout, within ten seconds; its error is ignored, and after a failed
\* logout nobody knows the session any more.
Logout(x) ==
    \/ sessions' = sessions \ {x} /\ UNCHANGED strays
    \/ faults < MaxFaults /\ strays' = strays \cup {x} /\ UNCHANGED sessions

-----------------------------------------------------------------------------
(* ServiceManager *)

\* Pool2.IsRunning: some entry is not Done.
IsRunning(p) == \E v \in VMs : pipe[p][v].pc \notin {"none", "done"}

\* InspectorService.IsBusy takes i.mu, which Start, Stop and Cancel hold.
Unlocked(i) == insp[i].lock = Free
Busy(i) == insp[i].pool # 0 /\ IsRunning(insp[i].pool)

CurrentBusy == current # 0 /\ Busy(current)

Unused(i) == insp[i].coll = 0

Goto(r, to) == req' = [req EXCEPT ![r].pc = to]
Done(r) == req' = [req EXCEPT ![r] = [NewRequest EXCEPT !.pc = "done"]]

\* Where a handler goes once it holds an InspectorService.
NextStep(op) == CASE op = "start" -> "vddk" [] op = "upload" -> "busy"
                  [] OTHER -> "lock"

Bodies(op) == CASE op = "start" -> SUBSET VMs
                [] op = "cancel" -> {{v} : v \in VMs}
                [] OTHER -> {{}}

\* A request arrives with an operation and the VMs of its body and obtains i.
Holds(r, i) ==
    \E op \in Ops : \E vms \in Bodies(op) :
        req' = [req EXCEPT ![r] = [NewRequest EXCEPT
                    !.pc = NextStep(op), !.op = op, !.vms = vms, !.at = i]]

\* InspectorService(), under m.mu: the busy inspector, or a refusal, or a new
\* inspector bound to the latest collection.
InspectorService(r) ==
    /\ req[r].pc = "idle"
    /\ current # 0 => Unlocked(current)
    /\ \/ /\ CurrentBusy
          /\ Holds(r, current)
          /\ UNCHANGED <<current, insp>>
       \/ /\ ~CurrentBusy /\ collecting
          /\ Done(r)
          /\ UNCHANGED <<current, insp>>
       \/ /\ ~CurrentBusy /\ ~collecting /\ latest = 0
          /\ Done(r)
          /\ current' = 0 /\ UNCHANGED insp
       \/ /\ ~CurrentBusy /\ ~collecting /\ latest # 0
          /\ \E i \in Inspectors :
                /\ Unused(i) /\ \A j \in Inspectors : Unused(j) => i <= j
                /\ insp' = [insp EXCEPT ![i] = [NoInspector EXCEPT
                                                 !.coll = latest, !.open = TRUE]]
                /\ current' = i
                /\ Holds(r, i)
    /\ UNCHANGED <<latest, collecting, poolVars, dataVars, vddkVars, faults>>

\* StartCollecting / StartRVTools: refused while the current inspector is busy.
StartCollecting ==
    /\ current # 0 => Unlocked(current)
    /\ ~CurrentBusy
    /\ ~collecting /\ latest < MaxCollections
    /\ collecting' = TRUE
    /\ UNCHANGED <<latest, current, insp, poolVars, requestVars, dataVars,
                   vddkVars, faults>>

\* The run ends: nothing is promoted, or the new collection becomes the latest
\* and (vCenter, not RVTools) the connection of the previous one is closed
\* under whoever still holds its Store2.
CollectionEnds ==
    /\ collecting /\ collecting' = FALSE
    /\ \/ UNCHANGED <<latest, insp>>
       \/ /\ latest' = latest + 1
          /\ \/ UNCHANGED insp
             \/ insp' = [i \in Inspectors |-> [insp[i] EXCEPT !.open = FALSE]]
    /\ UNCHANGED <<current, poolVars, requestVars, dataVars, vddkVars, faults>>

-----------------------------------------------------------------------------
(* InspectorService.Start *)

\* The handler refuses an empty selection and asks for an uploaded VDDK.
CheckRequest(r) ==
    /\ req[r].pc = "vddk"
    /\ IF req[r].vms = {} \/ vddkRow = None THEN Done(r) ELSE Goto(r, "lock")
    /\ UNCHANGED <<managerVars, insp, poolVars, dataVars, vddkVars, faults>>

\* i.mu is taken; busy and limit checks; credentials, login and detector, each
\* of which may fail. A failure after the login logs out again, which may fail.
StartChecks(r) ==
    LET i == req[r].at IN
    /\ req[r].pc = "lock" /\ req[r].op = "start"
    /\ Unlocked(i)
    /\ \/ /\ Busy(i)
          /\ Done(r) /\ UNCHANGED <<insp, sessionVars, faults>>
       \/ /\ ~Busy(i) /\ Cardinality(req[r].vms) > Limit
          /\ Done(r)
          /\ insp' = [insp EXCEPT ![i].pool = 0] /\ UNCHANGED <<sessionVars, faults>>
       \/ /\ ~Busy(i) /\ Cardinality(req[r].vms) <= Limit /\ Fault
          /\ Done(r)
          /\ insp' = [insp EXCEPT ![i].pool = 0]
          /\ \/ UNCHANGED sessionVars
             \/ sessions' = sessions \cup {r} /\ strays' = strays \cup {r}
       \/ /\ ~Busy(i) /\ Cardinality(req[r].vms) <= Limit
          /\ insp' = [insp EXCEPT ![i].pool = 0, ![i].lock = r]
          /\ sessions' = sessions \cup {r}
          /\ req' = [req EXCEPT ![r].pc = "rows", ![r].todo = req[r].vms]
          /\ UNCHANGED <<strays, faults>>
    /\ UNCHANGED <<managerVars, poolVars, rows, results, snaps, leaks,
                   vddkVars>>

\* InspectionStore.Update through inspector i's Store2 ...
Update(i, v, state) ==
    /\ insp[i].open
    /\ rows' = [rows EXCEPT ![<<insp[i].coll, v>>] = state]
    /\ UNCHANGED faults

\* ... which may fail, and always does once the connection was closed.
UpdateFails(i) ==
    /\ IF insp[i].open THEN Fault ELSE UNCHANGED faults
    /\ UNCHANGED rows

\* Mutant: a failed row write returns without the deferred logout.
PendingNoLogout(r) ==
    /\ req[r].pc = "rows" /\ req[r].todo # {}
    /\ UpdateFails(req[r].at)
    /\ Done(r)
    /\ insp' = [insp EXCEPT ![req[r].at].lock = Free]
    /\ UNCHANGED <<managerVars, poolVars, results, snaps, sessionVars, leaks,
                   vddkVars>>

\* Every selected VM is marked pending; a failed write logs out and returns,
\* leaving the rows written before it as they are.
Pending(r) ==
    LET i == req[r].at IN
    /\ req[r].pc = "rows"
    /\ \/ \E v \in req[r].todo :
             /\ Update(i, v, "pending")
             /\ req' = [req EXCEPT ![r].todo = @ \ {v}]
             /\ UNCHANGED <<insp, sessionVars>>
       \/ /\ req[r].todo # {}
          /\ UpdateFails(i)
          /\ Done(r)
          /\ insp' = [insp EXCEPT ![i].lock = Free]
          /\ Logout(r)
    /\ UNCHANGED <<managerVars, poolVars, results, snaps, leaks, vddkVars>>

\* NewPool2(...).Start(): one pipeline per VM; the session now belongs to the
\* pool's finalizer.
StartPool(r) ==
    LET i == req[r].at IN
    /\ req[r].pc = "rows" /\ req[r].todo = {}
    /\ \E p \in Pools :
          /\ run[p] = "none" /\ \A q \in Pools : run[q] = "none" => p <= q
          /\ run' = [run EXCEPT ![p] = "events"]
          /\ pipe' = [pipe EXCEPT ![p] = [v \in VMs |->
                        IF v \in req[r].vms THEN NewPipe ELSE NoPipe]]
          /\ insp' = [insp EXCEPT ![i].pool = p, ![i].lock = Free]
          /\ owner' = [owner EXCEPT ![p] = i]
          /\ sessions' = (sessions \ {r}) \cup {p}
    /\ Done(r)
    /\ UNCHANGED <<managerVars, rows, results, snaps, leaks, strays, vddkVars,
                   faults>>

-----------------------------------------------------------------------------
(* The pipeline of VM v in pool p *)

\* Next and Status: "running" is written, then the tick or, once stop is
\* closed, possibly the end of the loop.
UnitStatus(p, v) ==
    /\ pipe[p][v].pc = "next"
    /\ IF pipe[p][v].unit = 4
       THEN /\ pipe' = [pipe EXCEPT ![p][v].pc = "final"]
            /\ UNCHANGED <<rows, faults>>
       ELSE /\ Update(owner[p], v, "running") \/ UpdateFails(owner[p])
            /\ \/ pipe' = [pipe EXCEPT ![p][v].pc = "work", ![p][v].unit = @ + 1]
               \/ /\ pipe[p][v].stop
                  /\ pipe' = [pipe EXCEPT ![p][v].pc = "final", ![p][v].unit = @ + 1]
    /\ UNCHANGED <<managerVars, insp, run, owner, requestVars, results, snaps,
                   sessionVars, leaks, vddkVars>>

\* VMManager.CreateSnapshot and RemoveSnapshot: tasks of vCenter.
CreateSnapshot(p, v) == snaps' = snaps \cup {<<p, v>>}
RemoveSnapshot(p, v) == snaps' = snaps \ {<<p, v>>}

\* InspectionStore.InsertResult, in a transaction of the persist unit.
InsertResult(p, v) == results' = results \cup {<<insp[owner[p]].coll, v>>}

\* What unit u of (p, v) does outside the agent when it succeeds.
Effect(p, v, u) ==
    /\ IF u = 2 THEN CreateSnapshot(p, v) ELSE UNCHANGED snaps
    /\ IF u = 4 THEN InsertResult(p, v) ELSE UNCHANGED results

\* Units validate, create snapshot, deep inspection and persist: the new result
\* is taken in by the pipeline.
UnitOk(p, v) ==
    LET u == pipe[p][v].unit IN
    /\ pipe[p][v].pc = "work"
    /\ u = 4 => insp[owner[p]].open
    /\ Effect(p, v, u)
    /\ pipe' = [pipe EXCEPT ![p][v].pc = "next",
                            ![p][v].snap = @ \/ u = 2,
                            ![p][v].completed = u = 4]
    /\ UNCHANGED <<managerVars, insp, run, owner, requestVars, rows,
                   sessionVars, leaks, vddkVars, faults>>

\* The unit returns an error: result.Err is set and the loop ends. A snapshot
\* task whose result could not be awaited may still have made the snapshot.
UnitErr(p, v) ==
    LET u == pipe[p][v].unit IN
    /\ pipe[p][v].pc = "work"
    /\ IF u = 4 /\ ~insp[owner[p]].open THEN UNCHANGED faults ELSE Fault
    /\ \/ UNCHANGED <<snaps, leaks>>
       \/ /\ u = 2
          /\ CreateSnapshot(p, v) /\ leaks' = leaks \cup {<<p, v>>}
    /\ pipe' = [pipe EXCEPT ![p][v].pc = "final", ![p][v].err = TRUE]
    /\ UNCHANGED <<managerVars, insp, run, owner, requestVars, rows, results,
                   sessionVars, vddkVars>>

\* stop is seen while the unit runs: future.Stop, its result is not read.
UnitDropped(p, v) ==
    /\ pipe[p][v].pc = "work" /\ pipe[p][v].stop
    /\ pipe' = [pipe EXCEPT ![p][v].pc = "final",
                            ![p][v].zombie = pipe[p][v].unit]
    /\ UNCHANGED <<managerVars, insp, run, owner, requestVars, dataVars, vddkVars, faults>>

\* The dropped unit returns, its work done or cancelled.
ZombieReturns(p, v) ==
    LET u == pipe[p][v].zombie IN
    /\ u # 0
    /\ \/ UNCHANGED <<snaps, results, leaks>>
       \/ /\ u = 4 => insp[owner[p]].open
          /\ Effect(p, v, u)
          /\ leaks' = IF u = 2 THEN leaks \cup {<<p, v>>} ELSE leaks
    /\ pipe' = [pipe EXCEPT ![p][v].zombie = 0]
    /\ UNCHANGED <<managerVars, insp, run, owner, requestVars, rows, sessionVars,
                   vddkVars, faults>>

\* models.TerminalStatus
TerminalStatus(x) == CASE x.err -> "error"
                       [] ~x.err /\ x.completed -> "completed"
                       [] OTHER -> "canceled"

\* Mutant: Finalize removes the snapshot of completed inspections only.
FinalizeCompleted(p, v) ==
    /\ pipe[p][v].pc = "final"
    /\ snaps' = IF pipe[p][v].completed THEN snaps \ {<<p, v>>} ELSE snaps
    /\ Update(owner[p], v, TerminalStatus(pipe[p][v]))
    /\ pipe' = [pipe EXCEPT ![p][v].pc = "event"]
    /\ UNCHANGED <<managerVars, insp, run, owner, requestVars, results, sessionVars,
                   leaks, vddkVars>>

\* Finalize: the snapshot named by the result is removed (a failure is logged),
\* then the terminal status is written (a failure is logged).
Finalize(p, v) ==
    LET known == pipe[p][v].snap IN
    /\ pipe[p][v].pc = "final"
    /\ \/ known /\ RemoveSnapshot(p, v) /\ UNCHANGED leaks
       \/ known /\ faults < MaxFaults
          /\ leaks' = leaks \cup {<<p, v>>} /\ UNCHANGED snaps
       \/ ~known /\ UNCHANGED <<snaps, leaks>>
    /\ Update(owner[p], v, TerminalStatus(pipe[p][v])) \/ UpdateFails(owner[p])
    /\ pipe' = [pipe EXCEPT ![p][v].pc = "event"]
    /\ UNCHANGED <<managerVars, insp, run, owner, requestVars, results, sessionVars,
                   vddkVars>>

\* Pool2.run receives the event of the ended pipeline.
EntryDone(p, v) ==
    /\ pipe[p][v].pc = "event"
    /\ pipe' = [pipe EXCEPT ![p][v].pc = "done"]
    /\ UNCHANGED <<managerVars, insp, run, owner, requestVars, dataVars, vddkVars, faults>>

\* The pool's finalizer logs out of vCenter; done is closed.
PoolFinalizer(p) ==
    /\ run[p] = "events" /\ ~IsRunning(p)
    /\ run' = [run EXCEPT ![p] = "closed"]
    /\ Logout(p)
    /\ UNCHANGED <<managerVars, insp, pipe, owner, requestVars, rows, results, snaps,
                   leaks, vddkVars, faults>>

-----------------------------------------------------------------------------
(* InspectorService.Stop and Cancel *)

\* Stop takes i.mu and keeps it; without a pool there is nothing to stop.
StopLock(r) ==
    LET i == req[r].at IN
    /\ req[r].pc = "lock" /\ req[r].op = "stop" /\ Unlocked(i)
    /\ IF insp[i].pool = 0
       THEN Done(r) /\ UNCHANGED insp
       ELSE /\ insp' = [insp EXCEPT ![i].pool = 0, ![i].lock = r]
            /\ req' = [req EXCEPT ![r].pc = "pipes", ![r].pool = insp[i].pool,
                         ![r].todo = {v \in VMs : pipe[insp[i].pool][v].pc # "none"}]
    /\ UNCHANGED <<managerVars, poolVars, dataVars, vddkVars, faults>>

\* Pipeline2.Stop on one pipeline: its stop channel is closed ...
StopPipe(r) ==
    LET p == req[r].pool IN
    \E v \in req[r].todo :
       /\ req[r].pc = "pipes"
       /\ \A w \in req[r].todo : pipe[p][w].stop => w = v
       /\ ~pipe[p][v].stop
       /\ pipe' = [pipe EXCEPT ![p][v].stop = TRUE]
       /\ UNCHANGED <<managerVars, insp, run, owner, requestVars, dataVars, vddkVars, faults>>

\* ... and the goroutine awaited before the next one is stopped.
PipeStopped(r) ==
    LET p == req[r].pool IN
    \E v \in req[r].todo :
       /\ req[r].pc = "pipes"
       /\ pipe[p][v].stop /\ pipe[p][v].pc \in {"event", "done"}
       /\ req' = [req EXCEPT ![r].todo = @ \ {v}]
       /\ UNCHANGED <<managerVars, insp, poolVars, dataVars, vddkVars, faults>>

\* Mutant: Stop takes the mutex it already holds once more before it returns.
StopReturnLocked(r) ==
    LET p == req[r].pool IN
    /\ req[r].pc = "pipes" /\ req[r].todo = {}
    /\ run[p] = "closed" /\ \A v \in VMs : pipe[p][v].zombie = 0
    /\ insp[req[r].at].lock = Free
    /\ Done(r)
    /\ UNCHANGED <<managerVars, insp, poolVars, dataVars, vddkVars, faults>>

\* Pool2.Stop waits for run, then Scheduler.Close for the units still running.
StopReturn(r) ==
    LET p == req[r].pool IN
    /\ req[r].pc = "pipes" /\ req[r].todo = {}
    /\ run[p] = "closed" /\ \A v \in VMs : pipe[p][v].zombie = 0
    /\ Done(r)
    /\ insp' = [insp EXCEPT ![req[r].at].lock = Free]
    /\ UNCHANGED <<managerVars, poolVars, dataVars, vddkVars, faults>>

\* Cancel takes i.mu and keeps it while the VM's pipeline ends.
CancelLock(r) ==
    LET i == req[r].at
        p == insp[i].pool
    IN \E v \in req[r].vms :
       /\ req[r].pc = "lock" /\ req[r].op = "cancel" /\ Unlocked(i)
       /\ IF ~Busy(i) \/ pipe[p][v].pc \in {"none", "done"}
          THEN Done(r) /\ UNCHANGED <<insp, pipe>>
          ELSE /\ insp' = [insp EXCEPT ![i].lock = r]
               /\ pipe' = [pipe EXCEPT ![p][v].stop = TRUE]
               /\ req' = [req EXCEPT ![r].pc = "wait", ![r].pool = p]
       /\ UNCHANGED <<managerVars, run, owner, dataVars, vddkVars, faults>>

\* CancelCh is closed by Pool2.run once the entry is done.
CancelReturn(r) ==
    /\ req[r].pc = "wait"
    /\ \A v \in req[r].vms : pipe[req[r].pool][v].pc = "done"
    /\ Done(r)
    /\ insp' = [insp EXCEPT ![req[r].at].lock = Free]
    /\ UNCHANGED <<managerVars, poolVars, dataVars, vddkVars, faults>>

-----------------------------------------------------------------------------
(* PutInspectorVddk and VddkService.Upload *)

\* The handler asks the inspector whether it is busy.
UploadAllowed(r) ==
    /\ req[r].pc = "busy" /\ Unlocked(req[r].at)
    /\ IF Busy(req[r].at) THEN Done(r) ELSE Goto(r, "extract")
    /\ UNCHANGED <<managerVars, insp, poolVars, dataVars, vddkVars, faults>>

\* Mutant: uploads do not exclude each other.
UploadStartFree(r) ==
    /\ req[r].pc = "extract"
    /\ Goto(r, "replace")
    /\ UNCHANGED <<managerVars, insp, poolVars, dataVars, vddkVars, faults>>

\* acquireUpload, then extraction into a temporary directory, version check
\* against the latest collection: each may refuse the archive.
UploadStart(r) ==
    /\ req[r].pc = "extract"
    /\ \/ upload # Free /\ Done(r) /\ UNCHANGED <<upload, faults>>
       \/ upload = Free /\ Fault /\ Done(r) /\ UNCHANGED upload
       \/ upload = Free /\ latest # 0 /\ upload' = r /\ Goto(r, "replace")
          /\ UNCHANGED faults
    /\ UNCHANGED <<managerVars, insp, poolVars, dataVars, folder, vddkRow, torn>>

\* os.RemoveAll of the destination, then os.Rename, which may fail.
RemoveOld(r) ==
    /\ req[r].pc = "replace"
    /\ folder' = None /\ Goto(r, "rename")
    /\ UNCHANGED <<managerVars, insp, poolVars, dataVars, vddkRow, upload, torn, faults>>

RenameNew(r) ==
    /\ req[r].pc = "rename"
    /\ \/ /\ folder' = r /\ Goto(r, "save")
          /\ UNCHANGED <<upload, torn, faults>>
       \/ /\ Fault /\ Done(r)
          /\ upload' = Free /\ torn' = TRUE /\ UNCHANGED folder
    /\ UNCHANGED <<managerVars, insp, poolVars, dataVars, vddkRow>>

\* VddkStore.Save, the upsert of the only row; the semaphore is released.
SaveRow(r) ==
    /\ req[r].pc = "save"
    /\ \/ vddkRow' = r /\ torn' = FALSE /\ UNCHANGED faults
       \/ Fault /\ torn' = TRUE /\ UNCHANGED vddkRow
    /\ upload' = Free /\ Done(r)
    /\ UNCHANGED <<managerVars, insp, poolVars, dataVars, folder>>

-----------------------------------------------------------------------------
\* The process dies: requests, services and pools are gone; the databases, the
\* data folder and vCenter keep what they have. A snapshot of a run that was
\* under way has nobody left to remove it, a session nobody left to log it out.
Crash ==
    /\ Fault
    /\ collecting' = FALSE /\ current' = 0
    /\ insp' = [i \in Inspectors |-> [insp[i] EXCEPT !.lock = Free, !.pool = 0,
                                                       !.open = FALSE]]
    /\ req' = [r \in Requests |-> [NewRequest EXCEPT
                 !.pc = IF req[r].pc = "idle" THEN "idle" ELSE "done"]]
    /\ pipe' = [p \in Pools |-> [v \in VMs |->
                 IF pipe[p][v].pc = "none" THEN NoPipe
                 ELSE [NoPipe EXCEPT !.pc = "done"]]]
    /\ run' = [p \in Pools |-> IF run[p] = "none" THEN "none" ELSE "closed"]
    /\ strays' = strays \cup sessions
    /\ leaks' = leaks \cup snaps
    /\ upload' = Free
    /\ torn' = (torn \/ \E r \in Requests : req[r].pc \in {"rename", "save"})
    /\ UNCHANGED <<latest, owner, rows, results, snaps, sessions, folder, vddkRow>>

Handler(r) ==
    \/ CheckRequest(r) \/ StartChecks(r)
    \/ Pending(r) \/ StartPool(r) \/ StopLock(r) \/ StopPipe(r)
    \/ PipeStopped(r) \/ StopReturn(r) \/ CancelLock(r) \/ CancelReturn(r)
    \/ UploadAllowed(r) \/ UploadStart(r) \/ RemoveOld(r) \/ RenameNew(r)
    \/ SaveRow(r)

Pipeline(p, v) ==
    \/ UnitStatus(p, v) \/ UnitOk(p, v) \/ UnitErr(p, v) \/ UnitDropped(p, v)
    \/ ZombieReturns(p, v) \/ Finalize(p, v) \/ EntryDone(p, v)

Next ==
    \/ \E r \in Requests : InspectorService(r) \/ Handler(r)
    \/ \E p \in Pools : PoolFinalizer(p) \/ \E v \in VMs : Pipeline(p, v)
    \/ StartCollecting \/ CollectionEnds \/ Crash

Spec == Init /\ [][Next]_vars

\* A handler whose lock is free goes on, the goroutines of a pool run, vCenter
\* answers; nothing makes requests arrive, collections start or calls fail.
Progress == /\ \A r \in Requests : WF_vars(Handler(r))
            /\ \A p \in Pools : WF_vars(PoolFinalizer(p))
            /\ \A p \in Pools, v \in VMs : WF_vars(Pipeline(p, v))
FairSpec == Spec /\ Progress

-----------------------------------------------------------------------------
(* Properties *)

Ended(p, v) == pipe[p][v].pc \in {"event", "done"}

\* A snapshot made for an inspection outlives the VM's pipeline only when its
\* name never reached Finalize (the unit was dropped by a stop, the wait for
\* the task failed, the process died) or when removing it failed: whatever unit
\* failed later, Finalize removes a snapshot it knows.
SnapshotsAccounted ==
    \A p \in Pools : \A v \in VMs :
        <<p, v>> \in snaps /\ Ended(p, v) => <<p, v>> \in leaks

\* A vCenter session opened by Start has somebody who will log it out: the
\* Start that is still running, by its deferred logout or by handing it to a
\* pool, or a pool whose finalizer has not run. No early return of Start, no stop and no
\* failing unit loses a session; only a logout that failed, whose error the code
\* ignores, or the death of the process leaves one in vCenter.
SessionsOwned ==
    \A x \in sessions \ strays :
        \/ x \in Requests /\ req[x].pc = "rows"
        \/ x \in Pools /\ run[x] = "events"

\* Between uploads the vddk row describes the archive in the vddk folder,
\* unless an upload stopped between replacing the folder and saving the row;
\* the next upload repairs even that.
VddkRowDescribesFolder == upload = Free /\ ~torn => folder = vddkRow

\* Every request is answered: Stop and Cancel wait for pipelines with i.mu
\* held, InspectorService waits for i.mu with m.mu held.
RequestsReturn ==
    \A r \in Requests : req[r].pc # "idle" ~> req[r].pc = "done"

-----------------------------------------------------------------------------
(* The inductive invariant behind the safety properties *)

\* A request that is being served holds an InspectorService of the manager, and
\* a pool belongs to one; both are bound to a collection for good.
Bound(i) == i \in Inspectors /\ insp[i].coll # 0

BoundToCollections ==
    /\ current # 0 => Bound(current)
    /\ \A r \in Requests : req[r].pc \notin {"idle", "done"} => Bound(req[r].at)
    /\ \A p \in Pools :
          /\ run[p] # "none" => Bound(owner[p])
          /\ run[p] = "none" => \A v \in VMs : pipe[p][v] = NoPipe
    /\ collecting => latest < MaxCollections

\* Only a pool that was started is stopped or cancelled.
PoolsStarted ==
    /\ \A i \in Inspectors : insp[i].pool # 0 => run[insp[i].pool] # "none"
    /\ \A r \in Requests : req[r].pc = "pipes" =>
          req[r].pool # 0 /\ run[req[r].pool] # "none"

\* A snapshot that nobody has lost sight of is known to a pipeline whose
\* Finalize is still to come.
SnapshotsTracked ==
    \A p \in Pools : \A v \in VMs :
        <<p, v>> \in snaps \ leaks =>
            pipe[p][v].snap /\ pipe[p][v].pc \in {"next", "work", "final"}

\* One upload at a time replaces the folder and then the row.
UploadExclusive ==
    /\ \A r \in Requests :
          req[r].pc \in {"replace", "rename", "save"} <=> upload = r
    /\ upload # Free /\ req[upload].pc = "replace" /\ ~torn => folder = vddkRow
    /\ upload # Free /\ req[upload].pc = "save" => folder = upload

\* The inductive invariant.
IndInv ==
    /\ TypeOK
    /\ BoundToCollections
    /\ PoolsStarted
    /\ SnapshotsTracked
    /\ SessionsOwned
    /\ UploadExclusive
    /\ VddkRowDescribesFolder

-----------------------------------------------------------------------------
(* What the repository says and the code does not do *)

\* api/v2/openapi.yaml:1073, POST /inspector, 409: "Inspector already running".
\* Two requests that obtained their inspectors before either started one both
\* start: each has its own InspectorService.
OneInspection ==
    \A p, q \in Pools : IsRunning(p) /\ IsRunning(q) => p = q

\* handlers/v2/inspector.go:158: "VDDK upload is not allowed while inspector is
\* running". The check precedes the upload and nothing keeps Start out.
NoUploadWhileInspecting ==
    upload # Free => \A p \in Pools : ~IsRunning(p)
=============================================================================
