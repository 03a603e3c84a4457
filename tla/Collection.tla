----------------------------- MODULE Collection -----------------------------
(***************************************************************************)
(* The life of a collection: ServiceManager, CollectorService, the work    *)
(* units of the vCenter and RVTools factories, the collections table       *)
(* ("markers"), the database files, store.Pool and the startup of the      *)
(* agent.  A run is one Pipeline2 on its own scheduler (1, 0).             *)
(*                                                                         *)
(* What survives a crash: marker, file, groups, outbox (and delivered,     *)
(* which is the console's).  Everything else belongs to the process.       *)
(***************************************************************************)
EXTENDS Integers, Sequences, FiniteSets

CONSTANTS
    MaxRuns,        \* bound: collections started
    MaxCrashes,     \* bound: crashes of the agent
    Edits,          \* user changes made to the latest collection
    JobKinds,       \* "vcenter", "rvtools"
    IOFailures,     \* removing a file or a marker, migrating may fail
    SlowRelease,    \* a unit may be submitted before the worker of the
                    \* previous one is back in the scheduler's list
    SameSecond      \* two runs may be built in the same second (instances
                    \* then have two runs: a third could remove the file that
                    \* the first one still has open)

ASSUME CollectionAssumption ==
    /\ MaxRuns \in Nat /\ MaxCrashes \in Nat
    /\ JobKinds \subseteq {"vcenter", "rvtools"}
    /\ {IOFailures, SlowRelease, SameSecond} \subseteq BOOLEAN

Runs == 1..MaxRuns
Names == 1..MaxRuns       \* collection_<unix second>; 0 is no collection

VARIABLES
    marker, file, groups, outbox,  \* per name: on disk
    delivered,                     \* events the console has received
    agent,                         \* process: down, cleaning, up
    stale,                         \* markers cleanupStaleCollections has left
    registered, latest,            \* store.Pool
    served,                        \* history: names that were ever registered
    current, stopping,             \* m.collector; run StopCollecting waits for
    inspector, inspected,          \* m.inspector: state and its collection
    started, clock, crashes, edited,
    kind, name,                    \* per run: what it was built as
    step, stage, stop, late,       \* per run: Pipeline2 and its scheduler
    result,                        \* per run: progress.result and err
    handle,                        \* per run: collectionDb # nil
    snapshot                       \* per run: the clone of the previous one

diskVars == <<marker, file, groups, outbox, delivered>>
poolVars == <<registered, latest, served>>
managerVars == <<current, stopping, inspector, inspected>>
builtVars == <<started, clock, kind, name>>
runVars == <<step, stage, stop, late, result, handle, snapshot>>
envVars == <<crashes, edited>>
vars == <<diskVars, agent, stale, poolVars, managerVars, builtVars, runVars, envVars>>

\* The work units of a run.  "connect" is Verify and Collect, "ingest" is
\* Ingest and Applications, "rightsizing" is 6a to 6d.
Pipeline(k) ==
    IF k = "vcenter"
    THEN <<"provision", "connect", "ingest", "rightsizing", "sync",
           "inventory", "publish">>
    ELSE <<"provision", "ingest", "inventory", "publish">>

Last(r) == Len(Pipeline(kind[r]))
Unit(r) == Pipeline(kind[r])[stage[r]]

Steps == {"new", "next", "tick", "queued", "running", "opening", "syncing",
          "finalize", "finalizing", "done", "gone"}
Results == {"ok", "completed", "error", "swallowed"}
Events == Edits \cup {<<"inventory", n>> : n \in Names}

DiskOK ==
    /\ marker \in [Names -> {"none", "running", "failed"}]
    /\ file \in [Names -> {"none", "partial", "complete"}]

DataOK ==
    /\ groups \in [Names -> SUBSET Edits] /\ snapshot \in [Runs -> SUBSET Edits]
    /\ outbox \in [Names -> SUBSET Events]
    /\ delivered \subseteq Events /\ edited \subseteq Edits

ProcessOK ==
    /\ agent \in {"down", "cleaning", "up"} /\ stale \subseteq Names
    /\ registered \subseteq Names /\ served \subseteq Names
    /\ latest \in Names \cup {0} /\ inspected \in Names \cup {0}
    /\ current \in Runs \cup {0} /\ stopping \in Runs \cup {0}
    /\ inspector \in {"nil", "idle", "busy"}
    /\ crashes \in 0..MaxCrashes

RunsOK ==
    /\ started \in 0..MaxRuns /\ clock \in 0..started
    /\ kind \in [Runs -> {"vcenter", "rvtools"}]
    /\ name \in [Runs -> Names \cup {0}]
    /\ step \in [Runs -> Steps] /\ stage \in [Runs -> 0..7]
    /\ stop \in [Runs -> BOOLEAN] /\ late \in [Runs -> BOOLEAN]
    /\ result \in [Runs -> Results] /\ handle \in [Runs -> BOOLEAN]
    /\ \A r \in Runs : step[r] # "new" => name[r] \in Names

TypeOK == DiskOK /\ DataOK /\ ProcessOK /\ RunsOK

Init ==
    /\ marker = [n \in Names |-> "none"] /\ file = [n \in Names |-> "none"]
    /\ groups = [n \in Names |-> {}] /\ outbox = [n \in Names |-> {}]
    /\ delivered = {} /\ agent = "up" /\ stale = {}
    /\ registered = {} /\ served = {} /\ latest = 0
    /\ current = 0 /\ stopping = 0 /\ inspector = "nil" /\ inspected = 0
    /\ started = 0 /\ clock = 0 /\ crashes = 0 /\ edited = {}
    /\ kind = [r \in Runs |-> "vcenter"] /\ name = [r \in Runs |-> 0]
    /\ step = [r \in Runs |-> "new"] /\ stage = [r \in Runs |-> 0]
    /\ stop = [r \in Runs |-> FALSE] /\ late = [r \in Runs |-> FALSE]
    /\ result = [r \in Runs |-> "ok"] /\ handle = [r \in Runs |-> FALSE]
    /\ snapshot = [r \in Runs |-> {}]

Live(r) == step[r] \notin {"new", "done", "gone"}

-----------------------------------------------------------------------------
(* ServiceManager.  m.mu is held for the whole of each call; StopCollecting
   waits while it holds it. *)

Locked == stopping # 0

\* CollectorService.GetStatus and CollectorStateType.IsRunning: no state is
\* set before the first unit, an error hides the state, and the unit Publish
\* shows "collected".
IsRunning(r) ==
    /\ result[r] \notin {"error", "swallowed"}
    /\ stage[r] \in 1..(Last(r) - 1)

\* The guards shared by StartCollecting, StartRVToolsCollecting.
Idle ==
    /\ ~ Locked
    /\ inspector # "busy"
    /\ current # 0 => ~ IsRunning(current)

\* The name is the second in which Build was called.
StartCollecting(k) ==
    LET r == started + 1 IN
    /\ agent = "up" /\ Idle
    /\ started < MaxRuns /\ k \in JobKinds
    /\ started' = r /\ current' = r
    /\ clock' \in {clock + 1} \cup (IF SameSecond THEN {clock} \ {0} ELSE {})
    /\ kind' = [kind EXCEPT ![r] = k] /\ name' = [name EXCEPT ![r] = clock']
    /\ step' = [step EXCEPT ![r] = "next"]
    /\ UNCHANGED <<diskVars, agent, stale, poolVars, stopping, inspector, inspected,
                   stage, stop, late, result, handle, snapshot, envVars>>

StopCollecting ==
    /\ agent = "up" /\ ~ Locked /\ current # 0
    /\ stopping' = current
    /\ stop' = [stop EXCEPT ![current] = TRUE]
    /\ UNCHANGED <<diskVars, agent, stale, poolVars, current, inspector, inspected,
                   builtVars, step, stage, late, result, handle, snapshot, envVars>>

\* p.Stop, the drainer and sched.Close have returned.
StopReturn ==
    /\ Locked
    /\ step[stopping] = "done" /\ ~ late[stopping]
    /\ stopping' = 0 /\ current' = 0
    /\ UNCHANGED <<diskVars, agent, stale, poolVars, inspector, inspected,
                   builtVars, runVars, envVars>>

\* InspectorService: the busy inspector, or a new one on the latest collection.
InspectorService ==
    /\ agent = "up" /\ ~ Locked
    /\ inspector # "busy"
    /\ current # 0 => ~ IsRunning(current)
    /\ latest # 0
    /\ inspector' = "idle" /\ inspected' = latest
    /\ UNCHANGED <<diskVars, agent, stale, poolVars, current, stopping,
                   builtVars, runVars, envVars>>

\* The caller starts the inspector it was given; the inspection ends and the
\* inspector is not busy any more.
InspectorStart ==
    /\ inspector = "idle" /\ inspector' = "busy"
    /\ UNCHANGED <<diskVars, agent, stale, poolVars, current, stopping, inspected,
                   builtVars, runVars, envVars>>

InspectorEnd ==
    /\ inspector = "busy" /\ inspector' = "nil"
    /\ inspected' = 0
    /\ UNCHANGED <<diskVars, agent, stale, poolVars, current, stopping,
                   builtVars, runVars, envVars>>

-----------------------------------------------------------------------------
(* Pipeline2 of run r, on a scheduler with one worker. *)

Unbuilt == <<agent, stale, poolVars, managerVars, builtVars, envVars>>

\* builder.Next and setState.
NextUnit(r) ==
    /\ step[r] = "next"
    /\ IF stage[r] < Last(r)
       THEN /\ stage' = [stage EXCEPT ![r] = @ + 1]
            /\ step' = [step EXCEPT ![r] = "tick"]
       ELSE /\ step' = [step EXCEPT ![r] = "finalize"]
            /\ UNCHANGED stage
    /\ UNCHANGED <<diskVars, Unbuilt, stop, late, result, handle, snapshot>>

\* The tick, then AddWork; or stop.
SubmitUnit(r) ==
    /\ step[r] = "tick"
    /\ \/ step' = [step EXCEPT ![r] = "queued"]
       \/ stop[r] /\ step' = [step EXCEPT ![r] = "finalize"]
    /\ UNCHANGED <<diskVars, Unbuilt, stage, stop, late, result, handle, snapshot>>

\* The worker is free and takes the unit.  Or stop is seen while it is not:
\* Finalize is submitted with priority 1 and overtakes the unit, which stays
\* in the queue.
Dispatch(r) ==
    /\ step[r] = "queued"
    /\ \/ /\ step' = [step EXCEPT ![r] = "running"]
          /\ UNCHANGED late
       \/ /\ SlowRelease /\ stop[r] /\ stage[r] > 1
          /\ step' = [step EXCEPT ![r] = "finalize"]
          /\ late' = [late EXCEPT ![r] = TRUE]
    /\ UNCHANGED <<diskVars, Unbuilt, stage, stop, result, handle, snapshot>>

\* The unit returns res.  The loop takes the result in, or it saw stop first
\* and the result is dropped; Finalize needs the worker either way.
Return(r, res) ==
    \/ /\ result' = [result EXCEPT ![r] = res]
       /\ step' = [step EXCEPT ![r] =
              IF res \in {"error", "swallowed"} THEN "finalize" ELSE "next"]
    \/ /\ stop[r]
       /\ step' = [step EXCEPT ![r] = "finalize"]
       /\ UNCHANGED result

Running(r, u) == step[r] = "running" /\ Unit(r) = u

Keep == UNCHANGED <<Unbuilt, stage, stop, late, snapshot>>

\* Mutant: the database file is created before the marker.
CreateMarkerLate(r) ==
    /\ Running(r, "provision")
    /\ file' = [file EXCEPT ![name[r]] = "partial"]
    /\ handle' = [handle EXCEPT ![r] = TRUE]
    /\ step' = [step EXCEPT ![r] = "opening"]
    /\ UNCHANGED <<marker, groups, outbox, delivered, result>>
    /\ Keep

\* Mutant: Provision asks the ServiceManager for the credentials, under m.mu.
CreateMarkerLocks(r) ==
    /\ Running(r, "provision") /\ ~ Locked
    /\ \/ /\ marker[name[r]] = "none"
          /\ marker' = [marker EXCEPT ![name[r]] = "running"]
          /\ step' = [step EXCEPT ![r] = "opening"]
          /\ UNCHANGED result
       \/ Return(r, "error") /\ UNCHANGED marker
    /\ UNCHANGED <<file, groups, outbox, delivered, handle>>
    /\ Keep

\* Provision, first half: resolve credentials and insert the marker, whose
\* primary key is the name.
CreateMarker(r) ==
    /\ Running(r, "provision")
    /\ \/ /\ marker[name[r]] = "none"
          /\ marker' = [marker EXCEPT ![name[r]] = "running"]
          /\ step' = [step EXCEPT ![r] = "opening"]
          /\ UNCHANGED result
       \/ Return(r, "error") /\ UNCHANGED marker
    /\ UNCHANGED <<file, groups, outbox, delivered, handle>>
    /\ Keep

\* Provision, second half: NewDatabase creates the file or opens the one that
\* is there, and Migrate.  When NewDatabase fails, collectionDb is nil and the
\* file may be there all the same; when Migrate fails, collectionDb is not nil.
CreateFile(r) ==
    LET opened == [file EXCEPT ![name[r]] = IF @ = "none" THEN "partial" ELSE @] IN
    /\ step[r] = "opening"
    /\ \/ /\ file' = opened
          /\ handle' = [handle EXCEPT ![r] = TRUE]
          /\ Return(r, "ok") \/ Return(r, "error")
       \/ /\ file' \in {file} \cup (IF IOFailures THEN {opened} ELSE {})
          /\ Return(r, "error")
          /\ UNCHANGED handle
    /\ UNCHANGED <<marker, groups, outbox, delivered>>
    /\ Keep

\* Verify and Collect, Ingest and Applications, Inventory.
Gather(r) ==
    /\ \E u \in {"connect", "ingest", "inventory"} : Running(r, u)
    /\ Return(r, "ok") \/ Return(r, "error")
    /\ UNCHANGED <<diskVars, handle>>
    /\ Keep

\* 6a to 6d return an error without setting r.Err.
Rightsizing(r) ==
    /\ Running(r, "rightsizing")
    /\ Return(r, "ok") \/ Return(r, "swallowed")
    /\ UNCHANGED <<diskVars, handle>>
    /\ Keep

\* Sync, first half: clone the previous collection, if there is one.
Clone(r) ==
    /\ Running(r, "sync")
    /\ \/ /\ latest # 0
          /\ snapshot' = [snapshot EXCEPT ![r] = groups[latest]]
          /\ step' = [step EXCEPT ![r] = "syncing"]
          /\ UNCHANGED result
       \/ /\ latest = 0 /\ Return(r, "ok")
          /\ UNCHANGED snapshot
       \/ /\ latest # 0 /\ Return(r, "error")
          /\ UNCHANGED snapshot
    /\ UNCHANGED <<diskVars, Unbuilt, stage, stop, late, handle>>

\* Mutant: an error of SyncAttached is only logged.
SyncUnchecked(r) ==
    /\ step[r] = "syncing"
    /\ groups' \in {groups, [groups EXCEPT ![name[r]] = @ \cup snapshot[r]]}
    /\ Return(r, "ok")
    /\ UNCHANGED <<marker, file, outbox, delivered, handle>>
    /\ Keep

\* Sync, second half: SyncAttached in one transaction, RefreshGroupInventories.
Sync(r) ==
    /\ step[r] = "syncing"
    /\ \/ /\ groups' = [groups EXCEPT ![name[r]] = @ \cup snapshot[r]]
          /\ Return(r, "ok") \/ Return(r, "error")
       \/ Return(r, "error") /\ UNCHANGED groups
    /\ UNCHANGED <<marker, file, outbox, delivered, handle>>
    /\ Keep

\* Publish: the inventory event and one for each group whose inventory
\* changed (those with a match, as no inventory is copied); the RVTools
\* factory writes none.  Completed is set.
Publish(r) ==
    /\ Running(r, "publish")
    /\ \/ /\ file' = [file EXCEPT ![name[r]] = "complete"]
          /\ IF kind[r] = "vcenter"
             THEN \E changed \in SUBSET groups[name[r]] :
                    outbox' = [outbox EXCEPT ![name[r]] =
                                  @ \cup {<<"inventory", name[r]>>} \cup changed]
             ELSE UNCHANGED outbox
          /\ Return(r, "completed")
       \/ /\ kind[r] = "vcenter" /\ Return(r, "error")
          /\ UNCHANGED <<file, outbox>>
    /\ UNCHANGED <<marker, groups, delivered, handle>>
    /\ Keep

UnitStep(r) ==
    \/ CreateMarker(r) \/ CreateFile(r) \/ Gather(r) \/ Rightsizing(r)
    \/ Clone(r) \/ Sync(r) \/ Publish(r)

-----------------------------------------------------------------------------
(* Finalize of both factories: two effects on disk with a crash possible
   between them.  A failure is logged and the next statement runs. *)

FilesWithout(n) ==
    /\ file' = [file EXCEPT ![n] = "none"]
    /\ groups' = [groups EXCEPT ![n] = {}]
    /\ outbox' = [outbox EXCEPT ![n] = {}]

\* Close and os.Remove, when there is a collectionDb.
RemoveFile(r) ==
    \/ handle[r] /\ FilesWithout(name[r])
    \/ (~ handle[r] \/ IOFailures) /\ UNCHANGED <<file, groups, outbox>>

DeleteMarker(n) ==
    \/ marker' = [marker EXCEPT ![n] = "none"]
    \/ IOFailures /\ UNCHANGED marker

\* UPDATE ... WHERE state = 'running'.
MarkFailed(n) ==
    \/ marker' = [marker EXCEPT ![n] = IF @ = "running" THEN "failed" ELSE @]
    \/ IOFailures /\ UNCHANGED marker

Promote(n) ==
    /\ registered' = registered \cup {n}
    /\ latest' = n
    /\ served' = served \cup {n}

\* Mutant: whatever the result, the collection is added to the pool.
FinalizeAlways(r) ==
    /\ step[r] = "finalize"
    /\ step' = [step EXCEPT ![r] = "finalizing"]
    /\ Promote(name[r])
    /\ UNCHANGED <<diskVars, agent, stale, managerVars, builtVars, envVars,
                   stage, stop, late, result, handle, snapshot>>

\* The first effect: pool.Add (the previous collection is closed after it),
\* MarkFailed, or the removal of the file.  Without the main database Finalize
\* returns at once.
Finalize(r) ==
    /\ step[r] = "finalize"
    /\ step' = [step EXCEPT ![r] = "finalizing"]
    /\ \/ /\ result[r] = "completed" /\ Promote(name[r])
          /\ UNCHANGED <<marker, file, groups, outbox>>
       \/ /\ result[r] = "error" /\ MarkFailed(name[r])
          /\ UNCHANGED <<poolVars, file, groups, outbox>>
       \/ /\ result[r] \in {"ok", "swallowed"} /\ RemoveFile(r)
          /\ UNCHANGED <<poolVars, marker>>
    /\ UNCHANGED <<delivered, agent, stale, managerVars, builtVars, envVars,
                   stage, stop, late, result, handle, snapshot>>

FinalizeFails(r) ==
    /\ IOFailures /\ step[r] = "finalize"
    /\ step' = [step EXCEPT ![r] = "done"]
    /\ UNCHANGED <<diskVars, Unbuilt, stage, stop, late, result, handle, snapshot>>

\* Mutant: the file of a failed collection is left behind.
FinalizeRestKeep(r) ==
    /\ step[r] = "finalizing"
    /\ step' = [step EXCEPT ![r] = "done"]
    /\ IF result[r] = "error" THEN UNCHANGED marker ELSE DeleteMarker(name[r])
    /\ UNCHANGED <<file, groups, outbox, delivered, Unbuilt,
                   stage, stop, late, result, handle, snapshot>>

\* The second one: the marker, or the file of a failed collection.
FinalizeRest(r) ==
    /\ step[r] = "finalizing"
    /\ step' = [step EXCEPT ![r] = "done"]
    /\ IF result[r] = "error"
       THEN RemoveFile(r) /\ UNCHANGED marker
       ELSE DeleteMarker(name[r]) /\ UNCHANGED <<file, groups, outbox>>
    /\ UNCHANGED <<delivered, Unbuilt, stage, stop, late, result, handle, snapshot>>

\* The overtaken unit starts after Finalize, on a canceled context: those
\* that ask collectionDb for its Store open, and so create, the file.  Or the
\* scheduler is closed before that.
LateUnit(r) ==
    /\ step[r] = "done" /\ late[r]
    /\ late' = [late EXCEPT ![r] = FALSE]
    /\ \/ /\ Unit(r) \in {"ingest", "rightsizing", "inventory", "publish"}
          /\ file' = [file EXCEPT ![name[r]] = IF @ = "none" THEN "partial" ELSE @]
       \/ UNCHANGED file
    /\ UNCHANGED <<marker, groups, outbox, delivered, Unbuilt,
                   step, stage, stop, result, handle, snapshot>>

-----------------------------------------------------------------------------
(* The agent's process. *)

Crash ==
    /\ agent # "down" /\ crashes < MaxCrashes
    /\ agent' = "down" /\ crashes' = crashes + 1
    /\ stale' = {} /\ registered' = {} /\ latest' = 0
    /\ current' = 0 /\ stopping' = 0 /\ inspector' = "nil" /\ inspected' = 0
    /\ step' = [r \in Runs |-> IF step[r] = "new" THEN "new" ELSE "gone"]
    /\ late' = [r \in Runs |-> FALSE]
    /\ UNCHANGED <<diskVars, served, edited, builtVars, stage, stop, result, handle, snapshot>>

Booting == <<delivered, served, managerVars, builtVars, runVars, envVars>>

\* cleanupStaleCollections lists the markers; when it cannot, initPool goes on.
Boot ==
    /\ agent = "down"
    /\ agent' = "cleaning"
    /\ \/ stale' = {n \in Names : marker[n] # "none"}
       \/ IOFailures /\ stale' = {}
    /\ UNCHANGED <<marker, file, groups, outbox, registered, latest, Booting>>

\* For each of them: remove the file, then the marker; `continue` on failure.
CleanupStale(n) ==
    /\ agent = "cleaning" /\ n \in stale
    /\ \/ /\ file[n] # "none" /\ FilesWithout(n)
          /\ UNCHANGED <<marker, stale>>
       \/ /\ file[n] = "none"
          /\ marker' = [marker EXCEPT ![n] = "none"]
          /\ stale' = stale \ {n}
          /\ UNCHANGED <<file, groups, outbox>>
       \/ /\ IOFailures
          /\ stale' = stale \ {n}
          /\ UNCHANGED <<marker, file, groups, outbox>>
    /\ UNCHANGED <<agent, registered, latest, Booting>>

OnDisk == {n \in Names : file[n] # "none"}

\* initPool: every collection_<second>.duckdb that can be migrated is added,
\* oldest first.
Register ==
    /\ agent = "cleaning" /\ stale = {}
    /\ agent' = "up"
    /\ \/ registered' = OnDisk
       \/ IOFailures /\ registered' \in SUBSET OnDisk
    /\ latest' \in registered' \cup {0}
    /\ \A n \in registered' : n <= latest'
    /\ latest' = 0 => registered' = {}
    /\ served' = served \cup registered'
    /\ UNCHANGED <<marker, file, groups, outbox, stale, delivered, managerVars,
                   builtVars, runVars, envVars>>

-----------------------------------------------------------------------------
(* Users and the console work on the latest collection. *)

\* The change and its event, in one transaction (GroupService); a new group
\* without a VM has no event.
Edit(e) ==
    /\ agent = "up" /\ latest # 0 /\ e \notin edited
    /\ edited' = edited \cup {e}
    /\ groups' = [groups EXCEPT ![latest] = @ \cup {e}]
    /\ \/ outbox' = [outbox EXCEPT ![latest] = @ \cup {e}]
       \/ UNCHANGED outbox
    /\ UNCHANGED <<marker, file, delivered, crashes, agent, stale, poolVars,
                   managerVars, builtVars, runVars>>

\* Console: the events of LatestEventService are sent, then deleted.
Deliver ==
    /\ agent = "up" /\ latest # 0 /\ outbox[latest] # {}
    /\ delivered' = delivered \cup outbox[latest]
    /\ outbox' = [outbox EXCEPT ![latest] = {}]
    /\ UNCHANGED <<marker, file, groups, agent, stale, poolVars, managerVars,
                   builtVars, runVars, envVars>>

-----------------------------------------------------------------------------
RunStep(r) ==
    \/ NextUnit(r) \/ SubmitUnit(r) \/ Dispatch(r) \/ UnitStep(r)
    \/ Finalize(r) \/ FinalizeFails(r) \/ FinalizeRest(r) \/ LateUnit(r)

Startup == Boot \/ Register \/ \E n \in Names : CleanupStale(n)

Next ==
    \/ \E k \in JobKinds : StartCollecting(k)
    \/ StopCollecting \/ StopReturn
    \/ InspectorService \/ InspectorStart \/ InspectorEnd
    \/ \E r \in Runs : RunStep(r)
    \/ Crash \/ Startup
    \/ (\E e \in Edits : Edit(e)) \/ Deliver

Spec == Init /\ [][Next]_vars

\* Goroutines keep running and units return; the caller of StopCollecting is
\* a goroutine too.  Nobody has to start or stop anything.
FairSpec ==
    /\ Spec
    /\ \A r \in Runs : WF_vars(RunStep(r))
    /\ WF_vars(StopReturn) /\ WF_vars(Startup)

-----------------------------------------------------------------------------
(* Properties. *)

\* "an in-progress collection database must not be exposed to readers until
\* the collection is complete" (internal/store/pool.go): every collection in
\* the pool went through Publish and has its file, across crashes, restarts,
\* failed and stopped runs.
RegisteredIsComplete == \A n \in registered : file[n] = "complete"

\* A run that ended leaves a complete collection without a marker, or no file
\* and at most a marker of the failure, however many effects of it were made
\* before it failed or was stopped.
EndedRun(r) ==
    IF result[r] = "completed"
    THEN file[name[r]] = "complete" /\ marker[name[r]] = "none"
    ELSE /\ file[name[r]] = "none"
         /\ marker[name[r]] # "none" => result[r] = "error"

EndedIsClean == \A r \in Runs : step[r] = "done" => EndedRun(r)

\* What the two rest on, when nothing breaks them: runs have names of their
\* own and are in step with the disk.
Reliable == ~ IOFailures /\ ~ SlowRelease /\ ~ SameSecond

RunsNumbered ==
    /\ clock = started
    /\ \A r \in Runs :
        /\ step[r] = "new" <=> r > started
        /\ step[r] = "new" => ~ handle[r] /\ stage[r] = 0 /\ result[r] = "ok"
        /\ r <= started => name[r] = r
        /\ ~ late[r]
    /\ \A n \in Names : file[n] # "none" => n <= started

\* No run and no pool without a process; cleanup knows every marker.
DownIsEmpty ==
    /\ agent # "up" => registered = {} /\ \A r \in Runs : step[r] \in {"new", "gone"}
    /\ agent = "cleaning" => \A n \in Names : marker[n] # "none" => n \in stale

\* The marker outlives every partial file.
PartialIsMarked == \A n \in Names : file[n] = "partial" => marker[n] # "none"

\* A run in progress: collectionDb is nil only before Provision succeeded, and
\* then there is no file; there is a marker as soon as there may be a file;
\* nothing of it is in the pool before Finalize adds it.
LiveRun(r) ==
    /\ ~ handle[r] =>
          /\ file[name[r]] = "none"
          /\ \/ stage[r] = 0 /\ step[r] = "next"
             \/ stage[r] = 1 /\ step[r] \in {"tick", "queued", "running", "opening"}
             \/ step[r] \in {"finalize", "finalizing"}
    /\ handle[r] \/ step[r] = "opening" => marker[name[r]] # "none"
    /\ result[r] = "completed" => file[name[r]] = "complete"
    /\ name[r] \in registered => step[r] = "finalizing" /\ result[r] = "completed"
    /\ step[r] = "finalizing" /\ result[r] \in {"ok", "swallowed"}
          => file[name[r]] = "none"

LiveRuns == \A r \in Runs : Live(r) => LiveRun(r)

IndInv ==
    /\ TypeOK /\ RunsNumbered /\ DownIsEmpty /\ PartialIsMarked
    /\ RegisteredIsComplete /\ LiveRuns /\ EndedIsClean

\* Finalize promotes only what Publish completed, also when units fail, runs
\* overlap, share a name or are overtaken by Finalize: a name a running agent newly
\* registers has a complete file at that moment. It is not about a file that is already
\* registered and that a second run of the same second then removes, nor about what the
\* next start registers.
PromotionIsComplete ==
    [][\A n \in registered' \ registered : agent = "up" => file[n] = "complete"]_vars

\* "a collection without user data (groups, labels, exclusion flags) is
\* considered invalid and should not be published" (collector_work.go): one that
\* is served has every change the previous collection had when Sync cloned it.
UserDataCarriedOver ==
    \A r \in Runs : kind[r] = "vcenter" /\ name[r] \in registered
        => snapshot[r] \subseteq groups[name[r]]

\* What UserDataCarriedOver rests on besides IndInv: a vCenter run has cloned
\* nothing before Sync and all it cloned is in its database once Sync is behind
\* it, while only Publish, the last unit, makes the database complete.
SyncProgress(r) ==
    /\ step[r] = "new" => snapshot[r] = {}
    /\ step[r] \in {"tick", "queued", "running"} => stage[r] \in 1..Last(r)
    /\ step[r] = "opening" => stage[r] = 1
    /\ step[r] = "syncing" => stage[r] = 5
    /\ kind[r] = "vcenter" /\ step[r] \in {"next", "tick", "queued", "running", "opening"} =>
          IF stage[r] > 5 \/ (stage[r] = 5 /\ step[r] = "next")
          THEN snapshot[r] \subseteq groups[name[r]]
          ELSE snapshot[r] = {}
    /\ Live(r) /\ file[name[r]] = "complete" => stage[r] = Last(r)
    /\ step[r] # "new" /\ kind[r] = "vcenter" /\ file[name[r]] = "complete" =>
          snapshot[r] \subseteq groups[name[r]]

SyncInv == \A r \in Runs : SyncProgress(r)

\* What PromotionIsComplete rests on, also when calls fail and Finalize overtakes
\* a unit: runs have names of their own, none is alive without the process, and
\* a completed one that is alive has its file.
PromotionInv ==
    /\ TypeOK
    /\ clock = started
    /\ \A r \in Runs :
          /\ step[r] = "new" <=> r > started
          /\ step[r] = "new" => result[r] = "ok"
          /\ r <= started => name[r] = r
          /\ agent # "up" => ~ Live(r)
          /\ Live(r) /\ result[r] = "completed" => file[name[r]] = "complete"

\* StopCollecting, which waits for the run with m.mu held, returns.
StopReturns == Locked ~> ~ Locked

-----------------------------------------------------------------------------
(* What the repository says and the code does not do. *)

\* "Only one collection can be in progress at a time" (services/v1/doc.go;
\* api/v2/openapi.yaml: 409 "Collection already in progress").
OneCollectionAtATime ==
    Cardinality({r \in Runs :
        step[r] \in {"queued", "running", "opening", "syncing"}}) <= 1

\* "Finalize either promotes the collection DB into the pool (success), marks
\* it failed (error), or cleans it up (cancelled)" (collector_work.go).
FailedIsMarked ==
    \A r \in Runs :
        (step[r] = "done" /\ handle[r] /\ result[r] \in {"error", "swallowed"})
            => marker[name[r]] = "failed"

\* "InspectorService must use the latest collection" (manager.go).
InspectorUsesLatest == inspector = "busy" => inspected = latest

\* "Any row in the collections table at startup is stale, successful
\* collections delete their marker during finalize" (cmd/run.go): a collection
\* that was served is served again after a restart.
ServedIsKept == agent = "up" => served \subseteq registered

\* "Publish: write an inventory-update event to the outbox" (rvtools_work.go).
PublishWritesEvent ==
    \A r \in Runs : (step[r] = "done" /\ result[r] = "completed")
        => <<"inventory", name[r]>> \in outbox[name[r]] \cup delivered

\* "the event sits in the outbox until it can be delivered"
\* (docs/scheduler-and-pipelines.md): the event of a user's change that is not
\* delivered is in the outbox the console reads, that of the latest collection.
PendingIsReachable ==
    \A n \in registered \ {latest} :
        outbox[n] \cap Edits \subseteq delivered \cup outbox[latest]
=============================================================================
