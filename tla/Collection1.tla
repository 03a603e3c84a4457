----------------------------- MODULE Collection1 -----------------------------
(***************************************************************************)
(* The collection of an agent that serves API v1: CollectorService, its    *)
(* eight work units and Finalize, the store's attached databases and the   *)
(* startup of the agent.  A run is one Pipeline2 on a scheduler with one   *)
(* worker, as in Collection; the collection is terminal, and nothing is    *)
(* cleaned up when the agent starts.                                       *)
(*                                                                         *)
(* A run is named by the second it was built in; here runs have names of   *)
(* their own, in their order.  A unit that Finalize overtakes finds its    *)
(* store gone and touches nothing.                                         *)
(***************************************************************************)
EXTENDS Integers

CONSTANTS
    MaxRuns1,         \* bound: collections started
    MaxCrashes1       \* bound: crashes of the agent

ASSUME Collection1Assumption == MaxRuns1 \in Nat /\ MaxCrashes1 \in Nat

Runs1 == 1..MaxRuns1

VARIABLES
    marker1,          \* per run: its row of the table collections
    file1,            \* per run: its database: what is in it
    left1,            \* history: runs whose database was left behind: they were
                      \* in progress at a crash, or os.Remove failed
    up1, crashes1,    \* the process
    current1,         \* the database in use, 0 for the agent's own
    started1,
    pipeline1,        \* c.pipeline, c.sched and c.done; 0 for nil
    stopping1,        \* runs a caller of Stop waits for
    step1, stage1,    \* per run: Pipeline2
    result1           \* per run: progress.result and err

diskVars1 == <<marker1, file1, left1>>
processVars1 == <<up1, crashes1, current1, started1, pipeline1, stopping1>>
collectionVars1 == <<diskVars1, processVars1, step1, stage1, result1>>

\* "connecting" to "collected" of the units, in order: create, verify, collect,
\* ingest, applications, rightsizing, inventory, publish.
UnitStatus1 == <<"connecting", "connecting", "collecting", "parsing", "parsing",
                 "rightsizing", "parsing", "collected">>

\* "flawed" is r.Err without an error, "unattached" an error of Finalize.
Results1 == {"ok", "flawed", "error", "completed", "unattached"}

Live1(r) == step1[r] \notin {"new", "done", "gone"}

\* The types; a unit exists for every stage.
LegacyTypeOK ==
    /\ marker1 \in [Runs1 -> {"none", "running", "failed"}]
    /\ file1 \in [Runs1 -> {"none", "partial", "inventory", "whole"}]
    /\ left1 \subseteq 1..started1 /\ up1 \in BOOLEAN /\ crashes1 \in 0..MaxCrashes1
    /\ started1 \in 0..MaxRuns1 /\ current1 \in 0..started1
    /\ pipeline1 \in 0..started1 /\ stopping1 \subseteq 1..started1
    /\ step1 \in [Runs1 -> {"new", "next", "queued", "running", "opening",
                            "finalize", "finalizing", "done", "gone"}]
    /\ stage1 \in [Runs1 -> 0..8] /\ result1 \in [Runs1 -> Results1]

Collection1Init ==
    /\ marker1 = [r \in Runs1 |-> "none"] /\ file1 = [r \in Runs1 |-> "none"]
    /\ left1 = {} /\ up1 = TRUE /\ crashes1 = 0 /\ current1 = 0 /\ started1 = 0
    /\ pipeline1 = 0 /\ stopping1 = {}
    /\ step1 = [r \in Runs1 |-> "new"] /\ stage1 = [r \in Runs1 |-> 0]
    /\ result1 = [r \in Runs1 |-> "ok"]

-----------------------------------------------------------------------------
(* CollectorService and its handlers. *)

\* InventoryStore.Get on the database in use.
HasInventory1 == current1 # 0 /\ file1[current1] \in {"inventory", "whole"}

GetStatus1 ==
    CASE HasInventory1 -> "collected"
      [] ~HasInventory1 /\ pipeline1 = 0 -> "ready"
      [] ~HasInventory1 /\ pipeline1 # 0 /\ result1[pipeline1] \notin {"ok", "completed"} -> "error"
      [] OTHER -> IF stage1[pipeline1] = 0 THEN "" ELSE UnitStatus1[stage1[pipeline1]]

\* A collected inventory makes it a no-op, a run in progress an error.
Start1 ==
    LET r == started1 + 1 IN
    /\ up1 /\ r \in Runs1
    /\ ~HasInventory1
    /\ pipeline1 # 0 => ~Live1(pipeline1)
    /\ started1' = r /\ pipeline1' = r
    /\ step1' = [step1 EXCEPT ![r] = "next"]
    /\ UNCHANGED <<diskVars1, up1, crashes1, current1, stopping1, stage1, result1>>

\* StartCollector: inline credentials are stored first (Secrets); a body that is
\* refused changes nothing.
StartCollector == Start1

\* Stop forgets the run, then waits for it without the lock.
Stop1Collection ==
    /\ up1 /\ pipeline1 # 0
    /\ stopping1' = stopping1 \cup {pipeline1}
    /\ pipeline1' = 0
    /\ UNCHANGED <<diskVars1, up1, crashes1, current1, started1, step1, stage1, result1>>

\* p.Stop, the drainer and s.Close returned.
StopReturn1(r) ==
    /\ r \in stopping1 /\ step1[r] = "done"
    /\ stopping1' = stopping1 \ {r}
    /\ UNCHANGED <<diskVars1, up1, crashes1, current1, started1, pipeline1, step1, stage1, result1>>

StopCollector == Stop1Collection \/ \E r \in Runs1 : StopReturn1(r)

-----------------------------------------------------------------------------
(* Pipeline2 of run r and its units. *)

\* builder.Next, setState, the tick and AddWork; or stop.
NextUnit1(r) ==
    /\ step1[r] = "next"
    /\ IF stage1[r] < 8
       THEN /\ stage1' = [stage1 EXCEPT ![r] = @ + 1]
            /\ \/ step1' = [step1 EXCEPT ![r] = "queued"]
               \/ r \in stopping1 /\ step1' = [step1 EXCEPT ![r] = "finalize"]
       ELSE step1' = [step1 EXCEPT ![r] = "finalize"] /\ UNCHANGED stage1
    /\ UNCHANGED <<diskVars1, processVars1, result1>>

\* The worker takes the unit, or Finalize overtakes it.
Dispatch1Unit(r) ==
    /\ step1[r] = "queued"
    /\ \/ step1' = [step1 EXCEPT ![r] = "running"]
       \/ r \in stopping1 /\ step1' = [step1 EXCEPT ![r] = "finalize"]
    /\ UNCHANGED <<diskVars1, processVars1, stage1, result1>>

Running1(r, stage) == step1[r] = "running" /\ stage1[r] = stage

\* The unit returns res, which the pipeline takes in, or drops when it saw stop.
Return1(r, res) ==
    /\ \/ /\ result1' = [result1 EXCEPT ![r] = res]
          /\ step1' = [step1 EXCEPT ![r] = IF res = "error" THEN "finalize" ELSE "next"]
       \/ /\ r \in stopping1
          /\ step1' = [step1 EXCEPT ![r] = "finalize"]
          /\ UNCHANGED result1
    /\ UNCHANGED <<left1, processVars1, stage1>>

\* 1. The row of the collection, whose failure ends the run.
CreateMarker1(r) ==
    /\ Running1(r, 1)
    /\ \/ /\ marker1' = [marker1 EXCEPT ![r] = "running"]
          /\ step1' = [step1 EXCEPT ![r] = "opening"]
          /\ UNCHANGED <<left1, processVars1, stage1, result1>>
       \/ Return1(r, "error") /\ UNCHANGED marker1
    /\ UNCHANGED file1

\* Then the file, the OPA validator, InitCollection: the parser's tables and the
\* migrations.
InitCollection(r) ==
    /\ step1[r] = "opening"
    /\ \/ file1' = [file1 EXCEPT ![r] = "partial"] /\ (Return1(r, "ok") \/ Return1(r, "error"))
       \/ Return1(r, "error") /\ UNCHANGED file1
    /\ UNCHANGED marker1

\* 2. Verify the credentials.
VerifyCredentials1(r) ==
    /\ Running1(r, 2)
    /\ Return1(r, "ok") \/ Return1(r, "error")
    /\ UNCHANGED <<marker1, file1>>

\* 3. Collect: a failure is in the result but is not returned.
Collect1(r) ==
    /\ Running1(r, 3)
    /\ Return1(r, "ok") \/ Return1(r, "flawed")
    /\ UNCHANGED <<marker1, file1>>

\* 4. Ingest the SQLite file: after a failed collection there is none, and
\* os.Stat's error takes the place of the collector's.
IngestSqlite1(r) ==
    /\ Running1(r, 4)
    /\ (result1[r] = "ok" /\ Return1(r, "ok")) \/ Return1(r, "error")
    /\ UNCHANGED <<marker1, file1>>

\* 5. Match the applications.
MatchApplications1(r) ==
    /\ Running1(r, 5)
    /\ Return1(r, "ok") \/ Return1(r, "error")
    /\ UNCHANGED <<marker1, file1>>

\* 6. Rightsizing's units in a loop of this one.
Rightsizing1(r) ==
    /\ Running1(r, 6)
    /\ Return1(r, "ok") \/ Return1(r, "error")
    /\ UNCHANGED <<marker1, file1>>

\* 7. The inventory with the clusters' utilization, in one statement.
SaveInventory1(r) ==
    /\ Running1(r, 7)
    /\ \/ file1' = [file1 EXCEPT ![r] = "inventory"] /\ Return1(r, "ok")
       \/ Return1(r, "error") /\ UNCHANGED file1
    /\ UNCHANGED marker1

\* 8. Its event.  Completed is set.
Publish1(r) ==
    /\ Running1(r, 8)
    /\ \/ file1' = [file1 EXCEPT ![r] = "whole"] /\ Return1(r, "completed")
       \/ Return1(r, "error") /\ UNCHANGED file1
    /\ UNCHANGED marker1

UnitStep1(r) ==
    \/ CreateMarker1(r) \/ InitCollection(r) \/ VerifyCredentials1(r) \/ Collect1(r)
    \/ IngestSqlite1(r) \/ MatchApplications1(r) \/ Rightsizing1(r) \/ SaveInventory1(r)
    \/ Publish1(r)

-----------------------------------------------------------------------------
(* Finalize, in two effects with a crash possible between them. *)

Finalizing1(r) == step1[r] = "finalize" /\ step1' = [step1 EXCEPT ![r] = "finalizing"]
FinalizeKeeps1 == UNCHANGED <<up1, crashes1, started1, pipeline1, stopping1, stage1>>

\* ATTACH and USE; its failure ends Finalize.
AttachDatabase(r) ==
    /\ \/ Finalizing1(r) /\ current1' = r /\ UNCHANGED result1
       \/ /\ step1[r] = "finalize" /\ step1' = [step1 EXCEPT ![r] = "done"]
          /\ result1' = [result1 EXCEPT ![r] = "unattached"]
          /\ UNCHANGED current1
    /\ UNCHANGED diskVars1

\* UPDATE ... WHERE state = 'running'; a failure is logged.
MarkFailed1(r) ==
    \/ marker1' = [marker1 EXCEPT ![r] = IF @ = "running" THEN "failed" ELSE @]
    \/ UNCHANGED marker1

\* Collection().Delete; a failure is logged.
DeleteMarker1(r) == marker1' = [marker1 EXCEPT ![r] = "none"] \/ UNCHANGED marker1

\* os.Remove; a failure is logged, and the database stays.
RemoveFile1(r) ==
    \/ file1' = [file1 EXCEPT ![r] = "none"] /\ UNCHANGED left1
    \/ file1[r] # "none" /\ left1' = left1 \cup {r} /\ UNCHANGED file1

\* Mutant: whatever has an inventory is attached.
Finalize1Inventory(r) ==
    /\ FinalizeKeeps1 /\ Finalizing1(r) /\ UNCHANGED <<marker1, left1>>
    /\ IF file1[r] \in {"inventory", "whole"}
       THEN current1' = r /\ result1' = [result1 EXCEPT ![r] = "completed"] /\ UNCHANGED file1
       ELSE UNCHANGED <<current1, result1, file1>>

\* The first effect of Finalize: the database of a completed run is attached, a
\* failed run is marked, the database of a stopped one is removed.
Finalize1(r) ==
    /\ FinalizeKeeps1
    /\ \/ result1[r] = "completed" /\ AttachDatabase(r)
       \/ /\ result1[r] \in {"error", "flawed"}
          /\ Finalizing1(r) /\ MarkFailed1(r) /\ UNCHANGED <<file1, left1, current1, result1>>
       \/ /\ result1[r] = "ok"
          /\ Finalizing1(r) /\ RemoveFile1(r) /\ UNCHANGED <<marker1, current1, result1>>

\* The second: the database of a failed run is removed, else the marker.
FinalizeRest1(r) ==
    /\ step1[r] = "finalizing"
    /\ step1' = [step1 EXCEPT ![r] = "done"]
    /\ IF result1[r] \in {"error", "flawed"}
       THEN RemoveFile1(r) /\ UNCHANGED marker1
       ELSE DeleteMarker1(r) /\ UNCHANGED <<file1, left1>>
    /\ UNCHANGED <<processVars1, stage1, result1>>

-----------------------------------------------------------------------------
(* The process. *)

\* The agent dies, in whatever it was doing.
Crash1 ==
    /\ up1 /\ crashes1 < MaxCrashes1
    /\ up1' = FALSE /\ crashes1' = crashes1 + 1
    /\ left1' = left1 \cup {r \in Runs1 : Live1(r)}
    /\ current1' = 0 /\ pipeline1' = 0 /\ stopping1' = {}
    /\ step1' = [r \in Runs1 |-> IF step1[r] = "new" THEN "new" ELSE "gone"]
    /\ UNCHANGED <<marker1, file1, started1, stage1, result1>>

Files1 == {r \in Runs1 : file1[r] # "none"}

\* Every collection_*.duckdb is attached and the latest is used.
LoadDatabases == IF Files1 = {} THEN 0 ELSE CHOOSE r \in Files1 : \A q \in Files1 : q <= r

\* initV1: the store, its migrations, LoadDatabases, then the services.
initV1 ==
    /\ ~up1
    /\ up1' = TRUE
    /\ current1' = LoadDatabases
    /\ UNCHANGED <<diskVars1, crashes1, started1, pipeline1, stopping1, step1, stage1, result1>>

-----------------------------------------------------------------------------
RunStep1(r) ==
    NextUnit1(r) \/ Dispatch1Unit(r) \/ UnitStep1(r) \/ Finalize1(r) \/ FinalizeRest1(r)

Collection1Next ==
    StartCollector \/ StopCollector \/ Crash1 \/ initV1 \/ \E r \in Runs1 : RunStep1(r)

Collection1Spec == Collection1Init /\ [][Collection1Next]_collectionVars1

-----------------------------------------------------------------------------
(* Properties. *)

\* What GetStatus calls "collected": an inventory whose event was written too,
\* whatever failed or was stopped, also when Start overlapped the run that Stop
\* waits for, or the last unit of a run in progress, which sets the state before
\* it has worked. The exceptions are what a start finds on the disk of a run
\* that ended between the units 7 and 8: it was cut off by a crash, or failed or
\* was stopped there and its database could not be removed.
CollectedIsPublished ==
    GetStatus1 = "collected" =>
        IF HasInventory1 THEN file1[current1] = "whole" \/ current1 \in left1
        ELSE Live1(pipeline1)

-----------------------------------------------------------------------------
(* The inductive invariant of Services_proofs. *)

\* A run not started has left nothing; one that was is not started again.
Fresh1 ==
    \A r \in Runs1 :
        /\ step1[r] = "new" <=> r > started1
        /\ step1[r] = "new" => file1[r] = "none" /\ stage1[r] = 0 /\ result1[r] = "ok"

\* Completed is set by the last unit only, and its database is kept.
Completed1 ==
    \A r \in Runs1 :
        /\ result1[r] \in {"completed", "unattached"} =>
               /\ file1[r] = "whole" /\ stage1[r] = 8
               /\ step1[r] \in {"next", "finalize", "finalizing", "done", "gone"}
        /\ result1[r] = "unattached" => step1[r] \in {"done", "gone"}
        /\ step1[r] = "next" /\ stage1[r] = 8 => result1[r] = "completed"
        /\ step1[r] = "opening" => stage1[r] = 1

\* Finalize leaves no database of a run that did not complete, unless os.Remove
\* fails; else only a crash does.
Removed1 ==
    \A r \in Runs1 :
        /\ step1[r] = "finalizing" /\ result1[r] = "ok" =>
               file1[r] = "none" \/ r \in left1
        /\ file1[r] = "inventory" /\ ~Live1(r) => r \in left1

\* The run in progress is not being stopped: it ends through its units only,
\* and its database is in use before it is over.
Current1 ==
    /\ pipeline1 # 0 =>
           /\ pipeline1 \notin stopping1 /\ step1[pipeline1] \notin {"new", "gone"}
           /\ step1[pipeline1] \in {"finalize", "finalizing", "done"} => result1[pipeline1] # "ok"
    /\ \A r \in Runs1 : step1[r] \in {"finalizing", "done"} /\ result1[r] = "completed"
                            => HasInventory1
    /\ current1 # 0 =>
           \/ step1[current1] = "gone"
           \/ result1[current1] = "completed" /\ step1[current1] \in {"finalizing", "done"}
    /\ ~up1 => \A r \in Runs1 : step1[r] \in {"new", "gone"}

Collection1Inv == LegacyTypeOK /\ Fresh1 /\ Completed1 /\ Removed1 /\ Current1

-----------------------------------------------------------------------------
(* What the repository says and the code does not do. *)

\* "Once inventory is collected, the Collected state is terminal" (doc.go).
CollectedSurvives ==
    \A r \in Runs1 : file1[r] = "whole" /\ up1 /\ ~Live1(r) => HasInventory1

\* "Collected: Collection completed successfully" (doc.go:124). After a crash
\* between the units 7 and 8, or a failed removal of a database that has the
\* inventory, the next start serves it all the same.
CollectedIsComplete == HasInventory1 => file1[current1] = "whole"

\* "Only one collection can be in progress at a time" (doc.go).
OneCollection1 == \A r, q \in Runs1 : Live1(r) /\ Live1(q) => r = q
=============================================================================
