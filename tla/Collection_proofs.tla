-------------------------- MODULE Collection_proofs --------------------------
(***************************************************************************)
(* What is served is complete, and what users added is carried over:       *)
(* proofs about Collection, for any number of runs, crashes and edits.     *)
(***************************************************************************)
EXTENDS Collection, TLAPS

\* No pipeline has more than seven units, and the first one is Provision.
LEMMA PipelineShape ==
    ASSUME RunsOK, NEW r \in Runs
    PROVE  /\ Last(r) \in {4, 7}
           /\ stage[r] = 1 => Unit(r) = "provision"
BY DEF RunsOK, Last, Unit, Pipeline

\* A unit that returned leaves the run before its next unit, with the unit's
\* result, or before Finalize, with an error or with the result it had.
LEMMA ReturnShape ==
    ASSUME RunsOK, NEW r \in Runs, NEW res \in Results, Return(r, res)
    PROVE  \E t \in {"next", "finalize"}, x \in {res, result[r]} :
              /\ step' = [step EXCEPT ![r] = t]
              /\ result' = [result EXCEPT ![r] = x]
              /\ t = "next" => x = res /\ res \in {"ok", "completed"}
              /\ t = "finalize" => x \in {result[r], "error", "swallowed"}
<1>1. CASE stop[r] /\ step' = [step EXCEPT ![r] = "finalize"] /\ UNCHANGED result
  <2>1. result' = [result EXCEPT ![r] = result[r]]
    BY <1>1 DEF RunsOK
  <2>2. QED
    BY <1>1, <2>1 DEF RunsOK, Results
<1>2. CASE res \in {"error", "swallowed"} /\ step' = [step EXCEPT ![r] = "finalize"]
             /\ result' = [result EXCEPT ![r] = res]
  BY <1>2
<1>3. CASE res \notin {"error", "swallowed"} /\ step' = [step EXCEPT ![r] = "next"]
             /\ result' = [result EXCEPT ![r] = res]
  BY <1>3 DEF Results
<1>4. QED
  BY <1>1, <1>2, <1>3 DEF Return

\* A run that takes a step, or whose unit returns, keeps its type.
LEMMA StepRunsOK ==
    ASSUME RunsOK, NEW r \in Runs, NEW t \in Steps \ {"new"}, step[r] # "new",
           step' = [step EXCEPT ![r] = t], result' \in [Runs -> Results],
           late' \in [Runs -> BOOLEAN], handle' \in [Runs -> BOOLEAN],
           UNCHANGED <<started, clock, kind, name, stage, stop>>
    PROVE  RunsOK'
BY DEF RunsOK

\* The same when a unit of the run returns.
LEMMA ReturnRunsOK ==
    ASSUME RunsOK, NEW r \in Runs, NEW res \in Results, Return(r, res), step[r] # "new",
           handle' \in [Runs -> BOOLEAN],
           UNCHANGED <<started, clock, kind, name, stage, stop, late>>
    PROVE  RunsOK'
<1>1. PICK t \in {"next", "finalize"}, x \in {res, result[r]} :
              /\ step' = [step EXCEPT ![r] = t]
              /\ result' = [result EXCEPT ![r] = x]
  BY ReturnShape
<1>2. t \in Steps \ {"new"} /\ result' \in [Runs -> Results] /\ late' \in [Runs -> BOOLEAN]
  BY <1>1 DEF RunsOK, Steps
<1>3. QED
  BY <1>1, <1>2, StepRunsOK

\* Every step keeps the variables in their types.
LEMMA TypeStep ==
    ASSUME TypeOK, [Next]_vars
    PROVE  TypeOK'
<1> USE DEF TypeOK, Unbuilt, diskVars, poolVars, envVars, builtVars, managerVars, runVars
<1>a. late \in [Runs -> BOOLEAN] /\ handle \in [Runs -> BOOLEAN] /\ result \in [Runs -> Results]
  BY DEF RunsOK
<1>b. \A r \in Runs : step[r] # "new" => name[r] \in Names
  BY DEF RunsOK
<1>1. ASSUME NEW k \in JobKinds, StartCollecting(k) PROVE TypeOK'
  BY <1>1, CollectionAssumption DEF StartCollecting, Steps, DiskOK, DataOK, ProcessOK, RunsOK,
     Runs, Names
<1>2. ASSUME StopCollecting \/ StopReturn \/ InspectorService
                \/ InspectorStart \/ InspectorEnd
      PROVE  TypeOK'
  BY <1>2 DEF StopCollecting, StopReturn, InspectorService, InspectorStart,
     InspectorEnd, DiskOK, DataOK, ProcessOK, RunsOK
<1>3. ASSUME NEW r \in Runs, NextUnit(r) PROVE TypeOK'
  <2>1. Last(r) \in {4, 7}
    BY PipelineShape
  <2>2. RunsOK'
    BY <1>3, <2>1 DEF NextUnit, Steps, RunsOK
  <2>3. QED
    BY <1>3, <2>2 DEF NextUnit, DiskOK, DataOK, ProcessOK
<1>4. ASSUME NEW r \in Runs, SubmitUnit(r) PROVE TypeOK'
  <2>1. RunsOK'
    BY <1>4, <1>a, StepRunsOK DEF SubmitUnit, Steps
  <2>2. QED
    BY <1>4, <2>1 DEF SubmitUnit, DiskOK, DataOK, ProcessOK
<1>5. ASSUME NEW r \in Runs, Dispatch(r) PROVE TypeOK'
  <2>1. late' \in [Runs -> BOOLEAN]
    BY <1>5, <1>a DEF Dispatch
  <2>2. RunsOK'
    BY <1>5, <1>a, <2>1, StepRunsOK DEF Dispatch, Steps
  <2>3. QED
    BY <1>5, <2>2 DEF Dispatch, DiskOK, DataOK, ProcessOK
<1>6. ASSUME NEW r \in Runs, CreateMarker(r) PROVE TypeOK'
  <2>1. DiskOK'
    BY <1>6 DEF CreateMarker, DiskOK
  <2>2. RunsOK' 
    BY <1>6, <1>a, StepRunsOK, ReturnRunsOK DEF CreateMarker, Running, Keep, Steps, Results
  <2>3. QED
    BY <1>6, <2>1, <2>2 DEF CreateMarker, Keep, DataOK, ProcessOK
<1>7. ASSUME NEW r \in Runs, CreateFile(r) PROVE TypeOK'
  <2>1. DiskOK' /\ handle' \in [Runs -> BOOLEAN]
    BY <1>7, <1>a DEF CreateFile, DiskOK
  <2>2. RunsOK'
    BY <1>7, <2>1, ReturnRunsOK DEF CreateFile, Keep, Results
  <2>3. QED
    BY <1>7, <2>1, <2>2 DEF CreateFile, Keep, DataOK, ProcessOK
<1>8. ASSUME NEW r \in Runs, Gather(r) \/ Rightsizing(r) PROVE TypeOK'
  <2>1. RunsOK'
    BY <1>8, <1>a, ReturnRunsOK DEF Gather, Rightsizing, Running, Keep, Results
  <2>2. QED
    BY <1>8, <2>1 DEF Gather, Rightsizing, Keep, DiskOK, DataOK, ProcessOK
<1>9. ASSUME NEW r \in Runs, Clone(r) PROVE TypeOK'
  <2>1. RunsOK'
    BY <1>9, <1>a, StepRunsOK, ReturnRunsOK DEF Clone, Running, Results, Steps
  <2>2. DataOK'
    BY <1>9 DEF Clone, DataOK, ProcessOK
  <2>3. QED
    BY <1>9, <2>1, <2>2 DEF Clone, DiskOK, ProcessOK
<1>10. ASSUME NEW r \in Runs, Sync(r) PROVE TypeOK'
  <2>1. groups' \in [Names -> SUBSET Edits]
    <3>1. groups[name[r]] \cup snapshot[r] \in SUBSET Edits
      BY <1>10, <1>b DEF Sync, DataOK
    <3>2. QED
      BY <1>10, <3>1 DEF Sync, DataOK
  <2>2. RunsOK'
    BY <1>10, <1>a, ReturnRunsOK DEF Sync, Keep, Results
  <2>3. QED
    BY <1>10, <2>1, <2>2 DEF Sync, Keep, DiskOK, DataOK, ProcessOK
<1>11. ASSUME NEW r \in Runs, Publish(r) PROVE TypeOK'
  <2>1. DiskOK'
    BY <1>11 DEF Publish, DiskOK
  <2>2. RunsOK'
    BY <1>11, <1>a, ReturnRunsOK DEF Publish, Running, Keep, Results
  <2>3. outbox' \in [Names -> SUBSET Events]
    <3>1. name[r] \in Names
      BY <1>11, <1>b DEF Publish, Running
    <3>2. \A changed \in SUBSET groups[name[r]] :
            outbox[name[r]] \cup {<<"inventory", name[r]>>} \cup changed \in SUBSET Events
      BY <3>1 DEF DataOK, Events
    <3>3. QED
      BY <3>2, <1>11 DEF Publish, DataOK
  <2>4. QED
    BY <1>11, <2>1, <2>2, <2>3 DEF Publish, Keep, DataOK, ProcessOK
<1>12. ASSUME NEW r \in Runs, Finalize(r) PROVE TypeOK'
  <2>1. DiskOK'
    BY <1>12 DEF Finalize, MarkFailed, RemoveFile, FilesWithout, DiskOK
  <2>2. RunsOK'
    BY <1>12, <1>a, StepRunsOK DEF Finalize, Steps
  <2>3. DataOK'
    BY <1>12 DEF Finalize, RemoveFile, FilesWithout, DataOK
  <2>4. ProcessOK'
    BY <1>12, <1>b DEF Finalize, Promote, ProcessOK
  <2>5. QED
    BY <2>1, <2>2, <2>3, <2>4
<1>13. ASSUME NEW r \in Runs, FinalizeRest(r) PROVE TypeOK'
  <2>1. DiskOK'
    BY <1>13 DEF FinalizeRest, DeleteMarker, RemoveFile, FilesWithout, DiskOK
  <2>2. RunsOK'
    BY <1>13, <1>a, StepRunsOK DEF FinalizeRest, Steps
  <2>3. DataOK'
    BY <1>13 DEF FinalizeRest, RemoveFile, FilesWithout, DataOK
  <2>4. QED
    BY <1>13, <2>1, <2>2, <2>3 DEF FinalizeRest, ProcessOK
<1>14. ASSUME NEW r \in Runs, LateUnit(r) PROVE TypeOK'
  BY <1>14 DEF LateUnit, DiskOK, DataOK, ProcessOK, RunsOK
<1>15. ASSUME Crash PROVE TypeOK'
  BY <1>15, CollectionAssumption DEF Crash, DiskOK, DataOK, ProcessOK, RunsOK, Steps
<1>16. ASSUME Boot PROVE TypeOK'
  BY <1>16 DEF Boot, Booting, DiskOK, DataOK, ProcessOK, RunsOK
<1>17. ASSUME NEW n \in Names, CleanupStale(n) PROVE TypeOK'
  <2>1. DiskOK'
    BY <1>17 DEF CleanupStale, FilesWithout, DiskOK
  <2>2. DataOK'
    BY <1>17 DEF CleanupStale, FilesWithout, Booting, DataOK
  <2>3. QED
    BY <1>17, <2>1, <2>2 DEF CleanupStale, Booting, ProcessOK, RunsOK
<1>18. ASSUME Register PROVE TypeOK'
  BY <1>18 DEF Register, OnDisk, DiskOK, DataOK, ProcessOK, RunsOK
<1>19. ASSUME NEW e \in Edits, Edit(e) PROVE TypeOK'
  <2>1. DataOK'
    BY <1>19 DEF Edit, DataOK, Events, ProcessOK
  <2>2. QED
    BY <1>19, <2>1 DEF Edit, DiskOK, ProcessOK, RunsOK
<1>20. ASSUME Deliver PROVE TypeOK'
  BY <1>20 DEF Deliver, DiskOK, DataOK, ProcessOK, RunsOK
<1>21. ASSUME UNCHANGED vars PROVE TypeOK'
  BY <1>21 DEF vars, DiskOK, DataOK, ProcessOK, RunsOK
<1>22. ASSUME NEW r \in Runs, FinalizeFails(r) PROVE TypeOK'
  <2>1. RunsOK'
    BY <1>22, <1>a, StepRunsOK DEF FinalizeFails, Steps
  <2>2. QED
    BY <1>22, <2>1 DEF FinalizeFails, DiskOK, DataOK, ProcessOK
<1>23. QED
  BY <1>1, <1>2, <1>3, <1>4, <1>5, <1>6, <1>7, <1>8, <1>9, <1>10, <1>11, <1>12,
     <1>13, <1>14, <1>15, <1>16, <1>17, <1>18, <1>19, <1>20, <1>21, <1>22
     DEF Next, RunStep, UnitStep, Startup

-----------------------------------------------------------------------------
(* A step of run r that touches no other run and no other name: what is to be
   shown of r alone. *)

Consistent(r) ==
    /\ Live(r) => LiveRun(r)
    /\ step[r] = "done" => EndedRun(r)
    /\ file[name[r]] = "partial" => marker[name[r]] # "none"
    /\ name[r] \in registered => file[name[r]] = "complete"

DiskLocal(r) ==
    /\ \A n \in Names \ {name[r]} : file'[n] = file[n] /\ marker'[n] = marker[n]
    /\ \/ registered' = registered
       \/ registered' = registered \cup {name[r]}

RunLocal(r) ==
    /\ \A q \in Runs \ {r} : /\ step'[q] = step[q] /\ stage'[q] = stage[q]
                             /\ result'[q] = result[q] /\ handle'[q] = handle[q]
    /\ \A q \in Runs : late'[q] => late[q]
    /\ UNCHANGED <<started, clock, name, agent, stale>>

\* A live run has the name of its number, and the agent is up.
LEMMA LiveFacts ==
    ASSUME IndInv, NEW r \in Runs, Live(r)
    PROVE  /\ agent = "up" /\ name[r] = r /\ r \in Names /\ r <= started
           /\ LiveRun(r) /\ ~ late[r]
BY DEF IndInv, RunsNumbered, DownIsEmpty, LiveRuns, Live, TypeOK, RunsOK, ProcessOK, Runs, Names

\* Such a step keeps the invariant if it leaves run r consistent.
LEMMA LocalStep ==
    ASSUME IndInv, TypeOK', NEW r \in Runs, Live(r), DiskLocal(r), RunLocal(r),
           step'[r] # "new", Consistent(r)'
    PROVE  IndInv'
<1>1. agent = "up" /\ name[r] = r /\ r \in Names /\ r <= started
  BY LiveFacts
<1>2. RunsNumbered'
  BY <1>1 DEF IndInv, RunsNumbered, RunLocal, DiskLocal, Live, TypeOK, RunsOK, Runs, Names
<1>3. DownIsEmpty'
  BY <1>1 DEF DownIsEmpty, RunLocal
<1>4. PartialIsMarked'
  BY <1>1 DEF IndInv, PartialIsMarked, DiskLocal, RunLocal, Consistent
<1>5. RegisteredIsComplete'
  BY <1>1 DEF IndInv, RegisteredIsComplete, DiskLocal, RunLocal, Consistent, TypeOK, ProcessOK
<1>6. \A q \in Runs \ {r} : (step[q] # "new") => name[q] # name[r] /\ name[q] \in Names
  BY <1>1 DEF IndInv, RunsNumbered, TypeOK, RunsOK, Runs, Names
<1>7. LiveRuns'
  BY <1>1, <1>6 DEF IndInv, LiveRuns, LiveRun, Live, RunLocal, DiskLocal, Consistent
<1>8. EndedIsClean'
  BY <1>1, <1>6 DEF IndInv, EndedIsClean, EndedRun, RunLocal, DiskLocal, Consistent
<1>9. QED
  BY <1>2, <1>3, <1>4, <1>5, <1>7, <1>8 DEF IndInv

-----------------------------------------------------------------------------
(* One lemma per kind of step. *)

\* The pipeline's own steps change neither the disk nor the result.
LEMMA PipelineStep ==
    ASSUME Reliable, IndInv, TypeOK', NEW r \in Runs,
           NextUnit(r) \/ SubmitUnit(r) \/ Dispatch(r)
    PROVE  IndInv'
<1>1. Live(r) /\ step'[r] \in {"tick", "queued", "running", "finalize"}
  BY DEF NextUnit, SubmitUnit, Dispatch, Live, IndInv, TypeOK, RunsOK
<1>2. DiskLocal(r)
  BY DEF NextUnit, SubmitUnit, Dispatch, DiskLocal, diskVars, Unbuilt, poolVars
<1>3. RunLocal(r)
  BY DEF NextUnit, SubmitUnit, Dispatch, RunLocal, Unbuilt, builtVars, IndInv, TypeOK, RunsOK,
     Reliable
<1>4. Consistent(r)'
  <2>1. UNCHANGED <<file, marker, registered, name, result, handle>>
    BY DEF NextUnit, SubmitUnit, Dispatch, diskVars, Unbuilt, poolVars, builtVars
  <2>2. ~ handle[r] => \/ stage'[r] = 1 /\ step'[r] \in {"tick", "queued", "running"}
                       \/ step'[r] = "finalize"
    BY <1>1, LiveFacts, PipelineShape
       DEF NextUnit, SubmitUnit, Dispatch, LiveRun, IndInv, TypeOK, RunsOK, Reliable
  <2>3. name[r] \in registered => FALSE
    BY <1>1, LiveFacts DEF NextUnit, SubmitUnit, Dispatch, LiveRun
  <2>4. file[name[r]] = "partial" => marker[name[r]] # "none"
    BY <1>1, LiveFacts DEF IndInv, PartialIsMarked
  <2>5. QED
    BY <1>1, <2>1, <2>2, <2>3, <2>4, LiveFacts DEF Consistent, Live, LiveRun
<1>5. QED
  BY <1>1, <1>2, <1>3, <1>4, LocalStep

\* A unit returns, having touched the file of its run at most.
LEMMA UnitReturn ==
    ASSUME Reliable, IndInv, TypeOK', NEW r \in Runs, NEW res \in Results, Return(r, res),
           Live(r), step[r] \notin {"finalize", "finalizing"}, DiskLocal(r),
           UNCHANGED <<agent, stale, registered, builtVars, stage, late, marker>>,
           \A q \in Runs \ {r} : handle'[q] = handle[q],
           handle[r] => handle'[r],
           handle'[r] => marker[name[r]] # "none",
           ~ handle'[r] => file'[name[r]] = "none" /\ res = "error",
           file'[name[r]] = "partial" => file[name[r]] # "complete" /\ marker[name[r]] # "none",
           file[name[r]] = "complete" => file'[name[r]] = "complete",
           res = "completed" => file'[name[r]] = "complete"
    PROVE  IndInv'
<1>1. PICK t \in {"next", "finalize"}, x \in {res, result[r]} :
              /\ step' = [step EXCEPT ![r] = t]
              /\ result' = [result EXCEPT ![r] = x]
              /\ t = "next" => x = res /\ res \in {"ok", "completed"}
              /\ t = "finalize" => x \in {result[r], "error", "swallowed"}
  BY ReturnShape DEF IndInv, TypeOK
<1>2. step'[r] = t /\ result'[r] = x
  BY <1>1 DEF IndInv, TypeOK, RunsOK
<1>3. RunLocal(r)
  BY <1>1 DEF RunLocal, builtVars, IndInv, TypeOK, RunsOK
<1>4. Consistent(r)'
  <2>1. name[r] \notin registered
    BY LiveFacts DEF LiveRun
  <2>2. LiveRun(r)'
    BY <1>1, <1>2, <2>1, LiveFacts DEF LiveRun, builtVars
  <2>3. QED
    BY <1>2, <2>1, <2>2 DEF Consistent, builtVars
<1>5. QED
  BY <1>2, <1>3, <1>4, LocalStep

\* What every unit leaves alone.
LEMMA UnitFrame ==
    ASSUME NEW r \in Runs, UnitStep(r)
    PROVE  UNCHANGED <<agent, stale, registered, builtVars, stage, late>>
BY DEF UnitStep, CreateMarker, CreateFile, Gather, Rightsizing, Clone, Sync, Publish,
   Keep, Unbuilt, poolVars

\* The work units, Provision and Sync in their two halves.
LEMMA UnitsStep ==
    ASSUME Reliable, IndInv, TypeOK', NEW r \in Runs, UnitStep(r)
    PROVE  IndInv'
<1> USE DEF Results
<1>1. step[r] \in {"running", "opening", "syncing"}
  BY DEF UnitStep, CreateMarker, CreateFile, Gather, Rightsizing, Clone, Sync, Publish, Running
<1>2. Live(r) /\ step[r] \notin {"finalize", "finalizing"}
  BY <1>1 DEF Live
<1>3. name[r] \in Names /\ LiveRun(r)
      /\ (file[name[r]] = "partial" => marker[name[r]] # "none")
  BY <1>2, LiveFacts DEF IndInv, PartialIsMarked
<1>4. UNCHANGED <<agent, stale, registered, builtVars, stage, late>>
  BY UnitFrame
<1>5. CASE CreateMarker(r)
  <2>1. CASE Return(r, "error") /\ UNCHANGED marker
    <3>1. DiskLocal(r) /\ UNCHANGED <<file, handle>>
      BY <1>4, <1>5, <2>1 DEF CreateMarker, DiskLocal
    <3>2. QED
      BY <1>2, <1>3, <1>4, <2>1, <3>1, UnitReturn DEF LiveRun
  <2>2. CASE /\ marker[name[r]] = "none"
             /\ marker' = [marker EXCEPT ![name[r]] = "running"]
             /\ step' = [step EXCEPT ![r] = "opening"] /\ UNCHANGED result
    <3>1. UNCHANGED <<file, handle>> /\ Running(r, "provision")
      BY <1>5 DEF CreateMarker
    <3>2. DiskLocal(r)
      BY <1>3, <1>4, <2>2, <3>1 DEF DiskLocal, IndInv, TypeOK, DiskOK
    <3>3. RunLocal(r) /\ step'[r] = "opening"
      BY <1>4, <2>2, <3>1 DEF RunLocal, builtVars, IndInv, TypeOK, RunsOK
    <3>4. marker'[name[r]] = "running"
      BY <1>3, <2>2 DEF IndInv, TypeOK, DiskOK
    <3>5. Consistent(r)'
      BY <1>1, <1>3, <1>4, <2>2, <3>1, <3>3, <3>4
         DEF Consistent, Live, LiveRun, builtVars, Running
    <3>6. QED
      BY <1>2, <3>2, <3>3, <3>5, LocalStep
  <2>3. QED
    BY <1>5, <2>1, <2>2 DEF CreateMarker
<1>6. CASE CreateFile(r)
  <2>1. step[r] = "opening" /\ marker[name[r]] # "none" /\ UNCHANGED marker
    BY <1>3, <1>6 DEF CreateFile, LiveRun
  <2>2. DiskLocal(r) /\ file'[name[r]] \in {file[name[r]], "partial"}
        /\ (file[name[r]] = "complete" => file'[name[r]] = "complete")
        /\ \A q \in Runs \ {r} : handle'[q] = handle[q]
    BY <1>3, <1>4, <1>6 DEF CreateFile, DiskLocal, IndInv, TypeOK, DiskOK, RunsOK
  <2>3. CASE handle'[r] /\ (Return(r, "ok") \/ Return(r, "error"))
    BY <1>2, <1>4, <2>1, <2>2, <2>3, UnitReturn
  <2>4. CASE UNCHANGED <<file, handle>> /\ Return(r, "error")
    BY <1>2, <1>3, <1>4, <2>1, <2>2, <2>4, UnitReturn DEF LiveRun
  <2>5. QED
    BY <1>6, <2>3, <2>4 DEF CreateFile, Reliable, IndInv, TypeOK, RunsOK
<1>7. CASE Gather(r) \/ Rightsizing(r) \/ Clone(r) \/ Sync(r) \/ Publish(r)
  <2>1. handle[r] /\ UNCHANGED <<handle, marker>>
    <3>1. step[r] # "opening" /\ (step[r] = "running" => Unit(r) # "provision")
      BY <1>7 DEF Gather, Rightsizing, Clone, Sync, Publish, Running
    <3>2. handle[r]
      BY <1>1, <1>3, <3>1, PipelineShape DEF LiveRun, IndInv, TypeOK
    <3>3. QED
      BY <1>7, <3>2 DEF Gather, Rightsizing, Clone, Sync, Publish, diskVars
  <2>2. marker[name[r]] # "none"
    BY <1>3, <2>1 DEF LiveRun
  <2>3. CASE /\ file' \in {file, [file EXCEPT ![name[r]] = "complete"]}
             /\ \E res \in Results :
                   Return(r, res) /\ (res = "completed" => file'[name[r]] = "complete")
    <3>1. DiskLocal(r) /\ file'[name[r]] \in {file[name[r]], "complete"}
      BY <1>3, <1>4, <2>1, <2>3 DEF DiskLocal, IndInv, TypeOK, DiskOK
    <3>2. QED
      BY <1>2, <1>4, <2>1, <2>2, <2>3, <3>1, UnitReturn
  <2>4. CASE step' = [step EXCEPT ![r] = "syncing"] /\ UNCHANGED <<result, file>>
    <3>1. DiskLocal(r)
      BY <1>4, <2>1, <2>4 DEF DiskLocal
    <3>2. RunLocal(r) /\ step'[r] = "syncing"
      BY <1>4, <2>1, <2>4 DEF RunLocal, builtVars, IndInv, TypeOK, RunsOK
    <3>3. Consistent(r)'
      BY <1>1, <1>3, <1>4, <2>1, <2>2, <2>4, <3>2 DEF Consistent, Live, LiveRun, builtVars
    <3>4. QED
      BY <1>2, <3>1, <3>2, <3>3, LocalStep
  <2>5. CASE Gather(r) \/ Rightsizing(r) \/ Sync(r)
    BY <2>3, <2>5 DEF Gather, Rightsizing, Sync, diskVars
  <2>6. CASE Clone(r)
    BY <2>3, <2>4, <2>6 DEF Clone, diskVars
  <2>7. CASE Publish(r)
    <3>1. [file EXCEPT ![name[r]] = "complete"][name[r]] = "complete"
      BY <1>3 DEF IndInv, TypeOK, DiskOK
    <3>2. QED
      BY <2>3, <2>7, <3>1 DEF Publish
  <2>8. QED
    BY <1>7, <2>5, <2>6, <2>7
<1>8. QED
  BY <1>5, <1>6, <1>7 DEF UnitStep

\* Finalize: the pool, the marker or the file first, then the other one.
LEMMA FinalizeStep ==
    ASSUME Reliable, IndInv, TypeOK', NEW r \in Runs, Finalize(r) \/ FinalizeRest(r)
    PROVE  IndInv'
<1>1. Live(r) /\ step[r] \in {"finalize", "finalizing"}
  BY DEF Finalize, FinalizeRest, Live
<1>2. name[r] \in Names /\ LiveRun(r)
      /\ (file[name[r]] = "partial" => marker[name[r]] # "none")
  BY <1>1, LiveFacts DEF IndInv, PartialIsMarked
<1>3. RunLocal(r)
  BY DEF Finalize, FinalizeRest, RunLocal, builtVars, Unbuilt, IndInv, TypeOK, RunsOK
<1>4. UNCHANGED <<name, result, handle>>
  BY DEF Finalize, FinalizeRest, builtVars, Unbuilt
<1>5. CASE Finalize(r)
  <2>1. step'[r] = "finalizing" /\ step[r] = "finalize"
    BY <1>5 DEF Finalize, IndInv, TypeOK, RunsOK
  <2>2. CASE result[r] = "completed"
    <3>1. DiskLocal(r) /\ UNCHANGED <<file, marker>>
      BY <1>5, <2>2 DEF Finalize, Promote, DiskLocal
    <3>2. QED
      BY <1>1, <1>2, <1>3, <1>4, <2>1, <2>2, <3>1, LocalStep DEF Consistent, Live, LiveRun
  <2>3. CASE result[r] = "error"
    <3>1. DiskLocal(r) /\ UNCHANGED <<file, registered>>
          /\ (marker[name[r]] # "none" => marker'[name[r]] # "none")
      BY <1>2, <1>5, <2>3
         DEF Finalize, MarkFailed, DiskLocal, poolVars, IndInv, TypeOK, DiskOK, Reliable
    <3>2. QED
      BY <1>1, <1>2, <1>3, <1>4, <2>1, <2>3, <3>1, LocalStep DEF Consistent, Live, LiveRun
  <2>4. CASE result[r] \in {"ok", "swallowed"}
    <3>1. DiskLocal(r) /\ UNCHANGED <<marker, registered>> /\ file'[name[r]] = "none"
      BY <1>2, <1>5, <2>4
         DEF Finalize, RemoveFile, FilesWithout, DiskLocal, poolVars, IndInv, TypeOK, DiskOK,
             Reliable, LiveRun
    <3>2. QED
      BY <1>1, <1>2, <1>3, <1>4, <2>1, <2>4, <3>1, LocalStep DEF Consistent, Live, LiveRun
  <2>5. QED
    BY <1>5, <2>2, <2>3, <2>4 DEF Finalize
<1>6. CASE FinalizeRest(r)
  <2>1. step'[r] = "done" /\ step[r] = "finalizing" /\ UNCHANGED registered
    BY <1>6 DEF FinalizeRest, IndInv, TypeOK, RunsOK, Unbuilt, poolVars
  <2>2. CASE result[r] = "error"
    <3>1. DiskLocal(r) /\ UNCHANGED marker /\ file'[name[r]] = "none"
      BY <1>2, <1>6, <2>1, <2>2
         DEF FinalizeRest, RemoveFile, FilesWithout, DiskLocal, IndInv, TypeOK, DiskOK,
             Reliable, LiveRun
    <3>2. QED
      BY <1>1, <1>2, <1>3, <1>4, <2>1, <2>2, <3>1, LocalStep
         DEF Consistent, Live, LiveRun, EndedRun
  <2>3. CASE result[r] # "error"
    <3>1. DiskLocal(r) /\ UNCHANGED file /\ marker'[name[r]] = "none"
      BY <1>2, <1>6, <2>1, <2>3
         DEF FinalizeRest, DeleteMarker, DiskLocal, IndInv, TypeOK, DiskOK, Reliable
    <3>2. result[r] \in {"completed", "ok", "swallowed"}
      BY <2>3 DEF IndInv, TypeOK, RunsOK, Results
    <3>3. Consistent(r)'
      BY <1>2, <1>4, <2>1, <3>1, <3>2 DEF Consistent, Live, LiveRun, EndedRun
    <3>4. QED
      BY <1>1, <1>3, <2>1, <3>1, <3>3, LocalStep
  <2>4. QED
    BY <2>2, <2>3
<1>7. QED
  BY <1>5, <1>6

\* A new run has a name, and so a file, that nothing has used.
LEMMA StartStep ==
    ASSUME Reliable, IndInv, TypeOK', NEW k \in JobKinds, StartCollecting(k)
    PROVE  IndInv'
<1>1. PICK r \in Runs :
        /\ r = started + 1 /\ started' = r /\ clock' = r
        /\ name' = [name EXCEPT ![r] = r] /\ step' = [step EXCEPT ![r] = "next"]
  <2>1. started + 1 \in Runs /\ clock' = started + 1
    BY CollectionAssumption
       DEF StartCollecting, Reliable, IndInv, RunsNumbered, TypeOK, RunsOK, Runs
  <2>2. QED
    BY <2>1 DEF StartCollecting
<1>2. UNCHANGED <<file, marker, registered, agent, stale, stage, result, handle, late>>
      /\ agent = "up"
  BY DEF StartCollecting, diskVars, poolVars
<1>3. step[r] = "new" /\ ~ handle[r] /\ stage[r] = 0 /\ result[r] = "ok"
  BY <1>1 DEF IndInv, RunsNumbered, TypeOK, RunsOK, Runs
<1>4. name'[r] = r /\ step'[r] = "next" /\ r \in Names /\ file[r] = "none" /\ r \notin registered
  BY <1>1 DEF IndInv, RunsNumbered, RegisteredIsComplete, TypeOK, RunsOK, Runs, Names
<1>5. \A q \in Runs \ {r} : name'[q] = name[q] /\ step'[q] = step[q]
  BY <1>1 DEF IndInv, TypeOK, RunsOK
<1>6. RunsNumbered'
  BY <1>1, <1>2, <1>4, <1>5 DEF IndInv, RunsNumbered, TypeOK, RunsOK, Runs, Names
<1>7. LiveRuns'
  BY <1>2, <1>3, <1>4, <1>5 DEF IndInv, LiveRuns, LiveRun, Live
<1>8. EndedIsClean'
  BY <1>2, <1>4, <1>5 DEF IndInv, EndedIsClean, EndedRun
<1>9. QED
  BY <1>2, <1>6, <1>7, <1>8
     DEF IndInv, DownIsEmpty, PartialIsMarked, RegisteredIsComplete

\* A crash leaves the disk as it is and ends every run; startup removes what
\* is marked before it registers what is left.
LEMMA ProcessStep ==
    ASSUME Reliable, IndInv, TypeOK', Crash \/ Startup
    PROVE  IndInv'
<1> USE DEF Booting, runVars, builtVars, managerVars, poolVars, diskVars
<1>1. CASE Crash
  <2>1. UNCHANGED <<file, marker, name, started, clock, stage, result, handle>>
        /\ agent' = "down" /\ registered' = {}
    BY <1>1 DEF Crash
  <2>2. \A r \in Runs : step'[r] = (IF step[r] = "new" THEN "new" ELSE "gone") /\ ~ late'[r]
    BY <1>1 DEF Crash
  <2>3. RunsNumbered'
    BY <2>1, <2>2 DEF IndInv, RunsNumbered
  <2>4. QED
    BY <2>1, <2>2, <2>3
       DEF IndInv, DownIsEmpty, PartialIsMarked, RegisteredIsComplete, LiveRuns, Live, EndedIsClean
<1>2. CASE Boot
  <2>1. UNCHANGED <<file, marker, name, started, clock, stage, result, handle, step, late,
                    registered>>
        /\ agent = "down" /\ agent' = "cleaning"
        /\ stale' = {n \in Names : marker[n] # "none"}
    BY <1>2 DEF Boot, Reliable
  <2>2. QED
    BY <2>1 DEF IndInv, RunsNumbered, DownIsEmpty, PartialIsMarked, RegisteredIsComplete,
       LiveRuns, Live, EndedIsClean
<1>3. ASSUME NEW n \in Names, CleanupStale(n) PROVE IndInv'
  <2>1. UNCHANGED <<name, started, clock, stage, result, handle, step, late, registered, agent>>
        /\ agent = "cleaning"
    BY <1>3 DEF CleanupStale
  <2>2. \A r \in Runs : step[r] \in {"new", "gone"}
    BY <2>1 DEF IndInv, DownIsEmpty
  <2>3. \/ file' = [file EXCEPT ![n] = "none"] /\ UNCHANGED <<marker, stale>>
        \/ file[n] = "none" /\ UNCHANGED file /\ marker' = [marker EXCEPT ![n] = "none"]
           /\ stale' = stale \ {n}
    BY <1>3 DEF CleanupStale, FilesWithout, Reliable
  <2>4. RunsNumbered'
    BY <2>1, <2>3 DEF IndInv, RunsNumbered, TypeOK, DiskOK
  <2>5. DownIsEmpty'
    BY <2>1, <2>3 DEF IndInv, DownIsEmpty, TypeOK, DiskOK
  <2>6. PartialIsMarked'
    BY <2>3 DEF IndInv, PartialIsMarked, TypeOK, DiskOK
  <2>7. QED
    BY <2>1, <2>2, <2>4, <2>5, <2>6
       DEF IndInv, DownIsEmpty, RegisteredIsComplete, LiveRuns, Live, EndedIsClean
<1>4. CASE Register
  <2>1. UNCHANGED <<file, marker, name, started, clock, stage, result, handle, step, late>>
        /\ agent = "cleaning" /\ agent' = "up" /\ stale = {}
        /\ registered' = {n \in Names : file[n] # "none"}
    BY <1>4 DEF Register, OnDisk, Reliable
  <2>2. \A r \in Runs : step[r] \in {"new", "gone"}
    BY <2>1 DEF IndInv, DownIsEmpty
  <2>3. \A n \in Names : file[n] # "none" => file[n] = "complete"
    BY <2>1 DEF IndInv, DownIsEmpty, PartialIsMarked, TypeOK, DiskOK
  <2>4. QED
    BY <2>1, <2>2, <2>3 DEF IndInv, RunsNumbered, DownIsEmpty, PartialIsMarked,
       RegisteredIsComplete, LiveRuns, Live, EndedIsClean
<1>5. QED
  BY <1>1, <1>2, <1>3, <1>4 DEF Startup

\* The rest touches nothing the invariant is about.
LEMMA OtherSteps ==
    ASSUME Reliable, IndInv, TypeOK',
           \/ StopCollecting \/ StopReturn
           \/ InspectorService \/ InspectorStart \/ InspectorEnd
           \/ (\E r \in Runs : LateUnit(r))
           \/ (\E e \in Edits : Edit(e)) \/ Deliver \/ UNCHANGED vars
    PROVE  IndInv'
<1>1. UNCHANGED <<file, marker, name, started, clock, stage, result, handle, step, late,
                  registered, agent, stale>>
  <2>1. \A r \in Runs : ~ LateUnit(r)
    BY DEF LateUnit, IndInv, RunsNumbered
  <2>2. QED
    BY <2>1 DEF StopCollecting, StopReturn, InspectorService, InspectorStart, InspectorEnd,
       Edit, Deliver, vars, diskVars, poolVars, builtVars, runVars
<1>2. QED
  BY <1>1 DEF IndInv, RunsNumbered, DownIsEmpty, PartialIsMarked, RegisteredIsComplete,
     LiveRuns, LiveRun, Live, EndedIsClean, EndedRun

\* The invariant holds of a fresh installation ...
LEMMA InitIndInv == Reliable /\ Init => IndInv
BY CollectionAssumption DEF Reliable, Init, IndInv, TypeOK, DiskOK, DataOK, ProcessOK, RunsOK, RunsNumbered,
   DownIsEmpty, PartialIsMarked, RegisteredIsComplete, LiveRuns, Live, EndedIsClean,
   Steps, Results, Runs, Names

\* ... and every step keeps it.
LEMMA NextIndInv ==
    ASSUME Reliable, IndInv, [Next]_vars
    PROVE  IndInv'
<1>1. TypeOK'
  BY TypeStep DEF IndInv
<1>2. \A r \in Runs : ~ FinalizeFails(r)
  BY DEF FinalizeFails, Reliable
<1>3. QED
  BY <1>1, <1>2, PipelineStep, UnitsStep, FinalizeStep, StartStep, ProcessStep, OtherSteps
     DEF Next, RunStep

-----------------------------------------------------------------------------
\* The types hold of every behaviour, whatever fails.
THEOREM TypeCorrect == Spec => []TypeOK
<1>1. Init => TypeOK
  BY CollectionAssumption DEF Init, TypeOK, DiskOK, DataOK, ProcessOK, RunsOK, Steps, Results, Runs, Names
<1>2. QED
  BY <1>1, TypeStep, PTL DEF Spec

\* Marker, file and pool stay in step with every run (IndInv).
THEOREM Invariance ==
    ASSUME Reliable
    PROVE  Spec => []IndInv
<1>1. Init => IndInv
  BY InitIndInv
<1>2. IndInv /\ [Next]_vars => IndInv'
  BY NextIndInv
<1>3. QED
  BY <1>1, <1>2, PTL DEF Spec

\* Readers never get an incomplete collection from the pool, across crashes
\* at any step, failures of any unit and stops at any moment, provided that
\* files and markers can be removed, no unit is overtaken by Finalize and no
\* two runs are built in the same second.
THEOREM ServedIsComplete ==
    ASSUME Reliable
    PROVE  Spec => []RegisteredIsComplete
<1>1. IndInv => RegisteredIsComplete
  BY DEF IndInv
<1>2. QED
  BY <1>1, Invariance, PTL

\* Under the same conditions a run that ended left nothing half done on disk.
THEOREM EndLeavesNothing ==
    ASSUME Reliable
    PROVE  Spec => []EndedIsClean
<1>1. IndInv => EndedIsClean
  BY DEF IndInv
<1>2. QED
  BY <1>1, Invariance, PTL

-----------------------------------------------------------------------------
(* What a step of a run leaves alone, whatever fails. *)

\* The other runs, their names and their databases.
LEMMA RunFrame ==
    ASSUME TypeOK, NEW r \in Runs, RunStep(r)
    PROVE  /\ UNCHANGED <<agent, started, clock, kind, name>>
           /\ \A q \in Runs \ {r} :
                 /\ step'[q] = step[q] /\ stage'[q] = stage[q]
                 /\ result'[q] = result[q] /\ snapshot'[q] = snapshot[q]
           /\ \A n \in Names \ {name[r]} : file'[n] = file[n] /\ groups'[n] = groups[n]
<1> USE DEF Unbuilt, diskVars, poolVars, envVars, builtVars, managerVars, runVars, Keep
<1>0. /\ step \in [Runs -> Steps] /\ stage \in [Runs -> 0..7]
      /\ result \in [Runs -> Results] /\ snapshot \in [Runs -> SUBSET Edits]
      /\ file \in [Names -> {"none", "partial", "complete"}]
      /\ groups \in [Names -> SUBSET Edits]
  BY DEF TypeOK, RunsOK, DiskOK, DataOK
<1>1. CASE NextUnit(r) \/ SubmitUnit(r) \/ Dispatch(r)
  BY <1>0, <1>1 DEF NextUnit, SubmitUnit, Dispatch
<1>2. CASE CreateMarker(r) \/ CreateFile(r) \/ Gather(r) \/ Rightsizing(r)
  BY <1>0, <1>2 DEF CreateMarker, CreateFile, Gather, Rightsizing, Return
<1>3. CASE Clone(r) \/ Sync(r) \/ Publish(r)
  BY <1>0, <1>3 DEF Clone, Sync, Publish, Return
<1>4. CASE Finalize(r) \/ FinalizeFails(r) \/ FinalizeRest(r) \/ LateUnit(r)
  BY <1>0, <1>4 DEF Finalize, FinalizeFails, FinalizeRest, LateUnit, RemoveFile,
     FilesWithout
<1>5. QED
  BY <1>1, <1>2, <1>3, <1>4 DEF RunStep, UnitStep

\* A run that takes a step was started, and one that is over stays over.
LEMMA RunStays ==
    ASSUME TypeOK, NEW r \in Runs, RunStep(r)
    PROVE  /\ step[r] # "new" /\ step'[r] # "new" /\ name[r] \in Names
           /\ Live(r)' => Live(r)
<1>0. step \in [Runs -> Steps] /\ (step[r] # "new" => name[r] \in Names)
  BY DEF TypeOK, RunsOK
<1>1. CASE NextUnit(r) \/ SubmitUnit(r) \/ Dispatch(r)
  BY <1>0, <1>1 DEF NextUnit, SubmitUnit, Dispatch, Live
<1>2. CASE UnitStep(r)
  <2>1. step[r] \in {"running", "opening", "syncing"}
    BY <1>2 DEF UnitStep, CreateMarker, CreateFile, Gather, Rightsizing, Clone, Sync,
       Publish, Running
  <2>2. step'[r] # "new"
    BY <1>0, <1>2 DEF UnitStep, CreateMarker, CreateFile, Gather, Rightsizing, Clone,
       Sync, Publish, Return
  <2>3. QED
    BY <1>0, <2>1, <2>2 DEF Live
<1>3. CASE Finalize(r) \/ FinalizeFails(r) \/ FinalizeRest(r) \/ LateUnit(r)
  BY <1>0, <1>3 DEF Finalize, FinalizeFails, FinalizeRest, LateUnit, Live
<1>4. QED
  BY <1>1, <1>2, <1>3 DEF RunStep

\* The steps of the service manager, the users and the console.
Bystander ==
    \/ StopCollecting \/ StopReturn
    \/ InspectorService \/ InspectorStart \/ InspectorEnd
    \/ (\E e \in Edits : Edit(e)) \/ Deliver \/ UNCHANGED vars

LEMMA BystanderFrame ==
    ASSUME TypeOK, Bystander
    PROVE  /\ UNCHANGED <<agent, started, clock, kind, name, step, stage, result,
                          snapshot, file, registered>>
           /\ \A n \in Names : groups[n] \subseteq groups'[n]
<1> USE DEF diskVars, poolVars, envVars, builtVars, managerVars, runVars
<1>1. CASE StopCollecting \/ StopReturn
  BY <1>1 DEF StopCollecting, StopReturn
<1>2. CASE InspectorService \/ InspectorStart \/ InspectorEnd
  BY <1>2 DEF InspectorService, InspectorStart, InspectorEnd
<1>3. ASSUME NEW e \in Edits, Edit(e)
      PROVE  /\ UNCHANGED <<agent, started, clock, kind, name, step, stage, result,
                            snapshot, file, registered>>
             /\ \A n \in Names : groups[n] \subseteq groups'[n]
  BY <1>3 DEF Edit, TypeOK, DataOK
<1>4. CASE Deliver \/ UNCHANGED vars
  BY <1>4 DEF Deliver, vars
<1>5. QED
  BY <1>1, <1>2, <1>3, <1>4 DEF Bystander

\* Every step is one of a run, of the process, of a start or of a bystander.
LEMMA StepCases ==
    ASSUME [Next]_vars
    PROVE  \/ \E k \in JobKinds : StartCollecting(k)
           \/ \E r \in Runs : RunStep(r)
           \/ Crash \/ Startup \/ Bystander
BY DEF Next, Bystander

\* A new run has the next number and, when no two are built in the same second,
\* the next name.
LEMMA StartShape ==
    ASSUME ~ SameSecond, TypeOK, clock = started, NEW k \in JobKinds,
           StartCollecting(k)
    PROVE  \E r \in Runs :
              /\ r = started + 1 /\ started' = r /\ clock' = r
              /\ kind' = [kind EXCEPT ![r] = k]
              /\ name' = [name EXCEPT ![r] = r] /\ step' = [step EXCEPT ![r] = "next"]
              /\ UNCHANGED <<agent, stage, result, snapshot, file, groups, registered>>
<1>1. started + 1 \in Runs /\ clock' = started + 1
  BY CollectionAssumption DEF StartCollecting, TypeOK, RunsOK, Runs
<1>2. QED
  BY <1>1 DEF StartCollecting, poolVars, diskVars

-----------------------------------------------------------------------------
(* Promotions *)

\* A step keeps PromotionInv, also with calls that fail and late units.
LEMMA PromotionStep ==
    ASSUME ~ SameSecond, PromotionInv, [Next]_vars
    PROVE  PromotionInv'
<1>0. TypeOK /\ TypeOK'
  BY TypeStep DEF PromotionInv
<1>1. ASSUME NEW k \in JobKinds, StartCollecting(k) PROVE PromotionInv'
  <2>1. PICK r \in Runs :
              /\ r = started + 1 /\ started' = r /\ clock' = r
              /\ name' = [name EXCEPT ![r] = r] /\ step' = [step EXCEPT ![r] = "next"]
              /\ UNCHANGED <<agent, result, file>>
    BY <1>0, <1>1, StartShape DEF PromotionInv
  <2>2. step[r] = "new" /\ result[r] = "ok" /\ agent = "up"
    BY <1>1, <2>1 DEF PromotionInv, StartCollecting, TypeOK, RunsOK, Runs
  <2>3. QED
    BY <1>0, <2>1, <2>2 DEF PromotionInv, Live, TypeOK, RunsOK, Runs
<1>2. ASSUME NEW r \in Runs, RunStep(r) PROVE PromotionInv'
  <2>1. step[r] # "new" /\ step'[r] # "new" /\ name[r] \in Names
    BY <1>0, <1>2, RunStays
  <2>2. Live(r)' => Live(r)
    BY <1>0, <1>2, RunStays
  <2>3. Live(r)' /\ result'[r] = "completed" => file'[name[r]] = "complete"
    <3>0. /\ Live(r) /\ result[r] = "completed" => file[name[r]] = "complete"
          /\ file \in [Names -> {"none", "partial", "complete"}]
          /\ result \in [Runs -> Results] /\ step \in [Runs -> Steps]
      BY <1>0 DEF PromotionInv, TypeOK, DiskOK, RunsOK
    <3>1. CASE NextUnit(r) \/ SubmitUnit(r) \/ Dispatch(r) \/ Clone(r) \/ Sync(r)
               \/ CreateMarker(r) \/ Gather(r) \/ Rightsizing(r)
      <4>1. UNCHANGED file
        BY <3>1 DEF NextUnit, SubmitUnit, Dispatch, Clone, Sync, CreateMarker, Gather,
           Rightsizing, diskVars
      <4>2. result'[r] = "completed" => result[r] = "completed"
        BY <3>0, <3>1 DEF NextUnit, SubmitUnit, Dispatch, Clone, Sync, CreateMarker,
           Gather, Rightsizing, Return
      <4>3. QED
        BY <2>2, <3>0, <4>1, <4>2
    <3>2. CASE CreateFile(r)
      <4>1. result'[r] = "completed" => result[r] = "completed"
        BY <3>0, <3>2 DEF CreateFile, Return
      <4>2. file[name[r]] = "complete" => file'[name[r]] = "complete"
        BY <2>1, <3>0, <3>2 DEF CreateFile
      <4>3. QED
        BY <2>2, <3>0, <4>1, <4>2
    <3>3. CASE Publish(r)
      <4>1. \/ file'[name[r]] = "complete"
            \/ UNCHANGED file /\ Return(r, "error")
        BY <2>1, <3>0, <3>3 DEF Publish
      <4>2. Return(r, "error") => (result'[r] = "completed" => result[r] = "completed")
        BY <3>0 DEF Return
      <4>3. QED
        BY <2>2, <3>0, <4>1, <4>2
    <3>4. CASE Finalize(r)
      <4>1. UNCHANGED result /\ (result[r] = "completed" => UNCHANGED file)
        BY <3>4 DEF Finalize
      <4>2. QED
        BY <2>2, <3>0, <4>1
    <3>5. CASE FinalizeFails(r) \/ FinalizeRest(r) \/ LateUnit(r)
      <4>1. step'[r] = "done"
        BY <3>0, <3>5 DEF FinalizeFails, FinalizeRest, LateUnit
      <4>2. QED
        BY <4>1 DEF Live
    <3>6. QED
      BY <1>2, <3>1, <3>2, <3>3, <3>4, <3>5 DEF RunStep, UnitStep
  <2>4. ASSUME NEW q \in Runs \ {r}, step[q] # "new"
        PROVE  file'[name[q]] = file[name[q]]
    BY <1>0, <1>2, <2>1, <2>4, RunFrame DEF PromotionInv, TypeOK, RunsOK, Runs, Names
  <2>5. QED
    BY <1>0, <1>2, <2>1, <2>2, <2>3, <2>4, RunFrame DEF PromotionInv, Live
<1>3. CASE Crash
  BY <1>0, <1>3 DEF Crash, PromotionInv, Live, diskVars, builtVars, TypeOK, RunsOK
<1>4. CASE Startup
  <2>1. UNCHANGED <<started, clock, name, step, result>> /\ agent # "up"
    BY <1>4 DEF Startup, Boot, CleanupStale, Register, Booting, builtVars, runVars
  <2>2. QED
    BY <1>0, <2>1 DEF PromotionInv, Live
<1>5. CASE Bystander
  BY <1>0, <1>5, BystanderFrame DEF PromotionInv, Live
<1>6. QED
  BY <1>1, <1>2, <1>3, <1>4, <1>5, StepCases

\* Whatever calls fail and however Finalize overtakes a unit, the pool of a
\* running agent gains only collections that Publish completed, as long as no
\* two runs are built in the same second.
THEOREM PromotedIsComplete ==
    ASSUME ~ SameSecond
    PROVE  Spec => PromotionIsComplete
<1>1. Init => PromotionInv
  BY CollectionAssumption
     DEF Init, PromotionInv, TypeOK, DiskOK, DataOK, ProcessOK, RunsOK, Steps, Results,
         Runs, Names, Live
<1>2. ASSUME PromotionInv, [Next]_vars, NEW n \in registered' \ registered, agent = "up"
      PROVE  file[n] = "complete"
  <2>1. CASE \E r \in Runs : RunStep(r)
    <3>1. PICK r \in Runs : RunStep(r)
      BY <2>1
    <3>2. Finalize(r) \/ UNCHANGED registered
      BY <3>1 DEF RunStep, UnitStep, NextUnit, SubmitUnit, Dispatch, CreateMarker,
         CreateFile, Gather, Rightsizing, Clone, Sync, Publish, FinalizeFails,
         FinalizeRest, LateUnit, Keep, Unbuilt, poolVars
    <3>3. Finalize(r) /\ result[r] = "completed" /\ n = name[r]
      BY <1>2, <3>2 DEF Finalize, Promote, poolVars
    <3>4. Live(r)
      BY <3>3 DEF Finalize, Live
    <3>5. QED
      BY <1>2, <3>3, <3>4 DEF PromotionInv
  <2>2. CASE Crash \/ Startup
    BY <1>2, <2>2 DEF Crash, Startup, Boot, CleanupStale, Register
  <2>3. CASE \E k \in JobKinds : StartCollecting(k)
    BY <1>2, <2>3 DEF StartCollecting, poolVars
  <2>4. CASE Bystander
    BY <1>2, <2>4, BystanderFrame DEF PromotionInv
  <2>5. QED
    BY <1>2, <2>1, <2>2, <2>3, <2>4, StepCases
<1>3. PromotionInv /\ [Next]_vars
        => [\A n \in registered' \ registered : agent = "up" => file[n] = "complete"]_vars
  BY <1>2
<1>4. PromotionInv /\ [Next]_vars => PromotionInv'
  BY PromotionStep
<1>5. QED
  BY <1>1, <1>3, <1>4, PTL DEF Spec, PromotionIsComplete

-----------------------------------------------------------------------------
(* User data *)

\* Where a unit stands in its pipeline.
LEMMA UnitStages ==
    ASSUME RunsOK, NEW r \in Runs, stage[r] \in 1..Last(r)
    PROVE  /\ Unit(r) = "provision" => stage[r] = 1
           /\ Unit(r) = "sync" => stage[r] = 5 /\ kind[r] = "vcenter"
           /\ Unit(r) = "publish" => stage[r] = Last(r)
           /\ kind[r] = "vcenter" => Last(r) = 7
           /\ kind[r] = "vcenter" /\ stage[r] = 5 => Unit(r) = "sync"
<1>1. CASE kind[r] = "vcenter"
  <2>1. Last(r) = 7 /\ stage[r] \in 1..7
    BY <1>1 DEF Last, Pipeline
  <2>2. Unit(r) = <<"provision", "connect", "ingest", "rightsizing", "sync",
                    "inventory", "publish">>[stage[r]]
    BY <1>1 DEF Unit, Pipeline
  <2>3. QED
    BY <1>1, <2>1, <2>2
<1>2. CASE kind[r] = "rvtools"
  <2>1. Last(r) = 4 /\ stage[r] \in 1..4
    BY <1>2 DEF Last, Pipeline
  <2>2. Unit(r) = <<"provision", "ingest", "inventory", "publish">>[stage[r]]
    BY <1>2 DEF Unit, Pipeline
  <2>3. QED
    BY <1>2, <2>1, <2>2
<1>3. QED
  BY <1>1, <1>2 DEF RunsOK

\* A step of run r keeps SyncInv if it keeps what SyncInv says of r: the other
\* runs have other names.
LEMMA SyncLocal ==
    ASSUME IndInv, SyncInv, NEW r \in Runs, RunStep(r), SyncProgress(r)'
    PROVE  SyncInv'
<1>0. TypeOK
  BY DEF IndInv
<1>1. ASSUME NEW q \in Runs \ {r} PROVE SyncProgress(q)'
  <2>1. /\ step'[q] = step[q] /\ stage'[q] = stage[q] /\ snapshot'[q] = snapshot[q]
        /\ UNCHANGED <<kind, name>>
    BY <1>0, RunFrame
  <2>2. ASSUME step[q] # "new"
        PROVE  file'[name[q]] = file[name[q]] /\ groups'[name[q]] = groups[name[q]]
    <3>1. name[q] \in Names \ {name[r]}
      BY <1>0, <2>2, RunStays DEF IndInv, RunsNumbered, TypeOK, RunsOK, Runs, Names
    <3>2. QED
      BY <1>0, <3>1, RunFrame
  <2>3. SyncProgress(q)
    BY DEF SyncInv
  <2>4. QED
    BY <2>1, <2>2, <2>3 DEF SyncProgress, Live, Last
<1>2. QED
  BY <1>1 DEF SyncInv

\* Every step of a run keeps it.
LEMMA SyncRunStep ==
    ASSUME Reliable, IndInv, SyncInv, NEW r \in Runs, RunStep(r)
    PROVE  SyncInv'
<1>0. /\ TypeOK /\ RunsOK /\ SyncProgress(r)
      /\ step \in [Runs -> Steps] /\ stage \in [Runs -> 0..7]
      /\ snapshot \in [Runs -> SUBSET Edits] /\ groups \in [Names -> SUBSET Edits]
      /\ file \in [Names -> {"none", "partial", "complete"}]
      /\ name[r] \in Names /\ step[r] # "new" /\ UNCHANGED <<kind, name>>
  BY RunStays, RunFrame DEF IndInv, SyncInv, TypeOK, RunsOK, DiskOK, DataOK
<1> SUFFICES SyncProgress(r)'
  BY SyncLocal
<1>1. CASE NextUnit(r) \/ SubmitUnit(r) \/ Dispatch(r)
  <2>1. UNCHANGED <<file, groups, snapshot>>
    BY <1>1 DEF NextUnit, SubmitUnit, Dispatch, diskVars
  <2>2. /\ step[r] \in {"next", "tick", "queued"}
        /\ \/ step'[r] = "finalize" /\ stage'[r] = stage[r]
           \/ step[r] = "next" /\ step'[r] = "tick" /\ stage'[r] = stage[r] + 1
              /\ stage[r] < Last(r)
           \/ step[r] # "next" /\ step'[r] \in {"queued", "running"}
              /\ stage'[r] = stage[r]
    BY <1>0, <1>1 DEF NextUnit, SubmitUnit, Dispatch
  <2>3. Live(r) /\ Last(r)' = Last(r)
    BY <1>0, <2>2 DEF Live, Last
  <2>4. stage[r] \in 0..7 /\ Last(r) \in {4, 7}
    BY <1>0, PipelineShape
  <2>5. QED
    BY <1>0, <2>1, <2>2, <2>3, <2>4 DEF SyncProgress, Live
<1>a. step[r] = "running" => stage[r] \in 1..Last(r)
  BY <1>0 DEF SyncProgress
<1>2. ASSUME NEW res \in Results, Return(r, res)
      PROVE  \/ step'[r] = "finalize"
             \/ step'[r] = "next" /\ res \notin {"error", "swallowed"}
  BY <1>0, <1>2 DEF Return
<1>3. CASE UnitStep(r)
  <2>0. UNCHANGED stage /\ Last(r)' = Last(r)
    BY <1>0, <1>3, UnitFrame DEF Last
  <2>1. CASE CreateMarker(r)
    <3>1. step[r] = "running" /\ stage[r] = 1 /\ UNCHANGED <<file, groups, snapshot>>
      BY <1>0, <1>a, <2>1, UnitStages DEF CreateMarker, Running, Keep
    <3>2. step'[r] \in {"opening", "finalize"}
      BY <1>0, <1>2, <2>1 DEF CreateMarker, Results
    <3>3. QED
      BY <1>0, <2>0, <3>1, <3>2 DEF SyncProgress, Live
  <2>2. CASE CreateFile(r)
    <3>1. step[r] = "opening" /\ UNCHANGED <<groups, snapshot>>
      BY <2>2 DEF CreateFile, Keep
    <3>2. step'[r] \in {"next", "finalize"}
      BY <1>2, <2>2 DEF CreateFile, Results
    <3>3. file'[name[r]] = "complete" => file[name[r]] = "complete"
      BY <1>0, <2>2 DEF CreateFile
    <3>4. QED
      BY <1>0, <2>0, <3>1, <3>2, <3>3 DEF SyncProgress, Live
  <2>3. CASE Gather(r) \/ Rightsizing(r)
    <3>1. step[r] = "running" /\ Unit(r) # "sync" /\ UNCHANGED <<file, groups, snapshot>>
      BY <2>3 DEF Gather, Rightsizing, Running, Keep, diskVars
    <3>2. step'[r] \in {"next", "finalize"}
      BY <1>2, <2>3 DEF Gather, Rightsizing, Results
    <3>3. kind[r] = "vcenter" => stage[r] # 5
      BY <1>0, <1>a, <3>1, UnitStages
    <3>4. QED
      BY <1>0, <2>0, <3>1, <3>2, <3>3 DEF SyncProgress, Live
  <2>4. CASE Clone(r)
    <3>1. step[r] = "running" /\ stage[r] = 5 /\ Last(r) = 7 /\ UNCHANGED <<file, groups>>
      BY <1>0, <1>a, <2>4, UnitStages DEF Clone, Running, diskVars
    <3>2. \/ step'[r] \in {"syncing", "finalize"}
          \/ step'[r] = "next" /\ UNCHANGED snapshot
      BY <1>0, <1>2, <2>4 DEF Clone, Results
    <3>3. file[name[r]] # "complete" /\ (kind[r] = "vcenter" => snapshot[r] = {})
      BY <1>0, <3>1 DEF SyncProgress, Live
    <3>4. QED
      BY <1>0, <2>0, <3>1, <3>2, <3>3 DEF SyncProgress, Live
  <2>5. CASE Sync(r)
    <3>1. step[r] = "syncing" /\ stage[r] = 5 /\ UNCHANGED <<file, snapshot>>
      BY <1>0, <2>5 DEF Sync, Keep, SyncProgress
    <3>2. \/ step'[r] = "finalize"
          \/ step'[r] = "next" /\ snapshot[r] \subseteq groups'[name[r]]
      BY <1>0, <1>2, <2>5 DEF Sync, Results
    <3>3. groups[name[r]] \subseteq groups'[name[r]]
      BY <1>0, <2>5 DEF Sync
    <3>4. QED
      BY <1>0, <2>0, <3>1, <3>2, <3>3 DEF SyncProgress, Live
  <2>6. CASE Publish(r)
    <3>1. /\ step[r] = "running" /\ stage[r] = Last(r)
          /\ UNCHANGED <<groups, snapshot>>
      BY <1>0, <1>a, <2>6, UnitStages DEF Publish, Running, Keep
    <3>2. step'[r] \in {"next", "finalize"}
      BY <1>2, <2>6 DEF Publish, Results
    <3>3. kind[r] = "vcenter" => stage[r] = 7
      BY <1>0, <1>a, <3>1, UnitStages
    <3>4. QED
      BY <1>0, <2>0, <3>1, <3>2, <3>3 DEF SyncProgress, Live
  <2>7. QED
    BY <1>3, <2>1, <2>2, <2>3, <2>4, <2>5, <2>6 DEF UnitStep
<1>4. CASE Finalize(r) \/ FinalizeFails(r) \/ FinalizeRest(r) \/ LateUnit(r)
  <2>1. UNCHANGED <<stage, snapshot>> /\ Last(r)' = Last(r)
    BY <1>0, <1>4 DEF Finalize, FinalizeFails, FinalizeRest, LateUnit, Last
  <2>2. /\ step'[r] \in {"finalizing", "done"}
        /\ step'[r] = "finalizing" => Live(r)
    BY <1>0, <1>4 DEF Finalize, FinalizeFails, FinalizeRest, LateUnit, Live
  <2>3. file'[name[r]] = "complete" => file[name[r]] = "complete" /\ UNCHANGED groups
    BY <1>0, <1>4 DEF Finalize, FinalizeFails, FinalizeRest, LateUnit, RemoveFile,
       FilesWithout, diskVars
  <2>4. QED
    BY <1>0, <2>1, <2>2, <2>3 DEF SyncProgress, Live
<1>5. QED
  BY <1>1, <1>3, <1>4 DEF RunStep

\* So does every other step.
LEMMA SyncStep ==
    ASSUME Reliable, IndInv, SyncInv, [Next]_vars
    PROVE  SyncInv'
<1>0. /\ TypeOK /\ step \in [Runs -> Steps] /\ kind \in [Runs -> {"vcenter", "rvtools"}]
      /\ name \in [Runs -> Names \cup {0}]
      /\ file \in [Names -> {"none", "partial", "complete"}]
      /\ groups \in [Names -> SUBSET Edits]
      /\ \A q \in Runs : step[q] # "new" => name[q] \in Names
  BY DEF IndInv, TypeOK, RunsOK, DiskOK, DataOK
<1>1. ASSUME NEW k \in JobKinds, StartCollecting(k) PROVE SyncInv'
  <2>1. PICK r \in Runs :
              /\ r = started + 1 /\ started' = r /\ clock' = r
              /\ kind' = [kind EXCEPT ![r] = k]
              /\ name' = [name EXCEPT ![r] = r] /\ step' = [step EXCEPT ![r] = "next"]
              /\ UNCHANGED <<agent, stage, result, snapshot, file, groups, registered>>
    BY <1>0, <1>1, StartShape DEF Reliable, IndInv, RunsNumbered
  <2>2. /\ r \in Names /\ file[r] = "none"
        /\ step[r] = "new" /\ stage[r] = 0 /\ snapshot[r] = {}
    BY <1>0, <2>1 DEF IndInv, RunsNumbered, SyncInv, SyncProgress, TypeOK, RunsOK, Runs, Names
  <2>3. SyncProgress(r)'
    BY <1>0, <2>1, <2>2 DEF SyncProgress
  <2>4. ASSUME NEW q \in Runs \ {r} PROVE SyncProgress(q)'
    <3>1. /\ step'[q] = step[q] /\ kind'[q] = kind[q] /\ name'[q] = name[q]
          /\ Last(q)' = Last(q)
      BY <1>0, <2>1 DEF Last
    <3>2. SyncProgress(q)
      BY DEF SyncInv
    <3>3. QED
      BY <2>1, <3>1, <3>2 DEF SyncProgress, Live
  <2>5. QED
    BY <2>3, <2>4 DEF SyncInv
<1>2. CASE Crash
  <2>1. UNCHANGED <<file, groups, kind, name, snapshot, stage>>
    BY <1>2 DEF Crash, diskVars, builtVars
  <2>2. \A q \in Runs : step'[q] = (IF step[q] = "new" THEN "new" ELSE "gone")
    BY <1>2 DEF Crash
  <2>3. ASSUME NEW q \in Runs PROVE SyncProgress(q)'
    <3>1. SyncProgress(q)
      BY DEF SyncInv
    <3>2. QED
      BY <2>1, <2>2, <3>1 DEF SyncProgress, Live
  <2>4. QED
    BY <2>3 DEF SyncInv
<1>3. CASE Startup
  <2>1. /\ UNCHANGED <<kind, name, snapshot, stage, step>>
        /\ \A q \in Runs : ~ Live(q)
        /\ \A n \in Names : \/ file'[n] = file[n] /\ groups'[n] = groups[n]
                            \/ file'[n] = "none"
    <3>1. UNCHANGED <<kind, name, snapshot, stage, step>> /\ agent # "up"
      BY <1>3 DEF Startup, Boot, CleanupStale, Register, Booting, builtVars, runVars
    <3>2. \A n \in Names : \/ file'[n] = file[n] /\ groups'[n] = groups[n]
                           \/ file'[n] = "none"
      BY <1>0, <1>3 DEF Startup, Boot, CleanupStale, Register, FilesWithout
    <3>3. QED
      BY <3>1, <3>2 DEF IndInv, DownIsEmpty, Live
  <2>2. ASSUME NEW q \in Runs PROVE SyncProgress(q)'
    <3>1. SyncProgress(q)
      BY DEF SyncInv
    <3>2. QED
      BY <1>0, <2>1, <3>1 DEF SyncProgress, Live
  <2>3. QED
    BY <2>2 DEF SyncInv
<1>4. CASE Bystander
  <2>1. /\ UNCHANGED <<kind, name, step, stage, snapshot, file>>
        /\ \A n \in Names : groups[n] \subseteq groups'[n]
    BY <1>0, <1>4, BystanderFrame
  <2>2. ASSUME NEW q \in Runs PROVE SyncProgress(q)'
    <3>1. SyncProgress(q) /\ Last(q)' = Last(q)
      BY <2>1 DEF SyncInv, Last
    <3>2. QED
      BY <1>0, <2>1, <3>1 DEF SyncProgress, Live
  <2>3. QED
    BY <2>2 DEF SyncInv
<1>5. QED
  BY <1>1, <1>2, <1>3, <1>4, SyncRunStep, StepCases

\* When calls succeed and runs do not share a second, every vCenter collection
\* that is served has the user's changes that Sync cloned from the previous one,
\* across stops, failures, crashes and restarts.
THEOREM UserDataIsCarriedOver ==
    ASSUME Reliable
    PROVE  Spec => []UserDataCarriedOver
<1>1. Init => SyncInv
  BY DEF Init, SyncInv, SyncProgress, Live
<1>2. IndInv /\ SyncInv /\ [Next]_vars => SyncInv'
  BY SyncStep
<1>3. IndInv /\ SyncInv => UserDataCarriedOver
  <2>1. ASSUME IndInv, SyncInv, NEW r \in Runs, kind[r] = "vcenter", name[r] \in registered
        PROVE  snapshot[r] \subseteq groups[name[r]]
    <3>1. file[name[r]] = "complete"
      BY <2>1 DEF IndInv, RegisteredIsComplete
    <3>2. CASE step[r] = "new"
      BY <2>1, <3>2 DEF SyncInv, SyncProgress
    <3>3. CASE step[r] # "new"
      BY <2>1, <3>1, <3>3 DEF SyncInv, SyncProgress
    <3>4. QED
      BY <3>2, <3>3
  <2>2. QED
    BY <2>1 DEF UserDataCarriedOver
<1>4. QED
  BY <1>1, <1>2, <1>3, Invariance, PTL DEF Spec
=============================================================================
