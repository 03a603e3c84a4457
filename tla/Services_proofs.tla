--------------------------- MODULE Services_proofs ---------------------------
(***************************************************************************)
(* Proofs of the safety properties of four components the run "services"   *)
(* checks: the stored credentials (Secrets), for any number of requests,   *)
(* accounts, passwords, keys, datacenters and privileges, the v1           *)
(* collection (Collection1), for any number of collections and crashes,    *)
(* the database pool (Databases), for any number of collections,           *)
(* migrations, requests and faults, and the comparison of two collections  *)
(* (Comparison), for any VMs, page sizes and changes of exclusion.         *)
(***************************************************************************)
EXTENDS Databases, Secrets, Collection1, Comparison, SequenceTheorems, FiniteSetTheorems, WellFoundedInduction, TLAPS

-----------------------------------------------------------------------------
(* Collection1: operators. *)

\* A set of natural numbers that is not empty has a smallest element.
LEMMA SmallestElement ==
    ASSUME NEW S, S \subseteq Nat, S # {}
    PROVE  \E n \in S : \A m \in S : n <= m
<1> DEFINE R == OpToRel(<, Nat)
<1>1. \E n \in S : \A m \in S : ~ (<<m, n>> \in R)
  BY NatLessThanWellFounded, WFMin
<1>2. PICK n \in S : \A m \in S : ~ (<<m, n>> \in R)
  BY <1>1
<1>3. ASSUME NEW m \in S PROVE n <= m
  <2>1. ~ (m < n)
    BY <1>2 DEF OpToRel
  <2>2. QED
    BY <2>1
<1>4. QED
  BY <1>3

\* LoadDatabases uses the agent's own database, or one of the files.
LEMMA LoadedIsAFile ==
    LoadDatabases = 0 \/ LoadDatabases \in Files1
<1>1. SUFFICES ASSUME Files1 # {} PROVE LoadDatabases \in Files1
  BY DEF LoadDatabases
<1>2. Files1 \subseteq Runs1
  BY DEF Files1
<1> DEFINE S == {n \in Nat : \E r \in Files1 : n = MaxRuns1 - r}
<1>3. S # {}
  <2>1. PICK r \in Files1 : TRUE
    BY <1>1
  <2>2. MaxRuns1 - r \in Nat
    BY <2>1, <1>2, Collection1Assumption DEF Runs1
  <2>3. QED
    BY <2>1, <2>2
<1>4. PICK n \in S : \A m \in S : n <= m
  <2>1. S \subseteq Nat
    OBVIOUS
  <2>2. QED
    BY <1>3, <2>1, SmallestElement
<1>5. PICK r \in Files1 : n = MaxRuns1 - r
  BY <1>4
<1>6. ASSUME NEW q \in Files1 PROVE q <= r
  <2>1. MaxRuns1 - q \in S
    BY <1>2, Collection1Assumption DEF Runs1
  <2>2. n <= MaxRuns1 - q
    BY <1>4, <2>1
  <2>3. QED
    BY <2>2, <1>5, <1>2, Collection1Assumption DEF Runs1
<1>7. QED
  BY <1>1, <1>5, <1>6 DEF LoadDatabases

-----------------------------------------------------------------------------
(* Collection1: the invariant. *)

LEMMA Collection1InitInv ==
    ASSUME Collection1Init
    PROVE  Collection1Inv
BY Collection1Assumption
   DEF Collection1Init, Collection1Inv, LegacyTypeOK, Fresh1, Completed1, Removed1, Current1,
       Runs1, Results1, Live1, HasInventory1

LEMMA StartKeeps ==
    ASSUME Collection1Inv, StartCollector
    PROVE  Collection1Inv'
<1> USE Collection1Assumption
<1> DEFINE r == started1 + 1
<1>0. r \in Runs1 /\ started1 \in Nat /\ MaxRuns1 \in Nat
  BY DEF StartCollector, Start1, Collection1Inv, LegacyTypeOK
<1>1. step1[r] = "new"
  BY <1>0 DEF Collection1Inv, Fresh1
<1>2. /\ started1' = r /\ pipeline1' = r /\ step1' = [step1 EXCEPT ![r] = "next"]
      /\ UNCHANGED <<marker1, file1, left1, up1, crashes1, current1, stopping1, stage1, result1>>
  BY DEF StartCollector, Start1, diskVars1
<1>3. /\ step1'[r] = "next" /\ \A q \in Runs1 : q # r => step1'[q] = step1[q]
  BY <1>0, <1>2 DEF Collection1Inv, LegacyTypeOK
<1> HIDE DEF r
<1>4. LegacyTypeOK'
  BY <1>0, <1>2 DEF Collection1Inv, LegacyTypeOK, Runs1, Results1, r
<1>5. Fresh1'
  BY <1>0, <1>1, <1>2, <1>3 DEF Collection1Inv, Fresh1, LegacyTypeOK, Runs1, r
<1>6. Completed1'
  BY <1>0, <1>1, <1>2, <1>3 DEF Collection1Inv, Fresh1, Completed1, LegacyTypeOK
<1>7. Removed1'
  BY <1>0, <1>1, <1>2, <1>3 DEF Collection1Inv, Fresh1, Removed1, LegacyTypeOK, Live1
<1>8. Current1'
  <2>1. r \notin stopping1
    BY <1>0 DEF Collection1Inv, LegacyTypeOK, r
  <2>2. HasInventory1' = HasInventory1
    BY <1>2 DEF HasInventory1
  <2>3. current1 # 0 => current1 \in Runs1 /\ current1 # r
    BY <1>0, <1>1 DEF Collection1Inv, LegacyTypeOK, Runs1, r
  <2>4. QED
    BY <1>0, <1>1, <1>2, <1>3, <2>1, <2>2, <2>3 DEF Collection1Inv, Current1, StartCollector, Start1
<1>9. QED
  BY <1>4, <1>5, <1>6, <1>7, <1>8 DEF Collection1Inv

LEMMA StopKeeps ==
    ASSUME Collection1Inv, StopCollector
    PROVE  Collection1Inv'
<1> USE Collection1Assumption
<1>1. /\ UNCHANGED <<marker1, file1, left1, up1, crashes1, current1, started1, step1, stage1, result1>>
      /\ pipeline1' \in {0, pipeline1}
      /\ stopping1' \subseteq stopping1 \cup {pipeline1}
      /\ pipeline1' # 0 => stopping1' \subseteq stopping1
      /\ stopping1' \subseteq 1..started1
  <2>1. CASE Stop1Collection
    BY <2>1 DEF Stop1Collection, diskVars1, Collection1Inv, LegacyTypeOK
  <2>2. CASE \E r \in Runs1 : StopReturn1(r)
    BY <2>2 DEF StopReturn1, diskVars1, Collection1Inv, LegacyTypeOK
  <2>3. QED
    BY <2>1, <2>2 DEF StopCollector
<1>2. LegacyTypeOK'
  BY <1>1 DEF Collection1Inv, LegacyTypeOK
<1>3. Fresh1' /\ Completed1' /\ Removed1'
  BY <1>1 DEF Collection1Inv, Fresh1, Completed1, Removed1, Live1
<1>4. Current1'
  BY <1>1 DEF Collection1Inv, Current1, HasInventory1
<1>5. QED
  BY <1>2, <1>3, <1>4 DEF Collection1Inv

LEMMA CrashKeeps ==
    ASSUME Collection1Inv, Crash1
    PROVE  Collection1Inv'
<1> USE Collection1Assumption
<1>1. /\ step1' = [r \in Runs1 |-> IF step1[r] = "new" THEN "new" ELSE "gone"]
      /\ left1' = left1 \cup {r \in Runs1 : Live1(r)}
      /\ current1' = 0 /\ pipeline1' = 0 /\ stopping1' = {} /\ up1' = FALSE
      /\ crashes1' = crashes1 + 1 /\ crashes1 < MaxCrashes1
      /\ UNCHANGED <<marker1, file1, started1, stage1, result1>>
  BY DEF Crash1
<1>2. LegacyTypeOK'
  <2>1. {r \in Runs1 : Live1(r)} \subseteq 1..started1
    BY DEF Collection1Inv, LegacyTypeOK, Fresh1, Live1, Runs1
  <2>2. left1' \subseteq 1..started1'
    BY <1>1, <2>1 DEF Collection1Inv, LegacyTypeOK
  <2>3. step1' \in [Runs1 -> {"new", "gone"}]
    BY <1>1
  <2>4. crashes1' \in 0..MaxCrashes1
    BY <1>1 DEF Collection1Inv, LegacyTypeOK
  <2>5. /\ marker1' \in [Runs1 -> {"none", "running", "failed"}]
        /\ file1' \in [Runs1 -> {"none", "partial", "inventory", "whole"}]
        /\ started1' \in 0..MaxRuns1 /\ stage1' \in [Runs1 -> 0..8]
        /\ result1' \in [Runs1 -> Results1]
        /\ current1' \in 0..started1' /\ pipeline1' \in 0..started1'
    BY <1>1 DEF Collection1Inv, LegacyTypeOK
  <2>6. QED
    BY <1>1, <2>2, <2>3, <2>4, <2>5 DEF LegacyTypeOK
<1>3. Fresh1' /\ Completed1'
  BY <1>1 DEF Collection1Inv, Fresh1, Completed1, LegacyTypeOK
<1>4. Removed1'
  BY <1>1 DEF Collection1Inv, Fresh1, Removed1, Live1, LegacyTypeOK
<1>5. Current1'
  BY <1>1 DEF Collection1Inv, Current1
<1>6. QED
  BY <1>2, <1>3, <1>4, <1>5 DEF Collection1Inv

LEMMA RestartKeeps ==
    ASSUME Collection1Inv, initV1
    PROVE  Collection1Inv'
<1> USE Collection1Assumption
<1>1. /\ ~up1 /\ up1' = TRUE /\ current1' = LoadDatabases
      /\ UNCHANGED <<marker1, file1, left1, crashes1, started1, pipeline1, stopping1, step1,
                     stage1, result1>>
  BY DEF initV1, diskVars1
<1>2. current1' = 0 \/ (current1' \in Runs1 /\ file1[current1'] # "none")
  BY <1>1, LoadedIsAFile DEF Files1
<1>3. current1' # 0 => current1' \in 1..started1 /\ step1[current1'] = "gone"
  BY <1>1, <1>2 DEF Collection1Inv, Fresh1, Current1, Runs1, LegacyTypeOK
<1>4. LegacyTypeOK'
  BY <1>1, <1>3 DEF Collection1Inv, LegacyTypeOK
<1>5. Fresh1' /\ Completed1' /\ Removed1'
  BY <1>1 DEF Collection1Inv, Fresh1, Completed1, Removed1, Live1
<1>6. Current1'
  BY <1>1, <1>3 DEF Collection1Inv, Current1
<1>7. QED
  BY <1>4, <1>5, <1>6 DEF Collection1Inv

\* A step of a run, seen from outside: it moves that run, forward, and only that.
RunFrame1(r) ==
    /\ left1 \subseteq left1' /\ left1' \subseteq left1 \cup {r}
    /\ UNCHANGED <<up1, crashes1, started1, pipeline1, stopping1>>
    /\ step1[r] \notin {"new", "done", "gone"} /\ step1'[r] \notin {"new", "gone"}
    /\ \A q \in Runs1 \ {r} : /\ file1'[q] = file1[q] /\ step1'[q] = step1[q]
                              /\ stage1'[q] = stage1[q] /\ result1'[q] = result1[q]
    /\ current1' \in {current1, r}

\* What holds of the run after it.
RunLocal1(r) ==
    /\ result1'[r] \in {"completed", "unattached"} =>
           /\ file1'[r] = "whole" /\ stage1'[r] = 8
           /\ step1'[r] \in {"next", "finalize", "finalizing", "done", "gone"}
    /\ result1'[r] = "unattached" => step1'[r] \in {"done", "gone"}
    /\ step1'[r] = "next" /\ stage1'[r] = 8 => result1'[r] = "completed"
    /\ step1'[r] = "opening" => stage1'[r] = 1
    /\ step1'[r] = "finalizing" /\ result1'[r] = "ok" => file1'[r] = "none" \/ r \in left1'
    /\ file1'[r] = "inventory" => step1'[r] \notin {"new", "done", "gone"} \/ r \in left1'
    /\ r = pipeline1 /\ step1'[r] \in {"finalize", "finalizing", "done"} => result1'[r] # "ok"

\* How it changes the database in use: Finalize of a completed run puts its
\* database in use, and no other step touches the one in use.
RunCurrent1(r) ==
    \/ /\ current1' = r /\ step1'[r] = "finalizing" /\ result1'[r] = "completed"
       /\ file1'[r] = "whole"
    \/ /\ current1' = current1
       /\ current1 = r => /\ file1'[r] = file1[r] /\ result1'[r] = "completed"
                          /\ step1'[r] \in {"finalizing", "done"}
       /\ step1'[r] \in {"finalizing", "done"} /\ result1'[r] = "completed" =>
              step1[r] = "finalizing" /\ result1[r] = "completed"

RunTypes1 ==
    /\ marker1' \in [Runs1 -> {"none", "running", "failed"}]
    /\ file1' \in [Runs1 -> {"none", "partial", "inventory", "whole"}]
    /\ step1' \in [Runs1 -> {"new", "next", "queued", "running", "opening",
                             "finalize", "finalizing", "done", "gone"}]
    /\ stage1' \in [Runs1 -> 0..8] /\ result1' \in [Runs1 -> Results1]

\* A run that makes a step is in use only when it completed.
LEMMA StepperInUse ==
    ASSUME Collection1Inv, NEW r \in Runs1, step1[r] \notin {"new", "done", "gone"}, current1 = r
    PROVE  result1[r] = "completed" /\ step1[r] = "finalizing"
BY Collection1Assumption DEF Collection1Inv, Current1, Runs1

LEMMA PipelineStep ==
    ASSUME Collection1Inv, NEW r \in Runs1, NextUnit1(r) \/ Dispatch1Unit(r)
    PROVE  RunFrame1(r) /\ RunLocal1(r) /\ RunCurrent1(r) /\ RunTypes1
<1> USE Collection1Assumption
<1>1. /\ step1[r] \in {"next", "queued"}
      /\ UNCHANGED <<marker1, file1, left1, up1, crashes1, current1, started1, pipeline1, stopping1,
                     result1>>
      /\ \E t \in {"queued", "running", "finalize"} : step1' = [step1 EXCEPT ![r] = t]
  BY DEF NextUnit1, Dispatch1Unit, diskVars1, processVars1
<1>2. \/ /\ stage1' = stage1
         /\ step1[r] = "next" => stage1[r] = 8 /\ result1[r] = "completed"
      \/ /\ stage1[r] < 8 /\ stage1' = [stage1 EXCEPT ![r] = @ + 1] /\ step1[r] = "next"
  BY DEF NextUnit1, Dispatch1Unit, Collection1Inv, Completed1, LegacyTypeOK
<1>3. RunTypes1
  BY <1>1, <1>2 DEF Collection1Inv, LegacyTypeOK, RunTypes1
<1>4. RunFrame1(r)
  BY <1>1, <1>2 DEF Collection1Inv, LegacyTypeOK, RunFrame1
<1>5. r = pipeline1 /\ step1'[r] = "finalize" => result1[r] # "ok"
  <2>1. SUFFICES ASSUME r = pipeline1, step1'[r] = "finalize" PROVE result1[r] = "completed"
    OBVIOUS
  <2>2. r \notin stopping1
    BY <2>1 DEF Collection1Inv, Current1, Runs1
  <2>3. step1[r] = "next" /\ ~ (stage1[r] < 8)
    BY <2>1, <2>2 DEF NextUnit1, Dispatch1Unit, Collection1Inv, LegacyTypeOK
  <2>4. QED
    BY <2>3 DEF Collection1Inv, Completed1, LegacyTypeOK
<1>6. step1'[r] \in {"queued", "running", "finalize"}
  BY <1>1 DEF Collection1Inv, LegacyTypeOK
<1>6a. result1[r] \in {"completed", "unattached"} => step1'[r] = "finalize" /\ stage1' = stage1
  <2>1. SUFFICES ASSUME result1[r] \in {"completed", "unattached"}
                 PROVE  step1'[r] = "finalize" /\ stage1' = stage1
    OBVIOUS
  <2>2. step1[r] = "next" /\ ~ (stage1[r] < 8)
    BY <1>1, <2>1 DEF Collection1Inv, Completed1
  <2>3. QED
    BY <2>2 DEF NextUnit1, Dispatch1Unit, Collection1Inv, LegacyTypeOK
<1>7. RunLocal1(r)
  BY <1>1, <1>5, <1>6, <1>6a DEF RunLocal1, Collection1Inv, Completed1
<1>8. RunCurrent1(r)
  BY <1>1, <1>6, StepperInUse DEF RunCurrent1
<1>9. QED
  BY <1>3, <1>4, <1>7, <1>8

\* What a unit does to its run.
LEMMA UnitEffect ==
    ASSUME Collection1Inv, NEW r \in Runs1, UnitStep1(r)
    PROVE  /\ step1[r] \in {"running", "opening"}
           /\ UNCHANGED <<left1, up1, crashes1, current1, started1, pipeline1, stopping1, stage1>>
           /\ \E m \in {"running", marker1[r]} : marker1' = [marker1 EXCEPT ![r] = m]
           /\ \E f \in {"partial", "inventory", "whole", file1[r]} :
                  file1' = [file1 EXCEPT ![r] = f]
           /\ \/ /\ step1' = [step1 EXCEPT ![r] = "opening"] /\ stage1[r] = 1
                 /\ UNCHANGED result1
              \/ /\ step1' = [step1 EXCEPT ![r] = "finalize"] /\ r \in stopping1
                 /\ UNCHANGED result1
              \/ /\ step1' = [step1 EXCEPT ![r] = "finalize"]
                 /\ result1' = [result1 EXCEPT ![r] = "error"]
              \/ /\ step1' = [step1 EXCEPT ![r] = "next"]
                 /\ \E res \in {"ok", "flawed"} : result1' = [result1 EXCEPT ![r] = res]
                 /\ stage1[r] < 8
              \/ /\ step1' = [step1 EXCEPT ![r] = "next"] /\ stage1[r] = 8
                 /\ result1' = [result1 EXCEPT ![r] = "completed"]
                 /\ file1' = [file1 EXCEPT ![r] = "whole"]
<1> USE DEF processVars1, Return1, Running1
<1>0. /\ marker1' = marker1 => marker1' = [marker1 EXCEPT ![r] = marker1[r]]
      /\ file1' = file1 => file1' = [file1 EXCEPT ![r] = file1[r]]
  BY DEF Collection1Inv, LegacyTypeOK
<1>1. CASE CreateMarker1(r)
  BY <1>0, <1>1 DEF CreateMarker1
<1>2. CASE InitCollection(r)
  <2>1. stage1[r] = 1
    BY <1>2 DEF InitCollection, Collection1Inv, Completed1
  <2>2. QED
    BY <1>0, <1>2, <2>1 DEF InitCollection
<1>3. CASE VerifyCredentials1(r)
  BY <1>0, <1>3 DEF VerifyCredentials1
<1>4. CASE Collect1(r)
  BY <1>0, <1>4 DEF Collect1
<1>5. CASE IngestSqlite1(r)
  BY <1>0, <1>5 DEF IngestSqlite1
<1>6. CASE MatchApplications1(r)
  BY <1>0, <1>6 DEF MatchApplications1
<1>7. CASE Rightsizing1(r)
  BY <1>0, <1>7 DEF Rightsizing1
<1>8. CASE SaveInventory1(r)
  BY <1>0, <1>8 DEF SaveInventory1
<1>9. CASE Publish1(r)
  BY <1>0, <1>9 DEF Publish1
<1>10. QED
  BY <1>1, <1>2, <1>3, <1>4, <1>5, <1>6, <1>7, <1>8, <1>9 DEF UnitStep1

LEMMA UnitKeeps ==
    ASSUME Collection1Inv, NEW r \in Runs1, UnitStep1(r)
    PROVE  RunFrame1(r) /\ RunLocal1(r) /\ RunCurrent1(r) /\ RunTypes1
<1> USE Collection1Assumption
<1>1. /\ step1[r] \in {"running", "opening"}
      /\ UNCHANGED <<left1, up1, crashes1, current1, started1, pipeline1, stopping1, stage1>>
  BY UnitEffect
<1>2. PICK m \in {"running", marker1[r]} : marker1' = [marker1 EXCEPT ![r] = m]
  BY UnitEffect
<1>3. PICK f \in {"partial", "inventory", "whole", file1[r]} : file1' = [file1 EXCEPT ![r] = f]
  BY UnitEffect
<1>4. PICK t \in {"opening", "finalize", "next"} : step1' = [step1 EXCEPT ![r] = t]
  BY UnitEffect
<1>5. PICK res \in {"ok", "flawed", "error", "completed", result1[r]} :
        result1' = [result1 EXCEPT ![r] = res]
  <2>1. result1' = result1 => result1' = [result1 EXCEPT ![r] = result1[r]]
    BY DEF Collection1Inv, LegacyTypeOK
  <2>2. QED
    BY <2>1, UnitEffect
<1>6. /\ step1'[r] = t /\ result1'[r] = res /\ file1'[r] = f
      /\ \A q \in Runs1 \ {r} : /\ file1'[q] = file1[q] /\ step1'[q] = step1[q]
                                /\ stage1'[q] = stage1[q] /\ result1'[q] = result1[q]
  BY <1>1, <1>3, <1>4, <1>5 DEF Collection1Inv, LegacyTypeOK
<1>7. RunTypes1
  BY <1>1, <1>2, <1>3, <1>4, <1>5 DEF Collection1Inv, LegacyTypeOK, RunTypes1, Results1
<1>8. RunFrame1(r)
  BY <1>1, <1>6 DEF RunFrame1
<1>9. result1[r] \notin {"completed", "unattached"}
  BY <1>1 DEF Collection1Inv, Completed1
<1>10. \/ t = "opening" /\ stage1[r] = 1 /\ res = result1[r]
       \/ t = "finalize" /\ r \in stopping1 /\ res = result1[r]
       \/ t = "finalize" /\ res = "error"
       \/ t = "next" /\ res \in {"ok", "flawed"} /\ stage1[r] < 8
       \/ t = "next" /\ res = "completed" /\ stage1[r] = 8 /\ f = "whole"
  <2>1. \A x : /\ step1' = [step1 EXCEPT ![r] = x] => t = x
               /\ result1' = [result1 EXCEPT ![r] = x] => res = x
               /\ file1' = [file1 EXCEPT ![r] = x] => f = x
    BY <1>6 DEF Collection1Inv, LegacyTypeOK
  <2>2. result1' = result1 => res = result1[r]
    BY <1>6
  <2>3. QED
    BY <2>1, <2>2, UnitEffect
<1>11. RunLocal1(r)
  <2>1. r = pipeline1 => r \notin stopping1
    BY DEF Collection1Inv, Current1, Runs1
  <2>2. stage1[r] \in 0..8 /\ stage1' = stage1
    BY <1>1 DEF Collection1Inv, LegacyTypeOK
  <2>3. QED
    BY <1>6, <1>9, <1>10, <2>1, <2>2 DEF RunLocal1
<1>12. RunCurrent1(r)
  BY <1>1, <1>6, <1>4, StepperInUse DEF RunCurrent1
<1>13. QED
  BY <1>7, <1>8, <1>11, <1>12

\* os.Remove: the database is gone, or it is left behind.
LEMMA RemoveEffect ==
    ASSUME Collection1Inv, NEW r \in Runs1, RemoveFile1(r)
    PROVE  /\ file1'[r] = "none" \/ r \in left1'
           /\ \A q \in Runs1 \ {r} : file1'[q] = file1[q]
           /\ left1 \subseteq left1' /\ left1' \subseteq left1 \cup {r}
           /\ file1' \in [Runs1 -> {"none", "partial", "inventory", "whole"}]
<1>1. file1 \in [Runs1 -> {"none", "partial", "inventory", "whole"}]
  BY DEF Collection1Inv, LegacyTypeOK
<1>2. CASE file1' = [file1 EXCEPT ![r] = "none"] /\ UNCHANGED left1
  BY <1>1, <1>2
<1>3. CASE left1' = left1 \cup {r} /\ UNCHANGED file1
  BY <1>1, <1>3
<1>4. QED
  BY <1>2, <1>3 DEF RemoveFile1

LEMMA FinalizeKeeps ==
    ASSUME Collection1Inv, NEW r \in Runs1, Finalize1(r)
    PROVE  RunFrame1(r) /\ RunLocal1(r) /\ RunCurrent1(r) /\ RunTypes1
<1> USE Collection1Assumption
<1>0. /\ step1[r] = "finalize"
      /\ UNCHANGED <<up1, crashes1, started1, pipeline1, stopping1, stage1>>
      /\ r = pipeline1 => result1[r] # "ok"
      /\ current1 # r
  <2>1. step1[r] = "finalize"
    BY DEF Finalize1, AttachDatabase, Finalizing1
  <2>2. QED
    BY <2>1, StepperInUse DEF Finalize1, FinalizeKeeps1, Collection1Inv, Current1, Runs1
<1>1. CASE result1[r] = "completed" /\ AttachDatabase(r)
  <2>1. file1[r] = "whole" /\ stage1[r] = 8
    BY <1>1 DEF Collection1Inv, Completed1
  <2>2. CASE Finalizing1(r) /\ current1' = r /\ UNCHANGED <<result1, marker1, file1, left1>>
    BY <1>0, <1>1, <2>1, <2>2
       DEF Finalizing1, RunFrame1, RunLocal1, RunCurrent1, RunTypes1, Collection1Inv, LegacyTypeOK
  <2>3. CASE /\ step1' = [step1 EXCEPT ![r] = "done"]
             /\ result1' = [result1 EXCEPT ![r] = "unattached"]
             /\ UNCHANGED <<current1, marker1, file1, left1>>
    <3>1. /\ step1'[r] = "done" /\ result1'[r] = "unattached"
          /\ \A q \in Runs1 \ {r} : step1'[q] = step1[q] /\ result1'[q] = result1[q]
      BY <2>3 DEF Collection1Inv, LegacyTypeOK
    <3>2. RunTypes1
      BY <1>0, <2>3 DEF RunTypes1, Collection1Inv, LegacyTypeOK, Results1
    <3>3. QED
      BY <1>0, <2>1, <2>3, <3>1, <3>2 DEF RunFrame1, RunLocal1, RunCurrent1
  <2>4. QED
    BY <1>1, <2>2, <2>3 DEF AttachDatabase, diskVars1
<1>2. CASE /\ result1[r] \in {"error", "flawed"}
           /\ Finalizing1(r) /\ MarkFailed1(r) /\ UNCHANGED <<file1, left1, current1, result1>>
  <2>1. /\ step1'[r] = "finalizing"
        /\ \A q \in Runs1 \ {r} : step1'[q] = step1[q]
    BY <1>2 DEF Finalizing1, Collection1Inv, LegacyTypeOK
  <2>2. RunTypes1
    BY <1>0, <1>2 DEF MarkFailed1, Finalizing1, RunTypes1, Collection1Inv, LegacyTypeOK
  <2>3. QED
    BY <1>0, <1>2, <2>1, <2>2 DEF RunFrame1, RunLocal1, RunCurrent1
<1>3. CASE /\ result1[r] = "ok"
           /\ Finalizing1(r) /\ RemoveFile1(r) /\ UNCHANGED <<marker1, current1, result1>>
  <2>1. /\ step1'[r] = "finalizing"
        /\ \A q \in Runs1 \ {r} : step1'[q] = step1[q]
    BY <1>3 DEF Finalizing1, Collection1Inv, LegacyTypeOK
  <2>2. RunTypes1
    BY <1>0, <1>3, RemoveEffect DEF Finalizing1, RunTypes1, Collection1Inv, LegacyTypeOK
  <2>3. QED
    BY <1>0, <1>3, <2>1, <2>2, RemoveEffect DEF RunFrame1, RunLocal1, RunCurrent1
<1>4. QED
  BY <1>1, <1>2, <1>3 DEF Finalize1

LEMMA FinalizeRestKeeps ==
    ASSUME Collection1Inv, NEW r \in Runs1, FinalizeRest1(r)
    PROVE  RunFrame1(r) /\ RunLocal1(r) /\ RunCurrent1(r) /\ RunTypes1
<1> USE Collection1Assumption
<1>1. /\ step1[r] = "finalizing" /\ step1'[r] = "done"
      /\ \A q \in Runs1 \ {r} : step1'[q] = step1[q]
      /\ UNCHANGED <<up1, crashes1, current1, started1, pipeline1, stopping1, stage1, result1>>
      /\ IF result1[r] \in {"error", "flawed"} THEN RemoveFile1(r) ELSE UNCHANGED <<file1, left1>>
  BY DEF FinalizeRest1, processVars1, Collection1Inv, LegacyTypeOK
<1>2. RunTypes1
  BY <1>1, RemoveEffect
     DEF FinalizeRest1, DeleteMarker1, RunTypes1, Collection1Inv, LegacyTypeOK
<1>3. /\ result1[r] # "unattached" /\ (result1[r] = "completed" => file1[r] = "whole" /\ stage1[r] = 8)
      /\ (result1[r] = "ok" => (file1[r] = "none" \/ r \in left1) /\ r # pipeline1)
      /\ result1[r] \in Results1
  BY <1>1 DEF Collection1Inv, Completed1, Removed1, Current1, LegacyTypeOK, Runs1
<1>4. RunLocal1(r)
  BY <1>1, <1>3, RemoveEffect DEF RunLocal1, Results1
<1>5. RunCurrent1(r)
  BY <1>1, <1>3, StepperInUse DEF RunCurrent1
<1>6. RunFrame1(r)
  BY <1>1, RemoveEffect DEF RunFrame1
<1>7. QED
  BY <1>2, <1>4, <1>5, <1>6

LEMMA RunKeeps ==
    ASSUME Collection1Inv, NEW r \in Runs1, RunStep1(r)
    PROVE  Collection1Inv'
<1> USE Collection1Assumption
<1>1. RunFrame1(r) /\ RunLocal1(r) /\ RunCurrent1(r) /\ RunTypes1
  BY PipelineStep, UnitKeeps, FinalizeKeeps, FinalizeRestKeeps DEF RunStep1
<1>2. r \in 1..started1
  BY <1>1 DEF RunFrame1, Collection1Inv, Fresh1, LegacyTypeOK, Runs1
<1>3. LegacyTypeOK'
  BY <1>1, <1>2 DEF RunFrame1, RunTypes1, Collection1Inv, LegacyTypeOK
<1>4. Fresh1'
  BY <1>1, <1>2 DEF RunFrame1, Collection1Inv, Fresh1, LegacyTypeOK
<1>5. Completed1'
  BY <1>1 DEF RunFrame1, RunLocal1, Collection1Inv, Completed1
<1>6. Removed1'
  BY <1>1 DEF RunFrame1, RunLocal1, Collection1Inv, Removed1, Live1
<1>7. Current1'
  <2>1. HasInventory1 => HasInventory1'
    BY <1>1 DEF RunFrame1, RunCurrent1, HasInventory1, Collection1Inv, LegacyTypeOK, Runs1
  <2>2. pipeline1' # 0 =>
           /\ pipeline1' \notin stopping1' /\ step1'[pipeline1'] \notin {"new", "gone"}
           /\ step1'[pipeline1'] \in {"finalize", "finalizing", "done"} =>
                  result1'[pipeline1'] # "ok"
    <3>1. pipeline1 # 0 => pipeline1 \in Runs1
      BY DEF Collection1Inv, LegacyTypeOK, Runs1
    <3>2. QED
      BY <1>1, <3>1 DEF RunFrame1, RunLocal1, Collection1Inv, Current1
  <2>3. ASSUME NEW q \in Runs1, step1'[q] \in {"finalizing", "done"}, result1'[q] = "completed"
        PROVE  HasInventory1'
    <3>1. CASE q # r
      BY <1>1, <2>1, <2>3, <3>1 DEF RunFrame1, Collection1Inv, Current1
    <3>2. CASE q = r /\ step1[r] = "finalizing" /\ result1[r] = "completed"
      BY <2>1, <3>2 DEF Collection1Inv, Current1
    <3>3. CASE current1' = r /\ file1'[r] = "whole"
      BY <3>3 DEF HasInventory1, Runs1
    <3>4. QED
      BY <1>1, <2>3, <3>1, <3>2, <3>3 DEF RunCurrent1
  <2>4. current1' # 0 =>
           \/ step1'[current1'] = "gone"
           \/ result1'[current1'] = "completed" /\ step1'[current1'] \in {"finalizing", "done"}
    <3>1. current1 # 0 => current1 \in Runs1
      BY DEF Collection1Inv, LegacyTypeOK, Runs1
    <3>2. QED
      BY <1>1, <3>1 DEF RunFrame1, RunCurrent1, Collection1Inv, Current1
  <2>5. up1
    BY <1>1 DEF RunFrame1, Collection1Inv, Current1
  <2>6. QED
    BY <1>1, <2>2, <2>3, <2>4, <2>5 DEF Current1, RunFrame1
<1>8. QED
  BY <1>3, <1>4, <1>5, <1>6, <1>7 DEF Collection1Inv

\* The facts about runs, the database in use and the run in progress that make
\* the v1 collection correct hold in every reachable state.
THEOREM Collection1Invariance == Collection1Spec => []Collection1Inv
<1>1. Collection1Init => Collection1Inv
  BY Collection1InitInv
<1>2. Collection1Inv /\ [Collection1Next]_collectionVars1 => Collection1Inv'
  <2>1. SUFFICES ASSUME Collection1Inv, [Collection1Next]_collectionVars1 PROVE Collection1Inv'
    OBVIOUS
  <2>2. CASE UNCHANGED collectionVars1
    BY <2>1, <2>2 DEF collectionVars1, diskVars1, processVars1, Collection1Inv, LegacyTypeOK,
                      Fresh1, Completed1, Removed1, Current1, Live1, HasInventory1
  <2>3. CASE Collection1Next
    BY <2>1, <2>3, StartKeeps, StopKeeps, CrashKeeps, RestartKeeps, RunKeeps DEF Collection1Next
  <2>4. QED
    BY <2>1, <2>2, <2>3
<1>3. QED
  BY <1>1, <1>2, PTL DEF Collection1Spec

\* GetStatus of v1 says "collected" only of an inventory that was published, of
\* the last unit of a run in progress, or of the database of a run that ended
\* between its two last units and was not removed: a crash, a failed os.Remove.
THEOREM CollectedWasPublished == Collection1Spec => []CollectedIsPublished
<1>1. Collection1Inv => CollectedIsPublished
  <2> USE Collection1Assumption
  <2>1. SUFFICES ASSUME Collection1Inv, GetStatus1 = "collected"
                 PROVE  IF HasInventory1 THEN file1[current1] = "whole" \/ current1 \in left1
                        ELSE Live1(pipeline1)
    BY DEF CollectedIsPublished
  <2>2. CASE HasInventory1
    <3>1. current1 \in Runs1 /\ file1[current1] \in {"inventory", "whole"}
      BY <2>1, <2>2 DEF HasInventory1, Collection1Inv, LegacyTypeOK, Runs1
    <3>2. CASE step1[current1] = "gone"
      BY <2>1, <2>2, <3>1, <3>2 DEF Collection1Inv, Removed1, Live1
    <3>3. CASE result1[current1] = "completed"
      BY <2>1, <2>2, <3>1, <3>3 DEF Collection1Inv, Completed1
    <3>4. QED
      BY <2>1, <2>2, <3>1, <3>2, <3>3 DEF Collection1Inv, Current1, HasInventory1
  <2>3. CASE ~HasInventory1
    <3>1. pipeline1 # 0 /\ result1[pipeline1] \in {"ok", "completed"}
      BY <2>1, <2>3 DEF GetStatus1
    <3>2. pipeline1 \in Runs1
      BY <2>1, <3>1 DEF Collection1Inv, LegacyTypeOK, Runs1
    <3>3. step1[pipeline1] \notin {"new", "gone"}
      BY <2>1, <3>1 DEF Collection1Inv, Current1
    <3>4. step1[pipeline1] # "done"
      BY <2>1, <2>3, <3>1, <3>2 DEF Collection1Inv, Current1
    <3>5. QED
      BY <2>3, <3>3, <3>4 DEF Live1
  <2>4. QED
    BY <2>2, <2>3
<1>2. QED
  BY <1>1, Collection1Invariance, PTL

-----------------------------------------------------------------------------
(* Secrets: operators. *)

\* What Store verifies and saves has a normalised URL.
LEMMA NormalizedUrl ==
    ASSUME NEW u \in Urls, u.parses, ~u.userinfo
    PROVE  [NormalizeAndValidateURL(u) EXCEPT !.query = FALSE] \in SdkUrls
<1>1. u \in [parses : BOOLEAN, userinfo : BOOLEAN, query : BOOLEAN, path : Seq(Segments), slashes : Nat]
  BY SecretsAssumption
<1> DEFINE p == IF u.path # <<>> /\ u.path[Len(u.path)] = "sdk" THEN u.path
                ELSE Append(u.path, "sdk")
<1>2. p \in Seq(Segments) /\ p # <<>> /\ p[Len(p)] = "sdk"
  <2>1. u.path \in Seq(Segments)
    BY <1>1
  <2>2. CASE u.path # <<>> /\ u.path[Len(u.path)] = "sdk"
    BY <2>1, <2>2
  <2>3. CASE ~ (u.path # <<>> /\ u.path[Len(u.path)] = "sdk")
    <3>1. p = Append(u.path, "sdk")
      BY <2>3
    <3>2. /\ Append(u.path, "sdk") \in Seq(Segments) /\ Append(u.path, "sdk") # <<>>
          /\ Len(Append(u.path, "sdk")) = Len(u.path) + 1
          /\ Append(u.path, "sdk")[Len(u.path) + 1] = "sdk"
      <4>1. "sdk" \in Segments
        BY DEF Segments
      <4>2. QED
        BY <2>1, <4>1, AppendProperties
    <3>3. QED
      BY <3>1, <3>2
  <2>4. QED
    BY <2>2, <2>3
<1>3. NormalizeAndValidateURL(u) = [u EXCEPT !.slashes = 0, !.path = p]
  BY <1>1 DEF NormalizeAndValidateURL
<1> HIDE DEF p
<1>4. NormalizeAndValidateURL(u) \in
        [parses : {TRUE}, userinfo : {FALSE}, query : BOOLEAN, path : {p}, slashes : {0}]
  BY <1>1, <1>3
<1>5. [NormalizeAndValidateURL(u) EXCEPT !.query = FALSE] \in
        [parses : {TRUE}, userinfo : {FALSE}, query : {FALSE}, path : {p}, slashes : {0}]
  BY <1>4
<1>6. QED
  BY <1>2, <1>5 DEF SdkUrls

\* An encrypted record is not the absence of one, and only its key decrypts it.
LEMMA EncryptedRow ==
    ASSUME NEW n \in 1..MaxKeys, NEW c \in CredentialValues
    PROVE  /\ Encrypt(Key(n), c) \in RowValues /\ Decryptable(Key(n), Encrypt(Key(n), c))
BY DEF Encrypt, CredentialValues, RowValues, KeyValues, Decryptable, Key

LEMMA DecryptedRow ==
    ASSUME NEW k, NEW r \in RowValues
    PROVE  Decrypt(k, r) \in CredentialValues
BY DEF Decrypt, CredentialValues, RowValues

\* No key file holds the hash of a master password.
LEMMA KeysDiffer ==
    ASSUME NEW n, NEW p, NEW r, Decryptable(Key(n), r)
    PROVE  ~Decryptable(Hash256(p), r)
BY DEF Decryptable, Key, Hash256

\* What GetCapabilities finds missing are privileges.
LEMMA CapabilitiesTyped ==
    Capabilities \in [{"collector", "inspector", "forecaster"} -> SUBSET Privileges]
<1>1. ASSUME NEW refs, NEW required \in SUBSET Privileges
      PROVE  checkPrivileges(refs, required) \in SUBSET Privileges
  BY DEF checkPrivileges
<1>2. /\ CollectorRequiredPrivileges \in SUBSET Privileges
      /\ InspectorRequiredPrivileges \in SUBSET Privileges
      /\ ForecasterRequiredPrivileges \in SUBSET Privileges
  BY DEF Privileges
<1>3. QED
  BY <1>1, <1>2 DEF Capabilities

\* Requests that have an answer, by its form.
LEMMA CallForms ==
    /\ NoCall \in CallValues
    /\ \A op \in Operations, st \in Statuses :
          [pc |-> "done", op |-> op, status |-> st] \in CallValues
    /\ \A c \in CallValues :
          /\ c.pc \in {"verify", "save"} => /\ c.op = "put" /\ c.creds \in CredentialValues
                                            /\ [c EXCEPT !.pc = "save"] \in CallValues
          /\ c.pc \in {"login", "privileges"} => /\ c.op = "capabilities"
                                                 /\ [c EXCEPT !.pc = "privileges"] \in CallValues
          /\ c.pc \in {"first", "change", "reencrypt"} =>
                /\ c.op = "setmaster" /\ c.old \in MasterPasswords /\ c.new \in MasterPasswords
                /\ [c EXCEPT !.pc = "reencrypt"] \in CallValues
<1>1. NoCall \in CallValues
  BY DEF CallValues, NoCall
<1>2. \A op \in Operations, st \in Statuses :
        [pc |-> "done", op |-> op, status |-> st] \in CallValues
  BY DEF CallValues
<1>3. ASSUME NEW c \in CallValues, c.pc \in {"verify", "save"}
      PROVE  /\ c.op = "put" /\ c.creds \in CredentialValues
             /\ [c EXCEPT !.pc = "save"] \in CallValues
  <2>1. c \in [pc : {"verify", "save"}, op : {"put"}, creds : CredentialValues]
    BY <1>3 DEF CallValues, NoCall
  <2>2. QED
    BY <2>1 DEF CallValues
<1>4. ASSUME NEW c \in CallValues, c.pc \in {"login", "privileges"}
      PROVE  /\ c.op = "capabilities"
             /\ [c EXCEPT !.pc = "privileges"] \in CallValues
  <2>1. c \in [pc : {"login", "privileges"}, op : {"capabilities"}, creds : CredentialValues]
    BY <1>4 DEF CallValues, NoCall
  <2>2. QED
    BY <2>1 DEF CallValues
<1>5. ASSUME NEW c \in CallValues, c.pc \in {"first", "change", "reencrypt"}
      PROVE  /\ c.op = "setmaster" /\ c.old \in MasterPasswords /\ c.new \in MasterPasswords
             /\ [c EXCEPT !.pc = "reencrypt"] \in CallValues
  <2>1. c \in [pc : {"first", "change", "reencrypt"}, op : {"setmaster"},
               old : MasterPasswords, new : MasterPasswords]
    BY <1>5 DEF CallValues, NoCall
  <2>2. QED
    BY <2>1 DEF CallValues
<1>6. QED
  BY <1>1, <1>2, <1>3, <1>4, <1>5

-----------------------------------------------------------------------------
(* Secrets: the invariant. *)

LEMMA SecretInitInv ==
    ASSUME SecretInit
    PROVE  SecretInv
<1>1. SecretTypeOK
  BY CallForms, SecretsAssumption DEF SecretInit, SecretTypeOK, NoFile, Torn
<1>2. KeyInFile /\ RecordsReadable
  BY DEF SecretInit, KeyInFile, RecordsReadable
<1>3. QED
  BY <1>1, <1>2 DEF SecretInv

\* The key manager and the end of the process.
LEMMA KeyStep ==
    ASSUME SecretInv, EphemeralKey \/ ReadKey \/ GenerateKey \/ WriteKey \/ Crash
    PROVE  SecretInv'
<1> USE SecretsAssumption
<1>1. CASE ~Crash
  <2>1. UNCHANGED <<api, dataFolder, row, password, call, granted>>
    BY <1>1 DEF EphemeralKey, ReadKey, GenerateKey, WriteKey, serving
  <2>2. SecretTypeOK'
    <3>1. keyFile' \in Torn..MaxKeys /\ key' \in 0..MaxKeys /\ generated' \in 0..MaxKeys
          /\ agent' \in {"down", "keygen", "up"}
      BY <1>1 DEF EphemeralKey, ReadKey, GenerateKey, WriteKey, SecretInv, SecretTypeOK, Torn
    <3>2. allRefs' = allRefs
      BY DEF allRefs
    <3>3. QED
      BY <2>1, <3>1, <3>2 DEF SecretInv, SecretTypeOK
  <2>3. KeyInFile'
    BY <1>1, <2>1 DEF EphemeralKey, ReadKey, GenerateKey, WriteKey, SecretInv, SecretTypeOK, KeyInFile,
                      Torn
  <2>4. RecordsReadable'
    BY <1>1, <2>1 DEF EphemeralKey, ReadKey, GenerateKey, WriteKey, SecretInv, SecretTypeOK, KeyInFile,
                      RecordsReadable, Torn
  <2>5. QED
    BY <2>2, <2>3, <2>4 DEF SecretInv
<1>2. CASE Crash
  <2>1. /\ agent' = "down" /\ key' = 0 /\ call' = [c \in Calls |-> NoCall]
        /\ UNCHANGED <<api, dataFolder, keyFile, generated, granted>>
        /\ IF api = "v1" /\ ~dataFolder THEN row' = NoRow /\ password' = NoPassword
           ELSE UNCHANGED <<row, password>>
    BY <1>2 DEF Crash
  <2>2. SecretTypeOK'
    BY <2>1, CallForms DEF SecretInv, SecretTypeOK
  <2>3. KeyInFile' /\ RecordsReadable'
    BY <2>1 DEF SecretInv, KeyInFile, RecordsReadable, SecretTypeOK
  <2>4. QED
    BY <2>2, <2>3 DEF SecretInv
<1>3. QED
  BY <1>1, <1>2

\* A step of a request: it serves under the key in the file, gives request c the
\* state s, and stores nothing another key encrypts.
LEMMA RequestKeeps ==
    ASSUME SecretInv, NEW c \in Calls, NEW s, Goto(c, s), agent = "up",
           UNCHANGED keeping,
           s \in CallValues,
           row' \in RowValues \cup {NoRow},
           row' \in {row, NoRow} \/ Decryptable(Key(key), row'),
           password' \in MasterPasswords \cup {NoPassword}
    PROVE  SecretInv'
<1>1. /\ call' = [call EXCEPT ![c] = s]
      /\ UNCHANGED <<api, dataFolder, agent, keyFile, key, generated, granted>>
  BY DEF Goto, keeping
<1>2. SecretTypeOK'
  BY <1>1 DEF SecretInv, SecretTypeOK
<1>3. KeyInFile'
  BY <1>1 DEF SecretInv, KeyInFile
<1>4. RecordsReadable'
  BY <1>1 DEF SecretInv, SecretTypeOK, KeyInFile, RecordsReadable
<1>5. QED
  BY <1>2, <1>3, <1>4 DEF SecretInv

\* An answer without a result, the rest of the state kept or lost as above.
LEMMA AnswerKeeps ==
    ASSUME SecretInv, NEW c \in Calls, NEW op \in Operations, NEW st \in Statuses,
           AnswerTo(c, op, st), agent = "up", UNCHANGED keeping,
           row' \in RowValues \cup {NoRow},
           row' \in {row, NoRow} \/ Decryptable(Key(key), row'),
           password' \in MasterPasswords \cup {NoPassword}
    PROVE  SecretInv'
<1> DEFINE s == [pc |-> "done", op |-> op, status |-> st]
<1>1. s \in CallValues
  BY CallForms
<1>2. Goto(c, s)
  BY DEF AnswerTo
<1> HIDE DEF s
<1>3. QED
  BY <1>1, <1>2, RequestKeeps

\* PutCredentials, VerifyCredentials and Save.
LEMMA PutKeeps ==
    ASSUME SecretInv, NEW c \in Calls, PutCredentials(c) \/ StoreCredentials(c)
    PROVE  SecretInv'
<1>0. /\ call \in [Calls -> CallValues] /\ row \in RowValues \cup {NoRow}
      /\ password \in MasterPasswords \cup {NoPassword}
  BY DEF SecretInv, SecretTypeOK
<1>1. CASE PutCredentials(c)
  <2>0. agent = "up" /\ UNCHANGED <<keeping, row, password>>
    BY <1>1 DEF PutCredentials, Free
  <2>1. PICK u \in Urls, a \in Accounts, cacert \in {"absent", "notpem", "pem"},
             skipTls \in {"absent", "true", "false"} :
          LET tls == CredsFromAPI(cacert, skipTls) IN
          IF tls = "invalid" \/ ~u.parses \/ u.userinfo
          THEN AnswerTo(c, "put", 400)
          ELSE Goto(c, [pc |-> "verify", op |-> "put",
                        creds |-> [url |-> [NormalizeAndValidateURL(u) EXCEPT !.query = FALSE],
                                   tls |-> tls, user |-> a]])
    BY <1>1 DEF PutCredentials
  <2>2. CASE AnswerTo(c, "put", 400)
    <3>1. "put" \in Operations /\ 400 \in Statuses
      BY DEF Operations, Statuses
    <3>2. QED
      BY <1>0, <2>0, <2>2, <3>1, AnswerKeeps
  <2>3. CASE ~AnswerTo(c, "put", 400)
    <3> DEFINE tls == CredsFromAPI(cacert, skipTls)
               url == [NormalizeAndValidateURL(u) EXCEPT !.query = FALSE]
               s == [pc |-> "verify", op |-> "put",
                     creds |-> [url |-> url, tls |-> tls, user |-> a]]
    <3>1. Goto(c, s) /\ tls # "invalid" /\ u.parses /\ ~u.userinfo
      BY <2>1, <2>3
    <3>2. tls \in {"cacert", "verify", "skip"}
      BY <3>1 DEF CredsFromAPI
    <3>3. url \in SdkUrls
      BY <3>1, NormalizedUrl
    <3> HIDE DEF tls, url
    <3>4. s \in CallValues
      <4>1. s \in [pc : {"verify", "save"}, op : {"put"}, creds : CredentialValues]
        BY <3>2, <3>3 DEF CredentialValues
      <4>2. QED
        BY <4>1 DEF CallValues
    <3> HIDE DEF s
    <3>5. QED
      BY <1>0, <2>0, <3>1, <3>4, RequestKeeps
  <2>4. QED
    BY <2>2, <2>3
<1>2. CASE VerifyCredentials(c)
  <2>0. /\ agent = "up" /\ UNCHANGED <<keeping, row, password>>
        /\ call[c].pc = "verify" /\ call[c] \in CallValues
    BY <1>0, <1>2 DEF VerifyCredentials, Serving
  <2>1. call[c].op = "put" /\ "put" \in Operations /\ 400 \in Statuses
    <3>1. call[c].op = "put"
      BY <2>0, CallForms
    <3>2. QED
      BY <3>1 DEF Operations, Statuses
  <2>2. CASE Answer(c, 400)
    <3>1. AnswerTo(c, "put", 400)
      BY <2>1, <2>2 DEF Answer, AnswerTo
    <3>2. QED
      BY <1>0, <2>0, <2>1, <3>1, AnswerKeeps
  <2>3. CASE Goto(c, [call[c] EXCEPT !.pc = "save"])
    <3>1. [call[c] EXCEPT !.pc = "save"] \in CallValues
      BY <2>0, CallForms
    <3>2. QED
      BY <1>0, <2>0, <2>3, <3>1, RequestKeeps
  <2>4. QED
    BY <1>2, <2>2, <2>3 DEF VerifyCredentials
<1>3. CASE Save(c)
  <2>0. /\ agent = "up" /\ UNCHANGED <<keeping, password>>
        /\ call[c].pc = "save" /\ call[c] \in CallValues
        /\ row' = Encrypt(Key(key), call[c].creds) /\ Answer(c, 200)
    BY <1>0, <1>3 DEF Save, Serving
  <2>1. /\ call[c].op = "put" /\ "put" \in Operations /\ 200 \in Statuses
        /\ call[c].creds \in CredentialValues
    <3>1. call[c].op = "put" /\ call[c].creds \in CredentialValues
      BY <2>0, CallForms
    <3>2. QED
      BY <3>1 DEF Operations, Statuses
  <2>2. AnswerTo(c, "put", 200)
    BY <2>0, <2>1 DEF Answer, AnswerTo
  <2>3. key \in 1..MaxKeys
    BY <2>0, SecretsAssumption DEF SecretInv, SecretTypeOK, KeyInFile
  <2>4. row' \in RowValues /\ Decryptable(Key(key), row')
    BY <2>0, <2>1, <2>3, EncryptedRow
  <2>5. QED
    BY <1>0, <2>0, <2>1, <2>2, <2>4, AnswerKeeps
<1>4. QED
  BY <1>1, <1>2, <1>3 DEF StoreCredentials

\* GetCredentials, GetCredentialCapabilities and its login; DeleteCredentials.
LEMMA GetKeeps ==
    ASSUME SecretInv, NEW c \in Calls,
           \/ GetCredentials(c) \/ GetCredentialCapabilities(c) \/ DeleteCredentials(c)
           \/ GetCapabilities(c)
    PROVE  SecretInv'
<1>0. /\ call \in [Calls -> CallValues] /\ row \in RowValues \cup {NoRow}
      /\ password \in MasterPasswords \cup {NoPassword}
  BY DEF SecretInv, SecretTypeOK
<1>a. /\ {"get", "capabilities", "delete"} \subseteq Operations
      /\ {200, 204, 404, 500} \subseteq Statuses
  BY DEF Operations, Statuses
<1>1. CASE GetCredentials(c) \/ GetCredentialCapabilities(c)
  <2>0. agent = "up" /\ UNCHANGED <<keeping, row, password>>
    BY <1>1 DEF GetCredentials, GetCredentialCapabilities, Free
  <2>1. PICK op \in {"get", "capabilities"} : GetRow(c, op)
    BY <1>1 DEF GetCredentials, GetCredentialCapabilities
  <2>2. CASE \E st \in {404, 500, 200} : AnswerTo(c, op, st)
    BY <1>0, <1>a, <2>0, <2>2, AnswerKeeps
  <2>3. CASE ~ \E st \in {404, 500, 200} : AnswerTo(c, op, st)
    <3> DEFINE s == [pc |-> "login", op |-> "capabilities", creds |-> Decrypt(Key(key), row)]
    <3>1. Goto(c, s) /\ row # NoRow
      BY <2>1, <2>3 DEF GetRow
    <3>2. s \in CallValues
      <4>1. Decrypt(Key(key), row) \in CredentialValues
        BY <1>0, <3>1, DecryptedRow
      <4>2. s \in [pc : {"login", "privileges"}, op : {"capabilities"}, creds : CredentialValues]
        BY <4>1
      <4>3. QED
        BY <4>2 DEF CallValues
    <3> HIDE DEF s
    <3>3. QED
      BY <1>0, <2>0, <3>1, <3>2, RequestKeeps
  <2>4. QED
    BY <2>2, <2>3
<1>2. CASE DeleteCredentials(c)
  <2>1. /\ agent = "up" /\ UNCHANGED <<keeping, password>> /\ row' = NoRow
        /\ AnswerTo(c, "delete", 204)
    BY <1>2 DEF DeleteCredentials, Free
  <2>2. QED
    BY <1>0, <1>a, <2>1, AnswerKeeps
<1>3. CASE CapabilitiesLogin(c)
  <2>0. /\ agent = "up" /\ UNCHANGED <<keeping, row, password>>
        /\ call[c].pc = "login" /\ call[c] \in CallValues
    BY <1>0, <1>3 DEF CapabilitiesLogin, Serving
  <2>1. call[c].op = "capabilities"
    BY <2>0, CallForms
  <2>2. CASE Answer(c, 404)
    <3>1. AnswerTo(c, "capabilities", 404)
      BY <2>1, <2>2 DEF Answer, AnswerTo
    <3>2. QED
      BY <1>0, <1>a, <2>0, <3>1, AnswerKeeps
  <2>3. CASE Goto(c, [call[c] EXCEPT !.pc = "privileges"])
    <3>1. [call[c] EXCEPT !.pc = "privileges"] \in CallValues
      BY <2>0, CallForms
    <3>2. QED
      BY <1>0, <2>0, <2>3, <3>1, RequestKeeps
  <2>4. QED
    BY <1>3, <2>2, <2>3 DEF CapabilitiesLogin
<1>4. CASE FetchPrivileges(c)
  <2>0. /\ agent = "up" /\ UNCHANGED <<keeping, row, password>>
        /\ call[c].pc = "privileges" /\ call[c] \in CallValues
    BY <1>0, <1>4 DEF FetchPrivileges, Serving
  <2>1. call[c].op = "capabilities"
    BY <2>0, CallForms
  <2>2. CASE Answer(c, 404)
    <3>1. AnswerTo(c, "capabilities", 404)
      BY <2>1, <2>2 DEF Answer, AnswerTo
    <3>2. QED
      BY <1>0, <1>a, <2>0, <3>1, AnswerKeeps
  <2>3. CASE ~Answer(c, 404)
    <3> DEFINE s == [pc |-> "done", op |-> "capabilities", status |-> 200,
                     result |-> Capabilities]
    <3>1. Goto(c, s)
      BY <1>4, <2>3 DEF FetchPrivileges
    <3>2. s \in CallValues
      BY CapabilitiesTyped DEF CallValues
    <3> HIDE DEF s
    <3>3. QED
      BY <1>0, <2>0, <3>1, <3>2, RequestKeeps
  <2>4. QED
    BY <2>2, <2>3
<1>5. QED
  BY <1>1, <1>2, <1>3, <1>4 DEF GetCapabilities

\* SetMasterPassword: the record is not under a master password, so a change
\* leaves it alone.
LEMMA PasswordKeeps ==
    ASSUME SecretInv, NEW c \in Calls, SetMasterPassword(c)
    PROVE  SecretInv'
<1>0. /\ call \in [Calls -> CallValues] /\ row \in RowValues \cup {NoRow}
      /\ password \in MasterPasswords \cup {NoPassword}
  BY DEF SecretInv, SecretTypeOK
<1>a. "setmaster" \in Operations /\ {204, 500} \subseteq Statuses
  BY DEF Operations, Statuses
<1>1. CASE HasMasterPassword(c)
  <2>0. agent = "up" /\ UNCHANGED <<keeping, row, password>>
    BY <1>1 DEF HasMasterPassword, Free
  <2>1. PICK old \in MasterPasswords, new \in MasterPasswords, pc \in {"first", "change"} :
          Goto(c, [pc |-> pc, op |-> "setmaster", old |-> old, new |-> new])
    BY <1>1 DEF HasMasterPassword
  <2> DEFINE s == [pc |-> pc, op |-> "setmaster", old |-> old, new |-> new]
  <2>2. s \in CallValues
    <3>1. s \in [pc : {"first", "change", "reencrypt"}, op : {"setmaster"},
                 old : MasterPasswords, new : MasterPasswords]
      OBVIOUS
    <3>2. QED
      BY <3>1 DEF CallValues
  <2>3. Goto(c, s)
    BY <2>1
  <2> HIDE DEF s
  <2>4. QED
    BY <1>0, <2>0, <2>2, <2>3, RequestKeeps
<1>2. CASE SavePassword(c)
  <2>1. /\ agent = "up" /\ UNCHANGED <<keeping, row>>
        /\ call[c].pc = "first" /\ call[c] \in CallValues
        /\ password' = call[c].new /\ Answer(c, 204)
    BY <1>0, <1>2 DEF SavePassword, Serving
  <2>2. call[c].op = "setmaster" /\ call[c].new \in MasterPasswords
    BY <2>1, CallForms
  <2>3. AnswerTo(c, "setmaster", 204)
    BY <2>1, <2>2 DEF Answer, AnswerTo
  <2>4. QED
    BY <1>0, <1>a, <2>1, <2>2, <2>3, AnswerKeeps
<1>3. CASE VerifyMasterPassword(c)
  <2>1. /\ agent = "up" /\ UNCHANGED <<keeping, row, password>>
        /\ call[c].pc = "change" /\ call[c] \in CallValues
        /\ Goto(c, [call[c] EXCEPT !.pc = "reencrypt"]) \/ Answer(c, 500)
    BY <1>0, <1>3 DEF VerifyMasterPassword, Serving
  <2>2. call[c].op = "setmaster" /\ [call[c] EXCEPT !.pc = "reencrypt"] \in CallValues
    BY <2>1, CallForms
  <2>3. CASE Goto(c, [call[c] EXCEPT !.pc = "reencrypt"])
    BY <1>0, <2>1, <2>2, <2>3, RequestKeeps
  <2>4. CASE Answer(c, 500)
    <3>1. AnswerTo(c, "setmaster", 500)
      BY <2>2, <2>4 DEF Answer, AnswerTo
    <3>2. QED
      BY <1>0, <1>a, <2>1, <3>1, AnswerKeeps
  <2>5. QED
    BY <2>1, <2>3, <2>4
<1>4. CASE ChangePassword(c)
  <2>1. /\ agent = "up" /\ UNCHANGED keeping
        /\ call[c].pc = "reencrypt" /\ call[c] \in CallValues
        /\ \/ Answer(c, 204) /\ password' = call[c].new
              /\ (row = NoRow \/ Decryptable(Hash256(call[c].old), row))
              /\ row' = IF row = NoRow THEN row
                        ELSE Encrypt(Hash256(call[c].new), Decrypt(Hash256(call[c].old), row))
           \/ Answer(c, 500) /\ UNCHANGED <<row, password>>
    BY <1>0, <1>4 DEF ChangePassword, Serving
  <2>2. call[c].op = "setmaster" /\ call[c].new \in MasterPasswords
    BY <2>1, CallForms
  <2>3. \E st \in {204, 500} : AnswerTo(c, "setmaster", st)
    BY <2>1, <2>2 DEF Answer, AnswerTo
  <2>4. row' = row
    <3>1. row # NoRow => ~Decryptable(Hash256(call[c].old), row)
      <4>1. SUFFICES ASSUME row # NoRow PROVE ~Decryptable(Hash256(call[c].old), row)
        OBVIOUS
      <4>2. row.user[1] \in KeyValues
        BY <1>0, <4>1 DEF RowValues
      <4>3. PICK n \in 1..MaxKeys : Decryptable(Key(n), row)
        BY <4>2 DEF KeyValues, Decryptable
      <4>4. QED
        BY <4>3, KeysDiffer
    <3>2. QED
      BY <2>1, <3>1
  <2>5. password' \in MasterPasswords \cup {NoPassword}
    BY <1>0, <2>1, <2>2
  <2>6. QED
    BY <1>0, <1>a, <2>1, <2>3, <2>4, <2>5, AnswerKeeps
<1>5. QED
  BY <1>1, <1>2, <1>3, <1>4 DEF SetMasterPassword

\* The types, the key in the file and the readable records hold in every
\* reachable state of both API generations.
THEOREM SecretsInvariance == SecretSpec => []SecretInv
<1>1. SecretInit => SecretInv
  BY SecretInitInv
<1>2. SecretInv /\ [SecretNext]_secretVars => SecretInv'
  <2>1. SUFFICES ASSUME SecretInv, [SecretNext]_secretVars PROVE SecretInv'
    OBVIOUS
  <2>2. CASE UNCHANGED secretVars
    BY <2>1, <2>2 DEF secretVars, SecretInv, SecretTypeOK, KeyInFile, RecordsReadable
  <2>3. CASE EphemeralKey \/ ReadKey \/ GenerateKey \/ WriteKey \/ Crash
    BY <2>1, <2>3, KeyStep
  <2>4. ASSUME NEW c \in Calls,
               Handlers(c) \/ StoreCredentials(c) \/ GetCapabilities(c) \/ SetMasterPassword(c)
        PROVE  SecretInv'
    BY <2>1, <2>4, PutKeeps, GetKeeps, PasswordKeeps DEF Handlers
  <2>5. QED
    BY <2>1, <2>2, <2>3, <2>4 DEF SecretNext, HandlersV1, StoreV1, GetCapabilitiesV1,
                                  SetMasterPasswordV1, CredentialsV2
<1>3. QED
  BY <1>1, <1>2, PTL DEF SecretSpec

\* Whatever is stored can be decrypted with the key in the file, after any
\* crashes, also of the agent while it wrote the key, and any interleaving with
\* changes of the master password.
THEOREM RecordsStayReadable == SecretSpec => []RecordsReadable
<1>1. SecretInv => RecordsReadable
  BY DEF SecretInv
<1>2. QED
  BY <1>1, SecretsInvariance, PTL

-----------------------------------------------------------------------------
(* Databases: the steps, by what they leave alone. *)

\* Requests.
UserStep == \E u \in Users : \/ Store(u) \/ Query(u) \/ Latest(u)
                             \/ \E d \in Ids : Get(u, d)

\* A collection run.
JobStep == \/ \E d \in Collections : NewDatabase(d)
           \/ Clone \/ CloneFails \/ RemoveClone \/ AddLatest \/ AddListed \/ ClosePrevious
           \/ Discard

\* Startup and shutdown.
ProcessStep == \/ \E d \in Ids : Migrate(d) \/ MigrateFails(d) \/ Register(d)
               \/ OpenMain \/ Serve \/ Signal \/ PoolClose \/ Exit

\* The clocks.
ClockStep == TimerFires \/ \E d \in Ids : Idle(d)

LEMMA StepKinds ==
    ASSUME [DbNext]_dbVars
    PROVE  UserStep \/ JobStep \/ ProcessStep \/ ClockStep \/ UNCHANGED dbVars
BY DEF DbNext, UserStep, JobStep, ProcessStep, ClockStep

\* A set of natural numbers that is not empty has a smallest element.
LEMMA LeastElement ==
    ASSUME NEW S, S \subseteq Nat, S # {}
    PROVE  \E n \in S : \A m \in S : n <= m
<1> DEFINE R == OpToRel(<, Nat)
<1>1. \E n \in S : \A m \in S : ~ (<<m, n>> \in R)
  BY NatLessThanWellFounded, WFMin
<1>2. PICK n \in S : \A m \in S : ~ (<<m, n>> \in R)
  BY <1>1
<1>3. ASSUME NEW m \in S PROVE n <= m
  <2>1. ~ (m < n)
    BY <1>2 DEF OpToRel
  <2>2. QED
    BY <2>1
<1>4. QED
  BY <1>3

\* The next version to apply is one that has not been applied.
LEMMA NextVersionUnapplied ==
    ASSUME NEW d \in Ids, Unapplied(d) # {}
    PROVE  NextVersion(d) \in 1..Versions
<1>1. Unapplied(d) \subseteq Nat
  BY DatabasesAssumption DEF Unapplied
<1>2. \E v \in Unapplied(d) : \A w \in Unapplied(d) : v <= w
  BY <1>1, LeastElement
<1>3. QED
  BY <1>2 DEF NextVersion, Unapplied

\* Closing connections keeps the types, and opens none.
LEMMA CloseType ==
    ASSUME DbTypeOK, NEW S, Close(S)
    PROVE  /\ conn' \in [Ids -> 0..2] /\ store' \in [Ids -> BOOLEAN]
           /\ access' \in [Ids -> {"never", "recent", "idle"}]
           /\ \A d \in Ids : conn'[d] = IF d \in S THEN 0 ELSE conn[d]
BY DEF Close, DbTypeOK

\* Losing its connection changes a request's handle only.
LEMMA LoseHandlesType ==
    ASSUME DbTypeOK, NEW S
    PROVE  /\ LoseHandles(S) \in [Users -> [pc : {"idle", "got", "query"}, db : Ids,
                                            handle : {"none", "live", "dead"}]]
           /\ \A u \in Users :
                 /\ LoseHandles(S)[u].pc = user[u].pc
                 /\ LoseHandles(S)[u].db = user[u].db
                 /\ user[u].handle = "none" => LoseHandles(S)[u].handle = "none"
                 /\ LoseHandles(S)[u].handle = "dead" =>
                       user[u].handle = "dead" \/ user[u].db \in S
<1> DEFINE T == [pc : {"idle", "got", "query"}, db : Ids,
                 handle : {"none", "live", "dead"}]
<1> SUFFICES ASSUME NEW u \in Users
             PROVE  /\ LoseHandles(S)[u] \in T
                    /\ LoseHandles(S)[u].pc = user[u].pc
                    /\ LoseHandles(S)[u].db = user[u].db
                    /\ user[u].handle = "none" => LoseHandles(S)[u].handle = "none"
                    /\ LoseHandles(S)[u].handle = "dead" =>
                          user[u].handle = "dead" \/ user[u].db \in S
  BY DEF LoseHandles
<1>1. user[u] \in T
  BY DEF DbTypeOK
<1>2. LoseHandles(S)[u] = IF user[u].db \in S /\ user[u].handle = "live"
                          THEN [user[u] EXCEPT !.handle = "dead"] ELSE user[u]
  BY DEF LoseHandles
<1>3. CASE user[u].db \in S /\ user[u].handle = "live"
  BY <1>1, <1>2, <1>3
<1>4. CASE ~(user[u].db \in S /\ user[u].handle = "live")
  BY <1>1, <1>2, <1>4
<1>5. QED
  BY <1>3, <1>4

-----------------------------------------------------------------------------
(* Databases: one lemma per part of the invariant. *)

\* The types; a Database never has more than one connection.
LEMMA TypeStep ==
    ASSUME DbInv, [DbNext]_dbVars
    PROVE  DbTypeOK'
<1> USE DEF dbVars, fileVars, poolVars, connVars
<1>1. Main \in Ids /\ Collections \subseteq Ids /\ 1..Versions \in SUBSET (1..Versions)
  BY DatabasesAssumption DEF Main, Ids, Collections
<1>2. DbTypeOK /\ \A d \in Ids : conn[d] \in 0..1
  BY DEF DbInv, DbTypeOK, OneConnection
<1>3. CASE UserStep
  <2>1. ASSUME NEW u \in Users, Store(u) \/ Query(u) \/ Latest(u) PROVE DbTypeOK'
    <3> DEFINE T == [pc : {"idle", "got", "query"}, db : Ids,
                     handle : {"none", "live", "dead"}]
    <3>1. user \in [Users -> T] /\ user[u].db \in Ids /\ latest \in Ids /\ NoUser \in T
      BY <1>1, <1>2 DEF DbTypeOK, NoUser, Main
    <3>2. CASE Store(u)
      <4>1. user' = [user EXCEPT ![u].pc = "query", ![u].handle = "live"]
        BY <3>2 DEF Store
      <4>2. user' \in [Users -> T]
        BY <3>1, <4>1
      <4>3. conn' \in [Ids -> 0..2] /\ store' \in [Ids -> BOOLEAN]
        BY <1>2, <3>1, <3>2 DEF Store, Open, DbTypeOK
      <4>4. QED
        BY <1>2, <3>2, <4>2, <4>3 DEF Store, DbTypeOK
    <3>3. CASE Query(u)
      BY <1>2, <3>1, <3>3 DEF Query, DbTypeOK
    <3>4. CASE Latest(u)
      <4>1. user' = [user EXCEPT ![u].pc = "got", ![u].db = latest]
        BY <3>4 DEF Latest
      <4>2. user' \in [Users -> T]
        BY <3>1, <4>1
      <4>3. QED
        BY <1>2, <3>4, <4>2 DEF Latest, DbTypeOK
    <3>5. QED
      BY <2>1, <3>2, <3>3, <3>4
  <2>2. ASSUME NEW u \in Users, NEW d \in Ids, Get(u, d) PROVE DbTypeOK'
    <3> DEFINE stale == IF timer THEN cleanup ELSE {}
    <3>1. user' = [LoseHandles(stale) EXCEPT ![u].pc = "got", ![u].db = d]
      BY <2>2 DEF Get
    <3>2. user' \in [Users -> [pc : {"idle", "got", "query"}, db : Ids,
                               handle : {"none", "live", "dead"}]]
      BY <1>2, <3>1, LoseHandlesType
    <3>3. Close(stale)
      BY <2>2 DEF Get
    <3>4. QED
      BY <1>2, <2>2, <3>2, <3>3, CloseType DEF Get, DbTypeOK
  <2>3. QED
    BY <1>3, <2>1, <2>2 DEF UserStep
<1>4. CASE JobStep
  <2>1. ASSUME NEW d \in Collections, NewDatabase(d) PROVE DbTypeOK'
    BY <1>1, <1>2, <2>1 DEF NewDatabase, Open, DbTypeOK
  <2>2. CASE Clone
    BY <1>2, <2>2, DatabasesAssumption
       DEF Clone, DbTypeOK, DbInv, JobIsApart, Collections
  <2>2a. CASE CloneFails
    BY <1>2, <2>2a, DatabasesAssumption
       DEF CloneFails, DbFault, DbTypeOK, DbInv, JobIsApart, Collections
  <2>3. CASE RemoveClone \/ AddLatest \/ AddListed
    <3>1. CASE RemoveClone
      <4>0. conn \in [Ids -> 0..2] /\ store \in [Ids -> BOOLEAN]
        BY <1>2 DEF DbTypeOK
      <4>1. conn' \in [Ids -> 0..2]
        BY <4>0, <3>1 DEF RemoveClone, Open
      <4>1a. store' \in [Ids -> BOOLEAN]
        BY <4>0, <3>1 DEF RemoveClone
      <4>2. dbFaults' \in 0..MaxDbFaults /\ UNCHANGED <<phase, pending, fileVars, poolVars, access, user>>
        BY <1>2, <3>1, DatabasesAssumption DEF RemoveClone, DbFault, DbTypeOK
      <4>3. QED
        BY <1>2, <3>1, <4>1, <4>1a, <4>2 DEF RemoveClone, DbTypeOK
    <3>2. CASE AddLatest
      BY <1>2, <3>2 DEF AddLatest, DbTypeOK, DbInv, JobIsApart
    <3>3. CASE AddListed
      BY <1>2, <3>3 DEF AddListed, DbTypeOK
    <3>4. QED
      BY <2>3, <3>1, <3>2, <3>3
  <2>4. CASE ClosePrevious \/ Discard
    BY <1>1, <1>2, <2>4, CloseType, LoseHandlesType
       DEF ClosePrevious, Discard, NoJob, Main, DbTypeOK
  <2>5. QED
    BY <1>4, <2>1, <2>2, <2>2a, <2>3, <2>4 DEF JobStep
<1>5. CASE ProcessStep
  <2>1. ASSUME NEW d \in Ids, Migrate(d) PROVE DbTypeOK'
    BY <1>2, <2>1, NextVersionUnapplied
       DEF Migrate, runMigration, Open, DbTypeOK
  <2>2. ASSUME NEW d \in Ids, MigrateFails(d) PROVE DbTypeOK'
    BY <1>2, <2>2, CloseType, DatabasesAssumption
       DEF MigrateFails, DbFault, DbTypeOK
  <2>3. ASSUME NEW d \in Ids, Register(d) PROVE DbTypeOK'
    BY <1>1, <1>2, <2>3, CloseType DEF Register, DbTypeOK
  <2>4. CASE OpenMain \/ Serve \/ Signal
    <3>1. CASE OpenMain
      BY <1>1, <1>2, <3>1 DEF OpenMain, Open, DbTypeOK
    <3>2. CASE Serve \/ Signal
      BY <1>2, <3>2 DEF Serve, Signal, DbTypeOK
    <3>3. QED
      BY <2>4, <3>1, <3>2
  <2>5. CASE PoolClose
    BY <1>2, <2>5, CloseType, LoseHandlesType DEF PoolClose, DbTypeOK
  <2>6. CASE Exit
    <3>1. dbFaults' \in 0..MaxDbFaults
      BY <1>2, <2>6, DatabasesAssumption DEF Exit, DbFault, DbTypeOK
    <3>2. schema' \in [Ids -> SUBSET (1..Versions)] /\ recorded' \in [Ids -> SUBSET (1..Versions)]
      BY <1>2, <2>6 DEF Exit, DbTypeOK
    <3>3. /\ user' \in [Users -> [pc : {"idle", "got", "query"}, db : Ids,
                                  handle : {"none", "live", "dead"}]]
          /\ job' \in [pc : {"none", "collect", "cloned", "failed", "synced",
                             "added", "listed"}, db : Ids]
      BY <1>1, <2>6 DEF Exit, NoJob, NoUser, Main
    <3>4. QED
      BY <1>1, <1>2, <2>6, <3>1, <3>2, <3>3, CloseType DEF Exit, Main, DbTypeOK
  <2>7. QED
    BY <1>5, <2>1, <2>2, <2>3, <2>4, <2>5, <2>6 DEF ProcessStep
<1>6. CASE ClockStep
  BY <1>2, <1>6 DEF ClockStep, TimerFires, Idle, DbTypeOK
<1>7. CASE UNCHANGED dbVars
  BY <1>2, <1>7 DEF DbTypeOK
<1>8. QED
  BY <1>3, <1>4, <1>5, <1>6, <1>7, StepKinds

\* A collection run and the pool: the database being built is not in it.
LEMMA JobStepInv ==
    ASSUME DbInv, [DbNext]_dbVars
    PROVE  JobIsApart'
<1> USE DEF dbVars, fileVars, poolVars, connVars
<1>1. DbTypeOK /\ JobIsApart
  BY DEF DbInv
<1>2. CASE UNCHANGED <<registered, pending, files, latest, phase, job, schema>>
  BY <1>1, <1>2 DEF JobIsApart
<1>3. CASE JobStep
  <2>1. ASSUME NEW d \in Collections, NewDatabase(d) PROVE JobIsApart'
    BY <1>1, <2>1 DEF NewDatabase, JobIsApart, DbTypeOK, Ids, Collections
  <2>2. CASE Clone \/ CloneFails \/ RemoveClone
    BY <1>1, <2>2 DEF Clone, CloneFails, RemoveClone, JobIsApart, DbTypeOK
  <2>3. CASE AddLatest
    BY <1>1, <2>3, DatabasesAssumption
       DEF AddLatest, JobIsApart, DbTypeOK, Collections
  <2>4. CASE AddListed
    BY <1>1, <2>4 DEF AddListed, JobIsApart, DbTypeOK
  <2>5. CASE ClosePrevious \/ Discard
    BY <1>1, <2>5 DEF ClosePrevious, Discard, NoJob, JobIsApart, DbTypeOK
  <2>6. QED
    BY <1>3, <2>1, <2>2, <2>3, <2>4, <2>5 DEF JobStep
<1>4. CASE ProcessStep
  <2>1. ASSUME NEW d \in Ids, Migrate(d) PROVE JobIsApart'
    BY <1>1, <2>1 DEF Migrate, Starting, JobIsApart
  <2>2. ASSUME NEW d \in Ids, MigrateFails(d) PROVE JobIsApart'
    BY <1>1, <2>2 DEF MigrateFails, Starting, JobIsApart
  <2>3. ASSUME NEW d \in Ids, Register(d) PROVE JobIsApart'
    BY <1>1, <2>3 DEF Register, Starting, JobIsApart
  <2>4. CASE OpenMain \/ Serve \/ Signal \/ PoolClose
    BY <1>1, <2>4 DEF OpenMain, Serve, Signal, PoolClose, JobIsApart
  <2>5. CASE Exit
    BY <1>1, <2>5 DEF Exit, NoJob, JobIsApart
  <2>6. QED
    BY <1>4, <2>1, <2>2, <2>3, <2>4, <2>5 DEF ProcessStep
<1>5. QED
  BY <1>2, <1>3, <1>4, StepKinds
     DEF UserStep, ClockStep, Store, Query, Latest, Get, TimerFires, Idle

\* What a step can do to one request.
LEMMA RequestStep ==
    ASSUME DbInv, [DbNext]_dbVars, NEW u \in Users
    PROVE  /\ user'[u].db \in files' \cup {Main}
           /\ user'[u].pc # "query" => user'[u].handle = "none"
           /\ phase' \in {"stopped", "main", "register"} => user'[u].pc = "idle"
           /\ user'[u].handle = "dead" /\ phase' = "serving" =>
                 user'[u].db \notin {Main, latest'}
<1> USE DEF dbVars, fileVars, poolVars, connVars
<1>1. /\ DbTypeOK /\ JobIsApart
      /\ user[u] \in [pc : {"idle", "got", "query"}, db : Ids,
                      handle : {"none", "live", "dead"}]
      /\ user[u].db \in files \cup {Main}
      /\ user[u].pc # "query" => user[u].handle = "none"
      /\ phase \in {"stopped", "main", "register"} => user[u].pc = "idle"
      /\ user[u].handle = "dead" /\ phase = "serving" => user[u].db \notin {Main, latest}
  BY DEF DbInv, DbTypeOK, RequestsApart, LatestUndisturbed
<1>2. CASE UNCHANGED <<user, files, phase, latest>>
  BY <1>1, <1>2
<1>3. CASE UserStep
  <2>0. UNCHANGED <<files, phase, latest>>
    BY <1>3 DEF UserStep, Store, Query, Latest, Get
  <2>1. ASSUME NEW r \in Users, Store(r) \/ Query(r) \/ Latest(r) \/ (\E d \in Ids : Get(r, d))
        PROVE  r # u => \/ user'[u] = user[u]
                        \/ \E S \in SUBSET (Ids \ {Main, latest}) :
                              user'[u] = LoseHandles(S)[u]
    <3>1. CASE Store(r) \/ Query(r) \/ Latest(r)
      BY <1>1, <3>1 DEF Store, Query, Latest, DbTypeOK
    <3>2. ASSUME NEW d \in Ids, Get(r, d)
          PROVE  r # u => \E S \in SUBSET (Ids \ {Main, latest}) :
                              user'[u] = LoseHandles(S)[u]
      <4> DEFINE stale == IF timer THEN cleanup ELSE {}
      <4>1. user' = [LoseHandles(stale) EXCEPT ![r].pc = "got", ![r].db = d]
        BY <3>2 DEF Get
      <4>2. stale \in SUBSET (Ids \ {Main, latest})
        BY <1>1 DEF cleanup, DbTypeOK
      <4>3. r # u => user'[u] = LoseHandles(stale)[u]
        BY <1>1, <4>1, LoseHandlesType
      <4>4. QED
        BY <4>2, <4>3
    <3>3. QED
      BY <2>1, <3>1, <3>2
  <2>2. CASE user'[u] = user[u]
    BY <1>1, <2>0, <2>2
  <2>3. CASE \E S \in SUBSET (Ids \ {Main, latest}) : user'[u] = LoseHandles(S)[u]
    BY <1>1, <2>0, <2>3, LoseHandlesType
  <2>4. CASE Store(u) \/ Query(u) \/ Latest(u)
    BY <1>1, <2>0, <2>4 DEF Store, Query, Latest, NoUser, Main, DbTypeOK, JobIsApart
  <2>5. ASSUME NEW d \in Ids, Get(u, d)
        PROVE  /\ user'[u].db \in files' \cup {Main}
               /\ user'[u].pc # "query" => user'[u].handle = "none"
               /\ phase' \in {"stopped", "main", "register"} => user'[u].pc = "idle"
               /\ user'[u].handle = "dead" /\ phase' = "serving" =>
                     user'[u].db \notin {Main, latest'}
    <3> DEFINE stale == IF timer THEN cleanup ELSE {}
    <3>1. /\ user' = [LoseHandles(stale) EXCEPT ![u].pc = "got", ![u].db = d]
          /\ user[u].pc = "idle" /\ d \in registered /\ phase = "serving"
      BY <2>5 DEF Get
    <3>2. user'[u].db = d /\ user'[u].handle = "none"
      BY <1>1, <3>1, LoseHandlesType
    <3>3. QED
      BY <1>1, <2>0, <3>1, <3>2 DEF JobIsApart
  <2>6. QED
    BY <1>3, <2>1, <2>2, <2>3, <2>4, <2>5 DEF UserStep
<1>4. CASE JobStep
  <2>1. UNCHANGED phase /\ (~ AddLatest => UNCHANGED <<files, latest>>)
    BY <1>4 DEF JobStep, NewDatabase, Clone, CloneFails, RemoveClone, AddLatest, AddListed,
                ClosePrevious, Discard
  <2>2. CASE AddLatest
    BY <1>1, <2>1, <2>2 DEF AddLatest, JobIsApart, DbTypeOK, Main, Collections
  <2>3. CASE ClosePrevious
    BY <1>1, <2>1, <2>3, LoseHandlesType
       DEF ClosePrevious, AddLatest, JobIsApart, Main
  <2>4. CASE UNCHANGED <<user, files, latest>>
    BY <1>1, <2>1, <2>4
  <2>5. QED
    BY <1>4, <2>1, <2>2, <2>3, <2>4
       DEF JobStep, NewDatabase, Clone, CloneFails, RemoveClone, AddListed, Discard
<1>5. CASE ProcessStep
  <2>1. CASE Exit
    BY <2>1 DEF Exit, NoUser, Main
  <2>2. CASE PoolClose
    BY <1>1, <2>2, LoseHandlesType DEF PoolClose
  <2>3. UNCHANGED files
    BY <1>5 DEF ProcessStep, Migrate, MigrateFails, Register, OpenMain, Serve, Signal,
                PoolClose, Exit
  <2>4. CASE /\ UNCHANGED user /\ phase \in {"stopped", "main", "register"}
    BY <1>1, <2>3, <2>4
  <2>5. CASE UNCHANGED user /\ phase' = "draining"
    BY <1>1, <2>3, <2>5
  <2>6. QED
    BY <1>5, <2>1, <2>2, <2>4, <2>5
       DEF ProcessStep, Migrate, MigrateFails, Register, Starting, OpenMain, Serve, Signal
<1>6. QED
  BY <1>2, <1>3, <1>4, <1>5, StepKinds DEF ClockStep, TimerFires, Idle

\* Connections: opened only where there is none, and not the one of a file that
\* is attached to a clone.
LEMMA ConnectionStep ==
    ASSUME DbInv, [DbNext]_dbVars
    PROVE  OneConnection'
<1> USE DEF dbVars, fileVars, poolVars, connVars
<1>1. DbTypeOK /\ JobIsApart /\ RequestsApart /\ OneConnection
  BY DEF DbInv
<1>2. CASE UNCHANGED <<conn, job>>
  BY <1>1, <1>2 DEF OneConnection
<1>3. ASSUME NEW u \in Users, Store(u) PROVE OneConnection'
  <2>1. job.pc = "cloned" => user[u].db # job.db
    BY <1>1 DEF RequestsApart, JobIsApart, Main, Collections
  <2>2. QED
    BY <1>1, <1>3, <2>1 DEF Store, Open, OneConnection, DbTypeOK
<1>4. ASSUME NEW u \in Users, NEW d \in Ids, Get(u, d) PROVE OneConnection'
  BY <1>1, <1>4, CloseType DEF Get, OneConnection, DbTypeOK
<1>5. CASE JobStep
  <2>1. ASSUME NEW d \in Collections, NewDatabase(d) PROVE OneConnection'
    BY <1>1, <2>1 DEF NewDatabase, Open, OneConnection, DbTypeOK
  <2>2. CASE Clone \/ CloneFails \/ RemoveClone
    BY <1>1, <2>2 DEF Clone, CloneFails, RemoveClone, Open, OneConnection, DbTypeOK
  <2>3. CASE AddLatest \/ AddListed
    BY <1>1, <2>3 DEF AddLatest, AddListed, OneConnection, DbTypeOK
  <2>4. CASE ClosePrevious \/ Discard
    BY <1>1, <2>4, CloseType DEF ClosePrevious, Discard, NoJob, OneConnection, DbTypeOK
  <2>5. QED
    BY <1>5, <2>1, <2>2, <2>3, <2>4 DEF JobStep
<1>6. CASE ProcessStep
  <2>1. ASSUME NEW d \in Ids, Migrate(d) PROVE OneConnection'
    BY <1>1, <2>1 DEF Migrate, Starting, Open, OneConnection, JobIsApart, DbTypeOK
  <2>2. ASSUME NEW d \in Ids, MigrateFails(d) \/ Register(d) PROVE OneConnection'
    BY <1>1, <2>2, CloseType DEF MigrateFails, Register, OneConnection, DbTypeOK
  <2>3. CASE OpenMain
    BY <1>1, <2>3 DEF OpenMain, Open, OneConnection, JobIsApart, DbTypeOK
  <2>4. CASE PoolClose \/ Exit
    BY <1>1, <2>4, CloseType DEF PoolClose, Exit, NoJob, OneConnection, DbTypeOK
  <2>5. QED
    BY <1>2, <1>6, <2>1, <2>2, <2>3, <2>4 DEF ProcessStep, Serve, Signal
<1>7. QED
  BY <1>2, <1>3, <1>4, <1>5, <1>6, StepKinds
     DEF UserStep, ClockStep, Query, Latest, TimerFires, Idle

\* Migrations: what startup registers has them all, and so has the database a
\* collection run creates and publishes.
LEMMA SchemaStep ==
    ASSUME DbInv, [DbNext]_dbVars
    PROVE  SchemaIsRecorded' /\ ServedIsMigrated'
<1> USE DEF dbVars, fileVars, poolVars, connVars
<1>1. DbTypeOK /\ JobIsApart /\ SchemaIsRecorded /\ ServedIsMigrated
  BY DEF DbInv
<1>2. CASE UNCHANGED <<schema, recorded, registered, latest>>
  BY <1>1, <1>2 DEF SchemaIsRecorded, ServedIsMigrated
<1>3. CASE JobStep
  <2>1. ASSUME NEW d \in Collections, NewDatabase(d)
        PROVE  SchemaIsRecorded' /\ ServedIsMigrated'
    BY <1>1, <2>1 DEF NewDatabase, SchemaIsRecorded, ServedIsMigrated, DbTypeOK
  <2>2. CASE AddLatest \/ AddListed
    BY <1>1, <2>2 DEF AddLatest, AddListed, SchemaIsRecorded, ServedIsMigrated,
                      JobIsApart, DbTypeOK
  <2>3. CASE Discard
    BY <1>1, <2>3 DEF Discard, SchemaIsRecorded, ServedIsMigrated, JobIsApart, DbTypeOK,
                      Main, Collections
  <2>4. QED
    BY <1>2, <1>3, <2>1, <2>2, <2>3 DEF JobStep, Clone, CloneFails, RemoveClone,
                                                ClosePrevious
<1>4. CASE ProcessStep
  <2>1. ASSUME NEW d \in Ids, Migrate(d)
        PROVE  SchemaIsRecorded' /\ ServedIsMigrated'
    <3>1. d \notin registered \cup ({latest} \ {0})
      BY <1>1, <2>1 DEF Migrate, Unapplied, SchemaIsRecorded, ServedIsMigrated
    <3>2. QED
      BY <1>1, <2>1, <3>1 DEF Migrate, runMigration, SchemaIsRecorded, ServedIsMigrated,
                              DbTypeOK
  <2>2. ASSUME NEW d \in Ids, Register(d)
        PROVE  SchemaIsRecorded' /\ ServedIsMigrated'
    <3>1. schema[d] = 1..Versions
      BY <1>1, <2>2 DEF Register, Unapplied, SchemaIsRecorded, DbTypeOK
    <3>2. QED
      BY <1>1, <2>2, <3>1 DEF Register, SchemaIsRecorded, ServedIsMigrated
  <2>3. CASE Exit
    BY <1>1, <2>3 DEF Exit, SchemaIsRecorded, ServedIsMigrated
  <2>4. QED
    BY <1>2, <1>4, <2>1, <2>2, <2>3
       DEF ProcessStep, MigrateFails, OpenMain, Serve, Signal, PoolClose
<1>5. QED
  BY <1>2, <1>3, <1>4, StepKinds
     DEF UserStep, ClockStep, Store, Query, Latest, Get, TimerFires, Idle

-----------------------------------------------------------------------------
(* Databases: the theorems. *)

\* The databases of earlier runs satisfy the invariant.
LEMMA InitDbInv == DbInit => DbInv
<1> SUFFICES ASSUME DbInit PROVE DbInv
  OBVIOUS
<1>1. Main \in Ids /\ Collections \subseteq Ids
  BY DatabasesAssumption DEF Main, Ids, Collections
<1>2. /\ schema \in [Ids -> SUBSET (1..Versions)]
      /\ recorded \in [Ids -> SUBSET (1..Versions)]
  <2>1. PICK v \in 0..Versions :
           schema = [d \in Ids |-> IF d \in files \cup {Main} THEN 1..v ELSE {}]
    BY DEF DbInit
  <2>2. 1..v \subseteq 1..Versions
    BY <2>1, DatabasesAssumption
  <2>3. QED
    BY <2>1, <2>2 DEF DbInit
<1>3. DbTypeOK
  <2>1. /\ user \in [Users -> [pc : {"idle", "got", "query"}, db : Ids,
                               handle : {"none", "live", "dead"}]]
        /\ job \in [pc : {"none", "collect", "cloned", "failed", "synced", "added",
                          "listed"}, db : Ids]
    BY <1>1 DEF DbInit, NoUser, NoJob, Main
  <2>2. /\ conn \in [Ids -> 0..2] /\ store \in [Ids -> BOOLEAN]
        /\ access \in [Ids -> {"never", "recent", "idle"}]
        /\ dbFaults \in 0..MaxDbFaults
    BY DatabasesAssumption DEF DbInit, Closed
  <2>3. /\ phase = "stopped" /\ files \subseteq Collections /\ pending \subseteq Collections
        /\ registered \subseteq Ids /\ latest \in Ids /\ timer \in BOOLEAN
        /\ clones \subseteq Collections
    BY <1>1 DEF DbInit, Main
  <2>4. QED
    BY <1>2, <2>1, <2>2, <2>3 DEF DbTypeOK
<1>4. OneConnection /\ JobIsApart /\ RequestsApart
  BY <1>1 DEF DbInit, OneConnection, JobIsApart, RequestsApart, Closed, NoUser,
              NoJob, Main
<1>5. SchemaIsRecorded /\ ServedIsMigrated /\ LatestUndisturbed
  BY DEF DbInit, SchemaIsRecorded, ServedIsMigrated, LatestUndisturbed, NoUser
<1>6. QED
  BY <1>3, <1>4, <1>5 DEF DbInv

\* Every step of a request, of a collection run, of startup and shutdown
\* preserves the invariant.
LEMMA NextDbInv == DbInv /\ [DbNext]_dbVars => DbInv'
<1> SUFFICES ASSUME DbInv, [DbNext]_dbVars PROVE DbInv'
  OBVIOUS
<1>1. DbTypeOK' /\ OneConnection' /\ JobIsApart'
  BY TypeStep, ConnectionStep, JobStepInv
<1>2. SchemaIsRecorded' /\ ServedIsMigrated'
  BY SchemaStep
<1>3. RequestsApart' /\ LatestUndisturbed'
  BY RequestStep DEF RequestsApart, LatestUndisturbed
<1>4. QED
  BY <1>1, <1>2, <1>3 DEF DbInv

\* The invariant holds throughout, crashes and failed migrations included.
THEOREM DatabasesInvariance == DbSpec => []DbInv
BY InitDbInv, NextDbInv, PTL DEF DbSpec

\* Store, Clone, Migrate and cleanup together never give a file a second
\* connection, and none while it is attached to a clone.
THEOREM ConnectionsStaySingle == DbSpec => []OneConnection
<1>1. DbInv => OneConnection
  BY DEF DbInv
<1>2. QED
  BY <1>1, DatabasesInvariance, PTL

\* Cleanup and promotions never close a connection under a request on the main
\* database or on the latest collection.
THEOREM LatestStaysOpen == DbSpec => []LatestUndisturbed
<1>1. DbInv => LatestUndisturbed
  BY DEF DbInv
<1>2. QED
  BY <1>1, DatabasesInvariance, PTL

\* Requests only reach databases with every migration applied.
THEOREM OnlyMigratedIsServed == DbSpec => []ServedIsMigrated
<1>1. DbInv => ServedIsMigrated
  BY DEF DbInv
<1>2. QED
  BY <1>1, DatabasesInvariance, PTL

-----------------------------------------------------------------------------
(* Comparison: lists of sets. *)

\* f puts numbers in their order.
Increasing(f) == \A i, j \in DOMAIN f : i < j => f[i] < f[j]

\* A finite set of numbers can be put in order. By the least cardinality for which
\* it could not.
LEMMA OrderExists ==
    ASSUME NEW S \in SUBSET Nat, IsFiniteSet(S)
    PROVE  \E f \in [1..Cardinality(S) -> S] : Increasing(f)
<1> DEFINE Can(T) == \E f \in [1..Cardinality(T) -> T] : Increasing(f)
           Bad == {n \in Nat : \E T \in SUBSET Nat : IsFiniteSet(T) /\ Cardinality(T) = n /\ ~Can(T)}
<1>1. SUFFICES ASSUME ~Can(S) PROVE FALSE
  OBVIOUS
<1> HIDE DEF Can
<1>2. Cardinality(S) \in Bad
  BY <1>1, FS_CardinalityType
<1>3. PICK n \in Bad : \A x \in Bad : n <= x
  <2>1. Bad \subseteq Nat /\ Bad # {}
    BY <1>2
  <2> HIDE DEF Bad
  <2> QED
    BY <2>1, SmallestElement
<1>4. PICK T \in SUBSET Nat : IsFiniteSet(T) /\ Cardinality(T) = n /\ ~Can(T)
  BY <1>3
<1>5. T # {}
  <2>1. ASSUME T = {} PROVE FALSE
    <3>1. Cardinality(T) = 0
      BY <2>1, FS_EmptySet
    <3> DEFINE f == [i \in 1..0 |-> i]
    <3>2. f \in [1..0 -> T] /\ Increasing(f)
      BY <2>1 DEF Increasing
    <3> QED
      BY <1>4, <3>1, <3>2 DEF Can
  <2> QED
    BY <2>1
<1>6. PICK m \in T : \A x \in T : m <= x
  BY <1>5, SmallestElement
<1> DEFINE U == T \ {m}
<1>7. IsFiniteSet(U) /\ Cardinality(U) = n - 1 /\ n \in Nat
  BY <1>3, <1>4, FS_RemoveElement
<1>8. n - 1 \in Nat
  BY <1>7, FS_CardinalityType
<1>9. Can(U)
  <2>1. U \in SUBSET Nat
    OBVIOUS
  <2>2. n - 1 \notin Bad
    BY <1>3, <1>8
  <2> HIDE DEF U
  <2> QED
    BY <1>7, <1>8, <2>1, <2>2
<1>10. PICK f \in [1..(n - 1) -> U] : Increasing(f)
  BY <1>7, <1>9 DEF Can
<1> DEFINE g == [i \in 1..n |-> IF i = 1 THEN m ELSE f[i - 1]]
<1>11. \A i \in 1..n : i = 1 \/ i - 1 \in 1..(n - 1)
  BY <1>7
<1>12. g \in [1..n -> T]
  BY <1>6, <1>10, <1>11
<1>13. Increasing(g)
  <2>1. SUFFICES ASSUME NEW i \in 1..n, NEW j \in 1..n, i < j PROVE g[i] < g[j]
    BY DEF Increasing
  <2>2. j - 1 \in 1..(n - 1) /\ j # 1
    BY <2>1, <1>7
  <2>3. f[j - 1] \in U /\ f[j - 1] \in T /\ f[j - 1] # m
    BY <2>2, <1>10
  <2>4. m \in Nat /\ f[j - 1] \in Nat /\ m <= f[j - 1]
    BY <1>6, <2>3
  <2>5. CASE i = 1
    BY <2>2, <2>3, <2>4, <2>5
  <2>6. CASE i # 1
    <3>1. i - 1 \in 1..(n - 1) /\ i - 1 < j - 1
      BY <2>1, <2>6, <1>7
    <3>2. f[i - 1] < f[j - 1]
      BY <1>10, <2>2, <3>1 DEF Increasing
    <3> QED
      BY <2>2, <2>6, <3>2
  <2> QED
    BY <2>5, <2>6
<1>14. Can(T)
  BY <1>4, <1>12, <1>13 DEF Can
<1> QED
  BY <1>4, <1>14

\* l lists the elements of S, each once.
Lists(l, S) ==
    /\ IsFiniteSet(S) /\ l \in [1..Cardinality(S) -> S]
    /\ \A i, j \in 1..Cardinality(S) : l[i] = l[j] => i = j
    /\ \A x \in S : \E i \in 1..Cardinality(S) : l[i] = x

\* The order of a set lists it.
LEMMA InOrderLists ==
    ASSUME NEW S \in SUBSET Nat, IsFiniteSet(S)
    PROVE  Lists(InOrder(S), S)
<1> DEFINE f == InOrder(S)
           n == Cardinality(S)
<1>1. f \in [1..n -> S] /\ Increasing(f)
  <2>1. \E g \in [1..n -> S] : \A i, j \in DOMAIN g : i < j => g[i] < g[j]
    BY OrderExists DEF Increasing
  <2> QED
    BY <2>1, Zenon DEF InOrder, Increasing
<1> HIDE DEF f
<1>2. n \in Nat
  BY FS_CardinalityType
<1>3. \A i, j \in 1..n : f[i] = f[j] => i = j
  <2>1. SUFFICES ASSUME NEW i \in 1..n, NEW j \in 1..n, i # j PROVE f[i] # f[j]
    OBVIOUS
  <2>2. f[i] \in Nat /\ f[j] \in Nat
    BY <1>1
  <2>3. i < j => f[i] < f[j]
    BY <1>1 DEF Increasing
  <2>4. j < i => f[j] < f[i]
    BY <1>1 DEF Increasing
  <2> QED
    BY <1>2, <2>1, <2>2, <2>3, <2>4
<1>4. f \in Injection(1..n, S)
  BY <1>1, <1>3 DEF Injection, IsInjective
<1>5. Cardinality(1..n) = n
  BY <1>2, FS_Interval
<1>6. f \in Surjection(1..n, S)
  BY <1>4, <1>5, FS_Injection
<1>7. \A x \in S : \E i \in 1..n : f[i] = x
  BY <1>6 DEF Surjection
<1> QED
  BY <1>1, <1>3, <1>7 DEF Lists, f

\* A list of n different elements: the set has n.
LEMMA ListsBijection ==
    ASSUME NEW S, NEW n \in Nat, NEW l \in [1..n -> S],
           \A i, j \in 1..n : l[i] = l[j] => i = j,
           \A x \in S : \E i \in 1..n : l[i] = x
    PROVE  Cardinality(S) = n /\ Lists(l, S)
<1>1. l \in Injection(1..n, S) /\ l \in Surjection(1..n, S)
  BY DEF Injection, Surjection, IsInjective
<1>2. IsFiniteSet(1..n) /\ Cardinality(1..n) = n
  BY FS_Interval
<1>3. IsFiniteSet(S) /\ Cardinality(S) = n
  BY <1>1, <1>2, FS_Surjection
<1> QED
  BY <1>3 DEF Lists

\* Two sequences, one after the other, position by position.
Glued(l, k) == [i \in 1..(Len(l) + Len(k)) |-> IF i <= Len(l) THEN l[i] ELSE k[i - Len(l)]]

\* That is what concatenation gives.
LEMMA ConcatIsFunction ==
    ASSUME NEW S, NEW T, NEW l \in Seq(S), NEW k \in Seq(T)
    PROVE  l \o k = Glued(l, k)
<1> DEFINE U == S \cup T
           c == l \o k
<1>1. l \in Seq(U) /\ k \in Seq(U)
  OBVIOUS
<1> HIDE DEF U
<1>2. c \in Seq(U) /\ Len(c) = Len(l) + Len(k)
  BY <1>1
<1>3. \A i \in 1..(Len(l) + Len(k)) : c[i] = IF i <= Len(l) THEN l[i] ELSE k[i - Len(l)]
  BY <1>1
<1> HIDE DEF c
<1>4. c = [i \in 1..Len(c) |-> c[i]]
  BY <1>2
<1> QED
  BY <1>2, <1>3, <1>4 DEF c, Glued

\* Two lists without a common element, one after the other.
LEMMA ListsConcat ==
    ASSUME NEW S, NEW T, NEW l, NEW k, Lists(l, S), Lists(k, T), S \cap T = {}
    PROVE  Lists(l \o k, S \cup T) /\ Cardinality(S \cup T) = Cardinality(S) + Cardinality(T)
<1> DEFINE n == Cardinality(S)
           m == Cardinality(T)
           c == l \o k
<1>1. n \in Nat /\ m \in Nat
  BY FS_CardinalityType DEF Lists
<1>2. l \in [1..n -> S] /\ k \in [1..m -> T]
  BY DEF Lists
<1>3. l \in Seq(S) /\ Len(l) = n /\ k \in Seq(T) /\ Len(k) = m
  BY <1>1, <1>2
<1>4. c = [i \in 1..(n + m) |-> IF i <= n THEN l[i] ELSE k[i - n]]
  <2> HIDE DEF n, m
  <2>1. l \in Seq(S)
    BY <1>3
  <2>2. k \in Seq(T)
    BY <1>3
  <2>3. l \o k = Glued(l, k)
    BY <2>1, <2>2, ConcatIsFunction, Zenon
  <2> QED
    BY <1>3, <2>3 DEF Glued
<1>5. \A i \in 1..(n + m) : IF i <= n THEN i \in 1..n ELSE i - n \in 1..m
  BY <1>1
<1> HIDE DEF c, n, m
<1>6. c \in [1..(n + m) -> S \cup T]
  BY <1>2, <1>4, <1>5
<1>7. \A i, j \in 1..n : l[i] = l[j] => i = j
  BY DEF Lists, n
<1>8. \A i, j \in 1..m : k[i] = k[j] => i = j
  BY DEF Lists, m
<1>9. ASSUME NEW i \in 1..(n + m), NEW j \in 1..(n + m), c[i] = c[j] PROVE i = j
  <2>1. c[i] = (IF i <= n THEN l[i] ELSE k[i - n]) /\ c[j] = (IF j <= n THEN l[j] ELSE k[j - n])
    BY <1>4
  <2>2. CASE i <= n /\ j <= n
    BY <1>5, <1>7, <1>9, <2>1, <2>2
  <2>3. CASE i <= n /\ ~(j <= n)
    <3>1. c[i] \in S /\ c[j] \in T
      BY <1>2, <1>5, <2>1, <2>3
    <3> QED
      BY <3>1, <1>9
  <2>4. CASE ~(i <= n) /\ j <= n
    <3>1. c[i] \in T /\ c[j] \in S
      BY <1>2, <1>5, <2>1, <2>4
    <3> QED
      BY <3>1, <1>9
  <2>5. CASE ~(i <= n) /\ ~(j <= n)
    <3>1. i - n \in 1..m /\ j - n \in 1..m /\ k[i - n] = k[j - n]
      BY <1>5, <1>9, <2>1, <2>5
    <3>2. i - n = j - n
      BY <1>8, <3>1
    <3> QED
      BY <1>1, <3>2
  <2> QED
    BY <2>2, <2>3, <2>4, <2>5
<1>10. ASSUME NEW x \in S \cup T PROVE \E i \in 1..(n + m) : c[i] = x
  <2>1. CASE x \in S
    <3>1. PICK i \in 1..n : l[i] = x
      BY <2>1 DEF Lists, n
    <3>2. i \in 1..(n + m) /\ i <= n
      BY <1>1
    <3> QED
      BY <1>4, <3>1, <3>2
  <2>2. CASE x \in T
    <3>1. PICK i \in 1..m : k[i] = x
      BY <2>2 DEF Lists, m
    <3>2. i + n \in 1..(n + m) /\ ~(i + n <= n) /\ (i + n) - n = i
      BY <1>1
    <3>3. c[i + n] = k[(i + n) - n]
      BY <1>4, <3>2
    <3> QED
      BY <3>1, <3>2, <3>3
  <2> QED
    BY <2>1, <2>2
<1>11. n + m \in Nat
  BY <1>1
<1>12. Cardinality(S \cup T) = n + m /\ Lists(c, S \cup T)
  <2> DEFINE U == S \cup T
             N == n + m
  <2>1. N \in Nat /\ c \in [1..N -> U] /\ (\A i, j \in 1..N : c[i] = c[j] => i = j)
        /\ \A x \in U : \E i \in 1..N : c[i] = x
    BY <1>6, <1>9, <1>10, <1>11
  <2> HIDE DEF U, N
  <2>2. Cardinality(U) = N /\ Lists(c, U)
    BY <2>1, ListsBijection
  <2> QED
    BY <2>2 DEF U, N
<1> QED
  BY <1>12 DEF c, n, m

\* The VMs of a collection a comparison looks at.
Eligible(c) == {v \in DOMAIN vinfo[c] : ~vinfo[c][v].excluded}

\* Such a VM is migratable when it has no critical concern.
CanMigrate(c, v) == ~vinfo[c][v].critical

\* rows lists the eligible VMs of c, each once, with its status.
RowsOf(rows, c) ==
    /\ IsFiniteSet(Eligible(c)) /\ Cardinality(Eligible(c)) \in Nat /\ Eligible(c) \subseteq CmpVms
    /\ rows \in Seq(Range(rows)) /\ Len(rows) = Cardinality(Eligible(c))
    /\ DOMAIN rows = 1..Cardinality(Eligible(c))
    /\ \A i \in DOMAIN rows : rows[i].vm \in Eligible(c) /\ rows[i].migratable = CanMigrate(c, rows[i].vm)
    /\ \A i, j \in DOMAIN rows : rows[i].vm = rows[j].vm => i = j
    /\ \A v \in Eligible(c) : \E i \in DOMAIN rows : rows[i].vm = v

\* The rows of a collection.
LEMMA ListForComparisonRows ==
    ASSUME NEW c, DOMAIN vinfo[c] \subseteq CmpVms
    PROVE  RowsOf(ListForComparison(c), c)
<1> DEFINE E == Eligible(c)
           n == Cardinality(E)
           vms == InOrder(E)
           vmRow(v) == [vm |-> v, migratable |-> CanMigrate(c, v)]
           rows == [i \in 1..n |-> vmRow(vms[i])]
<1>1. E \subseteq CmpVms /\ E \in SUBSET Nat /\ IsFiniteSet(E)
  <2>1. E \subseteq CmpVms
    BY DEF Eligible
  <2> QED
    BY <2>1, ComparisonAssumption, FS_Subset
<1>2. n \in Nat /\ Lists(vms, E)
  BY <1>1, InOrderLists, FS_CardinalityType
<1>3. vms \in [1..n -> E] /\ (\A i, j \in 1..n : vms[i] = vms[j] => i = j) /\ \A x \in E : \E i \in 1..n : vms[i] = x
  BY <1>2 DEF Lists
<1>4. ListForComparison(c) = rows
  BY <1>3 DEF ListForComparison, Eligible, CanMigrate
<1>5. \A v : vmRow(v).vm = v /\ vmRow(v).migratable = CanMigrate(c, v)
  OBVIOUS
<1> HIDE DEF vms, E, n, vmRow
<1>6. \A i \in 1..n : rows[i].vm = vms[i] /\ rows[i].migratable = CanMigrate(c, vms[i])
  BY <1>5
<1>7. \A i \in 1..n : vmRow(vms[i]) \in Range(rows)
  BY DEF Range
<1>8. rows \in Seq(Range(rows)) /\ Len(rows) = n /\ DOMAIN rows = 1..n
  <2>1. rows \in [1..n -> Range(rows)]
    BY <1>7
  <2> HIDE DEF rows
  <2> QED
    BY <1>2, <2>1
<1> HIDE DEF rows
<1> QED
  BY <1>1, <1>2, <1>3, <1>4, <1>6, <1>8 DEF RowsOf, E, n

\* The ids picked at some positions.
LEMMA PickedLists ==
    ASSUME NEW rows, NEW c, RowsOf(rows, c), NEW at \in SUBSET DOMAIN rows,
           NEW V, \A v : v \in V <=> \E i \in at : rows[i].vm = v
    PROVE  Lists(Picked(rows, at), V)
<1> DEFINE n == Cardinality(at)
           f == InOrder(at)
           l == [k \in 1..n |-> rows[f[k]].vm]
<1>1. DOMAIN rows = 1..Cardinality(Eligible(c)) /\ Cardinality(Eligible(c)) \in Nat
  BY DEF RowsOf
<1>2. IsFiniteSet(at) /\ at \in SUBSET Nat
  <2>1. IsFiniteSet(DOMAIN rows)
    BY <1>1, FS_Interval
  <2>2. DOMAIN rows \subseteq Nat
    BY <1>1
  <2> QED
    BY <2>1, <2>2, FS_Subset
<1>3. n \in Nat /\ Lists(f, at)
  BY <1>2, InOrderLists, FS_CardinalityType
<1>4. f \in [1..n -> at] /\ (\A i, j \in 1..n : f[i] = f[j] => i = j) /\ \A x \in at : \E i \in 1..n : f[i] = x
  BY <1>3 DEF Lists
<1>5. Picked(rows, at) = l
  BY DEF Picked
<1> HIDE DEF n, f
<1>6. \A i, j \in at : rows[i].vm = rows[j].vm => i = j
  BY DEF RowsOf
<1>7. l \in [1..n -> V]
  BY <1>4
<1>8. \A i, j \in 1..n : l[i] = l[j] => i = j
  <2>1. SUFFICES ASSUME NEW i \in 1..n, NEW j \in 1..n, l[i] = l[j] PROVE i = j
    OBVIOUS
  <2>2. f[i] \in at /\ f[j] \in at /\ rows[f[i]].vm = rows[f[j]].vm
    BY <1>4, <2>1
  <2> QED
    BY <1>4, <1>6, <2>2
<1>9. \A x \in V : \E i \in 1..n : l[i] = x
  <2>1. SUFFICES ASSUME NEW x \in V PROVE \E i \in 1..n : l[i] = x
    OBVIOUS
  <2>2. PICK k \in at : rows[k].vm = x
    OBVIOUS
  <2>3. PICK i \in 1..n : f[i] = k
    BY <1>4
  <2> QED
    BY <2>2, <2>3
<1> HIDE DEF l
<1>10. n \in Nat
  BY <1>3
<1>11. Lists(l, V)
  BY <1>7, <1>8, <1>9, <1>10, ListsBijection, Zenon
<1> QED
  BY <1>5, <1>11

\* The map of a list of rows has the status of each.
LEMMA StatusOfRows ==
    ASSUME NEW rows, NEW c, RowsOf(rows, c)
    PROVE  /\ DOMAIN StatusOf(rows) = Eligible(c)
           /\ \A v \in Eligible(c) : StatusOf(rows)[v] = CanMigrate(c, v)
<1>1. VmsOf(rows) = Eligible(c)
  <2>1. \A i \in DOMAIN rows : rows[i].vm \in Eligible(c)
    BY DEF RowsOf
  <2>2. \A v \in Eligible(c) : \E i \in DOMAIN rows : rows[i].vm = v
    BY DEF RowsOf
  <2> QED
    BY <2>1, <2>2 DEF VmsOf
<1>2. ASSUME NEW v \in Eligible(c)
      PROVE  (\E i \in DOMAIN rows : rows[i].vm = v /\ rows[i].migratable) = CanMigrate(c, v)
  <2>1. PICK k \in DOMAIN rows : rows[k].vm = v
    BY DEF RowsOf
  <2>2. \A i \in DOMAIN rows : rows[i].vm = v => i = k
    BY <2>1 DEF RowsOf
  <2>3. rows[k].migratable = CanMigrate(c, v)
    BY <2>1 DEF RowsOf
  <2> QED
    BY <2>1, <2>2, <2>3 DEF CanMigrate
<1> QED
  BY <1>1, <1>2 DEF StatusOf

\* The VMs that satisfy a dimension, as the status of the eligible ones.
LEMMA SatisfiesIs ==
    ASSUME NEW c, DOMAIN vinfo[c] \subseteq CmpVms
    PROVE  /\ \A v : v \in CmpVms /\ Satisfies(c, v, "total") <=> v \in Eligible(c)
           /\ \A v : v \in CmpVms /\ Satisfies(c, v, "migratable") <=> v \in Eligible(c) /\ CanMigrate(c, v)
           /\ \A v : v \in CmpVms /\ Satisfies(c, v, "non-migratable") <=> v \in Eligible(c) /\ ~CanMigrate(c, v)
<1> QED
  BY DEF Satisfies, Eligible, CanMigrate

\* map is the map of a collection: its eligible VMs and their status.
MapOf(map, c) == DOMAIN map = Eligible(c) /\ \A v \in Eligible(c) : map[v] = CanMigrate(c, v)

\* The positions the loops append at, in terms of the two collections.
PositionsAre(rows, c, other, o) ==
    /\ \A i : i \in Absent(rows, other) <=> i \in DOMAIN rows /\ rows[i].vm \notin Eligible(o)
    /\ \A i : i \in AbsentWith(rows, other, TRUE) <=>
          i \in DOMAIN rows /\ rows[i].vm \notin Eligible(o) /\ CanMigrate(c, rows[i].vm)
    /\ \A i : i \in AbsentWith(rows, other, FALSE) <=>
          i \in DOMAIN rows /\ rows[i].vm \notin Eligible(o) /\ ~CanMigrate(c, rows[i].vm)
    /\ \A i : i \in Flipped(rows, other, TRUE) <=>
          i \in DOMAIN rows /\ rows[i].vm \in Eligible(o) /\ CanMigrate(c, rows[i].vm) /\ ~CanMigrate(o, rows[i].vm)
    /\ \A i : i \in Flipped(rows, other, FALSE) <=>
          i \in DOMAIN rows /\ rows[i].vm \in Eligible(o) /\ ~CanMigrate(c, rows[i].vm) /\ CanMigrate(o, rows[i].vm)

\* The loops append at these positions.
LEMMA Positions ==
    ASSUME NEW rows, NEW c, RowsOf(rows, c), NEW other, NEW o, MapOf(other, o)
    PROVE  PositionsAre(rows, c, other, o)
<1>0. DOMAIN other = Eligible(o)
  BY DEF MapOf
<1>1. \A i : i \in Absent(rows, other) <=> i \in DOMAIN rows /\ rows[i].vm \notin Eligible(o)
  BY <1>0 DEF Absent
<1>2. \A i \in DOMAIN rows : rows[i].migratable = CanMigrate(c, rows[i].vm)
  BY DEF RowsOf
<1>3. \A i \in DOMAIN rows : /\ rows[i].migratable = TRUE <=> CanMigrate(c, rows[i].vm)
                             /\ rows[i].migratable = FALSE <=> ~CanMigrate(c, rows[i].vm)
  BY <1>2 DEF CanMigrate
<1>4. \A v \in Eligible(o) : (other[v] # TRUE <=> ~CanMigrate(o, v)) /\ (other[v] # FALSE <=> CanMigrate(o, v))
  BY DEF CanMigrate, MapOf
<1>5. ASSUME NEW i PROVE i \in AbsentWith(rows, other, TRUE) <=>
          i \in DOMAIN rows /\ rows[i].vm \notin Eligible(o) /\ CanMigrate(c, rows[i].vm)
  BY <1>1, <1>3 DEF AbsentWith
<1>6. ASSUME NEW i PROVE i \in AbsentWith(rows, other, FALSE) <=>
          i \in DOMAIN rows /\ rows[i].vm \notin Eligible(o) /\ ~CanMigrate(c, rows[i].vm)
  BY <1>1, <1>3 DEF AbsentWith
<1>7. ASSUME NEW i PROVE i \in Flipped(rows, other, TRUE) <=>
          i \in DOMAIN rows /\ rows[i].vm \in Eligible(o) /\ CanMigrate(c, rows[i].vm) /\ ~CanMigrate(o, rows[i].vm)
  BY <1>1, <1>3, <1>4 DEF Flipped
<1>8. ASSUME NEW i PROVE i \in Flipped(rows, other, FALSE) <=>
          i \in DOMAIN rows /\ rows[i].vm \in Eligible(o) /\ ~CanMigrate(c, rows[i].vm) /\ CanMigrate(o, rows[i].vm)
  BY <1>1, <1>3, <1>4 DEF Flipped
<1> QED
  BY <1>1, <1>5, <1>6, <1>7, <1>8 DEF PositionsAre

\* The sets the lists are about, from the rows of one collection.
LEMMA PickedOf ==
    ASSUME NEW rows, NEW c, RowsOf(rows, c), NEW at, NEW V,
           \A i : i \in at => i \in DOMAIN rows,
           \A v : v \in V => v \in Eligible(c),
           \A i \in DOMAIN rows : i \in at <=> rows[i].vm \in V
    PROVE  Lists(Picked(rows, at), V)
<1>1. at \in SUBSET DOMAIN rows
  OBVIOUS
<1>2. \A v \in Eligible(c) : \E i \in DOMAIN rows : rows[i].vm = v
  BY DEF RowsOf
<1>3. \A v : v \in V <=> \E i \in at : rows[i].vm = v
  BY <1>2
<1> QED
  BY <1>1, <1>3, PickedLists

\* The six lists are those of the VMs that satisfy the dimension in one collection
\* and not in the other.
LEMMA DiffSetsExact ==
    ASSUME NEW a, NEW b, DOMAIN vinfo[a] \subseteq CmpVms, DOMAIN vinfo[b] \subseteq CmpVms,
           NEW ra, NEW rb, RowsOf(ra, a), RowsOf(rb, b), NEW d \in Dimensions
    PROVE  /\ Lists(computeDiffSets(ra, rb)["onlyInA"][d], OnlyIn(a, b, d))
           /\ Lists(computeDiffSets(ra, rb)["onlyInB"][d], OnlyIn(b, a, d))
<1> DEFINE aMap == StatusOf(ra)
           bMap == StatusOf(rb)
<1>1. PositionsAre(rb, b, aMap, a)
  <2>1. MapOf(aMap, a)
    BY StatusOfRows DEF MapOf
  <2> QED
    BY <2>1, Positions
<1>2. PositionsAre(ra, a, bMap, b)
  <2>1. MapOf(bMap, b)
    BY StatusOfRows DEF MapOf
  <2> QED
    BY <2>1, Positions
<1> HIDE DEF aMap, bMap
<1>3. \A e : \A v : v \in OnlyIn(a, b, e) <=> (v \in CmpVms /\ Satisfies(a, v, e)) /\ ~(v \in CmpVms /\ Satisfies(b, v, e))
  BY DEF OnlyIn
<1>4. \A e : \A v : v \in OnlyIn(b, a, e) <=> (v \in CmpVms /\ Satisfies(b, v, e)) /\ ~(v \in CmpVms /\ Satisfies(a, v, e))
  BY DEF OnlyIn
<1>5. \A i \in DOMAIN ra : ra[i].vm \in Eligible(a)
  BY DEF RowsOf
<1>6. \A i \in DOMAIN rb : rb[i].vm \in Eligible(b)
  BY DEF RowsOf
<1> DEFINE onlyA(m) == Picked(ra, AbsentWith(ra, bMap, m) \cup Flipped(ra, bMap, m))
           onlyB(m) == Picked(ra, Flipped(ra, bMap, ~m)) \o Picked(rb, AbsentWith(rb, aMap, m))
<1>7. /\ computeDiffSets(ra, rb)["onlyInA"]["total"] = Picked(ra, Absent(ra, bMap))
      /\ computeDiffSets(ra, rb)["onlyInB"]["total"] = Picked(rb, Absent(rb, aMap))
      /\ computeDiffSets(ra, rb)["onlyInA"]["migratable"] = onlyA(TRUE)
      /\ computeDiffSets(ra, rb)["onlyInB"]["migratable"] = onlyB(TRUE)
      /\ computeDiffSets(ra, rb)["onlyInA"]["non-migratable"] = onlyA(FALSE)
      /\ computeDiffSets(ra, rb)["onlyInB"]["non-migratable"] = onlyB(FALSE)
  BY DEF computeDiffSets, Dimensions, aMap, bMap
<1>8. CASE d = "total"
  <2>1. Lists(Picked(ra, Absent(ra, bMap)), OnlyIn(a, b, "total"))
    <3> DEFINE at == Absent(ra, bMap)
               V == OnlyIn(a, b, "total")
    <3>1. \A v : v \in V <=> v \in Eligible(a) /\ v \notin Eligible(b)
      BY <1>3, SatisfiesIs
    <3>2. \A i : i \in at <=> i \in DOMAIN ra /\ ra[i].vm \notin Eligible(b)
      BY <1>2 DEF PositionsAre
    <3> HIDE DEF at, V
    <3>3. Lists(Picked(ra, at), V)
      BY <1>5, <3>1, <3>2, PickedOf
    <3> QED
      BY <3>3 DEF at, V
  <2>2. Lists(Picked(rb, Absent(rb, aMap)), OnlyIn(b, a, "total"))
    <3> DEFINE at == Absent(rb, aMap)
               V == OnlyIn(b, a, "total")
    <3>1. \A v : v \in V <=> v \in Eligible(b) /\ v \notin Eligible(a)
      BY <1>4, SatisfiesIs
    <3>2. \A i : i \in at <=> i \in DOMAIN rb /\ rb[i].vm \notin Eligible(a)
      BY <1>1 DEF PositionsAre
    <3> HIDE DEF at, V
    <3>3. Lists(Picked(rb, at), V)
      BY <1>6, <3>1, <3>2, PickedOf
    <3> QED
      BY <3>3 DEF at, V
  <2> QED
    BY <1>7, <1>8, <2>1, <2>2
<1>9. CASE d = "migratable"
  <2>1. Lists(onlyA(TRUE), OnlyIn(a, b, d))
    <3> DEFINE at == AbsentWith(ra, bMap, TRUE) \cup Flipped(ra, bMap, TRUE)
               V == OnlyIn(a, b, d)
    <3>1. \A v : v \in V <=> v \in Eligible(a) /\ CanMigrate(a, v) /\ ~(v \in Eligible(b) /\ CanMigrate(b, v))
      BY <1>3, <1>9, SatisfiesIs
    <3>2. \A i : i \in at <=> i \in DOMAIN ra /\ CanMigrate(a, ra[i].vm)
                              /\ ~(ra[i].vm \in Eligible(b) /\ CanMigrate(b, ra[i].vm))
      BY <1>2 DEF PositionsAre
    <3> HIDE DEF at, V
    <3>3. Lists(Picked(ra, at), V)
      BY <1>5, <3>1, <3>2, PickedOf
    <3> QED
      BY <3>3 DEF at, V
  <2>2. Lists(onlyB(TRUE), OnlyIn(b, a, d))
    <3> DEFINE at == Flipped(ra, bMap, FALSE)
               bt == AbsentWith(rb, aMap, TRUE)
               V == {v \in Eligible(a) : v \in Eligible(b) /\ ~CanMigrate(a, v) /\ CanMigrate(b, v)}
               W == {v \in Eligible(b) : v \notin Eligible(a) /\ CanMigrate(b, v)}
    <3>1. OnlyIn(b, a, d) = V \cup W
      BY <1>4, <1>9, SatisfiesIs
    <3>2. V \cap W = {}
      OBVIOUS
    <3>3. Lists(Picked(ra, at), V)
      <4>1. \A i : i \in at <=> i \in DOMAIN ra /\ ra[i].vm \in Eligible(b)
                       /\ ~CanMigrate(a, ra[i].vm) /\ CanMigrate(b, ra[i].vm)
        BY <1>2 DEF PositionsAre
      <4>2. \A v : v \in V <=> v \in Eligible(a) /\ v \in Eligible(b) /\ ~CanMigrate(a, v) /\ CanMigrate(b, v)
        OBVIOUS
      <4> HIDE DEF at, V
      <4> QED
        BY <1>5, <4>1, <4>2, PickedOf
    <3>4. Lists(Picked(rb, bt), W)
      <4>1. \A i : i \in bt <=> i \in DOMAIN rb /\ rb[i].vm \notin Eligible(a) /\ CanMigrate(b, rb[i].vm)
        BY <1>1 DEF PositionsAre
      <4>2. \A v : v \in W <=> v \in Eligible(b) /\ v \notin Eligible(a) /\ CanMigrate(b, v)
        OBVIOUS
      <4> HIDE DEF bt, W
      <4> QED
        BY <1>6, <4>1, <4>2, PickedOf
    <3> HIDE DEF V, W
    <3>5. Lists(Picked(ra, at) \o Picked(rb, bt), V \cup W)
      BY <3>2, <3>3, <3>4, ListsConcat, Zenon
    <3> QED
      BY <3>1, <3>5
  <2> QED
    BY <1>7, <1>9, <2>1, <2>2
<1>10. CASE d = "non-migratable"
  <2>1. Lists(onlyA(FALSE), OnlyIn(a, b, d))
    <3> DEFINE at == AbsentWith(ra, bMap, FALSE) \cup Flipped(ra, bMap, FALSE)
               V == OnlyIn(a, b, d)
    <3>1. \A v : v \in V <=> v \in Eligible(a) /\ ~CanMigrate(a, v) /\ ~(v \in Eligible(b) /\ ~CanMigrate(b, v))
      BY <1>3, <1>10, SatisfiesIs
    <3>2. \A i : i \in at <=> i \in DOMAIN ra /\ ~CanMigrate(a, ra[i].vm)
                              /\ ~(ra[i].vm \in Eligible(b) /\ ~CanMigrate(b, ra[i].vm))
      BY <1>2 DEF PositionsAre
    <3> HIDE DEF at, V
    <3>3. Lists(Picked(ra, at), V)
      BY <1>5, <3>1, <3>2, PickedOf
    <3> QED
      BY <3>3 DEF at, V
  <2>2. Lists(onlyB(FALSE), OnlyIn(b, a, d))
    <3> DEFINE at == Flipped(ra, bMap, TRUE)
               bt == AbsentWith(rb, aMap, FALSE)
               V == {v \in Eligible(a) : v \in Eligible(b) /\ CanMigrate(a, v) /\ ~CanMigrate(b, v)}
               W == {v \in Eligible(b) : v \notin Eligible(a) /\ ~CanMigrate(b, v)}
    <3>1. OnlyIn(b, a, d) = V \cup W
      BY <1>4, <1>10, SatisfiesIs
    <3>2. V \cap W = {}
      OBVIOUS
    <3>3. Lists(Picked(ra, at), V)
      <4>1. \A i : i \in at <=> i \in DOMAIN ra /\ ra[i].vm \in Eligible(b)
                       /\ CanMigrate(a, ra[i].vm) /\ ~CanMigrate(b, ra[i].vm)
        BY <1>2 DEF PositionsAre
      <4>2. \A v : v \in V <=> v \in Eligible(a) /\ v \in Eligible(b) /\ CanMigrate(a, v) /\ ~CanMigrate(b, v)
        OBVIOUS
      <4> HIDE DEF at, V
      <4> QED
        BY <1>5, <4>1, <4>2, PickedOf
    <3>4. Lists(Picked(rb, bt), W)
      <4>1. \A i : i \in bt <=> i \in DOMAIN rb /\ rb[i].vm \notin Eligible(a) /\ ~CanMigrate(b, rb[i].vm)
        BY <1>1 DEF PositionsAre
      <4>2. \A v : v \in W <=> v \in Eligible(b) /\ v \notin Eligible(a) /\ ~CanMigrate(b, v)
        OBVIOUS
      <4> HIDE DEF bt, W
      <4> QED
        BY <1>6, <4>1, <4>2, PickedOf
    <3> HIDE DEF V, W
    <3>5. Lists(Picked(ra, at) \o Picked(rb, bt), V \cup W)
      BY <3>2, <3>3, <3>4, ListsConcat, Zenon
    <3>6. onlyB(FALSE) = Picked(ra, at) \o Picked(rb, bt)
      BY Zenon
    <3> QED
      BY <3>1, <3>5, <3>6
  <2> QED
    BY <1>7, <1>10, <2>1, <2>2
<1> QED
  BY <1>8, <1>9, <1>10 DEF Dimensions

\* The VMs of a collection that satisfy a dimension.
Satisfying(c, d) == {v \in CmpVms : Satisfies(c, v, d)}

\* They are finitely many.
LEMMA SatisfyingFinite ==
    ASSUME NEW c, NEW d
    PROVE  IsFiniteSet(Satisfying(c, d)) /\ Cardinality(Satisfying(c, d)) \in Nat
<1>1. Satisfying(c, d) \in SUBSET CmpVms
  BY DEF Satisfying
<1> QED
  BY <1>1, ComparisonAssumption, FS_Subset, FS_CardinalityType

\* As many VMs are added to a dimension as the difference of its lists says.
LEMMA DeltaAddsUp ==
    ASSUME NEW a, NEW b, NEW d
    PROVE  Cardinality(Satisfying(b, d)) - Cardinality(Satisfying(a, d)) =
             Cardinality(OnlyIn(b, a, d)) - Cardinality(OnlyIn(a, b, d))
<1> DEFINE A == Satisfying(a, d)
           B == Satisfying(b, d)
<1>1. OnlyIn(a, b, d) = A \ B /\ OnlyIn(b, a, d) = B \ A
  BY DEF OnlyIn, Satisfying
<1>2. IsFiniteSet(A) /\ IsFiniteSet(B) /\ Cardinality(A) \in Nat /\ Cardinality(B) \in Nat
  BY SatisfyingFinite
<1> HIDE DEF A, B
<1>3. Cardinality(A \ B) = Cardinality(A) - Cardinality(A \cap B)
  BY <1>2, FS_Difference
<1>4. Cardinality(B \ A) = Cardinality(B) - Cardinality(B \cap A)
  BY <1>2, FS_Difference
<1>5. A \cap B = B \cap A /\ Cardinality(A \cap B) \in Nat
  BY <1>2, FS_Intersection, FS_CardinalityType
<1>6. Cardinality(B \cap A) = Cardinality(A \cap B)
  BY <1>5
<1> QED
  BY <1>1, <1>2, <1>3, <1>4, <1>5, <1>6 DEF A, B

\* The length of a list.
LEMMA ListsLength ==
    ASSUME NEW l, NEW S, Lists(l, S)
    PROVE  /\ l \in Seq(S) /\ Len(l) = Cardinality(S) /\ Cardinality(S) \in Nat
           /\ Range(l) = S /\ IsInjective(l)
<1>1. Cardinality(S) \in Nat /\ l \in [1..Cardinality(S) -> S]
  BY FS_CardinalityType DEF Lists
<1> DEFINE n == Cardinality(S)
<1>2. (\A i, j \in 1..n : l[i] = l[j] => i = j) /\ (\A x \in S : \E i \in 1..n : l[i] = x)
  BY DEF Lists
<1> HIDE DEF n
<1>3. l \in Seq(S) /\ Len(l) = n
  BY <1>1 DEF n
<1>4. DOMAIN l = 1..n
  BY <1>1 DEF n
<1>5. Range(l) = S
  BY <1>1, <1>2, <1>4 DEF Range, n
<1>6. IsInjective(l)
  BY <1>2, <1>4 DEF IsInjective
<1> QED
  BY <1>1, <1>3, <1>5, <1>6 DEF n

\* countWhere counts the VMs of the dimension.
LEMMA PickedCount ==
    ASSUME NEW rows, NEW at, NEW V, Lists(Picked(rows, at), V), IsFiniteSet(at)
    PROVE  Cardinality(at) = Cardinality(V)
<1> DEFINE n == Cardinality(at)
           m == Cardinality(V)
<1>1. n \in Nat /\ m \in Nat
  BY FS_CardinalityType DEF Lists
<1>2. DOMAIN Picked(rows, at) = 1..n
  BY DEF Picked
<1>3. DOMAIN Picked(rows, at) = 1..m
  BY DEF Lists
<1> HIDE DEF n, m
<1>4. 1..n = 1..m
  BY <1>2, <1>3
<1>5. n <= m
  <2>1. n > 0 => n \in 1..m
    BY <1>1, <1>4
  <2> QED
    BY <1>1, <2>1
<1>6. m <= n
  <2>1. m > 0 => m \in 1..n
    BY <1>1, <1>4
  <2> QED
    BY <1>1, <2>1
<1>7. n = m
  BY <1>1, <1>5, <1>6
<1> QED
  BY <1>7 DEF n, m

\* The aggregates count the VMs that satisfy the dimension.
LEMMA CountsExact ==
    ASSUME NEW rows, NEW c, RowsOf(rows, c), DOMAIN vinfo[c] \subseteq CmpVms
    PROVE  /\ Len(rows) = Cardinality(Satisfying(c, "total"))
           /\ countWhere(rows, TRUE) = Cardinality(Satisfying(c, "migratable"))
           /\ countWhere(rows, FALSE) = Cardinality(Satisfying(c, "non-migratable"))
<1>1. Satisfying(c, "total") = Eligible(c)
  BY SatisfiesIs DEF Satisfying
<1>2. Len(rows) = Cardinality(Eligible(c))
  BY DEF RowsOf
<1>3. \A i \in DOMAIN rows : rows[i].vm \in Eligible(c) /\ rows[i].migratable = CanMigrate(c, rows[i].vm)
  BY DEF RowsOf
<1>4. \A at \in SUBSET DOMAIN rows : IsFiniteSet(at)
  <2>1. DOMAIN rows = 1..Cardinality(Eligible(c)) /\ Cardinality(Eligible(c)) \in Nat
    BY DEF RowsOf
  <2>2. IsFiniteSet(DOMAIN rows)
    BY <2>1, FS_Interval
  <2> QED
    BY <2>2, FS_Subset
<1>5. countWhere(rows, TRUE) = Cardinality(Satisfying(c, "migratable"))
  <2> DEFINE at == {i \in DOMAIN rows : rows[i].migratable = TRUE}
             V == Satisfying(c, "migratable")
  <2>1. \A v : v \in V <=> v \in Eligible(c) /\ CanMigrate(c, v)
    BY SatisfiesIs DEF Satisfying
  <2>2. \A i \in DOMAIN rows : i \in at <=> CanMigrate(c, rows[i].vm)
    BY <1>3 DEF CanMigrate
  <2>3. IsFiniteSet(at) /\ \A i : i \in at => i \in DOMAIN rows
    BY <1>4
  <2>4. countWhere(rows, TRUE) = Cardinality(at)
    BY DEF countWhere
  <2> HIDE DEF at, V
  <2>5. Lists(Picked(rows, at), V)
    BY <1>3, <2>1, <2>2, <2>3, PickedOf
  <2> QED
    BY <2>3, <2>4, <2>5, PickedCount DEF V
<1>6. countWhere(rows, FALSE) = Cardinality(Satisfying(c, "non-migratable"))
  <2> DEFINE at == {i \in DOMAIN rows : rows[i].migratable = FALSE}
             V == Satisfying(c, "non-migratable")
  <2>1. \A v : v \in V <=> v \in Eligible(c) /\ ~CanMigrate(c, v)
    BY SatisfiesIs DEF Satisfying
  <2>2. \A i \in DOMAIN rows : i \in at <=> ~CanMigrate(c, rows[i].vm)
    BY <1>3 DEF CanMigrate
  <2>3. IsFiniteSet(at) /\ \A i : i \in at => i \in DOMAIN rows
    BY <1>4
  <2>4. countWhere(rows, FALSE) = Cardinality(at)
    BY DEF countWhere
  <2> HIDE DEF at, V
  <2>5. Lists(Picked(rows, at), V)
    BY <1>3, <2>1, <2>2, <2>3, PickedOf
  <2> QED
    BY <2>3, <2>4, <2>5, PickedCount DEF V
<1> QED
  BY <1>1, <1>2, <1>5, <1>6

\* What a summary says of a dimension.
EntryExact(e, a, b, d) ==
    /\ e["onlyInA"] = Cardinality(OnlyIn(a, b, d)) /\ e["onlyInB"] = Cardinality(OnlyIn(b, a, d))
    /\ e.delta = e["onlyInB"] - e["onlyInA"]

\* Every entry of a summary is exact.
LEMMA EntriesExact ==
    ASSUME NEW a, NEW b, DOMAIN vinfo[a] \subseteq CmpVms, DOMAIN vinfo[b] \subseteq CmpVms,
           NEW ra, NEW rb, RowsOf(ra, a), RowsOf(rb, b), NEW d \in Dimensions
    PROVE  EntryExact(DiffEntries(ra, rb)[d], a, b, d)
<1> DEFINE la == computeDiffSets(ra, rb)["onlyInA"][d]
           lb == computeDiffSets(ra, rb)["onlyInB"][d]
           x == Cardinality(Satisfying(a, d))
           y == Cardinality(Satisfying(b, d))
           p == Len(la)
           q == Len(lb)
           del == y - x
<1>1. p = Cardinality(OnlyIn(a, b, d)) /\ q = Cardinality(OnlyIn(b, a, d))
  <2>1. Lists(la, OnlyIn(a, b, d)) /\ Lists(lb, OnlyIn(b, a, d))
    BY DiffSetsExact
  <2> HIDE DEF la, lb
  <2> QED
    BY <2>1, ListsLength
<1>2. y - x = q - p
  BY <1>1, DeltaAddsUp
<1>3. DiffEntries(ra, rb)[d] = Entry(x, y, la, lb)
  <2>1. Len(ra) = Cardinality(Satisfying(a, "total")) /\ countWhere(ra, TRUE) = Cardinality(Satisfying(a, "migratable"))
        /\ countWhere(ra, FALSE) = Cardinality(Satisfying(a, "non-migratable"))
    BY CountsExact
  <2>2. Len(rb) = Cardinality(Satisfying(b, "total")) /\ countWhere(rb, TRUE) = Cardinality(Satisfying(b, "migratable"))
        /\ countWhere(rb, FALSE) = Cardinality(Satisfying(b, "non-migratable"))
    BY CountsExact
  <2>3. CASE d = "total"
    BY <2>1, <2>2, <2>3 DEF DiffEntries, Dimensions
  <2>4. CASE d = "migratable"
    BY <2>1, <2>2, <2>4 DEF DiffEntries, Dimensions
  <2>5. CASE d = "non-migratable"
    BY <2>1, <2>2, <2>5 DEF DiffEntries, Dimensions
  <2> QED
    BY <2>3, <2>4, <2>5 DEF Dimensions
<1>4. Entry(x, y, la, lb) = [delta |-> del, onlyInA |-> p, onlyInB |-> q]
  BY DEF Entry
<1> HIDE DEF p, q, del
<1>5. DiffEntries(ra, rb)[d].delta = del /\ DiffEntries(ra, rb)[d]["onlyInA"] = p /\ DiffEntries(ra, rb)[d]["onlyInB"] = q
  BY <1>3, <1>4
<1> QED
  BY <1>1, <1>2, <1>5 DEF EntryExact, del

-----------------------------------------------------------------------------

\* A prefix and what follows it.
LEMMA PrefixExtends ==
    ASSUME NEW S, NEW ids \in Seq(S), NEW x \in Nat, NEW z \in Nat, x <= z, z <= Len(ids)
    PROVE  SubSeq(ids, 1, x) \o SubSeq(ids, x + 1, z) = SubSeq(ids, 1, z)
<1> DEFINE l == SubSeq(ids, 1, x)
           k == SubSeq(ids, x + 1, z)
<1>1. l = [i \in 1..x |-> ids[i]] /\ k = [i \in 1..(z - x) |-> ids[i + x]]
  OBVIOUS
<1>2. SubSeq(ids, 1, z) = [i \in 1..z |-> ids[i]]
  OBVIOUS
<1>3. l \in Seq(S) /\ k \in Seq(S) /\ Len(l) = x /\ Len(k) = z - x
  OBVIOUS
<1> HIDE DEF l, k
<1>4. l \o k = Glued(l, k)
  BY <1>3, ConcatIsFunction, Zenon
<1>5. Glued(l, k) = [i \in 1..z |-> IF i <= x THEN l[i] ELSE k[i - x]]
  <2>1. x + (z - x) = z
    OBVIOUS
  <2> QED
    BY <1>3, <2>1 DEF Glued
<1>6. \A i \in 1..z : (IF i <= x THEN l[i] ELSE k[i - x]) = ids[i]
  BY <1>1
<1> QED
  BY <1>2, <1>4, <1>5, <1>6 DEF l, k

\* ceil(n / size) pages hold n ids, and one fewer does not.
LEMMA PageArithmetic ==
    ASSUME NEW n \in Nat, NEW size \in Nat \ {0}, NEW p \in Nat \ {0}
    PROVE  LET c == (n + size - 1) \div size
           IN /\ p * size \in Nat /\ (p - 1) * size \in Nat /\ (p - 1) * size + size = p * size
              /\ p > c => n <= (p - 1) * size
              /\ p >= c => n <= p * size
              /\ p <= c => (p - 1) * size < n
<1> DEFINE c == (n + size - 1) \div size
<1>1. c \in Nat /\ c * size <= n + size - 1 /\ n + size - 1 < c * size + size
  OBVIOUS
<1>2. \A q \in Nat : q >= c => q * size >= c * size
  BY <1>1
<1>3. \A q \in Nat : q <= c => q * size <= c * size
  BY <1>1
<1>4. p * size \in Nat /\ (p - 1) * size \in Nat /\ (p - 1) * size + size = p * size /\ c * size \in Nat
  BY <1>1
<1> HIDE DEF c
<1>5. p > c => n <= (p - 1) * size
  <2>1. p > c => p - 1 \in Nat /\ p - 1 >= c
    BY <1>1
  <2> QED
    BY <1>1, <1>2, <1>4, <2>1
<1>6. p >= c => n <= p * size
  BY <1>1, <1>2, <1>4
<1>7. p <= c => (p - 1) * size < n
  BY <1>1, <1>3, <1>4
<1> QED
  BY <1>4, <1>5, <1>6, <1>7 DEF c

\* paginateIDs, of a page and a size that are positive.
LEMMA PageFields ==
    ASSUME NEW ids, NEW size \in Nat \ {0}, NEW p \in Nat \ {0}
    PROVE  LET n == Len(ids)
               c == (n + size - 1) \div size
               x == (p - 1) * size
           IN /\ paginateIDs(ids, p, size).pageCount = c
              /\ paginateIDs(ids, p, size).vmIds = IF p > c THEN <<>> ELSE SubSeq(ids, x + 1, AtMost(n, x + size))
<1> DEFINE q == AtLeast(1, p)
           z == AtLeast(1, size)
           c(w) == (Len(ids) + w - 1) \div w
           m(w, u) == IF u > c(w) THEN <<>> ELSE SubSeq(ids, (u - 1) * w + 1, AtMost(Len(ids), (u - 1) * w + w))
<1>1. q = p /\ z = size
  BY DEF AtLeast
<1>2. paginateIDs(ids, p, size) = [total |-> Len(ids), page |-> q, pageCount |-> c(z), vmIds |-> m(z, q)]
  BY Zenon DEF paginateIDs
<1> HIDE DEF q, z, c, m
<1>3. paginateIDs(ids, p, size).pageCount = c(z) /\ paginateIDs(ids, p, size).vmIds = m(z, q)
  BY <1>2
<1>4. paginateIDs(ids, p, size).pageCount = c(size) /\ paginateIDs(ids, p, size).vmIds = m(size, p)
  BY <1>1, <1>3
<1> QED
  BY <1>4, Zenon DEF c, m

\* One page more.
LEMMA PageStep ==
    ASSUME NEW S, NEW ids \in Seq(S), NEW size \in Nat \ {0}, NEW p \in Nat \ {0}
    PROVE  FirstPages(ids, size, p - 1) \o paginateIDs(ids, p, size).vmIds = FirstPages(ids, size, p)
<1> DEFINE n == Len(ids)
           c == (n + size - 1) \div size
           x == (p - 1) * size
           y == p * size
           page == paginateIDs(ids, p, size).vmIds
<1>1. n \in Nat /\ x \in Nat /\ y \in Nat /\ x + size = y /\ (p > c => n <= x) /\ (p <= c => x < n) /\ c \in Nat
  BY PageArithmetic
<1>2. page = IF p > c THEN <<>> ELSE SubSeq(ids, x + 1, AtMost(n, x + size))
  BY PageFields
<1>3. FirstPages(ids, size, p - 1) = SubSeq(ids, 1, AtMost(n, x)) /\ FirstPages(ids, size, p) = SubSeq(ids, 1, AtMost(n, y))
  BY DEF FirstPages
<1> HIDE DEF n, c, x, y, page
<1>4. CASE p > c
  <2>1. AtMost(n, x) = n /\ AtMost(n, y) = n
    BY <1>1, <1>4 DEF AtMost
  <2>2. SubSeq(ids, 1, n) \o <<>> = SubSeq(ids, 1, n)
    BY <1>1 DEF n
  <2> QED
    BY <1>2, <1>3, <1>4, <2>1, <2>2 DEF page
<1>5. CASE ~(p > c)
  <2> DEFINE z == AtMost(n, y)
  <2>1. AtMost(n, x) = x /\ z \in Nat /\ x <= z /\ z <= n /\ AtMost(n, x + size) = z
    BY <1>1, <1>5 DEF AtMost
  <2> HIDE DEF z
  <2>2. SubSeq(ids, 1, x) \o SubSeq(ids, x + 1, z) = SubSeq(ids, 1, z)
    BY <1>1, <2>1, PrefixExtends DEF n
  <2> QED
    BY <1>2, <1>3, <1>5, <2>1, <2>2 DEF page, z
<1> QED
  BY <1>4, <1>5

\* A walk begins with nothing, and has everything after the last page.
LEMMA PagesCover ==
    ASSUME NEW S, NEW ids \in Seq(S), NEW size \in Nat \ {0}
    PROVE  /\ FirstPages(ids, size, 0) = <<>>
           /\ \A p \in Nat \ {0} : p >= paginateIDs(ids, p, size).pageCount => FirstPages(ids, size, p) = ids
<1> DEFINE n == Len(ids)
<1>1. FirstPages(ids, size, 0) = <<>>
  <2>1. AtMost(n, 0 * size) = 0
    BY DEF AtMost
  <2> QED
    BY <2>1 DEF FirstPages
<1>2. ASSUME NEW p \in Nat \ {0}, p >= paginateIDs(ids, p, size).pageCount
      PROVE  FirstPages(ids, size, p) = ids
  <2> DEFINE c == (n + size - 1) \div size
             y == p * size
  <2>1. paginateIDs(ids, p, size).pageCount = c
    BY PageFields
  <2>2. n \in Nat /\ y \in Nat /\ n <= y
    BY <1>2, <2>1, PageArithmetic
  <2> HIDE DEF y
  <2>3. AtMost(n, y) = n
    BY <2>2 DEF AtMost
  <2>4. SubSeq(ids, 1, n) = ids
    OBVIOUS
  <2> QED
    BY <2>3, <2>4 DEF FirstPages, y
<1> QED
  BY <1>1, <1>2

\* What a step leaves of the request.
FieldsKept(changed) == \A f \in RequestFields \ changed : comparing'[f] = comparing[f]

\* A collection holds VMs.
LEMMA CollectionTyped ==
    ASSUME CmpTypeOK, NEW c \in DOMAIN vinfo
    PROVE  DOMAIN vinfo[c] \subseteq CmpVms
<1>1. vinfo[c] \in UNION {[S -> [critical : BOOLEAN, excluded : BOOLEAN]] : S \in SUBSET CmpVms}
  BY DEF CmpTypeOK
<1>2. PICK S \in SUBSET CmpVms : vinfo[c] \in [S -> [critical : BOOLEAN, excluded : BOOLEAN]]
  BY <1>1
<1> QED
  BY <1>2

\* The lists of the request, as the collections are now, are exact.
NowExact ==
    \A d \in Dimensions :
       /\ Lists(computeDiffSets(RowsA, RowsB)["onlyInA"][d], OnlyIn(comparing.pair[1], comparing.pair[2], d))
       /\ Lists(computeDiffSets(RowsA, RowsB)["onlyInB"][d], OnlyIn(comparing.pair[2], comparing.pair[1], d))
       /\ EntryExact(DiffEntries(RowsA, RowsB)[d], comparing.pair[1], comparing.pair[2], d)

\* They are, when both collections exist.
LEMMA NowIsExact ==
    ASSUME CmpTypeOK, {comparing.pair[1], comparing.pair[2]} \subseteq DOMAIN vinfo
    PROVE  NowExact
<1> DEFINE a == comparing.pair[1]
           b == comparing.pair[2]
<1>1. DOMAIN vinfo[a] \subseteq CmpVms /\ DOMAIN vinfo[b] \subseteq CmpVms
  BY CollectionTyped
<1> HIDE DEF a, b
<1>2. RowsOf(RowsA, a) /\ RowsOf(RowsB, b)
  BY <1>1, ListForComparisonRows DEF RowsA, RowsB, a, b
<1>3. ASSUME NEW d \in Dimensions
      PROVE  /\ Lists(computeDiffSets(RowsA, RowsB)["onlyInA"][d], OnlyIn(a, b, d))
             /\ Lists(computeDiffSets(RowsA, RowsB)["onlyInB"][d], OnlyIn(b, a, d))
             /\ EntryExact(DiffEntries(RowsA, RowsB)[d], a, b, d)
  BY <1>1, <1>2, DiffSetsExact, EntriesExact
<1> QED
  BY <1>3 DEF NowExact, a, b

\* A step that changes neither the VMs nor the pair leaves the rows.
LEMMA RowsKept ==
    ASSUME vinfo' = vinfo, comparing'.pair = comparing.pair
    PROVE  RowsA' = RowsA /\ RowsB' = RowsB
  BY DEF RowsA, RowsB, ListForComparison

\* The first step of the proofs that a step keeps the types of the request.
LEMMA TypesKept ==
    ASSUME CmpTypeOK, UNCHANGED <<vinfo, exclusions>>, comparing' = [f \in RequestFields |-> comparing'[f]],
           comparing'.pc \in {"idle", "refused", "loadA", "loadB", "compute", "answered"},
           comparing'.since \in 0..exclusions, comparing'.page \in Nat \ {0}, comparing'.pageSize \in Nat \ {0},
           comparing'.dimension \in Dimensions
    PROVE  CmpTypeOK'
<1>1. vinfo' \in [{"A", "B"} -> UNION {[S -> [critical : BOOLEAN, excluded : BOOLEAN]] : S \in SUBSET CmpVms}]
  BY DEF CmpTypeOK
<1>2. exclusions' \in Nat /\ comparing'.since \in 0..exclusions'
  BY DEF CmpTypeOK
<1> QED
  BY <1>1, <1>2 DEF CmpTypeOK

\* The request is about two collections that exist.
PairKnown == {comparing.pair[1], comparing.pair[2]} \subseteq DOMAIN vinfo

\* The lists of the request are sequences.
NowSequences ==
    \A d \in Dimensions, s \in Sides :
        computeDiffSets(RowsA, RowsB)[s][d] \in Seq(Range(computeDiffSets(RowsA, RowsB)[s][d]))

\* They are, when both collections exist.
LEMMA NowAreSequences == CmpTypeOK /\ PairKnown => NowSequences
<1> SUFFICES ASSUME CmpTypeOK, PairKnown, NEW d \in Dimensions, NEW s \in Sides
             PROVE  computeDiffSets(RowsA, RowsB)[s][d] \in Seq(Range(computeDiffSets(RowsA, RowsB)[s][d]))
  BY DEF NowSequences
<1> DEFINE l == computeDiffSets(RowsA, RowsB)[s][d]
<1>1. NowExact
  BY NowIsExact DEF PairKnown
<1>2. PICK S : Lists(l, S)
  BY <1>1 DEF NowExact, Sides
<1> HIDE DEF l
<1>3. l \in Seq(Range(l))
  BY <1>2, ListsLength
<1> QED
  BY <1>3 DEF l

-----------------------------------------------------------------------------

\* The initial states.
LEMMA CmpInitInv == CmpInit => CmpInv
<1> SUFFICES ASSUME CmpInit PROVE CmpInv
  OBVIOUS
<1>1. vinfo \in [{"A", "B"} -> UNION {[S -> [critical : BOOLEAN, excluded : BOOLEAN]] : S \in SUBSET CmpVms}]
  <2>1. vinfo \in [{"A", "B"} -> UNION {[S -> [critical : BOOLEAN, excluded : {FALSE}]] : S \in SUBSET CmpVms}]
    BY DEF CmpInit
  <2>2. [critical : BOOLEAN, excluded : {FALSE}] \subseteq [critical : BOOLEAN, excluded : BOOLEAN]
    OBVIOUS
  <2>3. ASSUME NEW S PROVE [S -> [critical : BOOLEAN, excluded : {FALSE}]] \subseteq [S -> [critical : BOOLEAN, excluded : BOOLEAN]]
    BY <2>2
  <2>4. UNION {[S -> [critical : BOOLEAN, excluded : {FALSE}]] : S \in SUBSET CmpVms}
          \subseteq UNION {[S -> [critical : BOOLEAN, excluded : BOOLEAN]] : S \in SUBSET CmpVms}
    <3>1. ASSUME NEW x, NEW S \in SUBSET CmpVms, x \in [S -> [critical : BOOLEAN, excluded : {FALSE}]]
          PROVE  x \in UNION {[R -> [critical : BOOLEAN, excluded : BOOLEAN]] : R \in SUBSET CmpVms}
      <4>1. x \in [S -> [critical : BOOLEAN, excluded : BOOLEAN]]
        BY <2>3, <3>1
      <4> QED
        BY <4>1
    <3> QED
      BY <3>1, Zenon
  <2> QED
    BY <2>1, <2>4
<1>2. comparing = NoRequest /\ exclusions = 0 /\ walked = NotWalked
  BY DEF CmpInit
<1>3. comparing = [f \in RequestFields |-> comparing[f]]
  BY <1>2 DEF NoRequest, RequestFields
<1>4. comparing.pc = "idle" /\ comparing.since = 0 /\ comparing.page = 1 /\ comparing.pageSize = 1 /\ comparing.dimension = "total"
  BY <1>2 DEF NoRequest
<1>5. CmpTypeOK
  BY <1>1, <1>2, <1>3, <1>4 DEF CmpTypeOK, Dimensions
<1> QED
  BY <1>2, <1>4, <1>5 DEF CmpInv, BeingServed

\* A user excludes a VM: no request that is being served is undisturbed any more.
LEMMA ChangeExclusionKeeps ==
    ASSUME CmpInv, NEW c \in DOMAIN vinfo, NEW v \in CmpVms, ChangeExclusion(c, v)
    PROVE  CmpInv'
<1> DEFINE Row == [critical : BOOLEAN, excluded : BOOLEAN]
           All == UNION {[S -> Row] : S \in SUBSET CmpVms}
<1>1. CmpTypeOK
  BY DEF CmpInv
<1>2. vinfo \in [{"A", "B"} -> All]
  BY <1>1 DEF CmpTypeOK
<1>3. comparing' = comparing /\ walked' = walked /\ exclusions' = exclusions + 1
  BY DEF ChangeExclusion
<1>4. vinfo' \in [{"A", "B"} -> All]
  <2> DEFINE vmRow == [vinfo[c][v] EXCEPT !.excluded = ~@]
             rows == [vinfo[c] EXCEPT ![v] = vmRow]
  <2>1. c \in {"A", "B"} /\ v \in DOMAIN vinfo[c]
    BY <1>2 DEF ChangeExclusion
  <2>2. PICK S \in SUBSET CmpVms : vinfo[c] \in [S -> Row]
    BY <1>2, <2>1
  <2>3. vinfo[c][v] \in Row
    BY <2>1, <2>2
  <2>4. vmRow \in Row
    BY <2>3
  <2>5. vinfo' = [vinfo EXCEPT ![c] = rows]
    BY <1>2, <2>1 DEF ChangeExclusion
  <2> HIDE DEF vmRow, Row
  <2>6. rows \in [S -> Row]
    BY <2>2, <2>4
  <2> HIDE DEF rows
  <2>7. rows \in All
    BY <2>6
  <2> HIDE DEF All
  <2> QED
    BY <1>2, <2>1, <2>5, <2>7
<1>5. CmpTypeOK'
  <2>1. exclusions \in Nat /\ comparing.since \in 0..exclusions
    BY <1>1 DEF CmpTypeOK
  <2>2. exclusions' \in Nat /\ comparing'.since \in 0..exclusions'
    BY <1>3, <2>1
  <2> QED
    BY <1>1, <1>3, <1>4, <2>2 DEF CmpTypeOK
<1>6. ~Undisturbed'
  <2>1. exclusions \in Nat /\ comparing.since \in 0..exclusions
    BY <1>1 DEF CmpTypeOK
  <2> QED
    BY <1>3, <2>1 DEF Undisturbed
<1>7. DOMAIN vinfo' = DOMAIN vinfo
  BY <1>2, <1>4
<1> QED
  BY <1>3, <1>5, <1>6, <1>7 DEF CmpInv, BeingServed

\* Nothing happens.
LEMMA StutterKeeps ==
    ASSUME CmpInv, UNCHANGED cmpVars
    PROVE  CmpInv'
<1>1. vinfo' = vinfo /\ comparing' = comparing /\ walked' = walked /\ exclusions' = exclusions
  BY DEF cmpVars
<1>2. RowsA' = RowsA /\ RowsB' = RowsB
  BY <1>1, RowsKept
<1> QED
  BY <1>1, <1>2 DEF CmpInv, CmpTypeOK, BeingServed, Undisturbed, ReadIsCurrent, WalkIsCurrent, PagesRead

\* The initial request of a walk or of a summary.
LEMMA AskedKeeps ==
    ASSUME CmpInv, NEW pair, NEW request, comparing.pc = "idle", comparing' = Asked(request, pair),
           UNCHANGED <<vinfo, exclusions, walked>>,
           request = [f \in RequestFields |-> request[f]], request.page = 1,
           request.pageSize \in Nat \ {0}, request.dimension \in Dimensions
    PROVE  CmpInv'
<1>1. CmpTypeOK /\ walked = NotWalked
  BY DEF CmpInv
<1>2. CASE ~Comparable(pair)
  <2>1. comparing' = [NoRequest EXCEPT !.pc = "refused"]
    BY <1>2 DEF Asked
  <2>2. /\ comparing' = [f \in RequestFields |-> comparing'[f]] /\ comparing'.pc = "refused" /\ comparing'.since = 0
        /\ comparing'.page = 1 /\ comparing'.pageSize = 1 /\ comparing'.dimension = "total"
    BY <2>1 DEF NoRequest, RequestFields
  <2>3. 0 \in 0..exclusions
    BY <1>1 DEF CmpTypeOK
  <2>4. CmpTypeOK'
    BY <1>1, <2>2, <2>3, TypesKept DEF Dimensions
  <2> QED
    BY <2>2, <2>4 DEF CmpInv, BeingServed
<1>3. CASE Comparable(pair)
  <2>1. comparing' = [request EXCEPT !.pc = "loadA", !.pair = pair, !.since = exclusions]
    BY <1>3 DEF Asked
  <2>2. /\ comparing' = [f \in RequestFields |-> comparing'[f]] /\ comparing'.pc = "loadA" /\ comparing'.since = exclusions
        /\ comparing'.page = 1 /\ comparing'.pageSize = request.pageSize /\ comparing'.dimension = request.dimension
        /\ comparing'.pair = pair
    BY <2>1 DEF RequestFields
  <2>3. exclusions \in 0..exclusions
    BY <1>1 DEF CmpTypeOK
  <2>4. CmpTypeOK'
    BY <1>1, <2>2, <2>3, TypesKept
  <2>5. {comparing'.pair[1], comparing'.pair[2]} \subseteq DOMAIN vinfo'
    BY <1>3, <2>2 DEF Comparable
  <2>6. WalkIsCurrent'
    <3>1. NowSequences'
      <4>1. PairKnown'
        BY <2>5 DEF PairKnown
      <4> QED
        BY <2>4, <4>1, NowAreSequences, PTL
    <3>2. \A s \in Sides : (FirstPages(computeDiffSets(RowsA, RowsB)[s][comparing.dimension], comparing.pageSize, 0) = <<>>)'
      <4> DEFINE l(s) == computeDiffSets(RowsA', RowsB')[s][comparing'.dimension]
      <4>1. \A s \in Sides : l(s) \in Seq(Range(l(s)))
        BY <2>2, <3>1 DEF NowSequences
      <4> HIDE DEF l
      <4>2. \A s \in Sides : FirstPages(l(s), comparing'.pageSize, 0) = <<>>
        BY <2>2, <4>1, PagesCover
      <4> QED
        BY <4>2 DEF l
    <3>3. PagesRead' = 0
      BY <2>2 DEF PagesRead
    <3>4. \A s \in Sides : walked'[s] = <<>>
      BY <1>1 DEF NotWalked
    <3> QED
      BY <3>2, <3>3, <3>4 DEF WalkIsCurrent
  <2> QED
    BY <2>2, <2>4, <2>5, <2>6 DEF CmpInv, ReadIsCurrent
<1> QED
  BY <1>2, <1>3

\* A summary is asked for.
LEMMA CompareCollectionsKeeps ==
    ASSUME CmpInv, NEW pair, CompareCollections(pair)
    PROVE  CmpInv'
<1> DEFINE request == [NoRequest EXCEPT !.op = "summary"]
<1>1. /\ request = [f \in RequestFields |-> request[f]] /\ request.page = 1 /\ request.pageSize = 1
      /\ request.dimension = "total"
  BY DEF NoRequest, RequestFields
<1>2. comparing.pc = "idle" /\ comparing' = Asked(request, pair) /\ UNCHANGED <<vinfo, exclusions, walked>>
  BY DEF CompareCollections
<1> HIDE DEF request
<1> QED
  BY <1>1, <1>2, AskedKeeps DEF Dimensions

\* The first page of a walk is asked for, with a size that is positive.
LEMMA CompareCollectionsDiffKeeps ==
    ASSUME CmpInv, NEW pair, NEW d \in Dimensions, NEW n \in CmpPageSizes, CompareCollectionsDiff(pair, d, n)
    PROVE  CmpInv'
<1> DEFINE size == IF n > 0 THEN AtMost(MaxPageSize, n) ELSE DefaultPageSize
           request == [NoRequest EXCEPT !.op = "diff", !.dimension = d, !.pageSize = size]
<1>1. size \in Nat \ {0}
  BY ComparisonAssumption DEF AtMost
<1>2. comparing.pc = "idle" /\ comparing' = Asked(request, pair) /\ UNCHANGED <<vinfo, exclusions, walked>>
  BY DEF CompareCollectionsDiff
<1> HIDE DEF size
<1>3. /\ request = [f \in RequestFields |-> request[f]] /\ request.page = 1 /\ request.pageSize = size
      /\ request.dimension = d
  BY DEF NoRequest, RequestFields
<1> HIDE DEF request
<1> QED
  BY <1>1, <1>2, <1>3, AskedKeeps

-----------------------------------------------------------------------------

\* The first query.
LEMMA LoadAKeeps ==
    ASSUME CmpInv, LoadA
    PROVE  CmpInv'
<1> DEFINE rows == ListForComparison(comparing.pair[1])
<1>1. /\ comparing.pc = "loadA" /\ comparing' = [comparing EXCEPT !.pc = "loadB", !.aRows = rows]
      /\ UNCHANGED <<vinfo, exclusions, walked>>
  BY DEF LoadA
<1>2. rows = RowsA
  BY DEF RowsA
<1> HIDE DEF rows
<1>3. CmpTypeOK
  BY DEF CmpInv
<1>4. /\ comparing' = [f \in RequestFields |-> comparing'[f]] /\ comparing'.pc = "loadB" /\ comparing'.aRows = rows
      /\ FieldsKept({"pc", "aRows"})
  BY <1>1, <1>3 DEF RequestFields, FieldsKept, CmpTypeOK
<1>5. /\ comparing'.op = comparing.op /\ comparing'.pair = comparing.pair /\ comparing'.dimension = comparing.dimension
      /\ comparing'.page = comparing.page /\ comparing'.pageSize = comparing.pageSize /\ comparing'.since = comparing.since
  BY <1>4 DEF FieldsKept, RequestFields
<1>6. CmpTypeOK'
  <2>1. /\ comparing.since \in 0..exclusions /\ comparing.page \in Nat \ {0} /\ comparing.pageSize \in Nat \ {0}
        /\ comparing.dimension \in Dimensions
    BY <1>3 DEF CmpTypeOK
  <2> QED
    BY <1>1, <1>3, <1>4, <1>5, <2>1, TypesKept
<1>7. RowsA' = RowsA /\ RowsB' = RowsB
  BY <1>1, <1>5, RowsKept
<1>8. PagesRead' = PagesRead
  BY <1>1, <1>4, <1>5 DEF PagesRead
<1>9. BeingServed /\ (Undisturbed' => Undisturbed)
  BY <1>1, <1>5 DEF BeingServed, Undisturbed
<1>10. Undisturbed' => ReadIsCurrent'
  <2> SUFFICES ASSUME Undisturbed' PROVE ReadIsCurrent'
    OBVIOUS
  <2>1. ReadIsCurrent
    BY <1>9 DEF CmpInv
  <2>2. comparing'.op = "diff" => WalkIsCurrent'
    BY <1>1, <1>5, <1>7, <1>8, <2>1 DEF ReadIsCurrent, WalkIsCurrent
  <2> QED
    BY <1>2, <1>4, <1>7, <2>2 DEF ReadIsCurrent
<1>11. {comparing'.pair[1], comparing'.pair[2]} \subseteq DOMAIN vinfo'
  BY <1>1, <1>5, <1>9 DEF CmpInv
<1> QED
  BY <1>4, <1>6, <1>10, <1>11 DEF CmpInv

\* The second query.
LEMMA LoadBKeeps ==
    ASSUME CmpInv, LoadB
    PROVE  CmpInv'
<1> DEFINE rows == ListForComparison(comparing.pair[2])
<1>1. /\ comparing.pc = "loadB" /\ comparing' = [comparing EXCEPT !.pc = "compute", !.bRows = rows]
      /\ UNCHANGED <<vinfo, exclusions, walked>>
  BY DEF LoadB
<1>2. rows = RowsB
  BY DEF RowsB
<1> HIDE DEF rows
<1>3. CmpTypeOK
  BY DEF CmpInv
<1>4. /\ comparing' = [f \in RequestFields |-> comparing'[f]] /\ comparing'.pc = "compute" /\ comparing'.bRows = rows
      /\ FieldsKept({"pc", "bRows"})
  BY <1>1, <1>3 DEF RequestFields, FieldsKept, CmpTypeOK
<1>5. /\ comparing'.op = comparing.op /\ comparing'.pair = comparing.pair /\ comparing'.dimension = comparing.dimension
      /\ comparing'.page = comparing.page /\ comparing'.pageSize = comparing.pageSize /\ comparing'.since = comparing.since
      /\ comparing'.aRows = comparing.aRows
  BY <1>4 DEF FieldsKept, RequestFields
<1>6. CmpTypeOK'
  <2>1. /\ comparing.since \in 0..exclusions /\ comparing.page \in Nat \ {0} /\ comparing.pageSize \in Nat \ {0}
        /\ comparing.dimension \in Dimensions
    BY <1>3 DEF CmpTypeOK
  <2> QED
    BY <1>1, <1>3, <1>4, <1>5, <2>1, TypesKept
<1>7. RowsA' = RowsA /\ RowsB' = RowsB
  BY <1>1, <1>5, RowsKept
<1>8. PagesRead' = PagesRead
  BY <1>1, <1>4, <1>5 DEF PagesRead
<1>9. BeingServed /\ (Undisturbed' => Undisturbed)
  BY <1>1, <1>5 DEF BeingServed, Undisturbed
<1>10. Undisturbed' => ReadIsCurrent'
  <2> SUFFICES ASSUME Undisturbed' PROVE ReadIsCurrent'
    OBVIOUS
  <2>1. ReadIsCurrent
    BY <1>9 DEF CmpInv
  <2>2. comparing'.op = "diff" => WalkIsCurrent'
    BY <1>1, <1>5, <1>7, <1>8, <2>1 DEF ReadIsCurrent, WalkIsCurrent
  <2>3. comparing'.aRows = RowsA'
    BY <1>1, <1>5, <1>7, <2>1 DEF ReadIsCurrent
  <2> QED
    BY <1>2, <1>4, <1>7, <2>2, <2>3 DEF ReadIsCurrent
<1>11. {comparing'.pair[1], comparing'.pair[2]} \subseteq DOMAIN vinfo'
  BY <1>1, <1>5, <1>9 DEF CmpInv
<1> QED
  BY <1>4, <1>6, <1>10, <1>11 DEF CmpInv

\* A summary is answered.
LEMMA SummaryKeeps ==
    ASSUME CmpInv, Summary
    PROVE  CmpInv'
<1> DEFINE a == Aggregate(comparing.pair[1], comparing.aRows)
           b == Aggregate(comparing.pair[2], comparing.bRows)
           diff == DiffEntries(comparing.aRows, comparing.bRows)
           more == b.clusters - a.clusters
           answer == [a |-> a, b |-> b, diff |-> diff, clusters |-> more]
<1>1. /\ comparing.pc = "compute" /\ comparing.op = "summary"
      /\ comparing' = [comparing EXCEPT !.pc = "answered", !.answer = answer]
      /\ UNCHANGED <<vinfo, exclusions, walked>>
  BY DEF Summary
<1> HIDE DEF a, b, diff, more
<1>2. answer.diff = diff
  OBVIOUS
<1> HIDE DEF answer
<1>3. CmpTypeOK
  BY DEF CmpInv
<1>4. /\ comparing' = [f \in RequestFields |-> comparing'[f]] /\ comparing'.pc = "answered" /\ comparing'.answer = answer
      /\ FieldsKept({"pc", "answer"})
  BY <1>1, <1>3 DEF RequestFields, FieldsKept, CmpTypeOK
<1>5. /\ comparing'.op = comparing.op /\ comparing'.pair = comparing.pair /\ comparing'.dimension = comparing.dimension
      /\ comparing'.page = comparing.page /\ comparing'.pageSize = comparing.pageSize /\ comparing'.since = comparing.since
  BY <1>4 DEF FieldsKept, RequestFields
<1>6. CmpTypeOK'
  <2>1. /\ comparing.since \in 0..exclusions /\ comparing.page \in Nat \ {0} /\ comparing.pageSize \in Nat \ {0}
        /\ comparing.dimension \in Dimensions
    BY <1>3 DEF CmpTypeOK
  <2> QED
    BY <1>1, <1>3, <1>4, <1>5, <2>1, TypesKept
<1>7. RowsA' = RowsA /\ RowsB' = RowsB
  BY <1>1, <1>5, RowsKept
<1>8. BeingServed /\ (Undisturbed' => Undisturbed)
  BY <1>1, <1>5 DEF BeingServed, Undisturbed
<1>9. Undisturbed' => ReadIsCurrent'
  <2> SUFFICES ASSUME Undisturbed' PROVE ReadIsCurrent'
    OBVIOUS
  <2>1. comparing.aRows = RowsA /\ comparing.bRows = RowsB
    BY <1>1, <1>8 DEF CmpInv, ReadIsCurrent
  <2>2. comparing'.answer.diff = DiffEntries(RowsA', RowsB')
    BY <1>2, <1>4, <1>7, <2>1 DEF diff
  <2> QED
    BY <1>1, <1>4, <1>5, <2>2 DEF ReadIsCurrent
<1>10. {comparing'.pair[1], comparing'.pair[2]} \subseteq DOMAIN vinfo'
  BY <1>1, <1>5, <1>8 DEF CmpInv
<1> QED
  BY <1>4, <1>6, <1>9, <1>10 DEF CmpInv

\* A page is answered, and the walk has one page more.
LEMMA DiffKeeps ==
    ASSUME CmpInv, Diff
    PROVE  CmpInv'
<1> DEFINE page == DiffPage(comparing.aRows, comparing.bRows, comparing.dimension, comparing.page, comparing.pageSize)
<1>1. /\ comparing.pc = "compute" /\ comparing.op = "diff"
      /\ comparing' = [comparing EXCEPT !.pc = "answered", !.answer = page]
      /\ walked' = [s \in Sides |-> walked[s] \o page[s].vmIds]
      /\ UNCHANGED <<vinfo, exclusions>>
  BY DEF Diff
<1> HIDE DEF page
<1>3. CmpTypeOK
  BY DEF CmpInv
<1>4. /\ comparing' = [f \in RequestFields |-> comparing'[f]] /\ comparing'.pc = "answered" /\ comparing'.answer = page
      /\ FieldsKept({"pc", "answer"})
  BY <1>1, <1>3 DEF RequestFields, FieldsKept, CmpTypeOK
<1>5. /\ comparing'.op = comparing.op /\ comparing'.pair = comparing.pair /\ comparing'.dimension = comparing.dimension
      /\ comparing'.page = comparing.page /\ comparing'.pageSize = comparing.pageSize /\ comparing'.since = comparing.since
  BY <1>4 DEF FieldsKept, RequestFields
<1>t. /\ comparing.since \in 0..exclusions /\ comparing.page \in Nat \ {0} /\ comparing.pageSize \in Nat \ {0}
      /\ comparing.dimension \in Dimensions
  BY <1>3 DEF CmpTypeOK
<1>6. CmpTypeOK'
  BY <1>1, <1>3, <1>4, <1>5, <1>t, TypesKept
<1>7. RowsA' = RowsA /\ RowsB' = RowsB
  BY <1>1, <1>5, RowsKept
<1>8. BeingServed /\ (Undisturbed' => Undisturbed)
  BY <1>1, <1>5 DEF BeingServed, Undisturbed
<1>9. PairKnown
  BY <1>8 DEF CmpInv, PairKnown
<1>10. Undisturbed' => ReadIsCurrent'
  <2> SUFFICES ASSUME Undisturbed' PROVE ReadIsCurrent'
    OBVIOUS
  <2>1. comparing.aRows = RowsA /\ comparing.bRows = RowsB /\ WalkIsCurrent
    BY <1>1, <1>8 DEF CmpInv, ReadIsCurrent
  <2>2. page = DiffPage(RowsA, RowsB, comparing.dimension, comparing.page, comparing.pageSize)
    BY <2>1 DEF page
  <2>3. ASSUME NEW s \in Sides
        PROVE  walked'[s] = FirstPages(computeDiffSets(RowsA, RowsB)[s][comparing.dimension], comparing.pageSize, comparing.page)
    <3> DEFINE l == computeDiffSets(RowsA, RowsB)[s][comparing.dimension]
    <3>1. page[s] = paginateIDs(l, comparing.page, comparing.pageSize)
      BY <2>2 DEF DiffPage
    <3>2. l \in Seq(Range(l))
      BY <1>3, <1>9, <1>t, NowAreSequences DEF NowSequences
    <3>3. walked[s] = FirstPages(l, comparing.pageSize, comparing.page - 1)
      BY <1>1, <2>1 DEF WalkIsCurrent, PagesRead
    <3>4. walked'[s] = walked[s] \o page[s].vmIds
      BY <1>1
    <3> HIDE DEF l
    <3>5. FirstPages(l, comparing.pageSize, comparing.page - 1) \o paginateIDs(l, comparing.page, comparing.pageSize).vmIds
            = FirstPages(l, comparing.pageSize, comparing.page)
      BY <1>t, <3>2, PageStep
    <3> QED
      BY <3>1, <3>3, <3>4, <3>5, Zenon DEF l
  <2>4. PagesRead' = comparing.page
    BY <1>4, <1>5 DEF PagesRead
  <2>5. WalkIsCurrent'
    BY <1>5, <1>7, <2>3, <2>4 DEF WalkIsCurrent
  <2> QED
    BY <1>1, <1>4, <1>5, <1>7, <2>2, <2>5 DEF ReadIsCurrent
<1>11. {comparing'.pair[1], comparing'.pair[2]} \subseteq DOMAIN vinfo'
  BY <1>1, <1>5, <1>9 DEF PairKnown
<1> QED
  BY <1>4, <1>6, <1>10, <1>11 DEF CmpInv

\* The client asks for the next page of the walk.
LEMMA NextPageKeeps ==
    ASSUME CmpInv, NextPage
    PROVE  CmpInv'
<1> DEFINE next == comparing.page + 1
<1>1. /\ comparing.pc = "answered" /\ comparing.op = "diff"
      /\ comparing' = [comparing EXCEPT !.pc = "loadA", !.page = next, !.aRows = <<>>, !.bRows = <<>>, !.answer = <<>>]
      /\ UNCHANGED <<vinfo, exclusions, walked>>
  <2>1. CmpTypeOK
    BY DEF CmpInv
  <2> QED
    BY <2>1 DEF NextPage, CmpTypeOK, RequestFields
<1>3. CmpTypeOK
  BY DEF CmpInv
<1>t. /\ comparing.since \in 0..exclusions /\ comparing.page \in Nat \ {0} /\ comparing.pageSize \in Nat \ {0}
      /\ comparing.dimension \in Dimensions
  BY <1>3 DEF CmpTypeOK
<1>n. next \in Nat \ {0} /\ next - 1 = comparing.page
  BY <1>t
<1> HIDE DEF next
<1>4. /\ comparing' = [f \in RequestFields |-> comparing'[f]] /\ comparing'.pc = "loadA" /\ comparing'.page = next
      /\ FieldsKept({"pc", "page", "aRows", "bRows", "answer"})
  BY <1>1, <1>3 DEF RequestFields, FieldsKept, CmpTypeOK
<1>5. /\ comparing'.op = comparing.op /\ comparing'.pair = comparing.pair /\ comparing'.dimension = comparing.dimension
      /\ comparing'.pageSize = comparing.pageSize /\ comparing'.since = comparing.since
  BY <1>4 DEF FieldsKept, RequestFields
<1>6. CmpTypeOK'
  BY <1>1, <1>3, <1>4, <1>5, <1>t, <1>n, TypesKept
<1>7. RowsA' = RowsA /\ RowsB' = RowsB
  BY <1>1, <1>5, RowsKept
<1>8. PagesRead' = PagesRead
  BY <1>1, <1>4, <1>n DEF PagesRead
<1>9. BeingServed /\ (Undisturbed' => Undisturbed)
  BY <1>1, <1>5 DEF BeingServed, Undisturbed
<1>10. Undisturbed' => ReadIsCurrent'
  <2> SUFFICES ASSUME Undisturbed' PROVE ReadIsCurrent'
    OBVIOUS
  <2>1. WalkIsCurrent
    BY <1>1, <1>9 DEF CmpInv, ReadIsCurrent
  <2>2. WalkIsCurrent'
    BY <1>1, <1>5, <1>7, <1>8, <2>1 DEF WalkIsCurrent
  <2> QED
    BY <1>1, <1>4, <1>5, <2>2 DEF ReadIsCurrent
<1>11. {comparing'.pair[1], comparing'.pair[2]} \subseteq DOMAIN vinfo'
  BY <1>1, <1>5, <1>9 DEF CmpInv
<1> QED
  BY <1>4, <1>6, <1>10, <1>11 DEF CmpInv

-----------------------------------------------------------------------------

\* While nothing changes, what a request has read is what the collections hold, and a
\* walk has read the pages before it (loadBothCollections, Diff): every step keeps it.
THEOREM CmpInvariance == CmpSpec => []CmpInv
<1>1. ASSUME CmpInv, [CmpNext]_cmpVars PROVE CmpInv'
  <2>1. CASE UNCHANGED cmpVars
    BY <1>1, <2>1, StutterKeeps
  <2>2. CASE \E c \in DOMAIN vinfo, v \in CmpVms : ChangeExclusion(c, v)
    BY <1>1, <2>2, ChangeExclusionKeeps
  <2>3. CASE \E pair \in CmpPairs : CompareCollections(pair)
    BY <1>1, <2>3, CompareCollectionsKeeps
  <2>4. CASE \E pair \in CmpPairs, d \in Dimensions, n \in CmpPageSizes : CompareCollectionsDiff(pair, d, n)
    BY <1>1, <2>4, CompareCollectionsDiffKeeps
  <2>5. CASE LoadA
    BY <1>1, <2>5, LoadAKeeps
  <2>6. CASE LoadB
    BY <1>1, <2>6, LoadBKeeps
  <2>7. CASE Summary
    BY <1>1, <2>7, SummaryKeeps
  <2>8. CASE Diff
    BY <1>1, <2>8, DiffKeeps
  <2>9. CASE NextPage
    BY <1>1, <2>9, NextPageKeeps
  <2> QED
    BY <1>1, <2>1, <2>2, <2>3, <2>4, <2>5, <2>6, <2>7, <2>8, <2>9 DEF CmpNext
<1> QED
  BY <1>1, CmpInitInv, PTL DEF CmpSpec

\* AnswersExact follows from the invariant.
LEMMA CmpInvExact == CmpInv => AnswersExact
<1> SUFFICES ASSUME CmpInv, comparing.pc = "answered", Undisturbed PROVE AnswersExact
  BY DEF AnswersExact
<1> DEFINE Only(s, d) == IF s = "onlyInA" THEN OnlyIn(comparing.pair[1], comparing.pair[2], d)
                         ELSE OnlyIn(comparing.pair[2], comparing.pair[1], d)
           now(s, d) == computeDiffSets(RowsA, RowsB)[s][d]
<1>1. CmpTypeOK /\ PairKnown /\ ReadIsCurrent
  BY DEF CmpInv, BeingServed, PairKnown
<1>2. NowExact
  BY <1>1, NowIsExact DEF PairKnown
<1>3. \A s \in Sides, d \in Dimensions : Lists(now(s, d), Only(s, d))
  BY <1>2 DEF NowExact, Sides
<1>4. ASSUME comparing.op = "diff", LastPage, NEW s \in Sides
      PROVE  Range(walked[s]) = Only(s, comparing.dimension) /\ IsInjective(walked[s])
  <2> DEFINE l == now(s, comparing.dimension)
             S == Only(s, comparing.dimension)
  <2>1. comparing.page \in Nat \ {0} /\ comparing.pageSize \in Nat \ {0} /\ comparing.dimension \in Dimensions
    BY <1>1 DEF CmpTypeOK
  <2>2. walked[s] = FirstPages(l, comparing.pageSize, comparing.page)
    BY <1>1, <1>4 DEF ReadIsCurrent, WalkIsCurrent, PagesRead
  <2>3. comparing.page >= paginateIDs(l, comparing.page, comparing.pageSize).pageCount
    BY <1>1, <1>4 DEF ReadIsCurrent, LastPage, DiffPage
  <2>4. Lists(l, S)
    BY <1>3, <2>1
  <2> HIDE DEF l, S
  <2>5. l \in Seq(S) /\ Range(l) = S /\ IsInjective(l)
    BY <2>4, ListsLength
  <2>6. FirstPages(l, comparing.pageSize, comparing.page) = l
    BY <2>1, <2>3, <2>5, PagesCover
  <2> QED
    BY <2>2, <2>5, <2>6 DEF S
<1>5. ASSUME comparing.op = "summary", NEW d \in Dimensions
      PROVE  /\ \A s \in Sides : comparing.answer.diff[d][s] = Cardinality(Only(s, d))
             /\ comparing.answer.diff[d].delta = comparing.answer.diff[d].onlyInB - comparing.answer.diff[d].onlyInA
  <2>1. EntryExact(comparing.answer.diff[d], comparing.pair[1], comparing.pair[2], d)
    BY <1>1, <1>2, <1>5 DEF ReadIsCurrent, NowExact
  <2> QED
    BY <2>1 DEF EntryExact, Sides
<1> QED
  BY <1>4, <1>5 DEF AnswersExact

\* Whatever the VMs, the clusters, the page sizes and the changes a user makes, an
\* undisturbed walk lists exactly the VMs of its dimension, and an undisturbed summary
\* counts them (computeDiffSets, paginateIDs, Summary, Diff).
THEOREM AnswersAreExact == CmpSpec => []AnswersExact
BY CmpInvariance, CmpInvExact, PTL
=============================================================================
