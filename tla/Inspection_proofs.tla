--------------------------- MODULE Inspection_proofs ---------------------------
(***************************************************************************)
(* Proofs, for any number of requests, virtual machines, services, pools,  *)
(* collections and faults, of the safety properties of Inspection: no      *)
(* snapshot is forgotten, every vCenter session but those a failed logout  *)
(* or a crash left behind has somebody to log it out, and the vddk row     *)
(* describes the vddk folder.                                              *)
(***************************************************************************)
EXTENDS Inspection, TLAPS

-----------------------------------------------------------------------------
(* Which steps touch which part of the state. *)

\* The requests of one step.
RequestStep(r) == InspectorService(r) \/ Handler(r)

\* Every step is a request's, a pool's, a pipeline's or the process's.
LEMMA StepCases ==
    ASSUME [Next]_vars
    PROVE  \/ UNCHANGED vars
           \/ \E r \in Requests : RequestStep(r)
           \/ \E p \in Pools : PoolFinalizer(p)
           \/ \E p \in Pools, v \in VMs : Pipeline(p, v)
           \/ StartCollecting \/ CollectionEnds \/ Crash
BY DEF Next, RequestStep

\* A pipeline's step touches its own record and the data outside the agent.
LEMMA PipelineFrame ==
    ASSUME NEW p \in Pools, NEW v \in VMs, Pipeline(p, v)
    PROVE  UNCHANGED <<managerVars, insp, run, owner, req, sessions, strays, vddkVars>>
<1>1. CASE UnitStatus(p, v) \/ UnitOk(p, v) \/ UnitErr(p, v)
  BY <1>1 DEF UnitStatus, UnitOk, UnitErr, requestVars, sessionVars
<1>2. CASE UnitDropped(p, v) \/ EntryDone(p, v)
  BY <1>2 DEF UnitDropped, EntryDone, requestVars, dataVars, sessionVars
<1>3. CASE ZombieReturns(p, v) \/ Finalize(p, v)
  BY <1>3 DEF ZombieReturns, Finalize, requestVars, sessionVars
<1>4. QED
  BY <1>1, <1>2, <1>3 DEF Pipeline

\* A request's step touches no snapshot and no result; only the service manager
\* replaces the inspector.
LEMMA RequestFrame ==
    ASSUME NEW r \in Requests, RequestStep(r)
    PROVE  /\ UNCHANGED <<latest, collecting, results, snaps, leaks>>
           /\ InspectorService(r) \/ UNCHANGED current
BY DEF RequestStep, InspectorService, Handler, CheckRequest, StartChecks,
       Pending, StartPool, StopLock, StopPipe, PipeStopped, StopReturn,
       CancelLock, CancelReturn, UploadAllowed, UploadStart, RemoveOld,
       RenameNew, SaveRow, managerVars, dataVars

\* Finished requests are typed, and so is a request that only moves on.
LEMMA RequestTypes ==
    ASSUME req \in [Requests -> RequestValues], NEW r \in Requests
    PROVE  /\ Done(r) => req' \in [Requests -> RequestValues]
           /\ \A to \in RequestStates :
                 Goto(r, to) => req' \in [Requests -> RequestValues]
           /\ \A i \in Inspectors :
                 Holds(r, i) => req' \in [Requests -> RequestValues]
<1>1. [NewRequest EXCEPT !.pc = "done"] \in RequestValues
  BY DEF NewRequest, RequestValues, RequestStates
<1>2. Done(r) => req' \in [Requests -> RequestValues]
  BY <1>1 DEF Done
<1>3. ASSUME NEW to \in RequestStates, Goto(r, to)
      PROVE  req' \in [Requests -> RequestValues]
  BY <1>3 DEF Goto, RequestValues
<1>4. ASSUME NEW i \in Inspectors, Holds(r, i)
      PROVE  req' \in [Requests -> RequestValues]
  <2>0. PICK op \in Ops : \E vms \in Bodies(op) :
           req' = [req EXCEPT ![r] = [NewRequest EXCEPT
                     !.pc = NextStep(op), !.op = op, !.vms = vms, !.at = i]]
    BY <1>4 DEF Holds
  <2>1. PICK vms \in Bodies(op) :
           req' = [req EXCEPT ![r] = [NewRequest EXCEPT
                     !.pc = NextStep(op), !.op = op, !.vms = vms, !.at = i]]
    BY <2>0
  <2>2. vms \in SUBSET VMs
    BY <2>1 DEF Bodies, Ops
  <2>3. NextStep(op) \in RequestStates
    BY DEF NextStep, RequestStates, Ops
  <2>4. [NewRequest EXCEPT !.pc = NextStep(op), !.op = op, !.vms = vms,
                           !.at = i] \in RequestValues
    BY <2>2, <2>3 DEF NewRequest, RequestValues
  <2>5. QED
    BY <2>1, <2>4
<1>5. QED
  BY <1>2, <1>3, <1>4

\* A request that moves on with a new pool and a new list of things to do.
LEMMA RequestFields ==
    ASSUME NEW x \in RequestValues, NEW to \in RequestStates,
           NEW S \in SUBSET VMs, NEW q \in {0} \cup Pools
    PROVE  /\ [x EXCEPT !.pc = to, !.todo = S] \in RequestValues
           /\ [x EXCEPT !.pc = to, !.pool = q] \in RequestValues
           /\ [x EXCEPT !.pc = to, !.pool = q, !.todo = S] \in RequestValues
BY DEF RequestValues

\* The table of requests stays typed.
LEMMA ReqTyped ==
    ASSUME TypeOK, BoundToCollections, [Next]_vars
    PROVE  req' \in [Requests -> RequestValues]
<1> DEFINE T == req' \in [Requests -> RequestValues]
<1>0. req \in [Requests -> RequestValues]
  BY DEF TypeOK
<1>1. ASSUME NEW r \in Requests, InspectorService(r) PROVE T
  <2>1. Done(r) \/ \E i \in Inspectors : Holds(r, i)
    BY <1>1 DEF InspectorService, BoundToCollections, Bound, CurrentBusy
  <2>2. QED
    BY <1>0, <2>1, RequestTypes
<1>2. ASSUME NEW r \in Requests,
             CheckRequest(r) \/ StopReturn(r) \/ CancelReturn(r)
             \/ UploadAllowed(r) \/ UploadStart(r) \/ RemoveOld(r)
             \/ RenameNew(r) \/ SaveRow(r) \/ StartPool(r)
      PROVE  T
  <2>1. Done(r) \/ \E to \in RequestStates : Goto(r, to)
    BY <1>2 DEF CheckRequest, StopReturn, CancelReturn, UploadAllowed,
                UploadStart, RemoveOld, RenameNew, SaveRow, StartPool,
                RequestStates
  <2>2. QED
    BY <1>0, <2>1, RequestTypes
<1>3. ASSUME NEW r \in Requests, StartChecks(r) PROVE T
  <2>1. CASE Done(r)
    BY <1>0, <2>1, RequestTypes
  <2>2. CASE req' = [req EXCEPT ![r].pc = "rows", ![r].todo = req[r].vms]
    <3>1. req[r] \in RequestValues /\ req[r].vms \in SUBSET VMs
          /\ "rows" \in RequestStates
      BY <1>0 DEF RequestValues, RequestStates
    <3>2. [req[r] EXCEPT !.pc = "rows", !.todo = req[r].vms] \in RequestValues
      BY <3>1, RequestFields
    <3>3. req' = [req EXCEPT ![r] =
                    [req[r] EXCEPT !.pc = "rows", !.todo = req[r].vms]]
      BY <1>0, <2>2
    <3>4. QED
      BY <1>0, <3>2, <3>3
  <2>3. QED
    BY <1>3, <2>1, <2>2 DEF StartChecks
<1>4. ASSUME NEW r \in Requests, Pending(r) PROVE T
  <2>1. CASE Done(r)
    BY <1>0, <2>1, RequestTypes
  <2>2. ASSUME NEW v \in req[r].todo, req' = [req EXCEPT ![r].todo = @ \ {v}]
        PROVE  T
    BY <1>0, <2>2 DEF RequestValues
  <2>3. QED
    BY <1>4, <2>1, <2>2 DEF Pending
<1>5. ASSUME NEW r \in Requests, StopLock(r) PROVE T
  <2>1. CASE Done(r)
    BY <1>0, <2>1, RequestTypes
  <2>2. CASE ~Done(r)
    <3>1. Bound(req[r].at)
      BY <1>5 DEF StopLock, BoundToCollections
    <3>2. insp[req[r].at].pool \in {0} \cup Pools
      BY <3>1 DEF TypeOK, Bound, InspectorValues
    <3>3. PICK S \in SUBSET VMs, q \in {0} \cup Pools :
             req' = [req EXCEPT ![r].pc = "pipes", ![r].pool = q, ![r].todo = S]
      BY <1>5, <2>2, <3>2 DEF StopLock
    <3>4. req[r] \in RequestValues /\ "pipes" \in RequestStates
      BY <1>0 DEF RequestStates
    <3>5. [req[r] EXCEPT !.pc = "pipes", !.pool = q, !.todo = S] \in RequestValues
      BY <3>4, RequestFields
    <3>6. req' = [req EXCEPT ![r] =
                    [req[r] EXCEPT !.pc = "pipes", !.pool = q, !.todo = S]]
      BY <1>0, <3>3
    <3>7. QED
      BY <1>0, <3>5, <3>6
  <2>3. QED
    BY <2>1, <2>2
<1>6. ASSUME NEW r \in Requests, CancelLock(r) PROVE T
  <2>1. CASE Done(r)
    BY <1>0, <2>1, RequestTypes
  <2>2. CASE ~Done(r)
    <3>1. Bound(req[r].at)
      BY <1>6 DEF CancelLock, BoundToCollections
    <3>2. insp[req[r].at].pool \in {0} \cup Pools
      BY <3>1 DEF TypeOK, Bound, InspectorValues
    <3>3. PICK q \in {0} \cup Pools :
             req' = [req EXCEPT ![r].pc = "wait", ![r].pool = q]
      BY <1>6, <2>2, <3>2 DEF CancelLock
    <3>4. req[r] \in RequestValues /\ "wait" \in RequestStates
      BY <1>0 DEF RequestStates
    <3>5. [req[r] EXCEPT !.pc = "wait", !.pool = q] \in RequestValues
      BY <3>4, RequestFields
    <3>6. req' = [req EXCEPT ![r] =
                    [req[r] EXCEPT !.pc = "wait", !.pool = q]]
      BY <1>0, <3>3
    <3>7. QED
      BY <1>0, <3>5, <3>6
  <2>3. QED
    BY <2>1, <2>2
<1>7. ASSUME NEW r \in Requests, PipeStopped(r) PROVE T
  <2>1. PICK v \in req[r].todo : req' = [req EXCEPT ![r].todo = @ \ {v}]
    BY <1>7 DEF PipeStopped
  <2>2. QED
    BY <1>0, <2>1 DEF RequestValues
<1>8. CASE Crash
  BY <1>8 DEF Crash, NewRequest, RequestValues, RequestStates
<1>9. CASE UNCHANGED req
  BY <1>0, <1>9
<1>10. ASSUME NEW r \in Requests, RequestStep(r) PROVE T
  <2>1. CASE StopPipe(r)
    BY <2>1, <1>9 DEF StopPipe, requestVars
  <2>2. QED
    BY <1>1, <1>2, <1>3, <1>4, <1>5, <1>6, <1>7, <1>10, <2>1
       DEF RequestStep, Handler
<1>11. ASSUME NEW p \in Pools, NEW v \in VMs, Pipeline(p, v) PROVE T
  BY <1>9, <1>11, PipelineFrame
<1>12. ASSUME NEW p \in Pools, PoolFinalizer(p) PROVE T
  BY <1>9, <1>12 DEF PoolFinalizer, requestVars
<1>13. CASE StartCollecting \/ CollectionEnds \/ UNCHANGED vars
  BY <1>9, <1>13 DEF StartCollecting, CollectionEnds, vars, requestVars
<1>14. QED
  BY <1>8, <1>10, <1>11, <1>12, <1>13, StepCases

\* The inspectors stay typed and, once bound to a collection, stay bound.
LEMMA InspTyped ==
    ASSUME TypeOK, BoundToCollections, [Next]_vars
    PROVE  /\ insp' \in [Inspectors -> InspectorValues]
           /\ \A i \in Inspectors : insp[i].coll # 0 => insp'[i].coll # 0
<1> DEFINE T == /\ insp' \in [Inspectors -> InspectorValues]
                /\ \A i \in Inspectors : insp[i].coll # 0 => insp'[i].coll # 0
<1>0. insp \in [Inspectors -> InspectorValues]
  BY DEF TypeOK
<1>1. CASE UNCHANGED insp
  BY <1>0, <1>1
<1>2. ASSUME NEW r \in Requests, InspectorService(r), insp' # insp PROVE T
  <2>1. PICK i \in Inspectors : latest # 0 /\ insp' = [insp EXCEPT ![i] =
                [NoInspector EXCEPT !.coll = latest, !.open = TRUE]]
    BY <1>2 DEF InspectorService
  <2>2. [NoInspector EXCEPT !.coll = latest, !.open = TRUE] \in InspectorValues
    BY DEF NoInspector, InspectorValues, TypeOK
  <2>3. [NoInspector EXCEPT !.coll = latest, !.open = TRUE].coll = latest
    BY DEF NoInspector
  <2>4. QED
    BY <1>0, <2>1, <2>2, <2>3
<1>3. CASE CollectionEnds
  <2>1. CASE insp' = [i \in Inspectors |-> [insp[i] EXCEPT !.open = FALSE]]
    BY <1>0, <2>1 DEF InspectorValues
  <2>2. QED
    BY <1>1, <1>3, <2>1 DEF CollectionEnds
<1>4. CASE Crash
  BY <1>0, <1>4 DEF Crash, InspectorValues, Free
<1>5. ASSUME NEW i \in Inspectors, NEW l \in Requests \cup {Free},
             NEW q \in {0} \cup Pools,
             \/ insp' = [insp EXCEPT ![i].pool = q]
             \/ insp' = [insp EXCEPT ![i].lock = l]
             \/ insp' = [insp EXCEPT ![i].pool = q, ![i].lock = l]
      PROVE  T
  <2>1. PICK y \in InspectorValues :
           y.coll = insp[i].coll /\ insp' = [insp EXCEPT ![i] = y]
    <3>1. CASE insp' = [insp EXCEPT ![i].pool = q]
      <4>1. insp' = [insp EXCEPT ![i] = [insp[i] EXCEPT !.pool = q]]
        BY <1>0, <3>1
      <4>2. /\ [insp[i] EXCEPT !.pool = q] \in InspectorValues
            /\ [insp[i] EXCEPT !.pool = q].coll = insp[i].coll
        BY <1>0 DEF InspectorValues
      <4>3. QED
        BY <4>1, <4>2
    <3>2. CASE insp' = [insp EXCEPT ![i].lock = l]
      <4>1. insp' = [insp EXCEPT ![i] = [insp[i] EXCEPT !.lock = l]]
        BY <1>0, <3>2
      <4>2. /\ [insp[i] EXCEPT !.lock = l] \in InspectorValues
            /\ [insp[i] EXCEPT !.lock = l].coll = insp[i].coll
        BY <1>0 DEF InspectorValues
      <4>3. QED
        BY <4>1, <4>2
    <3>3. CASE insp' = [insp EXCEPT ![i].pool = q, ![i].lock = l]
      <4>1. insp' = [insp EXCEPT ![i] = [insp[i] EXCEPT !.pool = q, !.lock = l]]
        BY <1>0, <3>3
      <4>2. /\ [insp[i] EXCEPT !.pool = q, !.lock = l] \in InspectorValues
            /\ [insp[i] EXCEPT !.pool = q, !.lock = l].coll = insp[i].coll
        BY <1>0 DEF InspectorValues
      <4>3. QED
        BY <4>1, <4>2
    <3>4. QED
      BY <1>5, <3>1, <3>2, <3>3
  <2>2. QED
    BY <1>0, <2>1
<1>6. ASSUME NEW r \in Requests, req[r].pc \notin {"idle", "done"}
      PROVE  req[r].at \in Inspectors
  BY <1>6 DEF BoundToCollections, Bound
<1>7. Free \in Requests \cup {Free} /\ 0 \in {0} \cup Pools
  OBVIOUS
<1>8. ASSUME NEW r \in Requests, StartChecks(r) PROVE T
  <2>1. req[r].at \in Inspectors
    BY <1>6, <1>8 DEF StartChecks
  <2>2. \/ UNCHANGED insp
        \/ insp' = [insp EXCEPT ![req[r].at].pool = 0]
        \/ insp' = [insp EXCEPT ![req[r].at].pool = 0, ![req[r].at].lock = r]
    BY <1>8 DEF StartChecks
  <2>3. QED
    BY <1>1, <1>5, <1>7, <2>1, <2>2
<1>9. ASSUME NEW r \in Requests, StartPool(r) PROVE T
  <2>1. req[r].at \in Inspectors
    BY <1>6, <1>9 DEF StartPool
  <2>2. PICK p \in Pools :
           insp' = [insp EXCEPT ![req[r].at].pool = p, ![req[r].at].lock = Free]
    BY <1>9 DEF StartPool
  <2>3. QED
    BY <1>5, <1>7, <2>1, <2>2
<1>10. ASSUME NEW r \in Requests,
              Pending(r) \/ StopReturn(r) \/ CancelReturn(r)
       PROVE  T
  <2>1. req[r].at \in Inspectors
    BY <1>6, <1>10 DEF Pending, StopReturn, CancelReturn
  <2>2. UNCHANGED insp \/ insp' = [insp EXCEPT ![req[r].at].lock = Free]
    BY <1>10 DEF Pending, StopReturn, CancelReturn
  <2>3. QED
    BY <1>1, <1>5, <1>7, <2>1, <2>2
<1>11. ASSUME NEW r \in Requests, StopLock(r) \/ CancelLock(r) PROVE T
  <2>1. req[r].at \in Inspectors
    BY <1>6, <1>11 DEF StopLock, CancelLock
  <2>2. \/ UNCHANGED insp
        \/ insp' = [insp EXCEPT ![req[r].at].pool = 0, ![req[r].at].lock = r]
        \/ insp' = [insp EXCEPT ![req[r].at].lock = r]
    BY <1>11 DEF StopLock, CancelLock
  <2>3. QED
    BY <1>1, <1>5, <1>7, <2>1, <2>2
<1>12. ASSUME NEW r \in Requests, RequestStep(r) PROVE T
  <2>1. CASE CheckRequest(r) \/ StopPipe(r) \/ PipeStopped(r)
             \/ UploadAllowed(r) \/ UploadStart(r) \/ RemoveOld(r)
             \/ RenameNew(r) \/ SaveRow(r)
    BY <2>1, <1>1 DEF CheckRequest, StopPipe, PipeStopped, UploadAllowed,
       UploadStart, RemoveOld, RenameNew, SaveRow
  <2>2. QED
    BY <1>1, <1>2, <1>8, <1>9, <1>10, <1>11, <1>12, <2>1
       DEF RequestStep, Handler
<1>13. ASSUME NEW p \in Pools, PoolFinalizer(p) PROVE T
  BY <1>1, <1>13 DEF PoolFinalizer
<1>14. CASE StartCollecting \/ UNCHANGED vars
  BY <1>1, <1>14 DEF StartCollecting, vars
<1>15. QED
  BY <1>1, <1>3, <1>4, <1>12, <1>13, <1>14, StepCases, PipelineFrame

-----------------------------------------------------------------------------
(* The pipelines *)

\* The records of pipelines that are started, stopped or given up are typed.
LEMMA PipeRecords ==
    /\ NoPipe \in PipeValues
    /\ NewPipe \in PipeValues
    /\ [NoPipe EXCEPT !.pc = "done"] \in PipeValues
    /\ \A z \in PipeValues : [z EXCEPT !.stop = TRUE] \in PipeValues
    /\ \A z \in PipeValues : [z EXCEPT !.zombie = 0] \in PipeValues
<1>0. 0 \in 0..4
  OBVIOUS
<1>1. NoPipe \in PipeValues
  BY <1>0 DEF NoPipe, PipeValues
<1>2. ASSUME NEW z \in PipeValues, NEW to \in {"next", "done"}
      PROVE  [z EXCEPT !.pc = to] \in PipeValues
  BY DEF PipeValues
<1>3. ASSUME NEW z \in PipeValues PROVE [z EXCEPT !.stop = TRUE] \in PipeValues
  BY DEF PipeValues
<1>4. ASSUME NEW z \in PipeValues PROVE [z EXCEPT !.zombie = 0] \in PipeValues
  BY <1>0 DEF PipeValues
<1>5. QED
  BY <1>1, <1>2, <1>3, <1>4 DEF NewPipe

\* A step of a pipeline replaces its record x by y and no other, and only a
\* pipeline that was started takes one.
Replaced(p, v, y) ==
    /\ pipe' = [pipe EXCEPT ![p] = [pipe[p] EXCEPT ![v] = y]]
    /\ y \in PipeValues
    /\ pipe[p][v] # NoPipe

LEMMA UnitRecords ==
    ASSUME TypeOK, NEW p \in Pools, NEW v \in VMs
    PROVE  /\ UnitStatus(p, v) => \E y : Replaced(p, v, y)
                 /\ y.snap = pipe[p][v].snap /\ y.pc \in {"work", "final"}
           /\ UnitOk(p, v) => \E y : Replaced(p, v, y)
                 /\ y.snap = (pipe[p][v].snap \/ pipe[p][v].unit = 2)
                 /\ y.pc = "next"
           /\ UnitErr(p, v) \/ UnitDropped(p, v) => \E y : Replaced(p, v, y)
                 /\ y.snap = pipe[p][v].snap /\ y.pc = "final"
           /\ ZombieReturns(p, v) => \E y : Replaced(p, v, y)
                 /\ y.snap = pipe[p][v].snap /\ y.pc = pipe[p][v].pc
           /\ Finalize(p, v) \/ EntryDone(p, v) => \E y : Replaced(p, v, y)
<1> DEFINE x == pipe[p][v]
<1>0. x \in PipeValues /\ pipe \in [Pools -> [VMs -> PipeValues]]
  BY DEF TypeOK
<1>1. NoPipe.pc = "none" /\ NoPipe.zombie = 0
  BY DEF NoPipe
<1>2. ASSUME UnitStatus(p, v)
      PROVE  \E y : Replaced(p, v, y) /\ y.snap = x.snap
                    /\ y.pc \in {"work", "final"}
  <2>1. x # NoPipe
    BY <1>1, <1>2 DEF UnitStatus
  <2>2. CASE pipe' = [pipe EXCEPT ![p][v].pc = "final"]
    <3> DEFINE y == [x EXCEPT !.pc = "final"]
    <3>1. y \in PipeValues /\ y.snap = x.snap /\ y.pc = "final"
      BY <1>0 DEF PipeValues
    <3>2. pipe' = [pipe EXCEPT ![p] = [pipe[p] EXCEPT ![v] = y]]
      BY <1>0, <2>2
    <3>3. QED
      BY <2>1, <3>1, <3>2 DEF Replaced
  <2>3. ASSUME NEW to \in {"work", "final"}, x.unit # 4,
               pipe' = [pipe EXCEPT ![p][v].pc = to, ![p][v].unit = @ + 1]
        PROVE  \E y : Replaced(p, v, y) /\ y.snap = x.snap
                      /\ y.pc \in {"work", "final"}
    <3> DEFINE y == [x EXCEPT !.pc = to, !.unit = @ + 1]
    <3>1. y \in PipeValues /\ y.snap = x.snap /\ y.pc = to
      BY <1>0, <2>3 DEF PipeValues
    <3>2. pipe' = [pipe EXCEPT ![p] = [pipe[p] EXCEPT ![v] = y]]
      BY <1>0, <2>3
    <3>3. QED
      BY <2>1, <3>1, <3>2 DEF Replaced
  <2>4. QED
    BY <1>2, <2>2, <2>3 DEF UnitStatus
<1>3. ASSUME UnitOk(p, v)
      PROVE  \E y : Replaced(p, v, y) /\ y.pc = "next"
                    /\ y.snap = (x.snap \/ x.unit = 2)
  <2> DEFINE y == [x EXCEPT !.pc = "next", !.snap = @ \/ x.unit = 2,
                            !.completed = x.unit = 4]
  <2>1. /\ y \in PipeValues
        /\ y.snap = (x.snap \/ x.unit = 2) /\ y.pc = "next"
    BY <1>0 DEF PipeValues
  <2>2. pipe' = [pipe EXCEPT ![p] = [pipe[p] EXCEPT ![v] = y]]
    BY <1>0, <1>3 DEF UnitOk
  <2>3. x # NoPipe
    BY <1>1, <1>3 DEF UnitOk
  <2>4. QED
    BY <2>1, <2>2, <2>3 DEF Replaced
<1>4. ASSUME UnitErr(p, v)
      PROVE  \E y : Replaced(p, v, y) /\ y.snap = x.snap /\ y.pc = "final"
  <2> DEFINE y == [x EXCEPT !.pc = "final", !.err = TRUE]
  <2>1. y \in PipeValues /\ y.snap = x.snap /\ y.pc = "final"
    BY <1>0 DEF PipeValues
  <2>2. pipe' = [pipe EXCEPT ![p] = [pipe[p] EXCEPT ![v] = y]]
    BY <1>0, <1>4 DEF UnitErr
  <2>3. x # NoPipe
    BY <1>1, <1>4 DEF UnitErr
  <2>4. QED
    BY <2>1, <2>2, <2>3 DEF Replaced
<1>5. ASSUME UnitDropped(p, v)
      PROVE  \E y : Replaced(p, v, y) /\ y.snap = x.snap /\ y.pc = "final"
  <2> DEFINE y == [x EXCEPT !.pc = "final", !.zombie = x.unit]
  <2>1. y \in PipeValues /\ y.snap = x.snap /\ y.pc = "final"
    BY <1>0 DEF PipeValues
  <2>2. pipe' = [pipe EXCEPT ![p] = [pipe[p] EXCEPT ![v] = y]]
    BY <1>0, <1>5 DEF UnitDropped
  <2>3. x # NoPipe
    BY <1>1, <1>5 DEF UnitDropped
  <2>4. QED
    BY <2>1, <2>2, <2>3 DEF Replaced
<1>6. ASSUME ZombieReturns(p, v)
      PROVE  \E y : Replaced(p, v, y) /\ y.snap = x.snap /\ y.pc = x.pc
  <2> DEFINE y == [x EXCEPT !.zombie = 0]
  <2>0. y.snap = x.snap /\ y.pc = x.pc
    BY <1>0 DEF PipeValues
  <2>1. y \in PipeValues
    BY <1>0, PipeRecords
  <2>2. pipe' = [pipe EXCEPT ![p] = [pipe[p] EXCEPT ![v] = y]]
    BY <1>0, <1>6 DEF ZombieReturns
  <2>3. x # NoPipe
    BY <1>1, <1>6 DEF ZombieReturns
  <2>4. QED
    BY <2>0, <2>1, <2>2, <2>3 DEF Replaced
<1>7. ASSUME Finalize(p, v) \/ EntryDone(p, v)
      PROVE  \E y : Replaced(p, v, y)
  <2>1. PICK to \in {"event", "done"} : pipe' = [pipe EXCEPT ![p][v].pc = to]
    BY <1>7 DEF Finalize, EntryDone
  <2> DEFINE y == [x EXCEPT !.pc = to]
  <2>2. y \in PipeValues
    BY <1>0 DEF PipeValues
  <2>3. pipe' = [pipe EXCEPT ![p] = [pipe[p] EXCEPT ![v] = y]]
    BY <1>0, <2>1
  <2>4. x # NoPipe
    BY <1>1, <1>7 DEF Finalize, EntryDone
  <2>5. QED
    BY <2>2, <2>3, <2>4 DEF Replaced
<1>8. QED
  BY <1>2, <1>3, <1>4, <1>5, <1>6, <1>7

\* A request starts the pipelines of a pool that was unused, closes the stop
\* channel of one that was started, or leaves all of them alone.
Stopped(p, v) ==
    /\ run[p] # "none"
    /\ pipe' = [pipe EXCEPT ![p] = [pipe[p] EXCEPT ![v] =
                    [pipe[p][v] EXCEPT !.stop = TRUE]]]

LEMMA RequestPipes ==
    ASSUME TypeOK, BoundToCollections, PoolsStarted,
           NEW r \in Requests, RequestStep(r)
    PROVE  \/ UNCHANGED pipe
           \/ StartPool(r)
           \/ \E p \in Pools, v \in VMs : Stopped(p, v)
<1>0. pipe \in [Pools -> [VMs -> PipeValues]]
  BY DEF TypeOK
<1>1. ASSUME StopPipe(r) PROVE \E p \in Pools, v \in VMs : Stopped(p, v)
  <2>1. PICK v \in req[r].todo :
           pipe' = [pipe EXCEPT ![req[r].pool][v].stop = TRUE]
    BY <1>1 DEF StopPipe
  <2>2. req[r].pool \in Pools /\ run[req[r].pool] # "none"
    BY <1>1 DEF StopPipe, PoolsStarted, TypeOK, RequestValues
  <2>3. v \in VMs
    BY <2>1 DEF TypeOK, RequestValues
  <2>4. Stopped(req[r].pool, v)
    BY <1>0, <2>1, <2>2, <2>3 DEF Stopped
  <2>5. QED
    BY <2>2, <2>3, <2>4
<1>2. ASSUME CancelLock(r), pipe' # pipe
      PROVE  \E p \in Pools, v \in VMs : Stopped(p, v)
  <2> DEFINE i == req[r].at
             p == insp[i].pool
  <2>1. PICK v \in req[r].vms : pipe' = [pipe EXCEPT ![p][v].stop = TRUE] /\ Busy(i)
    BY <1>2 DEF CancelLock
  <2>2. i \in Inspectors
    BY <1>2 DEF CancelLock, BoundToCollections, Bound
  <2>3. p \in Pools /\ run[p] # "none"
    BY <2>1, <2>2 DEF Busy, PoolsStarted, TypeOK, InspectorValues
  <2>4. v \in VMs
    BY <2>1 DEF TypeOK, RequestValues
  <2>5. Stopped(p, v)
    BY <1>0, <2>1, <2>3, <2>4 DEF Stopped
  <2>6. QED
    BY <2>3, <2>4, <2>5
<1>3. CASE InspectorService(r) \/ CheckRequest(r) \/ StartChecks(r) \/ Pending(r)
           \/ StopLock(r) \/ PipeStopped(r) \/ StopReturn(r) \/ CancelReturn(r)
           \/ UploadAllowed(r) \/ UploadStart(r) \/ RemoveOld(r)
           \/ RenameNew(r) \/ SaveRow(r)
  BY <1>3 DEF InspectorService, CheckRequest, StartChecks, Pending, StopLock,
     PipeStopped, StopReturn, CancelReturn, UploadAllowed, UploadStart,
     RemoveOld, RenameNew, SaveRow, poolVars
<1>4. QED
  BY <1>1, <1>2, <1>3 DEF RequestStep, Handler

\* The pipelines stay typed, and those of an unused pool stay unused.
LEMMA PipeTyped ==
    ASSUME TypeOK, BoundToCollections, PoolsStarted, [Next]_vars
    PROVE  /\ pipe' \in [Pools -> [VMs -> PipeValues]]
           /\ \A p \in Pools :
                 run'[p] = "none" => \A v \in VMs : pipe'[p][v] = NoPipe
<1> DEFINE T == /\ pipe' \in [Pools -> [VMs -> PipeValues]]
                /\ \A p \in Pools :
                      run'[p] = "none" => \A v \in VMs : pipe'[p][v] = NoPipe
<1>0. /\ pipe \in [Pools -> [VMs -> PipeValues]]
      /\ run \in [Pools -> {"none", "events", "closed"}]
      /\ \A p \in Pools : run[p] = "none" => \A v \in VMs : pipe[p][v] = NoPipe
  BY DEF TypeOK, BoundToCollections
<1>1. NoPipe \in PipeValues /\ NewPipe \in PipeValues
  BY PipeRecords
<1>2. CASE UNCHANGED <<pipe, run>>
  BY <1>0, <1>2
<1>3. ASSUME NEW p \in Pools, NEW v \in VMs, NEW y \in PipeValues,
             pipe' = [pipe EXCEPT ![p] = [pipe[p] EXCEPT ![v] = y]],
             run[p] # "none", UNCHANGED run
      PROVE  T
  BY <1>0, <1>3
<1>4. ASSUME NEW p \in Pools, NEW v \in VMs, Pipeline(p, v) PROVE T
  <2>1. PICK y : Replaced(p, v, y)
    BY <1>4, UnitRecords DEF Pipeline
  <2>2. run[p] # "none"
    BY <1>0, <2>1 DEF Replaced
  <2>3. UNCHANGED run
    BY <1>4, PipelineFrame
  <2>4. QED
    BY <1>3, <2>1, <2>2, <2>3 DEF Replaced
<1>5. ASSUME NEW r \in Requests, StartPool(r) PROVE T
  <2>1. PICK p \in Pools :
           /\ run' = [run EXCEPT ![p] = "events"]
           /\ pipe' = [pipe EXCEPT ![p] = [v \in VMs |->
                        IF v \in req[r].vms THEN NewPipe ELSE NoPipe]]
    BY <1>5 DEF StartPool
  <2>2. QED
    BY <1>0, <1>1, <2>1
<1>6. ASSUME NEW p \in Pools, NEW v \in VMs, Stopped(p, v), UNCHANGED run PROVE T
  <2>1. [pipe[p][v] EXCEPT !.stop = TRUE] \in PipeValues
    BY <1>0, PipeRecords
  <2>2. QED
    BY <1>3, <1>6, <2>1 DEF Stopped
<1>7. ASSUME NEW r \in Requests, RequestStep(r) PROVE T
  <2>1. StartPool(r) \/ UNCHANGED run
    BY <1>7 DEF RequestStep, Handler, InspectorService, CheckRequest, StartChecks,
       Pending, StopLock, StopPipe, PipeStopped, StopReturn, CancelLock,
       CancelReturn, UploadAllowed, UploadStart, RemoveOld, RenameNew, SaveRow,
       poolVars
  <2>2. QED
    BY <1>2, <1>5, <1>6, <1>7, <2>1, RequestPipes
<1>8. ASSUME NEW p \in Pools, PoolFinalizer(p) PROVE T
  BY <1>0, <1>8 DEF PoolFinalizer
<1>9. CASE Crash
  <2>1. [NoPipe EXCEPT !.pc = "done"] \in PipeValues
    BY PipeRecords
  <2>2. pipe' \in [Pools -> [VMs -> PipeValues]]
    BY <1>1, <1>9, <2>1 DEF Crash
  <2>3. ASSUME NEW p \in Pools, run'[p] = "none", NEW v \in VMs
        PROVE  pipe'[p][v] = NoPipe
    <3>1. run[p] = "none"
      BY <1>9, <2>3 DEF Crash
    <3>2. pipe[p][v].pc = "none"
      BY <1>0, <3>1 DEF NoPipe
    <3>3. QED
      BY <1>9, <3>2 DEF Crash
  <2>4. QED
    BY <2>2, <2>3
<1>10. CASE StartCollecting \/ CollectionEnds \/ UNCHANGED vars
  BY <1>2, <1>10 DEF StartCollecting, CollectionEnds, vars, poolVars
<1>11. QED
  BY <1>4, <1>7, <1>8, <1>9, <1>10, StepCases

-----------------------------------------------------------------------------
(* The rest of the types *)

\* A pipeline that takes a step belongs to a pool of a bound inspector.
LEMMA PipelineBound ==
    ASSUME TypeOK, BoundToCollections, NEW p \in Pools, NEW v \in VMs,
           Pipeline(p, v)
    PROVE  Bound(owner[p]) /\ insp[owner[p]].coll \in 1..MaxCollections
<1>1. PICK y : Replaced(p, v, y)
  BY UnitRecords DEF Pipeline
<1>2. run[p] # "none"
  BY <1>1 DEF Replaced, BoundToCollections
<1>3. Bound(owner[p])
  BY <1>2 DEF BoundToCollections
<1>4. insp[owner[p]].coll \in 0..MaxCollections /\ insp[owner[p]].coll # 0
  BY <1>3 DEF Bound, TypeOK, InspectorValues
<1>5. QED
  BY <1>3, <1>4, InspectionAssumption

\* The service manager, the pools and the bound on faults.
LEMMA ManagerTyped ==
    ASSUME TypeOK, BoundToCollections, [Next]_vars
    PROVE  /\ latest' \in 0..MaxCollections /\ collecting' \in BOOLEAN
           /\ current' \in {0} \cup Inspectors
           /\ run' \in [Pools -> {"none", "events", "closed"}]
           /\ owner' \in [Pools -> {0} \cup Inspectors]
           /\ faults' \in 0..MaxFaults
<1> DEFINE T == /\ latest' \in 0..MaxCollections /\ collecting' \in BOOLEAN
                /\ current' \in {0} \cup Inspectors
                /\ run' \in [Pools -> {"none", "events", "closed"}]
                /\ owner' \in [Pools -> {0} \cup Inspectors]
           F == faults' \in 0..MaxFaults
<1>0. /\ latest \in 0..MaxCollections /\ collecting \in BOOLEAN
      /\ current \in {0} \cup Inspectors
      /\ run \in [Pools -> {"none", "events", "closed"}]
      /\ owner \in [Pools -> {0} \cup Inspectors]
      /\ faults \in 0..MaxFaults
      /\ MaxCollections \in Nat /\ MaxFaults \in Nat
  BY InspectionAssumption DEF TypeOK
<1>1. Fault \/ UNCHANGED faults => F
  BY <1>0 DEF Fault
<1>2. ASSUME NEW r \in Requests, InspectorService(r) PROVE T /\ F
  BY <1>0, <1>1, <1>2 DEF InspectorService, poolVars
<1>3. ASSUME NEW r \in Requests, StartPool(r) PROVE T /\ F
  <2>1. req[r].at \in Inspectors
    BY <1>3 DEF StartPool, BoundToCollections, Bound
  <2>2. PICK p \in Pools : /\ run' = [run EXCEPT ![p] = "events"]
                           /\ owner' = [owner EXCEPT ![p] = req[r].at]
    BY <1>3 DEF StartPool
  <2>3. UNCHANGED <<managerVars, faults>>
    BY <1>3 DEF StartPool
  <2>4. QED
    BY <1>0, <1>1, <2>1, <2>2, <2>3 DEF managerVars
<1>4. ASSUME NEW r \in Requests, RequestStep(r), ~InspectorService(r), ~StartPool(r)
      PROVE  T /\ F
  <2>1. UNCHANGED <<managerVars, run, owner>>
    BY <1>4 DEF RequestStep, Handler, CheckRequest, StartChecks,
       Pending, StopLock, StopPipe, PipeStopped, StopReturn, CancelLock,
       CancelReturn, UploadAllowed, UploadStart, RemoveOld, RenameNew, SaveRow,
       poolVars
  <2>2. Fault \/ UNCHANGED faults
    BY <1>4 DEF RequestStep, Handler, CheckRequest, StartChecks,
       Pending, StopLock, StopPipe, PipeStopped, StopReturn, CancelLock,
       CancelReturn, UploadAllowed, UploadStart, RemoveOld, RenameNew, SaveRow,
       Update, UpdateFails
  <2>3. QED
    BY <1>0, <1>1, <2>1, <2>2 DEF managerVars
<1>5. ASSUME NEW p \in Pools, NEW v \in VMs, Pipeline(p, v) PROVE T /\ F
  <2>1. Fault \/ UNCHANGED faults
    BY <1>5 DEF Pipeline, UnitStatus, UnitOk, UnitErr, UnitDropped,
       ZombieReturns, Finalize, EntryDone, Update, UpdateFails
  <2>2. QED
    BY <1>0, <1>1, <1>5, <2>1, PipelineFrame DEF managerVars
<1>6. ASSUME NEW p \in Pools, PoolFinalizer(p) PROVE T /\ F
  BY <1>0, <1>1, <1>6 DEF PoolFinalizer, managerVars
<1>7. CASE StartCollecting \/ CollectionEnds
  <2>1. latest' \in 0..MaxCollections
    BY <1>0, <1>7 DEF StartCollecting, CollectionEnds, BoundToCollections
  <2>2. QED
    BY <1>0, <1>1, <1>7, <2>1 DEF StartCollecting, CollectionEnds, poolVars
<1>8. CASE Crash
  BY <1>0, <1>1, <1>8 DEF Crash
<1>9. CASE UNCHANGED vars
  BY <1>0, <1>1, <1>9 DEF vars, managerVars, poolVars
<1>10. QED
  BY <1>2, <1>3, <1>4, <1>5, <1>6, <1>7, <1>8, <1>9, StepCases

\* The rows and results of the collections, the snapshots and the sessions.
LEMMA DataTyped ==
    ASSUME TypeOK, BoundToCollections, [Next]_vars
    PROVE  /\ rows' \in [(1..MaxCollections) \X VMs -> {"none", "pending",
                  "running", "completed", "error", "canceled"}]
           /\ results' \subseteq (1..MaxCollections) \X VMs
           /\ snaps' \subseteq Pools \X VMs /\ leaks' \subseteq Pools \X VMs
           /\ sessions' \subseteq Requests \cup Pools
           /\ strays' \subseteq Requests \cup Pools
<1> DEFINE States == {"none", "pending", "running", "completed", "error",
                      "canceled"}
           R == rows' \in [(1..MaxCollections) \X VMs -> States]
           T == /\ results' \subseteq (1..MaxCollections) \X VMs
                /\ snaps' \subseteq Pools \X VMs /\ leaks' \subseteq Pools \X VMs
                /\ sessions' \subseteq Requests \cup Pools
                /\ strays' \subseteq Requests \cup Pools
<1>0. /\ rows \in [(1..MaxCollections) \X VMs -> States]
      /\ results \subseteq (1..MaxCollections) \X VMs
      /\ snaps \subseteq Pools \X VMs /\ leaks \subseteq Pools \X VMs
      /\ sessions \subseteq Requests \cup Pools
      /\ strays \subseteq Requests \cup Pools
  BY DEF TypeOK
<1>1. ASSUME NEW i, NEW v, NEW state \in States,
             Update(i, v, state) \/ UpdateFails(i)
      PROVE  R
  BY <1>0, <1>1 DEF Update, UpdateFails
<1>2. UNCHANGED rows => R
  BY <1>0
<1>3. ASSUME NEW r \in Requests, RequestStep(r) PROVE R /\ T
  <2>1. R
    <3>1. CASE Pending(r)
      BY <1>1, <3>1 DEF Pending
    <3>2. CASE ~Pending(r)
      BY <1>2, <1>3, <3>2 DEF RequestStep, Handler, InspectorService,
         CheckRequest, StartChecks, StartPool, StopLock, StopPipe, PipeStopped,
         StopReturn, CancelLock, CancelReturn, UploadAllowed, UploadStart,
         RemoveOld, RenameNew, SaveRow, dataVars
    <3>3. QED
      BY <3>1, <3>2
  <2>2. /\ sessions' \subseteq sessions \cup {r} \cup Pools
        /\ strays' \subseteq strays \cup {r}
    BY <1>3 DEF sessionVars, Logout, RequestStep, Handler, InspectorService, Pending,
         CheckRequest, StartChecks, StartPool, StopLock, StopPipe, PipeStopped,
         StopReturn, CancelLock, CancelReturn, UploadAllowed, UploadStart,
         RemoveOld, RenameNew, SaveRow, dataVars
  <2>3. QED
    BY <1>0, <1>3, <2>1, <2>2, RequestFrame
<1>4. ASSUME NEW p \in Pools, NEW v \in VMs, Pipeline(p, v) PROVE R /\ T
  <2>1. R
    <3>1. CASE UnitStatus(p, v)
      BY <1>1, <1>2, <3>1 DEF UnitStatus
    <3>2. CASE Finalize(p, v)
      <4>1. TerminalStatus(pipe[p][v]) \in States
        BY DEF TerminalStatus
      <4>2. QED
        BY <1>1, <3>2, <4>1 DEF Finalize
    <3>3. QED
      BY <1>2, <1>4, <3>1, <3>2 DEF Pipeline, UnitOk, UnitErr, UnitDropped,
         ZombieReturns, EntryDone, dataVars
  <2>2. <<insp[owner[p]].coll, v>> \in (1..MaxCollections) \X VMs
    BY <1>4, PipelineBound
  <2>3. results' \subseteq results \cup {<<insp[owner[p]].coll, v>>}
    BY <1>4 DEF Pipeline, UnitStatus, UnitOk, UnitErr, UnitDropped,
       ZombieReturns, Finalize, EntryDone, Effect, InsertResult, dataVars
  <2>4. snaps' \subseteq snaps \cup {<<p, v>>} /\ leaks' \subseteq leaks \cup {<<p, v>>}
    BY <1>4 DEF Pipeline, UnitStatus, UnitOk, UnitErr, UnitDropped,
       ZombieReturns, Finalize, EntryDone, Effect, CreateSnapshot,
       RemoveSnapshot, dataVars
  <2>5. UNCHANGED <<sessions, strays>>
    BY <1>4, PipelineFrame
  <2>6. QED
    BY <1>0, <2>1, <2>2, <2>3, <2>4, <2>5
<1>5. ASSUME NEW p \in Pools, PoolFinalizer(p) PROVE R /\ T
  BY <1>0, <1>5 DEF PoolFinalizer, Logout
<1>6. CASE Crash
  BY <1>0, <1>6 DEF Crash
<1>7. CASE StartCollecting \/ CollectionEnds \/ UNCHANGED vars
  BY <1>0, <1>7 DEF StartCollecting, CollectionEnds, vars, dataVars, sessionVars
<1>8. QED
  BY <1>3, <1>4, <1>5, <1>6, <1>7, StepCases

\* The steps of a request other than an upload leave the vddk alone.
LEMMA VddkFrame ==
    ASSUME [Next]_vars
    PROVE  \/ UNCHANGED vddkVars
           \/ \E r \in Requests : UploadStart(r) \/ RemoveOld(r)
                                 \/ RenameNew(r) \/ SaveRow(r)
           \/ Crash
<1>1. ASSUME NEW r \in Requests, RequestStep(r)
      PROVE  UNCHANGED vddkVars \/ UploadStart(r) \/ RemoveOld(r)
             \/ RenameNew(r) \/ SaveRow(r)
  BY <1>1 DEF RequestStep, Handler, InspectorService, CheckRequest, StartChecks,
     Pending, StartPool, StopLock, StopPipe, PipeStopped, StopReturn,
     CancelLock, CancelReturn, UploadAllowed
<1>2. ASSUME NEW p \in Pools, PoolFinalizer(p) PROVE UNCHANGED vddkVars
  BY <1>2 DEF PoolFinalizer
<1>3. CASE StartCollecting \/ CollectionEnds \/ UNCHANGED vars
  BY <1>3 DEF StartCollecting, CollectionEnds, vars
<1>4. QED
  BY <1>1, <1>2, <1>3, StepCases, PipelineFrame

\* The vddk folder, its row and the semaphore of the uploads.
LEMMA VddkTyped ==
    ASSUME TypeOK, [Next]_vars
    PROVE  /\ {folder', vddkRow'} \subseteq Requests \cup {None, Old}
           /\ upload' \in Requests \cup {Free} /\ torn' \in BOOLEAN
<1>0. /\ {folder, vddkRow} \subseteq Requests \cup {None, Old}
      /\ upload \in Requests \cup {Free} /\ torn \in BOOLEAN
  BY DEF TypeOK
<1>1. CASE UNCHANGED vddkVars
  BY <1>0, <1>1 DEF vddkVars
<1>2. ASSUME NEW r \in Requests,
             UploadStart(r) \/ RemoveOld(r) \/ RenameNew(r) \/ SaveRow(r)
      PROVE  /\ {folder', vddkRow'} \subseteq Requests \cup {None, Old}
             /\ upload' \in Requests \cup {Free} /\ torn' \in BOOLEAN
  BY <1>0, <1>2 DEF UploadStart, RemoveOld, RenameNew, SaveRow
<1>3. CASE Crash
  BY <1>0, <1>3 DEF Crash
<1>4. QED
  BY <1>1, <1>2, <1>3, VddkFrame

\* All types together.
LEMMA TypeStep ==
    ASSUME TypeOK, BoundToCollections, PoolsStarted, [Next]_vars
    PROVE  TypeOK'
BY ReqTyped, InspTyped, PipeTyped, ManagerTyped, DataTyped, VddkTyped
   DEF TypeOK

-----------------------------------------------------------------------------
(* One lemma per conjunct of the inductive invariant. *)

\* The three ways a handler ends, moves on or begins.
LEMMA RequestForms ==
    ASSUME TypeOK, NEW r \in Requests
    PROVE  /\ Done(r) => req'[r].pc = "done"
           /\ \A to : Goto(r, to) => /\ req'[r].pc = to /\ req'[r].at = req[r].at
                                    /\ req'[r].pool = req[r].pool
           /\ \A i : Holds(r, i) => /\ req'[r].at = i
                                    /\ req'[r].pc \in {"vddk", "busy", "lock"}
<1>0. req \in [Requests -> RequestValues]
  BY DEF TypeOK
<1>1. ASSUME Done(r) PROVE req'[r].pc = "done"
  BY <1>0, <1>1 DEF Done, NewRequest
<1>2. ASSUME NEW to, Goto(r, to)
      PROVE  /\ req'[r].pc = to /\ req'[r].at = req[r].at
             /\ req'[r].pool = req[r].pool
  BY <1>0, <1>2 DEF Goto, RequestValues
<1>3. ASSUME NEW i, Holds(r, i)
      PROVE  req'[r].at = i /\ req'[r].pc \in {"vddk", "busy", "lock"}
  <2>1. PICK op \in Ops : \E vms \in Bodies(op) :
           req' = [req EXCEPT ![r] = [NewRequest EXCEPT
                     !.pc = NextStep(op), !.op = op, !.vms = vms, !.at = i]]
    BY <1>3 DEF Holds
  <2>2. NextStep(op) \in {"vddk", "busy", "lock"}
    BY DEF NextStep, Ops
  <2>3. QED
    BY <1>0, <2>1, <2>2 DEF NewRequest
<1>4. QED
  BY <1>1, <1>2, <1>3

\* Stop and Cancel keep the inspector and take its pool.
LEMMA LockedRequest ==
    ASSUME TypeOK, NEW r \in Requests, ~Done(r)
    PROVE  /\ StopLock(r) => /\ req'[r].pc = "pipes" /\ req'[r].at = req[r].at
                             /\ req'[r].pool = insp[req[r].at].pool
                             /\ insp[req[r].at].pool # 0
           /\ CancelLock(r) => req'[r].pc = "wait" /\ req'[r].at = req[r].at
<1> DEFINE i == req[r].at
<1>0. req \in [Requests -> RequestValues]
  BY DEF TypeOK
<1>1. ASSUME NEW q, NEW S,
             req' = [req EXCEPT ![r].pc = "pipes", ![r].pool = q, ![r].todo = S]
      PROVE  req'[r].pc = "pipes" /\ req'[r].at = i /\ req'[r].pool = q
  BY <1>0, <1>1 DEF RequestValues
<1>2. ASSUME NEW q, req' = [req EXCEPT ![r].pc = "wait", ![r].pool = q]
      PROVE  req'[r].pc = "wait" /\ req'[r].at = i
  BY <1>0, <1>2 DEF RequestValues
<1>3. ASSUME StopLock(r)
      PROVE  /\ req'[r].pc = "pipes" /\ req'[r].at = i
             /\ req'[r].pool = insp[i].pool /\ insp[i].pool # 0
  <2> DEFINE S == {v \in VMs : pipe[insp[i].pool][v].pc # "none"}
             q == insp[i].pool
  <2>1. /\ req' = [req EXCEPT ![r].pc = "pipes", ![r].pool = q, ![r].todo = S]
        /\ q # 0
    BY <1>3 DEF StopLock
  <2> HIDE DEF S, q
  <2>2. req'[r].pc = "pipes" /\ req'[r].at = i /\ req'[r].pool = q
    BY <1>1, <2>1
  <2>3. QED
    BY <2>1, <2>2 DEF q
<1>4. ASSUME CancelLock(r) PROVE req'[r].pc = "wait" /\ req'[r].at = i
  <2>1. req' = [req EXCEPT ![r].pc = "wait", ![r].pool = insp[i].pool]
    BY <1>4 DEF CancelLock
  <2>2. QED
    BY <1>2, <2>1
<1>5. QED
  BY <1>3, <1>4

\* What a request's step does to its own record.
LEMMA RequestMoves ==
    ASSUME TypeOK, BoundToCollections, NEW r \in Requests, RequestStep(r)
    PROVE  /\ \/ req'[r].pc = "done"
              \/ /\ req[r].pc = "idle" /\ req'[r].pc \in {"vddk", "busy", "lock"}
                 /\ req'[r].at \in Inspectors
                 /\ insp'[req'[r].at].coll # 0
              \/ req[r].pc \notin {"idle", "done"} /\ req'[r].at = req[r].at
           /\ StopLock(r) \/ (req'[r].pc = "pipes" =>
                 req[r].pc = "pipes" /\ req'[r].pool = req[r].pool)
           /\ \/ UploadStart(r) \/ RemoveOld(r) \/ RenameNew(r) \/ SaveRow(r)
              \/ /\ req[r].pc \notin {"replace", "rename", "save"}
                 /\ req'[r].pc \notin {"replace", "rename", "save"}
           /\ Pending(r) \/ StartPool(r) \/ req[r].pc # "rows"
<1> DEFINE T == /\ \/ req'[r].pc = "done"
                   \/ /\ req[r].pc = "idle"
                      /\ req'[r].pc \in {"vddk", "busy", "lock"}
                      /\ req'[r].at \in Inspectors
                      /\ insp'[req'[r].at].coll # 0
                   \/ req[r].pc \notin {"idle", "done"} /\ req'[r].at = req[r].at
                /\ StopLock(r) \/ (req'[r].pc = "pipes" =>
                      req[r].pc = "pipes" /\ req'[r].pool = req[r].pool)
                /\ \/ UploadStart(r) \/ RemoveOld(r) \/ RenameNew(r) \/ SaveRow(r)
                   \/ /\ req[r].pc \notin {"replace", "rename", "save"}
                      /\ req'[r].pc \notin {"replace", "rename", "save"}
                /\ Pending(r) \/ StartPool(r) \/ req[r].pc # "rows"
<1>0. req \in [Requests -> RequestValues]
  BY DEF TypeOK
<1>1. CASE InspectorService(r)
  <2>1. Done(r) \/ \E i \in Inspectors : Holds(r, i) /\ insp'[i].coll # 0
    <3>1. CASE CurrentBusy /\ Holds(r, current) /\ UNCHANGED insp
      BY <3>1 DEF CurrentBusy, BoundToCollections, Bound
    <3>2. ASSUME NEW i \in Inspectors, Holds(r, i), latest # 0,
                 insp' = [insp EXCEPT ![i] = [NoInspector EXCEPT
                                               !.coll = latest, !.open = TRUE]]
          PROVE  insp'[i].coll # 0
      BY <3>2 DEF NoInspector, TypeOK
    <3>3. QED
      BY <1>1, <3>1, <3>2 DEF InspectorService
  <2>2. req[r].pc = "idle"
    BY <1>1 DEF InspectorService
  <2>3. CASE Done(r)
    <3>1. req'[r].pc = "done"
      BY <2>3, RequestForms
    <3>2. QED
      BY <2>2, <3>1
  <2>4. ASSUME NEW i \in Inspectors, Holds(r, i), insp'[i].coll # 0 PROVE T
    <3>1. req'[r].at = i /\ req'[r].pc \in {"vddk", "busy", "lock"}
      BY <2>4, RequestForms
    <3>2. QED
      BY <2>2, <2>4, <3>1
  <2>5. QED
    BY <2>1, <2>3, <2>4
<1>2. ASSUME Done(r), req[r].pc \notin {"rows", "replace", "rename", "save"}
      PROVE  T
  <2>1. req'[r].pc = "done"
    BY <1>2, RequestForms
  <2>2. QED
    BY <1>2, <2>1
<1>3. ASSUME NEW to \in {"lock", "extract"}, Goto(r, to),
             req[r].pc \in {"vddk", "busy"}
      PROVE  T
  <2>1. req'[r].pc = to /\ req'[r].at = req[r].at
    BY <1>3, RequestForms
  <2>2. QED
    BY <1>3, <2>1
<1>4. CASE CheckRequest(r) \/ UploadAllowed(r)
  BY <1>2, <1>3, <1>4 DEF CheckRequest, UploadAllowed
<1>5. CASE StopReturn(r) \/ CancelReturn(r)
  BY <1>2, <1>5 DEF StopReturn, CancelReturn
<1>6. CASE StartChecks(r)
  <2>1. req[r].pc = "lock"
    BY <1>6 DEF StartChecks
  <2>2. CASE Done(r)
    BY <1>2, <2>1, <2>2
  <2>3. CASE req' = [req EXCEPT ![r].pc = "rows", ![r].todo = req[r].vms]
    <3>1. req'[r].pc = "rows" /\ req'[r].at = req[r].at
      BY <1>0, <2>3 DEF RequestValues
    <3>2. QED
      BY <2>1, <3>1
  <2>4. QED
    BY <1>6, <2>2, <2>3 DEF StartChecks
<1>7. CASE Pending(r) \/ StartPool(r)
  <2>1. req[r].pc = "rows"
    BY <1>7 DEF Pending, StartPool
  <2>2. CASE Done(r)
    <3>1. req'[r].pc = "done"
      BY <2>2, RequestForms
    <3>2. QED
      BY <1>7, <2>1, <3>1
  <2>3. ASSUME NEW v, req' = [req EXCEPT ![r].todo = @ \ {v}] PROVE T
    <3>1. req'[r].pc = req[r].pc /\ req'[r].at = req[r].at
      BY <1>0, <2>3 DEF RequestValues
    <3>2. QED
      BY <1>7, <2>1, <3>1
  <2>4. QED
    BY <1>7, <2>2, <2>3 DEF Pending, StartPool
<1>8. CASE StopLock(r)
  <2>1. req[r].pc = "lock"
    BY <1>8 DEF StopLock
  <2>2. CASE Done(r)
    BY <1>2, <2>1, <2>2
  <2>3. CASE ~Done(r)
    <3>1. req'[r].pc = "pipes" /\ req'[r].at = req[r].at
      BY <1>8, <2>3, LockedRequest
    <3>2. QED
      BY <1>8, <2>1, <3>1
  <2>4. QED
    BY <2>2, <2>3
<1>9. CASE CancelLock(r)
  <2>1. req[r].pc = "lock"
    BY <1>9 DEF CancelLock
  <2>2. CASE Done(r)
    BY <1>2, <2>1, <2>2
  <2>3. CASE ~Done(r)
    <3>1. req'[r].pc = "wait" /\ req'[r].at = req[r].at
      BY <1>9, <2>3, LockedRequest
    <3>2. QED
      BY <1>9, <2>1, <3>1
  <2>4. QED
    BY <2>2, <2>3
<1>10. CASE StopPipe(r)
  BY <1>10 DEF StopPipe, requestVars
<1>11. CASE PipeStopped(r)
  <2>1. PICK v : req' = [req EXCEPT ![r].todo = @ \ {v}] /\ req[r].pc = "pipes"
    BY <1>11 DEF PipeStopped
  <2>2. /\ req'[r].pc = req[r].pc /\ req'[r].at = req[r].at
        /\ req'[r].pool = req[r].pool
    BY <1>0, <2>1 DEF RequestValues
  <2>3. QED
    BY <2>1, <2>2
<1>12. CASE UploadStart(r) \/ RemoveOld(r) \/ RenameNew(r) \/ SaveRow(r)
  <2>1. /\ req[r].pc \in {"extract", "replace", "rename", "save"}
        /\ Done(r) \/ \E to \in {"replace", "rename", "save"} : Goto(r, to)
    BY <1>12 DEF UploadStart, RemoveOld, RenameNew, SaveRow
  <2>2. \/ req'[r].pc = "done"
        \/ req'[r].pc # "pipes" /\ req'[r].at = req[r].at
    BY <2>1, RequestForms
  <2>3. QED
    BY <1>12, <2>1, <2>2
<1>13. QED
  BY <1>1, <1>4, <1>5, <1>6, <1>7, <1>8, <1>9, <1>10, <1>11, <1>12
     DEF RequestStep, Handler

\* It leaves the records of the other requests alone.
LEMMA OtherRequests ==
    ASSUME TypeOK, NEW r \in Requests, RequestStep(r)
    PROVE  \A x \in Requests \ {r} : req'[x] = req[x]
<1>0. req \in [Requests -> RequestValues]
  BY DEF TypeOK
<1>1. CASE InspectorService(r)
  BY <1>0, <1>1 DEF InspectorService, Done, Holds
<1>2. CASE Handler(r)
  BY <1>0, <1>2 DEF Handler, Done, Goto, CheckRequest, StartChecks, Pending,
     StartPool, StopLock, StopPipe, PipeStopped, StopReturn, CancelLock,
     CancelReturn, UploadAllowed, UploadStart, RemoveOld, RenameNew, SaveRow,
     requestVars
<1>3. QED
  BY <1>1, <1>2 DEF RequestStep

\* A pool that was started is never unused again, and its inspector stays.
LEMMA PoolsKeepOwner ==
    ASSUME TypeOK, [Next]_vars, NEW p \in Pools
    PROVE  \/ run'[p] = "none"
           \/ run[p] # "none" /\ run'[p] # "none" /\ owner'[p] = owner[p]
           \/ run[p] = "none" /\ \E r \in Requests :
                 req[r].pc = "rows" /\ owner'[p] = req[r].at
<1>0. /\ run \in [Pools -> {"none", "events", "closed"}]
      /\ owner \in [Pools -> {0} \cup Inspectors]
  BY DEF TypeOK
<1>1. CASE UNCHANGED <<run, owner>>
  BY <1>1
<1>2. ASSUME NEW r \in Requests, RequestStep(r), StartPool(r)
      PROVE  \/ run'[p] = "none"
             \/ run[p] # "none" /\ run'[p] # "none" /\ owner'[p] = owner[p]
             \/ run[p] = "none" /\ req[r].pc = "rows" /\ owner'[p] = req[r].at
  BY <1>0, <1>2 DEF StartPool
<1>3. ASSUME NEW r \in Requests, RequestStep(r), ~StartPool(r)
      PROVE  UNCHANGED <<run, owner>>
  BY <1>3 DEF RequestStep, Handler, InspectorService, CheckRequest, StartChecks,
     Pending, StopLock, StopPipe, PipeStopped, StopReturn, CancelLock,
     CancelReturn, UploadAllowed, UploadStart, RemoveOld, RenameNew, SaveRow,
     poolVars
<1>4. ASSUME NEW q \in Pools, PoolFinalizer(q)
      PROVE  \/ run'[p] = "none"
             \/ run[p] # "none" /\ run'[p] # "none" /\ owner'[p] = owner[p]
  BY <1>0, <1>4 DEF PoolFinalizer
<1>5. CASE Crash
  BY <1>0, <1>5 DEF Crash
<1>6. CASE StartCollecting \/ CollectionEnds \/ UNCHANGED vars
  BY <1>6, <1>1 DEF StartCollecting, CollectionEnds, vars, poolVars
<1>7. QED
  BY <1>1, <1>2, <1>3, <1>4, <1>5, <1>6, StepCases, PipelineFrame

\* Requests and pools stay with inspectors that are bound to a collection.
LEMMA BoundStep ==
    ASSUME TypeOK, BoundToCollections, PoolsStarted, [Next]_vars
    PROVE  BoundToCollections'
<1>0. ASSUME NEW i, Bound(i) PROVE Bound(i)'
  BY <1>0, InspTyped DEF Bound
<1>1. current' # 0 => Bound(current)'
  <2>1. CASE UNCHANGED current
    BY <1>0, <2>1 DEF BoundToCollections
  <2>2. ASSUME NEW r \in Requests, InspectorService(r), current' # current,
               current' # 0
        PROVE  Bound(current)'
    <3>1. /\ current' \in Inspectors /\ latest # 0
          /\ insp' = [insp EXCEPT ![current'] = [NoInspector EXCEPT
                                             !.coll = latest, !.open = TRUE]]
      BY <2>2 DEF InspectorService
    <3>2. insp'[current'].coll = latest
      BY <3>1 DEF NoInspector, TypeOK
    <3>3. QED
      BY <3>1, <3>2 DEF Bound
  <2>3. CASE Crash
    BY <2>3 DEF Crash
  <2>4. CASE StartCollecting \/ CollectionEnds \/ UNCHANGED vars
             \/ \E p \in Pools : PoolFinalizer(p)
    BY <2>1, <2>4 DEF StartCollecting, CollectionEnds, PoolFinalizer, vars,
       managerVars
  <2>5. QED
    BY <2>1, <2>2, <2>3, <2>4, StepCases, RequestFrame, PipelineFrame
       DEF managerVars
<1>2. ASSUME NEW x \in Requests, req'[x].pc \notin {"idle", "done"}
      PROVE  Bound(req[x].at)'
  <2>1. CASE UNCHANGED req
    BY <1>0, <1>2, <2>1 DEF BoundToCollections
  <2>2. ASSUME NEW r \in Requests, RequestStep(r) PROVE Bound(req[x].at)'
    <3>1. CASE x = r
      BY <1>0, <1>2, <2>2, <3>1, RequestMoves DEF BoundToCollections, Bound
    <3>2. CASE x # r
      <4>1. req'[x] = req[x]
        BY <2>2, <3>2, OtherRequests
      <4>2. QED
        BY <1>0, <1>2, <4>1 DEF BoundToCollections
    <3>3. QED
      BY <3>1, <3>2
  <2>3. CASE Crash
    <3>1. req'[x].pc \in {"idle", "done"}
      BY <2>3 DEF Crash, NewRequest
    <3>2. QED
      BY <1>2, <3>1
  <2>4. CASE StartCollecting \/ CollectionEnds \/ UNCHANGED vars
             \/ \E p \in Pools : PoolFinalizer(p)
    BY <2>1, <2>4 DEF StartCollecting, CollectionEnds, PoolFinalizer, vars,
       requestVars
  <2>5. QED
    BY <2>1, <2>2, <2>3, <2>4, StepCases, PipelineFrame
<1>3. ASSUME NEW p \in Pools, run'[p] # "none" PROVE Bound(owner[p])'
  <2>1. Bound(owner'[p])
    BY <1>3, PoolsKeepOwner DEF BoundToCollections
  <2>2. QED
    BY <1>0, <2>1
<1>4. collecting' => latest' < MaxCollections
  <2>1. CASE UNCHANGED <<latest, collecting>>
    BY <2>1 DEF BoundToCollections
  <2>2. CASE StartCollecting \/ CollectionEnds \/ Crash
    BY <2>2 DEF StartCollecting, CollectionEnds, Crash
  <2>3. CASE UNCHANGED vars \/ \E p \in Pools : PoolFinalizer(p)
    BY <2>1, <2>3 DEF PoolFinalizer, vars, managerVars
  <2>4. QED
    BY <2>1, <2>2, <2>3, StepCases, RequestFrame, PipelineFrame DEF managerVars
<1>5. QED
  BY <1>1, <1>2, <1>3, <1>4, PipeTyped DEF BoundToCollections

\* Only pools that were started are stopped.
LEMMA PoolsStartedStep ==
    ASSUME TypeOK, BoundToCollections, PoolsStarted, [Next]_vars
    PROVE  PoolsStarted'
<1>0. /\ insp \in [Inspectors -> InspectorValues]
      /\ run \in [Pools -> {"none", "events", "closed"}]
      /\ \A i \in Inspectors : insp[i].pool \in {0} \cup Pools
      /\ \A r \in Requests : req[r].pool \in {0} \cup Pools
  BY DEF TypeOK, InspectorValues, RequestValues
<1>1. \A p \in Pools : run[p] # "none" => run'[p] # "none"
  <2>1. ASSUME NEW p \in Pools, run[p] # "none" PROVE run'[p] # "none"
    <3>1. CASE UNCHANGED run
      BY <2>1, <3>1
    <3>2. ASSUME NEW r \in Requests, RequestStep(r) PROVE run'[p] # "none"
      BY <1>0, <2>1, <3>2 DEF RequestStep, Handler, InspectorService,
         CheckRequest, StartChecks, Pending, StartPool, StopLock, StopPipe,
         PipeStopped, StopReturn, CancelLock, CancelReturn, UploadAllowed,
         UploadStart, RemoveOld, RenameNew, SaveRow, poolVars
    <3>3. ASSUME NEW q \in Pools, PoolFinalizer(q) PROVE run'[p] # "none"
      BY <1>0, <2>1, <3>3 DEF PoolFinalizer
    <3>4. CASE Crash
      BY <2>1, <3>4 DEF Crash
    <3>5. CASE StartCollecting \/ CollectionEnds \/ UNCHANGED vars
      BY <3>1, <3>5 DEF StartCollecting, CollectionEnds, vars, poolVars
    <3>6. QED
      BY <3>1, <3>2, <3>3, <3>4, <3>5, StepCases, PipelineFrame
  <2>2. QED
    BY <2>1
<1>2. ASSUME NEW i \in Inspectors, insp'[i].pool # 0
      PROVE  run'[insp'[i].pool] # "none"
  <2>1. CASE insp'[i].pool = insp[i].pool
    BY <1>0, <1>1, <1>2, <2>1 DEF PoolsStarted
  <2>2. CASE insp'[i].pool # insp[i].pool
    <3>1. ASSUME NEW r \in Requests, RequestStep(r)
          PROVE  run'[insp'[i].pool] # "none"
      <4>1. CASE InspectorService(r)
        BY <1>0, <1>2, <2>2, <4>1 DEF InspectorService, NoInspector
      <4>2. CASE StartPool(r)
        <5>1. PICK p \in Pools :
                 /\ run' = [run EXCEPT ![p] = "events"]
                 /\ insp' = [insp EXCEPT ![req[r].at].pool = p,
                                         ![req[r].at].lock = Free]
          BY <4>2 DEF StartPool
        <5>2. req[r].at \in Inspectors
          BY <4>2 DEF StartPool, BoundToCollections, Bound
        <5>3. insp'[i].pool = p
          BY <1>0, <2>2, <5>1, <5>2 DEF InspectorValues
        <5>4. QED
          BY <1>0, <5>1, <5>3
      <4>3. CASE StartChecks(r)
        BY <1>0, <1>2, <2>2, <4>3 DEF StartChecks, InspectorValues
      <4>4. CASE Pending(r) \/ StopReturn(r) \/ CancelReturn(r)
        BY <1>0, <2>2, <4>4 DEF Pending, StopReturn, CancelReturn, InspectorValues
      <4>5. CASE StopLock(r) \/ CancelLock(r)
        <5>1. \/ UNCHANGED insp
              \/ insp' = [insp EXCEPT ![req[r].at].pool = 0, ![req[r].at].lock = r]
              \/ insp' = [insp EXCEPT ![req[r].at].lock = r]
          BY <4>5 DEF StopLock, CancelLock
        <5>2. insp'[i].pool \in {insp[i].pool, 0}
          BY <1>0, <5>1 DEF InspectorValues
        <5>3. QED
          BY <1>2, <2>2, <5>2
      <4>6. CASE CheckRequest(r) \/ StopPipe(r) \/ PipeStopped(r)
                 \/ UploadAllowed(r) \/ UploadStart(r) \/ RemoveOld(r)
                 \/ RenameNew(r) \/ SaveRow(r)
        BY <2>2, <4>6 DEF CheckRequest, StopPipe, PipeStopped, UploadAllowed,
           UploadStart, RemoveOld, RenameNew, SaveRow
      <4>7. QED
        BY <3>1, <4>1, <4>2, <4>3, <4>4, <4>5, <4>6 DEF RequestStep, Handler
    <3>2. CASE CollectionEnds
      BY <1>0, <2>2, <3>2 DEF CollectionEnds, InspectorValues
    <3>3. CASE Crash
      BY <1>0, <1>2, <3>3 DEF Crash, InspectorValues
    <3>4. CASE StartCollecting \/ UNCHANGED vars \/ \E p \in Pools : PoolFinalizer(p)
      BY <2>2, <3>4 DEF StartCollecting, PoolFinalizer, vars
    <3>5. QED
      BY <2>2, <3>1, <3>2, <3>3, <3>4, StepCases, PipelineFrame
  <2>3. QED
    BY <2>1, <2>2
<1>3. ASSUME NEW x \in Requests, req'[x].pc = "pipes"
      PROVE  req'[x].pool # 0 /\ run'[req'[x].pool] # "none"
  <2>1. CASE req'[x].pool = req[x].pool /\ req[x].pc = "pipes"
    BY <1>0, <1>1, <2>1 DEF PoolsStarted
  <2>2. ASSUME NEW r \in Requests, RequestStep(r)
        PROVE  req'[x].pool # 0 /\ run'[req'[x].pool] # "none"
    <3>1. CASE x # r
      BY <1>3, <2>1, <2>2, <3>1, OtherRequests
    <3>2. CASE x = r /\ ~StopLock(r)
      BY <1>3, <2>1, <2>2, <3>2, RequestMoves
    <3>3. CASE x = r /\ StopLock(r)
      <4>1. ~Done(r)
        BY <1>3, <3>3, RequestForms
      <4>2. req[r].at \in Inspectors
        BY <3>3 DEF StopLock, BoundToCollections, Bound
      <4>3. req'[r].pool = insp[req[r].at].pool /\ req'[r].pool # 0
        BY <3>3, <4>1, LockedRequest
      <4>4. insp[req[r].at].pool \in Pools /\ run[insp[req[r].at].pool] # "none"
        BY <1>0, <4>2, <4>3 DEF PoolsStarted
      <4>5. QED
        BY <1>1, <3>3, <4>3, <4>4
    <3>4. QED
      BY <3>1, <3>2, <3>3
  <2>3. CASE Crash
    <3>1. req'[x].pc \in {"idle", "done"}
      BY <2>3 DEF Crash, NewRequest
    <3>2. QED
      BY <1>3, <3>1
  <2>4. CASE StartCollecting \/ CollectionEnds \/ UNCHANGED vars
             \/ \E p \in Pools : PoolFinalizer(p)
    BY <1>3, <2>1, <2>4 DEF StartCollecting, CollectionEnds, PoolFinalizer, vars,
       requestVars
  <2>5. QED
    BY <1>3, <2>1, <2>2, <2>3, <2>4, StepCases, PipelineFrame
<1>4. QED
  BY <1>2, <1>3 DEF PoolsStarted

\* A snapshot stays known to a pipeline that will remove it, or is counted as
\* lost: in Finalize, after an error, when a unit is dropped and in a crash.
LEMMA SnapshotsStep ==
    ASSUME TypeOK, BoundToCollections, PoolsStarted, SnapshotsTracked,
           [Next]_vars
    PROVE  SnapshotsTracked'
<1> DEFINE Known(x) == x.snap /\ x.pc \in {"next", "work", "final"}
<1>0. pipe \in [Pools -> [VMs -> PipeValues]]
  BY DEF TypeOK
<1> SUFFICES ASSUME NEW q \in Pools, NEW w \in VMs, <<q, w>> \in snaps' \ leaks'
             PROVE  Known(pipe'[q][w])
  BY DEF SnapshotsTracked
<1>1. <<q, w>> \in snaps \ leaks => Known(pipe[q][w])
  BY DEF SnapshotsTracked
<1>2. CASE UNCHANGED <<pipe, snaps, leaks>>
  BY <1>1, <1>2
<1>3. ASSUME NEW p \in Pools, NEW v \in VMs, Pipeline(p, v)
      PROVE  Known(pipe'[q][w])
  <2>1. ASSUME NEW y, Replaced(p, v, y), <<q, w>> # <<p, v>>
        PROVE  pipe'[q][w] = pipe[q][w]
    BY <1>0, <2>1 DEF Replaced
  <2>2. ASSUME NEW y, Replaced(p, v, y) PROVE pipe'[p][v] = y
    BY <1>0, <2>2 DEF Replaced
  <2>3. CASE <<q, w>> # <<p, v>>
    <3>1. PICK y : Replaced(p, v, y)
      BY <1>3, UnitRecords DEF Pipeline
    <3>2. snaps' \subseteq snaps \cup {<<p, v>>} /\ leaks \subseteq leaks'
      BY <1>3 DEF Pipeline, UnitStatus, UnitOk, UnitErr, UnitDropped,
         ZombieReturns, Finalize, EntryDone, Effect, CreateSnapshot,
         RemoveSnapshot, dataVars
    <3>3. QED
      BY <1>1, <2>1, <2>3, <3>1, <3>2
  <2>4. CASE q = p /\ w = v
    <3>1. CASE UnitStatus(p, v)
      <4>1. PICK y : Replaced(p, v, y) /\ y.snap = pipe[p][v].snap
                     /\ y.pc \in {"work", "final"}
        BY <3>1, UnitRecords
      <4>2. UNCHANGED <<snaps, leaks>>
        BY <3>1 DEF UnitStatus
      <4>3. QED
        BY <1>1, <2>2, <2>4, <4>1, <4>2
    <3>2. CASE UnitOk(p, v)
      <4>1. PICK y : Replaced(p, v, y) /\ y.pc = "next"
                     /\ y.snap = (pipe[p][v].snap \/ pipe[p][v].unit = 2)
        BY <3>2, UnitRecords
      <4>2. (pipe[p][v].unit = 2 \/ UNCHANGED snaps) /\ UNCHANGED leaks
        BY <3>2 DEF UnitOk, Effect
      <4>3. QED
        BY <1>1, <2>2, <2>4, <4>1, <4>2
    <3>3. CASE UnitErr(p, v) \/ UnitDropped(p, v)
      <4>1. PICK y : Replaced(p, v, y) /\ y.pc = "final"
                     /\ y.snap = pipe[p][v].snap
        BY <3>3, UnitRecords
      <4>2. UNCHANGED <<snaps, leaks>> \/ <<p, v>> \in leaks'
        BY <3>3 DEF UnitErr, UnitDropped, dataVars
      <4>3. QED
        BY <1>1, <2>2, <2>4, <4>1, <4>2
    <3>4. CASE ZombieReturns(p, v)
      <4>1. PICK y : Replaced(p, v, y) /\ y.pc = pipe[p][v].pc
                     /\ y.snap = pipe[p][v].snap
        BY <3>4, UnitRecords
      <4>2. UNCHANGED <<snaps, leaks>> \/ <<p, v>> \in leaks'
        BY <3>4 DEF ZombieReturns, Effect
      <4>3. QED
        BY <1>1, <2>2, <2>4, <4>1, <4>2
    <3>5. CASE Finalize(p, v)
      <4>1. \/ <<p, v>> \notin snaps'
            \/ <<p, v>> \in leaks'
            \/ ~pipe[p][v].snap /\ UNCHANGED <<snaps, leaks>>
        BY <3>5 DEF Finalize, RemoveSnapshot
      <4>2. QED
        BY <1>1, <2>4, <4>1
    <3>6. CASE EntryDone(p, v)
      <4>1. pipe[p][v].pc = "event" /\ UNCHANGED <<snaps, leaks>>
        BY <3>6 DEF EntryDone, dataVars
      <4>2. QED
        BY <1>1, <2>4, <4>1
    <3>7. QED
      BY <1>3, <3>1, <3>2, <3>3, <3>4, <3>5, <3>6 DEF Pipeline
  <2>5. QED
    BY <2>3, <2>4
<1>4. ASSUME NEW r \in Requests, RequestStep(r) PROVE Known(pipe'[q][w])
  <2>1. UNCHANGED <<snaps, leaks>>
    BY <1>4, RequestFrame
  <2>2. CASE UNCHANGED pipe
    BY <1>1, <2>1, <2>2
  <2>3. CASE StartPool(r)
    <3>1. PICK p \in Pools :
             /\ run[p] = "none"
             /\ pipe' = [pipe EXCEPT ![p] = [v \in VMs |->
                          IF v \in req[r].vms THEN NewPipe ELSE NoPipe]]
      BY <2>3 DEF StartPool
    <3>2. pipe[p][w] = NoPipe
      BY <3>1 DEF BoundToCollections
    <3>3. q # p
      BY <1>1, <2>1, <3>2 DEF NoPipe
    <3>4. pipe'[q][w] = pipe[q][w]
      BY <1>0, <3>1, <3>3
    <3>5. QED
      BY <1>1, <2>1, <3>4
  <2>4. ASSUME NEW p \in Pools, NEW v \in VMs, Stopped(p, v)
        PROVE  Known(pipe'[q][w])
    <3>1. CASE q = p /\ w = v
      <4>1. pipe'[q][w] = [pipe[p][v] EXCEPT !.stop = TRUE]
        BY <1>0, <2>4, <3>1 DEF Stopped
      <4>2. pipe[p][v] \in PipeValues
        BY <1>0
      <4>3. /\ pipe'[q][w].pc = pipe[p][v].pc
            /\ pipe'[q][w].snap = pipe[p][v].snap
        BY <4>1, <4>2 DEF PipeValues
      <4>4. QED
        BY <1>1, <2>1, <3>1, <4>3
    <3>2. CASE <<q, w>> # <<p, v>>
      <4>1. pipe'[q][w] = pipe[q][w]
        BY <1>0, <2>4, <3>2 DEF Stopped
      <4>2. QED
        BY <1>1, <2>1, <4>1
    <3>3. QED
      BY <3>1, <3>2
  <2>5. QED
    BY <1>4, <2>2, <2>3, <2>4, RequestPipes
<1>5. CASE Crash
  BY <1>5 DEF Crash
<1>6. CASE StartCollecting \/ CollectionEnds \/ UNCHANGED vars
           \/ \E p \in Pools : PoolFinalizer(p)
  BY <1>2, <1>6 DEF StartCollecting, CollectionEnds, PoolFinalizer, vars,
     poolVars, dataVars
<1>7. QED
  BY <1>3, <1>4, <1>5, <1>6, StepCases

\* Start hands its session to the pool or logs out, and so does the pool's
\* finalizer; a logout that fails makes the session a stray one.
LEMMA SessionsStep ==
    ASSUME TypeOK, BoundToCollections, SessionsOwned, [Next]_vars
    PROVE  SessionsOwned'
<1>0. run \in [Pools -> {"none", "events", "closed"}]
  BY DEF TypeOK
<1> DEFINE live == sessions \ strays
           Owned(x) == \/ x \in Requests /\ req'[x].pc = "rows"
                       \/ x \in Pools /\ run'[x] = "events"
<1>a. ASSUME NEW x \in live
      PROVE  \/ x \in Requests /\ req[x].pc = "rows"
             \/ x \in Pools /\ run[x] = "events"
  BY <1>a DEF SessionsOwned
<1>b. ASSUME NEW x, Logout(x) PROVE live' \subseteq live \ {x}
  BY <1>b DEF Logout
<1>c. UNCHANGED sessionVars => UNCHANGED live
  BY DEF sessionVars
<1>d. UNCHANGED dataVars => UNCHANGED live
  BY DEF dataVars, sessionVars
<1>1. ASSUME NEW r \in Requests, RequestStep(r), NEW x \in live' PROVE Owned(x)
  <2>1. CASE StartPool(r)
    <3>1. PICK p \in Pools : /\ run' = [run EXCEPT ![p] = "events"]
                             /\ sessions' = (sessions \ {r}) \cup {p}
                             /\ UNCHANGED strays
      BY <2>1 DEF StartPool
    <3>2. CASE x = p
      BY <1>0, <3>1, <3>2
    <3>3. CASE x # p
      <4>1. x \in live /\ x # r
        BY <1>1, <3>1, <3>3
      <4>2. QED
        BY <1>0, <1>1, <1>a, <3>1, <3>3, <4>1, OtherRequests
    <3>4. QED
      BY <3>2, <3>3
  <2>2. CASE Pending(r)
    <3>1. UNCHANGED run /\ req[r].pc = "rows"
      BY <2>2 DEF Pending, poolVars
    <3>2. \/ Logout(r)
          \/ UNCHANGED sessionVars /\ \E v : req' = [req EXCEPT ![r].todo = @ \ {v}]
      BY <2>2 DEF Pending
    <3>3. CASE Logout(r)
      <4>1. x \in live /\ x # r
        BY <1>1, <1>b, <3>3
      <4>2. QED
        BY <1>1, <1>a, <3>1, <4>1, OtherRequests
    <3>4. ASSUME NEW v, req' = [req EXCEPT ![r].todo = @ \ {v}],
                 UNCHANGED sessionVars
          PROVE  Owned(x)
      <4>1. req'[r].pc = "rows"
        BY <3>1, <3>4 DEF TypeOK, RequestValues
      <4>2. x \in live
        BY <1>1, <1>c, <3>4
      <4>3. QED
        BY <1>1, <1>a, <3>1, <3>4, <4>1, <4>2, OtherRequests
    <3>5. QED
      BY <3>2, <3>3, <3>4
  <2>3. CASE StartChecks(r)
    <3>1. UNCHANGED run /\ req[r].pc # "rows"
      BY <2>3 DEF StartChecks, poolVars
    <3>2. \/ live' \subseteq live
          \/ /\ sessions' = sessions \cup {r} /\ UNCHANGED strays
             /\ req' = [req EXCEPT ![r].pc = "rows", ![r].todo = req[r].vms]
      BY <2>3 DEF StartChecks, sessionVars
    <3>3. CASE live' \subseteq live
      <4>1. x \in live
        BY <1>1, <3>3
      <4>2. QED
        BY <1>1, <1>a, <3>1, <4>1, OtherRequests
    <3>4. CASE /\ sessions' = sessions \cup {r} /\ UNCHANGED strays
               /\ req' = [req EXCEPT ![r].pc = "rows", ![r].todo = req[r].vms]
      <4>1. req'[r].pc = "rows"
        BY <3>4 DEF TypeOK, RequestValues
      <4>2. x \in live \/ x = r
        BY <1>1, <3>4
      <4>3. QED
        BY <1>1, <1>a, <3>1, <4>1, <4>2, OtherRequests
    <3>5. QED
      BY <3>2, <3>3, <3>4
  <2>4. CASE ~StartPool(r) /\ ~Pending(r) /\ ~StartChecks(r)
    <3>1. UNCHANGED <<run, dataVars>>
      BY <1>1, <2>4 DEF RequestStep, Handler, InspectorService, CheckRequest,
         StopLock, StopPipe, PipeStopped, StopReturn, CancelLock, CancelReturn,
         UploadAllowed, UploadStart, RemoveOld, RenameNew, SaveRow, poolVars
    <3>2. req[r].pc # "rows"
      BY <1>1, <2>4, RequestMoves
    <3>3. x \in live
      BY <1>1, <1>d, <3>1
    <3>4. QED
      BY <1>1, <1>a, <3>1, <3>2, <3>3, OtherRequests
  <2>5. QED
    BY <2>1, <2>2, <2>3, <2>4
<1>2. ASSUME NEW p \in Pools, PoolFinalizer(p), NEW x \in live' PROVE Owned(x)
  <2>1. x \in live /\ x # p
    BY <1>2, <1>b DEF PoolFinalizer
  <2>2. QED
    BY <1>0, <1>2, <1>a, <2>1 DEF PoolFinalizer, requestVars
<1>3. CASE Crash
  BY <1>3 DEF Crash, SessionsOwned
<1>4. CASE UNCHANGED <<run, req, sessions, strays>>
  BY <1>4 DEF SessionsOwned
<1>5. CASE StartCollecting \/ CollectionEnds \/ UNCHANGED vars
  BY <1>4, <1>5 DEF StartCollecting, CollectionEnds, vars, poolVars, dataVars,
     requestVars, sessionVars
<1>6. QED
  BY <1>1, <1>2, <1>3, <1>4, <1>5, StepCases, PipelineFrame DEF SessionsOwned

\* The upload holds the semaphore from the moment it replaces the folder until
\* it has saved the row or given up, and a torn upload is remembered.
LEMMA VddkStep ==
    ASSUME TypeOK, BoundToCollections, UploadExclusive, VddkRowDescribesFolder,
           [Next]_vars
    PROVE  UploadExclusive' /\ VddkRowDescribesFolder'
<1> DEFINE U == {"replace", "rename", "save"}
<1>0. /\ req \in [Requests -> RequestValues]
      /\ upload \in Requests \cup {Free} /\ Free \notin Requests
      /\ torn \in BOOLEAN
  BY InspectionAssumption DEF TypeOK, Free
<1>1. ASSUME UNCHANGED <<folder, vddkRow, upload, torn>>,
             \A x \in Requests : \/ req'[x].pc = req[x].pc
                                 \/ req[x].pc \notin U /\ req'[x].pc \notin U
      PROVE  UploadExclusive' /\ VddkRowDescribesFolder'
  BY <1>0, <1>1 DEF vddkVars, UploadExclusive, VddkRowDescribesFolder
<1>2. ASSUME NEW r \in Requests, RequestStep(r), UNCHANGED vddkVars,
             ~UploadStart(r), ~RemoveOld(r), ~RenameNew(r), ~SaveRow(r)
      PROVE  UploadExclusive' /\ VddkRowDescribesFolder'
  <2>1. req[r].pc \notin U /\ req'[r].pc \notin U
    BY <1>2, RequestMoves
  <2>2. \A x \in Requests : \/ req'[x].pc = req[x].pc
                            \/ req[x].pc \notin U /\ req'[x].pc \notin U
    BY <1>2, <2>1, OtherRequests
  <2>3. QED
    BY <1>1, <1>2, <2>2 DEF vddkVars
<1>3. ASSUME NEW r \in Requests,
             UploadStart(r) \/ RemoveOld(r) \/ RenameNew(r) \/ SaveRow(r)
      PROVE  UploadExclusive' /\ VddkRowDescribesFolder'
  <2>0. \A x \in Requests \ {r} : req'[x] = req[x]
    BY <1>3, OtherRequests DEF RequestStep, Handler
  <2>1. ASSUME Done(r) PROVE req'[r].pc = "done"
    BY <2>1, RequestForms
  <2>2. ASSUME NEW to, Goto(r, to) PROVE req'[r].pc = to
    BY <2>2, RequestForms
  <2>3. CASE UploadStart(r)
    <3>1. CASE Done(r)
      <4>1. req'[r].pc = "done" /\ req[r].pc = "extract" /\ UNCHANGED vddkVars
        BY <2>1, <2>3, <3>1, <2>2 DEF UploadStart, vddkVars, Done, Goto
      <4>2. QED
        <5>1. \A x \in Requests : \/ req'[x].pc = req[x].pc
                                  \/ req[x].pc \notin U /\ req'[x].pc \notin U
          BY <2>0, <4>1
        <5>2. QED
          BY <1>1, <4>1, <5>1 DEF vddkVars
    <3>2. CASE /\ upload = Free /\ upload' = r /\ Goto(r, "replace")
               /\ req[r].pc = "extract" /\ UNCHANGED <<folder, vddkRow, torn>>
      BY <1>0, <2>0, <2>2, <3>2
         DEF UploadExclusive, VddkRowDescribesFolder
    <3>3. QED
      BY <2>3, <3>1, <3>2 DEF UploadStart
  <2>4. CASE RemoveOld(r)
    <3>1. upload = r
      BY <1>0, <2>4 DEF RemoveOld, UploadExclusive
    <3>2. req'[r].pc = "rename" /\ UNCHANGED <<upload, torn>>
      BY <2>2, <2>4 DEF RemoveOld
    <3>3. QED
      BY <1>0, <2>0, <3>1, <3>2
         DEF UploadExclusive, VddkRowDescribesFolder
  <2>5. CASE RenameNew(r)
    <3>1. upload = r
      BY <1>0, <2>5 DEF RenameNew, UploadExclusive
    <3>2. CASE folder' = r /\ Goto(r, "save") /\ UNCHANGED <<upload, torn>>
      BY <1>0, <2>0, <2>2, <3>1, <3>2
         DEF UploadExclusive, VddkRowDescribesFolder
    <3>3. CASE Done(r) /\ upload' = Free /\ torn' = TRUE
      BY <1>0, <2>0, <2>1, <3>1, <3>3
         DEF UploadExclusive, VddkRowDescribesFolder
    <3>4. QED
      BY <2>5, <3>2, <3>3 DEF RenameNew
  <2>6. CASE SaveRow(r)
    <3>1. upload = r /\ folder = r
      BY <1>0, <2>6 DEF SaveRow, UploadExclusive
    <3>2. /\ Done(r) /\ upload' = Free /\ UNCHANGED folder
          /\ vddkRow' = r \/ torn' = TRUE
      BY <2>6 DEF SaveRow
    <3>3. QED
      BY <1>0, <2>0, <2>1, <3>1, <3>2
         DEF UploadExclusive, VddkRowDescribesFolder
  <2>7. QED
    BY <1>3, <2>3, <2>4, <2>5, <2>6
<1>4. CASE Crash
  <2>1. \A x \in Requests : req'[x].pc \notin U
    BY <1>4 DEF Crash, NewRequest
  <2>2. /\ upload' = Free /\ UNCHANGED <<folder, vddkRow>>
        /\ ~torn' => ~torn /\ \A x \in Requests : req[x].pc \notin {"rename", "save"}
    BY <1>0, <1>4 DEF Crash
  <2>3. ~torn' => folder = vddkRow
    BY <1>0, <2>2
       DEF UploadExclusive, VddkRowDescribesFolder
  <2>4. QED
    BY <1>0, <2>1, <2>2, <2>3
       DEF UploadExclusive, VddkRowDescribesFolder
<1>5. CASE UNCHANGED <<req, vddkVars>>
  <2>1. \A x \in Requests : req'[x].pc = req[x].pc
    BY <1>5
  <2>2. UNCHANGED vddkVars
    BY <1>5
  <2>3. QED
    BY <1>1, <2>1, <2>2 DEF vddkVars
<1>6. CASE StartCollecting \/ CollectionEnds \/ UNCHANGED vars
           \/ \E p \in Pools : PoolFinalizer(p)
  BY <1>5, <1>6 DEF StartCollecting, CollectionEnds, PoolFinalizer, vars,
     requestVars
<1>7. ASSUME NEW r \in Requests, RequestStep(r)
      PROVE  UploadExclusive' /\ VddkRowDescribesFolder'
  <2>1. CASE UploadStart(r) \/ RemoveOld(r) \/ RenameNew(r) \/ SaveRow(r)
    BY <1>3, <2>1
  <2>2. CASE ~(UploadStart(r) \/ RemoveOld(r) \/ RenameNew(r) \/ SaveRow(r))
    <3>1. UNCHANGED vddkVars
      BY <1>7, <2>2 DEF RequestStep, Handler, InspectorService, CheckRequest,
         StartChecks, Pending, StartPool, StopLock, StopPipe, PipeStopped,
         StopReturn, CancelLock, CancelReturn, UploadAllowed
    <3>2. QED
      BY <1>2, <1>7, <2>2, <3>1
  <2>3. QED
    BY <2>1, <2>2
<1>8. QED
  BY <1>4, <1>5, <1>6, <1>7, StepCases, PipelineFrame

-----------------------------------------------------------------------------
(* The theorems *)

LEMMA InitInd == Init => IndInv
<1> SUFFICES ASSUME Init PROVE IndInv
  OBVIOUS
<1>1. TypeOK
  <2>1. NoInspector \in InspectorValues
    BY InspectionAssumption DEF NoInspector, InspectorValues
  <2>2. NewRequest \in RequestValues
    BY DEF NewRequest, RequestValues, RequestStates
  <2>3. /\ insp \in [Inspectors -> InspectorValues]
        /\ pipe \in [Pools -> [VMs -> PipeValues]]
        /\ req \in [Requests -> RequestValues]
    BY <2>1, <2>2, PipeRecords DEF Init
  <2>4. latest \in 0..MaxCollections /\ faults \in 0..MaxFaults
    BY InspectionAssumption DEF Init
  <2>5. QED
    BY <2>3, <2>4 DEF Init, TypeOK
<1>2. BoundToCollections /\ PoolsStarted
  BY DEF Init, BoundToCollections, PoolsStarted, NoInspector, NewRequest
<1>3. SnapshotsTracked /\ SessionsOwned
  BY DEF Init, SnapshotsTracked, SessionsOwned
<1>4. UploadExclusive /\ VddkRowDescribesFolder
  BY InspectionAssumption
     DEF Init, UploadExclusive, VddkRowDescribesFolder, NewRequest, Free
<1>5. QED
  BY <1>1, <1>2, <1>3, <1>4 DEF IndInv

\* IndInv is an invariant of deep inspection: whatever requests, failures and
\* crashes do, every request and pool has a bound inspector, every snapshot not
\* lost sight of is known to a pipeline that will remove it, every session has
\* an owner, and uploads exclude each other.
THEOREM Invariance == Spec => []IndInv
<1>1. IndInv /\ [Next]_vars => IndInv'
  BY TypeStep, BoundStep, PoolsStartedStep, SnapshotsStep, SessionsStep,
     VddkStep DEF IndInv
<1>2. QED
  BY InitInd, <1>1, PTL DEF Spec

\* Whichever unit of a VM fails, is dropped or is stopped, a snapshot is left
\* behind only when its name never reached Finalize or its removal failed.
THEOREM SnapshotsAreRemoved == Spec => []SnapshotsAccounted
<1>1. IndInv => SnapshotsAccounted
  BY DEF IndInv, SnapshotsTracked, SnapshotsAccounted, Ended
<1>2. QED
  BY Invariance, <1>1, PTL

\* No return of Start, stop, cancellation or failing unit leaves a vCenter
\* session without a Start or a pool's finalizer that logs it out.
THEOREM SessionsAreOwned == Spec => []SessionsOwned
<1>1. IndInv => SessionsOwned
  BY DEF IndInv
<1>2. QED
  BY Invariance, <1>1, PTL

\* Between uploads the row of the vddk table describes the vddk folder, unless
\* an upload failed or died between replacing the one and saving the other.
THEOREM VddkConsistent == Spec => []VddkRowDescribesFolder
<1>1. IndInv => VddkRowDescribesFolder
  BY DEF IndInv
<1>2. QED
  BY Invariance, <1>1, PTL
=============================================================================
