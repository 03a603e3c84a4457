----------------------------- MODULE Pool2_proofs -----------------------------
(***************************************************************************)
(* Proofs, for any set of pipelines, number of units, capacity of the      *)
(* scheduler and callers of Stop and Cancel, of the safety properties of   *)
(* Pool2.  The scheduler is what module Executor says, and                 *)
(* Scheduler_proofs proves that pkg/scheduler implements it.               *)
(***************************************************************************)
EXTENDS Pool2, TLAPS

-----------------------------------------------------------------------------
(* The works, and what the scheduler does to their status. *)

\* Units, finalizers and the pool's finalizer are all different works.
LEMMA WorkIdentity ==
    /\ \A k \in Keys, i \in 1..Units :
          /\ Unit(k, i) \in Works /\ Unit(k, i) \in UnitWorks
          /\ Unit(k, i) # PoolFinalize
    /\ \A k \in Keys : Finalize(k) \in Works /\ Finalize(k) # PoolFinalize
    /\ PoolFinalize \in Works
    /\ \A k, j \in Keys, i, l \in 1..Units :
          Unit(k, i) = Unit(j, l) => k = j /\ i = l
    /\ \A k, j \in Keys, i \in 1..Units : Unit(k, i) # Finalize(j)
    /\ \A k, j \in Keys : Finalize(k) = Finalize(j) => k = j
BY PoolAssumption
   DEF Unit, Finalize, PoolFinalize, Works, UnitWorks, FinalWorks

\* A pipeline that has not ended keeps the scheduler open.
LEMMA OpenWhilePipelinesRun ==
    ASSUME EventsFollowPipelines, ShutdownOrder, NEW k \in Keys, pc[k] # "done"
    PROVE  phase = "open" /\ run = "events"
BY DEF EventsFollowPipelines, ShutdownOrder, IsRunning

\* The two phases of addWork, for a unit and for Finalize.  Nothing is refused.
LEMMA SubmitCases ==
    ASSUME TypeOK, UnitsInOrder, EventsFollowPipelines, ShutdownOrder,
           NEW k \in Keys, Submit(k)
    PROVE  /\ UNCHANGED <<phase, failed, stopped, idx, acc, stopCh, drainer,
                          poolVars, clientVars>>
           /\ \/ /\ pc[k] = "submit" /\ UNCHANGED pc
                 /\ status[Unit(k, idx[k])] = "new"
                 /\ status' = [status EXCEPT ![Unit(k, idx[k])] = "submitting"]
              \/ /\ pc[k] = "submit" /\ pc' = [pc EXCEPT ![k] = "await"]
                 /\ status[Unit(k, idx[k])] = "submitting"
                 /\ status' = [status EXCEPT ![Unit(k, idx[k])] = "pending"]
              \/ /\ pc[k] = "finsubmit" /\ UNCHANGED pc
                 /\ status[Finalize(k)] = "new"
                 /\ status' = [status EXCEPT ![Finalize(k)] = "submitting"]
              \/ /\ pc[k] = "finsubmit" /\ pc' = [pc EXCEPT ![k] = "finawait"]
                 /\ status[Finalize(k)] = "submitting"
                 /\ status' = [status EXCEPT ![Finalize(k)] = "pending"]
<1>1. pc[k] \in {"submit", "finsubmit"}
  BY DEF Submit
<1>2. phase = "open"
  BY <1>1, OpenWhilePipelinesRun
<1>3. UNCHANGED <<phase, failed, stopped, idx, acc, stopCh, drainer,
                  poolVars, clientVars>>
  BY DEF Submit, Exec!Submit, Exec!Accepted, Exec!Refused, Exec!Move
<1>4. CASE pc[k] = "submit"
  <2>1. Current(k) = Unit(k, idx[k])
    BY <1>4 DEF Current
  <2>2. QED
    BY <1>2, <1>3, <1>4, <2>1
       DEF Submit, Exec!Submit, Exec!Accepted, Exec!Refused, Exec!Move, TypeOK
<1>5. CASE pc[k] = "finsubmit"
  <2>1. Current(k) = Finalize(k)
    BY <1>5 DEF Current
  <2>2. QED
    BY <1>2, <1>3, <1>5, <2>1
       DEF Submit, Exec!Submit, Exec!Accepted, Exec!Refused, Exec!Move, TypeOK
<1>6. QED
  BY <1>1, <1>4, <1>5

\* The same for the pool's finalizer.
LEMMA PoolSubmitCases ==
    ASSUME ShutdownOrder, PoolSubmit
    PROVE  /\ UNCHANGED <<phase, failed, stopped, pipeVars, entryDone,
                          cancelCh, clientVars>>
           /\ run = "finsubmit"
           /\ \/ /\ UNCHANGED run /\ status[PoolFinalize] = "new"
                 /\ status' = [status EXCEPT ![PoolFinalize] = "submitting"]
              \/ /\ run' = "finawait" /\ status[PoolFinalize] = "submitting"
                 /\ status' = [status EXCEPT ![PoolFinalize] = "pending"]
BY DEF ShutdownOrder, PoolSubmit, Exec!Submit, Exec!Accepted, Exec!Refused,
       Exec!Move

\* What the scheduler does to a work by itself.
LEMMA ExecutionCases ==
    ASSUME NEW w \in Works, SchedStart(w) \/ Return(w)
    PROVE  /\ UNCHANGED <<phase, stopped, pipeVars, poolVars, clientVars>>
           /\ \/ /\ status[w] = "pending" /\ phase # "closed"
                 /\ status' = [status EXCEPT ![w] = "running"]
                 /\ UNCHANGED failed
              \/ /\ status[w] = "running"
                 /\ status' = [status EXCEPT ![w] = "resolved"]
                 /\ failed' \in {failed, failed \cup ({w} \cap UnitWorks)}
BY DEF SchedStart, Return, Exec!Start, Exec!Resolve, Exec!Move

\* The steps of the callers of Stop and Cancel, and of run() and the
\* scheduler, that leave every work and every pipeline's loop alone.
LEMMA QuietSteps ==
    ASSUME [Next]_vars
    PROVE  \/ UNCHANGED <<status, pc, idx, acc, stopped>>
           \/ \E k \in Keys : PipelineNext(k)
           \/ PoolSubmit
           \/ \E w \in Works : SchedStart(w) \/ Return(w)
BY DEF Next, vars, schedVars, pipeVars, poolVars, clientVars, PoolNext,
       StopNext, DoneEvent, PoolFinalized, SchedClosed, StopCall,
       StopPipeline, StopPipesDone, StopRunDone, StopReturn, CancelCall,
       CancelStop, CancelReturn, Exec!BeginClose, Exec!EndClose

-----------------------------------------------------------------------------
(* One lemma per conjunct of the inductive invariant. *)

\* The types.
LEMMA TypeStep ==
    ASSUME TypeOK, UnitsInOrder, EventsFollowPipelines, ShutdownOrder,
           [Next]_vars
    PROVE  TypeOK'
<1> USE DEF TypeOK, Exec!ExecTypeOK, Exec!Statuses, PipelineStates
<1>1. CASE UNCHANGED vars
  BY <1>1 DEF vars, schedVars, pipeVars, poolVars, clientVars
<1>2. ASSUME NEW k \in Keys, NextUnit(k) \/ Tick(k) PROVE TypeOK'
  BY <1>2, PoolAssumption
     DEF NextUnit, Tick, Goto, schedVars, poolVars, clientVars
<1>3. ASSUME NEW k \in Keys, Submit(k) PROVE TypeOK'
  BY <1>3, SubmitCases DEF poolVars, clientVars
<1>4. ASSUME NEW k \in Keys, AwaitStopped(k) \/ AwaitResult(k) PROVE TypeOK'
  <2>1. Unit(k, idx[k]) \in UnitWorks
    BY <1>4, WorkIdentity, PoolAssumption
       DEF AwaitStopped, AwaitResult, Goto, UnitsInOrder
  <2>2. QED
    BY <1>4, <2>1
       DEF AwaitStopped, AwaitResult, Goto, schedVars, poolVars, clientVars
<1>5. ASSUME NEW k \in Keys, FinalizeResult(k) \/ Exit(k) \/ DoneEvent(k)
      PROVE  TypeOK'
  <2>1. CASE FinalizeResult(k) \/ Exit(k)
    BY <2>1 DEF FinalizeResult, Exit, Goto, schedVars, poolVars, clientVars
  <2>2. CASE DoneEvent(k)
    <3>1. run' \in {"events", "finsubmit", "closed"}
      BY <2>2 DEF DoneEvent
    <3>2. QED
      BY <2>2, <3>1 DEF DoneEvent, schedVars, clientVars
  <2>3. QED
    BY <1>5, <2>1, <2>2
<1>6. CASE PoolSubmit
  BY <1>6, PoolSubmitCases DEF pipeVars, clientVars
<1>7. ASSUME NEW w \in Works, SchedStart(w) \/ Return(w) PROVE TypeOK'
  BY <1>7, ExecutionCases DEF pipeVars, poolVars, clientVars
<1>8. CASE PoolFinalized \/ SchedClosed
  BY <1>8 DEF PoolFinalized, SchedClosed, Exec!EndClose, schedVars, pipeVars,
              poolVars, clientVars
<1>9. ASSUME NEW s \in Stoppers, StopCall(s) \/ StopNext(s) PROVE TypeOK'
  BY <1>9 DEF StopCall, StopNext, StopPipeline, CloseStop, StopPipesDone,
              StopRunDone, StopReturn, Exec!BeginClose, schedVars, pipeVars,
              poolVars
<1>10. ASSUME NEW c \in Cancellers,
              CancelCall(c) \/ CancelStop(c) \/ CancelReturn(c)
       PROVE  TypeOK'
  BY <1>10, PoolAssumption
     DEF CancelCall, CancelStop, CloseStop, CancelReturn, schedVars, pipeVars,
         poolVars
<1>11. QED
  BY <1>1, <1>2, <1>3, <1>4, <1>5, <1>6, <1>7, <1>8, <1>9, <1>10
     DEF Next, PipelineNext, PoolNext

\* A unit's status changes only between its submission and its result.
LEMMA UnitsStep ==
    ASSUME TypeOK, UnitsInOrder, EventsFollowPipelines, ShutdownOrder,
           [Next]_vars
    PROVE  UnitsInOrder'
<1> USE DEF TypeOK, Exec!ExecTypeOK
<1>1. CASE UNCHANGED <<status, pc, idx, acc, stopped>>
  BY <1>1 DEF UnitsInOrder
<1>2. ASSUME NEW k \in Keys, NextUnit(k) \/ Tick(k) PROVE UnitsInOrder'
  BY <1>2, PoolAssumption DEF NextUnit, Tick, Goto, UnitsInOrder, schedVars
<1>3. ASSUME NEW k \in Keys, Submit(k) PROVE UnitsInOrder'
  BY <1>3, SubmitCases, WorkIdentity, PoolAssumption DEF UnitsInOrder
<1>4. ASSUME NEW k \in Keys,
             AwaitStopped(k) \/ AwaitResult(k) \/ FinalizeResult(k) \/ Exit(k)
      PROVE  UnitsInOrder'
  BY <1>4 DEF AwaitStopped, AwaitResult, FinalizeResult, Exit, Goto,
              UnitsInOrder, schedVars
<1>5. CASE PoolSubmit
  BY <1>5, PoolSubmitCases, WorkIdentity, PoolAssumption
     DEF UnitsInOrder, pipeVars
<1>6. ASSUME NEW w \in Works, SchedStart(w) \/ Return(w) PROVE UnitsInOrder'
  BY <1>6, ExecutionCases, WorkIdentity, PoolAssumption
     DEF UnitsInOrder, pipeVars
<1>7. QED
  BY <1>1, <1>2, <1>3, <1>4, <1>5, <1>6, QuietSteps DEF PipelineNext

\* The result of the last unit is taken in before Finalize is submitted.
LEMMA LastResultStep ==
    ASSUME TypeOK, UnitsInOrder, FinalizeSeesLastResult,
           EventsFollowPipelines, ShutdownOrder, [Next]_vars
    PROVE  FinalizeSeesLastResult'
<1> USE DEF TypeOK, Exec!ExecTypeOK
<1>1. CASE UNCHANGED <<status, pc, idx, acc, stopped>>
  BY <1>1 DEF FinalizeSeesLastResult
<1>2. ASSUME NEW k \in Keys, NextUnit(k) \/ Tick(k)
      PROVE  FinalizeSeesLastResult'
  <2>1. CASE NextUnit(k)
    BY <2>1, PoolAssumption
       DEF NextUnit, UnitsInOrder, FinalizeSeesLastResult, schedVars
  <2>2. CASE Tick(k)
    BY <2>2 DEF Tick, Goto, UnitsInOrder, FinalizeSeesLastResult, schedVars
  <2>3. QED
    BY <1>2, <2>1, <2>2
<1>3. ASSUME NEW k \in Keys, Submit(k) PROVE FinalizeSeesLastResult'
  <2> SUFFICES ASSUME NEW j \in Keys, pc'[j] \in {"finsubmit", "finawait"},
                      Unit(j, idx'[j]) \notin stopped', idx'[j] > 0,
                      status'[Unit(j, idx'[j])] # "new"
               PROVE  acc'[j] = idx'[j]
    BY DEF FinalizeSeesLastResult
  <2>1. idx[j] \in 1..Units /\ pc[j] \in {"finsubmit", "finawait"}
    BY <1>3, SubmitCases, PoolAssumption
  <2>2. status'[Unit(j, idx[j])] = status[Unit(j, idx[j])]
    <3>1. pc[k] = "submit" => k # j /\ idx[k] \in 1..Units
      BY <2>1, PoolAssumption DEF UnitsInOrder
    <3>2. QED
      BY <1>3, <2>1, <3>1, SubmitCases, WorkIdentity
  <2>3. QED
    BY <1>3, <2>1, <2>2, SubmitCases DEF FinalizeSeesLastResult
<1>4. ASSUME NEW k \in Keys,
             AwaitStopped(k) \/ AwaitResult(k) \/ FinalizeResult(k) \/ Exit(k)
      PROVE  FinalizeSeesLastResult'
  BY <1>4 DEF AwaitStopped, AwaitResult, FinalizeResult, Exit, Goto,
              FinalizeSeesLastResult, schedVars
<1>5. CASE PoolSubmit
  BY <1>5, PoolSubmitCases, WorkIdentity, PoolAssumption
     DEF FinalizeSeesLastResult, pipeVars
<1>6. ASSUME NEW w \in Works, SchedStart(w) \/ Return(w)
      PROVE  FinalizeSeesLastResult'
  BY <1>6, ExecutionCases, WorkIdentity, PoolAssumption
     DEF FinalizeSeesLastResult, pipeVars
<1>7. QED
  BY <1>1, <1>2, <1>3, <1>4, <1>5, <1>6, QuietSteps DEF PipelineNext

\* Finalize is submitted once and waited for.
LEMMA FinalizeStep ==
    ASSUME TypeOK, UnitsInOrder, FinalizeProgress, EventsFollowPipelines,
           ShutdownOrder, [Next]_vars
    PROVE  FinalizeProgress'
<1> USE DEF TypeOK, Exec!ExecTypeOK, Finalized
<1>1. CASE UNCHANGED <<status, pc, idx, acc, stopped>>
  BY <1>1 DEF FinalizeProgress
<1>2. ASSUME NEW k \in Keys, NextUnit(k) \/ Tick(k) PROVE FinalizeProgress'
  BY <1>2 DEF NextUnit, Tick, Goto, FinalizeProgress, schedVars
<1>3. ASSUME NEW k \in Keys, Submit(k) PROVE FinalizeProgress'
  <2>1. pc[k] = "submit" => idx[k] \in 1..Units
    BY PoolAssumption DEF UnitsInOrder
  <2>2. QED
    BY <1>3, <2>1, SubmitCases, WorkIdentity DEF FinalizeProgress
<1>4. ASSUME NEW k \in Keys,
             AwaitStopped(k) \/ AwaitResult(k) \/ FinalizeResult(k) \/ Exit(k)
      PROVE  FinalizeProgress'
  BY <1>4 DEF AwaitStopped, AwaitResult, FinalizeResult, Resolved, Exit, Goto,
              FinalizeProgress, schedVars
<1>5. CASE PoolSubmit
  BY <1>5, PoolSubmitCases, WorkIdentity DEF FinalizeProgress, pipeVars
<1>6. ASSUME NEW w \in Works, SchedStart(w) \/ Return(w)
      PROVE  FinalizeProgress'
  BY <1>6, ExecutionCases, WorkIdentity, PoolAssumption
     DEF FinalizeProgress, pipeVars
<1>7. QED
  BY <1>1, <1>2, <1>3, <1>4, <1>5, <1>6, QuietSteps DEF PipelineNext

\* run() leaves its event loop with the last done event, and a caller of
\* Cancel returns when the pipeline it canceled is over.
LEMMA EventsStep ==
    ASSUME TypeOK, EventsFollowPipelines, [Next]_vars
    PROVE  EventsFollowPipelines'
<1> USE DEF TypeOK, IsRunning
<1>1. CASE UNCHANGED <<pc, drainer, entryDone, run, canceller>>
  BY <1>1 DEF EventsFollowPipelines
<1>2. ASSUME NEW k \in Keys, PipelineNext(k) PROVE EventsFollowPipelines'
  <2>1. UNCHANGED <<entryDone, run, canceller>>
    BY <1>2 DEF PipelineNext, NextUnit, Tick, Submit, AwaitStopped,
                AwaitResult, FinalizeResult, Exit, poolVars, clientVars
  <2>2. CASE Exit(k)
    BY <2>1, <2>2 DEF Exit, Goto, EventsFollowPipelines
  <2>3. CASE /\ UNCHANGED drainer /\ pc[k] # "done"
             /\ \E s \in PipelineStates \ {"done"} : pc' = [pc EXCEPT ![k] = s]
    BY <2>1, <2>3 DEF EventsFollowPipelines
  <2>4. QED
    BY <1>2, <2>2, <2>3
       DEF PipelineNext, NextUnit, Tick, Submit, AwaitStopped, AwaitResult,
           FinalizeResult, Goto, PipelineStates
<1>3. ASSUME NEW k \in Keys, DoneEvent(k) PROVE EventsFollowPipelines'
  <2>1. \A j \in Keys : /\ drainer'[j] = "range" <=> pc'[j] # "done"
                        /\ drainer'[j] = "gone" <=> entryDone'[j]
    BY <1>3 DEF DoneEvent, EventsFollowPipelines
  <2>2. run' = "events" <=> \E j \in Keys : ~ entryDone'[j]
    BY <1>3 DEF DoneEvent
  <2>3. \A c \in Cancellers :
           canceller'[c] = "returned" => pc'[Target[c]] = "done"
    BY <1>3 DEF DoneEvent, EventsFollowPipelines, clientVars
  <2>4. QED
    BY <2>1, <2>2, <2>3 DEF EventsFollowPipelines
<1>4. CASE PoolSubmit \/ PoolFinalized
  BY <1>4 DEF PoolSubmit, PoolFinalized, EventsFollowPipelines, pipeVars,
              clientVars
<1>5. ASSUME NEW c \in Cancellers,
             CancelCall(c) \/ CancelStop(c) \/ CancelReturn(c)
      PROVE  EventsFollowPipelines'
  BY <1>5, PoolAssumption
     DEF CancelCall, CancelStop, CancelReturn, EventsFollowPipelines,
         pipeVars, poolVars
<1>6. QED
  BY <1>1, <1>2, <1>3, <1>4, <1>5
     DEF Next, vars, pipeVars, poolVars, clientVars, PoolNext, StopNext,
         SchedStart, Return, SchedClosed, StopCall, StopPipeline,
         StopPipesDone, StopRunDone, StopReturn

\* The pool's finalizer is submitted once and waited for.
LEMMA PoolFinalizeStep ==
    ASSUME TypeOK, UnitsInOrder, EventsFollowPipelines, PoolFinalizeProgress,
           ShutdownOrder, [Next]_vars
    PROVE  PoolFinalizeProgress'
<1> USE DEF TypeOK, Exec!ExecTypeOK
<1>1. CASE UNCHANGED <<status, run>>
  BY <1>1 DEF PoolFinalizeProgress
<1>2. ASSUME NEW k \in Keys, Submit(k) PROVE PoolFinalizeProgress'
  <2>1. status'[PoolFinalize] = status[PoolFinalize]
    <3>1. pc[k] = "submit" => idx[k] \in 1..Units
      BY PoolAssumption DEF UnitsInOrder
    <3>2. QED
      BY <1>2, <3>1, SubmitCases, WorkIdentity
  <2>2. QED
    BY <1>2, <2>1 DEF Submit, PoolFinalizeProgress, poolVars
<1>3. ASSUME NEW k \in Keys, DoneEvent(k) PROVE PoolFinalizeProgress'
  <2>1. /\ status' = status /\ run = "events"
        /\ run' \in {"events", "finsubmit", "closed"}
        /\ run' = "closed" => ~ HasFinalizer
    BY <1>3 DEF DoneEvent, schedVars
  <2>2. QED
    BY <2>1 DEF PoolFinalizeProgress
<1>4. CASE PoolSubmit
  BY <1>4, PoolSubmitCases, WorkIdentity DEF PoolFinalizeProgress
<1>5. CASE PoolFinalized
  BY <1>5 DEF PoolFinalized, Resolved, PoolFinalizeProgress, schedVars
<1>6. ASSUME NEW w \in Works, SchedStart(w) \/ Return(w)
      PROVE  PoolFinalizeProgress'
  BY <1>6, ExecutionCases, WorkIdentity DEF PoolFinalizeProgress, poolVars
<1>7. QED
  BY <1>1, <1>2, <1>3, <1>4, <1>5, <1>6
     DEF Next, vars, schedVars, poolVars, PipelineNext, PoolNext, StopNext,
         NextUnit, Tick, AwaitStopped, AwaitResult, FinalizeResult, Exit,
         SchedClosed, StopCall, StopPipeline, StopPipesDone, StopRunDone,
         StopReturn, CancelCall, CancelStop, CancelReturn, Exec!BeginClose,
         Exec!EndClose

\* Nothing starts once the scheduler is closed, and Stop waits for that.
LEMMA ShutdownStep ==
    ASSUME TypeOK, UnitsInOrder, EventsFollowPipelines, ShutdownOrder,
           [Next]_vars
    PROVE  ShutdownOrder'
<1> USE DEF TypeOK, Exec!ExecTypeOK
<1>1. CASE UNCHANGED <<status, phase, run, stopper>>
  BY <1>1 DEF ShutdownOrder
<1>2. ASSUME NEW k \in Keys, Submit(k) PROVE ShutdownOrder'
  <2>1. phase = "open"
    BY <1>2, OpenWhilePipelinesRun DEF Submit
  <2>2. UNCHANGED <<phase, stopper>>
    BY <1>2, SubmitCases DEF clientVars
  <2>3. QED
    BY <2>1, <2>2 DEF ShutdownOrder
<1>3. ASSUME NEW k \in Keys, DoneEvent(k) PROVE ShutdownOrder'
  BY <1>3 DEF DoneEvent, ShutdownOrder, schedVars, clientVars
<1>4. CASE PoolSubmit
  BY <1>4, PoolSubmitCases DEF ShutdownOrder, clientVars
<1>5. CASE PoolFinalized
  BY <1>5 DEF PoolFinalized, ShutdownOrder, schedVars, clientVars
<1>6. ASSUME NEW w \in Works, SchedStart(w) \/ Return(w)
      PROVE  ShutdownOrder'
  BY <1>6, ExecutionCases DEF ShutdownOrder, poolVars, clientVars
<1>7. CASE SchedClosed
  BY <1>7 DEF SchedClosed, Exec!EndClose, Exec!Having, ShutdownOrder,
              poolVars, clientVars
<1>8. ASSUME NEW s \in Stoppers, StopCall(s) \/ StopNext(s)
      PROVE  ShutdownOrder'
  BY <1>8 DEF StopCall, StopNext, StopPipeline, StopPipesDone, StopRunDone,
              StopReturn, Exec!BeginClose, ShutdownOrder, schedVars, poolVars
<1>9. QED
  BY <1>1, <1>2, <1>3, <1>4, <1>5, <1>6, <1>7, <1>8
     DEF Next, vars, schedVars, poolVars, clientVars, PipelineNext, PoolNext,
         NextUnit, Tick, AwaitStopped, AwaitResult, FinalizeResult, Exit,
         CancelCall, CancelStop, CancelReturn

-----------------------------------------------------------------------------
(* The theorems. *)

\* Pool2.Start establishes the invariant.
LEMMA InitIndInv == Init => IndInv
<1> SUFFICES ASSUME Init PROVE IndInv
  OBVIOUS
<1>1. TypeOK
  BY PoolAssumption DEF Init, TypeOK, PipelineStates, Exec!ExecInit,
                        Exec!ExecTypeOK, Exec!Statuses
<1>2. UnitsInOrder /\ FinalizeSeesLastResult /\ FinalizeProgress
  BY WorkIdentity DEF Init, Exec!ExecInit, UnitsInOrder,
                      FinalizeSeesLastResult, FinalizeProgress
<1>3. EventsFollowPipelines
  BY PoolAssumption DEF Init, EventsFollowPipelines, IsRunning
<1>4. PoolFinalizeProgress /\ ShutdownOrder
  BY WorkIdentity DEF Init, Exec!ExecInit, PoolFinalizeProgress, ShutdownOrder
<1>5. QED
  BY <1>1, <1>2, <1>3, <1>4 DEF IndInv

\* Every step of a pipeline, of run(), of the scheduler and of the callers of
\* Stop and Cancel preserves the invariant.
LEMMA NextIndInv == IndInv /\ [Next]_vars => IndInv'
<1> SUFFICES ASSUME IndInv, [Next]_vars PROVE IndInv'
  OBVIOUS
<1>1. TypeOK' /\ UnitsInOrder' /\ FinalizeSeesLastResult'
  BY TypeStep, UnitsStep, LastResultStep DEF IndInv
<1>2. FinalizeProgress' /\ EventsFollowPipelines'
  BY FinalizeStep, EventsStep DEF IndInv
<1>3. PoolFinalizeProgress' /\ ShutdownOrder'
  BY PoolFinalizeStep, ShutdownStep DEF IndInv
<1>4. QED
  BY <1>1, <1>2, <1>3 DEF IndInv

\* The inductive invariant holds throughout, the types among it.
THEOREM Invariance == Spec => []IndInv
BY InitIndInv, NextIndInv, PTL DEF Spec

\* Finalize of a key has run when Cancel returns and when the pool is no
\* longer running, and is never refused by a scheduler that closes too early.
THEOREM FinalizeRuns == Spec => []FinalizeAlwaysRuns
<1>1. IndInv => FinalizeAlwaysRuns
  <2> SUFFICES ASSUME IndInv PROVE FinalizeAlwaysRuns
    OBVIOUS
  <2>1. \A k \in Keys : pc[k] = "done" => Finalized(k)
    BY DEF IndInv, FinalizeProgress
  <2>2. \A c \in Cancellers : canceller[c] = "returned" => Finalized(Target[c])
    BY <2>1, PoolAssumption DEF IndInv, EventsFollowPipelines
  <2>3. ~ IsRunning => \A k \in Keys : Finalized(k)
    BY <2>1 DEF IndInv, EventsFollowPipelines, IsRunning
  <2>4. \A k \in Keys : status[Finalize(k)] # "refused"
    BY DEF IndInv, TypeOK, PipelineStates, FinalizeProgress, Finalized
  <2>5. QED
    BY <2>2, <2>3, <2>4 DEF FinalizeAlwaysRuns
<1>2. QED
  BY <1>1, Invariance, PTL

\* When any caller's Stop has returned nothing runs, every pipeline is over
\* and every finalizer has run.
THEOREM StopEndsEverything == Spec => []StopIsFinal
<1>1. IndInv => StopIsFinal
  <2> SUFFICES ASSUME IndInv, NEW s \in Stoppers, stopper[s] = "returned"
               PROVE  /\ \A w \in Works : status[w] # "running"
                      /\ \A k \in Keys : pc[k] = "done" /\ Finalized(k)
                      /\ HasFinalizer => status[PoolFinalize] = "resolved"
    BY DEF StopIsFinal
  <2>1. phase = "closed" /\ run = "closed"
    BY DEF IndInv, ShutdownOrder
  <2>2. \A k \in Keys : pc[k] = "done"
    BY <2>1 DEF IndInv, EventsFollowPipelines, IsRunning
  <2>3. QED
    BY <2>1, <2>2 DEF IndInv, ShutdownOrder, FinalizeProgress,
                      PoolFinalizeProgress
<1>2. QED
  BY <1>1, Invariance, PTL

\* Finalize is submitted with the last result the loop got, the one that came
\* with an error included.
THEOREM LastResultReachesFinalize == Spec => []FinalizeSeesLastResult
<1>1. IndInv => FinalizeSeesLastResult
  BY DEF IndInv
<1>2. QED
  BY <1>1, Invariance, PTL
=============================================================================
