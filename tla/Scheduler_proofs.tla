--------------------------- MODULE Scheduler_proofs ---------------------------
(***************************************************************************)
(* Proofs, for any number of works, priorities, workers and callers of     *)
(* Close, of the safety properties of Scheduler.  Each conjunct of IndInv  *)
(* has a lemma that says every step preserves it; what the others          *)
(* contribute is among its assumptions.  At the end, that Scheduler        *)
(* implements Executor: every step maps to one of Executor or to none.     *)
(***************************************************************************)
EXTENDS Scheduler, FiniteSetTheorems, TLAPS

-----------------------------------------------------------------------------
(* Cardinalities. *)

\* A set that loses or gains one element loses or gains one in cardinality.
LEMMA CardinalityStep ==
    ASSUME NEW S, NEW T, NEW x, IsFiniteSet(S)
    PROVE  /\ (x \notin S /\ T = S \cup {x}) =>
                 IsFiniteSet(T) /\ Cardinality(T) = Cardinality(S) + 1
           /\ (x \in S /\ T = S \ {x}) =>
                 IsFiniteSet(T) /\ Cardinality(T) = Cardinality(S) - 1
BY FS_AddElement, FS_RemoveElement

\* The goroutines holding a worker are among those the WaitGroup counts.
LEMMA BusyFinite ==
    ASSUME NEW k, IsFiniteSet(Unreleased)
    PROVE  IsFiniteSet(Busy(k)) /\ Cardinality(Busy(k)) \in Nat
<1>1. Busy(k) \in SUBSET Unreleased
  BY DEF Busy, Unreleased
<1>2. QED
  BY <1>1, FS_Subset, FS_CardinalityType

-----------------------------------------------------------------------------
(* The goroutine sets change only where a goroutine changes stage. *)

\* Every action but the four of dispatch and worker.Work leaves the
\* goroutines and the workers they hold alone.
LEMMA GoroutineSteps ==
    ASSUME [Next]_vars
    PROVE  \/ \E w \in Works : \/ DispatchStart(w)
                               \/ Return(w)
                               \/ SignalDone(w)
                               \/ Release(w)
           \/ UNCHANGED <<goroutine, kind, wg>>
BY DEF Next, vars, Run, Worker, CloseSteps, callerVars, workerVars, closeVars,
       AddWork, Refuse, Stop, Accept, ReceiveDone, DispatchReturn,
       Close, MainCancel, LoopExit, WaitReturn, CloseReturn

\* What one worker goroutine's step does to the sets of goroutines.
LEMMA UnreleasedSteps ==
    ASSUME TypeOK, FutureLifecycle, NEW w \in Works
    PROVE  /\ DispatchStart(w) => /\ w \notin Unreleased
                                  /\ Unreleased' = Unreleased \cup {w}
           /\ (Return(w) \/ SignalDone(w)) => Unreleased' = Unreleased
           /\ Release(w) => /\ w \in Unreleased
                            /\ Unreleased' = Unreleased \ {w}
BY DEF TypeOK, FutureLifecycle, Unreleased, Stages, Heads,
       DispatchStart, Return, SignalDone, Release

\* The same for the goroutines that hold a worker of kind k.
LEMMA BusySteps ==
    ASSUME TypeOK, FutureLifecycle, NEW w \in Works, NEW k \in Kinds
    PROVE  /\ DispatchStart(w) =>
                 /\ k = Offered(w) => /\ w \notin Busy(k)
                                      /\ Busy(k)' = Busy(k) \cup {w}
                 /\ k # Offered(w) => Busy(k)' = Busy(k)
           /\ (Return(w) \/ Release(w)) => Busy(k)' = Busy(k)
           /\ SignalDone(w) =>
                 /\ k = kind[w] => /\ w \in Busy(k)
                                   /\ Busy(k)' = Busy(k) \ {w}
                 /\ k # kind[w] => Busy(k)' = Busy(k)
<1>1. ASSUME DispatchStart(w)
      PROVE  /\ k = Offered(w) => /\ w \notin Busy(k)
                                  /\ Busy(k)' = Busy(k) \cup {w}
             /\ k # Offered(w) => Busy(k)' = Busy(k)
  BY <1>1 DEF TypeOK, FutureLifecycle, Busy, Stages, Heads, Offered, Kinds,
              DispatchStart
<1>2. ASSUME Return(w) \/ Release(w) PROVE Busy(k)' = Busy(k)
  BY <1>2 DEF TypeOK, Busy, Stages, Return, Release
<1>3. ASSUME SignalDone(w)
      PROVE  /\ k = kind[w] => /\ w \in Busy(k)
                               /\ Busy(k)' = Busy(k) \ {w}
             /\ k # kind[w] => Busy(k)' = Busy(k)
  BY <1>3 DEF TypeOK, Busy, Stages, Kinds, SignalDone
<1>4. QED
  BY <1>1, <1>2, <1>3

-----------------------------------------------------------------------------
(* One lemma per conjunct of the inductive invariant. *)

\* The WaitGroup's counter follows the goroutines.
LEMMA WaitGroupStep ==
    ASSUME TypeOK, FutureLifecycle, WaitGroupCounts, [Next]_vars
    PROVE  WaitGroupCounts'
<1>1. CASE UNCHANGED <<goroutine, kind, wg>>
  BY <1>1 DEF WaitGroupCounts, Unreleased
<1>2. ASSUME NEW w \in Works,
             DispatchStart(w) \/ Return(w) \/ SignalDone(w) \/ Release(w)
      PROVE  WaitGroupCounts'
  <2>1. CASE DispatchStart(w)
    <3>1. wg' = wg + 1
      BY <2>1 DEF DispatchStart
    <3>2. QED
      BY <2>1, <3>1, UnreleasedSteps, CardinalityStep DEF WaitGroupCounts
  <2>2. CASE Return(w) \/ SignalDone(w)
    <3>1. wg' = wg
      BY <2>2 DEF Return, SignalDone
    <3>2. QED
      BY <2>2, <3>1, UnreleasedSteps DEF WaitGroupCounts
  <2>3. CASE Release(w)
    <3>1. wg' = wg - 1
      BY <2>3 DEF Release
    <3>2. QED
      BY <2>3, <3>1, UnreleasedSteps, CardinalityStep DEF WaitGroupCounts
  <2>4. QED
    BY <1>2, <2>1, <2>2, <2>3
<1>3. QED
  BY <1>1, <1>2, GoroutineSteps

\* The types; the counters stay natural because what they count exists.
LEMMA TypeStep ==
    ASSUME TypeOK, FutureLifecycle, WaitGroupCounts, [Next]_vars
    PROVE  TypeOK'
<1>1. wg' \in Nat
  BY WaitGroupStep, FS_CardinalityType DEF WaitGroupCounts
<1>2. CASE UNCHANGED vars
  BY <1>2 DEF TypeOK, vars
<1>3. ASSUME NEW w \in Works, AddWork(w) \/ Refuse(w) \/ Stop(w) \/ Accept(w)
      PROVE  TypeOK'
  BY <1>3 DEF TypeOK, AddWork, Refuse, Stop, Accept, Results,
              callerVars, workerVars, closeVars
<1>4. ASSUME NEW w \in Works, Worker(w) PROVE TypeOK'
  BY <1>1, <1>4 DEF TypeOK, Worker, Return, SignalDone, SentKind, Release, Results,
                    Stages, Kinds, callerVars, closeVars
<1>5. ASSUME NEW w \in Works, DispatchStart(w) PROVE TypeOK'
  BY <1>5 DEF TypeOK, DispatchStart, Eligible, Offered, Stages, Kinds, closeVars
<1>6. ASSUME NEW k \in Kinds, ReceiveDone(k) PROVE TypeOK'
  BY <1>6 DEF TypeOK, ReceiveDone, Kinds, callerVars, closeVars
<1>7. CASE DispatchReturn \/ MainCancel \/ LoopExit \/ WaitReturn
  BY <1>7 DEF TypeOK, DispatchReturn, MainCancel, LoopExit, WaitReturn,
              callerVars, workerVars, closeVars
<1>8. ASSUME NEW c \in Closers, Close(c) \/ CloseReturn(c) PROVE TypeOK'
  BY <1>8 DEF TypeOK, Close, CloseReturn, callerVars, workerVars, closeVars
<1>9. QED
  BY <1>2, <1>3, <1>4, <1>5, <1>6, <1>7, <1>8 DEF Next, Run, CloseSteps

\* Where a work and its result can be.
LEMMA LifecycleStep ==
    ASSUME TypeOK, FutureLifecycle, ClosePhases, [Next]_vars
    PROVE  FutureLifecycle'
<1>1. CASE UNCHANGED <<caller, queue, goroutine, result>>
  BY <1>1 DEF FutureLifecycle
<1>2. ASSUME NEW w \in Works, AddWork(w) \/ Refuse(w) \/ Accept(w)
      PROVE  FutureLifecycle'
  BY <1>2 DEF TypeOK, FutureLifecycle, AddWork, Refuse, Accept, workerVars
<1>3. ASSUME NEW w \in Works, DispatchStart(w) PROVE FutureLifecycle'
  BY <1>3 DEF TypeOK, FutureLifecycle, DispatchStart, Heads, Stages
<1>4. ASSUME NEW w \in Works, Worker(w) PROVE FutureLifecycle'
  BY <1>4 DEF TypeOK, FutureLifecycle, Worker, Return, SignalDone, Release,
              callerVars, Stages
<1>5. QED
  BY <1>1, <1>2, <1>3, <1>4
     DEF Next, vars, Run, CloseSteps, callerVars, workerVars, closeVars, Stop,
         ReceiveDone, DispatchReturn, Close, MainCancel, LoopExit, WaitReturn,
         CloseReturn

\* Workers are conserved: a step moves a worker, or none.
LEMMA ConservedStep ==
    ASSUME TypeOK, FutureLifecycle, WaitGroupCounts, WorkersConserved,
           [Next]_vars
    PROVE  WorkersConserved'
<1> SUFFICES ASSUME NEW k \in Kinds
             PROVE  idle'[k] + done'[k] + Cardinality(Busy(k)') = Total[k]
  BY DEF WorkersConserved
<1>1. /\ IsFiniteSet(Busy(k))
      /\ Cardinality(Busy(k)) \in Nat
      /\ idle[k] + done[k] + Cardinality(Busy(k)) = Total[k]
      /\ idle[k] \in Nat /\ done[k] \in Nat
  BY BusyFinite DEF WaitGroupCounts, WorkersConserved, TypeOK
<1>2. CASE UNCHANGED <<idle, done, goroutine, kind>>
  BY <1>1, <1>2 DEF Busy
<1>3. ASSUME NEW j \in Kinds, ReceiveDone(j)
      PROVE  idle'[k] + done'[k] + Cardinality(Busy(k)') = Total[k]
  <2>1. Busy(k)' = Busy(k)
    BY <1>3 DEF ReceiveDone, Busy
  <2>2. idle'[k] + done'[k] = idle[k] + done[k]
    BY <1>3 DEF ReceiveDone, TypeOK
  <2>3. idle'[k] \in Int /\ done'[k] \in Int
    BY <1>3 DEF ReceiveDone, TypeOK
  <2>4. QED
    BY <1>1, <2>1, <2>2, <2>3
<1>4. ASSUME NEW w \in Works, DispatchStart(w)
      PROVE  idle'[k] + done'[k] + Cardinality(Busy(k)') = Total[k]
  <2>1. done'[k] = done[k]
    BY <1>4 DEF DispatchStart
  <2>2. CASE k = Offered(w)
    <3>1. idle'[k] = idle[k] - 1
      BY <1>4, <2>2 DEF DispatchStart, TypeOK
    <3>2. Cardinality(Busy(k)') = Cardinality(Busy(k)) + 1
      BY <1>1, <1>4, <2>2, BusySteps, CardinalityStep
    <3>3. QED
      BY <1>1, <2>1, <3>1, <3>2
  <2>3. CASE k # Offered(w)
    <3>1. idle'[k] = idle[k]
      BY <1>4, <2>3 DEF DispatchStart, TypeOK
    <3>2. QED
      BY <1>1, <1>4, <2>1, <2>3, <3>1, BusySteps
  <2>4. QED
    BY <2>2, <2>3
<1>5. ASSUME NEW w \in Works, SignalDone(w)
      PROVE  idle'[k] + done'[k] + Cardinality(Busy(k)') = Total[k]
  <2>1. idle'[k] = idle[k]
    BY <1>5 DEF SignalDone
  <2>2. CASE k = kind[w]
    <3>1. done'[k] = done[k] + 1
      BY <1>5, <2>2 DEF SignalDone, SentKind, TypeOK
    <3>2. Cardinality(Busy(k)') = Cardinality(Busy(k)) - 1
      BY <1>1, <1>5, <2>2, BusySteps, CardinalityStep
    <3>3. QED
      BY <1>1, <2>1, <3>1, <3>2
  <2>3. CASE k # kind[w]
    <3>1. done'[k] = done[k]
      BY <1>5, <2>3 DEF SignalDone, SentKind, TypeOK
    <3>2. QED
      BY <1>1, <1>5, <2>1, <2>3, <3>1, BusySteps
  <2>4. QED
    BY <2>2, <2>3
<1>6. ASSUME NEW w \in Works, Return(w) \/ Release(w)
      PROVE  idle'[k] + done'[k] + Cardinality(Busy(k)') = Total[k]
  <2>1. UNCHANGED <<idle, done>>
    BY <1>6 DEF Return, Release
  <2>2. QED
    BY <1>1, <1>6, <2>1, BusySteps
<1>7. QED
  BY <1>2, <1>3, <1>4, <1>5, <1>6
     DEF Next, vars, Run, Worker, CloseSteps, callerVars, workerVars,
         closeVars, AddWork, Refuse, Stop, Accept, DispatchReturn, Close,
         MainCancel, LoopExit, WaitReturn, CloseReturn

\* Only dispatch hands out workers, and it skips reserved ones for normal work.
LEMMA ReservedStep ==
    ASSUME TypeOK, ReservedForPriority, [Next]_vars
    PROVE  ReservedForPriority'
<1>1. CASE UNCHANGED <<goroutine, kind, wg>>
  BY <1>1 DEF ReservedForPriority, Busy
<1>2. ASSUME NEW w \in Works, DispatchStart(w) PROVE ReservedForPriority'
  <2>1. /\ goroutine' = [goroutine EXCEPT ![w] = "run"]
        /\ kind' = [kind EXCEPT ![w] = Offered(w)]
    BY <1>2 DEF DispatchStart
  <2>2. Offered(w) = "reserved" => Prio[w] > 0
    BY PrioAssumption DEF Offered
  <2>3. QED
    BY <2>1, <2>2 DEF ReservedForPriority, Busy, TypeOK
<1>3. ASSUME NEW w \in Works, Return(w) \/ SignalDone(w) \/ Release(w)
      PROVE  ReservedForPriority'
  BY <1>3 DEF ReservedForPriority, Busy, Return, SignalDone, Release, TypeOK
<1>4. QED
  BY <1>1, <1>2, <1>3, GoroutineSteps

\* If the head of the queue has no eligible worker, nothing behind it has.
LEMMA HeadDecides ==
    ASSUME TypeOK, NEW h \in Heads, ~ Eligible(h)
    PROVE  \A w \in queue : ~ Eligible(w)
<1> SUFFICES ASSUME NEW w \in queue PROVE ~ Eligible(w)
  OBVIOUS
<1>1. /\ Prio[h] \in Nat /\ Prio[w] \in Nat /\ Prio[w] <= Prio[h]
      /\ idle["normal"] \in Nat /\ idle["reserved"] \in Nat
  BY PrioAssumption DEF Heads, TypeOK, Kinds
<1>2. CASE Prio[h] = 0
  BY <1>1, <1>2 DEF Eligible, Offered
<1>3. CASE Prio[h] # 0
  BY <1>1, <1>3 DEF Eligible, Offered
<1>4. QED
  BY <1>2, <1>3

\* run() returns to its select only from a dispatch that found no worker.
LEMMA WorkConservingStep ==
    ASSUME TypeOK, DispatchIsWorkConserving, [Next]_vars
    PROVE  DispatchIsWorkConserving'
<1>1. CASE DispatchReturn
  <2>1. \A w \in queue : ~ Eligible(w)
    BY <1>1, HeadDecides DEF DispatchReturn
  <2>2. UNCHANGED <<queue, idle>>
    BY <1>1 DEF DispatchReturn, callerVars, workerVars
  <2>3. QED
    BY <2>1, <2>2 DEF DispatchIsWorkConserving, Eligible, Offered
<1>2. CASE UNCHANGED <<queue, idle, loop>>
  BY <1>2 DEF DispatchIsWorkConserving, Eligible, Offered
<1>3. CASE loop' # "select"
  BY <1>3 DEF DispatchIsWorkConserving
<1>4. QED
  BY <1>1, <1>2, <1>3
     DEF Next, vars, Run, Worker, CloseSteps, callerVars, workerVars,
         closeVars, AddWork, Refuse, Stop, Accept, ReceiveDone, DispatchStart,
         Return, SignalDone, Release, Close, MainCancel, LoopExit,
         WaitReturn, CloseReturn

\* Close's progress; no goroutine is left when wg.Wait has returned.
LEMMA ClosePhasesStep ==
    ASSUME TypeOK, FutureLifecycle, WaitGroupCounts, ClosePhases, [Next]_vars
    PROVE  ClosePhases'
<1>1. CASE UNCHANGED <<mainDone, once, closer, loop, goroutine>>
  BY <1>1 DEF ClosePhases, Unreleased
<1>2. ASSUME NEW w \in Works, Accept(w) \/ DispatchStart(w)
      PROVE  ClosePhases'
  BY <1>2 DEF ClosePhases, Unreleased, Accept, DispatchStart, TypeOK,
              workerVars, closeVars
<1>3. ASSUME NEW w \in Works, Worker(w) PROVE ClosePhases'
  <2>1. once # "done"
    BY <1>3 DEF ClosePhases, Unreleased, Worker, Return, SignalDone, Release
  <2>2. UNCHANGED <<mainDone, once, closer, loop>>
    BY <1>3 DEF Worker, Return, SignalDone, Release, closeVars
  <2>3. QED
    BY <2>1, <2>2 DEF ClosePhases
<1>4. CASE DispatchReturn \/ \E k \in Kinds : ReceiveDone(k)
  BY <1>4 DEF ClosePhases, Unreleased, DispatchReturn, ReceiveDone,
              workerVars, closeVars
<1>5. ASSUME NEW c \in Closers, Close(c) \/ CloseReturn(c)
      PROVE  ClosePhases'
  BY <1>5 DEF ClosePhases, Unreleased, Close, CloseReturn, TypeOK, workerVars
<1>6. CASE MainCancel \/ LoopExit
  BY <1>6 DEF ClosePhases, Unreleased, MainCancel, LoopExit, TypeOK, workerVars
<1>7. CASE WaitReturn
  <2>1. Unreleased = {}
    BY <1>7, FS_EmptySet DEF WaitReturn, WaitGroupCounts
  <2>2. QED
    BY <1>7, <2>1 DEF ClosePhases, Unreleased, WaitReturn, TypeOK, workerVars
<1>8. QED
  BY <1>1, <1>2, <1>3, <1>4, <1>5, <1>6, <1>7
     DEF Next, vars, Run, CloseSteps, callerVars, workerVars, closeVars,
         AddWork, Refuse, Stop

-----------------------------------------------------------------------------
(* The theorems. *)

\* NewScheduler establishes the invariant.
LEMMA InitIndInv == Init => IndInv
<1> SUFFICES ASSUME Init PROVE IndInv
  OBVIOUS
<1>1. TypeOK
  BY WorkersAssumption DEF Init, TypeOK, Kinds, Total, Results, Stages
<1>2. Unreleased = {} /\ \A k \in Kinds : Busy(k) = {}
  BY DEF Init, Unreleased, Busy
<1>3. WaitGroupCounts
  BY <1>2, FS_EmptySet DEF Init, WaitGroupCounts
<1>4. WorkersConserved
  BY <1>1, <1>2, FS_EmptySet DEF Init, WorkersConserved, TypeOK
<1>5. FutureLifecycle /\ ReservedForPriority /\ DispatchIsWorkConserving
  BY <1>2 DEF Init, FutureLifecycle, ReservedForPriority,
              DispatchIsWorkConserving, Kinds
<1>6. ClosePhases
  BY <1>2 DEF Init, ClosePhases
<1>7. QED
  BY <1>1, <1>3, <1>4, <1>5, <1>6 DEF IndInv

\* Every step of run(), of a worker goroutine, of a client and of Close
\* preserves the invariant.
LEMMA NextIndInv == IndInv /\ [Next]_vars => IndInv'
<1> SUFFICES ASSUME IndInv, [Next]_vars PROVE IndInv'
  OBVIOUS
<1>1. TypeOK' /\ WaitGroupCounts'
  BY TypeStep, WaitGroupStep DEF IndInv
<1>2. FutureLifecycle' /\ WorkersConserved'
  BY LifecycleStep, ConservedStep DEF IndInv
<1>3. ReservedForPriority' /\ DispatchIsWorkConserving' /\ ClosePhases'
  BY ReservedStep, WorkConservingStep, ClosePhasesStep DEF IndInv
<1>4. QED
  BY <1>1, <1>2, <1>3 DEF IndInv

\* The inductive invariant holds throughout: types, the life of a future,
\* worker conservation, reserved capacity, work conservation, Close.
THEOREM Invariance == Spec => []IndInv
BY InitIndInv, NextIndInv, PTL DEF Spec

\* No worker is ever lost or made up, for any number of workers.
THEOREM WorkersAreConserved == Spec => []WorkersConserved
<1>1. IndInv => WorkersConserved
  BY DEF IndInv
<1>2. QED
  BY <1>1, Invariance, PTL

\* Normal work never runs on a reserved worker.
THEOREM ReservedStaysReserved == Spec => []ReservedForPriority
<1>1. IndInv => ReservedForPriority
  BY DEF IndInv
<1>2. QED
  BY <1>1, Invariance, PTL

\* run() never waits while a queued work has an eligible idle worker.
THEOREM WorkConserving == Spec => []DispatchIsWorkConserving
<1>1. IndInv => DispatchIsWorkConserving
  BY DEF IndInv
<1>2. QED
  BY <1>1, Invariance, PTL

\* The capacity of done is enough: a worker that holds a place in Busy is not
\* counted in done, so done is not full.
THEOREM FinishedWorkersNeverBlock == Spec => []DoneNeverBlocks
<1>1. IndInv => DoneNeverBlocks
  <2> SUFFICES ASSUME IndInv, NEW w \in Works, goroutine[w] = "signal"
               PROVE  done["normal"] + done["reserved"] < DoneCapacity
    BY DEF DoneNeverBlocks
  <2>1. w \in Busy(kind[w]) /\ kind[w] \in Kinds
    BY DEF IndInv, TypeOK, Busy
  <2>2. \A k \in Kinds : /\ IsFiniteSet(Busy(k))
                         /\ Cardinality(Busy(k)) \in Nat
    BY BusyFinite DEF IndInv, WaitGroupCounts
  <2>3. Cardinality(Busy(kind[w])) > 0
    BY <2>1, <2>2, FS_EmptySet
  <2>4. \A k \in Kinds : /\ idle[k] \in Nat /\ done[k] \in Nat
                         /\ idle[k] + done[k] + Cardinality(Busy(k)) = Total[k]
    BY DEF IndInv, TypeOK, WorkersConserved
  <2>5. /\ done["normal"] + Cardinality(Busy("normal")) <= NormalWorkers
        /\ done["reserved"] + Cardinality(Busy("reserved")) <= ReservedWorkers
    BY <2>2, <2>4, WorkersAssumption DEF Kinds, Total
  <2>6. QED
    BY <2>1, <2>2, <2>3, <2>4, <2>5, WorkersAssumption DEF Kinds, DoneCapacity
<1>2. QED
  BY <1>1, Invariance, PTL

\* One result per future: the channel has room whenever one is sent.
THEOREM ResultsNeverBlock == Spec => []ResultNeverBlocks
<1>1. IndInv => ResultNeverBlocks
  BY DEF IndInv, TypeOK, FutureLifecycle, ResultNeverBlocks
<1>2. QED
  BY <1>1, Invariance, PTL

\* When any call of Close returns, run() and all worker goroutines are gone
\* and only works left in the queue lack a result.
THEOREM CloseLeavesNothingRunning == Spec => []CloseIsQuiescent
<1>1. IndInv => CloseIsQuiescent
  BY DEF IndInv, TypeOK, ClosePhases, FutureLifecycle, CloseIsQuiescent,
         Unreleased
<1>2. QED
  BY <1>1, Invariance, PTL

\* Nothing is accepted or started after run() has exited, and a late AddWork
\* gets context.Canceled.
THEOREM ExitIsFinal == Spec => NothingStartsAfterExit
<1>1. IndInv /\ [Next]_vars =>
        [loop = "exited" =>
          /\ queue' = queue
          /\ \A w \in Works :
                /\ goroutine'[w] = "run" => goroutine[w] = "run"
                /\ (caller[w] = "select" /\ caller'[w] = "returned") =>
                       result'[w] = "canceled"]_vars
  BY DEF IndInv, TypeOK, Next, vars, Run, Worker, CloseSteps, callerVars,
         workerVars, closeVars, AddWork, Refuse, Stop, Accept, ReceiveDone,
         DispatchStart, DispatchReturn, Return, SignalDone, Release, Close,
         MainCancel, LoopExit, WaitReturn, CloseReturn
<1>2. QED
  BY <1>1, Invariance, PTL DEF Spec, NothingStartsAfterExit

-----------------------------------------------------------------------------
(* The refinement: the scheduler implements Executor. *)

\* What each abstract status of a work stands for, before and after a step.
LEMMA StatusMeaning ==
    ASSUME TypeOK, FutureLifecycle, NEW w \in Works
    PROVE  /\ Status(w) = "new" <=> caller[w] = "idle"
           /\ Status(w) = "submitting" <=> caller[w] = "select"
           /\ Status(w) = "refused" <=> result[w] = "canceled"
           /\ Status(w) = "resolved" <=> result[w] = "outcome"
           /\ Status(w) = "running" <=> goroutine[w] = "run"
           /\ Status(w) = "pending" <=> w \in queue
BY DEF TypeOK, FutureLifecycle, Status, Results

\* A step of one work that leaves the other works and the phase alone is a
\* move of the executor.
LEMMA MoveRefined ==
    ASSUME NEW w \in Works, NEW from, NEW to,
           Status(w) = from, Status(w)' = to, Phase' = Phase,
           \A v \in Works \ {w} : Status(v)' = Status(v)
    PROVE  Exec!Move(w, from, to)
BY DEF Exec!Move

\* A step that changes neither caller, result nor the goroutines that run fn
\* changes no status.
LEMMA StatusFrame ==
    ASSUME NEW w \in Works, TypeOK,
           UNCHANGED <<caller[w], result[w]>>,
           goroutine'[w] = "run" <=> goroutine[w] = "run"
    PROVE  Status(w)' = Status(w)
BY DEF Status

\* Two disjoint finite sets.
LEMMA DisjointCardinality ==
    ASSUME NEW S, NEW T, IsFiniteSet(S), IsFiniteSet(T), S \cap T = {}
    PROVE  /\ IsFiniteSet(S \cup T)
           /\ Cardinality(S \cup T) = Cardinality(S) + Cardinality(T)
<1>1. /\ Cardinality(S \cap T) = 0
      /\ Cardinality(S) \in Nat /\ Cardinality(T) \in Nat
  BY FS_EmptySet, FS_CardinalityType
<1>2. /\ IsFiniteSet(S \cup T)
      /\ Cardinality(S \cup T)
            = Cardinality(S) + Cardinality(T) - Cardinality(S \cap T)
  BY FS_Union
<1>3. QED
  BY <1>1, <1>2

\* The instance of Executor counts as this module does.
LEMMA ExecCardinality ==
    ASSUME NEW S PROVE Exec!Cardinality(S) = Cardinality(S)
BY DEF Cardinality, Exec!Cardinality

\* The works that run fn fit into the workers dispatch has taken, and one
\* more does when dispatch finds an idle one; likewise for normal work.
LEMMA StartHasCapacity ==
    ASSUME IndInv, NEW w \in Works, DispatchStart(w)
    PROVE  /\ Cardinality(Exec!Having("running"))
                  < NormalWorkers + ReservedWorkers
           /\ Prio[w] = 0 =>
                Cardinality({v \in Exec!Having("running") : Prio[v] = 0})
                  < NormalWorkers
<1> DEFINE R == {v \in Works : goroutine[v] = "run"}
           Z == {v \in R : Prio[v] = 0}
           N == Busy("normal")
           P == Busy("reserved")
<1>1. Exec!Having("running") = R
  BY StatusMeaning DEF IndInv, Exec!Having
<1>2. /\ IsFiniteSet(N) /\ Cardinality(N) \in Nat
      /\ IsFiniteSet(P) /\ Cardinality(P) \in Nat
  BY BusyFinite DEF IndInv, WaitGroupCounts
<1>3. R \subseteq N \cup P /\ N \cap P = {} /\ Z \subseteq N
  BY PrioAssumption DEF IndInv, TypeOK, Kinds, Busy, ReservedForPriority
<1>4. /\ idle["normal"] + done["normal"] + Cardinality(N) = NormalWorkers
      /\ idle["reserved"] + done["reserved"] + Cardinality(P) = ReservedWorkers
      /\ idle["normal"] \in Nat /\ done["normal"] \in Nat
      /\ idle["reserved"] \in Nat /\ done["reserved"] \in Nat
  BY DEF IndInv, TypeOK, WorkersConserved, Kinds, Total
<1>5. /\ Offered(w) \in Kinds /\ idle[Offered(w)] > 0
      /\ Prio[w] = 0 => Offered(w) = "normal"
  BY DEF DispatchStart, Eligible, Offered, Kinds
<1>6. /\ IsFiniteSet(N \cup P)
      /\ Cardinality(N \cup P) = Cardinality(N) + Cardinality(P)
  BY <1>2, <1>3, DisjointCardinality
<1>7. /\ Cardinality(R) \in Nat /\ Cardinality(R) <= Cardinality(N \cup P)
      /\ Cardinality(Z) \in Nat /\ Cardinality(Z) <= Cardinality(N)
  BY <1>2, <1>3, <1>6, FS_Subset, FS_CardinalityType
<1>8. Cardinality(R) < NormalWorkers + ReservedWorkers
  BY <1>2, <1>4, <1>5, <1>6, <1>7, WorkersAssumption DEF Kinds
<1>9. Prio[w] = 0 => Cardinality(Z) < NormalWorkers
  BY <1>2, <1>4, <1>5, <1>7, WorkersAssumption DEF Kinds
<1>10. QED
  BY <1>1, <1>8, <1>9

\* An iteration of dispatch starts a work the executor may start.
LEMMA StartRefined ==
    ASSUME IndInv, NEW w \in Works, DispatchStart(w)
    PROVE  Exec!Start(w)
<1>1. /\ w \in queue /\ loop = "dispatch" /\ UNCHANGED <<caller, result, mainDone, once>>
      /\ \A v \in queue : Prio[v] <= Prio[w]
      /\ goroutine' = [goroutine EXCEPT ![w] = "run"]
  BY DEF DispatchStart, Heads, closeVars
<1>2. Status(w) = "pending"
  BY <1>1, StatusMeaning DEF IndInv
<1>3. Status(w)' = "running"
  BY <1>1 DEF IndInv, TypeOK, FutureLifecycle, Status
<1>4. ASSUME NEW v \in Works \ {w} PROVE Status(v)' = Status(v)
  BY <1>1, StatusFrame DEF IndInv, TypeOK
<1>5. Phase' = Phase
  BY <1>1 DEF Phase
<1>6. Exec!Move(w, "pending", "running")
  BY <1>2, <1>3, <1>4, <1>5, MoveRefined
<1>7. Phase # "closed"
  BY <1>1 DEF IndInv, ClosePhases, Phase
<1>8. \A v \in Exec!Having("pending") : Prio[v] <= Prio[w]
  BY <1>1, StatusMeaning DEF IndInv, Exec!Having
<1>9. QED
  BY <1>6, <1>7, <1>8, StartHasCapacity, ExecCardinality DEF Exec!Start

\* The steps of addWork's caller and of a worker goroutine.
LEMMA WorkRefined ==
    ASSUME IndInv, NEW w \in Works,
           AddWork(w) \/ Refuse(w) \/ Accept(w) \/ Return(w)
    PROVE  Exec!ExecStep(w)
<1>1. \A v \in Works \ {w} : Status(v)' = Status(v)
  <2>1. ASSUME NEW v \in Works \ {w}
        PROVE  /\ UNCHANGED <<caller[v], result[v]>>
               /\ goroutine'[v] = "run" <=> goroutine[v] = "run"
    BY DEF IndInv, TypeOK, AddWork, Refuse, Accept, Return, callerVars, workerVars
  <2>2. QED
    BY <2>1, StatusFrame DEF IndInv
<1>2. Phase' = Phase
  BY DEF AddWork, Refuse, Accept, Return, Phase, closeVars
<1>3. CASE AddWork(w)
  <2>1. Status(w) = "new" /\ Status(w)' = "submitting"
    <3>1. /\ caller[w] = "idle" /\ caller'[w] = "select"
          /\ result'[w] = result[w] /\ result[w] = "none"
          /\ goroutine'[w] = goroutine[w] /\ goroutine[w] # "run"
      BY <1>3 DEF IndInv, TypeOK, FutureLifecycle, AddWork, workerVars
    <3>2. QED
      BY <3>1 DEF Status
  <2>2. QED
    BY <1>1, <1>2, <2>1, MoveRefined DEF Exec!ExecStep, Exec!Submit
<1>4. CASE Refuse(w)
  <2>1. Status(w) = "submitting" /\ Status(w)' = "refused"
    <3>1. /\ caller[w] = "select"
          /\ caller'[w] = "returned" /\ result'[w] = "canceled"
          /\ result[w] = "none"
          /\ goroutine'[w] = goroutine[w] /\ goroutine[w] # "run"
      BY <1>4 DEF IndInv, TypeOK, FutureLifecycle, Refuse, workerVars
    <3>2. QED
      BY <3>1 DEF Status
  <2>2. Phase # "open"
    BY <1>4 DEF Refuse, Phase
  <2>3. QED
    BY <1>1, <1>2, <2>1, <2>2, MoveRefined DEF Exec!ExecStep, Exec!Refused
<1>5. CASE Accept(w)
  <2>1. Status(w) = "submitting" /\ Status(w)' = "pending"
    BY <1>5 DEF IndInv, TypeOK, FutureLifecycle, Accept, Status, workerVars
  <2>2. Phase # "closed"
    BY <1>5 DEF IndInv, ClosePhases, Accept, Phase
  <2>3. QED
    BY <1>1, <1>2, <2>1, <2>2, MoveRefined DEF Exec!ExecStep, Exec!Accepted
<1>6. CASE Return(w)
  <2>1. Status(w) = "running" /\ Status(w)' = "resolved"
    BY <1>6 DEF IndInv, TypeOK, FutureLifecycle, Return, Status, callerVars
  <2>2. QED
    BY <1>1, <1>2, <2>1, MoveRefined DEF Exec!ExecStep, Exec!Resolve
<1>7. QED
  BY <1>3, <1>4, <1>5, <1>6

\* Close begins when the main context is canceled and ends when wg.Wait has
\* returned, with no work running.
LEMMA CloseRefined ==
    ASSUME IndInv
    PROVE  /\ MainCancel => Exec!BeginClose
           /\ WaitReturn => Exec!EndClose
<1>1. (MainCancel \/ WaitReturn) => \A v \in Works : Status(v)' = Status(v)
  BY StatusFrame DEF IndInv, MainCancel, WaitReturn, callerVars, workerVars
<1>2. MainCancel => Phase = "open" /\ Phase' = "closing"
  BY DEF IndInv, ClosePhases, MainCancel, Phase
<1>3. WaitReturn => Phase = "closing" /\ Phase' = "closed"
  BY DEF IndInv, ClosePhases, WaitReturn, Phase
<1>4. WaitReturn => Exec!Having("running") = {}
  <2>1. WaitReturn => Unreleased = {}
    BY FS_EmptySet DEF IndInv, WaitReturn, WaitGroupCounts
  <2>2. QED
    BY <2>1, StatusMeaning DEF IndInv, Exec!Having, Unreleased
<1>5. QED
  BY <1>1, <1>2, <1>3, <1>4 DEF Exec!BeginClose, Exec!EndClose

\* The executor does not see the other steps.
LEMMA HiddenSteps ==
    ASSUME IndInv,
           \/ UNCHANGED vars
           \/ \E w \in Works : Stop(w) \/ SignalDone(w) \/ Release(w)
           \/ \E k \in Kinds : ReceiveDone(k)
           \/ \E c \in Closers : Close(c) \/ CloseReturn(c)
           \/ DispatchReturn \/ LoopExit
    PROVE  UNCHANGED Exec!execVars
<1>1. /\ UNCHANGED <<caller, result>>
      /\ \A v \in Works : goroutine'[v] = "run" <=> goroutine[v] = "run"
  BY DEF IndInv, TypeOK, vars, Stop, SignalDone, Release, ReceiveDone, Close,
         CloseReturn, DispatchReturn, LoopExit, callerVars, workerVars, closeVars
<1>2. \A v \in Works : Status(v)' = Status(v)
  BY <1>1, StatusFrame DEF IndInv
<1>3. Phase' = Phase
  BY DEF IndInv, ClosePhases, Phase, vars, Stop, SignalDone, Release,
         ReceiveDone, Close, CloseReturn, DispatchReturn, LoopExit, closeVars
<1>4. QED
  BY <1>2, <1>3 DEF Exec!execVars

\* The scheduler implements the executor its clients are built on, for every
\* number of works, workers and callers of Close.
THEOREM SchedulerImplementsExecutor == Spec => ImplementsExecutor
<1>1. Init => Exec!ExecInit
  BY DEF Init, Exec!ExecInit, Status, Phase
<1>2. IndInv /\ [Next]_vars => [Exec!ExecNext]_(Exec!execVars)
  <2> SUFFICES ASSUME IndInv, [Next]_vars
               PROVE  [Exec!ExecNext]_(Exec!execVars)
    OBVIOUS
  <2>1. ASSUME NEW w \in Works,
               AddWork(w) \/ Refuse(w) \/ Accept(w) \/ Return(w)
        PROVE  Exec!ExecNext
    BY <2>1, WorkRefined DEF Exec!ExecNext
  <2>2. ASSUME NEW w \in Works, DispatchStart(w) PROVE Exec!ExecNext
    BY <2>2, StartRefined DEF Exec!ExecNext, Exec!ExecStep
  <2>3. CASE MainCancel \/ WaitReturn
    BY <2>3, CloseRefined DEF Exec!ExecNext
  <2>4. QED
    BY <2>1, <2>2, <2>3, HiddenSteps DEF Next, Run, Worker, CloseSteps
<1>3. QED
  BY <1>1, <1>2, Invariance, PTL DEF Spec, ImplementsExecutor, Exec!ExecSpec
=============================================================================
