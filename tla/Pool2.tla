-------------------------------- MODULE Pool2 --------------------------------
(***************************************************************************)
(* pkg/work: Pool2, a set of Pipeline2 instances that share one scheduler. *)
(* The scheduler is used through what it promises, module Executor.        *)
(*                                                                         *)
(* Goroutines: Pipeline2's (one per key), the drainer of its ticks (one    *)
(* per key), Pool2.run, and the callers of Stop and Cancel.                *)
(***************************************************************************)
EXTENDS Integers, FiniteSets

CONSTANTS
    Keys,             \* keys of the builders map
    Units,            \* number of work units of each builder
    Stoppers,         \* goroutines that call Pool2.Stop
    Cancellers,       \* goroutines that call Pool2.Cancel ...
    Target,           \* ... and the key each one cancels
    HasFinalizer,     \* WithFinalizer was called
    NormalWorkers, ReservedWorkers

ASSUME PoolAssumption ==
    /\ Keys # {} /\ IsFiniteSet(Keys)
    /\ Units \in Nat
    /\ Target \in [Cancellers -> Keys]
    /\ HasFinalizer \in BOOLEAN
    /\ NormalWorkers \in Nat \ {0} /\ ReservedWorkers \in Nat

\* The functions handed to the scheduler: a key's units 1 .. Units, its
\* Finalize, and the pool's finalizer.
Unit(k, i) == <<k, i>>
Finalize(k) == <<k, 0>>
PoolFinalize == <<"pool">>

UnitWorks == {Unit(k, i) : k \in Keys, i \in 1..Units}
FinalWorks == {Finalize(k) : k \in Keys}
Works == UnitWorks \cup FinalWorks \cup {PoolFinalize}

\* submit uses AddWork, the finalizers AddPriorityWork(..., 1).
Prio == [w \in Works |-> IF w \in UnitWorks THEN 0 ELSE 1]

VARIABLES
    status, phase,    \* the scheduler
    failed,           \* units that returned an error
    stopped,          \* units whose future was stopped
    pc,               \* Pipeline2's goroutine
    idx,              \* units Next has handed out
    acc,              \* progress.result: units whose result was taken in
    stopCh,           \* p.stop and the channel it was made as
    drainer,          \* goroutine that ranges over ticks
    entryDone,        \* entry.Done
    cancelCh,         \* entry.CancelCh
    run,              \* Pool2.run
    stopper,          \* callers of Stop
    stopTodo,         \* pipelines a caller of Stop has not stopped yet
    canceller         \* callers of Cancel

schedVars == <<status, phase, failed, stopped>>
pipeVars == <<pc, idx, acc, stopCh, drainer>>
poolVars == <<entryDone, cancelCh, run>>
clientVars == <<stopper, stopTodo, canceller>>
vars == <<schedVars, pipeVars, poolVars, clientVars>>

Exec == INSTANCE Executor

PipelineStates == {"next", "tick", "submit", "await", "errtick",
                   "finsubmit", "finawait", "exit", "done"}

TypeOK ==
    /\ Exec!ExecTypeOK
    /\ failed \subseteq UnitWorks /\ stopped \subseteq UnitWorks
    /\ pc \in [Keys -> PipelineStates]
    /\ idx \in [Keys -> 0..Units] /\ acc \in [Keys -> 0..Units]
    /\ stopCh \in [Keys -> {"open", "closed", "nil"}]
    /\ drainer \in [Keys -> {"range", "send", "gone"}]
    /\ entryDone \in [Keys -> BOOLEAN]
    /\ cancelCh \in [Keys -> {"nil", "open", "closed"}]
    /\ run \in {"events", "finsubmit", "finawait", "closed"}
    /\ stopper \in [Stoppers -> {"idle", "pipes", "run", "close", "returned"}]
    /\ stopTodo \in [Stoppers -> SUBSET Keys]
    /\ canceller \in [Cancellers -> {"idle", "stop", "wait", "returned"}]

\* Pool2.Start has returned: the goroutines of every pipeline exist.
Init ==
    /\ Exec!ExecInit
    /\ failed = {} /\ stopped = {}
    /\ pc = [k \in Keys |-> "next"]
    /\ idx = [k \in Keys |-> 0]
    /\ acc = [k \in Keys |-> 0]
    /\ stopCh = [k \in Keys |-> "open"]
    /\ drainer = [k \in Keys |-> "range"]
    /\ entryDone = [k \in Keys |-> FALSE]
    /\ cancelCh = [k \in Keys |-> "nil"]
    /\ run = "events"
    /\ stopper = [s \in Stoppers |-> "idle"]
    /\ stopTodo = [s \in Stoppers |-> {}]
    /\ canceller = [c \in Cancellers |-> "idle"]

-----------------------------------------------------------------------------
(* Pipeline2.Start's goroutine, for key k. *)

Goto(k, from, to) == pc[k] = from /\ pc' = [pc EXCEPT ![k] = to]

\* `stop`, the goroutine's copy of the channel, is closed: Stop closed it and
\* set p.stop to nil.
StopSeen(k) == stopCh[k] = "closed"

\* builder.Next: the unit's status is published, or the loop ends.
NextUnit(k) ==
    /\ pc[k] = "next"
    /\ IF idx[k] < Units
       THEN /\ idx' = [idx EXCEPT ![k] = @ + 1]
            /\ pc' = [pc EXCEPT ![k] = "tick"]
       ELSE /\ pc' = [pc EXCEPT ![k] = "finsubmit"]
            /\ UNCHANGED idx
    /\ UNCHANGED <<schedVars, acc, stopCh, drainer, poolVars, clientVars>>

\* The drainer is always ready to take a tick, so the select may take either
\* branch once stop is closed.
Tick(k) ==
    /\ \/ Goto(k, "tick", "submit")
       \/ StopSeen(k) /\ Goto(k, "tick", "finsubmit")
       \/ Goto(k, "errtick", "finsubmit")
    /\ UNCHANGED <<schedVars, idx, acc, stopCh, drainer, poolVars, clientVars>>

\* addWork: called, accepted or refused by the scheduler, for the unit and
\* later for Finalize.
Current(k) == IF pc[k] \in {"submit", "await"} THEN Unit(k, idx[k])
                                               ELSE Finalize(k)

Submit(k) ==
    /\ pc[k] \in {"submit", "finsubmit"}
    /\ \/ /\ Exec!Submit(Current(k))
          /\ UNCHANGED pc
       \/ /\ Exec!Accepted(Current(k)) \/ Exec!Refused(Current(k))
          /\ pc' = [pc EXCEPT ![k] = IF @ = "submit" THEN "await" ELSE "finawait"]
    /\ UNCHANGED <<failed, stopped, idx, acc, stopCh, drainer, poolVars, clientVars>>

\* A future that holds a result, and whether it is an error.
Resolved(w) == status[w] \in {"resolved", "refused"}
Error(w) == w \in failed \/ status[w] = "refused"

\* The select on stop: the future is canceled and its result abandoned.
AwaitStopped(k) ==
    /\ StopSeen(k)
    /\ Goto(k, "await", "finsubmit")
    /\ stopped' = stopped \cup {Unit(k, idx[k])}
    /\ UNCHANGED <<status, phase, failed, idx, acc, stopCh, drainer, poolVars, clientVars>>

\* Mutant: the result that comes with an error is dropped.
AwaitResultDrop(k) ==
    /\ Resolved(Unit(k, idx[k]))
    /\ acc' = IF Error(Unit(k, idx[k])) THEN acc ELSE [acc EXCEPT ![k] = idx[k]]
    /\ Goto(k, "await", IF Error(Unit(k, idx[k])) THEN "errtick" ELSE "next")
    /\ UNCHANGED <<schedVars, idx, stopCh, drainer, poolVars, clientVars>>

\* The select on the future: an error ends the loop.
AwaitResult(k) ==
    /\ Resolved(Unit(k, idx[k]))
    /\ acc' = [acc EXCEPT ![k] = idx[k]]
    /\ Goto(k, "await", IF Error(Unit(k, idx[k])) THEN "errtick" ELSE "next")
    /\ UNCHANGED <<schedVars, idx, stopCh, drainer, poolVars, clientVars>>

\* Mutant: Finalize's future is not waited for.
FinalizeNoWait(k) ==
    /\ Goto(k, "finawait", "exit")
    /\ UNCHANGED <<schedVars, idx, acc, stopCh, drainer, poolVars, clientVars>>

FinalizeResult(k) ==
    /\ Resolved(Finalize(k))
    /\ Goto(k, "finawait", "exit")
    /\ UNCHANGED <<schedVars, idx, acc, stopCh, drainer, poolVars, clientVars>>

\* The deferred function: p.stop = nil, ticks and done are closed, and the
\* drainer's range ends.
Exit(k) ==
    /\ Goto(k, "exit", "done")
    /\ stopCh' = [stopCh EXCEPT ![k] = IF @ = "open" THEN "nil" ELSE @]
    /\ drainer' = [drainer EXCEPT ![k] = "send"]
    /\ UNCHANGED <<schedVars, idx, acc, poolVars, clientVars>>

\* Mutant: Stop waits without closing the channel.
CloseStopNot(k) == UNCHANGED stopCh

\* Pipeline2.Stop up to its wait on done: p.stop is closed once.
CloseStop(k) == stopCh' = [stopCh EXCEPT ![k] = IF @ = "open" THEN "closed" ELSE @]

-----------------------------------------------------------------------------
(* Pool2.run. *)

\* The unbuffered send of a done event, and what run() does with it.
DoneEvent(k) ==
    /\ run = "events"
    /\ drainer[k] = "send"
    /\ drainer' = [drainer EXCEPT ![k] = "gone"]
    /\ entryDone' = [entryDone EXCEPT ![k] = TRUE]
    /\ cancelCh' = [cancelCh EXCEPT ![k] = IF @ = "open" THEN "closed" ELSE @]
    /\ run' = IF \A j \in Keys : entryDone'[j]
              THEN IF HasFinalizer THEN "finsubmit" ELSE "closed"
              ELSE run
    /\ UNCHANGED <<schedVars, pc, idx, acc, stopCh, clientVars>>

\* The pool's finalizer as priority work; its error is kept for Stop.
PoolSubmit ==
    /\ run = "finsubmit"
    /\ \/ /\ Exec!Submit(PoolFinalize)
          /\ UNCHANGED run
       \/ /\ Exec!Accepted(PoolFinalize) \/ Exec!Refused(PoolFinalize)
          /\ run' = "finawait"
    /\ UNCHANGED <<failed, stopped, pipeVars, entryDone, cancelCh, clientVars>>

PoolFinalized ==
    /\ run = "finawait"
    /\ Resolved(PoolFinalize)
    /\ run' = "closed"
    /\ UNCHANGED <<schedVars, pipeVars, entryDone, cancelCh, clientVars>>

-----------------------------------------------------------------------------
(* The scheduler and the work functions. *)

SchedStart(w) ==
    /\ Exec!Start(w)
    /\ UNCHANGED <<failed, stopped, pipeVars, poolVars, clientVars>>

\* A unit or a finalizer returns; the error of a finalizer is only reported.
Return(w) ==
    /\ Exec!Resolve(w)
    /\ failed' \in {failed, failed \cup ({w} \cap UnitWorks)}
    /\ UNCHANGED <<stopped, pipeVars, poolVars, clientVars>>

\* The work's context is canceled.
Canceled(w) == w \in stopped \/ phase # "open"

-----------------------------------------------------------------------------
(* Pool2.Stop: stop the pipelines one after the other, wait for run(), close
   the scheduler. *)

StopCall(s) ==
    /\ stopper[s] = "idle"
    /\ stopper' = [stopper EXCEPT ![s] = "pipes"]
    /\ stopTodo' = [stopTodo EXCEPT ![s] = Keys]
    /\ UNCHANGED <<schedVars, pipeVars, poolVars, canceller>>

\* pl.Stop(): close the stop channel, then wait for that pipeline's done.
StopPipeline(s, k) ==
    /\ stopper[s] = "pipes"
    /\ k \in stopTodo[s]
    /\ \A j \in Keys \ stopTodo[s] : pc[j] = "done"
    /\ CloseStop(k)
    /\ stopTodo' = [stopTodo EXCEPT ![s] = @ \ {k}]
    /\ UNCHANGED <<schedVars, pc, idx, acc, drainer, poolVars, stopper, canceller>>

StopPipesDone(s) ==
    /\ stopper[s] = "pipes"
    /\ stopTodo[s] = {}
    /\ \A k \in Keys : pc[k] = "done"
    /\ stopper' = [stopper EXCEPT ![s] = "run"]
    /\ UNCHANGED <<schedVars, pipeVars, poolVars, stopTodo, canceller>>

\* Mutant: the scheduler is closed without waiting for run().
StopRunDoneEarly(s) ==
    /\ stopper[s] = "run"
    /\ \/ Exec!BeginClose
       \/ phase # "open" /\ UNCHANGED <<status, phase>>
    /\ stopper' = [stopper EXCEPT ![s] = "close"]
    /\ UNCHANGED <<failed, stopped, pipeVars, poolVars, stopTodo, canceller>>

\* <-done, then sched.Close, which a second caller of Stop waits for as well.
StopRunDone(s) ==
    /\ stopper[s] = "run"
    /\ run = "closed"
    /\ \/ Exec!BeginClose
       \/ phase # "open" /\ UNCHANGED <<status, phase>>
    /\ stopper' = [stopper EXCEPT ![s] = "close"]
    /\ UNCHANGED <<failed, stopped, pipeVars, poolVars, stopTodo, canceller>>

SchedClosed ==
    /\ Exec!EndClose
    /\ UNCHANGED <<failed, stopped, pipeVars, poolVars, clientVars>>

StopReturn(s) ==
    /\ stopper[s] = "close"
    /\ phase = "closed"
    /\ stopper' = [stopper EXCEPT ![s] = "returned"]
    /\ UNCHANGED <<schedVars, pipeVars, poolVars, stopTodo, canceller>>

-----------------------------------------------------------------------------
(* Pool2.Cancel(key). *)

CancelCall(c) ==
    LET k == Target[c] IN
    /\ canceller[c] = "idle"
    /\ IF entryDone[k]
       THEN /\ canceller' = [canceller EXCEPT ![c] = "returned"]
            /\ UNCHANGED cancelCh
       ELSE /\ canceller' = [canceller EXCEPT ![c] = "stop"]
            /\ cancelCh' = [cancelCh EXCEPT ![k] = "open"]
    /\ UNCHANGED <<schedVars, pipeVars, entryDone, run, stopper, stopTodo>>

CancelStop(c) ==
    /\ canceller[c] = "stop"
    /\ CloseStop(Target[c])
    /\ canceller' = [canceller EXCEPT ![c] = "wait"]
    /\ UNCHANGED <<schedVars, pc, idx, acc, drainer, poolVars, stopper, stopTodo>>

\* The pipeline's done, then the entry's CancelCh.
CancelReturn(c) ==
    /\ canceller[c] = "wait"
    /\ pc[Target[c]] = "done"
    /\ cancelCh[Target[c]] = "closed"
    /\ canceller' = [canceller EXCEPT ![c] = "returned"]
    /\ UNCHANGED <<schedVars, pipeVars, poolVars, stopper, stopTodo>>

-----------------------------------------------------------------------------
PipelineNext(k) ==
    \/ NextUnit(k) \/ Tick(k) \/ Submit(k) \/ AwaitStopped(k)
    \/ AwaitResult(k) \/ FinalizeResult(k) \/ Exit(k)

PoolNext == (\E k \in Keys : DoneEvent(k)) \/ PoolSubmit \/ PoolFinalized

StopNext(s) == \/ \E k \in Keys : StopPipeline(s, k)
               \/ StopPipesDone(s) \/ StopRunDone(s) \/ StopReturn(s)

Next ==
    \/ \E k \in Keys : PipelineNext(k)
    \/ PoolNext
    \/ \E w \in Works : SchedStart(w) \/ Return(w)
    \/ SchedClosed
    \/ \E s \in Stoppers : StopCall(s) \/ StopNext(s)
    \/ \E c \in Cancellers : CancelCall(c) \/ CancelStop(c) \/ CancelReturn(c)

Spec == Init /\ [][Next]_vars

\* Goroutines keep running and a select takes a ready case in the end; the
\* scheduler hands out what it can; finalizers return, units return once
\* canceled.  Nobody has to call Stop or Cancel, and a unit may run forever.
FairSpec ==
    /\ Spec
    /\ \A k \in Keys : WF_vars(PipelineNext(k)) /\ WF_vars(DoneEvent(k))
    /\ WF_vars(PoolSubmit \/ PoolFinalized) /\ WF_vars(SchedClosed)
    /\ \A w \in Works : /\ WF_vars(SchedStart(w))
                        /\ WF_vars((w \notin UnitWorks \/ Canceled(w)) /\ Return(w))
    /\ \A s \in Stoppers : WF_vars(StopNext(s))
    /\ \A c \in Cancellers : WF_vars(CancelStop(c) \/ CancelReturn(c))

-----------------------------------------------------------------------------
(* Properties. *)

Finalized(k) == status[Finalize(k)] = "resolved"

\* Pool2.IsRunning.
IsRunning == \E k \in Keys : ~ entryDone[k]

\* "Finalize runs ... including on Stop or error - ensuring cleanup always
\* happens" (pkg/work/doc.go): it has run for a key when Cancel returns, and
\* for every key once nothing is reported as running; it is never refused.
FinalizeAlwaysRuns ==
    /\ \A c \in Cancellers : canceller[c] = "returned" => Finalized(Target[c])
    /\ ~ IsRunning => \A k \in Keys : Finalized(k)
    /\ \A k \in Keys : status[Finalize(k)] # "refused"

\* Stop "blocks until all pipelines and all finalization have fully
\* terminated": for each of its concurrent callers nothing runs any more and
\* every finalizer has run.
StopIsFinal ==
    (\E s \in Stoppers : stopper[s] = "returned") =>
        /\ \A w \in Works : status[w] # "running"
        /\ \A k \in Keys : pc[k] = "done" /\ Finalized(k)
        /\ HasFinalizer => status[PoolFinalize] = "resolved"

\* A result the loop took in is the last one in sequence: Finalize gets the
\* result of the failed unit, not of the one before it.
FinalizeSeesLastResult ==
    \A k \in Keys :
        (pc[k] \in {"finsubmit", "finawait"} /\ Unit(k, idx[k]) \notin stopped
            /\ idx[k] > 0 /\ status[Unit(k, idx[k])] # "new")
        => acc[k] = idx[k]

\* Every Stop returns, whatever a Cancel does meanwhile and although units of other
\* pipelines never return.
StopReturns == \A s \in Stoppers : stopper[s] = "pipes" ~> stopper[s] = "returned"

-----------------------------------------------------------------------------
(* The inductive invariant behind the safety properties. *)

\* A pipeline hands its units out in order, and takes in the result of each
\* one before it asks for the next.
UnitsInOrder ==
    \A k \in Keys :
        /\ \A i \in 1..Units : i > idx[k] => status[Unit(k, i)] = "new"
        /\ pc[k] \in {"tick", "submit", "await"} => idx[k] > 0
        /\ pc[k] = "tick" => status[Unit(k, idx[k])] = "new"
        /\ pc[k] \in {"next", "errtick"} => acc[k] = idx[k]

\* How far a pipeline has come with its Finalize.
FinalizeProgress ==
    \A k \in Keys :
        /\ pc[k] \in {"next", "tick", "submit", "await", "errtick"} =>
              status[Finalize(k)] = "new"
        /\ pc[k] = "finsubmit" => status[Finalize(k)] \in {"new", "submitting"}
        /\ pc[k] = "finawait" =>
              status[Finalize(k)] \in {"pending", "running", "resolved"}
        /\ pc[k] \in {"exit", "done"} => Finalized(k)

\* run() has seen the done events of the pipelines that are over and of no
\* others, and Cancel returns for one that is over.
EventsFollowPipelines ==
    /\ \A k \in Keys : /\ drainer[k] = "range" <=> pc[k] # "done"
                       /\ drainer[k] = "gone" <=> entryDone[k]
    /\ run = "events" <=> IsRunning
    /\ \A c \in Cancellers : canceller[c] = "returned" => pc[Target[c]] = "done"

\* How far run() has come with the pool's finalizer.
PoolFinalizeProgress ==
    /\ run = "events" => status[PoolFinalize] = "new"
    /\ run = "finsubmit" => status[PoolFinalize] \in {"new", "submitting"}
    /\ run = "finawait" =>
          status[PoolFinalize] \in {"pending", "running", "resolved"}
    /\ run = "closed" => (HasFinalizer => status[PoolFinalize] = "resolved")

\* The scheduler closes after run() has returned and lets running work end,
\* and Stop returns after that.
ShutdownOrder ==
    /\ phase # "open" => run = "closed"
    /\ phase = "closed" => \A w \in Works : status[w] # "running"
    /\ \A s \in Stoppers :
          /\ stopper[s] = "close" => phase # "open"
          /\ stopper[s] = "returned" => phase = "closed"

\* The inductive invariant.
IndInv ==
    /\ TypeOK
    /\ UnitsInOrder
    /\ FinalizeSeesLastResult
    /\ FinalizeProgress
    /\ EventsFollowPipelines
    /\ PoolFinalizeProgress
    /\ ShutdownOrder

-----------------------------------------------------------------------------
(* What the repository says and the code does not do. *)

\* "IsRunning() reports whether the goroutine(s) are still active"
\* (pkg/work/doc.go): not running means that run() has returned.
IdleMeansNoGoroutine == ~ IsRunning => run = "closed"
=============================================================================
