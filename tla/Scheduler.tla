------------------------------ MODULE Scheduler ------------------------------
(***************************************************************************)
(* pkg/scheduler: typed asynchronous work execution with futures, a        *)
(* priority queue and reserved workers.                                    *)
(*                                                                         *)
(* Four kinds of goroutine take steps: the callers of addWork, the event   *)
(* loop run(), one worker goroutine per unit of work handed out, and the   *)
(* callers of Close.  A worker is a value (isReserved) that travels from   *)
(* the idle list to a goroutine, from there through the channel done and   *)
(* back to the idle list, so workers are counted per kind, not named.      *)
(***************************************************************************)
EXTENDS Integers, FiniteSets

CONSTANTS
    Works,            \* the work functions a client may submit, once each
    Prio,             \* the priority each one is submitted with
    Closers,          \* goroutines that call Close
    NormalWorkers,    \* NewScheduler's first argument
    ReservedWorkers   \* NewScheduler's second argument

ASSUME PrioAssumption == Prio \in [Works -> Nat]

\* NewScheduler refuses any other pair.
ASSUME WorkersAssumption ==
    /\ NormalWorkers \in Nat \ {0}
    /\ ReservedWorkers \in Nat

VARIABLES
    caller,      \* addWork's caller, for each work
    queue,       \* workQueue: order is restored by the sort in dispatch
    loop,        \* the goroutine run()
    idle,        \* workers: idle workers of each kind
    done,        \* the buffered channel done: finished workers of each kind
    goroutine,   \* worker.Work, for each work
    kind,        \* the kind of worker that work was handed to
    result,      \* the future's channel, capacity 1 ("none": empty)
    wg,          \* the WaitGroup's counter
    mainDone,    \* mainCtx is canceled
    stopped,     \* works whose Future.Stop was called
    once,        \* progress of the function inside once.Do
    closer       \* the callers of Close

callerVars == <<caller, queue>>
workerVars == <<idle, done, goroutine, kind, wg>>
closeVars == <<mainDone, once, closer>>
vars == <<caller, queue, loop, idle, done, goroutine, kind, result, wg,
          mainDone, stopped, once, closer>>

Kinds == {"normal", "reserved"}

Total == [k \in Kinds |->
             IF k = "normal" THEN NormalWorkers ELSE ReservedWorkers]

\* What is sent on a future's channel: the outcome of fn, a recovered panic
\* included (the scheduler never looks at it), or context.Canceled.
Results == {"outcome", "canceled"}

\* The stages of worker.Work: running fn, about to send on done, about to
\* call wg.Done, returned.
Stages == {"none", "run", "signal", "release", "exited"}

TypeOK ==
    /\ caller \in [Works -> {"idle", "select", "returned"}]
    /\ queue \subseteq Works
    /\ loop \in {"select", "dispatch", "exited"}
    /\ idle \in [Kinds -> Nat]
    /\ done \in [Kinds -> Nat]
    /\ goroutine \in [Works -> Stages]
    /\ kind \in [Works -> Kinds]
    /\ result \in [Works -> Results \cup {"none"}]
    /\ wg \in Nat
    /\ mainDone \in BOOLEAN
    /\ stopped \subseteq Works
    /\ once \in {"open", "cancel", "send", "wait", "done"}
    /\ closer \in [Closers -> {"idle", "blocked", "returned"}]

\* NewScheduler: all workers idle, then `go s.run()`.
Init ==
    /\ caller = [w \in Works |-> "idle"]
    /\ queue = {}
    /\ loop = "select"
    /\ idle = Total
    /\ done = [k \in Kinds |-> 0]
    /\ goroutine = [w \in Works |-> "none"]
    /\ kind = [w \in Works |-> "normal"]
    /\ result = [w \in Works |-> "none"]
    /\ wg = 0
    /\ mainDone = FALSE
    /\ stopped = {}
    /\ once = "open"
    /\ closer = [c \in Closers |-> "idle"]

-----------------------------------------------------------------------------
(* addWork: a select between mainCtx.Done and the unbuffered channel work. *)

\* The work's context: Future.Stop cancels it, and so does Close.
Canceled(w) == mainDone \/ w \in stopped

AddWork(w) ==
    /\ caller[w] = "idle"
    /\ caller' = [caller EXCEPT ![w] = "select"]
    /\ UNCHANGED <<queue, loop, workerVars, result, stopped, closeVars>>

\* The scheduler is closing: the future is resolved on the spot.
Refuse(w) ==
    /\ caller[w] = "select"
    /\ mainDone
    /\ result[w] = "none"
    /\ result' = [result EXCEPT ![w] = "canceled"]
    /\ caller' = [caller EXCEPT ![w] = "returned"]
    /\ UNCHANGED <<queue, loop, workerVars, stopped, closeVars>>

\* Mutant: the channel work is buffered, so a send succeeds without run().
AcceptBuffered(w) ==
    /\ caller[w] = "select"
    /\ loop # "dispatch"
    /\ caller' = [caller EXCEPT ![w] = "returned"]
    /\ queue' = queue \cup {w}
    /\ loop' = IF loop = "select" THEN "dispatch" ELSE loop
    /\ UNCHANGED <<workerVars, result, stopped, closeVars>>

\* The rendezvous of addWork's send with the receive in run().
Accept(w) ==
    /\ caller[w] = "select"
    /\ loop = "select"
    /\ caller' = [caller EXCEPT ![w] = "returned"]
    /\ queue' = queue \cup {w}
    /\ loop' = "dispatch"
    /\ UNCHANGED <<workerVars, result, stopped, closeVars>>

\* Future.Stop, by whoever holds the future addWork returned.
Stop(w) ==
    /\ caller[w] = "returned"
    /\ w \notin stopped
    /\ stopped' = stopped \cup {w}
    /\ UNCHANGED <<callerVars, loop, workerVars, result, closeVars>>

-----------------------------------------------------------------------------
(* run() and dispatch(). *)

\* A worker of kind k came back: it is idle again.
ReceiveDone(k) ==
    /\ loop = "select"
    /\ done[k] > 0
    /\ done' = [done EXCEPT ![k] = @ - 1]
    /\ idle' = [idle EXCEPT ![k] = @ + 1]
    /\ loop' = "dispatch"
    /\ UNCHANGED <<callerVars, goroutine, kind, result, wg, stopped, closeVars>>

\* Mutants: the comparison of the sort is inverted; there is no sort.
HeadsInverted == {w \in queue : \A v \in queue : Prio[v] >= Prio[w]}
HeadsUnsorted == queue

\* The works the sort may put first: ties have no tie-breaker.
Heads == {w \in queue : \A v \in queue : Prio[v] <= Prio[w]}

\* The first worker the sorted list offers w: reserved ones come first, and
\* are skipped for priority 0.
Offered(w) == IF Prio[w] # 0 /\ idle["reserved"] > 0
              THEN "reserved" ELSE "normal"

EligibleSecond(w) == idle[Offered(w)] > 1

Eligible(w) == idle[Offered(w)] > 0

\* One iteration of dispatch's loop that finds a worker: wg.Add, go Work.
DispatchStart(w) ==
    /\ loop = "dispatch"
    /\ w \in Heads
    /\ Eligible(w)
    /\ queue' = queue \ {w}
    /\ idle' = [idle EXCEPT ![Offered(w)] = @ - 1]
    /\ kind' = [kind EXCEPT ![w] = Offered(w)]
    /\ goroutine' = [goroutine EXCEPT ![w] = "run"]
    /\ wg' = wg + 1
    /\ UNCHANGED <<caller, loop, done, result, stopped, closeVars>>

\* The queue is empty, or its head has no eligible worker: dispatch returns
\* to run's select, the head being pushed back.
DispatchReturn ==
    /\ loop = "dispatch"
    /\ queue = {} \/ \E w \in Heads : ~ Eligible(w)
    /\ loop' = "select"
    /\ UNCHANGED <<callerVars, workerVars, result, stopped, closeVars>>

-----------------------------------------------------------------------------
(* worker.Work. *)

\* fn returns or panics, and its result, or the recovered panic, is sent on
\* the future's channel; a full channel would block the worker.
Return(w) ==
    /\ goroutine[w] = "run"
    /\ result[w] = "none"
    /\ result' = [result EXCEPT ![w] = "outcome"]
    /\ goroutine' = [goroutine EXCEPT ![w] = "signal"]
    /\ UNCHANGED <<callerVars, loop, idle, done, kind, wg, stopped, closeVars>>

\* Mutants: done has room for the normal workers only; every worker comes back
\* as a normal one.
DoneCapacityNormal == NormalWorkers

DoneCapacity == NormalWorkers + ReservedWorkers

\* The isReserved a finished worker sends.
SentKind(w) == kind[w]

\* w.done <- w.isReserved, on a channel with one place per worker.
SignalDone(w) ==
    /\ goroutine[w] = "signal"
    /\ done["normal"] + done["reserved"] < DoneCapacity
    /\ done' = [done EXCEPT ![SentKind(w)] = @ + 1]
    /\ goroutine' = [goroutine EXCEPT ![w] = "release"]
    /\ UNCHANGED <<callerVars, loop, idle, kind, result, wg, stopped, closeVars>>

\* w.wg.Done().
Release(w) ==
    /\ goroutine[w] = "release"
    /\ wg' = wg - 1
    /\ goroutine' = [goroutine EXCEPT ![w] = "exited"]
    /\ UNCHANGED <<callerVars, loop, idle, done, kind, result, stopped, closeVars>>

-----------------------------------------------------------------------------
(* Close: once.Do runs its function for the first caller and holds the     *)
(* others until that call returns.                                         *)

Close(c) ==
    /\ closer[c] = "idle"
    /\ closer' = [closer EXCEPT ![c] = "blocked"]
    /\ once' = IF once = "open" THEN "cancel" ELSE once
    /\ UNCHANGED <<callerVars, loop, workerVars, result, mainDone, stopped>>

MainCancel ==
    /\ once = "cancel"
    /\ mainDone' = TRUE
    /\ once' = "send"
    /\ UNCHANGED <<callerVars, loop, workerVars, result, stopped, closer>>

\* The rendezvous of s.close <- struct{}{} with run(), which returns.
LoopExit ==
    /\ once = "send"
    /\ loop = "select"
    /\ loop' = "exited"
    /\ once' = "wait"
    /\ UNCHANGED <<callerVars, workerVars, result, mainDone, stopped, closer>>

\* Mutant: Close does not wait.
WaitReturnEarly ==
    /\ once = "wait"
    /\ once' = "done"
    /\ UNCHANGED <<callerVars, loop, workerVars, result, mainDone, stopped, closer>>

\* wg.Wait returns.
WaitReturn ==
    /\ once = "wait"
    /\ wg = 0
    /\ once' = "done"
    /\ UNCHANGED <<callerVars, loop, workerVars, result, mainDone, stopped, closer>>

CloseReturn(c) ==
    /\ closer[c] = "blocked"
    /\ once = "done"
    /\ closer' = [closer EXCEPT ![c] = "returned"]
    /\ UNCHANGED <<callerVars, loop, workerVars, result, mainDone, stopped, once>>

-----------------------------------------------------------------------------
Run == \/ \E w \in Works : Accept(w) \/ DispatchStart(w)
       \/ \E k \in Kinds : ReceiveDone(k)
       \/ DispatchReturn

Worker(w) == Return(w) \/ SignalDone(w) \/ Release(w)

CloseSteps == \/ MainCancel \/ LoopExit \/ WaitReturn
              \/ \E c \in Closers : CloseReturn(c)

Next ==
    \/ \E w \in Works : AddWork(w) \/ Refuse(w) \/ Stop(w) \/ Worker(w)
    \/ Run
    \/ \E c \in Closers : Close(c)
    \/ CloseSteps

Spec == Init /\ [][Next]_vars

\* The Go runtime keeps running every goroutine that can run.  A select with
\* several ready cases picks one at random, so a case that stays ready is
\* taken in the end: each case of run's select is fair by itself.
RuntimeFairness ==
    /\ \A w \in Works : /\ SF_vars(Accept(w))
                        /\ WF_vars(Refuse(w))
                        /\ WF_vars(DispatchStart(w))
                        /\ WF_vars(SignalDone(w))
                        /\ WF_vars(Release(w))
    /\ \A k \in Kinds : SF_vars(ReceiveDone(k))
    /\ WF_vars(DispatchReturn)
    /\ WF_vars(MainCancel) /\ SF_vars(LoopExit) /\ WF_vars(WaitReturn)
    /\ \A c \in Closers : WF_vars(CloseReturn(c))

\* Work functions "are expected to observe ctx.Done()" (doc.go), and cleanup
\* work ends by itself; nothing is assumed of other normal work.
CooperativeSpec ==
    /\ Spec /\ RuntimeFairness
    /\ \A w \in Works : /\ WF_vars(Canceled(w) /\ Return(w))
                        /\ Prio[w] > 0 => WF_vars(Return(w))

-----------------------------------------------------------------------------
(* Properties. *)

\* The workers of kind k that a goroutine holds.
Busy(k) == {w \in Works : goroutine[w] \in {"run", "signal"} /\ kind[w] = k}

\* Worker goroutines the WaitGroup has to wait for.
Unreleased == {w \in Works : goroutine[w] \in {"run", "signal", "release"}}

\* No worker is lost or made up on its way from the idle list through a
\* goroutine and the channel done back to the idle list, whatever returns,
\* panics or closes in between.
WorkersConserved ==
    \A k \in Kinds : idle[k] + done[k] + Cardinality(Busy(k)) = Total[k]

\* A worker that has finished never blocks on the channel done, not even
\* after Close when run() no longer reads it: otherwise wg.Wait would hang.
DoneNeverBlocks ==
    \A w \in Works : goroutine[w] = "signal" =>
        done["normal"] + done["reserved"] < DoneCapacity

\* A future's channel has room when the one result for it is sent: a work is
\* not handed out twice, nor refused and handed out.
ResultNeverBlocks ==
    \A w \in Works :
        (goroutine[w] = "run" \/ caller[w] = "select") => result[w] = "none"

\* Normal work never occupies the capacity kept for priority work (doc.go,
\* "normal work (priority == 0) runs only on normal workers").
ReservedForPriority ==
    \A w \in Works :
        w \in Busy("reserved") => Prio[w] > 0

\* When run() waits for its next event no queued work could have been given a
\* worker: stopping at the first work without one strands nobody.
DispatchIsWorkConserving ==
    loop = "select" => \A w \in queue : ~ Eligible(w)

\* What Close promises each of its callers, the ones that lost the race for
\* once.Do included: run() is gone, no worker goroutine is left, and every
\* accepted work that was handed out has its result.
CloseIsQuiescent ==
    (\E c \in Closers : closer[c] = "returned") =>
        /\ loop = "exited"
        /\ Unreleased = {}
        /\ \A w \in Works \ queue :
              caller[w] = "returned" => result[w] # "none"

\* AddWork after Close is refused with context.Canceled, and nothing is
\* started once run() has exited.
NothingStartsAfterExit ==
    [][loop = "exited" =>
          /\ queue' = queue
          /\ \A w \in Works :
                /\ goroutine'[w] = "run" => goroutine[w] = "run"
                /\ (caller[w] = "select" /\ caller'[w] = "returned") =>
                       result'[w] = "canceled"]_vars

\* If all work functions return then, unless the scheduler is closed, every
\* accepted work gets its result, ties and overtaking by priority work
\* notwithstanding.
FutureResolves ==
    (\A w \in Works : WF_vars(Return(w))) =>
        \A w \in Works :
            caller[w] = "returned" ~> (result[w] # "none" \/ loop = "exited")
-----------------------------------------------------------------------------
(* The inductive invariant behind the safety properties. *)

\* Where a work can be, and what its future then holds: it waits in the queue
\* or runs only after addWork accepted it, it leaves the queue when it is
\* handed out, and a finished or refused one has its result.
FutureLifecycle ==
    \A w \in Works :
        /\ (w \in queue \/ goroutine[w] # "none") => caller[w] = "returned"
        /\ w \in queue => goroutine[w] = "none"
        /\ (result[w] = "none") <=>
              (caller[w] # "returned" \/ w \in queue \/ goroutine[w] = "run")
        /\ goroutine[w] # "none" => result[w] # "canceled"

\* The WaitGroup counts the goroutines that have not called Done.
WaitGroupCounts == IsFiniteSet(Unreleased) /\ wg = Cardinality(Unreleased)

\* How far Close has come, and what that says of run() and the workers.
ClosePhases ==
    /\ mainDone <=> once \in {"send", "wait", "done"}
    /\ loop = "exited" <=> once \in {"wait", "done"}
    /\ once = "done" => Unreleased = {}
    /\ \A c \in Closers : closer[c] = "returned" => once = "done"

\* The inductive invariant.
IndInv ==
    /\ TypeOK
    /\ FutureLifecycle
    /\ WaitGroupCounts
    /\ WorkersConserved
    /\ ReservedForPriority
    /\ DispatchIsWorkConserving
    /\ ClosePhases

-----------------------------------------------------------------------------
(* The executor this scheduler implements. *)

\* The state of a work and its future, as a client sees it.
Status(w) ==
    CASE caller[w] = "idle"       -> "new"
      [] caller[w] = "select"     -> "submitting"
      [] result[w] = "canceled"   -> "refused"
      [] result[w] = "outcome"    -> "resolved"
      [] goroutine[w] = "run"     -> "running"
      [] OTHER                    -> "pending"

Phase == IF ~ mainDone THEN "open"
         ELSE IF once = "done" THEN "closed" ELSE "closing"

Exec == INSTANCE Executor WITH status <- [w \in Works |-> Status(w)],
                               phase <- Phase

\* Event loop, worker list and channels together behave like the bounded,
\* prioritised, closable executor clients rely on.
ImplementsExecutor == Exec!ExecSpec
=============================================================================
