------------------------------- MODULE Console -------------------------------
(***************************************************************************)
(* internal/services/v2/console.go: delivery of the agent's status and of  *)
(* the outbox of the latest collection to console.redhat.com.              *)
(*                                                                         *)
(* Goroutines: the caller of SetMode or Stop (c.mu admits one at a time),  *)
(* and for every run(closeCh) its loop, its current work.Pipeline and the  *)
(* single worker of its scheduler.  A run is identified by the number of   *)
(* the channel it was given.  Time is not modelled: a tick may come        *)
(* whenever the loop waits, whatever its interval.                         *)
(***************************************************************************)
EXTENDS Integers, FiniteSets

CONSTANTS
    MaxEvents,        \* bound: events ever written to the outbox
    MaxLoops,         \* bound: run loops started by one process
    MaxCrashes,       \* bound: restarts of the agent
    Outages,          \* requests and deletions may fail
    CreateFailures    \* createPipeline may return an error

ASSUME ConsoleAssumption ==
    /\ MaxEvents \in Nat /\ MaxLoops \in Nat \ {0} /\ MaxCrashes \in Nat
    /\ Outages \in BOOLEAN /\ CreateFailures \in BOOLEAN

Loops == 1..MaxLoops
Ids == 1..MaxEvents
Status == 0           \* the status unit that heads every pipeline

VARIABLES
    mode,             \* Configuration.AgentMode, persisted
    target, current, err, fatal,      \* consoleState
    close,            \* c.close: a run's channel, or 0 for nil
    api,              \* the caller that holds c.mu
    halting,          \* Stop was called: the process is going down
    buf,              \* values in each run's channel of capacity one
    loop,             \* each run loop
    pipe,             \* its current pipeline
    batch,            \* the pipeline's units not yet completed
    unit,             \* the unit handed to its scheduler
    last,             \* id the outbox assigned last, persisted
    outbox,           \* ids in the outbox, persisted
    unknown,          \* ids whose kind RequestBuilder does not know
    delivered,        \* ids the console has received
    crashes

consoleVars == <<mode, target, current, err, fatal, close, api, halting>>
loopVars == <<buf, loop, pipe, batch, unit>>
outboxVars == <<last, outbox, unknown, delivered>>
vars == <<consoleVars, loopVars, outboxVars, crashes>>

Modes == {"connected", "disconnected"}
LoopStates == {"none", "start", "select", "parked", "check", "create",
               "stopping", "closing", "ack", "gone"}

ConsoleOK ==
    /\ mode \in Modes /\ target \in Modes /\ current \in Modes
    /\ err \in BOOLEAN /\ fatal \in BOOLEAN /\ halting \in BOOLEAN
    /\ close \in 0..MaxLoops
    /\ api \in {"idle", "send", "recv"}

LoopsOK ==
    /\ buf \in [Loops -> {0, 1}]
    /\ loop \in [Loops -> LoopStates]
    /\ pipe \in [Loops -> {"none", "next", "await", "ok", "error", "fatal", "stopped"}]
    /\ batch \in [Loops -> SUBSET (0..last)]
    /\ unit \in [Loops -> {"none", "queued", "send", "delete"}]

OutboxOK ==
    /\ last \in 0..MaxEvents
    /\ outbox \in SUBSET (1..last)
    /\ unknown \in SUBSET (1..last)
    /\ delivered \in SUBSET (1..last)

\* The types; and no event reaches the console that the outbox did not hold.
TypeOK ==
    /\ ConsoleOK /\ LoopsOK /\ OutboxOK
    /\ crashes \in 0..MaxCrashes

\* NewConsoleService: a loop is started when the persisted mode is "connected".
FirstClose(m) == IF m = "connected" THEN 1 ELSE 0
FirstLoop(m) == [l \in Loops |-> IF l = FirstClose(m) THEN "start" ELSE "none"]

Init ==
    /\ mode \in Modes /\ target = mode
    /\ current = "disconnected" /\ err = FALSE /\ fatal = FALSE
    /\ close = FirstClose(mode) /\ api = "idle" /\ halting = FALSE
    /\ buf = [l \in Loops |-> 0]
    /\ loop = FirstLoop(mode)
    /\ pipe = [l \in Loops |-> "none"]
    /\ batch = [l \in Loops |-> {}]
    /\ unit = [l \in Loops |-> "none"]
    /\ last = 0 /\ outbox = {} /\ unknown = {} /\ delivered = {}
    /\ crashes = 0

-----------------------------------------------------------------------------
(* SetMode and Stop. *)

\* SetMode("connected"): the channel is new, so is the loop.
Connect(l) ==
    /\ api = "idle" /\ ~halting /\ mode # "connected" /\ ~fatal
    /\ loop[l] = "none" /\ \A k \in Loops : k < l => loop[k] # "none"
    /\ mode' = "connected" /\ target' = "connected"
    /\ close' = l
    /\ loop' = [loop EXCEPT ![l] = "start"]
    /\ UNCHANGED <<current, err, fatal, api, halting, buf, pipe, batch, unit,
                   outboxVars, crashes>>

\* SetMode("disconnected") up to the send on c.close.
Disconnect ==
    /\ api = "idle" /\ ~halting /\ mode # "disconnected" /\ ~fatal
    /\ mode' = "disconnected" /\ target' = "disconnected"
    /\ err' = FALSE
    /\ api' = IF close = 0 THEN "idle" ELSE "send"
    /\ UNCHANGED <<current, fatal, close, halting, loopVars, outboxVars, crashes>>

Stop ==
    /\ api = "idle" /\ ~halting
    /\ halting' = TRUE
    /\ api' = IF close = 0 THEN "idle" ELSE "send"
    /\ UNCHANGED <<mode, target, current, err, fatal, close, loopVars, outboxVars, crashes>>

\* select { case c.close <- struct{}{}: default: }: to a loop parked in its own
\* select the value goes directly; else it is left in the channel, if there is
\* room.
SendClose ==
    /\ api = "send"
    /\ api' = "recv"
    /\ IF loop[close] = "parked"
       THEN loop' = [loop EXCEPT ![close] = "stopping"] /\ UNCHANGED buf
       ELSE buf' = [buf EXCEPT ![close] = 1] /\ UNCHANGED loop
    /\ UNCHANGED <<mode, target, current, err, fatal, close, halting,
                   pipe, batch, unit, outboxVars, crashes>>

\* <-c.close takes whatever is in the channel.
RecvAck ==
    /\ api = "recv" /\ buf[close] = 1
    /\ buf' = [buf EXCEPT ![close] = 0]
    /\ close' = 0 /\ api' = "idle"
    /\ UNCHANGED <<mode, target, current, err, fatal, halting,
                   loop, pipe, batch, unit, outboxVars, crashes>>

-----------------------------------------------------------------------------
(* run: the loop. *)

\* createPipeline and Pipeline.Start: the units are the status and a snapshot
\* of the outbox.
CreatePipeline(l, from) ==
    /\ loop[l] = from
    /\ loop' = [loop EXCEPT ![l] = "select"]
    /\ batch' = [batch EXCEPT ![l] = {Status} \cup outbox]
    /\ pipe' = [pipe EXCEPT ![l] = "next"]
    /\ UNCHANGED <<consoleVars, buf, unit, outboxVars, crashes>>

\* The first createPipeline failed: run returns before it defers its exit.
FirstCreateFails(l) ==
    /\ CreateFailures /\ loop[l] = "start"
    /\ err' = TRUE
    /\ loop' = [loop EXCEPT ![l] = "gone"]
    /\ UNCHANGED <<mode, target, current, fatal, close, api, halting,
                   buf, pipe, batch, unit, outboxVars, crashes>>

\* A later one failed: run returns through its deferred exit, pipeline is nil.
CreateFails(l) ==
    /\ CreateFailures /\ loop[l] = "create"
    /\ err' = TRUE
    /\ loop' = [loop EXCEPT ![l] = "stopping"]
    /\ UNCHANGED <<mode, target, current, fatal, close, api, halting,
                   buf, pipe, batch, unit, outboxVars, crashes>>

Park(l) ==
    /\ loop[l] = "select" /\ buf[l] = 0
    /\ loop' = [loop EXCEPT ![l] = "parked"]
    /\ UNCHANGED <<consoleVars, buf, pipe, batch, unit, outboxVars, crashes>>

\* case <-closeCh: a value was in the channel when the loop came to its select.
CloseSignal(l) ==
    /\ loop[l] = "select" /\ buf[l] = 1
    /\ buf' = [buf EXCEPT ![l] = 0]
    /\ loop' = [loop EXCEPT ![l] = "stopping"]
    /\ UNCHANGED <<consoleVars, pipe, batch, unit, outboxVars, crashes>>

\* case <-time.After(interval).
Tick(l) ==
    /\ loop[l] \in {"select", "parked"}
    /\ loop' = [loop EXCEPT ![l] = "check"]
    /\ UNCHANGED <<consoleVars, buf, pipe, batch, unit, outboxVars, crashes>>

\* The pipeline is still running: wait again.
Skip(l) ==
    /\ loop[l] = "check" /\ pipe[l] \in {"next", "await"}
    /\ loop' = [loop EXCEPT ![l] = "select"]
    /\ UNCHANGED <<consoleVars, buf, pipe, batch, unit, outboxVars, crashes>>

\* The pipeline has ended: a 4xx answer ends the loop for good, any other
\* outcome leads to the next pipeline.
Check(l) ==
    /\ loop[l] = "check" /\ pipe[l] \in {"ok", "error", "fatal"}
    /\ current' = IF pipe[l] = "ok" THEN "connected" ELSE "disconnected"
    /\ err' = (pipe[l] # "ok")
    /\ fatal' = (fatal \/ pipe[l] = "fatal")
    /\ loop' = [loop EXCEPT ![l] = IF pipe[l] = "fatal" THEN "stopping" ELSE "create"]
    /\ UNCHANGED <<mode, target, close, api, halting,
                   buf, pipe, batch, unit, outboxVars, crashes>>

\* Deferred exit: pipeline.Stop.  The pipeline does not wait for a unit in
\* flight.
StopPipeline(l) ==
    /\ loop[l] = "stopping"
    /\ loop' = [loop EXCEPT ![l] = "closing"]
    /\ pipe' = [pipe EXCEPT ![l] = IF @ \in {"next", "await"} THEN "stopped" ELSE @]
    /\ UNCHANGED <<consoleVars, buf, batch, unit, outboxVars, crashes>>

\* Deferred exit: sched.Close waits for a running unit and abandons a queued
\* one.
CloseSched(l) ==
    /\ loop[l] = "closing" /\ unit[l] \in {"none", "queued"}
    /\ unit' = [unit EXCEPT ![l] = "none"]
    /\ current' = "disconnected"
    /\ loop' = [loop EXCEPT ![l] = "ack"]
    /\ UNCHANGED <<mode, target, err, fatal, close, api, halting,
                   buf, pipe, batch, outboxVars, crashes>>

\* Mutant: the loop exits without an acknowledgement.
AckNot(l) ==
    /\ loop[l] = "ack"
    /\ loop' = [loop EXCEPT ![l] = "gone"]
    /\ UNCHANGED <<consoleVars, buf, pipe, batch, unit, outboxVars, crashes>>

\* Deferred exit: closeCh <- struct{}{} blocks while the channel is full.
Ack(l) ==
    /\ loop[l] = "ack" /\ buf[l] = 0
    /\ buf' = [buf EXCEPT ![l] = 1]
    /\ loop' = [loop EXCEPT ![l] = "gone"]
    /\ UNCHANGED <<consoleVars, pipe, batch, unit, outboxVars, crashes>>

-----------------------------------------------------------------------------
(* work.Pipeline and the units createPipeline gives it. *)

\* Mutant: the outbox is read without ORDER BY.
FirstAny(l, e) == e \in batch[l]

\* The events come in the order of their ids, after the status.
First(l, e) == e \in batch[l] /\ \A i \in batch[l] : e <= i

Submit(l) ==
    /\ pipe[l] = "next" /\ batch[l] # {}
    /\ pipe' = [pipe EXCEPT ![l] = "await"]
    /\ unit' = [unit EXCEPT ![l] = "queued"]
    /\ UNCHANGED <<consoleVars, buf, loop, batch, outboxVars, crashes>>

EndPipeline(l) ==
    /\ pipe[l] = "next" /\ batch[l] = {}
    /\ pipe' = [pipe EXCEPT ![l] = "ok"]
    /\ UNCHANGED <<consoleVars, buf, loop, batch, unit, outboxVars, crashes>>

Dispatch(l) ==
    /\ unit[l] = "queued"
    /\ unit' = [unit EXCEPT ![l] = "send"]
    /\ UNCHANGED <<consoleVars, buf, loop, pipe, batch, outboxVars, crashes>>

\* The unit for e returned: the pipeline goes on or ends, unless it was stopped
\* meanwhile.
UnitEnds(l, e, result) ==
    /\ unit' = [unit EXCEPT ![l] = "none"]
    /\ batch' = [batch EXCEPT ![l] = IF result = "next" THEN @ \ {e} ELSE @]
    /\ pipe' = [pipe EXCEPT ![l] = IF @ = "await" THEN result ELSE @]
    /\ UNCHANGED <<consoleVars, buf, loop, last, outbox, unknown, crashes>>

\* Build does not know the event's kind: it is skipped.
SkipUnknown(l, e) ==
    /\ unit[l] = "send" /\ First(l, e) /\ e \in unknown
    /\ UnitEnds(l, e, "next")
    /\ UNCHANGED delivered

\* The console took the status.
StatusSent(l) ==
    /\ unit[l] = "send" /\ First(l, Status)
    /\ UnitEnds(l, Status, "next")
    /\ UNCHANGED delivered

\* The console took the event; DeleteUpTo is next.
EventSent(l, e) ==
    /\ unit[l] = "send" /\ First(l, e) /\ e \in Ids \ unknown
    /\ delivered' = delivered \cup {e}
    /\ unit' = [unit EXCEPT ![l] = "delete"]
    /\ UNCHANGED <<consoleVars, buf, loop, pipe, batch, last, outbox, unknown, crashes>>

\* The request failed, possibly after the console took it; a 4xx answer is
\* fatal.
SendFails(l, e, result) ==
    /\ Outages
    /\ unit[l] = "send" /\ First(l, e) /\ e \notin unknown
    /\ UnitEnds(l, e, result)
    /\ \/ UNCHANGED delivered
       \/ result = "error" /\ e # Status /\ delivered' = delivered \cup {e}

\* Mutant: everything in the outbox is cleared.
DeleteUpToAll(l, e) ==
    /\ unit[l] = "delete" /\ First(l, e)
    /\ outbox' = {}
    /\ unit' = [unit EXCEPT ![l] = "none"]
    /\ batch' = [batch EXCEPT ![l] = @ \ {e}]
    /\ pipe' = [pipe EXCEPT ![l] = IF @ = "await" THEN "next" ELSE @]
    /\ UNCHANGED <<consoleVars, buf, loop, last, unknown, delivered, crashes>>

\* Mutant: WHERE id < e.
DeleteUpToBefore(l, e) ==
    /\ unit[l] = "delete" /\ First(l, e)
    /\ outbox' = {i \in outbox : i >= e}
    /\ unit' = [unit EXCEPT ![l] = "none"]
    /\ batch' = [batch EXCEPT ![l] = @ \ {e}]
    /\ pipe' = [pipe EXCEPT ![l] = IF @ = "await" THEN "next" ELSE @]
    /\ UNCHANGED <<consoleVars, buf, loop, last, unknown, delivered, crashes>>

\* DELETE FROM outbox WHERE id <= e, in the order of the single connection.
DeleteUpTo(l, e) ==
    /\ unit[l] = "delete" /\ First(l, e)
    /\ outbox' = {i \in outbox : i > e}
    /\ unit' = [unit EXCEPT ![l] = "none"]
    /\ batch' = [batch EXCEPT ![l] = @ \ {e}]
    /\ pipe' = [pipe EXCEPT ![l] = IF @ = "await" THEN "next" ELSE @]
    /\ UNCHANGED <<consoleVars, buf, loop, last, unknown, delivered, crashes>>

DeleteFails(l, e) ==
    /\ Outages
    /\ unit[l] = "delete" /\ First(l, e)
    /\ UnitEnds(l, e, "error")
    /\ UNCHANGED delivered

-----------------------------------------------------------------------------
(* Producers and restarts. *)

\* EventService.Add*: the sequence gives the next id.
Insert ==
    /\ last < MaxEvents
    /\ last' = last + 1
    /\ outbox' = outbox \cup {last + 1}
    /\ \/ UNCHANGED unknown
       \/ unknown' = unknown \cup {last + 1}
    /\ UNCHANGED <<consoleVars, loopVars, delivered, crashes>>

\* The process dies and is started again on what was persisted.
Restart ==
    /\ crashes < MaxCrashes
    /\ crashes' = crashes + 1
    /\ target' = mode
    /\ current' = "disconnected" /\ err' = FALSE /\ fatal' = FALSE
    /\ close' = FirstClose(mode) /\ api' = "idle" /\ halting' = FALSE
    /\ buf' = [l \in Loops |-> 0]
    /\ loop' = FirstLoop(mode)
    /\ pipe' = [l \in Loops |-> "none"]
    /\ batch' = [l \in Loops |-> {}]
    /\ unit' = [l \in Loops |-> "none"]
    /\ UNCHANGED <<mode, outboxVars>>

-----------------------------------------------------------------------------
LoopStep(l) ==
    \/ CreatePipeline(l, "start") \/ CreatePipeline(l, "create")
    \/ FirstCreateFails(l) \/ CreateFails(l)
    \/ Park(l) \/ CloseSignal(l) \/ Tick(l) \/ Skip(l) \/ Check(l)
    \/ StopPipeline(l) \/ CloseSched(l) \/ Ack(l)

UnitStep(l, e) ==
    \/ SkipUnknown(l, e) \/ EventSent(l, e)
    \/ SendFails(l, e, "error") \/ SendFails(l, e, "fatal")
    \/ DeleteUpTo(l, e) \/ DeleteFails(l, e)

WorkStep(l) ==
    \/ Submit(l) \/ EndPipeline(l) \/ Dispatch(l) \/ StatusSent(l)
    \/ \E e \in 0..MaxEvents : UnitStep(l, e)

Next ==
    \/ Disconnect \/ Stop \/ SendClose \/ RecvAck
    \/ Insert \/ Restart
    \/ \E l \in Loops : Connect(l) \/ LoopStep(l) \/ WorkStep(l)

Spec == Init /\ [][Next]_vars

\* Every goroutine that can take a step takes one, a tick comes, a request ends
\* (Stop cancels its context); and a request or a deletion that is tried again
\* and again succeeds at last.
Fairness ==
    /\ WF_vars(SendClose) /\ WF_vars(RecvAck)
    /\ \A l \in Loops :
          /\ WF_vars(LoopStep(l)) /\ WF_vars(WorkStep(l))
          /\ SF_vars(StatusSent(l))
          /\ \A e \in Ids : SF_vars(EventSent(l, e)) /\ SF_vars(DeleteUpTo(l, e))

FairSpec == Spec /\ Fairness

-----------------------------------------------------------------------------
(* Properties that hold. *)

Known == (1..last) \ unknown

\* An event the agent wrote is never lost: until the console has it, it is in
\* the outbox, whatever fails, restarts, or is written while a pipeline runs
\* (createPipeline's snapshot, DeleteUpTo).
NoEventLost == Known \subseteq outbox \cup delivered

\* The console learns of the events in the order they were written: when it has
\* one it has every earlier one, also when a pipeline is retried or two loops
\* deliver at the same time.
DeliveredInOrder ==
    \A i, j \in Known : i < j /\ j \in delivered => i \in delivered

\* Events of the snapshot of l that were passed over have been delivered.
BatchIsSuffix(l) ==
    \A e \in batch[l] : \A i \in Known : i < e /\ i \notin batch[l] => i \in delivered

\* The unit of l that is about to clear the outbox has delivered its event.
DeletesDelivered(l) ==
    unit[l] = "delete" =>
        \A e \in batch[l] : First(l, e) => e \in delivered

\* A unit of l is in flight only for a pipeline that awaits it or was stopped
\* while it did; so none is when l makes its next pipeline.
UnitHasPipeline(l) ==
    /\ pipe[l] \notin {"await", "stopped"} => unit[l] = "none"
    /\ loop[l] \in {"none", "start"} => pipe[l] = "none"
    /\ loop[l] = "create" => pipe[l] \in {"ok", "error"}

\* The inductive invariant behind the two.
IndInv ==
    /\ TypeOK
    /\ NoEventLost
    /\ DeliveredInOrder
    /\ \A l \in Loops : BatchIsSuffix(l) /\ DeletesDelivered(l) /\ UnitHasPipeline(l)

\* SetMode and Stop return, whether the loop is waiting, working, has failed or
\* is already gone.
SetModeReturns == api # "idle" ~> api = "idle"

Live(l) == loop[l] \notin {"none", "ack", "gone"}

\* While the agent stays connected, the console has not refused it and the run
\* loop lives, an event leaves the outbox sooner or later, across failed
\* requests, failed deletions and restarts.
EventsDelivered ==
    \A e \in Ids :
        e \in outbox /\ e \in Known
            ~> \/ e \notin outbox \/ mode = "disconnected" \/ fatal \/ halting
               \/ \A l \in Loops : ~Live(l)

-----------------------------------------------------------------------------
(* What the repository says and the code does not do. *)

\* docs/e2e-tests.md: the agent stops making requests after it was switched to
\* disconnected mode.
DisconnectedIsSilent ==
    mode = "disconnected" /\ api = "idle" => \A l \in Loops : ~Live(l)

\* run's comment: only a fatal error stops the loop of a connected agent.
ConnectedIsServed ==
    mode = "connected" /\ api = "idle" /\ ~fatal /\ ~halting => \E l \in Loops : Live(l)

\* console_test.go: a stale error is cleared when switching to disconnected
\* mode.
ErrorIsCleared ==
    mode = "disconnected" /\ api = "idle" /\ (\A l \in Loops : ~Live(l)) => ~err
=============================================================================
