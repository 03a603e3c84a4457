------------------------------ MODULE Console1 ------------------------------
(***************************************************************************)
(* internal/services/v1/console.go: the console service of an agent that   *)
(* serves API v1.  SetMode, Stop and run speak the protocol of Console over *)
(* the same channel, on the same scheduler; what differs is the pipeline.  *)
(* An event is not deleted when it was delivered: one last unit, "clear",  *)
(* deletes the events of the snapshot together.                            *)
(***************************************************************************)
EXTENDS Console

VARIABLE clear        \* per run: lastID of the pipeline's clear unit, 0 if it
                      \* has none or the unit is done

vars1 == <<vars, clear>>

\* TypeOK, and what a clear unit deletes was written.
TypeOK1 == TypeOK /\ clear \in [Loops -> 0..last]

\* NewConsoleService, newConsoleService.
Init1 == Init /\ clear = [l \in Loops |-> 0]

Connect1(l) == Connect(l) /\ UNCHANGED clear

\* SetMode("disconnected"): the error stays.
Disconnect1 ==
    /\ api = "idle" /\ ~halting /\ mode # "disconnected" /\ ~fatal
    /\ mode' = "disconnected" /\ target' = "disconnected"
    /\ api' = IF close = 0 THEN "idle" ELSE "send"
    /\ UNCHANGED <<current, err, fatal, close, halting, loopVars, outboxVars, crashes, clear>>

Stop1 == Stop /\ UNCHANGED clear

SetModeWaits1 == (SendClose \/ RecvAck) /\ UNCHANGED clear

\* The body of run after the first createPipeline, and its deferred exit.
Run1(l) ==
    /\ \/ FirstCreateFails(l) \/ CreateFails(l)
       \/ Park(l) \/ CloseSignal(l) \/ Tick(l) \/ Skip(l) \/ Check(l)
       \/ StopPipeline(l) \/ CloseSched(l) \/ Ack(l)
    /\ UNCHANGED clear

-----------------------------------------------------------------------------
(* createPipeline and its units. *)

\* lastID is the id of the last event read, as Get orders them.
LastId(events) == IF events = {} THEN 0 ELSE CHOOSE e \in events : \A i \in events : i <= e

createPipeline(l, from) ==
    /\ CreatePipeline(l, from)
    /\ clear' = [clear EXCEPT ![l] = LastId(outbox)]

\* The pipeline has a next unit: an event's, or the clear unit.
Submit1(l) ==
    /\ pipe[l] = "next" /\ (batch[l] # {} \/ clear[l] # 0)
    /\ pipe' = [pipe EXCEPT ![l] = "await"]
    /\ unit' = [unit EXCEPT ![l] = "queued"]
    /\ UNCHANGED <<consoleVars, buf, loop, batch, outboxVars, crashes, clear>>

EndPipeline1(l) == clear[l] = 0 /\ EndPipeline(l) /\ UNCHANGED clear

\* The worker takes it.
Dispatch1(l) ==
    /\ unit[l] = "queued"
    /\ unit' = [unit EXCEPT ![l] = IF batch[l] = {} THEN "delete" ELSE "send"]
    /\ UNCHANGED <<consoleVars, buf, loop, pipe, batch, outboxVars, crashes, clear>>

EventSent1(l, e) ==
    /\ unit[l] = "send" /\ First(l, e) /\ e \in Ids \ unknown
    /\ UnitEnds(l, e, "next")
    /\ delivered' = delivered \cup {e}
    /\ UNCHANGED clear

StatusSent1(l) == StatusSent(l) /\ UNCHANGED clear

OtherEnds1(l, e) ==
    /\ \/ SkipUnknown(l, e)
       \/ SendFails(l, e, "error") \/ SendFails(l, e, "fatal")
    /\ UNCHANGED clear

\* The clear unit: DELETE FROM outbox WHERE id <= lastID.
Clear(l) ==
    /\ unit[l] = "delete"
    /\ outbox' = {i \in outbox : i > clear[l]}
    /\ clear' = [clear EXCEPT ![l] = 0]
    /\ unit' = [unit EXCEPT ![l] = "none"]
    /\ pipe' = [pipe EXCEPT ![l] = IF @ = "await" THEN "next" ELSE @]
    /\ UNCHANGED <<consoleVars, buf, loop, batch, last, unknown, delivered, crashes>>

ClearFails(l) ==
    /\ Outages /\ unit[l] = "delete"
    /\ unit' = [unit EXCEPT ![l] = "none"]
    /\ pipe' = [pipe EXCEPT ![l] = IF @ = "await" THEN "error" ELSE @]
    /\ UNCHANGED <<consoleVars, buf, loop, batch, outboxVars, crashes, clear>>

-----------------------------------------------------------------------------
\* EventService: Add writes, and the process may die and start again.
Insert1 == Insert /\ UNCHANGED clear

Restart1 == Restart /\ clear' = [l \in Loops |-> 0]

LoopStep1(l) == createPipeline(l, "start") \/ createPipeline(l, "create") \/ Run1(l)

WorkStep1(l) ==
    \/ Submit1(l) \/ EndPipeline1(l) \/ Dispatch1(l) \/ StatusSent1(l)
    \/ Clear(l) \/ ClearFails(l)
    \/ \E e \in 0..MaxEvents : EventSent1(l, e) \/ OtherEnds1(l, e)

Next1 ==
    \/ Disconnect1 \/ Stop1 \/ SetModeWaits1 \/ Insert1 \/ Restart1
    \/ \E l \in Loops : Connect1(l) \/ LoopStep1(l) \/ WorkStep1(l)

Spec1 == Init1 /\ [][Next1]_vars1

-----------------------------------------------------------------------------
(* The inductive invariant of Console_proofs for this generation *)

\* The clear unit comes after all others, and what it is to delete is delivered
\* or still in the snapshot.
ClearsDelivered(l) ==
    /\ unit[l] = "delete" => batch[l] = {}
    /\ \A i \in Known : i <= clear[l] => i \in delivered \cup batch[l]

IndInv1 ==
    /\ TypeOK1 /\ NoEventLost /\ DeliveredInOrder
    /\ \A l \in Loops : BatchIsSuffix(l) /\ UnitHasPipeline(l) /\ ClearsDelivered(l)
=============================================================================
