---------------------------- MODULE Console_proofs ----------------------------
(***************************************************************************)
(* Proofs about Console and Console1: events are neither lost nor          *)
(* overtaken, for any number of events, run loops and restarts, whatever   *)
(* fails.                                                                  *)
(***************************************************************************)
EXTENDS Console1, WellFoundedInduction, TLAPS

\* What the invariant says about deliveries.
Delivery ==
    /\ NoEventLost
    /\ DeliveredInOrder
    /\ \A l \in Loops : BatchIsSuffix(l) /\ DeletesDelivered(l)

\* The callers of SetMode and Stop preserve the types.
LEMMA ApiType ==
    ASSUME TypeOK, Disconnect \/ Stop \/ SendClose \/ RecvAck \/ \E l \in Loops : Connect(l)
    PROVE  TypeOK'
<1> USE DEF TypeOK
<1>1. OutboxOK' /\ last' = last /\ crashes' \in 0..MaxCrashes
  BY DEF Disconnect, Stop, SendClose, RecvAck, Connect, outboxVars, OutboxOK
<1>2. ConsoleOK'
  <2> USE DEF ConsoleOK, Modes
  <2>1. CASE Disconnect \/ Stop \/ SendClose
    BY <2>1 DEF Disconnect, Stop, SendClose
  <2>2. CASE RecvAck
    BY <2>2, ConsoleAssumption DEF RecvAck
  <2>3. CASE \E l \in Loops : Connect(l)
    BY <2>3, ConsoleAssumption DEF Connect, Loops
  <2> QED
    BY <2>1, <2>2, <2>3
<1>3. LoopsOK'
  <2> USE DEF LoopsOK, LoopStates
  <2>1. CASE Disconnect \/ Stop
    BY <1>1, <2>1 DEF Disconnect, Stop, loopVars
  <2>2. CASE SendClose
    BY <1>1, <2>2 DEF SendClose
  <2>3. CASE RecvAck
    BY <1>1, <2>3 DEF RecvAck
  <2>4. CASE \E l \in Loops : Connect(l)
    BY <1>1, <2>4 DEF Connect
  <2> QED
    BY <2>1, <2>2, <2>3, <2>4
<1> QED
  BY <1>1, <1>2, <1>3

\* So do the run loops.
LEMMA LoopType ==
    ASSUME TypeOK, NEW l \in Loops, LoopStep(l)
    PROVE  TypeOK'
<1> USE DEF TypeOK
<1>1. OutboxOK' /\ last' = last /\ crashes' \in 0..MaxCrashes
  BY DEF LoopStep, CreatePipeline, FirstCreateFails, CreateFails, Park, CloseSignal,
         Tick, Skip, Check, StopPipeline, CloseSched, Ack, outboxVars, OutboxOK
<1>2. CASE CreatePipeline(l, "start") \/ CreatePipeline(l, "create")
  <2>1. {Status} \cup outbox \in SUBSET (0..last)
    BY DEF OutboxOK, Status
  <2>2. LoopsOK'
    BY <1>1, <1>2, <2>1 DEF CreatePipeline, LoopsOK, LoopStates
  <2> QED
    BY <1>1, <1>2, <2>2 DEF CreatePipeline, consoleVars, ConsoleOK
<1>3. CASE FirstCreateFails(l) \/ CreateFails(l) \/ Check(l) \/ CloseSched(l)
  <2>1. ConsoleOK'
    BY <1>3 DEF FirstCreateFails, CreateFails, Check, CloseSched, ConsoleOK, Modes
  <2>2. LoopsOK'
    BY <1>1, <1>3 DEF FirstCreateFails, CreateFails, Check, CloseSched, LoopsOK, LoopStates
  <2> QED
    BY <1>1, <2>1, <2>2
<1>4. CASE Park(l) \/ CloseSignal(l) \/ Tick(l) \/ Skip(l) \/ Ack(l)
  <2>1. ConsoleOK'
    BY <1>4 DEF Park, CloseSignal, Tick, Skip, Ack, consoleVars, ConsoleOK
  <2>2. LoopsOK'
    BY <1>1, <1>4 DEF Park, CloseSignal, Tick, Skip, Ack, LoopsOK, LoopStates
  <2> QED
    BY <1>1, <2>1, <2>2
<1>5. CASE StopPipeline(l)
  <2>1. ConsoleOK'
    BY <1>5 DEF StopPipeline, consoleVars, ConsoleOK
  <2>2. LoopsOK'
    BY <1>1, <1>5 DEF StopPipeline, LoopsOK, LoopStates
  <2> QED
    BY <1>1, <2>1, <2>2
<1> QED
  BY <1>2, <1>3, <1>4, <1>5 DEF LoopStep

\* And the pipelines with their units.
LEMMA WorkType ==
    ASSUME TypeOK, NEW l \in Loops, WorkStep(l)
    PROVE  TypeOK'
<1> USE DEF TypeOK
<1>1. ConsoleOK' /\ last' = last /\ crashes' \in 0..MaxCrashes
  BY DEF WorkStep, Submit, EndPipeline, Dispatch, StatusSent, UnitStep, SkipUnknown,
         EventSent, SendFails, DeleteUpTo, DeleteFails, UnitEnds, consoleVars, outboxVars,
         ConsoleOK
<1>2. CASE Submit(l) \/ EndPipeline(l) \/ Dispatch(l)
  BY <1>1, <1>2 DEF Submit, EndPipeline, Dispatch, outboxVars, OutboxOK, LoopsOK
<1>3. ASSUME NEW e, NEW r \in {"next", "error", "fatal"}, UnitEnds(l, e, r) PROVE LoopsOK'
  BY <1>1, <1>3 DEF UnitEnds, LoopsOK
<1>4. CASE StatusSent(l)
  BY <1>1, <1>3, <1>4 DEF StatusSent, UnitEnds, OutboxOK
<1>5. ASSUME NEW e \in 0..MaxEvents, UnitStep(l, e) PROVE TypeOK'
  <2>1. First(l, e)
    BY <1>5 DEF UnitStep, SkipUnknown, EventSent, SendFails, DeleteUpTo, DeleteFails
  <2>2. e \in 0..last
    BY <2>1 DEF First, LoopsOK
  <2>3. CASE SkipUnknown(l, e) \/ DeleteFails(l, e)
    BY <1>1, <1>3, <2>3 DEF SkipUnknown, DeleteFails, UnitEnds, OutboxOK
  <2>4. ASSUME NEW r \in {"error", "fatal"}, SendFails(l, e, r) PROVE TypeOK'
    <3>1. OutboxOK'
      <4>1. e # Status => e \in 1..last
        BY <2>2 DEF Status, OutboxOK
      <4>2. UNCHANGED <<last, outbox, unknown>>
        BY <2>4 DEF SendFails, UnitEnds
      <4>3. delivered' \in SUBSET (1..last)
        BY <2>4, <4>1 DEF SendFails, OutboxOK
      <4> QED
        BY <4>2, <4>3 DEF OutboxOK
    <3> QED
      BY <1>1, <1>3, <2>4, <3>1 DEF SendFails
  <2>5. CASE EventSent(l, e)
    <3>1. OutboxOK'
      BY <2>2, <2>5 DEF EventSent, OutboxOK, Ids
    <3>2. LoopsOK'
      BY <1>1, <2>5 DEF EventSent, LoopsOK
    <3> QED
      BY <1>1, <3>1, <3>2
  <2>6. CASE DeleteUpTo(l, e)
    <3>1. OutboxOK'
      BY <2>6 DEF DeleteUpTo, OutboxOK
    <3>2. LoopsOK'
      BY <1>1, <2>6 DEF DeleteUpTo, LoopsOK
    <3> QED
      BY <1>1, <3>1, <3>2
  <2> QED
    BY <1>5, <2>3, <2>4, <2>5, <2>6 DEF UnitStep
<1> QED
  BY <1>2, <1>4, <1>5 DEF WorkStep

\* Every step preserves the types.
LEMMA TypeStep == TypeOK /\ [Next]_vars => TypeOK'
<1> SUFFICES ASSUME TypeOK, [Next]_vars PROVE TypeOK'
  OBVIOUS
<1>1. CASE Insert
  <2>1. OutboxOK'
    <3>1. last' \in 0..MaxEvents /\ 1..last \subseteq 1..last' /\ last + 1 \in 1..last'
      BY <1>1, ConsoleAssumption DEF TypeOK, Insert, OutboxOK
    <3> QED
      BY <1>1, <3>1 DEF TypeOK, Insert, OutboxOK
  <2>2. LoopsOK'
    <3>1. \A B \in SUBSET (0..last) : B \in SUBSET (0..last')
      BY <1>1, ConsoleAssumption DEF TypeOK, OutboxOK, Insert
    <3> QED
      BY <1>1, <3>1 DEF TypeOK, LoopsOK, Insert, loopVars
  <2> QED
    BY <1>1, <2>1, <2>2 DEF TypeOK, Insert, consoleVars, ConsoleOK
<1>2. CASE Restart
  <2>1. ConsoleOK'
    <3>1. FirstClose(mode) \in 0..MaxLoops
      BY ConsoleAssumption DEF FirstClose
    <3> QED
      BY <1>2, <3>1 DEF TypeOK, ConsoleOK, Modes, Restart
  <2>2. LoopsOK'
    BY <1>2 DEF TypeOK, LoopsOK, LoopStates, Restart, FirstLoop
  <2>3. OutboxOK' /\ crashes' \in 0..MaxCrashes
    BY <1>2, ConsoleAssumption DEF TypeOK, OutboxOK, Restart, outboxVars
  <2> QED
    BY <2>1, <2>2, <2>3 DEF TypeOK
<1>3. CASE UNCHANGED vars
  BY <1>3 DEF TypeOK, ConsoleOK, LoopsOK, OutboxOK, vars, consoleVars, loopVars, outboxVars
<1> QED
  BY <1>1, <1>2, <1>3, ApiType, LoopType, WorkType DEF Next

\* A run loop makes a pipeline only when no unit of the last one is in flight.
LEMMA UnitHasPipelineStep ==
    ASSUME TypeOK, [Next]_vars, NEW k \in Loops, UnitHasPipeline(k)
    PROVE  UnitHasPipeline(k)'
<1> USE DEF TypeOK, LoopsOK, UnitHasPipeline
<1>1. CASE Disconnect \/ Stop \/ Insert \/ RecvAck \/ UNCHANGED vars
  BY <1>1 DEF Disconnect, Stop, Insert, RecvAck, vars, loopVars
<1>2. CASE SendClose
  BY <1>2 DEF SendClose
<1>3. CASE Restart
  BY <1>3 DEF Restart, FirstLoop
<1>4. ASSUME NEW l \in Loops, Connect(l) PROVE UnitHasPipeline(k)'
  BY <1>4 DEF Connect
<1>5. ASSUME NEW l \in Loops, LoopStep(l) PROVE UnitHasPipeline(k)'
  <2>1. CASE CreatePipeline(l, "start") \/ CreatePipeline(l, "create")
    BY <2>1 DEF CreatePipeline
  <2>2. CASE FirstCreateFails(l) \/ CreateFails(l) \/ Park(l) \/ CloseSignal(l) \/ Tick(l)
    BY <2>2 DEF FirstCreateFails, CreateFails, Park, CloseSignal, Tick
  <2>3. CASE Skip(l) \/ Check(l) \/ StopPipeline(l) \/ CloseSched(l) \/ Ack(l)
    BY <2>3 DEF Skip, Check, StopPipeline, CloseSched, Ack
  <2> QED
    BY <1>5, <2>1, <2>2, <2>3 DEF LoopStep
<1>6. ASSUME NEW l \in Loops, WorkStep(l) PROVE UnitHasPipeline(k)'
  <2>1. CASE Submit(l) \/ EndPipeline(l) \/ Dispatch(l)
    BY <2>1 DEF Submit, EndPipeline, Dispatch
  <2>2. ASSUME NEW e, NEW r \in {"next", "error", "fatal"}, unit[l] # "none", UnitEnds(l, e, r)
        PROVE  UnitHasPipeline(k)'
    BY <2>2 DEF UnitEnds
  <2>3. CASE StatusSent(l)
    BY <2>2, <2>3 DEF StatusSent
  <2>4. ASSUME NEW e \in 0..MaxEvents, UnitStep(l, e) PROVE UnitHasPipeline(k)'
    <3>1. CASE SkipUnknown(l, e) \/ DeleteFails(l, e)
               \/ SendFails(l, e, "error") \/ SendFails(l, e, "fatal")
      BY <2>2, <3>1 DEF SkipUnknown, DeleteFails, SendFails
    <3>2. CASE EventSent(l, e) \/ DeleteUpTo(l, e)
      BY <3>2 DEF EventSent, DeleteUpTo
    <3> QED
      BY <2>4, <3>1, <3>2 DEF UnitStep
  <2> QED
    BY <1>6, <2>1, <2>3, <2>4 DEF WorkStep
<1> QED
  BY <1>1, <1>2, <1>3, <1>4, <1>5, <1>6 DEF Next

\* A step that leaves the outbox and every snapshot alone, and begins no
\* deletion.
LEMMA QuietStep ==
    ASSUME TypeOK, Delivery, UNCHANGED <<outboxVars, batch>>,
           \A k \in Loops : unit'[k] = "delete" => unit[k] = "delete"
    PROVE  Delivery'
BY DEF Delivery, NoEventLost, DeliveredInOrder, BatchIsSuffix, DeletesDelivered, First,
       Known, outboxVars

\* Units in flight deal with the first event of their snapshot: what precedes
\* it has been delivered.
LEMMA BeforeFirst ==
    ASSUME TypeOK, Delivery, NEW l \in Loops, NEW e, First(l, e)
    PROVE  /\ e \in 0..last
           /\ \A i \in Known : i < e => i \in delivered
           /\ \A f : First(l, f) => f = e
<1>1. batch[l] \subseteq 0..last /\ last \in Nat
  BY ConsoleAssumption DEF TypeOK, LoopsOK, OutboxOK
<1>2. e \in 0..last
  BY <1>1 DEF First
<1>3. ASSUME NEW i \in Known, i < e PROVE i \in delivered
  <2>1. i \in 1..last
    BY DEF Known
  <2>2. i \notin batch[l]
    BY <1>1, <1>2, <1>3, <2>1 DEF First
  <2> QED
    BY <1>3, <2>2 DEF First, Delivery, BatchIsSuffix
<1>4. ASSUME NEW f, First(l, f) PROVE f = e
  BY <1>1, <1>4 DEF First
<1> QED
  BY <1>2, <1>3, <1>4

\* The console takes an event, or it may have: everything before it is there.
LEMMA DeliverStep ==
    ASSUME TypeOK, Delivery, NEW l \in Loops, NEW e, First(l, e),
           delivered' = delivered \cup {e}, UNCHANGED <<last, outbox, unknown, batch>>,
           \A k \in Loops : unit'[k] = "delete" => unit[k] = "delete" \/ k = l
    PROVE  Delivery'
<1>1. Known' = Known /\ \A k \in Loops : \A f : First(k, f)' <=> First(k, f)
  BY DEF Known, First
<1>2. NoEventLost'
  BY <1>1 DEF Delivery, NoEventLost
<1>3. DeliveredInOrder'
  BY <1>1, BeforeFirst DEF Delivery, DeliveredInOrder
<1>4. ASSUME NEW k \in Loops PROVE BatchIsSuffix(k)' /\ DeletesDelivered(k)'
  <2>1. BatchIsSuffix(k)'
    BY <1>1 DEF Delivery, BatchIsSuffix
  <2>2. DeletesDelivered(k)'
    BY <1>1, BeforeFirst DEF Delivery, DeletesDelivered
  <2> QED
    BY <2>1, <2>2
<1> QED
  BY <1>2, <1>3, <1>4 DEF Delivery

\* A unit is done with the first event of its snapshot: it has been delivered,
\* or there was nothing to deliver.
LEMMA AdvanceStep ==
    ASSUME TypeOK, Delivery, NEW l \in Loops, NEW e, First(l, e),
           e \in Known => e \in delivered,
           UNCHANGED <<last, unknown, delivered>>,
           \A i \in outbox : i \in outbox' \/ i <= e,
           batch' = [batch EXCEPT ![l] = @ \ {e}],
           unit' = [unit EXCEPT ![l] = "none"]
    PROVE  Delivery'
<1> USE DEF TypeOK, LoopsOK
<1>1. Known' = Known /\ Known \subseteq Nat /\ e \in Nat
  <2>1. e \in Nat
    BY BeforeFirst, ConsoleAssumption DEF OutboxOK
  <2> QED
    BY <2>1 DEF Known
<1>2. NoEventLost'
  <2> SUFFICES ASSUME NEW i \in Known, i \notin delivered PROVE i \in outbox'
    BY <1>1 DEF NoEventLost
  <2>1. i \in outbox
    BY DEF Delivery, NoEventLost
  <2>2. i > e \/ i = e
    BY <1>1, BeforeFirst
  <2> QED
    BY <1>1, <2>1, <2>2
<1>3. DeliveredInOrder'
  BY <1>1 DEF Delivery, DeliveredInOrder
<1>4. ASSUME NEW k \in Loops PROVE BatchIsSuffix(k)' /\ DeletesDelivered(k)'
  <2>1. BatchIsSuffix(k)'
    BY <1>1 DEF Delivery, BatchIsSuffix
  <2>2. DeletesDelivered(k)'
    BY DEF Delivery, DeletesDelivered, First
  <2> QED
    BY <2>1, <2>2
<1> QED
  BY <1>2, <1>3, <1>4 DEF Delivery

\* createPipeline takes its snapshot when no unit is in flight.
LEMMA SnapshotStep ==
    ASSUME TypeOK, Delivery, NEW l \in Loops, UnitHasPipeline(l),
           NEW from \in {"start", "create"}, CreatePipeline(l, from)
    PROVE  Delivery'
<1> USE DEF TypeOK, LoopsOK
<1>1. unit[l] = "none" /\ unit' = unit /\ Known' = Known
  BY DEF CreatePipeline, UnitHasPipeline, outboxVars, Known
<1>2. NoEventLost' /\ DeliveredInOrder'
  BY <1>1 DEF CreatePipeline, outboxVars, Delivery, NoEventLost, DeliveredInOrder
<1>3. ASSUME NEW k \in Loops PROVE BatchIsSuffix(k)' /\ DeletesDelivered(k)'
  <2>1. CASE k = l
    <3>1. BatchIsSuffix(l)'
      BY <1>1 DEF CreatePipeline, outboxVars, Delivery, NoEventLost, BatchIsSuffix
    <3> QED
      BY <1>1, <2>1, <3>1 DEF DeletesDelivered
  <2>2. CASE k # l
    <3>1. batch'[k] = batch[k] /\ delivered' = delivered
      BY <2>2 DEF CreatePipeline, outboxVars
    <3> QED
      BY <1>1, <3>1 DEF Delivery, BatchIsSuffix, DeletesDelivered, First
  <2> QED
    BY <2>1, <2>2
<1> QED
  BY <1>2, <1>3 DEF Delivery

\* A new event has the largest id, and is in the outbox.
LEMMA InsertStep == TypeOK /\ Delivery /\ Insert => Delivery'
<1> SUFFICES ASSUME TypeOK, Delivery, Insert PROVE Delivery'
  OBVIOUS
<1>1. last \in Nat /\ delivered \subseteq 1..last
  BY ConsoleAssumption DEF TypeOK, OutboxOK
<1>2. Known' \subseteq Known \cup {last + 1} /\ outbox' = outbox \cup {last + 1}
  BY <1>1 DEF Insert, Known
<1>3. NoEventLost'
  BY <1>2 DEF Insert, Delivery, NoEventLost
<1>4. DeliveredInOrder'
  <2> SUFFICES ASSUME NEW i \in Known', NEW j \in Known', i < j, j \in delivered
               PROVE  i \in delivered
    BY DEF Insert, DeliveredInOrder
  <2>1. i # last + 1 /\ j # last + 1
    BY <1>1
  <2> QED
    BY <1>2, <2>1 DEF Delivery, DeliveredInOrder
<1>5. ASSUME NEW k \in Loops PROVE BatchIsSuffix(k)' /\ DeletesDelivered(k)'
  <2>1. batch' = batch /\ unit' = unit /\ delivered' = delivered
    BY DEF Insert, loopVars
  <2>2. \A e \in batch[k] : ~(last + 1 < e)
    BY <1>1 DEF TypeOK, LoopsOK
  <2>3. BatchIsSuffix(k)'
    BY <1>2, <2>1, <2>2 DEF Delivery, BatchIsSuffix
  <2>4. DeletesDelivered(k)'
    BY <2>1 DEF Delivery, DeletesDelivered, First
  <2> QED
    BY <2>3, <2>4
<1> QED
  BY <1>3, <1>4, <1>5 DEF Delivery

\* The units of a pipeline.
LEMMA UnitDelivery ==
    ASSUME TypeOK, Delivery, NEW l \in Loops, NEW e \in 0..MaxEvents, UnitStep(l, e)
    PROVE  Delivery'
<1> USE DEF TypeOK, LoopsOK
<1>1. First(l, e)
  BY DEF UnitStep, SkipUnknown, EventSent, SendFails, DeleteUpTo, DeleteFails
<1>2. CASE SkipUnknown(l, e)
  <2>1. e \notin Known
    BY <1>2 DEF SkipUnknown, Known
  <2>2. outbox' = outbox /\ UNCHANGED <<last, unknown, delivered>>
    BY <1>2 DEF SkipUnknown, UnitEnds
  <2>3. /\ batch' = [batch EXCEPT ![l] = @ \ {e}]
        /\ unit' = [unit EXCEPT ![l] = "none"]
    BY <1>2 DEF SkipUnknown, UnitEnds
  <2> QED
    BY <1>1, <2>1, <2>2, <2>3, AdvanceStep
<1>3. CASE EventSent(l, e)
  BY <1>1, <1>3, DeliverStep DEF EventSent
<1>4. ASSUME NEW r \in {"error", "fatal"}, SendFails(l, e, r) \/ DeleteFails(l, e)
      PROVE  Delivery'
  <2>1. UNCHANGED <<last, outbox, unknown, batch>>
    BY <1>4 DEF SendFails, DeleteFails, UnitEnds
  <2>2. \A k \in Loops : unit'[k] = "delete" => unit[k] = "delete"
    BY <1>4 DEF SendFails, DeleteFails, UnitEnds
  <2>3. CASE delivered' = delivered
    BY <2>1, <2>2, <2>3, QuietStep DEF outboxVars
  <2>4. CASE delivered' = delivered \cup {e}
    BY <1>1, <2>1, <2>2, <2>4, DeliverStep
  <2> QED
    BY <1>4, <2>3, <2>4 DEF SendFails, DeleteFails
<1>5. CASE DeleteUpTo(l, e)
  <2>1. e \in delivered
    BY <1>1, <1>5 DEF DeleteUpTo, Delivery, DeletesDelivered, First
  <2>2. \A i \in outbox : i \in outbox' \/ i <= e
    BY <1>5 DEF DeleteUpTo, OutboxOK
  <2> QED
    BY <1>1, <1>5, <2>1, <2>2, AdvanceStep DEF DeleteUpTo
<1> QED
  BY <1>2, <1>3, <1>4, <1>5 DEF UnitStep

\* Every step keeps deliveries complete and in order.
LEMMA DeliveryStep ==
    ASSUME TypeOK, Delivery, \A l \in Loops : UnitHasPipeline(l), [Next]_vars
    PROVE  Delivery'
<1> USE DEF TypeOK, LoopsOK
<1>1. CASE Disconnect \/ Stop \/ SendClose \/ RecvAck \/ UNCHANGED vars
  BY <1>1, QuietStep DEF Disconnect, Stop, SendClose, RecvAck, vars, loopVars
<1>2. CASE Insert
  BY <1>2, InsertStep
<1>3. CASE Restart
  BY <1>3 DEF Restart, outboxVars, Delivery, NoEventLost, DeliveredInOrder, Known,
              BatchIsSuffix, DeletesDelivered
<1>4. ASSUME NEW l \in Loops, Connect(l) PROVE Delivery'
  BY <1>4, QuietStep DEF Connect
<1>5. ASSUME NEW l \in Loops, LoopStep(l) PROVE Delivery'
  <2>1. CASE CreatePipeline(l, "start") \/ CreatePipeline(l, "create")
    BY <2>1, SnapshotStep
  <2>2. CASE FirstCreateFails(l) \/ CreateFails(l) \/ Park(l) \/ CloseSignal(l) \/ Tick(l)
    BY <2>2, QuietStep DEF FirstCreateFails, CreateFails, Park, CloseSignal, Tick
  <2>3. CASE Skip(l) \/ Check(l) \/ StopPipeline(l) \/ CloseSched(l) \/ Ack(l)
    BY <2>3, QuietStep DEF Skip, Check, StopPipeline, CloseSched, Ack
  <2> QED
    BY <1>5, <2>1, <2>2, <2>3 DEF LoopStep
<1>6. ASSUME NEW l \in Loops, WorkStep(l) PROVE Delivery'
  <2>1. CASE Submit(l) \/ EndPipeline(l) \/ Dispatch(l)
    BY <2>1, QuietStep DEF Submit, EndPipeline, Dispatch
  <2>2. CASE StatusSent(l)
    <3>1. Status \notin Known /\ First(l, Status)
      BY <2>2 DEF StatusSent, Status, Known
    <3>2. outbox' = outbox /\ UNCHANGED <<last, unknown, delivered>>
      BY <2>2 DEF StatusSent, UnitEnds
    <3>3. /\ batch' = [batch EXCEPT ![l] = @ \ {Status}]
          /\ unit' = [unit EXCEPT ![l] = "none"]
      BY <2>2 DEF StatusSent, UnitEnds
    <3> QED
      BY <3>1, <3>2, <3>3, AdvanceStep
  <2> QED
    BY <1>6, <2>1, <2>2, UnitDelivery DEF WorkStep
<1> QED
  BY <1>1, <1>2, <1>3, <1>4, <1>5, <1>6 DEF Next

\* Nothing was written and no loop has a snapshot when the agent first starts.
LEMMA InitIndInv == Init => IndInv
<1> SUFFICES ASSUME Init PROVE IndInv
  OBVIOUS
<1>1. OutboxOK /\ crashes \in 0..MaxCrashes
  BY ConsoleAssumption DEF Init, OutboxOK
<1>2. ConsoleOK
  <2>1. FirstClose(mode) \in 0..MaxLoops
    BY ConsoleAssumption DEF FirstClose
  <2> QED
    BY <2>1 DEF Init, ConsoleOK, Modes
<1>3. LoopsOK
  BY DEF Init, LoopsOK, LoopStates, FirstLoop
<1>4. Delivery
  BY DEF Init, Delivery, NoEventLost, DeliveredInOrder, Known, BatchIsSuffix,
         DeletesDelivered
<1>5. ASSUME NEW l \in Loops PROVE UnitHasPipeline(l)
  BY DEF Init, UnitHasPipeline, FirstLoop
<1> QED
  BY <1>1, <1>2, <1>3, <1>4, <1>5 DEF IndInv, TypeOK, Delivery

\* The inductive invariant holds in every reachable state of console.go: an
\* outbox snapshot is always a suffix of what the console has not seen, and the
\* unit that clears the outbox has delivered everything it clears.
THEOREM Invariance == Spec => []IndInv
<1>1. ASSUME IndInv, [Next]_vars PROVE IndInv'
  BY <1>1, TypeStep, DeliveryStep, UnitHasPipelineStep DEF IndInv, Delivery
<1> QED
  BY InitIndInv, <1>1, PTL DEF Spec

\* An event written to the outbox is in it until the console has it, for any
\* number of loops, restarts, lost answers and failed deletions.
THEOREM EventsAreNotLost == Spec => []NoEventLost
BY Invariance, PTL DEF IndInv

\* The console gets the events of createPipeline's snapshots in the order of
\* their ids, even when two loops deliver at the same time.
THEOREM EventsStayInOrder == Spec => []DeliveredInOrder
BY Invariance, PTL DEF IndInv

-----------------------------------------------------------------------------
(* Console1: the same promises, with one deletion at the end of a pipeline. *)

\* lastID is the last one.
LEMMA LastIdIsLast ==
    ASSUME NEW n \in Nat, NEW S \in SUBSET (1..n), S # {}
    PROVE  LastId(S) \in S /\ \A i \in S : i <= LastId(S)
<1> DEFINE above == {n - i : i \in S}
<1>1. \A i \in S : i \in Nat /\ n - i \in Nat
  OBVIOUS
<1>2. above \subseteq Nat /\ above # {}
  BY <1>1
<1>3. PICK d \in above : \A c \in above : ~ (<<c, d>> \in OpToRel(<, Nat))
  BY <1>2, WFMin, NatLessThanWellFounded
<1>4. \A c, e \in Nat : c < e => <<c, e>> \in OpToRel(<, Nat)
  BY Zenon DEF OpToRel
<1>5. \A c \in above : ~ (c < d)
  BY <1>2, <1>3, <1>4, Zenon
<1>6. PICK e \in S : d = n - e
  OBVIOUS
<1>7. \A i \in S : i <= e
  <2>1. \A i \in S : ~ (n - i < n - e)
    BY <1>5, <1>6
  <2> QED
    BY <1>1, <2>1
<1> QED
  BY <1>7 DEF LastId

\* What the invariant of Console1 says of Console's variables.
Delivery1 ==
    /\ TypeOK /\ Delivery
    /\ \A l \in Loops : UnitHasPipeline(l)

LEMMA OfConsole == IndInv1 => Delivery1
<1> SUFFICES ASSUME IndInv1 PROVE Delivery1
  OBVIOUS
<1>1. ASSUME NEW l \in Loops PROVE DeletesDelivered(l)
  BY DEF IndInv1, ClearsDelivered, DeletesDelivered
<1> QED
  BY <1>1 DEF IndInv1, TypeOK1, Delivery1, Delivery

\* A step of Console keeps them.
LEMMA ConsoleStep ==
    ASSUME IndInv1, [Next]_vars
    PROVE  Delivery1'
BY OfConsole, TypeStep, DeliveryStep, UnitHasPipelineStep DEF Delivery1

\* The rest of the invariant, for a loop whose clear unit is as before.
LEMMA ClearsKept ==
    ASSUME IndInv1, NEW k \in Loops, clear'[k] = clear[k],
           UNCHANGED <<last, unknown>>, delivered \subseteq delivered',
           \A i \in batch[k] : i \in batch'[k] \/ i \in delivered' \/ i \notin Known,
           unit'[k] = "delete" => unit[k] = "delete" /\ batch'[k] = batch[k]
    PROVE  ClearsDelivered(k)'
<1>1. Known' = Known /\ ClearsDelivered(k)
  BY DEF Known, IndInv1
<1> QED
  BY <1>1 DEF ClearsDelivered

\* The parts make up the invariant.
LEMMA Together1 ==
    ASSUME Delivery1', clear' \in [Loops -> 0..last'], \A k \in Loops : ClearsDelivered(k)'
    PROVE  IndInv1'
BY DEF Delivery1, Delivery, IndInv1, TypeOK1

\* The callers, and the loops between two pipelines.
LEMMA OtherStep1 ==
    ASSUME IndInv1, UNCHANGED <<outboxVars, batch, clear>>, Delivery1',
           \A k \in Loops : unit'[k] = "delete" => unit[k] = "delete"
    PROVE  IndInv1'
<1>1. clear' \in [Loops -> 0..last']
  BY DEF IndInv1, TypeOK1, outboxVars
<1>2. ASSUME NEW k \in Loops PROVE ClearsDelivered(k)'
  BY ClearsKept DEF outboxVars
<1> QED
  BY <1>1, <1>2, Together1

LEMMA ApiStep1 ==
    ASSUME IndInv1, Stop1 \/ SetModeWaits1 \/ \E l \in Loops : Connect1(l)
    PROVE  IndInv1'
<1>1. Next /\ UNCHANGED <<outboxVars, batch, unit, clear>>
  BY DEF Stop1, SetModeWaits1, Connect1, Next, Stop, SendClose, RecvAck, Connect, loopVars
<1>2. Delivery1'
  BY <1>1, ConsoleStep
<1> QED
  BY <1>1, <1>2, OtherStep1

LEMMA DisconnectStep1 ==
    ASSUME IndInv1, Disconnect1
    PROVE  IndInv1'
<1>1. UNCHANGED <<loopVars, outboxVars, crashes, clear>> /\ Delivery1
  BY OfConsole DEF Disconnect1
<1>2. ConsoleOK'
  BY <1>1 DEF Delivery1, TypeOK, ConsoleOK, Modes, Disconnect1
<1>3. TypeOK'
  BY <1>1, <1>2 DEF Delivery1, TypeOK, LoopsOK, OutboxOK, loopVars, outboxVars
<1>4. Delivery'
  BY <1>1, QuietStep DEF Delivery1, loopVars
<1>5. \A l \in Loops : UnitHasPipeline(l)'
  BY <1>1 DEF Delivery1, UnitHasPipeline, loopVars
<1> QED
  BY <1>1, <1>3, <1>4, <1>5, OtherStep1 DEF Delivery1, loopVars

LEMMA RunStep1 ==
    ASSUME IndInv1, NEW l \in Loops, Run1(l)
    PROVE  IndInv1'
<1>1. LoopStep(l) /\ UNCHANGED <<outboxVars, batch, clear>>
  BY DEF Run1, LoopStep, FirstCreateFails, CreateFails, Park, CloseSignal, Tick, Skip, Check,
         StopPipeline, CloseSched, Ack
<1>2. Delivery1'
  BY <1>1, ConsoleStep DEF Next
<1>3. \A k \in Loops : unit'[k] = "delete" => unit[k] = "delete"
  BY DEF Run1, FirstCreateFails, CreateFails, Park, CloseSignal, Tick, Skip, Check,
         StopPipeline, CloseSched, Ack, IndInv1, TypeOK1, TypeOK, LoopsOK
<1> QED
  BY <1>1, <1>2, <1>3, OtherStep1

\* The snapshot has every event that is to be cleared and was not delivered.
LEMMA CreateStep1 ==
    ASSUME IndInv1, NEW l \in Loops, NEW from \in {"start", "create"}, createPipeline(l, from)
    PROVE  IndInv1'
<1>1. CreatePipeline(l, from) /\ clear' = [clear EXCEPT ![l] = LastId(outbox)]
  BY DEF createPipeline
<1>2. Delivery1'
  BY <1>1, ConsoleStep DEF Next, LoopStep
<1>3. /\ TypeOK1 /\ NoEventLost /\ UnitHasPipeline(l)
      /\ last \in Nat /\ outbox \in SUBSET (1..last) /\ clear \in [Loops -> 0..last]
      /\ unit \in [Loops -> {"none", "queued", "send", "delete"}]
      /\ batch \in [Loops -> SUBSET (0..last)]
  BY ConsoleAssumption DEF IndInv1, TypeOK1, TypeOK, OutboxOK, LoopsOK
<1>4. UNCHANGED <<last, outbox, unknown, delivered, unit>>
      /\ batch' = [batch EXCEPT ![l] = {Status} \cup outbox]
  BY <1>1 DEF CreatePipeline, outboxVars
<1>5. clear' \in [Loops -> 0..last']
  <2>1. LastId(outbox) \in 0..last
    <3>1. CASE outbox = {}
      BY <1>3, <3>1 DEF LastId
    <3>2. CASE outbox # {}
      <4>1. LastId(outbox) \in outbox
        BY <1>3, <3>2, LastIdIsLast, Zenon
      <4>2. LastId(outbox) \in 1..last
        BY <1>3, <4>1, Zenon
      <4> HIDE DEF LastId
      <4> QED
        BY <1>3, <4>2
    <3> QED
      BY <3>1, <3>2
  <2> QED
    BY <1>1, <1>3, <1>4, <2>1
<1>6. ASSUME NEW k \in Loops PROVE ClearsDelivered(k)'
  <2>1. CASE k = l
    <3>1. unit[l] = "none"
      BY <1>1, <1>3 DEF CreatePipeline, UnitHasPipeline
    <3>2. batch'[l] = {Status} \cup outbox /\ Known' = Known /\ unit'[l] = "none"
      BY <1>3, <1>4, <3>1 DEF Known
    <3>3. \A i \in Known : i \in delivered' \cup batch'[l]
      BY <1>3, <1>4, <3>2 DEF NoEventLost
    <3> QED
      BY <2>1, <3>2, <3>3 DEF ClearsDelivered
  <2>2. CASE k # l
    <3>1. clear'[k] = clear[k] /\ batch'[k] = batch[k]
      BY <1>1, <1>3, <1>4, <2>2
    <3> QED
      BY <1>4, <3>1, ClearsKept
  <2> QED
    BY <2>1, <2>2
<1> QED
  BY <1>2, <1>5, <1>6, Together1

LEMMA ProducerStep1 ==
    ASSUME IndInv1, Insert1 \/ Restart1
    PROVE  IndInv1'
<1>0. /\ TypeOK1 /\ last \in Nat /\ clear \in [Loops -> 0..last]
  BY ConsoleAssumption DEF IndInv1, TypeOK1, TypeOK, OutboxOK
<1>1. CASE Insert1
  <2>1. Delivery1'
    BY <1>1, ConsoleStep DEF Insert1, Next
  <2>2. last' = last + 1 /\ clear' = clear /\ batch' = batch /\ unit' = unit /\ delivered' = delivered
        /\ unknown \subseteq unknown'
    BY <1>1 DEF Insert1, Insert, loopVars
  <2>3. clear' \in [Loops -> 0..last']
    BY <1>0, <2>2
  <2>4. ASSUME NEW k \in Loops PROVE ClearsDelivered(k)'
    <3>1. ClearsDelivered(k)
      BY DEF IndInv1
    <3>2. ASSUME NEW i \in Known', i <= clear'[k] PROVE i \in Known /\ i <= clear[k]
      BY <1>0, <2>2, <3>2 DEF Known
    <3> QED
      BY <2>2, <3>1, <3>2 DEF ClearsDelivered
  <2> QED
    BY <2>1, <2>3, <2>4, Together1
<1>2. CASE Restart1
  <2>1. Delivery1'
    BY <1>2, ConsoleStep DEF Restart1, Next
  <2>2. last' = last /\ clear' = [l \in Loops |-> 0] /\ unit' = [l \in Loops |-> "none"]
    BY <1>2 DEF Restart1, Restart, outboxVars
  <2>3. clear' \in [Loops -> 0..last']
    BY <1>0, <2>2
  <2>4. ASSUME NEW k \in Loops PROVE ClearsDelivered(k)'
    BY <1>0, <2>2 DEF ClearsDelivered, Known
  <2> QED
    BY <2>1, <2>3, <2>4, Together1
<1> QED
  BY <1>1, <1>2

\* Units of Console1 that end as in Console.
LEMMA UnitStep1 ==
    ASSUME IndInv1, NEW l \in Loops, NEW e \in 0..MaxEvents,
           EndPipeline1(l) \/ StatusSent1(l) \/ OtherEnds1(l, e)
    PROVE  IndInv1'
<1>0. TypeOK /\ clear \in [Loops -> 0..last] /\ batch \in [Loops -> SUBSET (0..last)]
      /\ unit \in [Loops -> {"none", "queued", "send", "delete"}]
  BY DEF IndInv1, TypeOK1, TypeOK, LoopsOK
<1>1. Next /\ UNCHANGED <<last, unknown, clear>> /\ delivered \subseteq delivered'
  BY DEF EndPipeline1, StatusSent1, OtherEnds1, Next, WorkStep, UnitStep, EndPipeline, StatusSent,
         SkipUnknown, SendFails, UnitEnds, outboxVars
<1>2. Delivery1'
  BY <1>1, ConsoleStep
<1>3. ASSUME NEW k \in Loops PROVE ClearsDelivered(k)'
  <2>1. /\ \A i \in batch[k] : i \in batch'[k] \/ i \notin Known
        /\ unit'[k] = "delete" => unit[k] = "delete" /\ batch'[k] = batch[k]
    <3>1. CASE EndPipeline1(l)
      BY <3>1 DEF EndPipeline1, EndPipeline
    <3>2. CASE StatusSent1(l)
      BY <1>0, <3>2 DEF StatusSent1, StatusSent, UnitEnds, Known, Status
    <3>3. CASE SkipUnknown(l, e)
      BY <1>0, <3>3 DEF SkipUnknown, UnitEnds, Known
    <3>4. CASE SendFails(l, e, "error") \/ SendFails(l, e, "fatal")
      BY <1>0, <3>4 DEF SendFails, UnitEnds
    <3> QED
      BY <3>1, <3>2, <3>3, <3>4 DEF OtherEnds1
  <2> QED
    BY <1>1, <2>1, ClearsKept
<1> QED
  BY <1>0, <1>1, <1>2, <1>3, Together1

\* What the steps that are Console1's own leave alone.
LEMMA OwnTypes ==
    ASSUME IndInv1, UNCHANGED <<consoleVars, buf, loop, last, unknown, crashes>>,
           pipe' \in [Loops -> {"none", "next", "await", "ok", "error", "fatal", "stopped"}],
           batch' \in [Loops -> SUBSET (0..last)],
           unit' \in [Loops -> {"none", "queued", "send", "delete"}],
           outbox' \in SUBSET (1..last), delivered' \in SUBSET (1..last)
    PROVE  TypeOK'
BY DEF IndInv1, TypeOK1, TypeOK, ConsoleOK, LoopsOK, OutboxOK, consoleVars

\* A unit is submitted, or a worker takes it: the clear unit when nothing else
\* is left.
LEMMA SubmitStep1 ==
    ASSUME IndInv1, NEW l \in Loops, Submit1(l) \/ Dispatch1(l) \/ ClearFails(l)
    PROVE  IndInv1'
<1>0. Delivery1 /\ TypeOK /\ LoopsOK /\ OutboxOK /\ clear \in [Loops -> 0..last]
  BY OfConsole DEF IndInv1, TypeOK1, TypeOK
<1>1. UNCHANGED <<consoleVars, buf, loop, batch, outboxVars, crashes, clear>>
  BY DEF Submit1, Dispatch1, ClearFails
<1>2. TypeOK'
  BY <1>0, <1>1, OwnTypes DEF Submit1, Dispatch1, ClearFails, LoopsOK, OutboxOK, outboxVars
<1>3. ASSUME NEW k \in Loops
      PROVE  unit'[k] = "delete" => unit[k] = "delete" \/ batch[k] = {}
  BY <1>0 DEF Submit1, Dispatch1, ClearFails, LoopsOK
<1>4. ASSUME NEW k \in Loops PROVE ClearsDelivered(k)'
  BY <1>1, <1>3 DEF IndInv1, ClearsDelivered, Known, outboxVars
<1>5. ASSUME NEW k \in Loops PROVE UnitHasPipeline(k)'
  BY <1>0, <1>1 DEF Submit1, Dispatch1, ClearFails, Delivery1, UnitHasPipeline, LoopsOK
<1>6. Delivery'
  <2>1. ASSUME NEW k \in Loops PROVE BatchIsSuffix(k)' /\ DeletesDelivered(k)'
    BY <1>0, <1>1, <1>4 DEF Delivery1, Delivery, BatchIsSuffix, Known, outboxVars, ClearsDelivered,
                            DeletesDelivered
  <2> QED
    BY <1>0, <1>1, <2>1 DEF Delivery1, Delivery, NoEventLost, DeliveredInOrder, Known, outboxVars
<1> QED
  BY <1>0, <1>1, <1>2, <1>4, <1>5, <1>6, Together1 DEF Delivery1, outboxVars

\* The console takes an event and the pipeline goes on to the next one.
LEMMA SentStep1 ==
    ASSUME IndInv1, NEW l \in Loops, NEW e, EventSent1(l, e)
    PROVE  IndInv1'
<1>0. Delivery1 /\ TypeOK /\ LoopsOK /\ OutboxOK /\ Delivery /\ clear \in [Loops -> 0..last]
      /\ \A k \in Loops : ClearsDelivered(k)
  BY OfConsole DEF IndInv1, TypeOK1, TypeOK, Delivery1
<1>1. /\ First(l, e) /\ e \in Ids /\ unit[l] = "send" /\ delivered' = delivered \cup {e}
      /\ UNCHANGED <<consoleVars, buf, loop, last, outbox, unknown, crashes, clear>>
      /\ batch' = [batch EXCEPT ![l] = @ \ {e}] /\ unit' = [unit EXCEPT ![l] = "none"]
      /\ pipe' = [pipe EXCEPT ![l] = IF @ = "await" THEN "next" ELSE @]
  BY DEF EventSent1, UnitEnds
<1>2. e \in 1..last /\ Known' = Known /\ \A i \in Known : i < e => i \in delivered
  BY <1>0, <1>1, BeforeFirst DEF Known, Ids, OutboxOK
<1>3. TypeOK'
  BY <1>0, <1>1, <1>2, OwnTypes DEF LoopsOK, OutboxOK
<1>4. ASSUME NEW k \in Loops PROVE UnitHasPipeline(k)'
  BY <1>0, <1>1 DEF Delivery1, UnitHasPipeline, LoopsOK
<1>5. ASSUME NEW k \in Loops PROVE BatchIsSuffix(k)' /\ DeletesDelivered(k)' /\ ClearsDelivered(k)'
  <2>1. batch'[k] \subseteq batch[k] /\ (unit'[k] = "delete" => unit[k] = "delete")
        /\ \A i \in batch[k] : i \in batch'[k] \/ i \in delivered'
    BY <1>0, <1>1 DEF LoopsOK
  <2>2. BatchIsSuffix(k)'
    BY <1>0, <1>1, <1>2, <2>1 DEF Delivery, BatchIsSuffix
  <2>3. ClearsDelivered(k)'
    BY <1>0, <1>1, <1>2, <2>1 DEF ClearsDelivered
  <2> QED
    BY <2>2, <2>3 DEF ClearsDelivered, DeletesDelivered
<1>6. NoEventLost' /\ DeliveredInOrder'
  <2>1. NoEventLost'
    BY <1>0, <1>1, <1>2 DEF Delivery, NoEventLost
  <2>2. DeliveredInOrder'
    BY <1>0, <1>1, <1>2 DEF Delivery, DeliveredInOrder
  <2> QED
    BY <2>1, <2>2
<1>7. clear' \in [Loops -> 0..last']
  BY <1>0, <1>1
<1> QED
  BY <1>3, <1>4, <1>5, <1>6, <1>7, Together1 DEF Delivery1, Delivery

\* The clear unit deletes what its pipeline has delivered, and nothing that was
\* written after the snapshot.
LEMMA ClearStep1 ==
    ASSUME IndInv1, NEW l \in Loops, Clear(l)
    PROVE  IndInv1'
<1>0. Delivery1 /\ TypeOK /\ LoopsOK /\ OutboxOK /\ Delivery /\ clear \in [Loops -> 0..last]
      /\ \A k \in Loops : ClearsDelivered(k)
  BY OfConsole DEF IndInv1, TypeOK1, TypeOK, Delivery1
<1>1. /\ unit[l] = "delete" /\ outbox' = {i \in outbox : i > clear[l]}
      /\ UNCHANGED <<consoleVars, buf, loop, last, unknown, batch, delivered, crashes>>
      /\ clear' = [clear EXCEPT ![l] = 0] /\ unit' = [unit EXCEPT ![l] = "none"]
      /\ pipe' = [pipe EXCEPT ![l] = IF @ = "await" THEN "next" ELSE @]
  BY DEF Clear
<1>2. Known' = Known /\ last \in Nat /\ Known \subseteq Nat
  BY <1>1, <1>0, ConsoleAssumption DEF Known, OutboxOK
<1>3. TypeOK'
  BY <1>0, <1>1, OwnTypes DEF LoopsOK, OutboxOK
<1>4. ASSUME NEW k \in Loops PROVE UnitHasPipeline(k)'
  BY <1>0, <1>1 DEF Delivery1, UnitHasPipeline, LoopsOK
<1>5. ASSUME NEW k \in Loops PROVE BatchIsSuffix(k)' /\ DeletesDelivered(k)' /\ ClearsDelivered(k)'
  <2>1. /\ unit'[k] = "delete" => unit[k] = "delete"
        /\ clear'[k] \in {0, clear[k]}
    BY <1>0, <1>1 DEF LoopsOK
  <2>2. BatchIsSuffix(k)'
    BY <1>0, <1>1, <1>2 DEF Delivery, BatchIsSuffix
  <2>3. ClearsDelivered(k)'
    <3>1. \A i \in Known : ~ (i <= 0)
      BY DEF Known
    <3> QED
      BY <1>0, <1>1, <1>2, <2>1, <3>1 DEF ClearsDelivered
  <2> QED
    BY <2>2, <2>3 DEF ClearsDelivered, DeletesDelivered
<1>6. NoEventLost'
  <2> SUFFICES ASSUME NEW i \in Known, i \notin delivered PROVE i \in outbox'
    BY <1>1, <1>2 DEF NoEventLost
  <2>1. i \in outbox
    BY <1>0 DEF Delivery, NoEventLost
  <2>2. ~ (i <= clear[l])
    BY <1>0, <1>1 DEF ClearsDelivered
  <2> QED
    BY <1>0, <1>1, <1>2, <2>1, <2>2
<1>7. DeliveredInOrder'
  BY <1>0, <1>1, <1>2 DEF Delivery, DeliveredInOrder
<1>8. clear' \in [Loops -> 0..last']
  BY <1>0, <1>1, <1>2
<1> QED
  BY <1>3, <1>4, <1>5, <1>6, <1>7, <1>8, Together1 DEF Delivery1, Delivery

LEMMA InitIndInv1 == Init1 => IndInv1
<1> SUFFICES ASSUME Init1 PROVE IndInv1
  OBVIOUS
<1>1. IndInv /\ last = 0 /\ clear = [l \in Loops |-> 0] /\ unit = [l \in Loops |-> "none"]
  BY InitIndInv DEF Init1, Init
<1>2. ASSUME NEW l \in Loops PROVE ClearsDelivered(l)
  BY <1>1 DEF ClearsDelivered, Known
<1> QED
  BY <1>1, <1>2 DEF IndInv, IndInv1, TypeOK1

\* The inductive invariant holds in every reachable state of services/v1's
\* console.go: what a clear unit is to delete has been delivered by the units
\* before it in its pipeline, whichever loops, failures and restarts there were.
THEOREM Invariance1 == Spec1 => []IndInv1
<1>1. ASSUME IndInv1, [Next1]_vars1 PROVE IndInv1'
  <2>1. ASSUME NEW l \in Loops, LoopStep1(l) PROVE IndInv1'
    BY <1>1, <2>1, CreateStep1, RunStep1 DEF LoopStep1
  <2>2. ASSUME NEW l \in Loops, WorkStep1(l) PROVE IndInv1'
    <3>1. 0 \in 0..MaxEvents
      BY ConsoleAssumption
    <3> QED
      BY <1>1, <2>2, <3>1, UnitStep1, SubmitStep1, SentStep1, ClearStep1 DEF WorkStep1
  <2>3. CASE UNCHANGED vars1
    <3>1. UNCHANGED <<vars, clear>> /\ UNCHANGED <<outboxVars, batch, unit, clear>>
      BY <2>3 DEF vars1, vars, loopVars
    <3> QED
      BY <1>1, <3>1, ConsoleStep, OtherStep1
  <2> QED
    BY <1>1, <2>1, <2>2, <2>3, ApiStep1, DisconnectStep1, ProducerStep1 DEF Next1
<1> QED
  BY InitIndInv1, <1>1, PTL DEF Spec1

\* The v1 console loses no event either, although it deletes a whole snapshot at
\* once and new events arrive while it delivers.
THEOREM EventsAreNotLost1 == Spec1 => []NoEventLost
BY Invariance1, PTL DEF IndInv1

\* And the console gets its events in the order of their ids.
THEOREM EventsStayInOrder1 == Spec1 => []DeliveredInOrder
BY Invariance1, PTL DEF IndInv1
===============================================================================
