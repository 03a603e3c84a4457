------------------------------ MODULE Executor ------------------------------
(***************************************************************************)
(* What pkg/scheduler promises its clients, without its event loop, worker *)
(* list and channels: a bounded executor of prioritised work that keeps    *)
(* some capacity for priority work and can be closed.  Scheduler           *)
(* implements it; the pipeline modules are built on it.                    *)
(***************************************************************************)
EXTENDS Integers, FiniteSets

CONSTANTS Works, Prio, NormalWorkers, ReservedWorkers

VARIABLES
    status,   \* of each work and its future
    phase     \* of the executor: open, closing, closed

execVars == <<status, phase>>

Statuses ==
    {"new", "submitting", "pending", "running", "resolved", "refused"}

ExecTypeOK ==
    /\ status \in [Works -> Statuses]
    /\ phase \in {"open", "closing", "closed"}

ExecInit ==
    /\ status = [w \in Works |-> "new"]
    /\ phase = "open"

Having(s) == {w \in Works : status[w] = s}

Move(w, from, to) ==
    /\ status[w] = from
    /\ status' = [status EXCEPT ![w] = to]
    /\ UNCHANGED phase

\* addWork is called, and returns with the work accepted or, once the
\* executor is closing, with a future that is already resolved.
Submit(w) == Move(w, "new", "submitting")
Accepted(w) == phase # "closed" /\ Move(w, "submitting", "pending")
Refused(w) == phase # "open" /\ Move(w, "submitting", "refused")

\* Work is started highest priority first, within the capacity; work of
\* priority 0 cannot use the reserved part of it.
Start(w) ==
    /\ phase # "closed"
    /\ \A v \in Having("pending") : Prio[v] <= Prio[w]
    /\ Cardinality(Having("running")) < NormalWorkers + ReservedWorkers
    /\ Prio[w] = 0 =>
          Cardinality({v \in Having("running") : Prio[v] = 0}) < NormalWorkers
    /\ Move(w, "pending", "running")

Resolve(w) == Move(w, "running", "resolved")

BeginClose ==
    /\ phase = "open"
    /\ phase' = "closing"
    /\ UNCHANGED status

\* Running work is waited for; pending work is abandoned.
EndClose ==
    /\ phase = "closing"
    /\ Having("running") = {}
    /\ phase' = "closed"
    /\ UNCHANGED status

ExecStep(w) == \/ Submit(w) \/ Accepted(w) \/ Refused(w)
               \/ Start(w) \/ Resolve(w)

ExecNext == (\E w \in Works : ExecStep(w)) \/ BeginClose \/ EndClose

ExecSpec == ExecInit /\ [][ExecNext]_execVars
=============================================================================
