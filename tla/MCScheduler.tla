---------------------------- MODULE MCScheduler ----------------------------
(* Scheduler on a small instance. *)
EXTENDS Scheduler, TLC

CONSTANTS n1, n2, p1, c1

\* Two normal works and one of priority, one worker of each kind: the normal queue can
\* saturate and priority work can overtake.
MCWorks == {n1, n2, p1}
MCPrio == (n1 :> 0) @@ (n2 :> 0) @@ (p1 :> 1)
=============================================================================
