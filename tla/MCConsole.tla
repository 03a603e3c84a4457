------------------------------ MODULE MCConsole ------------------------------
(* Console and Console1 for TLC: an agent has the one or the other. *)
EXTENDS Console1

VARIABLE generation

MCvars == <<vars1, generation>>

MCInit == Init1 /\ generation \in {1, 2}

\* A of Console or B of Console1.
Either(A, B) ==
    \/ generation = 2 /\ A /\ UNCHANGED <<generation, clear>>
    \/ generation = 1 /\ B /\ UNCHANGED generation

MCNext == Either(Next, Next1)

MCSpec == MCInit /\ [][MCNext]_MCvars

\* Console's Fairness, for each of the two.
MCFairSpec ==
    /\ MCSpec
    /\ WF_MCvars(Either(SendClose \/ RecvAck, SetModeWaits1))
    /\ \A l \in Loops :
          /\ WF_MCvars(Either(LoopStep(l), LoopStep1(l)))
          /\ WF_MCvars(Either(WorkStep(l), WorkStep1(l)))
          /\ SF_MCvars(Either(StatusSent(l), StatusSent1(l)))
          /\ \A e \in Ids :
                /\ SF_MCvars(Either(EventSent(l, e), EventSent1(l, e)))
                /\ SF_MCvars(Either(DeleteUpTo(l, e), Clear(l)))
=============================================================================
