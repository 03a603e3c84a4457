------------------------------- MODULE MCPool2 -------------------------------
(* Pool2 on small instances: two pipelines of two units. *)
EXTENDS Pool2, TLC

MCKeys == {"a", "b"}
MCTarget == ("c1" :> "a")
=============================================================================
