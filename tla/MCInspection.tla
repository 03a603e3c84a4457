---------------------------- MODULE MCInspection ----------------------------
(* Instances of Inspection for TLC. *)
EXTENDS Inspection

CONSTANTS r1, r2, v1, v2

TwoRequests == {r1, r2}
TwoVMs == {v1, v2}
=============================================================================
