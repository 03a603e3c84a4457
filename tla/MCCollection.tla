---------------------------- MODULE MCCollection ----------------------------
(* Instances of Collection.  The bounds are constants of the specification:
   runs started, crashes, user edits. *)
EXTENDS Collection

Both == {"vcenter", "rvtools"}
VCenter == {"vcenter"}
RVTools == {"rvtools"}
=============================================================================
