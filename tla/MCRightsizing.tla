---------------------------- MODULE MCRightsizing ----------------------------
(* Instances of Rightsizing for TLC. *)
EXTENDS Rightsizing

CONSTANTS vm1, vm2, vm3, k1, k2

\* vm2 is powered off, vm3 is not in the inventory.
MCVCenterVMs == <<[id |-> vm2, on |-> FALSE, named |-> TRUE], [id |-> vm3, on |-> TRUE, named |-> FALSE]>>
MCInventory == <<vm1, vm2>>
MCClusterOf == (vm1 :> k1) @@ (vm2 :> k2)
MCExcluded == {vm2}
=============================================================================
