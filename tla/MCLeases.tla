------------------------------- MODULE MCLeases -------------------------------
(***************************************************************************)
(* Two VMs with up to two NICs and a network with two addresses: enough    *)
(* for a VM that asks twice for an address, for one that asks for an       *)
(* address of the other, for a full network and for a cursor at every      *)
(* place that leases are added and removed at.                             *)
(***************************************************************************)
EXTENDS Leases, TLC

CONSTANTS v1, v2

MCVM     == {v1, v2}
Symmetry == Permutations(MCVM)
=============================================================================
