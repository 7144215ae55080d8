----------------------------- MODULE MCServices -----------------------------
(***************************************************************************)
(* An instance of CoreServices for TLC: two images and a VM; three VMs to  *)
(* be placed on two hosts, each with room for one; a VM and a host, with   *)
(* the same number, that have hooks.                                       *)
(***************************************************************************)
EXTENDS CoreServices

CONSTANTS i1, i2, v1, h1, h2

Jobs    == 0..2
Managed == [v \in Jobs |-> IF v = 2 THEN {h2} ELSE {h1, h2}]
Meeting == [v \in Jobs |-> IF v = 0 THEN {h1} ELSE {h1, h2}]
Ranks   == [v \in Jobs |-> [h \in {h1, h2} |-> IF h = h1 THEN v ELSE 1]]
Hooks_on == {<<"VM", 0>>, <<"HOST", 0>>}
=============================================================================
