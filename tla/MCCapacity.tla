----------------------------- MODULE MCCapacity -----------------------------
(***************************************************************************)
(* Instances of Capacity for TLC.                                          *)
(***************************************************************************)
EXTENDS Capacity, TLC

CONSTANTS h1, h2, v1, v2, u1, u2

(* Two requests at a time, on hosts that stay as they are; or all that can *)
(* happen to a host, with the scheduler alone.                             *)
TwoAskers == {[askers |-> 2, watched |-> {}]} \cup {[askers |-> 0, watched |-> {h}] : h \in Host}

Symmetric == Permutations({v1, v2}) \cup Permutations({u1, u2})
=============================================================================
