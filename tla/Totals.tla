-------------------------------- MODULE Totals --------------------------------
(***************************************************************************)
(* What is counted by adding up: the charges of an account, the VMs of a   *)
(* host.                                                                   *)
(***************************************************************************)
EXTENDS Integers, FiniteSets, FiniteSetsExt

(* The sum of the values of f over S.                                      *)
Total(f, S) == MapThenSumSet(LAMBDA x : f[x], S)
=============================================================================
