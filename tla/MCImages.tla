------------------------------- MODULE MCImages -------------------------------
(***************************************************************************)
(* Instances of Images for TLC.                                            *)
(***************************************************************************)
EXTENDS Images, TLC

CONSTANTS i1, i2, v1, v2

MCImage  == {i1, i2}
MCVM     == {v1, v2}
Symmetry == Permutations(MCImage) \cup Permutations(MCVM)
=============================================================================
