------------------------------ MODULE MCThreads ------------------------------
(***************************************************************************)
(* Instances of CoreThreads for TLC: two requests at a time, one manager   *)
(* and one object more than the cache has room for; and two threads that   *)
(* wait for the drivers of authorization or of datastores.                 *)
(***************************************************************************)
EXTENDS CoreThreads, TLC

CONSTANTS t1, t2, m1, p1, p2, p3, n1, n2, c1, c2, authm

TwoRows  == 0..1
Actions  == TwoRows \cup {c1, c2}
Parts    == {{t1, t2, m1}, {c1, c2, authm, "AUTH"}, {c1, c2, "STAT"}}
OneTable == {0 :> n1 @@ 1 :> n2}
=============================================================================
