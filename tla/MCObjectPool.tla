---------------------------- MODULE MCObjectPool ----------------------------
(***************************************************************************)
(* Instances of ObjectPool for TLC: three threads and a cache of one, with *)
(* one or two rows to begin with and three in all.                         *)
(***************************************************************************)
EXTENDS ObjectPool, TLC

CONSTANTS t1, t2, t3, p1, p2, p3, p4, n1, n2, n3

ThreeRows  == 0..2
OneOrTwo   == {[o \in ThreeRows |-> IF o \in DOMAIN f THEN f[o] ELSE NoName] :
                 f \in {g \in [0..1 -> Name] : g[0] # g[1]} \cup [{0} -> Name]}
AllOps     == {"UPDATE", "DEPLOY", "DELETE", "FIND", "ALLOCATE", "RENAME_INFO"}

MCSymmetry == Permutations(Thread) \cup Permutations(Name)
=============================================================================
