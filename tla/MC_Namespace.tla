---------------------------- MODULE MC_Namespace ----------------------------
(* Two threads, a root and three more inodes, and two names with one hash    *)
(* and two sizes, in directories of at most three levels.                    *)
EXTENDS Namespace, TLC

CONSTANTS n1, n2, t1, t2, i1, i2, i3

MCHash    == n1 :> 2 @@ n2 :> 2
MCSlots   == n1 :> 1 @@ n2 :> 2
MCBuckets == 0 :> 1 @@ 1 :> 2 @@ 2 :> 2

Symmetry == Permutations({t1, t2}) \cup Permutations(Inos \ {Root})
=============================================================================
