------------------------------ MODULE MC_Nodes ------------------------------
(* An instance of NodeManager for TLC: two nids share a NAT block and a     *)
(* third has one of its own.                                               *)
EXTENDS NodeManager, TLC

CONSTANTS n1, n2, n3, b1, b2, t1, t2

TwoAndOne == n1 :> b1 @@ n2 :> b1 @@ n3 :> b2

Symmetry == Permutations({n1, n2}) \cup Permutations(Threads)
=============================================================================
