--------------------------- MODULE MC_Checkpoint ---------------------------
(* An instance of CheckpointPack for TLC: two entries share a SIT block and  *)
(* a third has one of its own; packs of three blocks.                        *)
EXTENDS CheckpointPack, TLC

CONSTANTS e1, e2, e3, b1, b2

TwoAndOne == e1 :> b1 @@ e2 :> b1 @@ e3 :> b2

\* no orphan inodes, compacted summaries
Plain     == [start_sum |-> 1, total |-> 3]
PlainOnly == {Plain}

Symmetry == Permutations({e1, e2})
=============================================================================
