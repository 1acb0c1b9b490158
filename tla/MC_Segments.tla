---------------------------- MODULE MC_Segments ----------------------------
(* Instances of SegmentManager for TLC.  Segments are interchangeable, and so *)
(* are the data pages: nothing orders either.                                 *)
EXTENDS SegmentManager, TLC

Symmetry == Permutations(Segs) \cup Permutations(DataPages)
=============================================================================
