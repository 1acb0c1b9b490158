---------------------------- MODULE MC_Recovery ----------------------------
(* An instance of Recovery for TLC.                                        *)
EXTENDS Recovery, TLC

CONSTANTS f1, f2, t1, t2

Symmetry == Permutations(Files) \cup Permutations(Threads)
=============================================================================
