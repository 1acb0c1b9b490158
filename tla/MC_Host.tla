------------------------------- MODULE MC_Host -------------------------------
(* A queue of three entries; two writes and a read.                          *)
EXTENDS HostQueue

CONSTANTS w1, w2, r1
=============================================================================
