----------------------------- MODULE CommandFifo -----------------------------
(***************************************************************************)
(* What the host queue promises the emulated disk: the commands are        *)
(* executed once each, in the order they were given, as they were given.   *)
(***************************************************************************)
EXTENDS Naturals, Sequences

CONSTANTS
    Commands,
    Capacity   \* commands accepted and not complete yet

VARIABLE pending

Init == pending = <<>>

Accept(c) == Len(pending) < Capacity /\ pending' = Append(pending, c)
Complete  == pending # <<>> /\ pending' = Tail(pending)

Next == Complete \/ \E c \in Commands : Accept(c)

Spec == Init /\ [][Next]_pending
=============================================================================
