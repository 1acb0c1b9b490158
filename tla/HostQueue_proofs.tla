-------------------------- MODULE HostQueue_proofs --------------------------
(***************************************************************************)
(* Proofs about HostQueue, for a ring of any size and any commands: Inv is *)
(* inductive, and the queue with the thread that executes commands from    *)
(* slots it gave back is a FIFO.                                           *)
(***************************************************************************)
EXTENDS HostQueue, SequenceTheorems, TLAPS

Values == Commands \cup {NOOP}

LEMMA SizeFact == Size \in Nat /\ Size >= 1 /\ IsWrite \subseteq Commands
  BY HostQueueAssumption

-----------------------------------------------------------------------------
(* The ring.                                                               *)

LEMMA FollowingFacts ==
    ASSUME NEW i \in 0..Size
    PROVE  Following(i) \in 0..Size
  BY SizeFact DEF Following

LEMMA HeldFacts ==
    ASSUME front \in 0..Size, rear \in 0..Size
    PROVE  /\ Held \in 0..Size
           /\ (Held = 0) = IsEmpty
           /\ \A k \in 1..Size+1 : Slot(k) \in 0..Size
  BY SizeFact DEF Held, IsEmpty, Slot

\* A ring that is not full has room for one more: IS_FULL() counts right.
LEMMA NotFull ==
    ASSUME front \in 0..Size, rear \in 0..Size, ~IsFull
    PROVE  Held < Size
  BY SizeFact DEF Held, IsFull

LEMMA QueuedFacts ==
    ASSUME TypeOK
    PROVE  /\ Queued \in Seq(Values) /\ Len(Queued) = Held
           /\ \A k \in 1..Held : Queued[k] = slots[Slot(k)]
  <1>1. Held \in 0..Size /\ \A k \in 1..Held : Slot(k) \in 0..Size
    BY HeldFacts, SizeFact DEF TypeOK
  <1>2. \A k \in 1..Held : slots[Slot(k)] \in Values
    BY <1>1 DEF TypeOK, Values
  <1>3. Queued \in [1..Held -> Values]
    BY <1>2 DEF Queued
  <1>4. Queued \in Seq(Values) /\ Len(Queued) = Held
    <2> HIDE DEF Queued
    <2>1. Held \in Nat
      BY <1>1, SizeFact
    <2> HIDE DEF Held
    <2> QED
      BY <1>3, <2>1
  <1> QED
    BY <1>4 DEF Queued

-----------------------------------------------------------------------------
(* The invariant.                                                          *)

LEMMA InitInv == Init => Inv
  <1> SUFFICES ASSUME Init PROVE Inv
    OBVIOUS
  <1> USE SizeFact DEF Init
  <1>1. TypeOK
    <2>1. slots \in [0..Size -> Commands \cup {NOOP}] /\ front \in 0..Size /\ rear \in 0..Size
      OBVIOUS
    <2>2. disk \in [pc : {"idle", "test", "full", "enqueue", "signal"}, cmd : Commands \cup {NOOP}]
      OBVIOUS
    <2>3. loop \in [pc : LoopPlaces, busy : BOOLEAN, slot : 0..Size]
      BY DEF LoopPlaces
    <2>4. stepFlag \in {0, 1, 2, HARD} /\ copied \in BOOLEAN
      OBVIOUS
    <2> QED
      BY <2>1, <2>2, <2>3, <2>4 DEF TypeOK
  <1>2. DiskInv /\ LoopInv
    BY DEF DiskInv, LoopInv
  <1> QED
    BY <1>1, <1>2 DEF Inv

LEMMA InvStep == Inv /\ [Next]_vars => Inv'
  <1> SUFFICES ASSUME Inv, [Next]_vars PROVE Inv'
    OBVIOUS
  <1> USE SizeFact DEF Inv
  <1>0. /\ disk = [pc |-> disk.pc, cmd |-> disk.cmd]
        /\ loop = [pc |-> loop.pc, busy |-> loop.busy, slot |-> loop.slot]
    BY DEF TypeOK
  <1>t. TypeOK'
    <2> USE DEF TypeOK, LoopPlaces, HARD, ringVars, gcVars
    <2>1. ASSUME NEW c \in Commands, Write(c) PROVE TypeOK'
      BY <2>1 DEF Write
    <2>2. CASE DiskNext
      <3>1. Following(rear) \in 0..Size
        BY FollowingFacts
      <3> QED
        BY <2>2, <3>1 DEF DiskNext, TestFull, StillFull, Enqueue, SignalCommand, DiskAt, SignalFull, Signal
    <2>3. CASE LoopNext
      <3>1. Following(front) \in 0..Size
        BY FollowingFacts
      <3>2. CASE Top
        BY <3>2 DEF Top
      <3>4. CASE Dequeue \/ TestEmpty \/ Sleep
        BY <3>4, <3>1 DEF Dequeue, TestEmpty, Sleep, LoopAt
      <3>5. CASE Execute
        BY <3>5 DEF Execute, LoopAt
      <3>6. CASE Executed
        BY <3>6 DEF Executed
      <3>3. CASE GcSelect \/ GcSelected \/ GcCopy \/ GcCopied \/ GcErase
        BY <3>3 DEF GcSelect, GcSelected, GcCopy, GcCopied, GcErase, GcCopies, LoopAt
      <3> QED
        BY <2>3, <3>2, <3>3, <3>4, <3>5, <3>6 DEF LoopNext
    <2>4. CASE WakeSpuriously
      BY <2>4 DEF WakeSpuriously, LoopAt
    <2>5. CASE UNCHANGED vars
      BY <2>5 DEF vars
    <2> QED
      BY <2>1, <2>2, <2>3, <2>4, <2>5 DEF Next
  <1>d. DiskInv'
    <2> USE DEF DiskInv, ringVars
    <2>h. Held \in 0..Size /\ (Held = 0) = IsEmpty
      BY HeldFacts DEF TypeOK
    <2>1. ASSUME NEW c \in Commands, Write(c) PROVE DiskInv'
      BY <2>1 DEF Write
    <2>2. CASE TestFull
      <3>1. ~IsFull => Held < Size
        BY NotFull DEF TypeOK
      <3>2. Held' = Held
        BY <2>2 DEF TestFull, Held
      <3> QED
        BY <2>2, <3>1, <3>2, <1>0 DEF TestFull, DiskAt
    <2>3. CASE StillFull \/ Enqueue \/ SignalCommand
      BY <2>3, <1>0 DEF StillFull, Enqueue, SignalCommand, DiskAt, TypeOK
    <2>4. CASE Dequeue
      <3>1. Held' <= Held
        BY <2>4 DEF Dequeue, LoopInv, IsEmpty, Held, Following, TypeOK
      <3>2. Held' \in Int
        BY <1>t, HeldFacts, <2>4 DEF Held, TypeOK
      <3> QED
        BY <2>4, <3>1, <3>2, <2>h DEF Dequeue
    <2>5. CASE UNCHANGED <<front, rear, disk>>
      BY <2>5 DEF Held
    <2> QED
      BY <2>1, <2>2, <2>3, <2>4, <2>5
      DEF Next, DiskNext, LoopNext, Top, Execute, Executed, TestEmpty, Sleep, GcSelect, GcSelected,
          GcCopy, GcCopied, GcErase, WakeSpuriously, vars
  <1>l. LoopInv'
    <2> USE DEF LoopInv, ringVars, gcVars, LoopAt
    <2>1. ASSUME NEW c \in Commands, Write(c) PROVE LoopInv'
      BY <2>1 DEF Write, IsEmpty
    <2>2. CASE TestFull
      BY <2>2 DEF TestFull, IsEmpty
    <2>3. CASE StillFull \/ SignalCommand
      BY <2>3, <1>0 DEF StillFull, SignalCommand, SignalFull, Signal, IsEmpty
    <2>4. CASE Enqueue
      <3>1. Held < Size
        BY <2>4 DEF Enqueue, DiskInv
      <3>2. ~IsEmpty'
        BY <2>4, <3>1 DEF Enqueue, IsEmpty, Held, Following, TypeOK
      <3> QED
        BY <2>4, <3>2 DEF Enqueue
    <2>5. CASE Top
      BY <2>5, <1>0 DEF Top, IsEmpty
    <2>6. CASE Dequeue
      BY <2>6, <1>0 DEF Dequeue
    <2>7. CASE Execute \/ Executed \/ TestEmpty \/ Sleep \/ WakeSpuriously
      BY <2>7, <1>0 DEF Execute, Executed, TestEmpty, Sleep, WakeSpuriously, Following
    <2>8. CASE GcSelect \/ GcSelected \/ GcCopy \/ GcCopied \/ GcErase
      BY <2>8, <1>0 DEF GcSelect, GcSelected, GcCopy, GcCopied, GcErase, GcCopies
    <2>9. CASE UNCHANGED vars
      BY <2>9 DEF vars, IsEmpty
    <2> QED
      BY <2>1, <2>2, <2>3, <2>4, <2>5, <2>6, <2>7, <2>8, <2>9 DEF Next, DiskNext, LoopNext
  <1> QED
    BY <1>t, <1>d, <1>l

-----------------------------------------------------------------------------
(* The refinement.                                                         *)

Pending == Executing \o Queued

PendingShape ==
    /\ Executing \in Seq(Values)
    /\ Len(Executing) = IF loop.pc \in {"execute", "executed"} THEN 1 ELSE 0
    /\ Pending \in Seq(Values)
    /\ Len(Pending) = Len(Executing) + Held
    /\ \A k \in 1..Len(Pending) :
         Pending[k] = IF k <= Len(Executing) THEN slots[loop.slot]
                                            ELSE slots[Slot(k - Len(Executing))]

LEMMA PendingFacts == Inv => PendingShape
  <1> SUFFICES ASSUME Inv PROVE PendingShape
    OBVIOUS
  <1>1. Held \in 0..Size /\ loop.slot \in 0..Size
    BY HeldFacts DEF Inv, TypeOK
  <1>2. slots[loop.slot] \in Values
    BY <1>1 DEF Inv, TypeOK, Values
  <1>3. /\ Executing \in Seq(Values)
        /\ Len(Executing) = IF loop.pc \in {"execute", "executed"} THEN 1 ELSE 0
        /\ \A k \in 1..Len(Executing) : Executing[k] = slots[loop.slot]
    BY <1>2 DEF Executing
  <1>4. /\ Queued \in Seq(Values) /\ Len(Queued) = Held
        /\ \A k \in 1..Held : Queued[k] = slots[Slot(k)]
    BY QueuedFacts DEF Inv
  <1>5. /\ Pending \in Seq(Values)
        /\ Len(Pending) = Len(Executing) + Len(Queued)
        /\ \A k \in 1..Len(Executing) + Len(Queued) :
             Pending[k] = IF k <= Len(Executing) THEN Executing[k] ELSE Queued[k - Len(Executing)]
    BY <1>3, <1>4, ConcatProperties DEF Pending
  <1>6. ASSUME NEW k \in 1..Len(Pending)
        PROVE  Pending[k] = IF k <= Len(Executing) THEN slots[loop.slot]
                                                   ELSE slots[Slot(k - Len(Executing))]
    <2>1. CASE k <= Len(Executing)
      BY <2>1, <1>3, <1>5, <1>6
    <2>2. CASE ~(k <= Len(Executing))
      <3>1. k - Len(Executing) \in 1..Held
        BY <2>2, <1>1, <1>3, <1>4, <1>5, <1>6
      <3> HIDE DEF Held, Slot, Queued, Executing, Pending
      <3>2. Pending[k] = Queued[k - Len(Executing)]
        BY <2>2, <1>4, <1>5, <1>6
      <3> QED
        BY <3>1, <3>2, <2>2, <1>4
    <2> QED
      BY <2>1, <2>2
  <1> QED
    BY <1>3, <1>4, <1>5, <1>6 DEF PendingShape

LEMMA NextPendingFacts == Inv' => PendingShape'
  BY PendingFacts, PTL

\* A command comes to the end of the queue: it is in a slot of no other, also not in the
\* one that is executed.
LEMMA EnqueueAccepts ==
    ASSUME Inv, Enqueue, Inv'
    PROVE  disk.cmd \in Commands /\ Len(Pending) < Size + 1 /\ Pending' = Append(Pending, disk.cmd)
  <1> USE SizeFact DEF Inv
  <1>1. /\ front \in 0..Size /\ rear \in 0..Size /\ loop.slot \in 0..Size
        /\ slots \in [0..Size -> Values]
        /\ disk.cmd \in Commands /\ Held < Size /\ Held \in 0..Size
    BY HeldFacts DEF TypeOK, Enqueue, DiskInv, Values
  <1>2. /\ slots' = [slots EXCEPT ![rear] = disk.cmd]
        /\ front' = front /\ loop' = loop
        /\ rear' = Following(rear)
    BY DEF Enqueue
  <1>3. /\ Held' = Held + 1
        /\ \A k \in 1..Held : Slot(k) # rear
        /\ Slot(Held + 1) = rear
    BY <1>1, <1>2 DEF Held, Slot, Following
  <1>4. loop.pc \in {"execute", "executed"} => loop.slot # rear
    BY <1>1 DEF LoopInv, Following, Held
  <1>5. \A k \in Int : Slot(k)' = Slot(k)
    BY <1>2 DEF Slot
  <1>6. /\ Len(Executing)' = Len(Executing) /\ Len(Executing) \in 0..1
        /\ Len(Executing) = 1 => loop.pc \in {"execute", "executed"}
    BY PendingFacts, <1>2 DEF Executing, PendingShape
  <1>7. /\ Pending \in Seq(Values) /\ Pending' \in Seq(Values)
        /\ Len(Pending) = Len(Executing) + Held
        /\ Len(Pending') = Len(Executing) + Held + 1
    <2>1. Pending' \in Seq(Values) /\ Len(Pending') = Len(Executing)' + Held'
      BY NextPendingFacts DEF PendingShape, Values
    <2> QED
      BY <2>1, PendingFacts, <1>3, <1>6, <1>1 DEF PendingShape
  <1>8. \A k \in 1..Len(Pending) : Pending'[k] = Pending[k]
    <2> SUFFICES ASSUME NEW k \in 1..Len(Pending) PROVE Pending'[k] = Pending[k]
      OBVIOUS
    <2>1. Pending'[k] = IF k <= Len(Executing) THEN slots'[loop.slot]
                                              ELSE slots'[Slot(k - Len(Executing))]
      <3>1. \A j \in 1..Len(Pending)' :
              Pending'[j] = IF j <= Len(Executing)' THEN slots'[loop'.slot]
                                                   ELSE slots'[Slot(j - Len(Executing))']
        BY NextPendingFacts DEF PendingShape
      <3>2. k \in 1..Len(Pending)' /\ k - Len(Executing) \in Int
        BY <1>6, <1>7, <1>1
      <3>3. Slot(k - Len(Executing))' = Slot(k - Len(Executing))
        BY <3>2, <1>2, <1>6 DEF Slot
      <3>5. loop'.slot = loop.slot
        BY <1>2
      <3> QED
        BY <3>1, <3>2, <3>3, <3>5, <1>6, SMTT(30)
    <2>2. Pending[k] = IF k <= Len(Executing) THEN slots[loop.slot]
                                              ELSE slots[Slot(k - Len(Executing))]
      BY PendingFacts DEF PendingShape
    <2>3. CASE k <= Len(Executing)
      BY <2>1, <2>2, <2>3, <1>1, <1>2, <1>4, <1>6
    <2>4. CASE ~(k <= Len(Executing))
      <3>1. k - Len(Executing) \in 1..Held
        BY <2>4, <1>6, <1>7, <1>1
      <3>2. Slot(k - Len(Executing)) # rear /\ Slot(k - Len(Executing)) \in 0..Size
        BY <3>1, <1>3, <1>1, HeldFacts
      <3> QED
        BY <2>1, <2>2, <2>4, <3>2, <1>1, <1>2
    <2> QED
      BY <2>3, <2>4
  <1>9. Pending'[Len(Pending) + 1] = disk.cmd
    <2>1. Pending'[Len(Pending) + 1] = slots'[Slot(Held + 1)]
      <3>1. \A j \in 1..Len(Pending)' :
              Pending'[j] = IF j <= Len(Executing)' THEN slots'[loop'.slot]
                                                   ELSE slots'[Slot(j - Len(Executing))']
        BY NextPendingFacts DEF PendingShape
      <3>2. Len(Pending) + 1 - Len(Executing) = Held + 1
        BY <1>1, <1>6, <1>7
      <3> QED
        BY <3>1, <3>2, <1>1, <1>5, <1>6, <1>7
    <2> QED
      BY <2>1, <1>1, <1>2, <1>3
  <1>10. Pending' = Append(Pending, disk.cmd)
    <2> HIDE DEF Pending, Inv
    <2>1. disk.cmd \in Values
      BY <1>1 DEF Values
    <2>2. Len(Pending') = Len(Pending) + 1
      BY <1>1, <1>6, <1>7
    <2>3. /\ Append(Pending, disk.cmd) \in Seq(Values)
          /\ Len(Append(Pending, disk.cmd)) = Len(Pending) + 1
          /\ \A k \in 1..Len(Pending) : Append(Pending, disk.cmd)[k] = Pending[k]
          /\ Append(Pending, disk.cmd)[Len(Pending) + 1] = disk.cmd
      BY <2>1, <1>7
    <2>4. \A k \in 1..Len(Pending') : Pending'[k] = Append(Pending, disk.cmd)[k]
      BY <2>2, <2>3, <1>7, <1>8, <1>9
    <2> QED
      BY <2>2, <2>3, <2>4, <1>7, SeqEqual
  <1>11. Len(Pending) < Size + 1
    <2> HIDE DEF Inv
    <2>1. Held < Size /\ Held \in 0..Size
      BY <1>1
    <2>2. Len(Executing) \in 0..1
      BY <1>6
    <2>3. Len(Pending) = Len(Executing) + Held
      BY <1>7
    <2>4. Len(Executing) + Held < Size + 1
      <3>1. Held \in Nat /\ Held < Size
        BY <2>1
      <3>2. CASE Len(Executing) = 0
        BY <3>1, <3>2
      <3>3. CASE Len(Executing) = 1
        BY <3>1, <3>3
      <3> QED
        BY <2>2, <3>2, <3>3
    <2> QED
      BY <2>3, <2>4
  <1> QED
    BY <1>1, <1>10, <1>11

\* A command that is taken from the ring stays where it is in the queue.
LEMMA DequeueKeeps ==
    ASSUME Inv, Dequeue, Inv'
    PROVE  Pending' = Pending
  <1> USE SizeFact DEF Inv
  <1>1. /\ front \in 0..Size /\ rear \in 0..Size /\ Held \in 1..Size
        /\ loop = [pc |-> "dequeue", busy |-> loop.busy, slot |-> loop.slot]
    <2>1. front \in 0..Size /\ rear \in 0..Size /\ ~IsEmpty
      BY DEF TypeOK, Dequeue, LoopInv
    <2>2. Held \in 0..Size /\ Held # 0
      BY <2>1, HeldFacts
    <2>3. loop = [pc |-> "dequeue", busy |-> loop.busy, slot |-> loop.slot]
      BY DEF TypeOK, Dequeue
    <2> QED
      BY <2>1, <2>2, <2>3
  <1>2. /\ slots' = slots /\ rear' = rear
        /\ front' = Following(front)
        /\ loop' = [loop EXCEPT !.pc = "execute", !.slot = front]
    BY DEF Dequeue
  <1>3. loop'.pc = "execute" /\ loop'.slot = front /\ loop.pc = "dequeue"
    BY <1>1, <1>2
  <1>4. /\ Held' = Held - 1
        /\ Slot(1) = front
        /\ \A k \in 1..Held : k > 1 => Slot(k - 1)' = Slot(k)
    BY <1>1, <1>2 DEF Held, Slot, Following
  <1>5. /\ Len(Executing)' = 1 /\ Len(Executing) = 0
        /\ Pending \in Seq(Values) /\ Pending' \in Seq(Values)
        /\ Len(Pending) = Held /\ Len(Pending)' = Held
    <2>1. /\ Len(Executing) = 0 /\ Pending \in Seq(Values) /\ Len(Pending) = Len(Executing) + Held
      BY PendingFacts, <1>3 DEF PendingShape
    <2>2. /\ Len(Executing)' = 1
          /\ Pending' \in Seq(Values) /\ Len(Pending)' = Len(Executing)' + Held'
      BY NextPendingFacts, <1>3 DEF PendingShape, Values
    <2> QED
      BY <2>1, <2>2, <1>1, <1>4
  <1>6. ASSUME NEW k \in 1..Held PROVE Pending'[k] = Pending[k]
    <2>1. Pending[k] = slots[Slot(k)]
      BY PendingFacts, <1>1, <1>5 DEF PendingShape
    <2>2. Pending'[k] = IF k <= 1 THEN slots[front] ELSE slots[Slot(k - Len(Executing))']
      BY NextPendingFacts, <1>2, <1>3, <1>5 DEF PendingShape
    <2>3. k > 1 => Slot(k - Len(Executing))' = Slot(k)
      BY <1>4, <1>5
    <2> QED
      BY <2>1, <2>2, <2>3, <1>1, <1>4
  <1> QED
    <2> HIDE DEF Pending, Inv
    <2> QED
      BY <1>5, <1>6, <1>1, SeqEqual

\* A command that is marked NOOP is the first of the queue, and its slot is still of no
\* command that waits: the ring never fills the slot it has just given back.
LEMMA ExecutedCompletes ==
    ASSUME Inv, Executed, Inv'
    PROVE  Pending # <<>> /\ Pending' = Tail(Pending)
  <1> USE SizeFact DEF Inv
  <1>1. /\ front \in 0..Size /\ rear \in 0..Size /\ loop.slot \in 0..Size
        /\ slots \in [0..Size -> Values]
        /\ loop.pc = "executed" /\ Following(loop.slot) = front
    BY DEF TypeOK, Executed, LoopInv, Values
  <1>2. /\ slots' = [slots EXCEPT ![loop.slot] = NOOP]
        /\ front' = front /\ rear' = rear
        /\ loop'.pc = "wait"
    BY DEF Executed
  <1>3. Held \in 0..Size
    BY <1>1, HeldFacts
  <1>4. /\ Held' = Held
        /\ \A k \in 1..Held : Slot(k) \in 0..Size /\ Slot(k) # loop.slot
        /\ \A k \in Int : Slot(k)' = Slot(k)
    BY <1>1, <1>2, <1>3 DEF Held, Slot, Following
  <1>5. /\ Len(Executing) = 1 /\ Len(Executing)' = 0
        /\ Pending \in Seq(Values) /\ Pending' \in Seq(Values)
        /\ Len(Pending) = Held + 1 /\ Len(Pending)' = Held
    <2>1. Len(Executing) = 1 /\ Pending \in Seq(Values) /\ Len(Pending) = Len(Executing) + Held
      BY PendingFacts, <1>1 DEF PendingShape
    <2>2. /\ Len(Executing)' = 0
          /\ Pending' \in Seq(Values) /\ Len(Pending)' = Len(Executing)' + Held'
      BY NextPendingFacts, <1>2 DEF PendingShape, Values
    <2> QED
      BY <2>1, <2>2, <1>3, <1>4
  <1>6. ASSUME NEW k \in 1..Held PROVE Pending'[k] = Pending[k + 1]
    <2>1. Pending[k + 1] = slots[Slot(k + 1 - Len(Executing))]
      BY PendingFacts, <1>3, <1>5 DEF PendingShape
    <2>2. Pending[k + 1] = slots[Slot(k)]
      <3>1. k + 1 - Len(Executing) = k
        BY <1>3, <1>5
      <3> QED
        BY <2>1, <3>1
    <2>3. Pending'[k] = slots'[Slot(k - Len(Executing))']
      BY NextPendingFacts, <1>3, <1>5 DEF PendingShape
    <2>4. Slot(k - Len(Executing))' = Slot(k)
      BY <1>3, <1>4, <1>5
    <2> QED
      BY <2>2, <2>3, <2>4, <1>1, <1>2, <1>4
  <1> QED
    <2> HIDE DEF Pending, Inv
    <2>1. Pending # <<>>
      BY <1>3, <1>5
    <2>2. /\ Tail(Pending) \in Seq(Values) /\ Len(Tail(Pending)) = Held
          /\ \A k \in 1..Held : Tail(Pending)[k] = Pending[k + 1]
      BY <2>1, <1>3, <1>5, HeadTailProperties
    <2> QED
      BY <2>1, <2>2, <1>5, <1>6, SeqEqual

\* Every other step leaves the queue as it is.
LEMMA OthersKeep ==
    ASSUME Inv, [Next]_vars, ~Enqueue, ~Dequeue, ~Executed
    PROVE  Pending' = Pending
  <1>0. loop = [pc |-> loop.pc, busy |-> loop.busy, slot |-> loop.slot]
    BY DEF Inv, TypeOK
  <1>1. UNCHANGED ringVars
    BY DEF Next, DiskNext, LoopNext, Write, TestFull, StillFull, SignalCommand, Top, Execute, TestEmpty,
           Sleep, GcSelect, GcSelected, GcCopy, GcCopied, GcErase, WakeSpuriously, vars, ringVars
  <1>2. Queued' = Queued
    BY <1>1 DEF Queued, Held, Slot, ringVars
  <1>3. Executing' = Executing
    <2>1. CASE UNCHANGED loop
      BY <1>1, <2>1 DEF Executing, ringVars
    <2>2. CASE StillFull \/ SignalCommand
      BY <1>0, <1>1, <2>2 DEF StillFull, SignalCommand, SignalFull, Signal, Executing, ringVars
    <2>3. CASE Execute
      BY <1>0, <1>1, <2>3 DEF Execute, LoopAt, Executing, ringVars
    <2>4. CASE Top \/ TestEmpty \/ Sleep \/ WakeSpuriously
      BY <1>0, <1>1, <2>4 DEF Top, TestEmpty, Sleep, WakeSpuriously, LoopAt, Executing, ringVars
    <2>5. CASE GcSelect \/ GcSelected \/ GcCopy \/ GcCopied \/ GcErase
      BY <1>0, <1>1, <2>5
      DEF GcSelect, GcSelected, GcCopy, GcCopied, GcErase, LoopAt, Executing, ringVars
    <2> QED
      BY <2>1, <2>2, <2>3, <2>4, <2>5 DEF Next, DiskNext, LoopNext, Write, TestFull, vars
  <1> QED
    BY <1>2, <1>3 DEF Pending

-----------------------------------------------------------------------------
(* The theorems.                                                           *)

\* The inductive invariant holds in every reachable state of the queue (host.c) and the
\* collection beside it (gc.c).
THEOREM Invariance == Spec => []Inv
  <1>1. Init => Inv
    BY InitInv
  <1>2. Inv /\ [Next]_vars => Inv'
    BY InvStep
  <1> QED
    BY <1>1, <1>2, PTL DEF Spec

\* Every variable keeps its type; front and rear never leave the ring (host.c:62-113).
THEOREM TypeCorrect == Spec => []TypeOK
  <1>1. Inv => TypeOK
    BY DEF Inv
  <1> QED
    BY <1>1, Invariance, PTL

\* However often commands interrupt a collection, it erases its victim only after a copy
\* that no command has come after (garbage_collection(), gc.c:306).
THEOREM CopiedBeforeErase == Spec => []ErasedIsCopied
  <1>1. Inv => ErasedIsCopied
    BY DEF Inv, LoopInv, ErasedIsCopied
  <1> QED
    BY <1>1, Invariance, PTL

\* The ring with the thread that executes from slots it gave back (host.c:41-195) implements
\* a FIFO of Size + 1 commands: none is lost, repeated, reordered or changed.
THEOREM QueueIsFifo == Spec => FifoSpec
  <1>1. Init => Fifo!Init
    BY SizeFact DEF Init, Fifo!Init, Executing, Queued, Held
  <1>2. Inv /\ Inv' /\ [Next]_vars => [Fifo!Next]_Pending
    <2> SUFFICES ASSUME Inv, Inv', [Next]_vars PROVE [Fifo!Next]_Pending
      OBVIOUS
    <2>1. CASE Enqueue
      BY <2>1, EnqueueAccepts DEF Fifo!Next, Fifo!Accept, Pending
    <2>2. CASE Dequeue
      BY <2>2, DequeueKeeps
    <2>3. CASE Executed
      BY <2>3, ExecutedCompletes DEF Fifo!Next, Fifo!Complete, Pending
    <2>4. CASE ~Enqueue /\ ~Dequeue /\ ~Executed
      BY <2>4, OthersKeep
    <2> QED
      BY <2>1, <2>2, <2>3, <2>4
  <1> QED
    BY <1>1, <1>2, Invariance, PTL DEF Spec, FifoSpec, Fifo!Spec, Pending

=============================================================================
