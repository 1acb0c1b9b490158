------------------------------ MODULE HostQueue ------------------------------
(***************************************************************************)
(* The event queue between the emulated disk and the FTL of VSSIM (host.c, *)
(* with HOST_QUEUE), and the garbage collection that runs while the queue  *)
(* is empty and gives way to a command between its steps (gc.c).           *)
(*                                                                         *)
(* The queue is a ring of Size + 1 slots under q_lock.  A command is       *)
(* executed from its slot, through a pointer, after the slot was given     *)
(* back.  t_lock is never taken, so a signal can come between the test for *)
(* an empty queue and the wait.  Of the flash only what garbage collection *)
(* needs is left: which block is the victim, and whether pages may have    *)
(* come into it since the copy.                                            *)
(***************************************************************************)
EXTENDS Integers, Sequences

CONSTANTS
    Size,      \* HOST_QUEUE_ENTRY_NB
    Commands,  \* type, sector_nb and length of a command
    IsWrite    \* the commands of type WRITE

ASSUME HostQueueAssumption == Size \in Nat \ {0} /\ IsWrite \subseteq Commands

VARIABLES
    slots,     \* host_commands
    front,
    rear,
    disk,      \* the thread of the emulated disk: [pc, cmd]
    loop,      \* HOST_LOOP(): [pc, busy, slot]
    stepFlag,  \* step_flag: 0, 1, 2 or HARD
    copied     \* no command ran since the valid pages of the victim were copied

ringVars == <<slots, front, rear>>
gcVars   == <<stepFlag, copied>>
vars     == <<ringVars, disk, loop, gcVars>>

NOOP == "NOOP"
HARD == 3

Init ==
    /\ slots = [i \in 0..Size |-> NOOP]   \* malloc(): no slot is read before it is written
    /\ front = 0 /\ rear = 0
    /\ disk = [pc |-> "idle", cmd |-> NOOP]
    /\ loop = [pc |-> "top", busy |-> FALSE, slot |-> 0]
    /\ stepFlag = 0 /\ copied = FALSE

\* wrong: the index wraps one slot late
Following_Late(i) == IF i = Size + 1 THEN 0 ELSE i + 1

Following(i) == IF i + 1 = Size + 1 THEN 0 ELSE i + 1

IsEmpty == front = rear

\* wrong: every slot may be filled
IsFull_LastSlot == front < rear /\ rear - front = Size + 1

IsFull == IF front < rear THEN rear - front = Size ELSE rear + 1 = front

-----------------------------------------------------------------------------
(* WRITE_TO_EVENT_QUEUE(), in one thread.                                  *)

DiskAt(pc) == disk' = [disk EXCEPT !.pc = pc]

Write(c) ==
    /\ disk.pc = "idle"
    /\ disk' = [pc |-> "test", cmd |-> c]
    /\ UNCHANGED <<ringVars, loop, gcVars>>

TestFull ==
    /\ disk.pc = "test"
    /\ DiskAt(IF IsFull THEN "full" ELSE "enqueue")
    /\ UNCHANGED <<ringVars, loop, gcVars>>

\* pthread_cond_signal(): lost when nobody waits
Signal == loop' = IF loop.pc = "waiting" THEN [loop EXCEPT !.pc = "wait"] ELSE loop

\* wrong: a full queue is only tested again
SignalFull_None == UNCHANGED loop

SignalFull == Signal

StillFull ==
    /\ disk.pc = "full"
    /\ SignalFull
    /\ DiskAt("test")
    /\ UNCHANGED <<ringVars, gcVars>>

\* ENQUEUE_HOST_COMMAND()
Enqueue ==
    /\ disk.pc = "enqueue"
    /\ slots' = [slots EXCEPT ![rear] = disk.cmd]
    /\ rear' = Following(rear)
    /\ DiskAt("signal")
    /\ UNCHANGED <<front, loop, gcVars>>

SignalCommand ==
    /\ disk.pc = "signal"
    /\ Signal
    /\ disk' = [pc |-> "idle", cmd |-> NOOP]
    /\ UNCHANGED <<ringVars, gcVars>>

DiskNext == TestFull \/ StillFull \/ Enqueue \/ SignalCommand

-----------------------------------------------------------------------------
(* HOST_LOOP().                                                            *)

LoopAt(pc) == loop' = [loop EXCEPT !.pc = pc]

\* a command, or garbage collection when few pages are free, or neither
Top ==
    /\ loop.pc = "top"
    /\ \E pc \in IF IsEmpty THEN {"gc", "wait"} ELSE {"dequeue"} :
         loop' = [loop EXCEPT !.pc = pc, !.busy = FALSE]
    /\ UNCHANGED <<ringVars, disk, gcVars>>

\* DEQUEUE_HOST_COMMAND()
Dequeue ==
    /\ loop.pc = "dequeue"
    /\ loop' = [loop EXCEPT !.pc = "execute", !.slot = front]
    /\ front' = Following(front)
    /\ UNCHANGED <<slots, rear, disk, gcVars>>

\* FTL_READ() or FTL_WRITE(), which may write data or mapping pages into any block, the
\* victim too; when pages are short FTL_WRITE() first does a hard garbage collection
Execute ==
    /\ loop.pc = "execute"
    /\ \/ UNCHANGED stepFlag
       \/ slots[loop.slot] \in IsWrite /\ stepFlag' = HARD
    /\ copied' = FALSE
    /\ LoopAt("executed")
    /\ UNCHANGED <<ringVars, disk>>

\* h_cmd->type = NOOP, through the pointer
Executed ==
    /\ loop.pc = "executed"
    /\ slots' = [slots EXCEPT ![loop.slot] = NOOP]
    /\ loop' = [pc |-> "wait", busy |-> TRUE, slot |-> 0]
    /\ UNCHANGED <<front, rear, disk, gcVars>>

\* IS_EMPTY(), then pthread_cond_wait()
TestEmpty ==
    /\ loop.pc = "wait"
    /\ LoopAt(IF IsEmpty /\ ~loop.busy THEN "sleep" ELSE "top")
    /\ UNCHANGED <<ringVars, disk, gcVars>>

Sleep ==
    /\ loop.pc = "sleep"
    /\ LoopAt("waiting")
    /\ UNCHANGED <<ringVars, disk, gcVars>>

\* pthread_cond_wait() may return without a signal
WakeSpuriously ==
    /\ loop.pc = "waiting"
    /\ LoopAt("wait")
    /\ UNCHANGED <<ringVars, disk, gcVars>>

-----------------------------------------------------------------------------
(* garbage_collection(), soft.                                             *)

\* IS_EVENT(): the collection stops, unless a hard one left its flag
Preempted == ~IsEmpty /\ stepFlag # HARD

\* gc_victim_block_select()
GcSelect ==
    /\ loop.pc = "gc"
    /\ IF stepFlag \in {0, HARD} THEN copied' = FALSE ELSE UNCHANGED copied
    /\ stepFlag' = IF stepFlag = 0 THEN 1 ELSE stepFlag
    /\ LoopAt("gcSelected")
    /\ UNCHANGED <<ringVars, disk>>

GcSelected ==
    /\ loop.pc = "gcSelected"
    /\ LoopAt(IF Preempted THEN "wait" ELSE "gcCopy")
    /\ UNCHANGED <<ringVars, disk, gcVars>>

\* wrong: a collection that goes on after the copy does not copy again
GcCopies_Once == copied \/ stepFlag # 2

\* the copy does not depend on step_flag
GcCopies == TRUE

\* the flag is set with each region that has its extents in memory
GcCopy ==
    /\ loop.pc = "gcCopy"
    /\ copied' = (copied \/ GcCopies)
    /\ stepFlag' \in (IF stepFlag = HARD THEN {HARD} ELSE {stepFlag, 2})
    /\ LoopAt("gcCopied")
    /\ UNCHANGED <<ringVars, disk>>

GcCopied ==
    /\ loop.pc = "gcCopied"
    /\ LoopAt(IF Preempted \/ stepFlag = 1 THEN "wait" ELSE "gcErase")
    /\ UNCHANGED <<ringVars, disk, gcVars>>

\* SSD_BLOCK_ERASE() and ftl_clear_free_blk_bitmap()
GcErase ==
    /\ loop.pc = "gcErase"
    /\ stepFlag' = IF stepFlag = 2 THEN 0 ELSE stepFlag
    /\ copied' = FALSE
    /\ LoopAt("wait")
    /\ UNCHANGED <<ringVars, disk>>

LoopNext ==
    \/ Top \/ Dequeue \/ Execute \/ Executed \/ TestEmpty \/ Sleep
    \/ GcSelect \/ GcSelected \/ GcCopy \/ GcCopied \/ GcErase

-----------------------------------------------------------------------------
Next ==
    \/ \E c \in Commands : Write(c)
    \/ DiskNext
    \/ LoopNext
    \/ WakeSpuriously

\* both threads run, but no command need ever come and no wakeup is spurious for sure
Spec == Init /\ [][Next]_vars /\ WF_vars(DiskNext) /\ WF_vars(LoopNext)

-----------------------------------------------------------------------------
(* Properties.                                                             *)

LoopPlaces == {"top", "dequeue", "execute", "executed", "wait", "sleep", "waiting",
               "gc", "gcSelected", "gcCopy", "gcCopied", "gcErase"}

\* Every variable has its type: front and rear wrap before they leave the ring.
TypeOK ==
    /\ slots \in [0..Size -> Commands \cup {NOOP}]
    /\ front \in 0..Size /\ rear \in 0..Size
    /\ disk \in [pc : {"idle", "test", "full", "enqueue", "signal"}, cmd : Commands \cup {NOOP}]
    /\ loop \in [pc : LoopPlaces, busy : BOOLEAN, slot : 0..Size]
    /\ stepFlag \in {0, 1, 2, HARD} /\ copied \in BOOLEAN

\* A block is erased only when no command has run since its pages were copied, however
\* often the collection was interrupted: a write in between could have put a page there.
ErasedIsCopied == loop.pc = "gcErase" => copied

\* The commands that were accepted and are not complete: the one that is executed, read
\* through the pointer, and those between front and rear.
Held      == IF front <= rear THEN rear - front ELSE rear - front + Size + 1
Slot(k)   == IF front + k - 1 <= Size THEN front + k - 1 ELSE front + k - 1 - (Size + 1)
Queued    == [k \in 1..Held |-> slots[Slot(k)]]
Executing == IF loop.pc \in {"execute", "executed"} THEN <<slots[loop.slot]>> ELSE <<>>

\* The queue is a FIFO, though a command is executed from a slot that is free already:
\* each command is executed once, in its order and unchanged.
Fifo     == INSTANCE CommandFifo WITH Capacity <- Size + 1, pending <- Executing \o Queued
FifoSpec == Fifo!Spec

\* A full queue does not stay full: the disk, which waits in a loop and signals in each
\* round, gets on although the loop may sleep through any one of the signals.
FullQueueDrains == disk.pc = "full" ~> disk.pc = "enqueue"

-----------------------------------------------------------------------------
(* The inductive invariant.                                                *)

\* what each thread knows at its place
DiskInv ==
    /\ disk.pc \in {"test", "full", "enqueue"} => disk.cmd \in Commands
    /\ disk.pc = "enqueue" => Held < Size

LoopInv ==
    /\ loop.pc = "dequeue" => ~IsEmpty
    /\ loop.pc \in {"execute", "executed"} => Following(loop.slot) = front
    /\ loop.pc \in {"gcCopied", "gcErase"} => copied

Inv == TypeOK /\ DiskInv /\ LoopInv
=============================================================================
