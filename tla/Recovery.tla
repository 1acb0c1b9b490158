------------------------------ MODULE Recovery ------------------------------
(***************************************************************************)
(* fsync() without a checkpoint, and roll-forward recovery (recovery.c).   *)
(* fsync() writes the node blocks of its file with the fsync mark to the   *)
(* warm node log and has the flush thread (FlushMerge) flush the device; a *)
(* mount follows the log from where the last checkpoint left it and        *)
(* recovers the files it finds fsync marks of.                             *)
(*                                                                         *)
(* A regular file has an inode and one direct node.  A value of a node is  *)
(* a number that grows with each change of the file.  The log fills its    *)
(* segments in order, so a block links to the one in the next position.    *)
(* The NAT is NodeManager, a checkpoint is CheckpointPack: here it is one  *)
(* step, after all dirty nodes were written.                               *)
(***************************************************************************)
EXTENDS Integers, Sequences, FiniteSets, FlushMerge

CONSTANTS
    Files,             \* inode numbers
    MaxStamp,          \* bound on the changes of the files
    MaxPowerFailures,
    MaxLog,            \* bound on the log, at which nothing is written back or begins
    OrderedWrites,     \* the device completes and keeps the writes of the log in order
    LateWrites,        \* see LateWrite
    Overlaps,          \* see Overlap
    StaleBlocks        \* see HasStaleBlocks

ASSUME RecoveryAssumption ==
    /\ 0 \notin Files
    /\ MaxStamp \in Nat /\ MaxPowerFailures \in Nat /\ MaxLog \in Nat
    /\ {OrderedWrites, LateWrites, Overlaps, StaleBlocks} \subseteq BOOLEAN

VARIABLES
    mem,          \* the files as the node pages and directories in memory have them
    dirty,        \* the dirty node pages of each file
    nat,          \* the flags of the NAT entry of each inode, or NoNat
    append,       \* FI_APPEND_WRITE
    parentSaved,  \* the directory of the files is in the last checkpoint
    saved,        \* the files as the last checkpoint has them
    log,          \* the blocks of the warm node log since the mount or the last checkpoint
    inFlight,     \* positions of the log whose writes have not ended
    durable,      \* positions of the log that are not only in the cache of the device
    medium,       \* the blocks the log had at a power failure, with the current cp_ver
    covered,      \* positions that the flush in progress makes durable
    fsync,        \* where fsync() of each thread is
    promise,      \* what fsync() promised of each file when it returned
    stamp,        \* the last value given to a node
    phase,        \* "up", "down", or "failed" after a mount that failed
    failures

memVars  == <<mem, dirty, nat, append>>
diskVars == <<saved, parentSaved, log, inFlight, durable, medium, covered>>
runVars  == <<promise, stamp, phase, failures>>
vars     == <<memVars, diskVars, fsync, runVars, flushVars>>

Kinds     == {"inode", "dnode"}
NoFile    == [linked |-> FALSE, inode |-> 0, dnode |-> 0]
NoBlock   == [file |-> 0, kind |-> "none", val |-> 0, fsync |-> FALSE, dent |-> FALSE]
NoNat     == [ckpt |-> TRUE, fsynced |-> FALSE, last |-> FALSE, dirty |-> FALSE, cached |-> FALSE]
ResetNat  == [ckpt |-> TRUE, fsynced |-> FALSE, last |-> TRUE, dirty |-> FALSE, cached |-> TRUE]
NewNat(fsynced) ==
             [ckpt |-> FALSE, fsynced |-> fsynced, last |-> FALSE, dirty |-> TRUE, cached |-> TRUE]
NoPromise == [inode |-> 0, dnode |-> 0]
Idle      == [pc |-> "idle", file |-> 0, todo |-> {}, start |-> NoPromise]

\* an operation may start: when no more power fails, nothing is to be seen
Running         == phase = "up" /\ failures < MaxPowerFailures

Exists(f)       == mem[f].linked
Fsyncing(f)     == {t \in Threads : fsync[t].file = f}
Positions(s)    == DOMAIN s
PositionsOf(f)  == {p \in Positions(log) : log[p].file = f}
MaxOf(S)        == CHOOSE x \in S : \A y \in S : y <= x

Init ==
    /\ mem = [f \in Files |-> NoFile]
    /\ saved = mem
    /\ parentSaved \in BOOLEAN
    /\ dirty = [f \in Files |-> {}]
    /\ nat = [f \in Files |-> NoNat]
    /\ append = [f \in Files |-> FALSE]
    /\ log = <<>> /\ medium = <<>>
    /\ inFlight = {} /\ durable = {} /\ covered = {}
    /\ fsync = [t \in Threads |-> Idle]
    /\ promise = [f \in Files |-> NoPromise]
    /\ stamp = 0
    /\ phase = "up"
    /\ failures = 0
    /\ FlushInit

-----------------------------------------------------------------------------
(* The node pages and the flags of the inode's NAT entry.                  *)

\* set_node_addr() of the inode, or of the dnode, whose inode may have no entry
NatAfter(f, kind, mark) ==
    IF kind = "inode"
    THEN [ckpt    |-> ~nat[f].cached \/ nat[f].ckpt,
          fsynced |-> nat[f].fsynced \/ mark,
          last    |-> mark, dirty |-> TRUE, cached |-> TRUE]
    ELSE IF nat[f].cached THEN [nat[f] EXCEPT !.last = mark] ELSE NoNat

\* need_inode_block_update()
NeedInodeBlockUpdate(f) == ~(nat[f].cached /\ nat[f].last /\ (nat[f].ckpt \/ nat[f].fsynced))

\* wrong: each inode that fsync() writes has the mark
DentryMark_Always(f) == TRUE

\* the dentry mark: is_checkpointed_node(), has_fsynced_inode()
DentryMark(f) == ~nat[f].ckpt /\ ~nat[f].fsynced

NodeBlock(f, kind, mark) ==
    [file |-> f, kind |-> kind, val |-> mem[f][kind],
     fsync |-> mark, dent |-> mark /\ kind = "inode" /\ DentryMark(f)]

\* f2fs_write_node_page(): the block gets the next position of the log
WriteNode(f, kind, mark) ==
    /\ log' = Append(log, NodeBlock(f, kind, mark))
    /\ inFlight' = inFlight \cup {Len(log')}
    /\ dirty' = [dirty EXCEPT ![f] = @ \ {kind}]
    /\ nat' = [nat EXCEPT ![f] = NatAfter(f, kind, mark)]

\* sync_node_pages() for writeback or a checkpoint: no marks
WriteBack(f, kind) ==
    /\ Running /\ Len(log) < MaxLog /\ kind \in dirty[f]
    /\ WriteNode(f, kind, FALSE)
    /\ UNCHANGED <<mem, append, saved, parentSaved, durable, medium, covered,
                   fsync, runVars, flushVars>>

\* a write of the log ends: the block is in the cache of the device
WriteEnd(p) ==
    /\ p \in inFlight
    /\ OrderedWrites => \A q \in inFlight : p <= q
    /\ inFlight' = inFlight \ {p}
    /\ UNCHANGED <<memVars, saved, parentSaved, log, durable, medium, covered, fsync, runVars, flushVars>>

\* try_to_free_nats()
TryToFreeNats(f) ==
    /\ Running /\ nat[f].cached /\ ~nat[f].dirty
    /\ nat' = [nat EXCEPT ![f] = NoNat]
    /\ UNCHANGED <<mem, dirty, append, diskVars, fsync, runVars, flushVars>>

-----------------------------------------------------------------------------
(* Changes of the files.                                                   *)

Stamp ==
    /\ Running /\ stamp < MaxStamp
    /\ stamp' = stamp + 1

\* A mount that recovered nothing wrote no checkpoint, and the log behind its
\* end still has blocks of an inode with this number.
HasStaleBlocks(f) == \E p \in Positions(medium) : medium[p].file = f

\* f2fs_create(), with a nid that is in no checkpoint and was not freed since
Create(f) ==
    /\ Stamp
    /\ StaleBlocks \/ ~HasStaleBlocks(f)
    /\ ~Exists(f) /\ saved[f] = NoFile /\ nat[f].ckpt
    /\ mem' = [mem EXCEPT ![f] = [linked |-> TRUE, inode |-> stamp', dnode |-> 0]]
    /\ dirty' = [dirty EXCEPT ![f] = {"inode"}]
    /\ nat' = [nat EXCEPT ![f] = NewNat(FALSE)]
    /\ UNCHANGED <<append, diskVars, fsync, promise, phase, failures, flushVars>>

\* Data of the file is written out after its fsync() looked at the direct node
\* and before it clears FI_APPEND_WRITE.
LateWrite(f) ==
    \E t \in Fsyncing(f) :
        \/ fsync[t].pc = "wait"
        \/ fsync[t].pc = "nodes" /\ "dnode" \notin fsync[t].todo

\* do_write_data_page(), out of place; the first block allocates the direct
\* node, and a block beyond the end of the file changes i_size
WriteData(f) ==
    /\ Stamp
    /\ Exists(f) /\ (LateWrites \/ ~LateWrite(f))
    /\ \E grows \in BOOLEAN :
         /\ mem[f].dnode = 0 => grows
         /\ mem' = [mem EXCEPT ![f].dnode = stamp', ![f].inode = IF grows THEN stamp' ELSE @]
         /\ dirty' = [dirty EXCEPT ![f] = @ \cup IF grows THEN Kinds ELSE {"dnode"}]
    /\ nat' = [nat EXCEPT ![f].last = @ /\ mem[f].dnode # 0]
    /\ append' = [append EXCEPT ![f] = TRUE]
    /\ UNCHANGED <<diskVars, fsync, promise, phase, failures, flushVars>>

\* f2fs_unlink() and f2fs_evict_inode() of a file that nobody has open
Unlink(f) ==
    /\ Running /\ Exists(f) /\ Fsyncing(f) = {}
    /\ mem' = [mem EXCEPT ![f] = NoFile]
    /\ dirty' = [dirty EXCEPT ![f] = {}]
    /\ nat' = [nat EXCEPT ![f] = NewNat(nat[f].fsynced)]
    /\ append' = [append EXCEPT ![f] = FALSE]
    /\ promise' = [promise EXCEPT ![f] = NoPromise]
    /\ UNCHANGED <<diskVars, fsync, stamp, phase, failures, flushVars>>

-----------------------------------------------------------------------------
(* A checkpoint, when all dirty nodes are written.                         *)

\* write_checkpoint(): the dirty NAT entries are reset, the version changes and
\* discard_next_dnode() ends the log
CheckpointDone ==
    /\ phase = "up" /\ \A f \in Files : dirty[f] = {}
    /\ saved' = mem
    /\ parentSaved' = TRUE
    /\ nat' = [f \in Files |-> IF nat[f].dirty THEN ResetNat ELSE nat[f]]
    /\ medium' = <<>>
    /\ log' = <<>> /\ inFlight' = {} /\ durable' = {} /\ covered' = {}

Checkpoint ==
    /\ CheckpointDone
    /\ UNCHANGED <<mem, dirty, append, fsync, runVars, flushVars>>

-----------------------------------------------------------------------------
(* f2fs_sync_file(), after the data of the file was written out.           *)

Goto(t, pc) == fsync' = [fsync EXCEPT ![t].pc = pc]

\* Two threads are in fsync() of one file.
Overlap(t, f) == Fsyncing(f) \ {t} # {}

\* what fsync() is to make durable
Current(f) == [inode |-> mem[f].inode, dnode |-> mem[f].dnode]

FsyncBegins(t, f) ==
    /\ Running /\ Len(log) < MaxLog /\ fsync[t] = Idle
    /\ promise[f] # Current(f)
    /\ Exists(f) /\ (Overlaps \/ ~Overlap(t, f))

\* fsync() returns 0
Promise(f, new) ==
    promise' = [promise EXCEPT ![f] = [inode |-> MaxOf({@.inode, new.inode}),
                                       dnode |-> MaxOf({@.dnode, new.dnode})]]

FsyncReturn(t) ==
    /\ Promise(fsync[t].file, fsync[t].start)
    /\ fsync' = [fsync EXCEPT ![t] = Idle]

\* there is no written data and no update of the inode
NothingWritten(f) == ~append[f] /\ "inode" \notin dirty[f] /\ ~NeedInodeBlockUpdate(f)

\* then fsync() has nothing to write
FsyncSkip(t, f) ==
    /\ FsyncBegins(t, f) /\ NothingWritten(f)
    /\ Promise(f, Current(f))
    /\ UNCHANGED <<memVars, diskVars, fsync, stamp, phase, failures, flushVars>>

\* need_do_checkpoint(): the directory of the file is in no checkpoint; the other
\* reasons only save what is in memory
NeedDoCheckpoint == ~parentSaved

FsyncStart(t, f) ==
    /\ FsyncBegins(t, f) /\ ~NothingWritten(f)
    /\ fsync' = [fsync EXCEPT ![t] = [pc    |-> IF NeedDoCheckpoint THEN "checkpoint" ELSE "nodes",
                                      file  |-> f,
                                      todo  |-> IF NeedDoCheckpoint THEN {} ELSE Kinds,
                                      start |-> Current(f)]]
    /\ UNCHANGED <<memVars, diskVars, runVars, flushVars>>

\* f2fs_sync_fs()
FsyncCheckpoint(t) ==
    /\ fsync[t].pc = "checkpoint"
    /\ CheckpointDone
    /\ FsyncReturn(t)
    /\ UNCHANGED <<mem, dirty, append, stamp, phase, failures, flushVars>>

\* sync_node_pages(): the node pages of the file, in the order of their nids
FsyncWriteNode(t, kind) ==
    LET f == fsync[t].file
    IN  /\ fsync[t].pc = "nodes" /\ kind \in fsync[t].todo
        /\ fsync' = [fsync EXCEPT ![t].todo = @ \ {kind}]
        /\ IF kind \in dirty[f] THEN WriteNode(f, kind, TRUE) ELSE UNCHANGED <<log, inFlight, dirty, nat>>
        /\ UNCHANGED <<mem, append, saved, parentSaved, durable, medium, covered, runVars, flushVars>>

\* f2fs_write_inode() and once more, if the last node has no mark
FsyncCheckInode(t) ==
    LET f == fsync[t].file
    IN  /\ fsync[t].pc = "nodes" /\ fsync[t].todo = {}
        /\ IF NeedInodeBlockUpdate(f)
           THEN /\ dirty' = [dirty EXCEPT ![f] = @ \cup {"inode"}]
                /\ fsync' = [fsync EXCEPT ![t].todo = Kinds]
           ELSE /\ Goto(t, "wait")
                /\ UNCHANGED dirty
        /\ UNCHANGED <<mem, nat, append, diskVars, runVars, flushVars>>

\* wrong: nothing is waited for
NodesWritten_Ignored(f) == TRUE

\* wait_on_node_pages_writeback(): the nodes of this file
NodesWritten(f) == PositionsOf(f) \cap inFlight = {}

\* ... and then FI_APPEND_WRITE is cleared and the flush requested
FsyncFlush(t) ==
    /\ fsync[t].pc = "wait" /\ NodesWritten(fsync[t].file)
    /\ append' = [append EXCEPT ![fsync[t].file] = FALSE]
    /\ IssueFlush(t)
    /\ Goto(t, "flush")
    /\ UNCHANGED <<mem, dirty, nat, diskVars, runVars>>

FsyncWake(t) ==
    /\ fsync[t].pc = "flush"
    /\ WakeFlusher(t)
    /\ UNCHANGED <<memVars, diskVars, fsync, runVars>>

FsyncDone(t) ==
    /\ fsync[t].pc = "flush"
    /\ FlushReturned(t)
    /\ FsyncReturn(t)
    /\ UNCHANGED <<memVars, diskVars, stamp, phase, failures>>

-----------------------------------------------------------------------------
(* The flush thread and the cache of the device.                           *)

\* wrong: blocks whose writes have not ended are taken for flushed
FlusherTake_InFlight ==
    /\ TakeRequests
    /\ covered' = Positions(log)
    /\ UNCHANGED <<memVars, saved, parentSaved, log, inFlight, durable, medium, fsync, runVars>>

\* the flush covers the blocks that are in the cache when it is submitted
FlusherTake ==
    /\ TakeRequests
    /\ covered' = Positions(log) \ inFlight
    /\ UNCHANGED <<memVars, saved, parentSaved, log, inFlight, durable, medium, fsync, runVars>>

FlusherDone ==
    /\ FlushDone
    /\ durable' = durable \cup covered
    /\ covered' = {}
    /\ UNCHANGED <<memVars, saved, parentSaved, log, inFlight, medium, fsync, runVars>>

FlusherStep ==
    /\ phase # "down"
    /\ (\E t \in Threads : CompleteRequest(t)) \/ FlushEnd \/ WaitEvent
    /\ UNCHANGED <<memVars, diskVars, fsync, runVars>>

-----------------------------------------------------------------------------
(* Power failure, and the next mount on what the medium then has at the    *)
(* positions of the log.                                                   *)

\* the device may have written any of the blocks of its cache
KeptBlocks ==
    IF OrderedWrites THEN {kept \in {1..n : n \in 0..Len(log)} : durable \subseteq kept}
    ELSE SUBSET (Positions(log) \ durable)

MediumWith(kept) ==
    [p \in Positions(log) \cup Positions(medium) |->
        IF p \in durable \cup kept THEN log[p]
        ELSE IF p \in Positions(medium) THEN medium[p] ELSE NoBlock]

\* the blocks with the current cp_ver that follow one another
ChainOf(m) == [p \in {q \in Positions(m) : \A r \in 1..q : m[r] # NoBlock} |-> m[p]]

MinOf(S)       == CHOOSE x \in S : \A y \in S : x <= y
Marked(c, f)   == {p \in Positions(c) : c[p].file = f /\ c[p].fsync}
Inodes(c, S)   == {p \in S : c[p].kind = "inode"}
Dentries(c, S) == {p \in S : c[p].kind = "inode" /\ c[p].dent}

\* wrong: a file counts though f2fs_iget() does not find its inode
FsyncDnodes_NotFound(c, f) == Marked(c, f)

\* find_fsync_dnodes(): the marked blocks of a file count from the first one
\* for which f2fs_iget() finds the inode, in the checkpoint or by recover_inode_page()
FsyncDnodes(c, f) ==
    LET dentries == Dentries(c, Marked(c, f))
    IN  IF saved[f].inode # 0 THEN Marked(c, f)
        ELSE {p \in Marked(c, f) : \E q \in dentries : q <= p}

InodeList(c) == {f \in Files : FsyncDnodes(c, f) # {}}

\* recover_inode_page() fails when the inode is there
FindFails(c) ==
    \E f \in InodeList(c) : saved[f].inode # 0 /\ MinOf(Marked(c, f)) \in Dentries(c, Marked(c, f))

\* recover_dentry() fails when the directory is not there
RecoverDentryFails(c) ==
    ~parentSaved /\ \E f \in InodeList(c) : Dentries(c, FsyncDnodes(c, f)) # {}

\* the value of the last of the blocks S, or the one there is
LastVal(c, S, old) == IF S = {} THEN old ELSE c[MaxOf(S)].val

\* do_recover_data(): the direct nodes up to the last mark, with one or without
RecoveredDnodes(c, f, marks) ==
    {p \in Positions(c) : p <= MaxOf(marks) /\ c[p].file = f /\ c[p].kind = "dnode"}

\* recover_data(): recover_inode() from the last inode that has the mark,
\* recover_dentry() and do_recover_data()
RecoveredFile(c, f, marks) ==
    [linked |-> saved[f].linked \/ Dentries(c, marks) # {},
     inode  |-> LastVal(c, Inodes(c, marks), saved[f].inode),
     dnode  |-> LastVal(c, RecoveredDnodes(c, f, marks), saved[f].dnode)]

AfterMount(c) ==
    [f \in Files |-> IF f \in InodeList(c) THEN RecoveredFile(c, f, FsyncDnodes(c, f)) ELSE saved[f]]

PowerFail ==
    /\ Running
    /\ failures' = failures + 1
    /\ phase' = "down"
    /\ \E kept \in KeptBlocks : medium' = MediumWith(kept)
    /\ mem' = [f \in Files |-> NoFile]
    /\ log' = <<>> /\ inFlight' = {} /\ durable' = {} /\ covered' = {}
    /\ dirty' = [f \in Files |-> {}]
    /\ nat' = [f \in Files |-> NoNat]
    /\ append' = [f \in Files |-> FALSE]
    /\ fsync' = [t \in Threads |-> Idle]
    /\ issueList' = {} /\ dispatchList' = {} /\ flusher' = "awake" /\ completed' = {}
    /\ request' = [t \in Threads |-> "none"]
    /\ UNCHANGED <<saved, parentSaved, promise, stamp>>

\* recover_fsync_data(); without a file to recover no checkpoint is written: cp_ver and the
\* start of the log stay
Mount ==
    LET c == ChainOf(medium)
    IN  /\ phase = "down"
        /\ IF FindFails(c) \/ RecoverDentryFails(c)
           THEN /\ phase' = "failed"
                /\ mem' = saved
                /\ UNCHANGED <<saved, medium>>
           ELSE /\ phase' = "up"
                /\ mem' = AfterMount(c)
                /\ saved' = mem'
                /\ medium' = IF InodeList(c) = {} THEN medium ELSE <<>>
        /\ UNCHANGED <<dirty, nat, append, parentSaved, log, inFlight, durable, covered, fsync,
                       promise, stamp, failures, flushVars>>

-----------------------------------------------------------------------------
FileStep(f) ==
    \/ Create(f) \/ WriteData(f) \/ Unlink(f) \/ TryToFreeNats(f)
    \/ \E kind \in Kinds : WriteBack(f, kind)

FsyncStep(t) ==
    \/ \E f \in Files : FsyncSkip(t, f) \/ FsyncStart(t, f)
    \/ FsyncCheckpoint(t)
    \/ \E kind \in Kinds : FsyncWriteNode(t, kind)
    \/ FsyncCheckInode(t) \/ FsyncFlush(t) \/ FsyncWake(t) \/ FsyncDone(t)

Next ==
    \/ \E f \in Files : FileStep(f)
    \/ \E t \in Threads : FsyncStep(t)
    \/ FlusherTake \/ FlusherDone \/ FlusherStep
    \/ \E p \in inFlight : WriteEnd(p)
    \/ Checkpoint \/ PowerFail \/ Mount

Spec == Init /\ [][Next]_vars

-----------------------------------------------------------------------------
(* Properties.                                                             *)

\* The variables have their types; a block the flush makes durable has ended.
TypeOK ==
    /\ FlushTypeOK
    /\ \A f \in Files :
         /\ {mem[f], saved[f]} \subseteq
              [linked : BOOLEAN, inode : 0..stamp, dnode : 0..stamp]
         /\ promise[f] \in [inode : 0..stamp, dnode : 0..stamp]
    /\ stamp \in 0..MaxStamp
    /\ dirty \in [Files -> SUBSET Kinds]
    /\ nat \in [Files -> [ckpt : BOOLEAN, fsynced : BOOLEAN, last : BOOLEAN,
                          dirty : BOOLEAN, cached : BOOLEAN]]
    /\ append \in [Files -> BOOLEAN]
    /\ parentSaved \in BOOLEAN
    /\ inFlight \subseteq Positions(log) /\ durable \subseteq Positions(log) \ inFlight
    /\ covered \subseteq Positions(log) \ inFlight
    /\ \A p \in Positions(log) : log[p].file \in Files /\ log[p].kind \in Kinds
    /\ \A t \in Threads :
         /\ fsync[t].pc \in {"idle", "checkpoint", "nodes", "wait", "flush"}
         /\ fsync[t].pc # "idle" => fsync[t].file \in Files
         /\ (request[t] # "none") = (fsync[t].pc = "flush")
    /\ phase \in {"up", "down", "failed"}
    /\ failures \in 0..MaxPowerFailures

\* What fsync() returned for is there after a power failure: the file, in its
\* directory, with the data of then or later data ("Both of fdatasync() and
\* fsync() are able to be recovered from sudden-power-off"); and if it had none
\* then, no older data, of another file with that inode number.
FsyncedDataSurvives ==
    [][phase = "down" /\ phase' = "up" =>
         \A f \in Files : promise[f] # NoPromise =>
            /\ mem'[f].linked
            /\ mem'[f].dnode >= promise[f].dnode
            /\ promise[f].dnode = 0 => mem'[f].dnode \notin 1..promise[f].inode]_vars

\* Of what fsync() returned for, the file is there, in its directory, whatever
\* becomes of its data.
FsyncedNamesSurvive ==
    [][phase = "down" /\ phase' = "up" =>
         \A f \in Files : promise[f] # NoPromise => mem'[f].linked]_vars

\* A file that had no data when fsync() returned for it comes back without any from before,
\* of another file with its inode number.
NoOlderDataReturns ==
    [][phase = "down" /\ phase' = "up" =>
         \A f \in Files : promise[f].dnode = 0 => mem'[f].dnode \notin 1..promise[f].inode]_vars

\* A mount never takes a file behind the last checkpoint, and brings back no
\* name without its inode and no data without a name.
RollsForward ==
    [][phase = "down" /\ phase' = "up" =>
         \A f \in Files :
            /\ mem'[f].inode >= saved[f].inode /\ mem'[f].dnode >= saved[f].dnode
            /\ mem'[f].linked = (mem'[f].inode # 0)
            /\ mem'[f].dnode # 0 => mem'[f].linked]_vars

\* Whatever of the log is lost, a mount does not fail: no inode has a dentry
\* mark that the checkpoint has, and no directory of a dentry is missing.
MountSucceeds == phase # "failed"

-----------------------------------------------------------------------------
(* What holds in any order of the writes of the device and with all races: *)
(* it is inductive.                                                        *)

FileRec  == [linked : BOOLEAN, inode : Nat, dnode : Nat]
Block    == [file : Files, kind : Kinds, val : Nat, fsync : BOOLEAN, dent : BOOLEAN]
NatEntry == [ckpt : BOOLEAN, fsynced : BOOLEAN, last : BOOLEAN, dirty : BOOLEAN, cached : BOOLEAN]
Values   == [inode : Nat, dnode : Nat]

TypeInv ==
    /\ FlushTypeOK
    /\ mem \in [Files -> FileRec] /\ saved \in [Files -> FileRec]
    /\ promise \in [Files -> Values]
    /\ stamp \in 0..MaxStamp /\ failures \in 0..MaxPowerFailures
    /\ dirty \in [Files -> SUBSET Kinds]
    /\ nat \in [Files -> NatEntry]
    /\ append \in [Files -> BOOLEAN]
    /\ parentSaved \in BOOLEAN
    /\ log \in Seq(Block)
    /\ medium \in Seq(Block \cup {NoBlock})
    /\ inFlight \subseteq Positions(log) /\ durable \subseteq Positions(log) \ inFlight
    /\ covered \subseteq Positions(log) \ inFlight
    /\ fsync \in [Threads -> [pc : {"idle", "checkpoint", "nodes", "wait", "flush"},
                              file : Files \cup {0}, todo : SUBSET Kinds, start : Values]]
    /\ \A t \in Threads : fsync[t].pc = "idle" <=> fsync[t].file = 0
    /\ phase \in {"up", "down", "failed"}

\* A request is where its thread waits for it, and in one place.
RequestInv ==
    /\ NoLostWakeup
    /\ \A t \in Threads :
         /\ fsync[t].pc = "flush" <=> request[t] # "none"
         /\ request[t] # "none" <=> t \in issueList \cup dispatchList \cup completed
         /\ t \in issueList => t \notin dispatchList
         /\ t \in completed => t \notin issueList \cup dispatchList
    /\ dispatchList # {} => flusher \in {"flush", "complete"}

WellFormed(r) == IF r.linked THEN r.inode # 0 ELSE r.inode = 0 /\ r.dnode = 0

\* The values of a file in memory, and of it in the last checkpoint.
ValuesInv ==
    \A f \in Files :
       /\ WellFormed(mem[f]) /\ mem[f].inode <= stamp /\ mem[f].dnode <= stamp
       /\ WellFormed(saved[f]) /\ saved[f].inode <= stamp /\ saved[f].dnode <= stamp
       /\ Exists(f) => saved[f].inode <= mem[f].inode /\ saved[f].dnode <= mem[f].dnode
       /\ ~Exists(f) => dirty[f] = {}
       /\ "dnode" \in dirty[f] => mem[f].dnode # 0

\* The flag ckpt of a file says whether the checkpoint has it, and an entry that
\* says more than the one a lookup would read stays cached.
FlagsInv ==
    \A f \in Files :
       /\ nat[f].fsynced \/ ~nat[f].ckpt => nat[f].dirty
       /\ nat[f].dirty => nat[f].cached
       /\ Exists(f) => (nat[f].ckpt <=> saved[f].linked)

\* A block of the log is no older than the checkpoint, and has the dentry mark only
\* for a file that the checkpoint does not have, in a directory that it has.
BlockOK(b) ==
    /\ b.val \in 1..stamp
    /\ saved[b.file][b.kind] <= b.val
    /\ b.dent => b.fsync /\ b.kind = "inode" /\ ~saved[b.file].linked /\ parentSaved

BlocksInv ==
    /\ \A p \in Positions(log) : BlockOK(log[p])
    /\ \A p \in Positions(medium) : medium[p] # NoBlock => BlockOK(medium[p])

\* fsync() is called for a file, and promises no value that was not given.
CallsInv ==
    /\ \A f \in Files : promise[f].inode <= stamp /\ promise[f].dnode <= stamp
    /\ \A t \in Threads :
         fsync[t].pc # "idle" =>
            /\ Exists(fsync[t].file)
            /\ fsync[t].start.inode <= stamp /\ fsync[t].start.dnode <= stamp
            /\ fsync[t].pc = "nodes" => parentSaved

\* After a power failure nothing is left but the medium.
Stopped ==
    /\ log = <<>>
    /\ \A f \in Files : mem[f] = NoFile /\ dirty[f] = {} /\ nat[f] = NoNat /\ ~append[f]
    /\ \A t \in Threads : fsync[t] = Idle /\ request[t] = "none"
    /\ issueList = {} /\ dispatchList = {} /\ completed = {} /\ flusher = "awake"

BaseInv ==
    /\ TypeInv /\ RequestInv /\ ValuesInv /\ FlagsInv /\ BlocksInv /\ CallsInv
    /\ phase = "down" => Stopped
    /\ MountSucceeds

-----------------------------------------------------------------------------
(* The inductive invariant, for OrderedWrites and without the races and    *)
(* stale blocks.                                                           *)

FileInv ==
    /\ ValuesInv
    /\ \A f \in Files :
         /\ Exists(f) /\ ~saved[f].linked => ~HasStaleBlocks(f)
         /\ "dnode" \in dirty[f] => append[f]

\* The flag last says that the last block of a file has the mark, and fsynced that
\* there is one with the dentry mark.
NatInv ==
    /\ FlagsInv
    /\ \A f \in Files :
         /\ Exists(f) /\ nat[f].cached /\ nat[f].last =>
              \A p \in PositionsOf(f) : \E q \in PositionsOf(f) : p <= q /\ log[q].fsync
         /\ Exists(f) /\ nat[f].fsynced /\ ~nat[f].ckpt =>
              \E p \in PositionsOf(f) : log[p].dent

\* The blocks of a file follow its changes.
LogInv ==
    \A p \in Positions(log) :
       LET b == log[p]
       IN  /\ BlockOK(b)
           /\ IF Exists(b.file) THEN b.val <= mem[b.file][b.kind] ELSE ~nat[b.file].ckpt
           /\ ~saved[b.file].linked => ~HasStaleBlocks(b.file)
           /\ \A q \in p..Len(log) :
                log[q].file = b.file /\ log[q].kind = b.kind => b.val <= log[q].val

\* What an earlier mount left is no file to recover.
MediumInv ==
    \A p \in Positions(medium) :
       IF medium[p] = NoBlock THEN \A q \in p..Len(medium) : medium[q] = NoBlock
       ELSE /\ BlockOK(medium[p])
            /\ ~medium[p].dent /\ (medium[p].fsync => ~saved[medium[p].file].linked)

Own(lg, f, S) == {p \in S \cap DOMAIN lg : lg[p].file = f}

\* The blocks at S of the log bring a file back with data v or later, beside
\* what the last checkpoint has of it.
Recoverable(old, lg, f, v, S) ==
    /\ old.linked \/ \E r \in Own(lg, f, S) : lg[r].dent
    /\ \/ v <= old.dnode
       \/ \E p, q \in Own(lg, f, S) :
             /\ p <= q /\ lg[p].kind = "dnode" /\ v <= lg[p].val /\ lg[q].fsync
             /\ old.linked \/ \E r \in Own(lg, f, S) : r <= q /\ lg[r].dent

\* If the file had no data with this inode, it has none from before.
NoOlderData(now, old, lg, f, v) ==
    v.dnode = 0 =>
       /\ now.dnode \notin 1..v.inode /\ old.dnode \notin 1..v.inode
       /\ \A p \in DOMAIN lg : lg[p].file = f /\ lg[p].kind = "dnode" => v.inode < lg[p].val

\* how far the request of a thread has come
Stage(t) ==
    IF t \in issueList THEN Positions(log) \ inFlight
    ELSE IF t \in dispatchList /\ flusher = "flush" THEN covered
    ELSE durable

FsyncInv ==
    \A t \in Threads :
       fsync[t].pc # "idle" =>
         LET f == fsync[t].file
             v == fsync[t].start
         IN  /\ Exists(f) /\ v.dnode <= mem[f].dnode /\ 0 < v.inode /\ v.inode <= stamp
             /\ NoOlderData(mem[f], saved[f], log, f, v)
             /\ \A u \in Threads : fsync[u].file = f => u = t
             /\ fsync[t].pc = "nodes" => parentSaved
             /\ LateWrite(f) => "dnode" \notin dirty[f]
             /\ fsync[t].pc = "wait" => Recoverable(saved[f], log, f, mem[f].dnode, Positions(log))
             /\ fsync[t].pc = "flush" =>
                  Recoverable(saved[f], log, f, IF append[f] THEN v.dnode ELSE mem[f].dnode, Stage(t))

\* Of a file that exists and nobody is in fsync() of: what is written is in the log, and
\* what fsync() would skip is safe.
WrittenInv ==
    \A f \in Files :
       Exists(f) =>
         /\ "dnode" \notin dirty[f] =>
              \/ mem[f].dnode = saved[f].dnode
              \/ \E p \in PositionsOf(f) : log[p].kind = "dnode" /\ log[p].val = mem[f].dnode
         /\ Fsyncing(f) = {} /\ ~append[f] /\ ~NeedInodeBlockUpdate(f) =>
              Recoverable(saved[f], log, f, mem[f].dnode, durable)

PromiseInv ==
    \A f \in Files :
       promise[f] # NoPromise =>
          /\ Exists(f) /\ promise[f].dnode <= mem[f].dnode
          /\ 0 < promise[f].inode /\ promise[f].inode <= stamp
          /\ NoOlderData(mem[f], saved[f], log, f, promise[f])
          /\ Recoverable(saved[f], log, f, promise[f].dnode, durable)

UpInv == RequestInv /\ FileInv /\ NatInv /\ LogInv /\ MediumInv /\ FsyncInv /\ WrittenInv /\ PromiseInv

\* A file as a mount brings it back.
Survived(f, r) ==
    /\ WellFormed(r) /\ saved[f].inode <= r.inode /\ r.inode <= stamp
    /\ saved[f].dnode <= r.dnode /\ r.dnode <= stamp
    /\ promise[f] # NoPromise =>
         /\ r.linked /\ promise[f].dnode <= r.dnode
         /\ 0 < promise[f].inode /\ promise[f].inode <= stamp
         /\ promise[f].dnode = 0 => r.dnode \notin 1..promise[f].inode

\* What the medium has brings each file back.
DownInv ==
    LET c == ChainOf(medium)
    IN  /\ Stopped
        /\ \A p \in Positions(c) : BlockOK(c[p])
        /\ \A p \in Positions(medium) :
             medium[p] = NoBlock => \A q \in p..Len(medium) : medium[q] = NoBlock
        /\ \A f \in Files : WellFormed(saved[f]) /\ Survived(f, AfterMount(c)[f])

Inv ==
    /\ TypeInv
    /\ phase = "up" => UpInv
    /\ phase = "down" => DownInv
    /\ NoLostWakeup
    /\ MountSucceeds

-----------------------------------------------------------------------------
(* The invariant of the names, for OrderedWrites and without Overlaps:     *)
(* data may be written late, and there may be stale blocks.                *)

\* The checkpoint has the name of the file, or one of the blocks at S brings it back.
NameAt(f, S) == saved[f].linked \/ \E p \in PositionsOf(f) \cap S : log[p].dent

\* After a power failure, with what the medium has.
NameOnMedium(f) ==
    LET c == ChainOf(medium)
    IN  saved[f].linked \/ \E p \in Positions(c) : c[p].file = f /\ c[p].dent

\* A file has one fsync() at a time, and what has the mark in its NAT entry is in the log;
\* nobody is at fsync() of it: it is durable.
NameInv ==
    /\ \A f \in Files :
         /\ promise[f] # NoPromise =>
              IF phase = "down" THEN NameOnMedium(f) ELSE Exists(f) /\ NameAt(f, durable)
         /\ Exists(f) /\ nat[f].fsynced /\ ~nat[f].ckpt =>
              NameAt(f, IF Fsyncing(f) = {} THEN durable ELSE Positions(log))
    /\ \A t \in Threads :
         fsync[t].pc # "idle" =>
            /\ \A u \in Threads : fsync[u].file = fsync[t].file => u = t
            /\ fsync[t].pc = "wait" => NameAt(fsync[t].file, Positions(log))
            /\ fsync[t].pc = "flush" => NameAt(fsync[t].file, Stage(t))

-----------------------------------------------------------------------------
(* The invariant of data from before, without StaleBlocks: the device may  *)
(* write in any order, and there may be both races.                        *)

\* If the file had no data with this inode, there is none from before, anywhere.
NoneOlder(f, v) ==
    /\ NoOlderData(mem[f], saved[f], log, f, v)
    /\ v.dnode = 0 =>
         \A p \in Positions(medium) :
            medium[p].file = f /\ medium[p].kind = "dnode" => v.inode < medium[p].val

OlderInv ==
    /\ \A f \in Files :
         /\ NoneOlder(f, saved[f]) /\ NoneOlder(f, promise[f])
         /\ Exists(f) /\ ~saved[f].linked => ~HasStaleBlocks(f)
         /\ Exists(f) /\ saved[f].linked /\ mem[f].dnode = 0 => mem[f].inode = saved[f].inode
    /\ \A t \in Threads : fsync[t].pc # "idle" => NoneOlder(fsync[t].file, fsync[t].start)
    /\ \A p \in Positions(log) :
         LET b == log[p]
         IN  IF Exists(b.file) THEN b.val <= mem[b.file][b.kind] ELSE ~nat[b.file].ckpt
=============================================================================
