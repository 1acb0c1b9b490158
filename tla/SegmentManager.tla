--------------------------- MODULE SegmentManager ---------------------------
(***************************************************************************)
(* The segment manager of F2FS (src/F2FS/f2fs/segment.c) together with the *)
(* parts of gc.c, checkpoint.c and data.c that drive it: the block         *)
(* allocator and its logs, the segment information table (SIT), the free   *)
(* and dirty segment maps, garbage collection, the steps of a checkpoint,  *)
(* an I/O error in the middle of one, and a power failure followed by a    *)
(* mount.                                                                  *)
(*                                                                         *)
(* A section is one segment (segs_per_sec = 1, the mkfs default).  A page  *)
(* is a data or node page that the file system can write out; addr says    *)
(* which block holds it now.  NULL_ADDR stands for both NULL_ADDR and      *)
(* NEW_ADDR: the page has no block on the device.  f2fs_bug_on() stops the *)
(* system, so an operation that would trip one is not enabled.             *)
(***************************************************************************)
EXTENDS Integers, FiniteSets

CONSTANTS
    Segs,          \* segments of the main area
    BlocksPerSeg,  \* blocks in a segment
    Logs,          \* the logs in use, as numbered by the CURSEG_* enum
    DataPages,     \* pages written to the data logs
    NodePages,     \* pages written to the node logs
    NULL_SEGNO,
    NULL_ADDR,
    ReservedSecs,  \* reserved_sections()
    MaxDirtySecs,  \* bound on node_secs + 2 * dent_secs
    DA_MAP,        \* is F2FS_DA_MAP defined (segment.h:14)
    RacingWriters, \* may two threads be in do_write_page() for one log at once
    Fitrim,        \* may user space call FITRIM
    IOErrors       \* may a write to the device fail

CURSEG_WARM_DATA == 1
CURSEG_COLD_DATA == 2
CURSEG_WARM_NODE == 4

Pages     == DataPages \cup NodePages
Offsets   == 0 .. (BlocksPerSeg - 1)
Blocks    == Segs \X Offsets
Addrs     == Blocks \cup {NULL_ADDR}
Types     == 0 .. 5
IsData(l) == l <= CURSEG_COLD_DATA
DataLogs  == {l \in Logs : IsData(l)}
NodeLogs  == Logs \ DataLogs

ASSUME SegmentManagerAssumption ==
    /\ IsFiniteSet(Segs)
    /\ BlocksPerSeg \in Nat \ {0}
    /\ Logs \subseteq Types
    /\ DataPages \cap NodePages = {}
    /\ NULL_SEGNO \notin Segs
    /\ NULL_ADDR \notin Blocks
    /\ ReservedSecs \in Nat
    /\ MaxDirtySecs \in Nat
    /\ {DA_MAP, RacingWriters, Fitrim, IOErrors} \subseteq BOOLEAN

VARIABLES
    \* in memory
    valid,            \* cur_valid_map of each segment
    ckptValid,        \* ckpt_valid_map of each segment
    ckptValidBlocks,  \* ckpt_valid_blocks of each segment
    segType,          \* the log a segment was last opened for (seg_entry.type)
    dirtySentries,    \* dirty_sentries_bitmap
    inuse,            \* free_segmap: the segments whose bit is set
    dirty,            \* dirty_seglist_info: DIRTY, PRE, one map per log, victim_secmap
    curseg,           \* the open segment of each log
    addr,             \* the block of each page, as its dnode or NAT entry has it
    admitted,         \* data pages past the f2fs_cp_error() check of f2fs_write_data_page()
    rewriting,        \* F2FS_DA_MAP: prev_blkaddr of a read_and_submit_prev_page() under way
    gc,               \* where f2fs_gc() is
    cp,               \* where write_checkpoint() is, and who called it
    staged,           \* what the running checkpoint has written, to be committed
    discards,         \* blocks of SM_I(sbi)->discard_list
    cpError,          \* CP_ERROR_FLAG
    \* on the device
    durable,          \* the last complete checkpoint
    destroyed         \* its valid blocks that were overwritten or discarded since

sitVars   == <<valid, ckptValid, ckptValidBlocks, segType, dirtySentries>>
allocVars == <<sitVars, inuse, dirty, curseg>>
cpVars    == <<cp, staged, discards, durable>>
vars      == <<allocVars, addr, admitted, rewriting, gc, cpVars, cpError, destroyed>>

-----------------------------------------------------------------------------
(* Types of the compound variables.                                        *)

Cursegs    == [Logs -> [segno : Segs, next_blkoff : Offsets, alloc_type : {"LFS", "SSR"}]]
SitMaps    == [Segs -> SUBSET Offsets]
Checkpoint == [sit : SitMaps, types : [Segs -> Types], addr : [Pages -> Addrs], curseg : Cursegs]
Seglist    == [DIRTY : SUBSET Segs, PRE : SUBSET Segs, victims : SUBSET Segs,
               ofType : [Logs -> SUBSET Segs]]

-----------------------------------------------------------------------------
(* Operators on the maps.                                                  *)

CurSegs(cs)    == {cs[l].segno : l \in Logs}
FreeSegs       == Segs \ inuse
\* wrong: SSR looks at the current map only
UsedOffs_CurrentOnly(s) == valid[s]
UsedOffs(s)    == valid[s] \cup ckptValid[s]
SegsOf(bs)     == {b[1] : b \in bs \ {NULL_ADDR}}
OffsIn(bs, s)  == {o \in Offsets : <<s, o>> \in bs}
BlocksOf(maps) == {b \in Blocks : b[2] \in maps[b[1]]}
NextFree(l)    == <<curseg[l].segno, curseg[l].next_blkoff>>
Indicator(p)   == IF p THEN 1 ELSE 0

\* n is the first offset from start on that is not in used, or the segment's end
IsNextFree(n, used, start) ==
    /\ n \in start .. BlocksPerSeg
    /\ n \notin used
    /\ \A i \in start .. (n - 1) : i \in used

\* wrong: an emptied segment keeps its mark as a victim of background GC
Relocated_KeepsVictims(d, S, v, cs) ==
    LET T     == S \ CurSegs(cs)
        empty == {s \in T : v[s] = {}}
        full  == {s \in T : v[s] = Offsets}
        part  == T \ (empty \cup full)
        OfType(l, R) == {s \in R : segType[s] = l}
    IN  [DIRTY   |-> (d.DIRTY \cup part) \ (empty \cup full),
         PRE     |-> d.PRE \cup empty,
         victims |-> d.victims,
         ofType  |-> [l \in Logs |->
                        (d.ofType[l] \cup OfType(l, part)) \ OfType(l, empty \cup full)]]

\* locate_dirty_segment() on every segment of S: an empty one becomes prefree,
\* a partly valid one dirty, a full one neither; the open ones are skipped
Relocated(d, S, v, cs) ==
    LET T     == S \ CurSegs(cs)
        empty == {s \in T : v[s] = {}}
        full  == {s \in T : v[s] = Offsets}
        part  == T \ (empty \cup full)
        OfType(l, R) == {s \in R : segType[s] = l}
    IN  [DIRTY   |-> (d.DIRTY \cup part) \ (empty \cup full),
         PRE     |-> d.PRE \cup empty,
         victims |-> d.victims \ empty,
         ofType  |-> [l \in Logs |->
                        (d.ofType[l] \cup OfType(l, part)) \ OfType(l, empty \cup full)]]

\* change_curseg() takes the new segment off the PRE and DIRTY maps
Removed(d, s) ==
    [DIRTY   |-> d.DIRTY \ {s},
     PRE     |-> d.PRE \ {s},
     victims |-> IF valid[s] = {} THEN d.victims \ {s} ELSE d.victims,
     ofType  |-> [l \in Logs |-> IF l = segType[s] THEN d.ofType[l] \ {s} ELSE d.ofType[l]]]

\* need_SSR() and has_not_enough_free_secs() with secs = node_secs + 2 * dent_secs
NeedSSR(secs)              == Cardinality(FreeSegs) <= secs + ReservedSecs + 1
HasNotEnoughFreeSecs(secs) == Cardinality(FreeSegs) <= secs + ReservedSecs

\* cur_victim_sec is the segment that foreground GC is emptying
CurVictim        == IF gc.fg /\ gc.pc = "move" THEN {gc.segno} ELSE {}
SecUsageCheck(s) == s \in CurSegs(curseg) \cup CurVictim

\* wrong: a segment without a hole is a candidate too
SSRCandidates_NoCost(t) == {s \in dirty.ofType[t] : ~SecUsageCheck(s) /\ s \notin dirty.victims}

\* what get_victim() may return to SSR from the dirty map of log t
SSRCandidates(t) == {s \in dirty.ofType[t] : /\ ~SecUsageCheck(s)
                                             /\ s \notin dirty.victims
                                             /\ ckptValidBlocks[s] < BlocksPerSeg}

\* get_ssr_segment(): when space is short, a data log goes down the other data
\* logs to the first one that has a candidate
SSRVictims(l, secs) ==
    IF ~IsData(l) \/ ~HasNotEnoughFreeSecs(secs)
    THEN SSRCandidates(l)
    ELSE UNION {SSRCandidates(t) : t \in {u \in Logs :
                  /\ u <= l
                  /\ \A w \in Logs : u < w /\ w <= l => SSRCandidates(w) = {}}}

\* the branch of allocate_segment_by_default() that reuses a segment
UseSSR(l, secs) == /\ ~DA_MAP
                   /\ l # CURSEG_WARM_NODE
                   /\ NeedSSR(secs)
                   /\ SSRVictims(l, secs) # {}

-----------------------------------------------------------------------------
(* Mount: build_segment_manager() from a checkpoint.                       *)

PartlyUsed(sit, cs) == {s \in Segs \ CurSegs(cs) : sit[s] # {} /\ sit[s] # Offsets}

SeglistOf(c) ==
    [DIRTY   |-> PartlyUsed(c.sit, c.curseg),
     PRE     |-> {},
     victims |-> {},
     ofType  |-> [l \in Logs |-> {s \in PartlyUsed(c.sit, c.curseg) : c.types[s] = l}]]

InuseOf(c) == {s \in Segs : c.sit[s] # {}} \cup CurSegs(c.curseg)

Idle == [pc |-> "idle", segno |-> NULL_SEGNO, fg |-> FALSE]

NoCheckpoint == [phase |-> "idle", by |-> "none"]

MkfsCheckpoint(f) ==
    [sit    |-> [s \in Segs |-> {}],
     types  |-> [s \in Segs |-> IF \E l \in Logs : f[l] = s
                                THEN CHOOSE l \in Logs : f[l] = s ELSE 0],
     addr   |-> [o \in Pages |-> NULL_ADDR],
     curseg |-> [l \in Logs |-> [segno |-> f[l], next_blkoff |-> 0, alloc_type |-> "LFS"]]]

Init ==
    /\ \E f \in [Logs -> Segs] :
         /\ \A l, k \in Logs : f[l] = f[k] => l = k
         /\ durable = MkfsCheckpoint(f)
    /\ valid = durable.sit
    /\ ckptValid = durable.sit
    /\ ckptValidBlocks = [s \in Segs |-> 0]
    /\ segType = durable.types
    /\ dirtySentries = {}
    /\ inuse = InuseOf(durable)
    /\ dirty = SeglistOf(durable)
    /\ curseg = durable.curseg
    /\ addr = durable.addr
    /\ admitted = {}
    /\ rewriting = [l \in Logs |-> NULL_ADDR]
    /\ gc = Idle
    /\ cp = NoCheckpoint
    /\ staged = durable
    /\ discards = {}
    /\ cpError = FALSE
    /\ destroyed = {}

-----------------------------------------------------------------------------
(* The allocator.                                                          *)

\* wrong: an SSR log goes on to the next block as an LFS log does
RefreshNextBlkoff_AlwaysLFS(c, n) == n = c.next_blkoff + 1

\* __refresh_next_blkoff() moves curseg c to offset n
RefreshNextBlkoff(c, n) ==
    IF c.alloc_type = "LFS" THEN n = c.next_blkoff + 1
    ELSE IsNextFree(n, UsedOffs(c.segno), c.next_blkoff + 1)

\* wrong: the segment of the new block is not located
RefreshSitEntry_OldOnly(old, new, d) ==
    /\ valid' = [s \in Segs |-> (valid[s] \cup OffsIn({new}, s)) \ OffsIn({old}, s)]
    /\ ckptValidBlocks' =
         [s \in Segs |-> ckptValidBlocks[s]
                           + Cardinality(OffsIn({new}, s) \ ckptValid[s])
                           - Cardinality(OffsIn({old}, s) \ ckptValid[s])]
    /\ dirty' = Relocated(d, SegsOf({old}), valid', curseg')

\* wrong: ckpt_valid_blocks goes down with every invalidated block
RefreshSitEntry_NoCkptTest(old, new, d) ==
    /\ valid' = [s \in Segs |-> (valid[s] \cup OffsIn({new}, s)) \ OffsIn({old}, s)]
    /\ ckptValidBlocks' =
         [s \in Segs |-> ckptValidBlocks[s]
                           + Cardinality(OffsIn({new}, s)) - Cardinality(OffsIn({old}, s))]
    /\ dirty' = Relocated(d, SegsOf({old, new}), valid', curseg')

\* refresh_sit_entry(): new becomes valid, then old invalid, and their segments
\* are located in the seglist, which was d so far
RefreshSitEntry(old, new, d) ==
    /\ valid' = [s \in Segs |-> (valid[s] \cup OffsIn({new}, s)) \ OffsIn({old}, s)]
    /\ ckptValidBlocks' =
         [s \in Segs |-> ckptValidBlocks[s]
                           + Cardinality(OffsIn({new}, s) \ ckptValid[s])
                           - Cardinality(OffsIn({old}, s) \ ckptValid[s])]
    /\ dirty' = Relocated(d, SegsOf({old, new}), valid', curseg')

\* wrong: a prefree segment is taken for a free one
NewCurseg_Prefree(l, s) ==
    /\ s \in FreeSegs \cup dirty.PRE
    /\ inuse' = inuse \cup {s}
    /\ curseg' = [curseg EXCEPT ![l] = [segno |-> s, next_blkoff |-> 0, alloc_type |-> "LFS"]]
    /\ segType' = [segType EXCEPT ![s] = l]

\* new_curseg(): log l goes on in a free segment
NewCurseg(l, s) ==
    /\ s \in FreeSegs
    /\ inuse' = inuse \cup {s}
    /\ curseg' = [curseg EXCEPT ![l] = [segno |-> s, next_blkoff |-> 0, alloc_type |-> "LFS"]]
    /\ segType' = [segType EXCEPT ![s] = l]

\* change_curseg(): log l goes on in the holes of a segment in use
ChangeCurseg(l, s) ==
    /\ inuse' = inuse \cup {s}
    /\ \E n \in 0 .. BlocksPerSeg :
         /\ IsNextFree(n, UsedOffs(s), 0)
         /\ curseg' = [curseg EXCEPT ![l] = [segno |-> s, next_blkoff |-> n, alloc_type |-> "SSR"]]
    /\ segType' = [segType EXCEPT ![s] = l]

\* allocate_data_block(): the next free block of log l takes the place of old.
\* The log is moved on, to another segment when this one is full, before the
\* SIT entries of the two blocks are updated.
AllocateDataBlock(l, old) ==
    /\ \E n \in 1 .. BlocksPerSeg, secs \in 0 .. MaxDirtySecs :
         /\ RefreshNextBlkoff(curseg[l], n)
         /\ \/ /\ n < BlocksPerSeg
               /\ curseg' = [curseg EXCEPT ![l].next_blkoff = n]
               /\ UNCHANGED <<inuse, segType>>
               /\ RefreshSitEntry(old, NextFree(l), dirty)
            \/ /\ n = BlocksPerSeg
               /\ ~UseSSR(l, secs)
               /\ \E s \in Segs : NewCurseg(l, s)
               /\ RefreshSitEntry(old, NextFree(l), dirty)
            \/ /\ n = BlocksPerSeg
               /\ UseSSR(l, secs)
               /\ \E s \in SSRVictims(l, secs) :
                    /\ ChangeCurseg(l, s)
                    /\ RefreshSitEntry(old, NextFree(l), Removed(dirty, s))
    /\ dirtySentries' = dirtySentries \cup SegsOf({old, NextFree(l)}) \cup {curseg'[l].segno}
    /\ destroyed' = destroyed \cup ({NextFree(l)} \cap BlocksOf(durable.sit))
    /\ UNCHANGED ckptValid

-----------------------------------------------------------------------------
(* File system operations.                                                 *)

\* wrong: a checkpoint does not shut the operations out
LockOp_Ignored == TRUE

\* f2fs_lock_op() lets an operation in between two checkpoints only
LockOp == cp.phase = "idle"

\* wrong: a second thread comes between the two halves of a rewrite
LogFree_Ignored(l) == TRUE

\* do_write_page(): with F2FS_DA_MAP a thread that found its log at an odd block
\* first rewrites the "previous" page, so another may wait for it
LogFree(l) == RacingWriters \/ rewriting[l] = NULL_ADDR

DoWritePage(o, l) ==
    /\ LogFree(l)
    /\ AllocateDataBlock(l, addr[o])
    /\ addr' = [addr EXCEPT ![o] = NextFree(l)]
    /\ UNCHANGED rewriting

\* f2fs_write_data_page() sees no error and goes to wait in f2fs_lock_op()
AdmitWrite(o) ==
    /\ ~LockOp
    /\ ~cpError
    /\ admitted' = admitted \cup {o}
    /\ UNCHANGED <<allocVars, addr, rewriting, gc, cpVars, cpError, destroyed>>

\* the rest of f2fs_write_data_page(), to any data log: __get_segment_type()
WriteData(o, l) ==
    /\ LockOp
    /\ o \in admitted \/ ~cpError
    /\ DoWritePage(o, l)
    /\ admitted' = admitted \ {o}
    /\ UNCHANGED <<gc, cpVars, cpError>>

\* wrong: nodes are written while a checkpoint runs
WriteNode_NoLock(o, l) ==
    /\ ~cpError
    /\ DoWritePage(o, l)
    /\ UNCHANGED <<admitted, gc, cpVars, cpError>>

\* f2fs_write_node_page()
WriteNode(o, l) ==
    /\ LockOp
    /\ ~cpError
    /\ DoWritePage(o, l)
    /\ UNCHANGED <<admitted, gc, cpVars, cpError>>

\* __allocate_data_block() for direct I/O: a block for a page that has none,
\* whatever the state of the checkpoint flag
DirectAlloc(o) ==
    /\ LockOp
    /\ CURSEG_WARM_DATA \in Logs
    /\ LogFree(CURSEG_WARM_DATA)
    /\ addr[o] = NULL_ADDR
    /\ AllocateDataBlock(CURSEG_WARM_DATA, NULL_ADDR)
    /\ addr' = [addr EXCEPT ![o] = NextFree(CURSEG_WARM_DATA)]
    /\ UNCHANGED <<admitted, rewriting, gc, cpVars, cpError>>

\* wrong: the SIT entry is not marked dirty
Truncate_NotMarked(o) ==
    /\ LockOp
    /\ addr[o] # NULL_ADDR
    /\ LET s == addr[o][1] IN
         /\ valid' = [valid EXCEPT ![s] = @ \ {addr[o][2]}]
         /\ ckptValidBlocks' = [ckptValidBlocks EXCEPT
                                  ![s] = @ - Indicator(addr[o][2] \notin ckptValid[s])]
         /\ dirty' = Relocated(dirty, {s}, valid', curseg)
    /\ addr' = [addr EXCEPT ![o] = NULL_ADDR]
    /\ UNCHANGED <<dirtySentries, ckptValid, segType, inuse, curseg, admitted, rewriting, gc,
                   cpVars, cpError, destroyed>>

\* truncate_data_blocks_range() or truncate_node() and invalidate_blocks()
Truncate(o) ==
    /\ LockOp
    /\ addr[o] # NULL_ADDR
    /\ LET s == addr[o][1] IN
         /\ valid' = [valid EXCEPT ![s] = @ \ {addr[o][2]}]
         /\ ckptValidBlocks' = [ckptValidBlocks EXCEPT
                                  ![s] = @ - Indicator(addr[o][2] \notin ckptValid[s])]
         /\ dirtySentries' = dirtySentries \cup {s}
         /\ dirty' = Relocated(dirty, {s}, valid', curseg)
    /\ addr' = [addr EXCEPT ![o] = NULL_ADDR]
    /\ UNCHANGED <<ckptValid, segType, inuse, curseg, admitted, rewriting, gc, cpVars,
                   cpError, destroyed>>

\* F2FS_DA_MAP, read_and_submit_prev_page(): read the next block of the log as
\* prev_blkaddr under curseg_mutex, which is then released ...
ReadPrevPage(l) ==
    /\ DA_MAP
    /\ LockOp
    /\ rewriting[l] = NULL_ADDR
    /\ curseg[l].next_blkoff % 2 # 0
    /\ rewriting' = [rewriting EXCEPT ![l] = NextFree(l)]
    /\ UNCHANGED <<allocVars, addr, admitted, gc, cpVars, cpError, destroyed>>

\* ... and allocate a block in its place.  No page ends up in the new block.
SubmitPrevPage(l) ==
    /\ rewriting[l] # NULL_ADDR
    /\ rewriting[l] = NextFree(l) \/ rewriting[l] \in BlocksOf(valid)  \* else f2fs_bug_on
    /\ AllocateDataBlock(l, rewriting[l])
    /\ rewriting' = [rewriting EXCEPT ![l] = NULL_ADDR]
    /\ UNCHANGED <<addr, admitted, gc, cpVars, cpError>>

-----------------------------------------------------------------------------
(* Garbage collection: f2fs_gc() runs under gc_mutex.                      *)

\* f2fs_sync_fs() holds gc_mutex around its checkpoint
GcMutexFree == gc.pc = "idle" /\ cp.by # "sync"

\* f2fs_gc() from gc_more on: short of free sections, background GC turns into
\* foreground GC and takes a checkpoint first
GcMore(notEnough) ==
    IF cpError THEN Idle
    ELSE IF notEnough /\ ~gc.fg THEN [pc |-> "sync", segno |-> NULL_SEGNO, fg |-> TRUE]
    ELSE [pc |-> "select", segno |-> NULL_SEGNO, fg |-> gc.fg]

GcStart ==
    /\ GcMutexFree
    /\ \E secs \in 0 .. MaxDirtySecs : gc' = GcMore(HasNotEnoughFreeSecs(secs))
    /\ UNCHANGED <<allocVars, addr, admitted, rewriting, cpVars, cpError, destroyed>>

\* wrong: the caller waits for something to become dirty
GcCheckpointSkipped_ErrorOnly ==
    /\ gc.pc \in {"sync", "final"}
    /\ cp.phase = "idle"
    /\ cpError
    /\ gc' = IF gc.pc = "sync" THEN [gc EXCEPT !.pc = "select"] ELSE Idle
    /\ UNCHANGED <<allocVars, addr, admitted, rewriting, cpVars, cpError, destroyed>>

\* write_checkpoint() returns at once on an error or when nothing is dirty
GcCheckpointSkipped ==
    /\ gc.pc \in {"sync", "final"}
    /\ cp.phase = "idle"
    /\ cpError \/ dirtySentries = {}
    /\ gc' = IF gc.pc = "sync" THEN [gc EXCEPT !.pc = "select"] ELSE Idle
    /\ UNCHANGED <<allocVars, addr, admitted, rewriting, cpVars, cpError, destroyed>>

\* check_bg_victims(): the segments background GC chose and has not emptied
BgVictims == {s \in dirty.victims : ~SecUsageCheck(s)}

\* __get_victim() and get_victim_by_default().  The costs are left out: any segment
\* that passes the tests may be the cheapest, and in the background all may look
\* too expensive (get_cb_cost() of a segment written just now).
GcSelect ==
    LET fresh == {s \in dirty.DIRTY : ~SecUsageCheck(s) /\ (gc.fg \/ s \notin dirty.victims)}
        from  == IF gc.fg /\ BgVictims # {} THEN BgVictims ELSE fresh
    IN
    /\ gc.pc = "select"
    /\ \/ /\ from = {} \/ ~gc.fg
          /\ gc' = Idle
          /\ UNCHANGED dirty
       \/ \E s \in from :
            /\ gc' = [gc EXCEPT !.pc = "move", !.segno = s]
            /\ dirty' = [dirty EXCEPT !.victims = IF ~gc.fg THEN @ \cup {s}
                                                  ELSE IF BgVictims # {} THEN @ \ {s} ELSE @]
    /\ UNCHANGED <<sitVars, inuse, curseg, addr, admitted, rewriting, cpVars, cpError, destroyed>>

\* move_data_page(): do_write_data_page() on a cold page, without f2fs_lock_op().
\* A background pass only marks the page dirty unless F2FS_DA_MAP is defined.
GcMoveData(o, l) ==
    /\ gc.pc = "move"
    /\ gc.fg \/ DA_MAP
    /\ addr[o] # NULL_ADDR
    /\ addr[o][1] = gc.segno
    /\ l = CURSEG_COLD_DATA \/ CURSEG_COLD_DATA \notin Logs
    /\ DoWritePage(o, l)
    /\ UNCHANGED <<admitted, gc, cpVars, cpError>>

\* gc_node_segment(): sync_node_pages() takes node_write, which a checkpoint holds
GcMoveNode(o, l) ==
    /\ gc.pc = "move"
    /\ gc.fg
    /\ cp.phase = "idle"
    /\ ~cpError
    /\ addr[o] # NULL_ADDR
    /\ addr[o][1] = gc.segno
    /\ DoWritePage(o, l)
    /\ UNCHANGED <<admitted, gc, cpVars, cpError>>

\* the end of do_garbage_collect(); nfree only delays the test for more space,
\* so it is left to secs
GcFinish ==
    /\ gc.pc = "move"
    /\ gc.fg => valid[gc.segno] = {}
    /\ \E secs \in 0 .. MaxDirtySecs :
         gc' = IF HasNotEnoughFreeSecs(secs) THEN GcMore(TRUE)
               ELSE IF gc.fg THEN [pc |-> "final", segno |-> NULL_SEGNO, fg |-> TRUE]
               ELSE Idle
    /\ UNCHANGED <<allocVars, addr, admitted, rewriting, cpVars, cpError, destroyed>>

-----------------------------------------------------------------------------
(* Checkpoints.                                                            *)

\* write_checkpoint() and block_operations(): the dirty dentry and node pages
\* are written and the operations are shut out.  f2fs_trim_fs() is the caller
\* that does not take gc_mutex.
CpStart(by) ==
    /\ cp.phase = "idle"
    /\ ~cpError
    /\ by = "sync" => gc.pc = "idle"
    /\ by = "gc"   => gc.pc \in {"sync", "final"}
    /\ by = "trim" => Fitrim
    /\ by = "trim" \/ dirtySentries # {}      \* sbi->s_dirty
    /\ \A l \in Logs : rewriting[l] = NULL_ADDR
    /\ cp' = [phase |-> "blocked", by |-> by]
    /\ staged' = [staged EXCEPT !.addr = addr]
    /\ UNCHANGED <<allocVars, addr, admitted, rewriting, gc, discards, durable, cpError, destroyed>>

\* add_discard_addrs(): the dead blocks of the dirty segments, and for FITRIM
\* every empty segment that is not on its way to be discarded as prefree
DiscardAddrs ==
    BlocksOf([s \in Segs |->
                IF cp.by = "trim" /\ valid[s] = {} /\ s \notin dirty.PRE THEN Offsets
                ELSE IF s \in dirtySentries /\ valid[s] # {} THEN ckptValid[s] \ valid[s]
                ELSE {}])

\* flush_nat_entries() and flush_sit_entries(); the latter ends with
\* set_prefree_as_free_segments()
CpFlush ==
    /\ cp.phase = "blocked"
    /\ discards' = discards \cup DiscardAddrs
    /\ LET Flushed(old, new) == [s \in Segs |-> IF s \in dirtySentries THEN new[s] ELSE old[s]]
       IN  /\ ckptValid' = Flushed(ckptValid, valid)
           /\ ckptValidBlocks' = Flushed(ckptValidBlocks, [s \in Segs |-> Cardinality(valid[s])])
           /\ staged' = [staged EXCEPT !.sit = Flushed(@, valid), !.types = Flushed(@, segType)]
    /\ dirtySentries' = {}
    /\ inuse' = inuse \ dirty.PRE
    /\ cp' = [cp EXCEPT !.phase = "flushed"]
    /\ UNCHANGED <<valid, segType, dirty, curseg, addr, admitted, rewriting, gc, durable,
                   cpError, destroyed>>

\* do_checkpoint() up to the last block of the checkpoint pack
CpCommit ==
    /\ cp.phase = "flushed"
    /\ ~cpError
    /\ durable' = [staged EXCEPT !.curseg = curseg]
    /\ staged' = durable'
    /\ destroyed' = {}
    /\ cp' = [cp EXCEPT !.phase = "committed"]
    /\ UNCHANGED <<allocVars, addr, admitted, rewriting, gc, discards, cpError>>

\* unblock_operations(), and the return to f2fs_gc() if that is the caller
EndCheckpoint ==
    /\ cp' = NoCheckpoint
    /\ staged' = durable
    /\ gc' = IF cp.by # "gc" THEN gc
             ELSE IF gc.pc = "sync" THEN [gc EXCEPT !.pc = "select"] ELSE Idle

\* wrong: clear_prefree_segments() waits for gc_mutex
CpFinish_TakesGcMutex ==
    /\ cp.phase = "committed"
    /\ ~cpError
    /\ gc.pc = "idle"
    /\ dirty' = [dirty EXCEPT !.PRE = {}]
    /\ destroyed' = destroyed \cup
                      ((dirty.PRE \X Offsets \cup discards) \cap BlocksOf(durable.sit))
    /\ discards' = {}
    /\ EndCheckpoint
    /\ UNCHANGED <<sitVars, inuse, curseg, addr, admitted, rewriting, durable, cpError>>

\* clear_prefree_segments(): the prefree segments are forgotten and, with the
\* blocks of the discard list, discarded.  With F2FS_DA_MAP a prefree segment
\* makes submit_invalid_segment_number() use a page it never allocated: the
\* thread dies with its locks held.
CpFinish ==
    /\ cp.phase = "committed"
    /\ ~cpError
    /\ DA_MAP => dirty.PRE = {}
    /\ dirty' = [dirty EXCEPT !.PRE = {}]
    /\ destroyed' = destroyed \cup
                      ((dirty.PRE \X Offsets \cup discards) \cap BlocksOf(durable.sit))
    /\ discards' = {}
    /\ EndCheckpoint
    /\ UNCHANGED <<sitVars, inuse, curseg, addr, admitted, rewriting, durable, cpError>>

\* block_operations() or do_checkpoint() gives up
CpAbort ==
    /\ cp.phase # "idle"
    /\ cpError
    /\ EndCheckpoint
    /\ UNCHANGED <<allocVars, addr, admitted, rewriting, discards, durable, cpError, destroyed>>

\* f2fs_write_end_io() reports a failed write
IOError ==
    /\ IOErrors
    /\ ~cpError
    /\ cpError' = TRUE
    /\ UNCHANGED <<allocVars, addr, admitted, rewriting, gc, cpVars, destroyed>>

-----------------------------------------------------------------------------
\* wrong: mount does not recount ckpt_valid_blocks
CrashAndMount_NoRecount ==
    /\ valid' = durable.sit
    /\ ckptValid' = durable.sit
    /\ segType' = durable.types
    /\ dirtySentries' = {}
    /\ inuse' = InuseOf(durable)
    /\ dirty' = SeglistOf(durable)
    /\ curseg' = durable.curseg
    /\ addr' = durable.addr
    /\ admitted' = {}
    /\ rewriting' = [l \in Logs |-> NULL_ADDR]
    /\ gc' = Idle
    /\ cp' = NoCheckpoint
    /\ staged' = durable
    /\ discards' = {}
    /\ cpError' = FALSE
    /\ UNCHANGED <<ckptValidBlocks, durable, destroyed>>

\* A power failure, and the next mount.  Roll-forward recovery has nothing to do.
CrashAndMount ==
    /\ valid' = durable.sit
    /\ ckptValid' = durable.sit
    /\ ckptValidBlocks' = [s \in Segs |-> Cardinality(durable.sit[s])]
    /\ segType' = durable.types
    /\ dirtySentries' = {}
    /\ inuse' = InuseOf(durable)
    /\ dirty' = SeglistOf(durable)
    /\ curseg' = durable.curseg
    /\ addr' = durable.addr
    /\ admitted' = {}
    /\ rewriting' = [l \in Logs |-> NULL_ADDR]
    /\ gc' = Idle
    /\ cp' = NoCheckpoint
    /\ staged' = durable
    /\ discards' = {}
    /\ cpError' = FALSE
    /\ UNCHANGED <<durable, destroyed>>

Next ==
    \/ \E o \in DataPages : AdmitWrite(o) \/ DirectAlloc(o)
    \/ \E o \in Pages : Truncate(o)
    \/ \E o \in DataPages, l \in DataLogs : WriteData(o, l) \/ GcMoveData(o, l)
    \/ \E o \in NodePages, l \in NodeLogs : WriteNode(o, l) \/ GcMoveNode(o, l)
    \/ \E l \in Logs : ReadPrevPage(l) \/ SubmitPrevPage(l)
    \/ GcStart \/ GcCheckpointSkipped \/ GcSelect \/ GcFinish
    \/ \E by \in {"sync", "gc", "trim"} : CpStart(by)
    \/ CpFlush \/ CpCommit \/ CpFinish \/ CpAbort
    \/ IOError
    \/ CrashAndMount

Spec == Init /\ [][Next]_vars

\* The thread in write_checkpoint() and the one in f2fs_gc() keep running until
\* they return; nothing is assumed of the operations that start them.
CheckpointThread == CpFlush \/ CpCommit \/ CpFinish \/ CpAbort

GcThread ==
    \/ CpStart("gc") \/ GcCheckpointSkipped \/ GcSelect \/ GcFinish
    \/ \E o \in DataPages, l \in DataLogs : GcMoveData(o, l)
    \/ \E o \in NodePages, l \in NodeLogs : GcMoveNode(o, l)

FairSpec == Spec /\ WF_vars(CheckpointThread) /\ WF_vars(GcThread)

-----------------------------------------------------------------------------
TypeOK ==
    /\ valid \in SitMaps /\ ckptValid \in SitMaps
    /\ ckptValidBlocks \in [Segs -> Int]
    /\ segType \in [Segs -> Types]
    /\ dirtySentries \subseteq Segs
    /\ inuse \subseteq Segs
    /\ dirty \in Seglist
    /\ curseg \in Cursegs
    /\ addr \in [Pages -> Addrs]
    /\ admitted \subseteq DataPages
    /\ rewriting \in [Logs -> Addrs]
    /\ gc \in [pc : {"idle", "sync", "select", "move", "final"},
               segno : Segs \cup {NULL_SEGNO}, fg : BOOLEAN]
    /\ cp \in [phase : {"idle", "blocked", "flushed", "committed"},
               by : {"none", "sync", "gc", "trim"}]
    /\ staged \in Checkpoint /\ durable \in Checkpoint
    /\ discards \subseteq Blocks
    /\ cpError \in BOOLEAN
    /\ destroyed \subseteq Blocks

\* No block that the last complete checkpoint refers to is overwritten or
\* discarded before the next one is complete: whenever the power fails, mount
\* finds every page it needs (checkpoint.c, segment.c).
CheckpointedBlocksIntact == \A o \in Pages : durable.addr[o] \notin destroyed

\* The SIT and the block addresses agree: a block is valid exactly if one page
\* is in it (allocate_data_block(), invalidate_blocks(), gc).
HoldsPages(sit, a) ==
    /\ \A o \in Pages : a[o] # NULL_ADDR => a[o] \in BlocksOf(sit)
    /\ \A b \in BlocksOf(sit) : \E o \in Pages : a[o] = b
    /\ \A o, q \in Pages : a[o] = a[q] /\ a[o] # NULL_ADDR => o = q
SitMatchesAddresses == HoldsPages(valid, addr)

\* The same holds of the tables of the last checkpoint, whose SIT and whose
\* nodes are written at different moments (block_operations(), flush_sit_entries()).
CheckpointConsistent == HoldsPages(durable.sit, durable.addr)

\* A segment in use is on the lists that its number of valid blocks calls for,
\* so garbage collection, SSR and the next checkpoint find it
\* (locate_dirty_segment(), change_curseg(), clear_prefree_segments()).
SeglistExact ==
    \A s \in inuse \ CurSegs(curseg) :
        /\ s \in dirty.PRE <=> valid[s] = {}
        /\ s \in dirty.DIRTY <=> valid[s] # {} /\ valid[s] # Offsets
        /\ \A l \in Logs : s \in dirty.ofType[l] <=> s \in dirty.DIRTY /\ segType[s] = l

\* A segment that background GC marked is still worth cleaning when foreground
\* GC takes it without a look at the dirty list (check_bg_victims()).
VictimsAreDirty == dirty.victims \subseteq dirty.DIRTY

\* ckpt_valid_blocks, by which SSR picks its victims, counts the blocks that are
\* valid now or in the last checkpoint (update_sit_entry()).
CkptValidBlocksExact == \A s \in Segs : ckptValidBlocks[s] = Cardinality(UsedOffs(s))

\* The next block of a log, and for an LFS log all that follow it, are free now
\* and in the last checkpoint; no two logs share a segment (new_curseg(), change_curseg()).
CursegsWritable ==
    \A l \in Logs :
        /\ NextFree(l) \notin BlocksOf(durable.sit) \cup BlocksOf(valid)
        /\ curseg[l].alloc_type = "LFS" =>
             \A i \in curseg[l].next_blkoff .. (BlocksPerSeg - 1) : i \notin UsedOffs(curseg[l].segno)
        /\ \A k \in Logs : curseg[k].segno = curseg[l].segno => k = l

\* Every SIT entry that differs from the one on the device is marked dirty, so
\* the next checkpoint writes it (__mark_sit_entry_dirty()).
DirtySentriesComplete ==
    \A s \in Segs \ dirtySentries : valid[s] = staged.sit[s] /\ segType[s] = staged.types[s]

\* A checkpoint that has frozen the file system thaws it again: "We guarantee
\* that this checkpoint procedure will not fail." (checkpoint.c:989).
CheckpointCompletes == cp.phase # "idle" ~> cp.phase = "idle"

\* f2fs_gc() is not left waiting for the checkpoint it asks for (gc.c:718, gc.c:743).
GcGetsCheckpoint == gc.pc \in {"sync", "final"} ~> gc.pc \notin {"sync", "final"}

-----------------------------------------------------------------------------
(* What the safety properties rest on when FITRIM is not used and a log is  *)
(* never shared: the parts of the inductive invariant.                      *)

OneAtATime == ~Fitrim /\ ~RacingWriters
NoFaults   == ~IOErrors /\ OneAtATime

\* No checkpoint has been given up since the mount.  After one has, the maps in
\* memory may be ahead of the device and nothing brings them together again.
Steady == ~cpError \/ cp.phase # "idle"

\* While a checkpoint runs nobody allocates: no writer is in a log, and the
\* garbage collector is idle or waits for this very checkpoint.
PhaseInv ==
    /\ ~IOErrors => ~cpError
    /\ \A l \in Logs : rewriting[l] \in {NULL_ADDR, NextFree(l)}
    /\ cp.phase # "idle" =>
         /\ \A l \in Logs : rewriting[l] = NULL_ADDR
         /\ staged.addr = addr
         /\ \/ cp.by = "sync" /\ gc.pc = "idle"
            \/ cp.by = "gc" /\ gc.pc \in {"sync", "final"}

\* ckpt_valid_map is what the last flush wrote, which is on the device but for
\* the moment between the flush and the last block of the pack.
CkptInv ==
    /\ Steady =>
         /\ staged.sit = ckptValid
         /\ cp.phase \in {"idle", "committed"} => staged = durable
         /\ cp.phase = "blocked" => durable.sit = ckptValid
         /\ cp.phase \in {"idle", "blocked"} => discards = {}
         /\ cp.phase \in {"flushed", "committed"} => /\ dirtySentries = {}
                                                    /\ discards \cap BlocksOf(valid) = {}
         /\ DirtySentriesComplete
    /\ ~IOErrors => destroyed = {}

\* A free segment is empty now and in the last flush; a prefree one is empty now.
ListInv ==
    /\ \A s \in Segs \ inuse : UsedOffs(s) = {}
    /\ CurSegs(curseg) \subseteq inuse
    /\ Steady =>
         /\ \A s \in dirty.PRE : valid[s] = {} /\ s \notin CurSegs(curseg)
         /\ cp.phase \in {"idle", "blocked"} => dirty.PRE \subseteq inuse

\* The logs have room to write as far as the maps in memory tell; the checkpoint
\* on the device agrees unless one was given up.
LogsInv ==
    /\ \A l \in Logs :
         /\ curseg[l].next_blkoff \notin UsedOffs(curseg[l].segno)
         /\ curseg[l].alloc_type = "LFS" =>
              \A i \in curseg[l].next_blkoff .. (BlocksPerSeg - 1) : i \notin UsedOffs(curseg[l].segno)
         /\ \A k \in Logs : curseg[k].segno = curseg[l].segno => k = l
    /\ Steady => CursegsWritable

\* The logs that a mount would open have room to write.
DurableCursegsWritable ==
    \A l \in Logs :
        LET c == durable.curseg[l] IN
        /\ c.next_blkoff \notin durable.sit[c.segno]
        /\ c.alloc_type = "LFS" =>
             \A i \in c.next_blkoff .. (BlocksPerSeg - 1) : i \notin durable.sit[c.segno]
        /\ \A k \in Logs : durable.curseg[k].segno = c.segno => k = l

Inv ==
    /\ TypeOK /\ PhaseInv /\ CkptInv /\ ListInv /\ LogsInv /\ DurableCursegsWritable
    /\ CkptValidBlocksExact /\ SitMatchesAddresses /\ CheckpointConsistent

\* The lists, of segments that are not in use and of open ones too: these are on
\* none, so that they are found right when they are opened and when they are left.
SeglistInv ==
    /\ \A s \in Segs : s \in dirty.DIRTY <=> /\ s \notin CurSegs(curseg)
                                          /\ valid[s] # {} /\ valid[s] # Offsets
    /\ \A l \in Logs, s \in Segs : s \in dirty.ofType[l] <=> s \in dirty.DIRTY /\ segType[s] = l
    /\ \A s \in inuse \ CurSegs(curseg) : valid[s] = {} => s \in dirty.PRE
    /\ cp.phase \in {"flushed", "committed"} => dirty.PRE \cap inuse = {}
    /\ VictimsAreDirty
=============================================================================
