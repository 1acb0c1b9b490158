--------------------------- MODULE CheckpointPack ---------------------------
(***************************************************************************)
(* How a checkpoint of F2FS reaches the device (src/F2FS/f2fs/checkpoint.c *)
(* and the SIT part of segment.c): the dirty SIT entries go to the journal *)
(* in a summary block or to the copy of their SIT block that is not in     *)
(* use; the SIT blocks are written first; then the blocks of a checkpoint  *)
(* pack, to the pack that does not hold the last checkpoint.  A mount      *)
(* takes the newer of the valid packs.                                     *)
(*                                                                         *)
(* Assumed of the device: it has a volatile cache that it writes back in   *)
(* any order and empties on a flush, and it writes the blocks of the one   *)
(* bio of a pack (checkpoint.c:976) in the order of their addresses.       *)
(* There is no cp_payload and no nobarrier option.                         *)
(***************************************************************************)
EXTENDS Integers, FiniteSets

CONSTANTS
    Entries,         \* the entries of the SIT
    Values,
    InitialValue,    \* what mkfs writes
    NoValue,
    SitBlocks,
    BlockOf,         \* the SIT block of each entry: SIT_BLOCK_OFFSET()
    JournalEntries,  \* SIT_JOURNAL_ENTRIES
    LogEntries,      \* the entries mkfs puts in the journal: of the first logs
    Layouts,         \* of a pack: cp page, orphan blocks, summaries, cp page
    Layout0,         \* the layout mkfs writes
    MaxVersion       \* bound on the checkpoint version, at which nothing more is saved or set

ASSUME CheckpointPackAssumption ==
    /\ IsFiniteSet(Entries)
    /\ InitialValue \in Values
    /\ NoValue \notin Values
    /\ BlockOf \in [Entries -> SitBlocks]
    /\ JournalEntries \in Nat
    /\ LogEntries \subseteq Entries /\ Cardinality(LogEntries) <= JournalEntries
    /\ \A y \in Layouts : /\ y = [start_sum |-> y.start_sum, total |-> y.total]
                         /\ y.start_sum \in Nat \ {0} /\ y.total \in Nat
                         /\ y.start_sum + 2 <= y.total
    /\ Layout0 \in Layouts
    /\ MaxVersion \in Nat

VARIABLES
    \* in memory
    sit,          \* the SIT
    dirtyEntries, \* dirty_sentries_bitmap
    journal,      \* the SIT journal of the cold data log
    bitmap,       \* sit_bitmap: the copy of each SIT block that is in use
    version,      \* checkpoint_ver
    meta,         \* the two copies of the SIT as the page cache has them
    dirtyPages,   \* dirty META pages
    cp,           \* where write_checkpoint() is; the layout of the pack; its blocks written
    cpError,      \* CP_ERROR_FLAG
    \* on the device
    cachedPages,  \* SIT blocks written to the device, in its cache
    table,        \* the two copies of the SIT on the medium
    packs         \* the two checkpoint packs on the medium

memVars == <<sit, dirtyEntries, journal, bitmap, version, meta, dirtyPages, cpError>>
devVars == <<cachedPages, table, packs>>
vars    == <<memVars, cp, devVars>>

Copies    == {0, 1}
Pages     == SitBlocks \X Copies
Journal   == [Entries -> Values \cup {NoValue}]
Bitmap    == [SitBlocks -> Copies]
Positions == UNION {0 .. (y.total - 1) : y \in Layouts}
NoJournal == [e \in Entries |-> NoValue]
Block     == [kind : {"cp", "sum", "none"}, version : Nat, start_sum : Nat, total : Nat,
              bitmap : Bitmap, journal : Journal]

Indicator(q) == IF q THEN 1 ELSE 0
InJournal(j) == {e \in Entries : j[e] # NoValue}

-----------------------------------------------------------------------------
(* Blocks of a pack.                                                       *)

EmptyBlock == [kind |-> "none", version |-> 0, start_sum |-> 0, total |-> 0,
               bitmap |-> [b \in SitBlocks |-> 0], journal |-> NoJournal]

CpPage(v, y, bm) == [kind |-> "cp", version |-> v, start_sum |-> y.start_sum, total |-> y.total,
                     bitmap |-> bm, journal |-> NoJournal]

SumBlock(j) == [EmptyBlock EXCEPT !.kind = "sum", !.journal = j]

\* block i of the pack that do_checkpoint() prepares
PackBlock(i) ==
    IF i \in {0, cp.layout.total - 1} THEN CpPage(version, cp.layout, bitmap)
    ELSE IF i = cp.layout.start_sum THEN SumBlock(journal)
    ELSE EmptyBlock

\* wrong: even versions go where odd ones do
PackOf_First(v) == 0

\* __start_cp_addr()
PackOf(v) == IF v % 2 = 1 THEN 0 ELSE 1

-----------------------------------------------------------------------------
(* Mount.                                                                  *)

\* validate_checkpoint()
Valid(p) ==
    LET first == packs[p][0]
        last  == packs[p][first.total - 1]
    IN  first.kind = "cp" /\ last.kind = "cp" /\ last.version = first.version

\* get_valid_checkpoint(), where a valid pack exists
CurrentPack ==
    IF ~Valid(0) \/ (Valid(1) /\ packs[1][0].version > packs[0][0].version) THEN 1 ELSE 0

CpPageOfMount  == packs[CurrentPack][0]
JournalOfMount == packs[PackOf(CpPageOfMount.version)][CpPageOfMount.start_sum].journal

\* wrong: the SIT blocks are not read
SitOfMount_JournalOnly == JournalOfMount

\* build_sit_entries(): the journal comes before the SIT block
SitOfMount ==
    [e \in Entries |->
        IF JournalOfMount[e] # NoValue THEN JournalOfMount[e]
        ELSE table[CpPageOfMount.bitmap[BlockOf[e]]][e]]

-----------------------------------------------------------------------------
NoPack == [phase |-> "idle", layout |-> Layout0, written |-> 0]

\* mkfs: version 1 in the first pack, version 0 and no summaries in the second
Init ==
    /\ sit = [e \in Entries |-> InitialValue]
    /\ dirtyEntries = {}
    /\ journal = [e \in Entries |-> IF e \in LogEntries THEN InitialValue ELSE NoValue]
    /\ bitmap = [b \in SitBlocks |-> 0]
    /\ version = 1
    /\ meta = [c \in Copies |-> sit]
    /\ dirtyPages = {}
    /\ cp = NoPack
    /\ cpError = FALSE
    /\ cachedPages = {}
    /\ table = meta
    /\ packs = [p \in {0, 1} |->
                  [i \in Positions |->
                     IF i \in {0, Layout0.total - 1} THEN CpPage(1 - p, Layout0, bitmap)
                     ELSE IF p = 0 /\ i = Layout0.start_sum THEN SumBlock(journal)
                     ELSE EmptyBlock]]

\* an operation changes an entry: update_sit_entry(), kept out by a checkpoint
SetEntry(e, v) ==
    /\ cp.phase = "idle"
    /\ version < MaxVersion
    /\ v # sit[e]
    /\ sit' = [sit EXCEPT ![e] = v]
    /\ dirtyEntries' = dirtyEntries \cup {e}
    /\ UNCHANGED <<journal, bitmap, version, meta, dirtyPages, cp, cpError, devVars>>

-----------------------------------------------------------------------------
(* write_checkpoint().                                                     *)

Count(D, B) == Cardinality({e \in D : BlockOf[e] \in B})

\* wrong: the entries that are in the journal are not counted
HasCursumSpace_Empty(size, j) == size <= JournalEntries

\* __has_cursum_space()
HasCursumSpace(size, j) == size <= JournalEntries - Cardinality(InJournal(j))

\* flush_sit_entries() goes through the SIT blocks that have entries in D, the
\* ones with fewest first.  The entries of the blocks J go to the journal j, the
\* ones of the first block that does not fit and of all later ones do not.
GoToJournal(J, D, j) ==
    LET blocks == {BlockOf[e] : e \in D}
    IN  /\ J \subseteq blocks
        /\ \A b \in J, c \in blocks \ J : Count(D, {b}) <= Count(D, {c})
        /\ HasCursumSpace(Count(D, J), j)
        /\ J # blocks => \E c \in blocks \ J :
                /\ \A d \in blocks \ J : Count(D, {c}) <= Count(D, {d})
                /\ ~HasCursumSpace(Count(D, J \cup {c}), j)

\* if the journal cannot take all dirty entries, its own are flushed with them
FlushJournal ==
    IF HasCursumSpace(Cardinality(dirtyEntries), journal)
    THEN [flush |-> dirtyEntries, journal |-> journal]
    ELSE [flush |-> dirtyEntries \cup InJournal(journal), journal |-> NoJournal]

\* wrong: the copy in use
NextCopy_InPlace(b) == bitmap[b]

\* next_sit_addr()
NextCopy(b) == 1 - bitmap[b]

\* write_checkpoint() up to flush_sit_entries(): get_next_sit_page() copies a SIT
\* block to its other copy, which the new entries are put in
CpFlush ==
    /\ cp.phase = "idle"
    /\ ~cpError
    /\ version < MaxVersion
    /\ version' = version + 1
    /\ LET D == FlushJournal.flush
           j == FlushJournal.journal
       IN  \E J \in SUBSET SitBlocks :
             /\ GoToJournal(J, D, j)
             /\ journal' = [e \in Entries |-> IF e \in D /\ BlockOf[e] \in J THEN sit[e] ELSE j[e]]
             /\ LET moved == {BlockOf[e] : e \in D} \ J
                IN  /\ bitmap' = [b \in SitBlocks |-> IF b \in moved THEN NextCopy(b) ELSE bitmap[b]]
                    /\ meta' = [c \in Copies |-> [e \in Entries |->
                                  IF BlockOf[e] \in moved /\ c = NextCopy(BlockOf[e])
                                  THEN IF e \in D THEN sit[e] ELSE meta[bitmap[BlockOf[e]]][e]
                                  ELSE meta[c][e]]]
                    /\ dirtyPages' = dirtyPages \cup {<<b, NextCopy(b)>> : b \in moved}
    /\ dirtyEntries' = {}
    /\ cp' = [cp EXCEPT !.phase = "meta"]
    /\ UNCHANGED <<sit, cpError, devVars>>

\* sync_meta_pages() hands a dirty page to the device
CpWriteMeta(p) ==
    /\ cp.phase = "meta"
    /\ ~cpError
    /\ p \in dirtyPages
    /\ dirtyPages' = dirtyPages \ {p}
    /\ cachedPages' = cachedPages \cup {p}
    /\ UNCHANGED <<sit, dirtyEntries, journal, bitmap, version, meta, cp, cpError, table, packs>>

\* the medium after it took the pages S from the page cache
Written(S) == [c \in Copies |-> [e \in Entries |->
                 IF <<BlockOf[e], c>> \in S THEN meta[c][e] ELSE table[c][e]]]

\* wrong: the pack is written without a flush
CpSubmitPack_NoFlush ==
    /\ cp.phase = "meta"
    /\ ~cpError
    /\ dirtyPages = {}
    /\ \E y \in Layouts : cp' = [phase |-> "pack", layout |-> y, written |-> 0]
    /\ UNCHANGED <<memVars, devVars>>

\* All pages are written and waited for.  The pack is prepared and submitted
\* with WRITE_FLUSH_FUA, so the device first empties its cache.
CpSubmitPack ==
    /\ cp.phase = "meta"
    /\ ~cpError
    /\ dirtyPages = {}
    /\ \E y \in Layouts : cp' = [phase |-> "pack", layout |-> y, written |-> 0]
    /\ table' = Written(cachedPages)
    /\ cachedPages' = {}
    /\ UNCHANGED <<memVars, packs>>

\* the next block of the pack is on the medium
CpWritePackBlock ==
    /\ cp.phase = "pack"
    /\ cp.written < cp.layout.total
    /\ packs' = [packs EXCEPT ![PackOf(version)][cp.written] = PackBlock(cp.written)]
    /\ cp' = [cp EXCEPT !.written = @ + 1]
    /\ UNCHANGED <<memVars, cachedPages, table>>

\* wait_for_completion() in __submit_merged_bio() returns
CpFinish ==
    /\ cp.phase = "pack"
    /\ cp.written = cp.layout.total
    /\ cp' = NoPack
    /\ UNCHANGED <<memVars, devVars>>

\* do_checkpoint() gives up on an error, which may also have cut the pack short
CpAbort ==
    /\ cp.phase \in {"meta", "pack"}
    /\ cpError
    /\ cp' = NoPack
    /\ UNCHANGED <<memVars, devVars>>

-----------------------------------------------------------------------------
(* The device.                                                             *)

\* f2fs_write_end_io() reports an error while a checkpoint is written: of SIT
\* pages, which are dirty again, of the pack or of a data write.  (At another
\* time an error only keeps later checkpoints from starting.)
IOError ==
    /\ cp.phase \in {"meta", "pack"}
    /\ ~cpError
    /\ cpError' = TRUE
    /\ \E S \in SUBSET cachedPages :
         /\ S # {} => cp.phase = "meta"
         /\ cachedPages' = cachedPages \ S
         /\ dirtyPages' = dirtyPages \cup S
    /\ UNCHANGED <<sit, dirtyEntries, journal, bitmap, version, meta, cp, table, packs>>

\* the device writes a page of its cache back
WriteBack(p) ==
    /\ p \in cachedPages
    /\ table' = Written({p})
    /\ cachedPages' = cachedPages \ {p}
    /\ UNCHANGED <<memVars, cp, packs>>

\* the memory is lost
PowerFail ==
    /\ cp.phase # "off"
    /\ sit' = [e \in Entries |-> InitialValue]
    /\ dirtyEntries' = {}
    /\ journal' = NoJournal
    /\ bitmap' = [b \in SitBlocks |-> 0]
    /\ version' = 0
    /\ meta' = [c \in Copies |-> sit']
    /\ dirtyPages' = {}
    /\ cp' = [NoPack EXCEPT !.phase = "off"]
    /\ cpError' = FALSE
    /\ cachedPages' = {}
    /\ UNCHANGED <<table, packs>>

\* get_valid_checkpoint() and build_segment_manager()
Mount ==
    /\ cp.phase = "off"
    /\ Valid(0) \/ Valid(1)
    /\ sit' = SitOfMount
    /\ dirtyEntries' = {}
    /\ journal' = JournalOfMount
    /\ bitmap' = CpPageOfMount.bitmap
    /\ version' = CpPageOfMount.version
    /\ meta' = table
    /\ cp' = NoPack
    /\ UNCHANGED <<dirtyPages, cpError, devVars>>

Next ==
    \/ \E e \in Entries, v \in Values : SetEntry(e, v)
    \/ CpFlush
    \/ \E p \in Pages : CpWriteMeta(p) \/ WriteBack(p)
    \/ CpSubmitPack \/ CpWritePackBlock \/ CpFinish \/ CpAbort
    \/ IOError \/ PowerFail \/ Mount

Spec == Init /\ [][Next]_vars

-----------------------------------------------------------------------------
TypeOK ==
    /\ sit \in [Entries -> Values]
    /\ dirtyEntries \subseteq Entries
    /\ journal \in Journal
    /\ bitmap \in Bitmap
    /\ version \in Nat
    /\ meta \in [Copies -> [Entries -> Values]]
    /\ dirtyPages \subseteq Pages
    /\ cp \in [phase : {"off", "idle", "meta", "pack"}, layout : Layouts, written : Nat]
    /\ cp.written <= cp.layout.total
    /\ cpError \in BOOLEAN
    /\ cachedPages \subseteq Pages
    /\ table \in [Copies -> [Entries -> Values]]
    /\ packs \in [{0, 1} -> [Positions -> Block]]

\* At any moment a mount would find a complete checkpoint, and no other than the
\* one being written, or that failed, is lost (get_valid_checkpoint() does not go
\* to fail_no_cp, and __start_cp_addr() never picks the pack in use).
CheckpointFound ==
    /\ Valid(0) \/ Valid(1)
    /\ cp.phase # "off" => CpPageOfMount.version \in {version - 1, version}

\* No SIT block that the last checkpoint refers to is about to be written
\* (get_next_sit_page(), set_to_next_sit()).
LiveCopiesUntouched ==
    \A p \in dirtyPages \cup cachedPages : CpPageOfMount.bitmap[p[1]] # p[2]

\* The f2fs_bug_on() of flush_sit_entries(): the journal never overflows.
JournalFits == Cardinality(InJournal(journal)) <= JournalEntries

\* A checkpoint is atomic: it saves the SIT as it is, or nothing, whenever the
\* power fails and whatever write fails (write_checkpoint(), get_valid_checkpoint()).
Atomic == INSTANCE AtomicCheckpoint
            WITH sit <- IF cp.phase = "off" THEN SitOfMount ELSE sit,
                 saved <- SitOfMount,
                 up <- cp.phase # "off"
AtomicSpec == Atomic!Spec
-----------------------------------------------------------------------------
(* The parts of the inductive invariant that these properties rest on.      *)

\* Of the next version there is only a first page, of a pack cut short; the
\* versions of a pack are all odd or all even.
PackInv ==
    /\ CheckpointFound
    /\ \A p \in {0, 1}, i \in Positions :
        LET b == packs[p][i] IN
        /\ Cardinality(InJournal(b.journal)) <= JournalEntries
        /\ b.kind = "cp" =>
             /\ PackOf(b.version) = p
             /\ [start_sum |-> b.start_sum, total |-> b.total] \in Layouts
             /\ b.version <= CpPageOfMount.version + Indicator(i = 0)

\* The version in memory, and how much of a pack is on the device.
PhaseInv ==
    /\ cp.phase = "idle" /\ ~cpError => version = CpPageOfMount.version
    /\ cp.phase = "meta" => version = CpPageOfMount.version + 1
    /\ cp.phase = "pack" =>
         /\ version = CpPageOfMount.version + Indicator(cp.written < cp.layout.total)
         /\ \A i \in 0 .. (cp.written - 1) : packs[PackOf(version)][i] = PackBlock(i)
         /\ dirtyPages = {} /\ cachedPages = {}

\* What memory has differs from what is on the device only where something is
\* dirty, and the tables of a checkpoint that is written are the SIT.
TableInv ==
    cp.phase # "off" =>
        /\ \A e \in Entries, c \in Copies :
             <<BlockOf[e], c>> \notin dirtyPages \cup cachedPages => meta[c][e] = table[c][e]
        /\ cp.phase = "idle" /\ ~cpError =>
             /\ bitmap = CpPageOfMount.bitmap
             /\ journal = JournalOfMount
             /\ \A e \in Entries \ dirtyEntries : sit[e] = SitOfMount[e]
        /\ cp.phase \in {"meta", "pack"} =>
             /\ dirtyEntries = {}
             /\ \A e \in Entries :
                  sit[e] = IF journal[e] # NoValue THEN journal[e] ELSE meta[bitmap[BlockOf[e]]][e]

Inv == TypeOK /\ LiveCopiesUntouched /\ JournalFits /\ PackInv /\ PhaseInv /\ TableInv
=============================================================================
