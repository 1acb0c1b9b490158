---------------------------- MODULE NodeManager ----------------------------
(***************************************************************************)
(* The node address table of F2FS (src/F2FS/f2fs/node.c): where the block  *)
(* of each node is.  An address is in the NAT cache, in the journal of the *)
(* hot data log, or in a NAT block, and is looked for in this order.       *)
(* Threads take node ids from a list of free ones, which is filled from    *)
(* NAT blocks and the journal; a checkpoint flushes the dirty entries of   *)
(* the cache.                                                              *)
(*                                                                         *)
(* The checkpoint pack that makes the flushed entries the ones of the next *)
(* mount is CheckpointPack; here it is written in one step.  Memory for the *)
(* list of free nids is never short (available_free_memory()).             *)
(***************************************************************************)
EXTENDS Integers, FiniteSets

CONSTANTS
    Nids,
    NatBlocks,
    NatBlockOf,      \* the NAT block of each nid: NAT_BLOCK_OFFSET()
    BlockAddrs,      \* addresses of node blocks
    NullAddr,        \* NULL_ADDR
    NewAddr,         \* NEW_ADDR: the node has no block yet
    NoValue,
    JournalEntries,  \* NAT_JOURNAL_ENTRIES
    AvailableNids,   \* available_nids
    Threads,
    MaxVersion,      \* bound on the checkpoint version, at which no operation starts
    AddRace,         \* alloc_nid_done() may come between the two steps of add_free_nid()
    FlushedLookups   \* get_node_info() runs during flush_nat_entries()

Addrs == BlockAddrs \cup {NullAddr, NewAddr}

ASSUME NodeManagerAssumption ==
    /\ IsFiniteSet(Nids)
    /\ NatBlockOf \in [Nids -> NatBlocks]
    /\ NullAddr \notin BlockAddrs \cup {NewAddr} /\ NewAddr \notin BlockAddrs
    /\ NoValue \notin Addrs \cup Nids
    /\ JournalEntries \in Nat /\ AvailableNids \in Nat /\ MaxVersion \in Nat
    /\ AddRace \in BOOLEAN /\ FlushedLookups \in BOOLEAN

VARIABLES
    cache,      \* the NAT cache: address, IS_CHECKPOINTED and IS_DIRTY, or NoEntry
    journal,    \* the NAT journal
    natPages,   \* the two copies of the NAT blocks
    natBitmap,  \* nat_bitmap: the copy of each NAT block that is in use
    saved,      \* the journal and the bitmap of the last checkpoint
    freeNids,   \* the list of free nids: not in it, NID_NEW or NID_ALLOC
    thread,     \* what each thread does, and the nid and address it has in hand
    scan,       \* the NAT entries build_free_nids() has still to look at
    checking,   \* the nid add_free_nid() has tested but not inserted
    version,    \* checkpoint_ver
    phase,      \* where write_checkpoint() is, or "down"
    flushing    \* the NAT blocks whose dirty entries are still to be flushed

natVars  == <<cache, journal, natPages, natBitmap>>
nidVars  == <<freeNids, scan, checking>>
cpVars   == <<saved, version, phase, flushing>>
vars     == <<natVars, nidVars, cpVars, thread>>

Copies    == {0, 1}
NoEntry   == [addr |-> NoValue, ckpt |-> TRUE, dirty |-> FALSE]
NoJournal == [n \in Nids |-> NoValue]
NoScan    == [page |-> {}, journal |-> {}]
Idle      == [pc |-> "idle", nid |-> NoValue, addr |-> NoValue]

Cached(n)    == cache[n].addr # NoValue
Dirty        == {n \in Nids : cache[n].dirty}
InJournal(j) == {n \in Nids : j[n] # NoValue}
Listed(s)    == {n \in Nids : freeNids[n] = s}
NidsOf(B)    == {n \in Nids : NatBlockOf[n] \in B}

\* current_nat_addr(): the entry in the copy of the NAT block that is in use
NatPage(n) == natPages[natBitmap[NatBlockOf[n]]][n]

\* what get_node_info() is to find: cache, journal, NAT block
NatOf(n) ==
    IF Cached(n) THEN cache[n].addr ELSE IF journal[n] # NoValue THEN journal[n] ELSE NatPage(n)

NodeTable == [n \in Nids |-> NatOf(n)]

\* what a mount after the last checkpoint finds
SavedTable ==
    [n \in Nids |-> IF saved.journal[n] # NoValue THEN saved.journal[n]
                    ELSE natPages[saved.bitmap[NatBlockOf[n]]][n]]

-----------------------------------------------------------------------------
Init ==
    /\ cache = [n \in Nids |-> NoEntry]
    /\ journal = NoJournal
    /\ natPages = [c \in Copies |-> [n \in Nids |-> NullAddr]]
    /\ natBitmap = [b \in NatBlocks |-> 0]
    /\ saved = [journal |-> journal, bitmap |-> natBitmap]
    /\ freeNids = [n \in Nids |-> "new"]
    /\ thread = [t \in Threads |-> Idle]
    /\ scan = NoScan
    /\ checking = NoValue
    /\ version = 1
    /\ phase = "idle"
    /\ flushing = {}

\* threads between f2fs_lock_op() and f2fs_unlock_op(), which a checkpoint waits for
HoldsOpLock(t) == thread[t].pc \in {"wait", "build", "made", "undone"}
HasNid(t)      == thread[t].pc \in {"held", "made", "linked", "undone"}
LookingUp(t)   == thread[t].pc \in {"missed", "unjournaled", "found"}

\* the page of a node is locked while its entry is looked up or set
PageLocked(n) == \E t \in Threads : LookingUp(t) /\ thread[t].nid = n

\* the inode of the node is new and locked
Creating(n)   == \E t \in Threads : thread[t].pc \in {"made", "undone", "linked"} /\ thread[t].nid = n

\* an operation may start
Running == phase = "idle" /\ version < MaxVersion

Goto(t, pc)  == thread' = [thread EXCEPT ![t].pc = pc]
Finish(t)    == thread' = [thread EXCEPT ![t] = Idle]

\* set_node_addr(): a new entry of the cache has IS_CHECKPOINTED set
SetNodeAddr(n, a) ==
    cache' = [cache EXCEPT ![n] = [addr  |-> a,
                                   ckpt  |-> cache[n].ckpt /\ a \notin {NullAddr, NewAddr},
                                   dirty |-> TRUE]]

-----------------------------------------------------------------------------
(* The list of free nids.                                                  *)

OnBuild == \E t \in Threads : thread[t].pc = "build"

HasRoom == Cardinality({n \in Nids : NatOf(n) # NullAddr}) + 1 <= AvailableNids

\* wrong: nids are taken while the list is built
AllocNid_OnBuild(t) ==
    /\ thread[t].pc = "idle" /\ Running
    /\ HasRoom
    /\ \E n \in Listed("new") :
         /\ freeNids' = [freeNids EXCEPT ![n] = "alloc"]
         /\ thread' = [thread EXCEPT ![t] = [pc |-> "held", nid |-> n, addr |-> NoValue]]
    /\ UNCHANGED <<natVars, cpVars, scan, checking>>

\* alloc_nid() finds a nid
AllocNid(t) ==
    /\ thread[t].pc = "idle" /\ Running
    /\ HasRoom
    /\ ~OnBuild
    /\ \E n \in Listed("new") :
         /\ freeNids' = [freeNids EXCEPT ![n] = "alloc"]
         /\ thread' = [thread EXCEPT ![t] = [pc |-> "held", nid |-> n, addr |-> NoValue]]
    /\ UNCHANGED <<natVars, cpVars, scan, checking>>

\* alloc_nid() does not, and waits for build_lock
AllocNidMissed(t) ==
    /\ thread[t].pc = "idle" /\ Running
    /\ HasRoom
    /\ Listed("new") = {} \/ OnBuild
    /\ Goto(t, "wait")
    /\ UNCHANGED <<natVars, cpVars, nidVars>>

\* build_free_nids() scans some of the NAT blocks, then the journal
BuildStart(t) ==
    /\ thread[t].pc = "wait"
    /\ ~OnBuild
    /\ Goto(t, "build")
    /\ \E B \in SUBSET NatBlocks \ {{}} :
         scan' = [page |-> {n \in NidsOf(B) : NatPage(n) = NullAddr}, journal |-> InJournal(journal)]
    /\ UNCHANGED <<natVars, cpVars, freeNids, checking>>

\* the test of the NAT cache in add_free_nid()
NotAllocated(n) == Cached(n) => cache[n].ckpt /\ cache[n].addr = NullAddr

\* add_free_nid(), called to build the list: the test ...
AddFreeNid(n) ==
    /\ checking' = IF NotAllocated(n) THEN n ELSE NoValue
    /\ UNCHANGED freeNids

\* ... and, nat_tree_lock released, the insertion of a nid that is not in the list
AddFreeNidInsert(t) ==
    /\ thread[t].pc = "build" /\ checking # NoValue
    /\ freeNids' = [freeNids EXCEPT ![checking] = IF @ = "none" THEN "new" ELSE @]
    /\ checking' = NoValue
    /\ UNCHANGED <<natVars, cpVars, scan, thread>>

\* scan_nat_page(): one entry without an address
ScanNatPage(t) ==
    /\ thread[t].pc = "build" /\ checking = NoValue
    /\ \E n \in scan.page :
         /\ scan' = [scan EXCEPT !.page = @ \ {n}]
         /\ AddFreeNid(n)
    /\ UNCHANGED <<natVars, cpVars, thread>>

\* wrong: also a nid that is allocated
RemoveFreeNid_Any(n) == freeNids' = [freeNids EXCEPT ![n] = "none"]

\* remove_free_nid(): a nid that is allocated stays
RemoveFreeNid(n) == freeNids' = [freeNids EXCEPT ![n] = IF @ = "new" THEN "none" ELSE @]

\* wrong: a nid stays that the NAT block has free and the journal has not
ScanJournal_NotRemoved(t) ==
    /\ thread[t].pc = "build" /\ checking = NoValue /\ scan.page = {}
    /\ \E n \in scan.journal :
         /\ scan' = [scan EXCEPT !.journal = @ \ {n}]
         /\ IF journal[n] = NullAddr THEN AddFreeNid(n) ELSE UNCHANGED <<freeNids, checking>>
    /\ UNCHANGED <<natVars, cpVars, thread>>

ScanJournal(t) ==
    /\ thread[t].pc = "build" /\ checking = NoValue /\ scan.page = {}
    /\ \E n \in scan.journal :
         /\ scan' = [scan EXCEPT !.journal = @ \ {n}]
         /\ IF journal[n] = NullAddr THEN AddFreeNid(n)
            ELSE RemoveFreeNid(n) /\ UNCHANGED checking
    /\ UNCHANGED <<natVars, cpVars, thread>>

\* alloc_nid() tries again
BuildEnd(t) ==
    /\ thread[t].pc = "build" /\ checking = NoValue /\ scan = NoScan
    /\ Finish(t)
    /\ UNCHANGED <<natVars, cpVars, nidVars>>

-----------------------------------------------------------------------------
(* A nid becomes a node, or goes back to the list.                         *)

\* new_node_page()
NewNodePage(t) ==
    /\ thread[t].pc = "held" /\ phase = "idle"
    /\ ~PageLocked(thread[t].nid)
    /\ SetNodeAddr(thread[t].nid, NewAddr)
    /\ Goto(t, "made")
    /\ UNCHANGED <<journal, natPages, natBitmap, nidVars, cpVars>>

\* f2fs_unlock_op() in f2fs_create()
Linked(t) ==
    /\ thread[t].pc = "made"
    /\ Goto(t, "linked")
    /\ UNCHANGED <<natVars, cpVars, nidVars>>

\* alloc_nid_done(), without the operation lock
AllocNidDone(t) ==
    /\ thread[t].pc = "linked"
    /\ AddRace \/ checking # thread[t].nid
    /\ freeNids' = [freeNids EXCEPT ![thread[t].nid] = "none"]
    /\ Finish(t)
    /\ UNCHANGED <<natVars, cpVars, scan, checking>>

\* handle_failed_inode(): truncate_node() of the new inode
UndoNode(t) ==
    /\ thread[t].pc = "made"
    /\ ~PageLocked(thread[t].nid)
    /\ SetNodeAddr(thread[t].nid, NullAddr)
    /\ Goto(t, "undone")
    /\ UNCHANGED <<journal, natPages, natBitmap, nidVars, cpVars>>

\* alloc_nid_failed()
AllocNidFailed(t) ==
    /\ thread[t].pc \in {"held", "undone"}
    /\ freeNids' = [freeNids EXCEPT ![thread[t].nid] = "new"]
    /\ Finish(t)
    /\ UNCHANGED <<natVars, cpVars, scan, checking>>

-----------------------------------------------------------------------------
(* Nodes.                                                                  *)

\* truncate_node()
TruncateNode(n) ==
    /\ Running
    /\ ~PageLocked(n) /\ ~Creating(n)
    /\ NatOf(n) # NullAddr
    /\ SetNodeAddr(n, NullAddr)
    /\ UNCHANGED <<journal, natPages, natBitmap, nidVars, cpVars, thread>>

\* f2fs_write_node_page(), also called by the checkpoint before it flushes the NAT
WriteNodePage(n, a) ==
    /\ Running \/ phase = "sync"
    /\ ~PageLocked(n)
    /\ NatOf(n) \notin {NullAddr, a}
    /\ SetNodeAddr(n, a)
    /\ UNCHANGED <<journal, natPages, natBitmap, nidVars, cpVars, thread>>

\* the list nm_i->nat_entries has the entries that are not dirty
Evictable(n) == Cached(n) /\ ~cache[n].dirty

\* try_to_free_nats(), at any time
TryToFreeNats(n) ==
    /\ phase # "down"
    /\ Evictable(n)
    /\ cache' = [cache EXCEPT ![n] = NoEntry]
    /\ UNCHANGED <<journal, natPages, natBitmap, nidVars, cpVars, thread>>

-----------------------------------------------------------------------------
(* get_node_info() of a reader, which has the page lock of the node but not *)
(* the operation lock.                                                     *)

LookupMissed(t, n) ==
    /\ thread[t].pc = "idle"
    /\ version < MaxVersion
    /\ phase # "down" /\ (FlushedLookups \/ phase # "flush")
    /\ ~Cached(n)
    /\ ~PageLocked(n) /\ ~Creating(n)
    /\ thread' = [thread EXCEPT ![t] = [pc |-> "missed", nid |-> n, addr |-> NoValue]]
    /\ UNCHANGED <<natVars, cpVars, nidVars>>

Found(t, a) == thread' = [thread EXCEPT ![t].pc = "found", ![t].addr = a]

\* wrong: only the NAT block is read
LookupJournal_Skipped(t) ==
    /\ thread[t].pc = "missed"
    /\ Goto(t, "unjournaled")
    /\ UNCHANGED <<natVars, cpVars, nidVars>>

LookupJournal(t) ==
    /\ thread[t].pc = "missed"
    /\ LET a == journal[thread[t].nid]
       IN  IF a # NoValue THEN Found(t, a) ELSE Goto(t, "unjournaled")
    /\ UNCHANGED <<natVars, cpVars, nidVars>>

LookupNatPage(t) ==
    /\ thread[t].pc = "unjournaled"
    /\ Found(t, NatPage(thread[t].nid))
    /\ UNCHANGED <<natVars, cpVars, nidVars>>

\* cache_nat_entry(): an entry that is there by now stays
CacheNatEntry(t) ==
    /\ thread[t].pc = "found"
    /\ LET n == thread[t].nid
       IN  cache' = IF Cached(n) THEN cache
                    ELSE [cache EXCEPT ![n] = [addr |-> thread[t].addr, ckpt |-> TRUE, dirty |-> FALSE]]
    /\ Finish(t)
    /\ UNCHANGED <<journal, natPages, natBitmap, nidVars, cpVars>>

-----------------------------------------------------------------------------
(* write_checkpoint().                                                     *)

\* block_operations() takes the operation lock from everybody ...
CpBlock ==
    /\ Running
    /\ \A t \in Threads : ~HoldsOpLock(t)
    /\ phase' = "sync"
    /\ UNCHANGED <<natVars, nidVars, saved, version, flushing, thread>>

\* wrong: the entries that are in the journal are not counted
HasCursumSpace_Empty(size) == size <= JournalEntries

\* __has_cursum_space()
HasCursumSpace(size) == size <= JournalEntries - Cardinality(InJournal(journal))

BlocksOf(N) == {NatBlockOf[n] : n \in N}

\* remove_nats_in_journal(): the entries of the journal become dirty ones of the cache
CacheOfJournal ==
    [n \in Nids |->
        IF journal[n] = NoValue THEN cache[n]
        ELSE IF Cached(n) THEN [cache[n] EXCEPT !.dirty = TRUE]
        ELSE [addr |-> journal[n], ckpt |-> TRUE, dirty |-> TRUE]]

\* ... and ends when all dirty nodes are written; flush_nat_entries() begins
CpFlushStart ==
    /\ phase = "sync"
    /\ FlushedLookups \/ \A t \in Threads : ~LookingUp(t)
    /\ \A n \in Nids : NatOf(n) # NewAddr
    /\ phase' = "flush"
    /\ IF HasCursumSpace(Cardinality(Dirty))
       THEN /\ UNCHANGED <<cache, journal>>
            /\ flushing' = BlocksOf(Dirty)
       ELSE /\ cache' = CacheOfJournal
            /\ journal' = NoJournal
            /\ flushing' = BlocksOf(Dirty \cup InJournal(journal))
    /\ UNCHANGED <<natPages, natBitmap, saved, version, nidVars, thread>>

DirtyOf(b) == {n \in Dirty : NatBlockOf[n] = b}

\* the order of __adjust_nat_entry_set(): fewest entries first, full sets last
EntryCount(b) ==
    LET c == Cardinality(DirtyOf(b)) IN IF c < JournalEntries THEN c ELSE JournalEntries

\* wrong: the copy in use
NextCopy_InPlace(b) == natBitmap[b]

\* next_nat_addr()
NextCopy(b) == 1 - natBitmap[b]

\* __flush_nat_entry_set(): to the journal, or to a copy of the NAT block; the
\* nids without an address are free again
CpFlushSet(b) ==
    /\ phase = "flush" /\ b \in flushing
    /\ \A c \in flushing : EntryCount(b) <= EntryCount(c)
    /\ flushing' = flushing \ {b}
    /\ IF HasCursumSpace(Cardinality(DirtyOf(b)))
       THEN /\ journal' = [n \in Nids |-> IF n \in DirtyOf(b) THEN cache[n].addr ELSE journal[n]]
            /\ UNCHANGED <<natPages, natBitmap>>
       ELSE /\ natPages' = [natPages EXCEPT ![NextCopy(b)] =
                              [n \in Nids |-> IF n \in DirtyOf(b) THEN cache[n].addr
                                              ELSE IF NatBlockOf[n] = b THEN NatPage(n)
                                              ELSE @[n]]]
            /\ natBitmap' = [natBitmap EXCEPT ![b] = NextCopy(b)]
            /\ UNCHANGED journal
    /\ cache' = [n \in Nids |-> IF n \in DirtyOf(b) THEN [cache[n] EXCEPT !.ckpt = TRUE, !.dirty = FALSE]
                                ELSE cache[n]]
    /\ freeNids' = [n \in Nids |->
                      IF n \in DirtyOf(b) /\ cache[n].addr = NullAddr /\ freeNids[n] = "none" THEN "new"
                      ELSE freeNids[n]]
    /\ UNCHANGED <<saved, version, phase, scan, checking, thread>>

\* the pack is on the device, and unblock_operations()
CpEnd ==
    /\ phase = "flush" /\ flushing = {}
    /\ saved' = [journal |-> journal, bitmap |-> natBitmap]
    /\ version' = version + 1
    /\ phase' = "idle"
    /\ UNCHANGED <<natVars, nidVars, flushing, thread>>

-----------------------------------------------------------------------------
(* Power failure and mount.                                                *)

PowerFail ==
    /\ phase # "down"
    /\ phase' = "down"
    /\ cache' = [n \in Nids |-> NoEntry]
    /\ journal' = saved.journal
    /\ natBitmap' = saved.bitmap
    /\ freeNids' = [n \in Nids |-> "none"]
    /\ scan' = NoScan
    /\ checking' = NoValue
    /\ thread' = [t \in Threads |-> Idle]
    /\ flushing' = {}
    /\ UNCHANGED <<natPages, saved, version>>

\* build_node_manager(): the first build_free_nids(), with no cache and no thread
Mount ==
    /\ phase = "down"
    /\ phase' = "idle"
    /\ \E B \in SUBSET NatBlocks \ {{}} :
         freeNids' = [n \in Nids |->
                        IF \/ journal[n] = NullAddr
                           \/ journal[n] = NoValue /\ NatBlockOf[n] \in B /\ NatPage(n) = NullAddr
                        THEN "new" ELSE "none"]
    /\ UNCHANGED <<natVars, scan, checking, saved, version, flushing, thread>>

-----------------------------------------------------------------------------
ThreadStep(t) ==
    \/ AllocNid(t) \/ AllocNidMissed(t)
    \/ BuildStart(t) \/ ScanNatPage(t) \/ AddFreeNidInsert(t) \/ ScanJournal(t) \/ BuildEnd(t)
    \/ NewNodePage(t) \/ Linked(t) \/ AllocNidDone(t) \/ UndoNode(t) \/ AllocNidFailed(t)
    \/ \E n \in Nids : LookupMissed(t, n)
    \/ LookupJournal(t) \/ LookupNatPage(t) \/ CacheNatEntry(t)

NodeStep(n) == TruncateNode(n) \/ TryToFreeNats(n) \/ \E a \in BlockAddrs : WriteNodePage(n, a)

CpStep == CpBlock \/ CpFlushStart \/ (\E b \in NatBlocks : CpFlushSet(b)) \/ CpEnd

Next ==
    \/ \E t \in Threads : ThreadStep(t)
    \/ \E n \in Nids : NodeStep(n)
    \/ CpStep \/ PowerFail \/ Mount

Spec == Init /\ [][Next]_vars

-----------------------------------------------------------------------------
(* Properties.                                                             *)

\* The variables have their types; a nid that a thread has in hand is NID_ALLOC
\* in the list, which alloc_nid_done() and alloc_nid_failed() assert.
TypeOK ==
    /\ cache \in [Nids -> [addr : Addrs \cup {NoValue}, ckpt : BOOLEAN, dirty : BOOLEAN]]
    /\ journal \in [Nids -> BlockAddrs \cup {NullAddr, NoValue}]
    /\ natPages \in [Copies -> [Nids -> BlockAddrs \cup {NullAddr}]]
    /\ natBitmap \in [NatBlocks -> Copies]
    /\ saved \in [journal : [Nids -> BlockAddrs \cup {NullAddr, NoValue}],
                  bitmap : [NatBlocks -> Copies]]
    /\ freeNids \in [Nids -> {"none", "new", "alloc"}]
    /\ thread \in [Threads -> [pc : {"idle", "wait", "build", "held", "made", "linked", "undone",
                                    "missed", "unjournaled", "found"},
                              nid : Nids \cup {NoValue}, addr : Addrs \cup {NoValue}]]
    /\ \A t \in Threads : HasNid(t) => freeNids[thread[t].nid] = "alloc"
    /\ scan \in [page : SUBSET Nids, journal : SUBSET Nids]
    /\ checking \in Nids \cup {NoValue}
    /\ version \in Nat
    /\ phase \in {"idle", "sync", "flush", "down"}
    /\ flushing \subseteq NatBlocks

\* No nid is given out twice: a thread may take a nid of the list only when no
\* node has it and no other thread has it in hand (new_node_page() asserts
\* that the address of the nid is NULL_ADDR).
NidsExclusive ==
    /\ ~OnBuild => \A n \in Listed("new") : NatOf(n) = NullAddr
    /\ \A t \in Threads : thread[t].pc = "held" => NatOf(thread[t].nid) = NullAddr
    /\ \A t, u \in Threads :
         t # u /\ HasNid(t) /\ HasNid(u) => thread[t].nid # thread[u].nid

\* A nid whose node is in the last checkpoint is not given out before the next
\* one: after a power failure the node of the checkpoint would be in the way of
\* the one that was fsynced under its nid (recover_inode_page()).
FreedNidsWait ==
    phase = "idle" /\ ~OnBuild => \A n \in Listed("new") : SavedTable[n] = NullAddr

\* The journal has no more entries than it has room for, whatever
\* flush_nat_entries() chooses: lookup_journal_in_cursum() asserts it.
JournalFits == Cardinality(InJournal(journal)) <= JournalEntries

\* get_node_info() returns the address of the node, though the entry may go from
\* the journal to the cache and to a NAT block while it looks.
LookupsCurrent ==
    \A t \in Threads : thread[t].pc = "found" => thread[t].addr = NatOf(thread[t].nid)

\* The NAT is one table that a checkpoint saves as a whole: where an entry is
\* kept, evicted and flushed never shows.
NatAtomic == INSTANCE AtomicCheckpoint WITH
    Entries <- Nids, Values <- Addrs, InitialValue <- NullAddr,
    sit <- NodeTable, saved <- SavedTable, up <- phase # "down"

NatAtomicSpec == NatAtomic!Spec

-----------------------------------------------------------------------------
(* The inductive invariants: NatInv needs no lookups during a flush, Inv     *)
(* neither of the two races.                                               *)

NoRaces == ~AddRace /\ ~FlushedLookups

\* where an entry is when it is not in the cache
Stored(n) == IF journal[n] # NoValue THEN journal[n] ELSE NatPage(n)

\* A clean entry of the cache is a copy, and a checkpoint under way has still to flush each
\* dirty one.
CacheInv ==
    \A n \in Nids :
        /\ Cached(n) /\ ~cache[n].dirty => cache[n].addr = Stored(n)
        /\ cache[n].dirty => Cached(n)
        /\ phase = "flush" => cache[n].addr # NewAddr
        /\ phase = "flush" /\ cache[n].dirty => NatBlockOf[n] \in flushing
        /\ phase = "down" => ~Cached(n)

\* The copies that the last checkpoint has are in use until a block is flushed.
SavedInv ==
    /\ \A b \in NatBlocks : phase # "flush" \/ b \in flushing => natBitmap[b] = saved.bitmap[b]
    /\ phase # "flush" => journal = saved.journal /\ flushing = {}
    /\ Cardinality(InJournal(saved.journal)) <= JournalEntries

\* No entry in a NAT block is hidden by an older one in the journal: either all dirty entries
\* fit in the journal, or it was emptied and has entries of the blocks that are flushed.
JournalInv ==
    phase = "flush" =>
        \/ Cardinality(InJournal(journal)) + Cardinality(Dirty) <= JournalEntries
        \/ \A n \in InJournal(journal) : NatBlockOf[n] \notin flushing

\* What a thread has in hand is as it found it.
HandInv(t) ==
    /\ HasNid(t) \/ LookingUp(t) => thread[t].nid \in Nids
    /\ HoldsOpLock(t) => phase = "idle"
    /\ phase = "down" => thread[t].pc = "idle"
    /\ LookingUp(t) => phase \in {"idle", "sync"} /\ ~Cached(thread[t].nid)
    /\ thread[t].pc = "unjournaled" => journal[thread[t].nid] = NoValue
    /\ thread[t].pc = "found" => thread[t].addr = NatOf(thread[t].nid)

Apart(t, u) ==
    /\ HasNid(t) /\ HasNid(u) => thread[t].nid # thread[u].nid
    /\ LookingUp(t) /\ LookingUp(u) => thread[t].nid # thread[u].nid
    /\ ~(thread[t].pc = "build" /\ thread[u].pc = "build")

ThreadInv ==
    /\ \A t \in Threads : HandInv(t)
    /\ \A t, u \in Threads : t # u => Apart(t, u)

\* build_free_nids() will come to the journal entry of the nid and take it off the list
ToBeRemoved(n) == n \in scan.journal /\ journal[n] # NullAddr

ScanInv ==
    /\ ~OnBuild => scan = NoScan /\ checking = NoValue
    /\ \A n \in scan.page : NatPage(n) = NullAddr
    /\ scan.journal \subseteq InJournal(journal)
    /\ scan.page # {} => scan.journal = InJournal(journal)

\* neither a node nor the last checkpoint has the nid
Unused(n) == NatOf(n) = NullAddr /\ (phase # "flush" => SavedTable[n] = NullAddr)

ListInv ==
    /\ \A n \in Nids : freeNids[n] = "new" => Unused(n) \/ ToBeRemoved(n)
    /\ checking # NoValue /\ freeNids[checking] = "none" => Unused(checking) \/ ToBeRemoved(checking)
    /\ \A t \in Threads :
         /\ thread[t].pc \in {"held", "undone"} => Unused(thread[t].nid)
         /\ thread[t].pc = "made" => SavedTable[thread[t].nid] = NullAddr

\* the NAT and the threads that look at it, whatever the list of free nids has
NatInv == TypeOK /\ CacheInv /\ SavedInv /\ JournalFits /\ JournalInv /\ ThreadInv

Inv == NatInv /\ ScanInv /\ ListInv
=============================================================================
