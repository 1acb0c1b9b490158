# A TLA+ model of ESOS

ESOS is a research storage stack: a variant of the F2FS file system for Linux
(`src/F2FS/f2fs`), its tools (`src/tools/f2fs-tools`), and VSSIM, an emulated
SSD with its own flash translation layer (`src/VSSIM_etc`).  This directory
holds TLA+ modules for the parts whose correctness depends on the order of
events, TLC configurations that check them on small instances, and TLAPS proofs
for every instance.

    cd tla
    tlc -workers 2 -config MC_Segments.cfg MC_Segments.tla
    tlapm SegmentManager_proofs.tla

## 1. The system

### F2FS

| Part | State | Operations | What makes it correct |
|---|---|---|---|
| Segment manager (`segment.c`, `segment.h`) | SIT entries (current and checkpoint map, counts, type), free segment map, dirty/prefree/per-type segment lists, six logs, discard list | allocate a block (LFS or SSR), invalidate, open a segment, flush the SIT, clear prefree segments, FITRIM, `F2FS_DA_MAP` rewriting of the previous page | a block of the last checkpoint is never reused; the SIT agrees with the block addresses; every segment is on the lists that its contents call for |
| Checkpoint (`checkpoint.c`) | version, SIT/NAT version bitmaps, META page cache, two packs on the device, orphan and dirty directory lists | `write_checkpoint()`, `get_valid_checkpoint()` | atomic: after a power failure the state is that of one checkpoint |
| Cleaner (`gc.c`) | victim map, `gc_mutex`, current victim | background and foreground cleaning | moves valid blocks only; ends; gets the checkpoint it needs |
| Node manager (`node.c`) | NAT cache, NAT journal, free nids, node pages | write/truncate nodes, flush NAT, allocate nids | a nid has one owner; the NAT and the SIT are of one moment |
| Data path (`data.c`) | bios under way, extent cache | page writes, direct I/O, end of I/O, error | an error stops checkpoints before one commits what was not written |
| File operations (`file.c`), super block (`super.c`) | | truncate, fsync, FITRIM, sync, mount, unmount | fsync survives a power failure |
| Recovery (`recovery.c`) | chain of node blocks after the checkpoint | roll-forward at mount | what was fsynced is found, nothing else is |
| Flush thread (`segment.c`) | lockless list of requests, the list in hand | issue and await a flush | no request is left behind; a flush covers what its callers wrote |
| Directories and names (`dir.c`, `namei.c`, `hash.c`) | hash table of each directory, its depth and hint | create, link, unlink, rename, exchange, O_TMPFILE, lookup | every checkpoint holds a tree; a name that was added is found |
| Inodes (`inode.c`, `inline.c`) | VFS inode and its page, orphan list | write, evict, recover orphans | an inode without a name goes away, also over a power failure |
| Attributes (`xattr.c`, `acl.c`) | list in a block of one inode | get, set | layout of one block |

All operations that change blocks take the operation lock for reading
(`f2fs_lock_op()`); a checkpoint takes it for writing (`block_operations()`),
flushes the dirty nodes, the NAT and the SIT, writes the META pages and then the
checkpoint pack.  Cleaning holds `gc_mutex` and, for data pages, does *not* take
the operation lock.  Writers that find too few free segments call the cleaner,
and the cleaner calls `write_checkpoint()` because only a checkpoint turns
prefree segments into free ones.

### VSSIM

| Part | State | Operations | What makes it correct |
|---|---|---|---|
| Host queue (`FTL/HOST/host.c`) | ring of commands, a condition variable | the emulated disk enqueues, one FTL thread dequeues | no command is lost or overwritten; the thread wakes up |
| Polymorphic FTL (`FTL/Polymorphic`) | region, extent and page mapping, block bitmap, write pointers, `step_flag` | read, write, garbage collection in steps that a command preempts | a mapped page is never erased; free pages are counted right |
| SSD module (`SSD_MODULE`) | list of buffered writes; one thread per channel and flash chip | buffer and flush writes, start and await a transfer | overlapping writes reach the flash in order; no waiting for ever |

The rest (monitor, benchmarks, archived copies of the FTL, test logs, generated
build files) has no logic to model; `PROJECT.json` lists it.

### What is hard

* Power failures: the last checkpoint must stay intact while the blocks it
  refers to are dead in memory and the segments they are in look empty.
* Locks that not everybody takes: direct I/O, foreground cleaning and FITRIM run
  beside a checkpoint or beside each other.
* A write error in the middle of a checkpoint, after the tables in memory have
  moved on.
* Two copies of everything on the device: SIT blocks, journal and block, packs.
* `F2FS_DA_MAP`, which this repository adds to F2FS, invalidates and allocates
  blocks outside the usual paths.
* In VSSIM, threads that share memory without locks, and a garbage collection
  that stops half way.

* Two threads that share a flag of an inode or of a NAT entry without a lock:
  `fsync()` beside a writer, a nid list that is built while nids are used.
* Operations on names are several steps over several pages, and a checkpoint
  must not come between them.

`PROJECT.json` lists each hazard at its line with the property that covers it,
or why none does.

## 2. Modules

| Module | What it is |
|---|---|
| `SegmentManager` | The segment manager with what drives it: writers, truncation, the cleaner, a checkpoint in its steps, an I/O error, a power failure with the next mount. |
| `SegmentManager_proofs` | The proofs about it. |
| `MC_Segments` | Its instance for TLC; seven configurations. |
| `AtomicCheckpoint` | What a checkpoint promises of a table: saved as a whole or not at all. |
| `CheckpointPack` | How a checkpoint reaches a device with a volatile cache: journal, SIT block copies, packs. Refines `AtomicCheckpoint`. |
| `CheckpointPack_proofs` | The proofs about it, with the refinement. |
| `MC_Checkpoint` | Its instance for TLC. |
| `NodeManager` | The NAT (cache, journal, block copies), the list of free nids and its build. Refines `AtomicCheckpoint` with the NAT as the table. |
| `NodeManager_proofs` | The proofs about it, with the refinement. |
| `MC_Nodes` | Its instance. |
| `FlushMerge` | The flush thread; `Recovery` extends it. |
| `Recovery` | `fsync()` without a checkpoint, and roll-forward recovery. |
| `Recovery_proofs` | The proofs about it and the flush thread. |
| `MC_Recovery` | Its instance. |
| `Directory` | The hash table of a directory, as operators on the set of its entries; `Namespace` extends it. |
| `Namespace` | Names, link counts, orphans and inode pages over checkpoints and power failures. |
| `Directory_proofs` | Lemmas about adding, deleting and finding entries. |
| `Namespace_proofs` | The proofs about `Namespace`. |
| `MC_Namespace` | Its instance. |
| `CommandFifo` | What a command queue promises. |
| `HostQueue` | The event queue of VSSIM and the garbage collection beside it. Refines `CommandFifo`. |
| `HostQueue_proofs` | The proofs about it, with the refinement. |
| `MC_Host` | Its instance. |

### SegmentManager

`valid`, `ckptValid`, `ckptValidBlocks`, `segType` and `dirtySentries` are the
fields of the SIT cache; `inuse` is `free_segmap`; `dirty` holds the lists of
`dirty_seglist_info`; `curseg` the open segments.  `addr` maps a page to the
block it is in, as its node block or NAT entry says.  `staged` is what the
checkpoint under way has written and `durable` the last one that is complete;
`destroyed` is a history variable: the blocks valid in `durable.sit` that were
overwritten or discarded.  `CheckpointedBlocksIntact` says it never contains a
block that a page of the last checkpoint is in.

`AllocateDataBlock` is the whole of `allocate_data_block()`: the summary, the
choice of the next block (`RefreshNextBlkoff`: next offset in LFS, next offset
free in both maps in SSR), both SIT updates (`RefreshSitEntry`), and if the log
is full, `allocate_segment_by_default()`: SSR in a segment with room
(`ChangeCurseg`) or a new one (`NewCurseg`), and `locate_dirty_segment()`
(`Relocated`) for both segments.  The writers differ in the locks they hold:
`WriteData` and `WriteNode` wait for a checkpoint, `DirectAlloc` and
`GcMoveData` in the foreground do not in every case, as in the code.
`ReadPrevPage` and `SubmitPrevPage` are the two halves of
`read_and_submit_prev_page()`.  A checkpoint is `CpStart` (operations are
blocked), `CpFlush` (SIT written, prefree segments made free), `CpCommit` (the
pack is on the device), `CpFinish` (prefree segments forgotten, discards
issued), or `CpAbort`.  `CrashAndMount` may happen at any time.

Abstractions: a section is one segment; the costs by which victims are chosen
become a choice among all candidates, so every policy is covered; a page's
contents are its identity; a log is opened at any free segment, which covers
the search order of `get_new_segment()`; when no segment is free the operation
waits (the code stops in `f2fs_bug_on()`).  `ReservedSecs` and `MaxDirtySecs`
stand for `reserved_sections()` and the count of dirty pages.

Constants turn features on: `DA_MAP` (`F2FS_DA_MAP` is defined in the code as it
stands), `RacingWriters` (two threads in one log under `DA_MAP`), `Fitrim`,
`IOErrors`.

### CheckpointPack

One table, the SIT, is followed to the device.  `CpFlush` is the choice that
`flush_sit_entries()` makes (sets of entries by block, smallest first, to the
journal while it has room, then to the other copy of their block), `CpWriteMeta`
and `WriteBack` are the META pages going to the device and from its cache to the
medium in any order, `CpSubmitPack` is the pack with its flush, after which
`CpWritePackBlock` writes its blocks one by one.  `IOError` and `PowerFail` may
come at any point; `Mount` is `get_valid_checkpoint()` and
`build_sit_entries()`.  It assumes that the one bio of the pack
(`checkpoint.c:976`) is written in the order of its blocks, which is what
`validate_checkpoint()` needs to recognise a pack cut short; and that there is
neither `nobarrier` nor `cp_payload`.  A checksum is modelled by the block being
a checkpoint page or not.

### NodeManager

`cache`, `journal`, `natPages` with `natBitmap` are the three places of a NAT
entry; `NatOf` is the order in which `get_node_info()` looks.  A lookup is the
four steps of that function, with the page of the node locked and without the
operation lock.  `freeNids` is the list of free nids, `thread` where a thread is
between `alloc_nid()` and `alloc_nid_done()` or `alloc_nid_failed()`, or in
`build_free_nids()` (`scan`), and `checking` the nid `add_free_nid()` has tested
and not yet inserted.  `CpBlock`, `CpFlushStart`, `CpFlushSet` and `CpEnd` are
the checkpoint: `flush_nat_entries()` empties the journal when the dirty entries
do not fit, then takes the sets by size.

Left out: memory for the list is never short, the early return of
`build_free_nids()` with enough entries (it only scans less), and the entry of
the root that `mkfs` leaves in the journal.  A NAT page is looked at in one
step, since it is locked.  Two races of the code are behind constants, both off
in the run.  With `AddRace`, a nid that leaves the list between the two steps of
`add_free_nid()` (`node.c:1419`) comes back to it and is given twice
(`NidsExclusive` fails after 12 steps).  With `FlushedLookups`, a reader that
missed the cache looks in the journal after the flush emptied it and in the NAT
block before the flush wrote it (`LookupsCurrent` fails after 19 steps).  Both
are recorded as hazards.

### FlushMerge and Recovery

`issueList`, `dispatchList` and `completed` are the lockless list, the list in
hand and the completions; a request is put on the list and the thread is woken
in two steps.  `Recovery` says what a flush makes durable: the blocks whose
writes had ended when it was submitted.  `log` is the warm node log since the
last checkpoint or mount, `inFlight` its writes under way, `durable` what is
safe.  `fsync` has one step for each place where `f2fs_sync_file()` may be
overtaken: the tests of what is to be written, each node block, the check of the
inode, the wait, the flush.  `nat` holds the flags of the inode's NAT entry from
which the fsync and dentry marks are computed, and an entry that is evicted
loses them.  `PowerFail` leaves on `medium` the blocks the device
kept, and `Mount` is `recover_fsync_data()`: the chain of blocks with the current
version, `find_fsync_dnodes()`, `recover_data()`.  Blocks of an older chain stay
on the medium when a mount recovered nothing, because then it writes no
checkpoint.

Four constants are there for what the code does not rule out; in the run writes
are ordered and none of the other three happens, and all of them are hazards.

* `LateWrites`: data is written out while `fsync()` is past the node that would
  show it, and `fsync()` then clears `FI_APPEND_WRITE` (`file.c:235`) for data it
  did not write.
* `Overlaps`: a second `fsync()` of the file finds nothing to write, because the
  first one wrote it, and returns before that is durable.
* without `OrderedWrites`: `fsync()` waits for its own nodes only
  (`node.c:1250`), and a gap in the log ends the chain of a mount.
* `StaleBlocks`: an inode number that a power failure took back is given again
  while the log still has blocks of the first file with that number, which are
  taken for the second one's (section 5); it takes 22 steps.

`FsyncedDataSurvives` fails with each of them.  Its three parts are the name of
the file (`FsyncedNamesSurvive`), the data of then or later, and no older data
(`NoOlderDataReturns`), and what is left of it depends on which one happens; "yes"
is proved (section 4), "no" is a counterexample of TLC:

| | name | data | no older data |
|---|---|---|---|
| none of them | yes | yes | yes |
| `LateWrites` | yes | no | yes |
| `Overlaps` | no | no | yes |
| `StaleBlocks` | yes | no | no |
| writes not ordered | no | no | yes |
| all of them | no | no | no |

With all of them it is still proved that no mount fails and none takes a file
behind the checkpoint.

### Directory and Namespace

A directory is the set of its entries with level, bucket and place, so hash
collisions, holes, the growth of the depth and the hint of the last search are
there.  `Namespace` has one action for each part of an operation on which others
may depend: what comes before `f2fs_lock_op()`, the metadata, the entry, the
orphan.  `inode` is the VFS inode and `page` what its page has, which is what a
checkpoint saves; `nOrphans` the reservations that `acquire_orphan_inode()`
counts.  `Checkpoint` comes when nobody holds the operation lock;
`PowerFailure` is a failure with the mount, and `Recovered` what
`recover_orphan_inodes()` leaves.

The locks of the VFS are external and modelled by what they exclude: both
directories of a rename, the inode a name is taken from, one rename over two
directories at a time, no directory moved below itself (`Above` is what
`d_ancestor()` follows: the least set that has a directory and, with each, its
`..`).  `TreeConsistent` is what a saved tree must be, down to every `..` leading
to the root (`NoCycle`).  Left out: `.` and `..` as entries (`parent` is what `..`
has), roll-forward recovery, a failed eviction (an eviction that never comes).

Seen while modelling, and not wrong by any property here: an exchange tests
`LINK_MAX` on the two inodes, not on the directories whose counts grow
(`namei.c:525`); a directory of the greatest depth takes no more names wherever
it has room (`dir.c:475`); the page of an `O_TMPFILE` inode has a link count of
1 until it is written again, which is harmless because the inode is an orphan.

### HostQueue

`slots`, `front`, `rear` are the ring, `disk` and `loop` the two threads.  Each
lock section is one action, so a step of the other thread can come between the
test of `IS_FULL()` and the enqueue, between the test of `IS_EMPTY()` and the
wait, and between the dequeue and the last use of the slot.  Garbage collection
is the steps between its tests of `IS_EVENT()`, with `stepFlag`; of the flash
only `copied` is left: whether a command ran since the pages of the victim were
copied.

Seen while modelling: the signal for the last command of a burst can be lost, as
`t_lock` is never taken (`host.c:182`), so that command waits for the next one -
hence no property says that every command runs; `HARD` is never reset, so a
later soft collection is not preempted; the copy does not look at `step_flag`,
and `ErasedIsCopied` depends on it.  The configuration is `HOST_QUEUE` with
`Polymorphic`, one thread writing to the queue.

## 3. What the runs check

| Run | Question | Bounds |
|---|---|---|
| `segments` | Do writers, truncation, cleaning, SSR, checkpoints and power failures keep all tables in agreement and the last checkpoint intact? | 3 segments of 2 blocks, 2 data logs, 2 pages |
| `segments_faults` | Do SIT, addresses and checkpoint agree with `F2FS_DA_MAP`, node pages and I/O errors? | 3 segments of 2, a data and a node log, 2 data pages and a node |
| `segments_live` | Does every checkpoint end, and does cleaning get the one it waits for? | 3 segments of 2, a data and a node log, 2 pages |
| `checkpoint` | Is a checkpoint atomic on the device? | 3 entries in 2 SIT blocks, journal of 1, versions 1 to 3 |
| `nodes` | Does a nid have one owner, is a lookup right, and is the NAT saved as a whole? | 3 nids in 2 NAT blocks, journal of 1, 2 threads, one block address, versions 1 to 3 |
| `recovery` | Does a mount find what `fsync()` returned for, and nothing else? | 2 files of an inode and a node, 2 threads, 3 changes, a log that takes 2 blocks before fsync or writeback begins, one power failure |
| `namespace` | Is every checkpoint a tree, is every name found, does anything leak? | root and 3 inodes, 2 names of one hash (1 and 2 slots), blocks of 2 slots, 3 levels, 2 threads, 2 orphans, 4 operations |
| `host` | Is the queue a FIFO, does it drain, is what is erased copied? | ring of 3 commands, 2 kinds of writes and a read |
| `segments_trim`, `segments_error`, `segments_damap`, `segments_darace` | The disagreements of section 5. | 3 or 4 segments |

Why the bounds are enough for what they are for: with two blocks in a segment a
segment can be empty, partly used and full; with three segments two logs are
open and one is free, dirty or prefree, so that SSR, prefree reuse and a victim
that becomes a log all occur; two pages in six blocks leave blocks that are dead
in memory and alive in the checkpoint.  Every number of checkpoints and power
failures is covered, since nothing is counted.  In `checkpoint` two entries
share a block (the copy of the old entry matters), a third has its own (journal
and blocks are used at once), and version 3 overwrites the pack of version 1
while 2 is the last; after a failure it is written again over what is left.
`MaxVersion` stops the count.  One layout of the pack is used in the run.

In `nodes` two nids share a NAT block, so a set of the flush has one entry or
two, and the journal has room for one: it is filled, passed over and emptied.
Version 3 is the second checkpoint, which moves entries of the first from the
journal to a block and reuses a copy.  One address is enough because the
properties only compare an entry with itself at another time.  In `recovery`
a file is created, written and fsynced in 3 changes, or fsynced, unlinked and
its neighbour fsynced; two threads are the least at which a flush is shared;
an `fsync()` that began adds blocks beyond the bound of the log, so the chain has
up to six.  With one thread and two power failures (1.9 million states) the
properties hold too; the proof is for any number.  In `namespace` four operations make two files and a directory and rename or unlink
one; two names of one hash fill the first block, so the next goes to level 1 and
a deletion leaves a hole before it; two orphans are the limit and one more
operation is refused.  In `host` the ring wraps after four commands, and no
number of commands is bounded.

Symmetry is used for segments, data pages and the two entries that share a
block; no definition orders them.  The liveness run uses none.

Fairness: `FairSpec` assumes weak fairness of the thread in
`write_checkpoint()` and of the one in `f2fs_gc()`: a kernel thread that can run
runs, and `wait_on_all_pages_writeback()` returns since the device completes
every bio.  Nothing is assumed of users, timers or errors.  In `host` both
threads are weakly fair (they are POSIX threads that run when they can); that no
wakeup is lost or that a command comes is not assumed, and spurious wakeups are
allowed but not relied on.  The other modules have safety properties only.

Deadlock is checked in every run.  Each property has a mutant in `PROJECT.json`,
an operator named after what it breaks (`UsedOffs_CurrentOnly`), with which TLC
must find the property violated; these operators stand next to the definition
they vary and are used nowhere.

## 4. What is proved

`SegmentManager_proofs` proves, for every number of segments, blocks, logs and
pages, and with `DA_MAP` or without, under `OneAtATime` (no FITRIM beside
cleaning, no two threads in one log), with I/O errors and checkpoints that are
given up at any point:

* `TypeCorrect`, and the inductive `Invariance`,
* `SitIsExact`, `CheckpointIsConsistent`: the SIT in memory and in the last
  checkpoint agrees with the block addresses,
* `CkptValidBlocksCorrect`: the count of SSR is of this SIT and the last flush,
* `MarkedSegmentsAreDirty`: a victim marked by background cleaning stays dirty;

and under `NoFaults`, that is without I/O errors too:

* `CheckpointSurvives`: no block of the last checkpoint is destroyed,
* `LogsStayWritable`, `NoSentryForgotten`,
* `SeglistCorrect`: every segment is on exactly the lists its contents call for.

None of this is a convenience: three of the four findings are violations
of `OneAtATime` and `NoFaults`, and TLC refutes each of the last four with
`IOErrors`.

After a failed checkpoint (`cpError` and no checkpoint under way) the maps of
the flush are those of a checkpoint that never was.  `Steady` names the states
before that; what `PhaseInv`, `CkptInv` and `ListInv` say of the last checkpoint
they say of these only.  Two facts carry on without it.  `LogsInv`: the logs have
free blocks and share no segment as far as the maps in memory tell, so what is
written afterwards still hits no block that is valid now, which is what the
match of SIT and addresses needs.  And the error flag lets no checkpoint reach
`CpCommit`, so what is durable does not change.

The inductive invariant `Inv` (end of `SegmentManager.tla`) is needed because
none of these is inductive.  The argument: a block is written only through the
next free block of a log, which is free in `valid` and in `ckptValid`
(`CursegsWritable`, kept because `NewCurseg` takes a segment empty in both maps,
`ListInv`, and `RefreshNextBlkoff` skips blocks used in either).  `PhaseInv`
says that nobody allocates while a checkpoint runs: writers hold the operation
lock and cleaning holds `gc_mutex`, which the checkpoint's caller has or is.  So
allocations happen only when `durable.sit = ckptValid` (`CkptInv`), and none hits
a block of the last checkpoint.  At its end a checkpoint discards prefree
segments and listed blocks, all dead in what is durable by then.
`DurableCursegsWritable` is what a mount needs to establish `CursegsWritable`
again.

For the lists and the victims, `SeglistInv` is proved inductive beside `Inv`; it
holds after failures too, when `PRE` may merely have segments too many.  The lists are
wrong for a moment in many places, since the SIT is updated first; what makes
them right again is that each operation ends with `locate_dirty_segment()` for
every segment it touched, that a free or open segment is on no list, so its
place is right whenever it is opened or left, and that nobody allocates between
the flush, which frees the prefree segments, and the end of the checkpoint, which
forgets them.  A marked
victim stays dirty because SSR does not take marked segments and a segment leaves
`DIRTY` only with its mark.

The proof has one lemma per action, and before them lemmas about counting
offsets, about the lists, and about `AllocateDataBlock`, which all writers share.

`CheckpointPack_proofs` proves, for every set of entries, assignment to SIT
blocks, journal size and layout of packs, with I/O errors and power failures at
any point and without a bound on the version (`MaxVersion` is any number, and no
proof uses that a version is below it):

* `CheckpointIsAtomic`: `Spec => AtomicSpec`, the refinement,
* `AlwaysFound`: a mount finds the last complete checkpoint,
* `LiveCopiesSafe`: no SIT block in use is ever written,
* `JournalNeverOverflows`, `TypeCorrect`, `Invariance`.

Its `Inv` (end of `CheckpointPack.tla`) says what the packs, the pack under way
and the pages are worth at every point.  The argument: versions alternate between
the packs (`PackOf`), so the pack being written is not the one a mount takes.  Of
the next version that pack has at most a first page, also when it was cut short
and its place is written again (`PackInv`); so until the last block its two pages
do not agree (`PackNotComplete`), and with the last block they do, with the
higher version (`PackComplete`).  At that block the SIT blocks its bitmap refers
to are on the medium, because the flush came first (`PhaseInv`, `TableInv`), and
they with the journal are the SIT.  Until then nothing that a mount reads was
touched, because a changed block goes to its other copy (`LiveCopiesUntouched`).
In `CpFlush` the one fact that is not obvious is that an entry cannot be left in
the journal with an old value: either all dirty entries fit and all go there, or
the journal is emptied first (`FlushFacts`).

The assumptions are the ones of the model: the blocks of the one bio of a pack
reach the medium in order, and a flush empties the cache of the device.

`HostQueue_proofs` proves, for a ring of any size and any commands:

* `QueueIsFifo`: `Spec => FifoSpec`, the refinement,
* `CopiedBeforeErase`, `TypeCorrect`, `Invariance`.

The abstract queue is the command that is executed followed by those between
`front` and `rear`.  `Inv` (end of `HostQueue.tla`) has what each thread may rely
on at its place: who is about to enqueue has room, since only the other thread
changes `front` and that makes room; who is about to dequeue finds a command; and
the slot from which a command is executed is the one before `front`.  The ring
never fills that slot, because it keeps one free: this is what makes the use of
the pointer after the dequeue right, and the proof of `EnqueueAccepts` and
`ExecutedCompletes` shows where it is needed.

`NodeManager_proofs` proves, for any nids, NAT blocks, threads and journal size,
without `FlushedLookups`:

* `NatIsAtomic`: `Spec => NatAtomicSpec`, the refinement of `AtomicCheckpoint`,
* `JournalHasRoom`, `LookupsAreCurrent`, `TypeCorrect`, `NatInvariance`;

and with neither that nor `AddRace` (`NoRaces`):

* `NidsAreExclusive`: no nid is handed out twice, or while a node has it,
* `FreedNidsAreHeldBack`: a nid freed since the last checkpoint is not reused,
* `Invariance`.

So the race in `add_free_nid()` can spoil the list of free nids and nothing else:
whatever the list says, the NAT stays one table.

`NatInv` (end of `NodeManager.tla`) is the coherence of the four places a NAT entry
may be in, and `Inv` adds what the list has.  A clean cache entry is a copy of what a lookup without the cache
finds (`CacheInv`).  At a flush, either all dirty entries fit in the journal or
the journal was emptied, so no entry of a block is hidden by an older one of the
journal (`JournalInv`); the copies in use at the last checkpoint are left alone
(`SavedInv`).  A lookup that went to the medium holds the lock of a page of the
same node, and nobody sets that entry meanwhile (`HandInv`).  A listed nid is
unused in the table and in the last checkpoint, or is one that the scan of the
journal at the end of `build_free_nids()` is about to remove (`ListInv`,
`ScanInv`); who builds holds the operation lock, so no checkpoint passes in
between.  At the last step of a checkpoint no dirty entry is left, so what is
durable then is the table, which is the refinement.

`Recovery_proofs` proves, for any files and threads, any length of the log and
any number of changes and power failures, without any assumption, that is with
both races of `fsync()`, with what is left behind the end of the log, and with a
device that keeps any part of its cache:

* `MountsSucceed`: no mount fails,
* `RollForward`: a mount takes no file behind the checkpoint and leaves no half
  of one,
* `WakeupsNotLost`, of the flush thread, `TypeCorrect` and `BaseInvariance`;

and under the part of it that each needs:

* `FsyncSurvives`: what `fsync()` returned for is there after the next mount, and
  `Invariance`; under `NoRaces` (`OrderedWrites`, neither `LateWrites`, `Overlaps`
  nor `StaleBlocks`),
* `NamesSurvive`: its name is there after the next mount, and `NameInvariance`;
  under `OrderedWrites` without `Overlaps`,
* `OlderDataStaysAway`: if it had no data then, no data of an earlier file comes
  back, and `OlderInvariance`; without `StaleBlocks`.

So whatever goes wrong in `fsync()`, the most that can come of it is that what
it promised is missing or old after the mount, never a volume that cannot be
mounted or a file behind its checkpoint.

`BaseInv` (`Recovery.tla`) is why.  Recovery would fail on a dentry mark on an
inode that the checkpoint has, or with a directory that is not there.  The mark
is given by the flag `ckpt` of the NAT entry, which says of each file whether the
checkpoint has it (`FlagsInv`): the entry of a file that it does not have is
dirty, so it is not evicted and read anew as one of the checkpoint.  And `fsync()`
writes nodes only when the directory is in the checkpoint (`CallsInv`).  So each
block, of the log or of what a power failure left of it, is as `BlockOK` says,
and any set of such blocks brings back whole files (`FileRecovered`).

`Inv` (`Recovery.tla`) has two forms.  While the volume is up, `PromiseInv`
says of each file with a promise that it is recoverable (`Recoverable`) from the
last checkpoint and the *durable* part of the log, and, if it had no data then,
that no block has older data for it (`NoOlderData`).  It is established in the
steps of `fsync()`, so `Stage` and `FsyncInv` say what the thread has reached at
each: its nodes are in the log (`WrittenInv`), their writes have ended, a flush
that began after that covers them.  Since writes end in order, a durable block
has all blocks before it durable, so it is in the chain of any mount.
`NatInv` ties the flags of the NAT entry to the log: the entry of an inode that
is not in the checkpoint is dirty, so it is not evicted and the inode is known as
such; and once it has the flag of an fsynced inode, a block with the dentry mark
is in the log.  So a mount finds the name of every fsynced file.  At a power
failure the part of the log the device kept is an unknown set that contains the
durable blocks; `DownInv` says that whatever it is, `Survived` holds of what
`AfterMount` computes, and the mount carries that over.

`NameInv` is much weaker than `Inv` and still enough for the name: of a file
that the checkpoint does not have, a block with the dentry mark is in the durable
part of the log as soon as nobody is in `fsync()` of it, and before that it is
where the flush under way will find it.  It says nothing about data, so a late
write cannot break it; an overlap can, because the second `fsync()` may then
return while the block is still in flight.  A mount needs no mark on anything
else to bring the name back (`NameRecovered`), whatever stale blocks follow in
the chain.  `OlderInv` says of each value that `fsync()` promised or is about to
promise, that the memory, the checkpoint, the log and the medium have no older
data of that inode number (`NoneOlder`).  Nothing in it depends on which blocks
are durable, so it holds in any order of the writes.  What breaks it is a file
created while the medium has blocks of an earlier one with its number.  TLC
finds no violation of either in states beyond those of the run: `MC_Recovery`
with the constants of the table and `NameInv` or `OlderInv` as an invariant.

`Namespace_proofs` proves, for any inodes, names, hashes, sizes of names, shape of
the table, threads, number of orphans and of operations, and without any
assumption beyond the types of the constants:

* `SavedTreesConsistent`: what a checkpoint has is a tree,
* `OrphansCounted`: `n_orphans` is the orphans and the reservations,
* `NamesAreFound`: a search finds every name there is,
* `NothingIsLost`: after a mount an inode is there if and only if it has a name,
* `TypeCorrect`, `Invariance`.

`Inv` (end of `Namespace.tla`) is about the moments in between, since none of the
four is inductive: they hold when nobody is inside an operation, and a checkpoint
must find them so although operations before `f2fs_lock_op()` and an `O_TMPFILE`
past `f2fs_unlock_op()` are under way.

* `ExclusionInv`: two operations hold no lock in common and change the names of
  no inode in common (`Targets`).  This is where the locks of the VFS go in, and
  it gives the proof its shape: `Frame` says that a step touches the directories
  and inodes that are its own, and `Assemble` that then all that is known of other
  operations and inodes stays.  What is left for each action is its own operation
  (`AddInv`, `UnlinkInv`, `RenameInv`: what it knows at each place) and its own
  inodes.
* `LinkInv`: a link count is the number of names, but one ahead between the
  metadata and the entry (`Ahead`), one behind between the new entry and the
  deletion of the old one (`Behind`), and a directory counts one that it has
  twice (`Doubled`).  An inode at zero is an orphan or about to be settled
  (`Losing`, `OrphanInv`); the orphans of operations that may still come are the
  reservations.
* `CycleInv`: the `..` of the directories of the tree have no cycle, and a
  directory under way to another one is not above it.  That stays true because
  only one rename over two directories is under way, and while it is, other
  operations change no `..` of a directory above its target.
* `DirsFound` is kept by the lemmas of `Directory_proofs`: an entry is added at
  slots that are free in its bucket and below the depth the directory then has
  (`AddKeepsFound`), wherever the hint had the search begin, and its name was not
  there.
* `SavedInv` is what the last checkpoint has, from which the mount makes the next
  state.  `SettledTree` is the step from all of the above to a tree: nobody is
  inside an operation, so nothing is ahead, behind, doubled or losing except an
  `O_TMPFILE` inode that is an orphan already.

The proof made one property exact: `SavedTreeConsistent` had to say that a
directory has one name and a `..` to it, and that the `..` have no cycle, for
`NothingLeaks` to follow for any number of directories.

Only model-checked: liveness (`CheckpointCompletes`, `GcGetsCheckpoint`,
`FullQueueDrains`), which is outside the prover's reach, as is anything about a
RECURSIVE operator or an induction over data; the modules have neither.  The
findings are counterexamples of TLC.

## 5. Where code and comments disagree

1. `segments_trim`: `f2fs_trim_fs()` writes a checkpoint "to issue discard
   commands safely" (`segment.c:1067`) without `gc_mutex`.  Foreground cleaning
   moves data pages without the operation lock, so pages move between the flush
   of the SIT and the commit, and blocks of the checkpoint are discarded.
2. `segments_error`: "Should call clear_prefree_segments after checkpoint is
   done." (`segment.c:533`), but prefree segments become free when the SIT is
   flushed.  If the pack is then not written, a writer past its test of the error
   flag reuses them and destroys what the last checkpoint needs.
3. `segments_damap`: "We guarantee that this checkpoint procedure will not fail."
   (`checkpoint.c:989`); with `F2FS_DA_MAP`, clearing a prefree segment uses a
   page that was never allocated, with all locks held.
4. `segments_darace`: the assertion at `segment.c:667` that an invalidated block
   was valid, and so the match of SIT and addresses, fails when two threads write
   to one log, because the previous address is read before the lock is taken
   again.

Met without a run, because these states are behind a constant that is off:
"Both of fdatasync() and fsync() are able to be recovered from
sudden-power-off." (`file.c:191`), but a mount that finds nothing to recover
writes no checkpoint (`recovery.c:513`), so the version and the start of the log
stay as they were, and node blocks of before the failure stay behind it.  An
inode number of a file that was lost is given again, the new file is fsynced over
the first of these blocks, and after the next power failure the chain runs on
into the remaining ones, which have the same version and inode number: old data
replaces what was fsynced.  `FsyncedDataSurvives` shows this with
`StaleBlocks = TRUE` and two power failures.

Met in reading: for `inode(x) | CP | inode(x) | dnode(F)` the comments say
"Update the latest inode(x)." (`recovery.c:22`) and "call recover_inode for the
inode update" (`recovery.c:449`), but `last_inode` is set for blocks with the
fsync mark only (`recovery.c:184`, `recovery.c:222`), so an unmarked inode is
not recovered: what was fsynced of the data is there, a later size or mode that
was written back is not.  `Recovery` follows the code.

## 6. Not modelled, and the plan

Not modelled:

* Inline data and extended attributes: the layout of one block
  under one lock.
* Indirect nodes, the extent cache, reads, readahead: they change no state that
  the properties speak of.
* Atomic and volatile writes, `fallocate()`, sections of more than one segment,
  `cp_payload`, the list of dirty directories.
* Victim costs, sleep times, statistics, sysfs, options.
* The block contents of the polymorphic FTL: the test for a free block is
  commented out (`ftl.c:223`), so a write may hit a block in use as soon as the
  write pointer wraps, and no property of the mapping holds.
* The SSD module: it models time, and holds no data.
* `fsck` and `mkfs` beyond the initial states, monitor, benchmarks, archived
  copies, logs.

To do, in this order: roll-forward recovery over `Namespace`, so that
fsync of a renamed file is covered; atomic writes.  FITRIM stays out of the theorems of `SegmentManager`
for a reason: beside cleaning it breaks every one of their properties in TLC.
