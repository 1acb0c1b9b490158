------------------------------ MODULE Directory ------------------------------
(***************************************************************************)
(* The hash table of a directory (dir.c).  Level l has Buckets[l] buckets  *)
(* of BucketBlocks dentry blocks; a name takes Slots[n] slots of one block *)
(* of the bucket of its hash, in the first level that has room.  The       *)
(* directory knows how deep it is and, for the last name it did not find,  *)
(* a hint of the level that has room (chash, clevel).                      *)
(*                                                                         *)
(* A directory is the set of its entries.  A block without entries is a    *)
(* hole, which is searched and filled like a block without names.          *)
(***************************************************************************)
EXTENDS Integers, FiniteSets

CONSTANTS
    Names,
    Hash,          \* f2fs_dentry_hash() of each name, never 0
    Slots,         \* GET_DENTRY_SLOTS() of each name
    MaxDepth,      \* MAX_DIR_HASH_DEPTH
    Buckets,       \* dir_buckets() of each level
    BucketBlocks,  \* bucket_blocks()
    BlockSlots     \* NR_DENTRY_IN_BLOCK

ASSUME DirectoryAssumption ==
    /\ MaxDepth \in Nat \ {0} /\ BucketBlocks \in Nat \ {0} /\ BlockSlots \in Nat \ {0}
    /\ Hash \in [Names -> Nat \ {0}]
    /\ Slots \in [Names -> 1..BlockSlots]
    /\ Buckets \in [0..MaxDepth-1 -> Nat \ {0}]

NoHint == [hash |-> 0, level |-> 0]

Least(S) == CHOOSE x \in S : \A y \in S : x <= y

\* dir_block_index(): the bucket of a name in a level
BucketOf(n, level) == Hash[n] % Buckets[level]

\* the bits of an entry in the bitmap of its bucket
Bits(e)    == e.pos .. e.pos + Slots[e.name] - 1
Used(D, level, bucket) == UNION {Bits(e) : e \in {e \in D : e.level = level /\ e.bucket = bucket}}

\* room_for_filename(): where a name fits into a block of its bucket
RoomFor(D, n, level) ==
    {pos \in 0..BucketBlocks * BlockSlots - 1 :
        /\ (pos % BlockSlots) + Slots[n] <= BlockSlots
        /\ (pos .. pos + Slots[n] - 1) \cap Used(D, level, BucketOf(n, level)) = {}}

-----------------------------------------------------------------------------
\* f2fs_find_entry(): the entries of the name in the levels the directory has
EntriesOf(D, depth, n) ==
    {e \in D : e.name = n /\ e.level < depth /\ e.bucket = BucketOf(n, e.level)}

FindEntry(D, depth, n) ==
    CHOOSE e \in EntriesOf(D, depth, n) : \A f \in EntriesOf(D, depth, n) : e.level <= f.level

\* The hints that a search can leave: a level it went through that seemed to have room.
\* find_in_block() counts free slots roughly, so any level may seem to.
LevelsSearched(D, depth, n) ==
    IF EntriesOf(D, depth, n) = {} THEN 0..depth-1 ELSE 0..FindEntry(D, depth, n).level - 1

HintsAfterSearch(D, depth, hint, n) ==
    IF hint.hash = Hash[n] THEN {hint}
                           ELSE {[hash |-> Hash[n], level |-> l] : l \in LevelsSearched(D, depth, n)}

-----------------------------------------------------------------------------
(* __f2fs_add_link().                                                      *)

StartLevel(hint, n) == IF hint.hash = Hash[n] THEN hint.level ELSE 0
HintAfterAdd(hint, n) == IF hint.hash = Hash[n] THEN [hint EXCEPT !.hash = 0] ELSE hint

\* the levels that are tried and have room
LevelsWithRoom(D, hint, n) == {l \in StartLevel(hint, n)..MaxDepth-1 : RoomFor(D, n, l) # {}}

\* a directory of the greatest depth takes no more names, wherever there is room
CanAdd(D, depth, hint, n) == depth < MaxDepth /\ LevelsWithRoom(D, hint, n) # {}

NewEntry(D, hint, n, ino) ==
    LET level == Least(LevelsWithRoom(D, hint, n))
    IN  [name |-> n, ino |-> ino, level |-> level, bucket |-> BucketOf(n, level),
         pos |-> Least(RoomFor(D, n, level))]

\* wrong: the depth of the directory does not grow with its levels
DepthAfterAdd_Kept(depth, e) == depth

DepthAfterAdd(depth, e) == IF e.level < depth THEN depth ELSE e.level + 1

\* f2fs_delete_entry() and f2fs_set_link() on the entries
Without(D, e)      == D \ {e}
SetLink(D, e, ino) == (D \ {e}) \cup {[e EXCEPT !.ino = ino]}

-----------------------------------------------------------------------------
\* Each entry is the one that a search for its name finds, and no two share a slot.
EntriesFound(D, depth) ==
    /\ \A e \in D : EntriesOf(D, depth, e.name) = {e}
    /\ \A e, f \in D :
         e # f /\ e.level = f.level /\ e.bucket = f.bucket => Bits(e) \cap Bits(f) = {}
=============================================================================
