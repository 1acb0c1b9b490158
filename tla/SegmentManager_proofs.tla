----------------------- MODULE SegmentManager_proofs -----------------------
(***************************************************************************)
(* Proofs about SegmentManager, for any number of segments, blocks, pages  *)
(* and logs.  Inv (the conjunction of TypeOK, the properties and the parts *)
(* that support them) is inductive when FITRIM is not used and a log       *)
(* serves one thread at a time (OneAtATime), whether or not writes fail;   *)
(* some of the properties need that no write fails (NoFaults).             *)
(***************************************************************************)
EXTENDS SegmentManager, FiniteSetTheorems, TLAPS

-----------------------------------------------------------------------------
(* Counting offsets.                                                       *)

LEMMA OffsetsFinite ==
    /\ IsFiniteSet(Offsets)
    /\ Cardinality(Offsets) = BlocksPerSeg
    /\ \A U \in SUBSET Offsets : IsFiniteSet(U) /\ Cardinality(U) \in Nat
  <1>1. BlocksPerSeg \in Nat \ {0}
    BY SegmentManagerAssumption
  <1>2. IsFiniteSet(Offsets) /\ Cardinality(Offsets) = BlocksPerSeg
    <2>1. 0 \in Int /\ BlocksPerSeg - 1 \in Int /\ ~(0 > BlocksPerSeg - 1)
      BY <1>1
    <2> QED
      BY <1>1, <2>1, FS_Interval DEF Offsets
  <1>3. ASSUME NEW U \in SUBSET Offsets
        PROVE  IsFiniteSet(U) /\ Cardinality(U) \in Nat
    BY <1>2, FS_Subset, FS_CardinalityType
  <1> QED
    BY <1>2, <1>3

\* Of a segment with V valid now and K in the last checkpoint, at most one free
\* block becomes valid (N) and at most one valid block invalid (O).
OneInOneOut(V, K, N, O, before, after) ==
    /\ V \subseteq Offsets /\ K \subseteq Offsets /\ N \subseteq Offsets /\ O \subseteq Offsets
    /\ N = {} \/ \E n \in Offsets : N = {n} /\ n \notin V \cup K
    /\ O = {} \/ \E o \in V \cup N : O = {o}
    /\ before = V \cup K
    /\ after = ((V \cup N) \ O) \cup K

\* What update_sit_entry() does to ckpt_valid_blocks keeps it the number of
\* blocks that are valid in one of the two maps.
LEMMA CountAfterRefresh ==
    ASSUME NEW V, NEW K, NEW N, NEW O, NEW before, NEW after,
           OneInOneOut(V, K, N, O, before, after)
    PROVE  Cardinality(after) = Cardinality(before) + Cardinality(N \ K) - Cardinality(O \ K)
  <1> DEFINE U0 == V \cup K
             U1 == U0 \cup N
             U2 == U1 \ (O \ K)
  <1> USE DEF OneInOneOut
  <1>1. U0 \in SUBSET Offsets /\ U1 \in SUBSET Offsets
    OBVIOUS
  <1>2. IsFiniteSet(U0) /\ IsFiniteSet(U1) /\ Cardinality(U0) \in Nat /\ Cardinality(U1) \in Nat
    BY <1>1, OffsetsFinite
  <1>3. Cardinality(after) = Cardinality(U2)
    <2>1. after = U2
      OBVIOUS
    <2> HIDE DEF U2
    <2> QED
      BY <2>1
  <1>4. U0 = V \cup K /\ U1 = U0 \cup N /\ U2 = U1 \ (O \ K)
    OBVIOUS
  <1> HIDE DEF U0, U1, U2
  <1>5. Cardinality(U1) = Cardinality(U0) + Cardinality(N \ K)
    <2>1. CASE N = {}
      <3>1. U1 = U0 /\ N \ K = {}
        BY <1>4, <2>1
      <3>2. Cardinality(N \ K) = 0
        BY <3>1, FS_EmptySet
      <3>3. Cardinality(U1) = Cardinality(U0)
        BY <3>1
      <3> QED
        BY <1>2, <3>2, <3>3
    <2>2. CASE \E n \in Offsets : N = {n} /\ n \notin V \cup K
      <3>1. PICK n \in Offsets : N = {n} /\ n \notin V \cup K
        BY <2>2
      <3>2. U1 = U0 \cup {n} /\ N \ K = {n} /\ n \notin U0
        BY <1>4, <3>1
      <3>3. Cardinality(U0 \cup {n}) = Cardinality(U0) + 1
        BY <1>2, <3>2, FS_AddElement
      <3> QED
        BY <3>2, <3>3, FS_Singleton
    <2> QED
      BY <2>1, <2>2
  <1>6. Cardinality(U2) = Cardinality(U1) - Cardinality(O \ K)
    <2>1. CASE O \ K = {}
      <3>1. U2 = U1
        BY <1>4, <2>1
      <3>2. Cardinality(O \ K) = 0
        BY <2>1, FS_EmptySet
      <3> QED
        BY <1>2, <3>1, <3>2
    <2>2. CASE O \ K # {}
      <3>1. PICK o \in V \cup N : O = {o} /\ o \notin K
        BY <2>2
      <3>2. U2 = U1 \ {o} /\ O \ K = {o} /\ o \in U1
        BY <1>4, <3>1
      <3>3. Cardinality(U1 \ {o}) = Cardinality(U1) - 1
        BY <1>2, <3>2, FS_RemoveElement
      <3> QED
        BY <3>2, <3>3, FS_Singleton
    <2> QED
      BY <2>1, <2>2
  <1>7. Cardinality(U0) = Cardinality(before)
    BY <1>4
  <1>8. Cardinality(N \ K) \in Nat /\ Cardinality(O \ K) \in Nat
    BY OffsetsFinite
  <1> QED
    BY <1>2, <1>3, <1>5, <1>6, <1>7, <1>8

\* A segment with fewer than BlocksPerSeg blocks in use has a free one.
LEMMA HoleExists ==
    ASSUME NEW U \in SUBSET Offsets, Cardinality(U) < BlocksPerSeg,
           NEW n \in 0 .. BlocksPerSeg, IsNextFree(n, U, 0)
    PROVE  n \in Offsets /\ n \notin U
  <1>1. BlocksPerSeg \in Nat \ {0}
    BY SegmentManagerAssumption
  <1>2. ASSUME n = BlocksPerSeg PROVE FALSE
    <2>1. Offsets \subseteq U
      BY <1>1, <1>2 DEF IsNextFree, Offsets
    <2>2. U = Offsets
      BY <2>1
    <2> QED
      BY <1>1, <2>2, OffsetsFinite
  <1>3. n \in Offsets
    BY <1>1, <1>2 DEF Offsets
  <1> QED
    BY <1>3 DEF IsNextFree

-----------------------------------------------------------------------------
(* The allocator.                                                          *)

CursegRecord == [segno : Segs, next_blkoff : Offsets, alloc_type : {"LFS", "SSR"}]

LEMMA CursegsType == Cursegs = [Logs -> CursegRecord]
  BY DEF Cursegs, CursegRecord

\* SSR picks a segment that is not open and has room.
LEMMA SSRVictimFacts ==
    ASSUME TypeOK, NEW l \in Logs, NEW secs \in Nat, NEW s \in SSRVictims(l, secs)
    PROVE  s \in Segs /\ s \notin CurSegs(curseg) /\ ckptValidBlocks[s] < BlocksPerSeg
  <1>1. PICK t \in Logs : s \in SSRCandidates(t)
    BY DEF SSRVictims
  <1>2. dirty.ofType[t] \subseteq Segs
    BY DEF TypeOK, Seglist
  <1> QED
    BY <1>1, <1>2 DEF SSRCandidates, SecUsageCheck

\* c is where a log may go on after it used the block new, in view of the maps
\* before that block became valid.
RoomAt(c, new) ==
    /\ c.next_blkoff \notin UsedOffs(c.segno)
    /\ <<c.segno, c.next_blkoff>> # new
    /\ c.alloc_type = "LFS" =>
         \A i \in c.next_blkoff .. (BlocksPerSeg - 1) :
             i \notin UsedOffs(c.segno) /\ <<c.segno, i>> # new

\* The three branches of allocate_data_block() in one: log l moves to c, in its
\* own segment or in one that no log has open, and the seglist is d before the
\* SIT entries of the old and the new block are updated.
AllocEffect(l, old, c, d) ==
    /\ curseg' = [curseg EXCEPT ![l] = c]
    /\ c.segno = curseg[l].segno \/ c.segno \notin CurSegs(curseg)
    /\ RoomAt(c, NextFree(l))
    /\ inuse' = inuse \cup {c.segno}
    /\ segType' \in [Segs -> Types]
    /\ \A s \in Segs \ {c.segno} : segType'[s] = segType[s]
    /\ Steady => d.PRE \subseteq dirty.PRE \ {c.segno}
    /\ RefreshSitEntry(old, NextFree(l), d)

LEMMA AllocateEffect ==
    ASSUME Inv, cp.phase = "idle", NEW l \in Logs, NEW old \in Addrs, AllocateDataBlock(l, old)
    PROVE  \E c \in CursegRecord, d \in Seglist : AllocEffect(l, old, c, d)
  <1> DEFINE c0 == curseg[l]
             new == NextFree(l)
  <1>1. PICK n \in 1 .. BlocksPerSeg, secs \in 0 .. MaxDirtySecs :
          /\ RefreshNextBlkoff(c0, n)
          /\ \/ /\ n < BlocksPerSeg
                /\ curseg' = [curseg EXCEPT ![l].next_blkoff = n]
                /\ UNCHANGED <<inuse, segType>>
                /\ RefreshSitEntry(old, new, dirty)
             \/ /\ n = BlocksPerSeg
                /\ \E s \in Segs : NewCurseg(l, s)
                /\ RefreshSitEntry(old, new, dirty)
             \/ /\ n = BlocksPerSeg
                /\ \E s \in SSRVictims(l, secs) :
                     /\ ChangeCurseg(l, s)
                     /\ RefreshSitEntry(old, new, Removed(dirty, s))
    BY DEF AllocateDataBlock
  <1>2. /\ c0 \in CursegRecord /\ c0.segno \in CurSegs(curseg)
        /\ curseg \in [Logs -> CursegRecord]
        /\ dirty \in Seglist /\ segType \in [Segs -> Types]
        /\ BlocksPerSeg \in Nat \ {0}
        /\ l \in Types
    BY CursegsType, SegmentManagerAssumption DEF Inv, TypeOK, CurSegs
  <1>3. /\ c0.segno \in inuse
        /\ Steady => c0.segno \notin dirty.PRE
        /\ \A s \in Segs \ inuse : /\ UsedOffs(s) = {} /\ s \notin CurSegs(curseg)
                                   /\ Steady => s \notin dirty.PRE
    BY <1>2 DEF Inv, ListInv
  <1>4. CASE /\ n < BlocksPerSeg
             /\ curseg' = [curseg EXCEPT ![l].next_blkoff = n]
             /\ UNCHANGED <<inuse, segType>>
             /\ RefreshSitEntry(old, new, dirty)
    <2> DEFINE c == [c0 EXCEPT !.next_blkoff = n]
    <2>1. /\ c \in CursegRecord
          /\ c.segno = c0.segno /\ c.next_blkoff = n /\ c.alloc_type = c0.alloc_type
      BY <1>2, <1>4 DEF CursegRecord, Offsets
    <2>2. curseg' = [curseg EXCEPT ![l] = c]
      BY <1>2, <1>4
    <2>3. RoomAt(c, new)
      <3>1. new = <<c0.segno, c0.next_blkoff>> /\ c0.next_blkoff \in Offsets
        BY <1>2 DEF NextFree, CursegRecord
      <3>2. CASE c0.alloc_type = "LFS"
        <4>1. n = c0.next_blkoff + 1
          BY <1>1, <3>2 DEF RefreshNextBlkoff
        <4>2. \A i \in c0.next_blkoff .. (BlocksPerSeg - 1) : i \notin UsedOffs(c0.segno)
          BY <3>2 DEF Inv, LogsInv
        <4> HIDE DEF c, c0, new
        <4>3. \A i \in n .. (BlocksPerSeg - 1) : i \notin UsedOffs(c0.segno) /\ <<c0.segno, i>> # new
          BY <1>2, <1>4, <3>1, <4>1, <4>2 DEF Offsets
        <4>4. n \in n .. (BlocksPerSeg - 1)
          BY <1>2, <1>4
        <4> QED
          BY <2>1, <4>3, <4>4 DEF RoomAt
      <3>3. CASE c0.alloc_type # "LFS"
        <4>1. IsNextFree(n, UsedOffs(c0.segno), c0.next_blkoff + 1)
          BY <1>1, <3>3 DEF RefreshNextBlkoff
        <4>2. n \notin UsedOffs(c0.segno) /\ n # c0.next_blkoff
          BY <3>1, <4>1 DEF IsNextFree, Offsets
        <4> QED
          BY <2>1, <3>1, <3>3, <4>2 DEF RoomAt
      <3> QED
        BY <3>2, <3>3
    <2>4. /\ inuse' = inuse \cup {c.segno}
          /\ Steady => dirty.PRE \subseteq dirty.PRE \ {c.segno}
      BY <1>3, <1>4, <2>1
    <2> HIDE DEF c
    <2> QED
      BY <1>2, <1>4, <2>1, <2>2, <2>3, <2>4 DEF AllocEffect
  <1>5. CASE /\ \E s \in Segs : NewCurseg(l, s)
             /\ RefreshSitEntry(old, new, dirty)
    <2>1. PICK s \in Segs : NewCurseg(l, s)
      BY <1>5
    <2> DEFINE c == [segno |-> s, next_blkoff |-> 0, alloc_type |-> "LFS"]
    <2>2. c \in CursegRecord
      BY <1>2 DEF CursegRecord, Offsets
    <2>3. s \in Segs \ inuse
      BY <2>1 DEF NewCurseg, FreeSegs
    <2>4. RoomAt(c, new)
      BY <1>3, <2>3 DEF RoomAt, NextFree
    <2>5. /\ curseg' = [curseg EXCEPT ![l] = c]
          /\ inuse' = inuse \cup {c.segno}
          /\ segType' \in [Segs -> Types]
          /\ \A r \in Segs \ {c.segno} : segType'[r] = segType[r]
      BY <1>2, <2>1 DEF NewCurseg
    <2>6. c.segno \notin CurSegs(curseg) /\ c.segno # curseg[l].segno
      BY <1>2, <1>3, <2>3
    <2>7. Steady => dirty.PRE \subseteq dirty.PRE \ {c.segno}
      BY <1>3, <2>3
    <2> HIDE DEF c
    <2> QED
      BY <1>2, <1>5, <2>2, <2>4, <2>5, <2>6, <2>7 DEF AllocEffect
  <1>6. CASE \E s \in SSRVictims(l, secs) :
               /\ ChangeCurseg(l, s)
               /\ RefreshSitEntry(old, new, Removed(dirty, s))
    <2>1. PICK s \in SSRVictims(l, secs) :
               /\ ChangeCurseg(l, s)
               /\ RefreshSitEntry(old, new, Removed(dirty, s))
      BY <1>6
    <2>2. s \in Segs /\ s \notin CurSegs(curseg) /\ ckptValidBlocks[s] < BlocksPerSeg
      <3>1. secs \in Nat
        BY SegmentManagerAssumption
      <3> QED
        BY <3>1, SSRVictimFacts DEF Inv
    <2>3. PICK n2 \in 0 .. BlocksPerSeg :
            /\ IsNextFree(n2, UsedOffs(s), 0)
            /\ curseg' = [curseg EXCEPT ![l] = [segno |-> s, next_blkoff |-> n2, alloc_type |-> "SSR"]]
      BY <2>1 DEF ChangeCurseg
    <2>4. UsedOffs(s) \in SUBSET Offsets /\ Cardinality(UsedOffs(s)) < BlocksPerSeg
      BY <2>2 DEF Inv, TypeOK, SitMaps, UsedOffs, CkptValidBlocksExact
    <2>5. n2 \in Offsets /\ n2 \notin UsedOffs(s)
      BY <2>3, <2>4, HoleExists
    <2> DEFINE c == [segno |-> s, next_blkoff |-> n2, alloc_type |-> "SSR"]
    <2>6. c \in CursegRecord
      BY <2>2, <2>5 DEF CursegRecord
    <2>7. RoomAt(c, new)
      BY <1>2, <2>2, <2>5 DEF RoomAt, NextFree
    <2>8. /\ curseg' = [curseg EXCEPT ![l] = c]
          /\ inuse' = inuse \cup {c.segno}
          /\ segType' \in [Segs -> Types]
          /\ \A r \in Segs \ {c.segno} : segType'[r] = segType[r]
      BY <1>2, <2>1, <2>3 DEF ChangeCurseg
    <2>9. c.segno \notin CurSegs(curseg) /\ c.segno # curseg[l].segno
      BY <1>2, <2>2
    <2>10. /\ Removed(dirty, s) \in Seglist
           /\ Removed(dirty, s).PRE \subseteq dirty.PRE \ {c.segno}
      BY <1>2, <2>2 DEF Removed, Seglist
    <2> HIDE DEF c
    <2> QED
      BY <1>2, <2>1, <2>6, <2>7, <2>8, <2>9, <2>10 DEF AllocEffect
  <1> QED
    BY <1>1, <1>4, <1>5, <1>6

\* locate_dirty_segment() adds only empty segments that are not open to PRE.
LEMMA RelocatedFacts ==
    ASSUME NEW d \in Seglist, NEW S \in SUBSET Segs, dirty' = Relocated(d, S, valid', curseg')
    PROVE  /\ dirty' \in Seglist
           /\ dirty'.PRE = d.PRE \cup {s \in S \ CurSegs(curseg') : valid'[s] = {}}
  BY DEF Relocated, Seglist

\* The next block of a log is free now and in the last flush; if no checkpoint was
\* given up that flush is on the device.
LEMMA NextFreeFacts ==
    ASSUME Inv, cp.phase = "idle", NEW l \in Logs
    PROVE  /\ NextFree(l) \in Blocks
           /\ NextFree(l) # NULL_ADDR
           /\ NextFree(l) = <<curseg[l].segno, curseg[l].next_blkoff>>
           /\ curseg[l].segno \in Segs /\ curseg[l].next_blkoff \in Offsets
           /\ NextFree(l) \notin BlocksOf(valid)
           /\ NextFree(l) \notin BlocksOf(ckptValid)
           /\ Steady => durable.sit = ckptValid
  <1>1. curseg[l] \in CursegRecord
    BY CursegsType DEF Inv, TypeOK
  <1>2. /\ NextFree(l) = <<curseg[l].segno, curseg[l].next_blkoff>>
        /\ curseg[l].segno \in Segs /\ curseg[l].next_blkoff \in Offsets
    BY <1>1 DEF NextFree, CursegRecord
  <1>3. Steady => durable.sit = ckptValid
    BY DEF Inv, CkptInv
  <1>4. NextFree(l) \in Blocks /\ NextFree(l) # NULL_ADDR
    BY <1>2, SegmentManagerAssumption DEF Blocks
  <1>5. NextFree(l) \notin BlocksOf(valid) /\ NextFree(l) \notin BlocksOf(ckptValid)
    BY <1>2 DEF Inv, LogsInv, UsedOffs, BlocksOf
  <1> QED
    BY <1>2, <1>3, <1>4, <1>5

\* What the block that allocate_data_block() replaces may be.
Replaceable(old, l) == old = NULL_ADDR \/ old \in BlocksOf(valid) \/ old = NextFree(l)

\* The maps after a block was allocated: the new block is valid, the old one is not.
LEMMA RefreshFacts ==
    ASSUME Inv, cp.phase = "idle", NEW l \in Logs, NEW old \in Addrs, Replaceable(old, l),
           valid' = [s \in Segs |-> (valid[s] \cup OffsIn({NextFree(l)}, s)) \ OffsIn({old}, s)]
    PROVE  /\ valid' \in SitMaps
           /\ \A s \in Segs : valid'[s] \subseteq valid[s] \cup OffsIn({NextFree(l)}, s)
           /\ \A s \in Segs : s # NextFree(l)[1] => valid'[s] \subseteq valid[s]
           /\ \A s \in Segs \ SegsOf({old, NextFree(l)}) : valid'[s] = valid[s]
           /\ BlocksOf(valid') = (BlocksOf(valid) \cup {NextFree(l)}) \ {old}
           /\ SegsOf({old, NextFree(l)}) \subseteq inuse
           /\ SegsOf({old, NextFree(l)}) \subseteq Segs
  <1> DEFINE new == NextFree(l)
  <1>1. /\ new \in Blocks /\ new # NULL_ADDR
        /\ new = <<curseg[l].segno, curseg[l].next_blkoff>>
        /\ new[1] \in Segs /\ new[2] \in Offsets
        /\ new[1] = curseg[l].segno
    BY NextFreeFacts
  <1>2. valid \in SitMaps
    BY DEF Inv, TypeOK
  <1>3. new[1] \in inuse /\ inuse \subseteq Segs
    BY <1>1 DEF Inv, ListInv, CurSegs, TypeOK
  <1>4. ASSUME old # NULL_ADDR
        PROVE  old \in Blocks /\ old = <<old[1], old[2]>> /\ old[1] \in inuse
    <2>1. old \in Blocks
      BY <1>4 DEF Addrs
    <2>2. old \in BlocksOf(valid) => old[1] \in inuse
      BY <2>1 DEF Inv, ListInv, BlocksOf, UsedOffs, Blocks
    <2> QED
      BY <1>3, <1>4, <2>1, <2>2 DEF Replaceable, Blocks
  <1> HIDE DEF new
  <1>5. valid' = [s \in Segs |-> (valid[s] \cup OffsIn({new}, s)) \ OffsIn({old}, s)]
    BY DEF new
  <1>6. valid' \in SitMaps /\ \A s \in Segs : valid'[s] \subseteq valid[s] \cup OffsIn({new}, s)
    BY <1>2, <1>5 DEF SitMaps, OffsIn
  <1>7. ASSUME NEW s \in Segs
        PROVE  /\ s # new[1] => OffsIn({new}, s) = {}
               /\ s \notin SegsOf({old}) => OffsIn({old}, s) = {}
    <2>1. s # new[1] => OffsIn({new}, s) = {}
      BY <1>1 DEF OffsIn
    <2>2. CASE old = NULL_ADDR
      BY <2>2, <1>7, SegmentManagerAssumption DEF OffsIn, Blocks
    <2>3. CASE old # NULL_ADDR
      BY <2>3, <1>4 DEF OffsIn, SegsOf
    <2> QED
      BY <2>1, <2>2, <2>3
  <1>8. SegsOf({old, new}) \subseteq inuse /\ SegsOf({old}) \subseteq SegsOf({old, new})
        /\ new[1] \in SegsOf({old, new})
    BY <1>1, <1>3, <1>4 DEF SegsOf
  <1>9. \A s \in Segs \ SegsOf({old, new}) : valid'[s] = valid[s]
    BY <1>2, <1>5, <1>7, <1>8 DEF SitMaps
  <1>10. BlocksOf(valid') = (BlocksOf(valid) \cup {new}) \ {old}
    <2>1. ASSUME NEW s \in Segs, NEW i \in Offsets
          PROVE  i \in valid'[s] <=> (i \in valid[s] \/ <<s, i>> = new) /\ <<s, i>> # old
      BY <1>2, <1>5 DEF OffsIn, SitMaps
    <2>2. ASSUME NEW b \in Blocks
          PROVE  b \in BlocksOf(valid') <=> (b \in BlocksOf(valid) \/ b = new) /\ b # old
      <3>1. PICK s \in Segs, i \in Offsets : b = <<s, i>>
        BY DEF Blocks
      <3> QED
        BY <2>1, <3>1 DEF BlocksOf
    <2> QED
      BY <1>1, <2>2 DEF BlocksOf
  <1>11. \A s \in Segs : s # new[1] => valid'[s] \subseteq valid[s]
    BY <1>6, <1>7
  <1> QED
    BY <1>3, <1>6, <1>8, <1>9, <1>10, <1>11 DEF new

AllocTyped ==
    /\ valid \in SitMaps /\ ckptValid \in SitMaps
    /\ ckptValidBlocks \in [Segs -> Int]
    /\ segType \in [Segs -> Types]
    /\ dirtySentries \subseteq Segs
    /\ inuse \subseteq Segs
    /\ dirty \in Seglist
    /\ curseg \in Cursegs
    /\ destroyed \subseteq Blocks

\* Allocation between two checkpoints keeps everything but SitMatchesAddresses,
\* which waits for the new address.
LEMMA AllocInv ==
    ASSUME Inv, cp.phase = "idle", NEW l \in Logs, NEW old \in Addrs, Replaceable(old, l),
           AllocateDataBlock(l, old), UNCHANGED <<cpVars, cpError>>
    PROVE  /\ AllocTyped' /\ ListInv' /\ CkptInv'
           /\ LogsInv' /\ CkptValidBlocksExact'
           /\ BlocksOf(valid') = (BlocksOf(valid) \cup {NextFree(l)}) \ {old}
           /\ \A k \in Logs \ {l} : NextFree(k)' = NextFree(k)
  <1> DEFINE new == NextFree(l)
  <1>1. PICK c \in CursegRecord, d \in Seglist : AllocEffect(l, old, c, d)
    BY AllocateEffect
  <1>2. /\ dirtySentries' = dirtySentries \cup SegsOf({old, new}) \cup {curseg'[l].segno}
        /\ destroyed' = destroyed \cup ({new} \cap BlocksOf(durable.sit))
        /\ ckptValid' = ckptValid
        /\ staged' = staged /\ durable' = durable /\ cp' = cp /\ discards' = discards
        /\ cpError' = cpError /\ (Steady' <=> Steady)
    BY DEF AllocateDataBlock, cpVars, Steady
  <1>3. /\ new \in Blocks /\ new # NULL_ADDR
        /\ new = <<curseg[l].segno, curseg[l].next_blkoff>>
        /\ curseg[l].segno \in Segs /\ curseg[l].next_blkoff \in Offsets
        /\ new \notin BlocksOf(valid) /\ new \notin BlocksOf(ckptValid)
        /\ Steady => durable.sit = ckptValid
    BY NextFreeFacts
  <1>4. /\ valid' = [s \in Segs |-> (valid[s] \cup OffsIn({new}, s)) \ OffsIn({old}, s)]
        /\ ckptValidBlocks' =
             [s \in Segs |-> ckptValidBlocks[s]
                               + Cardinality(OffsIn({new}, s) \ ckptValid[s])
                               - Cardinality(OffsIn({old}, s) \ ckptValid[s])]
        /\ dirty' = Relocated(d, SegsOf({old, new}), valid', curseg')
    BY <1>1 DEF AllocEffect, RefreshSitEntry
  <1>5. /\ valid' \in SitMaps
        /\ \A s \in Segs : s # new[1] => valid'[s] \subseteq valid[s]
        /\ \A s \in Segs : valid'[s] \subseteq valid[s] \cup OffsIn({new}, s)
        /\ \A s \in Segs \ SegsOf({old, new}) : valid'[s] = valid[s]
        /\ BlocksOf(valid') = (BlocksOf(valid) \cup {new}) \ {old}
        /\ SegsOf({old, new}) \subseteq inuse /\ SegsOf({old, new}) \subseteq Segs
    BY <1>4, RefreshFacts
  <1>6. /\ curseg \in [Logs -> CursegRecord] /\ curseg' \in [Logs -> CursegRecord]
        /\ curseg'[l] = c
        /\ \A k \in Logs \ {l} : curseg'[k] = curseg[k]
        /\ c.segno \in Segs /\ c.next_blkoff \in Offsets
        /\ c.segno = curseg[l].segno \/ c.segno \notin CurSegs(curseg)
    BY <1>1, CursegsType DEF Inv, TypeOK, AllocEffect, CursegRecord
  <1>7. /\ CurSegs(curseg') \subseteq CurSegs(curseg) \cup {c.segno}
        /\ CurSegs(curseg') \subseteq Segs
    BY <1>6 DEF CurSegs, CursegRecord
  <1>8. /\ dirty' \in Seglist
        /\ dirty'.PRE = d.PRE \cup {s \in SegsOf({old, new}) \ CurSegs(curseg') : valid'[s] = {}}
        /\ Steady => d.PRE \subseteq dirty.PRE \ {c.segno}
    <2> DEFINE S == SegsOf({old, new})
    <2>1. S \in SUBSET Segs
      BY <1>5
    <2> HIDE DEF S
    <2>2. dirty' = Relocated(d, S, valid', curseg')
      BY <1>4 DEF S
    <2>3. /\ dirty' \in Seglist
          /\ dirty'.PRE = d.PRE \cup {s \in S \ CurSegs(curseg') : valid'[s] = {}}
      BY <2>1, <2>2, RelocatedFacts
    <2>4. Steady => d.PRE \subseteq dirty.PRE \ {c.segno}
      BY <1>1 DEF AllocEffect
    <2> QED
      BY <2>3, <2>4 DEF S
  <1>9. destroyed' \subseteq Blocks /\ (~IOErrors => destroyed' = {})
    <2>1. destroyed \subseteq Blocks /\ (~IOErrors => destroyed = {} /\ Steady)
      BY DEF Inv, TypeOK, CkptInv, PhaseInv, Steady
    <2> QED
      BY <1>2, <1>3, <2>1
  <1>10. inuse' = inuse \cup {c.segno} /\ inuse \subseteq Segs /\ dirty \in Seglist
    BY <1>1 DEF AllocEffect, Inv, TypeOK
  <1> HIDE DEF new
  <1>11. AllocTyped'
    <2>1. ckptValidBlocks' \in [Segs -> Int]
      <3>1. ASSUME NEW s \in Segs
            PROVE  ckptValidBlocks[s] + Cardinality(OffsIn({new}, s) \ ckptValid[s])
                     - Cardinality(OffsIn({old}, s) \ ckptValid[s]) \in Int
        <4>1. /\ Cardinality(OffsIn({new}, s) \ ckptValid[s]) \in Nat
              /\ Cardinality(OffsIn({old}, s) \ ckptValid[s]) \in Nat
          BY OffsetsFinite DEF OffsIn
        <4>2. ckptValidBlocks[s] \in Int
          BY DEF Inv, TypeOK
        <4> QED
          BY <4>1, <4>2
      <3> QED
        BY <1>4, <3>1
    <2>2. segType' \in [Segs -> Types]
      BY <1>1 DEF AllocEffect
    <2>3. dirtySentries' \subseteq Segs
      BY <1>2, <1>5, <1>6 DEF Inv, TypeOK
    <2>4. ckptValid' \in SitMaps /\ curseg' \in Cursegs /\ inuse' \subseteq Segs
      BY <1>2, <1>6, <1>10, CursegsType DEF Inv, TypeOK
    <2> QED
      BY <1>5, <1>8, <1>9, <2>1, <2>2, <2>3, <2>4 DEF AllocTyped
  <1>12. ListInv'
    <2>1. new[1] = curseg[l].segno /\ new[1] \in CurSegs(curseg) /\ new[1] \in inuse
      BY <1>3 DEF CurSegs, Inv, ListInv
    <2>2. ASSUME NEW s \in Segs \ inuse' PROVE UsedOffs(s)' = {}
      <3>1. s \notin inuse /\ s # new[1]
        BY <1>10, <2>1
      <3>2. valid[s] = {} /\ ckptValid[s] = {}
        BY <3>1 DEF Inv, ListInv, UsedOffs
      <3> QED
        BY <1>2, <1>5, <3>1, <3>2 DEF UsedOffs
    <2>3. ASSUME Steady, NEW s \in dirty'.PRE
          PROVE  valid'[s] = {} /\ s \notin CurSegs(curseg') /\ s \in inuse'
      <3>1. CASE s \in d.PRE
        <4>1. s \in dirty.PRE /\ s # c.segno /\ s \in Segs
          BY <1>8, <1>10, <2>3, <3>1 DEF Seglist
        <4>2. valid[s] = {} /\ s \notin CurSegs(curseg) /\ s \in inuse
          BY <2>3, <4>1 DEF Inv, ListInv
        <4> QED
          BY <1>5, <1>7, <1>10, <2>1, <4>1, <4>2
      <3>2. CASE s \notin d.PRE
        BY <1>5, <1>8, <1>10, <3>2
      <3> QED
        BY <3>1, <3>2
    <2>4. CurSegs(curseg') \subseteq inuse'
      BY <1>7, <1>10 DEF Inv, ListInv
    <2>5. CurSegs(curseg)' = CurSegs(curseg')
      BY DEF CurSegs
    <2> QED
      BY <1>2, <2>2, <2>3, <2>4, <2>5 DEF ListInv
  <1>13. CkptInv'
    <2>1. ASSUME Steady PROVE DirtySentriesComplete'
      <3>1. ASSUME NEW s \in Segs \ dirtySentries'
            PROVE  valid'[s] = staged'.sit[s] /\ segType'[s] = staged'.types[s]
        <4>1. s \notin dirtySentries /\ s \notin SegsOf({old, new}) /\ s # c.segno
          BY <1>2, <1>6
        <4>2. valid'[s] = valid[s] /\ segType'[s] = segType[s]
          BY <1>1, <1>5, <4>1 DEF AllocEffect
        <4>3. DirtySentriesComplete
          BY <2>1 DEF Inv, CkptInv
        <4> QED
          BY <1>2, <4>1, <4>2, <4>3 DEF DirtySentriesComplete
      <3> QED
        BY <3>1 DEF DirtySentriesComplete
    <2>2. Steady => /\ staged.sit = ckptValid /\ staged = durable /\ discards = {}
      BY DEF Inv, CkptInv
    <2>3. cp'.phase = "idle"
      BY <1>2
    <2> QED
      BY <1>2, <1>9, <2>1, <2>2, <2>3 DEF CkptInv
  <1>14. LogsInv'
    <2>1. RoomAt(c, new)
      BY <1>1 DEF AllocEffect, new
    <2>2. ASSUME NEW s \in Segs, NEW i \in Offsets, i \notin UsedOffs(s), <<s, i>> # new
          PROVE  i \notin valid'[s] /\ i \notin ckptValid'[s]
      BY <1>2, <1>5, <2>2 DEF UsedOffs, OffsIn
    <2>3. ASSUME NEW k \in Logs
          PROVE  curseg'[k].next_blkoff \notin valid'[curseg'[k].segno] \cup ckptValid'[curseg'[k].segno]
      <3>1. CASE k = l
        BY <1>6, <2>1, <2>2, <3>1 DEF RoomAt
      <3>2. CASE k # l
        <4>1. curseg'[k] = curseg[k] /\ curseg[k].segno \in Segs /\ curseg[k].next_blkoff \in Offsets
          BY <1>6, <3>2 DEF CursegRecord
        <4>2. curseg[k].next_blkoff \notin UsedOffs(curseg[k].segno) /\ curseg[k].segno # new[1]
          BY <1>3, <3>2 DEF Inv, LogsInv
        <4> QED
          BY <2>2, <4>1, <4>2
      <3> QED
        BY <3>1, <3>2
    <2>4. ASSUME NEW k \in Logs, curseg'[k].alloc_type = "LFS",
                 NEW i \in curseg'[k].next_blkoff .. (BlocksPerSeg - 1)
          PROVE  i \notin valid'[curseg'[k].segno] \cup ckptValid'[curseg'[k].segno]
      <3>1. curseg'[k].segno \in Segs /\ curseg'[k].next_blkoff \in Offsets
        BY <1>6 DEF CursegRecord
      <3>2. i \in Offsets
        BY <3>1, SegmentManagerAssumption DEF Offsets
      <3>3. CASE k = l
        BY <1>6, <2>1, <2>2, <2>4, <3>2, <3>3 DEF RoomAt
      <3>4. CASE k # l
        <4>1. i \notin UsedOffs(curseg[k].segno)
          BY <1>6, <2>4, <3>4 DEF Inv, LogsInv
        <4>2. curseg[k].segno # new[1]
          BY <1>3, <3>4 DEF Inv, LogsInv
        <4> QED
          BY <1>6, <2>2, <3>1, <3>2, <3>4, <4>1, <4>2
      <3> QED
        BY <3>3, <3>4
    <2>5. ASSUME NEW k \in Logs, NEW m \in Logs, curseg'[k].segno = curseg'[m].segno
          PROVE  k = m
      <3>1. \A p, q \in Logs : curseg[p].segno = curseg[q].segno => p = q
        BY DEF Inv, LogsInv
      <3> QED
        BY <1>6, <2>5, <3>1 DEF CurSegs
    <2>6. /\ \A s : UsedOffs(s)' = valid'[s] \cup ckptValid'[s]
          /\ Steady => durable'.sit = ckptValid'
      BY <1>2, <1>3 DEF UsedOffs
    <2>7. Steady' => CursegsWritable'
      <3>1. ASSUME Steady, NEW k \in Logs
            PROVE  NextFree(k)' \notin BlocksOf(durable.sit)' \cup BlocksOf(valid)'
        <4>1. NextFree(k)' = <<curseg'[k].segno, curseg'[k].next_blkoff>>
          BY DEF NextFree
        <4> QED
          BY <2>3, <2>6, <3>1, <4>1 DEF BlocksOf
      <3> QED
        BY <1>2, <2>4, <2>5, <2>6, <3>1 DEF CursegsWritable
    <2> QED
      BY <2>3, <2>4, <2>5, <2>6, <2>7 DEF LogsInv
  <1>15. CkptValidBlocksExact'
    <2>1. ASSUME NEW s \in Segs
          PROVE  ckptValidBlocks'[s] = Cardinality(UsedOffs(s)')
      <3> DEFINE N == OffsIn({new}, s)
                 O == OffsIn({old}, s)
                 V == valid[s]
                 K == ckptValid[s]
      <3>1. /\ N \in SUBSET Offsets /\ O \in SUBSET Offsets
            /\ V \in SUBSET Offsets /\ K \in SUBSET Offsets
        BY DEF Inv, TypeOK, SitMaps, OffsIn
      <3>2. N = {} \/ \E n \in Offsets : N = {n} /\ n \notin V \cup K
        <4>1. CASE s = new[1]
          <5>1. N = {new[2]} /\ new[2] \in Offsets
            BY <1>3, <4>1 DEF OffsIn
          <5>2. new[2] \notin V \cup K
            BY <1>3, <4>1 DEF BlocksOf
          <5> QED
            BY <5>1, <5>2
        <4>2. CASE s # new[1]
          BY <1>3, <4>2 DEF OffsIn
        <4> QED
          BY <4>1, <4>2
      <3>3. O = {} \/ \E o \in V \cup N : O = {o}
        <4>1. CASE old \in Blocks /\ old[1] = s
          <5>1. O = {old[2]} /\ old[2] \in Offsets
            BY <4>1 DEF Blocks, OffsIn
          <5>2. old = NULL_ADDR \/ old \in BlocksOf(valid) \/ old = new
            BY DEF Replaceable, new
          <5>3. old[2] \in V \cup N
            BY <4>1, <5>1, <5>2, SegmentManagerAssumption DEF BlocksOf, OffsIn, Blocks
          <5> QED
            BY <5>1, <5>3
        <4>2. CASE old \notin Blocks
          <5>1. old = NULL_ADDR
            BY <4>2 DEF Addrs
          <5> QED
            BY <5>1, SegmentManagerAssumption DEF OffsIn, Blocks
        <4>3. CASE old \in Blocks /\ old[1] # s
          BY <4>3 DEF OffsIn, Blocks
        <4> QED
          BY <4>1, <4>2, <4>3
      <3>4. /\ UsedOffs(s)' = ((V \cup N) \ O) \cup K
            /\ UsedOffs(s) = V \cup K
            /\ ckptValidBlocks'[s] = ckptValidBlocks[s] + Cardinality(N \ K) - Cardinality(O \ K)
        BY <1>2, <1>4 DEF UsedOffs
      <3>5. ckptValidBlocks[s] = Cardinality(UsedOffs(s))
        BY DEF Inv, CkptValidBlocksExact
      <3> HIDE DEF N, O, V, K
      <3>6. OneInOneOut(V, K, N, O, UsedOffs(s), UsedOffs(s)')
        BY <3>1, <3>2, <3>3, <3>4 DEF OneInOneOut
      <3>7. Cardinality(UsedOffs(s)')
              = Cardinality(UsedOffs(s)) + Cardinality(N \ K) - Cardinality(O \ K)
        BY <3>6, CountAfterRefresh
      <3> QED
        BY <3>4, <3>5, <3>7
    <2>2. \A s \in Segs : ckptValidBlocks'[s] = Cardinality(UsedOffs(s)')
      BY <2>1
    <2> QED
      BY <2>2 DEF CkptValidBlocksExact
  <1>16. \A k \in Logs \ {l} : NextFree(k)' = NextFree(k)
    BY <1>6 DEF NextFree
  <1> QED
    BY <1>5, <1>11, <1>12, <1>13, <1>14, <1>15, <1>16 DEF new

-----------------------------------------------------------------------------
(* Every step preserves Inv.                                               *)

GcTyped == gc \in [pc : {"idle", "sync", "select", "move", "final"},
                   segno : Segs \cup {NULL_SEGNO}, fg : BOOLEAN]

\* How a step of f2fs_gc() other than the choice of a victim goes on.
LEMMA GcGoesOn ==
    ASSUME GcTyped,
           \/ gc' = gc
           \/ gc' = [gc EXCEPT !.pc = "select"]
           \/ gc' = Idle
           \/ \E pc \in {"sync", "select", "final"} : \E b \in BOOLEAN :
                 gc' = [pc |-> pc, segno |-> NULL_SEGNO, fg |-> b]
    PROVE  GcTyped'
  <1>1. CASE gc' = gc
    BY <1>1 DEF GcTyped
  <1>2. CASE gc' = [gc EXCEPT !.pc = "select"]
    BY <1>2 DEF GcTyped
  <1>3. CASE gc' = Idle
    BY <1>3 DEF GcTyped, Idle
  <1>4. ASSUME NEW pc \in {"sync", "select", "final"}, NEW b \in BOOLEAN,
               gc' = [pc |-> pc, segno |-> NULL_SEGNO, fg |-> b]
        PROVE  GcTyped'
    BY <1>4 DEF GcTyped
  <1> QED
    BY <1>1, <1>2, <1>3, <1>4

\* Steps that touch no map, no address and no checkpoint.
LEMMA QuietStep ==
    ASSUME Inv, UNCHANGED <<allocVars, addr, cpVars, cpError, destroyed>>,
           admitted' \subseteq DataPages, rewriting' \in [Logs -> Addrs], GcTyped', PhaseInv'
    PROVE  Inv'
  <1>1. UNCHANGED <<valid, ckptValid, ckptValidBlocks, segType, dirtySentries, inuse, dirty,
                    curseg, addr, cp, staged, discards, durable, cpError, destroyed>>
    BY DEF allocVars, sitVars, cpVars
  <1>2. TypeOK'
    BY <1>1 DEF Inv, TypeOK, GcTyped
  <1>3. CkptInv' /\ ListInv'
    BY <1>1 DEF Inv, CkptInv, ListInv, DirtySentriesComplete, UsedOffs, CurSegs, BlocksOf, Steady
  <1>4. LogsInv' /\ DurableCursegsWritable'
    <2>1. LogsInv /\ DurableCursegsWritable
      BY DEF Inv
    <2>2. LogsInv'
      BY <1>1, <2>1 DEF LogsInv, CursegsWritable, NextFree, UsedOffs, BlocksOf, Steady
    <2>3. DurableCursegsWritable'
      BY <1>1, <2>1 DEF DurableCursegsWritable
    <2> QED
      BY <2>2, <2>3
  <1>5. CkptValidBlocksExact'
    BY <1>1 DEF Inv, CkptValidBlocksExact, UsedOffs
  <1>6. SitMatchesAddresses' /\ CheckpointConsistent'
    BY <1>1 DEF Inv, SitMatchesAddresses, CheckpointConsistent, HoldsPages, BlocksOf
  <1> QED
    BY <1>2, <1>3, <1>4, <1>5, <1>6 DEF Inv

\* A page moves from the block old, or from none, to a block that was not valid.
LEMMA PageMoves ==
    ASSUME NEW a \in [Pages -> Addrs], NEW o \in Pages, NEW new \in Blocks, new # NULL_ADDR,
           NEW sit, NEW sit2, HoldsPages(sit, a), new \notin BlocksOf(sit),
           BlocksOf(sit2) = (BlocksOf(sit) \cup {new}) \ {a[o]}
    PROVE  HoldsPages(sit2, [a EXCEPT ![o] = new])
  <1> DEFINE a2 == [a EXCEPT ![o] = new]
  <1>1. a2[o] = new /\ \A q \in Pages \ {o} : a2[q] = a[q]
    OBVIOUS
  <1>2. new # a[o]
    BY DEF HoldsPages
  <1> HIDE DEF a2
  <1>3. ASSUME NEW q \in Pages, a2[q] # NULL_ADDR PROVE a2[q] \in BlocksOf(sit2)
    BY <1>1, <1>2, <1>3 DEF HoldsPages
  <1>4. ASSUME NEW b \in BlocksOf(sit2) PROVE \E q \in Pages : a2[q] = b
    BY <1>1, <1>4 DEF HoldsPages
  <1>5. ASSUME NEW p \in Pages, NEW q \in Pages, a2[p] = a2[q], a2[p] # NULL_ADDR PROVE p = q
    BY <1>1, <1>5 DEF HoldsPages
  <1>6. HoldsPages(sit2, a2)
    BY <1>3, <1>4, <1>5 DEF HoldsPages
  <1> QED
    BY <1>6 DEF a2

LEMMA WrittenPage ==
    ASSUME Inv, OneAtATime, cp.phase = "idle", NEW o \in Pages, NEW l \in Logs, DoWritePage(o, l),
           UNCHANGED <<gc, cpVars, cpError>>, admitted' \subseteq DataPages
    PROVE  Inv'
  <1>1. /\ AllocateDataBlock(l, addr[o])
        /\ addr' = [addr EXCEPT ![o] = NextFree(l)]
        /\ rewriting' = rewriting /\ rewriting[l] = NULL_ADDR
    BY DEF DoWritePage, LogFree, OneAtATime
  <1>2. addr[o] \in Addrs /\ addr \in [Pages -> Addrs]
    BY DEF Inv, TypeOK
  <1>3. Replaceable(addr[o], l)
    BY DEF Inv, SitMatchesAddresses, HoldsPages, Replaceable
  <1>4. /\ AllocTyped' /\ ListInv' /\ CkptInv'
        /\ LogsInv' /\ CkptValidBlocksExact'
        /\ BlocksOf(valid') = (BlocksOf(valid) \cup {NextFree(l)}) \ {addr[o]}
        /\ \A k \in Logs \ {l} : NextFree(k)' = NextFree(k)
    BY <1>1, <1>2, <1>3, AllocInv
  <1>5. /\ NextFree(l) \in Blocks /\ NextFree(l) # NULL_ADDR
        /\ NextFree(l) \notin BlocksOf(valid)
    BY NextFreeFacts
  <1>6. TypeOK'
    BY <1>1, <1>2, <1>4, <1>5 DEF Inv, TypeOK, AllocTyped, cpVars, Addrs
  <1>7. PhaseInv'
    BY <1>1, <1>4 DEF Inv, PhaseInv, cpVars
  <1>8. SitMatchesAddresses'
    <2>1. HoldsPages(valid, addr)
      BY DEF Inv, SitMatchesAddresses
    <2>2. HoldsPages(valid', [addr EXCEPT ![o] = NextFree(l)])
      BY <1>2, <1>4, <1>5, <2>1, PageMoves
    <2> QED
      BY <1>1, <2>2 DEF SitMatchesAddresses, HoldsPages, BlocksOf
  <1>9. CheckpointConsistent' /\ DurableCursegsWritable'
    BY DEF Inv, CheckpointConsistent, DurableCursegsWritable, HoldsPages, BlocksOf, cpVars
  <1> QED
    BY <1>4, <1>6, <1>7, <1>8, <1>9 DEF Inv

LEMMA SubmittedPrevPage ==
    ASSUME Inv, cp.phase = "idle", NEW l \in Logs, SubmitPrevPage(l)
    PROVE  Inv'
  <1>1. /\ AllocateDataBlock(l, rewriting[l]) /\ rewriting[l] # NULL_ADDR
        /\ rewriting' = [rewriting EXCEPT ![l] = NULL_ADDR]
        /\ UNCHANGED <<addr, admitted, gc, cpVars, cpError>>
    BY DEF SubmitPrevPage
  <1>2. rewriting[l] = NextFree(l)
    BY <1>1 DEF Inv, PhaseInv
  <1>3. NextFree(l) \in Addrs /\ Replaceable(NextFree(l), l) /\ NextFree(l) \notin BlocksOf(valid)
    BY NextFreeFacts DEF Addrs, Replaceable
  <1>4. /\ AllocTyped' /\ ListInv' /\ CkptInv'
        /\ LogsInv' /\ CkptValidBlocksExact'
        /\ BlocksOf(valid') = (BlocksOf(valid) \cup {NextFree(l)}) \ {NextFree(l)}
        /\ \A k \in Logs \ {l} : NextFree(k)' = NextFree(k)
    BY <1>1, <1>2, <1>3, AllocInv
  <1>5. BlocksOf(valid') = BlocksOf(valid)
    BY <1>3, <1>4
  <1>6. rewriting \in [Logs -> Addrs]
    BY DEF Inv, TypeOK
  <1>7. TypeOK'
    BY <1>1, <1>4, <1>6 DEF Inv, TypeOK, AllocTyped, cpVars, Addrs
  <1>8. PhaseInv'
    BY <1>1, <1>4, <1>6 DEF Inv, PhaseInv, cpVars
  <1>9. SitMatchesAddresses'
    <2>1. HoldsPages(valid', addr)
      BY <1>5 DEF Inv, SitMatchesAddresses, HoldsPages
    <2> QED
      BY <1>1, <2>1 DEF SitMatchesAddresses, HoldsPages, BlocksOf
  <1>10. CheckpointConsistent' /\ DurableCursegsWritable'
    BY <1>1 DEF Inv, CheckpointConsistent, DurableCursegsWritable, HoldsPages, BlocksOf, cpVars
  <1> QED
    BY <1>4, <1>7, <1>8, <1>9, <1>10 DEF Inv

LEMMA Truncated ==
    ASSUME Inv, cp.phase = "idle", NEW o \in Pages, Truncate(o)
    PROVE  Inv'
  <1> DEFINE s == addr[o][1]
             i == addr[o][2]
  <1>1. /\ addr[o] # NULL_ADDR
        /\ valid' = [valid EXCEPT ![s] = @ \ {i}]
        /\ ckptValidBlocks' = [ckptValidBlocks EXCEPT ![s] = @ - Indicator(i \notin ckptValid[s])]
        /\ dirtySentries' = dirtySentries \cup {s}
        /\ dirty' = Relocated(dirty, {s}, valid', curseg)
        /\ addr' = [addr EXCEPT ![o] = NULL_ADDR]
        /\ UNCHANGED <<ckptValid, segType, inuse, curseg, admitted, rewriting, gc, cpVars,
                       cpError, destroyed>>
    BY DEF Truncate
  <1>2. /\ addr \in [Pages -> Addrs] /\ valid \in SitMaps /\ ckptValid \in SitMaps
        /\ ckptValidBlocks \in [Segs -> Int] /\ dirty \in Seglist /\ inuse \subseteq Segs
        /\ dirtySentries \subseteq Segs
    BY DEF Inv, TypeOK
  <1>3. addr[o] \in Blocks /\ addr[o] = <<s, i>> /\ s \in Segs /\ i \in Offsets /\ i \in valid[s]
    <2>1. addr[o] \in BlocksOf(valid)
      BY <1>1 DEF Inv, SitMatchesAddresses, HoldsPages
    <2> QED
      BY <2>1 DEF BlocksOf, Blocks
  <1> HIDE DEF s, i
  <1>4. /\ valid' \in SitMaps
        /\ valid'[s] = valid[s] \ {i}
        /\ \A r \in Segs \ {s} : valid'[r] = valid[r]
        /\ \A r \in Segs : valid'[r] \subseteq valid[r]
    BY <1>1, <1>2, <1>3 DEF SitMaps
  <1>5. BlocksOf(valid') = BlocksOf(valid) \ {addr[o]}
    <2>1. ASSUME NEW b \in Blocks PROVE b \in BlocksOf(valid') <=> b \in BlocksOf(valid) /\ b # addr[o]
      <3>1. PICK r \in Segs, j \in Offsets : b = <<r, j>>
        BY DEF Blocks
      <3> QED
        BY <1>3, <1>4, <3>1 DEF BlocksOf
    <2> QED
      BY <2>1 DEF BlocksOf
  <1>6. s \in inuse
    BY <1>3 DEF Inv, ListInv, UsedOffs
  <1>7. /\ dirty' \in Seglist
        /\ dirty'.PRE = dirty.PRE \cup {r \in {s} \ CurSegs(curseg') : valid'[r] = {}}
    <2>1. dirty' = Relocated(dirty, {s}, valid', curseg')
      BY <1>1
    <2>2. {s} \in SUBSET Segs
      BY <1>3
    <2> QED
      BY <1>2, <2>1, <2>2, RelocatedFacts
  <1>8. TypeOK'
    <2>1. addr' \in [Pages -> Addrs]
      BY <1>1, <1>2 DEF Addrs
    <2>2. ckptValidBlocks' \in [Segs -> Int]
      <3>1. ckptValidBlocks[s] - Indicator(i \notin ckptValid[s]) \in Int
        BY <1>2, <1>3 DEF Indicator
      <3> QED
        BY <1>1, <1>2, <3>1
    <2>3. dirtySentries' \subseteq Segs
      BY <1>1, <1>2, <1>3
    <2> QED
      BY <1>1, <1>4, <1>7, <2>1, <2>2, <2>3 DEF Inv, TypeOK, cpVars
  <1>9. PhaseInv'
    BY <1>1 DEF Inv, PhaseInv, NextFree, cpVars
  <1>10. CkptInv'
    <2>1. ASSUME Steady PROVE DirtySentriesComplete'
      BY <1>1, <1>3, <1>4, <2>1 DEF Inv, CkptInv, DirtySentriesComplete, cpVars
    <2> QED
      BY <1>1, <2>1 DEF Inv, CkptInv, cpVars, Steady
  <1>11. ListInv'
    <2>1. ASSUME NEW r \in Segs \ inuse PROVE UsedOffs(r)' = {}
      BY <1>1, <1>4 DEF Inv, ListInv, UsedOffs
    <2>2. ASSUME Steady, NEW r \in dirty'.PRE
          PROVE  valid'[r] = {} /\ r \notin CurSegs(curseg) /\ r \in inuse
      <3>1. CASE r \in dirty.PRE
        <4>1. r \in Segs
          BY <1>2, <3>1 DEF Seglist
        <4> QED
          BY <1>4, <2>2, <3>1, <4>1 DEF Inv, ListInv
      <3>2. CASE r \notin dirty.PRE
        BY <1>1, <1>6, <1>7, <3>2
      <3> QED
        BY <3>1, <3>2
    <2>3. inuse' = inuse /\ curseg' = curseg /\ (Steady' <=> Steady)
      BY <1>1 DEF cpVars, Steady
    <2>4. CurSegs(curseg) \subseteq inuse /\ CurSegs(curseg)' = CurSegs(curseg)
      BY <2>3 DEF Inv, ListInv, CurSegs
    <2> QED
      BY <2>1, <2>2, <2>3, <2>4 DEF ListInv
  <1>12. LogsInv' /\ DurableCursegsWritable'
    <2>1. durable' = durable /\ curseg' = curseg /\ ckptValid' = ckptValid /\ (Steady' <=> Steady)
      BY <1>1 DEF cpVars, Steady
    <2>2. ASSUME NEW k \in Logs PROVE curseg[k].segno \in Segs
      BY CursegsType DEF Inv, TypeOK, CursegRecord
    <2>3. Steady => CursegsWritable'
      BY <1>4, <1>5, <2>1, <2>2 DEF Inv, LogsInv, CursegsWritable, NextFree, UsedOffs, BlocksOf
    <2>4. LogsInv'
      BY <1>4, <2>1, <2>2, <2>3 DEF Inv, LogsInv, UsedOffs
    <2> QED
      BY <2>1, <2>4 DEF Inv, DurableCursegsWritable
  <1>13. CkptValidBlocksExact'
    <2>1. ASSUME NEW r \in Segs PROVE ckptValidBlocks'[r] = Cardinality(UsedOffs(r)')
      <3>1. ckptValidBlocks[r] = Cardinality(UsedOffs(r)) /\ ckptValidBlocks[r] \in Int
        BY <1>2 DEF Inv, CkptValidBlocksExact
      <3>2. CASE r # s
        <4>1. UsedOffs(r)' = UsedOffs(r) /\ ckptValidBlocks'[r] = ckptValidBlocks[r]
          BY <1>1, <1>2, <1>4, <3>2 DEF UsedOffs
        <4> QED
          BY <3>1, <4>1
      <3>3. CASE r = s
        <4> DEFINE V == valid[s]
                   K == ckptValid[s]
        <4>1. OneInOneOut(V, K, {}, {i}, UsedOffs(r), UsedOffs(r)')
          BY <1>1, <1>2, <1>3, <1>4, <3>3 DEF OneInOneOut, UsedOffs, SitMaps
        <4>2. ckptValidBlocks'[r] = ckptValidBlocks[r] - Indicator(i \notin K)
          BY <1>1, <1>2, <1>3, <3>3
        <4> HIDE DEF V, K
        <4>3. Cardinality(UsedOffs(r)')
                = Cardinality(UsedOffs(r)) + Cardinality({} \ K) - Cardinality({i} \ K)
          BY <4>1, CountAfterRefresh
        <4>4. Cardinality({} \ K) = 0
          <5>1. {} \ K = {}
            OBVIOUS
          <5> QED
            BY <5>1, FS_EmptySet
        <4>5. Cardinality({i} \ K) = Indicator(i \notin K)
          <5>1. CASE i \in K
            <6>1. {i} \ K = {}
              BY <5>1
            <6> QED
              BY <5>1, <6>1, FS_EmptySet DEF Indicator
          <5>2. CASE i \notin K
            <6>1. {i} \ K = {i}
              BY <5>2
            <6> QED
              BY <5>2, <6>1, FS_Singleton DEF Indicator
          <5> QED
            BY <5>1, <5>2
        <4>6. Indicator(i \notin K) \in Int
          BY DEF Indicator
        <4> QED
          BY <3>1, <4>2, <4>3, <4>4, <4>5, <4>6
      <3> QED
        BY <3>2, <3>3
    <2>2. \A r \in Segs : ckptValidBlocks'[r] = Cardinality(UsedOffs(r)')
      BY <2>1
    <2> QED
      BY <2>2 DEF CkptValidBlocksExact
  <1>14. SitMatchesAddresses'
    <2>1. addr'[o] = NULL_ADDR /\ \A q \in Pages \ {o} : addr'[q] = addr[q]
      BY <1>1, <1>2
    <2>2. HoldsPages(valid, addr)
      BY DEF Inv, SitMatchesAddresses
    <2>3. HoldsPages(valid', addr')
      <3>1. ASSUME NEW q \in Pages, addr'[q] # NULL_ADDR PROVE addr'[q] \in BlocksOf(valid')
        BY <1>1, <1>5, <2>1, <2>2, <3>1 DEF HoldsPages
      <3>2. ASSUME NEW b \in BlocksOf(valid') PROVE \E q \in Pages : addr'[q] = b
        BY <1>5, <2>1, <2>2, <3>2 DEF HoldsPages
      <3>3. ASSUME NEW p \in Pages, NEW q \in Pages, addr'[p] = addr'[q], addr'[p] # NULL_ADDR
            PROVE  p = q
        BY <2>1, <2>2, <3>3 DEF HoldsPages
      <3> QED
        BY <3>1, <3>2, <3>3 DEF HoldsPages
    <2> QED
      BY <2>3 DEF SitMatchesAddresses, HoldsPages, BlocksOf
  <1>15. CheckpointConsistent'
    BY <1>1 DEF Inv, CheckpointConsistent, HoldsPages, BlocksOf, cpVars
  <1> QED
    BY <1>8, <1>9, <1>10, <1>11, <1>12, <1>13, <1>14, <1>15 DEF Inv

\* Choosing a victim changes nothing but the marks of background GC.
LEMMA Selected ==
    ASSUME Inv, GcSelect
    PROVE  Inv'
  <1>1. /\ cp.phase = "idle"
        /\ UNCHANGED <<sitVars, inuse, curseg, addr, admitted, rewriting, cpVars, cpError, destroyed>>
    BY DEF GcSelect, Inv, PhaseInv
  <1>2. dirty' \in Seglist /\ dirty'.PRE = dirty.PRE /\ GcTyped'
    <2> DEFINE fresh == {s \in dirty.DIRTY : ~SecUsageCheck(s) /\ (gc.fg \/ s \notin dirty.victims)}
               from  == IF gc.fg /\ BgVictims # {} THEN BgVictims ELSE fresh
    <2>1. dirty \in Seglist /\ GcTyped
      BY DEF Inv, TypeOK, GcTyped
    <2>2. from \subseteq Segs
      BY <2>1 DEF Seglist, BgVictims
    <2> HIDE DEF from
    <2>3. \/ gc' = Idle /\ dirty' = dirty
          \/ \E s \in from : \E V \in SUBSET Segs :
               /\ gc' = [gc EXCEPT !.pc = "move", !.segno = s]
               /\ dirty' = [dirty EXCEPT !.victims = V]
      <3>1. CASE gc' = Idle /\ UNCHANGED dirty
        BY <3>1
      <3>2. CASE \E s \in from :
                   /\ gc' = [gc EXCEPT !.pc = "move", !.segno = s]
                   /\ dirty' = [dirty EXCEPT !.victims =
                                  IF ~gc.fg THEN @ \cup {s}
                                  ELSE IF BgVictims # {} THEN @ \ {s} ELSE @]
        <4>1. PICK s \in from :
                   /\ gc' = [gc EXCEPT !.pc = "move", !.segno = s]
                   /\ dirty' = [dirty EXCEPT !.victims =
                                  IF ~gc.fg THEN @ \cup {s}
                                  ELSE IF BgVictims # {} THEN @ \ {s} ELSE @]
          BY <3>2
        <4> DEFINE V == IF ~gc.fg THEN dirty.victims \cup {s}
                        ELSE IF BgVictims # {} THEN dirty.victims \ {s} ELSE dirty.victims
        <4>2. V \in SUBSET Segs
          BY <2>1, <2>2 DEF Seglist
        <4>3. dirty' = [dirty EXCEPT !.victims = V]
          BY <4>1
        <4> QED
          BY <4>1, <4>2, <4>3
      <3> QED
        BY <3>1, <3>2 DEF GcSelect, from
    <2>4. CASE gc' = Idle /\ dirty' = dirty
      BY <2>1, <2>4 DEF Idle, GcTyped
    <2>5. CASE \E s \in from : \E V \in SUBSET Segs :
                 /\ gc' = [gc EXCEPT !.pc = "move", !.segno = s]
                 /\ dirty' = [dirty EXCEPT !.victims = V]
      BY <2>1, <2>2, <2>5 DEF Seglist, GcTyped
    <2> QED
      BY <2>3, <2>4, <2>5
  <1>3. UNCHANGED <<valid, ckptValid, ckptValidBlocks, segType, dirtySentries, inuse,
                    curseg, addr, admitted, rewriting, cp, staged, discards, durable, cpError, destroyed>>
    BY <1>1 DEF sitVars, cpVars
  <1>4. TypeOK'
    BY <1>2, <1>3 DEF Inv, TypeOK, GcTyped
  <1>5. PhaseInv'
    BY <1>1, <1>3 DEF Inv, PhaseInv, NextFree
  <1>6. CkptInv' /\ ListInv'
    BY <1>2, <1>3 DEF Inv, CkptInv, ListInv, DirtySentriesComplete, UsedOffs, CurSegs, BlocksOf,
                      Steady
  <1>7. LogsInv' /\ DurableCursegsWritable'
    BY <1>3 DEF Inv, LogsInv, CursegsWritable, DurableCursegsWritable, NextFree, UsedOffs,
                BlocksOf, Steady
  <1>8. CkptValidBlocksExact'
    BY <1>3 DEF Inv, CkptValidBlocksExact, UsedOffs
  <1>9. SitMatchesAddresses' /\ CheckpointConsistent'
    BY <1>3 DEF Inv, SitMatchesAddresses, CheckpointConsistent, HoldsPages, BlocksOf
  <1> QED
    BY <1>4, <1>5, <1>6, <1>7, <1>8, <1>9 DEF Inv

LEMMA CheckpointStarted ==
    ASSUME Inv, OneAtATime, NEW by \in {"sync", "gc", "trim"}, CpStart(by)
    PROVE  Inv'
  <1>1. /\ cp.phase = "idle" /\ cp' = [phase |-> "blocked", by |-> by] /\ ~cpError
        /\ \/ by = "sync" /\ gc.pc = "idle"
           \/ by = "gc" /\ gc.pc \in {"sync", "final"}
        /\ \A l \in Logs : rewriting[l] = NULL_ADDR
        /\ staged' = [staged EXCEPT !.addr = addr]
        /\ UNCHANGED <<allocVars, addr, admitted, rewriting, gc, discards, durable, cpError, destroyed>>
    BY DEF CpStart, OneAtATime
  <1>2. staged \in Checkpoint /\ staged = durable
    BY <1>1 DEF Inv, TypeOK, CkptInv, Steady
  <1>3. /\ staged' \in Checkpoint /\ staged'.addr = addr
        /\ staged'.sit = staged.sit /\ staged'.types = staged.types
    BY <1>1, <1>2 DEF Inv, TypeOK, Checkpoint
  <1>4. /\ cp'.phase = "blocked" /\ cp'.by = by
        /\ UNCHANGED <<valid, ckptValid, ckptValidBlocks, segType, dirtySentries, inuse, dirty,
                       curseg, addr, admitted, rewriting, gc, discards, durable, cpError, destroyed>>
    BY <1>1 DEF allocVars, sitVars
  <1>5. TypeOK'
    BY <1>1, <1>3, <1>4 DEF Inv, TypeOK
  <1>6. PhaseInv'
    BY <1>1, <1>3, <1>4 DEF Inv, PhaseInv, NextFree
  <1>7. CkptInv'
    BY <1>1, <1>2, <1>3, <1>4 DEF Inv, CkptInv, DirtySentriesComplete, Steady
  <1>8. ListInv'
    BY <1>1, <1>4 DEF Inv, ListInv, UsedOffs, CurSegs, Steady
  <1>9. LogsInv' /\ DurableCursegsWritable'
    BY <1>1, <1>4 DEF Inv, LogsInv, CursegsWritable, DurableCursegsWritable, NextFree, UsedOffs,
                      BlocksOf, Steady
  <1>10. CkptValidBlocksExact'
    BY <1>4 DEF Inv, CkptValidBlocksExact, UsedOffs
  <1>11. SitMatchesAddresses' /\ CheckpointConsistent'
    BY <1>4 DEF Inv, SitMatchesAddresses, CheckpointConsistent, HoldsPages, BlocksOf
  <1> QED
    BY <1>5, <1>6, <1>7, <1>8, <1>9, <1>10, <1>11 DEF Inv

\* With every SIT entry on its way to the device, ckpt_valid_map is cur_valid_map,
\* and a prefree segment is free in both.
LEMMA Flushed ==
    ASSUME Inv, CpFlush
    PROVE  Inv'
  <1>1. /\ cp.phase = "blocked" /\ cp' = [cp EXCEPT !.phase = "flushed"]
        /\ discards' = discards \cup DiscardAddrs
        /\ ckptValid' = [s \in Segs |-> IF s \in dirtySentries THEN valid[s] ELSE ckptValid[s]]
        /\ ckptValidBlocks' = [s \in Segs |-> IF s \in dirtySentries THEN Cardinality(valid[s])
                                              ELSE ckptValidBlocks[s]]
        /\ staged' = [staged EXCEPT
              !.sit = [s \in Segs |-> IF s \in dirtySentries THEN valid[s] ELSE staged.sit[s]],
              !.types = [s \in Segs |-> IF s \in dirtySentries THEN segType[s] ELSE staged.types[s]]]
        /\ dirtySentries' = {}
        /\ inuse' = inuse \ dirty.PRE
        /\ UNCHANGED <<valid, segType, dirty, curseg, addr, admitted, rewriting, gc, durable,
                       cpError, destroyed>>
    BY DEF CpFlush
  <1>2. /\ valid \in SitMaps /\ ckptValid \in SitMaps /\ segType \in [Segs -> Types]
        /\ staged \in Checkpoint /\ staged.sit = ckptValid
        /\ discards = {} /\ inuse \subseteq Segs /\ DirtySentriesComplete
        /\ cp \in [phase : {"idle", "blocked", "flushed", "committed"},
                   by : {"none", "sync", "gc", "trim"}]
    BY <1>1 DEF Inv, TypeOK, CkptInv, Steady
  <1>3. \A s \in Segs \ dirtySentries : valid[s] = ckptValid[s] /\ segType[s] = staged.types[s]
    BY <1>2 DEF DirtySentriesComplete
  <1>4. ckptValid' = valid
    <2>1. \A s \in Segs : ckptValid'[s] = valid[s]
      BY <1>1, <1>3
    <2> QED
      BY <1>1, <1>2, <2>1 DEF SitMaps
  <1>5. /\ staged' \in Checkpoint /\ staged'.sit = valid /\ staged'.types = segType
        /\ staged'.addr = staged.addr
    <2> DEFINE S == [s \in Segs |-> IF s \in dirtySentries THEN valid[s] ELSE staged.sit[s]]
               T == [s \in Segs |-> IF s \in dirtySentries THEN segType[s] ELSE staged.types[s]]
    <2>1. S = valid
      BY <1>2, <1>3 DEF SitMaps
    <2>2. T = segType
      BY <1>2, <1>3
    <2>3. staged' = [staged EXCEPT !.sit = S, !.types = T]
      BY <1>1
    <2> HIDE DEF S, T
    <2> QED
      BY <1>2, <2>1, <2>2, <2>3 DEF Checkpoint
  <1>6. cp'.phase = "flushed" /\ cp'.by = cp.by /\ cp.by # "trim"
    BY <1>1, <1>2 DEF Inv, PhaseInv
  <1>7. discards' \subseteq Blocks /\ discards' \cap BlocksOf(valid) = {}
    <2> DEFINE D == [s \in Segs |->
                       IF cp.by = "trim" /\ valid[s] = {} /\ s \notin dirty.PRE THEN Offsets
                       ELSE IF s \in dirtySentries /\ valid[s] # {} THEN ckptValid[s] \ valid[s]
                       ELSE {}]
    <2>1. ASSUME NEW s \in Segs PROVE D[s] \cap valid[s] = {}
      BY <1>6
    <2>2. DiscardAddrs = BlocksOf(D)
      BY DEF DiscardAddrs
    <2> HIDE DEF D
    <2>3. DiscardAddrs \subseteq Blocks
      BY <2>2 DEF BlocksOf
    <2>4. DiscardAddrs \cap BlocksOf(valid) = {}
      BY <2>1, <2>2 DEF BlocksOf, Blocks
    <2> QED
      BY <1>1, <1>2, <2>3, <2>4
  <1>8. TypeOK'
    <2>1. ckptValidBlocks' \in [Segs -> Int]
      <3>1. \A s \in Segs : Cardinality(valid[s]) \in Int /\ ckptValidBlocks[s] \in Int
        BY <1>2, OffsetsFinite DEF SitMaps, Inv, TypeOK
      <3> QED
        BY <1>1, <3>1
    <2>2. cp' \in [phase : {"idle", "blocked", "flushed", "committed"},
                   by : {"none", "sync", "gc", "trim"}]
      BY <1>1, <1>2
    <2>3. inuse' \subseteq Segs /\ dirtySentries' \subseteq Segs
      BY <1>1, <1>2
    <2>4. ckptValid' \in SitMaps
      BY <1>2, <1>4
    <2>5. UNCHANGED <<valid, segType, dirty, curseg, addr, admitted, rewriting, gc, durable,
                      cpError, destroyed>>
      BY <1>1
    <2> QED
      BY <1>5, <1>7, <2>1, <2>2, <2>3, <2>4, <2>5 DEF Inv, TypeOK
  <1>9. PhaseInv'
    BY <1>1, <1>5, <1>6 DEF Inv, PhaseInv, NextFree
  <1>10. CkptInv'
    <2>1. (~IOErrors => destroyed' = {}) /\ valid' = valid
      BY <1>1 DEF Inv, CkptInv
    <2>2. BlocksOf(valid)' = BlocksOf(valid)
      BY <2>1 DEF BlocksOf
    <2>3. DirtySentriesComplete'
      BY <1>1, <1>5 DEF DirtySentriesComplete
    <2> QED
      BY <1>1, <1>4, <1>5, <1>6, <1>7, <2>1, <2>2, <2>3 DEF CkptInv
  <1>11. ListInv'
    <2>1. \A s \in dirty.PRE : valid[s] = {} /\ s \notin CurSegs(curseg)
      BY <1>1 DEF Inv, ListInv, Steady
    <2>2. ASSUME NEW s \in Segs \ inuse' PROVE valid[s] = {}
      BY <1>1, <2>1 DEF Inv, ListInv, UsedOffs
    <2>3. CurSegs(curseg) \subseteq inuse'
      BY <1>1, <2>1 DEF Inv, ListInv
    <2>4. valid' = valid /\ curseg' = curseg /\ dirty' = dirty
      BY <1>1
    <2>5. CurSegs(curseg)' = CurSegs(curseg)
      BY <2>4 DEF CurSegs
    <2> QED
      BY <1>4, <1>6, <2>1, <2>2, <2>3, <2>4, <2>5 DEF ListInv, UsedOffs
  <1>12. LogsInv' /\ DurableCursegsWritable'
    <2>1. valid' = valid /\ curseg' = curseg /\ durable' = durable
      BY <1>1
    <2>2. CursegsWritable
      BY <1>1 DEF Inv, LogsInv, Steady
    <2>3. CursegsWritable'
      BY <1>4, <2>1, <2>2 DEF CursegsWritable, NextFree, UsedOffs, BlocksOf
    <2>4. LogsInv'
      BY <1>4, <2>1, <2>3 DEF Inv, LogsInv, UsedOffs
    <2> QED
      BY <2>1, <2>4 DEF Inv, DurableCursegsWritable
  <1>13. CkptValidBlocksExact'
    <2>1. ASSUME NEW s \in Segs PROVE ckptValidBlocks'[s] = Cardinality(UsedOffs(s)')
      <3>1. UsedOffs(s)' = valid[s]
        BY <1>1, <1>4 DEF UsedOffs
      <3>2. CASE s \in dirtySentries
        BY <1>1, <3>1, <3>2
      <3>3. CASE s \notin dirtySentries
        <4>1. UsedOffs(s) = valid[s]
          BY <1>3, <3>3 DEF UsedOffs
        <4>2. ckptValidBlocks[s] = Cardinality(UsedOffs(s))
          BY DEF Inv, CkptValidBlocksExact
        <4> QED
          BY <1>1, <3>1, <3>3, <4>1, <4>2
      <3> QED
        BY <3>2, <3>3
    <2>2. \A s \in Segs : ckptValidBlocks'[s] = Cardinality(UsedOffs(s)')
      BY <2>1
    <2> QED
      BY <2>2 DEF CkptValidBlocksExact
  <1>14. SitMatchesAddresses' /\ CheckpointConsistent'
    BY <1>1 DEF Inv, SitMatchesAddresses, CheckpointConsistent, HoldsPages, BlocksOf
  <1> QED
    BY <1>8, <1>9, <1>10, <1>11, <1>12, <1>13, <1>14 DEF Inv

\* Nothing changed since the flush, so the pack describes the present state.
LEMMA Committed ==
    ASSUME Inv, CpCommit
    PROVE  Inv'
  <1>1. /\ cp.phase = "flushed" /\ cp' = [cp EXCEPT !.phase = "committed"] /\ ~cpError
        /\ durable' = [staged EXCEPT !.curseg = curseg]
        /\ staged' = durable' /\ destroyed' = {}
        /\ UNCHANGED <<allocVars, addr, admitted, rewriting, gc, discards, cpError>>
    BY DEF CpCommit
  <1>2. UNCHANGED <<valid, ckptValid, ckptValidBlocks, segType, dirtySentries, inuse, dirty,
                    curseg, addr, admitted, rewriting, gc, discards, cpError>>
    BY <1>1 DEF allocVars, sitVars
  <1>3. /\ staged \in Checkpoint /\ curseg \in Cursegs
        /\ valid \in SitMaps /\ ckptValid \in SitMaps
        /\ staged.sit = ckptValid /\ staged.addr = addr
        /\ dirtySentries = {} /\ DirtySentriesComplete /\ discards \cap BlocksOf(valid) = {}
        /\ cp \in [phase : {"idle", "blocked", "flushed", "committed"},
                   by : {"none", "sync", "gc", "trim"}]
    BY <1>1 DEF Inv, TypeOK, CkptInv, PhaseInv, Steady
  <1>4. valid = ckptValid
    <2>1. \A s \in Segs : valid[s] = ckptValid[s]
      BY <1>3 DEF DirtySentriesComplete
    <2> QED
      BY <1>3, <2>1 DEF SitMaps
  <1>5. /\ durable' \in Checkpoint /\ durable'.sit = valid /\ durable'.addr = addr
        /\ durable'.curseg = curseg /\ durable'.types = staged.types
    BY <1>1, <1>3, <1>4 DEF Checkpoint
  <1>6. cp'.phase = "committed" /\ cp'.by = cp.by
    BY <1>1, <1>3
  <1>7. TypeOK'
    <2>1. cp' \in [phase : {"idle", "blocked", "flushed", "committed"},
                   by : {"none", "sync", "gc", "trim"}]
      BY <1>1, <1>3
    <2> QED
      BY <1>1, <1>2, <1>5, <2>1 DEF Inv, TypeOK
  <1>8. PhaseInv'
    BY <1>1, <1>2, <1>5, <1>6 DEF Inv, PhaseInv, NextFree
  <1>9. CkptInv'
    <2>1. BlocksOf(valid)' = BlocksOf(valid)
      BY <1>2 DEF BlocksOf
    <2>2. DirtySentriesComplete'
      BY <1>1, <1>2, <1>3, <1>5 DEF DirtySentriesComplete
    <2> QED
      BY <1>1, <1>2, <1>3, <1>4, <1>5, <1>6, <2>1, <2>2 DEF CkptInv
  <1>10. ListInv'
    BY <1>1, <1>2, <1>6 DEF Inv, ListInv, UsedOffs, CurSegs, Steady
  <1>11. LogsInv'
    <2>1. CursegsWritable
      BY <1>1 DEF Inv, LogsInv, Steady
    <2>2. CursegsWritable'
      BY <1>2, <1>5, <2>1 DEF CursegsWritable, NextFree, UsedOffs, BlocksOf
    <2> QED
      BY <1>2, <2>2 DEF Inv, LogsInv, UsedOffs
  <1>12. DurableCursegsWritable'
    <2>1. ASSUME NEW k \in Logs
          PROVE  curseg[k].segno \in Segs /\ curseg[k].next_blkoff \in Offsets
                 /\ curseg[k].next_blkoff \notin valid[curseg[k].segno]
      <3>1. curseg[k].segno \in Segs /\ curseg[k].next_blkoff \in Offsets
        BY <1>3, CursegsType DEF CursegRecord
      <3> QED
        BY <3>1 DEF Inv, LogsInv, UsedOffs
    <2> QED
      BY <1>5, <2>1 DEF Inv, LogsInv, DurableCursegsWritable, UsedOffs
  <1>13. CkptValidBlocksExact'
    BY <1>2 DEF Inv, CkptValidBlocksExact, UsedOffs
  <1>14. SitMatchesAddresses' /\ CheckpointConsistent'
    BY <1>2, <1>5 DEF Inv, SitMatchesAddresses, CheckpointConsistent, HoldsPages, BlocksOf
  <1> QED
    BY <1>7, <1>8, <1>9, <1>10, <1>11, <1>12, <1>13, <1>14 DEF Inv

\* What is discarded is dead in the checkpoint that was just completed.
LEMMA Finished ==
    ASSUME Inv, CpFinish
    PROVE  Inv'
  <1>1. /\ cp.phase = "committed" /\ cp' = NoCheckpoint /\ staged' = durable /\ ~cpError
        /\ dirty' = [dirty EXCEPT !.PRE = {}]
        /\ destroyed' = destroyed \cup
                          ((dirty.PRE \X Offsets \cup discards) \cap BlocksOf(durable.sit))
        /\ discards' = {}
        /\ gc' \in {gc, [gc EXCEPT !.pc = "select"], Idle}
        /\ UNCHANGED <<sitVars, inuse, curseg, addr, admitted, rewriting, durable, cpError>>
    BY DEF CpFinish, EndCheckpoint
  <1>2. UNCHANGED <<valid, ckptValid, ckptValidBlocks, segType, dirtySentries, inuse,
                    curseg, addr, admitted, rewriting, durable, cpError>>
    BY <1>1 DEF sitVars
  <1>3. /\ staged = durable /\ staged.sit = ckptValid /\ dirtySentries = {}
        /\ valid \in SitMaps /\ ckptValid \in SitMaps /\ dirty \in Seglist /\ GcTyped
        /\ DirtySentriesComplete /\ discards \cap BlocksOf(valid) = {}
        /\ destroyed \subseteq Blocks /\ (~IOErrors => destroyed = {})
    BY <1>1 DEF Inv, CkptInv, TypeOK, GcTyped, Steady
  <1>4. durable.sit = valid
    <2>1. \A s \in Segs : valid[s] = ckptValid[s]
      BY <1>3 DEF DirtySentriesComplete
    <2> QED
      BY <1>3, <2>1 DEF SitMaps
  <1>5. destroyed' = destroyed
    <2>1. ASSUME NEW b \in dirty.PRE \X Offsets PROVE b \notin BlocksOf(valid)
      <3>1. b[1] \in dirty.PRE
        OBVIOUS
      <3>2. valid[b[1]] = {}
        BY <1>1, <3>1 DEF Inv, ListInv, Steady
      <3> QED
        BY <3>2 DEF BlocksOf
    <2> QED
      BY <1>1, <1>3, <1>4, <2>1
  <1>6. dirty' \in Seglist /\ dirty'.PRE = {} /\ GcTyped'
    <2>1. dirty' \in Seglist /\ dirty'.PRE = {}
      BY <1>1, <1>3 DEF Seglist
    <2>2. GcTyped'
      BY <1>1, <1>3, GcGoesOn
    <2> QED
      BY <2>1, <2>2
  <1>7. cp'.phase = "idle" /\ cp'.by = "none"
    BY <1>1 DEF NoCheckpoint
  <1>8. TypeOK'
    <2>1. cp' \in [phase : {"idle", "blocked", "flushed", "committed"},
                   by : {"none", "sync", "gc", "trim"}]
      BY <1>1 DEF NoCheckpoint
    <2>2. staged' \in Checkpoint
      BY <1>1 DEF Inv, TypeOK
    <2>3. destroyed' \subseteq Blocks /\ discards' \subseteq Blocks
      BY <1>1, <1>3, <1>5
    <2> QED
      BY <1>2, <1>6, <2>1, <2>2, <2>3 DEF Inv, TypeOK, GcTyped
  <1>9. PhaseInv'
    BY <1>2, <1>7 DEF Inv, PhaseInv, NextFree
  <1>10. CkptInv'
    BY <1>1, <1>2, <1>3, <1>5, <1>7 DEF CkptInv, DirtySentriesComplete
  <1>11. ListInv'
    BY <1>2, <1>6 DEF Inv, ListInv, UsedOffs, CurSegs
  <1>12. LogsInv' /\ DurableCursegsWritable'
    BY <1>1, <1>2 DEF Inv, LogsInv, CursegsWritable, DurableCursegsWritable, NextFree, UsedOffs,
                      BlocksOf, Steady
  <1>13. CkptValidBlocksExact'
    BY <1>2 DEF Inv, CkptValidBlocksExact, UsedOffs
  <1>14. SitMatchesAddresses' /\ CheckpointConsistent'
    BY <1>2 DEF Inv, SitMatchesAddresses, CheckpointConsistent, HoldsPages, BlocksOf
  <1> QED
    BY <1>8, <1>9, <1>10, <1>11, <1>12, <1>13, <1>14 DEF Inv

\* What the mount reads from a checkpoint.
LEMMA MountFacts ==
    ASSUME NEW c \in Checkpoint
    PROVE  /\ InuseOf(c) \subseteq Segs
           /\ SeglistOf(c) \in Seglist /\ SeglistOf(c).PRE = {}
           /\ CurSegs(c.curseg) \subseteq InuseOf(c)
           /\ \A s \in Segs \ InuseOf(c) : c.sit[s] = {}
           /\ \A l \in Logs : /\ c.curseg[l].segno \in Segs
                              /\ c.curseg[l].next_blkoff \in Offsets
  <1>1. c.curseg \in [Logs -> CursegRecord]
    BY CursegsType DEF Checkpoint
  <1>2. \A l \in Logs : /\ c.curseg[l].segno \in Segs
                        /\ c.curseg[l].next_blkoff \in Offsets
    BY <1>1 DEF CursegRecord
  <1>3. CurSegs(c.curseg) \subseteq Segs
    BY <1>2 DEF CurSegs
  <1>4. SeglistOf(c) \in Seglist /\ SeglistOf(c).PRE = {}
    BY DEF SeglistOf, Seglist, PartlyUsed
  <1> QED
    BY <1>2, <1>3, <1>4 DEF InuseOf

\* After a mount everything is as the checkpoint says.
Mounted ==
    /\ valid = durable.sit
    /\ ckptValid = durable.sit
    /\ ckptValidBlocks = [s \in Segs |-> Cardinality(durable.sit[s])]
    /\ segType = durable.types
    /\ dirtySentries = {}
    /\ inuse = InuseOf(durable)
    /\ dirty = SeglistOf(durable)
    /\ curseg = durable.curseg
    /\ addr = durable.addr
    /\ admitted = {}
    /\ rewriting = [l \in Logs |-> NULL_ADDR]
    /\ gc = Idle
    /\ cp = NoCheckpoint
    /\ staged = durable
    /\ discards = {}
    /\ cpError = FALSE
    /\ destroyed \subseteq Blocks
    /\ ~IOErrors => destroyed = {}

LEMMA MountInv ==
    Mounted /\ durable \in Checkpoint /\ DurableCursegsWritable /\ CheckpointConsistent => Inv
  <1> SUFFICES ASSUME Mounted, durable \in Checkpoint, DurableCursegsWritable, CheckpointConsistent
               PROVE  Inv
    OBVIOUS
  <1> USE DEF Mounted
  <1>1. /\ InuseOf(durable) \subseteq Segs
        /\ SeglistOf(durable) \in Seglist /\ SeglistOf(durable).PRE = {}
        /\ CurSegs(durable.curseg) \subseteq InuseOf(durable)
        /\ \A s \in Segs \ InuseOf(durable) : durable.sit[s] = {}
        /\ \A l \in Logs : /\ durable.curseg[l].segno \in Segs
                           /\ durable.curseg[l].next_blkoff \in Offsets
    BY MountFacts
  <1>2. /\ durable.sit \in SitMaps /\ durable.types \in [Segs -> Types]
        /\ durable.curseg \in Cursegs /\ durable.addr \in [Pages -> Addrs]
    BY DEF Checkpoint
  <1>3. \A s \in Segs : UsedOffs(s) = durable.sit[s]
    BY DEF UsedOffs
  <1>4. cp.phase = "idle" /\ cp.by = "none"
    BY DEF NoCheckpoint
  <1>5. TypeOK
    <2>1. ckptValidBlocks \in [Segs -> Int]
      BY <1>2, OffsetsFinite DEF SitMaps
    <2>2. rewriting \in [Logs -> Addrs]
      BY DEF Addrs
    <2>3. GcTyped
      BY DEF Idle, GcTyped
    <2>4. cp \in [phase : {"idle", "blocked", "flushed", "committed"},
                  by : {"none", "sync", "gc", "trim"}]
      BY DEF NoCheckpoint
    <2> QED
      BY <1>1, <1>2, <2>1, <2>2, <2>3, <2>4 DEF TypeOK, GcTyped
  <1>6. PhaseInv /\ CkptInv
    BY <1>4 DEF PhaseInv, CkptInv, DirtySentriesComplete
  <1>7. ListInv
    BY <1>1, <1>3 DEF ListInv
  <1>8. LogsInv
    BY <1>1, <1>3 DEF LogsInv, CursegsWritable, DurableCursegsWritable, NextFree, BlocksOf
  <1>9. CkptValidBlocksExact
    <2>1. ASSUME NEW s \in Segs PROVE ckptValidBlocks[s] = Cardinality(UsedOffs(s))
      BY <1>3
    <2> QED
      BY <2>1 DEF CkptValidBlocksExact
  <1>10. SitMatchesAddresses
    BY DEF SitMatchesAddresses, CheckpointConsistent
  <1> QED
    BY <1>5, <1>6, <1>7, <1>8, <1>9, <1>10 DEF Inv

LEMMA RemountedAll ==
    ASSUME Inv, CrashAndMount
    PROVE  Mounted'
  <1>1. /\ durable' = durable
        /\ destroyed' \subseteq Blocks /\ (~IOErrors => destroyed' = {})
    BY DEF CrashAndMount, Inv, TypeOK, CkptInv
  <1> QED
    BY <1>1 DEF CrashAndMount, Mounted, InuseOf, SeglistOf, PartlyUsed

LEMMA Remounted ==
    ASSUME Inv, CrashAndMount
    PROVE  Inv'
  <1>1. durable' = durable
    BY DEF CrashAndMount
  <1>2. (durable \in Checkpoint)' /\ DurableCursegsWritable' /\ CheckpointConsistent'
    BY <1>1 DEF Inv, TypeOK, DurableCursegsWritable, CheckpointConsistent, HoldsPages, BlocksOf
  <1> QED
    BY <1>2, RemountedAll, MountInv, PTL

-----------------------------------------------------------------------------
(* The lists of dirty and prefree segments.                                *)

\* Only whether it holds of the lists and what they list matters.
LEMMA SeglistStable ==
    ASSUME SeglistInv, UNCHANGED <<valid, segType, inuse, dirty, curseg>>,
           cp'.phase \in {"flushed", "committed"} => cp.phase \in {"flushed", "committed"}
    PROVE  SeglistInv'
  <1>1. CurSegs(curseg)' = CurSegs(curseg)
    BY DEF CurSegs
  <1> QED
    BY <1>1 DEF SeglistInv, VictimsAreDirty

\* The lists d are right but for the segments of S, which are about to be located.
RightBut(S, d) ==
    /\ \A s \in Segs \ S : s \in d.DIRTY <=> /\ s \notin CurSegs(curseg')
                                            /\ valid'[s] # {} /\ valid'[s] # Offsets
    /\ \A s \in S \cap CurSegs(curseg') : s \notin d.DIRTY
    /\ \A k \in Logs, s \in Segs : s \in d.ofType[k] <=> s \in d.DIRTY /\ segType'[s] = k
    /\ \A s \in inuse' \ CurSegs(curseg') : s \notin S /\ valid'[s] = {} => s \in d.PRE
    /\ d.victims \subseteq d.DIRTY
    /\ \A s \in d.victims \cap S : valid'[s] # Offsets
    /\ \A s \in S \ CurSegs(curseg') : segType'[s] = segType[s]

LEMMA LocatedRight ==
    ASSUME NEW d \in Seglist, NEW S \in SUBSET Segs, RightBut(S, d), cp'.phase = "idle",
           dirty' = Relocated(d, S, valid', curseg'), inuse' \subseteq Segs
    PROVE  SeglistInv'
  <1> DEFINE C     == CurSegs(curseg')
             T     == S \ C
             empty == {s \in T : valid'[s] = {}}
             full  == {s \in T : valid'[s] = Offsets}
             part  == T \ (empty \cup full)
  <1>1. /\ dirty'.DIRTY = (d.DIRTY \cup part) \ (empty \cup full)
        /\ dirty'.PRE = d.PRE \cup empty
        /\ dirty'.victims = d.victims \ empty
        /\ \A k \in Logs : dirty'.ofType[k] =
             (d.ofType[k] \cup {s \in part : segType[s] = k}) \ {s \in empty \cup full : segType[s] = k}
    BY DEF Relocated
  <1>2. CurSegs(curseg)' = C
    BY DEF CurSegs
  <1>3. ASSUME NEW s \in Segs
        PROVE  s \in dirty'.DIRTY <=> s \notin C /\ valid'[s] # {} /\ valid'[s] # Offsets
    <2> HIDE DEF C
    <2>1. CASE s \in T
      BY <1>1, <2>1
    <2>2. CASE s \notin S
      BY <1>1, <2>2 DEF RightBut, C
    <2>3. CASE s \in S \cap C
      BY <1>1, <2>3 DEF RightBut, C
    <2> QED
      BY <2>1, <2>2, <2>3
  <1>4. ASSUME NEW k \in Logs, NEW s \in Segs
        PROVE  s \in dirty'.ofType[k] <=> s \in dirty'.DIRTY /\ segType'[s] = k
    <2> HIDE DEF C
    <2>1. s \in d.ofType[k] <=> s \in d.DIRTY /\ segType'[s] = k
      BY DEF RightBut
    <2>2. CASE s \in T
      <3>1. segType'[s] = segType[s]
        BY <2>2 DEF RightBut, C
      <3> QED
        BY <1>1, <2>1, <2>2, <3>1
    <2>3. CASE s \notin T
      BY <1>1, <2>1, <2>3
    <2> QED
      BY <2>2, <2>3
  <1>5. ASSUME NEW s \in inuse' \ C, valid'[s] = {} PROVE s \in dirty'.PRE
    BY <1>1, <1>5 DEF RightBut
  <1>6. dirty'.victims \subseteq dirty'.DIRTY
    <2>1. ASSUME NEW s \in dirty'.victims PROVE s \in dirty'.DIRTY
      <3>1. s \in d.victims /\ s \in d.DIRTY /\ s \notin empty
        BY <1>1 DEF RightBut
      <3>2. s \notin full
        BY <3>1 DEF RightBut
      <3> QED
        BY <1>1, <3>1, <3>2
    <2> QED
      BY <2>1
  <1> HIDE DEF C
  <1> QED
    BY <1>2, <1>3, <1>4, <1>5, <1>6 DEF SeglistInv, VictimsAreDirty

\* After allocate_data_block() the lists are right: the segment that the log left
\* and the one of the old block are located, the one it opened is on no list.
LEMMA AllocLists ==
    ASSUME Inv, SeglistInv, cp.phase = "idle", cp' = cp, NEW l \in Logs, NEW old \in Addrs,
           Replaceable(old, l), AllocateDataBlock(l, old)
    PROVE  SeglistInv'
  <1> DEFINE new == NextFree(l)
             s0  == curseg[l].segno
             S   == SegsOf({old, new})
  <1>1. PICK n \in 1 .. BlocksPerSeg, secs \in 0 .. MaxDirtySecs :
             \/ /\ curseg' = [curseg EXCEPT ![l].next_blkoff = n]
                /\ UNCHANGED <<inuse, segType>>
                /\ RefreshSitEntry(old, new, dirty)
             \/ /\ \E s \in Segs : NewCurseg(l, s)
                /\ RefreshSitEntry(old, new, dirty)
             \/ \E s \in SSRVictims(l, secs) :
                  /\ ChangeCurseg(l, s)
                  /\ RefreshSitEntry(old, new, Removed(dirty, s))
    BY DEF AllocateDataBlock
  <1>2. /\ new \in Blocks /\ new = <<s0, curseg[l].next_blkoff>> /\ s0 \in Segs
    BY NextFreeFacts
  <1>3. valid' = [s \in Segs |-> (valid[s] \cup OffsIn({new}, s)) \ OffsIn({old}, s)]
    BY <1>1 DEF RefreshSitEntry
  <1>4. /\ \A s \in Segs : s # s0 => valid'[s] \subseteq valid[s]
        /\ \A s \in Segs \ S : valid'[s] = valid[s]
        /\ S \subseteq inuse /\ S \subseteq Segs
    <2>1. /\ \A s \in Segs : s # new[1] => valid'[s] \subseteq valid[s]
          /\ \A s \in Segs \ S : valid'[s] = valid[s]
          /\ S \subseteq inuse /\ S \subseteq Segs
      BY <1>3, RefreshFacts
    <2>2. new[1] = s0
      BY <1>2
    <2> QED
      BY <2>1, <2>2
  <1>5. s0 \in S /\ s0 \in CurSegs(curseg) /\ s0 \in inuse
    <2>1. s0 \in CurSegs(curseg)
      BY DEF CurSegs
    <2>2. new # NULL_ADDR /\ new[1] = s0
      BY <1>2, SegmentManagerAssumption
    <2>3. s0 \in S
      BY <2>2 DEF SegsOf
    <2> QED
      BY <2>1, <2>3 DEF Inv, ListInv
  <1>6. /\ curseg \in [Logs -> CursegRecord] /\ dirty \in Seglist /\ inuse \subseteq Segs
        /\ valid \in SitMaps /\ segType \in [Segs -> Types]
    BY CursegsType DEF Inv, TypeOK
  <1> HIDE DEF new, s0, S
  <1>7. ASSUME NEW s1 \in Segs, NEW d \in Seglist,
               RefreshSitEntry(old, new, d),
               s1 = s0 \/ s1 \notin CurSegs(curseg),
               CurSegs(curseg') \subseteq CurSegs(curseg) \cup {s1},
               CurSegs(curseg) \ {s0} \subseteq CurSegs(curseg'),
               s1 \in CurSegs(curseg'), s1 # s0 => s0 \notin CurSegs(curseg'),
               inuse' = inuse \cup {s1},
               \A s \in Segs \ {s1} : segType'[s] = segType[s],
               d.DIRTY = dirty.DIRTY \ {s1}, dirty.PRE \ {s1} \subseteq d.PRE,
               d.victims = dirty.victims, s1 \notin dirty.victims,
               \A k \in Logs : d.ofType[k] = dirty.ofType[k] \ {s1}
        PROVE  SeglistInv'
    <2> DEFINE C == CurSegs(curseg')
    <2>1. \A s \in Segs : s \in dirty.DIRTY <=> /\ s \notin CurSegs(curseg)
                                               /\ valid[s] # {} /\ valid[s] # Offsets
      BY DEF SeglistInv
    <2>2. s1 \in C /\ C \subseteq CurSegs(curseg) \cup {s1}
      BY <1>7
    <2>3. CurSegs(curseg) \subseteq C \cup {s0}
      BY <1>7
    <2>4. dirty' = Relocated(d, S, valid', curseg')
      BY <1>7 DEF RefreshSitEntry, S
    <2> HIDE DEF C
    <2>5. RightBut(S, d)
      <3>1. ASSUME NEW s \in Segs \ S
            PROVE  s \in d.DIRTY <=> s \notin C /\ valid'[s] # {} /\ valid'[s] # Offsets
        <4>1. valid'[s] = valid[s] /\ s # s0
          BY <1>4, <1>5
        <4>2. s \in C <=> s \in CurSegs(curseg) \/ s = s1
          BY <2>2, <2>3, <4>1
        <4> QED
          BY <1>7, <2>1, <4>1, <4>2
      <3>2. ASSUME NEW s \in S \cap C PROVE s \notin d.DIRTY
        BY <1>4, <1>7, <2>1, <2>2
      <3>3. ASSUME NEW k \in Logs, NEW s \in Segs
            PROVE  s \in d.ofType[k] <=> s \in d.DIRTY /\ segType'[s] = k
        <4>1. s \in dirty.ofType[k] <=> s \in dirty.DIRTY /\ segType[s] = k
          BY DEF SeglistInv
        <4> QED
          BY <1>7, <4>1
      <3>4. ASSUME NEW s \in inuse' \ C, s \notin S, valid'[s] = {} PROVE s \in d.PRE
        <4>1. s # s1 /\ s \in inuse /\ s \notin CurSegs(curseg) /\ valid[s] = {}
          BY <1>4, <1>5, <1>6, <1>7, <2>2, <2>3, <3>4
        <4> QED
          BY <1>7, <4>1 DEF SeglistInv
      <3>5. d.victims \subseteq d.DIRTY
        BY <1>7 DEF SeglistInv, VictimsAreDirty
      <3>6. ASSUME NEW s \in d.victims \cap S PROVE valid'[s] # Offsets
        <4>1. s \in dirty.DIRTY /\ s \in Segs
          BY <1>4, <1>7 DEF SeglistInv, VictimsAreDirty
        <4>2. s # s0 /\ valid[s] # Offsets /\ valid[s] \subseteq Offsets
          BY <1>5, <1>6, <2>1, <4>1 DEF SitMaps
        <4> QED
          BY <1>4, <4>1, <4>2
      <3>7. ASSUME NEW s \in S \ C PROVE segType'[s] = segType[s]
        BY <1>4, <1>7, <2>2
      <3> QED
        BY <3>1, <3>2, <3>3, <3>4, <3>5, <3>6, <3>7 DEF RightBut, C
    <2>6. inuse' \subseteq Segs
      BY <1>6, <1>7
    <2> QED
      BY <1>4, <1>7, <2>4, <2>5, <2>6, LocatedRight
  <1>8. CASE /\ curseg' = [curseg EXCEPT ![l].next_blkoff = n]
             /\ UNCHANGED <<inuse, segType>>
             /\ RefreshSitEntry(old, new, dirty)
    <2>1. \A k \in Logs : curseg'[k].segno = curseg[k].segno
      BY <1>6, <1>8 DEF CursegRecord
    <2>2. CurSegs(curseg') = CurSegs(curseg)
      BY <2>1 DEF CurSegs
    <2>3. s0 \notin dirty.DIRTY /\ s0 \notin dirty.victims
      BY <1>2, <1>5 DEF SeglistInv, VictimsAreDirty
    <2>4. \A k \in Logs : s0 \notin dirty.ofType[k]
      BY <1>2, <2>3 DEF SeglistInv
    <2>5. /\ dirty.DIRTY = dirty.DIRTY \ {s0} /\ dirty.PRE \ {s0} \subseteq dirty.PRE
          /\ \A k \in Logs : dirty.ofType[k] = dirty.ofType[k] \ {s0}
      BY <2>3, <2>4
    <2>6. /\ inuse' = inuse \cup {s0} /\ s0 \in CurSegs(curseg')
          /\ \A s \in Segs \ {s0} : segType'[s] = segType[s]
          /\ CurSegs(curseg') \subseteq CurSegs(curseg) \cup {s0}
          /\ CurSegs(curseg) \ {s0} \subseteq CurSegs(curseg')
      BY <1>5, <1>8, <2>2
    <2> QED
      BY <1>2, <1>6, <1>7, <1>8, <2>3, <2>5, <2>6
  <1>9. CASE /\ \E s \in Segs : NewCurseg(l, s)
             /\ RefreshSitEntry(old, new, dirty)
    <2>1. PICK s1 \in Segs : NewCurseg(l, s1)
      BY <1>9
    <2>2. s1 \notin inuse /\ valid[s1] = {} /\ s1 \notin CurSegs(curseg)
      BY <2>1 DEF NewCurseg, FreeSegs, Inv, ListInv, UsedOffs
    <2>3. s1 \notin dirty.DIRTY /\ s1 \notin dirty.victims
      BY <2>2 DEF SeglistInv, VictimsAreDirty
    <2>4. \A k \in Logs : s1 \notin dirty.ofType[k]
      BY <2>3 DEF SeglistInv
    <2>5. /\ inuse' = inuse \cup {s1}
          /\ \A s \in Segs \ {s1} : segType'[s] = segType[s]
          /\ curseg'[l].segno = s1
          /\ \A k \in Logs \ {l} : curseg'[k] = curseg[k]
      BY <1>6, <2>1 DEF NewCurseg
    <2>6. /\ CurSegs(curseg') \subseteq CurSegs(curseg) \cup {s1}
          /\ CurSegs(curseg) \ {s0} \subseteq CurSegs(curseg')
          /\ s1 \in CurSegs(curseg')
      BY <2>5 DEF CurSegs, s0
    <2>7. s0 \notin CurSegs(curseg')
      <3>1. \A k \in Logs : curseg[k].segno = s0 => k = l
        BY DEF Inv, LogsInv, s0
      <3> QED
        BY <1>5, <2>2, <2>5, <3>1 DEF CurSegs
    <2> QED
      BY <1>6, <1>7, <1>9, <2>2, <2>3, <2>4, <2>5, <2>6, <2>7
  <1>10. CASE \E s \in SSRVictims(l, secs) :
                /\ ChangeCurseg(l, s)
                /\ RefreshSitEntry(old, new, Removed(dirty, s))
    <2>1. PICK s1 \in SSRVictims(l, secs) :
                /\ ChangeCurseg(l, s1)
                /\ RefreshSitEntry(old, new, Removed(dirty, s1))
      BY <1>10
    <2>2. PICK t \in Logs : s1 \in SSRCandidates(t)
      BY DEF SSRVictims
    <2>3. /\ s1 \in dirty.ofType[t] /\ s1 \in Segs
          /\ s1 \notin CurSegs(curseg) /\ s1 \notin dirty.victims
      BY <1>6, <2>2 DEF SSRCandidates, SecUsageCheck, Seglist
    <2>4. \A k \in Logs : s1 \in dirty.ofType[k] => k = segType[s1]
      BY <2>3 DEF SeglistInv
    <2>5. s1 \in dirty.DIRTY /\ valid[s1] # {}
      BY <2>3 DEF SeglistInv
    <2>6. /\ Removed(dirty, s1) \in Seglist
          /\ Removed(dirty, s1).DIRTY = dirty.DIRTY \ {s1}
          /\ Removed(dirty, s1).PRE = dirty.PRE \ {s1}
          /\ Removed(dirty, s1).victims = dirty.victims
          /\ \A k \in Logs : Removed(dirty, s1).ofType[k] = dirty.ofType[k] \ {s1}
      <3>1. Removed(dirty, s1) \in Seglist
        BY <1>6, <2>3 DEF Removed, Seglist
      <3>2. \A k \in Logs : Removed(dirty, s1).ofType[k] =
              IF k = segType[s1] THEN dirty.ofType[k] \ {s1} ELSE dirty.ofType[k]
        BY DEF Removed
      <3> QED
        BY <2>4, <2>5, <3>1, <3>2 DEF Removed
    <2>7. /\ inuse' = inuse \cup {s1}
          /\ \A s \in Segs \ {s1} : segType'[s] = segType[s]
          /\ curseg'[l].segno = s1
          /\ \A k \in Logs \ {l} : curseg'[k] = curseg[k]
      BY <1>6, <2>1 DEF ChangeCurseg
    <2>8. /\ CurSegs(curseg') \subseteq CurSegs(curseg) \cup {s1}
          /\ CurSegs(curseg) \ {s0} \subseteq CurSegs(curseg')
          /\ s1 \in CurSegs(curseg')
      BY <2>7 DEF CurSegs, s0
    <2>9. s0 \notin CurSegs(curseg')
      <3>1. \A k \in Logs : curseg[k].segno = s0 => k = l
        BY DEF Inv, LogsInv, s0
      <3> QED
        BY <1>5, <2>3, <2>7, <3>1 DEF CurSegs
    <2> QED
      BY <1>7, <2>1, <2>3, <2>6, <2>7, <2>8, <2>9
  <1> QED
    BY <1>1, <1>8, <1>9, <1>10 DEF new

LEMMA WrittenLists ==
    ASSUME Inv, SeglistInv, cp.phase = "idle", cp' = cp, NEW o \in Pages, NEW l \in Logs,
           DoWritePage(o, l)
    PROVE  SeglistInv'
  <1>1. AllocateDataBlock(l, addr[o])
    BY DEF DoWritePage
  <1>2. addr[o] \in Addrs
    BY DEF Inv, TypeOK
  <1>3. Replaceable(addr[o], l)
    BY DEF Inv, SitMatchesAddresses, HoldsPages, Replaceable
  <1> QED
    BY <1>1, <1>2, <1>3, AllocLists

LEMMA TruncatedLists ==
    ASSUME Inv, SeglistInv, NEW o \in Pages, Truncate(o)
    PROVE  SeglistInv'
  <1> DEFINE s == addr[o][1]
             i == addr[o][2]
  <1>1. /\ cp.phase = "idle" /\ cp' = cp
        /\ valid' = [valid EXCEPT ![s] = @ \ {i}]
        /\ dirty' = Relocated(dirty, {s}, valid', curseg')
        /\ UNCHANGED <<segType, inuse, curseg>>
    BY DEF Truncate, LockOp, cpVars
  <1>2. addr[o] \in BlocksOf(valid)
    BY DEF Truncate, Inv, SitMatchesAddresses, HoldsPages
  <1>3. s \in Segs /\ i \in valid[s]
    BY <1>2 DEF BlocksOf, Blocks
  <1>4. /\ dirty \in Seglist /\ valid \in SitMaps /\ inuse \subseteq Segs
    BY DEF Inv, TypeOK
  <1> HIDE DEF s, i
  <1>5. /\ \A r \in Segs \ {s} : valid'[r] = valid[r]
        /\ valid'[s] # Offsets
        /\ CurSegs(curseg') = CurSegs(curseg)
    BY <1>1, <1>3, <1>4 DEF SitMaps, CurSegs
  <1>6. RightBut({s}, dirty)
    BY <1>1, <1>3, <1>4, <1>5 DEF RightBut, SeglistInv, VictimsAreDirty
  <1> QED
    BY <1>1, <1>3, <1>4, <1>6, LocatedRight

LEMMA SelectedLists ==
    ASSUME Inv, SeglistInv, GcSelect
    PROVE  SeglistInv'
  <1> DEFINE fresh == {s \in dirty.DIRTY : ~SecUsageCheck(s) /\ (gc.fg \/ s \notin dirty.victims)}
             from  == IF gc.fg /\ BgVictims # {} THEN BgVictims ELSE fresh
  <1>1. UNCHANGED <<valid, segType, inuse, curseg, cp>>
    BY DEF GcSelect, sitVars, cpVars
  <1>2. CASE UNCHANGED dirty
    BY <1>1, <1>2, SeglistStable
  <1>3. CASE \E s \in from : dirty' = [dirty EXCEPT !.victims =
                                         IF ~gc.fg THEN @ \cup {s}
                                         ELSE IF BgVictims # {} THEN @ \ {s} ELSE @]
    <2>1. PICK s \in from : dirty' = [dirty EXCEPT !.victims =
                                        IF ~gc.fg THEN @ \cup {s}
                                        ELSE IF BgVictims # {} THEN @ \ {s} ELSE @]
      BY <1>3
    <2>2. from \subseteq dirty.DIRTY
      BY DEF BgVictims, SeglistInv, VictimsAreDirty
    <2>3. s \in dirty.DIRTY
      BY <2>2
    <2> DEFINE V == IF ~gc.fg THEN dirty.victims \cup {s}
                    ELSE IF BgVictims # {} THEN dirty.victims \ {s} ELSE dirty.victims
    <2>4. V \subseteq dirty.DIRTY
      BY <2>3 DEF SeglistInv, VictimsAreDirty
    <2>5. dirty' = [dirty EXCEPT !.victims = V] /\ dirty \in Seglist
      BY <2>1 DEF Inv, TypeOK
    <2> HIDE DEF V
    <2>6. /\ dirty'.DIRTY = dirty.DIRTY /\ dirty'.PRE = dirty.PRE /\ dirty'.ofType = dirty.ofType
          /\ dirty'.victims = V
      BY <2>5 DEF Seglist
    <2>7. CurSegs(curseg)' = CurSegs(curseg)
      BY <1>1 DEF CurSegs
    <2> QED
      BY <1>1, <2>4, <2>6, <2>7 DEF SeglistInv, VictimsAreDirty
  <1> QED
    BY <1>2, <1>3 DEF GcSelect

LEMMA FlushedLists ==
    ASSUME SeglistInv, CpFlush
    PROVE  SeglistInv'
  <1>1. /\ inuse' = inuse \ dirty.PRE
        /\ UNCHANGED <<valid, segType, dirty, curseg>>
    BY DEF CpFlush
  <1>2. CurSegs(curseg)' = CurSegs(curseg)
    BY <1>1 DEF CurSegs
  <1> QED
    BY <1>1, <1>2 DEF SeglistInv, VictimsAreDirty

LEMMA FinishedLists ==
    ASSUME Inv, SeglistInv, CpFinish
    PROVE  SeglistInv'
  <1>1. /\ cp.phase = "committed" /\ cp'.phase = "idle"
        /\ dirty' = [dirty EXCEPT !.PRE = {}] /\ dirty \in Seglist
        /\ UNCHANGED <<valid, segType, inuse, curseg>>
    BY DEF CpFinish, EndCheckpoint, NoCheckpoint, sitVars, Inv, TypeOK
  <1>2. /\ dirty'.DIRTY = dirty.DIRTY /\ dirty'.ofType = dirty.ofType
        /\ dirty'.victims = dirty.victims
    BY <1>1 DEF Seglist
  <1>3. CurSegs(curseg)' = CurSegs(curseg)
    BY <1>1 DEF CurSegs
  <1>4. \A s \in inuse \ CurSegs(curseg) : valid[s] # {}
    BY <1>1 DEF SeglistInv
  <1> QED
    BY <1>1, <1>2, <1>3, <1>4 DEF SeglistInv, VictimsAreDirty

\* build_dirty_segmap() makes the lists from the checkpoint.
LEMMA MountedLists ==
    Mounted => SeglistInv
  <1> SUFFICES ASSUME Mounted PROVE SeglistInv
    OBVIOUS
  <1>1. /\ valid = durable.sit /\ segType = durable.types /\ curseg = durable.curseg
        /\ inuse = InuseOf(durable) /\ dirty = SeglistOf(durable) /\ cp.phase = "idle"
    BY DEF Mounted, NoCheckpoint
  <1>2. dirty.DIRTY = {s \in Segs \ CurSegs(curseg) : valid[s] # {} /\ valid[s] # Offsets}
    BY <1>1 DEF SeglistOf, PartlyUsed
  <1>3. /\ \A l \in Logs : dirty.ofType[l] = {s \in dirty.DIRTY : segType[s] = l}
        /\ dirty.victims = {}
    BY <1>1 DEF SeglistOf
  <1>4. \A s \in inuse \ CurSegs(curseg) : valid[s] # {}
    BY <1>1 DEF InuseOf
  <1> QED
    BY <1>1, <1>2, <1>3, <1>4 DEF SeglistInv, VictimsAreDirty

-----------------------------------------------------------------------------
(* The theorems.                                                           *)

LEMMA InitMounted ==
    Init => Mounted /\ durable \in Checkpoint /\ DurableCursegsWritable /\ CheckpointConsistent
  <1> SUFFICES ASSUME Init
               PROVE  Mounted /\ durable \in Checkpoint /\ DurableCursegsWritable
                      /\ CheckpointConsistent
    OBVIOUS
  <1>1. PICK f \in [Logs -> Segs] :
          /\ \A l, k \in Logs : f[l] = f[k] => l = k
          /\ durable = MkfsCheckpoint(f)
    BY DEF Init
  <1>2. durable \in Checkpoint
    <2>1. \A s \in Segs : (IF \E l \in Logs : f[l] = s
                           THEN CHOOSE l \in Logs : f[l] = s ELSE 0) \in Types
      BY SegmentManagerAssumption DEF Types
    <2>2. 0 \in Offsets
      BY SegmentManagerAssumption DEF Offsets
    <2>3. [l \in Logs |-> [segno |-> f[l], next_blkoff |-> 0, alloc_type |-> "LFS"]] \in Cursegs
      BY <2>2 DEF Cursegs
    <2> QED
      BY <1>1, <2>1, <2>3 DEF MkfsCheckpoint, Checkpoint, SitMaps, Addrs
  <1>3. /\ \A s \in Segs : durable.sit[s] = {}
        /\ \A l \in Logs : durable.curseg[l].segno = f[l]
        /\ \A o \in Pages : durable.addr[o] = NULL_ADDR
    BY <1>1 DEF MkfsCheckpoint
  <1>4. DurableCursegsWritable
    <2>1. \A l \in Logs : f[l] \in Segs
      OBVIOUS
    <2> QED
      BY <1>1, <1>3, <2>1 DEF DurableCursegsWritable
  <1>5. CheckpointConsistent
    BY <1>3 DEF CheckpointConsistent, HoldsPages, BlocksOf, Blocks
  <1>6. Mounted
    <2>1. [s \in Segs |-> 0] = [s \in Segs |-> Cardinality(durable.sit[s])]
      BY <1>3, FS_EmptySet
    <2> QED
      BY <2>1 DEF Init, Mounted
  <1> QED
    BY <1>2, <1>4, <1>5, <1>6

LEMMA InitInv == Init => Inv
  BY InitMounted, MountInv

\* A checkpoint that is given up leaves the maps ahead of the device for good.
LEMMA GivenUp ==
    ASSUME Inv, CpAbort
    PROVE  Inv'
  <1>1. /\ cp.phase # "idle" /\ cpError /\ cp' = NoCheckpoint /\ staged' = durable
        /\ gc' \in {gc, [gc EXCEPT !.pc = "select"], Idle}
        /\ UNCHANGED <<allocVars, addr, admitted, rewriting, discards, durable, cpError, destroyed>>
    BY DEF CpAbort, EndCheckpoint
  <1>2. UNCHANGED <<valid, ckptValid, ckptValidBlocks, segType, dirtySentries, inuse, dirty,
                    curseg, addr, admitted, rewriting, discards, durable, cpError, destroyed>>
    BY <1>1 DEF allocVars, sitVars
  <1>3. cp'.phase = "idle" /\ ~Steady'
    BY <1>1 DEF NoCheckpoint, Steady
  <1>4. TypeOK'
    <2>1. GcTyped
      BY DEF Inv, TypeOK, GcTyped
    <2>2. GcTyped'
      BY <1>1, <2>1, GcGoesOn
    <2>3. cp' \in [phase : {"idle", "blocked", "flushed", "committed"},
                   by : {"none", "sync", "gc", "trim"}]
      BY <1>1 DEF NoCheckpoint
    <2>4. staged' \in Checkpoint
      BY <1>1 DEF Inv, TypeOK
    <2> QED
      BY <1>2, <2>2, <2>3, <2>4 DEF Inv, TypeOK, GcTyped
  <1>5. PhaseInv' /\ CkptInv'
    BY <1>2, <1>3 DEF Inv, PhaseInv, CkptInv, NextFree
  <1>6. ListInv' /\ LogsInv' /\ DurableCursegsWritable'
    BY <1>2, <1>3 DEF Inv, ListInv, LogsInv, DurableCursegsWritable, UsedOffs, CurSegs
  <1>7. CkptValidBlocksExact' /\ SitMatchesAddresses' /\ CheckpointConsistent'
    BY <1>2 DEF Inv, CkptValidBlocksExact, SitMatchesAddresses, CheckpointConsistent, HoldsPages,
                UsedOffs, BlocksOf
  <1> QED
    BY <1>4, <1>5, <1>6, <1>7 DEF Inv

\* A failed write leaves everything as it is: what is lost is the assurance that
\* the next checkpoint comes.
LEMMA WriteFailed ==
    ASSUME Inv, IOError
    PROVE  Inv'
  <1>1. /\ IOErrors /\ ~cpError /\ cpError' = TRUE
        /\ UNCHANGED <<allocVars, addr, admitted, rewriting, gc, cpVars, destroyed>>
    BY DEF IOError
  <1>2. UNCHANGED <<valid, ckptValid, ckptValidBlocks, segType, dirtySentries, inuse, dirty,
                    curseg, addr, admitted, rewriting, gc, cp, staged, discards, durable, destroyed>>
    BY <1>1 DEF allocVars, sitVars, cpVars
  <1>3. Steady
    BY <1>1 DEF Steady
  <1>4. TypeOK'
    BY <1>1, <1>2 DEF Inv, TypeOK
  <1>5. PhaseInv' /\ CkptInv'
    BY <1>1, <1>2, <1>3 DEF Inv, PhaseInv, CkptInv, DirtySentriesComplete, NextFree, BlocksOf
  <1>6. ListInv' /\ LogsInv' /\ DurableCursegsWritable'
    BY <1>2, <1>3 DEF Inv, ListInv, LogsInv, CursegsWritable, DurableCursegsWritable, NextFree,
                      UsedOffs, CurSegs, BlocksOf
  <1>7. CkptValidBlocksExact' /\ SitMatchesAddresses' /\ CheckpointConsistent'
    BY <1>2 DEF Inv, CkptValidBlocksExact, SitMatchesAddresses, CheckpointConsistent, HoldsPages,
                UsedOffs, BlocksOf
  <1> QED
    BY <1>4, <1>5, <1>6, <1>7 DEF Inv

LEMMA NextInv ==
    ASSUME OneAtATime, Inv, [Next]_vars
    PROVE  Inv'
  <1>1. /\ admitted \subseteq DataPages /\ rewriting \in [Logs -> Addrs] /\ GcTyped
        /\ DataPages \subseteq Pages /\ NodePages \subseteq Pages
        /\ DataLogs \subseteq Logs /\ NodeLogs \subseteq Logs
    BY DEF Inv, TypeOK, GcTyped, Pages, DataLogs, NodeLogs
  <1>2. ASSUME NEW o \in DataPages, AdmitWrite(o) PROVE Inv'
    <2>1. /\ UNCHANGED <<allocVars, addr, rewriting, gc, cpVars, cpError, destroyed>>
          /\ admitted' = admitted \cup {o}
      BY <1>2 DEF AdmitWrite
    <2>2. PhaseInv'
      BY <2>1 DEF Inv, PhaseInv, NextFree, allocVars, cpVars
    <2> QED
      BY <1>1, <2>1, <2>2, QuietStep DEF GcTyped
  <1>3. ASSUME NEW o \in DataPages, DirectAlloc(o) PROVE Inv'
    <2>1. CURSEG_WARM_DATA \in Logs /\ cp.phase = "idle"
      BY <1>3 DEF DirectAlloc, LockOp
    <2>2. /\ DoWritePage(o, CURSEG_WARM_DATA) /\ UNCHANGED <<gc, cpVars, cpError>>
          /\ admitted' \subseteq DataPages
      BY <1>1, <1>3 DEF DirectAlloc, DoWritePage
    <2> QED
      BY <1>1, <2>1, <2>2, WrittenPage
  <1>4. ASSUME NEW o \in Pages, Truncate(o) PROVE Inv'
    BY <1>4, Truncated DEF Truncate, LockOp
  <1>5. ASSUME NEW o \in DataPages, NEW l \in DataLogs, WriteData(o, l) PROVE Inv'
    <2>1. /\ cp.phase = "idle" /\ DoWritePage(o, l) /\ UNCHANGED <<gc, cpVars, cpError>>
          /\ admitted' \subseteq DataPages
      BY <1>1, <1>5 DEF WriteData, LockOp
    <2> QED
      BY <1>1, <2>1, WrittenPage
  <1>6. ASSUME NEW o \in DataPages, NEW l \in DataLogs, GcMoveData(o, l) PROVE Inv'
    <2>1. /\ gc.pc = "move" /\ DoWritePage(o, l) /\ UNCHANGED <<gc, cpVars, cpError>>
          /\ admitted' \subseteq DataPages
      BY <1>1, <1>6 DEF GcMoveData
    <2>2. cp.phase = "idle"
      BY <2>1 DEF Inv, PhaseInv
    <2> QED
      BY <1>1, <2>1, <2>2, WrittenPage
  <1>7. ASSUME NEW o \in NodePages, NEW l \in NodeLogs, WriteNode(o, l) PROVE Inv'
    <2>1. /\ cp.phase = "idle" /\ DoWritePage(o, l) /\ UNCHANGED <<gc, cpVars, cpError>>
          /\ admitted' \subseteq DataPages
      BY <1>1, <1>7 DEF WriteNode, LockOp
    <2> QED
      BY <1>1, <2>1, WrittenPage
  <1>8. ASSUME NEW o \in NodePages, NEW l \in NodeLogs, GcMoveNode(o, l) PROVE Inv'
    <2>1. /\ cp.phase = "idle" /\ DoWritePage(o, l) /\ UNCHANGED <<gc, cpVars, cpError>>
          /\ admitted' \subseteq DataPages
      BY <1>1, <1>8 DEF GcMoveNode
    <2> QED
      BY <1>1, <2>1, WrittenPage
  <1>9. ASSUME NEW l \in Logs, ReadPrevPage(l) PROVE Inv'
    <2>1. /\ UNCHANGED <<allocVars, addr, admitted, gc, cpVars, cpError, destroyed>>
          /\ rewriting' = [rewriting EXCEPT ![l] = NextFree(l)]
          /\ cp.phase = "idle"
      BY <1>9 DEF ReadPrevPage, LockOp
    <2>2. NextFree(l) \in Addrs
      BY <2>1, NextFreeFacts DEF Addrs
    <2>3. rewriting' \in [Logs -> Addrs] /\ admitted' \subseteq DataPages /\ GcTyped'
      BY <1>1, <2>1, <2>2 DEF GcTyped
    <2>4. PhaseInv'
      <3>1. curseg' = curseg /\ cp' = cp /\ cpError' = cpError
        BY <2>1 DEF allocVars, cpVars
      <3>2. \A k \in Logs : NextFree(k)' = NextFree(k)
        BY <3>1 DEF NextFree
      <3>3. \A k \in Logs : rewriting'[k] \in {NULL_ADDR, NextFree(k)}
        BY <1>1, <2>1 DEF Inv, PhaseInv
      <3> QED
        BY <2>1, <3>1, <3>2, <3>3 DEF Inv, PhaseInv
    <2> QED
      BY <2>1, <2>3, <2>4, QuietStep
  <1>10. ASSUME NEW l \in Logs, SubmitPrevPage(l) PROVE Inv'
    <2>1. cp.phase = "idle"
      BY <1>10 DEF SubmitPrevPage, Inv, PhaseInv
    <2> QED
      BY <1>10, <2>1, SubmittedPrevPage
  <1>11. ASSUME GcStart \/ GcFinish PROVE Inv'
    <2>1. UNCHANGED <<allocVars, addr, admitted, rewriting, cpVars, cpError, destroyed>>
      BY <1>11 DEF GcStart, GcFinish
    <2>2. GcTyped'
      <3>1. gc.fg \in BOOLEAN
        BY <1>1 DEF GcTyped
      <3>2. \/ gc' = Idle
            \/ \E pc \in {"sync", "select", "final"} : \E b \in BOOLEAN :
                  gc' = [pc |-> pc, segno |-> NULL_SEGNO, fg |-> b]
        BY <1>11, <3>1 DEF GcStart, GcFinish, GcMore
      <3> QED
        BY <1>1, <3>2, GcGoesOn
    <2>3. cp.phase = "idle" \/ (cp.by = "gc" /\ gc.pc \in {"sync", "final"})
      BY <1>11 DEF GcStart, GcFinish, GcMutexFree, Inv, PhaseInv
    <2>4. cp.phase = "idle"
      BY <1>11, <2>3 DEF GcStart, GcFinish, GcMutexFree
    <2>5. PhaseInv'
      BY <2>1, <2>4 DEF Inv, PhaseInv, NextFree, allocVars, cpVars
    <2> QED
      BY <1>1, <2>1, <2>2, <2>5, QuietStep
  <1>12. ASSUME GcCheckpointSkipped PROVE Inv'
    <2>1. /\ UNCHANGED <<allocVars, addr, admitted, rewriting, cpVars, cpError, destroyed>>
          /\ cp.phase = "idle"
          /\ gc' = [gc EXCEPT !.pc = "select"] \/ gc' = Idle
      BY <1>12 DEF GcCheckpointSkipped
    <2>2. GcTyped'
      BY <1>1, <2>1, GcGoesOn
    <2>3. PhaseInv'
      BY <2>1 DEF Inv, PhaseInv, NextFree, allocVars, cpVars
    <2> QED
      BY <1>1, <2>1, <2>2, <2>3, QuietStep
  <1>13. CASE GcSelect
    BY <1>13, Selected
  <1>14. ASSUME NEW by \in {"sync", "gc", "trim"}, CpStart(by) PROVE Inv'
    BY <1>14, CheckpointStarted
  <1>15. CASE CpFlush
    BY <1>15, Flushed
  <1>16. CASE CpCommit
    BY <1>16, Committed
  <1>17. CASE CpFinish
    BY <1>17, Finished
  <1>18. ASSUME CpAbort \/ IOError PROVE Inv'
    BY <1>18, GivenUp, WriteFailed
  <1>19. CASE CrashAndMount
    BY <1>19, Remounted
  <1>20. CASE UNCHANGED vars
    <2>1. UNCHANGED <<allocVars, addr, admitted, rewriting, gc, cpVars, cpError, destroyed>>
      BY <1>20 DEF vars
    <2>2. PhaseInv'
      BY <2>1 DEF Inv, PhaseInv, NextFree, allocVars, cpVars
    <2> QED
      BY <1>1, <2>1, <2>2, QuietStep DEF GcTyped
  <1> QED
    BY <1>2, <1>3, <1>4, <1>5, <1>6, <1>7, <1>8, <1>9, <1>10, <1>11, <1>12, <1>13, <1>14,
       <1>15, <1>16, <1>17, <1>18, <1>19, <1>20 DEF Next

LEMMA NextLists ==
    ASSUME OneAtATime, Inv, SeglistInv, [Next]_vars
    PROVE  SeglistInv'
  <1>1. DataPages \subseteq Pages /\ NodePages \subseteq Pages
        /\ DataLogs \subseteq Logs /\ NodeLogs \subseteq Logs
    BY DEF Pages, DataLogs, NodeLogs
  <1>2. ASSUME NEW o \in DataPages, DirectAlloc(o) PROVE SeglistInv'
    <2>1. /\ CURSEG_WARM_DATA \in Logs /\ cp.phase = "idle" /\ cp' = cp
          /\ DoWritePage(o, CURSEG_WARM_DATA)
      BY <1>2 DEF DirectAlloc, LockOp, DoWritePage, cpVars
    <2> QED
      BY <1>1, <2>1, WrittenLists
  <1>3. ASSUME NEW o \in Pages, Truncate(o) PROVE SeglistInv'
    BY <1>3, TruncatedLists
  <1>4. ASSUME NEW o \in Pages, NEW l \in Logs,
               WriteData(o, l) \/ GcMoveData(o, l) \/ WriteNode(o, l) \/ GcMoveNode(o, l)
        PROVE  SeglistInv'
    <2>1. cp.phase = "idle"
      BY <1>4 DEF WriteData, GcMoveData, WriteNode, GcMoveNode, LockOp, Inv, PhaseInv
    <2>2. DoWritePage(o, l) /\ cp' = cp
      BY <1>4 DEF WriteData, GcMoveData, WriteNode, GcMoveNode, cpVars
    <2> QED
      BY <1>1, <2>1, <2>2, WrittenLists
  <1>5. ASSUME NEW l \in Logs, SubmitPrevPage(l) PROVE SeglistInv'
    <2>1. /\ AllocateDataBlock(l, rewriting[l]) /\ cp' = cp
          /\ rewriting[l] = NextFree(l) /\ cp.phase = "idle"
      BY <1>5 DEF SubmitPrevPage, Inv, PhaseInv, cpVars
    <2>2. NextFree(l) \in Addrs /\ Replaceable(NextFree(l), l)
      BY <2>1, NextFreeFacts DEF Addrs, Replaceable
    <2> QED
      BY <1>1, <2>1, <2>2, AllocLists
  <1>6. CASE GcSelect
    BY <1>6, SelectedLists
  <1>7. CASE CpFlush
    BY <1>7, FlushedLists
  <1>8. CASE CpFinish
    BY <1>8, FinishedLists
  <1>9. CASE CrashAndMount
    <2>1. Mounted'
      BY <1>9, RemountedAll
    <2> QED
      BY <2>1, MountedLists, PTL
  <1>10. ASSUME \/ \E o \in DataPages : AdmitWrite(o)
                \/ \E l \in Logs : ReadPrevPage(l)
                \/ GcStart \/ GcCheckpointSkipped \/ GcFinish
                \/ \E by \in {"sync", "gc", "trim"} : CpStart(by)
                \/ CpCommit \/ CpAbort \/ IOError \/ UNCHANGED vars
         PROVE SeglistInv'
    <2>1. UNCHANGED allocVars
      BY <1>10 DEF AdmitWrite, ReadPrevPage, GcStart, GcCheckpointSkipped, GcFinish, CpStart,
                   CpCommit, CpAbort, IOError, vars
    <2>2. UNCHANGED <<valid, segType, inuse, dirty, curseg>>
      BY <2>1 DEF allocVars, sitVars
    <2>3. cp'.phase \in {"flushed", "committed"} => cp.phase \in {"flushed", "committed"}
      <3>1. ASSUME NEW by \in {"sync", "gc", "trim"}, CpStart(by) PROVE cp'.phase = "blocked"
        BY <3>1 DEF CpStart
      <3>2. CpAbort => cp'.phase = "idle"
        BY DEF CpAbort, EndCheckpoint, NoCheckpoint
      <3>3. CpCommit => cp.phase = "flushed"
        BY DEF CpCommit
      <3>4. CASE cp' = cp
        BY <3>4
      <3>5. cp' = cp \/ CpCommit \/ CpAbort \/ \E by \in {"sync", "gc", "trim"} : CpStart(by)
        BY <1>10 DEF AdmitWrite, ReadPrevPage, GcStart, GcCheckpointSkipped, GcFinish, IOError,
                     vars, cpVars
      <3> QED
        BY <3>1, <3>2, <3>3, <3>4, <3>5
    <2> QED
      BY <2>2, <2>3, SeglistStable
  <1> QED
    BY <1>1, <1>2, <1>3, <1>4, <1>5, <1>6, <1>7, <1>8, <1>9, <1>10 DEF Next

\* When FITRIM is not used and no two threads are in one log at once, every
\* reachable state satisfies Inv, though writes fail and checkpoints are given up.
THEOREM Invariance ==
    ASSUME OneAtATime
    PROVE  Spec => []Inv
  <1>1. Inv /\ [Next]_vars => Inv'
    BY NextInv
  <1> QED
    BY <1>1, InitInv, PTL DEF Spec

\* The variables keep their types.
THEOREM TypeCorrect ==
    ASSUME OneAtATime
    PROVE  Spec => []TypeOK
  BY Invariance, PTL DEF Inv

\* A block is valid in the SIT exactly if one page is in it, after a failed write too.
THEOREM SitIsExact ==
    ASSUME OneAtATime
    PROVE  Spec => []SitMatchesAddresses
  BY Invariance, PTL DEF Inv

\* The SIT and the addresses that a checkpoint writes at different moments agree:
\* a checkpoint is complete or is given up, never something in between.
THEOREM CheckpointIsConsistent ==
    ASSUME OneAtATime
    PROVE  Spec => []CheckpointConsistent
  BY Invariance, PTL DEF Inv

\* The counter SSR goes by is the number of blocks in use now or in the last flush,
\* also when that flush never reached the device.
THEOREM CkptValidBlocksCorrect ==
    ASSUME OneAtATime
    PROVE  Spec => []CkptValidBlocksExact
  BY Invariance, PTL DEF Inv

\* Without failing writes no checkpoint is given up.
LEMMA SteadyInvariance ==
    ASSUME NoFaults
    PROVE  Spec => []Steady
  <1>1. Inv => Steady
    BY DEF NoFaults, Inv, PhaseInv, Steady
  <1> QED
    BY <1>1, Invariance, PTL DEF NoFaults

\* The blocks of the last complete checkpoint survive until the next one is
\* complete: allocation, SSR, foreground and background GC, discards, power
\* failures and mounts overwrite or discard none of them.
THEOREM CheckpointSurvives ==
    ASSUME NoFaults
    PROVE  Spec => []CheckpointedBlocksIntact
  <1>1. Inv => CheckpointedBlocksIntact
    BY DEF NoFaults, Inv, CkptInv, CheckpointedBlocksIntact
  <1> QED
    BY <1>1, Invariance, PTL DEF NoFaults

\* The logs always have a free block to write and never share a segment.
THEOREM LogsStayWritable ==
    ASSUME NoFaults
    PROVE  Spec => []CursegsWritable
  <1>1. Inv /\ Steady => CursegsWritable
    BY DEF Inv, LogsInv
  <1> QED
    BY <1>1, Invariance, SteadyInvariance, PTL DEF NoFaults

\* No change to a SIT entry escapes the next checkpoint.
THEOREM NoSentryForgotten ==
    ASSUME NoFaults
    PROVE  Spec => []DirtySentriesComplete
  <1>1. Inv /\ Steady => DirtySentriesComplete
    BY DEF Inv, CkptInv
  <1> QED
    BY <1>1, Invariance, SteadyInvariance, PTL DEF NoFaults

\* The lists are right; only PRE may have segments too many, after a checkpoint
\* that was given up.
LEMMA ListsInvariance ==
    ASSUME OneAtATime
    PROVE  Spec => []SeglistInv
  <1>1. Init => SeglistInv
    BY InitMounted, MountedLists
  <1>2. Inv /\ SeglistInv /\ [Next]_vars => SeglistInv'
    BY NextLists
  <1> QED
    BY <1>1, <1>2, Invariance, PTL DEF Spec

\* Garbage collection, SSR and the next checkpoint find every segment on the
\* lists that its valid blocks call for.
THEOREM SeglistCorrect ==
    ASSUME NoFaults
    PROVE  Spec => []SeglistExact
  <1>1. Inv /\ Steady /\ SeglistInv => SeglistExact
    <2> SUFFICES ASSUME Inv, Steady, SeglistInv, NEW s \in inuse \ CurSegs(curseg)
                 PROVE  /\ s \in dirty.PRE <=> valid[s] = {}
                        /\ s \in dirty.DIRTY <=> valid[s] # {} /\ valid[s] # Offsets
                        /\ \A l \in Logs : s \in dirty.ofType[l] <=> s \in dirty.DIRTY /\ segType[s] = l
      BY DEF SeglistExact
    <2>1. s \in Segs
      BY DEF Inv, TypeOK
    <2>2. s \in dirty.PRE <=> valid[s] = {}
      BY DEF Inv, ListInv, SeglistInv
    <2> QED
      BY <2>1, <2>2 DEF SeglistInv
  <1> QED
    BY <1>1, Invariance, SteadyInvariance, ListsInvariance, PTL DEF NoFaults

\* A segment that background GC has marked is dirty, and no log has it open,
\* also after failed writes and checkpoints.
THEOREM MarkedSegmentsAreDirty ==
    ASSUME OneAtATime
    PROVE  Spec => []VictimsAreDirty
  <1>1. SeglistInv => VictimsAreDirty
    BY DEF SeglistInv
  <1> QED
    BY <1>1, ListsInvariance, PTL

=============================================================================
