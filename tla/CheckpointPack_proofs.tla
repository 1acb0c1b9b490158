----------------------- MODULE CheckpointPack_proofs -----------------------
(***************************************************************************)
(* Proofs about CheckpointPack, for any SIT, journal and layouts of packs: *)
(* Inv is inductive, the properties follow from it, and a checkpoint is    *)
(* atomic: every step is one of AtomicCheckpoint, or none.                 *)
(***************************************************************************)
EXTENDS CheckpointPack, FiniteSetTheorems, TLAPS

-----------------------------------------------------------------------------
(* Layouts, versions and blocks.                                           *)

LEMMA LayoutFacts ==
    ASSUME NEW y \in Layouts
    PROVE  /\ y = [start_sum |-> y.start_sum, total |-> y.total]
           /\ y.start_sum \in Nat /\ y.total \in Nat
           /\ 0 < y.start_sum /\ y.start_sum < y.total - 1
           /\ \A i \in 0 .. (y.total - 1) : i \in Positions
  <1>1. /\ y = [start_sum |-> y.start_sum, total |-> y.total]
        /\ y.start_sum \in Nat \ {0} /\ y.total \in Nat
        /\ y.start_sum + 2 <= y.total
    BY CheckpointPackAssumption
  <1>2. \A i \in 0 .. (y.total - 1) : i \in Positions
    BY DEF Positions
  <1> HIDE DEF Positions
  <1>3. 0 < y.start_sum /\ y.start_sum < y.total - 1
    BY <1>1
  <1> QED
    BY <1>1, <1>2, <1>3

LEMMA PositionsAreNat == \A i \in Positions : i \in Nat
  BY CheckpointPackAssumption DEF Positions

LEMMA PackOfFacts ==
    ASSUME NEW v \in Nat
    PROVE  PackOf(v) \in {0, 1} /\ PackOf(v + 1) = 1 - PackOf(v)
  BY DEF PackOf

\* The versions of the two packs that mkfs writes.
LEMMA FirstPacks == PackOf(1) = 0 /\ PackOf(0) = 1
  BY DEF PackOf

LEMMA EntriesFinite ==
    ASSUME NEW D \in SUBSET Entries
    PROVE  IsFiniteSet(D) /\ Cardinality(D) \in Nat
  BY CheckpointPackAssumption, FS_Subset, FS_CardinalityType

LEMMA NoJournalFacts ==
    /\ NoJournal \in Journal
    /\ InJournal(NoJournal) = {}
    /\ Cardinality(InJournal(NoJournal)) <= JournalEntries
  <1>1. NoJournal \in Journal /\ InJournal(NoJournal) = {}
    BY DEF NoJournal, Journal, InJournal
  <1> QED
    BY <1>1, FS_EmptySet, CheckpointPackAssumption

LEMMA EmptyBlockFacts ==
    /\ EmptyBlock \in Block
    /\ EmptyBlock.kind # "cp"
    /\ EmptyBlock.journal = NoJournal
  BY NoJournalFacts DEF EmptyBlock, Block, Bitmap, Copies

LEMMA SumBlockFacts ==
    ASSUME NEW j \in Journal
    PROVE  /\ SumBlock(j) \in Block
           /\ SumBlock(j).kind # "cp"
           /\ SumBlock(j).journal = j
  BY EmptyBlockFacts DEF SumBlock, Block, EmptyBlock

LEMMA CpPageFacts ==
    ASSUME NEW v \in Nat, NEW y \in Layouts, NEW bm \in Bitmap
    PROVE  /\ CpPage(v, y, bm) \in Block
           /\ CpPage(v, y, bm).kind = "cp"
           /\ CpPage(v, y, bm).version = v
           /\ CpPage(v, y, bm).start_sum = y.start_sum
           /\ CpPage(v, y, bm).total = y.total
           /\ CpPage(v, y, bm).bitmap = bm
           /\ CpPage(v, y, bm).journal = NoJournal
  BY LayoutFacts, NoJournalFacts DEF CpPage, Block

\* Every block of a pack that do_checkpoint() prepares.
LEMMA PackBlockFacts ==
    ASSUME TypeOK, JournalFits
    PROVE  /\ PackBlock(0) = CpPage(version, cp.layout, bitmap)
           /\ PackBlock(cp.layout.total - 1) = CpPage(version, cp.layout, bitmap)
           /\ PackBlock(cp.layout.start_sum) = SumBlock(journal)
           /\ \A i \in Positions :
                /\ PackBlock(i) \in Block
                /\ Cardinality(InJournal(PackBlock(i).journal)) <= JournalEntries
                /\ PackBlock(i).kind = "cp" => /\ i \in {0, cp.layout.total - 1}
                                               /\ PackBlock(i) = CpPage(version, cp.layout, bitmap)
  <1>1. cp.layout \in Layouts /\ version \in Nat /\ bitmap \in Bitmap /\ journal \in Journal
    BY DEF TypeOK
  <1>2. cp.layout.start_sum \notin {0, cp.layout.total - 1}
    BY <1>1, LayoutFacts
  <1>3. ASSUME NEW i \in Positions
        PROVE  /\ PackBlock(i) \in Block
               /\ Cardinality(InJournal(PackBlock(i).journal)) <= JournalEntries
               /\ PackBlock(i).kind = "cp" => /\ i \in {0, cp.layout.total - 1}
                                              /\ PackBlock(i) = CpPage(version, cp.layout, bitmap)
    <2>1. CASE i \in {0, cp.layout.total - 1}
      <3>1. PackBlock(i) = CpPage(version, cp.layout, bitmap)
        BY <2>1 DEF PackBlock
      <3>2. PackBlock(i) \in Block /\ PackBlock(i).journal = NoJournal
        BY <1>1, <3>1, CpPageFacts
      <3> QED
        BY <2>1, <3>1, <3>2, NoJournalFacts
    <2>2. CASE i \notin {0, cp.layout.total - 1} /\ i = cp.layout.start_sum
      <3>1. PackBlock(i) = SumBlock(journal)
        BY <2>2 DEF PackBlock
      <3> QED
        BY <1>1, <3>1, SumBlockFacts DEF JournalFits
    <2>3. CASE i \notin {0, cp.layout.total - 1} /\ i # cp.layout.start_sum
      <3>1. PackBlock(i) = EmptyBlock
        BY <2>3 DEF PackBlock
      <3> QED
        BY <3>1, EmptyBlockFacts, NoJournalFacts
    <2> QED
      BY <2>1, <2>2, <2>3
  <1>4. /\ PackBlock(0) = CpPage(version, cp.layout, bitmap)
        /\ PackBlock(cp.layout.total - 1) = CpPage(version, cp.layout, bitmap)
        /\ PackBlock(cp.layout.start_sum) = SumBlock(journal)
    BY <1>2 DEF PackBlock
  <1> QED
    BY <1>3, <1>4

-----------------------------------------------------------------------------
(* What a mount finds.                                                     *)

LEMMA MountFacts ==
    ASSUME TypeOK, PackInv
    PROVE  /\ CurrentPack \in {0, 1}
           /\ Valid(CurrentPack)
           /\ CpPageOfMount = packs[CurrentPack][0]
           /\ CpPageOfMount \in Block
           /\ CpPageOfMount.version \in Nat
           /\ CpPageOfMount.bitmap \in Bitmap
           /\ PackOf(CpPageOfMount.version) = CurrentPack
           /\ JournalOfMount = packs[CurrentPack][CpPageOfMount.start_sum].journal
           /\ JournalOfMount \in Journal
           /\ Cardinality(InJournal(JournalOfMount)) <= JournalEntries
           /\ SitOfMount \in [Entries -> Values]
  <1>1. CurrentPack \in {0, 1} /\ Valid(CurrentPack)
    BY DEF CurrentPack, PackInv, CheckpointFound
  <1>2. CpPageOfMount = packs[CurrentPack][0] /\ CpPageOfMount.kind = "cp"
    BY <1>1 DEF CpPageOfMount, Valid
  <1>3. 0 \in Positions
    BY LayoutFacts, CheckpointPackAssumption
  <1>4. packs[CurrentPack][0] \in Block
    BY <1>1, <1>3 DEF TypeOK
  <1>5. CpPageOfMount.version \in Nat /\ CpPageOfMount.bitmap \in Bitmap
    BY <1>2, <1>4 DEF Block
  <1>6. /\ PackOf(CpPageOfMount.version) = CurrentPack
        /\ [start_sum |-> CpPageOfMount.start_sum, total |-> CpPageOfMount.total] \in Layouts
    BY <1>1, <1>2, <1>3 DEF PackInv
  <1>7. CpPageOfMount.start_sum \in Positions
    <2> DEFINE y == [start_sum |-> CpPageOfMount.start_sum, total |-> CpPageOfMount.total]
    <2>1. y \in Layouts /\ y.start_sum = CpPageOfMount.start_sum
      BY <1>6
    <2> HIDE DEF y
    <2>2. y.start_sum \in 0 .. (y.total - 1)
      BY <2>1, LayoutFacts
    <2> QED
      BY <2>1, <2>2, LayoutFacts
  <1>8. JournalOfMount = packs[CurrentPack][CpPageOfMount.start_sum].journal
    BY <1>6 DEF JournalOfMount
  <1>9. packs[CurrentPack][CpPageOfMount.start_sum] \in Block
    BY <1>1, <1>7 DEF TypeOK
  <1>10. JournalOfMount \in Journal /\ Cardinality(InJournal(JournalOfMount)) <= JournalEntries
    BY <1>1, <1>7, <1>8, <1>9 DEF Block, PackInv
  <1>11. SitOfMount \in [Entries -> Values]
    <2>1. ASSUME NEW e \in Entries
          PROVE  (IF JournalOfMount[e] # NoValue THEN JournalOfMount[e]
                  ELSE table[CpPageOfMount.bitmap[BlockOf[e]]][e]) \in Values
      <3>1. JournalOfMount[e] \in Values \cup {NoValue}
        BY <1>10 DEF Journal
      <3>2. CpPageOfMount.bitmap[BlockOf[e]] \in Copies
        BY <1>5, CheckpointPackAssumption DEF Bitmap
      <3>3. table[CpPageOfMount.bitmap[BlockOf[e]]][e] \in Values
        BY <3>2 DEF TypeOK
      <3> QED
        BY <3>1, <3>3
    <2> QED
      BY <2>1 DEF SitOfMount
  <1> QED
    BY <1>1, <1>2, <1>4, <1>5, <1>6, <1>8, <1>10, <1>11

\* The packs decide which checkpoint is found.
LEMMA SamePacks ==
    ASSUME packs' = packs
    PROVE  /\ CurrentPack' = CurrentPack
           /\ CpPageOfMount' = CpPageOfMount
           /\ JournalOfMount' = JournalOfMount
           /\ Valid(0)' = Valid(0) /\ Valid(1)' = Valid(1)
  BY DEF CurrentPack, CpPageOfMount, JournalOfMount, Valid, PackOf

\* A write of copies that are not in use changes nothing of what a mount finds.
LEMMA SameSit ==
    ASSUME packs' = packs,
           \A e \in Entries : table'[CpPageOfMount.bitmap[BlockOf[e]]][e]
                              = table[CpPageOfMount.bitmap[BlockOf[e]]][e]
    PROVE  SitOfMount' = SitOfMount
  BY SamePacks DEF SitOfMount

-----------------------------------------------------------------------------
(* The initial state.                                                      *)

LEMMA InitInv == Init => Inv /\ SitOfMount = sit
  <1> SUFFICES ASSUME Init PROVE Inv /\ SitOfMount = sit
    OBVIOUS
  <1>1. /\ InitialValue \in Values /\ NoValue \notin Values
        /\ BlockOf \in [Entries -> SitBlocks]
        /\ Layout0 \in Layouts
    BY CheckpointPackAssumption
  <1>2. /\ 0 < Layout0.start_sum /\ Layout0.start_sum < Layout0.total - 1
        /\ Layout0.start_sum \in Nat /\ Layout0.total \in Nat
        /\ 0 \in Positions /\ Layout0.start_sum \in Positions /\ Layout0.total - 1 \in Positions
        /\ Layout0 = [start_sum |-> Layout0.start_sum, total |-> Layout0.total]
    BY <1>1, LayoutFacts
  <1> USE DEF Init
  <1>3. bitmap \in Bitmap /\ journal \in Journal
    BY <1>1 DEF Bitmap, Journal, Copies
  <1>4. InJournal(journal) = LogEntries
    BY <1>1, CheckpointPackAssumption DEF InJournal
  <1>5. JournalFits
    BY <1>4, CheckpointPackAssumption DEF JournalFits
  <1>6. \A p \in {0, 1} :
          /\ 1 - p \in Nat
          /\ CpPage(1 - p, Layout0, bitmap) \in Block
          /\ CpPage(1 - p, Layout0, bitmap).kind = "cp"
          /\ CpPage(1 - p, Layout0, bitmap).version = 1 - p
          /\ CpPage(1 - p, Layout0, bitmap).start_sum = Layout0.start_sum
          /\ CpPage(1 - p, Layout0, bitmap).total = Layout0.total
          /\ CpPage(1 - p, Layout0, bitmap).bitmap = bitmap
          /\ CpPage(1 - p, Layout0, bitmap).journal = NoJournal
    <2> TAKE p \in {0, 1}
    <2>1. 1 - p \in Nat
      OBVIOUS
    <2> QED
      BY <1>1, <1>3, <2>1, CpPageFacts
  <1>7. \A p \in {0, 1}, i \in Positions :
          \/ i \in {0, Layout0.total - 1} /\ packs[p][i] = CpPage(1 - p, Layout0, bitmap)
          \/ i \notin {0, Layout0.total - 1} /\ packs[p][i] \in {SumBlock(journal), EmptyBlock}
    OBVIOUS
  <1>8. \A p \in {0, 1}, i \in Positions : packs[p][i] \in Block
    BY <1>3, <1>6, <1>7, SumBlockFacts, EmptyBlockFacts
  <1>9. TypeOK
    <2>1. packs \in [{0, 1} -> [Positions -> Block]]
      BY <1>8
    <2>2. cp \in [phase : {"off", "idle", "meta", "pack"}, layout : Layouts, written : Nat]
          /\ cp.written <= cp.layout.total
      BY <1>1, <1>2 DEF NoPack
    <2>3. meta \in [Copies -> [Entries -> Values]]
      BY <1>1
    <2> QED
      BY <1>1, <1>3, <2>1, <2>2, <2>3 DEF TypeOK
  <1>10. /\ packs[0][0] = CpPage(1, Layout0, bitmap)
         /\ packs[0][Layout0.total - 1] = CpPage(1, Layout0, bitmap)
         /\ packs[1][0] = CpPage(0, Layout0, bitmap)
         /\ packs[0][Layout0.start_sum] = SumBlock(journal)
    BY <1>2
  <1>11. /\ CpPage(1, Layout0, bitmap).kind = "cp"
         /\ CpPage(1, Layout0, bitmap).version = 1
         /\ CpPage(1, Layout0, bitmap).total = Layout0.total
         /\ CpPage(1, Layout0, bitmap).start_sum = Layout0.start_sum
         /\ CpPage(1, Layout0, bitmap).bitmap = bitmap
         /\ CpPage(0, Layout0, bitmap).version = 0
    BY <1>1, <1>3, CpPageFacts
  <1> HIDE DEF Init
  <1>12. Valid(0) /\ CurrentPack = 0
    <2>1. Valid(0)
      BY <1>10, <1>11 DEF Valid
    <2>2. ~(packs[1][0].version > packs[0][0].version)
      BY <1>10, <1>11
    <2> QED
      BY <2>1, <2>2 DEF CurrentPack
  <1> USE DEF Init
  <1>13. CpPageOfMount = CpPage(1, Layout0, bitmap)
    BY <1>10, <1>12 DEF CpPageOfMount
  <1>14. JournalOfMount = journal
    BY <1>3, <1>10, <1>11, <1>13, FirstPacks, SumBlockFacts DEF JournalOfMount
  <1>15. SitOfMount = sit
    <2>1. ASSUME NEW e \in Entries
          PROVE  (IF JournalOfMount[e] # NoValue THEN JournalOfMount[e]
                  ELSE table[CpPageOfMount.bitmap[BlockOf[e]]][e]) = InitialValue
      <3>1. CpPageOfMount.bitmap[BlockOf[e]] = 0
        BY <1>1, <1>11, <1>13
      <3>2. table[0][e] = InitialValue
        BY DEF Copies
      <3> QED
        BY <1>14, <3>1, <3>2
    <2> QED
      BY <2>1 DEF SitOfMount
  <1>16. CheckpointFound
    BY <1>11, <1>12, <1>13 DEF CheckpointFound
  <1>17. PackInv
    <2> SUFFICES ASSUME NEW p \in {0, 1}, NEW i \in Positions
                 PROVE  /\ Cardinality(InJournal(packs[p][i].journal)) <= JournalEntries
                        /\ packs[p][i].kind = "cp" =>
                             /\ PackOf(packs[p][i].version) = p
                             /\ [start_sum |-> packs[p][i].start_sum, total |-> packs[p][i].total]
                                  \in Layouts
                             /\ packs[p][i].version
                                  <= CpPageOfMount.version + Indicator(i = 0)
      BY <1>16 DEF PackInv
    <2>1. CASE packs[p][i] = CpPage(1 - p, Layout0, bitmap)
      <3>1. packs[p][i].journal = NoJournal /\ packs[p][i].version = 1 - p
        BY <1>6, <2>1
      <3>2. PackOf(1 - p) = p
        BY FirstPacks
      <3>3. [start_sum |-> packs[p][i].start_sum, total |-> packs[p][i].total] = Layout0
        BY <1>2, <1>6, <2>1
      <3>4. 1 - p <= CpPageOfMount.version + Indicator(i = 0)
        BY <1>11, <1>13 DEF Indicator
      <3> QED
        BY <1>1, <3>1, <3>2, <3>3, <3>4, NoJournalFacts
    <2>2. CASE packs[p][i] = SumBlock(journal)
      BY <1>3, <1>5, <2>2, SumBlockFacts DEF JournalFits
    <2>3. CASE packs[p][i] = EmptyBlock
      BY <2>3, EmptyBlockFacts, NoJournalFacts
    <2> QED
      BY <1>7, <2>1, <2>2, <2>3
  <1>18. PhaseInv
    BY <1>11, <1>13 DEF PhaseInv, NoPack
  <1>19. TableInv
    BY <1>11, <1>13, <1>14, <1>15 DEF TableInv, NoPack
  <1>20. LiveCopiesUntouched
    BY DEF LiveCopiesUntouched
  <1> QED
    BY <1>5, <1>9, <1>15, <1>17, <1>18, <1>19, <1>20 DEF Inv

-----------------------------------------------------------------------------
(* Steps that write no block of a pack: a mount finds the same before and  *)
(* after them.                                                             *)

LEMMA PackInvKept ==
    ASSUME PackInv, packs' = packs,
           cp'.phase # "off" => CpPageOfMount.version \in {version' - 1, version'}
    PROVE  PackInv'
  <1>1. CheckpointFound'
    BY SamePacks DEF PackInv, CheckpointFound
  <1>2. CpPageOfMount' = CpPageOfMount /\ CurrentPack' = CurrentPack
    BY SamePacks
  <1>3. \A J : InJournal(J)' = InJournal(J)
    BY DEF InJournal
  <1> QED
    BY <1>1, <1>2, <1>3 DEF PackInv, PackOf

LEMMA SetEntryStep ==
    ASSUME Inv, NEW e \in Entries, NEW v \in Values, SetEntry(e, v)
    PROVE  Inv' /\ SitOfMount' = SitOfMount
  <1> USE DEF Inv, SetEntry, devVars
  <1>1. TypeOK'
    BY DEF TypeOK
  <1>2. SitOfMount' = SitOfMount
    BY SameSit
  <1>3. PackInv'
    <2>1. CpPageOfMount.version \in {version - 1, version}
      BY DEF PackInv, CheckpointFound
    <2> QED
      BY <2>1, PackInvKept
  <1>4. LiveCopiesUntouched'
    BY SamePacks DEF LiveCopiesUntouched
  <1>5. JournalFits'
    BY DEF JournalFits, InJournal
  <1>6. PhaseInv'
    BY SamePacks DEF PhaseInv
  <1>7. TableInv'
    <2>1. ASSUME NEW f \in Entries \ dirtyEntries' PROVE sit'[f] = sit[f] /\ f \notin dirtyEntries
      BY DEF TypeOK
    <2> QED
      BY <1>2, <2>1, SamePacks DEF TableInv
  <1> QED
    BY <1>1, <1>2, <1>3, <1>4, <1>5, <1>6, <1>7

LEMMA CpWriteMetaStep ==
    ASSUME Inv, NEW p \in Pages, CpWriteMeta(p)
    PROVE  Inv' /\ SitOfMount' = SitOfMount
  <1> USE DEF Inv, CpWriteMeta
  <1>1. TypeOK'
    BY DEF TypeOK
  <1>2. SitOfMount' = SitOfMount
    BY SameSit
  <1>3. PackInv'
    <2>1. CpPageOfMount.version \in {version - 1, version}
      BY DEF PackInv, CheckpointFound
    <2> QED
      BY <2>1, PackInvKept
  <1>4. dirtyPages' \cup cachedPages' = dirtyPages \cup cachedPages
    OBVIOUS
  <1>5. LiveCopiesUntouched'
    BY <1>4, SamePacks DEF LiveCopiesUntouched
  <1>6. JournalFits'
    BY DEF JournalFits, InJournal
  <1>7. PhaseInv'
    BY SamePacks DEF PhaseInv
  <1>8. TableInv'
    BY <1>4 DEF TableInv
  <1> QED
    BY <1>1, <1>2, <1>3, <1>5, <1>6, <1>7, <1>8

\* The medium has taken pages that are not of a copy in use.
LEMMA WrittenFacts ==
    ASSUME TypeOK, PackInv, LiveCopiesUntouched,
           NEW S \in SUBSET cachedPages, table' = Written(S), packs' = packs
    PROVE  /\ table' \in [Copies -> [Entries -> Values]]
           /\ SitOfMount' = SitOfMount
           /\ \A c \in Copies, e \in Entries :
                table'[c][e] = IF <<BlockOf[e], c>> \in S THEN meta[c][e] ELSE table[c][e]
  <1>1. \A c \in Copies, e \in Entries :
          table'[c][e] = IF <<BlockOf[e], c>> \in S THEN meta[c][e] ELSE table[c][e]
    BY DEF Written
  <1>2. table' \in [Copies -> [Entries -> Values]]
    BY DEF Written, TypeOK
  <1>3. ASSUME NEW e \in Entries
        PROVE  table'[CpPageOfMount.bitmap[BlockOf[e]]][e]
                 = table[CpPageOfMount.bitmap[BlockOf[e]]][e]
    <2>1. BlockOf[e] \in SitBlocks
      BY CheckpointPackAssumption
    <2>2. CpPageOfMount.bitmap[BlockOf[e]] \in Copies
      BY <2>1, MountFacts DEF Bitmap
    <2>3. <<BlockOf[e], CpPageOfMount.bitmap[BlockOf[e]]>> \notin S
      BY DEF LiveCopiesUntouched
    <2> QED
      BY <1>1, <2>2, <2>3
  <1> QED
    BY <1>1, <1>2, <1>3, SameSit

LEMMA WriteBackStep ==
    ASSUME Inv, NEW p \in Pages, WriteBack(p)
    PROVE  Inv' /\ SitOfMount' = SitOfMount
  <1> USE DEF Inv, WriteBack, memVars
  <1>1. {p} \in SUBSET cachedPages
    OBVIOUS
  <1>2. /\ table' \in [Copies -> [Entries -> Values]]
        /\ SitOfMount' = SitOfMount
        /\ \A c \in Copies, e \in Entries :
             table'[c][e] = IF <<BlockOf[e], c>> \in {p} THEN meta[c][e] ELSE table[c][e]
    BY <1>1, WrittenFacts
  <1>3. TypeOK'
    BY <1>2 DEF TypeOK
  <1>4. PackInv'
    <2>1. cp.phase # "off" => CpPageOfMount.version \in {version - 1, version}
      BY DEF PackInv, CheckpointFound
    <2> QED
      BY <2>1, PackInvKept
  <1>5. LiveCopiesUntouched'
    BY SamePacks DEF LiveCopiesUntouched
  <1>6. JournalFits'
    BY DEF JournalFits, InJournal
  <1>7. PhaseInv'
    BY SamePacks DEF PhaseInv
  <1>8. TableInv'
    <2>1. ASSUME cp.phase # "off", NEW e \in Entries, NEW c \in Copies,
                 <<BlockOf[e], c>> \notin dirtyPages \cup cachedPages'
          PROVE  meta[c][e] = table'[c][e]
      BY <1>2, <2>1 DEF TableInv
    <2> QED
      BY <1>2, <2>1, SamePacks DEF TableInv
  <1> QED
    BY <1>2, <1>3, <1>4, <1>5, <1>6, <1>7, <1>8

LEMMA CpSubmitPackStep ==
    ASSUME Inv, CpSubmitPack
    PROVE  Inv' /\ SitOfMount' = SitOfMount
  <1> USE DEF Inv, CpSubmitPack, memVars
  <1>1. PICK y \in Layouts : cp' = [phase |-> "pack", layout |-> y, written |-> 0]
    OBVIOUS
  <1>2. /\ table' \in [Copies -> [Entries -> Values]]
        /\ SitOfMount' = SitOfMount
        /\ \A c \in Copies, e \in Entries :
             table'[c][e] = IF <<BlockOf[e], c>> \in cachedPages THEN meta[c][e] ELSE table[c][e]
    BY WrittenFacts
  <1>3. y.total \in Nat /\ 0 < y.total
    BY LayoutFacts
  <1>4. TypeOK'
    BY <1>1, <1>2, <1>3 DEF TypeOK
  <1>5. PackInv'
    <2>1. CpPageOfMount.version \in {version - 1, version}
      BY DEF PackInv, CheckpointFound
    <2> QED
      BY <2>1, PackInvKept
  <1>6. LiveCopiesUntouched'
    BY DEF LiveCopiesUntouched
  <1>7. JournalFits'
    BY DEF JournalFits, InJournal
  <1>8. PhaseInv'
    BY <1>1, <1>3, SamePacks DEF PhaseInv, Indicator
  <1>9. TableInv'
    <2>1. ASSUME NEW e \in Entries, NEW c \in Copies PROVE meta[c][e] = table'[c][e]
      BY <1>2 DEF TableInv
    <2> QED
      BY <1>1, <2>1 DEF TableInv
  <1> QED
    BY <1>2, <1>4, <1>5, <1>6, <1>7, <1>8, <1>9

\* The pack that is complete holds what memory holds.
LEMMA CompletePack ==
    ASSUME Inv, cp.phase = "pack", cp.written = cp.layout.total
    PROVE  /\ version = CpPageOfMount.version
           /\ bitmap = CpPageOfMount.bitmap
           /\ journal = JournalOfMount
  <1> USE DEF Inv
  <1>1. cp.layout \in Layouts /\ version \in Nat /\ bitmap \in Bitmap /\ journal \in Journal
    BY DEF TypeOK
  <1>2. version = CpPageOfMount.version
    BY <1>1, LayoutFacts, MountFacts DEF PhaseInv, Indicator
  <1>3. /\ 0 \in 0 .. (cp.written - 1)
        /\ cp.layout.start_sum \in 0 .. (cp.written - 1)
    BY <1>1, LayoutFacts
  <1>4. /\ packs[PackOf(version)][0] = CpPage(version, cp.layout, bitmap)
        /\ packs[PackOf(version)][cp.layout.start_sum] = SumBlock(journal)
    BY <1>3, PackBlockFacts DEF PhaseInv
  <1>5. PackOf(version) = CurrentPack /\ CpPageOfMount = packs[CurrentPack][0]
    BY <1>2, MountFacts
  <1>6. CpPageOfMount.bitmap = bitmap /\ CpPageOfMount.start_sum = cp.layout.start_sum
    BY <1>1, <1>4, <1>5, CpPageFacts
  <1>7. JournalOfMount = SumBlock(journal).journal
    BY <1>4, <1>5, <1>6, MountFacts
  <1> QED
    BY <1>1, <1>2, <1>6, <1>7, SumBlockFacts

\* Once the pack is complete, a mount finds the SIT as it is.
LEMMA CompletePackSit ==
    ASSUME Inv, cp.phase = "pack", cp.written = cp.layout.total
    PROVE  SitOfMount = sit
  <1> USE DEF Inv
  <1>1. bitmap = CpPageOfMount.bitmap /\ journal = JournalOfMount
    BY CompletePack
  <1>2. ASSUME NEW e \in Entries PROVE SitOfMount[e] = sit[e]
    <2>1. bitmap[BlockOf[e]] \in Copies
      BY CheckpointPackAssumption DEF TypeOK, Bitmap
    <2>2. meta[bitmap[BlockOf[e]]][e] = table[bitmap[BlockOf[e]]][e]
      BY <2>1 DEF TableInv, PhaseInv
    <2> QED
      BY <1>1, <2>2 DEF SitOfMount, TableInv
  <1>3. sit \in [Entries -> Values] /\ SitOfMount \in [Entries -> Values]
    BY MountFacts DEF TypeOK
  <1> QED
    BY <1>2, <1>3

LEMMA CpFinishStep ==
    ASSUME Inv, CpFinish
    PROVE  Inv' /\ SitOfMount' = SitOfMount
  <1> USE DEF Inv, CpFinish, memVars, devVars
  <1>1. TypeOK'
    BY CheckpointPackAssumption, LayoutFacts DEF TypeOK, NoPack
  <1>2. SitOfMount' = SitOfMount
    BY SameSit
  <1>3. PackInv'
    <2>1. CpPageOfMount.version \in {version - 1, version}
      BY DEF PackInv, CheckpointFound
    <2> QED
      BY <2>1, PackInvKept
  <1>4. LiveCopiesUntouched'
    BY SamePacks DEF LiveCopiesUntouched
  <1>5. JournalFits'
    BY DEF JournalFits, InJournal
  <1>6. PhaseInv'
    BY CompletePack, SamePacks DEF PhaseInv, NoPack
  <1>7. TableInv'
    <2>1. SitOfMount = sit
      BY CompletePackSit
    <2>2. \A e \in Entries, c \in Copies :
            <<BlockOf[e], c>> \notin dirtyPages \cup cachedPages => meta[c][e] = table[c][e]
      BY DEF TableInv
    <2> QED
      BY <1>2, <2>1, <2>2, CompletePack, SamePacks DEF TableInv, NoPack
  <1> QED
    BY <1>1, <1>2, <1>3, <1>4, <1>5, <1>6, <1>7

LEMMA CpAbortStep ==
    ASSUME Inv, CpAbort
    PROVE  Inv' /\ SitOfMount' = SitOfMount
  <1> USE DEF Inv, CpAbort, memVars, devVars
  <1>1. TypeOK'
    BY CheckpointPackAssumption, LayoutFacts DEF TypeOK, NoPack
  <1>2. SitOfMount' = SitOfMount
    BY SameSit
  <1>3. PackInv'
    <2>1. CpPageOfMount.version \in {version - 1, version}
      BY DEF PackInv, CheckpointFound
    <2> QED
      BY <2>1, PackInvKept
  <1>4. LiveCopiesUntouched'
    BY SamePacks DEF LiveCopiesUntouched
  <1>5. JournalFits'
    BY DEF JournalFits, InJournal
  <1>6. PhaseInv'
    BY DEF PhaseInv, NoPack
  <1>7. TableInv'
    BY DEF TableInv, NoPack
  <1> QED
    BY <1>1, <1>2, <1>3, <1>4, <1>5, <1>6, <1>7

LEMMA IOErrorStep ==
    ASSUME Inv, IOError
    PROVE  Inv' /\ SitOfMount' = SitOfMount
  <1> USE DEF Inv, IOError
  <1>1. PICK S \in SUBSET cachedPages : /\ S # {} => cp.phase = "meta"
                                        /\ cachedPages' = cachedPages \ S
                                        /\ dirtyPages' = dirtyPages \cup S
    OBVIOUS
  <1>2. TypeOK'
    BY <1>1 DEF TypeOK
  <1>3. SitOfMount' = SitOfMount
    BY SameSit
  <1>4. PackInv'
    <2>1. CpPageOfMount.version \in {version - 1, version}
      BY DEF PackInv, CheckpointFound
    <2> QED
      BY <2>1, PackInvKept
  <1>5. dirtyPages' \cup cachedPages' = dirtyPages \cup cachedPages
    BY <1>1
  <1>6. LiveCopiesUntouched'
    BY <1>5, SamePacks DEF LiveCopiesUntouched
  <1>7. JournalFits'
    BY DEF JournalFits, InJournal
  <1>8. PhaseInv'
    <2>1. CASE cp.phase = "meta"
      BY <2>1, SamePacks DEF PhaseInv
    <2>2. CASE cp.phase = "pack"
      <3>1. S = {} /\ dirtyPages' = {} /\ cachedPages' = {}
        BY <1>1, <2>2 DEF PhaseInv
      <3>2. \A i \in 0 .. (cp.written - 1) : PackBlock(i)' = PackBlock(i)
        BY DEF PackBlock
      <3> QED
        BY <2>2, <3>1, <3>2, SamePacks DEF PhaseInv, PackOf
    <2> QED
      BY <2>1, <2>2
  <1>9. TableInv'
    BY <1>5 DEF TableInv
  <1> QED
    BY <1>2, <1>3, <1>4, <1>6, <1>7, <1>8, <1>9

LEMMA PowerFailStep ==
    ASSUME Inv, PowerFail
    PROVE  Inv' /\ SitOfMount' = SitOfMount
  <1> USE DEF Inv, PowerFail
  <1>1. cp' = [phase |-> "off", layout |-> Layout0, written |-> 0]
    BY DEF NoPack
  <1>2. TypeOK'
    <2>1. InitialValue \in Values /\ Layout0 \in Layouts /\ Layout0.total \in Nat
      BY CheckpointPackAssumption
    <2>2. journal' \in Journal /\ bitmap' \in Bitmap
      BY NoJournalFacts DEF Bitmap, Copies
    <2>3. /\ cp' \in [phase : {"off", "idle", "meta", "pack"}, layout : Layouts, written : Nat]
          /\ cp'.written <= cp'.layout.total
      <3> HIDE DEF PowerFail, Inv
      <3> QED
        BY <1>1, <2>1
    <2>4. sit' \in [Entries -> Values] /\ meta' \in [Copies -> [Entries -> Values]]
      BY <2>1
    <2> QED
      BY <2>2, <2>3, <2>4 DEF TypeOK
  <1>3. SitOfMount' = SitOfMount
    BY SameSit
  <1>4. PackInv'
    BY <1>1, PackInvKept
  <1>5. LiveCopiesUntouched'
    BY DEF LiveCopiesUntouched
  <1>6. JournalFits'
    BY NoJournalFacts DEF JournalFits, InJournal
  <1>7. PhaseInv'
    BY <1>1 DEF PhaseInv
  <1>8. TableInv'
    BY <1>1 DEF TableInv
  <1> QED
    BY <1>2, <1>3, <1>4, <1>5, <1>6, <1>7, <1>8

LEMMA MountStep ==
    ASSUME Inv, Mount
    PROVE  Inv' /\ SitOfMount' = SitOfMount
  <1> USE DEF Inv, Mount, devVars
  <1>1. cp' = [phase |-> "idle", layout |-> Layout0, written |-> 0]
    BY DEF NoPack
  <1>2. TypeOK'
    <2>1. /\ cp' \in [phase : {"off", "idle", "meta", "pack"}, layout : Layouts, written : Nat]
          /\ cp'.written <= cp'.layout.total
      BY <1>1, CheckpointPackAssumption, LayoutFacts
    <2> QED
      BY <2>1, MountFacts DEF TypeOK
  <1>3. SitOfMount' = SitOfMount
    BY SameSit
  <1>4. PackInv'
    BY <1>1, PackInvKept, MountFacts
  <1>5. LiveCopiesUntouched'
    BY SamePacks DEF LiveCopiesUntouched
  <1>6. JournalFits'
    BY MountFacts DEF JournalFits, InJournal
  <1>7. PhaseInv'
    BY <1>1, SamePacks DEF PhaseInv
  <1>8. TableInv'
    BY <1>1, <1>3, SamePacks DEF TableInv
  <1> QED
    BY <1>2, <1>3, <1>4, <1>5, <1>6, <1>7, <1>8

-----------------------------------------------------------------------------
(* flush_sit_entries().                                                    *)

LEMMA HasSpaceFacts ==
    ASSUME NEW j, NEW size, HasCursumSpace(size, j)
    PROVE  size <= JournalEntries - Cardinality(InJournal(j))
  BY DEF HasCursumSpace

\* Either all dirty entries go to the journal, or the journal is emptied first.
LEMMA FlushFacts ==
    ASSUME TypeOK, JournalFits, NEW J \in SUBSET SitBlocks,
           GoToJournal(J, FlushJournal.flush, FlushJournal.journal)
    PROVE  /\ FlushJournal.flush \in SUBSET Entries
           /\ FlushJournal.journal \in Journal
           /\ dirtyEntries \subseteq FlushJournal.flush
           /\ \/ /\ FlushJournal.journal = journal
                 /\ \A e \in FlushJournal.flush : BlockOf[e] \in J
              \/ /\ FlushJournal.journal = NoJournal
                 /\ InJournal(journal) \subseteq FlushJournal.flush
  <1>1. CASE HasCursumSpace(Cardinality(dirtyEntries), journal)
    <2>1. FlushJournal.flush = dirtyEntries /\ FlushJournal.journal = journal
      BY <1>1 DEF FlushJournal
    <2> DEFINE blocks == {BlockOf[e] : e \in dirtyEntries}
    <2>2. ASSUME NEW c \in blocks PROVE HasCursumSpace(Count(dirtyEntries, J \cup {c}), journal)
      <3> DEFINE D == {e \in dirtyEntries : BlockOf[e] \in J \cup {c}}
      <3>1. D \in SUBSET dirtyEntries /\ dirtyEntries \in SUBSET Entries
        BY DEF TypeOK
      <3>2. IsFiniteSet(dirtyEntries) /\ Cardinality(dirtyEntries) \in Nat
        BY <3>1, EntriesFinite
      <3>3. Cardinality(D) <= Cardinality(dirtyEntries) /\ Cardinality(D) \in Nat
        BY <3>1, <3>2, FS_Subset, FS_CardinalityType
      <3>4. Cardinality(InJournal(journal)) \in Nat
        BY EntriesFinite DEF InJournal
      <3>5. Cardinality(dirtyEntries) <= JournalEntries - Cardinality(InJournal(journal))
        BY <1>1, HasSpaceFacts
      <3>6. Count(dirtyEntries, J \cup {c}) = Cardinality(D)
        BY DEF Count
      <3> HIDE DEF D
      <3> QED
        BY <3>2, <3>3, <3>4, <3>5, <3>6, CheckpointPackAssumption DEF HasCursumSpace
    <2>3. J = blocks
      BY <2>1, <2>2 DEF GoToJournal
    <2> QED
      BY <2>1, <2>3 DEF TypeOK
  <1>2. CASE ~HasCursumSpace(Cardinality(dirtyEntries), journal)
    <2>1. /\ FlushJournal.flush = dirtyEntries \cup InJournal(journal)
          /\ FlushJournal.journal = NoJournal
      BY <1>2 DEF FlushJournal
    <2> QED
      BY <2>1, NoJournalFacts DEF TypeOK, InJournal
  <1> QED
    BY <1>1, <1>2

\* What flush_sit_entries() puts in the journal fits.
LEMMA FlushedJournalFits ==
    ASSUME NEW D \in SUBSET Entries, NEW j \in Journal, NEW J \in SUBSET SitBlocks,
           GoToJournal(J, D, j),
           NEW j2, j2 = [e \in Entries |-> IF e \in D /\ BlockOf[e] \in J THEN sit[e] ELSE j[e]]
    PROVE  Cardinality(InJournal(j2)) <= JournalEntries
  <1> DEFINE A == {e \in D : BlockOf[e] \in J}
             B == InJournal(j)
             U == A \cup B
  <1>1. A \in SUBSET Entries /\ B \in SUBSET Entries /\ InJournal(j2) \in SUBSET U
    BY DEF InJournal
  <1>2. Cardinality(A) <= JournalEntries - Cardinality(B)
    BY HasSpaceFacts DEF GoToJournal, Count
  <1> HIDE DEF A, B
  <1>3. U \in SUBSET Entries
    BY <1>1
  <1>4. /\ IsFiniteSet(A) /\ Cardinality(A) \in Nat
        /\ IsFiniteSet(B) /\ Cardinality(B) \in Nat
        /\ IsFiniteSet(U) /\ Cardinality(U) \in Nat
    BY <1>1, <1>3, EntriesFinite
  <1>5. Cardinality(U) <= Cardinality(A) + Cardinality(B)
    <2>1. /\ Cardinality(U) = Cardinality(A) + Cardinality(B) - Cardinality(A \cap B)
          /\ IsFiniteSet(A \cap B)
      BY <1>4, FS_Union, FS_Intersection
    <2>2. Cardinality(A \cap B) \in Nat
      BY <2>1, FS_CardinalityType
    <2> HIDE DEF U
    <2> QED
      BY <1>4, <2>1, <2>2
  <1> HIDE DEF U
  <1>6. Cardinality(InJournal(j2)) <= Cardinality(U) /\ Cardinality(InJournal(j2)) \in Nat
    BY <1>1, <1>4, FS_Subset, FS_CardinalityType
  <1> QED
    BY <1>2, <1>4, <1>5, <1>6, CheckpointPackAssumption

LEMMA CpFlushStep ==
    ASSUME Inv, CpFlush
    PROVE  Inv' /\ SitOfMount' = SitOfMount
  <1> USE DEF Inv
  <1> DEFINE D == FlushJournal.flush
             j == FlushJournal.journal
             moved(J) == {BlockOf[e] : e \in D} \ J
  <1>1. PICK J \in SUBSET SitBlocks :
          /\ GoToJournal(J, D, j)
          /\ journal' = [e \in Entries |-> IF e \in D /\ BlockOf[e] \in J THEN sit[e] ELSE j[e]]
          /\ bitmap' = [b \in SitBlocks |-> IF b \in moved(J) THEN NextCopy(b) ELSE bitmap[b]]
          /\ meta' = [c \in Copies |-> [e \in Entries |->
                        IF BlockOf[e] \in moved(J) /\ c = NextCopy(BlockOf[e])
                        THEN IF e \in D THEN sit[e] ELSE meta[bitmap[BlockOf[e]]][e]
                        ELSE meta[c][e]]]
          /\ dirtyPages' = dirtyPages \cup {<<b, NextCopy(b)>> : b \in moved(J)}
    BY DEF CpFlush
  <1>2. /\ cp.phase = "idle" /\ ~cpError
        /\ version' = version + 1
        /\ dirtyEntries' = {}
        /\ cp' = [cp EXCEPT !.phase = "meta"]
        /\ sit' = sit /\ cpError' = cpError
        /\ cachedPages' = cachedPages /\ table' = table /\ packs' = packs
    BY DEF CpFlush, devVars
  <1> DEFINE M == moved(J)
  <1>3. /\ D \in SUBSET Entries /\ j \in Journal /\ dirtyEntries \subseteq D
        /\ \/ j = journal /\ \A e \in D : BlockOf[e] \in J
           \/ j = NoJournal /\ InJournal(journal) \subseteq D
    BY <1>1, FlushFacts
  <1>4. /\ M \in SUBSET SitBlocks
        /\ \A e \in D : BlockOf[e] \in J \/ BlockOf[e] \in M
        /\ \/ j = NoJournal /\ InJournal(journal) \subseteq D
           \/ j = journal /\ M = {}
    BY <1>3, CheckpointPackAssumption
  <1> HIDE DEF D, j, M
  <1>5. \A b \in SitBlocks : bitmap[b] \in Copies /\ NextCopy(b) \in Copies /\ NextCopy(b) # bitmap[b]
    BY DEF TypeOK, Bitmap, Copies, NextCopy
  <1>6. /\ version = CpPageOfMount.version
        /\ bitmap = CpPageOfMount.bitmap
        /\ journal = JournalOfMount
        /\ \A e \in Entries \ dirtyEntries : sit[e] = SitOfMount[e]
    BY <1>2 DEF PhaseInv, TableInv
  <1>7. TypeOK'
    <2>1. journal' \in Journal
      BY <1>1, <1>3 DEF Journal, TypeOK
    <2>2. bitmap' \in Bitmap
      BY <1>1, <1>5 DEF Bitmap, M
    <2>3. meta' \in [Copies -> [Entries -> Values]]
      <3>1. ASSUME NEW c \in Copies, NEW e \in Entries
            PROVE  (IF BlockOf[e] \in M /\ c = NextCopy(BlockOf[e])
                    THEN IF e \in D THEN sit[e] ELSE meta[bitmap[BlockOf[e]]][e]
                    ELSE meta[c][e]) \in Values
        <4>1. bitmap[BlockOf[e]] \in Copies
          BY <1>5, CheckpointPackAssumption
        <4> QED
          BY <4>1 DEF TypeOK
      <3> QED
        BY <1>1, <3>1 DEF M
    <2>4. dirtyPages' \subseteq Pages
      <3>1. {<<b, NextCopy(b)>> : b \in M} \subseteq Pages
        BY <1>4, <1>5 DEF Pages
      <3> QED
        BY <1>1, <3>1 DEF TypeOK, M
    <2> QED
      BY <1>2, <2>1, <2>2, <2>3, <2>4 DEF TypeOK
  <1>8. SitOfMount' = SitOfMount
    BY <1>2, SameSit
  <1>9. PackInv'
    <2>1. CpPageOfMount.version \in {version' - 1, version'}
      BY <1>2, <1>6, MountFacts
    <2> QED
      BY <1>2, <2>1, PackInvKept
  <1>10. LiveCopiesUntouched'
    <2>1. ASSUME NEW p \in dirtyPages' \cup cachedPages' PROVE CpPageOfMount.bitmap[p[1]] # p[2]
      <3>1. CASE p \in dirtyPages \cup cachedPages
        BY <3>1 DEF LiveCopiesUntouched
      <3>2. CASE p \in {<<b, NextCopy(b)>> : b \in M}
        BY <1>4, <1>5, <1>6, <3>2
      <3> QED
        BY <1>1, <1>2, <3>1, <3>2 DEF M
    <2> QED
      BY <1>2, <2>1, SamePacks DEF LiveCopiesUntouched
  <1>11. JournalFits'
    <2>1. Cardinality(InJournal(journal')) <= JournalEntries
      BY <1>1, <1>3, FlushedJournalFits
    <2> QED
      BY <2>1 DEF JournalFits, InJournal
  <1>12. PhaseInv'
    BY <1>2, <1>6, SamePacks DEF PhaseInv, TypeOK
  <1>13. TableInv'
    <2>1. ASSUME NEW e \in Entries, NEW c \in Copies,
                 <<BlockOf[e], c>> \notin dirtyPages' \cup cachedPages'
          PROVE  meta'[c][e] = table[c][e]
      <3>1. ~(BlockOf[e] \in M /\ c = NextCopy(BlockOf[e]))
        BY <1>1, <2>1 DEF M
      <3>2. meta'[c][e] = meta[c][e]
        BY <1>1, <3>1 DEF M
      <3>3. <<BlockOf[e], c>> \notin dirtyPages \cup cachedPages
        BY <1>1, <1>2, <2>1
      <3> QED
        BY <1>2, <3>2, <3>3 DEF TableInv
    <2>2. ASSUME NEW e \in Entries
          PROVE  sit[e] = IF journal'[e] # NoValue THEN journal'[e]
                          ELSE meta'[bitmap'[BlockOf[e]]][e]
      <3>1. BlockOf[e] \in SitBlocks /\ sit[e] \in Values /\ NoValue \notin Values
        BY CheckpointPackAssumption DEF TypeOK
      <3>2. CASE e \in D /\ BlockOf[e] \in J
        BY <1>1, <3>1, <3>2
      <3>3. CASE e \notin D \/ BlockOf[e] \notin J
        <4>1. journal'[e] = j[e]
          BY <1>1, <3>3
        <4>2. CASE BlockOf[e] \in M
          <5>1. j[e] = NoValue
            BY <1>4, <4>2 DEF NoJournal
          <5>2. /\ bitmap'[BlockOf[e]] = NextCopy(BlockOf[e])
                /\ meta'[NextCopy(BlockOf[e])][e]
                     = IF e \in D THEN sit[e] ELSE meta[bitmap[BlockOf[e]]][e]
            BY <1>1, <1>5, <3>1, <4>2 DEF M
          <5>3. ASSUME e \notin D PROVE sit[e] = meta[bitmap[BlockOf[e]]][e]
            <6>1. e \notin dirtyEntries /\ journal[e] = NoValue
              BY <1>3, <1>4, <4>2, <5>3 DEF InJournal
            <6>2. sit[e] = table[bitmap[BlockOf[e]]][e]
              BY <1>6, <6>1 DEF SitOfMount
            <6>3. <<BlockOf[e], bitmap[BlockOf[e]]>> \notin dirtyPages \cup cachedPages
              BY <1>6 DEF LiveCopiesUntouched
            <6> QED
              BY <1>2, <1>5, <3>1, <6>2, <6>3 DEF TableInv
          <5> QED
            BY <4>1, <5>1, <5>2, <5>3
        <4>3. CASE BlockOf[e] \notin M
          <5>1. e \notin D
            BY <1>4, <3>3, <4>3
          <5>2. e \notin dirtyEntries /\ j[e] = journal[e]
            BY <1>3, <5>1 DEF InJournal, NoJournal
          <5>3. /\ bitmap'[BlockOf[e]] = bitmap[BlockOf[e]]
                /\ meta'[bitmap[BlockOf[e]]][e] = meta[bitmap[BlockOf[e]]][e]
            BY <1>1, <1>5, <3>1, <4>3 DEF M
          <5>4. <<BlockOf[e], bitmap[BlockOf[e]]>> \notin dirtyPages \cup cachedPages
            BY <1>6 DEF LiveCopiesUntouched
          <5>5. meta[bitmap[BlockOf[e]]][e] = table[bitmap[BlockOf[e]]][e]
            BY <1>2, <1>5, <3>1, <5>4 DEF TableInv
          <5>6. sit[e] = IF journal[e] # NoValue THEN journal[e]
                         ELSE table[bitmap[BlockOf[e]]][e]
            BY <1>6, <5>2 DEF SitOfMount
          <5> QED
            BY <4>1, <5>2, <5>3, <5>5, <5>6
        <4> QED
          BY <4>2, <4>3
      <3> QED
        BY <3>2, <3>3
    <2> QED
      BY <1>2, <2>1, <2>2 DEF TableInv, TypeOK
  <1> QED
    BY <1>7, <1>8, <1>9, <1>10, <1>11, <1>12, <1>13

-----------------------------------------------------------------------------
(* A block of a pack is written.                                           *)

\* It is a block of the pack that a mount would not take.
LEMMA WriteBlockFacts ==
    ASSUME Inv, CpWritePackBlock, NEW q, q = PackOf(version), NEW w, w = cp.written
    PROVE  /\ q \in {0, 1} /\ q = 1 - CurrentPack
           /\ version = CpPageOfMount.version + 1
           /\ w \in 0 .. (cp.layout.total - 1) /\ w \in Positions
           /\ packs'[CurrentPack] = packs[CurrentPack]
           /\ packs'[q][w] = PackBlock(w)
           /\ \A i \in Positions \ {w} : packs'[q][i] = packs[q][i]
           /\ \A p \in {0, 1} \ {q} : packs'[p] = packs[p]
  <1> USE DEF Inv
  <1>1. cp.layout \in Layouts /\ version \in Nat /\ w \in Nat /\ w < cp.layout.total
    BY DEF TypeOK, CpWritePackBlock
  <1>2. w \in 0 .. (cp.layout.total - 1) /\ w \in Positions
    BY <1>1, LayoutFacts
  <1>3. version = CpPageOfMount.version + 1
    BY <1>1 DEF CpWritePackBlock, PhaseInv, Indicator
  <1>4. q \in {0, 1} /\ q = 1 - CurrentPack
    BY <1>3, MountFacts, PackOfFacts
  <1>5. packs' = [packs EXCEPT ![q][w] = PackBlock(w)]
    BY DEF CpWritePackBlock
  <1>6. packs \in [{0, 1} -> [Positions -> Block]]
    BY DEF TypeOK
  <1>7. /\ packs'[q] = [packs[q] EXCEPT ![w] = PackBlock(w)]
        /\ \A p \in {0, 1} : p # q => packs'[p] = packs[p]
    BY <1>4, <1>5, <1>6
  <1>8. packs[q] \in [Positions -> Block]
    BY <1>4, <1>6
  <1>9. packs'[q][w] = PackBlock(w) /\ \A i \in Positions \ {w} : packs'[q][i] = packs[q][i]
    BY <1>2, <1>7, <1>8
  <1>10. packs'[CurrentPack] = packs[CurrentPack]
    BY <1>4, <1>7, MountFacts
  <1> QED
    BY <1>2, <1>3, <1>4, <1>7, <1>9, <1>10

\* Before the last block is written, a mount takes the pack it took.
LEMMA PackNotComplete ==
    ASSUME Inv, CpWritePackBlock, cp.written < cp.layout.total - 1
    PROVE  /\ CurrentPack' = CurrentPack
           /\ CpPageOfMount' = CpPageOfMount
           /\ JournalOfMount' = JournalOfMount
           /\ SitOfMount' = SitOfMount
  <1> USE DEF Inv
  <1> DEFINE q == PackOf(version)
             w == cp.written
             last == cp.layout.total - 1
  <1>1. /\ q \in {0, 1} /\ q = 1 - CurrentPack
        /\ version = CpPageOfMount.version + 1
        /\ packs'[CurrentPack] = packs[CurrentPack]
        /\ w \in 0 .. last
        /\ packs'[q][w] = PackBlock(w)
        /\ \A i \in Positions \ {w} : packs'[q][i] = packs[q][i]
    BY WriteBlockFacts
  <1>2. /\ cp.layout \in Layouts /\ version \in Nat /\ bitmap \in Bitmap
        /\ cp.layout.total \in Nat
    BY LayoutFacts DEF TypeOK
  <1>3. 0 \in Positions /\ last \in Positions /\ last # w /\ last # 0 /\ w \in Nat
    BY <1>1, <1>2, LayoutFacts
  <1>4. packs'[q][0] = CpPage(version, cp.layout, bitmap)
    <2>1. PackBlock(0) = CpPage(version, cp.layout, bitmap)
      BY PackBlockFacts
    <2>2. CASE w = 0
      BY <1>1, <2>1, <2>2
    <2>3. CASE w # 0
      <3>1. 0 \in 0 .. (w - 1)
        BY <1>3, <2>3
      <3>2. packs[q][0] = PackBlock(0)
        BY <3>1 DEF PhaseInv, CpWritePackBlock
      <3> QED
        BY <1>1, <1>3, <2>1, <2>3, <3>2
    <2> QED
      BY <2>2, <2>3
  <1>5. packs'[q][last] = packs[q][last]
    BY <1>1, <1>3
  <1>6. packs[q][last].kind = "cp" => packs[q][last].version <= CpPageOfMount.version
    <2>1. packs[q][last] \in Block
      BY <1>1, <1>3 DEF TypeOK
    <2>2. packs[q][last].kind = "cp" =>
            packs[q][last].version <= CpPageOfMount.version + Indicator(last = 0)
      BY <1>1, <1>3 DEF PackInv
    <2>3. Indicator(last = 0) = 0
      BY <1>3 DEF Indicator
    <2> QED
      BY <2>2, <2>3, MountFacts
  <1>7. /\ packs'[q][0].kind = "cp"
        /\ packs'[q][0].version = version
        /\ packs'[q][0].total - 1 = last
    BY <1>2, <1>4, CpPageFacts
  <1> HIDE DEF q, w, last
  <1>8. ~(packs'[q][last].kind = "cp" /\ packs'[q][last].version = version)
    BY <1>1, <1>2, <1>5, <1>6, MountFacts
  <1>9. ~(LET first == packs'[q][0]
              end   == packs'[q][first.total - 1]
          IN  first.kind = "cp" /\ end.kind = "cp" /\ end.version = first.version)
    BY <1>7, <1>8
  <1>10. Valid(CurrentPack) /\ CurrentPack \in {0, 1}
    BY MountFacts
  <1>11. CASE CurrentPack = 0
    <2>1. q = 1 /\ packs'[0] = packs[0] /\ Valid(0)
      BY <1>1, <1>10, <1>11
    <2>2. Valid(0)' /\ ~Valid(1)'
      BY <1>9, <2>1 DEF Valid
    <2>3. CurrentPack' = 0
      BY <2>2 DEF CurrentPack
    <2>4. CpPageOfMount' = CpPageOfMount
      BY <1>1, <1>11, <2>3 DEF CpPageOfMount
    <2>5. PackOf(CpPageOfMount.version) = CurrentPack
      BY MountFacts
    <2>6. PackOf(CpPageOfMount.version)' = CurrentPack
      BY <2>4, <2>5 DEF PackOf
    <2>7. JournalOfMount' = JournalOfMount
      BY <1>1, <2>4, <2>5, <2>6 DEF JournalOfMount
    <2> QED
      BY <1>11, <2>3, <2>4, <2>7 DEF SitOfMount, CpWritePackBlock
  <1>12. CASE CurrentPack = 1
    <2>1. q = 0 /\ packs'[1] = packs[1] /\ Valid(1)
      BY <1>1, <1>10, <1>12
    <2>2. Valid(1)' /\ ~Valid(0)'
      BY <1>9, <2>1 DEF Valid
    <2>3. CurrentPack' = 1
      BY <2>2 DEF CurrentPack
    <2>4. CpPageOfMount' = CpPageOfMount
      BY <1>1, <1>12, <2>3 DEF CpPageOfMount
    <2>5. PackOf(CpPageOfMount.version) = CurrentPack
      BY MountFacts
    <2>6. PackOf(CpPageOfMount.version)' = CurrentPack
      BY <2>4, <2>5 DEF PackOf
    <2>7. JournalOfMount' = JournalOfMount
      BY <1>1, <2>4, <2>5, <2>6 DEF JournalOfMount
    <2> QED
      BY <1>12, <2>3, <2>4, <2>7 DEF SitOfMount, CpWritePackBlock
  <1> QED
    BY <1>10, <1>11, <1>12

\* With the last block, a mount takes the new pack, and finds the SIT.
LEMMA PackComplete ==
    ASSUME Inv, CpWritePackBlock, cp.written = cp.layout.total - 1
    PROVE  /\ CpPageOfMount' = CpPage(version, cp.layout, bitmap)
           /\ CpPageOfMount'.version = version
           /\ SitOfMount' = sit
           /\ CurrentPack' \in {0, 1} /\ Valid(CurrentPack)'
  <1> USE DEF Inv
  <1> DEFINE q == PackOf(version)
             last == cp.layout.total - 1
  <1>1. /\ q \in {0, 1} /\ q = 1 - CurrentPack
        /\ version = CpPageOfMount.version + 1
        /\ packs'[CurrentPack] = packs[CurrentPack]
        /\ packs'[q][last] = PackBlock(last)
        /\ \A i \in Positions \ {last} : packs'[q][i] = packs[q][i]
    BY WriteBlockFacts
  <1>2. /\ cp.layout \in Layouts /\ version \in Nat /\ bitmap \in Bitmap /\ journal \in Journal
        /\ cp.layout.total \in Nat /\ cp.layout.start_sum \in Nat
        /\ 0 < cp.layout.start_sum /\ cp.layout.start_sum < last
    BY LayoutFacts DEF TypeOK
  <1>3. /\ 0 \in Positions \ {last} /\ cp.layout.start_sum \in Positions \ {last}
        /\ 0 \in 0 .. (cp.written - 1) /\ cp.layout.start_sum \in 0 .. (cp.written - 1)
    BY <1>2, LayoutFacts
  <1>4. /\ packs'[q][0] = CpPage(version, cp.layout, bitmap)
        /\ packs'[q][last] = CpPage(version, cp.layout, bitmap)
        /\ packs'[q][cp.layout.start_sum] = SumBlock(journal)
    <2>1. /\ packs[q][0] = PackBlock(0)
          /\ packs[q][cp.layout.start_sum] = PackBlock(cp.layout.start_sum)
      BY <1>3 DEF PhaseInv, CpWritePackBlock
    <2> QED
      BY <1>1, <1>3, <2>1, PackBlockFacts
  <1>5. /\ CpPage(version, cp.layout, bitmap).kind = "cp"
        /\ CpPage(version, cp.layout, bitmap).version = version
        /\ CpPage(version, cp.layout, bitmap).total - 1 = last
        /\ CpPage(version, cp.layout, bitmap).start_sum = cp.layout.start_sum
        /\ CpPage(version, cp.layout, bitmap).bitmap = bitmap
    BY <1>2, CpPageFacts
  <1>6. /\ packs'[CurrentPack][0].version = CpPageOfMount.version
        /\ CpPageOfMount.version \in Nat
        /\ CurrentPack \in {0, 1}
    BY <1>1, MountFacts
  <1>7. CurrentPack' = q /\ Valid(CurrentPack)'
    <2>1. packs'[q][0].version > packs'[CurrentPack][0].version
      BY <1>1, <1>2, <1>4, <1>5, <1>6
    <2>2. LET first == packs'[q][0]
              end   == packs'[q][first.total - 1]
          IN  first.kind = "cp" /\ end.kind = "cp" /\ end.version = first.version
      BY <1>4, <1>5
    <2>3. packs'[1 - q][0].version \in Nat /\ packs'[q][0].version \in Nat
          /\ CurrentPack = 1 - q
      BY <1>1, <1>2, <1>4, <1>5, <1>6
    <2> HIDE DEF q
    <2>4. CASE q = 0
      <3>1. Valid(0)' /\ ~(packs'[1][0].version > packs'[0][0].version)
        BY <2>1, <2>2, <2>3, <2>4 DEF Valid
      <3> QED
        BY <2>4, <3>1 DEF CurrentPack
    <2>5. CASE q = 1
      <3>1. Valid(1)' /\ packs'[1][0].version > packs'[0][0].version
        BY <2>1, <2>2, <2>3, <2>5 DEF Valid
      <3> QED
        BY <2>5, <3>1 DEF CurrentPack
    <2>6. CurrentPack' = q
      BY <1>1, <2>4, <2>5
    <2> QED
      BY <2>2, <2>6 DEF Valid
  <1>8. CpPageOfMount' = CpPage(version, cp.layout, bitmap)
    BY <1>4, <1>7 DEF CpPageOfMount
  <1>9. JournalOfMount' = journal
    <2>1. PackOf(CpPageOfMount.version)' = q
      BY <1>5, <1>8 DEF PackOf
    <2>2. JournalOfMount' = packs'[q][cp.layout.start_sum].journal
      BY <1>5, <1>8, <2>1 DEF JournalOfMount
    <2> QED
      BY <1>2, <1>4, <2>2, SumBlockFacts
  <1>10. SitOfMount' = sit
    <2>1. ASSUME NEW e \in Entries
          PROVE  sit[e] = IF journal[e] # NoValue THEN journal[e]
                          ELSE table[bitmap[BlockOf[e]]][e]
      <3>1. bitmap[BlockOf[e]] \in Copies
        BY CheckpointPackAssumption DEF TypeOK, Bitmap
      <3>2. meta[bitmap[BlockOf[e]]][e] = table[bitmap[BlockOf[e]]][e]
        BY <3>1 DEF TableInv, PhaseInv, CpWritePackBlock
      <3> QED
        BY <3>2 DEF TableInv, CpWritePackBlock
    <2>2. SitOfMount' = [e \in Entries |-> IF journal[e] # NoValue THEN journal[e]
                                           ELSE table[bitmap[BlockOf[e]]][e]]
      BY <1>5, <1>8, <1>9 DEF SitOfMount, CpWritePackBlock
    <2>3. sit = [e \in Entries |-> sit[e]]
      BY DEF TypeOK
    <2> QED
      BY <2>1, <2>2, <2>3
  <1> QED
    BY <1>1, <1>5, <1>7, <1>8, <1>10

LEMMA CpWritePackBlockStep ==
    ASSUME Inv, CpWritePackBlock
    PROVE  Inv' /\ SitOfMount' \in {SitOfMount, sit}
  <1> USE DEF Inv
  <1> DEFINE q == PackOf(version)
             w == cp.written
             last == cp.layout.total - 1
  <1>1. /\ q \in {0, 1}
        /\ version = CpPageOfMount.version + 1
        /\ w \in 0 .. last /\ w \in Positions
        /\ packs'[q][w] = PackBlock(w)
        /\ \A i \in Positions \ {w} : packs'[q][i] = packs[q][i]
        /\ \A p \in {0, 1} \ {q} : packs'[p] = packs[p]
    BY WriteBlockFacts
  <1>2. /\ cp.layout \in Layouts /\ version \in Nat /\ bitmap \in Bitmap
        /\ w \in Nat /\ cp.layout.total \in Nat /\ 2 <= last
        /\ cp.layout = [start_sum |-> cp.layout.start_sum, total |-> cp.layout.total]
        /\ \A i \in 0 .. last : i \in Positions
    BY LayoutFacts DEF TypeOK
  <1>3. /\ cp.phase = "pack" /\ w < cp.layout.total
        /\ cp' = [cp EXCEPT !.written = w + 1]
        /\ UNCHANGED <<sit, dirtyEntries, journal, bitmap, version, meta, dirtyPages, cpError,
                       cachedPages, table>>
    BY DEF CpWritePackBlock, memVars
  <1>4. /\ cp'.phase = "pack" /\ cp'.layout = cp.layout /\ cp'.written = w + 1
    BY <1>3 DEF TypeOK
  \* what a mount finds
  <1>5. \/ /\ w < last
           /\ CpPageOfMount' = CpPageOfMount
           /\ SitOfMount' = SitOfMount
        \/ /\ w = last
           /\ CpPageOfMount'.version = version
           /\ SitOfMount' = sit
    <2>1. w < last \/ w = last
      BY <1>1, <1>2
    <2> QED
      BY <2>1, PackNotComplete, PackComplete
  <1>6. CpPageOfMount.version \in Nat
    BY MountFacts
  <1>7. CpPageOfMount'.version \in Nat /\ CpPageOfMount.version <= CpPageOfMount'.version
    BY <1>1, <1>2, <1>5, <1>6
  <1>8. TypeOK'
    <2>1. packs' \in [{0, 1} -> [Positions -> Block]]
      <3>1. PackBlock(w) \in Block
        BY <1>1, PackBlockFacts
      <3> QED
        BY <3>1 DEF TypeOK, CpWritePackBlock
    <2>2. /\ cp' \in [phase : {"off", "idle", "meta", "pack"}, layout : Layouts, written : Nat]
          /\ cp'.written <= cp'.layout.total
      BY <1>2, <1>3, <1>4 DEF TypeOK
    <2> QED
      BY <1>3, <2>1, <2>2 DEF TypeOK
  <1>9. CheckpointFound'
    <2>1. Valid(CurrentPack)' /\ CurrentPack' \in {0, 1}
      <3>1. CASE w < last
        <4>1. CurrentPack' = CurrentPack
          BY <3>1, PackNotComplete
        <4>2. packs'[CurrentPack] = packs[CurrentPack]
          BY WriteBlockFacts
        <4> QED
          BY <4>1, <4>2, MountFacts DEF Valid
      <3>2. CASE w = last
        BY <3>2, PackComplete
      <3> QED
        BY <1>5, <3>1, <3>2
    <2> QED
      BY <1>1, <1>2, <1>3, <1>5, <1>6, <2>1 DEF CheckpointFound
  <1>10. PackInv'
    <2> SUFFICES ASSUME NEW p \in {0, 1}, NEW i \in Positions
                 PROVE  LET b == packs'[p][i] IN
                        /\ Cardinality(InJournal(b.journal)) <= JournalEntries
                        /\ b.kind = "cp" =>
                             /\ PackOf(b.version) = p
                             /\ [start_sum |-> b.start_sum, total |-> b.total] \in Layouts
                             /\ b.version <= CpPageOfMount'.version + Indicator(i = 0)
      BY <1>9 DEF PackInv, PackOf, InJournal
    <2>1. Indicator(i = 0) \in Nat
      BY DEF Indicator
    <2>2. CASE p = q /\ i = w
      <3>1. packs'[p][i] = PackBlock(w)
        BY <1>1, <2>2
      <3>2. Cardinality(InJournal(PackBlock(w).journal)) <= JournalEntries
        BY <1>1, PackBlockFacts
      <3>3. ASSUME PackBlock(w).kind = "cp"
            PROVE  /\ w \in {0, last}
                   /\ PackBlock(w) = CpPage(version, cp.layout, bitmap)
        BY <1>1, <3>3, PackBlockFacts
      <3>4. /\ CpPage(version, cp.layout, bitmap).version = version
            /\ CpPage(version, cp.layout, bitmap).start_sum = cp.layout.start_sum
            /\ CpPage(version, cp.layout, bitmap).total = cp.layout.total
        BY <1>2, CpPageFacts
      <3>5. ASSUME w \in {0, last} PROVE version <= CpPageOfMount'.version + Indicator(i = 0)
        BY <1>1, <1>2, <1>5, <1>6, <1>7, <2>1, <2>2, <3>5 DEF Indicator
      <3> QED
        BY <1>2, <2>2, <3>1, <3>2, <3>3, <3>4, <3>5
    <2>3. CASE ~(p = q /\ i = w)
      <3>1. packs'[p][i] = packs[p][i]
        BY <1>1, <2>3
      <3>2. packs[p][i] \in Block
        BY DEF TypeOK
      <3>3. packs[p][i].version \in Nat
        BY <3>2 DEF Block
      <3>4. packs[p][i].kind = "cp" =>
              packs[p][i].version <= CpPageOfMount.version + Indicator(i = 0)
        BY DEF PackInv
      <3>5. packs[p][i].kind = "cp" =>
              packs[p][i].version <= CpPageOfMount'.version + Indicator(i = 0)
        BY <1>6, <1>7, <2>1, <3>3, <3>4
      <3> QED
        BY <3>1, <3>5 DEF PackInv
    <2> QED
      BY <2>2, <2>3
  <1>11. PhaseInv'
    <2>1. version = CpPageOfMount'.version + Indicator(w + 1 < cp.layout.total)
      BY <1>1, <1>2, <1>5, <1>6 DEF Indicator
    <2>2. ASSUME NEW i \in 0 .. w PROVE packs'[q][i] = PackBlock(i)
      <3>1. CASE i = w
        BY <1>1, <3>1
      <3>2. CASE i # w
        <4>1. i \in 0 .. (w - 1) /\ i \in Positions
          BY <1>1, <1>2, <3>2
        <4>2. packs[q][i] = PackBlock(i)
          BY <1>3, <4>1 DEF PhaseInv
        <4> QED
          BY <1>1, <3>2, <4>1, <4>2
      <3> QED
        BY <3>1, <3>2
    <2>3. \A i : PackBlock(i)' = PackBlock(i)
      BY <1>3, <1>4 DEF PackBlock
    <2>4. PackOf(version)' = q
      BY <1>3 DEF PackOf
    <2>5. (cp'.written - 1) = w
      BY <1>2, <1>4
    <2> HIDE DEF q, w, last
    <2>6. \A i \in 0 .. (cp'.written - 1) : packs'[PackOf(version)'][i] = PackBlock(i)'
      BY <2>2, <2>3, <2>4, <2>5
    <2>7. dirtyPages' = {} /\ cachedPages' = {}
      BY <1>3 DEF PhaseInv
    <2>8. version' = CpPageOfMount'.version + Indicator(cp'.written < cp'.layout.total)
      BY <1>3, <1>4, <2>1
    <2> QED
      BY <1>4, <2>4, <2>6, <2>7, <2>8 DEF PhaseInv, Indicator
  <1>12. TableInv'
    BY <1>3, <1>4 DEF TableInv
  <1>13. LiveCopiesUntouched'
    BY <1>3 DEF LiveCopiesUntouched, PhaseInv
  <1>14. JournalFits'
    BY <1>3 DEF JournalFits, InJournal
  <1> QED
    BY <1>5, <1>8, <1>10, <1>11, <1>12, <1>13, <1>14

-----------------------------------------------------------------------------
(* The theorems.                                                           *)

\* A step keeps Inv, and is a step of AtomicCheckpoint or none.
LEMMA Step ==
    ASSUME Inv, [Next]_vars
    PROVE  Inv' /\ [Atomic!Next]_(Atomic!vars)
  <1> USE DEF Atomic!Next, Atomic!vars
  <1>1. Inv => TypeOK
    BY DEF Inv
  <1>2. ASSUME NEW e \in Entries, NEW v \in Values, SetEntry(e, v)
        PROVE  Inv' /\ [Atomic!Next]_(Atomic!vars)
    <2>1. Inv' /\ SitOfMount' = SitOfMount
      BY <1>2, SetEntryStep
    <2>2. Atomic!Update(e, v)
      BY <1>2, <2>1 DEF SetEntry, Atomic!Update
    <2> QED
      BY <2>1, <2>2
  <1>3. ASSUME CpFlush PROVE Inv' /\ [Atomic!Next]_(Atomic!vars)
    <2>1. Inv' /\ SitOfMount' = SitOfMount
      BY <1>3, CpFlushStep
    <2>2. cp.phase = "idle" /\ cp'.phase = "meta" /\ sit' = sit
      BY <1>1, <1>3 DEF CpFlush, TypeOK
    <2> QED
      BY <2>1, <2>2
  <1>4. ASSUME NEW p \in Pages, CpWriteMeta(p) PROVE Inv' /\ [Atomic!Next]_(Atomic!vars)
    <2>1. Inv' /\ SitOfMount' = SitOfMount
      BY <1>4, CpWriteMetaStep
    <2> QED
      BY <1>4, <2>1 DEF CpWriteMeta
  <1>5. ASSUME NEW p \in Pages, WriteBack(p) PROVE Inv' /\ [Atomic!Next]_(Atomic!vars)
    <2>1. Inv' /\ SitOfMount' = SitOfMount
      BY <1>5, WriteBackStep
    <2> QED
      BY <1>5, <2>1 DEF WriteBack, memVars
  <1>6. ASSUME CpSubmitPack PROVE Inv' /\ [Atomic!Next]_(Atomic!vars)
    <2>1. Inv' /\ SitOfMount' = SitOfMount
      BY <1>6, CpSubmitPackStep
    <2>2. cp.phase = "meta" /\ cp'.phase = "pack" /\ sit' = sit
      BY <1>6 DEF CpSubmitPack, memVars
    <2> QED
      BY <2>1, <2>2
  <1>7. ASSUME CpWritePackBlock PROVE Inv' /\ [Atomic!Next]_(Atomic!vars)
    <2>1. Inv' /\ SitOfMount' \in {SitOfMount, sit}
      BY <1>7, CpWritePackBlockStep
    <2>2. cp.phase = "pack" /\ cp'.phase = "pack" /\ sit' = sit
      BY <1>1, <1>7 DEF CpWritePackBlock, memVars, TypeOK
    <2>3. CASE SitOfMount' = SitOfMount
      BY <2>1, <2>2, <2>3
    <2>4. CASE SitOfMount' = sit
      <3>1. Atomic!Save
        BY <2>2, <2>4 DEF Atomic!Save
      <3> QED
        BY <2>1, <3>1
    <2> QED
      BY <2>1, <2>3, <2>4
  <1>8. ASSUME CpFinish PROVE Inv' /\ [Atomic!Next]_(Atomic!vars)
    <2>1. Inv' /\ SitOfMount' = SitOfMount
      BY <1>8, CpFinishStep
    <2>2. cp.phase = "pack" /\ cp'.phase = "idle" /\ sit' = sit
      BY <1>8 DEF CpFinish, memVars, NoPack
    <2> QED
      BY <2>1, <2>2
  <1>9. ASSUME CpAbort PROVE Inv' /\ [Atomic!Next]_(Atomic!vars)
    <2>1. Inv' /\ SitOfMount' = SitOfMount
      BY <1>9, CpAbortStep
    <2>2. cp.phase # "off" /\ cp'.phase = "idle" /\ sit' = sit
      BY <1>9 DEF CpAbort, memVars, NoPack
    <2> QED
      BY <2>1, <2>2
  <1>10. ASSUME IOError PROVE Inv' /\ [Atomic!Next]_(Atomic!vars)
    <2>1. Inv' /\ SitOfMount' = SitOfMount
      BY <1>10, IOErrorStep
    <2> QED
      BY <1>10, <2>1 DEF IOError
  <1>11. ASSUME PowerFail PROVE Inv' /\ [Atomic!Next]_(Atomic!vars)
    <2>1. Inv' /\ SitOfMount' = SitOfMount
      BY <1>11, PowerFailStep
    <2>2. cp.phase # "off" /\ cp'.phase = "off"
      BY <1>11 DEF PowerFail, NoPack
    <2>3. Atomic!PowerFail
      BY <2>1, <2>2 DEF Atomic!PowerFail
    <2> QED
      BY <2>1, <2>3
  <1>12. ASSUME Mount PROVE Inv' /\ [Atomic!Next]_(Atomic!vars)
    <2>1. Inv' /\ SitOfMount' = SitOfMount
      BY <1>12, MountStep
    <2>2. cp.phase = "off" /\ cp'.phase = "idle" /\ sit' = SitOfMount
      BY <1>12 DEF Mount, NoPack
    <2>3. Atomic!Mount
      BY <2>1, <2>2 DEF Atomic!Mount
    <2> QED
      BY <2>1, <2>3
  <1>13. ASSUME UNCHANGED vars PROVE Inv' /\ [Atomic!Next]_(Atomic!vars)
    <2>1. /\ UNCHANGED <<sit, dirtyEntries, journal, bitmap, version, meta, dirtyPages, cpError>>
          /\ UNCHANGED <<cp, cachedPages, table, packs>>
      BY <1>13 DEF vars, memVars, devVars
    <2>2. SitOfMount' = SitOfMount
      BY <2>1, SameSit
    <2>3. PackBlock(0)' = PackBlock(0) /\ \A i : PackBlock(i)' = PackBlock(i)
      BY <2>1 DEF PackBlock
    <2>4. TypeOK' /\ LiveCopiesUntouched' /\ JournalFits'
      BY <2>1, SamePacks DEF Inv, TypeOK, LiveCopiesUntouched, JournalFits, InJournal
    <2>5. CheckpointFound'
      BY <2>1, SamePacks DEF Inv, PackInv, CheckpointFound
    <2>6. PackInv'
      BY <2>1, <2>5, SamePacks DEF Inv, PackInv, PackOf, InJournal
    <2>7. PhaseInv'
      BY <2>1, <2>3, SamePacks DEF Inv, PhaseInv, PackOf
    <2>8. TableInv'
      BY <2>1, <2>2, SamePacks DEF Inv, TableInv
    <2> QED
      BY <2>1, <2>2, <2>4, <2>6, <2>7, <2>8 DEF Inv
  <1> QED
    BY <1>2, <1>3, <1>4, <1>5, <1>6, <1>7, <1>8, <1>9, <1>10, <1>11, <1>12, <1>13 DEF Next

\* The invariant of checkpoint.c and of the SIT that the properties follow from.
THEOREM Invariance == Spec => []Inv
  <1>1. Init => Inv
    BY InitInv
  <1>2. Inv /\ [Next]_vars => Inv'
    BY Step
  <1> QED
    BY <1>1, <1>2, PTL DEF Spec

\* Every variable keeps its type.
THEOREM TypeCorrect == Spec => []TypeOK
  <1>1. Inv => TypeOK
    BY DEF Inv
  <1> QED
    BY <1>1, Invariance, PTL

\* A mount always finds a checkpoint, the last complete one, as
\* __start_cp_addr() never picks the pack that holds it.
THEOREM AlwaysFound == Spec => []CheckpointFound
  <1>1. Inv => CheckpointFound
    BY DEF Inv, PackInv
  <1> QED
    BY <1>1, Invariance, PTL

\* get_next_sit_page() never lets a write reach a SIT block in use.
THEOREM LiveCopiesSafe == Spec => []LiveCopiesUntouched
  <1>1. Inv => LiveCopiesUntouched
    BY DEF Inv
  <1> QED
    BY <1>1, Invariance, PTL

\* flush_sit_entries() never overfills the journal.
THEOREM JournalNeverOverflows == Spec => []JournalFits
  <1>1. Inv => JournalFits
    BY DEF Inv
  <1> QED
    BY <1>1, Invariance, PTL

\* write_checkpoint() is atomic: with the mapping of AtomicSpec every behaviour
\* is one of AtomicCheckpoint.
THEOREM CheckpointIsAtomic == Spec => AtomicSpec
  <1>1. Init => Atomic!Init
    <2>1. ASSUME Init PROVE Atomic!Init
      <3>1. SitOfMount = sit
        BY <2>1, InitInv
      <3>2. cp.phase # "off" /\ sit = [e \in Entries |-> InitialValue]
        BY <2>1 DEF Init, NoPack
      <3> QED
        BY <3>1, <3>2 DEF Atomic!Init
    <2> QED
      BY <2>1
  <1>2. Inv /\ [Next]_vars => [Atomic!Next]_(Atomic!vars)
    BY Step
  <1> QED
    BY <1>1, <1>2, Invariance, PTL DEF Spec, AtomicSpec, Atomic!Spec

=============================================================================
