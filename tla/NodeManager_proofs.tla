------------------------- MODULE NodeManager_proofs -------------------------
(***************************************************************************)
(* Proofs about NodeManager, for any nids, NAT blocks, threads and any size *)
(* of the journal.  NatInv is inductive without lookups during a flush, Inv   *)
(* if moreover the list of free nids is not raced; and the NAT with its    *)
(* cache, journal and block copies is a table that a checkpoint saves as a *)
(* whole.                                                                  *)
(***************************************************************************)
EXTENDS NodeManager, FiniteSetTheorems, TLAPS

Flags   == [addr : Addrs \cup {NoValue}, ckpt : BOOLEAN, dirty : BOOLEAN]
Written == BlockAddrs \cup {NullAddr}

LEMMA Constants ==
    /\ IsFiniteSet(Nids)
    /\ \A n \in Nids : NatBlockOf[n] \in NatBlocks
    /\ NullAddr # NewAddr /\ NullAddr \notin BlockAddrs /\ NewAddr \notin BlockAddrs
    /\ NoValue # NullAddr /\ NoValue # NewAddr /\ NoValue \notin BlockAddrs
    /\ NoValue \notin Nids
    /\ JournalEntries \in Nat
  BY NodeManagerAssumption DEF NodeManagerAssumption, Addrs

\* The types that the steps below take from TypeOK.
LEMMA Types ==
    ASSUME TypeOK
    PROVE  /\ cache \in [Nids -> Flags]
           /\ \A n \in Nids : /\ cache[n].addr \in Addrs \cup {NoValue}
                              /\ cache[n].ckpt \in BOOLEAN /\ cache[n].dirty \in BOOLEAN
           /\ journal \in [Nids -> Written \cup {NoValue}]
           /\ natPages \in [Copies -> [Nids -> Written]]
           /\ natBitmap \in [NatBlocks -> Copies]
           /\ saved.journal \in [Nids -> Written \cup {NoValue}]
           /\ saved.bitmap \in [NatBlocks -> Copies]
           /\ freeNids \in [Nids -> {"none", "new", "alloc"}]
  BY DEF TypeOK, Flags, Written

LEMMA StoredWritten ==
    ASSUME TypeOK
    PROVE  \A n \in Nids : /\ natBitmap[NatBlockOf[n]] \in Copies
                           /\ NatPage(n) \in Written
                           /\ Stored(n) \in Written
                           /\ SavedTable[n] \in Written
  <1> SUFFICES ASSUME NEW n \in Nids
               PROVE  /\ natBitmap[NatBlockOf[n]] \in Copies
                      /\ NatPage(n) \in Written /\ Stored(n) \in Written /\ SavedTable[n] \in Written
    OBVIOUS
  <1>1. natBitmap[NatBlockOf[n]] \in Copies /\ saved.bitmap[NatBlockOf[n]] \in Copies
    BY Types, Constants
  <1>2. \A c \in Copies : natPages[c][n] \in Written
    BY Types
  <1>3. journal[n] \in Written \cup {NoValue} /\ saved.journal[n] \in Written \cup {NoValue}
    BY Types
  <1> QED
    BY <1>1, <1>2, <1>3 DEF NatPage, Stored, SavedTable

-----------------------------------------------------------------------------
(* What a step does to the table.                                          *)

LEMMA TableFrame ==
    ASSUME UNCHANGED natVars
    PROVE  /\ \A n \in Nids : /\ NatOf(n)' = NatOf(n) /\ Stored(n)' = Stored(n)
                              /\ NatPage(n)' = NatPage(n) /\ Cached(n)' = Cached(n)
           /\ Dirty' = Dirty
           /\ UNCHANGED <<cache, journal, natPages, natBitmap>>
  BY DEF natVars, NatOf, Stored, NatPage, Cached, Dirty

LEMMA SavedFrame ==
    ASSUME UNCHANGED <<natPages, saved>>
    PROVE  SavedTable' = SavedTable
  BY DEF SavedTable

LEMMA SetNodeAddrFacts ==
    ASSUME TypeOK, NEW n \in Nids, NEW a \in Addrs, SetNodeAddr(n, a),
           UNCHANGED <<journal, natPages, natBitmap>>
    PROVE  /\ cache' \in [Nids -> Flags]
           /\ cache'[n].addr = a /\ cache'[n].dirty = TRUE
           /\ \A m \in Nids : m # n => cache'[m] = cache[m]
           /\ \A m \in Nids : Stored(m)' = Stored(m) /\ NatPage(m)' = NatPage(m)
           /\ \A m \in Nids : Cached(m)' = (m = n \/ Cached(m))
           /\ \A m \in Nids : NatOf(m)' = IF m = n THEN a ELSE NatOf(m)
  <1>1. cache \in [Nids -> Flags] /\ cache[n].ckpt \in BOOLEAN
    BY Types
  <1> DEFINE e == [addr |-> a, ckpt |-> cache[n].ckpt /\ a \notin {NullAddr, NewAddr}, dirty |-> TRUE]
  <1>2. e \in Flags /\ e.addr = a /\ e.dirty = TRUE
    BY <1>1 DEF Flags
  <1>3. cache' = [cache EXCEPT ![n] = e]
    BY DEF SetNodeAddr
  <1> HIDE DEF e
  <1>4. /\ cache' \in [Nids -> Flags]
        /\ cache'[n] = e
        /\ \A m \in Nids : m # n => cache'[m] = cache[m]
    BY <1>1, <1>2, <1>3
  <1>5. \A m \in Nids : Stored(m)' = Stored(m) /\ NatPage(m)' = NatPage(m)
    BY DEF Stored, NatPage
  <1>6. a # NoValue
    BY Constants DEF Addrs
  <1>7. \A m \in Nids : Cached(m)' = (m = n \/ Cached(m))
    BY <1>2, <1>4, <1>6 DEF Cached
  <1>8. \A m \in Nids : NatOf(m)' = IF m = n THEN a ELSE NatOf(m)
    <2>1. NatOf(n)' = a
      BY <1>2, <1>4, <1>7 DEF NatOf
    <2>2. ASSUME NEW m \in Nids, m # n PROVE NatOf(m)' = NatOf(m)
      BY <2>2, <1>4, <1>5, <1>7 DEF NatOf, Stored
    <2> QED
      BY <2>1, <2>2
  <1> QED
    BY <1>2, <1>4, <1>5, <1>7, <1>8

LEMMA CacheNatEntryFacts ==
    ASSUME NatInv, NEW t \in Threads, CacheNatEntry(t)
    PROVE  /\ thread[t].nid \in Nids /\ ~Cached(thread[t].nid)
           /\ cache' = [cache EXCEPT ![thread[t].nid] =
                          [addr |-> Stored(thread[t].nid), ckpt |-> TRUE, dirty |-> FALSE]]
           /\ phase \in {"idle", "sync"}
           /\ UNCHANGED <<journal, natPages, natBitmap, nidVars, cpVars>>
           /\ Finish(t)
  <1>1. thread[t].nid \in Nids /\ ~Cached(thread[t].nid) /\ phase \in {"idle", "sync"}
    BY DEF NatInv, ThreadInv, HandInv, CacheNatEntry, LookingUp
  <1>2. thread[t].addr = Stored(thread[t].nid)
    BY <1>1 DEF NatInv, ThreadInv, HandInv, CacheNatEntry, NatOf, Stored
  <1> QED
    BY <1>1, <1>2 DEF CacheNatEntry

\* A clean entry comes into the cache, or goes, and the table stays.
LEMMA CleanEntry ==
    ASSUME NatInv, NEW n \in Nids, UNCHANGED <<journal, natPages, natBitmap>>,
           \/ ~Cached(n) /\ cache' = [cache EXCEPT ![n] =
                                        [addr |-> Stored(n), ckpt |-> TRUE, dirty |-> FALSE]]
           \/ Evictable(n) /\ cache' = [cache EXCEPT ![n] = NoEntry]
    PROVE  /\ cache' \in [Nids -> Flags]
           /\ ~cache[n].dirty /\ ~cache'[n].dirty /\ cache'[n].addr \in {Stored(n), NoValue}
           /\ \A m \in Nids : m # n => cache'[m] = cache[m]
           /\ Dirty' = Dirty
           /\ \A m \in Nids : /\ NatOf(m)' = NatOf(m) /\ Stored(m)' = Stored(m)
                              /\ NatPage(m)' = NatPage(m) /\ (m # n => Cached(m)' = Cached(m))
  <1> USE DEF NatInv
  <1>1. cache \in [Nids -> Flags] /\ Stored(n) \in Written
    BY Types, StoredWritten
  <1> DEFINE e == [addr |-> Stored(n), ckpt |-> TRUE, dirty |-> FALSE]
  <1>2. e \in Flags /\ e.addr = Stored(n) /\ e.dirty = FALSE
    BY <1>1 DEF Flags, Written, Addrs
  <1>3. NoEntry \in Flags /\ NoEntry.addr = NoValue /\ NoEntry.dirty = FALSE
    BY DEF NoEntry, Flags
  <1>4. ~cache[n].dirty
    BY DEF CacheInv, Evictable
  <1>5. cache' = [cache EXCEPT ![n] = e] \/ cache' = [cache EXCEPT ![n] = NoEntry]
    OBVIOUS
  <1> HIDE DEF e
  <1>6. /\ cache' \in [Nids -> Flags]
        /\ cache'[n] \in {e, NoEntry}
        /\ \A m \in Nids : m # n => cache'[m] = cache[m]
    BY <1>1, <1>2, <1>3, <1>5
  <1>7. ~cache'[n].dirty /\ cache'[n].addr \in {Stored(n), NoValue}
    BY <1>2, <1>3, <1>6
  <1>8. \A m \in Nids : Stored(m)' = Stored(m) /\ NatPage(m)' = NatPage(m)
    BY DEF Stored, NatPage
  <1>9. \A m \in Nids : m # n => Cached(m)' = Cached(m)
    BY <1>6 DEF Cached
  <1>10. NatOf(n) = Stored(n)
    BY <1>4 DEF NatOf, Stored, CacheInv, Evictable
  <1>11. NatOf(n)' = Stored(n)
    BY <1>7, <1>8 DEF NatOf, Stored, Cached
  <1>12. \A m \in Nids : m # n => NatOf(m)' = NatOf(m)
    BY <1>6, <1>8, <1>9 DEF NatOf, Stored
  <1>13. Dirty' = Dirty
    BY <1>4, <1>6, <1>7 DEF Dirty
  <1> QED
    BY <1>4, <1>6, <1>7, <1>8, <1>9, <1>10, <1>11, <1>12, <1>13

LEMMA CpFlushStartFacts ==
    ASSUME NatInv, CpFlushStart
    PROVE  /\ cache' \in [Nids -> Flags]
           /\ journal' \in [Nids -> Written \cup {NoValue}]
           /\ \A n \in Nids : /\ NatOf(n)' = NatOf(n) /\ NatOf(n) # NewAddr
                              /\ cache[n].dirty => cache'[n].dirty
                              /\ cache'[n].dirty => Cached(n)' /\ NatBlockOf[n] \in flushing'
                              /\ Cached(n)' /\ ~cache'[n].dirty => cache'[n].addr = Stored(n)'
                              /\ cache'[n].addr # NewAddr
           /\ InJournal(journal') \subseteq InJournal(journal)
           /\ \/ Cardinality(InJournal(journal')) + Cardinality(Dirty') <= JournalEntries
              \/ InJournal(journal') = {}
           /\ flushing' \subseteq NatBlocks
           /\ phase = "sync" /\ phase' = "flush"
           /\ UNCHANGED <<natPages, natBitmap, saved, version, nidVars, thread>>
  <1> USE DEF NatInv
  <1>1. /\ cache \in [Nids -> Flags] /\ journal \in [Nids -> Written \cup {NoValue}]
        /\ phase = "sync" /\ phase' = "flush"
        /\ UNCHANGED <<natPages, natBitmap, saved, version, nidVars, thread>>
        /\ \A n \in Nids : NatOf(n) # NewAddr
    BY Types DEF CpFlushStart
  <1>2. \A n \in Nids : NatPage(n)' = NatPage(n)
    BY <1>1 DEF NatPage
  <1>3. \A n \in Nids : cache[n].addr # NewAddr
    BY <1>1, Constants DEF NatOf, Cached
  <1>4. \A N \in SUBSET Nids : BlocksOf(N) \subseteq NatBlocks /\ \A n \in N : NatBlockOf[n] \in BlocksOf(N)
    BY Constants DEF BlocksOf
  <1>5. Dirty \in SUBSET Nids /\ InJournal(journal) \in SUBSET Nids /\ Dirty \cup InJournal(journal) \in SUBSET Nids
    BY DEF Dirty, InJournal
  <1>6. CASE HasCursumSpace(Cardinality(Dirty))
    <2>1. cache' = cache /\ journal' = journal /\ flushing' = BlocksOf(Dirty)
      BY <1>6 DEF CpFlushStart
    <2>2. \A n \in Nids : NatOf(n)' = NatOf(n) /\ Cached(n)' = Cached(n) /\ Stored(n)' = Stored(n)
      BY <1>2, <2>1 DEF NatOf, Cached, Stored
    <2>3. Dirty' = Dirty /\ InJournal(journal') = InJournal(journal)
      BY <2>1 DEF Dirty
    <2>4. Cardinality(InJournal(journal)) + Cardinality(Dirty) <= JournalEntries
      <3>1. Cardinality(InJournal(journal)) \in Nat /\ Cardinality(Dirty) \in Nat
        BY <1>5, Constants, FS_Subset, FS_CardinalityType
      <3> QED
        BY <3>1, <1>6, Constants DEF HasCursumSpace
    <2>5. \A n \in Nids : cache[n].dirty => n \in Dirty
      BY DEF Dirty
    <2> QED
      BY <1>1, <1>3, <1>4, <1>5, <2>1, <2>2, <2>3, <2>4, <2>5 DEF CacheInv
  <1>7. CASE ~HasCursumSpace(Cardinality(Dirty))
    <2>1. cache' = CacheOfJournal /\ journal' = NoJournal /\ flushing' = BlocksOf(Dirty \cup InJournal(journal))
      BY <1>7 DEF CpFlushStart
    <2>2. InJournal(journal') = {} /\ journal' \in [Nids -> Written \cup {NoValue}]
      BY <2>1 DEF InJournal, NoJournal
    <2>3. ASSUME NEW n \in Nids
          PROVE  /\ cache'[n] \in Flags
                 /\ NatOf(n)' = NatOf(n)
                 /\ cache[n].dirty => cache'[n].dirty
                 /\ cache'[n].dirty => Cached(n)' /\ NatBlockOf[n] \in flushing'
                 /\ Cached(n)' /\ ~cache'[n].dirty => cache'[n].addr = Stored(n)'
                 /\ cache'[n].addr # NewAddr
      <3>1. /\ cache[n] \in Flags /\ cache[n].addr # NewAddr /\ NatPage(n)' = NatPage(n)
            /\ journal[n] \in Written \cup {NoValue} /\ journal'[n] = NoValue
            /\ n \in Dirty \cup InJournal(journal) => NatBlockOf[n] \in flushing'
        BY <1>1, <1>2, <1>3, <1>4, <1>5, <2>1 DEF NoJournal
      <3>2. cache[n] = [addr |-> cache[n].addr, ckpt |-> cache[n].ckpt, dirty |-> cache[n].dirty]
            /\ cache[n].addr \in Addrs \cup {NoValue} /\ cache[n].ckpt \in BOOLEAN /\ cache[n].dirty \in BOOLEAN
        BY <3>1 DEF Flags
      <3>3. CASE journal[n] = NoValue
        <4>1. cache'[n] = cache[n]
          BY <2>1, <3>3 DEF CacheOfJournal
        <4>2. cache[n].dirty => n \in Dirty
          BY DEF Dirty
        <4> QED
          BY <3>1, <3>3, <4>1, <4>2 DEF NatOf, Cached, Stored, CacheInv
      <3>4. CASE journal[n] # NoValue
        <4>1. n \in InJournal(journal) /\ journal[n] \in Written /\ journal[n] # NewAddr
          BY <3>1, <3>4, Constants DEF InJournal, Written
        <4>2. /\ cache'[n].addr = NatOf(n) /\ cache'[n].dirty = TRUE
              /\ cache'[n] \in Flags
          <5>1. CASE Cached(n)
            <6>1. cache'[n] = [cache[n] EXCEPT !.dirty = TRUE]
              BY <2>1, <3>4, <5>1 DEF CacheOfJournal
            <6> QED
              BY <6>1, <3>2, <5>1 DEF Flags, NatOf
          <5>2. CASE ~Cached(n)
            <6>1. cache'[n] = [addr |-> journal[n], ckpt |-> TRUE, dirty |-> TRUE]
              BY <2>1, <3>4, <5>2 DEF CacheOfJournal
            <6> QED
              BY <6>1, <3>4, <4>1, <5>2 DEF Flags, NatOf, Written, Addrs
          <5> QED
            BY <5>1, <5>2
        <4>3. Cached(n)'
          BY <4>2, <3>4 DEF Cached, NatOf
        <4> QED
          BY <1>1, <3>1, <4>1, <4>2, <4>3 DEF NatOf
      <3> QED
        BY <3>3, <3>4
    <2>4. cache' \in [Nids -> Flags]
      BY <2>1, <2>3 DEF CacheOfJournal
    <2> QED
      BY <1>1, <1>4, <1>5, <2>1, <2>2, <2>3, <2>4
  <1> QED
    BY <1>6, <1>7

\* The cardinality of a set of nids, and of its parts.
LEMMA NidSets ==
    /\ \A N \in SUBSET Nids : Cardinality(N) \in Nat
    /\ \A N, M \in SUBSET Nids : N \subseteq M => Cardinality(N) <= Cardinality(M)
    /\ \A N, M \in SUBSET Nids : Cardinality(N \cup M) <= Cardinality(N) + Cardinality(M)
    /\ \A N, M \in SUBSET Nids : M \subseteq N => Cardinality(N \ M) = Cardinality(N) - Cardinality(M)
  <1>1. \A N \in SUBSET Nids : IsFiniteSet(N) /\ Cardinality(N) \in Nat
    BY Constants, FS_Subset, FS_CardinalityType
  <1>2. \A N, M \in SUBSET Nids : N \subseteq M => Cardinality(N) <= Cardinality(M)
    BY <1>1, FS_Subset
  <1>3. ASSUME NEW N \in SUBSET Nids, NEW M \in SUBSET Nids
        PROVE  /\ Cardinality(N \cup M) = Cardinality(N) + Cardinality(M) - Cardinality(N \cap M)
               /\ Cardinality(N \cap M) \in Nat
    BY <1>1, FS_Union, FS_Intersection, FS_CardinalityType
  <1>4. ASSUME NEW N \in SUBSET Nids, NEW M \in SUBSET Nids, M \subseteq N
        PROVE  Cardinality(N \ M) = Cardinality(N) - Cardinality(M)
    <2>1. Cardinality(N \ M) = Cardinality(N) - Cardinality(N \cap M)
      BY <1>1, FS_Difference
    <2>2. N \cap M = M
      BY <1>4
    <2> QED
      BY <2>1, <2>2
  <1>5. ASSUME NEW N \in SUBSET Nids, NEW M \in SUBSET Nids
        PROVE  Cardinality(N \cup M) <= Cardinality(N) + Cardinality(M)
    <2>1. Cardinality(N) \in Nat /\ Cardinality(M) \in Nat
      BY <1>1
    <2>2. /\ Cardinality(N \cup M) = Cardinality(N) + Cardinality(M) - Cardinality(N \cap M)
          /\ Cardinality(N \cap M) \in Nat
      BY <1>3
    <2> QED
      BY <2>1, <2>2
  <1> QED
    BY <1>1, <1>2, <1>4, <1>5

LEMMA CpFlushSetFacts ==
    ASSUME NatInv, NEW b \in NatBlocks, CpFlushSet(b)
    PROVE  /\ cache' \in [Nids -> Flags]
           /\ journal' \in [Nids -> Written \cup {NoValue}]
           /\ natPages' \in [Copies -> [Nids -> Written]]
           /\ natBitmap' \in [NatBlocks -> Copies]
           /\ \A n \in Nids : /\ NatOf(n)' = NatOf(n)
                              /\ cache'[n].dirty = (n \in Dirty \ DirtyOf(b))
                              /\ cache'[n].addr = cache[n].addr
                              /\ Cached(n)' /\ ~cache'[n].dirty => cache'[n].addr = Stored(n)'
                              /\ SavedTable'[n] = SavedTable[n]
           /\ \A c \in NatBlocks : c # b => natBitmap'[c] = natBitmap[c]
           /\ Cardinality(InJournal(journal')) <= JournalEntries
           /\ \/ Cardinality(InJournal(journal')) + Cardinality(Dirty') <= JournalEntries
              \/ \A n \in InJournal(journal') : NatBlockOf[n] \notin flushing'
           /\ flushing' = flushing \ {b} /\ phase = "flush" /\ b \in flushing
           /\ UNCHANGED <<saved, version, phase, scan, checking, thread>>
  <1> USE DEF NatInv
  <1> DEFINE D == DirtyOf(b)
             Fits == HasCursumSpace(Cardinality(DirtyOf(b)))
  <1>1. /\ phase = "flush" /\ b \in flushing /\ flushing' = flushing \ {b}
        /\ UNCHANGED <<saved, version, phase, scan, checking, thread>>
        /\ cache' = [n \in Nids |-> IF n \in D THEN [cache[n] EXCEPT !.ckpt = TRUE, !.dirty = FALSE]
                                    ELSE cache[n]]
    BY DEF CpFlushSet
  <1>2. /\ natBitmap \in [NatBlocks -> Copies] /\ natPages \in [Copies -> [Nids -> Written]]
        /\ journal \in [Nids -> Written \cup {NoValue}]
        /\ \A n \in Nids : NatBlockOf[n] \in NatBlocks /\ NatPage(n) \in Written
    BY Types, StoredWritten, Constants
  <1>3. D \in SUBSET Nids /\ Dirty \in SUBSET Nids /\ InJournal(journal) \in SUBSET Nids /\ D \subseteq Dirty
        /\ \A n \in D : NatBlockOf[n] = b
    BY DEF DirtyOf, Dirty, InJournal
  <1>4. \A n \in D : cache[n].addr \in Written /\ cache[n].addr # NoValue /\ Cached(n)
    <2> SUFFICES ASSUME NEW n \in D
                 PROVE  cache[n].addr \in Written /\ cache[n].addr # NoValue /\ Cached(n)
      OBVIOUS
    <2>1. n \in Nids /\ cache[n].dirty
      BY DEF DirtyOf, Dirty
    <2>2. Cached(n) /\ cache[n].addr # NewAddr /\ cache[n].addr \in Addrs \cup {NoValue}
      BY <1>1, <2>1, Types DEF CacheInv
    <2> QED
      BY <2>2 DEF Cached, Written, Addrs
  <1>5. \A n \in Nids : /\ cache'[n] \in Flags
                        /\ cache'[n].addr = cache[n].addr
                        /\ cache'[n].dirty = (n \in Dirty \ D)
                        /\ Cached(n)' = Cached(n)
    <2> SUFFICES ASSUME NEW n \in Nids
                 PROVE  /\ cache'[n] \in Flags /\ cache'[n].addr = cache[n].addr
                        /\ cache'[n].dirty = (n \in Dirty \ D) /\ Cached(n)' = Cached(n)
      OBVIOUS
    <2>1. cache[n] \in Flags /\ cache[n].dirty = (n \in Dirty)
      BY Types DEF Dirty
    <2>2. CASE n \in D
      <3>1. cache'[n] = [cache[n] EXCEPT !.ckpt = TRUE, !.dirty = FALSE]
        BY <1>1, <2>2
      <3> HIDE DEF D
      <3>2. cache'[n] \in Flags /\ cache'[n].addr = cache[n].addr /\ cache'[n].dirty = FALSE
        BY <2>1, <3>1 DEF Flags
      <3>3. (n \in Dirty \ D) = FALSE
        BY <2>2
      <3>4. Cached(n)' = Cached(n)
        BY <3>2 DEF Cached
      <3> QED
        BY <3>2, <3>3, <3>4
    <2>3. CASE n \notin D
      <3>1. cache'[n] = cache[n]
        BY <1>1, <2>3
      <3> HIDE DEF D
      <3> QED
        BY <2>1, <2>3, <3>1 DEF Cached
    <2> QED
      BY <2>2, <2>3
  <1>6. cache' \in [Nids -> Flags]
    BY <1>1, <1>5
  <1>7. Dirty' = Dirty \ D
    BY <1>5, <1>3 DEF Dirty
  <1> HIDE DEF D
  <1>8. CASE Fits
    <2>1. /\ journal' = [n \in Nids |-> IF n \in D THEN cache[n].addr ELSE journal[n]]
          /\ UNCHANGED <<natPages, natBitmap>>
      BY <1>8 DEF CpFlushSet, D
    <2>2. journal' \in [Nids -> Written \cup {NoValue}]
      BY <2>1, <1>2, <1>4
    <2>3. \A n \in Nids : NatPage(n)' = NatPage(n) /\ SavedTable'[n] = SavedTable[n]
      BY <1>1, <2>1 DEF NatPage, SavedTable
    <2>4. ASSUME NEW n \in Nids
          PROVE  /\ NatOf(n)' = NatOf(n)
                 /\ Cached(n)' /\ ~cache'[n].dirty => cache'[n].addr = Stored(n)'
      <3>1. CASE n \in D
        BY <3>1, <1>4, <1>5, <2>1 DEF NatOf, Stored
      <3>2. CASE n \notin D
        <4>1. cache'[n] = cache[n] /\ journal'[n] = journal[n]
          BY <1>1, <2>1, <3>2 DEF D
        <4> QED
          BY <4>1, <1>5, <2>3 DEF NatOf, Stored, CacheInv
      <3> QED
        BY <3>1, <3>2
    <2>5. InJournal(journal') \subseteq InJournal(journal) \cup D /\ InJournal(journal') \in SUBSET Nids
      BY <2>1 DEF InJournal
    <2>6. Cardinality(InJournal(journal')) <= Cardinality(InJournal(journal)) + Cardinality(D)
      <3>1. InJournal(journal) \cup D \in SUBSET Nids
        BY <1>3
      <3>2. /\ Cardinality(InJournal(journal')) <= Cardinality(InJournal(journal) \cup D)
            /\ Cardinality(InJournal(journal) \cup D) <= Cardinality(InJournal(journal)) + Cardinality(D)
        BY <3>1, <1>3, <2>5, NidSets
      <3>3. /\ Cardinality(InJournal(journal')) \in Nat /\ Cardinality(InJournal(journal) \cup D) \in Nat
            /\ Cardinality(InJournal(journal)) \in Nat /\ Cardinality(D) \in Nat
        BY <3>1, <1>3, <2>5, NidSets
      <3> QED
        BY <3>2, <3>3
    <2>7. /\ Cardinality(InJournal(journal')) \in Nat /\ Cardinality(InJournal(journal)) \in Nat
          /\ Cardinality(D) \in Nat /\ Cardinality(Dirty) \in Nat
          /\ Cardinality(Dirty \ D) = Cardinality(Dirty) - Cardinality(D)
      BY <1>3, <2>5, NidSets
    <2>8. Cardinality(D) <= JournalEntries - Cardinality(InJournal(journal))
      BY <1>8 DEF HasCursumSpace, D
    <2>9. Cardinality(InJournal(journal')) <= JournalEntries
      BY <2>6, <2>7, <2>8, Constants
    <2>10. \/ Cardinality(InJournal(journal')) + Cardinality(Dirty') <= JournalEntries
           \/ \A n \in InJournal(journal') : NatBlockOf[n] \notin flushing'
      <3>1. CASE Cardinality(InJournal(journal)) + Cardinality(Dirty) <= JournalEntries
        BY <3>1, <1>7, <2>6, <2>7, Constants
      <3>2. CASE \A n \in InJournal(journal) : NatBlockOf[n] \notin flushing
        BY <3>2, <1>1, <1>3, <2>5
      <3> QED
        BY <1>1, <3>1, <3>2 DEF JournalInv
    <2> QED
      BY <1>1, <1>2, <1>5, <1>6, <2>1, <2>2, <2>3, <2>4, <2>9, <2>10 DEF D
  <1>9. CASE ~Fits
    <2>1. /\ journal' = journal
          /\ natPages' = [natPages EXCEPT ![NextCopy(b)] =
                            [n \in Nids |-> IF n \in D THEN cache[n].addr
                                            ELSE IF NatBlockOf[n] = b THEN NatPage(n)
                                            ELSE @[n]]]
          /\ natBitmap' = [natBitmap EXCEPT ![b] = NextCopy(b)]
      BY <1>9 DEF CpFlushSet, D
    <2>2. NextCopy(b) \in Copies /\ natBitmap[b] \in Copies /\ NextCopy(b) # natBitmap[b]
      BY <1>2 DEF NextCopy, Copies
    <2>3. /\ natBitmap' \in [NatBlocks -> Copies]
          /\ natBitmap'[b] = NextCopy(b)
          /\ \A c \in NatBlocks : c # b => natBitmap'[c] = natBitmap[c]
      BY <1>2, <2>1, <2>2
    <2>4. /\ \A c \in Copies : c # NextCopy(b) => natPages'[c] = natPages[c]
          /\ natPages'[NextCopy(b)] = [n \in Nids |-> IF n \in D THEN cache[n].addr
                                                      ELSE IF NatBlockOf[n] = b THEN NatPage(n)
                                                      ELSE natPages[NextCopy(b)][n]]
          /\ natPages' \in [Copies -> [Nids -> Written]]
      BY <1>2, <1>4, <2>1, <2>2
    <2>5. \A n \in InJournal(journal) : NatBlockOf[n] \notin flushing
      <3>1. /\ Cardinality(InJournal(journal)) \in Nat /\ Cardinality(D) \in Nat
            /\ Cardinality(Dirty) \in Nat /\ Cardinality(D) <= Cardinality(Dirty)
        BY <1>3, NidSets
      <3>2. ~(Cardinality(D) <= JournalEntries - Cardinality(InJournal(journal)))
        BY <1>9 DEF HasCursumSpace, D
      <3>3. ~(Cardinality(InJournal(journal)) + Cardinality(Dirty) <= JournalEntries)
        <4>1. \A i, d, e, j \in Nat : d <= e /\ ~(d <= j - i) => ~(i + e <= j)
          OBVIOUS
        <4> QED
          BY <4>1, <3>1, <3>2, Constants
      <3> QED
        BY <3>3, <1>1 DEF JournalInv
    <2>6. \A n \in D : journal[n] = NoValue
      BY <2>5, <1>1, <1>3 DEF InJournal
    <2>7. ASSUME NEW n \in Nids
          PROVE  NatPage(n)' = IF n \in D THEN cache[n].addr ELSE NatPage(n)
      <3>1. CASE NatBlockOf[n] = b
        <4>1. NatPage(n)' = natPages'[NextCopy(b)][n]
          BY <3>1, <2>3 DEF NatPage
        <4> QED
          BY <4>1, <3>1, <2>4
      <3>2. CASE NatBlockOf[n] # b
        <4>1. n \notin D /\ natBitmap'[NatBlockOf[n]] = natBitmap[NatBlockOf[n]]
              /\ natBitmap[NatBlockOf[n]] \in Copies
          BY <3>2, <1>2, <1>3, <2>3
        <4>2. \A c \in Copies : natPages'[c][n] = natPages[c][n]
          BY <4>1, <3>2, <2>4
        <4> QED
          BY <4>1, <4>2 DEF NatPage
      <3> QED
        BY <3>1, <3>2
    <2>8. ASSUME NEW n \in Nids
          PROVE  /\ NatOf(n)' = NatOf(n)
                 /\ Cached(n)' /\ ~cache'[n].dirty => cache'[n].addr = Stored(n)'
      <3>1. CASE n \in D
        BY <3>1, <1>4, <1>5, <2>1, <2>6, <2>7 DEF NatOf, Stored
      <3>2. CASE n \notin D
        <4>1. cache'[n] = cache[n]
          BY <1>1, <3>2 DEF D
        <4>2. NatPage(n)' = NatPage(n)
          BY <2>7, <3>2
        <4> QED
          BY <4>1, <4>2, <1>5, <2>1 DEF NatOf, Stored, CacheInv
      <3> QED
        BY <3>1, <3>2
    <2>9. ASSUME NEW n \in Nids PROVE SavedTable'[n] = SavedTable[n]
      <3>1. saved.bitmap[NatBlockOf[n]] \in Copies
        BY <1>2, Types
      <3>2. natPages'[saved.bitmap[NatBlockOf[n]]][n] = natPages[saved.bitmap[NatBlockOf[n]]][n]
        <4>1. CASE NatBlockOf[n] = b
          <5>1. saved.bitmap[b] = natBitmap[b]
            BY <1>1 DEF SavedInv
          <5> QED
            BY <4>1, <5>1, <2>2, <2>4
        <4>2. CASE NatBlockOf[n] # b
          <5>1. \A c \in Copies : natPages'[c][n] = natPages[c][n]
            BY <4>2, <1>3, <2>4
          <5> QED
            BY <5>1, <3>1
        <4> QED
          BY <4>1, <4>2
      <3> QED
        BY <3>2, <1>1 DEF SavedTable
    <2>10. Cardinality(InJournal(journal')) <= JournalEntries
      BY <2>1 DEF JournalFits
    <2>11. \A n \in InJournal(journal') : NatBlockOf[n] \notin flushing'
      BY <2>1, <2>5, <1>1
    <2> QED
      BY <1>1, <1>2, <1>5, <1>6, <2>1, <2>3, <2>4, <2>8, <2>9, <2>10, <2>11 DEF D
  <1> QED
    BY <1>8, <1>9

-----------------------------------------------------------------------------
(* The steps, by what they do to the table.                                *)

ListStep(t) ==
    \/ AllocNid(t) \/ AllocNidMissed(t)
    \/ BuildStart(t) \/ ScanNatPage(t) \/ AddFreeNidInsert(t) \/ ScanJournal(t) \/ BuildEnd(t)
    \/ Linked(t) \/ AllocNidDone(t) \/ AllocNidFailed(t)
    \/ \E n \in Nids : LookupMissed(t, n)
    \/ LookupJournal(t) \/ LookupNatPage(t)

SetsNode(n, a) ==
    /\ SetNodeAddr(n, a) /\ a \in Addrs
    /\ phase \in {"idle", "sync"}
    /\ UNCHANGED <<journal, natPages, natBitmap, nidVars, cpVars>>

CopiesEntry(n) ==
    /\ \/ ~Cached(n) /\ cache' = [cache EXCEPT ![n] =
                                     [addr |-> Stored(n), ckpt |-> TRUE, dirty |-> FALSE]]
       \/ Evictable(n) /\ cache' = [cache EXCEPT ![n] = NoEntry]
    /\ phase # "down"
    /\ UNCHANGED <<journal, natPages, natBitmap, nidVars, cpVars>>

LEMMA ListStepFrame ==
    ASSUME NEW t \in Threads, ListStep(t)
    PROVE  UNCHANGED <<natVars, cpVars>>
  BY DEF ListStep, AllocNid, AllocNidMissed, BuildStart, ScanNatPage, AddFreeNidInsert, ScanJournal,
         BuildEnd, Linked, AllocNidDone, AllocNidFailed, LookupMissed, LookupJournal, LookupNatPage

LEMMA NewNodePageSets ==
    ASSUME NatInv, NEW t \in Threads, NewNodePage(t)
    PROVE  SetsNode(thread[t].nid, NewAddr) /\ thread[t].nid \in Nids
  BY DEF NewNodePage, SetsNode, Addrs, NatInv, ThreadInv, HandInv, HasNid

LEMMA UndoNodeSets ==
    ASSUME NatInv, NEW t \in Threads, UndoNode(t)
    PROVE  SetsNode(thread[t].nid, NullAddr) /\ thread[t].nid \in Nids
  BY DEF UndoNode, SetsNode, Addrs, NatInv, ThreadInv, HandInv, HasNid, HoldsOpLock

LEMMA TruncateNodeSets ==
    ASSUME NEW n \in Nids, TruncateNode(n)
    PROVE  SetsNode(n, NullAddr)
  BY DEF TruncateNode, SetsNode, Addrs, Running

LEMMA WriteNodePageSets ==
    ASSUME NEW n \in Nids, NEW a \in BlockAddrs, WriteNodePage(n, a)
    PROVE  SetsNode(n, a)
  BY DEF WriteNodePage, SetsNode, Addrs, Running

LEMMA CacheNatEntryCopies ==
    ASSUME NatInv, NEW t \in Threads, CacheNatEntry(t)
    PROVE  CopiesEntry(thread[t].nid) /\ thread[t].nid \in Nids
  BY CacheNatEntryFacts DEF CopiesEntry

LEMMA TryToFreeNatsCopies ==
    ASSUME NEW n \in Nids, TryToFreeNats(n)
    PROVE  CopiesEntry(n)
  BY DEF TryToFreeNats, CopiesEntry

LEMMA NextCases ==
    ASSUME NatInv, Next
    PROVE  \/ \E t \in Threads : ListStep(t)
           \/ \E n \in Nids, a \in Addrs : SetsNode(n, a)
           \/ \E n \in Nids : CopiesEntry(n)
           \/ CpBlock \/ CpFlushStart \/ (\E b \in NatBlocks : CpFlushSet(b)) \/ CpEnd
           \/ PowerFail \/ Mount
  <1>1. CASE \E t \in Threads : ThreadStep(t)
    <2> PICK t \in Threads : ThreadStep(t)
      BY <1>1
    <2>1. CASE NewNodePage(t)
      BY <2>1, NewNodePageSets DEF SetsNode
    <2>2. CASE UndoNode(t)
      BY <2>2, UndoNodeSets DEF SetsNode
    <2>3. CASE CacheNatEntry(t)
      BY <2>3, CacheNatEntryCopies
    <2>4. CASE ListStep(t)
      BY <2>4
    <2> QED
      BY <2>1, <2>2, <2>3, <2>4 DEF ThreadStep, ListStep
  <1>2. CASE \E n \in Nids : NodeStep(n)
    <2> PICK n \in Nids : NodeStep(n)
      BY <1>2
    <2>1. CASE TruncateNode(n)
      BY <2>1, TruncateNodeSets DEF SetsNode
    <2>2. CASE TryToFreeNats(n)
      BY <2>2, TryToFreeNatsCopies
    <2>3. CASE \E a \in BlockAddrs : WriteNodePage(n, a)
      BY <2>3, WriteNodePageSets DEF SetsNode
    <2> QED
      BY <2>1, <2>2, <2>3 DEF NodeStep
  <1>3. CASE CpStep
    BY <1>3 DEF CpStep
  <1> QED
    BY <1>1, <1>2, <1>3 DEF Next

-----------------------------------------------------------------------------
(* The table and the last checkpoint.                                      *)

StoreType ==
    /\ cache \in [Nids -> Flags]
    /\ journal \in [Nids -> Written \cup {NoValue}]
    /\ natPages \in [Copies -> [Nids -> Written]]
    /\ natBitmap \in [NatBlocks -> Copies]
    /\ saved \in [journal : [Nids -> Written \cup {NoValue}], bitmap : [NatBlocks -> Copies]]
    /\ version \in Nat
    /\ phase \in {"idle", "sync", "flush", "down"}
    /\ flushing \subseteq NatBlocks

StoreInv == StoreType /\ CacheInv /\ SavedInv /\ JournalFits /\ JournalInv

LEMMA StoreTypes == TypeOK => StoreType
  BY DEF TypeOK, StoreType, Flags, Written

LEMMA StoreOfInv == NatInv => StoreInv
  BY StoreTypes DEF NatInv, StoreInv

\* Outside a flush the last checkpoint is what is stored.
LEMMA SavedIsStored ==
    ASSUME NatInv, phase # "flush"
    PROVE  \A n \in Nids : SavedTable[n] = Stored(n)
  <1> SUFFICES ASSUME NEW n \in Nids PROVE SavedTable[n] = Stored(n)
    OBVIOUS
  <1>1. journal = saved.journal /\ natBitmap[NatBlockOf[n]] = saved.bitmap[NatBlockOf[n]]
    BY Constants DEF NatInv, SavedInv
  <1> QED
    BY <1>1 DEF SavedTable, Stored, NatPage

LEMMA SetsNodeStore ==
    ASSUME NatInv, NEW n \in Nids, NEW a \in Addrs, SetsNode(n, a)
    PROVE  StoreInv'
  <1>1. StoreType /\ CacheInv /\ SavedInv /\ JournalFits /\ TypeOK
    BY StoreOfInv DEF StoreInv, NatInv
  <1>2. /\ cache' \in [Nids -> Flags]
        /\ cache'[n].dirty = TRUE
        /\ \A m \in Nids : m # n => cache'[m] = cache[m]
        /\ \A m \in Nids : Stored(m)' = Stored(m)
        /\ \A m \in Nids : Cached(m)' = (m = n \/ Cached(m))
    BY <1>1, SetNodeAddrFacts DEF SetsNode
  <1>3. /\ phase \in {"idle", "sync"}
        /\ UNCHANGED <<journal, natPages, natBitmap, saved, version, phase, flushing>>
    BY DEF SetsNode, cpVars
  <1>4. StoreType'
    BY <1>1, <1>2, <1>3 DEF StoreType
  <1>5. CacheInv'
    BY <1>1, <1>2, <1>3 DEF CacheInv
  <1>6. SavedInv' /\ JournalFits' /\ JournalInv'
    BY <1>1, <1>3 DEF SavedInv, JournalFits, JournalInv, InJournal
  <1> QED
    BY <1>4, <1>5, <1>6 DEF StoreInv

LEMMA CopiesEntryStore ==
    ASSUME NatInv, NEW n \in Nids, CopiesEntry(n)
    PROVE  StoreInv'
  <1>1. StoreType /\ CacheInv /\ SavedInv /\ JournalFits /\ JournalInv /\ TypeOK
    BY StoreOfInv DEF StoreInv, NatInv
  <1>2. /\ phase # "down"
        /\ UNCHANGED <<journal, natPages, natBitmap, saved, version, phase, flushing>>
    BY DEF CopiesEntry, cpVars
  <1>3. /\ cache' \in [Nids -> Flags]
        /\ ~cache[n].dirty /\ ~cache'[n].dirty /\ cache'[n].addr \in {Stored(n), NoValue}
        /\ \A m \in Nids : m # n => cache'[m] = cache[m]
        /\ Dirty' = Dirty
        /\ \A m \in Nids : Stored(m)' = Stored(m) /\ (m # n => Cached(m)' = Cached(m))
    BY CleanEntry DEF CopiesEntry
  <1>4. StoreType'
    BY <1>1, <1>2, <1>3 DEF StoreType
  <1>5. CacheInv'
    <2>1. cache'[n].addr # NewAddr
      BY <1>1, <1>3, StoredWritten, Constants DEF Written
    <2>2. Cached(n)' => cache'[n].addr = Stored(n)'
      BY <1>3 DEF Cached
    <2> QED
      BY <1>1, <1>2, <1>3, <2>1, <2>2 DEF CacheInv
  <1>6. SavedInv' /\ JournalFits'
    BY <1>1, <1>2 DEF SavedInv, JournalFits, InJournal
  <1>7. JournalInv'
    BY <1>1, <1>2, <1>3 DEF JournalInv, InJournal
  <1> QED
    BY <1>4, <1>5, <1>6, <1>7 DEF StoreInv

LEMMA CheckpointStore ==
    ASSUME NatInv, CpBlock \/ CpFlushStart \/ CpEnd
    PROVE  StoreInv'
  <1>1. StoreType /\ CacheInv /\ SavedInv /\ JournalFits /\ JournalInv /\ TypeOK
    BY StoreOfInv DEF StoreInv, NatInv
  <1>2. CASE CpBlock
    <2>1. /\ phase = "idle" /\ phase' = "sync"
          /\ UNCHANGED <<cache, journal, natPages, natBitmap, saved, version, flushing>>
      BY <1>2 DEF CpBlock, Running, natVars
    <2>2. StoreType'
      BY <1>1, <2>1 DEF StoreType
    <2>3. CacheInv'
      BY <1>1, <2>1 DEF CacheInv, Cached, Stored, NatPage
    <2>4. SavedInv' /\ JournalFits' /\ JournalInv'
      BY <1>1, <2>1 DEF SavedInv, JournalFits, JournalInv, InJournal
    <2> QED
      BY <2>2, <2>3, <2>4 DEF StoreInv
  <1>3. CASE CpFlushStart
    <2>1. /\ cache' \in [Nids -> Flags]
          /\ journal' \in [Nids -> Written \cup {NoValue}]
          /\ \A n \in Nids : /\ cache'[n].dirty => Cached(n)' /\ NatBlockOf[n] \in flushing'
                             /\ Cached(n)' /\ ~cache'[n].dirty => cache'[n].addr = Stored(n)'
                             /\ cache'[n].addr # NewAddr
          /\ InJournal(journal') \subseteq InJournal(journal)
          /\ \/ Cardinality(InJournal(journal')) + Cardinality(Dirty') <= JournalEntries
             \/ InJournal(journal') = {}
          /\ flushing' \subseteq NatBlocks
          /\ phase = "sync" /\ phase' = "flush"
          /\ UNCHANGED <<natPages, natBitmap, saved, version>>
      BY <1>3, CpFlushStartFacts
    <2>2. StoreType'
      BY <1>1, <2>1 DEF StoreType
    <2>3. CacheInv'
      BY <2>1 DEF CacheInv
    <2>4. SavedInv'
      BY <1>1, <2>1 DEF SavedInv
    <2>5. JournalFits'
      <3>1. InJournal(journal) \in SUBSET Nids /\ InJournal(journal') \in SUBSET Nids
        BY DEF InJournal
      <3>2. Cardinality(InJournal(journal')) <= Cardinality(InJournal(journal))
        BY <2>1, <3>1, NidSets
      <3>3. Cardinality(InJournal(journal)) \in Nat /\ Cardinality(InJournal(journal')) \in Nat
        BY <3>1, NidSets
      <3>4. Cardinality(InJournal(journal)) <= JournalEntries
        BY <1>1 DEF JournalFits
      <3>5. JournalFits' <=> Cardinality(InJournal(journal')) <= JournalEntries
        BY DEF JournalFits
      <3> QED
        BY <3>2, <3>3, <3>4, <3>5, Constants
    <2>6. JournalInv'
      BY <2>1 DEF JournalInv
    <2> QED
      BY <2>2, <2>3, <2>4, <2>5, <2>6 DEF StoreInv
  <1>4. CASE CpEnd
    <2>1. /\ phase = "flush" /\ flushing = {} /\ phase' = "idle"
          /\ saved' = [journal |-> journal, bitmap |-> natBitmap] /\ version' = version + 1
          /\ UNCHANGED <<cache, journal, natPages, natBitmap, flushing>>
      BY <1>4 DEF CpEnd, natVars
    <2>2. StoreType'
      BY <1>1, <2>1 DEF StoreType
    <2>3. CacheInv'
      BY <1>1, <2>1 DEF CacheInv, Cached, Stored, NatPage
    <2>4. SavedInv' /\ JournalFits' /\ JournalInv'
      BY <1>1, <2>1 DEF SavedInv, JournalFits, JournalInv, InJournal
    <2> QED
      BY <2>2, <2>3, <2>4 DEF StoreInv
  <1> QED
    BY <1>2, <1>3, <1>4

LEMMA CpFlushSetStore ==
    ASSUME NatInv, NEW b \in NatBlocks, CpFlushSet(b)
    PROVE  StoreInv'
  <1>1. StoreType /\ CacheInv /\ SavedInv /\ TypeOK
    BY StoreOfInv DEF StoreInv, NatInv
  <1>2. /\ cache' \in [Nids -> Flags]
        /\ journal' \in [Nids -> Written \cup {NoValue}]
        /\ natPages' \in [Copies -> [Nids -> Written]]
        /\ natBitmap' \in [NatBlocks -> Copies]
        /\ \A n \in Nids : /\ cache'[n].dirty = (n \in Dirty \ DirtyOf(b))
                           /\ cache'[n].addr = cache[n].addr
                           /\ Cached(n)' /\ ~cache'[n].dirty => cache'[n].addr = Stored(n)'
        /\ \A c \in NatBlocks : c # b => natBitmap'[c] = natBitmap[c]
        /\ Cardinality(InJournal(journal')) <= JournalEntries
        /\ \/ Cardinality(InJournal(journal')) + Cardinality(Dirty') <= JournalEntries
           \/ \A n \in InJournal(journal') : NatBlockOf[n] \notin flushing'
        /\ flushing' = flushing \ {b} /\ phase = "flush" /\ b \in flushing
        /\ UNCHANGED <<saved, version, phase>>
    BY CpFlushSetFacts
  <1>3. StoreType'
    BY <1>1, <1>2 DEF StoreType
  <1>4. CacheInv'
    <2> SUFFICES ASSUME NEW n \in Nids
                 PROVE  /\ cache'[n].dirty => Cached(n)' /\ NatBlockOf[n] \in flushing'
                        /\ cache'[n].addr # NewAddr
      BY <1>2 DEF CacheInv
    <2>1. cache[n].addr # NewAddr /\ (cache[n].dirty => Cached(n) /\ NatBlockOf[n] \in flushing)
      BY <1>1, <1>2 DEF CacheInv
    <2>2. cache'[n].dirty => cache[n].dirty /\ NatBlockOf[n] # b
      BY <1>2 DEF Dirty, DirtyOf
    <2>3. Cached(n)' = Cached(n)
      BY <1>2 DEF Cached
    <2> QED
      BY <1>2, <2>1, <2>2, <2>3
  <1>5. SavedInv'
    BY <1>1, <1>2 DEF SavedInv
  <1>6. JournalFits' /\ JournalInv'
    BY <1>2 DEF JournalFits, JournalInv
  <1> QED
    BY <1>3, <1>4, <1>5, <1>6 DEF StoreInv

LEMMA PowerStore ==
    ASSUME NatInv, PowerFail \/ Mount
    PROVE  StoreInv'
  <1>1. StoreType /\ CacheInv /\ SavedInv /\ JournalFits /\ TypeOK
    BY StoreOfInv DEF StoreInv, NatInv
  <1>2. CASE PowerFail
    <2>1. /\ phase' = "down" /\ cache' = [n \in Nids |-> NoEntry]
          /\ journal' = saved.journal /\ natBitmap' = saved.bitmap
          /\ flushing' = {} /\ UNCHANGED <<natPages, saved, version>>
      BY <1>2 DEF PowerFail
    <2>2. NoEntry \in Flags /\ NoEntry.addr = NoValue /\ NoEntry.dirty = FALSE
      BY DEF NoEntry, Flags
    <2>3. StoreType'
      BY <1>1, <2>1, <2>2 DEF StoreType
    <2>4. CacheInv'
      BY <2>1, <2>2 DEF CacheInv, Cached
    <2>5. SavedInv' /\ JournalFits' /\ JournalInv'
      BY <1>1, <2>1 DEF SavedInv, JournalFits, JournalInv, InJournal
    <2> QED
      BY <2>3, <2>4, <2>5 DEF StoreInv
  <1>3. CASE Mount
    <2>1. /\ phase = "down" /\ phase' = "idle"
          /\ UNCHANGED <<cache, journal, natPages, natBitmap, saved, version, flushing>>
      BY <1>3 DEF Mount, natVars
    <2>2. StoreType'
      BY <1>1, <2>1 DEF StoreType
    <2>3. CacheInv'
      BY <1>1, <2>1 DEF CacheInv, Cached, Stored, NatPage
    <2>4. SavedInv' /\ JournalFits' /\ JournalInv'
      BY <1>1, <2>1 DEF SavedInv, JournalFits, JournalInv, InJournal
    <2> QED
      BY <2>2, <2>3, <2>4 DEF StoreInv
  <1> QED
    BY <1>2, <1>3

LEMMA FrameStore ==
    ASSUME NatInv, UNCHANGED <<natVars, cpVars>>
    PROVE  StoreInv'
  <1>1. StoreType /\ CacheInv /\ SavedInv /\ JournalFits /\ JournalInv
    BY StoreOfInv DEF StoreInv
  <1>2. UNCHANGED <<cache, journal, natPages, natBitmap, saved, version, phase, flushing>>
    BY DEF natVars, cpVars
  <1>3. StoreType'
    BY <1>1, <1>2 DEF StoreType
  <1>4. CacheInv'
    BY <1>1, <1>2 DEF CacheInv, Cached, Stored, NatPage
  <1>5. SavedInv' /\ JournalFits' /\ JournalInv'
    BY <1>1, <1>2 DEF SavedInv, JournalFits, JournalInv, InJournal, Dirty
  <1> QED
    BY <1>3, <1>4, <1>5 DEF StoreInv

LEMMA StepStore ==
    ASSUME NatInv, [Next]_vars
    PROVE  StoreInv'
  <1>1. CASE UNCHANGED vars
    BY <1>1, FrameStore DEF vars
  <1>2. CASE Next
    <2>1. CASE \E t \in Threads : ListStep(t)
      BY <2>1, ListStepFrame, FrameStore
    <2> QED
      BY <1>2, <2>1, NextCases, SetsNodeStore, CopiesEntryStore, CheckpointStore, CpFlushSetStore,
         PowerStore
  <1> QED
    BY <1>1, <1>2

-----------------------------------------------------------------------------
(* What a step does to the threads.                                        *)

Pcs == {"idle", "wait", "build", "held", "made", "linked", "undone", "missed", "unjournaled", "found"}
Hands == [pc : Pcs, nid : Nids \cup {NoValue}, addr : Addrs \cup {NoValue}]

ListType ==
    /\ freeNids \in [Nids -> {"none", "new", "alloc"}]
    /\ thread \in [Threads -> Hands]
    /\ \A t \in Threads : HasNid(t) => freeNids[thread[t].nid] = "alloc"
    /\ scan \in [page : SUBSET Nids, journal : SUBSET Nids]
    /\ checking \in Nids \cup {NoValue}

LEMMA TypeParts == TypeOK <=> StoreType /\ ListType
  BY DEF TypeOK, StoreType, ListType, Flags, Written, Hands, Pcs

LEMMA ThreadsOfInv == NatInv => ListType /\ ThreadInv
  BY TypeParts DEF NatInv

OnlyMoves(t) ==
    /\ thread' \in [Threads -> Hands]
    /\ \A u \in Threads : u # t => thread'[u] = thread[u]

LEMMA FinishFacts ==
    ASSUME ListType, NEW t \in Threads, Finish(t)
    PROVE  OnlyMoves(t) /\ thread'[t] = Idle /\ thread'[t].pc = "idle"
  <1>1. Idle \in Hands /\ Idle.pc = "idle"
    BY DEF Idle, Hands, Pcs
  <1>2. thread \in [Threads -> Hands]
    BY DEF ListType
  <1> QED
    BY <1>1, <1>2 DEF Finish, OnlyMoves

LEMMA GotoFacts ==
    ASSUME ListType, NEW t \in Threads, NEW pc \in Pcs, Goto(t, pc)
    PROVE  OnlyMoves(t) /\ thread'[t].pc = pc /\ thread'[t].nid = thread[t].nid
  <1>1. thread \in [Threads -> Hands]
    BY DEF ListType
  <1> QED
    BY <1>1 DEF Goto, OnlyMoves, Hands

LEMMA FoundFacts ==
    ASSUME ListType, NEW t \in Threads, NEW a \in Addrs, Found(t, a)
    PROVE  OnlyMoves(t) /\ thread'[t].pc = "found" /\ thread'[t].nid = thread[t].nid /\ thread'[t].addr = a
  <1>1. thread \in [Threads -> Hands]
    BY DEF ListType
  <1> QED
    BY <1>1 DEF Found, OnlyMoves, Hands, Pcs

LEMMA TakesFacts ==
    ASSUME ListType, NEW t \in Threads, NEW n \in Nids, NEW pc \in Pcs,
           thread' = [thread EXCEPT ![t] = [pc |-> pc, nid |-> n, addr |-> NoValue]]
    PROVE  OnlyMoves(t) /\ thread'[t].pc = pc /\ thread'[t].nid = n
  <1>1. thread \in [Threads -> Hands]
    BY DEF ListType
  <1> QED
    BY <1>1 DEF OnlyMoves, Hands

\* A step of a thread keeps ThreadInv when the new state of the thread agrees with it and the
\* nodes that others look up stay as they are.
LEMMA ThreadMoves ==
    ASSUME NatInv, NEW t \in Threads, OnlyMoves(t), UNCHANGED <<journal, phase>>,
           \A n \in Nids : (\E u \in Threads : u # t /\ LookingUp(u) /\ thread[u].nid = n) =>
              NatOf(n)' = NatOf(n) /\ ~Cached(n)',
           HandInv(t)',
           \A u \in Threads : u # t => Apart(t, u)'
    PROVE  ThreadInv'
  <1>1. ThreadInv /\ ListType
    BY ThreadsOfInv
  <1>2. \A u \in Threads : u # t => /\ thread'[u] = thread[u] /\ HasNid(u)' = HasNid(u)
                                    /\ LookingUp(u)' = LookingUp(u) /\ HoldsOpLock(u)' = HoldsOpLock(u)
    BY DEF OnlyMoves, HasNid, LookingUp, HoldsOpLock
  <1>3. ASSUME NEW u \in Threads, u # t PROVE HandInv(u)'
    <2>1. thread'[u] = thread[u] /\ HandInv(u)
      BY <1>1, <1>2, <1>3 DEF ThreadInv
    <2>2. LookingUp(u) => /\ thread[u].nid \in Nids
                          /\ NatOf(thread[u].nid)' = NatOf(thread[u].nid) /\ ~Cached(thread[u].nid)'
      <3> SUFFICES ASSUME LookingUp(u)
                   PROVE  /\ thread[u].nid \in Nids
                          /\ NatOf(thread[u].nid)' = NatOf(thread[u].nid) /\ ~Cached(thread[u].nid)'
        OBVIOUS
      <3>1. PICK n \in Nids : n = thread[u].nid
        BY <2>1 DEF HandInv
      <3>2. NatOf(n)' = NatOf(n) /\ ~Cached(n)'
        BY <1>3, <3>1
      <3> QED
        BY <2>1, <3>1, <3>2 DEF NatOf, NatPage, Cached
    <2>3. thread[u].pc = "found" => LookingUp(u)
      BY DEF LookingUp
    <2>4. HasNid(u)' = HasNid(u) /\ LookingUp(u)' = LookingUp(u) /\ HoldsOpLock(u)' = HoldsOpLock(u)
      BY <1>2, <1>3
    <2> QED
      BY <2>1, <2>2, <2>3, <2>4 DEF HandInv
  <1>4. ASSUME NEW u \in Threads, NEW w \in Threads, u # w PROVE Apart(u, w)'
    <2>1. CASE u = t
      BY <2>1, <1>4
    <2>2. CASE w = t
      <3>1. Apart(w, u)'
        BY <2>2, <1>4
      <3> QED
        BY <3>1 DEF Apart
    <2>3. CASE u # t /\ w # t
      <3>1. Apart(u, w)
        BY <1>1, <1>4 DEF ThreadInv
      <3> QED
        BY <2>3, <3>1, <1>2 DEF Apart
    <2> QED
      BY <2>1, <2>2, <2>3
  <1> QED
    BY <1>3, <1>4 DEF ThreadInv

LEMMA ThreadStays ==
    ASSUME NatInv, thread' = thread, phase' # "down",
           \A n \in Nids : (\E u \in Threads : LookingUp(u) /\ thread[u].nid = n) =>
              NatOf(n)' = NatOf(n) /\ ~Cached(n)' /\ journal'[n] = journal[n],
           (\E u \in Threads : LookingUp(u)) => phase' \in {"idle", "sync"},
           (\E u \in Threads : HoldsOpLock(u)) => phase' = "idle"
    PROVE  ThreadInv'
  <1>1. ThreadInv
    BY ThreadsOfInv
  <1>2. \A u \in Threads : /\ HasNid(u)' = HasNid(u) /\ LookingUp(u)' = LookingUp(u)
                           /\ HoldsOpLock(u)' = HoldsOpLock(u)
    BY DEF HasNid, LookingUp, HoldsOpLock
  <1>3. ASSUME NEW u \in Threads PROVE HandInv(u)'
    <2>1. HandInv(u)
      BY <1>1 DEF ThreadInv
    <2>2. LookingUp(u) => /\ thread[u].nid \in Nids /\ journal'[thread[u].nid] = journal[thread[u].nid]
                          /\ NatOf(thread[u].nid)' = NatOf(thread[u].nid) /\ ~Cached(thread[u].nid)'
      <3> SUFFICES ASSUME LookingUp(u)
                   PROVE  /\ thread[u].nid \in Nids /\ journal'[thread[u].nid] = journal[thread[u].nid]
                          /\ NatOf(thread[u].nid)' = NatOf(thread[u].nid) /\ ~Cached(thread[u].nid)'
        OBVIOUS
      <3>1. PICK n \in Nids : n = thread[u].nid
        BY <2>1 DEF HandInv
      <3>2. NatOf(n)' = NatOf(n) /\ ~Cached(n)' /\ journal'[n] = journal[n]
        BY <3>1
      <3> QED
        BY <2>1, <3>1, <3>2 DEF NatOf, NatPage, Cached
    <2>3. thread[u].pc \in {"found", "unjournaled"} => LookingUp(u)
      BY DEF LookingUp
    <2> QED
      BY <1>2, <2>1, <2>2, <2>3 DEF HandInv
  <1>4. ASSUME NEW u \in Threads, NEW w \in Threads, u # w PROVE Apart(u, w)'
    <2>1. Apart(u, w)
      BY <1>1, <1>4 DEF ThreadInv
    <2> QED
      BY <2>1, <1>2 DEF Apart
  <1> QED
    BY <1>3, <1>4 DEF ThreadInv

\* A thread looks up a nid of its own, which is not in the cache.
LEMMA LookupsNotCached ==
    ASSUME NatInv
    PROVE  \A u \in Threads : LookingUp(u) => thread[u].nid \in Nids /\ ~Cached(thread[u].nid)
                                               /\ phase \in {"idle", "sync"}
  BY DEF NatInv, ThreadInv, HandInv

LEMMA FinishThread ==
    ASSUME NatInv, NEW t \in Threads, Finish(t), UNCHANGED <<journal, phase>>,
           \A n \in Nids : (\E u \in Threads : u # t /\ LookingUp(u) /\ thread[u].nid = n) =>
              NatOf(n)' = NatOf(n) /\ ~Cached(n)'
    PROVE  ThreadInv'
  <1>1. OnlyMoves(t) /\ thread'[t].pc = "idle"
    BY FinishFacts, ThreadsOfInv
  <1>2. ~HasNid(t)' /\ ~LookingUp(t)' /\ ~HoldsOpLock(t)'
    BY <1>1 DEF HasNid, LookingUp, HoldsOpLock
  <1>3. HandInv(t)' /\ \A u \in Threads : u # t => Apart(t, u)'
    BY <1>1, <1>2 DEF HandInv, Apart
  <1> QED
    BY <1>1, <1>3, ThreadMoves

LEMMA ListStepThread ==
    ASSUME NatInv, ~FlushedLookups, NEW t \in Threads, ListStep(t)
    PROVE  ThreadInv'
  <1>1. ListType /\ ThreadInv /\ StoreType /\ TypeOK
    BY ThreadsOfInv, StoreOfInv DEF StoreInv, NatInv
  <1>2. UNCHANGED <<cache, journal, natPages, natBitmap, phase>>
    BY ListStepFrame DEF natVars, cpVars
  <1>3. \A n \in Nids : NatOf(n)' = NatOf(n) /\ Cached(n)' = Cached(n) /\ NatPage(n)' = NatPage(n)
    BY <1>2, TableFrame DEF natVars
  <1>4. \A n \in Nids : (\E u \in Threads : LookingUp(u) /\ thread[u].nid = n) =>
              NatOf(n)' = NatOf(n) /\ ~Cached(n)'
    BY <1>3, LookupsNotCached
  <1>5. HandInv(t) /\ \A u \in Threads : u # t => Apart(t, u)
    BY <1>1 DEF ThreadInv
  <1>6. CASE ScanNatPage(t) \/ AddFreeNidInsert(t) \/ ScanJournal(t)
    <2>1. thread' = thread /\ thread[t].pc = "build"
      BY <1>6 DEF ScanNatPage, AddFreeNidInsert, ScanJournal
    <2>2. phase = "idle"
      BY <2>1, <1>5 DEF HandInv, HoldsOpLock
    <2> QED
      BY <1>2, <1>4, <2>1, <2>2, ThreadStays
  <1>7. CASE BuildEnd(t) \/ AllocNidDone(t) \/ AllocNidFailed(t)
    <2>1. Finish(t)
      BY <1>7 DEF BuildEnd, AllocNidDone, AllocNidFailed
    <2> QED
      BY <1>2, <1>4, <2>1, FinishThread
  <1>8. CASE AllocNidMissed(t)
    <2>1. OnlyMoves(t) /\ thread'[t].pc = "wait" /\ phase = "idle"
      BY <1>1, <1>8, GotoFacts DEF AllocNidMissed, Running, Pcs
    <2>2. ~HasNid(t)' /\ ~LookingUp(t)' /\ HoldsOpLock(t)'
      BY <2>1 DEF HasNid, LookingUp, HoldsOpLock
    <2>3. HandInv(t)' /\ \A u \in Threads : u # t => Apart(t, u)'
      BY <1>2, <2>1, <2>2 DEF HandInv, Apart
    <2> QED
      BY <1>2, <1>4, <2>1, <2>3, ThreadMoves
  <1>9. CASE BuildStart(t)
    <2>1. OnlyMoves(t) /\ thread'[t].pc = "build" /\ thread[t].pc = "wait" /\ ~OnBuild
      BY <1>1, <1>9, GotoFacts DEF BuildStart, Pcs
    <2>2. phase = "idle"
      BY <1>5, <2>1 DEF HandInv, HoldsOpLock
    <2>3. ~HasNid(t)' /\ ~LookingUp(t)' /\ HoldsOpLock(t)'
      BY <2>1 DEF HasNid, LookingUp, HoldsOpLock
    <2>4. HandInv(t)'
      BY <1>2, <2>1, <2>2, <2>3 DEF HandInv
    <2>5. \A u \in Threads : u # t => Apart(t, u)'
      BY <2>1, <2>3 DEF Apart, OnBuild, OnlyMoves
    <2> QED
      BY <1>2, <1>4, <2>1, <2>4, <2>5, ThreadMoves
  <1>10. CASE Linked(t)
    <2>1. /\ OnlyMoves(t) /\ thread'[t].pc = "linked" /\ thread[t].pc = "made"
          /\ thread'[t].nid = thread[t].nid
      BY <1>1, <1>10, GotoFacts DEF Linked, Pcs
    <2>2. HasNid(t) /\ HasNid(t)' /\ ~LookingUp(t)' /\ ~HoldsOpLock(t)' /\ HoldsOpLock(t)
      BY <2>1 DEF HasNid, LookingUp, HoldsOpLock
    <2>3. HandInv(t)'
      BY <1>2, <1>5, <2>1, <2>2 DEF HandInv
    <2>4. \A u \in Threads : u # t => Apart(t, u)'
      BY <1>5, <2>1, <2>2 DEF Apart, OnlyMoves, HasNid
    <2> QED
      BY <1>2, <1>4, <2>1, <2>3, <2>4, ThreadMoves
  <1>11. CASE AllocNid(t)
    <2>1. PICK n \in Listed("new") :
             thread' = [thread EXCEPT ![t] = [pc |-> "held", nid |-> n, addr |-> NoValue]]
      BY <1>11 DEF AllocNid
    <2>2. n \in Nids /\ freeNids[n] = "new" /\ phase = "idle"
      BY <1>11 DEF Listed, AllocNid, Running
    <2>3. OnlyMoves(t) /\ thread'[t].pc = "held" /\ thread'[t].nid = n
      BY <1>1, <2>1, <2>2, TakesFacts DEF Pcs
    <2>4. HasNid(t)' /\ ~LookingUp(t)' /\ ~HoldsOpLock(t)'
      BY <2>3 DEF HasNid, LookingUp, HoldsOpLock
    <2>5. HandInv(t)'
      BY <1>2, <2>2, <2>3, <2>4 DEF HandInv
    <2>6. \A u \in Threads : HasNid(u) => thread[u].nid # n
      BY <1>1, <2>2 DEF ListType
    <2>7. \A u \in Threads : u # t => Apart(t, u)'
      BY <2>3, <2>4, <2>6 DEF Apart, OnlyMoves, HasNid
    <2> QED
      BY <1>2, <1>4, <2>3, <2>5, <2>7, ThreadMoves
  <1>12. CASE \E n \in Nids : LookupMissed(t, n)
    <2> PICK n \in Nids : LookupMissed(t, n)
      BY <1>12
    <2>1. /\ phase # "down" /\ phase # "flush" /\ ~Cached(n) /\ ~PageLocked(n)
          /\ thread' = [thread EXCEPT ![t] = [pc |-> "missed", nid |-> n, addr |-> NoValue]]
      BY DEF LookupMissed
    <2>2. OnlyMoves(t) /\ thread'[t].pc = "missed" /\ thread'[t].nid = n
      BY <1>1, <2>1, TakesFacts DEF Pcs
    <2>3. ~HasNid(t)' /\ LookingUp(t)' /\ ~HoldsOpLock(t)'
      BY <2>2 DEF HasNid, LookingUp, HoldsOpLock
    <2>4. phase \in {"idle", "sync"}
      BY <1>1, <2>1 DEF StoreType
    <2>5. ~Cached(thread[t].nid)'
      BY <1>2, <2>1, <2>2 DEF Cached
    <2>6. HandInv(t)'
      BY <1>2, <2>2, <2>3, <2>4, <2>5 DEF HandInv
    <2>7. \A u \in Threads : LookingUp(u) => thread[u].nid # n
      BY <2>1 DEF PageLocked
    <2>8. \A u \in Threads : u # t => Apart(t, u)'
      BY <2>2, <2>3, <2>7 DEF Apart, OnlyMoves, LookingUp
    <2> QED
      BY <1>2, <1>4, <2>2, <2>6, <2>8, ThreadMoves
  <1>13. CASE LookupJournal(t) \/ LookupNatPage(t)
    <2>1. /\ thread[t].pc \in {"missed", "unjournaled"}
          /\ LookingUp(t) /\ ~HasNid(t)
      BY <1>13 DEF LookupJournal, LookupNatPage, LookingUp, HasNid
    <2>2. PICK n \in Nids : n = thread[t].nid
      BY <1>5, <2>1 DEF HandInv
    <2>3. /\ ~Cached(n) /\ phase \in {"idle", "sync"}
          /\ thread[t].pc = "unjournaled" => journal[n] = NoValue
      BY <1>5, <2>1, <2>2 DEF HandInv
    <2>4. /\ OnlyMoves(t) /\ thread'[t].nid = n
          /\ \/ thread'[t].pc = "found" /\ thread'[t].addr = NatOf(n)
             \/ thread'[t].pc = "unjournaled" /\ journal[n] = NoValue
      <3>1. NatPage(n) \in Addrs /\ journal[n] \in Addrs \cup {NoValue}
        BY <1>1, StoredWritten, Types DEF Written, Addrs
      <3>2. CASE LookupJournal(t) /\ journal[n] # NoValue
        <4>1. Found(t, journal[n])
          BY <2>2, <3>2 DEF LookupJournal
        <4>2. journal[n] = NatOf(n)
          BY <2>3, <3>2 DEF NatOf
        <4> QED
          BY <1>1, <2>2, <3>1, <3>2, <4>1, <4>2, FoundFacts
      <3>3. CASE LookupJournal(t) /\ journal[n] = NoValue
        <4>1. Goto(t, "unjournaled")
          BY <2>2, <3>3 DEF LookupJournal
        <4> QED
          BY <1>1, <2>2, <3>3, <4>1, GotoFacts DEF Pcs
      <3>4. CASE LookupNatPage(t)
        <4>1. Found(t, NatPage(n)) /\ thread[t].pc = "unjournaled"
          BY <2>2, <3>4 DEF LookupNatPage
        <4>2. NatPage(n) = NatOf(n)
          BY <2>3, <4>1 DEF NatOf
        <4> QED
          BY <1>1, <2>2, <3>1, <4>1, <4>2, FoundFacts
      <3> QED
        BY <1>13, <3>2, <3>3, <3>4
    <2>5. ~HasNid(t)' /\ LookingUp(t)' /\ ~HoldsOpLock(t)'
      BY <2>4 DEF HasNid, LookingUp, HoldsOpLock
    <2>6. ~Cached(thread[t].nid)' /\ (thread[t].pc = "found" => thread[t].addr = NatOf(thread[t].nid))'
      BY <1>2, <2>3, <2>4 DEF Cached, NatOf, NatPage
    <2>7. HandInv(t)'
      BY <1>2, <2>3, <2>4, <2>5, <2>6 DEF HandInv
    <2>8. \A u \in Threads : u # t => Apart(t, u)'
      BY <1>5, <2>1, <2>2, <2>4, <2>5 DEF Apart, OnlyMoves, LookingUp
    <2> QED
      BY <1>2, <1>4, <2>4, <2>7, <2>8, ThreadMoves
  <1> QED
    BY <1>6, <1>7, <1>8, <1>9, <1>10, <1>11, <1>12, <1>13 DEF ListStep

\* set_node_addr() leaves what others look up as it is.
LEMMA SetsNodeLookups ==
    ASSUME NatInv, NEW n \in Nids, NEW a \in Addrs, SetsNode(n, a), ~PageLocked(n)
    PROVE  /\ UNCHANGED <<journal, natPages, natBitmap, saved, version, phase, flushing>>
           /\ NatOf(n)' = a
           /\ \A m \in Nids : m # n => NatOf(m)' = NatOf(m)
           /\ \A m \in Nids : (\E u \in Threads : LookingUp(u) /\ thread[u].nid = m) =>
                 NatOf(m)' = NatOf(m) /\ ~Cached(m)'
  <1>1. UNCHANGED <<journal, natPages, natBitmap, saved, version, phase, flushing>>
    BY DEF SetsNode, cpVars
  <1>2. /\ \A m \in Nids : Cached(m)' = (m = n \/ Cached(m))
        /\ \A m \in Nids : NatOf(m)' = IF m = n THEN a ELSE NatOf(m)
    BY SetNodeAddrFacts DEF SetsNode, NatInv
  <1>3. \A u \in Threads : LookingUp(u) => thread[u].nid # n /\ ~Cached(thread[u].nid)
    BY LookupsNotCached DEF PageLocked
  <1> QED
    BY <1>1, <1>2, <1>3

LEMMA NodeStepThread ==
    ASSUME NatInv, NEW t \in Threads, NewNodePage(t) \/ UndoNode(t)
    PROVE  ThreadInv'
  <1>1. ListType /\ ThreadInv
    BY ThreadsOfInv
  <1>2. PICK n \in Nids : n = thread[t].nid
    BY NewNodePageSets, UndoNodeSets
  <1>3. PICK a \in Addrs : SetsNode(n, a)
    BY <1>2, NewNodePageSets, UndoNodeSets DEF SetsNode
  <1>4. ~PageLocked(n)
    BY <1>2 DEF NewNodePage, UndoNode
  <1>5. /\ UNCHANGED <<journal, natPages, natBitmap, saved, version, phase, flushing>>
        /\ \A m \in Nids : (\E u \in Threads : LookingUp(u) /\ thread[u].nid = m) =>
              NatOf(m)' = NatOf(m) /\ ~Cached(m)'
    BY <1>3, <1>4, SetsNodeLookups
  <1>6. HandInv(t) /\ \A u \in Threads : u # t => Apart(t, u)
    BY <1>1 DEF ThreadInv
  <1>7. /\ OnlyMoves(t) /\ thread'[t].pc \in {"made", "undone"} /\ thread'[t].nid = n
        /\ HasNid(t) /\ phase = "idle"
    <2>1. CASE NewNodePage(t)
      BY <1>1, <1>2, <2>1, GotoFacts DEF NewNodePage, Pcs, HasNid
    <2>2. CASE UndoNode(t)
      BY <1>1, <1>2, <1>6, <2>2, GotoFacts DEF UndoNode, Pcs, HasNid, HandInv, HoldsOpLock
    <2> QED
      BY <2>1, <2>2
  <1>8. HasNid(t)' /\ ~LookingUp(t)' /\ HoldsOpLock(t)'
    BY <1>7 DEF HasNid, LookingUp, HoldsOpLock
  <1>9. HandInv(t)'
    BY <1>5, <1>7, <1>8 DEF HandInv
  <1>10. \A u \in Threads : u # t => Apart(t, u)'
    BY <1>2, <1>6, <1>7, <1>8 DEF Apart, OnlyMoves, HasNid
  <1> QED
    BY <1>5, <1>7, <1>9, <1>10, ThreadMoves

LEMMA SetsNodeThread ==
    ASSUME NatInv, NEW n \in Nids, NEW a \in Addrs, SetsNode(n, a), ~PageLocked(n), thread' = thread
    PROVE  ThreadInv'
  <1>1. /\ UNCHANGED <<journal, phase>> /\ phase \in {"idle", "sync"}
        /\ \A m \in Nids : (\E u \in Threads : LookingUp(u) /\ thread[u].nid = m) =>
              NatOf(m)' = NatOf(m) /\ ~Cached(m)'
    BY SetsNodeLookups DEF SetsNode
  <1>2. (\E u \in Threads : HoldsOpLock(u)) => phase = "idle"
    BY ThreadsOfInv DEF ThreadInv, HandInv
  <1> QED
    BY <1>1, <1>2, ThreadStays

LEMMA CacheNatEntryThread ==
    ASSUME NatInv, NEW t \in Threads, CacheNatEntry(t)
    PROVE  ThreadInv'
  <1>1. PICK n \in Nids : n = thread[t].nid
    BY CacheNatEntryFacts
  <1>2. CopiesEntry(n) /\ Finish(t)
    BY <1>1, CacheNatEntryFacts DEF CopiesEntry
  <1>3. \A m \in Nids : NatOf(m)' = NatOf(m) /\ (m # n => Cached(m)' = Cached(m))
    BY <1>2, CleanEntry DEF CopiesEntry
  <1>4. UNCHANGED <<journal, phase>>
    BY <1>2 DEF CopiesEntry, cpVars
  <1>5. \A u \in Threads : u # t /\ LookingUp(u) => thread[u].nid # n /\ ~Cached(thread[u].nid)
    <2>1. LookingUp(t)
      BY DEF CacheNatEntry, LookingUp
    <2>2. \A u \in Threads : u # t => Apart(t, u)
      BY ThreadsOfInv DEF ThreadInv
    <2> QED
      BY <1>1, <2>1, <2>2, LookupsNotCached DEF Apart
  <1> QED
    BY <1>2, <1>3, <1>4, <1>5, FinishThread

LEMMA TryToFreeNatsThread ==
    ASSUME NatInv, NEW n \in Nids, TryToFreeNats(n)
    PROVE  ThreadInv'
  <1>1. CopiesEntry(n) /\ thread' = thread /\ phase # "down"
    BY TryToFreeNatsCopies DEF TryToFreeNats
  <1>2. \A m \in Nids : NatOf(m)' = NatOf(m) /\ (m # n => Cached(m)' = Cached(m))
    BY <1>1, CleanEntry DEF CopiesEntry
  <1>3. Cached(n)
    BY DEF TryToFreeNats, Evictable
  <1>4. \A u \in Threads : LookingUp(u) => thread[u].nid # n /\ ~Cached(thread[u].nid)
    BY <1>3, LookupsNotCached
  <1>5. UNCHANGED <<journal, phase>>
    BY <1>1 DEF CopiesEntry, cpVars
  <1>6. /\ (\E u \in Threads : HoldsOpLock(u)) => phase = "idle"
        /\ (\E u \in Threads : LookingUp(u)) => phase \in {"idle", "sync"}
    BY ThreadsOfInv DEF ThreadInv, HandInv
  <1> QED
    BY <1>1, <1>2, <1>4, <1>5, <1>6, ThreadStays

LEMMA CheckpointThread ==
    ASSUME NatInv, ~FlushedLookups, CpBlock \/ CpFlushStart \/ (\E b \in NatBlocks : CpFlushSet(b)) \/ CpEnd
    PROVE  ThreadInv'
  <1>1. ThreadInv
    BY ThreadsOfInv
  <1>2. /\ (\E u \in Threads : HoldsOpLock(u)) => phase = "idle"
        /\ (\E u \in Threads : LookingUp(u)) => phase \in {"idle", "sync"}
    BY <1>1 DEF ThreadInv, HandInv
  <1>3. CASE CpBlock
    <2>1. /\ thread' = thread /\ phase = "idle" /\ phase' = "sync" /\ UNCHANGED natVars
          /\ \A u \in Threads : ~HoldsOpLock(u)
      BY <1>3 DEF CpBlock, Running
    <2>2. \A n \in Nids : NatOf(n)' = NatOf(n) /\ Cached(n)' = Cached(n)
      BY <2>1, TableFrame
    <2>3. UNCHANGED journal
      BY <2>1 DEF natVars
    <2> QED
      BY <2>1, <2>2, <2>3, LookupsNotCached, ThreadStays
  <1>4. CASE CpFlushStart
    <2>1. /\ thread' = thread /\ phase = "sync" /\ phase' = "flush"
          /\ \A u \in Threads : ~LookingUp(u)
      BY <1>4 DEF CpFlushStart
    <2> QED
      BY <1>2, <2>1, ThreadStays
  <1>5. CASE \E b \in NatBlocks : CpFlushSet(b)
    <2>1. thread' = thread /\ phase = "flush" /\ phase' = "flush"
      BY <1>5 DEF CpFlushSet
    <2> QED
      BY <1>2, <2>1, ThreadStays
  <1>6. CASE CpEnd
    <2>1. thread' = thread /\ phase = "flush" /\ phase' = "idle"
      BY <1>6 DEF CpEnd
    <2> QED
      BY <1>2, <2>1, ThreadStays
  <1> QED
    BY <1>3, <1>4, <1>5, <1>6

\* A thread that does nothing agrees with any table.
LEMMA IdleThreads ==
    ASSUME \A t \in Threads : thread[t].pc = "idle"
    PROVE  ThreadInv
  BY DEF ThreadInv, HandInv, Apart, HasNid, LookingUp, HoldsOpLock

LEMMA IdleThreadsNext ==
    (\A t \in Threads : thread[t].pc = "idle")' => ThreadInv'
  <1>1. (\A t \in Threads : thread[t].pc = "idle") => ThreadInv
    BY IdleThreads
  <1> QED
    BY <1>1, PTL

LEMMA PowerThread ==
    ASSUME NatInv, PowerFail \/ Mount
    PROVE  ThreadInv' /\ \A t \in Threads : thread'[t].pc = "idle"
  <1>1. \A t \in Threads : thread'[t].pc = "idle"
    <2>1. CASE PowerFail
      BY <2>1 DEF PowerFail, Idle
    <2>2. CASE Mount
      BY <2>2, ThreadsOfInv DEF Mount, ThreadInv, HandInv
    <2> QED
      BY <2>1, <2>2
  <1> QED
    BY <1>1, IdleThreadsNext

LEMMA StutterThread ==
    ASSUME NatInv, UNCHANGED vars
    PROVE  ThreadInv'
  BY ThreadsOfInv DEF vars, natVars, cpVars, ThreadInv, HandInv, Apart, HasNid, LookingUp, HoldsOpLock,
     Cached, NatOf, NatPage

LEMMA StepThread ==
    ASSUME NatInv, ~FlushedLookups, [Next]_vars
    PROVE  ThreadInv'
  <1>1. CASE \E t \in Threads : ThreadStep(t)
    <2> PICK t \in Threads : ThreadStep(t)
      BY <1>1
    <2>1. ListStep(t) \/ NewNodePage(t) \/ UndoNode(t) \/ CacheNatEntry(t)
      BY DEF ThreadStep, ListStep
    <2> QED
      BY <2>1, ListStepThread, NodeStepThread, CacheNatEntryThread
  <1>2. CASE \E n \in Nids : NodeStep(n)
    <2> PICK n \in Nids : NodeStep(n)
      BY <1>2
    <2>1. CASE TruncateNode(n)
      <3>1. SetsNode(n, NullAddr) /\ ~PageLocked(n) /\ thread' = thread /\ NullAddr \in Addrs
        BY <2>1, TruncateNodeSets DEF TruncateNode, SetsNode
      <3> QED
        BY <3>1, SetsNodeThread
    <2>2. CASE TryToFreeNats(n)
      BY <2>2, TryToFreeNatsThread
    <2>3. CASE \E a \in BlockAddrs : WriteNodePage(n, a)
      <3> PICK a \in BlockAddrs : WriteNodePage(n, a)
        BY <2>3
      <3>1. SetsNode(n, a) /\ ~PageLocked(n) /\ thread' = thread /\ a \in Addrs
        BY WriteNodePageSets DEF WriteNodePage, SetsNode
      <3> QED
        BY <3>1, SetsNodeThread
    <2> QED
      BY <2>1, <2>2, <2>3 DEF NodeStep
  <1> QED
    BY <1>1, <1>2, CheckpointThread, PowerThread, StutterThread DEF Next, CpStep

-----------------------------------------------------------------------------
(* The list of free nids.                                                  *)

NidInv == ScanInv /\ ListInv

LEMMA ListTypeOfInv == NatInv /\ NidInv => ListType /\ ThreadInv /\ ScanInv /\ ListInv
  BY ThreadsOfInv DEF NidInv

LEMMA OnBuildSame ==
    ASSUME NEW t \in Threads, OnlyMoves(t), (thread'[t].pc = "build") <=> (thread[t].pc = "build")
    PROVE  OnBuild' <=> OnBuild
  BY DEF OnlyMoves, OnBuild

\* The thread takes no nid and keeps what it has.
Quiet(u) ==
    /\ HasNid(u)' => HasNid(u) /\ thread'[u].nid = thread[u].nid
    /\ thread'[u].pc \in {"held", "undone", "made"} => thread'[u] = thread[u]

LEMMA QuietMove ==
    ASSUME NEW t \in Threads, OnlyMoves(t), Quiet(t)
    PROVE  \A u \in Threads : Quiet(u)
  BY DEF OnlyMoves, Quiet, HasNid

LEMMA UnusedSame ==
    ASSUME \A n \in Nids : NatOf(n)' = NatOf(n) /\ SavedTable'[n] = SavedTable[n],
           phase = "flush" => phase' = "flush"
    PROVE  \A n \in Nids : Unused(n) => Unused(n)'
  BY DEF Unused

\* A step that changes neither the list nor the table keeps them in agreement.
LEMMA NidFrame ==
    ASSUME NatInv, NidInv, UNCHANGED nidVars, journal' = journal, phase = "flush" => phase' = "flush",
           \A n \in Nids : /\ NatOf(n)' = NatOf(n) /\ NatPage(n)' = NatPage(n)
                           /\ SavedTable'[n] = SavedTable[n],
           thread' \in [Threads -> Hands], OnBuild' <=> OnBuild, \A u \in Threads : Quiet(u)
    PROVE  NidInv'
  <1>1. ListType /\ ScanInv /\ ListInv /\ ThreadInv
    BY ListTypeOfInv
  <1>2. UNCHANGED <<freeNids, scan, checking>>
    BY DEF nidVars
  <1>4. ScanInv'
    <2>1. /\ ~OnBuild => scan = NoScan /\ checking = NoValue
          /\ scan.page \subseteq Nids
          /\ \A n \in scan.page : NatPage(n) = NullAddr
          /\ scan.journal \subseteq InJournal(journal)
          /\ scan.page # {} => scan.journal = InJournal(journal)
      BY <1>1 DEF ScanInv, ListType
    <2> QED
      BY <1>2, <2>1 DEF ScanInv, InJournal
  <1>5. \A n \in Nids : (Unused(n) => Unused(n)') /\ (ToBeRemoved(n) => ToBeRemoved(n)')
    BY <1>2, UnusedSame DEF ToBeRemoved
  <1>6. checking \in Nids \cup {NoValue}
    BY <1>1 DEF ListType
  <1>7. checking' # NoValue /\ freeNids'[checking'] = "none" => Unused(checking)' \/ ToBeRemoved(checking)'
    <2> SUFFICES ASSUME checking # NoValue, freeNids[checking] = "none"
                 PROVE  Unused(checking)' \/ ToBeRemoved(checking)'
      BY <1>2
    <2>1. PICK n \in Nids : n = checking
      BY <1>6
    <2>2. Unused(n)' \/ ToBeRemoved(n)'
      BY <1>1, <1>5, <2>1 DEF ListInv
    <2> QED
      BY <1>2, <2>1, <2>2 DEF Unused, ToBeRemoved, NatOf, NatPage, Cached
  <1>8. ASSUME NEW u \in Threads
        PROVE  /\ thread'[u].pc \in {"held", "undone"} => Unused(thread[u].nid)'
               /\ thread'[u].pc = "made" => SavedTable'[thread'[u].nid] = NullAddr
    <2> SUFFICES ASSUME thread'[u].pc \in {"held", "undone", "made"}
                 PROVE  /\ thread'[u].pc \in {"held", "undone"} => Unused(thread[u].nid)'
                        /\ thread'[u].pc = "made" => SavedTable'[thread'[u].nid] = NullAddr
      OBVIOUS
    <2>1. thread'[u] = thread[u]
      BY DEF Quiet
    <2>2. HasNid(u) /\ HandInv(u)
      BY <1>1, <2>1 DEF HasNid, ThreadInv
    <2>3. PICK n \in Nids : n = thread[u].nid
      BY <2>2 DEF HandInv
    <2>4. /\ thread'[u].pc \in {"held", "undone"} => Unused(n)'
          /\ thread'[u].pc = "made" => SavedTable'[n] = NullAddr
      BY <1>1, <1>5, <2>1, <2>3 DEF ListInv
    <2> QED
      BY <2>1, <2>3, <2>4 DEF Unused, NatOf, NatPage, Cached
  <1>9. ListInv'
    BY <1>1, <1>2, <1>5, <1>7, <1>8 DEF ListInv
  <1> QED
    BY <1>4, <1>9 DEF NidInv

LEMMA QuietSteps ==
    ASSUME NatInv, NEW t \in Threads,
           \/ AllocNidMissed(t) \/ Linked(t) \/ (\E n \in Nids : LookupMissed(t, n))
           \/ LookupJournal(t) \/ LookupNatPage(t) \/ CacheNatEntry(t)
    PROVE  OnlyMoves(t) /\ Quiet(t) /\ (OnBuild' <=> OnBuild) /\ UNCHANGED nidVars
  <1>1. ListType /\ HandInv(t) /\ TypeOK
    BY ThreadsOfInv DEF ThreadInv, NatInv
  <1>2. CASE AllocNidMissed(t)
    <2>1. /\ OnlyMoves(t) /\ thread'[t].pc = "wait" /\ thread[t].pc = "idle" /\ UNCHANGED nidVars
      BY <1>1, <1>2, GotoFacts DEF AllocNidMissed, Pcs
    <2>2. Quiet(t)
      BY <2>1 DEF Quiet, HasNid
    <2> QED
      BY <2>1, <2>2, OnBuildSame
  <1>3. CASE Linked(t)
    <2>1. /\ OnlyMoves(t) /\ thread'[t].pc = "linked" /\ thread[t].pc = "made"
          /\ thread'[t].nid = thread[t].nid /\ UNCHANGED nidVars
      BY <1>1, <1>3, GotoFacts DEF Linked, Pcs
    <2>2. Quiet(t)
      BY <2>1 DEF Quiet, HasNid
    <2> QED
      BY <2>1, <2>2, OnBuildSame
  <1>4. CASE \E n \in Nids : LookupMissed(t, n)
    <2>1. OnlyMoves(t) /\ thread'[t].pc = "missed" /\ thread[t].pc = "idle" /\ UNCHANGED nidVars
      BY <1>1, <1>4, TakesFacts DEF LookupMissed, Pcs
    <2>2. Quiet(t)
      BY <2>1 DEF Quiet, HasNid
    <2> QED
      BY <2>1, <2>2, OnBuildSame
  <1>5. CASE LookupJournal(t) \/ LookupNatPage(t)
    <2>1. PICK n \in Nids : n = thread[t].nid
      BY <1>1, <1>5 DEF LookupJournal, LookupNatPage, HandInv, LookingUp
    <2>2. NatPage(n) \in Addrs /\ journal[n] \in Addrs \cup {NoValue}
      BY <1>1, StoredWritten, Types DEF Written, Addrs
    <2>3. /\ thread[t].pc \in {"missed", "unjournaled"} /\ UNCHANGED nidVars
          /\ Goto(t, "unjournaled") \/ \E a \in Addrs : Found(t, a)
      BY <1>5, <2>1, <2>2 DEF LookupJournal, LookupNatPage
    <2>4. OnlyMoves(t) /\ thread'[t].pc \in {"unjournaled", "found"}
      BY <1>1, <2>3, GotoFacts, FoundFacts DEF Pcs
    <2>5. Quiet(t)
      BY <2>4 DEF Quiet, HasNid
    <2> QED
      BY <2>3, <2>4, <2>5, OnBuildSame
  <1>6. CASE CacheNatEntry(t)
    <2>1. OnlyMoves(t) /\ thread'[t].pc = "idle" /\ thread[t].pc = "found" /\ UNCHANGED nidVars
      BY <1>1, <1>6, FinishFacts DEF CacheNatEntry
    <2>2. Quiet(t)
      BY <2>1 DEF Quiet, HasNid
    <2> QED
      BY <2>1, <2>2, OnBuildSame
  <1> QED
    BY <1>2, <1>3, <1>4, <1>5, <1>6

LEMMA QuietNid ==
    ASSUME NatInv, NidInv, NEW t \in Threads,
           \/ AllocNidMissed(t) \/ Linked(t) \/ (\E n \in Nids : LookupMissed(t, n))
           \/ LookupJournal(t) \/ LookupNatPage(t)
    PROVE  NidInv'
  <1>1. OnlyMoves(t) /\ Quiet(t) /\ (OnBuild' <=> OnBuild) /\ UNCHANGED nidVars
    BY QuietSteps
  <1>2. UNCHANGED <<natVars, cpVars>>
    BY ListStepFrame DEF ListStep
  <1>3. /\ \A n \in Nids : NatOf(n)' = NatOf(n) /\ NatPage(n)' = NatPage(n)
        /\ UNCHANGED <<journal, phase, natPages, saved>>
    BY <1>2, TableFrame DEF cpVars
  <1>4. SavedTable' = SavedTable
    BY <1>3, SavedFrame
  <1>5. thread' \in [Threads -> Hands] /\ \A u \in Threads : Quiet(u)
    BY <1>1, QuietMove DEF OnlyMoves
  <1> QED
    BY <1>1, <1>3, <1>4, <1>5, NidFrame

LEMMA StaysQuiet ==
    ASSUME NatInv, thread' = thread
    PROVE  thread' \in [Threads -> Hands] /\ (OnBuild' <=> OnBuild) /\ \A u \in Threads : Quiet(u)
  BY ThreadsOfInv DEF ListType, Quiet, HasNid, OnBuild

\* The list and the threads keep their types: what a thread has in hand stays NID_ALLOC.
LEMMA HandsKept ==
    ASSUME NatInv, thread' \in [Threads -> Hands],
           \A u \in Threads : HasNid(u)' => HasNid(u) /\ thread'[u].nid = thread[u].nid,
           scan' \in [page : SUBSET Nids, journal : SUBSET Nids], checking' \in Nids \cup {NoValue},
           freeNids' \in [Nids -> {"none", "new", "alloc"}],
           \A n \in Nids : freeNids[n] = "alloc" => freeNids'[n] = "alloc"
    PROVE  ListType'
  <1>1. ListType /\ ThreadInv
    BY ThreadsOfInv
  <1>2. \A u \in Threads : HasNid(u) => thread[u].nid \in Nids
    BY <1>1 DEF ThreadInv, HandInv
  <1>3. \A u \in Threads : HasNid(u)' => freeNids'[thread'[u].nid] = "alloc"
    BY <1>1, <1>2 DEF ListType
  <1> QED
    BY <1>3 DEF ListType

LEMMA AllocList ==
    ASSUME NatInv, NEW t \in Threads, AllocNid(t)
    PROVE  ListType'
  <1>1. ListType /\ ThreadInv
    BY ThreadsOfInv
  <1>2. PICK n \in Listed("new") :
           /\ freeNids' = [freeNids EXCEPT ![n] = "alloc"]
           /\ thread' = [thread EXCEPT ![t] = [pc |-> "held", nid |-> n, addr |-> NoValue]]
    BY DEF AllocNid
  <1>3. n \in Nids /\ UNCHANGED <<scan, checking>>
    BY DEF Listed, AllocNid
  <1>4. OnlyMoves(t) /\ thread'[t].nid = n
    BY <1>1, <1>2, <1>3, TakesFacts DEF Pcs
  <1>5. /\ freeNids' \in [Nids -> {"none", "new", "alloc"}] /\ freeNids'[n] = "alloc"
        /\ \A m \in Nids : freeNids[m] = "alloc" => freeNids'[m] = "alloc"
    BY <1>1, <1>2, <1>3 DEF ListType
  <1>6. ASSUME NEW u \in Threads, HasNid(u)' PROVE freeNids'[thread'[u].nid] = "alloc"
    <2>1. CASE u = t
      BY <2>1, <1>4, <1>5
    <2>2. CASE u # t
      <3>1. thread'[u] = thread[u] /\ HasNid(u)
        BY <1>4, <1>6, <2>2 DEF OnlyMoves, HasNid
      <3>2. freeNids[thread[u].nid] = "alloc" /\ thread[u].nid \in Nids
        BY <1>1, <3>1 DEF ListType, ThreadInv, HandInv
      <3> QED
        BY <1>5, <3>1, <3>2
    <2> QED
      BY <2>1, <2>2
  <1> QED
    BY <1>1, <1>3, <1>4, <1>5, <1>6 DEF ListType, OnlyMoves

\* Whoever gives a nid back is the only one to have it.
LEMMA GiveBackList ==
    ASSUME NatInv, NEW t \in Threads, AllocNidDone(t) \/ AllocNidFailed(t)
    PROVE  ListType'
  <1>1. ListType /\ ThreadInv
    BY ThreadsOfInv
  <1>2. HasNid(t) /\ Finish(t) /\ UNCHANGED <<scan, checking>>
    BY DEF AllocNidDone, AllocNidFailed, HasNid
  <1>3. PICK n \in Nids : n = thread[t].nid
    BY <1>1, <1>2 DEF ThreadInv, HandInv
  <1>4. OnlyMoves(t) /\ thread'[t].pc = "idle"
    BY <1>1, <1>2, FinishFacts
  <1>5. /\ freeNids' \in [Nids -> {"none", "new", "alloc"}]
        /\ \A m \in Nids : m # n => freeNids'[m] = freeNids[m]
    BY <1>1, <1>3 DEF AllocNidDone, AllocNidFailed, ListType
  <1>6. \A u \in Threads : HasNid(u)' => HasNid(u) /\ thread'[u] = thread[u]
                                         /\ thread[u].nid # n /\ thread[u].nid \in Nids
    <2> SUFFICES ASSUME NEW u \in Threads, HasNid(u)'
                 PROVE  HasNid(u) /\ thread'[u] = thread[u] /\ thread[u].nid # n /\ thread[u].nid \in Nids
      OBVIOUS
    <2>1. u # t
      BY <1>4 DEF HasNid
    <2>2. HasNid(u) /\ thread'[u] = thread[u]
      BY <1>4, <2>1 DEF OnlyMoves, HasNid
    <2> QED
      BY <1>1, <1>2, <1>3, <2>1, <2>2 DEF ThreadInv, HandInv, Apart
  <1>7. \A u \in Threads : HasNid(u)' => freeNids'[thread'[u].nid] = "alloc"
    BY <1>1, <1>5, <1>6 DEF ListType
  <1> QED
    BY <1>1, <1>2, <1>4, <1>5, <1>7 DEF ListType, OnlyMoves

LEMMA BuildList ==
    ASSUME NatInv, NEW t \in Threads,
           BuildStart(t) \/ BuildEnd(t) \/ ScanNatPage(t) \/ AddFreeNidInsert(t) \/ ScanJournal(t)
    PROVE  ListType'
  <1>1. ListType
    BY ThreadsOfInv
  <1>2. /\ freeNids \in [Nids -> {"none", "new", "alloc"}] /\ checking \in Nids \cup {NoValue}
        /\ scan \in [page : SUBSET Nids, journal : SUBSET Nids] /\ thread \in [Threads -> Hands]
    BY <1>1 DEF ListType
  <1>3. /\ thread' \in [Threads -> Hands]
        /\ \A u \in Threads : HasNid(u)' => HasNid(u) /\ thread'[u].nid = thread[u].nid
    <2>1. CASE BuildStart(t) \/ BuildEnd(t)
      <3>1. OnlyMoves(t) /\ thread'[t].pc \in {"build", "idle"}
        BY <1>1, <2>1, GotoFacts, FinishFacts DEF BuildStart, BuildEnd, Pcs
      <3> QED
        BY <3>1 DEF OnlyMoves, HasNid
    <2>2. CASE thread' = thread
      BY <1>2, <2>2 DEF HasNid
    <2> QED
      BY <2>1, <2>2 DEF ScanNatPage, AddFreeNidInsert, ScanJournal
  <1>4. scan' \in [page : SUBSET Nids, journal : SUBSET Nids]
    <2>1. CASE BuildStart(t)
      <3>1. PICK B \in SUBSET NatBlocks \ {{}} :
               scan' = [page |-> {n \in NidsOf(B) : NatPage(n) = NullAddr}, journal |-> InJournal(journal)]
        BY <2>1 DEF BuildStart
      <3> QED
        BY <3>1 DEF NidsOf, InJournal
    <2>2. CASE ScanNatPage(t) \/ ScanJournal(t)
      BY <1>2, <2>2 DEF ScanNatPage, ScanJournal
    <2>3. CASE scan' = scan
      BY <1>2, <2>3
    <2> QED
      BY <2>1, <2>2, <2>3 DEF BuildEnd, AddFreeNidInsert, nidVars
  <1>5. /\ freeNids' \in [Nids -> {"none", "new", "alloc"}] /\ checking' \in Nids \cup {NoValue}
        /\ \A n \in Nids : freeNids[n] = "alloc" => freeNids'[n] = "alloc"
    <2>1. CASE AddFreeNidInsert(t)
      BY <1>2, <2>1 DEF AddFreeNidInsert
    <2>2. CASE ScanNatPage(t)
      <3>1. PICK n \in scan.page : AddFreeNid(n)
        BY <2>2 DEF ScanNatPage
      <3> QED
        BY <1>2, <3>1 DEF AddFreeNid
    <2>3. CASE ScanJournal(t)
      <3>1. PICK n \in scan.journal : AddFreeNid(n) \/ (RemoveFreeNid(n) /\ UNCHANGED checking)
        BY <2>3 DEF ScanJournal
      <3>2. n \in Nids
        BY <1>2
      <3> QED
        BY <1>2, <3>1, <3>2 DEF AddFreeNid, RemoveFreeNid
    <2>4. CASE UNCHANGED <<freeNids, checking>>
      BY <1>2, <2>4
    <2> QED
      BY <2>1, <2>2, <2>3, <2>4 DEF BuildStart, BuildEnd, nidVars
  <1> QED
    BY <1>3, <1>4, <1>5, HandsKept

LEMMA PowerList ==
    ASSUME NatInv, PowerFail \/ Mount
    PROVE  ListType'
  <1>1. \A u \in Threads : ~HasNid(u)'
    BY PowerThread DEF HasNid
  <1>2. ListType
    BY ThreadsOfInv
  <1>3. freeNids' \in [Nids -> {"none", "new", "alloc"}]
    BY DEF PowerFail, Mount
  <1>4. CASE PowerFail
    BY <1>1, <1>3, <1>4 DEF PowerFail, ListType, NoScan, Idle, Hands, Pcs
  <1>5. CASE Mount
    BY <1>1, <1>2, <1>3, <1>5 DEF Mount, ListType
  <1> QED
    BY <1>4, <1>5

LEMMA StepList ==
    ASSUME NatInv, [Next]_vars
    PROVE  ListType'
  <1>1. ListType
    BY ThreadsOfInv
  <1>2. ASSUME thread' \in [Threads -> Hands], \A u \in Threads : Quiet(u), UNCHANGED nidVars
        PROVE  ListType'
    BY <1>1, <1>2, HandsKept DEF ListType, Quiet, nidVars
  <1>3. CASE \E t \in Threads : ThreadStep(t)
    <2> PICK t \in Threads : ThreadStep(t)
      BY <1>3
    <2>1. CASE NewNodePage(t) \/ UndoNode(t)
      <3>1. /\ OnlyMoves(t) /\ HasNid(t) /\ thread'[t].nid = thread[t].nid /\ UNCHANGED nidVars
        BY <1>1, <2>1, GotoFacts DEF NewNodePage, UndoNode, HasNid, Pcs
      <3>2. \A u \in Threads : HasNid(u)' => HasNid(u) /\ thread'[u].nid = thread[u].nid
        BY <3>1 DEF OnlyMoves, HasNid
      <3> QED
        BY <1>1, <3>1, <3>2, HandsKept DEF ListType, OnlyMoves, nidVars
    <2>2. CASE AllocNidDone(t) \/ AllocNidFailed(t)
      BY <2>2, GiveBackList
    <2>3. CASE AllocNid(t)
      BY <2>3, AllocList
    <2>4. CASE BuildStart(t) \/ BuildEnd(t) \/ ScanNatPage(t) \/ AddFreeNidInsert(t) \/ ScanJournal(t)
      BY <2>4, BuildList
    <2>5. CASE \/ AllocNidMissed(t) \/ Linked(t) \/ (\E n \in Nids : LookupMissed(t, n))
               \/ LookupJournal(t) \/ LookupNatPage(t) \/ CacheNatEntry(t)
      <3>1. OnlyMoves(t) /\ Quiet(t) /\ UNCHANGED nidVars
        BY <2>5, QuietSteps
      <3> QED
        BY <1>2, <3>1, QuietMove DEF OnlyMoves
    <2> QED
      BY <2>1, <2>2, <2>3, <2>4, <2>5 DEF ThreadStep
  <1>4. CASE thread' = thread /\ UNCHANGED nidVars
    BY <1>2, <1>4, StaysQuiet
  <1>5. CASE \E n \in Nids : NodeStep(n)
    <2>1. thread' = thread /\ UNCHANGED nidVars
      BY <1>5 DEF NodeStep, TruncateNode, WriteNodePage, TryToFreeNats
    <2> QED
      BY <1>4, <2>1
  <1>6. CASE CpStep
    <2>1. CASE CpBlock \/ CpFlushStart \/ CpEnd
      BY <1>4, <2>1 DEF CpBlock, CpFlushStart, CpEnd
    <2>2. ASSUME NEW b \in NatBlocks, CpFlushSet(b) PROVE ListType'
      <3>1. /\ freeNids' \in [Nids -> {"none", "new", "alloc"}]
            /\ \A n \in Nids : freeNids[n] = "alloc" => freeNids'[n] = "alloc"
        BY <1>1, <2>2 DEF CpFlushSet, ListType
      <3>2. thread' = thread /\ UNCHANGED <<scan, checking>>
        BY <2>2 DEF CpFlushSet
      <3> QED
        BY <1>1, <3>1, <3>2, HandsKept DEF ListType, HasNid
    <2> QED
      BY <1>6, <2>1, <2>2 DEF CpStep
  <1>7. CASE UNCHANGED vars
    BY <1>4, <1>7 DEF vars
  <1> QED
    BY <1>3, <1>5, <1>6, <1>7, PowerList DEF Next

LEMMA CopiesNid ==
    ASSUME NatInv, NidInv, NEW n \in Nids, CopiesEntry(n),
           thread' \in [Threads -> Hands], OnBuild' <=> OnBuild, \A u \in Threads : Quiet(u)
    PROVE  NidInv'
  <1>1. UNCHANGED <<journal, natPages, natBitmap, saved, phase>> /\ UNCHANGED nidVars
    BY DEF CopiesEntry, cpVars
  <1>2. \A m \in Nids : NatOf(m)' = NatOf(m) /\ NatPage(m)' = NatPage(m)
    BY CleanEntry DEF CopiesEntry
  <1>3. SavedTable' = SavedTable
    BY <1>1, SavedFrame
  <1> QED
    BY <1>1, <1>2, <1>3, NidFrame

LEMMA CacheNatEntryNid ==
    ASSUME NatInv, NidInv, NEW t \in Threads, CacheNatEntry(t)
    PROVE  NidInv'
  <1>1. PICK n \in Nids : CopiesEntry(n)
    BY CacheNatEntryCopies
  <1>2. OnlyMoves(t) /\ Quiet(t) /\ (OnBuild' <=> OnBuild)
    BY QuietSteps
  <1>3. thread' \in [Threads -> Hands] /\ \A u \in Threads : Quiet(u)
    BY <1>2, QuietMove DEF OnlyMoves
  <1> QED
    BY <1>1, <1>2, <1>3, CopiesNid

LEMMA TryToFreeNatsNid ==
    ASSUME NatInv, NidInv, NEW n \in Nids, TryToFreeNats(n)
    PROVE  NidInv'
  <1>1. CopiesEntry(n) /\ thread' = thread
    BY TryToFreeNatsCopies DEF TryToFreeNats
  <1> QED
    BY <1>1, StaysQuiet, CopiesNid

\* Outside a build nothing is to be removed from the list, so all of it is unused.
LEMMA ListWithoutBuild ==
    ASSUME NatInv, NidInv, ~OnBuild
    PROVE  /\ \A n \in Nids : freeNids[n] = "new" => Unused(n)
           /\ checking = NoValue /\ scan = NoScan
           /\ \A n : ~ToBeRemoved(n)
  <1>1. checking = NoValue /\ scan = NoScan
    BY ListTypeOfInv DEF ScanInv
  <1>2. \A n : ~ToBeRemoved(n)
    BY <1>1 DEF ToBeRemoved, NoScan
  <1> QED
    BY <1>1, <1>2, ListTypeOfInv DEF ListInv

\* While the list is built no checkpoint is written.
LEMMA BuildIsIdle ==
    ASSUME NatInv
    PROVE  phase # "idle" => ~OnBuild
  BY ThreadsOfInv DEF OnBuild, ThreadInv, HandInv, HoldsOpLock

\* The steps of a checkpoint: the table stays, and what it has unused is unused in the
\* checkpoint too.
LEMMA CheckpointNid ==
    ASSUME NatInv, NidInv, ~OnBuild, thread' = thread, UNCHANGED <<scan, checking>>,
           \A n \in Nids : Unused(n) => Unused(n)',
           freeNids' \in [Nids -> {"none", "new", "alloc"}],
           \A n \in Nids : /\ freeNids'[n] = "new" => freeNids[n] = "new" \/ Unused(n)'
                           /\ freeNids[n] = "alloc" => freeNids'[n] = "alloc",
           \A u \in Threads : thread[u].pc # "made"
    PROVE  NidInv'
  <1>1. ListType /\ ThreadInv /\ ListInv
    BY ListTypeOfInv
  <1>2. ~OnBuild' /\ checking' = NoValue /\ scan' = NoScan /\ \A n \in Nids : freeNids[n] = "new" => Unused(n)
    BY ListWithoutBuild DEF OnBuild
  <1>4. ScanInv'
    BY <1>2 DEF ScanInv, NoScan, InJournal
  <1>5. \A u \in Threads : thread[u].pc \in {"held", "undone"} => Unused(thread[u].nid)'
    <2> SUFFICES ASSUME NEW u \in Threads, thread[u].pc \in {"held", "undone"}
                 PROVE  Unused(thread[u].nid)'
      OBVIOUS
    <2>1. PICK n \in Nids : n = thread[u].nid
      BY <1>1 DEF ThreadInv, HandInv, HasNid
    <2>2. Unused(n)'
      BY <1>1, <2>1 DEF ListInv
    <2> QED
      BY <2>1, <2>2 DEF Unused, NatOf, NatPage, Cached
  <1>6. ListInv'
    BY <1>2, <1>5 DEF ListInv
  <1> QED
    BY <1>4, <1>6 DEF NidInv

LEMMA CpBlockNid ==
    ASSUME NatInv, NidInv, CpBlock
    PROVE  NidInv'
  <1>1. /\ phase = "idle" /\ phase' = "sync" /\ thread' = thread
        /\ UNCHANGED natVars /\ UNCHANGED <<freeNids, scan, checking, saved>>
        /\ \A u \in Threads : ~HoldsOpLock(u)
    BY DEF CpBlock, Running, nidVars
  <1>2. ~OnBuild /\ \A u \in Threads : thread[u].pc # "made"
    BY <1>1 DEF OnBuild, HoldsOpLock
  <1>3. (\A n \in Nids : NatOf(n)' = NatOf(n)) /\ SavedTable' = SavedTable
    BY <1>1, TableFrame, SavedFrame
  <1>4. \A n \in Nids : Unused(n) => Unused(n)'
    BY <1>1, <1>3, UnusedSame
  <1> QED
    BY <1>1, <1>2, <1>4, CheckpointNid, ListTypeOfInv DEF ListType

LEMMA CpFlushStartNid ==
    ASSUME NatInv, NidInv, CpFlushStart
    PROVE  NidInv'
  <1>1. /\ phase = "sync" /\ phase' = "flush" /\ thread' = thread
        /\ UNCHANGED <<freeNids, scan, checking>>
        /\ \A n \in Nids : NatOf(n)' = NatOf(n)
    BY CpFlushStartFacts DEF nidVars
  <1>2. ~OnBuild /\ \A u \in Threads : thread[u].pc # "made"
    BY <1>1, BuildIsIdle, ListTypeOfInv DEF ThreadInv, HandInv, HoldsOpLock
  <1>3. \A n \in Nids : Unused(n) => Unused(n)'
    BY <1>1 DEF Unused
  <1> QED
    BY <1>1, <1>2, <1>3, CheckpointNid, ListTypeOfInv DEF ListType

LEMMA CpFlushSetNid ==
    ASSUME NatInv, NidInv, NEW b \in NatBlocks, CpFlushSet(b)
    PROVE  NidInv'
  <1>1. /\ phase = "flush" /\ phase' = "flush" /\ thread' = thread
        /\ UNCHANGED <<scan, checking>>
        /\ \A n \in Nids : NatOf(n)' = NatOf(n)
    BY CpFlushSetFacts
  <1>2. ~OnBuild /\ \A u \in Threads : thread[u].pc # "made"
    BY <1>1, BuildIsIdle, ListTypeOfInv DEF ThreadInv, HandInv, HoldsOpLock
  <1>3. \A n \in Nids : Unused(n) => Unused(n)'
    BY <1>1 DEF Unused
  <1>4. freeNids' = [n \in Nids |->
                      IF n \in DirtyOf(b) /\ cache[n].addr = NullAddr /\ freeNids[n] = "none" THEN "new"
                      ELSE freeNids[n]]
    BY DEF CpFlushSet
  <1>5. freeNids \in [Nids -> {"none", "new", "alloc"}]
    BY ListTypeOfInv DEF ListType
  <1>6. \A n \in Nids : cache[n].addr = NullAddr => Unused(n)'
    <2> SUFFICES ASSUME NEW n \in Nids, cache[n].addr = NullAddr PROVE Unused(n)'
      OBVIOUS
    <2>1. NatOf(n) = NullAddr
      BY Constants DEF NatOf, Cached
    <2> QED
      BY <1>1, <2>1 DEF Unused
  <1>7. /\ freeNids' \in [Nids -> {"none", "new", "alloc"}]
        /\ \A n \in Nids : /\ freeNids'[n] = "new" => freeNids[n] = "new" \/ Unused(n)'
                           /\ freeNids[n] = "alloc" => freeNids'[n] = "alloc"
    BY <1>4, <1>5, <1>6
  <1> QED
    BY <1>1, <1>2, <1>3, <1>7, CheckpointNid

\* When a checkpoint ends it has the table.
LEMMA CpEndSaves ==
    ASSUME NatInv, CpEnd
    PROVE  \A n \in Nids : NatOf(n)' = NatOf(n) /\ SavedTable'[n] = NatOf(n)
  <1> SUFFICES ASSUME NEW n \in Nids PROVE NatOf(n)' = NatOf(n) /\ SavedTable'[n] = NatOf(n)
    OBVIOUS
  <1>1. /\ phase = "flush" /\ flushing = {}
        /\ saved' = [journal |-> journal, bitmap |-> natBitmap] /\ UNCHANGED natVars
    BY DEF CpEnd
  <1>2. ~cache[n].dirty /\ NatOf(n) = Stored(n)
    BY <1>1 DEF NatInv, CacheInv, NatOf, Stored
  <1>3. SavedTable'[n] = Stored(n)
    BY <1>1 DEF SavedTable, Stored, NatPage, natVars
  <1> QED
    BY <1>1, <1>2, <1>3, TableFrame

LEMMA CpEndNid ==
    ASSUME NatInv, NidInv, CpEnd
    PROVE  NidInv'
  <1>1. /\ phase = "flush" /\ phase' = "idle" /\ thread' = thread
        /\ UNCHANGED <<freeNids, scan, checking>>
    BY DEF CpEnd, nidVars
  <1>2. ~OnBuild /\ \A u \in Threads : thread[u].pc # "made"
    BY <1>1, BuildIsIdle, ListTypeOfInv DEF ThreadInv, HandInv, HoldsOpLock
  <1>3. \A n \in Nids : Unused(n) => Unused(n)'
    BY <1>1, CpEndSaves DEF Unused
  <1> QED
    BY <1>1, <1>2, <1>3, CheckpointNid, ListTypeOfInv DEF ListType

LEMMA PowerNid ==
    ASSUME NatInv, NidInv, PowerFail \/ Mount
    PROVE  NidInv'
  <1>1. \A u \in Threads : thread'[u].pc = "idle"
    BY PowerThread
  <1>2. ~OnBuild' /\ \A u \in Threads : ~HasNid(u)'
    BY <1>1 DEF OnBuild, HasNid
  <1>3. ListType
    BY ListTypeOfInv
  <1>4. CASE PowerFail
    <2>1. /\ freeNids' = [n \in Nids |-> "none"] /\ scan' = NoScan /\ checking' = NoValue
          /\ thread' = [u \in Threads |-> Idle]
      BY <1>4 DEF PowerFail
    <2>3. ScanInv' /\ ListInv'
      BY <1>1, <1>2, <2>1 DEF ScanInv, ListInv, NoScan, InJournal
    <2> QED
      BY <2>3 DEF NidInv
  <1>5. CASE Mount
    <2>1. /\ phase = "down" /\ phase' = "idle" /\ thread' = thread /\ UNCHANGED natVars
          /\ UNCHANGED <<scan, checking, saved>>
          /\ freeNids' \in [Nids -> {"none", "new", "alloc"}]
          /\ \A n \in Nids : freeNids'[n] = "new" =>
                journal[n] = NullAddr \/ (journal[n] = NoValue /\ NatPage(n) = NullAddr)
      <3> DEFINE Free(n, B) ==
            \/ journal[n] = NullAddr
            \/ journal[n] = NoValue /\ NatBlockOf[n] \in B /\ NatPage(n) = NullAddr
      <3>1. PICK B \in SUBSET NatBlocks : freeNids' = [n \in Nids |-> IF Free(n, B) THEN "new" ELSE "none"]
        BY <1>5 DEF Mount
      <3>2. /\ freeNids' \in [Nids -> {"none", "new", "alloc"}]
            /\ \A n \in Nids : freeNids'[n] = "new" =>
                  journal[n] = NullAddr \/ (journal[n] = NoValue /\ NatPage(n) = NullAddr)
        <4>1. \A n \in Nids : Free(n, B) =>
                 journal[n] = NullAddr \/ (journal[n] = NoValue /\ NatPage(n) = NullAddr)
          OBVIOUS
        <4> HIDE DEF Free
        <4>2. freeNids' \in [Nids -> {"none", "new", "alloc"}] /\ \A n \in Nids : freeNids'[n] = "new" => Free(n, B)
          BY <3>1
        <4> QED
          BY <4>1, <4>2
      <3>3. /\ phase = "down" /\ phase' = "idle" /\ thread' = thread /\ UNCHANGED natVars
            /\ UNCHANGED <<scan, checking, saved>>
        BY <1>5 DEF Mount
      <3> QED
        BY <3>2, <3>3
    <2>2. ~OnBuild
      BY <2>1, BuildIsIdle
    <2>3. scan' = NoScan /\ checking' = NoValue
      BY <2>1, <2>2, ListWithoutBuild
    <2>4. ASSUME NEW n \in Nids, freeNids'[n] = "new" PROVE Unused(n)'
      <3>1. ~Cached(n)
        BY <2>1 DEF NatInv, CacheInv
      <3>2. Stored(n) = NullAddr /\ NatOf(n) = NullAddr
        BY <2>1, <2>4, <3>1, Constants DEF Stored, NatOf
      <3>3. SavedTable[n] = NullAddr
        BY <2>1, <3>2, SavedIsStored
      <3>4. NatOf(n)' = NullAddr /\ SavedTable' = SavedTable
        BY <2>1, <3>2, TableFrame, SavedFrame DEF natVars
      <3> QED
        BY <3>3, <3>4 DEF Unused
    <2>6. ScanInv'
      BY <1>2, <2>3 DEF ScanInv, NoScan, InJournal
    <2>7. ListInv'
      BY <1>1, <2>3, <2>4 DEF ListInv
    <2> QED
      BY <2>6, <2>7 DEF NidInv
  <1> QED
    BY <1>4, <1>5

(* The steps that change the list.                                         *)

LEMMA CheckingNext ==
    ASSUME NEW n \in Nids, checking' = n, Unused(n)' \/ ToBeRemoved(n)'
    PROVE  Unused(checking)' \/ ToBeRemoved(checking)'
  BY DEF Unused, ToBeRemoved, NatOf, NatPage, Cached

LEMMA HandNext ==
    ASSUME NEW u \in Threads, NEW n \in Nids, thread'[u].nid = n, Unused(n)'
    PROVE  Unused(thread[u].nid)'
  BY DEF Unused, NatOf, NatPage, Cached

\* The table stays, and what the other threads have in hand.
LEMMA ListStepUnused ==
    ASSUME NatInv, NidInv, NEW t \in Threads, ListStep(t)
    PROVE  /\ \A n \in Nids : NatPage(n)' = NatPage(n) /\ (Unused(n)' <=> Unused(n))
           /\ SavedTable' = SavedTable /\ UNCHANGED <<journal, phase>>
           /\ \A u \in Threads : thread'[u] = thread[u] =>
                /\ thread'[u].pc \in {"held", "undone"} => Unused(thread[u].nid)'
                /\ thread'[u].pc = "made" => SavedTable'[thread'[u].nid] = NullAddr
  <1>1. UNCHANGED <<natVars, cpVars>>
    BY ListStepFrame
  <1>2. /\ \A n \in Nids : NatOf(n)' = NatOf(n) /\ NatPage(n)' = NatPage(n)
        /\ UNCHANGED <<journal, phase, natPages, saved>>
    BY <1>1, TableFrame DEF cpVars
  <1>3. SavedTable' = SavedTable
    BY <1>2, SavedFrame
  <1>4. \A n \in Nids : Unused(n)' <=> Unused(n)
    BY <1>2, <1>3 DEF Unused
  <1>5. ListInv /\ ThreadInv
    BY ListTypeOfInv
  <1>6. ASSUME NEW u \in Threads, thread'[u] = thread[u], thread[u].pc \in {"held", "undone"}
        PROVE  Unused(thread[u].nid)'
    <2>1. PICK n \in Nids : n = thread[u].nid
      BY <1>5, <1>6 DEF ThreadInv, HandInv, HasNid
    <2>2. Unused(n)'
      BY <1>4, <1>5, <1>6, <2>1 DEF ListInv
    <2> QED
      BY <1>6, <2>1, <2>2, HandNext
  <1>7. ASSUME NEW u \in Threads, thread'[u] = thread[u], thread[u].pc = "made"
        PROVE  SavedTable'[thread'[u].nid] = NullAddr
    BY <1>3, <1>5, <1>7 DEF ListInv
  <1> QED
    BY <1>2, <1>3, <1>4, <1>6, <1>7

LEMMA AllocNidNid ==
    ASSUME NatInv, NidInv, NEW t \in Threads, AllocNid(t)
    PROVE  NidInv'
  <1>1. ListType /\ ListInv /\ ScanInv
    BY ListTypeOfInv
  <1>2. PICK n \in Listed("new") :
           /\ freeNids' = [freeNids EXCEPT ![n] = "alloc"]
           /\ thread' = [thread EXCEPT ![t] = [pc |-> "held", nid |-> n, addr |-> NoValue]]
    BY DEF AllocNid
  <1>3. /\ n \in Nids /\ freeNids[n] = "new" /\ ~OnBuild /\ thread[t].pc = "idle"
        /\ UNCHANGED <<scan, checking>>
    BY DEF Listed, AllocNid
  <1>4. OnlyMoves(t) /\ thread'[t].pc = "held" /\ thread'[t].nid = n
    BY <1>1, <1>2, <1>3, TakesFacts DEF Pcs
  <1>5. ~OnBuild'
    BY <1>3, <1>4, OnBuildSame
  <1>6. /\ checking = NoValue /\ scan = NoScan
        /\ \A m \in Nids : freeNids[m] = "new" => Unused(m)
    BY <1>3, ListWithoutBuild
  <1>7. /\ freeNids' \in [Nids -> {"none", "new", "alloc"}] /\ freeNids'[n] = "alloc"
        /\ \A m \in Nids : m # n => freeNids'[m] = freeNids[m]
    BY <1>1, <1>2, <1>3 DEF ListType
  <1>9. ScanInv'
    BY <1>3, <1>5, <1>6 DEF ScanInv, NoScan, InJournal
  <1>10. ListInv'
    <2>1. /\ \A m \in Nids : Unused(m)' <=> Unused(m)
          /\ \A u \in Threads : thread'[u] = thread[u] =>
                /\ thread'[u].pc \in {"held", "undone"} => Unused(thread[u].nid)'
                /\ thread'[u].pc = "made" => SavedTable'[thread'[u].nid] = NullAddr
      BY ListStepUnused DEF ListStep
    <2>2. \A m \in Nids : freeNids'[m] = "new" => Unused(m)'
      BY <1>6, <1>7, <2>1
    <2>3. Unused(thread[t].nid)'
      BY <1>3, <1>4, <1>6, <2>1, HandNext
    <2> QED
      BY <1>3, <1>4, <1>6, <2>1, <2>2, <2>3 DEF ListInv, OnlyMoves
  <1> QED
    BY <1>9, <1>10 DEF NidInv

LEMMA GiveBackNid ==
    ASSUME NatInv, NidInv, ~AddRace, NEW t \in Threads, AllocNidDone(t) \/ AllocNidFailed(t)
    PROVE  NidInv'
  <1>1. ListType /\ ListInv /\ ScanInv /\ ThreadInv
    BY ListTypeOfInv
  <1>2. HasNid(t) /\ Finish(t) /\ UNCHANGED <<scan, checking>>
    BY DEF AllocNidDone, AllocNidFailed, HasNid
  <1>3. PICK n \in Nids : n = thread[t].nid
    BY <1>1, <1>2 DEF ThreadInv, HandInv
  <1>4. OnlyMoves(t) /\ thread'[t].pc = "idle" /\ thread[t].pc # "build"
    BY <1>1, <1>2, FinishFacts DEF HasNid
  <1>5. OnBuild' <=> OnBuild
    BY <1>4, OnBuildSame
  <1>6. /\ freeNids' \in [Nids -> {"none", "new", "alloc"}]
        /\ \A m \in Nids : m # n => freeNids'[m] = freeNids[m]
        /\ \/ freeNids'[n] = "none" /\ checking # n
           \/ freeNids'[n] = "new" /\ thread[t].pc \in {"held", "undone"}
    <2>1. freeNids \in [Nids -> {"none", "new", "alloc"}]
      BY <1>1 DEF ListType
    <2>2. CASE AllocNidDone(t)
      BY <1>3, <2>1, <2>2 DEF AllocNidDone
    <2>3. CASE AllocNidFailed(t)
      BY <1>3, <2>1, <2>3 DEF AllocNidFailed
    <2> QED
      BY <2>2, <2>3
  <1>9. /\ \A m \in Nids : NatPage(m)' = NatPage(m) /\ (Unused(m)' <=> Unused(m))
        /\ UNCHANGED journal
        /\ \A u \in Threads : thread'[u] = thread[u] =>
              /\ thread'[u].pc \in {"held", "undone"} => Unused(thread[u].nid)'
              /\ thread'[u].pc = "made" => SavedTable'[thread'[u].nid] = NullAddr
    BY ListStepUnused DEF ListStep
  <1>10. ScanInv'
    BY <1>1, <1>2, <1>5, <1>9 DEF ScanInv, InJournal, ListType
  <1>11. ListInv'
    <2>1. \A m \in Nids : ToBeRemoved(m)' <=> ToBeRemoved(m)
      BY <1>2, <1>9 DEF ToBeRemoved
    <2>2. thread[t].pc \in {"held", "undone"} => Unused(n)
      BY <1>1, <1>3 DEF ListInv
    <2>3. \A m \in Nids : freeNids'[m] = "new" => Unused(m)' \/ ToBeRemoved(m)'
      BY <1>1, <1>6, <1>9, <2>1, <2>2 DEF ListInv
    <2>4. checking' # NoValue /\ freeNids'[checking'] = "none" => Unused(checking)' \/ ToBeRemoved(checking)'
      <3> SUFFICES ASSUME checking # NoValue, freeNids'[checking] = "none"
                   PROVE  Unused(checking)' \/ ToBeRemoved(checking)'
        BY <1>2
      <3>1. PICK m \in Nids : m = checking
        BY <1>1 DEF ListType
      <3>2. m # n /\ freeNids[m] = "none"
        BY <3>1, <1>6
      <3>3. Unused(m)' \/ ToBeRemoved(m)'
        BY <1>1, <1>9, <2>1, <3>1, <3>2 DEF ListInv
      <3> QED
        BY <1>2, <3>1, <3>3, CheckingNext
    <2> QED
      BY <1>4, <1>9, <2>3, <2>4 DEF ListInv, OnlyMoves
  <1> QED
    BY <1>10, <1>11 DEF NidInv

\* The thread that builds the list sees the table as the last checkpoint has it, but for the
\* cache: a nid that is free where it is stored, and not allocated in the cache, is unused.
LEMMA BuilderSees ==
    ASSUME NatInv, NEW t \in Threads, thread[t].pc = "build",
           NEW n \in Nids, Stored(n) = NullAddr, NotAllocated(n)
    PROVE  Unused(n)
  <1>1. phase = "idle"
    BY ThreadsOfInv DEF ThreadInv, HandInv, HoldsOpLock
  <1>2. SavedTable[n] = NullAddr
    BY <1>1, SavedIsStored
  <1>3. NatOf(n) = NullAddr
    BY DEF NatOf, NotAllocated, Stored
  <1> QED
    BY <1>2, <1>3 DEF Unused

LEMMA BuildStartEndNid ==
    ASSUME NatInv, NidInv, NEW t \in Threads, BuildStart(t) \/ BuildEnd(t)
    PROVE  NidInv'
  <1>1. ListType /\ ListInv /\ ScanInv
    BY ListTypeOfInv
  <1>2. /\ \A m \in Nids : NatPage(m)' = NatPage(m) /\ (Unused(m)' <=> Unused(m))
        /\ UNCHANGED journal
        /\ \A u \in Threads : thread'[u] = thread[u] =>
              /\ thread'[u].pc \in {"held", "undone"} => Unused(thread[u].nid)'
              /\ thread'[u].pc = "made" => SavedTable'[thread'[u].nid] = NullAddr
    BY ListStepUnused DEF ListStep
  <1>3. /\ OnlyMoves(t) /\ thread'[t].pc \in {"build", "idle"} /\ UNCHANGED <<freeNids, checking>>
    BY <1>1, GotoFacts, FinishFacts DEF BuildStart, BuildEnd, Pcs, nidVars
  <1>4. /\ checking = NoValue /\ scan = NoScan
    BY ListWithoutBuild DEF BuildStart, BuildEnd
  <1>5. \A m \in Nids : freeNids[m] = "new" => Unused(m)
    BY <1>1, <1>4 DEF ListInv, ToBeRemoved, NoScan
  <1>6. \A u \in Threads : HasNid(u)' => HasNid(u) /\ thread'[u] = thread[u]
    BY <1>3 DEF OnlyMoves, HasNid
  <1>7. ListInv'
    BY <1>2, <1>3, <1>4, <1>5 DEF ListInv, OnlyMoves
  <1>8. CASE BuildStart(t)
    <2>1. PICK B \in SUBSET NatBlocks \ {{}} :
             scan' = [page |-> {n \in NidsOf(B) : NatPage(n) = NullAddr}, journal |-> InJournal(journal)]
      BY <1>8 DEF BuildStart
    <2>2. /\ scan'.page \subseteq Nids /\ scan'.journal = InJournal(journal)
          /\ \A n \in scan'.page : NatPage(n) = NullAddr
          /\ scan' \in [page : SUBSET Nids, journal : SUBSET Nids]
      BY <2>1 DEF NidsOf, InJournal
    <2>3. OnBuild'
      <3>1. thread'[t].pc = "build"
        BY <1>1, <1>8, GotoFacts DEF BuildStart, Pcs
      <3> QED
        BY <3>1 DEF OnBuild
    <2>5. ScanInv'
      BY <1>2, <2>2, <2>3 DEF ScanInv, InJournal
    <2> QED
      BY <1>7, <2>5 DEF NidInv
  <1>9. CASE BuildEnd(t)
    <2>1. scan' = NoScan
      BY <1>4, <1>9 DEF BuildEnd, nidVars
    <2>3. ScanInv'
      BY <1>3, <1>4, <2>1 DEF ScanInv, NoScan, InJournal
    <2> QED
      BY <1>7, <2>3 DEF NidInv
  <1> QED
    BY <1>8, <1>9

\* A step of the build proper: the threads stay.
LEMMA BuildStepNid ==
    ASSUME NatInv, NidInv, NEW t \in Threads, ScanNatPage(t) \/ AddFreeNidInsert(t) \/ ScanJournal(t)
    PROVE  NidInv'
  <1>1. ListType /\ ListInv /\ ScanInv
    BY ListTypeOfInv
  <1>2. /\ \A m \in Nids : NatPage(m)' = NatPage(m) /\ (Unused(m)' <=> Unused(m))
        /\ UNCHANGED journal
        /\ \A u \in Threads : thread'[u] = thread[u] =>
              /\ thread'[u].pc \in {"held", "undone"} => Unused(thread[u].nid)'
              /\ thread'[u].pc = "made" => SavedTable'[thread'[u].nid] = NullAddr
    BY ListStepUnused DEF ListStep
  <1>3. thread' = thread /\ thread[t].pc = "build" /\ OnBuild'
    BY DEF ScanNatPage, AddFreeNidInsert, ScanJournal, OnBuild
  <1>4. freeNids \in [Nids -> {"none", "new", "alloc"}] /\ scan \in [page : SUBSET Nids, journal : SUBSET Nids]
    BY <1>1 DEF ListType
  <1>5. CASE AddFreeNidInsert(t)
    <2>1. PICK n \in Nids : n = checking
      BY <1>1, <1>5 DEF AddFreeNidInsert, ListType
    <2>2. /\ freeNids' = [freeNids EXCEPT ![n] = IF freeNids[n] = "none" THEN "new" ELSE freeNids[n]]
          /\ checking' = NoValue /\ scan' = scan /\ checking # NoValue
      BY <1>5, <2>1 DEF AddFreeNidInsert
    <2>3. /\ freeNids' \in [Nids -> {"none", "new", "alloc"}]
          /\ \A m \in Nids : freeNids[m] = "alloc" => freeNids'[m] = "alloc"
          /\ \A m \in Nids : freeNids'[m] = "new" => freeNids[m] = "new" \/ (m = n /\ freeNids[n] = "none")
      BY <1>4, <2>2
    <2>5. ScanInv'
      BY <1>1, <1>2, <1>3, <1>4, <2>2 DEF ScanInv, InJournal
    <2>6. \A m \in Nids : freeNids'[m] = "new" => Unused(m)' \/ ToBeRemoved(m)'
      BY <1>1, <1>2, <2>1, <2>2, <2>3 DEF ListInv, ToBeRemoved
    <2>7. ListInv'
      BY <1>2, <1>3, <2>2, <2>6 DEF ListInv
    <2> QED
      BY <2>5, <2>7 DEF NidInv
  <1>6. CASE ScanNatPage(t)
    <2>1. PICK n \in scan.page : scan' = [scan EXCEPT !.page = @ \ {n}] /\ AddFreeNid(n)
      BY <1>6 DEF ScanNatPage
    <2>2. /\ n \in Nids /\ NatPage(n) = NullAddr /\ scan.journal = InJournal(journal)
          /\ scan'.page = scan.page \ {n} /\ scan'.journal = scan.journal
          /\ scan' \in [page : SUBSET Nids, journal : SUBSET Nids]
          /\ freeNids' = freeNids /\ checking' = IF NotAllocated(n) THEN n ELSE NoValue
      BY <1>1, <1>4, <2>1 DEF ScanInv, AddFreeNid
    <2>4. ScanInv'
      BY <1>1, <1>2, <1>3, <1>4, <2>2 DEF ScanInv, InJournal
    <2>5. \A m \in Nids : ToBeRemoved(m)' <=> ToBeRemoved(m)
      BY <1>2, <2>2 DEF ToBeRemoved
    <2>6. checking' # NoValue => Unused(checking)' \/ ToBeRemoved(checking)'
      <3> SUFFICES ASSUME checking' # NoValue PROVE Unused(checking)' \/ ToBeRemoved(checking)'
        OBVIOUS
      <3>1. checking' = n /\ NotAllocated(n)
        BY <2>2
      <3>2. CASE Stored(n) = NullAddr
        BY <1>2, <1>3, <2>2, <3>1, <3>2, BuilderSees, CheckingNext
      <3>3. CASE Stored(n) # NullAddr
        <4>1. journal[n] # NoValue /\ journal[n] # NullAddr
          BY <2>2, <3>3 DEF Stored
        <4>2. ToBeRemoved(n)
          BY <2>2, <4>1 DEF ToBeRemoved, InJournal
        <4> QED
          BY <2>2, <2>5, <3>1, <4>2, CheckingNext
      <3> QED
        BY <3>2, <3>3
    <2>7. ListInv'
      BY <1>1, <1>2, <1>3, <2>2, <2>5, <2>6 DEF ListInv
    <2> QED
      BY <2>4, <2>7 DEF NidInv
  <1>7. CASE ScanJournal(t)
    <2>1. PICK n \in scan.journal :
             /\ scan' = [scan EXCEPT !.journal = @ \ {n}]
             /\ IF journal[n] = NullAddr THEN AddFreeNid(n) ELSE RemoveFreeNid(n) /\ UNCHANGED checking
      BY <1>7 DEF ScanJournal
    <2>2. /\ n \in Nids /\ journal[n] # NoValue /\ scan.page = {} /\ checking = NoValue
          /\ scan'.page = {} /\ scan'.journal = scan.journal \ {n}
          /\ scan' \in [page : SUBSET Nids, journal : SUBSET Nids]
      BY <1>1, <1>4, <1>7, <2>1 DEF ScanInv, InJournal, ScanJournal
    <2>3. ScanInv'
      BY <1>1, <1>2, <1>3, <1>4, <2>2 DEF ScanInv, InJournal
    <2>4. \A m \in Nids : ToBeRemoved(m) => ToBeRemoved(m)' \/ (m = n /\ journal[n] # NullAddr)
      BY <1>2, <2>2 DEF ToBeRemoved
    <2>5. CASE journal[n] = NullAddr
      <3>1. freeNids' = freeNids /\ checking' = IF NotAllocated(n) THEN n ELSE NoValue
        BY <2>1, <2>5 DEF AddFreeNid
      <3>3. checking' # NoValue => Unused(checking)' \/ ToBeRemoved(checking)'
        <4> SUFFICES ASSUME checking' # NoValue PROVE Unused(checking)' \/ ToBeRemoved(checking)'
          OBVIOUS
        <4>1. checking' = n /\ NotAllocated(n)
          BY <3>1
        <4>2. Stored(n) = NullAddr
          BY <2>2, <2>5 DEF Stored
        <4> QED
          BY <1>2, <1>3, <2>2, <4>1, <4>2, BuilderSees, CheckingNext
      <3>4. ListInv'
        BY <1>1, <1>2, <1>3, <2>4, <2>5, <3>1, <3>3 DEF ListInv
      <3> QED
        BY <2>3, <3>4 DEF NidInv
    <2>6. CASE journal[n] # NullAddr
      <3>1. /\ freeNids' = [freeNids EXCEPT ![n] = IF freeNids[n] = "new" THEN "none" ELSE freeNids[n]]
            /\ checking' = checking
        BY <2>1, <2>6 DEF RemoveFreeNid
      <3>2. /\ freeNids' \in [Nids -> {"none", "new", "alloc"}] /\ freeNids'[n] # "new"
            /\ \A m \in Nids : freeNids[m] = "alloc" => freeNids'[m] = "alloc"
            /\ \A m \in Nids : freeNids'[m] = "new" => freeNids[m] = "new" /\ m # n
        BY <1>4, <2>2, <3>1
      <3>4. \A m \in Nids : freeNids'[m] = "new" => Unused(m)' \/ ToBeRemoved(m)'
        BY <1>1, <1>2, <2>4, <3>2 DEF ListInv
      <3>5. ListInv'
        BY <1>2, <1>3, <2>2, <3>1, <3>4 DEF ListInv
      <3> QED
        BY <2>3, <3>5 DEF NidInv
    <2> QED
      BY <2>5, <2>6
  <1> QED
    BY <1>5, <1>6, <1>7

\* set_node_addr() of a nid that is not in the list, or is to leave it.
LEMMA SetsNodeNid ==
    ASSUME NatInv, NidInv, NEW n \in Nids, NEW a \in Addrs, SetsNode(n, a),
           freeNids[n] = "alloc" \/ ToBeRemoved(n)
              \/ (freeNids[n] # "new" /\ (checking = n => freeNids[n] # "none")),
           thread' \in [Threads -> Hands], OnBuild' <=> OnBuild,
           \A u \in Threads : /\ HasNid(u)' => HasNid(u) /\ thread'[u].nid = thread[u].nid
                              /\ thread'[u].pc \in {"held", "undone"} => Unused(thread[u].nid)'
                              /\ thread'[u].pc = "made" => SavedTable[thread[u].nid] = NullAddr
    PROVE  NidInv'
  <1>1. ListType /\ ListInv /\ ScanInv
    BY ListTypeOfInv
  <1>2. /\ UNCHANGED <<journal, natPages, saved, phase, freeNids, scan, checking>>
        /\ phase \in {"idle", "sync"}
    BY DEF SetsNode, cpVars, nidVars
  <1>3. /\ \A m \in Nids : NatPage(m)' = NatPage(m)
        /\ \A m \in Nids : m # n => NatOf(m)' = NatOf(m)
    BY SetNodeAddrFacts DEF SetsNode, NatInv
  <1>4. SavedTable' = SavedTable
    BY <1>2, SavedFrame
  <1>5. \A m \in Nids : m # n => (Unused(m)' <=> Unused(m))
    BY <1>2, <1>3, <1>4 DEF Unused
  <1>6. \A m \in Nids : ToBeRemoved(m)' <=> ToBeRemoved(m)
    BY <1>2 DEF ToBeRemoved
  <1>8. ScanInv'
    BY <1>1, <1>2, <1>3 DEF ScanInv, InJournal, ListType
  <1>9. ListInv'
    <2>1. \A m \in Nids : freeNids'[m] = "new" => Unused(m)' \/ ToBeRemoved(m)'
      BY <1>1, <1>2, <1>5, <1>6 DEF ListInv
    <2>2. checking' # NoValue /\ freeNids'[checking'] = "none" => Unused(checking)' \/ ToBeRemoved(checking)'
      <3> SUFFICES ASSUME checking # NoValue, freeNids[checking] = "none"
                   PROVE  Unused(checking)' \/ ToBeRemoved(checking)'
        BY <1>2
      <3>1. PICK m \in Nids : m = checking
        BY <1>1 DEF ListType
      <3>2. Unused(m) \/ ToBeRemoved(m)
        BY <1>1, <3>1 DEF ListInv
      <3>3. Unused(m)' \/ ToBeRemoved(m)'
        BY <1>5, <1>6, <3>1, <3>2
      <3> QED
        BY <1>2, <3>1, <3>3, CheckingNext
    <2>3. ASSUME NEW u \in Threads, thread'[u].pc = "made" PROVE SavedTable'[thread'[u].nid] = NullAddr
      <3>1. HasNid(u)'
        BY <2>3 DEF HasNid
      <3> QED
        BY <1>4, <2>3, <3>1
    <2> QED
      BY <2>1, <2>2, <2>3 DEF ListInv
  <1> QED
    BY <1>8, <1>9 DEF NidInv

LEMMA NodeStepNid ==
    ASSUME NatInv, NidInv, NEW n \in Nids, NEW a \in Addrs, SetsNode(n, a), NatOf(n) # NullAddr, thread' = thread
    PROVE  NidInv'
  <1>1. ListType /\ ListInv /\ ThreadInv
    BY ListTypeOfInv
  <1>2. ~Unused(n)
    BY DEF Unused
  <1>3. freeNids[n] \in {"none", "new", "alloc"} /\ n # NoValue
    BY <1>1, Constants DEF ListType
  <1>4. freeNids[n] = "alloc" \/ ToBeRemoved(n) \/ (freeNids[n] # "new" /\ (checking = n => freeNids[n] # "none"))
    BY <1>1, <1>2, <1>3 DEF ListInv
  <1>5. \A m \in Nids : m # n => (Unused(m) => Unused(m)')
    <2>1. \A m \in Nids : m # n => NatOf(m)' = NatOf(m)
      BY SetNodeAddrFacts DEF SetsNode, NatInv
    <2>2. UNCHANGED <<natPages, saved, phase>>
      BY DEF SetsNode, cpVars
    <2> QED
      BY <2>1, <2>2, SavedFrame DEF Unused
  <1>6. ASSUME NEW u \in Threads, thread[u].pc \in {"held", "undone"} PROVE Unused(thread[u].nid)'
    <2>1. PICK m \in Nids : m = thread[u].nid
      BY <1>1, <1>6 DEF ThreadInv, HandInv, HasNid
    <2>2. Unused(m)'
      BY <1>1, <1>2, <1>5, <1>6, <2>1 DEF ListInv
    <2> QED
      BY <2>1, <2>2, HandNext
  <1>7. \A u \in Threads : thread[u].pc = "made" => SavedTable[thread[u].nid] = NullAddr
    BY <1>1 DEF ListInv
  <1>8. thread' \in [Threads -> Hands] /\ (OnBuild' <=> OnBuild) /\ \A u \in Threads : HasNid(u)' => HasNid(u)
    BY StaysQuiet DEF HasNid
  <1> QED
    BY <1>4, <1>6, <1>7, <1>8, SetsNodeNid

LEMMA NewNodeNid ==
    ASSUME NatInv, NidInv, NEW t \in Threads, NewNodePage(t) \/ UndoNode(t)
    PROVE  NidInv'
  <1>1. ListType /\ ListInv /\ ThreadInv
    BY ListTypeOfInv
  <1>2. PICK n \in Nids : n = thread[t].nid
    BY NewNodePageSets, UndoNodeSets
  <1>3. PICK a \in Addrs : SetsNode(n, a) /\ (UndoNode(t) => a = NullAddr)
    <2>1. CASE NewNodePage(t) /\ ~UndoNode(t)
      BY <1>2, <2>1, NewNodePageSets DEF SetsNode
    <2>2. CASE UndoNode(t)
      BY <1>2, <2>2, UndoNodeSets DEF SetsNode
    <2> QED
      BY <2>1, <2>2
  <1>4. HasNid(t) /\ freeNids[n] = "alloc" /\ phase = "idle"
    <2>1. HasNid(t) /\ (thread[t].pc = "held" => phase = "idle") /\ (thread[t].pc # "held" => HoldsOpLock(t))
      BY DEF NewNodePage, UndoNode, HasNid, HoldsOpLock
    <2> QED
      BY <1>1, <1>2, <2>1 DEF ListType, ThreadInv, HandInv
  <1>5. /\ OnlyMoves(t) /\ thread'[t].nid = n /\ thread[t].pc # "build" /\ thread'[t].pc # "build"
        /\ \/ thread[t].pc = "held" /\ thread'[t].pc = "made"
           \/ thread[t].pc = "made" /\ thread'[t].pc = "undone" /\ UndoNode(t)
    BY <1>1, <1>2, GotoFacts DEF NewNodePage, UndoNode, Pcs
  <1>6. OnBuild' <=> OnBuild
    BY <1>5, OnBuildSame
  <1>7. /\ \A m \in Nids : NatOf(m)' = IF m = n THEN a ELSE NatOf(m)
        /\ UNCHANGED <<natPages, saved, phase>>
    BY <1>3, SetNodeAddrFacts DEF SetsNode, NatInv, cpVars
  <1>8. SavedTable' = SavedTable
    BY <1>7, SavedFrame
  <1>9. SavedTable[n] = NullAddr
    BY <1>1, <1>2, <1>4, <1>5 DEF ListInv, Unused
  <1>10. ASSUME NEW u \in Threads
         PROVE  /\ HasNid(u)' => HasNid(u) /\ thread'[u].nid = thread[u].nid
                /\ thread'[u].pc \in {"held", "undone"} => Unused(thread[u].nid)'
                /\ thread'[u].pc = "made" => SavedTable[thread[u].nid] = NullAddr
    <2>1. CASE u = t
      <3>1. thread'[t].pc = "undone" => Unused(n)'
        <4>1. thread'[t].pc = "undone" => a = NullAddr
          BY <1>3, <1>5
        <4> QED
          BY <4>1, <1>7, <1>8, <1>9 DEF Unused
      <3>2. thread'[t].pc = "undone" => Unused(thread[t].nid)'
        BY <1>5, <3>1, HandNext
      <3> QED
        BY <2>1, <1>2, <1>4, <1>5, <1>9, <3>2
    <2>2. CASE u # t
      <3>1. thread'[u] = thread[u]
        BY <2>2, <1>5 DEF OnlyMoves
      <3>2. HasNid(u) => thread[u].nid \in Nids /\ thread[u].nid # n
        BY <1>1, <1>2, <1>4, <2>2 DEF ThreadInv, HandInv, Apart
      <3>3. ASSUME thread[u].pc \in {"held", "undone"} PROVE Unused(thread[u].nid)'
        <4>1. PICK m \in Nids : m = thread[u].nid /\ m # n
          BY <3>2, <3>3 DEF HasNid
        <4>2. Unused(m)
          BY <1>1, <3>3, <4>1 DEF ListInv
        <4>3. Unused(m)'
          BY <1>7, <1>8, <4>1, <4>2 DEF Unused
        <4> QED
          BY <3>1, <4>1, <4>3, HandNext
      <3>4. thread[u].pc = "made" => SavedTable[thread[u].nid] = NullAddr
        BY <1>1 DEF ListInv
      <3> QED
        BY <3>1, <3>3, <3>4 DEF HasNid
    <2> QED
      BY <2>1, <2>2
  <1>11. thread' \in [Threads -> Hands]
    BY <1>5 DEF OnlyMoves
  <1> QED
    BY <1>3, <1>4, <1>6, <1>10, <1>11, SetsNodeNid

LEMMA StutterNid ==
    ASSUME NatInv, NidInv, UNCHANGED vars
    PROVE  NidInv'
  <1>1. /\ UNCHANGED <<natVars, nidVars, natPages, saved, phase, journal>> /\ thread' = thread
    BY DEF vars, natVars, cpVars
  <1>2. \A n \in Nids : NatOf(n)' = NatOf(n) /\ NatPage(n)' = NatPage(n)
    BY <1>1, TableFrame
  <1> QED
    BY <1>1, <1>2, SavedFrame, StaysQuiet, NidFrame

LEMMA StepNid ==
    ASSUME NatInv, NidInv, ~AddRace, [Next]_vars
    PROVE  NidInv'
  <1>1. CASE \E t \in Threads : ThreadStep(t)
    <2> PICK t \in Threads : ThreadStep(t)
      BY <1>1
    <2>1. CASE NewNodePage(t) \/ UndoNode(t)
      BY <2>1, NewNodeNid
    <2>2. CASE AllocNidDone(t) \/ AllocNidFailed(t)
      BY <2>2, GiveBackNid
    <2>3. CASE AllocNid(t)
      BY <2>3, AllocNidNid
    <2>4. CASE BuildStart(t) \/ BuildEnd(t)
      BY <2>4, BuildStartEndNid
    <2>5. CASE ScanNatPage(t) \/ AddFreeNidInsert(t) \/ ScanJournal(t)
      BY <2>5, BuildStepNid
    <2>6. CASE CacheNatEntry(t)
      BY <2>6, CacheNatEntryNid
    <2> QED
      BY <2>1, <2>2, <2>3, <2>4, <2>5, <2>6, QuietNid DEF ThreadStep
  <1>2. CASE \E n \in Nids : NodeStep(n)
    <2> PICK n \in Nids : NodeStep(n)
      BY <1>2
    <2>1. CASE TruncateNode(n)
      <3>1. SetsNode(n, NullAddr) /\ NatOf(n) # NullAddr /\ thread' = thread /\ NullAddr \in Addrs
        BY <2>1, TruncateNodeSets DEF TruncateNode, SetsNode
      <3> QED
        BY <3>1, NodeStepNid
    <2>2. CASE TryToFreeNats(n)
      BY <2>2, TryToFreeNatsNid
    <2>3. CASE \E a \in BlockAddrs : WriteNodePage(n, a)
      <3> PICK a \in BlockAddrs : WriteNodePage(n, a)
        BY <2>3
      <3>1. SetsNode(n, a) /\ NatOf(n) # NullAddr /\ thread' = thread /\ a \in Addrs
        BY WriteNodePageSets DEF WriteNodePage, SetsNode
      <3> QED
        BY <3>1, NodeStepNid
    <2> QED
      BY <2>1, <2>2, <2>3 DEF NodeStep
  <1>3. CASE CpStep
    BY <1>3, CpBlockNid, CpFlushStartNid, CpFlushSetNid, CpEndNid DEF CpStep
  <1> QED
    BY <1>1, <1>2, <1>3, PowerNid, StutterNid DEF Next

-----------------------------------------------------------------------------
(* The invariant and what follows from it.                                 *)

LEMMA InitTable ==
    ASSUME Init
    PROVE  \A n \in Nids : ~Cached(n) /\ NatOf(n) = NullAddr /\ SavedTable[n] = NullAddr
  <1> SUFFICES ASSUME NEW n \in Nids
               PROVE  ~Cached(n) /\ NatOf(n) = NullAddr /\ SavedTable[n] = NullAddr
    OBVIOUS
  <1>1. cache[n] = NoEntry /\ journal[n] = NoValue /\ saved.journal[n] = NoValue
    BY DEF Init, NoJournal
  <1>2. natBitmap[NatBlockOf[n]] = 0 /\ saved.bitmap[NatBlockOf[n]] = 0
    BY Constants DEF Init
  <1>3. natPages[0][n] = NullAddr
    BY DEF Init, Copies
  <1> QED
    BY <1>1, <1>2, <1>3 DEF Cached, NoEntry, NatOf, NatPage, SavedTable

LEMMA InitInv == Init => Inv
  <1> SUFFICES ASSUME Init PROVE Inv
    OBVIOUS
  <1>1. StoreType
    <2>1. NoEntry \in Flags
      BY DEF NoEntry, Flags
    <2> QED
      BY <2>1 DEF Init, StoreType, NoJournal, Written, Copies
  <1>2. ListType
    BY DEF Init, ListType, HasNid, Idle, Hands, Pcs, NoScan
  <1>3. CacheInv
    BY InitTable DEF Init, CacheInv, NoEntry
  <1>4. InJournal(journal) = {} /\ InJournal(saved.journal) = {} /\ Cardinality({}) = 0
    BY FS_EmptySet DEF Init, NoJournal, InJournal
  <1>5. SavedInv /\ JournalFits /\ JournalInv
    <2>1. /\ phase = "idle" /\ flushing = {}
          /\ journal = saved.journal /\ natBitmap = saved.bitmap
      BY DEF Init
    <2>2. Cardinality(InJournal(journal)) <= JournalEntries /\ Cardinality(InJournal(saved.journal)) <= JournalEntries
      BY <1>4, Constants
    <2> QED
      BY <2>1, <2>2 DEF SavedInv, JournalFits, JournalInv
  <1>6. \A t \in Threads : thread[t].pc = "idle"
    BY DEF Init, Idle
  <1>7. ScanInv
    BY DEF Init, ScanInv, NoScan
  <1>8. ListInv
    BY <1>6, InitTable DEF Init, ListInv, Unused
  <1> QED
    BY <1>1, <1>2, <1>3, <1>5, <1>6, <1>7, <1>8, TypeParts, IdleThreads DEF Inv, NatInv

LEMMA StoreTypesNext == StoreType' /\ ListType' => TypeOK'
  <1>1. StoreType /\ ListType => TypeOK
    BY TypeParts
  <1> QED
    BY <1>1, PTL

LEMMA NextNatInv ==
    ASSUME ~FlushedLookups, NatInv, [Next]_vars
    PROVE  NatInv'
  <1>1. StoreInv' /\ ThreadInv' /\ ListType'
    BY StepStore, StepThread, StepList
  <1>2. TypeOK'
    BY <1>1, StoreTypesNext DEF StoreInv
  <1> QED
    BY <1>1, <1>2 DEF NatInv, StoreInv

\* The NAT and the threads that look at it satisfy NatInv, also when alloc_nid_done() comes
\* between the two steps of add_free_nid() and the list of free nids is wrong.
THEOREM NatInvariance ==
    ASSUME ~FlushedLookups
    PROVE  Spec => []NatInv
  <1>1. Init => NatInv
    BY InitInv DEF Inv
  <1>2. NatInv /\ [Next]_vars => NatInv'
    BY NextNatInv
  <1> QED
    BY <1>1, <1>2, PTL DEF Spec

\* Inv is an invariant of every allocation, write, lookup, eviction, checkpoint and power failure.
THEOREM Invariance ==
    ASSUME NoRaces
    PROVE  Spec => []Inv
  <1>1. Inv /\ [Next]_vars => Inv'
    <2> SUFFICES ASSUME Inv, [Next]_vars PROVE Inv'
      OBVIOUS
    <2>1. NatInv /\ NidInv
      BY DEF Inv, NidInv
    <2>2. NatInv' /\ NidInv'
      BY <2>1, NextNatInv, StepNid DEF NoRaces
    <2> QED
      BY <2>2 DEF Inv, NidInv
  <1> QED
    BY <1>1, InitInv, PTL DEF Spec

\* The variables have their types, and a nid in hand is NID_ALLOC in the list.
THEOREM TypeCorrect ==
    ASSUME ~FlushedLookups
    PROVE  Spec => []TypeOK
  BY NatInvariance, PTL DEF NatInv

\* alloc_nid() never gives out a nid that has a node or that another thread has in hand.
THEOREM NidsAreExclusive ==
    ASSUME NoRaces
    PROVE  Spec => []NidsExclusive
  <1>1. Inv => NidsExclusive
    <2> SUFFICES ASSUME NatInv, NidInv PROVE NidsExclusive
      BY DEF Inv, NidInv
    <2>1. ~OnBuild => \A n \in Listed("new") : NatOf(n) = NullAddr
      BY ListWithoutBuild DEF Listed, Unused
    <2>2. \A t \in Threads : thread[t].pc = "held" => NatOf(thread[t].nid) = NullAddr
      BY ListTypeOfInv DEF ListInv, Unused
    <2>3. \A t, u \in Threads : t # u => Apart(t, u)
      BY ListTypeOfInv DEF ThreadInv
    <2> QED
      BY <2>1, <2>2, <2>3 DEF NidsExclusive, Apart
  <1> QED
    BY <1>1, Invariance, PTL

\* A nid that the last checkpoint has in use is not given out before the next one.
THEOREM FreedNidsAreHeldBack ==
    ASSUME NoRaces
    PROVE  Spec => []FreedNidsWait
  <1>1. Inv => FreedNidsWait
    BY ListWithoutBuild DEF FreedNidsWait, Listed, Unused, Inv, NidInv
  <1> QED
    BY <1>1, Invariance, PTL

\* flush_nat_entries() never puts more into the journal than it has room for.
THEOREM JournalHasRoom ==
    ASSUME ~FlushedLookups
    PROVE  Spec => []JournalFits
  BY NatInvariance, PTL DEF NatInv

\* A lookup that read the journal and the NAT block in two steps returns the current address.
THEOREM LookupsAreCurrent ==
    ASSUME ~FlushedLookups
    PROVE  Spec => []LookupsCurrent
  <1>1. NatInv => LookupsCurrent
    BY DEF NatInv, ThreadInv, HandInv, LookupsCurrent
  <1> QED
    BY <1>1, NatInvariance, PTL

-----------------------------------------------------------------------------
(* The NAT is AtomicCheckpoint.                                            *)

LEMMA TableKept ==
    ASSUME \A n \in Nids : NatOf(n)' = NatOf(n), \A n \in Nids : SavedTable'[n] = SavedTable[n],
           (phase' # "down") <=> (phase # "down")
    PROVE  UNCHANGED NatAtomic!vars
  <1>1. NodeTable' = NodeTable
    BY DEF NodeTable
  <1>2. SavedTable' = SavedTable
    BY DEF SavedTable
  <1> QED
    BY <1>1, <1>2 DEF NatAtomic!vars

LEMMA StepAtomic ==
    ASSUME NatInv, [Next]_vars
    PROVE  [NatAtomic!Next]_(NatAtomic!vars)
  <1>1. ASSUME UNCHANGED <<natVars, cpVars>> PROVE UNCHANGED NatAtomic!vars
    <2>1. /\ \A n \in Nids : NatOf(n)' = NatOf(n)
          /\ UNCHANGED <<natPages, saved, phase>>
      BY <1>1, TableFrame DEF cpVars
    <2> QED
      BY <2>1, SavedFrame, TableKept
  <1>2. ASSUME NEW n \in Nids, NEW a \in Addrs, SetsNode(n, a) PROVE NatAtomic!Update(n, a)
    <2>1. /\ \A m \in Nids : NatOf(m)' = IF m = n THEN a ELSE NatOf(m)
          /\ UNCHANGED <<natPages, saved, phase>> /\ phase # "down"
      BY <1>2, SetNodeAddrFacts DEF SetsNode, NatInv, cpVars
    <2>2. NodeTable' = [NodeTable EXCEPT ![n] = a]
      BY <2>1 DEF NodeTable
    <2> QED
      BY <2>1, <2>2, SavedFrame DEF NatAtomic!Update
  <1>3. ASSUME NEW n \in Nids, CopiesEntry(n) PROVE UNCHANGED NatAtomic!vars
    <2>1. /\ \A m \in Nids : NatOf(m)' = NatOf(m)
          /\ UNCHANGED <<natPages, saved, phase>>
      BY <1>3, CleanEntry DEF CopiesEntry, cpVars
    <2> QED
      BY <2>1, SavedFrame, TableKept
  <1>4. ASSUME CpBlock PROVE UNCHANGED NatAtomic!vars
    <2>1. /\ \A n \in Nids : NatOf(n)' = NatOf(n)
          /\ UNCHANGED <<natPages, saved>> /\ phase # "down" /\ phase' # "down"
      BY <1>4, TableFrame DEF CpBlock, Running, natVars
    <2> QED
      BY <2>1, SavedFrame, TableKept
  <1>5. ASSUME CpFlushStart PROVE UNCHANGED NatAtomic!vars
    BY <1>5, CpFlushStartFacts, SavedFrame, TableKept
  <1>6. ASSUME NEW b \in NatBlocks, CpFlushSet(b) PROVE UNCHANGED NatAtomic!vars
    BY <1>6, CpFlushSetFacts, TableKept
  <1>7. ASSUME CpEnd PROVE NatAtomic!Save
    <2>1. \A n \in Nids : NatOf(n)' = NatOf(n) /\ SavedTable'[n] = NatOf(n)
      BY <1>7, CpEndSaves
    <2>2. NodeTable' = NodeTable /\ SavedTable' = NodeTable
      BY <2>1 DEF NodeTable, SavedTable
    <2> QED
      BY <1>7, <2>2 DEF CpEnd, NatAtomic!Save
  <1>8. ASSUME PowerFail PROVE NatAtomic!PowerFail
    <2>1. /\ phase # "down" /\ phase' = "down" /\ cache' = [n \in Nids |-> NoEntry]
          /\ journal' = saved.journal /\ natBitmap' = saved.bitmap /\ UNCHANGED <<natPages, saved>>
      BY <1>8 DEF PowerFail
    <2>2. ASSUME NEW n \in Nids PROVE NatOf(n)' = SavedTable[n]
      BY <2>1 DEF NatOf, NatPage, Cached, NoEntry, SavedTable
    <2>3. NodeTable' = SavedTable
      BY <2>2 DEF NodeTable, SavedTable
    <2> QED
      BY <2>1, <2>3, SavedFrame DEF NatAtomic!PowerFail
  <1>9. ASSUME Mount PROVE NatAtomic!Mount
    <2>1. /\ \A n \in Nids : NatOf(n)' = NatOf(n)
          /\ UNCHANGED <<natPages, saved>> /\ phase = "down" /\ phase' = "idle"
      BY <1>9, TableFrame DEF Mount, natVars
    <2>2. NodeTable' = NodeTable
      BY <2>1 DEF NodeTable
    <2> QED
      BY <2>1, <2>2, SavedFrame DEF NatAtomic!Mount
  <1>10. CASE UNCHANGED vars
    BY <1>1, <1>10 DEF vars
  <1>11. CASE \E t \in Threads : ListStep(t)
    BY <1>1, <1>11, ListStepFrame
  <1> QED
    BY <1>2, <1>3, <1>4, <1>5, <1>6, <1>7, <1>8, <1>9, <1>10, <1>11, NextCases DEF NatAtomic!Next

\* With its cache, journal and two copies of each block, the NAT is one table that a checkpoint
\* saves as a whole.
THEOREM NatIsAtomic ==
    ASSUME ~FlushedLookups
    PROVE  Spec => NatAtomicSpec
  <1>1. Init => NatAtomic!Init
    <2> SUFFICES ASSUME Init PROVE NatAtomic!Init
      OBVIOUS
    <2>1. NodeTable = [n \in Nids |-> NullAddr] /\ SavedTable = NodeTable
      BY InitTable DEF NodeTable, SavedTable
    <2> QED
      BY <2>1 DEF NatAtomic!Init, Init
  <1>2. NatInv /\ [Next]_vars => [NatAtomic!Next]_(NatAtomic!vars)
    BY StepAtomic
  <1> QED
    BY <1>1, <1>2, NatInvariance, PTL DEF Spec, NatAtomicSpec, NatAtomic!Spec
=============================================================================
