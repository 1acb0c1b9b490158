-------------------------- MODULE Directory_proofs --------------------------
(* Lemmas about the hash table of a directory: what a search finds stays what *)
(* it finds when names are added, removed and given to other inodes.          *)
EXTENDS Directory, WellFoundedInduction, TLAPS

\* The entries of directories of inodes I
EntriesWith(I) == [name : Names, ino : I, level : 0..MaxDepth-1, bucket : Nat, pos : Nat]

Hints == [hash : Nat, level : 0..MaxDepth-1]

Less == {p \in Nat \X Nat : p[1] < p[2]}

\* A set of numbers has a smallest one.
LEMMA SmallestExists ==
  ASSUME NEW S \in SUBSET Nat, S # {}
  PROVE  \E x \in S : \A y \in S : x <= y
<1>1. IsWellFoundedOn(Less, Nat)
  BY NatLessThanWellFounded DEF Less, OpToRel
<1>2. PICK x \in S : \A y \in S : ~ (<<y, x>> \in Less)
  BY <1>1, WFMin
<1>3. \A y \in S : x <= y
  <2> TAKE y \in S
  <2>1. x \in Nat /\ y \in Nat /\ <<y, x>> \notin Less
    BY <1>2
  <2> QED BY <2>1 DEF Less
<1> QED BY <1>3

LEMMA LeastIsMember ==
  ASSUME NEW S \in SUBSET Nat, S # {}
  PROVE  Least(S) \in S
BY SmallestExists DEF Least

\* A search finds each entry by its name, and no two entries have one name.
LEMMA FoundByName ==
  ASSUME NEW D, NEW depth, EntriesFound(D, depth), NEW e \in D
  PROVE  /\ EntriesOf(D, depth, e.name) = {e}
         /\ FindEntry(D, depth, e.name) = e
         /\ \A f \in D : f.name = e.name => f = e
         /\ e.level < depth /\ e.bucket = BucketOf(e.name, e.level)
<1>1. EntriesOf(D, depth, e.name) = {e}
  BY DEF EntriesFound
<1>2. e.level < depth /\ e.bucket = BucketOf(e.name, e.level)
  BY <1>1 DEF EntriesOf
<1>3. ASSUME NEW f \in D, f.name = e.name PROVE f = e
  <2>1. EntriesOf(D, depth, f.name) = {f}
    BY DEF EntriesFound
  <2> QED BY <1>1, <1>3, <2>1
<1>4. FindEntry(D, depth, e.name) = e
  <2>1. e.level <= e.level \/ ~(e.level <= e.level)
    OBVIOUS
  <2> QED BY <1>1 DEF FindEntry
<1> QED BY <1>1, <1>2, <1>3, <1>4

\* A name is found just when there is an entry of it.
LEMMA SearchIsExact ==
  ASSUME NEW D, NEW depth, EntriesFound(D, depth), NEW n
  PROVE  EntriesOf(D, depth, n) = {e \in D : e.name = n}
<1>1. ASSUME NEW e \in D, e.name = n PROVE e \in EntriesOf(D, depth, n)
  BY <1>1, FoundByName
<1>2. EntriesOf(D, depth, n) \subseteq {e \in D : e.name = n}
  BY DEF EntriesOf
<1> QED BY <1>1, <1>2

LEMMA BucketType ==
  ASSUME NEW n \in Names, NEW l \in 0..MaxDepth-1
  PROVE  BucketOf(n, l) \in Nat
<1>1. Hash[n] \in Nat /\ Buckets[l] \in Nat \ {0}
  BY DirectoryAssumption
<1>2. \A a \in Nat, b \in Nat \ {0} : a % b \in Nat
  OBVIOUS
<1> QED BY <1>1, <1>2 DEF BucketOf

\* The new entry is in a level that has room for it, and as wide as the name.
LEMMA NewEntryFits ==
  ASSUME NEW D, NEW depth \in 0..MaxDepth, NEW hint \in Hints, NEW n \in Names, NEW I, NEW i \in I,
         CanAdd(D, depth, hint, n)
  PROVE  LET e == NewEntry(D, hint, n, i)
         IN  /\ e \in EntriesWith(I) /\ e.name = n /\ e.ino = i
             /\ e.bucket = BucketOf(n, e.level)
             /\ e.pos \in RoomFor(D, n, e.level)
<1> DEFINE L == LevelsWithRoom(D, hint, n)
           level == Least(L)
<1>1. StartLevel(hint, n) \in 0..MaxDepth-1
  BY DirectoryAssumption DEF StartLevel, Hints
<1>2. L \subseteq 0..MaxDepth-1 /\ L # {}
  BY <1>1, DirectoryAssumption DEF LevelsWithRoom, CanAdd
<1>3. level \in L
  BY <1>2, LeastIsMember
<1>4. RoomFor(D, n, level) # {} /\ RoomFor(D, n, level) \in SUBSET Nat
  BY <1>3 DEF LevelsWithRoom, RoomFor
<1>5. Least(RoomFor(D, n, level)) \in RoomFor(D, n, level)
  BY <1>4, LeastIsMember
<1>6. level \in 0..MaxDepth-1
  BY <1>2, <1>3
<1>7. BucketOf(n, level) \in Nat
  BY <1>6, BucketType
<1> HIDE DEF L, level
<1>8. NewEntry(D, hint, n, i) = [name |-> n, ino |-> i, level |-> level,
                                 bucket |-> BucketOf(n, level), pos |-> Least(RoomFor(D, n, level))]
  BY DEF NewEntry, L, level
<1> QED BY <1>4, <1>5, <1>6, <1>7, <1>8 DEF EntriesWith

\* Adding a name that is not there: it is found, and all others still are.
LEMMA AddKeepsFound ==
  ASSUME NEW D, NEW depth \in 0..MaxDepth, NEW hint \in Hints, NEW n \in Names, NEW I, NEW i \in I,
         D \subseteq EntriesWith(I),
         EntriesFound(D, depth), \A e \in D : e.name # n, CanAdd(D, depth, hint, n)
  PROVE  LET e == NewEntry(D, hint, n, i)
         IN  /\ EntriesFound(D \cup {e}, DepthAfterAdd(depth, e))
             /\ DepthAfterAdd(depth, e) \in 0..MaxDepth
<1> DEFINE e  == NewEntry(D, hint, n, i)
           dp == DepthAfterAdd(depth, e)
<1>1. /\ e \in EntriesWith(I) /\ e.name = n /\ e.ino = i
      /\ e.bucket = BucketOf(n, e.level) /\ e.pos \in RoomFor(D, n, e.level)
  BY NewEntryFits
<1> HIDE DEF e
<1>2. dp \in 0..MaxDepth /\ depth <= dp /\ e.level < dp
  BY <1>1, DirectoryAssumption DEF DepthAfterAdd, EntriesWith
<1> HIDE DEF dp
<1>3. ASSUME NEW f \in D \cup {e} PROVE EntriesOf(D \cup {e}, dp, f.name) = {f}
  <2>1. CASE f = e
    BY <1>1, <1>2, <2>1 DEF EntriesOf
  <2>2. CASE f \in D
    <3>1. /\ f.level < depth /\ f.bucket = BucketOf(f.name, f.level) /\ f.level \in Int
          /\ \A g \in D : g.name = f.name => g = f
      BY <2>2, FoundByName DEF EntriesWith
    <3>2. f.name # n
      BY <2>2
    <3>3. f.level < dp
      BY <1>2, <3>1
    <3> QED BY <1>1, <2>2, <3>1, <3>2, <3>3 DEF EntriesOf
  <2> QED BY <2>1, <2>2
<1>4. ASSUME NEW f \in D, f.level = e.level, f.bucket = e.bucket PROVE Bits(e) \cap Bits(f) = {}
  <2>1. Bits(f) \subseteq Used(D, e.level, BucketOf(n, e.level))
    BY <1>1, <1>4 DEF Used
  <2>2. Bits(e) \cap Used(D, e.level, BucketOf(n, e.level)) = {}
    BY <1>1 DEF RoomFor, Bits
  <2> QED BY <2>1, <2>2
<1>5. ASSUME NEW f \in D \cup {e}, NEW g \in D \cup {e}, f # g, f.level = g.level, f.bucket = g.bucket
      PROVE  Bits(f) \cap Bits(g) = {}
  <2>1. CASE f \in D /\ g \in D
    BY <1>5, <2>1 DEF EntriesFound
  <2>2. CASE f = e
    BY <1>4, <1>5, <2>2
  <2>3. CASE g = e
    BY <1>4, <1>5, <2>3
  <2> QED BY <2>1, <2>2, <2>3
<1>6. EntriesFound(D \cup {e}, dp)
  BY <1>3, <1>5 DEF EntriesFound
<1> QED BY <1>2, <1>6 DEF e, dp

\* Removing an entry: all others are found as before.
LEMMA DeleteKeepsFound ==
  ASSUME NEW D, NEW depth, EntriesFound(D, depth), NEW e
  PROVE  EntriesFound(Without(D, e), depth)
<1>1. ASSUME NEW f \in D \ {e} PROVE EntriesOf(D \ {e}, depth, f.name) = {f}
  BY <1>1, FoundByName DEF EntriesOf
<1> QED BY <1>1 DEF EntriesFound, Without

\* Giving a name to another inode: the entry keeps its place and its name.
LEMMA SetLinkKeepsFound ==
  ASSUME NEW D, NEW depth, EntriesFound(D, depth), NEW I, D \subseteq EntriesWith(I),
         NEW e \in D, NEW i \in I
  PROVE  EntriesFound(SetLink(D, e, i), depth)
<1> DEFINE x == [e EXCEPT !.ino = i]
<1>1. /\ x.name = e.name /\ x.level = e.level /\ x.bucket = e.bucket /\ x.pos = e.pos
      /\ x \in EntriesWith(I)
  BY DEF EntriesWith
<1>2. SetLink(D, e, i) = (D \ {e}) \cup {x}
  BY DEF SetLink
<1> HIDE DEF x
<1>3. Bits(x) = Bits(e)
  BY <1>1 DEF Bits
<1>4. /\ e.level < depth /\ e.bucket = BucketOf(e.name, e.level)
      /\ \A f \in D : f.name = e.name => f = e
  BY FoundByName
<1>5. ASSUME NEW f \in (D \ {e}) \cup {x} PROVE EntriesOf((D \ {e}) \cup {x}, depth, f.name) = {f}
  <2>1. CASE f = x
    BY <1>1, <1>4, <2>1 DEF EntriesOf
  <2>2. CASE f \in D \ {e}
    <3>1. /\ f.level < depth /\ f.bucket = BucketOf(f.name, f.level)
          /\ \A g \in D : g.name = f.name => g = f
      BY <2>2, FoundByName
    <3>2. f.name # x.name
      BY <1>1, <1>4, <2>2
    <3> QED BY <2>2, <3>1, <3>2 DEF EntriesOf
  <2> QED BY <2>1, <2>2
<1>6. ASSUME NEW f \in (D \ {e}) \cup {x}, NEW g \in (D \ {e}) \cup {x},
             f # g, f.level = g.level, f.bucket = g.bucket
      PROVE  Bits(f) \cap Bits(g) = {}
  <2>1. CASE f # x /\ g # x
    BY <1>6, <2>1 DEF EntriesFound
  <2>2. CASE f = x
    BY <1>1, <1>3, <1>6, <2>2 DEF EntriesFound
  <2>3. CASE g = x
    BY <1>1, <1>3, <1>6, <2>3 DEF EntriesFound
  <2> QED BY <2>1, <2>2, <2>3
<1> QED BY <1>2, <1>5, <1>6 DEF EntriesFound

\* The hints that a search and an addition leave are hints.
LEMMA HintTypes ==
  ASSUME NEW D, NEW depth \in 0..MaxDepth, EntriesFound(D, depth), NEW I, D \subseteq EntriesWith(I),
         NEW hint \in Hints, NEW n \in Names
  PROVE  /\ HintsAfterSearch(D, depth, hint, n) \subseteq Hints
         /\ HintAfterAdd(hint, n) \in Hints
<1>1. LevelsSearched(D, depth, n) \subseteq 0..MaxDepth-1
  <2>1. CASE EntriesOf(D, depth, n) = {}
    BY <2>1, DirectoryAssumption DEF LevelsSearched
  <2>2. CASE EntriesOf(D, depth, n) # {}
    <3>1. PICK e \in D : e.name = n
      BY <2>2 DEF EntriesOf
    <3>2. FindEntry(D, depth, n) = e /\ e.level \in 0..MaxDepth-1
      BY <3>1, FoundByName DEF EntriesWith
    <3> QED BY <2>2, <3>2, DirectoryAssumption DEF LevelsSearched
  <2> QED BY <2>1, <2>2
<1>2. Hash[n] \in Nat
  BY DirectoryAssumption
<1>3. HintsAfterSearch(D, depth, hint, n) \subseteq Hints
  BY <1>1, <1>2 DEF HintsAfterSearch, Hints
<1>4. HintAfterAdd(hint, n) \in Hints
  BY DEF HintAfterAdd, Hints
<1> QED BY <1>3, <1>4
=============================================================================
