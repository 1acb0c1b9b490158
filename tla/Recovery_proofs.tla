--------------------------- MODULE Recovery_proofs ---------------------------
(***************************************************************************)
(* Proofs about Recovery and FlushMerge, for any files, threads, length of *)
(* the log and number of power failures.                                   *)
(***************************************************************************)
EXTENDS Recovery, WellFoundedInduction, TLAPS

\* The device keeps the writes of the log in order, and the races of fsync() and
\* the reuse of an inode number that is still in the log do not happen.
NoRaces == OrderedWrites /\ ~LateWrites /\ ~Overlaps /\ ~StaleBlocks

-----------------------------------------------------------------------------
(* The helpers of the model.                                               *)

Less == {ss \in Nat \X Nat : ss[1] < ss[2]}

\* A set of numbers has a smallest one.
LEMMA SmallestExists ==
  ASSUME NEW S \in SUBSET Nat, S # {}
  PROVE  \E x \in S : \A y \in S : x <= y
<1>1. IsWellFoundedOn(Less, Nat)
  BY NatLessThanWellFounded DEF Less, OpToRel
<1>2. PICK x \in S : \A y \in S : ~ (<<y, x>> \in Less)
  BY <1>1, WFMin
<1>3. \A y \in S : x <= y
  <2> TAKE y \in S
  <2>1. x \in Nat /\ y \in Nat /\ <<y, x>> \notin Less
    BY <1>2
  <2> QED BY <2>1 DEF Less
<1> QED BY <1>3

\* MaxOf() is the greatest of the positions of a log.
LEMMA MaxOfPositions ==
  ASSUME NEW n \in Nat, NEW S \in SUBSET (1..n), S # {}
  PROVE  MaxOf(S) \in S /\ \A y \in S : y <= MaxOf(S)
<1> DEFINE T == {k \in Nat : \A y \in S : y <= k}
<1>1. n \in T
  OBVIOUS
<1>2. T \in SUBSET Nat /\ T # {}
  BY <1>1
<1> HIDE DEF T
<1>3. PICK m \in T : \A k \in T : m <= k
  BY <1>2, SmallestExists
<1>4. m \in Nat /\ \A y \in S : y <= m
  BY <1>3 DEF T
<1>5. m \in S
  <2> SUFFICES ASSUME m \notin S PROVE FALSE
    OBVIOUS
  <2>1. PICK y \in S : TRUE
    OBVIOUS
  <2>2. y \in 1..n /\ y <= m
    BY <1>4
  <2>3. m - 1 \in Nat
    BY <2>2, <1>4
  <2>4. \A z \in S : z <= m - 1
    <3> TAKE z \in S
    <3>1. z \in 1..n /\ z <= m /\ z # m
      BY <1>4
    <3> QED BY <3>1, <1>4
  <2>5. m - 1 \in T
    BY <2>3, <2>4 DEF T
  <2> QED BY <1>3, <1>4, <2>5
<1> QED BY <1>4, <1>5 DEF MaxOf

\* MaxOf() of two numbers.
LEMMA MaxOfTwo ==
  ASSUME NEW a \in Nat, NEW b \in Nat
  PROVE  MaxOf({a, b}) = IF a <= b THEN b ELSE a
<1>1. CASE a <= b
  <2>1. \A x \in {a, b} : (\A y \in {a, b} : y <= x) <=> x = b
    BY <1>1
  <2> QED BY <1>1, <2>1 DEF MaxOf
<1>2. CASE ~(a <= b)
  <2>1. \A x \in {a, b} : (\A y \in {a, b} : y <= x) <=> x = a
    BY <1>2
  <2> QED BY <1>2, <2>1 DEF MaxOf
<1> QED BY <1>1, <1>2

\* What fsync() promises is added to what it promised before.
LEMMA PromiseValues ==
  ASSUME promise \in [Files -> Values], NEW f \in Files, NEW new \in Values, Promise(f, new)
  PROVE  /\ promise' \in [Files -> Values]
         /\ \A g \in Files : g # f => promise'[g] = promise[g]
         /\ promise'[f].inode = IF promise[f].inode <= new.inode THEN new.inode ELSE promise[f].inode
         /\ promise'[f].dnode = IF promise[f].dnode <= new.dnode THEN new.dnode ELSE promise[f].dnode
<1> DEFINE i == MaxOf({promise[f].inode, new.inode})
           d == MaxOf({promise[f].dnode, new.dnode})
<1>1. promise' = [promise EXCEPT ![f] = [inode |-> i, dnode |-> d]]
  BY DEF Promise
<1>2. /\ promise[f].inode \in Nat /\ promise[f].dnode \in Nat
      /\ new.inode \in Nat /\ new.dnode \in Nat
  BY DEF Values
<1>3. i = IF promise[f].inode <= new.inode THEN new.inode ELSE promise[f].inode
  BY <1>2, MaxOfTwo
<1>4. d = IF promise[f].dnode <= new.dnode THEN new.dnode ELSE promise[f].dnode
  BY <1>2, MaxOfTwo
<1> HIDE DEF i, d
<1> QED BY <1>1, <1>2, <1>3, <1>4 DEF Values

-----------------------------------------------------------------------------
(* What is recoverable stays so when the log grows.                        *)

Logs == Seq(Block)

\* lg2 continues lg
Continues(lg, lg2) ==
  /\ lg \in Logs /\ lg2 \in Logs
  /\ \A p \in DOMAIN lg : p \in DOMAIN lg2 /\ lg2[p] = lg[p]

LEMMA RecoverableStays ==
  ASSUME NEW old \in FileRec, NEW lg, NEW lg2, Continues(lg, lg2), NEW f \in Files,
         NEW v \in Nat, NEW w \in Nat, w <= v, NEW S, NEW S2, S \subseteq S2,
         Recoverable(old, lg, f, v, S)
  PROVE  Recoverable(old, lg2, f, w, S2)
<1>1. \A p \in Own(lg, f, S) : p \in Own(lg2, f, S2) /\ lg2[p] = lg[p] /\ lg[p].val \in Nat
  <2> TAKE p \in Own(lg, f, S)
  <2>1. p \in S /\ p \in DOMAIN lg /\ lg[p].file = f
    BY DEF Own
  <2>2. p \in DOMAIN lg2 /\ lg2[p] = lg[p]
    BY <2>1 DEF Continues
  <2>3. lg[p] \in Block
    BY <2>1 DEF Continues, Logs
  <2>4. lg[p].val \in Nat
    BY <2>3 DEF Block
  <2> QED BY <2>1, <2>2, <2>4 DEF Own
<1>2. old.linked \/ \E r \in Own(lg2, f, S2) : lg2[r].dent
  BY <1>1 DEF Recoverable
<1>3. CASE v <= old.dnode
  BY <1>2, <1>3 DEF Recoverable, FileRec
<1>4. CASE ~(v <= old.dnode)
  <2>1. PICK p \in Own(lg, f, S), q \in Own(lg, f, S) :
             /\ p <= q /\ lg[p].kind = "dnode" /\ v <= lg[p].val /\ lg[q].fsync
             /\ old.linked \/ \E r \in Own(lg, f, S) : r <= q /\ lg[r].dent
    BY <1>4 DEF Recoverable
  <2>2. /\ p \in Own(lg2, f, S2) /\ q \in Own(lg2, f, S2)
        /\ lg2[p] = lg[p] /\ lg2[q] = lg[q]
        /\ w <= lg[p].val
    BY <1>1, <2>1
  <2>3. old.linked \/ \E r \in Own(lg2, f, S2) : r <= q /\ lg2[r].dent
    BY <1>1, <2>1
  <2> QED BY <1>2, <2>1, <2>2, <2>3 DEF Recoverable
<1> QED BY <1>3, <1>4

\* A file that the checkpoint has with its data needs no log.
LEMMA RecoverableSaved ==
  ASSUME NEW old, NEW lg, NEW f, NEW v, NEW S, old.linked, v <= old.dnode
  PROVE  Recoverable(old, lg, f, v, S)
BY DEF Recoverable

\* Only the blocks of the file matter.
LEMMA RecoverableOwn ==
  ASSUME NEW old, NEW lg, NEW f, NEW v, NEW S, NEW S2,
         Recoverable(old, lg, f, v, S), Own(lg, f, S) = Own(lg, f, S2)
  PROVE  Recoverable(old, lg, f, v, S2)
BY DEF Recoverable

\* A log whose last block of the file has the mark brings back its latest data.
LEMMA RecoverableWritten ==
  ASSUME NEW old \in FileRec, NEW lg \in Logs, NEW f \in Files, NEW v \in Nat,
         \A p \in DOMAIN lg : lg[p].file = f =>
            \E q \in DOMAIN lg : lg[q].file = f /\ p <= q /\ lg[q].fsync,
         old.linked \/ \E r \in DOMAIN lg : lg[r].file = f /\ lg[r].dent,
         \/ v = old.dnode
         \/ \E p \in DOMAIN lg : lg[p].file = f /\ lg[p].kind = "dnode" /\ lg[p].val = v
  PROVE  Recoverable(old, lg, f, v, DOMAIN lg)
<1>1. \A p : p \in Own(lg, f, DOMAIN lg) <=> p \in DOMAIN lg /\ lg[p].file = f
  BY DEF Own
<1>2. old.linked \/ \E r \in Own(lg, f, DOMAIN lg) : lg[r].dent
  BY <1>1
<1>3. CASE v = old.dnode
  BY <1>2, <1>3 DEF Recoverable, FileRec
<1>4. CASE v # old.dnode
  <2>1. PICK p \in DOMAIN lg : lg[p].file = f /\ lg[p].kind = "dnode" /\ lg[p].val = v
    BY <1>4
  <2>2. DOMAIN lg \subseteq Nat
    BY DEF Logs
  <2>3. CASE old.linked
    <3>1. PICK q \in DOMAIN lg : lg[q].file = f /\ p <= q /\ lg[q].fsync
      BY <2>1
    <3> QED BY <1>1, <1>2, <2>1, <2>3, <3>1 DEF Recoverable
  <2>4. CASE ~old.linked
    <3>1. PICK r \in DOMAIN lg : lg[r].file = f /\ lg[r].dent
      BY <2>4
    <3>2. PICK m \in {p, r} : p <= m /\ r <= m
      BY <2>2
    <3>3. PICK q \in DOMAIN lg : lg[q].file = f /\ m <= q /\ lg[q].fsync
      BY <2>1, <3>1
    <3>4. p <= q /\ r <= q
      BY <2>2, <3>2, <3>3
    <3> QED BY <1>1, <1>2, <2>1, <3>1, <3>3, <3>4 DEF Recoverable
  <2> QED BY <2>3, <2>4
<1> QED BY <1>3, <1>4

\* A log continues itself, and is continued by another block.
LEMMA LogContinues ==
  ASSUME NEW lg \in Logs
  PROVE  /\ Continues(lg, lg)
         /\ \A b \in Block :
              /\ Continues(lg, Append(lg, b))
              /\ DOMAIN Append(lg, b) = DOMAIN lg \cup {Len(lg) + 1}
              /\ Append(lg, b)[Len(lg) + 1] = b
              /\ Len(Append(lg, b)) = Len(lg) + 1
              /\ \A p \in DOMAIN lg : p \in 1..Len(lg)
BY DEF Continues, Logs

-----------------------------------------------------------------------------
(* The variables have their types.                                         *)

\* The block that f2fs_write_node_page() appends, and the flags it leaves.
LEMMA NodeWritten ==
  ASSUME TypeInv, NEW f \in Files, NEW kind \in Kinds, NEW mark \in BOOLEAN,
         WriteNode(f, kind, mark)
  PROVE  LET b == NodeBlock(f, kind, mark)
         IN
           /\ b \in Block
           /\ b.file = f /\ b.kind = kind /\ b.val = mem[f][kind] /\ b.fsync = mark
           /\ b.dent = (mark /\ kind = "inode" /\ ~nat[f].ckpt /\ ~nat[f].fsynced)
           /\ log' = Append(log, b)
           /\ log' \in Logs
           /\ inFlight' = inFlight \cup {Len(log) + 1}
           /\ dirty' \in [Files -> SUBSET Kinds]
           /\ dirty'[f] = dirty[f] \ {kind}
           /\ \A g \in Files : g # f => dirty'[g] = dirty[g]
           /\ nat' \in [Files -> NatEntry]
           /\ \A g \in Files : g # f => nat'[g] = nat[g]
           /\ kind = "inode" =>
                /\ nat'[f].ckpt = (~nat[f].cached \/ nat[f].ckpt)
                /\ nat'[f].fsynced = (nat[f].fsynced \/ mark)
                /\ nat'[f].last = mark /\ nat'[f].dirty /\ nat'[f].cached
           /\ kind = "dnode" /\ nat[f].cached =>
                /\ nat'[f].ckpt = nat[f].ckpt /\ nat'[f].fsynced = nat[f].fsynced
                /\ nat'[f].last = mark /\ nat'[f].dirty = nat[f].dirty /\ nat'[f].cached
           /\ kind = "dnode" /\ ~nat[f].cached => nat'[f] = NoNat
<1> DEFINE b == NodeBlock(f, kind, mark)
<1>1. mem[f] \in FileRec /\ nat[f] \in NatEntry
  BY DEF TypeInv
<1>2. mem[f][kind] \in Nat
  <2>1. CASE kind = "inode" BY <1>1, <2>1 DEF FileRec
  <2>2. CASE kind = "dnode" BY <1>1, <2>2 DEF FileRec
  <2> QED BY <2>1, <2>2 DEF Kinds
<1>3. b \in Block
  BY <1>2 DEF Block, NodeBlock
<1>4. /\ b.file = f /\ b.kind = kind /\ b.val = mem[f][kind] /\ b.fsync = mark
      /\ b.dent = (mark /\ kind = "inode" /\ ~nat[f].ckpt /\ ~nat[f].fsynced)
  BY DEF DentryMark, NodeBlock
<1>5. log' = Append(log, b)
  BY DEF WriteNode
<1> HIDE DEF b
<1>6. log \in Logs
  BY DEF TypeInv, Logs
<1>7. log' \in Logs /\ Len(log') = Len(log) + 1
  BY <1>3, <1>5, <1>6 DEF Logs
<1>8. inFlight' = inFlight \cup {Len(log) + 1}
  BY <1>7 DEF WriteNode
<1>9. dirty' = [dirty EXCEPT ![f] = dirty[f] \ {kind}] /\ dirty \in [Files -> SUBSET Kinds]
  BY DEF WriteNode, TypeInv
<1>10. nat' = [nat EXCEPT ![f] = NatAfter(f, kind, mark)] /\ nat \in [Files -> NatEntry]
  BY DEF WriteNode, TypeInv
<1>11. /\ NatAfter(f, kind, mark) \in NatEntry
       /\ kind = "inode" =>
            /\ NatAfter(f, kind, mark).ckpt = (~nat[f].cached \/ nat[f].ckpt)
            /\ NatAfter(f, kind, mark).fsynced = (nat[f].fsynced \/ mark)
            /\ NatAfter(f, kind, mark).last = mark
            /\ NatAfter(f, kind, mark).dirty /\ NatAfter(f, kind, mark).cached
       /\ kind = "dnode" /\ nat[f].cached =>
            /\ NatAfter(f, kind, mark).ckpt = nat[f].ckpt
            /\ NatAfter(f, kind, mark).fsynced = nat[f].fsynced
            /\ NatAfter(f, kind, mark).last = mark
            /\ NatAfter(f, kind, mark).dirty = nat[f].dirty
            /\ NatAfter(f, kind, mark).cached
       /\ kind = "dnode" /\ ~nat[f].cached => NatAfter(f, kind, mark) = NoNat
  <2>1. CASE kind = "inode"
    BY <1>1, <2>1 DEF NatAfter, NatEntry
  <2>2. CASE kind = "dnode" /\ nat[f].cached
    BY <1>1, <2>2 DEF NatAfter, NatEntry
  <2>3. CASE kind = "dnode" /\ ~nat[f].cached
    BY <1>1, <2>3 DEF NatAfter, NatEntry, NoNat
  <2> QED BY <2>1, <2>2, <2>3 DEF Kinds
<1>12. /\ dirty' \in [Files -> SUBSET Kinds] /\ dirty'[f] = dirty[f] \ {kind}
       /\ \A g \in Files : g # f => dirty'[g] = dirty[g]
  BY <1>9
<1>13. /\ nat' \in [Files -> NatEntry] /\ nat'[f] = NatAfter(f, kind, mark)
       /\ \A g \in Files : g # f => nat'[g] = nat[g]
  BY <1>10, <1>11
<1> QED BY <1>3, <1>4, <1>5, <1>7, <1>8, <1>11, <1>12, <1>13 DEF b

\* The chain is a part of the medium, without gaps.
LEMMA ChainFacts ==
  ASSUME NEW m \in Seq(Block \cup {NoBlock})
  PROVE  LET c == ChainOf(m)
         IN  /\ DOMAIN c \subseteq 1..Len(m)
             /\ \A p \in DOMAIN c : c[p] = m[p] /\ c[p] \in Block
             /\ \A p \in DOMAIN c : \A q \in 1..p : q \in DOMAIN c
             /\ \A p \in DOMAIN m : (\A q \in 1..p : m[q] # NoBlock) => p \in DOMAIN c
<1> DEFINE c == ChainOf(m)
           D == {q \in DOMAIN m : \A r \in 1..q : m[r] # NoBlock}
<1>1. m \in Seq(Block \cup {NoBlock}) /\ Len(m) \in Nat
  OBVIOUS
<1>2. c = [p \in D |-> m[p]]
  BY DEF ChainOf, Positions
<1>3. DOMAIN c = D /\ \A p \in D : c[p] = m[p]
  BY <1>2
<1>4. DOMAIN m = 1..Len(m) /\ \A p \in DOMAIN m : m[p] \in Block \cup {NoBlock}
  BY <1>1
<1>5. \A p \in D : p \in 1..Len(m) /\ m[p] \in Block
  <2> TAKE p \in D
  <2>1. p \in 1..Len(m) /\ \A r \in 1..p : m[r] # NoBlock
    BY <1>4
  <2>2. p \in 1..p
    BY <2>1
  <2> QED BY <1>4, <2>1, <2>2
<1>6. \A p \in D : \A q \in 1..p : q \in D
  <2> TAKE p \in D
  <2> TAKE q \in 1..p
  <2>1. q \in DOMAIN m /\ 1..q \subseteq 1..p
    BY <1>4
  <2> QED BY <2>1
<1> QED BY <1>3, <1>5, <1>6

\* The value that recovery takes: of the last block there is.
LEMMA LastValFacts ==
  ASSUME NEW n \in Nat, NEW c, DOMAIN c \subseteq 1..n, \A p \in DOMAIN c : c[p] \in Block,
         NEW S \in SUBSET DOMAIN c, NEW old \in Nat
  PROVE  /\ S = {} => LastVal(c, S, old) = old
         /\ S # {} => /\ MaxOf(S) \in S
                      /\ \A p \in S : p <= MaxOf(S)
                      /\ LastVal(c, S, old) = c[MaxOf(S)].val
         /\ LastVal(c, S, old) \in Nat
<1>1. CASE S = {}
  BY <1>1 DEF LastVal
<1>2. CASE S # {}
  <2>1. MaxOf(S) \in S /\ \A p \in S : p <= MaxOf(S)
    <3>1. S \in SUBSET (1..n) /\ S # {}
      BY <1>2
    <3> QED BY <3>1, MaxOfPositions
  <2>2. LastVal(c, S, old) = c[MaxOf(S)].val
    BY <1>2 DEF LastVal
  <2>3. c[MaxOf(S)].val \in Nat
    BY <2>1 DEF Block
  <2> QED BY <1>2, <2>1, <2>2, <2>3
<1> QED BY <1>1, <1>2

LEMMA AfterMountTyped ==
  ASSUME TypeInv
  PROVE  AfterMount(ChainOf(medium)) \in [Files -> FileRec]
<1> DEFINE c == ChainOf(medium)
<1>1. /\ DOMAIN c \subseteq 1..Len(medium) /\ Len(medium) \in Nat
      /\ \A p \in DOMAIN c : c[p] \in Block
  BY ChainFacts DEF TypeInv
<1> HIDE DEF c
<1>2. \A f \in Files : RecoveredFile(c, f, FsyncDnodes(c, f)) \in FileRec
  <2> TAKE f \in Files
  <2> DEFINE marks == FsyncDnodes(c, f)
  <2>1. saved[f] \in FileRec /\ saved[f].inode \in Nat /\ saved[f].dnode \in Nat /\ saved[f].linked \in BOOLEAN
    BY DEF TypeInv, FileRec
  <2>2. marks \subseteq DOMAIN c
    BY DEF FsyncDnodes, Marked, Positions
  <2>3. Inodes(c, marks) \in SUBSET DOMAIN c /\ RecoveredDnodes(c, f, marks) \in SUBSET DOMAIN c
    BY <2>2 DEF Inodes, RecoveredDnodes, Positions
  <2>4. /\ LastVal(c, Inodes(c, marks), saved[f].inode) \in Nat
        /\ LastVal(c, RecoveredDnodes(c, f, marks), saved[f].dnode) \in Nat
    BY <1>1, <2>1, <2>3, LastValFacts
  <2> HIDE DEF marks
  <2>5. RecoveredFile(c, f, marks) \in FileRec
    BY <2>1, <2>4 DEF RecoveredFile, FileRec
  <2> QED BY <2>5 DEF marks
<1>3. saved \in [Files -> FileRec]
  BY DEF TypeInv
<1>4. AfterMount(c) \in [Files -> FileRec]
  BY <1>2, <1>3 DEF AfterMount
<1> QED BY <1>4 DEF c

FsyncRec == [pc : {"idle", "checkpoint", "nodes", "wait", "flush"},
             file : Files \cup {0}, todo : SUBSET Kinds, start : Values]

\* Where the log was, after a block was appended.
LEMMA LogTyped ==
  ASSUME TypeInv, NEW b \in Block, log' = Append(log, b), inFlight' = inFlight \cup {Len(log) + 1},
         UNCHANGED <<durable, covered>>
  PROVE  /\ log' \in Seq(Block)
         /\ inFlight' \subseteq Positions(log)'
         /\ durable' \subseteq (Positions(log) \ inFlight)'
         /\ covered' \subseteq (Positions(log) \ inFlight)'
<1>1. log \in Seq(Block) /\ Len(log) \in Nat /\ DOMAIN log = 1..Len(log)
  BY DEF TypeInv
<1>2. log' \in Seq(Block) /\ DOMAIN log' = 1..(Len(log) + 1)
  BY <1>1
<1>3. /\ inFlight \subseteq 1..Len(log)
      /\ durable \subseteq (1..Len(log)) \ inFlight
      /\ covered \subseteq (1..Len(log)) \ inFlight
  BY <1>1 DEF TypeInv, Positions
<1>4. inFlight' \subseteq 1..(Len(log) + 1)
  <2>1. 1..Len(log) \subseteq 1..(Len(log) + 1) /\ Len(log) + 1 \in 1..(Len(log) + 1)
    BY <1>1
  <2>2. inFlight' = inFlight \cup {Len(log) + 1}
    OBVIOUS
  <2> QED BY <2>1, <2>2, <1>3
<1>5. Len(log) + 1 \notin durable /\ Len(log) + 1 \notin covered
  BY <1>1, <1>3
<1>6. durable' = durable /\ covered' = covered
  OBVIOUS
<1>7. /\ durable' \subseteq (1..(Len(log) + 1)) \ inFlight'
      /\ covered' \subseteq (1..(Len(log) + 1)) \ inFlight'
  <2>1. 1..Len(log) \subseteq 1..(Len(log) + 1)
    BY <1>1
  <2> QED BY <2>1, <1>3, <1>5, <1>6
<1> QED BY <1>2, <1>4, <1>7 DEF Positions

LEMMA FileStepTyped ==
  ASSUME TypeInv, NEW f \in Files, FileStep(f)
  PROVE  TypeInv'
<1>1. CASE Create(f)
  <2>1. /\ stamp' \in Nat /\ stamp' \in 0..MaxStamp
        /\ [linked |-> TRUE, inode |-> stamp', dnode |-> 0] \in FileRec
        /\ NewNat(FALSE) \in NatEntry
        /\ {"inode"} \in SUBSET Kinds
    BY <1>1, RecoveryAssumption DEF TypeInv, Create, Stamp, FileRec, NewNat, NatEntry, Kinds
  <2>2. /\ mem' \in [Files -> FileRec] /\ dirty' \in [Files -> SUBSET Kinds]
        /\ nat' \in [Files -> NatEntry]
    BY <1>1, <2>1 DEF TypeInv, Create
  <2> QED BY <1>1, <2>1, <2>2 DEF TypeInv, Create, diskVars, flushVars, FlushTypeOK, Positions
<1>2. CASE WriteData(f)
  <2>1. stamp' \in Nat /\ stamp' \in 0..MaxStamp
    BY <1>2, RecoveryAssumption DEF TypeInv, WriteData, Stamp
  <2>2. mem' \in [Files -> FileRec] /\ dirty' \in [Files -> SUBSET Kinds]
    <3>1. PICK grows \in BOOLEAN :
            /\ mem' = [mem EXCEPT ![f].dnode = stamp', ![f].inode = IF grows THEN stamp' ELSE @]
            /\ dirty' = [dirty EXCEPT ![f] = @ \cup IF grows THEN Kinds ELSE {"dnode"}]
      BY <1>2 DEF WriteData
    <3>2. dirty' \in [Files -> SUBSET Kinds]
      BY <3>1 DEF TypeInv, Kinds
    <3>3. mem[f] \in FileRec /\ mem \in [Files -> FileRec]
      BY DEF TypeInv
    <3>4. PICK i \in Nat : mem' = [mem EXCEPT ![f].dnode = stamp', ![f].inode = i]
      <4>1. CASE grows
        BY <2>1, <3>1, <4>1
      <4>2. CASE ~grows
        BY <2>1, <3>1, <3>3, <4>2 DEF FileRec
      <4> QED BY <4>1, <4>2
    <3>5. [mem[f] EXCEPT !.dnode = stamp', !.inode = i] \in FileRec
      BY <2>1, <3>3 DEF FileRec
    <3>6. mem' = [mem EXCEPT ![f] = [mem[f] EXCEPT !.dnode = stamp', !.inode = i]]
      BY <3>3, <3>4 DEF FileRec
    <3>7. mem' \in [Files -> FileRec]
      BY <3>3, <3>5, <3>6
    <3> QED BY <3>2, <3>7
  <2>3. nat' \in [Files -> NatEntry] /\ append' \in [Files -> BOOLEAN]
    <3>1. nat[f] \in NatEntry /\ nat \in [Files -> NatEntry]
      BY DEF TypeInv
    <3> DEFINE n == [nat[f] EXCEPT !.last = nat[f].last /\ mem[f].dnode # 0]
    <3>2. n \in NatEntry
      BY <3>1 DEF NatEntry
    <3>3. nat' = [nat EXCEPT ![f] = n] /\ append' = [append EXCEPT ![f] = TRUE]
      BY <1>2, <3>1 DEF WriteData, NatEntry
    <3> HIDE DEF n
    <3> QED BY <3>1, <3>2, <3>3 DEF TypeInv
  <2> QED BY <1>2, <2>1, <2>2, <2>3 DEF TypeInv, WriteData, diskVars, flushVars, FlushTypeOK, Positions
<1>3. CASE Unlink(f)
  <2>1. NewNat(nat[f].fsynced) \in NatEntry /\ NoFile \in FileRec /\ NoPromise \in Values
    BY DEF TypeInv, NatEntry, NewNat, NoFile, FileRec, NoPromise, Values
  <2>2. /\ mem' \in [Files -> FileRec] /\ dirty' \in [Files -> SUBSET Kinds]
        /\ nat' \in [Files -> NatEntry] /\ append' \in [Files -> BOOLEAN]
        /\ promise' \in [Files -> Values]
    BY <1>3, <2>1 DEF TypeInv, Unlink
  <2> QED BY <1>3, <2>2 DEF TypeInv, Unlink, diskVars, flushVars, FlushTypeOK, Positions
<1>4. CASE TryToFreeNats(f)
  <2>1. nat' \in [Files -> NatEntry]
    BY <1>4 DEF TypeInv, TryToFreeNats, NatEntry, NoNat
  <2> QED BY <1>4, <2>1 DEF TypeInv, TryToFreeNats, diskVars, runVars, flushVars, FlushTypeOK, Positions
<1>5. CASE \E kind \in Kinds : WriteBack(f, kind)
  <2>1. PICK kind \in Kinds : WriteBack(f, kind)
    BY <1>5
  <2>2. /\ NodeBlock(f, kind, FALSE) \in Block
        /\ log' = Append(log, NodeBlock(f, kind, FALSE)) /\ inFlight' = inFlight \cup {Len(log) + 1}
        /\ dirty' \in [Files -> SUBSET Kinds] /\ nat' \in [Files -> NatEntry]
    <3>1. WriteNode(f, kind, FALSE)
      BY <2>1 DEF WriteBack
    <3> HIDE DEF Kinds
    <3>2. \A mark \in BOOLEAN : WriteNode(f, kind, mark) =>
            /\ NodeBlock(f, kind, mark) \in Block
            /\ log' = Append(log, NodeBlock(f, kind, mark))
            /\ inFlight' = inFlight \cup {Len(log) + 1}
            /\ dirty' \in [Files -> SUBSET Kinds] /\ nat' \in [Files -> NatEntry]
      BY NodeWritten
    <3> QED BY <3>1, <3>2
  <2>3. UNCHANGED <<mem, append, saved, parentSaved, durable, medium, covered, fsync, runVars, flushVars>>
    BY <2>1 DEF WriteBack
  <2>4. /\ log' \in Seq(Block) /\ inFlight' \subseteq Positions(log)'
        /\ durable' \subseteq (Positions(log) \ inFlight)'
        /\ covered' \subseteq (Positions(log) \ inFlight)'
    BY <2>2, <2>3, LogTyped
  <2> QED BY <2>2, <2>3, <2>4 DEF TypeInv, runVars, flushVars, FlushTypeOK
<1> QED BY <1>1, <1>2, <1>3, <1>4, <1>5 DEF FileStep

\* A checkpoint.
LEMMA CheckpointTyped ==
  ASSUME TypeInv, CheckpointDone
  PROVE  /\ saved' \in [Files -> FileRec] /\ parentSaved' \in BOOLEAN /\ nat' \in [Files -> NatEntry]
         /\ log' \in Seq(Block) /\ medium' \in Seq(Block \cup {NoBlock})
         /\ inFlight' \subseteq Positions(log)'
         /\ durable' \subseteq (Positions(log) \ inFlight)'
         /\ covered' \subseteq (Positions(log) \ inFlight)'
<1>1. ResetNat \in NatEntry
  BY DEF ResetNat, NatEntry
<1>2. nat' \in [Files -> NatEntry]
  BY <1>1 DEF CheckpointDone, TypeInv
<1>3. log' = <<>> /\ medium' = <<>> /\ inFlight' = {} /\ durable' = {} /\ covered' = {}
  BY DEF CheckpointDone
<1> QED BY <1>2, <1>3 DEF CheckpointDone, TypeInv

LEMMA FsyncStepTyped ==
  ASSUME TypeInv, NEW t \in Threads, FsyncStep(t)
  PROVE  TypeInv'
<1>0. fsync \in [Threads -> FsyncRec] /\ fsync[t] \in FsyncRec
  BY DEF TypeInv, FsyncRec
<1>f. fsync[t].pc # "idle" => fsync[t].file \in Files
  BY <1>0 DEF TypeInv, FsyncRec
<1>1. CASE \E f \in Files : FsyncSkip(t, f)
  <2>1. PICK f \in Files : FsyncSkip(t, f)
    BY <1>1
  <2>2. Current(f) \in Values /\ promise \in [Files -> Values]
    BY DEF Current, Values, TypeInv, FileRec
  <2>3. promise' \in [Files -> Values]
    BY <2>1, <2>2, PromiseValues DEF FsyncSkip
  <2> QED BY <2>1, <2>3 DEF FsyncSkip, TypeInv, memVars, diskVars, flushVars, FlushTypeOK, Positions
<1>2. CASE \E f \in Files : FsyncStart(t, f)
  <2>1. PICK f \in Files : FsyncStart(t, f)
    BY <1>2
  <2>2. Current(f) \in Values
    BY DEF Current, Values, TypeInv, FileRec
  <2> DEFINE r == [pc    |-> IF NeedDoCheckpoint THEN "checkpoint" ELSE "nodes",
                   file  |-> f,
                   todo  |-> IF NeedDoCheckpoint THEN {} ELSE Kinds,
                   start |-> Current(f)]
  <2>3. r \in FsyncRec
    BY <2>2 DEF FsyncRec
  <2>4. fsync' = [fsync EXCEPT ![t] = r]
    BY <2>1 DEF FsyncStart
  <2> HIDE DEF r
  <2>5. fsync' \in [Threads -> FsyncRec]
    BY <1>0, <2>3, <2>4
  <2>6. \A u \in Threads : fsync'[u].pc = "idle" <=> fsync'[u].file = 0
    <3>1. f \in Files /\ 0 \notin Files
      BY RecoveryAssumption
    <3>2. r.pc # "idle" /\ r.file = f
      BY DEF r
    <3> QED BY <1>0, <2>4, <3>1, <3>2 DEF TypeInv
  <2> QED BY <2>1, <2>5, <2>6 DEF FsyncStart, TypeInv, FsyncRec, memVars, diskVars, runVars, flushVars, FlushTypeOK, Positions
<1>3. ASSUME FsyncReturn(t), fsync[t].file \in Files
      PROVE  /\ promise' \in [Files -> Values] /\ fsync' \in [Threads -> FsyncRec]
             /\ \A u \in Threads : fsync'[u].pc = "idle" <=> fsync'[u].file = 0
  <2>1. fsync[t].start \in Values /\ promise \in [Files -> Values]
    BY <1>0 DEF FsyncRec, TypeInv
  <2>2. promise' \in [Files -> Values]
    BY <1>3, <2>1, PromiseValues DEF FsyncReturn
  <2>3. Idle \in FsyncRec
    BY DEF Idle, FsyncRec, NoPromise, Values
  <2>4. fsync' \in [Threads -> FsyncRec]
    BY <1>0, <1>3, <2>3 DEF FsyncReturn
  <2>5. \A u \in Threads : fsync'[u].pc = "idle" <=> fsync'[u].file = 0
    BY <1>0, <1>3 DEF FsyncReturn, TypeInv, Idle
  <2> QED BY <2>2, <2>4, <2>5
<1>4. ASSUME FsyncCheckpoint(t), fsync[t].file \in Files PROVE TypeInv'
  <2>1. /\ promise' \in [Files -> Values] /\ fsync' \in [Threads -> FsyncRec]
        /\ \A u \in Threads : fsync'[u].pc = "idle" <=> fsync'[u].file = 0
    BY <1>3, <1>4 DEF FsyncCheckpoint
  <2>2. /\ saved' \in [Files -> FileRec] /\ parentSaved' \in BOOLEAN /\ nat' \in [Files -> NatEntry]
        /\ log' \in Seq(Block) /\ medium' \in Seq(Block \cup {NoBlock})
        /\ inFlight' \subseteq Positions(log)'
        /\ durable' \subseteq (Positions(log) \ inFlight)'
        /\ covered' \subseteq (Positions(log) \ inFlight)'
    BY <1>4, CheckpointTyped DEF FsyncCheckpoint
  <2> QED BY <1>4, <2>1, <2>2 DEF FsyncCheckpoint, TypeInv, FsyncRec, flushVars, FlushTypeOK
<1>5. ASSUME NEW kind \in Kinds, FsyncWriteNode(t, kind), fsync[t].file \in Files PROVE TypeInv'
  <2> DEFINE f == fsync[t].file
  <2>1. /\ fsync' \in [Threads -> FsyncRec]
        /\ \A u \in Threads : fsync'[u].pc = "idle" <=> fsync'[u].file = 0
    <3>1. [fsync[t] EXCEPT !.todo = fsync[t].todo \ {kind}] \in FsyncRec
      BY <1>0 DEF FsyncRec
    <3>2. fsync' = [fsync EXCEPT ![t] = [fsync[t] EXCEPT !.todo = fsync[t].todo \ {kind}]]
      BY <1>0, <1>5 DEF FsyncWriteNode, FsyncRec
    <3>3. \A u \in Threads : fsync'[u].pc = fsync[u].pc /\ fsync'[u].file = fsync[u].file
      BY <1>0, <3>2 DEF FsyncRec
    <3> QED BY <1>0, <3>1, <3>2, <3>3 DEF TypeInv
  <2>2. UNCHANGED <<mem, append, saved, parentSaved, durable, medium, covered, runVars, flushVars>>
    BY <1>5 DEF FsyncWriteNode
  <2>3. CASE kind \in dirty[f]
    <3>1. WriteNode(f, kind, TRUE)
      BY <1>5, <2>3 DEF FsyncWriteNode
    <3> HIDE DEF Kinds, f
    <3>2. f \in Files
      BY <1>5 DEF f
    <3>3. \A mark \in BOOLEAN : WriteNode(f, kind, mark) =>
            /\ NodeBlock(f, kind, mark) \in Block
            /\ log' = Append(log, NodeBlock(f, kind, mark))
            /\ inFlight' = inFlight \cup {Len(log) + 1}
            /\ dirty' \in [Files -> SUBSET Kinds] /\ nat' \in [Files -> NatEntry]
      BY <3>2, NodeWritten
    <3>4. /\ NodeBlock(f, kind, TRUE) \in Block
          /\ log' = Append(log, NodeBlock(f, kind, TRUE))
          /\ inFlight' = inFlight \cup {Len(log) + 1}
          /\ dirty' \in [Files -> SUBSET Kinds] /\ nat' \in [Files -> NatEntry]
      BY <3>1, <3>3
    <3>5. /\ log' \in Seq(Block) /\ inFlight' \subseteq Positions(log)'
          /\ durable' \subseteq (Positions(log) \ inFlight)'
          /\ covered' \subseteq (Positions(log) \ inFlight)'
      BY <2>2, <3>4, LogTyped
    <3> QED BY <2>1, <2>2, <3>4, <3>5 DEF TypeInv, FsyncRec, runVars, flushVars, FlushTypeOK
  <2>4. CASE kind \notin dirty[f]
    <3>1. UNCHANGED <<log, inFlight, dirty, nat>>
      BY <1>5, <2>4 DEF FsyncWriteNode
    <3> QED BY <2>1, <2>2, <3>1 DEF TypeInv, FsyncRec, runVars, flushVars, FlushTypeOK, Positions
  <2> QED BY <2>3, <2>4
<1>6. ASSUME FsyncCheckInode(t), fsync[t].file \in Files PROVE TypeInv'
  <2>1. /\ fsync' \in [Threads -> FsyncRec] /\ dirty' \in [Files -> SUBSET Kinds]
        /\ \A u \in Threads : fsync'[u].pc = "idle" <=> fsync'[u].file = 0
    <3>0. fsync[t].pc = "nodes"
      BY <1>6 DEF FsyncCheckInode
    <3>1. CASE NeedInodeBlockUpdate(fsync[t].file)
      <4>1. /\ fsync' = [fsync EXCEPT ![t].todo = Kinds]
            /\ dirty' = [dirty EXCEPT ![fsync[t].file] = @ \cup {"inode"}]
        BY <1>6, <3>1 DEF FsyncCheckInode
      <4> QED BY <1>0, <3>0, <4>1 DEF FsyncRec, TypeInv, Kinds
    <3>2. CASE ~NeedInodeBlockUpdate(fsync[t].file)
      <4>1. fsync' = [fsync EXCEPT ![t].pc = "wait"] /\ UNCHANGED dirty
        BY <1>6, <3>2 DEF FsyncCheckInode, Goto
      <4> QED BY <1>0, <3>0, <4>1 DEF FsyncRec, TypeInv
    <3> QED BY <3>1, <3>2
  <2> QED BY <1>6, <2>1 DEF FsyncCheckInode, TypeInv, FsyncRec, diskVars, runVars, flushVars, FlushTypeOK, Positions
<1>7. ASSUME FsyncFlush(t), fsync[t].file \in Files PROVE TypeInv'
  <2>1. /\ fsync' \in [Threads -> FsyncRec]
        /\ \A u \in Threads : fsync'[u].pc = "idle" <=> fsync'[u].file = 0
    BY <1>0, <1>7 DEF FsyncFlush, Goto, FsyncRec, TypeInv
  <2>2. append' \in [Files -> BOOLEAN]
    BY <1>7 DEF FsyncFlush, TypeInv
  <2>3. FlushTypeOK'
    BY <1>7 DEF FsyncFlush, IssueFlush, FlushTypeOK, TypeInv
  <2> QED BY <1>7, <2>1, <2>2, <2>3 DEF FsyncFlush, TypeInv, FsyncRec, diskVars, runVars, Positions
<1>8. CASE FsyncWake(t)
  <2>1. FlushTypeOK'
    BY <1>8 DEF FsyncWake, WakeFlusher, FlushTypeOK, TypeInv
  <2> QED BY <1>8, <2>1 DEF FsyncWake, TypeInv, memVars, diskVars, runVars, Positions
<1>9. ASSUME FsyncDone(t), fsync[t].file \in Files PROVE TypeInv'
  <2>1. /\ promise' \in [Files -> Values] /\ fsync' \in [Threads -> FsyncRec]
        /\ \A u \in Threads : fsync'[u].pc = "idle" <=> fsync'[u].file = 0
    BY <1>3, <1>9 DEF FsyncDone
  <2>2. FlushTypeOK'
    BY <1>9 DEF FsyncDone, FlushReturned, FlushTypeOK, TypeInv
  <2> QED BY <1>9, <2>1, <2>2 DEF FsyncDone, TypeInv, FsyncRec, memVars, diskVars, Positions
<1> QED
  BY <1>f, <1>1, <1>2, <1>4, <1>5, <1>6, <1>7, <1>8, <1>9
  DEF FsyncStep, FsyncCheckpoint, FsyncWriteNode, FsyncCheckInode, FsyncFlush, FsyncDone

\* What the medium has after a power failure.
LEMMA MediumWithFacts ==
  ASSUME TypeInv, NEW kept, kept \subseteq DOMAIN log
  PROVE  LET m == MediumWith(kept)
         IN  /\ m \in Seq(Block \cup {NoBlock})
             /\ \A p \in DOMAIN m : p \in DOMAIN log \cup DOMAIN medium
             /\ Len(m) \in {Len(log), Len(medium)} /\ Len(log) <= Len(m) /\ Len(medium) <= Len(m)
             /\ \A p \in DOMAIN m :
                  m[p] = IF p \in durable \cup kept THEN log[p]
                         ELSE IF p \in DOMAIN medium THEN medium[p] ELSE NoBlock
<1> DEFINE m == MediumWith(kept)
           n == IF Len(log) <= Len(medium) THEN Len(medium) ELSE Len(log)
           D == DOMAIN log \cup DOMAIN medium
           v(p) == IF p \in durable \cup kept THEN log[p]
                   ELSE IF p \in DOMAIN medium THEN medium[p] ELSE NoBlock
<1>1. /\ log \in Seq(Block) /\ medium \in Seq(Block \cup {NoBlock})
      /\ Len(log) \in Nat /\ Len(medium) \in Nat
      /\ DOMAIN log = 1..Len(log) /\ DOMAIN medium = 1..Len(medium)
      /\ durable \subseteq DOMAIN log
  BY DEF TypeInv, Positions
<1>2. D = 1..n /\ n \in Nat
  BY <1>1
<1>3. \A p \in D : v(p) \in Block \cup {NoBlock}
  BY <1>1
<1>4. m = [p \in D |-> v(p)]
  BY DEF MediumWith, Positions
<1> HIDE DEF m, D, v, n
<1>5. m \in [1..n -> Block \cup {NoBlock}]
  BY <1>2, <1>3, <1>4
<1>6. m \in Seq(Block \cup {NoBlock}) /\ Len(m) = n /\ DOMAIN m = D
  <2>1. m \in Seq(Block \cup {NoBlock})
    BY <1>2, <1>5
  <2>2. DOMAIN m = 1..n
    BY <1>5
  <2>3. Len(m) = n
    BY <1>2, <2>1, <2>2
  <2> QED BY <2>1, <2>2, <2>3, <1>2
<1>7. \A p \in DOMAIN m : m[p] = v(p)
  BY <1>4, <1>6
<1>8. n \in {Len(log), Len(medium)} /\ Len(log) <= n /\ Len(medium) <= n
  BY <1>1 DEF n
<1> QED BY <1>6, <1>7, <1>8 DEF D, v, m

LEMMA OtherStepsTyped ==
  ASSUME TypeInv
  PROVE  /\ FlusherTake => TypeInv'
         /\ FlusherDone => TypeInv'
         /\ FlusherStep => TypeInv'
         /\ (\E p \in inFlight : WriteEnd(p)) => TypeInv'
         /\ Checkpoint => TypeInv'
         /\ Mount => TypeInv'
         /\ PowerFail => TypeInv'
         /\ UNCHANGED vars => TypeInv'
<1>1. ASSUME FlusherTake PROVE TypeInv'
  BY <1>1 DEF FlusherTake, TakeRequests, FlushTypeOK, TypeInv, memVars, runVars, Positions
<1>2. ASSUME FlusherDone PROVE TypeInv'
  BY <1>2 DEF FlusherDone, FlushDone, FlushTypeOK, TypeInv, memVars, runVars, Positions
<1>3. ASSUME FlusherStep PROVE TypeInv'
  <2>1. UNCHANGED <<memVars, diskVars, fsync, runVars>>
    BY <1>3 DEF FlusherStep
  <2>2. FlushTypeOK'
    BY <1>3 DEF FlusherStep, CompleteRequest, FlushEnd, WaitEvent, FlushTypeOK, TypeInv
  <2> QED BY <2>1, <2>2 DEF TypeInv, memVars, diskVars, runVars, Positions
<1>4. ASSUME NEW p \in inFlight, WriteEnd(p) PROVE TypeInv'
  BY <1>4 DEF WriteEnd, FlushTypeOK, TypeInv, memVars, runVars, flushVars, Positions
<1>5. ASSUME Checkpoint PROVE TypeInv'
  <2>1. CheckpointDone
    BY <1>5 DEF Checkpoint
  <2> QED BY <1>5, <2>1, CheckpointTyped DEF Checkpoint, TypeInv, runVars, flushVars, FlushTypeOK
<1>6. ASSUME Mount PROVE TypeInv'
  <2>1. mem' \in [Files -> FileRec] /\ saved' \in [Files -> FileRec]
    <3>1. /\ saved \in [Files -> FileRec]
          /\ mem' = saved \/ mem' = AfterMount(ChainOf(medium))
          /\ saved' = mem' \/ saved' = saved
      BY <1>6 DEF Mount, TypeInv
    <3>2. mem' \in [Files -> FileRec]
      BY <3>1, AfterMountTyped
    <3> QED BY <3>1, <3>2
  <2>2. medium' \in Seq(Block \cup {NoBlock})
    <3>1. medium' = medium \/ medium' = <<>>
      BY <1>6 DEF Mount
    <3>2. medium \in Seq(Block \cup {NoBlock})
      BY DEF TypeInv
    <3>3. CASE medium' = medium
      BY <3>2, <3>3
    <3>4. CASE medium' = <<>>
      BY <3>4
    <3> QED BY <3>1, <3>3, <3>4
  <2>3. phase' \in {"up", "failed"}
    BY <1>6 DEF Mount
  <2>4. UNCHANGED <<dirty, nat, append, parentSaved, log, inFlight, durable, covered, fsync,
                    promise, stamp, failures, flushVars>>
    BY <1>6 DEF Mount
  <2> QED BY <2>1, <2>2, <2>3, <2>4 DEF TypeInv, flushVars, FlushTypeOK, Positions
<1>7. ASSUME PowerFail PROVE TypeInv'
  <2>1. PICK kept \in KeptBlocks : medium' = MediumWith(kept)
    BY <1>7 DEF PowerFail
  <2>2. kept \subseteq DOMAIN log
    <3>1. CASE OrderedWrites
      <4>1. PICK n \in 0..Len(log) : kept = 1..n
        BY <2>1, <3>1 DEF KeptBlocks
      <4> QED BY <4>1 DEF TypeInv
    <3>2. CASE ~OrderedWrites
      BY <2>1, <3>2 DEF KeptBlocks, Positions
    <3> QED BY <3>1, <3>2
  <2>3. medium' \in Seq(Block \cup {NoBlock})
    BY <2>1, <2>2, MediumWithFacts
  <2>4. /\ mem' \in [Files -> FileRec] /\ dirty' \in [Files -> SUBSET Kinds]
        /\ nat' \in [Files -> NatEntry] /\ append' \in [Files -> BOOLEAN]
        /\ fsync' \in [Threads -> FsyncRec]
    <3>1. NoFile \in FileRec /\ NoNat \in NatEntry /\ Idle \in FsyncRec
      BY DEF NoFile, FileRec, NoNat, NatEntry, Idle, FsyncRec, NoPromise, Values
    <3> QED BY <1>7, <3>1 DEF PowerFail
  <2>5. FlushTypeOK'
    BY <1>7 DEF PowerFail, FlushTypeOK
  <2>6. \A t \in Threads : fsync'[t].pc = "idle" /\ fsync'[t].file = 0
    BY <1>7 DEF PowerFail, Idle
  <2>7. log' \in Seq(Block) /\ inFlight' = {} /\ durable' = {} /\ covered' = {}
    BY <1>7 DEF PowerFail
  <2>8. failures' \in 0..MaxPowerFailures
    <3>1. failures \in 0..MaxPowerFailures /\ failures < MaxPowerFailures /\ failures' = failures + 1
      BY <1>7 DEF PowerFail, Running, TypeInv
    <3>2. MaxPowerFailures \in Nat
      BY RecoveryAssumption
    <3> QED BY <3>1, <3>2
  <2> QED BY <1>7, <2>3, <2>4, <2>5, <2>6, <2>7, <2>8 DEF PowerFail, TypeInv, FsyncRec
<1>8. ASSUME UNCHANGED vars PROVE TypeInv'
  BY <1>8 DEF vars, memVars, diskVars, runVars, flushVars, TypeInv, FlushTypeOK, Positions
<1> QED BY <1>1, <1>2, <1>3, <1>4, <1>5, <1>6, <1>7, <1>8

LEMMA StepTyped ==
  ASSUME TypeInv, [Next]_vars
  PROVE  TypeInv'
BY FileStepTyped, FsyncStepTyped, OtherStepsTyped DEF Next

-----------------------------------------------------------------------------
(* The flush thread.                                                       *)

\* What each step does to the requests and to where the threads are.
FsyncMoves(t) ==
  /\ UNCHANGED flushVars
  /\ \A u \in Threads : u # t => fsync'[u] = fsync[u]
  /\ fsync[t].pc # "flush" /\ fsync'[t].pc # "flush"

RequestStep ==
  \/ UNCHANGED <<flushVars, fsync>>
  \/ \E t \in Threads : FsyncMoves(t) \/ FsyncFlush(t) \/ FsyncWake(t) \/ FsyncDone(t)
  \/ FlusherTake \/ FlusherDone \/ FlusherStep

LEMMA RequestSteps ==
  ASSUME TypeInv, Next
  PROVE  RequestStep \/ PowerFail \/ Mount
<1>0. fsync \in [Threads -> FsyncRec]
  BY DEF TypeInv, FsyncRec
<1>1. ASSUME NEW f \in Files, FileStep(f) PROVE UNCHANGED <<flushVars, fsync>>
  BY <1>1 DEF FileStep, Create, WriteData, Unlink, TryToFreeNats, WriteBack
<1>2. ASSUME NEW t \in Threads, FsyncStep(t)
      PROVE  \/ UNCHANGED <<flushVars, fsync>>
             \/ FsyncMoves(t) \/ FsyncFlush(t) \/ FsyncWake(t) \/ FsyncDone(t)
  <2>1. CASE \E f \in Files : FsyncSkip(t, f)
    BY <2>1 DEF FsyncSkip
  <2>2. CASE \E f \in Files : FsyncStart(t, f)
    BY <2>2, <1>0 DEF FsyncStart, FsyncBegins, FsyncMoves, Idle
  <2>3. CASE FsyncCheckpoint(t)
    BY <2>3, <1>0 DEF FsyncCheckpoint, FsyncReturn, FsyncMoves, Idle
  <2>4. CASE \E kind \in Kinds : FsyncWriteNode(t, kind)
    <3>1. PICK kind \in Kinds : FsyncWriteNode(t, kind)
      BY <2>4
    <3>2. /\ fsync[t].pc = "nodes" /\ UNCHANGED flushVars
          /\ fsync' = [fsync EXCEPT ![t].todo = @ \ {kind}]
      BY <3>1 DEF FsyncWriteNode
    <3> QED BY <3>2, <1>0 DEF FsyncMoves, FsyncRec
  <2>5. CASE FsyncCheckInode(t)
    <3>1. /\ fsync[t].pc = "nodes" /\ UNCHANGED flushVars
          /\ \/ fsync' = [fsync EXCEPT ![t].todo = Kinds]
             \/ fsync' = [fsync EXCEPT ![t].pc = "wait"]
      BY <2>5 DEF FsyncCheckInode, Goto
    <3> QED BY <3>1, <1>0 DEF FsyncMoves, FsyncRec
  <2> QED BY <1>2, <2>1, <2>2, <2>3, <2>4, <2>5 DEF FsyncStep
<1>3. ASSUME Checkpoint PROVE UNCHANGED <<flushVars, fsync>>
  BY <1>3 DEF Checkpoint
<1>4. ASSUME NEW p \in inFlight, WriteEnd(p) PROVE UNCHANGED <<flushVars, fsync>>
  BY <1>4 DEF WriteEnd
<1> QED BY <1>1, <1>2, <1>3, <1>4 DEF Next, RequestStep

\* A wake-up is lost by no step.
LEMMA WakeupStep ==
  ASSUME TypeInv, NoLostWakeup, [Next]_vars
  PROVE  NoLostWakeup'
<1>0. FlushTypeOK
  BY DEF TypeInv
<1>1. CASE UNCHANGED flushVars
  BY <1>1 DEF flushVars, NoLostWakeup
<1>2. CASE \E t \in Threads : FsyncFlush(t)
  BY <1>0, <1>2 DEF FsyncFlush, IssueFlush, NoLostWakeup, FlushTypeOK
<1>3. CASE \E t \in Threads : FsyncWake(t)
  BY <1>0, <1>3 DEF FsyncWake, WakeFlusher, DispatchListNull, NoLostWakeup, FlushTypeOK
<1>4. CASE \E t \in Threads : FsyncDone(t)
  BY <1>0, <1>4 DEF FsyncDone, FlushReturned, NoLostWakeup, FlushTypeOK
<1>5. CASE FlusherTake \/ FlusherDone \/ FlusherStep
  BY <1>0, <1>5 DEF FlusherTake, TakeRequests, FlusherDone, FlushDone, FlusherStep,
                    CompleteRequest, FlushEnd, WaitEvent, NoLostWakeup, FlushTypeOK
<1>6. CASE PowerFail
  BY <1>6 DEF PowerFail, NoLostWakeup
<1>7. CASE Mount
  BY <1>1, <1>7 DEF Mount
<1>8. CASE UNCHANGED vars
  BY <1>1, <1>8 DEF vars
<1> QED BY <1>1, <1>2, <1>3, <1>4, <1>5, <1>6, <1>7, <1>8, RequestSteps DEF RequestStep, FsyncMoves

\* The request of a thread stays where it waits for it.
LEMMA RequestInvStep ==
  ASSUME TypeInv, RequestInv, TypeInv', NoLostWakeup', RequestStep
  PROVE  RequestInv'
<1>0. /\ FlushTypeOK /\ fsync \in [Threads -> FsyncRec]
      /\ FlushTypeOK' /\ fsync' \in [Threads -> FsyncRec]
  BY DEF TypeInv, FsyncRec
<1>1. CASE UNCHANGED <<flushVars, fsync>>
  BY <1>1 DEF flushVars, RequestInv, NoLostWakeup
<1>2. ASSUME NEW t \in Threads, FsyncMoves(t) PROVE RequestInv'
  BY <1>2 DEF FsyncMoves, flushVars, RequestInv, NoLostWakeup
<1>3. ASSUME NEW t \in Threads, FsyncFlush(t) PROVE RequestInv'
  <2>1. /\ request[t] = "none" /\ issueList' = issueList \cup {t}
        /\ request' = [request EXCEPT ![t] = "added"]
        /\ UNCHANGED <<dispatchList, flusher, completed>>
        /\ fsync[t].pc = "wait" /\ fsync' = [fsync EXCEPT ![t].pc = "flush"]
    BY <1>3 DEF FsyncFlush, IssueFlush, Goto
  <2>2. \A u \in Threads : fsync'[u].pc = IF u = t THEN "flush" ELSE fsync[u].pc
    BY <1>0, <2>1 DEF FsyncRec
  <2> QED BY <1>0, <2>1, <2>2 DEF RequestInv, FlushTypeOK
<1>4. ASSUME NEW t \in Threads, FsyncWake(t) PROVE RequestInv'
  BY <1>0, <1>4 DEF FsyncWake, WakeFlusher, DispatchListNull, RequestInv, FlushTypeOK
<1>5. ASSUME NEW t \in Threads, FsyncDone(t) PROVE RequestInv'
  <2>1. /\ request[t] = "waiting" /\ t \in completed
        /\ request' = [request EXCEPT ![t] = "none"] /\ completed' = completed \ {t}
        /\ UNCHANGED <<issueList, dispatchList, flusher>>
        /\ fsync' = [fsync EXCEPT ![t] = Idle]
    BY <1>5 DEF FsyncDone, FlushReturned, FsyncReturn
  <2>2. \A u \in Threads : fsync'[u].pc = IF u = t THEN "idle" ELSE fsync[u].pc
    BY <1>0, <2>1 DEF Idle
  <2> QED BY <1>0, <2>1, <2>2 DEF RequestInv, FlushTypeOK
<1>6. CASE FlusherTake
  BY <1>0, <1>6 DEF FlusherTake, TakeRequests, RequestInv, FlushTypeOK
<1>7. CASE FlusherDone
  BY <1>0, <1>7 DEF FlusherDone, FlushDone, RequestInv, FlushTypeOK
<1>8. CASE FlusherStep
  BY <1>0, <1>8 DEF FlusherStep, CompleteRequest, FlushEnd, WaitEvent, RequestInv, FlushTypeOK
<1> QED BY <1>1, <1>2, <1>3, <1>4, <1>5, <1>6, <1>7, <1>8 DEF RequestStep

-----------------------------------------------------------------------------
(* The files, the flags of their inodes and the log.                       *)

\* A node page is written to the log, for writeback or by fsync().
NodeStep(f, kind, mark) ==
  /\ kind \in dirty[f]
  /\ WriteNode(f, kind, mark)
  /\ UNCHANGED <<mem, append, saved, parentSaved, durable, medium, covered, runVars, flushVars>>

\* A checkpoint, for itself or for fsync().
CheckpointStep ==
  /\ CheckpointDone
  /\ UNCHANGED <<mem, dirty, append, stamp, phase, failures, flushVars>>

\* Files, log and medium stay as they are.
Quiet == UNCHANGED <<memVars, saved, parentSaved, log, medium, stamp>>

LEMMA UpSteps ==
  ASSUME TypeInv, [Next]_vars, phase = "up"
  PROVE  \/ \E f \in Files : Create(f) \/ WriteData(f) \/ Unlink(f) \/ TryToFreeNats(f)
         \/ \E f \in Files, kind \in Kinds : WriteBack(f, kind) /\ NodeStep(f, kind, FALSE)
         \/ \E t \in Threads, kind \in Kinds :
              FsyncWriteNode(t, kind) /\ fsync[t].file \in Files /\ NodeStep(fsync[t].file, kind, TRUE)
         \/ CheckpointStep
         \/ \E t \in Threads : /\ fsync[t].file \in Files
                               /\ FsyncCheckInode(t) \/ FsyncFlush(t)
         \/ Quiet
         \/ PowerFail
<1>0. \A t \in Threads : fsync[t].pc # "idle" => fsync[t].file \in Files
  BY DEF TypeInv
<1>1. CASE UNCHANGED vars
  BY <1>1 DEF vars, Quiet, diskVars, runVars
<1>2. ASSUME NEW f \in Files, FileStep(f)
      PROVE  \/ Create(f) \/ WriteData(f) \/ Unlink(f) \/ TryToFreeNats(f)
             \/ \E kind \in Kinds : WriteBack(f, kind) /\ NodeStep(f, kind, FALSE)
  BY <1>2 DEF FileStep, WriteBack, NodeStep
<1>3. ASSUME NEW t \in Threads, FsyncStep(t)
      PROVE  \/ \E kind \in Kinds :
                   FsyncWriteNode(t, kind) /\ fsync[t].file \in Files /\ NodeStep(fsync[t].file, kind, TRUE)
             \/ CheckpointStep
             \/ fsync[t].file \in Files /\ (FsyncCheckInode(t) \/ FsyncFlush(t))
             \/ Quiet
  <2>1. CASE \E f \in Files : FsyncSkip(t, f)
    BY <2>1 DEF FsyncSkip, Quiet, diskVars
  <2>2. CASE \E f \in Files : FsyncStart(t, f)
    BY <2>2 DEF FsyncStart, Quiet, diskVars, runVars
  <2>3. CASE FsyncCheckpoint(t)
    BY <2>3 DEF FsyncCheckpoint, CheckpointStep
  <2>4. CASE \E kind \in Kinds : FsyncWriteNode(t, kind)
    <3>1. PICK kind \in Kinds : FsyncWriteNode(t, kind)
      BY <2>4
    <3>2. fsync[t].file \in Files
      BY <1>0, <3>1 DEF FsyncWriteNode
    <3>3. CASE kind \in dirty[fsync[t].file]
      BY <3>1, <3>2, <3>3 DEF FsyncWriteNode, NodeStep
    <3>4. CASE kind \notin dirty[fsync[t].file]
      BY <3>1, <3>4 DEF FsyncWriteNode, Quiet, memVars, runVars
    <3> QED BY <3>3, <3>4
  <2>5. CASE FsyncCheckInode(t) \/ FsyncFlush(t)
    BY <1>0, <2>5 DEF FsyncCheckInode, FsyncFlush
  <2>6. CASE FsyncWake(t)
    BY <2>6 DEF FsyncWake, Quiet, diskVars, runVars
  <2>7. CASE FsyncDone(t)
    BY <2>7 DEF FsyncDone, Quiet, diskVars
  <2> QED BY <1>3, <2>1, <2>2, <2>3, <2>4, <2>5, <2>6, <2>7 DEF FsyncStep
<1>4. CASE FlusherTake \/ FlusherDone \/ FlusherStep \/ \E p \in inFlight : WriteEnd(p)
  BY <1>4 DEF FlusherTake, FlusherDone, FlusherStep, WriteEnd, Quiet, diskVars, runVars
<1>5. CASE Checkpoint
  BY <1>5 DEF Checkpoint, CheckpointStep, runVars
<1>6. CASE Mount
  BY <1>6 DEF Mount
<1> QED BY <1>1, <1>2, <1>3, <1>4, <1>5, <1>6 DEF Next

\* What the steps that change a file do to it.
LEMMA Created ==
  ASSUME TypeInv, NEW f \in Files, Create(f)
  PROVE  /\ stamp' = stamp + 1 /\ stamp \in Nat
         /\ ~mem[f].linked /\ saved[f] = NoFile /\ nat[f].ckpt
         /\ mem' = [mem EXCEPT ![f] = [linked |-> TRUE, inode |-> stamp + 1, dnode |-> 0]]
         /\ dirty' = [dirty EXCEPT ![f] = {"inode"}]
         /\ nat' = [nat EXCEPT ![f] = NewNat(FALSE)]
         /\ ~StaleBlocks => ~HasStaleBlocks(f)
         /\ UNCHANGED <<append, diskVars, fsync, promise, phase, failures, flushVars>>
BY DEF Create, Stamp, Exists, TypeInv

LEMMA DataWritten ==
  ASSUME TypeInv, NEW f \in Files, WriteData(f)
  PROVE  /\ stamp' = stamp + 1 /\ stamp \in Nat
         /\ mem[f].linked /\ (~LateWrites => ~LateWrite(f))
         /\ mem' \in [Files -> FileRec]
         /\ \A g \in Files : g # f => mem'[g] = mem[g]
         /\ mem'[f].linked /\ mem'[f].dnode = stamp + 1
         /\ mem'[f].inode \in {mem[f].inode, stamp + 1}
         /\ dirty' \in [Files -> SUBSET Kinds]
         /\ \A g \in Files : g # f => dirty'[g] = dirty[g]
         /\ "dnode" \in dirty'[f]
         /\ nat' \in [Files -> NatEntry]
         /\ \A g \in Files : g # f => nat'[g] = nat[g]
         /\ nat'[f].ckpt = nat[f].ckpt /\ nat'[f].fsynced = nat[f].fsynced
         /\ nat'[f].dirty = nat[f].dirty /\ nat'[f].cached = nat[f].cached
         /\ nat'[f].last => nat[f].last
         /\ append' = [append EXCEPT ![f] = TRUE]
         /\ UNCHANGED <<diskVars, fsync, promise, phase, failures, flushVars>>
<1>1. /\ mem[f] \in FileRec /\ mem \in [Files -> FileRec] /\ stamp \in Nat
      /\ nat[f] \in NatEntry /\ nat \in [Files -> NatEntry]
      /\ dirty \in [Files -> SUBSET Kinds]
  BY DEF TypeInv
<1>2. PICK grows \in BOOLEAN :
        /\ mem' = [mem EXCEPT ![f].dnode = stamp', ![f].inode = IF grows THEN stamp' ELSE @]
        /\ dirty' = [dirty EXCEPT ![f] = @ \cup IF grows THEN Kinds ELSE {"dnode"}]
  BY DEF WriteData
<1>3. stamp' = stamp + 1
  BY DEF WriteData, Stamp
<1>4. PICK i \in {mem[f].inode, stamp + 1} : mem' = [mem EXCEPT ![f].dnode = stamp + 1, ![f].inode = i]
  <2>1. CASE grows
    BY <1>2, <1>3, <2>1
  <2>2. CASE ~grows
    BY <1>1, <1>2, <1>3, <2>2 DEF FileRec
  <2> QED BY <2>1, <2>2
<1>5. mem' = [mem EXCEPT ![f] = [mem[f] EXCEPT !.dnode = stamp + 1, !.inode = i]]
  BY <1>1, <1>4 DEF FileRec
<1>6. mem[f].linked
  BY DEF WriteData, Exists
<1>i. i \in Nat /\ stamp + 1 \in Nat
  BY <1>1 DEF FileRec
<1>7. /\ [mem[f] EXCEPT !.dnode = stamp + 1, !.inode = i] \in FileRec
      /\ [mem[f] EXCEPT !.dnode = stamp + 1, !.inode = i].linked
      /\ [mem[f] EXCEPT !.dnode = stamp + 1, !.inode = i].dnode = stamp + 1
      /\ [mem[f] EXCEPT !.dnode = stamp + 1, !.inode = i].inode = i
  BY <1>1, <1>i, <1>6 DEF FileRec
<1>8. /\ mem' \in [Files -> FileRec]
      /\ \A g \in Files : g # f => mem'[g] = mem[g]
      /\ mem'[f].linked /\ mem'[f].dnode = stamp + 1
      /\ mem'[f].inode \in {mem[f].inode, stamp + 1}
  BY <1>1, <1>4, <1>5, <1>7
<1>9. /\ dirty' \in [Files -> SUBSET Kinds]
      /\ \A g \in Files : g # f => dirty'[g] = dirty[g]
      /\ "dnode" \in dirty'[f]
  BY <1>1, <1>2 DEF Kinds
<1>10. nat' = [nat EXCEPT ![f] = [nat[f] EXCEPT !.last = nat[f].last /\ mem[f].dnode # 0]]
  BY <1>1 DEF WriteData, NatEntry
<1>l. (nat[f].last /\ mem[f].dnode # 0) \in BOOLEAN
  OBVIOUS
<1>11. /\ [nat[f] EXCEPT !.last = nat[f].last /\ mem[f].dnode # 0] \in NatEntry
       /\ LET n == [nat[f] EXCEPT !.last = nat[f].last /\ mem[f].dnode # 0]
          IN  /\ n.ckpt = nat[f].ckpt /\ n.fsynced = nat[f].fsynced
              /\ n.dirty = nat[f].dirty /\ n.cached = nat[f].cached
              /\ n.last => nat[f].last
  BY <1>1, <1>l DEF NatEntry
<1>12. /\ nat' \in [Files -> NatEntry]
       /\ \A g \in Files : g # f => nat'[g] = nat[g]
       /\ nat'[f].ckpt = nat[f].ckpt /\ nat'[f].fsynced = nat[f].fsynced
       /\ nat'[f].dirty = nat[f].dirty /\ nat'[f].cached = nat[f].cached
       /\ nat'[f].last => nat[f].last
  BY <1>1, <1>10, <1>11
<1> QED BY <1>1, <1>3, <1>6, <1>8, <1>9, <1>12 DEF WriteData

\* A step while the file system is up and stays up.
UpStep ==
  /\ TypeInv /\ UpInv /\ NoRaces /\ [Next]_vars /\ TypeInv'
  /\ phase = "up" /\ phase' = "up"

LEMMA UpStepCases ==
  ASSUME UpStep
  PROVE  \/ \E f \in Files : Create(f) \/ WriteData(f) \/ Unlink(f) \/ TryToFreeNats(f)
         \/ \E f \in Files, kind \in Kinds : WriteBack(f, kind) /\ NodeStep(f, kind, FALSE)
         \/ \E t \in Threads, kind \in Kinds :
              FsyncWriteNode(t, kind) /\ fsync[t].file \in Files /\ NodeStep(fsync[t].file, kind, TRUE)
         \/ CheckpointStep
         \/ \E t \in Threads : /\ fsync[t].file \in Files
                               /\ FsyncCheckInode(t) \/ FsyncFlush(t)
         \/ Quiet
<1>1. ~PowerFail
  BY DEF UpStep, PowerFail
<1> QED BY <1>1, UpSteps DEF UpStep

\* What a node write changes, for either mark.
LEMMA NodeStepped ==
  ASSUME TypeInv, NEW f \in Files, NEW kind \in Kinds, NEW mark \in BOOLEAN, NodeStep(f, kind, mark)
  PROVE  /\ UNCHANGED <<mem, append, saved, parentSaved, medium, promise, stamp>>
         /\ dirty'[f] = dirty[f] \ {kind} /\ kind \in dirty[f]
         /\ \A g \in Files : g # f => dirty'[g] = dirty[g] /\ nat'[g] = nat[g]
         /\ Len(log') = Len(log) + 1 /\ Len(log) \in Nat
         /\ DOMAIN log = 1..Len(log) /\ DOMAIN log' = 1..(Len(log) + 1)
         /\ Continues(log, log')
         /\ \A p \in DOMAIN log : p \in DOMAIN log' /\ log'[p] = log[p] /\ log[p] \in Block
         /\ log'[Len(log) + 1] = NodeBlock(f, kind, mark)
         /\ Positions(log) \ inFlight = (Positions(log) \ inFlight)'
<1>1. WriteNode(f, kind, mark)
  BY DEF NodeStep
<1>2. /\ NodeBlock(f, kind, mark) \in Block
      /\ log' = Append(log, NodeBlock(f, kind, mark))
      /\ inFlight' = inFlight \cup {Len(log) + 1}
      /\ dirty'[f] = dirty[f] \ {kind}
      /\ \A g \in Files : g # f => dirty'[g] = dirty[g] /\ nat'[g] = nat[g]
  BY <1>1, NodeWritten
<1>3. log \in Logs /\ log \in Seq(Block) /\ Len(log) \in Nat /\ DOMAIN log = 1..Len(log)
  BY DEF TypeInv, Logs
<1>4. /\ Continues(log, log') /\ Len(log') = Len(log) + 1
      /\ DOMAIN log' = DOMAIN log \cup {Len(log) + 1}
      /\ log'[Len(log) + 1] = NodeBlock(f, kind, mark)
  BY <1>2, <1>3, LogContinues
<1>5. DOMAIN log' = 1..(Len(log) + 1)
  BY <1>3, <1>4
<1>6. \A p \in DOMAIN log : p \in DOMAIN log' /\ log'[p] = log[p] /\ log[p] \in Block
  BY <1>3, <1>4 DEF Continues
<1>7. Len(log) + 1 \notin DOMAIN log
  BY <1>3
<1>8. Positions(log) \ inFlight = (Positions(log) \ inFlight)'
  BY <1>2, <1>4, <1>7 DEF Positions
<1>9. UNCHANGED <<mem, append, saved, parentSaved, medium, promise, stamp>> /\ kind \in dirty[f]
  BY DEF NodeStep, runVars
<1> QED BY <1>2, <1>3, <1>4, <1>5, <1>6, <1>8, <1>9

LEMMA FileInvStep ==
  ASSUME UpStep
  PROVE  FileInv'
<1> DEFINE Good(f) ==
       /\ WellFormed(mem[f]) /\ mem[f].inode <= stamp /\ mem[f].dnode <= stamp
       /\ WellFormed(saved[f]) /\ saved[f].inode <= stamp /\ saved[f].dnode <= stamp
       /\ Exists(f) => saved[f].inode <= mem[f].inode /\ saved[f].dnode <= mem[f].dnode
       /\ Exists(f) /\ ~saved[f].linked => ~HasStaleBlocks(f)
       /\ ~Exists(f) => dirty[f] = {}
       /\ "dnode" \in dirty[f] => append[f] /\ mem[f].dnode # 0
<1>0. /\ TypeInv /\ \A f \in Files : Good(f)
      /\ \A f \in Files : /\ mem[f] \in FileRec /\ saved[f] \in FileRec
                          /\ mem[f].inode \in Nat /\ mem[f].dnode \in Nat
                          /\ saved[f].inode \in Nat /\ saved[f].dnode \in Nat
      /\ mem \in [Files -> FileRec] /\ dirty \in [Files -> SUBSET Kinds]
      /\ append \in [Files -> BOOLEAN] /\ stamp \in Nat
  <2>1. TypeInv /\ FileInv
    BY DEF UpStep, UpInv
  <2>2. \A f \in Files : Good(f)
    BY <2>1 DEF FileInv, ValuesInv
  <2>3. /\ mem \in [Files -> FileRec] /\ saved \in [Files -> FileRec]
        /\ dirty \in [Files -> SUBSET Kinds] /\ append \in [Files -> BOOLEAN] /\ stamp \in Nat
    BY <2>1, RecoveryAssumption DEF TypeInv
  <2>4. \A r \in FileRec : r.inode \in Nat /\ r.dnode \in Nat
    BY DEF FileRec
  <2>5. \A f \in Files : mem[f] \in FileRec /\ saved[f] \in FileRec
    BY <2>3
  <2> HIDE DEF Good
  <2> QED BY <2>1, <2>2, <2>3, <2>4, <2>5
<1> SUFFICES ASSUME NEW f \in Files PROVE Good(f)'
  BY DEF FileInv, ValuesInv
<1>1. ASSUME UNCHANGED <<mem, saved, medium, stamp>>,
             dirty'[f] \subseteq dirty[f] \cup {"inode"},
             Exists(f) \/ dirty'[f] = {},
             "dnode" \in dirty[f] /\ append[f] => append'[f] \/ "dnode" \notin dirty'[f]
      PROVE  Good(f)'
  <2>1. mem'[f] = mem[f] /\ saved'[f] = saved[f] /\ stamp' = stamp
    BY <1>1
  <2>2. (Exists(f)' <=> Exists(f)) /\ (HasStaleBlocks(f)' <=> HasStaleBlocks(f))
    BY <1>1 DEF Exists, HasStaleBlocks, Positions
  <2>3. (WellFormed(mem[f])' <=> WellFormed(mem[f])) /\ (WellFormed(saved[f])' <=> WellFormed(saved[f]))
    BY <2>1 DEF WellFormed
  <2>4. ~Exists(f) => dirty'[f] = {}
    BY <1>1
  <2>5. "dnode" \in dirty'[f] => "dnode" \in dirty[f]
    BY <1>1
  <2>6. "dnode" \in dirty'[f] => append'[f] /\ mem'[f].dnode # 0
    BY <1>0, <1>1, <2>1, <2>5
  <2> QED BY <1>0, <2>1, <2>2, <2>3, <2>4, <2>6
<1>2. CASE \E g \in Files : Create(g)
  <2>1. PICK g \in Files : Create(g)
    BY <1>2
  <2>2. /\ stamp' = stamp + 1 /\ stamp \in Nat
        /\ ~mem[g].linked /\ saved[g] = NoFile /\ nat[g].ckpt
        /\ mem' = [mem EXCEPT ![g] = [linked |-> TRUE, inode |-> stamp + 1, dnode |-> 0]]
        /\ dirty' = [dirty EXCEPT ![g] = {"inode"}]
        /\ ~HasStaleBlocks(g)
        /\ UNCHANGED <<append, saved, medium>>
    BY <2>1, <1>0, Created DEF diskVars, UpStep, NoRaces
  <2>3. CASE g = f
    BY <1>0, <2>2, <2>3 DEF Exists, WellFormed, HasStaleBlocks, Positions, NoFile
  <2>4. CASE g # f
    BY <1>0, <2>2, <2>4 DEF Exists, WellFormed, HasStaleBlocks, Positions
  <2> QED BY <2>3, <2>4
<1>3. CASE \E g \in Files : WriteData(g)
  <2>1. PICK g \in Files : WriteData(g)
    BY <1>3
  <2>2. /\ stamp' = stamp + 1 /\ stamp \in Nat /\ mem[g].linked
        /\ \A h \in Files : h # g => mem'[h] = mem[h] /\ dirty'[h] = dirty[h]
        /\ mem'[g].linked /\ mem'[g].dnode = stamp + 1
        /\ mem'[g].inode \in {mem[g].inode, stamp + 1}
        /\ append' = [append EXCEPT ![g] = TRUE]
        /\ UNCHANGED <<saved, medium>>
    BY <2>1, <1>0, DataWritten DEF diskVars
  <2>3. CASE g = f
    BY <1>0, <2>2, <2>3 DEF Exists, WellFormed, HasStaleBlocks, Positions
  <2>4. CASE g # f
    BY <1>0, <2>2, <2>4 DEF Exists, WellFormed, HasStaleBlocks, Positions
  <2> QED BY <2>3, <2>4
<1>4. CASE \E g \in Files : Unlink(g)
  <2>1. PICK g \in Files : Unlink(g)
    BY <1>4
  <2>2. /\ mem' = [mem EXCEPT ![g] = NoFile] /\ dirty' = [dirty EXCEPT ![g] = {}]
        /\ append' = [append EXCEPT ![g] = FALSE]
        /\ UNCHANGED <<saved, medium, stamp>>
    BY <2>1 DEF Unlink, diskVars
  <2>3. CASE g = f
    BY <1>0, <2>2, <2>3 DEF Exists, WellFormed, NoFile, HasStaleBlocks, Positions
  <2>4. CASE g # f
    BY <1>0, <2>2, <2>4 DEF Exists, WellFormed, HasStaleBlocks, Positions
  <2> QED BY <2>3, <2>4
<1>5. CASE (\E g \in Files : TryToFreeNats(g)) \/ Quiet
  BY <1>0, <1>1, <1>5 DEF TryToFreeNats, diskVars, runVars, Quiet, memVars
<1>6. ASSUME NEW g \in Files, NEW kind \in Kinds, NEW mark \in BOOLEAN, NodeStep(g, kind, mark)
      PROVE  Good(f)'
  <2>1. /\ UNCHANGED <<mem, append, saved, medium, stamp>>
        /\ dirty'[f] \subseteq dirty[f]
    BY <1>0, <1>6, NodeStepped
  <2> QED BY <1>0, <1>1, <2>1
<1>7. CASE CheckpointStep
  <2>1. /\ saved' = mem /\ medium' = <<>>
        /\ UNCHANGED <<mem, dirty, append, stamp>>
    BY <1>7 DEF CheckpointStep, CheckpointDone
  <2> QED BY <1>0, <2>1 DEF Exists, WellFormed, HasStaleBlocks, Positions
<1>8. CASE \E t \in Threads : fsync[t].file \in Files /\ FsyncCheckInode(t)
  <2>1. PICK t \in Threads : fsync[t].file \in Files /\ FsyncCheckInode(t)
    BY <1>8
  <2>2. /\ UNCHANGED <<mem, append, saved, medium, stamp>>
        /\ \/ dirty' = [dirty EXCEPT ![fsync[t].file] = @ \cup {"inode"}]
           \/ dirty' = dirty
    BY <2>1 DEF FsyncCheckInode, diskVars, runVars
  <2>3. Exists(fsync[t].file)
    BY <2>1 DEF UpStep, UpInv, FsyncInv, FsyncCheckInode
  <2>4. CASE fsync[t].file = f
    <3>1. Exists(f)
      BY <2>3, <2>4
    <3>2. dirty'[f] = dirty[f] \/ dirty'[f] = dirty[f] \cup {"inode"}
      BY <1>0, <2>2, <2>4
    <3> QED BY <1>1, <2>2, <3>1, <3>2
  <2>5. CASE fsync[t].file # f
    BY <1>0, <1>1, <2>1, <2>2, <2>5
  <2> QED BY <2>4, <2>5
<1>9. CASE \E t \in Threads : fsync[t].file \in Files /\ FsyncFlush(t)
  <2>1. PICK t \in Threads : fsync[t].file \in Files /\ FsyncFlush(t)
    BY <1>9
  <2>2. /\ UNCHANGED <<mem, dirty, saved, medium, stamp>>
        /\ append' = [append EXCEPT ![fsync[t].file] = FALSE]
    BY <2>1 DEF FsyncFlush, diskVars, runVars
  <2>3. LateWrite(fsync[t].file)
    BY <2>1 DEF FsyncFlush, LateWrite, Fsyncing
  <2>4. "dnode" \notin dirty[fsync[t].file]
    BY <2>1, <2>3 DEF UpStep, UpInv, FsyncInv, FsyncFlush
  <2> QED BY <1>0, <1>1, <2>2, <2>4
<1> HIDE DEF Good
<1> QED BY <1>2, <1>3, <1>4, <1>5, <1>6, <1>7, <1>8, <1>9, UpStepCases

LEMMA NatInvStep ==
  ASSUME UpStep
  PROVE  NatInv'
<1> DEFINE Good(f) ==
       /\ nat[f].fsynced \/ ~nat[f].ckpt => nat[f].dirty
       /\ nat[f].dirty => nat[f].cached
       /\ Exists(f) => (nat[f].ckpt <=> saved[f].linked)
       /\ Exists(f) /\ nat[f].cached /\ nat[f].last =>
            \A p \in PositionsOf(f) : \E q \in PositionsOf(f) : p <= q /\ log[q].fsync
       /\ Exists(f) /\ nat[f].fsynced /\ ~nat[f].ckpt =>
            \E p \in PositionsOf(f) : log[p].dent
<1>0. /\ TypeInv /\ \A f \in Files : Good(f)
      /\ \A f \in Files : mem[f] \in FileRec /\ saved[f] \in FileRec /\ nat[f] \in NatEntry
      /\ mem \in [Files -> FileRec] /\ nat \in [Files -> NatEntry]
  BY DEF UpStep, UpInv, NatInv, FlagsInv, TypeInv
<1> SUFFICES ASSUME NEW f \in Files PROVE Good(f)'
  BY DEF NatInv, FlagsInv
<1>1. ASSUME UNCHANGED <<saved, log>>, mem'[f].linked = mem[f].linked, nat'[f] = nat[f]
      PROVE  Good(f)'
  BY <1>0, <1>1 DEF Exists, PositionsOf, Positions
<1>2. CASE \E g \in Files : Create(g)
  <2>1. PICK g \in Files : Create(g)
    BY <1>2
  <2>2. /\ saved[g] = NoFile
        /\ mem' = [mem EXCEPT ![g] = [linked |-> TRUE, inode |-> stamp + 1, dnode |-> 0]]
        /\ nat' = [nat EXCEPT ![g] = NewNat(FALSE)]
        /\ UNCHANGED <<saved, log>>
    BY <2>1, <1>0, Created DEF diskVars
  <2>3. CASE g = f
    BY <1>0, <2>2, <2>3 DEF Exists, NoFile, NewNat
  <2>4. CASE g # f
    BY <1>0, <1>1, <2>2, <2>4
  <2> QED BY <2>3, <2>4
<1>3. CASE \E g \in Files : WriteData(g)
  <2>1. PICK g \in Files : WriteData(g)
    BY <1>3
  <2>2. /\ mem[g].linked /\ mem'[g].linked
        /\ \A h \in Files : h # g => mem'[h] = mem[h] /\ nat'[h] = nat[h]
        /\ nat'[g].ckpt = nat[g].ckpt /\ nat'[g].fsynced = nat[g].fsynced
        /\ nat'[g].dirty = nat[g].dirty /\ nat'[g].cached = nat[g].cached
        /\ nat'[g].last => nat[g].last
        /\ UNCHANGED <<saved, log>>
    BY <2>1, <1>0, DataWritten DEF diskVars
  <2>3. CASE g = f
    BY <1>0, <2>2, <2>3 DEF Exists, PositionsOf, Positions
  <2>4. CASE g # f
    BY <1>1, <2>2, <2>4
  <2> QED BY <2>3, <2>4
<1>4. CASE \E g \in Files : Unlink(g)
  <2>1. PICK g \in Files : Unlink(g)
    BY <1>4
  <2>2. /\ mem' = [mem EXCEPT ![g] = NoFile]
        /\ nat' = [nat EXCEPT ![g] = NewNat(nat[g].fsynced)]
        /\ UNCHANGED <<saved, log>>
    BY <2>1 DEF Unlink, diskVars
  <2>3. CASE g = f
    BY <1>0, <2>2, <2>3 DEF Exists, NoFile, NewNat
  <2>4. CASE g # f
    BY <1>0, <1>1, <2>2, <2>4
  <2> QED BY <2>3, <2>4
<1>5. CASE \E g \in Files : TryToFreeNats(g)
  <2>1. PICK g \in Files : TryToFreeNats(g)
    BY <1>5
  <2>2. /\ ~nat[g].dirty /\ nat' = [nat EXCEPT ![g] = NoNat]
        /\ UNCHANGED <<mem, saved, log>>
    BY <2>1 DEF TryToFreeNats, diskVars
  <2>3. CASE g = f
    BY <1>0, <2>2, <2>3 DEF Exists, NoNat
  <2>4. CASE g # f
    BY <1>0, <1>1, <2>2, <2>4
  <2> QED BY <2>3, <2>4
<1>6. ASSUME NEW g \in Files, NEW kind \in Kinds, NEW mark \in BOOLEAN, NodeStep(g, kind, mark)
      PROVE  Good(f)'
  <2> DEFINE n == Len(log) + 1
  <2>1. /\ UNCHANGED <<mem, saved>>
        /\ \A h \in Files : h # g => nat'[h] = nat[h]
        /\ Len(log) \in Nat /\ DOMAIN log = 1..Len(log) /\ DOMAIN log' = 1..n
        /\ \A p \in DOMAIN log : log'[p] = log[p]
        /\ log'[n] = NodeBlock(g, kind, mark)
    BY <1>0, <1>6, NodeStepped
  <2>2. WriteNode(g, kind, mark)
    BY <1>6 DEF NodeStep
  <2>3. CASE g # f
    <3>1. NodeBlock(g, kind, mark).file # f
      BY <2>3 DEF NodeBlock
    <3>2. PositionsOf(f)' = PositionsOf(f) /\ \A p \in PositionsOf(f) : log'[p] = log[p]
      BY <2>1, <3>1 DEF PositionsOf, Positions
    <3> QED BY <1>0, <2>1, <2>3, <3>2 DEF Exists
  <2>4. CASE g = f
    <3> HIDE DEF n
    <3>1. LET b == NodeBlock(f, kind, mark)
          IN  /\ b.file = f /\ b.fsync = mark
              /\ b.dent = (mark /\ kind = "inode" /\ ~nat[f].ckpt /\ ~nat[f].fsynced)
      BY <1>0, <2>2, <2>4, NodeWritten
    <3>2. /\ kind = "inode" =>
               /\ nat'[f].ckpt = (~nat[f].cached \/ nat[f].ckpt)
               /\ nat'[f].fsynced = (nat[f].fsynced \/ mark)
               /\ nat'[f].last = mark /\ nat'[f].dirty /\ nat'[f].cached
          /\ kind = "dnode" /\ nat[f].cached =>
               /\ nat'[f].ckpt = nat[f].ckpt /\ nat'[f].fsynced = nat[f].fsynced
               /\ nat'[f].last = mark /\ nat'[f].dirty = nat[f].dirty /\ nat'[f].cached
          /\ kind = "dnode" /\ ~nat[f].cached => nat'[f] = NoNat
      BY <1>0, <2>2, <2>4, NodeWritten
    <3>3. /\ PositionsOf(f)' = PositionsOf(f) \cup {n}
          /\ \A p \in PositionsOf(f) : log'[p] = log[p] /\ p <= n
          /\ n <= n /\ log'[n].fsync = mark
          /\ log'[n].dent = (mark /\ kind = "inode" /\ ~nat[f].ckpt /\ ~nat[f].fsynced)
      BY <2>1, <2>4, <3>1 DEF PositionsOf, Positions, n
    <3>4. mark => \A p \in PositionsOf(f)' : \E q \in PositionsOf(f)' : p <= q /\ log'[q].fsync
      BY <3>3
    <3>5. (\E p \in PositionsOf(f) : log[p].dent) => \E p \in PositionsOf(f)' : log'[p].dent
      BY <3>3
    <3>6. UNCHANGED <<mem, saved>>
      BY <2>1
    <3>7. /\ nat[f].fsynced \/ ~nat[f].ckpt => nat[f].dirty
          /\ nat[f].dirty => nat[f].cached
          /\ Exists(f) => (nat[f].ckpt <=> saved[f].linked)
          /\ Exists(f) /\ nat[f].fsynced /\ ~nat[f].ckpt => \E p \in PositionsOf(f) : log[p].dent
      BY <1>0
    <3>8. CASE kind = "inode"
      <4>1. nat'[f].ckpt = nat[f].ckpt
        BY <3>2, <3>7, <3>8, <1>0 DEF NatEntry
      <4>2. Exists(f)' /\ nat'[f].fsynced /\ ~nat'[f].ckpt => \E p \in PositionsOf(f)' : log'[p].dent
        BY <3>2, <3>3, <3>5, <3>6, <3>7, <3>8, <4>1 DEF Exists
      <4> QED BY <3>2, <3>4, <3>6, <3>7, <3>8, <4>1, <4>2 DEF Exists
    <3>9. CASE kind = "dnode" /\ nat[f].cached
      BY <3>2, <3>4, <3>5, <3>6, <3>7, <3>9 DEF Exists
    <3>10. CASE kind = "dnode" /\ ~nat[f].cached
      BY <3>2, <3>6, <3>7, <3>10 DEF Exists, NoNat
    <3> QED BY <3>8, <3>9, <3>10 DEF Kinds
  <2> QED BY <2>3, <2>4
<1>7. CASE CheckpointStep
  <2>1. /\ saved' = mem /\ UNCHANGED mem /\ log' = <<>>
        /\ nat'[f] = IF nat[f].dirty THEN ResetNat ELSE nat[f]
    BY <1>7 DEF CheckpointStep, CheckpointDone
  <2>2. PositionsOf(f)' = {}
    BY <2>1 DEF PositionsOf, Positions
  <2> QED BY <1>0, <2>1, <2>2 DEF Exists, ResetNat
<1>8. CASE Quiet \/ \E t \in Threads : FsyncCheckInode(t) \/ FsyncFlush(t)
  BY <1>1, <1>8 DEF Quiet, memVars, FsyncCheckInode, FsyncFlush, diskVars
<1> HIDE DEF Good
<1> QED BY <1>2, <1>3, <1>4, <1>5, <1>6, <1>7, <1>8, UpStepCases

LEMMA LogInvStep ==
  ASSUME UpStep
  PROVE  LogInv'
<1> DEFINE Fits(b) ==
       /\ BlockOK(b)
       /\ IF Exists(b.file) THEN b.val <= mem[b.file][b.kind] ELSE ~nat[b.file].ckpt
       /\ ~saved[b.file].linked => ~HasStaleBlocks(b.file)
<1>0. /\ TypeInv /\ FileInv /\ \A p \in DOMAIN log : Fits(log[p])
      /\ \A p \in DOMAIN log : \A q \in p..Len(log) :
            log[q].file = log[p].file /\ log[q].kind = log[p].kind => log[p].val <= log[q].val
      /\ \A f \in Files : mem[f] \in FileRec /\ saved[f] \in FileRec /\ nat[f] \in NatEntry
      /\ mem \in [Files -> FileRec] /\ nat \in [Files -> NatEntry]
      /\ stamp \in Nat /\ NatInv
      /\ \A p \in DOMAIN log : log[p] \in Block
  BY DEF UpStep, UpInv, LogInv, TypeInv, Positions
<1>k. \A r \in FileRec : \A k \in Kinds : r[k] \in Nat /\ (k = "inode" => r[k] = r.inode) /\ (k = "dnode" => r[k] = r.dnode)
  BY DEF FileRec, Kinds
<1>b. \A b \in Block : /\ b.file \in Files /\ b.kind \in Kinds /\ b.val \in Nat
                       /\ b.fsync \in BOOLEAN /\ b.dent \in BOOLEAN
  BY DEF Block
<1>1. ASSUME UNCHANGED <<log, saved, parentSaved, medium>>, stamp <= stamp', stamp' \in Nat,
             \A p \in DOMAIN log : Fits(log[p]) =>
                IF Exists(log[p].file)' THEN log[p].val <= mem'[log[p].file][log[p].kind]
                ELSE ~nat'[log[p].file].ckpt
      PROVE  LogInv'
  <2>1. ASSUME NEW p \in DOMAIN log PROVE Fits(log[p])'
    BY <1>0, <1>1, <2>1 DEF BlockOK, HasStaleBlocks, Positions
  <2> HIDE DEF Fits
  <2>2. \A p \in DOMAIN log' : Fits(log[p])'
    BY <1>1, <2>1
  <2>3. \A p \in DOMAIN log' : \A q \in p..Len(log') :
            log'[q].file = log'[p].file /\ log'[q].kind = log'[p].kind => log'[p].val <= log'[q].val
    BY <1>0, <1>1
  <2> QED BY <2>2, <2>3 DEF LogInv, Positions, Fits
<1>2. CASE \E g \in Files : Create(g)
  <2>1. PICK g \in Files : Create(g)
    BY <1>2
  <2>2. /\ ~mem[g].linked /\ nat[g].ckpt /\ stamp' = stamp + 1
        /\ mem' = [mem EXCEPT ![g] = [linked |-> TRUE, inode |-> stamp + 1, dnode |-> 0]]
        /\ nat' = [nat EXCEPT ![g] = NewNat(FALSE)]
        /\ UNCHANGED <<saved, parentSaved, log, medium>>
    BY <2>1, <1>0, Created DEF diskVars
  <2>3. ASSUME NEW p \in DOMAIN log, Fits(log[p])
        PROVE  IF Exists(log[p].file)' THEN log[p].val <= mem'[log[p].file][log[p].kind]
                ELSE ~nat'[log[p].file].ckpt
    <3>1. log[p].file # g
      BY <2>2, <2>3 DEF Exists
    <3> QED BY <1>0, <2>2, <2>3, <3>1 DEF Exists
  <2>4. stamp <= stamp' /\ stamp' \in Nat
    BY <1>0, <2>2
  <2> HIDE DEF Fits
  <2> QED BY <1>1, <2>2, <2>3, <2>4
<1>3. CASE \E g \in Files : WriteData(g)
  <2>1. PICK g \in Files : WriteData(g)
    BY <1>3
  <2>2. /\ mem[g].linked /\ mem'[g].linked /\ stamp' = stamp + 1
        /\ mem'[g].dnode = stamp + 1 /\ mem'[g].inode \in {mem[g].inode, stamp + 1}
        /\ mem' \in [Files -> FileRec]
        /\ \A h \in Files : h # g => mem'[h] = mem[h] /\ nat'[h] = nat[h]
        /\ UNCHANGED <<saved, parentSaved, log, medium>>
    BY <2>1, <1>0, DataWritten DEF diskVars
  <2>3. ASSUME NEW p \in DOMAIN log, Fits(log[p])
        PROVE  IF Exists(log[p].file)' THEN log[p].val <= mem'[log[p].file][log[p].kind]
                ELSE ~nat'[log[p].file].ckpt
    <3> DEFINE k == log[p].kind
    <3>1. CASE log[p].file = g
      <4>1. log[p].val <= mem[g][k] /\ log[p].val \in Nat /\ log[p].val <= stamp /\ k \in Kinds
        BY <1>0, <1>b, <2>2, <2>3, <3>1 DEF Exists, BlockOK
      <4>2. mem'[g][k] \in {mem[g][k], stamp + 1}
        BY <1>0, <1>k, <2>2, <4>1 DEF Kinds
      <4>3. mem[g][k] \in Nat
        BY <1>0, <1>k, <4>1
      <4> HIDE DEF k
      <4>4. log[p].val <= mem'[g][k]
        BY <1>0, <4>1, <4>2, <4>3
      <4> QED BY <2>2, <3>1, <4>4 DEF Exists, k
    <3>2. CASE log[p].file # g
      BY <1>0, <1>b, <2>2, <2>3, <3>2 DEF Exists
    <3> QED BY <3>1, <3>2
  <2>4. stamp <= stamp' /\ stamp' \in Nat
    BY <1>0, <2>2
  <2> HIDE DEF Fits
  <2> QED BY <1>1, <2>2, <2>3, <2>4
<1>4. CASE \E g \in Files : Unlink(g)
  <2>1. PICK g \in Files : Unlink(g)
    BY <1>4
  <2>2. /\ mem' = [mem EXCEPT ![g] = NoFile]
        /\ nat' = [nat EXCEPT ![g] = NewNat(nat[g].fsynced)]
        /\ UNCHANGED <<saved, parentSaved, log, medium, stamp>>
    BY <2>1 DEF Unlink, diskVars
  <2>3. ASSUME NEW p \in DOMAIN log, Fits(log[p])
        PROVE  IF Exists(log[p].file)' THEN log[p].val <= mem'[log[p].file][log[p].kind]
                ELSE ~nat'[log[p].file].ckpt
    <3>1. CASE log[p].file = g
      BY <1>0, <1>b, <2>2, <3>1 DEF Exists, NoFile, NewNat
    <3>2. CASE log[p].file # g
      BY <1>0, <1>b, <2>2, <2>3, <3>2 DEF Exists
    <3> QED BY <3>1, <3>2
  <2> HIDE DEF Fits
  <2> QED BY <1>0, <1>1, <2>2, <2>3
<1>5. CASE \E g \in Files : TryToFreeNats(g)
  <2>1. PICK g \in Files : TryToFreeNats(g)
    BY <1>5
  <2>2. /\ ~nat[g].dirty /\ nat' = [nat EXCEPT ![g] = NoNat]
        /\ UNCHANGED <<mem, saved, parentSaved, log, medium, stamp>>
    BY <2>1 DEF TryToFreeNats, diskVars, runVars
  <2>3. nat[g].ckpt
    BY <1>0, <2>2 DEF NatInv, FlagsInv
  <2>4. ASSUME NEW p \in DOMAIN log, Fits(log[p])
        PROVE  IF Exists(log[p].file)' THEN log[p].val <= mem'[log[p].file][log[p].kind]
                ELSE ~nat'[log[p].file].ckpt
    BY <1>0, <1>b, <2>2, <2>3, <2>4 DEF Exists
  <2> HIDE DEF Fits
  <2> QED BY <1>0, <1>1, <2>2, <2>4
<1>6. CASE Quiet \/ \E t \in Threads : FsyncCheckInode(t) \/ FsyncFlush(t)
  <2>1. UNCHANGED <<mem, nat, saved, parentSaved, log, medium, stamp>>
    BY <1>6 DEF Quiet, memVars, FsyncCheckInode, FsyncFlush, diskVars, runVars
  <2> QED BY <1>0, <1>1, <2>1 DEF Exists
<1>7. CASE CheckpointStep
  <2>1. log' = <<>>
    BY <1>7 DEF CheckpointStep, CheckpointDone
  <2> QED BY <2>1 DEF LogInv, Positions
<1>8. ASSUME NEW g \in Files, NEW kind \in Kinds, NEW mark \in BOOLEAN, NodeStep(g, kind, mark),
             mark => parentSaved
      PROVE  LogInv'
  <2>n. PICK n, new : n = Len(log) + 1 /\ new = NodeBlock(g, kind, mark)
    OBVIOUS
  <2>1. /\ UNCHANGED <<mem, saved, parentSaved, medium, stamp>>
        /\ kind \in dirty[g]
        /\ \A h \in Files : h # g => nat'[h] = nat[h]
        /\ Len(log) \in Nat /\ DOMAIN log = 1..Len(log) /\ DOMAIN log' = 1..n /\ Len(log') = n
        /\ \A p \in DOMAIN log : log'[p] = log[p]
        /\ log'[n] = new
    BY <1>0, <1>8, <2>n, NodeStepped
  <2>2. /\ new.file = g /\ new.kind = kind /\ new.val = mem[g][kind] /\ new.fsync = mark
        /\ new.dent = (mark /\ kind = "inode" /\ ~nat[g].ckpt /\ ~nat[g].fsynced)
        /\ new \in Block
    <3>1. WriteNode(g, kind, mark)
      BY <1>8 DEF NodeStep
    <3> QED BY <1>0, <2>n, <3>1, NodeWritten
  <2>3. Exists(g)
    BY <1>0, <2>1 DEF FileInv, ValuesInv
  <2>4. /\ mem[g][kind] \in 1..stamp /\ saved[g][kind] <= mem[g][kind]
    BY <1>0, <1>k, <2>1, <2>3 DEF FileInv, ValuesInv, WellFormed, Kinds, Exists
  <2>5. BlockOK(new)'
    <3>1. new.dent => new.fsync /\ new.kind = "inode" /\ ~saved[g].linked /\ parentSaved
      BY <1>0, <1>8, <2>2, <2>3 DEF NatInv, FlagsInv
    <3> QED BY <2>1, <2>2, <2>4, <3>1 DEF BlockOK
  <2>6. Fits(new)'
    <3>1. new.val <= mem'[g][kind] /\ mem'[g].linked
      BY <1>0, <1>k, <2>1, <2>2, <2>3 DEF Exists
    <3>2. ~saved'[g].linked => ~HasStaleBlocks(g)'
      BY <1>0, <2>1, <2>3 DEF FileInv, ValuesInv, HasStaleBlocks, Positions
    <3> QED BY <2>2, <2>5, <3>1, <3>2 DEF Exists
  <2>7. ASSUME NEW p \in DOMAIN log PROVE Fits(log[p])'
    <3>1. Fits(log[p])
      BY <1>0
    <3>2. BlockOK(log[p])'
      BY <2>1, <3>1 DEF BlockOK
    <3>3. log[p].file \in Files
      BY <1>0, <1>b
    <3>4. IF Exists(log[p].file)' THEN log[p].val <= mem'[log[p].file][log[p].kind]
          ELSE ~nat'[log[p].file].ckpt
      BY <2>1, <2>3, <3>1, <3>3 DEF Exists
    <3>5. ~saved'[log[p].file].linked => ~HasStaleBlocks(log[p].file)'
      BY <2>1, <3>1 DEF HasStaleBlocks, Positions
    <3> QED BY <2>1, <3>2, <3>4, <3>5
  <2>8. \A p \in DOMAIN log' : Fits(log[p])'
    <3> TAKE p \in DOMAIN log'
    <3>1. CASE p \in DOMAIN log
      BY <2>7, <3>1
    <3>2. CASE p \notin DOMAIN log
      <4>1. p = n
        BY <2>n, <2>1, <3>2
      <4>2. log'[p] = new
        BY <2>1, <4>1
      <4> QED BY <2>6, <4>2
    <3> QED BY <3>1, <3>2
  <2>10. ASSUME NEW p \in DOMAIN log', NEW q \in p..Len(log'),
                log'[q].file = log'[p].file, log'[q].kind = log'[p].kind
         PROVE  log'[p].val <= log'[q].val
    <3>1. p \in 1..n /\ q \in 1..n /\ p <= q
      BY <2>1, <2>10
    <3>2. CASE q \in 1..Len(log)
      <4>1. p \in DOMAIN log /\ q \in DOMAIN log /\ q \in p..Len(log)
        BY <2>1, <3>1, <3>2
      <4> QED BY <1>0, <2>1, <2>10, <4>1
    <3>3. CASE q \notin 1..Len(log) /\ p \in 1..Len(log)
      <4>1. q = n /\ p \in DOMAIN log
        BY <2>n, <2>1, <3>1, <3>3
      <4>2. log[p].file = g /\ log[p].kind = kind
        BY <2>1, <2>2, <2>10, <4>1
      <4>3. log[p].val <= mem[g][kind]
        BY <1>0, <2>3, <4>1, <4>2
      <4> QED BY <2>1, <2>2, <4>1, <4>3
    <3>4. CASE q \notin 1..Len(log) /\ p \notin 1..Len(log)
      <4>1. p = n /\ q = n
        BY <2>n, <2>1, <3>1, <3>4
      <4> QED BY <2>1, <2>2, <2>4, <4>1
    <3> QED BY <3>2, <3>3, <3>4
  <2> QED BY <2>8, <2>10 DEF LogInv, Positions
<1>9. CASE \E f \in Files, kind \in Kinds : WriteBack(f, kind) /\ NodeStep(f, kind, FALSE)
  BY <1>8, <1>9
<1>10. ASSUME NEW t \in Threads, NEW kind \in Kinds, FsyncWriteNode(t, kind),
              fsync[t].file \in Files, NodeStep(fsync[t].file, kind, TRUE)
       PROVE  LogInv'
  <2>1. parentSaved
    BY <1>10 DEF FsyncWriteNode, UpStep, UpInv, FsyncInv
  <2> QED BY <1>8, <1>10, <2>1
<1> HIDE DEF Fits
<1> QED BY <1>2, <1>3, <1>4, <1>5, <1>6, <1>7, <1>9, <1>10, UpStepCases

LEMMA MediumInvStep ==
  ASSUME UpStep
  PROVE  MediumInv'
<1>0. /\ TypeInv /\ MediumInv /\ stamp \in Nat /\ parentSaved \in BOOLEAN
      /\ \A p \in DOMAIN medium : medium[p] = NoBlock \/ medium[p].val \in Nat
  <2>1. /\ TypeInv /\ MediumInv /\ stamp \in Nat /\ parentSaved \in BOOLEAN
        /\ medium \in Seq(Block \cup {NoBlock})
    BY DEF UpStep, UpInv, TypeInv
  <2>2. \A p \in DOMAIN medium : medium[p] = NoBlock \/ medium[p] \in Block
    BY <2>1
  <2> QED BY <2>1, <2>2 DEF Block
<1>1. ASSUME UNCHANGED <<medium, saved, parentSaved>>, stamp' \in {stamp, stamp + 1}
      PROVE  MediumInv'
  <2>1. ASSUME NEW p \in DOMAIN medium, medium[p] # NoBlock, BlockOK(medium[p])
        PROVE  BlockOK(medium[p])'
    BY <1>0, <1>1, <2>1 DEF BlockOK
  <2> QED BY <1>0, <1>1, <2>1 DEF MediumInv, Positions
<1>2. CASE CheckpointStep
  BY <1>2 DEF CheckpointStep, CheckpointDone, MediumInv, Positions
<1>3. CASE \E f \in Files : Create(f) \/ WriteData(f) \/ Unlink(f) \/ TryToFreeNats(f)
  <2>1. UNCHANGED diskVars /\ stamp' \in {stamp, stamp + 1}
    BY <1>3 DEF Create, WriteData, Unlink, TryToFreeNats, Stamp, runVars
  <2> QED BY <1>1, <2>1 DEF diskVars
<1>4. CASE Quiet \/ \E t \in Threads : FsyncCheckInode(t) \/ FsyncFlush(t)
  BY <1>1, <1>4 DEF Quiet, FsyncCheckInode, FsyncFlush, diskVars, runVars
<1>5. CASE \E f \in Files, kind \in Kinds, mark \in BOOLEAN : NodeStep(f, kind, mark)
  BY <1>1, <1>5 DEF NodeStep, runVars
<1> QED BY <1>2, <1>3, <1>4, <1>5, UpStepCases

-----------------------------------------------------------------------------
(* fsync().                                                                *)

\* What a step may do to a thread in fsync().
LEMMA ThreadCases ==
  ASSUME TypeInv, [Next]_vars, phase = "up", phase' = "up", NEW t \in Threads
  PROVE  \/ fsync'[t] = fsync[t]
         \/ fsync'[t] = Idle
         \/ \E f \in Files : FsyncStart(t, f)
         \/ \E kind \in Kinds : FsyncWriteNode(t, kind)
         \/ FsyncCheckInode(t)
         \/ FsyncFlush(t)
<1>0. fsync \in [Threads -> FsyncRec]
  BY DEF TypeInv, FsyncRec
<1>1. ASSUME NEW f \in Files, FileStep(f) PROVE UNCHANGED fsync
  BY <1>1 DEF FileStep, Create, WriteData, Unlink, TryToFreeNats, WriteBack
<1>2. ASSUME NEW u \in Threads, FsyncStep(u), u # t PROVE fsync'[t] = fsync[t]
  BY <1>0, <1>2 DEF FsyncStep, FsyncSkip, FsyncStart, FsyncCheckpoint, FsyncReturn, FsyncWriteNode,
                    FsyncCheckInode, Goto, FsyncFlush, FsyncWake, FsyncDone
<1>3. ASSUME FsyncStep(t)
      PROVE  \/ fsync'[t] = fsync[t]
             \/ fsync'[t] = Idle
             \/ \E f \in Files : FsyncStart(t, f)
             \/ \E kind \in Kinds : FsyncWriteNode(t, kind)
             \/ FsyncCheckInode(t)
             \/ FsyncFlush(t)
  BY <1>0, <1>3 DEF FsyncStep, FsyncSkip, FsyncCheckpoint, FsyncReturn, FsyncWake, FsyncDone
<1>4. ASSUME FlusherTake \/ FlusherDone \/ FlusherStep \/ (\E p \in inFlight : WriteEnd(p)) \/ Checkpoint
      PROVE  UNCHANGED fsync
  BY <1>4 DEF FlusherTake, FlusherDone, FlusherStep, WriteEnd, Checkpoint
<1>5. ASSUME PowerFail \/ Mount PROVE FALSE
  BY <1>5 DEF PowerFail, Mount
<1>6. ASSUME UNCHANGED vars PROVE UNCHANGED fsync
  BY <1>6 DEF vars
<1>7. Next \/ UNCHANGED vars
  OBVIOUS
<1>8. CASE UNCHANGED vars
  BY <1>6, <1>8
<1>9. CASE Next
  <2>1. CASE \E f \in Files : FileStep(f)
    BY <2>1, <1>1
  <2>2. CASE \E u \in Threads : FsyncStep(u)
    BY <2>2, <1>2, <1>3
  <2>3. CASE FlusherTake \/ FlusherDone \/ FlusherStep \/ (\E p \in inFlight : WriteEnd(p)) \/ Checkpoint
    BY <2>3, <1>4
  <2>4. CASE PowerFail \/ Mount
    BY <2>4, <1>5
  <2> QED BY <1>9, <2>1, <2>2, <2>3, <2>4 DEF Next
<1> QED BY <1>7, <1>8, <1>9

LEMMA ThreadSteps ==
  ASSUME UpStep, NEW t \in Threads
  PROVE  \/ fsync'[t] = fsync[t]
         \/ fsync'[t] = Idle
         \/ \E f \in Files : FsyncStart(t, f)
         \/ \E kind \in Kinds : FsyncWriteNode(t, kind)
         \/ FsyncCheckInode(t)
         \/ FsyncFlush(t)
BY ThreadCases DEF UpStep

\* A step continues the log, or is a checkpoint that has all there is; only an unlink
\* takes a file away, and only a new or an empty file has less data than before.
LEMMA FileGoesOn ==
  ASSUME UpStep, NEW f \in Files, Exists(f)
  PROVE  /\ \/ Continues(log, log') /\ saved' = saved
            \/ CheckpointStep /\ saved' = mem /\ mem' = mem /\ log' = <<>>
         /\ Unlink(f) \/ (Exists(f)' /\ mem[f].dnode <= mem'[f].dnode)
         /\ Unlink(f) \/ WriteData(f) \/ mem'[f].dnode = mem[f].dnode
         /\ stamp <= stamp'
<1>a. UpInv /\ TypeInv /\ log \in Logs /\ stamp \in Nat /\ mem \in [Files -> FileRec]
  BY DEF UpStep, TypeInv, Logs
<1>0. /\ TypeInv /\ log \in Logs /\ stamp \in Nat /\ mem \in [Files -> FileRec]
      /\ mem[f].dnode \in Nat /\ mem[f].dnode <= stamp
  BY <1>a DEF FileRec, UpInv, FileInv, ValuesInv
<1>1. CASE UNCHANGED <<mem, saved, log, stamp>>
  BY <1>0, <1>1, LogContinues DEF Exists
<1>2. CASE CheckpointStep
  <2>1. saved' = mem /\ mem' = mem /\ log' = <<>> /\ stamp' = stamp
    BY <1>2 DEF CheckpointStep, CheckpointDone
  <2> QED BY <1>0, <1>2, <2>1 DEF Exists
<1>3. ASSUME NEW g \in Files, Create(g) PROVE
         /\ Continues(log, log') /\ saved' = saved /\ stamp <= stamp' /\ g # f /\ mem'[f] = mem[f]
  <2>1. /\ ~mem[g].linked /\ stamp' = stamp + 1
        /\ mem' = [mem EXCEPT ![g] = [linked |-> TRUE, inode |-> stamp + 1, dnode |-> 0]]
        /\ UNCHANGED <<saved, log>>
    BY <1>0, <1>3, Created DEF diskVars
  <2> QED BY <1>0, <2>1, LogContinues DEF Exists
<1>4. ASSUME NEW g \in Files, WriteData(g) PROVE
         /\ Continues(log, log') /\ saved' = saved /\ stamp <= stamp' /\ Exists(f)'
         /\ g # f => mem'[f] = mem[f]
         /\ mem[f].dnode <= mem'[f].dnode
  <2>1. /\ mem'[g].linked /\ mem'[g].dnode = stamp + 1 /\ stamp' = stamp + 1
        /\ \A h \in Files : h # g => mem'[h] = mem[h]
        /\ UNCHANGED <<saved, log>>
    BY <1>0, <1>4, DataWritten DEF diskVars
  <2> QED BY <1>0, <2>1, LogContinues DEF Exists
<1>5. ASSUME NEW g \in Files, Unlink(g) PROVE
         /\ Continues(log, log') /\ saved' = saved /\ stamp' = stamp
         /\ g # f => mem'[f] = mem[f]
  BY <1>0, <1>5, LogContinues DEF Unlink, diskVars
<1>6. CASE \E g \in Files, kind \in Kinds, mark \in BOOLEAN : NodeStep(g, kind, mark)
  <2>1. UNCHANGED <<mem, saved, stamp>> /\ Continues(log, log')
    BY <1>0, <1>6, NodeStepped
  <2> QED BY <1>0, <2>1 DEF Exists
<1>7. CASE Quiet \/ (\E g \in Files : TryToFreeNats(g)) \/ \E t \in Threads : FsyncCheckInode(t) \/ FsyncFlush(t)
  BY <1>1, <1>7 DEF Quiet, memVars, TryToFreeNats, FsyncCheckInode, FsyncFlush, diskVars, runVars
<1>8. CASE \E g \in Files : Create(g)
  BY <1>0, <1>3, <1>8 DEF Exists
<1>9. CASE \E g \in Files : WriteData(g)
  BY <1>4, <1>9
<1>10. CASE \E g \in Files : Unlink(g)
  BY <1>0, <1>5, <1>10 DEF Exists
<1> QED BY <1>2, <1>6, <1>7, <1>8, <1>9, <1>10, UpStepCases

\* What was true of the data a file may have, stays so.
LEMMA NoOlderStays ==
  ASSUME UpStep, NEW f \in Files, Exists(f), ~Unlink(f), NEW v \in Values, v.inode <= stamp,
         NoOlderData(mem[f], saved[f], log, f, v)
  PROVE  NoOlderData(mem[f], saved[f], log, f, v)'
<1>0. /\ TypeInv /\ log \in Logs /\ stamp \in Nat /\ mem \in [Files -> FileRec]
      /\ v.inode \in Nat /\ v.dnode \in Nat
      /\ mem[f].dnode \in Nat /\ FileInv
  <2>1. /\ TypeInv /\ log \in Logs /\ stamp \in Nat /\ mem \in [Files -> FileRec] /\ FileInv
    BY DEF UpStep, TypeInv, Logs, UpInv
  <2>2. mem[f].dnode \in Nat
    BY <2>1 DEF FileRec
  <2> QED BY <2>1, <2>2 DEF Values
<1> SUFFICES ASSUME v.dnode = 0
             PROVE  /\ mem'[f].dnode \notin 1..v.inode /\ saved'[f].dnode \notin 1..v.inode
                    /\ \A p \in DOMAIN log' :
                         log'[p].file = f /\ log'[p].kind = "dnode" => v.inode < log'[p].val
  BY DEF NoOlderData
<1>1. /\ mem[f].dnode \notin 1..v.inode /\ saved[f].dnode \notin 1..v.inode
      /\ \A p \in DOMAIN log :
           log[p].file = f /\ log[p].kind = "dnode" => v.inode < log[p].val
  BY DEF NoOlderData
<1>2. CASE UNCHANGED <<saved, log>> /\ mem'[f] = mem[f]
  BY <1>1, <1>2
<1>3. CASE \E g \in Files : Create(g)
  <2>1. PICK g \in Files : Create(g)
    BY <1>3
  <2>2. /\ ~mem[g].linked
        /\ mem' = [mem EXCEPT ![g] = [linked |-> TRUE, inode |-> stamp + 1, dnode |-> 0]]
        /\ UNCHANGED <<saved, log>>
    BY <1>0, <2>1, Created DEF diskVars
  <2> QED BY <1>0, <1>2, <2>2 DEF Exists
<1>4. CASE \E g \in Files : WriteData(g)
  <2>1. PICK g \in Files : WriteData(g)
    BY <1>4
  <2>2. /\ mem'[g].dnode = stamp + 1 /\ \A h \in Files : h # g => mem'[h] = mem[h]
        /\ UNCHANGED <<saved, log>>
    BY <1>0, <2>1, DataWritten DEF diskVars
  <2>3. CASE g = f
    BY <1>0, <1>1, <2>2, <2>3
  <2> QED BY <1>2, <2>2, <2>3
<1>5. CASE \E g \in Files : Unlink(g)
  <2>1. PICK g \in Files : Unlink(g)
    BY <1>5
  <2>2. g # f /\ mem' = [mem EXCEPT ![g] = NoFile] /\ UNCHANGED <<saved, log>>
    BY <2>1 DEF Unlink, diskVars
  <2> QED BY <1>0, <1>2, <2>2
<1>6. ASSUME NEW g \in Files, NEW kind \in Kinds, NEW mark \in BOOLEAN, NodeStep(g, kind, mark)
      PROVE  /\ mem'[f].dnode \notin 1..v.inode /\ saved'[f].dnode \notin 1..v.inode
             /\ \A p \in DOMAIN log' :
                  log'[p].file = f /\ log'[p].kind = "dnode" => v.inode < log'[p].val
  <2>1. /\ UNCHANGED <<mem, saved>> /\ kind \in dirty[g]
        /\ Len(log) \in Nat /\ DOMAIN log = 1..Len(log) /\ DOMAIN log' = 1..(Len(log) + 1)
        /\ \A p \in DOMAIN log : log'[p] = log[p]
        /\ log'[Len(log) + 1] = NodeBlock(g, kind, mark)
    BY <1>0, <1>6, NodeStepped
  <2>2. ASSUME NEW p \in DOMAIN log', log'[p].file = f, log'[p].kind = "dnode"
        PROVE  v.inode < log'[p].val
    <3>1. CASE p \in DOMAIN log
      BY <1>1, <2>1, <2>2, <3>1
    <3>2. CASE p \notin DOMAIN log
      <4>1. log'[p] = NodeBlock(g, kind, mark)
        <5>1. p = Len(log) + 1
          BY <2>1, <3>2
        <5> QED BY <2>1, <5>1
      <4>2. g = f /\ kind = "dnode" /\ log'[p].val = mem[f][kind]
        BY <2>2, <4>1 DEF NodeBlock
      <4>3. log'[p].val = mem[f].dnode /\ mem[f].dnode # 0
        BY <1>0, <2>1, <4>2 DEF FileInv, ValuesInv
      <4> QED BY <1>0, <1>1, <4>3
    <3> QED BY <3>1, <3>2
  <2> QED BY <1>1, <2>1, <2>2
<1>7. CASE CheckpointStep
  <2>1. saved' = mem /\ mem' = mem /\ log' = <<>>
    BY <1>7 DEF CheckpointStep, CheckpointDone
  <2> QED BY <1>1, <2>1
<1>8. CASE Quiet \/ (\E g \in Files : TryToFreeNats(g)) \/ \E t \in Threads : FsyncCheckInode(t) \/ FsyncFlush(t)
  BY <1>2, <1>8 DEF Quiet, memVars, TryToFreeNats, FsyncCheckInode, FsyncFlush, diskVars, runVars
<1> QED BY <1>3, <1>4, <1>5, <1>6, <1>7, <1>8, UpStepCases

\* Only a write of data makes a direct node dirty.
LEMMA DnodeStaysClean ==
  ASSUME UpStep, NEW f \in Files, Exists(f), "dnode" \notin dirty[f], ~WriteData(f)
  PROVE  "dnode" \notin dirty'[f]
<1>0. TypeInv /\ dirty \in [Files -> SUBSET Kinds]
  BY DEF UpStep, TypeInv
<1>1. CASE \E g \in Files : Create(g) \/ Unlink(g)
  BY <1>0, <1>1 DEF Create, Unlink, Exists
<1>2. CASE \E g \in Files : WriteData(g)
  BY <1>0, <1>2, DataWritten
<1>3. CASE Quiet \/ CheckpointStep \/ (\E g \in Files : TryToFreeNats(g)) \/ \E t \in Threads : FsyncFlush(t)
  BY <1>3 DEF Quiet, memVars, CheckpointStep, TryToFreeNats, FsyncFlush
<1>4. CASE \E t \in Threads : fsync[t].file \in Files /\ FsyncCheckInode(t)
  BY <1>0, <1>4 DEF FsyncCheckInode
<1>5. ASSUME NEW g \in Files, NEW kind \in Kinds, NEW mark \in BOOLEAN, NodeStep(g, kind, mark)
      PROVE  "dnode" \notin dirty'[f]
  <2>1. dirty'[g] = dirty[g] \ {kind} /\ \A h \in Files : h # g => dirty'[h] = dirty[h]
    BY <1>0, <1>5, NodeStepped
  <2> QED BY <2>1
<1> QED BY <1>1, <1>2, <1>3, <1>4, <1>5, UpStepCases

\* A flush request comes nearer to the medium.
LEMMA StageGrows ==
  ASSUME TypeInv, RequestInv, [Next]_vars, phase = "up", phase' = "up",
         NEW t \in Threads, fsync[t].pc = "flush"
  PROVE  CheckpointStep \/ (Stage(t) \subseteq Stage(t)' /\ durable \subseteq durable')
<1>0. TypeInv /\ RequestInv /\ FlushTypeOK /\ fsync \in [Threads -> FsyncRec]
  BY DEF TypeInv, FsyncRec
<1>r. t \in issueList \cup dispatchList \cup completed
  BY <1>0 DEF RequestInv
<1>1. ASSUME UNCHANGED <<issueList, dispatchList, flusher, log, inFlight, covered, durable>>
      PROVE  Stage(t) \subseteq Stage(t)' /\ durable \subseteq durable'
  BY <1>1 DEF Stage, Positions
<1>2. ASSUME NEW f \in Files, FileStep(f) PROVE Stage(t) \subseteq Stage(t)' /\ durable \subseteq durable'
  <2>1. CASE Create(f) \/ WriteData(f) \/ Unlink(f) \/ TryToFreeNats(f)
    <3>1. UNCHANGED diskVars /\ UNCHANGED flushVars
      BY <2>1 DEF Create, WriteData, Unlink, TryToFreeNats
    <3> QED BY <1>1, <3>1 DEF diskVars, flushVars
  <2>2. CASE \E kind \in Kinds : WriteBack(f, kind)
    <3>1. PICK kind \in Kinds : WriteBack(f, kind)
      BY <2>2
    <3>2. NodeStep(f, kind, FALSE)
      BY <3>1 DEF WriteBack, NodeStep
    <3>3. \A mark \in BOOLEAN : NodeStep(f, kind, mark) => Positions(log) \ inFlight = (Positions(log) \ inFlight)'
      BY <1>0, NodeStepped
    <3>4. UNCHANGED <<issueList, dispatchList, flusher, covered, durable>>
      BY <3>2 DEF NodeStep, flushVars
    <3> QED BY <3>2, <3>3, <3>4 DEF Stage
  <2> QED BY <1>2, <2>1, <2>2 DEF FileStep
<1>3. ASSUME NEW u \in Threads, FsyncStep(u)
      PROVE  CheckpointStep \/ (Stage(t) \subseteq Stage(t)' /\ durable \subseteq durable')
  <2>1. CASE \E f \in Files : FsyncSkip(u, f) \/ FsyncStart(u, f)
    BY <1>1, <2>1 DEF FsyncSkip, FsyncStart, diskVars, flushVars
  <2>2. CASE FsyncCheckpoint(u)
    BY <2>2 DEF FsyncCheckpoint, CheckpointStep
  <2>3. CASE \E kind \in Kinds : FsyncWriteNode(u, kind)
    <3>1. PICK kind \in Kinds : FsyncWriteNode(u, kind)
      BY <2>3
    <3>2. /\ UNCHANGED <<issueList, dispatchList, flusher, covered, durable>>
          /\ fsync[u].file \in Files
      BY <1>0, <3>1 DEF FsyncWriteNode, flushVars, TypeInv
    <3>3. Positions(log) \ inFlight = (Positions(log) \ inFlight)'
      <4>1. CASE kind \in dirty[fsync[u].file]
        <5>1. NodeStep(fsync[u].file, kind, TRUE)
          BY <3>1, <4>1 DEF FsyncWriteNode, NodeStep
        <5>2. \A mark \in BOOLEAN : NodeStep(fsync[u].file, kind, mark) =>
                 Positions(log) \ inFlight = (Positions(log) \ inFlight)'
          <6> \A f \in Files : \A mark \in BOOLEAN : NodeStep(f, kind, mark) =>
                 Positions(log) \ inFlight = (Positions(log) \ inFlight)'
            BY <1>0, NodeStepped
          <6> QED BY <3>2
        <5> QED BY <5>1, <5>2
      <4>2. CASE kind \notin dirty[fsync[u].file]
        BY <3>1, <4>2 DEF FsyncWriteNode, Positions
      <4> QED BY <4>1, <4>2
    <3> QED BY <3>2, <3>3 DEF Stage
  <2>4. CASE FsyncCheckInode(u)
    BY <1>1, <2>4 DEF FsyncCheckInode, diskVars, flushVars
  <2>5. CASE FsyncFlush(u)
    <3>1. /\ issueList' = issueList \cup {u} /\ fsync[u].pc = "wait"
          /\ UNCHANGED <<dispatchList, flusher, log, inFlight, covered, durable>>
      BY <2>5 DEF FsyncFlush, IssueFlush, diskVars
    <3>2. u # t
      BY <3>1
    <3> QED BY <3>1, <3>2 DEF Stage, Positions
  <2>6. CASE FsyncWake(u)
    <3>1. /\ UNCHANGED <<issueList, dispatchList, log, inFlight, covered, durable>>
          /\ (flusher = "flush") = (flusher' = "flush")
      BY <2>6 DEF FsyncWake, WakeFlusher, DispatchListNull, diskVars
    <3> QED BY <3>1 DEF Stage, Positions
  <2>7. CASE FsyncDone(u)
    BY <1>1, <2>7 DEF FsyncDone, FlushReturned, diskVars
  <2> QED BY <1>3, <2>1, <2>2, <2>3, <2>4, <2>5, <2>6, <2>7 DEF FsyncStep
<1>4. ASSUME FlusherTake PROVE Stage(t) \subseteq Stage(t)' /\ durable \subseteq durable'
  <2>1. /\ flusher = "awake" /\ dispatchList' = issueList /\ issueList' = {} /\ flusher' = "flush"
        /\ covered' = Positions(log) \ inFlight /\ durable' = durable
    BY <1>4 DEF FlusherTake, TakeRequests
  <2>2. dispatchList = {}
    BY <1>0, <2>1 DEF RequestInv
  <2> QED BY <2>1, <2>2 DEF Stage
<1>5. ASSUME FlusherDone PROVE Stage(t) \subseteq Stage(t)' /\ durable \subseteq durable'
  <2>1. /\ UNCHANGED <<issueList, dispatchList, log, inFlight>> /\ durable' = durable \cup covered
        /\ flusher' = "complete"
    BY <1>5 DEF FlusherDone, FlushDone
  <2> QED BY <2>1 DEF Stage, Positions
<1>6. ASSUME FlusherStep PROVE Stage(t) \subseteq Stage(t)' /\ durable \subseteq durable'
  <2>1. /\ UNCHANGED <<issueList, log, inFlight, covered, durable>>
        /\ flusher' # "flush"
        /\ flusher # "flush"
    BY <1>6 DEF FlusherStep, CompleteRequest, FlushEnd, WaitEvent, diskVars
  <2> QED BY <2>1 DEF Stage, Positions
<1>7. ASSUME NEW p \in inFlight, WriteEnd(p) PROVE Stage(t) \subseteq Stage(t)' /\ durable \subseteq durable'
  <2>1. /\ UNCHANGED <<issueList, dispatchList, flusher, log, covered, durable>>
        /\ inFlight' = inFlight \ {p}
    BY <1>7 DEF WriteEnd, flushVars
  <2> QED BY <2>1 DEF Stage, Positions
<1>8. CASE Checkpoint
  BY <1>8 DEF Checkpoint, CheckpointStep, runVars
<1>9. CASE UNCHANGED vars
  BY <1>1, <1>9 DEF vars, diskVars, flushVars
<1>10. CASE PowerFail \/ Mount
  BY <1>10 DEF PowerFail, Mount
<1>11. Next \/ UNCHANGED vars
  OBVIOUS
<1> HIDE DEF Stage
<1> QED BY <1>2, <1>3, <1>4, <1>5, <1>6, <1>7, <1>8, <1>9, <1>10, <1>11 DEF Next

\* What the steps of fsync() do to its thread.
LEMMA ThreadMoves ==
  ASSUME TypeInv, NEW t \in Threads
  PROVE  /\ \A f \in Files : FsyncStart(t, f) =>
              /\ fsync'[t].file = f /\ fsync'[t].start = Current(f)
              /\ \/ fsync'[t].pc = "checkpoint"
                 \/ fsync'[t].pc = "nodes" /\ parentSaved /\ fsync'[t].todo = Kinds
              /\ \A u \in Threads : u # t => fsync'[u] = fsync[u]
         /\ \A kind \in Kinds : FsyncWriteNode(t, kind) =>
              /\ fsync[t].pc = "nodes" /\ fsync'[t].pc = "nodes"
              /\ fsync'[t].file = fsync[t].file /\ fsync'[t].start = fsync[t].start
              /\ fsync'[t].todo = fsync[t].todo \ {kind}
         /\ FsyncCheckInode(t) =>
              /\ fsync[t].pc = "nodes" /\ fsync[t].todo = {}
              /\ fsync'[t].file = fsync[t].file /\ fsync'[t].start = fsync[t].start
              /\ \/ fsync'[t].pc = "nodes"
                 \/ fsync'[t].pc = "wait" /\ ~NeedInodeBlockUpdate(fsync[t].file)
         /\ FsyncFlush(t) =>
              /\ fsync[t].pc = "wait" /\ fsync'[t].pc = "flush"
              /\ fsync'[t].file = fsync[t].file /\ fsync'[t].start = fsync[t].start
<1>0. fsync \in [Threads -> FsyncRec] /\ fsync[t] \in FsyncRec
  BY DEF TypeInv, FsyncRec
<1>1. ASSUME NEW f \in Files, FsyncStart(t, f)
      PROVE  /\ fsync'[t].file = f /\ fsync'[t].start = Current(f)
             /\ \/ fsync'[t].pc = "checkpoint"
                \/ fsync'[t].pc = "nodes" /\ parentSaved /\ fsync'[t].todo = Kinds
             /\ \A u \in Threads : u # t => fsync'[u] = fsync[u]
  BY <1>0, <1>1 DEF FsyncStart, NeedDoCheckpoint
<1>2. ASSUME NEW kind \in Kinds, FsyncWriteNode(t, kind)
      PROVE  /\ fsync[t].pc = "nodes" /\ fsync'[t].pc = "nodes"
             /\ fsync'[t].file = fsync[t].file /\ fsync'[t].start = fsync[t].start
             /\ fsync'[t].todo = fsync[t].todo \ {kind}
  <2>1. fsync[t].pc = "nodes" /\ fsync' = [fsync EXCEPT ![t].todo = @ \ {kind}]
    BY <1>2 DEF FsyncWriteNode
  <2> QED BY <1>0, <2>1 DEF FsyncRec
<1>3. ASSUME FsyncCheckInode(t)
      PROVE  /\ fsync[t].pc = "nodes" /\ fsync[t].todo = {}
             /\ fsync'[t].file = fsync[t].file /\ fsync'[t].start = fsync[t].start
             /\ \/ fsync'[t].pc = "nodes"
                \/ fsync'[t].pc = "wait" /\ ~NeedInodeBlockUpdate(fsync[t].file)
  <2>1. /\ fsync[t].pc = "nodes" /\ fsync[t].todo = {}
        /\ \/ fsync' = [fsync EXCEPT ![t].todo = Kinds]
           \/ fsync' = [fsync EXCEPT ![t].pc = "wait"] /\ ~NeedInodeBlockUpdate(fsync[t].file)
    BY <1>3 DEF FsyncCheckInode, Goto
  <2> QED BY <1>0, <2>1 DEF FsyncRec
<1>4. ASSUME FsyncFlush(t)
      PROVE  /\ fsync[t].pc = "wait" /\ fsync'[t].pc = "flush"
             /\ fsync'[t].file = fsync[t].file /\ fsync'[t].start = fsync[t].start
  <2>1. fsync[t].pc = "wait" /\ fsync' = [fsync EXCEPT ![t].pc = "flush"]
    BY <1>4 DEF FsyncFlush, Goto
  <2> QED BY <1>0, <2>1 DEF FsyncRec
<1> QED BY <1>1, <1>2, <1>3, <1>4

\* Each file has one fsync() at a time.
Alone ==
  \A t, u \in Threads : fsync[t].pc # "idle" /\ fsync[u].file = fsync[t].file => u = t

\* A thread goes on with its file, ends, or begins with a file that no other is at.
LEMMA ThreadFiles ==
  ASSUME TypeInv, ~Overlaps, [Next]_vars, phase = "up", phase' = "up", NEW t \in Threads
  PROVE  \/ fsync'[t].file \in {fsync[t].file, 0}
         \/ /\ fsync'[t].file \in Files
            /\ \A u \in Threads : u # t => fsync'[u] = fsync[u] /\ fsync[u].file # fsync'[t].file
<1>1. CASE \E f \in Files : FsyncStart(t, f)
  <2>1. PICK f \in Files : FsyncStart(t, f)
    BY <1>1
  <2>2. \A u \in Threads : u # t => fsync[u].file # f
    BY <2>1 DEF FsyncStart, FsyncBegins, Overlap, Fsyncing
  <2> QED BY <2>1, <2>2, ThreadMoves
<1>2. CASE fsync'[t] = Idle
  BY <1>2 DEF Idle
<1> QED BY <1>1, <1>2, ThreadCases, ThreadMoves

LEMMA AloneStep ==
  ASSUME TypeInv, TypeInv', Alone, ~Overlaps, [Next]_vars, phase = "up", phase' = "up"
  PROVE  Alone'
<1> SUFFICES ASSUME NEW t \in Threads, NEW u \in Threads,
                    fsync'[t].pc # "idle", fsync'[u].file = fsync'[t].file, u # t
             PROVE  FALSE
  BY DEF Alone
<1>0. /\ \A w \in Threads : fsync[w].pc = "idle" <=> fsync[w].file = 0
      /\ fsync'[t].file # 0
      /\ \A w, x \in Threads : fsync[w].pc # "idle" /\ fsync[x].file = fsync[w].file => x = w
  BY DEF TypeInv, Alone
<1>1. /\ fsync'[t].file = fsync[t].file \/ (fsync'[u] = fsync[u] /\ fsync[u].file # fsync'[t].file)
      /\ fsync'[u].file = fsync[u].file \/ (fsync'[t] = fsync[t] /\ fsync[t].file # fsync'[u].file)
  BY <1>0, ThreadFiles
<1> QED BY <1>0, <1>1

\* No data is written between the look at the direct node and the clearing of the flag.
LEMMA LateStep ==
  ASSUME UpStep, NEW f \in Files, LateWrite(f)'
  PROVE  "dnode" \notin dirty'[f]
<1>0. TypeInv /\ ~LateWrites
  BY DEF UpStep, NoRaces
<1>1. CASE LateWrite(f)
  <2>1. PICK t \in Threads : fsync[t].file = f /\ fsync[t].pc # "idle"
    BY <1>1 DEF LateWrite, Fsyncing
  <2>2. Exists(f) /\ "dnode" \notin dirty[f]
    BY <1>1, <2>1 DEF UpStep, UpInv, FsyncInv
  <2>3. ~WriteData(f)
    BY <1>0, <1>1 DEF WriteData
  <2> QED BY <2>2, <2>3, DnodeStaysClean
<1>2. CASE ~LateWrite(f)
  <2>1. PICK t \in Threads : /\ fsync'[t].file = f
                             /\ \/ fsync'[t].pc = "wait"
                                \/ fsync'[t].pc = "nodes" /\ "dnode" \notin fsync'[t].todo
    BY DEF LateWrite, Fsyncing
  <2>2. fsync'[t] # fsync[t]
    BY <1>2, <2>1 DEF LateWrite, Fsyncing
  <2>3. fsync'[t] # Idle
    BY <2>1 DEF Idle
  <2>4. ~ \E g \in Files : FsyncStart(t, g)
    BY <1>0, <2>1, ThreadMoves DEF Kinds
  <2>5. ~FsyncCheckInode(t)
    BY <1>0, <1>2, <2>1, ThreadMoves DEF LateWrite, Fsyncing
  <2>6. ~FsyncFlush(t)
    BY <1>0, <2>1, ThreadMoves
  <2>7. PICK kind \in Kinds : FsyncWriteNode(t, kind)
    BY <2>2, <2>3, <2>4, <2>5, <2>6, ThreadSteps
  <2>8. fsync[t].file = f /\ fsync[t].pc = "nodes" /\ "dnode" \notin fsync[t].todo \ {kind}
    BY <1>0, <2>1, <2>7, ThreadMoves
  <2>9. kind = "dnode"
    BY <1>2, <2>8 DEF LateWrite, Fsyncing
  <2>10. CASE kind \in dirty[f]
    <3>1. dirty' = [dirty EXCEPT ![f] = @ \ {kind}] /\ dirty \in [Files -> SUBSET Kinds]
      BY <1>0, <2>7, <2>8, <2>10 DEF FsyncWriteNode, WriteNode, TypeInv
    <3> QED BY <2>9, <3>1
  <2>11. CASE kind \notin dirty[f]
    BY <2>7, <2>8, <2>9, <2>11 DEF FsyncWriteNode
  <2> QED BY <2>10, <2>11
<1> QED BY <1>1, <1>2

\* The part of FsyncInv on the data that fsync() is to make durable.
StartOK(f, v) ==
  /\ Exists(f) /\ v.dnode <= mem[f].dnode /\ 0 < v.inode /\ v.inode <= stamp
  /\ NoOlderData(mem[f], saved[f], log, f, v)

LEMMA StartStays ==
  ASSUME UpStep, NEW f \in Files, NEW v \in Values, StartOK(f, v), ~Unlink(f)
  PROVE  StartOK(f, v)'
<1>0. /\ Exists(f) /\ v.dnode <= mem[f].dnode /\ 0 < v.inode /\ v.inode <= stamp
      /\ NoOlderData(mem[f], saved[f], log, f, v)
      /\ v.dnode \in Nat /\ v.inode \in Nat
  BY DEF StartOK, Values
<1>1. Exists(f)' /\ mem[f].dnode <= mem'[f].dnode /\ stamp <= stamp'
  BY <1>0, FileGoesOn
<1>2. /\ mem[f].dnode \in Nat /\ mem'[f].dnode \in Nat
      /\ stamp \in Nat /\ stamp' \in Nat
  <2>1. mem[f] \in FileRec /\ mem'[f] \in FileRec /\ stamp \in Nat /\ stamp' \in Nat
    BY DEF UpStep, TypeInv
  <2> QED BY <2>1 DEF FileRec
<1>3. NoOlderData(mem[f], saved[f], log, f, v)'
  BY <1>0, NoOlderStays
<1>4. v.dnode <= mem'[f].dnode /\ v.inode <= stamp'
  BY <1>0, <1>1, <1>2
<1> QED BY <1>0, <1>1, <1>3, <1>4 DEF StartOK

\* What is recoverable from the log stays so while the file exists.
LEMMA RecoverableGoesOn ==
  ASSUME UpStep, NEW f \in Files, Exists(f), NEW v \in Nat, NEW w \in Nat, w <= v, v <= mem[f].dnode,
         NEW S, NEW S2, CheckpointStep \/ S \subseteq S2,
         Recoverable(saved[f], log, f, v, S)
  PROVE  Recoverable(saved'[f], log', f, w, S2)
<1>0. saved[f] \in FileRec /\ mem[f].dnode \in Nat
  <2>1. saved[f] \in FileRec /\ mem[f] \in FileRec
    BY DEF UpStep, TypeInv
  <2> QED BY <2>1 DEF FileRec
<1>1. CASE CheckpointStep
  <2>1. saved' = mem
    BY <1>1 DEF CheckpointStep, CheckpointDone
  <2>2. saved'[f].linked /\ w <= saved'[f].dnode
    BY <1>0, <2>1 DEF Exists
  <2> QED BY <2>2, RecoverableSaved
<1>2. CASE ~CheckpointStep
  <2>1. Continues(log, log') /\ saved' = saved /\ S \subseteq S2
    BY <1>2, FileGoesOn
  <2> QED BY <1>0, <2>1, RecoverableStays
<1> QED BY <1>1, <1>2

\* fsync() looks at the flags of the inode when all the blocks of the file are in the log.
LEMMA LogHasFile ==
  ASSUME TypeInv, NatInv, WrittenInv, NEW f \in Files, Exists(f), "dnode" \notin dirty[f],
         ~NeedInodeBlockUpdate(f)
  PROVE  Recoverable(saved[f], log, f, mem[f].dnode, Positions(log))
<1>0. /\ saved[f] \in FileRec /\ mem[f].dnode \in Nat /\ log \in Logs
  <2>1. saved[f] \in FileRec /\ mem[f] \in FileRec /\ log \in Logs
    BY DEF TypeInv, Logs
  <2> QED BY <2>1 DEF FileRec
<1>1. nat[f].cached /\ nat[f].last /\ (nat[f].ckpt \/ nat[f].fsynced)
  BY DEF NeedInodeBlockUpdate
<1>p. \A p : p \in PositionsOf(f) <=> p \in DOMAIN log /\ log[p].file = f
  BY DEF PositionsOf, Positions
<1>2. \A p \in DOMAIN log : log[p].file = f =>
            \E q \in DOMAIN log : log[q].file = f /\ p <= q /\ log[q].fsync
  <2>1. \A p \in PositionsOf(f) : \E q \in PositionsOf(f) : p <= q /\ log[q].fsync
    BY <1>1 DEF NatInv, FlagsInv
  <2> QED BY <1>p, <2>1
<1>3. saved[f].linked \/ \E r \in DOMAIN log : log[r].file = f /\ log[r].dent
  <2>1. saved[f].linked \/ \E r \in PositionsOf(f) : log[r].dent
    BY <1>1 DEF NatInv, FlagsInv
  <2> QED BY <1>p, <2>1
<1>4. \/ mem[f].dnode = saved[f].dnode
      \/ \E p \in DOMAIN log : log[p].file = f /\ log[p].kind = "dnode" /\ log[p].val = mem[f].dnode
  <2>1. \/ mem[f].dnode = saved[f].dnode
        \/ \E p \in PositionsOf(f) : log[p].kind = "dnode" /\ log[p].val = mem[f].dnode
    BY DEF WrittenInv
  <2> QED BY <1>p, <2>1
<1> QED BY <1>0, <1>2, <1>3, <1>4, RecoverableWritten DEF Positions

\* fsync() begins with the data there is.
LEMMA CurrentOK ==
  ASSUME TypeInv, FileInv, LogInv, NEW f \in Files, Exists(f)
  PROVE  Current(f) \in Values /\ StartOK(f, Current(f))
<1>0. mem[f] \in FileRec /\ saved[f] \in FileRec /\ stamp \in Nat
  BY DEF TypeInv
<1>1. /\ mem[f].inode \in Nat /\ mem[f].dnode \in Nat /\ saved[f].dnode \in Nat
      /\ mem[f].inode # 0 /\ mem[f].inode <= stamp /\ saved[f].dnode <= mem[f].dnode
  BY <1>0 DEF FileInv, ValuesInv, FileRec, WellFormed, Exists
<1>2. Current(f) \in Values /\ Current(f).inode = mem[f].inode /\ Current(f).dnode = mem[f].dnode
  BY <1>1 DEF Current, Values
<1>3. ASSUME mem[f].dnode = 0, NEW p \in DOMAIN log, log[p].file = f, log[p].kind = "dnode"
      PROVE  FALSE
  <2>1. log[p].val <= mem[f][log[p].kind] /\ log[p].val \in 1..stamp
    BY <1>3 DEF LogInv, Positions, BlockOK
  <2> QED BY <1>3, <2>1
<1>4. NoOlderData(mem[f], saved[f], log, f, Current(f))
  BY <1>1, <1>2, <1>3 DEF NoOlderData
<1> QED BY <1>0, <1>1, <1>2, <1>4 DEF StartOK

\* A thread that goes on in the same place of fsync().
LEMMA FsyncGoesOn ==
  ASSUME UpStep, NEW t \in Threads, fsync[t].pc # "idle", fsync'[t] = fsync[t]
  PROVE  LET f == fsync[t].file
         IN  /\ fsync[t].pc = "wait" => Recoverable(saved'[f], log', f, mem'[f].dnode, Positions(log)')
             /\ fsync[t].pc = "flush" =>
                  Recoverable(saved'[f], log', f,
                              IF append'[f] THEN fsync[t].start.dnode ELSE mem'[f].dnode, Stage(t)')
<1>f. PICK f, v : f = fsync[t].file /\ v = fsync[t].start
  OBVIOUS
<1>0. /\ TypeInv /\ f \in Files /\ v \in Values /\ v.dnode \in Nat
      /\ mem[f].dnode \in Nat /\ mem'[f].dnode \in Nat
      /\ append \in [Files -> BOOLEAN]
  <2>1. /\ TypeInv /\ f \in Files /\ v \in Values /\ append \in [Files -> BOOLEAN]
        /\ mem \in [Files -> FileRec] /\ mem' \in [Files -> FileRec]
    BY <1>f DEF UpStep, TypeInv
  <2>2. mem[f] \in FileRec /\ mem'[f] \in FileRec
    BY <2>1
  <2> QED BY <2>1, <2>2 DEF FileRec, Values
<1>1. /\ Exists(f) /\ v.dnode <= mem[f].dnode
      /\ \A u \in Threads : fsync[u].file = f => u = t
      /\ fsync[t].pc = "wait" => Recoverable(saved[f], log, f, mem[f].dnode, Positions(log))
      /\ fsync[t].pc = "flush" =>
           Recoverable(saved[f], log, f, IF append[f] THEN v.dnode ELSE mem[f].dnode, Stage(t))
  BY <1>f DEF UpStep, UpInv, FsyncInv
<1>2. ~Unlink(f)
  BY <1>f DEF Unlink, Fsyncing
<1>3. WriteData(f) \/ mem'[f].dnode = mem[f].dnode
  BY <1>0, <1>1, <1>2, FileGoesOn
<1>4. ASSUME fsync[t].pc = "wait"
      PROVE  Recoverable(saved'[f], log', f, mem'[f].dnode, Positions(log'))
  <2>1. ~WriteData(f)
    BY <1>f, <1>4 DEF WriteData, LateWrite, Fsyncing, UpStep, NoRaces
  <2>2. mem'[f].dnode <= mem[f].dnode
    BY <1>0, <1>3, <2>1
  <2>3. CheckpointStep \/ Positions(log) \subseteq Positions(log')
    BY <1>0, <1>1, FileGoesOn DEF Continues, Positions
  <2>4. mem[f].dnode <= mem[f].dnode
    BY <1>0
  <2> QED BY <1>0, <1>1, <1>4, <2>2, <2>3, <2>4, RecoverableGoesOn
<1>5. ASSUME fsync[t].pc = "flush"
      PROVE  Recoverable(saved'[f], log', f, IF append'[f] THEN v.dnode ELSE mem'[f].dnode, Stage(t)')
  <2>1. PICK w, w2 : /\ w = IF append[f] THEN v.dnode ELSE mem[f].dnode
                     /\ w2 = IF append'[f] THEN v.dnode ELSE mem'[f].dnode
    OBVIOUS
  <2>2. w \in Nat /\ w2 \in Nat /\ w <= mem[f].dnode
    BY <1>0, <1>1, <2>1
  <2>3. w2 <= w
    <3>1. CASE WriteData(f)
      <4>1. append'[f]
        BY <1>0, <3>1 DEF WriteData
      <4> QED BY <1>0, <1>1, <2>1, <4>1
    <3>2. CASE ~WriteData(f)
      <4>1. mem'[f].dnode = mem[f].dnode
        BY <1>3, <3>2
      <4>2. append'[f] = append[f]
        <5>1. CASE \E g \in Files : Create(g) \/ TryToFreeNats(g)
          BY <5>1 DEF Create, TryToFreeNats
        <5>2. CASE \E g \in Files : WriteData(g)
          BY <1>0, <3>2, <5>2 DEF WriteData
        <5>3. CASE \E g \in Files : Unlink(g)
          BY <1>0, <1>2, <5>3 DEF Unlink
        <5>4. CASE \E g \in Files, kind \in Kinds, mark \in BOOLEAN : NodeStep(g, kind, mark)
          BY <5>4 DEF NodeStep
        <5>5. CASE Quiet \/ CheckpointStep \/ \E u \in Threads : FsyncCheckInode(u)
          BY <5>5 DEF Quiet, memVars, CheckpointStep, FsyncCheckInode
        <5>6. CASE \E u \in Threads : fsync[u].file \in Files /\ FsyncFlush(u)
          <6>1. PICK u \in Threads : FsyncFlush(u) /\ fsync[u].pc = "wait"
            BY <5>6 DEF FsyncFlush
          <6>2. fsync[u].file # f
            BY <1>1, <1>5, <6>1
          <6> QED BY <1>0, <6>1, <6>2 DEF FsyncFlush
        <5> QED BY <5>1, <5>2, <5>3, <5>4, <5>5, <5>6, UpStepCases
      <4> QED BY <2>1, <2>2, <4>1, <4>2
    <3> QED BY <3>1, <3>2
  <2>4. CheckpointStep \/ Stage(t) \subseteq Stage(t)'
    <3>1. RequestInv /\ [Next]_vars /\ phase = "up" /\ phase' = "up"
      BY DEF UpStep, UpInv
    <3> QED BY <1>0, <1>5, <3>1, StageGrows
  <2>5. Recoverable(saved[f], log, f, w, Stage(t))
    BY <1>1, <1>5, <2>1
  <2>6. Recoverable(saved'[f], log', f, w2, Stage(t)')
    BY <1>0, <1>1, <2>2, <2>3, <2>4, <2>5, RecoverableGoesOn
  <2> QED BY <2>1, <2>6
<1> QED BY <1>f, <1>4, <1>5

LEMMA FsyncInvStep ==
  ASSUME UpStep
  PROVE  FsyncInv'
<1> SUFFICES ASSUME NEW t \in Threads, fsync'[t].pc # "idle", NEW f, NEW v,
                    f = fsync'[t].file, v = fsync'[t].start
             PROVE  /\ StartOK(f, v)'
                    /\ fsync'[t].pc = "nodes" => parentSaved'
                    /\ fsync'[t].pc = "wait" => Recoverable(saved'[f], log', f, mem'[f].dnode, Positions(log)')
                    /\ fsync'[t].pc = "flush" =>
                         Recoverable(saved'[f], log', f, IF append'[f] THEN v.dnode ELSE mem'[f].dnode, Stage(t)')
  <2>1. ASSUME NEW t \in Threads, fsync'[t].pc # "idle"
        PROVE  fsync'[t].file \in Files
    BY <2>1 DEF UpStep, TypeInv
  <2>2. \A t \in Threads : fsync'[t].pc # "idle" =>
          /\ \A u \in Threads : fsync'[u].file = fsync'[t].file => u = t
          /\ LateWrite(fsync[t].file)' => "dnode" \notin dirty'[fsync'[t].file]
    <3> SUFFICES ASSUME NEW t \in Threads, fsync'[t].pc # "idle"
                 PROVE  /\ \A u \in Threads : fsync'[u].file = fsync'[t].file => u = t
                        /\ LateWrite(fsync[t].file)' => "dnode" \notin dirty'[fsync'[t].file]
      OBVIOUS
    <3>1. PICK g \in Files : g = fsync'[t].file
      BY <2>1
    <3>2. LateWrite(g)' => "dnode" \notin dirty'[g]
      BY LateStep
    <3>3. LateWrite(fsync[t].file)' <=> LateWrite(g)'
      BY <3>1 DEF LateWrite, Fsyncing
    <3>4. TypeInv /\ TypeInv' /\ ~Overlaps /\ [Next]_vars /\ phase = "up" /\ phase' = "up"
      BY DEF UpStep, NoRaces
    <3>5. Alone
      BY DEF UpStep, UpInv, FsyncInv, Alone
    <3>6. Alone'
      BY <3>4, <3>5, AloneStep
    <3> QED BY <3>1, <3>2, <3>3, <3>6 DEF Alone
  <2> QED BY <2>2 DEF FsyncInv, StartOK
<1>0. /\ TypeInv /\ FileInv /\ LogInv /\ NatInv /\ WrittenInv /\ f \in Files /\ v \in Values
      /\ parentSaved \in BOOLEAN
  BY DEF UpStep, UpInv, TypeInv
<1>p. parentSaved => parentSaved'
  <2>1. CASE CheckpointStep
    BY <2>1 DEF CheckpointStep, CheckpointDone
  <2>2. CASE \E g \in Files : Create(g) \/ WriteData(g) \/ Unlink(g) \/ TryToFreeNats(g)
    BY <2>2 DEF Create, WriteData, Unlink, TryToFreeNats, diskVars
  <2>3. CASE Quiet \/ \E u \in Threads : FsyncCheckInode(u) \/ FsyncFlush(u)
    BY <2>3 DEF Quiet, FsyncCheckInode, FsyncFlush, diskVars
  <2>4. CASE \E g \in Files, kind \in Kinds, mark \in BOOLEAN : NodeStep(g, kind, mark)
    BY <2>4 DEF NodeStep
  <2> QED BY <2>1, <2>2, <2>3, <2>4, UpStepCases
<1>1. ASSUME fsync[t].pc # "idle", fsync[t].file = f, fsync[t].start = v
      PROVE  StartOK(f, v) /\ StartOK(f, v)'
  <2>1. StartOK(f, v)
    BY <1>1 DEF UpStep, UpInv, FsyncInv, StartOK
  <2>2. ~Unlink(f)
    BY <1>1 DEF Unlink, Fsyncing
  <2>3. \A g \in Files : \A w \in Values : StartOK(g, w) /\ ~Unlink(g) => StartOK(g, w)'
    BY StartStays
  <2> QED BY <1>0, <2>1, <2>2, <2>3
<1>2. CASE fsync'[t] = fsync[t]
  <2>1. fsync[t].pc # "idle" /\ fsync[t].file = f /\ fsync[t].start = v
    BY <1>2
  <2>2. fsync[t].pc = "nodes" => parentSaved
    BY <2>1 DEF UpStep, UpInv, FsyncInv
  <2>3. /\ fsync[t].pc = "wait" => Recoverable(saved'[f], log', f, mem'[f].dnode, Positions(log)')
        /\ fsync[t].pc = "flush" =>
             Recoverable(saved'[f], log', f, IF append'[f] THEN v.dnode ELSE mem'[f].dnode, Stage(t)')
    BY <1>2, <2>1, FsyncGoesOn
  <2> QED BY <1>1, <1>2, <1>p, <2>1, <2>2, <2>3
<1>3. CASE fsync'[t] = Idle
  BY <1>3 DEF Idle
<1>4. CASE \E g \in Files : FsyncStart(t, g)
  <2>1. FsyncStart(t, f) /\ v = Current(f) /\ fsync'[t].pc \in {"checkpoint", "nodes"}
        /\ (fsync'[t].pc = "nodes" => parentSaved)
    BY <1>0, <1>4, ThreadMoves
  <2>2. Exists(f) /\ UNCHANGED <<mem, saved, log, stamp>>
    BY <2>1 DEF FsyncStart, FsyncBegins, memVars, diskVars, runVars
  <2>3. StartOK(f, v)
    BY <1>0, <2>1, <2>2, CurrentOK
  <2>4. StartOK(f, v)'
    BY <2>2, <2>3 DEF StartOK, Exists, NoOlderData
  <2> QED BY <1>p, <2>1, <2>4
<1>5. CASE \E kind \in Kinds : FsyncWriteNode(t, kind)
  <2>1. /\ fsync[t].pc = "nodes" /\ fsync'[t].pc = "nodes"
        /\ fsync[t].file = f /\ fsync[t].start = v
    BY <1>0, <1>5, ThreadMoves
  <2>2. parentSaved
    BY <2>1 DEF UpStep, UpInv, FsyncInv
  <2> QED BY <1>1, <1>p, <2>1, <2>2
<1>6. CASE FsyncCheckInode(t)
  <2>1. /\ fsync[t].pc = "nodes" /\ fsync[t].todo = {} /\ fsync[t].file = f /\ fsync[t].start = v
        /\ \/ fsync'[t].pc = "nodes"
           \/ fsync'[t].pc = "wait" /\ ~NeedInodeBlockUpdate(f)
    BY <1>0, <1>6, ThreadMoves
  <2>2. parentSaved
    BY <2>1 DEF UpStep, UpInv, FsyncInv
  <2>3. ASSUME fsync'[t].pc = "wait"
        PROVE  Recoverable(saved'[f], log', f, mem'[f].dnode, Positions(log)')
    <3>1. LateWrite(f)
      BY <2>1 DEF LateWrite, Fsyncing
    <3>2. Exists(f) /\ "dnode" \notin dirty[f]
      BY <2>1, <3>1 DEF UpStep, UpInv, FsyncInv
    <3>3. Recoverable(saved[f], log, f, mem[f].dnode, Positions(log))
      BY <1>0, <2>1, <2>3, <3>2, LogHasFile
    <3>4. UNCHANGED <<saved, log, mem>>
      BY <1>6 DEF FsyncCheckInode, diskVars
    <3> QED BY <3>3, <3>4 DEF Positions
  <2> QED BY <1>1, <1>p, <2>1, <2>2, <2>3
<1>7. CASE FsyncFlush(t)
  <2>1. /\ fsync[t].pc = "wait" /\ fsync'[t].pc = "flush" /\ fsync[t].file = f /\ fsync[t].start = v
    BY <1>0, <1>7, ThreadMoves
  <2>2. /\ ~append'[f] /\ UNCHANGED <<mem, saved, log, inFlight>> /\ t \in issueList'
        /\ NodesWritten(f)
    BY <1>0, <1>7, <2>1 DEF FsyncFlush, IssueFlush, diskVars, TypeInv
  <2>3. Recoverable(saved[f], log, f, mem[f].dnode, Positions(log))
    BY <2>1 DEF UpStep, UpInv, FsyncInv
  <2>4. Own(log, f, Positions(log)) = Own(log, f, Positions(log) \ inFlight)
    BY <2>2 DEF Own, NodesWritten, PositionsOf, Positions
  <2>5. Recoverable(saved[f], log, f, mem[f].dnode, Positions(log) \ inFlight)
    BY <2>3, <2>4, RecoverableOwn
  <2>6. Stage(t)' = Positions(log) \ inFlight
    BY <2>2 DEF Stage, Positions
  <2> QED BY <1>1, <2>1, <2>2, <2>5, <2>6
<1> QED BY <1>2, <1>3, <1>4, <1>5, <1>6, <1>7, ThreadSteps

-----------------------------------------------------------------------------
(* What is written, and what fsync() promised.                             *)

\* Only a checkpoint gives the log a new start.
LEMMA DurableGrows ==
  ASSUME [Next]_vars, phase = "up", phase' = "up"
  PROVE  CheckpointStep \/ durable \subseteq durable'
<1>1. ASSUME NEW f \in Files, FileStep(f) PROVE durable' = durable
  BY <1>1 DEF FileStep, Create, WriteData, Unlink, TryToFreeNats, WriteBack, diskVars
<1>2. ASSUME NEW t \in Threads, FsyncStep(t) PROVE CheckpointStep \/ durable' = durable
  <2>1. CASE FsyncCheckpoint(t)
    BY <2>1 DEF FsyncCheckpoint, CheckpointStep
  <2> QED BY <1>2, <2>1 DEF FsyncStep, FsyncSkip, FsyncStart, FsyncWriteNode, FsyncCheckInode,
                             FsyncFlush, FsyncWake, FsyncDone, diskVars
<1>3. CASE FlusherTake \/ FlusherDone \/ FlusherStep \/ (\E p \in inFlight : WriteEnd(p))
  BY <1>3 DEF FlusherTake, FlusherDone, FlusherStep, WriteEnd, diskVars
<1>4. CASE Checkpoint
  BY <1>4 DEF Checkpoint, CheckpointStep, runVars
<1>5. CASE PowerFail \/ Mount
  BY <1>5 DEF PowerFail, Mount
<1>6. CASE UNCHANGED vars
  BY <1>6 DEF vars, diskVars
<1>7. Next \/ UNCHANGED vars
  OBVIOUS
<1> QED BY <1>1, <1>2, <1>3, <1>4, <1>5, <1>6, <1>7 DEF Next

\* How fsync() of a file ends, and with it the promise changes.
LEMMA FsyncEnds ==
  ASSUME TypeInv, [Next]_vars, phase = "up", phase' = "up"
  PROVE  /\ \A t \in Threads : fsync[t].pc # "idle" /\ fsync'[t].file # fsync[t].file =>
               CheckpointStep \/ FsyncDone(t)
         /\ \/ promise' = promise
            \/ \E f \in Files : Unlink(f)
            \/ \E t \in Threads, f \in Files : FsyncSkip(t, f)
            \/ \E t \in Threads : FsyncCheckpoint(t) \/ FsyncDone(t)
<1>0. TypeInv /\ fsync \in [Threads -> FsyncRec]
  BY DEF TypeInv, FsyncRec
<1>n. Next \/ UNCHANGED vars
  OBVIOUS
<1>f. ASSUME NEW f \in Files, FileStep(f)
      PROVE  UNCHANGED fsync /\ (promise' = promise \/ Unlink(f))
  BY <1>f DEF FileStep, Create, WriteData, Unlink, TryToFreeNats, WriteBack, runVars
<1>o. ASSUME FlusherTake \/ FlusherDone \/ FlusherStep \/ (\E p \in inFlight : WriteEnd(p)) \/ Checkpoint
      PROVE  UNCHANGED fsync /\ promise' = promise
  BY <1>o DEF FlusherTake, FlusherDone, FlusherStep, WriteEnd, Checkpoint, runVars
<1>d. ~PowerFail /\ ~Mount
  BY DEF PowerFail, Mount
<1>u. UNCHANGED vars => UNCHANGED <<fsync, promise>>
  BY DEF vars, runVars
<1>1. ASSUME NEW t \in Threads, FsyncStep(t)
      PROVE  \/ promise' = promise
             \/ \E f \in Files : FsyncSkip(t, f)
             \/ FsyncCheckpoint(t) \/ FsyncDone(t)
  BY <1>1 DEF FsyncStep, FsyncStart, FsyncWriteNode, FsyncCheckInode, FsyncFlush, FsyncWake, runVars
<1>2. ASSUME NEW t \in Threads, fsync[t].pc # "idle", fsync'[t].file # fsync[t].file
      PROVE  CheckpointStep \/ FsyncDone(t)
  <2>1. PICK u \in Threads : FsyncStep(u)
    BY <1>2, <1>n, <1>f, <1>o, <1>d, <1>u DEF Next
  <2>2. CASE u # t
    BY <1>0, <1>2, <2>1, <2>2 DEF FsyncStep, FsyncSkip, FsyncStart, FsyncCheckpoint, FsyncReturn, FsyncWriteNode,
                    FsyncCheckInode, Goto, FsyncFlush, FsyncWake, FsyncDone
  <2>3. CASE u = t
    <3>1. FsyncStep(t)
      BY <2>1, <2>3
    <3>2. ~ \E f \in Files : FsyncSkip(t, f) \/ FsyncStart(t, f)
      BY <1>2 DEF FsyncSkip, FsyncStart, FsyncBegins, Idle
    <3>3. ~ \E kind \in Kinds : FsyncWriteNode(t, kind)
      BY <1>0, <1>2, ThreadMoves
    <3>4. ~FsyncCheckInode(t) /\ ~FsyncFlush(t)
      BY <1>0, <1>2, ThreadMoves
    <3>5. ~FsyncWake(t)
      BY <1>2 DEF FsyncWake
    <3>6. FsyncCheckpoint(t) \/ FsyncDone(t)
      BY <3>1, <3>2, <3>3, <3>4, <3>5 DEF FsyncStep
    <3> QED BY <3>6 DEF FsyncCheckpoint, CheckpointStep
  <2> QED BY <2>2, <2>3
<1>3. \/ promise' = promise
      \/ \E f \in Files : Unlink(f)
      \/ \E t \in Threads, f \in Files : FsyncSkip(t, f)
      \/ \E t \in Threads : FsyncCheckpoint(t) \/ FsyncDone(t)
  BY <1>n, <1>f, <1>o, <1>d, <1>u, <1>1 DEF Next
<1> QED BY <1>2, <1>3

\* What fsync() has when the flush is done.
LEMMA FsyncReturns ==
  ASSUME UpStep, NEW t \in Threads, FsyncDone(t)
  PROVE  LET f == fsync[t].file
         IN  /\ f \in Files /\ fsync[t].pc = "flush"
             /\ Recoverable(saved[f], log, f, IF append[f] THEN fsync[t].start.dnode ELSE mem[f].dnode, durable)
             /\ UNCHANGED <<memVars, diskVars, stamp>>
             /\ FsyncReturn(t)
<1>1. /\ fsync[t].pc = "flush" /\ t \in completed
      /\ UNCHANGED <<memVars, diskVars, stamp>> /\ FsyncReturn(t)
  BY DEF FsyncDone, FlushReturned
<1>2. Stage(t) = durable
  BY <1>1 DEF UpStep, UpInv, RequestInv, Stage
<1> QED BY <1>1, <1>2 DEF UpStep, UpInv, FsyncInv, TypeInv

\* Only fsync() makes the inode up to date, and a checkpoint.
LEMMA NeedStays ==
  ASSUME UpStep, NEW f \in Files, Exists(f), NeedInodeBlockUpdate(f), ~NeedInodeBlockUpdate(f)'
  PROVE  CheckpointStep \/ \E t \in Threads, kind \in Kinds : FsyncWriteNode(t, kind) /\ fsync[t].file = f
<1>0. TypeInv /\ nat \in [Files -> NatEntry] /\ nat[f] \in NatEntry
  BY DEF UpStep, TypeInv
<1>1. nat'[f].cached /\ nat'[f].last /\ (nat'[f].ckpt \/ nat'[f].fsynced) /\ nat'[f] # nat[f]
  BY DEF NeedInodeBlockUpdate
<1>2. ~ \E g \in Files : Create(g)
  <2> SUFFICES ASSUME NEW g \in Files, Create(g) PROVE FALSE
    OBVIOUS
  <2>1. ~mem[g].linked /\ nat' = [nat EXCEPT ![g] = NewNat(FALSE)]
    BY <1>0, Created
  <2> QED BY <1>0, <1>1, <2>1 DEF Exists
<1>3. ~ \E g \in Files : WriteData(g)
  <2> SUFFICES ASSUME NEW g \in Files, WriteData(g) PROVE FALSE
    OBVIOUS
  <2>1. /\ \A h \in Files : h # g => nat'[h] = nat[h]
        /\ nat'[g].ckpt = nat[g].ckpt /\ nat'[g].fsynced = nat[g].fsynced
        /\ nat'[g].dirty = nat[g].dirty /\ nat'[g].cached = nat[g].cached
        /\ nat'[g].last => nat[g].last
    BY <1>0, DataWritten
  <2> QED BY <1>0, <1>1, <2>1 DEF NeedInodeBlockUpdate
<1>4. ~ \E g \in Files : Unlink(g)
  BY <1>0, <1>1 DEF Unlink, NewNat
<1>5. ~ \E g \in Files : TryToFreeNats(g)
  BY <1>0, <1>1 DEF TryToFreeNats, NoNat
<1>6. ~ \E g \in Files, kind \in Kinds : WriteBack(g, kind) /\ NodeStep(g, kind, FALSE)
  <2> SUFFICES ASSUME NEW g \in Files, NEW kind \in Kinds, NodeStep(g, kind, FALSE) PROVE FALSE
    OBVIOUS
  <2>1. WriteNode(g, kind, FALSE)
    BY DEF NodeStep
  <2>2. \A mark \in BOOLEAN : WriteNode(g, kind, mark) =>
          /\ \A h \in Files : h # g => nat'[h] = nat[h]
          /\ kind = "inode" => nat'[g].last = mark
          /\ kind = "dnode" /\ nat[g].cached => nat'[g].last = mark
          /\ kind = "dnode" /\ ~nat[g].cached => nat'[g] = NoNat
    BY <1>0, NodeWritten
  <2>3. /\ \A h \in Files : h # g => nat'[h] = nat[h]
        /\ nat'[g].last = FALSE \/ nat'[g] = NoNat
    BY <2>1, <2>2 DEF Kinds
  <2> QED BY <1>1, <2>3 DEF NoNat
<1>7. ~Quiet /\ ~ \E t \in Threads : FsyncCheckInode(t) \/ FsyncFlush(t)
  BY <1>1 DEF Quiet, memVars, FsyncCheckInode, FsyncFlush
<1>8. ASSUME NEW t \in Threads, NEW kind \in Kinds, FsyncWriteNode(t, kind),
             fsync[t].file \in Files, NodeStep(fsync[t].file, kind, TRUE)
      PROVE  fsync[t].file = f
  <2>1. nat' = [nat EXCEPT ![fsync[t].file] = NatAfter(fsync[t].file, kind, TRUE)]
    BY <1>8 DEF NodeStep, WriteNode
  <2> QED BY <1>0, <1>1, <1>8, <2>1
<1> QED BY <1>2, <1>3, <1>4, <1>5, <1>6, <1>7, <1>8, UpStepCases

LEMMA WrittenInvStep ==
  ASSUME UpStep
  PROVE  WrittenInv'
<1> SUFFICES ASSUME NEW f \in Files, Exists(f)'
             PROVE  /\ "dnode" \notin dirty'[f] =>
                         \/ mem'[f].dnode = saved'[f].dnode
                         \/ \E p \in PositionsOf(f)' : log'[p].kind = "dnode" /\ log'[p].val = mem'[f].dnode
                    /\ Fsyncing(f)' = {} /\ ~append'[f] /\ ~NeedInodeBlockUpdate(f)' =>
                         Recoverable(saved'[f], log', f, mem'[f].dnode, durable')
  BY DEF WrittenInv
<1>0. /\ TypeInv /\ mem \in [Files -> FileRec] /\ mem[f] \in FileRec /\ mem[f].dnode \in Nat
      /\ dirty \in [Files -> SUBSET Kinds] /\ append \in [Files -> BOOLEAN]
      /\ nat \in [Files -> NatEntry] /\ WrittenInv
  <2>1. /\ TypeInv /\ mem \in [Files -> FileRec] /\ mem[f] \in FileRec
        /\ dirty \in [Files -> SUBSET Kinds] /\ append \in [Files -> BOOLEAN]
        /\ nat \in [Files -> NatEntry] /\ WrittenInv
    BY DEF UpStep, UpInv, TypeInv
  <2> QED BY <2>1 DEF FileRec
<1>1. CASE Create(f)
  <2>1. /\ saved[f] = NoFile /\ saved' = saved
        /\ mem' = [mem EXCEPT ![f] = [linked |-> TRUE, inode |-> stamp + 1, dnode |-> 0]]
        /\ nat' = [nat EXCEPT ![f] = NewNat(FALSE)]
    BY <1>0, <1>1, Created DEF diskVars
  <2>2. mem'[f].dnode = saved'[f].dnode
    BY <1>0, <2>1 DEF NoFile
  <2>3. NeedInodeBlockUpdate(f)'
    BY <1>0, <2>1 DEF NeedInodeBlockUpdate, NewNat
  <2> QED BY <2>2, <2>3
<1>2. CASE WriteData(f)
  <2>1. "dnode" \in dirty'[f] /\ append' = [append EXCEPT ![f] = TRUE]
    BY <1>0, <1>2, DataWritten
  <2> QED BY <1>0, <2>1
<1>3. ~Unlink(f)
  BY <1>0 DEF Unlink, Exists, NoFile
<1>4. CASE CheckpointStep
  <2>1. saved' = mem /\ mem' = mem
    BY <1>4 DEF CheckpointStep, CheckpointDone
  <2>2. Recoverable(saved'[f], log', f, mem'[f].dnode, durable')
    <3>1. saved'[f].linked /\ mem'[f].dnode <= saved'[f].dnode
      BY <1>0, <2>1 DEF Exists
    <3> QED BY <3>1, RecoverableSaved
  <2> QED BY <2>1, <2>2
<1>5. CASE ~Create(f) /\ ~WriteData(f) /\ ~CheckpointStep
  <2>0. dirty \in [Files -> SUBSET Kinds] /\ mem \in [Files -> FileRec]
    BY <1>0
  <2>1. Exists(f)
    <3>1. CASE \E g \in Files : Create(g) \/ WriteData(g) \/ Unlink(g)
      <4>1. PICK g \in Files : Create(g) \/ WriteData(g) \/ Unlink(g)
        BY <3>1
      <4>2. CASE g = f
        BY <1>3, <1>5, <4>1, <4>2
      <4>3. CASE g # f
        <5>1. mem'[f] = mem[f]
          <6>1. CASE Create(g)
            <7>1. \E r : mem' = [mem EXCEPT ![g] = r]
              BY <6>1 DEF Create
            <7> QED BY <2>0, <4>3, <7>1
          <6>2. CASE WriteData(g)
            BY <1>0, <4>3, <6>2, DataWritten
          <6>3. CASE Unlink(g)
            BY <2>0, <4>3, <6>3 DEF Unlink
          <6> QED BY <4>1, <6>1, <6>2, <6>3
        <5> QED BY <5>1 DEF Exists
      <4> QED BY <4>2, <4>3
    <3>2. CASE Quiet \/ (\E g \in Files : TryToFreeNats(g)) \/ \E t \in Threads : FsyncCheckInode(t) \/ FsyncFlush(t)
      BY <3>2 DEF Quiet, memVars, TryToFreeNats, FsyncCheckInode, FsyncFlush, Exists
    <3>3. CASE \E g \in Files, kind \in Kinds, mark \in BOOLEAN : NodeStep(g, kind, mark)
      BY <3>3 DEF NodeStep, Exists
    <3> QED BY <1>5, <3>1, <3>2, <3>3, UpStepCases
  <2>2. /\ Continues(log, log') /\ saved' = saved /\ mem'[f].dnode = mem[f].dnode
        /\ durable \subseteq durable'
    <3>1. CheckpointStep \/ durable \subseteq durable'
      BY DurableGrows DEF UpStep
    <3> QED BY <1>3, <1>5, <2>1, <3>1, FileGoesOn
  <2>3. /\ \A p \in PositionsOf(f) : p \in PositionsOf(f)' /\ log'[p] = log[p]
    BY <2>2 DEF Continues, PositionsOf, Positions
  <2>4. ASSUME "dnode" \notin dirty'[f]
        PROVE  \/ mem'[f].dnode = saved'[f].dnode
               \/ \E p \in PositionsOf(f)' : log'[p].kind = "dnode" /\ log'[p].val = mem'[f].dnode
    <3>1. CASE "dnode" \notin dirty[f]
      BY <1>0, <2>1, <2>2, <2>3, <3>1 DEF WrittenInv
    <3>2. CASE "dnode" \in dirty[f]
      <4>1. ASSUME NEW g \in Files, NEW kind \in Kinds, NEW mark \in BOOLEAN, NodeStep(g, kind, mark)
            PROVE  \E p \in PositionsOf(f)' : log'[p].kind = "dnode" /\ log'[p].val = mem'[f].dnode
        <5>1. /\ dirty'[g] = dirty[g] \ {kind} /\ \A h \in Files : h # g => dirty'[h] = dirty[h]
              /\ Len(log) + 1 \in DOMAIN log' /\ log'[Len(log) + 1] = NodeBlock(g, kind, mark)
          <6>1. /\ dirty'[g] = dirty[g] \ {kind} /\ \A h \in Files : h # g => dirty'[h] = dirty[h]
                /\ Len(log) \in Nat /\ DOMAIN log' = 1..(Len(log) + 1)
                /\ log'[Len(log) + 1] = NodeBlock(g, kind, mark)
            BY <1>0, <4>1, NodeStepped
          <6> QED BY <6>1
        <5>2. g = f /\ kind = "dnode"
          BY <2>4, <3>2, <5>1
        <5>3. NodeBlock(f, "dnode", mark).file = f /\ NodeBlock(f, "dnode", mark).kind = "dnode"
              /\ NodeBlock(f, "dnode", mark).val = mem[f].dnode
          BY DEF NodeBlock
        <5> QED BY <2>2, <5>1, <5>2, <5>3 DEF PositionsOf, Positions
      <4>2. ~ \E g \in Files : Create(g) \/ WriteData(g) \/ Unlink(g) \/ TryToFreeNats(g)
        <5> SUFFICES ASSUME NEW g \in Files, Create(g) \/ WriteData(g) \/ Unlink(g) \/ TryToFreeNats(g)
                     PROVE  FALSE
          OBVIOUS
        <5>0. g # f \/ TryToFreeNats(g)
          BY <1>3, <1>5
        <5>1. CASE Create(g) /\ g # f
          <6>1. dirty' = [dirty EXCEPT ![g] = {"inode"}]
            BY <5>1 DEF Create
          <6> QED BY <2>0, <2>4, <3>2, <5>1, <6>1
        <5>2. CASE WriteData(g) /\ g # f
          <6>1. dirty'[f] = dirty[f]
            BY <1>0, <5>2, DataWritten
          <6> QED BY <2>4, <3>2, <6>1
        <5>3. CASE Unlink(g) /\ g # f
          <6>1. dirty' = [dirty EXCEPT ![g] = {}]
            BY <5>3 DEF Unlink
          <6> QED BY <2>0, <2>4, <3>2, <5>3, <6>1
        <5>4. CASE TryToFreeNats(g)
          BY <2>4, <3>2, <5>4 DEF TryToFreeNats
        <5> QED BY <5>0, <5>1, <5>2, <5>3, <5>4
      <4>3. ~Quiet /\ ~ \E t \in Threads : fsync[t].file \in Files /\ (FsyncCheckInode(t) \/ FsyncFlush(t))
        BY <1>0, <2>4, <3>2 DEF Quiet, memVars, FsyncCheckInode, FsyncFlush
      <4> QED BY <1>5, <4>1, <4>2, <4>3, UpStepCases
    <3> QED BY <3>1, <3>2
  <2>5. ASSUME Fsyncing(f)' = {}, ~append'[f], ~NeedInodeBlockUpdate(f)'
        PROVE  Recoverable(saved'[f], log', f, mem'[f].dnode, durable')
    <3>1. ~NeedInodeBlockUpdate(f)
      <4> SUFFICES ASSUME NeedInodeBlockUpdate(f) PROVE FALSE
        OBVIOUS
      <4>1. PICK t \in Threads, kind \in Kinds : FsyncWriteNode(t, kind) /\ fsync[t].file = f
        BY <1>5, <2>1, <2>5, NeedStays
      <4>2. fsync'[t].file = f
        BY <1>0, <4>1, ThreadMoves
      <4> QED BY <2>5, <4>2 DEF Fsyncing
    <3>2. ~append[f]
      <4> SUFFICES ASSUME append[f] PROVE FALSE
        OBVIOUS
      <4>1. CASE \E g \in Files : Create(g) \/ WriteData(g) \/ Unlink(g) \/ TryToFreeNats(g)
        BY <1>0, <1>3, <2>5, <4>1 DEF Create, WriteData, Unlink, TryToFreeNats
      <4>2. CASE Quiet \/ \E t \in Threads : FsyncCheckInode(t)
        BY <2>5, <4>2 DEF Quiet, memVars, FsyncCheckInode
      <4>3. CASE \E g \in Files, kind \in Kinds, mark \in BOOLEAN : NodeStep(g, kind, mark)
        BY <2>5, <4>3 DEF NodeStep
      <4>4. ASSUME NEW t \in Threads, fsync[t].file \in Files, FsyncFlush(t) PROVE FALSE
        <5>1. fsync'[t].file = fsync[t].file
          BY <1>0, <4>4, ThreadMoves
        <5>2. append' = [append EXCEPT ![fsync[t].file] = FALSE]
          BY <4>4 DEF FsyncFlush
        <5> QED BY <1>0, <2>5, <5>1, <5>2 DEF Fsyncing
      <4> QED BY <1>5, <4>1, <4>2, <4>3, <4>4, UpStepCases
    <3>3. Recoverable(saved[f], log, f, mem[f].dnode, durable)
      <4>1. CASE Fsyncing(f) = {}
        BY <1>0, <2>1, <3>1, <3>2, <4>1 DEF WrittenInv
      <4>2. CASE Fsyncing(f) # {}
        <5>1. PICK t \in Threads : fsync[t].file = f
          BY <4>2 DEF Fsyncing
        <5>2. fsync'[t].file # f /\ fsync[t].pc # "idle"
          BY <1>0, <2>5, <5>1, RecoveryAssumption DEF Fsyncing, TypeInv
        <5>3. FsyncDone(t)
          <6>1. TypeInv /\ [Next]_vars /\ phase = "up" /\ phase' = "up"
            BY DEF UpStep
          <6> QED BY <1>5, <5>1, <5>2, <6>1, FsyncEnds
        <5> QED BY <3>2, <5>1, <5>3, FsyncReturns
      <4> QED BY <4>1, <4>2
    <3>4. mem[f].dnode <= mem[f].dnode
      BY <1>0
    <3>5. Recoverable(saved'[f], log', f, mem[f].dnode, durable')
      BY <1>0, <2>1, <2>2, <3>3, <3>4, RecoverableGoesOn
    <3> QED BY <2>2, <3>5
  <2> QED BY <2>4, <2>5
<1> QED BY <1>1, <1>2, <1>4, <1>5

\* The greater of two values is one of them.
Greater(a, b) ==
  [inode |-> IF a.inode <= b.inode THEN b.inode ELSE a.inode,
   dnode |-> IF a.dnode <= b.dnode THEN b.dnode ELSE a.dnode]

\* What was promised and what is promised now hold together.
LEMMA PromisesCombine ==
  ASSUME NEW a \in Values, NEW b \in Values, NEW f \in Files, NEW now, NEW old, NEW lg, NEW S,
         NEW limit \in Nat, now.dnode \in Nat,
         b.dnode <= now.dnode, 0 < b.inode, b.inode <= limit,
         NoOlderData(now, old, lg, f, b), Recoverable(old, lg, f, b.dnode, S),
         a # NoPromise =>
            /\ a.dnode <= now.dnode /\ 0 < a.inode /\ a.inode <= limit
            /\ NoOlderData(now, old, lg, f, a) /\ Recoverable(old, lg, f, a.dnode, S)
  PROVE  LET c == Greater(a, b)
         IN  /\ c.dnode <= now.dnode /\ 0 < c.inode /\ c.inode <= limit
             /\ NoOlderData(now, old, lg, f, c) /\ Recoverable(old, lg, f, c.dnode, S)
<1>0. /\ a.inode \in Nat /\ a.dnode \in Nat /\ b.inode \in Nat /\ b.dnode \in Nat
  BY DEF Values
<1>1. CASE a = NoPromise
  <2>1. Greater(a, b).inode = b.inode /\ Greater(a, b).dnode = b.dnode
    BY <1>0, <1>1 DEF Greater, NoPromise
  <2> QED BY <2>1 DEF NoOlderData
<1>2. CASE a # NoPromise
  <2>1. PICK c : c = Greater(a, b)
    OBVIOUS
  <2>2. /\ c.inode \in {a.inode, b.inode} /\ c.dnode \in {a.dnode, b.dnode}
        /\ c.dnode = 0 => a.dnode = 0 /\ b.dnode = 0
    BY <1>0, <2>1 DEF Greater
  <2>3. NoOlderData(now, old, lg, f, c)
    BY <1>2, <2>2 DEF NoOlderData
  <2>4. Recoverable(old, lg, f, c.dnode, S)
    BY <1>2, <2>2
  <2> QED BY <1>2, <2>1, <2>2, <2>3, <2>4
<1> QED BY <1>1, <1>2

LEMMA PromiseInvStep ==
  ASSUME UpStep
  PROVE  PromiseInv'
<1> DEFINE Kept(f) ==
      promise[f] # NoPromise =>
         StartOK(f, promise[f]) /\ Recoverable(saved[f], log, f, promise[f].dnode, durable)
<1>0. /\ TypeInv /\ FileInv /\ LogInv /\ \A f \in Files : Kept(f)
      /\ promise \in [Files -> Values] /\ promise' \in [Files -> Values]
      /\ \A f \in Files : mem[f].dnode \in Nat /\ mem'[f].dnode \in Nat
      /\ stamp' \in Nat
  <2>1. /\ TypeInv /\ FileInv /\ LogInv /\ \A f \in Files : Kept(f)
        /\ promise \in [Files -> Values] /\ promise' \in [Files -> Values]
        /\ mem \in [Files -> FileRec] /\ mem' \in [Files -> FileRec]
        /\ stamp' \in Nat
    BY DEF UpStep, UpInv, TypeInv, PromiseInv, StartOK
  <2>2. \A f \in Files : mem[f] \in FileRec /\ mem'[f] \in FileRec
    BY <2>1
  <2> QED BY <2>1, <2>2 DEF FileRec
<1> SUFFICES ASSUME NEW f \in Files PROVE Kept(f)'
  BY DEF PromiseInv, StartOK
\* the promise of a file stays good
<1>1. ASSUME NEW v \in Values, ~Unlink(f), StartOK(f, v), Recoverable(saved[f], log, f, v.dnode, durable)
      PROVE  StartOK(f, v)' /\ Recoverable(saved'[f], log', f, v.dnode, durable')
  <2>1. StartOK(f, v)'
    BY <1>1, StartStays
  <2>2. Exists(f) /\ v.dnode \in Nat /\ v.dnode <= v.dnode /\ v.dnode <= mem[f].dnode
    BY <1>1 DEF StartOK, Values
  <2>3. CheckpointStep \/ durable \subseteq durable'
    BY DurableGrows DEF UpStep
  <2> QED BY <1>1, <2>1, <2>2, <2>3, RecoverableGoesOn
<1>2. ASSUME promise'[f] = promise[f], ~Unlink(f) PROVE Kept(f)'
  <2>1. PICK v \in Values : v = promise[f]
    BY <1>0
  <2>2. CASE v = NoPromise
    BY <1>2, <2>1, <2>2
  <2>3. CASE v # NoPromise
    <3>1. StartOK(f, v) /\ Recoverable(saved[f], log, f, v.dnode, durable)
      BY <1>0, <2>1, <2>3
    <3>2. StartOK(f, v)' /\ Recoverable(saved'[f], log', f, v.dnode, durable')
      BY <1>1, <1>2, <3>1
    <3>3. StartOK(f, promise[f])'
      BY <1>2, <2>1, <3>2 DEF StartOK
    <3> QED BY <1>2, <2>1, <3>2, <3>3
  <2> QED BY <2>2, <2>3
<1>3. ASSUME NEW new \in Values, Promise(f, new), ~Unlink(f),
             StartOK(f, new)', Recoverable(saved'[f], log', f, new.dnode, durable')
      PROVE  Kept(f)'
  <2>1. PICK v \in Values : v = promise[f]
    BY <1>0
  <2>2. v # NoPromise => StartOK(f, v)' /\ Recoverable(saved'[f], log', f, v.dnode, durable')
    BY <1>0, <1>1, <1>3, <2>1
  <2>3. PICK c : c = Greater(v, new)
    OBVIOUS
  <2>4. /\ c.dnode <= mem'[f].dnode /\ 0 < c.inode /\ c.inode <= stamp'
        /\ NoOlderData(mem'[f], saved'[f], log', f, c) /\ Recoverable(saved'[f], log', f, c.dnode, durable')
    <3>1. /\ new.dnode <= mem'[f].dnode /\ 0 < new.inode /\ new.inode <= stamp'
          /\ NoOlderData(mem'[f], saved'[f], log', f, new)
      BY <1>3 DEF StartOK
    <3>2. v # NoPromise => /\ v.dnode <= mem'[f].dnode /\ 0 < v.inode /\ v.inode <= stamp'
                           /\ NoOlderData(mem'[f], saved'[f], log', f, v)
                           /\ Recoverable(saved'[f], log', f, v.dnode, durable')
      BY <2>2 DEF StartOK
    <3> QED BY <1>0, <1>3, <2>3, <3>1, <3>2, PromisesCombine
  <2>5. promise'[f].inode = c.inode /\ promise'[f].dnode = c.dnode
    BY <1>0, <1>3, <2>1, <2>3, PromiseValues DEF Greater
  <2>6. Exists(f)'
    BY <1>3 DEF StartOK
  <2> QED BY <2>4, <2>5, <2>6 DEF StartOK, NoOlderData
<1>4. ASSUME NEW g \in Files, NEW new \in Values, Promise(g, new), g # f PROVE promise'[f] = promise[f]
  BY <1>0, <1>4, PromiseValues
<1>5. CASE \E g \in Files : Unlink(g)
  <2>1. PICK g \in Files : Unlink(g)
    BY <1>5
  <2>2. promise' = [promise EXCEPT ![g] = NoPromise]
    BY <2>1 DEF Unlink
  <2>3. CASE g = f
    BY <1>0, <2>2, <2>3
  <2>4. CASE g # f
    <3>1. promise'[f] = promise[f]
      BY <1>0, <2>2, <2>4
    <3>2. ~Unlink(f) \/ promise'[f] = NoPromise
      BY <1>0 DEF Unlink
    <3> QED BY <1>2, <3>1, <3>2
  <2> QED BY <2>3, <2>4
<1>6. CASE \E t \in Threads, g \in Files : FsyncSkip(t, g)
  <2>1. PICK t \in Threads, g \in Files : FsyncSkip(t, g)
    BY <1>6
  <2>2. /\ Promise(g, Current(g)) /\ Exists(g) /\ UNCHANGED <<mem, saved, log, durable, stamp>>
        /\ ~append[g] /\ ~NeedInodeBlockUpdate(g)
    BY <2>1 DEF FsyncSkip, FsyncBegins, NothingWritten, memVars, diskVars
  <2>3. Current(g) \in Values /\ StartOK(g, Current(g))
    BY <1>0, <2>2, CurrentOK
  <2>4. Fsyncing(g) = {}
    BY <2>1, RecoveryAssumption DEF FsyncSkip, FsyncBegins, Overlap, Fsyncing, Idle, UpStep, NoRaces
  <2>5. Recoverable(saved[g], log, g, Current(g).dnode, durable)
    BY <2>2, <2>4 DEF UpStep, UpInv, WrittenInv, Current
  <2>6. PICK new \in Values : new = Current(g)
    BY <2>3
  <2>7. ~Unlink(f)
    <3>1. Exists(f)' = Exists(f)
      BY <2>2 DEF Exists
    <3> QED BY <3>1, <1>0 DEF Unlink, Exists, NoFile, TypeInv
  <2>8. CASE g = f
    <3>1. StartOK(f, new)'
      BY <2>2, <2>3, <2>6, <2>8 DEF StartOK, Exists, NoOlderData
    <3>2. Recoverable(saved'[f], log', f, new.dnode, durable')
      BY <2>2, <2>5, <2>6, <2>8
    <3> QED BY <1>3, <2>2, <2>6, <2>7, <2>8, <3>1, <3>2
  <2>9. CASE g # f
    BY <1>2, <1>4, <2>2, <2>6, <2>7, <2>9
  <2> QED BY <2>8, <2>9
<1>7. ASSUME NEW t \in Threads, FsyncCheckpoint(t) \/ FsyncDone(t) PROVE Kept(f)'
  <2>1. PICK g, new : g = fsync[t].file /\ new = fsync[t].start
    OBVIOUS
  <2>2. fsync[t].pc # "idle" /\ FsyncReturn(t) /\ mem' = mem
    BY <1>7 DEF FsyncCheckpoint, FsyncDone, memVars
  <2>3. g \in Files /\ new \in Values /\ Promise(g, new)
    BY <2>1, <2>2 DEF FsyncReturn, UpStep, TypeInv
  <2>4. StartOK(g, new)
    BY <2>1, <2>2 DEF UpStep, UpInv, FsyncInv, StartOK
  <2>5. ~Unlink(f) /\ ~Unlink(g)
    <3>1. Exists(f)' = Exists(f) /\ Exists(g)' = Exists(g)
      BY <2>2 DEF Exists
    <3> QED BY <2>3, <3>1, <1>0 DEF Unlink, Exists, NoFile, TypeInv
  <2>6. CASE g = f
    <3>1. StartOK(f, new)'
      BY <2>3, <2>4, <2>5, <2>6, StartStays
    <3>2. Recoverable(saved'[f], log', f, new.dnode, durable')
      <4>1. CASE FsyncCheckpoint(t)
        <5>1. saved' = mem
          BY <4>1 DEF FsyncCheckpoint, CheckpointDone
        <5>2. saved'[f].linked /\ new.dnode <= saved'[f].dnode
          BY <2>4, <2>6, <5>1 DEF StartOK, Exists
        <5> QED BY <5>2, RecoverableSaved
      <4>2. CASE FsyncDone(t)
        <5>1. PICK w : w = IF append[f] THEN new.dnode ELSE mem[f].dnode
          OBVIOUS
        <5>2. Recoverable(saved[f], log, f, w, durable) /\ UNCHANGED <<diskVars>>
          BY <2>1, <2>6, <4>2, <5>1, FsyncReturns
        <5>3. w \in Nat /\ new.dnode \in Nat /\ new.dnode <= w /\ w <= mem[f].dnode /\ Exists(f)
          BY <1>0, <2>3, <2>4, <2>6, <5>1 DEF StartOK, Values
        <5>4. durable \subseteq durable'
          BY <5>2 DEF diskVars
        <5> QED BY <5>2, <5>3, <5>4, RecoverableGoesOn
      <4> QED BY <1>7, <4>1, <4>2
    <3> QED BY <1>3, <2>3, <2>5, <2>6, <3>1, <3>2
  <2>7. CASE g # f
    BY <1>2, <1>4, <2>3, <2>5, <2>7
  <2> QED BY <2>6, <2>7
<1>8. CASE promise' = promise /\ ~ \E g \in Files : Unlink(g)
  BY <1>2, <1>8
<1> HIDE DEF Kept
<1>9. TypeInv /\ [Next]_vars /\ phase = "up" /\ phase' = "up"
  BY DEF UpStep
<1> QED BY <1>5, <1>6, <1>7, <1>8, <1>9, FsyncEnds

LEMMA UpInvStep ==
  ASSUME UpStep
  PROVE  UpInv'
<1>1. RequestInv'
  <2>1. TypeInv /\ RequestInv /\ TypeInv' /\ [Next]_vars /\ NoLostWakeup
    BY DEF UpStep, UpInv, RequestInv
  <2>2. NoLostWakeup'
    BY <2>1, WakeupStep
  <2>3. RequestStep
    <3>1. CASE UNCHANGED vars
      BY <3>1 DEF vars, RequestStep
    <3>2. CASE Next
      <4>1. ~PowerFail /\ ~Mount
        BY DEF UpStep, PowerFail, Mount
      <4> QED BY <2>1, <3>2, <4>1, RequestSteps
    <3> QED BY <2>1, <3>1, <3>2
  <2> QED BY <2>1, <2>2, <2>3, RequestInvStep
<1> QED BY <1>1, FileInvStep, NatInvStep, LogInvStep, MediumInvStep, FsyncInvStep,
           WrittenInvStep, PromiseInvStep DEF UpInv

-----------------------------------------------------------------------------
(* A power failure and the mount after it.                                 *)

\* The chain that the mount finds: what was kept of the log, and behind it what an
\* earlier mount left.
LEMMA KeptChain ==
  ASSUME TypeInv, NEW n \in 0..Len(log), durable \subseteq 1..n
  PROVE  LET m == MediumWith(1..n)
             c == ChainOf(m)
         IN  /\ m \in Seq(Block \cup {NoBlock}) /\ Len(m) \in Nat
             /\ DOMAIN c \subseteq 1..Len(m)
             /\ \A p \in DOMAIN c : c[p] \in Block
             /\ \A p \in 1..n : p \in DOMAIN log /\ p \in DOMAIN c /\ c[p] = log[p]
             /\ \A p \in DOMAIN c : p \notin 1..n =>
                  p \in DOMAIN medium /\ c[p] = medium[p] /\ medium[p] # NoBlock
             /\ \A p \in DOMAIN m : m[p] = NoBlock =>
                  /\ p \notin 1..n
                  /\ p \in DOMAIN medium => medium[p] = NoBlock
             /\ \A p \in DOMAIN m : p \notin 1..n =>
                  m[p] = IF p \in DOMAIN medium THEN medium[p] ELSE NoBlock
<1>0. /\ log \in Seq(Block) /\ Len(log) \in Nat /\ DOMAIN log = 1..Len(log)
      /\ medium \in Seq(Block \cup {NoBlock})
  BY DEF TypeInv
<1>1. 1..n \subseteq DOMAIN log
  BY <1>0
<1>2. PICK m : m = MediumWith(1..n)
  OBVIOUS
<1>3. /\ m \in Seq(Block \cup {NoBlock}) /\ Len(log) <= Len(m)
      /\ \A p \in DOMAIN m :
           m[p] = IF p \in durable \cup (1..n) THEN log[p]
                  ELSE IF p \in DOMAIN medium THEN medium[p] ELSE NoBlock
  BY <1>1, <1>2, MediumWithFacts
<1>4. Len(m) \in Nat /\ DOMAIN m = 1..Len(m)
  BY <1>3
<1>5. PICK c : c = ChainOf(m)
  OBVIOUS
<1>6. /\ DOMAIN c \subseteq 1..Len(m)
      /\ \A p \in DOMAIN c : c[p] = m[p] /\ c[p] \in Block
      /\ \A p \in DOMAIN m : (\A q \in 1..p : m[q] # NoBlock) => p \in DOMAIN c
  BY <1>3, <1>5, ChainFacts
<1>b. NoBlock \notin Block
  BY RecoveryAssumption DEF NoBlock, Block
<1>7. \A p \in 1..n : p \in DOMAIN log /\ p \in DOMAIN m /\ m[p] = log[p] /\ m[p] # NoBlock
  <2> TAKE p \in 1..n
  <2>1. p \in DOMAIN log /\ p \in DOMAIN m
    BY <1>0, <1>3, <1>4
  <2>2. m[p] = log[p] /\ log[p] \in Block
    BY <1>0, <1>3, <2>1
  <2> QED BY <1>b, <2>1, <2>2
<1>8. \A p \in 1..n : p \in DOMAIN c /\ c[p] = log[p]
  <2> TAKE p \in 1..n
  <2>1. \A q \in 1..p : m[q] # NoBlock
    <3> TAKE q \in 1..p
    <3>1. q \in 1..n
      OBVIOUS
    <3> QED BY <1>7, <3>1
  <2>2. p \in DOMAIN c
    BY <1>6, <1>7, <2>1
  <2> QED BY <1>6, <1>7, <2>2
<1>9. \A p \in DOMAIN m : p \notin 1..n =>
        m[p] = IF p \in DOMAIN medium THEN medium[p] ELSE NoBlock
  BY <1>3
<1>10. \A p \in DOMAIN c : p \notin 1..n =>
         p \in DOMAIN medium /\ c[p] = medium[p] /\ medium[p] # NoBlock
  BY <1>4, <1>6, <1>9, <1>b
<1>11. \A p \in DOMAIN m : m[p] = NoBlock =>
                  /\ p \notin 1..n
                  /\ p \in DOMAIN medium => medium[p] = NoBlock
  BY <1>7, <1>9
<1> QED BY <1>2, <1>3, <1>4, <1>5, <1>6, <1>7, <1>8, <1>9, <1>10, <1>11

\* Each file is brought back as it must be.
LEMMA FileSurvives ==
  ASSUME TypeInv, UpInv, NEW n \in 0..Len(log), durable \subseteq 1..n, NEW f \in Files
  PROVE  Survived(f, AfterMount(ChainOf(MediumWith(1..n)))[f])
<1>1. PICK m, c : m = MediumWith(1..n) /\ c = ChainOf(m)
  OBVIOUS
<1>2. /\ Len(m) \in Nat /\ DOMAIN c \subseteq 1..Len(m)
      /\ \A p \in DOMAIN c : c[p] \in Block
      /\ \A p \in 1..n : p \in DOMAIN log /\ p \in DOMAIN c /\ c[p] = log[p]
      /\ \A p \in DOMAIN c : p \notin 1..n =>
           p \in DOMAIN medium /\ c[p] = medium[p] /\ medium[p] # NoBlock
  BY <1>1, KeptChain
<1>3. /\ saved[f] \in FileRec /\ stamp \in Nat /\ promise[f] \in Values /\ n \in Nat
      /\ Len(log) \in Nat /\ DOMAIN log = 1..Len(log)
  BY DEF TypeInv
<1>4. /\ saved[f].linked \in BOOLEAN /\ saved[f].inode \in Nat /\ saved[f].dnode \in Nat
      /\ promise[f].inode \in Nat /\ promise[f].dnode \in Nat
      /\ WellFormed(saved[f]) /\ saved[f].inode <= stamp /\ saved[f].dnode <= stamp
  BY <1>3 DEF FileRec, Values, UpInv, FileInv, ValuesInv
<1>w. saved[f].linked <=> saved[f].inode # 0
  BY <1>4 DEF WellFormed
<1>5. PICK marks, D : marks = Marked(c, f) /\ D = FsyncDnodes(c, f)
  OBVIOUS
<1>6. /\ \A p : p \in marks <=> p \in DOMAIN c /\ c[p].file = f /\ c[p].fsync
      /\ D \subseteq marks
      /\ saved[f].linked => D = marks
      /\ ~saved[f].linked => \A p : p \in D <=> p \in marks /\ \E q \in marks : c[q].kind = "inode" /\ c[q].dent /\ q <= p
  <2>1. \A p : p \in marks <=> p \in DOMAIN c /\ c[p].file = f /\ c[p].fsync
    BY <1>5 DEF Marked, Positions
  <2>2. D = IF saved[f].inode # 0 THEN marks
            ELSE {p \in marks : \E q \in Dentries(c, marks) : q <= p}
    BY <1>5 DEF FsyncDnodes
  <2> QED BY <1>w, <2>1, <2>2 DEF Dentries
\* blocks of the log
<1>7. \A p \in DOMAIN log : /\ log[p].val \in 1..stamp /\ saved[log[p].file][log[p].kind] <= log[p].val
                            /\ log[p].dent => log[p].fsync /\ log[p].kind = "inode" /\ ~saved[log[p].file].linked
                            /\ ~saved[log[p].file].linked => ~HasStaleBlocks(log[p].file)
                            /\ \A q \in p..Len(log) : log[q].file = log[p].file /\ log[q].kind = log[p].kind
                                  => log[p].val <= log[q].val
  BY DEF UpInv, LogInv, BlockOK, Positions
\* what counts of the file is in the log
<1>8. D \subseteq 1..n
  <2> SUFFICES ASSUME NEW p \in D, p \notin 1..n PROVE FALSE
    OBVIOUS
  <2>1. /\ p \in DOMAIN c /\ c[p].file = f /\ c[p].fsync
        /\ p \in DOMAIN medium /\ c[p] = medium[p] /\ medium[p] # NoBlock
    BY <1>2, <1>6
  <2>2. ~saved[f].linked
    BY <2>1 DEF UpInv, MediumInv, Positions
  <2>3. PICK q \in marks : c[q].dent
    BY <1>6, <2>2
  <2>4. q \in DOMAIN c /\ c[q].file = f
    BY <1>6
  <2>5. q \in 1..n
    BY <1>2, <2>3, <2>4 DEF UpInv, MediumInv, Positions
  <2>6. log[q].file = f /\ q \in DOMAIN log
    BY <1>2, <2>4, <2>5
  <2>7. ~HasStaleBlocks(f)
    BY <1>7, <2>2, <2>6
  <2> QED BY <2>1, <2>7 DEF HasStaleBlocks, Positions
<1>9. \A p \in 1..n : log[p].file = f /\ log[p].fsync => p \in marks
  BY <1>2, <1>6
<1>10. \A p \in Own(log, f, durable) : p \in 1..n /\ log[p].file = f /\ p \in DOMAIN log
  BY DEF Own
\* a promise is recoverable
<1>11. ASSUME promise[f] # NoPromise
       PROVE  /\ 0 < promise[f].inode /\ promise[f].inode <= stamp
              /\ NoOlderData(mem[f], saved[f], log, f, promise[f])
              /\ Recoverable(saved[f], log, f, promise[f].dnode, durable)
  BY <1>11 DEF UpInv, PromiseInv
<1>12. promise[f] # NoPromise => saved[f].linked \/ D # {}
  <2> SUFFICES ASSUME promise[f] # NoPromise, ~saved[f].linked PROVE D # {}
    OBVIOUS
  <2>1. PICK r \in Own(log, f, durable) : log[r].dent
    BY <1>11 DEF Recoverable
  <2>2. r \in marks /\ c[r].kind = "inode" /\ c[r].dent /\ r <= r
    BY <1>2, <1>7, <1>9, <1>10, <2>1
  <2>3. r \in D
    BY <1>6, <2>2
  <2> QED BY <2>3
<1>13. CASE D = {}
  <2>1. AfterMount(c)[f] = saved[f]
    BY <1>5, <1>13 DEF AfterMount, InodeList
  <2>2. ASSUME promise[f] # NoPromise
        PROVE  /\ saved[f].linked /\ promise[f].dnode <= saved[f].dnode
               /\ promise[f].dnode = 0 => saved[f].dnode \notin 1..promise[f].inode
    <3>1. saved[f].linked
      BY <1>12, <1>13, <2>2
    <3>2. promise[f].dnode <= saved[f].dnode
      <4> SUFFICES ASSUME ~(promise[f].dnode <= saved[f].dnode) PROVE FALSE
        OBVIOUS
      <4>1. PICK q \in Own(log, f, durable) : log[q].fsync
        BY <1>11, <2>2 DEF Recoverable
      <4> QED BY <1>6, <1>9, <1>10, <1>13, <3>1, <4>1
    <3> QED BY <1>11, <2>2, <3>1, <3>2 DEF NoOlderData
  <2>3. Survived(f, saved[f])
    BY <1>3, <1>4, <1>11, <2>2 DEF Survived
  <2> QED BY <1>1, <2>1, <2>3
<1>14. CASE D # {}
  <2>1. PICK ino, RD : ino = Inodes(c, D) /\ RD = RecoveredDnodes(c, f, D)
    OBVIOUS
  <2>2. MaxOf(D) \in D /\ \A y \in D : y <= MaxOf(D)
    BY <1>3, <1>8, <1>14, MaxOfPositions
  <2>m. PICK k \in D : k = MaxOf(D)
    BY <2>2
  <2>3. /\ \A p : p \in ino <=> p \in D /\ c[p].kind = "inode"
        /\ \A p : p \in RD <=> p \in DOMAIN c /\ p <= k /\ c[p].file = f /\ c[p].kind = "dnode"
    BY <2>1, <2>m DEF Inodes, RecoveredDnodes, Positions
  <2>4. ino \subseteq 1..n /\ RD \subseteq 1..n /\ ino \subseteq DOMAIN c /\ RD \subseteq DOMAIN c
    <3>1. k \in 1..n
      BY <1>8
    <3>2. \A p \in DOMAIN c : p \in Nat /\ p >= 1
      BY <1>2
    <3> QED BY <1>3, <1>6, <1>8, <2>3, <3>1, <3>2
  <2>5. PICK r : r = RecoveredFile(c, f, D)
    OBVIOUS
  <2>6. /\ r.linked = (saved[f].linked \/ Dentries(c, D) # {})
        /\ r.inode = LastVal(c, ino, saved[f].inode)
        /\ r.dnode = LastVal(c, RD, saved[f].dnode)
    BY <2>1, <2>5 DEF RecoveredFile
  <2>v. ASSUME NEW S \in SUBSET DOMAIN c, NEW old \in Nat, NEW v, v = LastVal(c, S, old)
        PROVE  /\ S = {} => v = old
               /\ S # {} => \E x \in S : v = c[x].val /\ \A p \in S : p <= x
               /\ v \in Nat
    <3>1. /\ S = {} => LastVal(c, S, old) = old
          /\ S # {} => /\ MaxOf(S) \in S
                       /\ \A p \in S : p <= MaxOf(S)
                       /\ LastVal(c, S, old) = c[MaxOf(S)].val
          /\ LastVal(c, S, old) \in Nat
      BY <1>2, LastValFacts
    <3> QED BY <2>v, <3>1
  <2>7. /\ ino = {} => r.inode = saved[f].inode
        /\ ino # {} => \E x \in ino : r.inode = c[x].val
        /\ r.inode \in Nat
    <3>1. ino \in SUBSET DOMAIN c /\ saved[f].inode \in Nat /\ r.inode = LastVal(c, ino, saved[f].inode)
      BY <1>4, <2>4, <2>6
    <3> QED BY ONLY <3>1, <2>v
  <2>8. /\ RD = {} => r.dnode = saved[f].dnode
        /\ RD # {} => \E x \in RD : r.dnode = c[x].val /\ \A p \in RD : p <= x
        /\ r.dnode \in Nat
    <3>1. RD \in SUBSET DOMAIN c /\ saved[f].dnode \in Nat /\ r.dnode = LastVal(c, RD, saved[f].dnode)
      BY <1>4, <2>4, <2>6
    <3> QED BY ONLY <3>1, <2>v
  <2>9. ~saved[f].linked => \E q \in D : c[q].kind = "inode" /\ c[q].dent
    <3> SUFFICES ASSUME ~saved[f].linked PROVE \E q \in D : c[q].kind = "inode" /\ c[q].dent
      OBVIOUS
    <3>1. PICK q \in marks : c[q].kind = "inode" /\ c[q].dent
      BY <1>6, <1>14
    <3>2. q <= q
      BY <1>2, <1>6
    <3> QED BY <1>6, <3>1, <3>2
  <2>10. r.linked
    <3>1. ~saved[f].linked => Dentries(c, D) # {}
      BY <2>9 DEF Dentries
    <3> QED BY <2>6, <3>1
  <2>11. saved[f].inode <= r.inode /\ r.inode <= stamp /\ r.inode # 0
    <3>1. CASE ino = {}
      <4>1. saved[f].linked
        BY <2>3, <2>9, <3>1
      <4> QED BY <1>4, <1>w, <2>7, <3>1, <4>1
    <3>2. CASE ino # {}
      <4>1. PICK x \in ino : r.inode = c[x].val
        BY <2>7, <3>2
      <4>2. x \in 1..n /\ x \in DOMAIN log /\ c[x] = log[x] /\ log[x].file = f /\ log[x].kind = "inode"
        BY <1>2, <1>6, <2>3, <2>4
      <4>3. log[x].val \in 1..stamp /\ saved[f].inode <= log[x].val
        BY <1>7, <4>2
      <4> QED BY <1>3, <4>1, <4>2, <4>3
    <3> QED BY <3>1, <3>2
  <2>x. \A x \in RD : /\ x \in 1..n /\ x \in DOMAIN log /\ c[x] = log[x]
                      /\ log[x].file = f /\ log[x].kind = "dnode"
                      /\ log[x].val \in 1..stamp /\ saved[f].dnode <= log[x].val
    <3> TAKE x \in RD
    <3>1. /\ x \in 1..n /\ x \in DOMAIN log /\ c[x] = log[x]
          /\ log[x].file = f /\ log[x].kind = "dnode"
      BY <1>2, <2>3, <2>4
    <3>2. log[x].val \in 1..stamp /\ saved[f].dnode <= log[x].val
      BY <1>7, <3>1
    <3> QED BY <3>1, <3>2
  <2>12. saved[f].dnode <= r.dnode /\ r.dnode <= stamp
    <3>1. CASE RD = {}
      BY <1>4, <2>8, <3>1
    <3>2. CASE RD # {}
      <4>1. PICK x \in RD : r.dnode = c[x].val
        BY <2>8, <3>2
      <4> QED BY <1>3, <2>x, <4>1
    <3> QED BY <3>1, <3>2
  <2>13. ASSUME promise[f] # NoPromise PROVE promise[f].dnode <= r.dnode
    <3>1. CASE promise[f].dnode <= saved[f].dnode
      BY <1>4, <2>8, <2>12, <3>1
    <3>2. CASE ~(promise[f].dnode <= saved[f].dnode)
      <4>1. PICK p \in Own(log, f, durable), q \in Own(log, f, durable) :
                 /\ p <= q /\ log[p].kind = "dnode" /\ promise[f].dnode <= log[p].val /\ log[q].fsync
                 /\ saved[f].linked \/ \E d \in Own(log, f, durable) : d <= q /\ log[d].dent
        BY <1>11, <2>13, <3>2 DEF Recoverable
      <4>2. q \in marks
        BY <1>9, <1>10, <4>1
      <4>3. q \in D
        <5>1. CASE saved[f].linked
          BY <1>6, <4>2, <5>1
        <5>2. CASE ~saved[f].linked
          <6>1. PICK d \in Own(log, f, durable) : d <= q /\ log[d].dent
            BY <4>1, <5>2
          <6>2. d \in marks /\ c[d].kind = "inode" /\ c[d].dent
            BY <1>2, <1>7, <1>9, <1>10, <6>1
          <6> QED BY <1>6, <4>2, <5>2, <6>1, <6>2
        <5> QED BY <5>1, <5>2
      <4>4. p \in 1..n /\ q \in 1..n /\ k \in 1..n /\ q <= k
        BY <1>8, <1>10, <2>2, <2>m, <4>3
      <4>5. p <= k
        BY <1>3, <4>1, <4>4
      <4>6. p \in RD
        BY <1>2, <1>10, <2>3, <4>1, <4>4, <4>5
      <4>7. PICK x \in RD : r.dnode = c[x].val /\ p <= x
        BY <2>8, <4>6
      <4>8. p \in DOMAIN log /\ x \in p..Len(log)
        BY <1>3, <2>x, <4>4, <4>7
      <4>9. log[p].val <= log[x].val
        BY <1>7, <2>x, <4>6, <4>8
      <4>10. log[p].val \in Nat /\ log[x].val \in Nat /\ c[x] = log[x]
        BY <1>3, <2>x, <4>6, <4>7
      <4> QED BY <1>4, <4>1, <4>7, <4>9, <4>10
    <3> QED BY <3>1, <3>2
  <2>14. ASSUME promise[f] # NoPromise, promise[f].dnode = 0 PROVE r.dnode \notin 1..promise[f].inode
    <3>1. CASE RD = {}
      BY <1>11, <2>8, <2>14, <3>1 DEF NoOlderData
    <3>2. CASE RD # {}
      <4>1. PICK x \in RD : r.dnode = c[x].val
        BY <2>8, <3>2
      <4>2. promise[f].inode < log[x].val /\ log[x].val \in Nat /\ c[x] = log[x]
        BY <1>3, <1>11, <2>x, <2>14 DEF NoOlderData
      <4> QED BY <1>4, <4>1, <4>2
    <3> QED BY <3>1, <3>2
  <2>15. Survived(f, r)
    BY <1>11, <2>10, <2>11, <2>12, <2>13, <2>14 DEF Survived, WellFormed
  <2>16. AfterMount(c)[f] = r
    BY <1>5, <1>14, <2>5 DEF AfterMount, InodeList
  <2> QED BY <1>1, <2>15, <2>16
<1> QED BY <1>13, <1>14

LEMMA PowerFailStep ==
  ASSUME TypeInv, UpInv, OrderedWrites, PowerFail
  PROVE  DownInv'
<1>1. PICK n \in 0..Len(log) : durable \subseteq 1..n /\ medium' = MediumWith(1..n)
  BY DEF PowerFail, KeptBlocks
<1>2. UNCHANGED <<saved, parentSaved, promise, stamp>>
  BY DEF PowerFail
<1>3. PICK m, c : m = MediumWith(1..n) /\ c = ChainOf(m)
  OBVIOUS
<1>4. /\ m \in Seq(Block \cup {NoBlock}) /\ Len(m) \in Nat /\ DOMAIN c \subseteq 1..Len(m)
      /\ \A p \in DOMAIN c : c[p] \in Block
      /\ \A p \in 1..n : p \in DOMAIN log /\ p \in DOMAIN c /\ c[p] = log[p]
      /\ \A p \in DOMAIN c : p \notin 1..n =>
           p \in DOMAIN medium /\ c[p] = medium[p] /\ medium[p] # NoBlock
      /\ \A p \in DOMAIN m : m[p] = NoBlock =>
           /\ p \notin 1..n
           /\ p \in DOMAIN medium => medium[p] = NoBlock
      /\ \A p \in DOMAIN m : p \notin 1..n =>
           m[p] = IF p \in DOMAIN medium THEN medium[p] ELSE NoBlock
  BY <1>1, <1>3, KeptChain
<1>5. \A p \in DOMAIN c : BlockOK(c[p])'
  <2> SUFFICES ASSUME NEW p \in DOMAIN c PROVE BlockOK(c[p])'
    OBVIOUS
  <2>1. BlockOK(c[p])
    <3>1. CASE p \in 1..n
      BY <1>4, <3>1 DEF UpInv, LogInv, Positions
    <3>2. CASE p \notin 1..n
      BY <1>4, <3>2 DEF UpInv, MediumInv, Positions
    <3> QED BY <3>1, <3>2
  <2> QED BY <1>2, <2>1 DEF BlockOK
<1>6. \A p \in DOMAIN m : m[p] = NoBlock => \A q \in p..Len(m) : m[q] = NoBlock
  <2> SUFFICES ASSUME NEW p \in DOMAIN m, m[p] = NoBlock, NEW q \in p..Len(m) PROVE m[q] = NoBlock
    OBVIOUS
  <2>0. /\ medium \in Seq(Block \cup {NoBlock}) /\ Len(medium) \in Nat
        /\ DOMAIN medium = 1..Len(medium) /\ DOMAIN m = 1..Len(m)
    BY <1>4 DEF TypeInv
  <2>1. p \notin 1..n /\ (p \in DOMAIN medium => medium[p] = NoBlock) /\ p \in 1..Len(m)
    BY <1>4, <2>0
  <2>2. q \in DOMAIN m /\ q \notin 1..n
    BY <1>4, <2>0, <2>1
  <2>3. CASE q \in DOMAIN medium
    <3>1. p \in DOMAIN medium /\ q \in p..Len(medium)
      BY <2>0, <2>1, <2>3
    <3>2. medium[q] = NoBlock
      BY <2>1, <3>1 DEF UpInv, MediumInv, Positions
    <3> QED BY <1>4, <2>2, <2>3, <3>2
  <2>4. CASE q \notin DOMAIN medium
    BY <1>4, <2>2, <2>4
  <2> QED BY <2>3, <2>4
<1>7. \A f \in Files : WellFormed(saved'[f]) /\ Survived(f, AfterMount(c)[f])'
  <2> SUFFICES ASSUME NEW f \in Files PROVE WellFormed(saved'[f]) /\ Survived(f, AfterMount(c)[f])'
    OBVIOUS
  <2>1. WellFormed(saved'[f])
    BY <1>2 DEF UpInv, FileInv, ValuesInv
  <2>2. Survived(f, AfterMount(c)[f])
    BY <1>1, <1>3, FileSurvives
  <2>3. AfterMount(c)' = AfterMount(c)
    BY <1>2 DEF AfterMount, InodeList, FsyncDnodes, RecoveredFile
  <2> QED BY <1>2, <2>1, <2>2, <2>3 DEF Survived
<1>8. /\ log' = <<>>
      /\ \A f \in Files : mem'[f] = NoFile /\ dirty'[f] = {} /\ nat'[f] = NoNat /\ ~append'[f]
      /\ \A t \in Threads : fsync'[t] = Idle /\ request'[t] = "none"
      /\ issueList' = {} /\ dispatchList' = {} /\ completed' = {} /\ flusher' = "awake"
  BY DEF PowerFail
<1>9. medium' = m
  BY <1>1, <1>3
<1> QED BY <1>3, <1>5, <1>6, <1>7, <1>8, <1>9 DEF DownInv, Stopped, Exists, Positions

\* The mount brings back what the invariant says and does not fail.
LEMMA MountStep ==
  ASSUME TypeInv, DownInv, TypeInv', Mount
  PROVE  phase' = "up" /\ mem' = AfterMount(ChainOf(medium)) /\ UpInv'
<1>1. PICK c : c = ChainOf(medium)
  OBVIOUS
<1>2. /\ medium \in Seq(Block \cup {NoBlock}) /\ Len(medium) \in Nat /\ DOMAIN medium = 1..Len(medium)
      /\ \A p \in DOMAIN c : c[p] = medium[p] /\ c[p] \in Block /\ p \in Nat
      /\ \A p \in DOMAIN medium : (\A q \in 1..p : medium[q] # NoBlock) => p \in DOMAIN c
  <2>1. medium \in Seq(Block \cup {NoBlock}) /\ Len(medium) \in Nat /\ DOMAIN medium = 1..Len(medium)
    BY DEF TypeInv
  <2> QED BY <1>1, <2>1, ChainFacts
<1>3. /\ \A p \in DOMAIN c : BlockOK(c[p])
      /\ \A p \in DOMAIN medium : medium[p] = NoBlock => \A q \in p..Len(medium) : medium[q] = NoBlock
      /\ \A f \in Files : WellFormed(saved[f]) /\ Survived(f, AfterMount(c)[f])
      /\ log = <<>>
      /\ \A f \in Files : dirty[f] = {} /\ nat[f] = NoNat /\ ~append[f]
      /\ \A t \in Threads : fsync[t] = Idle /\ request[t] = "none"
      /\ issueList = {} /\ dispatchList = {} /\ completed = {} /\ flusher = "awake"
  BY <1>1 DEF DownInv, Stopped, Positions
<1>4. \A f \in Files : saved[f].linked <=> saved[f].inode # 0
  BY <1>3 DEF WellFormed
<1>d. \A f \in Files : /\ FsyncDnodes(c, f) \subseteq Marked(c, f)
                       /\ saved[f].inode # 0 => FsyncDnodes(c, f) = Marked(c, f)
  BY DEF FsyncDnodes
<1>5. ~FindFails(c)
  <2> SUFFICES ASSUME NEW f \in Files, saved[f].inode # 0, NEW p \in Dentries(c, Marked(c, f)) PROVE FALSE
    BY DEF FindFails, InodeList
  <2>1. p \in DOMAIN c /\ c[p].file = f /\ c[p].dent
    BY DEF Dentries, Marked, Positions
  <2> QED BY <1>3, <1>4, <2>1 DEF BlockOK
<1>6. ~RecoverDentryFails(c)
  <2> SUFFICES ASSUME ~parentSaved, NEW f \in Files, NEW p \in Dentries(c, FsyncDnodes(c, f)) PROVE FALSE
    BY DEF RecoverDentryFails, InodeList
  <2>1. p \in Marked(c, f) /\ c[p].dent
    BY <1>d DEF Dentries
  <2>2. p \in DOMAIN c
    BY <2>1 DEF Marked, Positions
  <2> QED BY <1>3, <2>1, <2>2 DEF BlockOK
<1>7. /\ phase' = "up" /\ mem' = AfterMount(c) /\ saved' = mem'
      /\ medium' = IF InodeList(c) = {} THEN medium ELSE <<>>
      /\ UNCHANGED <<dirty, nat, append, parentSaved, log, inFlight, durable, covered, fsync,
                     promise, stamp, failures, flushVars>>
  BY <1>1, <1>5, <1>6 DEF Mount
<1>8. \A f \in Files : /\ WellFormed(mem'[f]) /\ mem'[f].inode <= stamp /\ mem'[f].dnode <= stamp
                       /\ mem'[f].inode \in Nat /\ mem'[f].dnode \in Nat
                       /\ promise[f] # NoPromise =>
                            /\ mem'[f].linked /\ promise[f].dnode <= mem'[f].dnode
                            /\ 0 < promise[f].inode /\ promise[f].inode <= stamp
                            /\ promise[f].dnode = 0 => mem'[f].dnode \notin 1..promise[f].inode
  <2> SUFFICES ASSUME NEW f \in Files
               PROVE  /\ WellFormed(mem'[f]) /\ mem'[f].inode <= stamp /\ mem'[f].dnode <= stamp
                      /\ mem'[f].inode \in Nat /\ mem'[f].dnode \in Nat
                      /\ promise[f] # NoPromise =>
                           /\ mem'[f].linked /\ promise[f].dnode <= mem'[f].dnode
                           /\ 0 < promise[f].inode /\ promise[f].inode <= stamp
                           /\ promise[f].dnode = 0 => mem'[f].dnode \notin 1..promise[f].inode
    OBVIOUS
  <2>1. mem'[f] \in FileRec
    BY DEF TypeInv
  <2>2. Survived(f, mem'[f])
    BY <1>3, <1>7
  <2> QED BY <2>1, <2>2 DEF Survived, FileRec
<1>9. RequestInv'
  <2>1. \A t \in Threads : fsync'[t].pc = "idle" /\ request'[t] = "none"
    BY <1>3, <1>7 DEF flushVars, Idle
  <2>2. issueList' = {} /\ dispatchList' = {} /\ completed' = {}
    BY <1>3, <1>7 DEF flushVars
  <2> QED BY <2>1, <2>2 DEF RequestInv, NoLostWakeup
<1>10. FileInv'
  <2> SUFFICES ASSUME NEW f \in Files
               PROVE  /\ WellFormed(mem'[f]) /\ mem'[f].inode <= stamp' /\ mem'[f].dnode <= stamp'
                      /\ WellFormed(saved'[f]) /\ saved'[f].inode <= stamp' /\ saved'[f].dnode <= stamp'
                      /\ Exists(f)' => saved'[f].inode <= mem'[f].inode /\ saved'[f].dnode <= mem'[f].dnode
                      /\ Exists(f)' /\ ~saved'[f].linked => ~HasStaleBlocks(f)'
                      /\ ~Exists(f)' => dirty'[f] = {}
                      /\ "dnode" \in dirty'[f] => append'[f] /\ mem'[f].dnode # 0
    BY DEF FileInv, ValuesInv
  <2> QED BY <1>3, <1>7, <1>8 DEF Exists
<1>11. NatInv'
  <2>1. \A f \in Files : nat'[f] = NoNat /\ saved'[f] = mem'[f]
    BY <1>3, <1>7
  <2>2. \A f \in Files : WellFormed(mem'[f])
    BY <1>8
  <2>3. ASSUME NEW f \in Files PROVE Exists(f)' => saved'[f].linked
    BY <2>1 DEF Exists
  <2> QED BY <2>1, <2>3 DEF NatInv, FlagsInv, NoNat
<1>12. LogInv'
  BY <1>3, <1>7 DEF LogInv, Positions
<1>13. MediumInv'
  <2>1. CASE InodeList(c) # {}
    BY <1>7, <2>1 DEF MediumInv, Positions
  <2>2. CASE InodeList(c) = {}
    <3>1. medium' = medium /\ saved' = saved
      <4>1. saved \in [Files -> FileRec]
        BY DEF TypeInv
      <4>2. AfterMount(c) = saved
        BY <2>2, <4>1 DEF AfterMount
      <4> QED BY <1>7, <2>2, <4>2
    <3>2. ASSUME NEW p \in DOMAIN medium, medium[p] # NoBlock
          PROVE  /\ BlockOK(medium[p])
                 /\ ~medium[p].dent /\ (medium[p].fsync => ~saved[medium[p].file].linked)
      <4>1. p \in DOMAIN c
        <5>1. \A q \in 1..p : medium[q] # NoBlock
          <6> SUFFICES ASSUME NEW q \in 1..p, medium[q] = NoBlock PROVE FALSE
            OBVIOUS
          <6>1. q \in DOMAIN medium /\ p \in q..Len(medium)
            BY <1>2
          <6> QED BY <1>3, <3>2, <6>1
        <5> QED BY <1>2, <5>1
      <4>2. c[p] = medium[p] /\ c[p] \in Block /\ BlockOK(c[p]) /\ p \in Nat
        BY <1>2, <1>3, <4>1
      <4>3. PICK f \in Files : f = c[p].file
        BY <4>2 DEF Block
      <4>4. FsyncDnodes(c, f) = {}
        BY <2>2 DEF InodeList
      <4>5. c[p].fsync => p \in Marked(c, f)
        BY <4>1, <4>3 DEF Marked, Positions
      <4>6. c[p].fsync => ~saved[f].linked
        BY <1>4, <1>d, <4>4, <4>5
      <4>7. ~c[p].dent
        <5> SUFFICES ASSUME c[p].dent PROVE FALSE
          OBVIOUS
        <5>1. c[p].fsync /\ c[p].kind = "inode" /\ ~saved[f].linked
          BY <4>2, <4>3 DEF BlockOK
        <5>2. p \in Marked(c, f) /\ p \in Dentries(c, Marked(c, f)) /\ p <= p
          BY <4>2, <4>5, <5>1 DEF Dentries
        <5>3. p \in FsyncDnodes(c, f)
          BY <1>4, <5>1, <5>2 DEF FsyncDnodes
        <5> QED BY <4>4, <5>3
      <4> QED BY <4>2, <4>3, <4>6, <4>7
    <3>3. ASSUME NEW p \in DOMAIN medium, medium[p] # NoBlock PROVE BlockOK(medium[p])'
      BY <1>7, <3>1, <3>2, <3>3 DEF BlockOK
    <3> QED BY <1>3, <3>1, <3>2, <3>3 DEF MediumInv, Positions
  <2> QED BY <2>1, <2>2
<1>14. FsyncInv'
  <2>1. \A t \in Threads : fsync'[t].pc = "idle"
    BY <1>3, <1>7 DEF Idle
  <2> QED BY <2>1 DEF FsyncInv
<1>15. WrittenInv'
  <2>1. \A f \in Files : nat'[f] = NoNat /\ saved'[f] = mem'[f]
    BY <1>3, <1>7
  <2>2. ASSUME NEW f \in Files PROVE NeedInodeBlockUpdate(f)'
    BY <2>1 DEF NeedInodeBlockUpdate, NoNat
  <2> QED BY <2>1, <2>2 DEF WrittenInv
<1>16. PromiseInv'
  <2> SUFFICES ASSUME NEW f \in Files, promise'[f] # NoPromise
               PROVE  /\ Exists(f)' /\ promise'[f].dnode <= mem'[f].dnode
                      /\ 0 < promise'[f].inode /\ promise'[f].inode <= stamp'
                      /\ NoOlderData(mem'[f], saved'[f], log', f, promise'[f])
                      /\ Recoverable(saved'[f], log', f, promise'[f].dnode, durable')
    BY DEF PromiseInv
  <2>1. /\ mem'[f].linked /\ promise'[f].dnode <= mem'[f].dnode
        /\ 0 < promise'[f].inode /\ promise'[f].inode <= stamp'
        /\ promise'[f].dnode = 0 => mem'[f].dnode \notin 1..promise'[f].inode
        /\ saved'[f] = mem'[f] /\ log' = <<>>
    BY <1>3, <1>7, <1>8
  <2>2. Recoverable(saved'[f], log', f, promise'[f].dnode, durable')
    BY <2>1, RecoverableSaved
  <2>3. NoOlderData(mem'[f], saved'[f], log', f, promise'[f])
    BY <2>1 DEF NoOlderData
  <2> QED BY <2>1, <2>2, <2>3 DEF Exists
<1> QED BY <1>1, <1>7, <1>9, <1>10, <1>11, <1>12, <1>13, <1>14, <1>15, <1>16 DEF UpInv

\* Only a power failure ends what is up, and only a mount what is down.
LEMMA UpStays ==
  ASSUME TypeInv, [Next]_vars, phase = "up"
  PROVE  phase' = "up" \/ (PowerFail /\ phase' = "down")
<1>1. ASSUME NEW f \in Files, FileStep(f) PROVE phase' = phase
  BY <1>1 DEF FileStep, Create, WriteData, Unlink, TryToFreeNats, WriteBack, runVars
<1>2. ASSUME NEW t \in Threads, FsyncStep(t) PROVE phase' = phase
  BY <1>2 DEF FsyncStep, FsyncSkip, FsyncStart, FsyncCheckpoint, FsyncWriteNode, FsyncCheckInode,
              FsyncFlush, FsyncWake, FsyncDone, runVars
<1>3. ASSUME FlusherTake \/ FlusherDone \/ FlusherStep \/ (\E p \in inFlight : WriteEnd(p)) \/ Checkpoint
      PROVE  phase' = phase
  BY <1>3 DEF FlusherTake, FlusherDone, FlusherStep, WriteEnd, Checkpoint, runVars
<1>4. PowerFail => phase' = "down"
  BY DEF PowerFail
<1>5. ~Mount
  BY DEF Mount
<1>6. UNCHANGED vars => phase' = phase
  BY DEF vars, runVars
<1> QED BY <1>1, <1>2, <1>3, <1>4, <1>5, <1>6 DEF Next

LEMMA DownStays ==
  ASSUME TypeInv, Stopped, [Next]_vars, phase = "down"
  PROVE  Mount \/ UNCHANGED vars
<1>0. /\ \A t \in Threads : fsync[t].pc = "idle"
      /\ issueList = {} /\ flusher = "awake" /\ inFlight = {}
  BY DEF Stopped, Idle, TypeInv, Positions
<1>1. ASSUME NEW f \in Files, FileStep(f) PROVE FALSE
  BY <1>1 DEF FileStep, Create, WriteData, Stamp, Unlink, TryToFreeNats, WriteBack, Running
<1>2. ASSUME NEW t \in Threads, FsyncStep(t) PROVE FALSE
  BY <1>0, <1>2 DEF FsyncStep, FsyncSkip, FsyncStart, FsyncBegins, Running, FsyncCheckpoint, FsyncWriteNode,
                    FsyncCheckInode, FsyncFlush, FsyncWake, FsyncDone
<1>3. ~FlusherTake /\ ~FlusherDone /\ ~FlusherStep
  BY <1>0 DEF FlusherTake, TakeRequests, FlusherDone, FlushDone, FlusherStep
<1>4. ~Checkpoint /\ ~PowerFail /\ ~ \E p \in inFlight : WriteEnd(p)
  BY <1>0 DEF Checkpoint, CheckpointDone, PowerFail, Running
<1> QED BY <1>1, <1>2, <1>3, <1>4 DEF Next

-----------------------------------------------------------------------------
(* The initial states, and every step without the races.                    *)

LEMMA InitTyped == Init => TypeInv
<1> SUFFICES ASSUME Init PROVE TypeInv
  OBVIOUS
<1>1. NoFile \in FileRec /\ NoNat \in NatEntry /\ Idle \in FsyncRec /\ NoPromise \in Values
  BY DEF NoFile, FileRec, NoNat, NatEntry, Idle, FsyncRec, NoPromise, Values
<1>2. /\ mem \in [Files -> FileRec] /\ saved \in [Files -> FileRec]
      /\ dirty \in [Files -> SUBSET Kinds] /\ nat \in [Files -> NatEntry]
      /\ append \in [Files -> BOOLEAN] /\ promise \in [Files -> Values]
      /\ fsync \in [Threads -> FsyncRec]
  BY <1>1 DEF Init
<1>3. log \in Seq(Block) /\ medium \in Seq(Block \cup {NoBlock})
  BY DEF Init
<1>4. FlushTypeOK
  BY DEF Init, FlushInit, FlushTypeOK
<1>5. \A t \in Threads : fsync[t].pc = "idle" /\ fsync[t].file = 0
  BY DEF Init, Idle
<1>6. stamp \in 0..MaxStamp /\ failures \in 0..MaxPowerFailures
  BY RecoveryAssumption DEF Init
<1>7. /\ parentSaved \in BOOLEAN /\ phase = "up"
      /\ inFlight = {} /\ durable = {} /\ covered = {}
  BY DEF Init
<1> QED BY <1>2, <1>3, <1>4, <1>5, <1>6, <1>7 DEF TypeInv, FsyncRec

LEMMA InitUp ==
  ASSUME Init
  PROVE  UpInv
<1>1. /\ \A f \in Files : /\ mem[f] = NoFile /\ saved[f] = NoFile /\ dirty[f] = {} /\ nat[f] = NoNat
                          /\ promise[f] = NoPromise
      /\ log = <<>> /\ medium = <<>> /\ stamp = 0
      /\ \A t \in Threads : fsync[t].pc = "idle" /\ request[t] = "none"
      /\ issueList = {} /\ dispatchList = {} /\ completed = {}
  BY DEF Init, FlushInit, Idle
<1>2. RequestInv
  BY <1>1 DEF RequestInv, NoLostWakeup
<1>3. FileInv
  BY <1>1 DEF FileInv, ValuesInv, WellFormed, NoFile, Exists
<1>4. NatInv
  BY <1>1 DEF NatInv, FlagsInv, NoFile, NoNat, Exists
<1>5. LogInv /\ MediumInv
  BY <1>1 DEF LogInv, MediumInv, Positions
<1>6. FsyncInv /\ PromiseInv
  BY <1>1 DEF FsyncInv, PromiseInv
<1>7. WrittenInv
  BY <1>1 DEF WrittenInv, Exists, NoFile
<1> QED BY <1>2, <1>3, <1>4, <1>5, <1>6, <1>7 DEF UpInv

LEMMA InvInductive ==
  ASSUME Inv, NoRaces, [Next]_vars
  PROVE  Inv'
<1>0. /\ TypeInv /\ NoLostWakeup /\ phase \in {"up", "down"}
      /\ phase = "up" => UpInv
      /\ phase = "down" => DownInv
  BY DEF Inv, MountSucceeds, TypeInv
<1>1. TypeInv' /\ NoLostWakeup'
  BY <1>0, StepTyped, WakeupStep
<1>2. CASE phase = "up" /\ phase' = "up"
  <2>1. UpInv'
    BY <1>0, <1>1, <1>2, UpInvStep DEF UpStep
  <2> QED BY <1>1, <1>2, <2>1 DEF Inv, MountSucceeds
<1>3. CASE phase = "up" /\ phase' # "up"
  <2>1. PowerFail /\ phase' = "down"
    BY <1>0, <1>3, UpStays
  <2>2. DownInv'
    BY <1>0, <1>3, <2>1, PowerFailStep DEF NoRaces
  <2> QED BY <1>1, <2>1, <2>2 DEF Inv, MountSucceeds
<1>4. CASE phase = "down"
  <2>1. CASE Mount
    <3>1. phase' = "up" /\ UpInv'
      BY <1>0, <1>1, <1>4, <2>1, MountStep
    <3> QED BY <1>1, <3>1 DEF Inv, MountSucceeds
  <2>2. CASE UNCHANGED vars
    <3>1. /\ UNCHANGED <<mem, dirty, nat, append, saved, parentSaved, log, medium, fsync, promise, stamp, phase>>
          /\ UNCHANGED <<issueList, dispatchList, flusher, request, completed>>
      BY <2>2 DEF vars, memVars, diskVars, runVars, flushVars
    <3>2. PICK c : c = ChainOf(medium)
      OBVIOUS
    <3>3. AfterMount(c)' = AfterMount(c)
      BY <3>1 DEF AfterMount, InodeList, FsyncDnodes, RecoveredFile
    <3>4. \A f \in Files : Survived(f, AfterMount(c)[f]) => Survived(f, AfterMount(c)[f])'
      BY <3>1, <3>3 DEF Survived
    <3>5. \A p \in DOMAIN c : BlockOK(c[p]) => BlockOK(c[p])'
      BY <3>1 DEF BlockOK
    <3>6. ChainOf(medium') = c
      BY <3>1, <3>2
    <3>7. DownInv'
      BY <1>0, <1>4, <3>1, <3>2, <3>4, <3>5, <3>6 DEF DownInv, Stopped, Positions
    <3> QED BY <1>1, <1>4, <3>1, <3>7 DEF Inv, MountSucceeds
  <2> QED BY <1>0, <1>4, <2>1, <2>2, DownStays DEF DownInv
<1> QED BY <1>0, <1>2, <1>3, <1>4

-----------------------------------------------------------------------------
(* In any order of the writes of the device and with all races.            *)

\* A step while the file system is up and stays up.
BaseStep ==
  /\ BaseInv /\ [Next]_vars /\ TypeInv'
  /\ phase = "up" /\ phase' = "up"

LEMMA BaseStepCases ==
  ASSUME BaseStep
  PROVE  \/ \E f \in Files : Create(f) \/ WriteData(f) \/ Unlink(f) \/ TryToFreeNats(f)
         \/ \E f \in Files, kind \in Kinds : NodeStep(f, kind, FALSE)
         \/ \E t \in Threads, kind \in Kinds :
              /\ fsync[t].pc = "nodes" /\ fsync[t].file \in Files
              /\ NodeStep(fsync[t].file, kind, TRUE)
         \/ CheckpointStep
         \/ \E t \in Threads : /\ fsync[t].file \in Files
                               /\ FsyncCheckInode(t) \/ FsyncFlush(t)
         \/ Quiet
<1>1. ~PowerFail /\ TypeInv /\ [Next]_vars /\ phase = "up"
  BY DEF BaseStep, BaseInv, PowerFail
<1>2. \A t \in Threads, kind \in Kinds : FsyncWriteNode(t, kind) => fsync[t].pc = "nodes"
  BY DEF FsyncWriteNode
<1> QED BY <1>1, <1>2, UpSteps

LEMMA ValuesStep ==
  ASSUME BaseStep
  PROVE  ValuesInv'
<1> DEFINE Good(f) ==
       /\ WellFormed(mem[f]) /\ mem[f].inode <= stamp /\ mem[f].dnode <= stamp
       /\ WellFormed(saved[f]) /\ saved[f].inode <= stamp /\ saved[f].dnode <= stamp
       /\ Exists(f) => saved[f].inode <= mem[f].inode /\ saved[f].dnode <= mem[f].dnode
       /\ ~Exists(f) => dirty[f] = {}
       /\ "dnode" \in dirty[f] => mem[f].dnode # 0
<1>0. /\ TypeInv /\ \A f \in Files : Good(f)
      /\ mem \in [Files -> FileRec] /\ dirty \in [Files -> SUBSET Kinds] /\ stamp \in Nat
      /\ saved \in [Files -> FileRec]
  BY DEF BaseStep, BaseInv, ValuesInv, TypeInv
<1>n. \A f \in Files : /\ mem[f].inode \in Nat /\ mem[f].dnode \in Nat
                       /\ saved[f].inode \in Nat /\ saved[f].dnode \in Nat
  BY <1>0 DEF FileRec
<1> SUFFICES ASSUME NEW f \in Files PROVE Good(f)'
  BY DEF ValuesInv
<1>1. ASSUME UNCHANGED <<mem, saved, stamp>>,
             dirty'[f] \subseteq dirty[f] \cup {"inode"}, Exists(f) \/ dirty'[f] = {}
      PROVE  Good(f)'
  BY <1>0, <1>1 DEF Exists, WellFormed
<1>2. CASE \E g \in Files : Create(g)
  <2>1. PICK g \in Files : Create(g)
    BY <1>2
  <2>2. /\ stamp' = stamp + 1 /\ saved[g] = NoFile
        /\ mem' = [mem EXCEPT ![g] = [linked |-> TRUE, inode |-> stamp + 1, dnode |-> 0]]
        /\ dirty' = [dirty EXCEPT ![g] = {"inode"}]
        /\ UNCHANGED saved
    BY <2>1, <1>0, Created DEF diskVars
  <2>3. CASE g = f
    BY <1>0, <1>n, <2>2, <2>3 DEF Exists, WellFormed, NoFile
  <2>4. CASE g # f
    BY <1>0, <1>n, <2>2, <2>4 DEF Exists, WellFormed
  <2> QED BY <2>3, <2>4
<1>3. CASE \E g \in Files : WriteData(g)
  <2>1. PICK g \in Files : WriteData(g)
    BY <1>3
  <2>2. /\ stamp' = stamp + 1 /\ mem[g].linked
        /\ \A h \in Files : h # g => mem'[h] = mem[h] /\ dirty'[h] = dirty[h]
        /\ mem'[g].linked /\ mem'[g].dnode = stamp + 1
        /\ mem'[g].inode \in {mem[g].inode, stamp + 1}
        /\ UNCHANGED saved
    BY <2>1, <1>0, DataWritten DEF diskVars
  <2>3. CASE g = f
    BY <1>0, <1>n, <2>2, <2>3 DEF Exists, WellFormed
  <2>4. CASE g # f
    BY <1>0, <1>n, <2>2, <2>4 DEF Exists, WellFormed
  <2> QED BY <2>3, <2>4
<1>4. CASE \E g \in Files : Unlink(g)
  <2>1. PICK g \in Files : Unlink(g)
    BY <1>4
  <2>2. /\ mem' = [mem EXCEPT ![g] = NoFile] /\ dirty' = [dirty EXCEPT ![g] = {}]
        /\ UNCHANGED <<saved, stamp>>
    BY <2>1 DEF Unlink, diskVars
  <2>3. CASE g = f
    BY <1>0, <2>2, <2>3 DEF Exists, WellFormed, NoFile
  <2>4. CASE g # f
    BY <1>0, <2>2, <2>4 DEF Exists, WellFormed
  <2> QED BY <2>3, <2>4
<1>5. CASE (\E g \in Files : TryToFreeNats(g)) \/ Quiet \/ \E t \in Threads : FsyncFlush(t)
  BY <1>0, <1>1, <1>5 DEF TryToFreeNats, FsyncFlush, diskVars, runVars, Quiet, memVars
<1>6. ASSUME NEW g \in Files, NEW kind \in Kinds, NEW mark \in BOOLEAN, NodeStep(g, kind, mark)
      PROVE  Good(f)'
  <2>1. /\ UNCHANGED <<mem, saved, stamp>>
        /\ dirty'[f] \subseteq dirty[f]
    BY <1>0, <1>6, NodeStepped
  <2> QED BY <1>0, <1>1, <2>1
<1>7. CASE CheckpointStep
  <2>1. saved' = mem /\ UNCHANGED <<mem, dirty, stamp>>
    BY <1>7 DEF CheckpointStep, CheckpointDone
  <2> QED BY <1>0, <1>n, <2>1 DEF Exists, WellFormed
<1>8. CASE \E t \in Threads : fsync[t].file \in Files /\ FsyncCheckInode(t)
  <2>1. PICK t \in Threads : fsync[t].file \in Files /\ FsyncCheckInode(t)
    BY <1>8
  <2>2. /\ UNCHANGED <<mem, saved, stamp>>
        /\ \/ dirty' = [dirty EXCEPT ![fsync[t].file] = @ \cup {"inode"}]
           \/ dirty' = dirty
    BY <2>1 DEF FsyncCheckInode, diskVars, runVars
  <2>3. Exists(fsync[t].file)
    BY <2>1 DEF BaseStep, BaseInv, CallsInv, FsyncCheckInode
  <2>4. CASE fsync[t].file = f
    <3>1. dirty'[f] = dirty[f] \/ dirty'[f] = dirty[f] \cup {"inode"}
      BY <1>0, <2>2, <2>4
    <3> QED BY <1>1, <2>2, <2>3, <2>4, <3>1
  <2>5. CASE fsync[t].file # f
    BY <1>0, <1>1, <2>1, <2>2, <2>5
  <2> QED BY <2>4, <2>5
<1> HIDE DEF Good
<1> QED BY <1>2, <1>3, <1>4, <1>5, <1>6, <1>7, <1>8, BaseStepCases

LEMMA FlagsStep ==
  ASSUME BaseStep
  PROVE  FlagsInv'
<1> DEFINE Good(f) ==
       /\ nat[f].fsynced \/ ~nat[f].ckpt => nat[f].dirty
       /\ nat[f].dirty => nat[f].cached
       /\ Exists(f) => (nat[f].ckpt <=> saved[f].linked)
<1>0. /\ TypeInv /\ \A f \in Files : Good(f) /\ nat[f] \in NatEntry
      /\ mem \in [Files -> FileRec] /\ nat \in [Files -> NatEntry]
  BY DEF BaseStep, BaseInv, FlagsInv, TypeInv
<1> SUFFICES ASSUME NEW f \in Files PROVE Good(f)'
  BY DEF FlagsInv
<1>1. ASSUME UNCHANGED saved, mem'[f].linked = mem[f].linked, nat'[f] = nat[f]
      PROVE  Good(f)'
  BY <1>0, <1>1 DEF Exists
<1>2. CASE \E g \in Files : Create(g)
  <2>1. PICK g \in Files : Create(g)
    BY <1>2
  <2>2. /\ saved[g] = NoFile
        /\ mem' = [mem EXCEPT ![g] = [linked |-> TRUE, inode |-> stamp + 1, dnode |-> 0]]
        /\ nat' = [nat EXCEPT ![g] = NewNat(FALSE)]
        /\ UNCHANGED saved
    BY <2>1, <1>0, Created DEF diskVars
  <2>3. CASE g = f
    BY <1>0, <2>2, <2>3 DEF Exists, NoFile, NewNat
  <2>4. CASE g # f
    BY <1>0, <1>1, <2>2, <2>4
  <2> QED BY <2>3, <2>4
<1>3. CASE \E g \in Files : WriteData(g)
  <2>1. PICK g \in Files : WriteData(g)
    BY <1>3
  <2>2. /\ mem[g].linked /\ mem'[g].linked
        /\ \A h \in Files : h # g => mem'[h] = mem[h] /\ nat'[h] = nat[h]
        /\ nat'[g].ckpt = nat[g].ckpt /\ nat'[g].fsynced = nat[g].fsynced
        /\ nat'[g].dirty = nat[g].dirty /\ nat'[g].cached = nat[g].cached
        /\ UNCHANGED saved
    BY <2>1, <1>0, DataWritten DEF diskVars
  <2>3. CASE g = f
    BY <1>0, <2>2, <2>3 DEF Exists
  <2>4. CASE g # f
    BY <1>1, <2>2, <2>4
  <2> QED BY <2>3, <2>4
<1>4. CASE \E g \in Files : Unlink(g)
  <2>1. PICK g \in Files : Unlink(g)
    BY <1>4
  <2>2. /\ mem' = [mem EXCEPT ![g] = NoFile]
        /\ nat' = [nat EXCEPT ![g] = NewNat(nat[g].fsynced)]
        /\ UNCHANGED saved
    BY <2>1 DEF Unlink, diskVars
  <2>3. CASE g = f
    BY <1>0, <2>2, <2>3 DEF Exists, NoFile, NewNat
  <2>4. CASE g # f
    BY <1>0, <1>1, <2>2, <2>4
  <2> QED BY <2>3, <2>4
<1>5. CASE \E g \in Files : TryToFreeNats(g)
  <2>1. PICK g \in Files : TryToFreeNats(g)
    BY <1>5
  <2>2. ~nat[g].dirty /\ nat' = [nat EXCEPT ![g] = NoNat] /\ UNCHANGED <<mem, saved>>
    BY <2>1 DEF TryToFreeNats, diskVars
  <2>3. CASE g = f
    BY <1>0, <2>2, <2>3 DEF Exists, NoNat
  <2>4. CASE g # f
    BY <1>0, <1>1, <2>2, <2>4
  <2> QED BY <2>3, <2>4
<1>6. ASSUME NEW g \in Files, NEW kind \in Kinds, NEW mark \in BOOLEAN, NodeStep(g, kind, mark)
      PROVE  Good(f)'
  <2>1. /\ UNCHANGED <<mem, saved>>
        /\ \A h \in Files : h # g => nat'[h] = nat[h]
    BY <1>0, <1>6, NodeStepped
  <2>2. WriteNode(g, kind, mark)
    BY <1>6 DEF NodeStep
  <2>3. CASE g # f
    BY <1>1, <2>1, <2>3
  <2>4. CASE g = f
    <3>1. /\ kind = "inode" =>
               /\ nat'[f].ckpt = (~nat[f].cached \/ nat[f].ckpt)
               /\ nat'[f].dirty /\ nat'[f].cached
          /\ kind = "dnode" /\ nat[f].cached =>
               /\ nat'[f].ckpt = nat[f].ckpt /\ nat'[f].fsynced = nat[f].fsynced
               /\ nat'[f].dirty = nat[f].dirty /\ nat'[f].cached
          /\ kind = "dnode" /\ ~nat[f].cached => nat'[f] = NoNat
      BY <1>0, <2>2, <2>4, NodeWritten
    <3>2. CASE kind = "inode"
      BY <1>0, <2>1, <3>1, <3>2 DEF Exists, NatEntry
    <3>3. CASE kind = "dnode" /\ nat[f].cached
      BY <1>0, <2>1, <3>1, <3>3 DEF Exists
    <3>4. CASE kind = "dnode" /\ ~nat[f].cached
      BY <1>0, <2>1, <3>1, <3>4 DEF Exists, NoNat
    <3> QED BY <3>2, <3>3, <3>4 DEF Kinds
  <2> QED BY <2>3, <2>4
<1>7. CASE CheckpointStep
  <2>1. /\ saved' = mem /\ UNCHANGED mem
        /\ nat'[f] = IF nat[f].dirty THEN ResetNat ELSE nat[f]
    BY <1>7 DEF CheckpointStep, CheckpointDone
  <2> QED BY <1>0, <2>1 DEF Exists, ResetNat
<1>8. CASE Quiet \/ \E t \in Threads : FsyncCheckInode(t) \/ FsyncFlush(t)
  BY <1>1, <1>8 DEF Quiet, memVars, FsyncCheckInode, FsyncFlush, diskVars
<1> HIDE DEF Good
<1> QED BY <1>2, <1>3, <1>4, <1>5, <1>6, <1>7, <1>8, BaseStepCases

\* A block that is written is as the file, and the dentry mark as its NAT entry says.
LEMMA WrittenBlockOK ==
  ASSUME BaseInv, NEW f \in Files, NEW kind \in Kinds, NEW mark \in BOOLEAN,
         NodeStep(f, kind, mark), mark => parentSaved
  PROVE  BlockOK(NodeBlock(f, kind, mark))
<1> DEFINE b == NodeBlock(f, kind, mark)
<1>1. TypeInv /\ WriteNode(f, kind, mark) /\ kind \in dirty[f]
  BY DEF BaseInv, NodeStep
<1>2. /\ b.file = f /\ b.kind = kind /\ b.val = mem[f][kind] /\ b.fsync = mark
      /\ b.dent = (mark /\ kind = "inode" /\ ~nat[f].ckpt /\ ~nat[f].fsynced)
  BY <1>1, NodeWritten
<1>3. /\ mem[f] \in FileRec /\ saved[f] \in FileRec /\ stamp \in Nat
  BY <1>1 DEF TypeInv
<1>4. /\ Exists(f) /\ WellFormed(mem[f]) /\ mem[f].inode <= stamp /\ mem[f].dnode <= stamp
      /\ saved[f].inode <= mem[f].inode /\ saved[f].dnode <= mem[f].dnode
      /\ kind = "dnode" => mem[f].dnode # 0
      /\ nat[f].ckpt <=> saved[f].linked
  BY <1>1 DEF BaseInv, ValuesInv, FlagsInv
<1>5. mem[f].inode \in 1..stamp /\ (kind = "dnode" => mem[f].dnode \in 1..stamp)
  BY <1>3, <1>4 DEF Exists, WellFormed, FileRec
<1>6. CASE kind = "inode"
  BY <1>2, <1>4, <1>5, <1>6 DEF BlockOK
<1>7. CASE kind = "dnode"
  BY <1>2, <1>4, <1>5, <1>7 DEF BlockOK
<1> QED BY <1>6, <1>7 DEF Kinds

LEMMA BlocksStep ==
  ASSUME BaseStep
  PROVE  BlocksInv'
<1>0. /\ TypeInv /\ BaseInv /\ BlocksInv /\ stamp \in Nat
      /\ \A p \in DOMAIN log : log[p] \in Block
  BY DEF BaseStep, BaseInv, TypeInv
<1>b. ASSUME UNCHANGED <<saved, parentSaved>>, stamp <= stamp', stamp' \in Nat, NEW b, BlockOK(b)
      PROVE  BlockOK(b)'
  BY <1>0, <1>b DEF BlockOK
<1>1. ASSUME UNCHANGED <<log, saved, parentSaved, medium>>, stamp <= stamp', stamp' \in Nat
      PROVE  BlocksInv'
  BY <1>0, <1>1, <1>b DEF BlocksInv, Positions
<1>2. CASE \E g \in Files : Create(g) \/ WriteData(g)
  <2>1. PICK g \in Files : Create(g) \/ WriteData(g)
    BY <1>2
  <2>2. UNCHANGED <<log, saved, parentSaved, medium>> /\ stamp' = stamp + 1
    BY <2>1 DEF Create, WriteData, Stamp, diskVars
  <2> QED BY <1>0, <1>1, <2>2
<1>3. CASE \/ \E g \in Files : Unlink(g) \/ TryToFreeNats(g)
           \/ \E t \in Threads : FsyncCheckInode(t) \/ FsyncFlush(t)
           \/ Quiet
  <2>1. UNCHANGED <<log, saved, parentSaved, medium, stamp>>
    BY <1>3 DEF Unlink, TryToFreeNats, FsyncCheckInode, FsyncFlush, Quiet, diskVars, runVars
  <2> QED BY <1>0, <1>1, <2>1
<1>4. ASSUME NEW g \in Files, NEW kind \in Kinds, NEW mark \in BOOLEAN, NodeStep(g, kind, mark),
             mark => parentSaved
      PROVE  BlocksInv'
  <2>1. /\ UNCHANGED <<saved, parentSaved, medium, stamp>>
        /\ Len(log) \in Nat /\ DOMAIN log = 1..Len(log) /\ DOMAIN log' = 1..(Len(log) + 1)
        /\ \A p \in DOMAIN log : log'[p] = log[p]
        /\ log'[Len(log) + 1] = NodeBlock(g, kind, mark)
    BY <1>0, <1>4, NodeStepped
  <2>2. BlockOK(NodeBlock(g, kind, mark))
    BY <1>0, <1>4, WrittenBlockOK
  <2>3. PICK b : b = NodeBlock(g, kind, mark)
    OBVIOUS
  <2>4. PICK lg : lg = log'
    OBVIOUS
  <2>5. \A p \in DOMAIN lg : BlockOK(lg[p])
    <3> TAKE p \in DOMAIN lg
    <3>1. p \in DOMAIN log \/ lg[p] = b
      BY <2>1, <2>3, <2>4
    <3> QED BY <1>0, <2>1, <2>2, <2>3, <2>4, <3>1 DEF BlocksInv, Positions
  <2>6. \A p \in DOMAIN lg : BlockOK(lg[p])'
    BY <1>0, <1>b, <2>1, <2>5
  <2>7. \A p \in DOMAIN log' : BlockOK(log[p])'
    BY <2>4, <2>6 DEF BlockOK
  <2>8. PICK m : m = medium
    OBVIOUS
  <2>9. \A p \in DOMAIN m : m[p] # NoBlock => BlockOK(m[p])'
    BY <1>0, <1>b, <2>1, <2>8 DEF BlocksInv, Positions
  <2>10. medium' = m
    BY <2>1, <2>8
  <2>11. \A p \in DOMAIN medium' : medium'[p] # NoBlock => BlockOK(medium[p])'
    BY <2>9, <2>10 DEF BlockOK
  <2> QED BY <2>7, <2>11 DEF BlocksInv, Positions
<1>5. CASE CheckpointStep
  BY <1>5 DEF CheckpointStep, CheckpointDone, BlocksInv, Positions
<1>6. CASE \E t \in Threads, kind \in Kinds :
              /\ fsync[t].pc = "nodes" /\ fsync[t].file \in Files
              /\ NodeStep(fsync[t].file, kind, TRUE)
  <2>1. PICK t \in Threads, kind \in Kinds :
              /\ fsync[t].pc = "nodes" /\ fsync[t].file \in Files
              /\ NodeStep(fsync[t].file, kind, TRUE)
    BY <1>6
  <2>2. parentSaved
    BY <1>0, <2>1 DEF BaseInv, CallsInv
  <2> QED BY <1>4, <2>1, <2>2
<1>7. CASE \E f \in Files, kind \in Kinds : NodeStep(f, kind, FALSE)
  BY <1>4, <1>7
<1> QED BY <1>2, <1>3, <1>5, <1>6, <1>7, BaseStepCases

\* A file of which a thread is in fsync() is not unlinked, and values only grow.
LEMMA FilesStay ==
  ASSUME BaseStep
  PROVE  /\ \A f \in Files : Exists(f) => Exists(f)' \/ Unlink(f)
         /\ stamp <= stamp' /\ stamp' \in Nat
         /\ parentSaved => parentSaved'
<1>0. TypeInv /\ stamp \in Nat /\ mem \in [Files -> FileRec]
  BY DEF BaseStep, BaseInv, TypeInv
<1>1. ASSUME UNCHANGED <<mem, stamp, parentSaved>>
      PROVE  /\ \A f \in Files : Exists(f) => Exists(f)'
             /\ stamp <= stamp' /\ stamp' \in Nat
             /\ parentSaved => parentSaved'
  BY <1>0, <1>1 DEF Exists
<1>2. CASE \E g \in Files : Create(g)
  <2>1. PICK g \in Files : Create(g)
    BY <1>2
  <2>2. /\ mem' = [mem EXCEPT ![g] = [linked |-> TRUE, inode |-> stamp + 1, dnode |-> 0]]
        /\ stamp' = stamp + 1 /\ UNCHANGED parentSaved
    BY <1>0, <2>1, Created DEF diskVars
  <2> QED BY <1>0, <2>2 DEF Exists
<1>3. CASE \E g \in Files : WriteData(g)
  <2>1. PICK g \in Files : WriteData(g)
    BY <1>3
  <2>2. /\ \A h \in Files : h # g => mem'[h] = mem[h]
        /\ mem'[g].linked /\ stamp' = stamp + 1 /\ UNCHANGED parentSaved
    BY <1>0, <2>1, DataWritten DEF diskVars
  <2> QED BY <1>0, <2>2 DEF Exists
<1>4. CASE \E g \in Files : Unlink(g)
  <2>1. PICK g \in Files : Unlink(g)
    BY <1>4
  <2>2. mem' = [mem EXCEPT ![g] = NoFile] /\ UNCHANGED <<stamp, parentSaved>>
    BY <2>1 DEF Unlink, diskVars
  <2> QED BY <1>0, <2>1, <2>2 DEF Exists
<1>5. CASE \/ \E g \in Files : TryToFreeNats(g)
           \/ \E t \in Threads : FsyncCheckInode(t) \/ FsyncFlush(t)
           \/ Quiet
  BY <1>1, <1>5 DEF TryToFreeNats, FsyncCheckInode, FsyncFlush, Quiet, memVars, diskVars, runVars
<1>6. ASSUME NEW g \in Files, NEW kind \in Kinds, NEW mark \in BOOLEAN, NodeStep(g, kind, mark)
      PROVE  UNCHANGED <<mem, stamp, parentSaved>>
  BY <1>0, <1>6, NodeStepped
<1>7. CASE CheckpointStep
  BY <1>0, <1>7 DEF CheckpointStep, CheckpointDone, Exists
<1> QED BY <1>1, <1>2, <1>3, <1>4, <1>5, <1>6, <1>7, BaseStepCases

\* What a step adds to the promises.
LEMMA PromiseSteps ==
  ASSUME BaseStep
  PROVE  \/ UNCHANGED promise
         \/ \E f \in Files : promise' = [promise EXCEPT ![f] = NoPromise]
         \/ \E f \in Files, v \in Values :
              Promise(f, v) /\ v.inode <= stamp /\ v.dnode <= stamp
<1>0. /\ TypeInv /\ ValuesInv /\ CallsInv /\ mem \in [Files -> FileRec]
      /\ fsync \in [Threads -> FsyncRec]
      /\ \A t \in Threads : fsync[t].pc # "idle" => fsync[t].file \in Files
  BY DEF BaseStep, BaseInv, TypeInv, FsyncRec
<1>1. ASSUME NEW f \in Files, FileStep(f)
      PROVE  UNCHANGED promise \/ promise' = [promise EXCEPT ![f] = NoPromise]
  BY <1>1 DEF FileStep, Create, WriteData, Unlink, TryToFreeNats, WriteBack, runVars
<1>2. ASSUME NEW t \in Threads, NEW f \in Files, FsyncSkip(t, f)
      PROVE  \E v \in Values : Promise(f, v) /\ v.inode <= stamp /\ v.dnode <= stamp
  <2>1. Current(f) \in Values
    BY <1>0 DEF Current, Values, FileRec
  <2>2. Current(f).inode <= stamp /\ Current(f).dnode <= stamp
    BY <1>0 DEF Current, ValuesInv
  <2> QED BY <1>2, <2>1, <2>2 DEF FsyncSkip
<1>3. ASSUME NEW t \in Threads, FsyncReturn(t), fsync[t].pc # "idle"
      PROVE  \E f \in Files, v \in Values : Promise(f, v) /\ v.inode <= stamp /\ v.dnode <= stamp
  <2>1. fsync[t].file \in Files /\ fsync[t].start \in Values
    BY <1>0, <1>3 DEF FsyncRec
  <2> QED BY <1>0, <1>3, <2>1 DEF FsyncReturn, CallsInv
<1>4. ASSUME NEW t \in Threads, FsyncStep(t)
      PROVE  \/ UNCHANGED promise
             \/ \E f \in Files, v \in Values : Promise(f, v) /\ v.inode <= stamp /\ v.dnode <= stamp
  <2>1. CASE \E f \in Files : FsyncSkip(t, f)
    BY <1>2, <2>1
  <2>2. CASE FsyncCheckpoint(t) \/ FsyncDone(t)
    BY <1>3, <2>2 DEF FsyncCheckpoint, FsyncDone
  <2>3. CASE \/ \E f \in Files : FsyncStart(t, f)
             \/ \E kind \in Kinds : FsyncWriteNode(t, kind)
             \/ FsyncCheckInode(t) \/ FsyncFlush(t) \/ FsyncWake(t)
    BY <2>3 DEF FsyncStart, FsyncWriteNode, FsyncCheckInode, FsyncFlush, FsyncWake, runVars
  <2> QED BY <1>4, <2>1, <2>2, <2>3 DEF FsyncStep
<1>5. ASSUME FlusherTake \/ FlusherDone \/ FlusherStep \/ (\E p \in inFlight : WriteEnd(p)) \/ Checkpoint
      PROVE  UNCHANGED promise
  BY <1>5 DEF FlusherTake, FlusherDone, FlusherStep, WriteEnd, Checkpoint, runVars
<1>6. ~PowerFail /\ ~Mount /\ [Next]_vars
  BY DEF BaseStep, PowerFail, Mount
<1>7. UNCHANGED vars => UNCHANGED promise
  BY DEF vars, runVars
<1> QED BY <1>1, <1>4, <1>5, <1>6, <1>7 DEF Next

LEMMA CallsStep ==
  ASSUME BaseStep
  PROVE  CallsInv'
<1>0. /\ TypeInv /\ ValuesInv /\ CallsInv /\ stamp \in Nat
      /\ mem \in [Files -> FileRec] /\ fsync \in [Threads -> FsyncRec]
      /\ promise \in [Files -> Values] /\ promise' \in [Files -> Values]
      /\ [Next]_vars /\ phase = "up" /\ phase' = "up"
      /\ \A t \in Threads : fsync[t].pc # "idle" => fsync[t].file \in Files
  BY DEF BaseStep, BaseInv, TypeInv, FsyncRec
<1>s. /\ \A f \in Files : Exists(f) => Exists(f)' \/ Unlink(f)
      /\ stamp <= stamp' /\ stamp' \in Nat
      /\ parentSaved => parentSaved'
  BY FilesStay
<1>1. ASSUME NEW f \in Files PROVE promise'[f].inode <= stamp' /\ promise'[f].dnode <= stamp'
  <2>1. /\ promise[f].inode \in Nat /\ promise[f].dnode \in Nat
        /\ promise[f].inode <= stamp /\ promise[f].dnode <= stamp
    BY <1>0 DEF Values, CallsInv
  <2>2. CASE promise'[f] = promise[f]
    BY <1>0, <1>s, <2>1, <2>2
  <2>3. CASE promise'[f] = NoPromise
    BY <1>s, <2>3 DEF NoPromise
  <2>4. ASSUME NEW v \in Values, Promise(f, v), v.inode <= stamp, v.dnode <= stamp
        PROVE  promise'[f].inode <= stamp' /\ promise'[f].dnode <= stamp'
    <3>1. /\ promise'[f].inode = IF promise[f].inode <= v.inode THEN v.inode ELSE promise[f].inode
          /\ promise'[f].dnode = IF promise[f].dnode <= v.dnode THEN v.dnode ELSE promise[f].dnode
      BY <1>0, <2>4, PromiseValues
    <3>2. v.inode \in Nat /\ v.dnode \in Nat
      BY DEF Values
    <3> QED BY <1>0, <1>s, <2>1, <2>4, <3>1, <3>2
  <2>5. ASSUME NEW g \in Files, g # f, NEW v \in Values, Promise(g, v)
        PROVE  promise'[f] = promise[f]
    BY <1>0, <2>5, PromiseValues
  <2>6. ASSUME NEW g \in Files, promise' = [promise EXCEPT ![g] = NoPromise]
        PROVE  promise'[f] = promise[f] \/ promise'[f] = NoPromise
    BY <1>0, <2>6
  <2> QED BY <2>2, <2>3, <2>4, <2>5, <2>6, PromiseSteps
<1>2. ASSUME NEW t \in Threads, fsync'[t].pc # "idle"
      PROVE  /\ Exists(fsync[t].file)'
             /\ fsync'[t].start.inode <= stamp' /\ fsync'[t].start.dnode <= stamp'
             /\ fsync'[t].pc = "nodes" => parentSaved'
  <2> DEFINE Goal == /\ Exists(fsync[t].file)'
                     /\ fsync'[t].start.inode <= stamp' /\ fsync'[t].start.dnode <= stamp'
                     /\ fsync'[t].pc = "nodes" => parentSaved'
  <2>1. ASSUME fsync[t].pc # "idle", fsync'[t].file = fsync[t].file, fsync'[t].start = fsync[t].start,
               fsync'[t].pc = "nodes" => fsync[t].pc = "nodes"
        PROVE  Goal
    <3>1. fsync[t].file \in Files /\ Exists(fsync[t].file)
      BY <1>0, <2>1 DEF CallsInv
    <3>2. ~Unlink(fsync[t].file)
      BY <3>1 DEF Unlink, Fsyncing
    <3>3. Exists(fsync[t].file)'
      BY <1>s, <2>1, <3>1, <3>2 DEF Exists
    <3>4. fsync[t].start \in Values
      BY <1>0 DEF FsyncRec
    <3>5. fsync[t].start.inode \in Nat /\ fsync[t].start.dnode \in Nat
      BY <3>4 DEF Values
    <3>6. /\ fsync[t].start.inode <= stamp /\ fsync[t].start.dnode <= stamp
          /\ fsync[t].pc = "nodes" => parentSaved
      BY <1>0, <2>1 DEF CallsInv
    <3> QED BY <1>0, <1>s, <2>1, <3>3, <3>5, <3>6
  <2>2. CASE fsync'[t] = fsync[t]
    BY <1>2, <2>1, <2>2
  <2>3. CASE \E f \in Files : FsyncStart(t, f)
    <3>1. PICK f \in Files : FsyncStart(t, f)
      BY <2>3
    <3>2. /\ fsync'[t].file = f /\ fsync'[t].start = Current(f)
          /\ fsync'[t].pc = "nodes" => parentSaved
          /\ Exists(f) /\ UNCHANGED <<mem, stamp, parentSaved>>
      BY <1>0, <3>1 DEF FsyncStart, FsyncBegins, NeedDoCheckpoint, memVars, diskVars, runVars
    <3>3. Current(f).inode <= stamp /\ Current(f).dnode <= stamp
      BY <1>0 DEF Current, ValuesInv
    <3> QED BY <3>2, <3>3 DEF Exists
  <2>4. CASE \E kind \in Kinds : FsyncWriteNode(t, kind)
    <3>1. PICK kind \in Kinds : FsyncWriteNode(t, kind)
      BY <2>4
    <3>2. fsync' = [fsync EXCEPT ![t].todo = @ \ {kind}] /\ fsync[t].pc = "nodes"
      BY <3>1 DEF FsyncWriteNode
    <3> QED BY <1>0, <2>1, <3>2 DEF FsyncRec
  <2>5. CASE FsyncCheckInode(t)
    <3>1. /\ fsync[t].pc = "nodes"
          /\ \/ fsync' = [fsync EXCEPT ![t].todo = Kinds]
             \/ fsync' = [fsync EXCEPT ![t].pc = "wait"]
      BY <2>5 DEF FsyncCheckInode, Goto
    <3> QED BY <1>0, <2>1, <3>1 DEF FsyncRec
  <2>6. CASE FsyncFlush(t)
    <3>1. fsync[t].pc = "wait" /\ fsync' = [fsync EXCEPT ![t].pc = "flush"]
      BY <2>6 DEF FsyncFlush, Goto
    <3> QED BY <1>0, <2>1, <3>1 DEF FsyncRec
  <2>7. fsync'[t] # Idle
    BY <1>2 DEF Idle
  <2> QED BY <1>0, <2>2, <2>3, <2>4, <2>5, <2>6, <2>7, ThreadCases
<1> QED BY <1>1, <1>2 DEF CallsInv

LEMMA BaseUpStep ==
  ASSUME BaseStep
  PROVE  BaseInv'
<1>1. TypeInv /\ RequestInv /\ TypeInv' /\ [Next]_vars /\ NoLostWakeup
  BY DEF BaseStep, BaseInv, RequestInv
<1>2. NoLostWakeup'
  BY <1>1, WakeupStep
<1>3. RequestStep
  <2>1. CASE UNCHANGED vars
    BY <2>1 DEF vars, RequestStep
  <2>2. CASE Next
    <3>1. ~PowerFail /\ ~Mount
      BY DEF BaseStep, PowerFail, Mount
    <3> QED BY <1>1, <2>2, <3>1, RequestSteps
  <2> QED BY <1>1, <2>1, <2>2
<1>4. RequestInv'
  BY <1>1, <1>2, <1>3, RequestInvStep
<1>5. phase' = "up"
  BY DEF BaseStep
<1> QED BY <1>1, <1>4, <1>5, ValuesStep, FlagsStep, BlocksStep, CallsStep DEF BaseInv, MountSucceeds

\* The device may keep any of its cache.
LEMMA BasePowerFail ==
  ASSUME BaseInv, PowerFail, TypeInv'
  PROVE  BaseInv'
<1>0. /\ TypeInv /\ ValuesInv /\ BlocksInv /\ CallsInv /\ stamp \in Nat
      /\ log \in Seq(Block) /\ medium \in Seq(Block \cup {NoBlock})
  BY DEF BaseInv, TypeInv
<1>1. /\ UNCHANGED <<saved, parentSaved, promise, stamp>> /\ phase' = "down"
      /\ log' = <<>>
      /\ \A f \in Files : mem'[f] = NoFile /\ dirty'[f] = {} /\ nat'[f] = NoNat /\ ~append'[f]
      /\ \A t \in Threads : fsync'[t] = Idle /\ request'[t] = "none"
      /\ issueList' = {} /\ dispatchList' = {} /\ completed' = {} /\ flusher' = "awake"
  BY DEF PowerFail
<1>2. Stopped'
  BY <1>1 DEF Stopped
<1>3. RequestInv'
  BY <1>1 DEF RequestInv, NoLostWakeup, Idle
<1>4. ValuesInv'
  BY <1>0, <1>1 DEF ValuesInv, WellFormed, NoFile, Exists
<1>5. FlagsInv'
  BY <1>1 DEF FlagsInv, NoNat, NoFile, Exists
<1>6. CallsInv'
  BY <1>0, <1>1 DEF CallsInv, Idle
<1>7. BlocksInv'
  <2>1. PICK kept \in KeptBlocks : medium' = MediumWith(kept)
    BY DEF PowerFail
  <2>2. kept \subseteq DOMAIN log
    <3>1. CASE OrderedWrites
      <4>1. PICK n \in 0..Len(log) : kept = 1..n
        BY <2>1, <3>1 DEF KeptBlocks
      <4> QED BY <1>0, <4>1
    <3>2. CASE ~OrderedWrites
      BY <2>1, <3>2 DEF KeptBlocks, Positions
    <3> QED BY <3>1, <3>2
  <2>3. PICK m : m = MediumWith(kept)
    OBVIOUS
  <2>4. \A p \in DOMAIN m :
           m[p] = IF p \in durable \cup kept THEN log[p]
                  ELSE IF p \in DOMAIN medium THEN medium[p] ELSE NoBlock
    BY <1>0, <2>2, <2>3, MediumWithFacts
  <2>5. durable \subseteq DOMAIN log
    BY <1>0 DEF TypeInv, Positions
  <2>6. \A p \in DOMAIN m : m[p] # NoBlock => BlockOK(m[p])
    <3> SUFFICES ASSUME NEW p \in DOMAIN m, m[p] # NoBlock PROVE BlockOK(m[p])
      OBVIOUS
    <3>1. CASE p \in durable \cup kept
      BY <1>0, <2>2, <2>4, <2>5, <3>1 DEF BlocksInv, Positions
    <3>2. CASE p \notin durable \cup kept
      BY <1>0, <2>4, <3>2 DEF BlocksInv, Positions
    <3> QED BY <3>1, <3>2
  <2>7. \A p \in DOMAIN m : m[p] # NoBlock => BlockOK(m[p])'
    BY <1>1, <2>6 DEF BlockOK
  <2>8. \A p \in DOMAIN medium' : medium'[p] # NoBlock => BlockOK(medium[p])'
    BY <2>1, <2>3, <2>7 DEF BlockOK
  <2> QED BY <1>1, <2>8 DEF BlocksInv, Positions
<1> QED BY <1>1, <1>2, <1>3, <1>4, <1>5, <1>6, <1>7 DEF BaseInv, MountSucceeds

\* A file that a mount brings back is one that the checkpoint or a dentry mark has, and
\* no older than in the checkpoint.
LEMMA FileRecovered ==
  ASSUME TypeInv, ValuesInv, NEW c, NEW n \in Nat, DOMAIN c \subseteq 1..n,
         \A p \in DOMAIN c : c[p] \in Block /\ BlockOK(c[p]), NEW f \in Files
  PROVE  LET r == AfterMount(c)[f]
         IN  /\ WellFormed(r)
             /\ saved[f].inode <= r.inode /\ r.inode <= stamp
             /\ saved[f].dnode <= r.dnode /\ r.dnode <= stamp
<1>1. /\ saved[f].linked \in BOOLEAN /\ saved[f].inode \in Nat /\ saved[f].dnode \in Nat
      /\ stamp \in Nat
      /\ WellFormed(saved[f]) /\ saved[f].inode <= stamp /\ saved[f].dnode <= stamp
  BY DEF TypeInv, FileRec, ValuesInv
<1>w. saved[f].linked <=> saved[f].inode # 0
  BY <1>1 DEF WellFormed
<1>2. PICK marks, D : marks = Marked(c, f) /\ D = FsyncDnodes(c, f)
  OBVIOUS
<1>3. \A p : p \in marks <=> p \in DOMAIN c /\ c[p].file = f /\ c[p].fsync
  BY <1>2 DEF Marked, Positions
<1>4. D = IF saved[f].linked THEN marks
          ELSE {p \in marks : \E q \in Dentries(c, marks) : q <= p}
  BY <1>2, <1>w DEF FsyncDnodes
<1>5. CASE D = {}
  <2>1. AfterMount(c)[f] = saved[f]
    BY <1>2, <1>5 DEF AfterMount, InodeList
  <2> QED BY <1>1, <2>1
<1>6. CASE D # {}
  <2> DEFINE ino == Inodes(c, D)
             RD == RecoveredDnodes(c, f, D)
             i == LastVal(c, ino, saved[f].inode)
             d == LastVal(c, RD, saved[f].dnode)
             r == RecoveredFile(c, f, D)
  <2>0. D \subseteq DOMAIN c
    BY <1>3, <1>4
  <2>1. /\ ino \in SUBSET DOMAIN c /\ RD \in SUBSET DOMAIN c
        /\ \A p \in ino : p \in D /\ c[p].file = f /\ c[p].kind = "inode"
        /\ \A p \in RD : c[p].file = f /\ c[p].kind = "dnode"
    BY <1>3, <1>4, <2>0 DEF Inodes, RecoveredDnodes, Positions
  <2>2. r.linked = (saved[f].linked \/ Dentries(c, D) # {}) /\ r.inode = i /\ r.dnode = d
    BY DEF RecoveredFile
  <2> HIDE DEF ino, RD, r
  <2>3. /\ ino = {} => i = saved[f].inode
        /\ ino # {} => \E p \in ino : i = c[p].val
        /\ RD = {} => d = saved[f].dnode
        /\ RD # {} => \E p \in RD : d = c[p].val
    <3>1. \A S \in SUBSET DOMAIN c, old \in Nat :
             /\ S = {} => LastVal(c, S, old) = old
             /\ S # {} => MaxOf(S) \in S /\ LastVal(c, S, old) = c[MaxOf(S)].val
      BY LastValFacts
    <3> QED BY <1>1, <2>1, <3>1
  <2> HIDE DEF i, d
  <2>4. /\ \A p \in ino : c[p].val \in 1..stamp /\ saved[f].inode <= c[p].val
        /\ \A p \in RD : c[p].val \in 1..stamp /\ saved[f].dnode <= c[p].val
    BY <2>1 DEF BlockOK
  <2>5. saved[f].dnode <= d /\ d <= stamp
    BY <1>1, <2>3, <2>4
  <2>6. saved[f].inode <= i /\ i <= stamp /\ (ino # {} => i # 0)
    BY <1>1, <2>3, <2>4
  <2>7. ~saved[f].linked => Dentries(c, D) # {}
    <3> SUFFICES ASSUME ~saved[f].linked PROVE Dentries(c, D) # {}
      OBVIOUS
    <3>1. PICK q \in Dentries(c, marks) : TRUE
      BY <1>4, <1>6
    <3>2. q \in marks /\ q \in Nat /\ q \in Dentries(c, marks) /\ c[q].kind = "inode" /\ c[q].dent
      BY <1>3, <3>1 DEF Dentries
    <3>3. q \in D
      BY <1>4, <3>2
    <3> QED BY <3>2, <3>3 DEF Dentries
  <2>8. Dentries(c, D) # {} => ino # {}
    BY DEF Dentries, Inodes, ino
  <2>9. r.linked /\ i # 0
    BY <1>1, <1>w, <2>2, <2>3, <2>6, <2>7, <2>8
  <2>10. AfterMount(c)[f] = r
    BY <1>2, <1>6 DEF AfterMount, InodeList, r
  <2> QED BY <2>2, <2>5, <2>6, <2>9, <2>10 DEF WellFormed
<1> QED BY <1>5, <1>6

\* The mount finds no dentry mark on an inode that the checkpoint has, and the directory.
LEMMA BaseMount ==
  ASSUME BaseInv, Mount, TypeInv'
  PROVE  BaseInv' /\ phase' = "up" /\ mem' = AfterMount(ChainOf(medium))
<1>0. /\ TypeInv /\ ValuesInv /\ BlocksInv /\ CallsInv /\ RequestInv /\ Stopped /\ stamp \in Nat
  BY DEF BaseInv, TypeInv, Mount
<1>1. PICK c : c = ChainOf(medium)
  OBVIOUS
<1>2. /\ DOMAIN c \subseteq 1..Len(medium) /\ Len(medium) \in Nat
      /\ \A p \in DOMAIN c : p \in DOMAIN medium /\ c[p] = medium[p] /\ c[p] \in Block
  <2>1. medium \in Seq(Block \cup {NoBlock}) /\ Len(medium) \in Nat /\ DOMAIN medium = 1..Len(medium)
    BY <1>0 DEF TypeInv
  <2> QED BY <1>1, <2>1, ChainFacts
<1>b. NoBlock \notin Block
  BY RecoveryAssumption DEF NoBlock, Block
<1>3. \A p \in DOMAIN c : c[p] \in Block /\ BlockOK(c[p])
  BY <1>0, <1>2, <1>b DEF BlocksInv, Positions
<1>4. \A f \in Files : saved[f].linked <=> saved[f].inode # 0
  BY <1>0 DEF ValuesInv, WellFormed
<1>d. \A f \in Files : FsyncDnodes(c, f) \subseteq Marked(c, f)
  BY DEF FsyncDnodes
<1>5. ~FindFails(c)
  <2> SUFFICES ASSUME NEW f \in Files, saved[f].inode # 0, NEW p \in Dentries(c, Marked(c, f)) PROVE FALSE
    BY DEF FindFails, InodeList
  <2>1. p \in DOMAIN c /\ c[p].file = f /\ c[p].dent
    BY DEF Dentries, Marked, Positions
  <2> QED BY <1>3, <1>4, <2>1 DEF BlockOK
<1>6. ~RecoverDentryFails(c)
  <2> SUFFICES ASSUME ~parentSaved, NEW f \in Files, NEW p \in Dentries(c, FsyncDnodes(c, f)) PROVE FALSE
    BY DEF RecoverDentryFails, InodeList
  <2>1. p \in Marked(c, f) /\ c[p].dent
    BY <1>d DEF Dentries
  <2>2. p \in DOMAIN c
    BY <2>1 DEF Marked, Positions
  <2> QED BY <1>3, <2>1, <2>2 DEF BlockOK
<1>7. /\ phase' = "up" /\ mem' = AfterMount(c) /\ saved' = mem'
      /\ medium' = IF InodeList(c) = {} THEN medium ELSE <<>>
      /\ UNCHANGED <<dirty, nat, append, parentSaved, log, fsync, promise, stamp, flushVars>>
  BY <1>1, <1>5, <1>6 DEF Mount
<1>8. \A f \in Files : /\ WellFormed(mem'[f]) /\ mem'[f].inode <= stamp /\ mem'[f].dnode <= stamp
                       /\ mem'[f].inode \in Nat /\ mem'[f].dnode \in Nat
  <2> TAKE f \in Files
  <2>1. mem'[f] \in FileRec
    BY DEF TypeInv
  <2>2. PICK r : r = AfterMount(c)[f]
    OBVIOUS
  <2>3. WellFormed(r) /\ r.inode <= stamp /\ r.dnode <= stamp
    BY <1>0, <1>2, <1>3, <2>2, FileRecovered
  <2> QED BY <1>7, <2>1, <2>2, <2>3 DEF FileRec
<1>9. ValuesInv'
  BY <1>0, <1>7, <1>8 DEF ValuesInv, Stopped, Exists
<1>10. FlagsInv'
  BY <1>0, <1>7 DEF FlagsInv, Stopped, NoNat, Exists
<1>11. CallsInv'
  BY <1>0, <1>7 DEF CallsInv, Stopped, Idle
<1>12. RequestInv'
  BY <1>0, <1>7 DEF RequestInv, NoLostWakeup, flushVars
<1>13. BlocksInv'
  <2>1. CASE InodeList(c) # {}
    BY <1>0, <1>7, <2>1 DEF BlocksInv, Stopped, Positions
  <2>2. CASE InodeList(c) = {}
    <3>1. saved' = saved /\ medium' = medium
      <4>1. saved \in [Files -> FileRec]
        BY <1>0 DEF TypeInv
      <4>2. AfterMount(c) = saved
        BY <2>2, <4>1 DEF AfterMount
      <4> QED BY <1>7, <2>2, <4>2
    <3> QED BY <1>0, <1>7, <3>1 DEF BlocksInv, Stopped, Positions, BlockOK
  <2> QED BY <2>1, <2>2
<1> QED BY <1>1, <1>7, <1>9, <1>10, <1>11, <1>12, <1>13 DEF BaseInv, MountSucceeds

LEMMA BaseInductive ==
  ASSUME BaseInv, [Next]_vars
  PROVE  BaseInv'
<1>0. TypeInv /\ TypeInv' /\ phase \in {"up", "down"}
  BY StepTyped DEF BaseInv, TypeInv, MountSucceeds
<1>1. CASE UNCHANGED vars
  BY <1>1 DEF vars, memVars, diskVars, runVars, flushVars, BaseInv, TypeInv, FlushTypeOK, Positions,
              RequestInv, NoLostWakeup, ValuesInv, WellFormed, Exists, FlagsInv, BlocksInv, BlockOK, CallsInv,
              Stopped, MountSucceeds
<1>2. CASE phase = "up" /\ phase' = "up"
  BY <1>0, <1>2, BaseUpStep DEF BaseStep
<1>3. CASE phase = "up" /\ phase' # "up"
  BY <1>0, <1>3, UpStays, BasePowerFail
<1>4. CASE phase = "down"
  <2>1. Mount \/ UNCHANGED vars
    BY <1>0, <1>4, DownStays DEF BaseInv
  <2> QED BY <1>0, <1>1, <2>1, BaseMount
<1> QED BY <1>0, <1>1, <1>2, <1>3, <1>4

\* For any files and threads, any length of the log and any number of power failures: the
\* invariant of the files, the flags of their inodes and the blocks of the log that holds
\* whatever the device does with the order of its writes, with both races of fsync() and
\* with the blocks of a removed file behind the end of the log.
THEOREM BaseInvariance == Spec => []BaseInv
<1>1. Init => BaseInv
  <2> SUFFICES ASSUME Init PROVE BaseInv
    OBVIOUS
  <2>1. TypeInv /\ UpInv /\ phase = "up"
    BY InitTyped, InitUp DEF Init
  <2>2. /\ log = <<>> /\ medium = <<>> /\ stamp = 0
        /\ \A f \in Files : promise[f] = NoPromise
        /\ \A t \in Threads : fsync[t].pc = "idle"
    BY DEF Init, Idle
  <2>3. BlocksInv /\ CallsInv
    BY <2>2 DEF BlocksInv, CallsInv, Positions, NoPromise
  <2> QED BY <2>1, <2>3 DEF BaseInv, UpInv, FileInv, NatInv, MountSucceeds
<1>2. BaseInv /\ [Next]_vars => BaseInv'
  BY BaseInductive
<1> QED BY <1>1, <1>2, PTL DEF Spec

-----------------------------------------------------------------------------
(* What fsync() promises, without the races.                               *)

\* For any files and threads, any length of the log and any number of power failures, the
\* inductive invariant of fsync() and roll-forward recovery holds, when the device keeps
\* the order of the log's writes and neither race of fsync() nor the reuse of an inode
\* number that is still in the log happens.
THEOREM Invariance ==
  ASSUME NoRaces
  PROVE  Spec => []Inv
<1>1. Init => Inv
  BY InitTyped, InitUp DEF Inv, Init, UpInv, RequestInv, MountSucceeds
<1>2. Inv /\ [Next]_vars => Inv'
  BY InvInductive
<1> QED BY <1>1, <1>2, PTL DEF Spec

\* The thread that flushes the device never sleeps beside a request that nobody will wake
\* it for, whatever the device does with its writes and whichever races happen
\* (f2fs_issue_flush() and issue_flush_thread()).
THEOREM WakeupsNotLost == Spec => []NoLostWakeup
<1>1. Init => TypeInv /\ NoLostWakeup
  BY InitTyped DEF Init, FlushInit, NoLostWakeup
<1>2. TypeInv /\ NoLostWakeup /\ [Next]_vars => (TypeInv /\ NoLostWakeup)'
  BY StepTyped, WakeupStep
<1> QED BY <1>1, <1>2, PTL DEF Spec

\* No mount fails after a power failure: recover_fsync_data() finds no dentry mark on an
\* inode that the checkpoint has and misses no directory, whatever the device does with the
\* order of the writes and whichever races happen.
THEOREM MountsSucceed == Spec => []MountSucceeds
<1>1. BaseInv => MountSucceeds
  BY DEF BaseInv
<1> QED BY <1>1, BaseInvariance, PTL

LEMMA MountBrings ==
  ASSUME Inv, [Next]_vars, phase = "down", phase' = "up", NEW f \in Files
  PROVE  Survived(f, mem'[f]) /\ mem'[f] \in FileRec /\ promise[f] \in Values /\ saved[f] \in FileRec
<1>1. TypeInv /\ DownInv /\ TypeInv'
  BY StepTyped DEF Inv
<1>2. Mount
  <2>1. Mount \/ UNCHANGED vars
    BY <1>1, DownStays DEF DownInv
  <2>2. UNCHANGED vars => phase' = phase
    BY DEF vars, runVars
  <2> QED BY <2>1, <2>2
<1>3. mem' = AfterMount(ChainOf(medium))
  BY <1>1, <1>2, MountStep
<1>4. Survived(f, AfterMount(ChainOf(medium))[f])
  BY <1>1 DEF DownInv, Stopped
<1> QED BY <1>1, <1>3, <1>4 DEF TypeInv

\* What fsync() returned for is there after a power failure and the next mount, whatever
\* part of the cache of the device was lost (f2fs_sync_file(), recover_data()).
THEOREM FsyncSurvives ==
  ASSUME NoRaces
  PROVE  Spec => FsyncedDataSurvives
<1> DEFINE Survives ==
      phase = "down" /\ phase' = "up" =>
         \A f \in Files : promise[f] # NoPromise =>
            /\ mem'[f].linked
            /\ mem'[f].dnode >= promise[f].dnode
            /\ promise[f].dnode = 0 => mem'[f].dnode \notin 1..promise[f].inode
<1>1. Inv /\ [Next]_vars => Survives
  <2> SUFFICES ASSUME Inv, [Next]_vars, phase = "down", phase' = "up", NEW f \in Files, promise[f] # NoPromise
               PROVE  /\ mem'[f].linked
                      /\ mem'[f].dnode >= promise[f].dnode
                      /\ promise[f].dnode = 0 => mem'[f].dnode \notin 1..promise[f].inode
    OBVIOUS
  <2>1. Survived(f, mem'[f]) /\ mem'[f] \in FileRec /\ promise[f] \in Values
    BY MountBrings
  <2>2. mem'[f].dnode \in Nat /\ promise[f].dnode \in Nat
    BY <2>1 DEF FileRec, Values
  <2> QED BY <2>1, <2>2 DEF Survived
<1>2. FsyncedDataSurvives <=> [][Survives]_vars
  BY DEF FsyncedDataSurvives
<1> HIDE DEF Survives
<1> QED BY <1>1, <1>2, Invariance, PTL DEF Spec

\* A mount takes no file behind the last checkpoint and brings back no name without its
\* inode and no data without a name (recover_inode_page(), do_recover_data()), whatever
\* the device does with the order of the writes and whichever races happen.
THEOREM RollForward == Spec => RollsForward
<1> DEFINE Forward ==
      phase = "down" /\ phase' = "up" =>
         \A f \in Files :
            /\ mem'[f].inode >= saved[f].inode /\ mem'[f].dnode >= saved[f].dnode
            /\ mem'[f].linked = (mem'[f].inode # 0)
            /\ mem'[f].dnode # 0 => mem'[f].linked
<1>1. BaseInv /\ [Next]_vars => Forward
  <2> SUFFICES ASSUME BaseInv, [Next]_vars, phase = "down", phase' = "up", NEW f \in Files
               PROVE  /\ mem'[f].inode >= saved[f].inode /\ mem'[f].dnode >= saved[f].dnode
                      /\ mem'[f].linked = (mem'[f].inode # 0)
                      /\ mem'[f].dnode # 0 => mem'[f].linked
    OBVIOUS
  <2>1. TypeInv /\ TypeInv' /\ Stopped /\ BaseInv'
    BY StepTyped, BaseInductive DEF BaseInv
  <2>2. Mount
    <3>1. Mount \/ UNCHANGED vars
      BY <2>1, DownStays
    <3>2. UNCHANGED vars => phase' = phase
      BY DEF vars, runVars
    <3> QED BY <3>1, <3>2
  <2>3. PICK r, c : c = ChainOf(medium) /\ r = AfterMount(c)[f]
    OBVIOUS
  <2>4. mem'[f] = r
    BY <2>1, <2>2, <2>3, BaseMount
  <2>5. WellFormed(r) /\ saved[f].inode <= r.inode /\ saved[f].dnode <= r.dnode
    <3>1. BlocksInv /\ ValuesInv
      BY DEF BaseInv
    <3>2. medium \in Seq(Block \cup {NoBlock}) /\ Len(medium) \in Nat /\ DOMAIN medium = 1..Len(medium)
      BY <2>1 DEF TypeInv
    <3>3. DOMAIN c \subseteq 1..Len(medium) /\ \A p \in DOMAIN c : c[p] = medium[p] /\ c[p] \in Block
      BY <2>3, <3>2, ChainFacts
    <3>4. NoBlock \notin Block
      BY RecoveryAssumption DEF NoBlock, Block
    <3>5. \A p \in DOMAIN c : c[p] \in Block /\ BlockOK(c[p])
      BY <3>1, <3>2, <3>3, <3>4 DEF BlocksInv, Positions
    <3> QED BY <2>1, <2>3, <3>1, <3>2, <3>3, <3>5, FileRecovered
  <2>6. mem'[f] \in FileRec /\ saved[f] \in FileRec
    BY <2>1 DEF TypeInv
  <2>7. /\ mem'[f].linked \in BOOLEAN /\ mem'[f].dnode \in Nat /\ saved[f].dnode \in Nat
        /\ mem'[f].inode \in Nat /\ saved[f].inode \in Nat
    BY <2>6 DEF FileRec
  <2> QED BY <2>4, <2>5, <2>7 DEF WellFormed
<1>2. RollsForward <=> [][Forward]_vars
  BY DEF RollsForward
<1> HIDE DEF Forward
<1> QED BY <1>1, <1>2, BaseInvariance, PTL DEF Spec

\* The variables have their types: no file has a value that was not given yet, and no
\* block is durable or covered by a flush while its write is in flight.
THEOREM TypeCorrect == Spec => []TypeOK
<1>1. BaseInv => TypeOK
  <2> SUFFICES ASSUME BaseInv PROVE TypeOK
    OBVIOUS
  <2>0. TypeInv /\ RequestInv /\ ValuesInv /\ CallsInv /\ stamp \in Nat
    BY DEF BaseInv, TypeInv
  <2>1. ASSUME NEW f \in Files
        PROVE  /\ {mem[f], saved[f]} \subseteq [linked : BOOLEAN, inode : 0..stamp, dnode : 0..stamp]
               /\ promise[f] \in [inode : 0..stamp, dnode : 0..stamp]
    <3>1. mem[f] \in FileRec /\ saved[f] \in FileRec /\ promise[f] \in Values
      BY <2>0 DEF TypeInv
    <3>2. /\ mem[f].inode \in Nat /\ mem[f].dnode \in Nat /\ saved[f].inode \in Nat /\ saved[f].dnode \in Nat
          /\ promise[f].inode \in Nat /\ promise[f].dnode \in Nat
      BY <3>1 DEF FileRec, Values
    <3>3. /\ mem[f].inode <= stamp /\ mem[f].dnode <= stamp
          /\ saved[f].inode <= stamp /\ saved[f].dnode <= stamp
          /\ promise[f].inode <= stamp /\ promise[f].dnode <= stamp
      BY <2>0 DEF ValuesInv, CallsInv
    <3>4. mem[f] \in [linked : BOOLEAN, inode : 0..stamp, dnode : 0..stamp]
      BY <2>0, <3>1, <3>2, <3>3 DEF FileRec
    <3>5. saved[f] \in [linked : BOOLEAN, inode : 0..stamp, dnode : 0..stamp]
      BY <2>0, <3>1, <3>2, <3>3 DEF FileRec
    <3>6. promise[f] \in [inode : 0..stamp, dnode : 0..stamp]
      BY <2>0, <3>1, <3>2, <3>3 DEF Values
    <3> QED BY <3>4, <3>5, <3>6
  <2>2. \A p \in Positions(log) : log[p].file \in Files /\ log[p].kind \in Kinds
    <3>1. \A p \in Positions(log) : log[p] \in Block
      BY <2>0 DEF TypeInv, Positions
    <3> QED BY <3>1 DEF Block
  <2>3. ASSUME NEW t \in Threads
        PROVE  /\ fsync[t].pc \in {"idle", "checkpoint", "nodes", "wait", "flush"}
               /\ fsync[t].pc # "idle" => fsync[t].file \in Files
               /\ (request[t] # "none") = (fsync[t].pc = "flush")
    <3>1. fsync[t].pc = "flush" <=> request[t] # "none"
      BY <2>0 DEF RequestInv
    <3> QED BY <2>0, <3>1 DEF TypeInv
  <2> QED BY <2>0, <2>1, <2>2, <2>3 DEF TypeOK, TypeInv, NatEntry
<1> QED BY <1>1, BaseInvariance, PTL
-----------------------------------------------------------------------------
(* The names, with data written late and stale blocks.                     *)

\* A step while the file system is up and stays up, and no fsync() overlaps another.
NameStep ==
  /\ BaseStep /\ NameInv /\ ~Overlaps

\* A name stays where it is while the log goes on and the set grows.
LEMMA NameStays ==
  ASSUME NEW f \in Files, NEW S, NEW S2, NameAt(f, S), S \subseteq S2,
         saved' = saved, \A p \in DOMAIN log : p \in DOMAIN log' /\ log'[p] = log[p]
  PROVE  NameAt(f, S2)'
BY DEF NameAt, PositionsOf, Positions

\* A step of the log: it goes on, or a checkpoint takes all files.
LEMMA LogGoesOn ==
  ASSUME BaseStep
  PROVE  \/ CheckpointStep
         \/ saved' = saved /\ \A p \in DOMAIN log : p \in DOMAIN log' /\ log'[p] = log[p]
<1>0. TypeInv
  BY DEF BaseStep, BaseInv
<1>1. CASE UNCHANGED <<saved, log>>
  BY <1>1
<1>2. CASE \E g \in Files, kind \in Kinds, mark \in BOOLEAN : NodeStep(g, kind, mark)
  BY <1>0, <1>2, NodeStepped
<1>3. CASE \/ \E g \in Files : Create(g) \/ WriteData(g) \/ Unlink(g) \/ TryToFreeNats(g)
           \/ Quiet \/ \E t \in Threads : FsyncCheckInode(t) \/ FsyncFlush(t)
  <2>1. UNCHANGED <<saved, log>>
    BY <1>3 DEF Create, WriteData, Unlink, TryToFreeNats, Quiet, FsyncCheckInode, FsyncFlush, diskVars
  <2> QED BY <1>1, <2>1
<1> QED BY <1>2, <1>3, BaseStepCases

\* A checkpoint has the name of each file there is.
LEMMA CheckpointNames ==
  ASSUME CheckpointStep, NEW f \in Files, Exists(f)
  PROVE  \A S : NameAt(f, S)'
BY DEF CheckpointStep, CheckpointDone, Exists, NameAt
\* fsync() of a file that comes to its end had the file made durable.
LEMMA FlushedNames ==
  ASSUME NameStep, NEW t \in Threads, FsyncDone(t)
  PROVE  /\ fsync[t].file \in Files /\ Exists(fsync[t].file) /\ NameAt(fsync[t].file, durable)
         /\ UNCHANGED <<memVars, diskVars>> /\ FsyncReturn(t)
<1>1. /\ fsync[t].pc = "flush" /\ t \in completed
      /\ UNCHANGED <<memVars, diskVars>> /\ FsyncReturn(t)
  BY DEF FsyncDone, FlushReturned
<1>2. TypeInv /\ RequestInv /\ CallsInv /\ NameInv
  BY DEF NameStep, BaseStep, BaseInv
<1>3. Stage(t) = durable
  BY <1>1, <1>2 DEF RequestInv, Stage
<1> QED BY <1>1, <1>2, <1>3 DEF NameInv, CallsInv, TypeInv

\* An inode that gets the mark in its NAT entry is written with the dentry mark.
LEMMA MarkWritten ==
  ASSUME TypeInv, FlagsInv, NEW f \in Files, NEW kind \in Kinds, NEW mark \in BOOLEAN,
         WriteNode(f, kind, mark), nat'[f].fsynced, ~nat'[f].ckpt, ~(nat[f].fsynced /\ ~nat[f].ckpt)
  PROVE  NodeBlock(f, kind, mark).file = f /\ NodeBlock(f, kind, mark).dent
<1>1. nat \in [Files -> NatEntry] /\ nat[f] \in NatEntry
  BY DEF TypeInv
<1>2. nat'[f] = NatAfter(f, kind, mark)
  BY <1>1 DEF WriteNode
<1>3. kind = "inode"
  <2> SUFFICES ASSUME kind = "dnode" PROVE FALSE
    BY DEF Kinds
  <2>1. nat'[f] = IF nat[f].cached THEN [nat[f] EXCEPT !.last = mark] ELSE NoNat
    BY <1>2 DEF NatAfter
  <2>2. nat[f].cached
    BY <2>1 DEF NoNat
  <2> QED BY <1>1, <2>1, <2>2 DEF NatEntry
<1>4. mark /\ ~nat[f].ckpt /\ ~nat[f].fsynced
  BY <1>1, <1>2, <1>3 DEF NatAfter
<1> QED BY <1>3, <1>4 DEF NodeBlock, DentryMark

\* A file whose inode has the mark in its NAT entry has its name in the log.
LEMMA MarkedNames ==
  ASSUME NameStep, NEW f \in Files, Exists(f)', nat'[f].fsynced, ~nat'[f].ckpt
  PROVE  NameAt(f, Positions(log))'
<1>0. /\ TypeInv /\ FlagsInv /\ nat[f] \in NatEntry
      /\ mem \in [Files -> FileRec] /\ nat \in [Files -> NatEntry]
      /\ durable \subseteq Positions(log)
      /\ Exists(f) /\ nat[f].fsynced /\ ~nat[f].ckpt =>
           NameAt(f, IF Fsyncing(f) = {} THEN durable ELSE Positions(log))
  BY DEF NameStep, BaseStep, BaseInv, TypeInv, NameInv
<1>1. Exists(f) /\ nat[f].fsynced /\ ~nat[f].ckpt => NameAt(f, Positions(log))
  BY <1>0 DEF NameAt
<1>2. ASSUME saved' = saved, \A p \in DOMAIN log : p \in DOMAIN log' /\ log'[p] = log[p],
             Exists(f), nat[f].fsynced, ~nat[f].ckpt
      PROVE  NameAt(f, Positions(log))'
  <2>1. PICK S, S2 : S = Positions(log) /\ S2 = Positions(log)'
    OBVIOUS
  <2>2. NameAt(f, S) /\ S \subseteq S2
    BY <1>1, <1>2, <2>1 DEF Positions
  <2>3. NameAt(f, S2)'
    BY <1>2, <2>2, NameStays
  <2> QED BY <2>1, <2>3 DEF NameAt
<1>3. CASE UNCHANGED <<saved, log>> /\ mem'[f].linked = mem[f].linked /\ nat'[f].fsynced = nat[f].fsynced
           /\ nat'[f].ckpt = nat[f].ckpt
  BY <1>2, <1>3 DEF Exists
<1>4. CASE \E g \in Files : Create(g)
  <2>1. PICK g \in Files : Create(g)
    BY <1>4
  <2>2. /\ mem' = [mem EXCEPT ![g] = [linked |-> TRUE, inode |-> stamp + 1, dnode |-> 0]]
        /\ nat' = [nat EXCEPT ![g] = NewNat(FALSE)]
        /\ UNCHANGED <<saved, log>>
    BY <1>0, <2>1, Created DEF diskVars
  <2> QED BY <1>0, <1>3, <2>2 DEF NewNat
<1>5. CASE \E g \in Files : WriteData(g)
  <2>1. PICK g \in Files : WriteData(g)
    BY <1>5
  <2>2. /\ mem[g].linked /\ mem'[g].linked
        /\ \A h \in Files : h # g => mem'[h] = mem[h] /\ nat'[h] = nat[h]
        /\ nat'[g].ckpt = nat[g].ckpt /\ nat'[g].fsynced = nat[g].fsynced
        /\ UNCHANGED <<saved, log>>
    BY <1>0, <2>1, DataWritten DEF diskVars
  <2> QED BY <1>3, <2>2
<1>6. CASE \E g \in Files : Unlink(g)
  <2>1. PICK g \in Files : Unlink(g)
    BY <1>6
  <2>2. /\ mem' = [mem EXCEPT ![g] = NoFile]
        /\ nat' = [nat EXCEPT ![g] = NewNat(nat[g].fsynced)]
        /\ UNCHANGED <<saved, log>>
    BY <2>1 DEF Unlink, diskVars
  <2> QED BY <1>0, <1>3, <2>2 DEF Exists, NoFile
<1>7. CASE \E g \in Files : TryToFreeNats(g)
  <2>1. PICK g \in Files : TryToFreeNats(g)
    BY <1>7
  <2>2. nat' = [nat EXCEPT ![g] = NoNat] /\ UNCHANGED <<mem, saved, log>>
    BY <2>1 DEF TryToFreeNats, diskVars
  <2> QED BY <1>0, <1>3, <2>2 DEF NoNat
<1>8. ASSUME NEW g \in Files, NEW kind \in Kinds, NEW mark \in BOOLEAN, NodeStep(g, kind, mark)
      PROVE  NameAt(f, Positions(log))'
  <2> DEFINE n == Len(log) + 1
  <2>1. /\ UNCHANGED <<mem, saved>>
        /\ \A h \in Files : h # g => nat'[h] = nat[h]
        /\ Len(log) \in Nat /\ DOMAIN log' = 1..n
        /\ \A p \in DOMAIN log : p \in DOMAIN log' /\ log'[p] = log[p]
        /\ log'[n] = NodeBlock(g, kind, mark)
    BY <1>0, <1>8, NodeStepped
  <2>2. CASE nat[f].fsynced /\ ~nat[f].ckpt
    BY <1>2, <2>1, <2>2 DEF Exists
  <2>3. CASE ~(nat[f].fsynced /\ ~nat[f].ckpt)
    <3>1. g = f
      BY <2>1, <2>3
    <3>2. WriteNode(f, kind, mark) /\ TypeInv /\ FlagsInv
      BY <1>0, <1>8, <3>1 DEF NodeStep
    <3>7. log'[n].file = f /\ log'[n].dent
      BY <2>1, <2>3, <3>1, <3>2, MarkWritten
    <3>8. n \in DOMAIN log'
      BY <2>1
    <3> HIDE DEF n
    <3> QED BY <3>7, <3>8 DEF NameAt, PositionsOf, Positions
  <2> QED BY <2>2, <2>3
<1>9. CASE CheckpointStep
  <2>1. Exists(f)
    BY <1>9 DEF CheckpointStep, Exists
  <2> QED BY <1>9, <2>1 DEF CheckpointStep, CheckpointDone, Exists, NameAt
<1>10. CASE Quiet \/ \E t \in Threads : FsyncCheckInode(t) \/ FsyncFlush(t)
  BY <1>3, <1>10 DEF Quiet, memVars, FsyncCheckInode, FsyncFlush, diskVars
<1> QED BY <1>4, <1>5, <1>6, <1>7, <1>8, <1>9, <1>10, BaseStepCases DEF NameStep
\* The name of a file that is durable stays so until it is unlinked.
LEMMA NameGoesOn ==
  ASSUME NameStep, NEW f \in Files, Exists(f), ~Unlink(f), NameAt(f, durable) \/ CheckpointStep
  PROVE  Exists(f)' /\ NameAt(f, durable)'
<1>0. BaseStep /\ [Next]_vars /\ phase = "up" /\ phase' = "up"
  BY DEF NameStep, BaseStep
<1>1. Exists(f)'
  BY <1>0, FilesStay
<1>2. PICK S, S2 : S = durable /\ S2 = durable'
  OBVIOUS
<1>3. NameAt(f, S2)'
  <2>1. CASE CheckpointStep
    BY <2>1, CheckpointNames
  <2>2. CASE ~CheckpointStep
    <3>1. S \subseteq S2
      BY <1>0, <1>2, <2>2, DurableGrows
    <3>2. saved' = saved /\ \A p \in DOMAIN log : p \in DOMAIN log' /\ log'[p] = log[p]
      BY <1>0, <2>2, LogGoesOn
    <3>3. NameAt(f, S)
      BY <1>2, <2>2
    <3> QED BY <3>1, <3>2, <3>3, NameStays
  <2> QED BY <2>1, <2>2
<1> QED BY <1>1, <1>2, <1>3 DEF NameAt

\* An inode that fsync() need not write again has its name in the checkpoint or the log.
LEMMA UpToDateNames ==
  ASSUME NameStep, NEW f \in Files, Exists(f), ~NeedInodeBlockUpdate(f)
  PROVE  NameAt(f, IF Fsyncing(f) = {} THEN durable ELSE Positions(log))
<1>1. FlagsInv /\ NameInv
  BY DEF NameStep, BaseStep, BaseInv
<1>2. nat[f].ckpt \/ nat[f].fsynced
  BY DEF NeedInodeBlockUpdate
<1>3. CASE nat[f].ckpt
  BY <1>1, <1>3 DEF FlagsInv, NameAt
<1>4. CASE nat[f].fsynced /\ ~nat[f].ckpt
  BY <1>1, <1>4 DEF NameInv
<1> QED BY <1>2, <1>3, <1>4

\* What fsync() promises a file for, has its name durable.
LEMMA PromisedNames ==
  ASSUME NameStep, NEW f \in Files, promise'[f] # NoPromise
  PROVE  Exists(f)' /\ NameAt(f, durable)'
<1>0. /\ TypeInv /\ NameInv /\ CallsInv /\ [Next]_vars /\ phase = "up" /\ phase' = "up"
      /\ promise \in [Files -> Values] /\ fsync \in [Threads -> FsyncRec]
  BY DEF NameStep, BaseStep, BaseInv, TypeInv, FsyncRec
<1>1. ~Unlink(f)
  BY <1>0 DEF Unlink
<1>2. CASE promise'[f] = promise[f]
  <2>1. Exists(f) /\ NameAt(f, durable)
    BY <1>0, <1>2 DEF NameInv
  <2> QED BY <1>1, <2>1, NameGoesOn
<1>3. ASSUME NEW g \in Files, NEW v \in Values, Promise(g, v)
      PROVE  g = f \/ promise'[f] = promise[f]
  BY <1>0, <1>3, PromiseValues
<1>4. CASE \E g \in Files : Unlink(g)
  BY <1>0, <1>1, <1>2, <1>4 DEF Unlink
<1>5. CASE \E t \in Threads, g \in Files : FsyncSkip(t, g)
  <2>1. PICK t \in Threads, g \in Files : FsyncSkip(t, g)
    BY <1>5
  <2>2. Promise(g, Current(g)) /\ Current(g) \in Values
    BY <1>0, <2>1 DEF FsyncSkip, Current, Values, TypeInv, FileRec
  <2>3. CASE g # f
    BY <1>2, <1>3, <2>2, <2>3
  <2>4. CASE g = f
    <3>1. Exists(f) /\ ~NeedInodeBlockUpdate(f) /\ fsync[t] = Idle /\ ~Overlap(t, f)
      BY <2>1, <2>4 DEF FsyncSkip, FsyncBegins, NothingWritten, NameStep
    <3>2. Fsyncing(f) = {}
      BY <3>1, RecoveryAssumption DEF Overlap, Fsyncing, Idle
    <3>3. NameAt(f, durable)
      BY <3>1, <3>2, UpToDateNames
    <3> QED BY <1>1, <3>1, <3>3, NameGoesOn
  <2> QED BY <2>3, <2>4
<1>6. CASE \E t \in Threads : FsyncCheckpoint(t) \/ FsyncDone(t)
  <2>1. PICK t \in Threads : FsyncCheckpoint(t) \/ FsyncDone(t)
    BY <1>6
  <2>2. /\ fsync[t].pc # "idle" /\ Promise(fsync[t].file, fsync[t].start)
        /\ fsync[t].start \in Values /\ fsync[t].file \in Files
    BY <1>0, <2>1 DEF FsyncCheckpoint, FsyncDone, FsyncReturn, TypeInv, FsyncRec
  <2>3. CASE fsync[t].file # f
    BY <1>2, <1>3, <2>2, <2>3
  <2>4. CASE fsync[t].file = f
    <3>1. Exists(f)
      BY <1>0, <2>2, <2>4 DEF CallsInv
    <3>2. NameAt(f, durable) \/ CheckpointStep
      BY <2>1, <2>4, FlushedNames DEF FsyncCheckpoint, CheckpointStep
    <3> QED BY <1>1, <3>1, <3>2, NameGoesOn
  <2> QED BY <2>3, <2>4
<1> QED BY <1>0, <1>2, <1>4, <1>5, <1>6, FsyncEnds
\* Nothing but fsync() of a file sets the mark in the NAT entry of its inode.
LEMMA MarkStays ==
  ASSUME NameStep, NEW f \in Files, Exists(f)', nat'[f].fsynced, ~nat'[f].ckpt,
         Fsyncing(f) = {}, ~CheckpointStep
  PROVE  Exists(f) /\ nat[f].fsynced /\ ~nat[f].ckpt /\ ~Unlink(f)
<1>0. /\ TypeInv /\ FlagsInv /\ BaseStep /\ nat[f] \in NatEntry
      /\ mem \in [Files -> FileRec] /\ nat \in [Files -> NatEntry]
  BY DEF NameStep, BaseStep, BaseInv, TypeInv
<1>u. ~Unlink(f)
  BY <1>0 DEF Unlink, Exists, NoFile
<1>1. CASE mem'[f].linked = mem[f].linked /\ nat'[f].fsynced = nat[f].fsynced /\ nat'[f].ckpt = nat[f].ckpt
  BY <1>u, <1>1 DEF Exists
<1>2. CASE \E g \in Files : Create(g)
  <2>1. PICK g \in Files : Create(g)
    BY <1>2
  <2>2. /\ mem' = [mem EXCEPT ![g] = [linked |-> TRUE, inode |-> stamp + 1, dnode |-> 0]]
        /\ nat' = [nat EXCEPT ![g] = NewNat(FALSE)]
    BY <1>0, <2>1, Created
  <2> QED BY <1>0, <1>1, <2>2 DEF NewNat
<1>3. CASE \E g \in Files : WriteData(g)
  <2>1. PICK g \in Files : WriteData(g)
    BY <1>3
  <2>2. /\ mem[g].linked /\ mem'[g].linked
        /\ \A h \in Files : h # g => mem'[h] = mem[h] /\ nat'[h] = nat[h]
        /\ nat'[g].ckpt = nat[g].ckpt /\ nat'[g].fsynced = nat[g].fsynced
    BY <1>0, <2>1, DataWritten
  <2> QED BY <1>1, <2>2
<1>4. CASE \E g \in Files : Unlink(g)
  <2>1. PICK g \in Files : Unlink(g)
    BY <1>4
  <2>2. /\ mem' = [mem EXCEPT ![g] = NoFile]
        /\ nat' = [nat EXCEPT ![g] = NewNat(nat[g].fsynced)]
    BY <2>1 DEF Unlink
  <2> QED BY <1>0, <1>1, <1>u, <2>1, <2>2
<1>5. CASE \E g \in Files : TryToFreeNats(g)
  <2>1. PICK g \in Files : TryToFreeNats(g)
    BY <1>5
  <2>2. nat' = [nat EXCEPT ![g] = NoNat] /\ UNCHANGED mem
    BY <2>1 DEF TryToFreeNats
  <2> QED BY <1>0, <1>1, <2>2 DEF NoNat
<1>6. ASSUME NEW g \in Files, NEW kind \in Kinds, NEW mark \in BOOLEAN, NodeStep(g, kind, mark), g = f => ~mark
      PROVE  Exists(f) /\ nat[f].fsynced /\ ~nat[f].ckpt
  <2>1. UNCHANGED mem /\ \A h \in Files : h # g => nat'[h] = nat[h]
    BY <1>0, <1>6, NodeStepped
  <2>2. CASE g # f
    BY <2>1, <2>2 DEF Exists
  <2>3. CASE g = f
    <3>1. WriteNode(f, kind, FALSE)
      BY <1>6, <2>3 DEF NodeStep
    <3>2. ~NodeBlock(f, kind, FALSE).dent
      BY DEF NodeBlock
    <3>3. nat[f].fsynced /\ ~nat[f].ckpt
      BY <1>0, <3>1, <3>2, MarkWritten
    <3> QED BY <2>1, <3>3 DEF Exists
  <2> QED BY <2>2, <2>3
<1>7. CASE \E g \in Files, kind \in Kinds : NodeStep(g, kind, FALSE)
  BY <1>6, <1>7, <1>u
<1>8. CASE \E t \in Threads, kind \in Kinds :
              /\ fsync[t].pc = "nodes" /\ fsync[t].file \in Files
              /\ NodeStep(fsync[t].file, kind, TRUE)
  <2>1. PICK t \in Threads, kind \in Kinds :
              /\ fsync[t].pc = "nodes" /\ fsync[t].file \in Files
              /\ NodeStep(fsync[t].file, kind, TRUE)
    BY <1>8
  <2>2. fsync[t].file # f
    BY DEF Fsyncing
  <2> QED BY <1>6, <1>u, <2>1, <2>2
<1>9. CASE Quiet \/ \E t \in Threads : FsyncCheckInode(t) \/ FsyncFlush(t)
  BY <1>1, <1>9 DEF Quiet, memVars, FsyncCheckInode, FsyncFlush
<1> QED BY <1>0, <1>2, <1>3, <1>4, <1>5, <1>7, <1>8, <1>9, BaseStepCases

\* When the last fsync() of a file is over, what it marked is durable.
LEMMA FsyncedNames ==
  ASSUME NameStep, NEW f \in Files, Exists(f)', nat'[f].fsynced, ~nat'[f].ckpt
  PROVE  NameAt(f, IF Fsyncing(f) = {} THEN durable ELSE Positions(log))'
<1>0. /\ TypeInv /\ NameInv /\ CallsInv /\ [Next]_vars /\ phase = "up" /\ phase' = "up"
      /\ mem \in [Files -> FileRec]
  BY DEF NameStep, BaseStep, BaseInv, TypeInv
<1>1. CASE Fsyncing(f)' # {}
  <2>1. NameAt(f, Positions(log))'
    BY MarkedNames
  <2> QED BY <1>1, <2>1 DEF NameAt
<1>2. CASE Fsyncing(f)' = {} /\ Fsyncing(f) = {} /\ ~CheckpointStep
  <2>1. Exists(f) /\ nat[f].fsynced /\ ~nat[f].ckpt /\ ~Unlink(f)
    BY <1>2, MarkStays
  <2>2. NameAt(f, durable)
    BY <1>0, <1>2, <2>1 DEF NameInv
  <2>3. NameAt(f, durable)'
    BY <2>1, <2>2, NameGoesOn
  <2> QED BY <1>2, <2>3 DEF NameAt
<1>3. CASE CheckpointStep
  <2>1. Exists(f)
    BY <1>3 DEF CheckpointStep, Exists
  <2>2. saved'[f].linked
    BY <1>3, <2>1 DEF CheckpointStep, CheckpointDone, Exists
  <2> QED BY <2>2 DEF NameAt
<1>4. CASE Fsyncing(f)' = {} /\ Fsyncing(f) # {} /\ ~CheckpointStep
  <2>1. PICK t \in Threads : fsync[t].file = f /\ fsync'[t].file # f
    BY <1>4 DEF Fsyncing
  <2>2. fsync[t].pc # "idle"
    BY <1>0, <2>1, RecoveryAssumption DEF TypeInv
  <2>3. FsyncDone(t)
    BY <1>0, <1>4, <2>1, <2>2, FsyncEnds
  <2>4. Exists(f) /\ NameAt(f, durable) /\ UNCHANGED <<memVars, diskVars>>
    BY <2>1, <2>3, FlushedNames
  <2>5. ~Unlink(f)
    BY <1>0, <2>1 DEF Unlink, Fsyncing
  <2>6. NameAt(f, durable)'
    BY <2>4, <2>5, NameGoesOn
  <2> QED BY <1>4, <2>6 DEF NameAt
<1> QED BY <1>1, <1>2, <1>3, <1>4
\* While fsync() waits for the nodes of its file and for the flush, the name stays where
\* the flush finds it.
LEMMA ThreadNames ==
  ASSUME NameStep, NEW t \in Threads, fsync'[t].pc # "idle", NEW f \in Files, fsync'[t].file = f
  PROVE  /\ fsync'[t].pc = "wait" => NameAt(f, Positions(log))'
         /\ fsync'[t].pc = "flush" => NameAt(f, Stage(t))'
<1>0. /\ TypeInv /\ RequestInv /\ NameInv /\ CallsInv /\ BaseStep
      /\ [Next]_vars /\ phase = "up" /\ phase' = "up"
      /\ durable \subseteq Positions(log)
  BY DEF NameStep, BaseStep, BaseInv, TypeInv
<1>1. CASE fsync'[t] = fsync[t]
  <2>0. Exists(f) /\ fsync[t].file = f
    BY <1>0, <1>1 DEF CallsInv
  <2>1. CASE CheckpointStep
    <3>1. saved'[f].linked
      BY <2>0, <2>1 DEF CheckpointStep, CheckpointDone, Exists
    <3> QED BY <3>1 DEF NameAt
  <2>2. CASE ~CheckpointStep
    <3>1. saved' = saved /\ \A p \in DOMAIN log : p \in DOMAIN log' /\ log'[p] = log[p]
      BY <1>0, <2>2, LogGoesOn
    <3>2. ASSUME fsync[t].pc = "wait" PROVE NameAt(f, Positions(log))'
      <4>1. PICK S, S2 : S = Positions(log) /\ S2 = Positions(log)'
        OBVIOUS
      <4>2. NameAt(f, S) /\ S \subseteq S2
        BY <1>0, <2>0, <3>1, <3>2, <4>1 DEF NameInv, Positions
      <4>3. NameAt(f, S2)'
        BY <3>1, <4>2, NameStays
      <4> QED BY <4>1, <4>3 DEF NameAt
    <3>3. ASSUME fsync[t].pc = "flush" PROVE NameAt(f, Stage(t))'
      <4>1. PICK S, S2 : S = Stage(t) /\ S2 = Stage(t)'
        OBVIOUS
      <4>2. S \subseteq S2
        BY <1>0, <2>2, <3>3, <4>1, StageGrows
      <4>3. NameAt(f, S)
        BY <1>0, <2>0, <3>3, <4>1 DEF NameInv
      <4>4. NameAt(f, S2)'
        BY <3>1, <4>2, <4>3, NameStays
      <4> QED BY <4>1, <4>4 DEF NameAt
    <3> QED BY <1>1, <3>2, <3>3
  <2> QED BY <2>1, <2>2
<1>2. CASE (\E g \in Files : FsyncStart(t, g)) \/ \E kind \in Kinds : FsyncWriteNode(t, kind)
  BY <1>0, <1>2, ThreadMoves
<1>3. CASE FsyncCheckInode(t)
  <2> SUFFICES ASSUME fsync'[t].pc = "wait" PROVE NameAt(f, Positions(log))'
    BY <1>0, <1>3, ThreadMoves
  <2>1. fsync[t].file = f /\ fsync[t].pc = "nodes" /\ ~NeedInodeBlockUpdate(f)
    BY <1>0, <1>3, ThreadMoves
  <2>2. Exists(f)
    BY <1>0, <2>1 DEF CallsInv
  <2>3. NameAt(f, IF Fsyncing(f) = {} THEN durable ELSE Positions(log))
    BY <2>1, <2>2, UpToDateNames
  <2>4. NameAt(f, Positions(log))
    BY <1>0, <2>3 DEF NameAt
  <2>5. UNCHANGED <<saved, log>>
    BY <1>3 DEF FsyncCheckInode, diskVars
  <2> QED BY <2>4, <2>5 DEF NameAt, PositionsOf, Positions
<1>4. CASE FsyncFlush(t)
  <2>1. fsync[t].file = f /\ fsync[t].pc = "wait" /\ fsync'[t].pc = "flush"
    BY <1>0, <1>4, ThreadMoves
  <2>2. NameAt(f, Positions(log))
    BY <1>0, <2>1 DEF NameInv
  <2>3. /\ PositionsOf(f) \cap inFlight = {} /\ t \in issueList'
        /\ UNCHANGED <<saved, log, inFlight>>
    BY <1>4, <2>1 DEF FsyncFlush, NodesWritten, IssueFlush, diskVars
  <2>4. NameAt(f, Positions(log) \ inFlight)
    BY <2>2, <2>3 DEF NameAt
  <2>5. Stage(t)' = Positions(log) \ inFlight
    BY <2>3 DEF Stage, Positions
  <2>6. NameAt(f, Stage(t))'
    BY <2>3, <2>4, <2>5 DEF NameAt, PositionsOf, Positions
  <2> QED BY <2>1, <2>6
<1>5. fsync'[t] # Idle
  BY DEF Idle
<1> QED BY <1>0, <1>1, <1>2, <1>3, <1>4, <1>5, ThreadCases

LEMMA NameUpStep ==
  ASSUME NameStep
  PROVE  NameInv'
<1>0. /\ TypeInv /\ TypeInv' /\ NameInv /\ [Next]_vars /\ phase = "up" /\ phase' = "up" /\ ~Overlaps
      /\ \A t \in Threads : fsync'[t].pc # "idle" => fsync'[t].file \in Files
  BY DEF NameStep, BaseStep, BaseInv, TypeInv
<1>1. ASSUME NEW f \in Files
      PROVE  /\ promise'[f] # NoPromise => Exists(f)' /\ NameAt(f, durable)'
             /\ Exists(f)' /\ nat'[f].fsynced /\ ~nat'[f].ckpt =>
                  NameAt(f, IF Fsyncing(f) = {} THEN durable ELSE Positions(log))'
  BY <1>1, PromisedNames, FsyncedNames
<1>2. Alone
  BY <1>0 DEF NameInv, Alone
<1>3. Alone'
  BY <1>0, <1>2, AloneStep
<1>4. ASSUME NEW t \in Threads, fsync'[t].pc # "idle"
      PROVE  /\ \A u \in Threads : fsync'[u].file = fsync'[t].file => u = t
             /\ fsync'[t].pc = "wait" => NameAt(fsync[t].file, Positions(log))'
             /\ fsync'[t].pc = "flush" => NameAt(fsync[t].file, Stage(t))'
  <2>1. PICK f \in Files : f = fsync'[t].file
    BY <1>0, <1>4
  <2>2. /\ fsync'[t].pc = "wait" => NameAt(f, Positions(log))'
        /\ fsync'[t].pc = "flush" => NameAt(f, Stage(t))'
    BY <1>4, <2>1, ThreadNames
  <2>3. \A u \in Threads : fsync'[u].file = fsync'[t].file => u = t
    BY <1>3, <1>4 DEF Alone
  <2> QED BY <2>1, <2>2, <2>3 DEF NameAt, PositionsOf
<1> QED BY <1>0, <1>1, <1>4 DEF NameInv
\* The device keeps what is durable, and the chain reaches the block with the dentry mark.
LEMMA NamePowerFail ==
  ASSUME BaseInv, NameInv, OrderedWrites, phase = "up", PowerFail
  PROVE  NameInv'
<1>0. /\ TypeInv /\ \A f \in Files : promise[f] # NoPromise => NameAt(f, durable)
      /\ log \in Seq(Block) /\ durable \subseteq DOMAIN log
  BY DEF BaseInv, NameInv, TypeInv, Positions
<1>1. /\ UNCHANGED <<saved, promise>> /\ phase' = "down"
      /\ \A f \in Files : ~Exists(f)'
      /\ \A t \in Threads : fsync'[t].pc = "idle"
  BY DEF PowerFail, NoFile, Idle, Exists
<1>2. PICK n \in 0..Len(log) : durable \subseteq 1..n /\ medium' = MediumWith(1..n)
  BY DEF PowerFail, KeptBlocks
<1>3. PICK c : c = ChainOf(medium')
  OBVIOUS
<1>4. \A p \in 1..n : p \in DOMAIN c /\ c[p] = log[p]
  BY <1>0, <1>2, <1>3, KeptChain
<1>5. ASSUME NEW f \in Files, promise[f] # NoPromise, ~saved[f].linked
      PROVE  \E p \in DOMAIN c : c[p].file = f /\ c[p].dent
  <2>1. PICK p \in PositionsOf(f) \cap durable : log[p].dent
    BY <1>0, <1>5 DEF NameAt
  <2>2. p \in 1..n /\ log[p].file = f
    BY <1>2 DEF PositionsOf
  <2> QED BY <1>4, <2>1, <2>2
<1>6. ASSUME NEW f \in Files, promise'[f] # NoPromise PROVE NameOnMedium(f)'
  BY <1>1, <1>3, <1>5, <1>6 DEF NameOnMedium, Positions
<1> QED BY <1>1, <1>6 DEF NameInv

\* A mount brings back each name that the medium has.
LEMMA NameRecovered ==
  ASSUME BaseInv, phase = "down", NEW f \in Files, NameOnMedium(f)
  PROVE  AfterMount(ChainOf(medium))[f].linked
<1>0. TypeInv /\ BlocksInv /\ ValuesInv
  BY DEF BaseInv
<1>1. PICK c, marks, D : c = ChainOf(medium) /\ marks = Marked(c, f) /\ D = FsyncDnodes(c, f)
  OBVIOUS
<1>2. AfterMount(c)[f] = IF D # {} THEN RecoveredFile(c, f, D) ELSE saved[f]
  BY <1>1 DEF AfterMount, InodeList
<1>r. RecoveredFile(c, f, D).linked = (saved[f].linked \/ Dentries(c, D) # {})
  BY DEF RecoveredFile
<1>3. CASE saved[f].linked
  BY <1>1, <1>2, <1>3, <1>r
<1>4. CASE ~saved[f].linked
  <2>1. PICK p \in DOMAIN c : c[p].file = f /\ c[p].dent
    BY <1>1, <1>4 DEF NameOnMedium, Positions
  <2>2. p \in DOMAIN medium /\ c[p] = medium[p] /\ c[p] \in Block /\ p \in Nat
    <3>1. medium \in Seq(Block \cup {NoBlock}) /\ Len(medium) \in Nat /\ DOMAIN medium = 1..Len(medium)
      BY <1>0 DEF TypeInv
    <3>2. DOMAIN c \subseteq 1..Len(medium) /\ \A q \in DOMAIN c : c[q] = medium[q] /\ c[q] \in Block
      BY <1>1, <3>1, ChainFacts
    <3> QED BY <3>1, <3>2
  <2>3. NoBlock \notin Block
    BY RecoveryAssumption DEF NoBlock, Block
  <2>4. c[p].fsync /\ c[p].kind = "inode"
    BY <1>0, <2>1, <2>2, <2>3 DEF BlocksInv, BlockOK, Positions
  <2>5. p \in marks /\ p \in Dentries(c, marks)
    BY <1>1, <2>1, <2>4 DEF Marked, Dentries, Positions
  <2>6. saved[f].inode = 0
    BY <1>0, <1>4 DEF ValuesInv, WellFormed
  <2>7. p \in D
    BY <1>1, <2>2, <2>5, <2>6 DEF FsyncDnodes
  <2>8. p \in Dentries(c, D)
    BY <2>1, <2>4, <2>7 DEF Dentries
  <2> QED BY <1>1, <1>2, <1>r, <2>7, <2>8
<1> QED BY <1>3, <1>4

LEMMA NameMount ==
  ASSUME BaseInv, NameInv, Mount, TypeInv'
  PROVE  NameInv' /\ \A f \in Files : promise[f] # NoPromise => mem'[f].linked
<1>0. phase = "down" /\ Stopped
  BY DEF Mount, BaseInv
<1>1. phase' = "up" /\ mem' = AfterMount(ChainOf(medium))
  BY BaseMount
<1>2. saved' = mem' /\ UNCHANGED <<nat, fsync, promise>>
  BY <1>1 DEF Mount
<1>3. \A f \in Files : nat'[f] = NoNat
  BY <1>0, <1>2 DEF Stopped
<1>4. \A t \in Threads : fsync'[t].pc = "idle"
  BY <1>0, <1>2 DEF Stopped, Idle
<1>5. ASSUME NEW f \in Files, promise[f] # NoPromise PROVE mem'[f].linked
  <2>1. NameOnMedium(f)
    BY <1>0, <1>5 DEF NameInv
  <2> QED BY <1>0, <1>1, <2>1, NameRecovered
<1>6. \A f \in Files : promise'[f] # NoPromise => Exists(f)' /\ NameAt(f, durable)'
  BY <1>2, <1>5 DEF Exists, NameAt
<1>7. \A f \in Files : ~nat'[f].fsynced
  BY <1>3 DEF NoNat
<1> QED BY <1>1, <1>4, <1>5, <1>6, <1>7 DEF NameInv

LEMMA NameInductive ==
  ASSUME OrderedWrites, ~Overlaps, BaseInv, NameInv, [Next]_vars
  PROVE  NameInv'
<1>0. TypeInv /\ TypeInv' /\ phase \in {"up", "down"}
  BY StepTyped DEF BaseInv, TypeInv, MountSucceeds
<1>1. CASE phase = "up" /\ phase' = "up"
  BY <1>0, <1>1, NameUpStep DEF NameStep, BaseStep
<1>2. CASE phase = "up" /\ phase' # "up"
  BY <1>0, <1>2, UpStays, NamePowerFail
<1>3. CASE phase = "down" /\ Mount
  BY <1>0, <1>3, NameMount
<1>4. CASE phase = "down" /\ UNCHANGED vars
  <2>1. Stopped /\ UNCHANGED <<saved, medium, promise, phase, mem, fsync>>
    BY <1>4 DEF BaseInv, vars, memVars, diskVars, runVars
  <2>2. /\ \A t \in Threads : fsync'[t].pc = "idle"
        /\ \A f \in Files : ~Exists(f)'
    BY <2>1 DEF Stopped, Idle, Exists, NoFile
  <2>3. ASSUME NEW f \in Files, promise[f] # NoPromise PROVE NameOnMedium(f)'
    <3>1. NameOnMedium(f)
      BY <1>4, <2>3 DEF NameInv
    <3> QED BY <2>1, <3>1 DEF NameOnMedium
  <2> QED BY <1>4, <2>1, <2>2, <2>3 DEF NameInv
<1> QED BY <1>0, <1>1, <1>2, <1>3, <1>4, DownStays DEF BaseInv

\* For any files and threads, any length of the log and any number of power failures: when
\* the device keeps the order of the log's writes and no fsync() of a file overlaps another
\* of it, the name of a file is where a mount finds it, though data may be written while
\* fsync() waits and inode numbers be used again that are still in the log.
THEOREM NameInvariance ==
  ASSUME OrderedWrites, ~Overlaps
  PROVE  Spec => []NameInv
<1>1. Init => NameInv
  <2> SUFFICES ASSUME Init PROVE NameInv
    OBVIOUS
  <2>1. /\ \A f \in Files : promise[f] = NoPromise /\ ~Exists(f)
        /\ \A t \in Threads : fsync[t].pc = "idle"
    BY DEF Init, Idle, NoFile, Exists
  <2> QED BY <2>1 DEF NameInv
<1>2. BaseInv /\ NameInv /\ [Next]_vars => NameInv'
  BY NameInductive
<1> QED BY <1>1, <1>2, BaseInvariance, PTL DEF Spec

\* A file for which fsync() returned is in its directory after a power failure and the
\* next mount (recover_dentry()), though data may be written while fsync() waits and inode
\* numbers be used again that are still in the log; only the overlap of two fsync()s of the
\* file, or a device that reorders the writes of the log, can lose the name.
THEOREM NamesSurvive ==
  ASSUME OrderedWrites, ~Overlaps
  PROVE  Spec => FsyncedNamesSurvive
<1> DEFINE Survive ==
      phase = "down" /\ phase' = "up" => \A f \in Files : promise[f] # NoPromise => mem'[f].linked
<1>1. BaseInv /\ NameInv /\ [Next]_vars => Survive
  <2> SUFFICES ASSUME BaseInv, NameInv, [Next]_vars, phase = "down", phase' = "up"
               PROVE  \A f \in Files : promise[f] # NoPromise => mem'[f].linked
    OBVIOUS
  <2>1. TypeInv /\ TypeInv' /\ Stopped
    BY StepTyped DEF BaseInv
  <2>2. Mount
    <3>1. Mount \/ UNCHANGED vars
      BY <2>1, DownStays
    <3>2. UNCHANGED vars => phase' = phase
      BY DEF vars, runVars
    <3> QED BY <3>1, <3>2
  <2> QED BY <2>1, <2>2, NameMount
<1>2. FsyncedNamesSurvive <=> [][Survive]_vars
  BY DEF FsyncedNamesSurvive
<1> HIDE DEF Survive
<1> QED BY <1>1, <1>2, BaseInvariance, NameInvariance, PTL DEF Spec
-----------------------------------------------------------------------------
(* Data from before, in any order of the writes and with both races.       *)

OlderStep ==
  /\ BaseStep /\ OlderInv /\ ~StaleBlocks

\* What was true of the data a file may have, stays so while the file system is up.
LEMMA NoneOlderStays ==
  ASSUME BaseStep, NEW f \in Files, NEW v, v.inode \in Nat, v.inode <= stamp, NoneOlder(f, v)
  PROVE  NoneOlder(f, v)'
<1>0. /\ TypeInv /\ ValuesInv /\ stamp \in Nat /\ mem \in [Files -> FileRec]
      /\ mem[f].dnode \in Nat
  <2>1. TypeInv /\ ValuesInv /\ stamp \in Nat /\ mem \in [Files -> FileRec]
    BY DEF BaseStep, BaseInv, TypeInv
  <2> QED BY <2>1 DEF FileRec
<1>1. CASE v.dnode # 0
  BY <1>1 DEF NoneOlder, NoOlderData
<1> SUFFICES ASSUME v.dnode = 0 PROVE NoneOlder(f, v)'
  BY <1>1
<1>2. /\ mem[f].dnode \notin 1..v.inode /\ saved[f].dnode \notin 1..v.inode
      /\ \A p \in DOMAIN log : log[p].file = f /\ log[p].kind = "dnode" => v.inode < log[p].val
      /\ \A p \in DOMAIN medium : medium[p].file = f /\ medium[p].kind = "dnode" => v.inode < medium[p].val
  BY DEF NoneOlder, NoOlderData, Positions
<1>3. ASSUME mem'[f].dnode \notin 1..v.inode, UNCHANGED <<saved, log, medium>>
      PROVE  NoneOlder(f, v)'
  BY <1>2, <1>3 DEF NoneOlder, NoOlderData, Positions
<1>4. CASE \E g \in Files : Create(g)
  <2>1. PICK g \in Files : Create(g)
    BY <1>4
  <2>2. /\ mem' = [mem EXCEPT ![g] = [linked |-> TRUE, inode |-> stamp + 1, dnode |-> 0]]
        /\ UNCHANGED <<saved, log, medium>>
    BY <1>0, <2>1, Created DEF diskVars
  <2>3. mem'[f].dnode = mem[f].dnode \/ mem'[f].dnode = 0
    BY <1>0, <2>2
  <2> QED BY <1>2, <1>3, <2>2, <2>3
<1>5. CASE \E g \in Files : WriteData(g)
  <2>1. PICK g \in Files : WriteData(g)
    BY <1>5
  <2>2. /\ \A h \in Files : h # g => mem'[h] = mem[h]
        /\ mem'[g].dnode = stamp + 1
        /\ UNCHANGED <<saved, log, medium>>
    BY <1>0, <2>1, DataWritten DEF diskVars
  <2>3. mem'[f].dnode = mem[f].dnode \/ mem'[f].dnode = stamp + 1
    BY <2>2
  <2> QED BY <1>0, <1>2, <1>3, <2>2, <2>3
<1>6. CASE \E g \in Files : Unlink(g)
  <2>1. PICK g \in Files : Unlink(g)
    BY <1>6
  <2>2. mem' = [mem EXCEPT ![g] = NoFile] /\ UNCHANGED <<saved, log, medium>>
    BY <2>1 DEF Unlink, diskVars
  <2>3. mem'[f].dnode = mem[f].dnode \/ mem'[f].dnode = 0
    BY <1>0, <2>2 DEF NoFile
  <2> QED BY <1>2, <1>3, <2>2, <2>3
<1>7. ASSUME NEW g \in Files, NEW kind \in Kinds, NEW mark \in BOOLEAN, NodeStep(g, kind, mark)
      PROVE  NoneOlder(f, v)'
  <2> DEFINE n == Len(log) + 1
  <2>1. /\ UNCHANGED <<mem, saved, medium>> /\ kind \in dirty[g]
        /\ DOMAIN log = 1..Len(log) /\ DOMAIN log' = 1..n /\ Len(log) \in Nat
        /\ \A p \in DOMAIN log : log'[p] = log[p]
        /\ log'[n] = NodeBlock(g, kind, mark)
    BY <1>0, <1>7, NodeStepped
  <2>2. /\ NodeBlock(g, kind, mark).file = g /\ NodeBlock(g, kind, mark).kind = kind
        /\ NodeBlock(g, kind, mark).val = mem[g][kind]
    BY DEF NodeBlock
  <2>3. g = f /\ kind = "dnode" => v.inode < mem[f].dnode
    BY <1>0, <1>2, <2>1 DEF ValuesInv
  <2>4. log'[n].file = f /\ log'[n].kind = "dnode" => v.inode < log'[n].val
    BY <2>1, <2>2, <2>3
  <2>5. \A p \in DOMAIN log' : p \in DOMAIN log \/ p = n
    BY <2>1
  <2> HIDE DEF n
  <2>6. \A p \in DOMAIN log' : log'[p].file = f /\ log'[p].kind = "dnode" => v.inode < log'[p].val
    BY <1>2, <2>1, <2>4, <2>5
  <2> QED BY <1>2, <2>1, <2>6 DEF NoneOlder, NoOlderData, Positions
<1>8. CASE CheckpointStep
  BY <1>2, <1>8 DEF CheckpointStep, CheckpointDone, NoneOlder, NoOlderData, Positions
<1>9. CASE Quiet \/ (\E g \in Files : TryToFreeNats(g)) \/ \E t \in Threads : FsyncCheckInode(t) \/ FsyncFlush(t)
  <2>1. UNCHANGED <<mem, saved, log, medium>>
    BY <1>9 DEF Quiet, memVars, TryToFreeNats, FsyncCheckInode, FsyncFlush, diskVars
  <2> QED BY <1>2, <1>3, <2>1
<1> QED BY <1>4, <1>5, <1>6, <1>7, <1>8, <1>9, BaseStepCases

\* A block of the log is no newer than its file, and is of no file that was created since.
LEMMA OlderLog ==
  ASSUME OlderStep, NEW p \in DOMAIN log'
  PROVE  (IF Exists(log[p].file) THEN log[p].val <= mem[log[p].file][log[p].kind]
          ELSE ~nat[log[p].file].ckpt)'
<1>0. /\ TypeInv /\ TypeInv' /\ ValuesInv /\ FlagsInv /\ BaseStep /\ stamp \in Nat
      /\ mem \in [Files -> FileRec] /\ nat \in [Files -> NatEntry] /\ log \in Seq(Block)
      /\ \A q \in DOMAIN log :
           IF Exists(log[q].file) THEN log[q].val <= mem[log[q].file][log[q].kind] ELSE ~nat[log[q].file].ckpt
  BY DEF OlderStep, BaseStep, BaseInv, TypeInv, OlderInv, Positions
<1>b. \A q \in DOMAIN log : log[q] \in Block
  BY <1>0
<1>1. PICK b, f, k : b = log'[p] /\ f = b.file /\ k = b.kind
  OBVIOUS
<1>2. b \in Block /\ f \in Files /\ k \in Kinds /\ b.val \in Nat
  <2>1. log' \in Seq(Block)
    BY <1>0 DEF TypeInv
  <2>2. b \in Block
    BY <1>1, <2>1
  <2> QED BY <1>1, <2>2 DEF Block
<1> SUFFICES IF Exists(f)' THEN b.val <= mem'[f][k] ELSE ~nat'[f].ckpt
  BY <1>1
<1>3. ASSUME p \in DOMAIN log, log'[p] = log[p]
      PROVE  IF Exists(f) THEN b.val <= mem[f][k] ELSE ~nat[f].ckpt
  BY <1>0, <1>1, <1>3
<1>4. ASSUME UNCHANGED log, mem'[f] = mem[f], nat'[f].ckpt = nat[f].ckpt
      PROVE  IF Exists(f)' THEN b.val <= mem'[f][k] ELSE ~nat'[f].ckpt
  BY <1>3, <1>4 DEF Exists
<1>5. CASE \E g \in Files : Create(g)
  <2>1. PICK g \in Files : Create(g)
    BY <1>5
  <2>2. /\ ~mem[g].linked /\ nat[g].ckpt
        /\ mem' = [mem EXCEPT ![g] = [linked |-> TRUE, inode |-> stamp + 1, dnode |-> 0]]
        /\ nat' = [nat EXCEPT ![g] = NewNat(FALSE)]
        /\ UNCHANGED log
    BY <1>0, <2>1, Created DEF diskVars
  <2>3. f # g
    BY <1>3, <2>2 DEF Exists
  <2> QED BY <1>0, <1>2, <1>4, <2>2, <2>3
<1>6. CASE \E g \in Files : WriteData(g)
  <2>1. PICK g \in Files : WriteData(g)
    BY <1>6
  <2>2. /\ mem[g].linked /\ mem'[g].linked /\ mem'[g].dnode = stamp + 1
        /\ mem'[g].inode \in {mem[g].inode, stamp + 1}
        /\ \A h \in Files : h # g => mem'[h] = mem[h] /\ nat'[h] = nat[h]
        /\ UNCHANGED log
    BY <1>0, <2>1, DataWritten DEF diskVars
  <2>3. CASE f = g
    <3>1. b.val <= mem[f][k]
      BY <1>3, <2>2, <2>3 DEF Exists
    <3>2. mem[f].inode <= stamp /\ mem[f].dnode <= stamp /\ mem[f].inode \in Nat /\ mem[f].dnode \in Nat
      BY <1>0, <1>2 DEF ValuesInv, FileRec
    <3>3. CASE k = "inode"
      BY <1>0, <1>2, <2>2, <2>3, <3>1, <3>2, <3>3 DEF Exists
    <3>4. CASE k = "dnode"
      BY <1>0, <1>2, <2>2, <2>3, <3>1, <3>2, <3>4 DEF Exists
    <3> QED BY <1>2, <3>3, <3>4 DEF Kinds
  <2>4. CASE f # g
    BY <1>2, <1>4, <2>2, <2>4
  <2> QED BY <2>3, <2>4
<1>7. CASE \E g \in Files : Unlink(g)
  <2>1. PICK g \in Files : Unlink(g)
    BY <1>7
  <2>2. /\ mem' = [mem EXCEPT ![g] = NoFile]
        /\ nat' = [nat EXCEPT ![g] = NewNat(nat[g].fsynced)]
        /\ UNCHANGED log
    BY <2>1 DEF Unlink, diskVars
  <2>3. CASE f = g
    BY <1>0, <2>2, <2>3 DEF Exists, NoFile, NewNat
  <2>4. CASE f # g
    BY <1>0, <1>4, <2>2, <2>4
  <2> QED BY <2>3, <2>4
<1>8. CASE \E g \in Files : TryToFreeNats(g)
  <2>1. PICK g \in Files : TryToFreeNats(g)
    BY <1>8
  <2>2. /\ ~nat[g].dirty /\ nat' = [nat EXCEPT ![g] = NoNat]
        /\ UNCHANGED <<mem, log>>
    BY <2>1 DEF TryToFreeNats, diskVars
  <2>3. nat[g].ckpt
    BY <1>0, <2>2 DEF FlagsInv
  <2>4. nat'[f].ckpt = nat[f].ckpt
    <3>1. f = g => nat'[f].ckpt /\ nat[f].ckpt
      BY <1>0, <2>2, <2>3 DEF NoNat
    <3>2. f # g => nat'[f] = nat[f]
      BY <1>0, <1>2, <2>2
    <3>3. nat'[f] \in NatEntry /\ nat[f] \in NatEntry
      BY <1>0, <1>2 DEF TypeInv
    <3> QED BY <3>1, <3>2, <3>3 DEF NatEntry
  <2> QED BY <1>4, <2>2, <2>4
<1>9. ASSUME NEW g \in Files, NEW kind \in Kinds, NEW mark \in BOOLEAN, NodeStep(g, kind, mark)
      PROVE  IF Exists(f)' THEN b.val <= mem'[f][k] ELSE ~nat'[f].ckpt
  <2>1. /\ UNCHANGED mem /\ kind \in dirty[g]
        /\ \A h \in Files : h # g => nat'[h] = nat[h]
        /\ DOMAIN log = 1..Len(log) /\ DOMAIN log' = 1..(Len(log) + 1) /\ Len(log) \in Nat
        /\ \A q \in DOMAIN log : log'[q] = log[q]
        /\ log'[Len(log) + 1] = NodeBlock(g, kind, mark)
    BY <1>0, <1>9, NodeStepped
  <2>2. Exists(g)
    BY <1>0, <2>1 DEF ValuesInv
  <2>3. CASE p \in DOMAIN log
    <3>1. IF Exists(f) THEN b.val <= mem[f][k] ELSE ~nat[f].ckpt
      BY <1>3, <2>1, <2>3
    <3> QED BY <1>2, <2>1, <2>2, <3>1 DEF Exists
  <2>4. CASE p \notin DOMAIN log
    <3>1. b = NodeBlock(g, kind, mark)
      BY <1>1, <2>1, <2>4
    <3>2. f = g /\ b.val = mem[f][k]
      BY <1>1, <3>1 DEF NodeBlock
    <3> QED BY <1>2, <2>1, <2>2, <3>2 DEF Exists
  <2> QED BY <2>3, <2>4
<1>10. CASE CheckpointStep
  BY <1>10 DEF CheckpointStep, CheckpointDone
<1>11. CASE Quiet \/ \E t \in Threads : FsyncCheckInode(t) \/ FsyncFlush(t)
  <2>1. UNCHANGED <<mem, nat, log>>
    BY <1>11 DEF Quiet, memVars, FsyncCheckInode, FsyncFlush, diskVars
  <2> QED BY <1>4, <2>1
<1> QED BY <1>0, <1>5, <1>6, <1>7, <1>8, <1>9, <1>10, <1>11, BaseStepCases

\* What fsync() takes of a file to make durable, is no older than anything there is of it.
LEMMA OlderCurrent ==
  ASSUME BaseInv, OlderInv, NEW f \in Files, Exists(f)
  PROVE  NoneOlder(f, Current(f))
<1>0. /\ mem[f].dnode \in Nat /\ saved[f].dnode \in Nat /\ mem[f].inode \in Nat
      /\ saved[f].dnode <= mem[f].dnode
  BY DEF BaseInv, TypeInv, FileRec, ValuesInv
<1>1. Current(f).dnode = mem[f].dnode /\ Current(f).inode = mem[f].inode
  BY DEF Current
<1>2. CASE mem[f].dnode # 0
  BY <1>1, <1>2 DEF NoneOlder, NoOlderData
<1>3. CASE mem[f].dnode = 0
  <2>1. ASSUME NEW p \in DOMAIN log, log[p].file = f, log[p].kind = "dnode" PROVE FALSE
    <3>1. log[p].val <= mem[f].dnode
      BY <2>1 DEF OlderInv, Positions
    <3>2. log[p].val \in 1..stamp /\ stamp \in Nat
      BY DEF BaseInv, BlocksInv, BlockOK, Positions, TypeInv
    <3> QED BY <1>3, <3>1, <3>2
  <2>2. ASSUME NEW p \in DOMAIN medium, medium[p].file = f, medium[p].kind = "dnode"
        PROVE  mem[f].inode < medium[p].val
    <3>1. saved[f].linked
      BY <2>2 DEF OlderInv, HasStaleBlocks, Positions
    <3>2. mem[f].inode = saved[f].inode
      BY <1>3, <3>1 DEF OlderInv
    <3>3. NoneOlder(f, saved[f])
      BY DEF OlderInv
    <3> QED BY <1>0, <1>3, <2>2, <3>2, <3>3 DEF NoneOlder, Positions
  <2> QED BY <1>0, <1>1, <1>3, <2>1, <2>2 DEF NoneOlder, NoOlderData, Positions
<1> QED BY <1>2, <1>3

\* Two promises together say no more than each of them.
LEMMA OlderCombine ==
  ASSUME NEW f \in Files, NEW a \in Values, NEW b \in Values, NEW w,
         NoneOlder(f, a), NoneOlder(f, b),
         w.inode = IF a.inode <= b.inode THEN b.inode ELSE a.inode,
         w.dnode = IF a.dnode <= b.dnode THEN b.dnode ELSE a.dnode
  PROVE  NoneOlder(f, w)
<1>1. /\ a.inode \in Nat /\ a.dnode \in Nat /\ b.inode \in Nat /\ b.dnode \in Nat
  BY DEF Values
<1>2. CASE w.dnode # 0
  BY <1>2 DEF NoneOlder, NoOlderData
<1>3. CASE w.dnode = 0
  <2>1. a.dnode = 0 /\ b.dnode = 0 /\ w.inode \in {a.inode, b.inode}
    BY <1>1, <1>3
  <2> QED BY <1>3, <2>1 DEF NoneOlder, NoOlderData
<1> QED BY <1>2, <1>3

\* What fsync() promises for a file, before the step and after it.
LEMMA OlderPromise ==
  ASSUME OlderStep, NEW f \in Files
  PROVE  NoneOlder(f, promise[f])'
<1>0. /\ BaseStep /\ BaseInv /\ OlderInv /\ TypeInv /\ TypeInv' /\ CallsInv /\ ValuesInv /\ BlocksInv
      /\ stamp \in Nat /\ phase = "up" /\ phase' = "up" /\ [Next]_vars
      /\ promise \in [Files -> Values] /\ fsync \in [Threads -> FsyncRec]
  BY DEF OlderStep, BaseStep, BaseInv, TypeInv, FsyncRec
<1>1. PICK v : v = promise'[f]
  OBVIOUS
<1>p. /\ promise[f] \in Values /\ NoneOlder(f, promise[f])
      /\ promise[f].inode \in Nat /\ promise[f].inode <= stamp
  BY <1>0 DEF Values, OlderInv, CallsInv
<1>2. CASE v = promise[f]
  <2>1. NoneOlder(f, v)'
    BY <1>0, <1>2, <1>p, NoneOlderStays
  <2> QED BY <1>1, <2>1 DEF NoneOlder, NoOlderData
<1>3. ASSUME NEW g \in Files, NEW w \in Values, Promise(g, w),
             g = f => NoneOlder(f, w) /\ w.inode <= stamp
      PROVE  NoneOlder(f, promise[f])'
  <2>1. CASE g # f
    <3>1. v = promise[f]
      BY <1>0, <1>1, <1>3, <2>1, PromiseValues
    <3> QED BY <1>2, <3>1
  <2>2. CASE g = f
    <3>1. /\ v.inode = IF promise[f].inode <= w.inode THEN w.inode ELSE promise[f].inode
          /\ v.dnode = IF promise[f].dnode <= w.dnode THEN w.dnode ELSE promise[f].dnode
      BY <1>0, <1>1, <1>3, <2>2, PromiseValues
    <3>2. NoneOlder(f, v)
      BY <1>3, <1>p, <2>2, <3>1, OlderCombine
    <3>3. v.inode \in Nat /\ v.inode <= stamp
      BY <1>0, <1>3, <1>p, <2>2, <3>1 DEF Values
    <3>4. NoneOlder(f, v)'
      BY <1>0, <3>2, <3>3, NoneOlderStays
    <3> QED BY <1>1, <3>4 DEF NoneOlder, NoOlderData
  <2> QED BY <2>1, <2>2
<1>4. CASE \E g \in Files : Unlink(g)
  <2>1. PICK g \in Files : Unlink(g)
    BY <1>4
  <2>2. /\ promise' = [promise EXCEPT ![g] = NoPromise]
        /\ mem' = [mem EXCEPT ![g] = NoFile] /\ UNCHANGED <<saved, log, medium>>
    BY <2>1 DEF Unlink, diskVars
  <2>3. CASE g # f
    BY <1>0, <1>1, <1>2, <2>2, <2>3
  <2>4. CASE g = f
    <3>1. v.inode = 0
      BY <1>0, <1>1, <2>2, <2>4 DEF NoPromise
    <3>2. v \in Values
      BY <1>0, <1>1 DEF TypeInv
    <3>3. \A p \in DOMAIN log : log[p].val \in 1..stamp
      BY <1>0 DEF BlocksInv, BlockOK, Positions
    <3>4. \A p \in DOMAIN medium : medium[p].file = f => medium[p].val \in 1..stamp
      <4> TAKE p \in DOMAIN medium
      <4>1. NoBlock.file \notin Files
        BY RecoveryAssumption DEF NoBlock
      <4> QED BY <1>0, <4>1 DEF BlocksInv, BlockOK, Positions
    <3>5. NoneOlder(f, v)
      <4>1. \A p \in DOMAIN log : v.inode < log[p].val
        BY <1>0, <3>1, <3>3
      <4>2. \A p \in DOMAIN medium : medium[p].file = f => v.inode < medium[p].val
        BY <1>0, <3>1, <3>4
      <4>3. 1..v.inode = {}
        BY <3>1
      <4> QED BY <4>1, <4>2, <4>3 DEF NoneOlder, NoOlderData, Positions
    <3>6. NoneOlder(f, v)'
      BY <1>0, <3>1, <3>5, NoneOlderStays
    <3> QED BY <1>1, <3>6 DEF NoneOlder, NoOlderData
  <2> QED BY <2>3, <2>4
<1>5. CASE \E t \in Threads, g \in Files : FsyncSkip(t, g)
  <2>1. PICK t \in Threads, g \in Files : FsyncSkip(t, g)
    BY <1>5
  <2>2. Promise(g, Current(g)) /\ Current(g) \in Values /\ Exists(g)
    BY <1>0, <2>1 DEF FsyncSkip, FsyncBegins, Current, Values, TypeInv, FileRec
  <2>3. Current(g).inode <= stamp
    BY <1>0 DEF Current, ValuesInv
  <2>4. NoneOlder(g, Current(g))
    BY <1>0, <2>2, OlderCurrent
  <2> QED BY <1>3, <2>2, <2>3, <2>4
<1>6. CASE \E t \in Threads : FsyncCheckpoint(t) \/ FsyncDone(t)
  <2>1. PICK t \in Threads : FsyncCheckpoint(t) \/ FsyncDone(t)
    BY <1>6
  <2>2. /\ fsync[t].pc # "idle" /\ Promise(fsync[t].file, fsync[t].start)
        /\ fsync[t].start \in Values /\ fsync[t].file \in Files
    BY <1>0, <2>1 DEF FsyncCheckpoint, FsyncDone, FsyncReturn, TypeInv, FsyncRec
  <2>3. NoneOlder(fsync[t].file, fsync[t].start) /\ fsync[t].start.inode <= stamp
    BY <1>0, <2>2 DEF OlderInv, CallsInv
  <2> QED BY <1>3, <2>2, <2>3
<1> QED BY <1>0, <1>1, <1>2, <1>4, <1>5, <1>6, FsyncEnds

\* ... and what a thread in fsync() is to promise.
LEMMA OlderThread ==
  ASSUME OlderStep, NEW t \in Threads, fsync'[t].pc # "idle"
  PROVE  NoneOlder(fsync[t].file, fsync[t].start)'
<1>0. /\ BaseStep /\ BaseInv /\ OlderInv /\ TypeInv /\ TypeInv' /\ CallsInv /\ ValuesInv
      /\ phase = "up" /\ phase' = "up" /\ [Next]_vars /\ fsync \in [Threads -> FsyncRec]
  BY DEF OlderStep, BaseStep, BaseInv, TypeInv, FsyncRec
<1>1. PICK f, v : f = fsync'[t].file /\ v = fsync'[t].start
  OBVIOUS
<1>2. f \in Files /\ v.inode \in Nat
  BY <1>0, <1>1 DEF TypeInv, Values
<1>3. ASSUME NoneOlder(f, v), v.inode <= stamp PROVE NoneOlder(fsync[t].file, fsync[t].start)'
  <2>1. NoneOlder(f, v)'
    BY <1>0, <1>2, <1>3, NoneOlderStays
  <2> QED BY <1>1, <2>1 DEF NoneOlder, NoOlderData
<1>4. CASE fsync[t].pc # "idle" /\ f = fsync[t].file /\ v = fsync[t].start
  <2>1. NoneOlder(f, v) /\ v.inode <= stamp
    BY <1>0, <1>4 DEF OlderInv, CallsInv
  <2> QED BY <1>3, <2>1
<1>5. CASE \E g \in Files : FsyncStart(t, g)
  <2>1. PICK g \in Files : FsyncStart(t, g)
    BY <1>5
  <2>2. f = g /\ v = Current(f) /\ Exists(f)
    BY <1>0, <1>1, <2>1, ThreadMoves DEF FsyncStart, FsyncBegins
  <2>3. NoneOlder(f, v)
    BY <1>0, <2>2, OlderCurrent
  <2>4. v.inode <= stamp
    BY <1>0, <2>2 DEF Current, ValuesInv
  <2> QED BY <1>3, <2>3, <2>4
<1>6. fsync'[t] # Idle
  BY DEF Idle
<1>7. fsync[t].pc = "nodes" \/ fsync[t].pc = "wait" => fsync[t].pc # "idle"
  OBVIOUS
<1> QED BY <1>0, <1>1, <1>4, <1>5, <1>6, <1>7, ThreadCases, ThreadMoves

\* ... and what the last checkpoint has.
LEMMA OlderSaved ==
  ASSUME OlderStep, NEW f \in Files
  PROVE  NoneOlder(f, saved[f])'
<1>0. /\ BaseStep /\ OlderInv /\ TypeInv /\ ValuesInv
      /\ saved[f].inode \in Nat /\ saved[f].inode <= stamp
  BY DEF OlderStep, BaseStep, BaseInv, TypeInv, FileRec, ValuesInv
<1>1. CASE CheckpointStep
  <2>1. saved' = mem /\ mem' = mem /\ log' = <<>> /\ medium' = <<>>
    BY <1>1 DEF CheckpointStep, CheckpointDone
  <2>2. \A i \in 1..saved'[f].inode : i # 0
    OBVIOUS
  <2> QED BY <2>1, <2>2 DEF NoneOlder, NoOlderData, Positions
<1>2. CASE saved' = saved
  <2>1. PICK v : v = saved[f]
    OBVIOUS
  <2>2. NoneOlder(f, v)'
    BY <1>0, <2>1, NoneOlderStays DEF OlderInv
  <2> QED BY <1>2, <2>1, <2>2 DEF NoneOlder, NoOlderData
<1> QED BY <1>0, <1>1, <1>2, LogGoesOn

\* A file that is in no checkpoint has no stale blocks, and one that is in the checkpoint
\* and has no data is as it is there.
LEMMA OlderFiles ==
  ASSUME OlderStep, NEW f \in Files, Exists(f)'
  PROVE  /\ ~saved'[f].linked => ~HasStaleBlocks(f)'
         /\ saved'[f].linked /\ mem'[f].dnode = 0 => mem'[f].inode = saved'[f].inode
<1>0. /\ BaseStep /\ TypeInv /\ ~StaleBlocks /\ mem \in [Files -> FileRec] /\ stamp \in Nat
      /\ Exists(f) /\ ~saved[f].linked => ~HasStaleBlocks(f)
      /\ Exists(f) /\ saved[f].linked /\ mem[f].dnode = 0 => mem[f].inode = saved[f].inode
  BY DEF OlderStep, BaseStep, BaseInv, OlderInv, TypeInv
<1>1. CASE mem'[f] = mem[f] /\ UNCHANGED <<saved, medium>>
  BY <1>0, <1>1 DEF Exists, HasStaleBlocks, Positions
<1>2. CASE \E g \in Files : Create(g)
  <2>1. PICK g \in Files : Create(g)
    BY <1>2
  <2>2. /\ saved[g] = NoFile /\ ~HasStaleBlocks(g)
        /\ mem' = [mem EXCEPT ![g] = [linked |-> TRUE, inode |-> stamp + 1, dnode |-> 0]]
        /\ UNCHANGED <<saved, medium>>
    BY <1>0, <2>1, Created DEF diskVars
  <2>3. CASE g = f
    BY <2>2, <2>3 DEF NoFile, HasStaleBlocks, Positions
  <2>4. CASE g # f
    BY <1>0, <1>1, <2>2, <2>4
  <2> QED BY <2>3, <2>4
<1>3. CASE \E g \in Files : WriteData(g)
  <2>1. PICK g \in Files : WriteData(g)
    BY <1>3
  <2>2. /\ mem[g].linked /\ mem'[g].dnode = stamp + 1
        /\ \A h \in Files : h # g => mem'[h] = mem[h]
        /\ UNCHANGED <<saved, medium>>
    BY <1>0, <2>1, DataWritten DEF diskVars
  <2>3. CASE g = f
    BY <1>0, <2>2, <2>3 DEF Exists, HasStaleBlocks, Positions
  <2>4. CASE g # f
    BY <1>1, <2>2, <2>4
  <2> QED BY <2>3, <2>4
<1>4. CASE \E g \in Files : Unlink(g)
  <2>1. PICK g \in Files : Unlink(g)
    BY <1>4
  <2>2. mem' = [mem EXCEPT ![g] = NoFile] /\ UNCHANGED <<saved, medium>>
    BY <2>1 DEF Unlink, diskVars
  <2>3. g # f
    BY <1>0, <2>2 DEF Exists, NoFile
  <2> QED BY <1>0, <1>1, <2>2, <2>3
<1>5. ASSUME NEW g \in Files, NEW kind \in Kinds, NEW mark \in BOOLEAN, NodeStep(g, kind, mark)
      PROVE  UNCHANGED <<mem, saved, medium>>
  BY <1>0, <1>5, NodeStepped
<1>6. CASE CheckpointStep
  <2>1. saved' = mem /\ mem' = mem
    BY <1>6 DEF CheckpointStep, CheckpointDone
  <2> QED BY <2>1 DEF Exists
<1>7. CASE Quiet \/ (\E g \in Files : TryToFreeNats(g)) \/ \E t \in Threads : FsyncCheckInode(t) \/ FsyncFlush(t)
  <2>1. UNCHANGED <<mem, saved, medium>>
    BY <1>7 DEF Quiet, memVars, TryToFreeNats, FsyncCheckInode, FsyncFlush, diskVars
  <2> QED BY <1>1, <2>1
<1> QED BY <1>0, <1>1, <1>2, <1>3, <1>4, <1>5, <1>6, <1>7, BaseStepCases

LEMMA OlderUpStep ==
  ASSUME OlderStep
  PROVE  OlderInv'
<1>1. \A f \in Files : /\ NoneOlder(f, saved[f])' /\ NoneOlder(f, promise[f])'
  BY OlderSaved, OlderPromise
<1>2. \A f \in Files :
         /\ Exists(f)' /\ ~saved'[f].linked => ~HasStaleBlocks(f)'
         /\ Exists(f)' /\ saved'[f].linked /\ mem'[f].dnode = 0 => mem'[f].inode = saved'[f].inode
  BY OlderFiles
<1>3. \A t \in Threads : fsync'[t].pc # "idle" => NoneOlder(fsync[t].file, fsync[t].start)'
  BY OlderThread
<1>4. \A p \in DOMAIN log' :
        (IF Exists(log[p].file) THEN log[p].val <= mem[log[p].file][log[p].kind]
         ELSE ~nat[log[p].file].ckpt)'
  BY OlderLog
<1> QED BY <1>1, <1>2, <1>3, <1>4 DEF OlderInv, Positions

\* The medium has no block after a power failure that it or the log did not have.
LEMMA OlderPowerFail ==
  ASSUME BaseInv, OlderInv, PowerFail
  PROVE  OlderInv'
<1>0. /\ TypeInv /\ log \in Seq(Block) /\ medium \in Seq(Block \cup {NoBlock})
      /\ durable \subseteq DOMAIN log
  BY DEF BaseInv, TypeInv, Positions
<1>1. /\ UNCHANGED <<saved, promise>> /\ log' = <<>>
      /\ \A f \in Files : mem'[f] = NoFile
      /\ \A t \in Threads : fsync'[t].pc = "idle"
  BY DEF PowerFail, Idle
<1>2. PICK kept \in KeptBlocks : medium' = MediumWith(kept)
  BY DEF PowerFail
<1>3. kept \subseteq DOMAIN log
  <2>1. CASE OrderedWrites
    <3>1. PICK n \in 0..Len(log) : kept = 1..n
      BY <1>2, <2>1 DEF KeptBlocks
    <3> QED BY <1>0, <3>1
  <2>2. CASE ~OrderedWrites
    BY <1>2, <2>2 DEF KeptBlocks, Positions
  <2> QED BY <2>1, <2>2
<1>4. \A p \in DOMAIN medium' :
         \/ p \in DOMAIN log /\ medium'[p] = log[p]
         \/ p \in DOMAIN medium /\ medium'[p] = medium[p]
         \/ medium'[p] = NoBlock
  <2>1. PICK m : m = MediumWith(kept)
    OBVIOUS
  <2>2. \A p \in DOMAIN m :
           m[p] = IF p \in durable \cup kept THEN log[p]
                  ELSE IF p \in DOMAIN medium THEN medium[p] ELSE NoBlock
    BY <1>0, <1>3, <2>1, MediumWithFacts
  <2> QED BY <1>0, <1>2, <1>3, <2>1, <2>2
<1>5. ASSUME NEW f \in Files, NEW v, NoneOlder(f, v) PROVE NoneOlder(f, v)'
  <2> SUFFICES ASSUME v.dnode = 0 PROVE NoneOlder(f, v)'
    BY DEF NoneOlder, NoOlderData
  <2>1. /\ saved[f].dnode \notin 1..v.inode
        /\ \A p \in DOMAIN log : log[p].file = f /\ log[p].kind = "dnode" => v.inode < log[p].val
        /\ \A p \in DOMAIN medium : medium[p].file = f /\ medium[p].kind = "dnode" => v.inode < medium[p].val
    BY <1>5 DEF NoneOlder, NoOlderData, Positions
  <2>2. NoBlock.kind # "dnode"
    BY DEF NoBlock
  <2>3. \A p \in DOMAIN medium' :
           medium'[p].file = f /\ medium'[p].kind = "dnode" => v.inode < medium'[p].val
    BY <1>4, <2>1, <2>2
  <2>4. mem'[f].dnode = 0 /\ 0 \notin 1..v.inode
    BY <1>1 DEF NoFile
  <2> QED BY <1>1, <2>1, <2>3, <2>4 DEF NoneOlder, NoOlderData, Positions
<1>6. ASSUME NEW f \in Files PROVE NoneOlder(f, saved[f])' /\ NoneOlder(f, promise[f])'
  <2>1. PICK v, w : v = saved[f] /\ w = promise[f]
    OBVIOUS
  <2>2. NoneOlder(f, v)' /\ NoneOlder(f, w)'
    BY <1>5, <2>1 DEF OlderInv
  <2> QED BY <1>1, <2>1, <2>2 DEF NoneOlder, NoOlderData
<1>7. \A f \in Files : ~Exists(f)'
  BY <1>1 DEF NoFile, Exists
<1> QED BY <1>1, <1>6, <1>7 DEF OlderInv, Positions

\* A mount takes the data of a file from the last checkpoint or from a block of the file.
LEMMA DataFrom ==
  ASSUME TypeInv, NEW c, NEW n \in Nat, DOMAIN c \subseteq 1..n,
         \A p \in DOMAIN c : c[p] \in Block, NEW f \in Files
  PROVE  LET r == AfterMount(c)[f]
         IN  \/ r.dnode = saved[f].dnode
             \/ \E p \in DOMAIN c : c[p].file = f /\ c[p].kind = "dnode" /\ r.dnode = c[p].val
<1>1. saved[f].dnode \in Nat
  BY DEF TypeInv, FileRec
<1>2. PICK D, RD, d : D = FsyncDnodes(c, f) /\ RD = RecoveredDnodes(c, f, D) /\ d = LastVal(c, RD, saved[f].dnode)
  OBVIOUS
<1>3. AfterMount(c)[f] = IF D # {} THEN RecoveredFile(c, f, D) ELSE saved[f]
  BY <1>2 DEF AfterMount, InodeList
<1>4. RecoveredFile(c, f, D).dnode = d
  BY <1>2 DEF RecoveredFile
<1>5. RD \in SUBSET DOMAIN c /\ \A p \in RD : c[p].file = f /\ c[p].kind = "dnode"
  BY <1>2 DEF RecoveredDnodes, Positions
<1>6. /\ RD = {} => d = saved[f].dnode
      /\ RD # {} => \E p \in RD : d = c[p].val
  <2>1. \A S \in SUBSET DOMAIN c, old \in Nat :
           /\ S = {} => LastVal(c, S, old) = old
           /\ S # {} => MaxOf(S) \in S /\ LastVal(c, S, old) = c[MaxOf(S)].val
    BY LastValFacts
  <2> QED BY <1>1, <1>2, <1>5, <2>1
<1> QED BY <1>3, <1>4, <1>5, <1>6

LEMMA OlderMount ==
  ASSUME BaseInv, OlderInv, Mount, TypeInv'
  PROVE  OlderInv' /\ \A f \in Files : promise[f].dnode = 0 => mem'[f].dnode \notin 1..promise[f].inode
<1>0. TypeInv /\ TypeInv' /\ Stopped /\ phase = "down"
  BY DEF BaseInv, Mount
<1>1. PICK c : c = ChainOf(medium)
  OBVIOUS
<1>2. phase' = "up" /\ mem' = AfterMount(c)
  BY <1>1, BaseMount
<1>3. /\ saved' = mem' /\ medium' = IF InodeList(c) = {} THEN medium ELSE <<>>
      /\ UNCHANGED <<log, fsync, promise>>
  BY <1>1, <1>2 DEF Mount
<1>4. InodeList(c) = {} => mem' = saved
  <2>1. saved \in [Files -> FileRec]
    BY <1>0 DEF TypeInv
  <2> QED BY <1>2, <2>1 DEF AfterMount
<1>5. ASSUME NEW f \in Files, promise[f].dnode = 0 PROVE mem'[f].dnode \notin 1..promise[f].inode
  <2>1. /\ DOMAIN c \subseteq 1..Len(medium) /\ Len(medium) \in Nat
        /\ \A p \in DOMAIN c : p \in DOMAIN medium /\ c[p] = medium[p] /\ c[p] \in Block
    <3>1. medium \in Seq(Block \cup {NoBlock}) /\ Len(medium) \in Nat /\ DOMAIN medium = 1..Len(medium)
      BY <1>0 DEF TypeInv
    <3> QED BY <1>1, <3>1, ChainFacts
  <2>2. /\ saved[f].dnode \notin 1..promise[f].inode /\ promise[f].inode \in Nat
        /\ \A p \in DOMAIN medium :
             medium[p].file = f /\ medium[p].kind = "dnode" => promise[f].inode < medium[p].val
    BY <1>0, <1>5 DEF OlderInv, NoneOlder, NoOlderData, Positions, TypeInv, Values
  <2>3. \/ mem'[f].dnode = saved[f].dnode
        \/ \E p \in DOMAIN c : c[p].file = f /\ c[p].kind = "dnode" /\ mem'[f].dnode = c[p].val
    BY <1>0, <1>2, <2>1, DataFrom
  <2>4. CASE mem'[f].dnode = saved[f].dnode
    BY <2>2, <2>4
  <2>5. CASE \E p \in DOMAIN c : c[p].file = f /\ c[p].kind = "dnode" /\ mem'[f].dnode = c[p].val
    <3>1. mem'[f].dnode \in Nat
      BY <1>0 DEF TypeInv, FileRec
    <3>2. promise[f].inode < mem'[f].dnode
      BY <2>1, <2>2, <2>5
    <3> QED BY <2>2, <3>1, <3>2
  <2> QED BY <2>3, <2>4, <2>5
<1>6. ASSUME NEW f \in Files PROVE NoneOlder(f, promise[f])'
  <2> SUFFICES ASSUME promise[f].dnode = 0 PROVE NoneOlder(f, promise[f])'
    BY <1>3 DEF NoneOlder, NoOlderData
  <2>1. \A p \in DOMAIN medium :
           medium[p].file = f /\ medium[p].kind = "dnode" => promise[f].inode < medium[p].val
    BY DEF OlderInv, NoneOlder, Positions
  <2> QED BY <1>0, <1>3, <1>5, <2>1 DEF NoneOlder, NoOlderData, Positions, Stopped
<1>7. ASSUME NEW f \in Files PROVE NoneOlder(f, saved[f])'
  <2> SUFFICES ASSUME mem'[f].dnode = 0 PROVE NoneOlder(f, saved[f])'
    BY <1>3 DEF NoneOlder, NoOlderData
  <2>1. 0 \notin 1..mem'[f].inode
    OBVIOUS
  <2>2. CASE InodeList(c) # {}
    BY <1>0, <1>3, <2>1, <2>2 DEF NoneOlder, NoOlderData, Positions, Stopped
  <2>3. CASE InodeList(c) = {}
    <3>1. \A p \in DOMAIN medium :
             medium[p].file = f /\ medium[p].kind = "dnode" => mem'[f].inode < medium[p].val
      BY <1>4, <2>3 DEF OlderInv, NoneOlder, Positions
    <3> QED BY <1>0, <1>3, <2>1, <2>3, <3>1 DEF NoneOlder, NoOlderData, Positions, Stopped
  <2> QED BY <2>2, <2>3
<1>8. /\ \A t \in Threads : fsync'[t].pc = "idle"
      /\ log' = <<>>
  BY <1>0, <1>3 DEF Stopped, Idle
<1> QED BY <1>3, <1>5, <1>6, <1>7, <1>8 DEF OlderInv, Exists, Positions

LEMMA OlderInductive ==
  ASSUME ~StaleBlocks, BaseInv, OlderInv, [Next]_vars
  PROVE  OlderInv'
<1>0. TypeInv /\ TypeInv' /\ phase \in {"up", "down"}
  BY StepTyped DEF BaseInv, TypeInv, MountSucceeds
<1>1. CASE phase = "up" /\ phase' = "up"
  BY <1>0, <1>1, OlderUpStep DEF OlderStep, BaseStep
<1>2. CASE phase = "up" /\ phase' # "up"
  BY <1>0, <1>2, UpStays, OlderPowerFail
<1>3. CASE phase = "down" /\ Mount
  BY <1>0, <1>3, OlderMount
<1>4. CASE phase = "down" /\ UNCHANGED vars
  <2>1. UNCHANGED <<saved, medium, promise, mem, fsync, log, nat>>
    BY <1>4 DEF vars, memVars, diskVars, runVars
  <2> QED BY <2>1 DEF OlderInv, NoneOlder, NoOlderData, HasStaleBlocks, Exists, Positions
<1> QED BY <1>0, <1>1, <1>2, <1>3, <1>4, DownStays DEF BaseInv

\* For any files and threads, any length of the log and any number of power failures: of a
\* file that had no data when fsync() began, no older data is in memory, in the checkpoint,
\* in the log or on the medium, in whatever order the device writes and with both races.
THEOREM OlderInvariance ==
  ASSUME ~StaleBlocks
  PROVE  Spec => []OlderInv
<1>1. Init => OlderInv
  <2> SUFFICES ASSUME Init PROVE OlderInv
    OBVIOUS
  <2>1. /\ mem = [f \in Files |-> NoFile] /\ saved = mem /\ log = <<>> /\ medium = <<>>
        /\ promise = [f \in Files |-> NoPromise]
        /\ \A t \in Threads : fsync[t].pc = "idle"
    BY DEF Init, Idle
  <2>2. \A f \in Files : NoneOlder(f, saved[f]) /\ NoneOlder(f, promise[f])
    BY <2>1 DEF NoneOlder, NoOlderData, Positions, NoFile, NoPromise
  <2> QED BY <2>1, <2>2 DEF OlderInv, Positions, Exists, NoFile
<1>2. BaseInv /\ OlderInv /\ [Next]_vars => OlderInv'
  BY OlderInductive
<1> QED BY <1>1, <1>2, BaseInvariance, PTL DEF Spec

\* A file that had no data when fsync() returned for it, does not come back after a power
\* failure with data of an earlier file of that inode number (do_recover_data()), whatever
\* the device does with the order of its writes and with both races of fsync(): it takes a
\* block of the earlier file behind the end of the log, when the number is used again.
THEOREM OlderDataStaysAway ==
  ASSUME ~StaleBlocks
  PROVE  Spec => NoOlderDataReturns
<1> DEFINE Away ==
      phase = "down" /\ phase' = "up" =>
        \A f \in Files : promise[f].dnode = 0 => mem'[f].dnode \notin 1..promise[f].inode
<1>1. BaseInv /\ OlderInv /\ [Next]_vars => Away
  <2> SUFFICES ASSUME BaseInv, OlderInv, [Next]_vars, phase = "down", phase' = "up"
               PROVE  \A f \in Files : promise[f].dnode = 0 => mem'[f].dnode \notin 1..promise[f].inode
    OBVIOUS
  <2>1. TypeInv /\ TypeInv' /\ Stopped
    BY StepTyped DEF BaseInv
  <2>2. Mount
    <3>1. Mount \/ UNCHANGED vars
      BY <2>1, DownStays
    <3>2. UNCHANGED vars => phase' = phase
      BY DEF vars, runVars
    <3> QED BY <3>1, <3>2
  <2> QED BY <2>1, <2>2, OlderMount
<1>2. NoOlderDataReturns <=> [][Away]_vars
  BY DEF NoOlderDataReturns
<1> HIDE DEF Away
<1> QED BY <1>1, <1>2, BaseInvariance, OlderInvariance, PTL DEF Spec
=============================================================================
