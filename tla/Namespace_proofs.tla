-------------------------- MODULE Namespace_proofs --------------------------
(***************************************************************************)
(* Proofs about Namespace, for any inodes, names, hashes, threads and      *)
(* number of orphans.                                                      *)
(***************************************************************************)
EXTENDS Namespace, Directory_proofs, FiniteSetTheorems, TLAPS

-----------------------------------------------------------------------------
(* Names and entries.                                                      *)

LEMMA NamesFinite ==
  ASSUME NEW D, NEW P, NEW i
  PROVE  /\ IsFiniteSet(NamesOf(D, i)) /\ Cardinality(NamesOf(D, i)) \in Nat
         /\ IsFiniteSet(Subdirs(D, P, i)) /\ Cardinality(Subdirs(D, P, i)) \in Nat
<1>1. IsFiniteSet(Inos \X Names)
  BY NamespaceAssumption, FS_Product
<1>2. NamesOf(D, i) \in SUBSET (Inos \X Names) /\ Subdirs(D, P, i) \in SUBSET Inos
  BY DEF NamesOf, Subdirs
<1>3. IsFiniteSet(NamesOf(D, i)) /\ IsFiniteSet(Subdirs(D, P, i))
  BY <1>1, <1>2, NamespaceAssumption, FS_Subset
<1> QED BY <1>3, FS_CardinalityType

LEMMA NamesMember ==
  ASSUME NEW D, NEW i, NEW d \in Inos, NEW n \in Names
  PROVE  <<d, n>> \in NamesOf(D, i) <=> HasName(D, i, d, n)
BY DEF NamesOf

LEMMA NamesEqual ==
  ASSUME NEW D, NEW E, NEW i, NEW j,
         \A d \in Inos, n \in Names : HasName(D, i, d, n) <=> HasName(E, j, d, n)
  PROVE  NamesOf(D, i) = NamesOf(E, j)
BY DEF NamesOf

Directories == [Inos -> SUBSET Entries]

LEMMA EntriesAre == Entries = EntriesWith(Inos)
BY DEF Entries, EntriesWith

LEMMA NamesFromHasName ==
  ASSUME NEW D, NEW k, NEW N \in SUBSET (Inos \X Names),
         \A f \in Inos, m \in Names : HasName(D, k, f, m) <=> <<f, m>> \in N
  PROVE  NamesOf(D, k) = N
<1>1. \A p \in Inos \X Names : p = <<p[1], p[2]>> /\ p[1] \in Inos /\ p[2] \in Names
  OBVIOUS
<1>2. \A p \in Inos \X Names : p \in N <=> HasName(D, k, p[1], p[2])
  BY <1>1
<1> QED BY <1>2 DEF NamesOf

\* The subdirectories of a directory are the directories with a name there.
LEMMA SubdirsMember ==
  ASSUME NEW D \in Directories, NEW P, NEW d \in Inos, NEW i \in Inos
  PROVE  i \in Subdirs(D, P, d) <=> P[i].kind = "dir" /\ \E n \in Names : <<d, n>> \in NamesOf(D, i)
<1>1. \A n \in Names : <<d, n>> \in NamesOf(D, i) <=> HasName(D, i, d, n)
  BY NamesMember
<1>2. \A e \in D[d] : e.name \in Names
  BY DEF Directories, Entries
<1>3. (\E e \in D[d] : e.ino = i) <=> \E n \in Names : HasName(D, i, d, n)
  BY <1>2 DEF HasName
<1>4. i \in Subdirs(D, P, d) <=> P[i].kind = "dir" /\ \E e \in D[d] : e.ino = i
  BY DEF Subdirs
<1> QED BY <1>1, <1>3, <1>4

-----------------------------------------------------------------------------
(* The frame of a step: the operations C that it moves, the inodes T whose  *)
(* names it is about, the directories L whose entries it changes.           *)

Kept(k, L) ==
    /\ k \notin L => inode'[k] = inode[k] /\ dents'[k] = dents[k]
    /\ inode'[k].kind = inode[k].kind
    /\ page'[k] = page[k] \/ (page[k].kind # "none" /\ page'[k] = inode'[k])
    /\ page'[k] = inode'[k] \/ inode'[k] = inode[k]
    /\ parent'[k] = parent[k]
    /\ k \in orphans' <=> k \in orphans
    /\ open'[k] \in {"no", open[k]} \/ NamesOf(dents, k) # {}
    /\ NamesOf(dents', k) = NamesOf(dents, k)

Counted(k) == LiveDir(k) /\ inode[k].nlink = 2 + Cardinality(Subdirs(dents, inode, k)) + Bit(Doubled(k))

Frame(C, T, L) ==
    /\ C \subseteq Threads /\ \A t, u \in C : t = u
    /\ T \subseteq Inos /\ L \subseteq Inos /\ Root \notin T
    /\ \A u \in Threads \ C :
         op'[u] = op[u] /\ Targets(u) \cap T = {} /\ op[u].locks \cap L = {}
    /\ \A t \in C :
         /\ Targets(t) \subseteq T /\ Targets(t)' \subseteq T
         /\ \A k \in Inos \ L : DoubledBy(t, k)' <=> DoubledBy(t, k)
         /\ \A u \in Threads \ C : op'[t].locks \cap op[u].locks = {} /\ ~(CrossDir(t)' /\ CrossDir(u))
    /\ \A k \in Inos : NamesOf(dents, k) # {} => inode'[k].kind = inode[k].kind
    /\ \A k \in L : k \in T \/ (LiveDir(k) /\ Counted(k)')
    /\ \A k \in Inos \ L : LiveDir(k) =>
         /\ LiveDir(k)'
         /\ dents'[k] = dents[k] /\ hint'[k] = hint[k] /\ inode'[k].depth = inode[k].depth
    /\ \A k \in Inos \ T : Kept(k, L)

\* What stays of an inode that a step is not about
LEMMA KeptInode ==
  ASSUME NEW C, NEW T, NEW L, Frame(C, T, L), NEW k \in Inos, PageInv(k), k \notin T
  PROVE  /\ page'[k].kind = page[k].kind /\ inode'[k].kind = inode[k].kind
         /\ page[k].kind = "none" => page'[k] = page[k] /\ inode'[k] = inode[k] /\ k \notin L
         /\ IsDir(k)' <=> IsDir(k)
         /\ inode'[k] = inode[k] \/ (LiveDir(k) /\ LiveDir(k)')
         /\ k \notin L => inode'[k] = inode[k] /\ dents'[k] = dents[k]
         /\ LiveDir(k)' <=> LiveDir(k)
         /\ page'[k] = inode'[k] \/ (page'[k] = page[k] /\ inode'[k] = inode[k])
         /\ parent'[k] = parent[k]
         /\ k \in orphans' <=> k \in orphans
         /\ open'[k] \in {"no", open[k]} \/ NamesOf(dents, k) # {}
         /\ NamesOf(dents', k) = NamesOf(dents, k)
<1>1. Kept(k, L)
  BY DEF Frame
<1>2. page'[k].kind = page[k].kind /\ inode'[k].kind = inode[k].kind
  BY <1>1 DEF Kept, PageInv
<1>3. k \in L => LiveDir(k) /\ LiveDir(k)'
  BY DEF Frame, Counted
<1>4. page[k].kind = "none" => page'[k] = page[k] /\ inode'[k] = inode[k] /\ k \notin L
  BY <1>1, <1>3 DEF Kept, LiveDir
<1>5. inode'[k] = inode[k] \/ (LiveDir(k) /\ LiveDir(k)')
  BY <1>1, <1>3 DEF Kept
<1>6. LiveDir(k)' <=> LiveDir(k)
  BY <1>2, <1>5 DEF LiveDir
<1> QED BY <1>1, <1>2, <1>4, <1>5, <1>6 DEF Kept, IsDir

\* What another operation knows stays true.
LEMMA OpFrame ==
  ASSUME Inv, NEW C, NEW T, NEW L, Frame(C, T, L), NEW u \in Threads \ C
  PROVE  OpInv(u)'
<1> USE DEF Inv
<1>1. /\ op'[u] = op[u] /\ u \in Threads
      /\ \A k \in Targets(u) : k \notin T
      /\ \A k \in op[u].locks : k \notin L
  BY DEF Frame
<1>2. op[u] \in OpTypes
  BY <1>1 DEF TypeInv
<1>3. op[u].ino \in Inos /\ op[u].old \in Inos /\ op[u].dir \in Inos /\ op[u].toDir \in Inos
      /\ op[u].locks \subseteq Inos /\ op[u].pc \in Pcs
  BY <1>2 DEF OpTypes
<1>4. Targets(u) \subseteq Inos
  BY <1>3 DEF Targets
<1>5. Targets(u)' = Targets(u)
  BY <1>1 DEF Targets
<1>6. ASSUME NEW k \in Targets(u)
      PROVE  /\ page'[k].kind = page[k].kind /\ inode'[k].kind = inode[k].kind
             /\ page[k].kind = "none" => page'[k] = page[k] /\ inode'[k] = inode[k] /\ k \notin L
             /\ inode'[k] = inode[k] \/ (LiveDir(k) /\ LiveDir(k)')
             /\ k \notin L => inode'[k] = inode[k] /\ dents'[k] = dents[k]
             /\ LiveDir(k)' <=> LiveDir(k)
             /\ page'[k] = inode'[k] \/ (page'[k] = page[k] /\ inode'[k] = inode[k])
             /\ parent'[k] = parent[k]
             /\ k \in orphans' <=> k \in orphans
             /\ open'[k] \in {"no", open[k]} \/ NamesOf(dents, k) # {}
             /\ NamesOf(dents', k) = NamesOf(dents, k)
  BY <1>1, <1>4, KeptInode
<1>7. ASSUME NEW k \in op[u].locks, LiveDir(k)
      PROVE  LiveDir(k)' /\ dents'[k] = dents[k] /\ hint'[k] = hint[k] /\ inode'[k].depth = inode[k].depth
  BY <1>1, <1>3, <1>7 DEF Frame
<1>8. op[u].pc # "idle" => op[u].ino \in Targets(u)
  BY DEF Targets
<1>9. op[u].pc \in {"replace", "replaced", "exchange", "crossed"} => op[u].old \in Targets(u)
  BY DEF Targets
<1>10. OpInv(u)
  BY <1>1
<1>11. AddInv(u)'
  <2>1. CASE op[u].pc \in {"new", "metadata"}
    <3>1. /\ op[u].what \in {"create", "link"} /\ op[u].name \in Names
          /\ op[u].dir \in op[u].locks /\ LiveDir(op[u].dir) /\ ~Taken(op[u].dir, op[u].name)
      BY <1>10, <2>1 DEF OpInv, AddInv
    <3>2. LiveDir(op[u].dir)' /\ dents'[op[u].dir] = dents[op[u].dir] /\ hint'[op[u].dir] = hint[op[u].dir]
          /\ inode'[op[u].dir].depth = inode[op[u].dir].depth
      BY <3>1, <1>7, <1>1 DEF LiveDir
    <3>3. ~Taken(op[u].dir, op[u].name)'
      BY <3>1, <3>2, <1>1 DEF Taken
    <3>4. op[u].what = "create" =>
             /\ page'[op[u].ino] = NoInode
             /\ inode'[op[u].ino].kind # "none"
             /\ inode'[op[u].ino].nlink = IF op[u].pc = "metadata" /\ IsDir(op[u].ino)' THEN 2 ELSE 1
      <4>1. op[u].what = "create" => page[op[u].ino] = NoInode /\ page[op[u].ino].kind = "none"
        BY <1>10, <2>1 DEF OpInv, AddInv, NoInode
      <4>2. op[u].what = "create" => page'[op[u].ino] = page[op[u].ino] /\ inode'[op[u].ino] = inode[op[u].ino]
        BY <4>1, <1>6, <1>8, <2>1
      <4> QED BY <4>1, <4>2, <1>10, <1>1, <2>1 DEF OpInv, AddInv, IsDir
    <3>5. op[u].what # "create" => page'[op[u].ino].kind = "file" /\ op[u].ino \in op[u].locks
      BY <1>10, <1>6, <1>8, <2>1 DEF OpInv, AddInv
    <3>6. op[u].pc = "metadata" =>
            /\ op[u].ino \notin orphans'
            /\ CanAdd(dents'[op[u].dir], inode'[op[u].dir].depth, hint'[op[u].dir], op[u].name)
      BY <3>2, <1>10, <1>6, <1>8, <2>1 DEF OpInv, AddInv
    <3> QED BY <2>1, <1>1, <3>1, <3>2, <3>3, <3>4, <3>5, <3>6 DEF AddInv
  <2>2. CASE op[u].pc = "acquired"
    <3>1. page[op[u].ino] = NoInode /\ page[op[u].ino].kind = "none"
      BY <1>10, <2>2 DEF OpInv, AddInv, NoInode
    <3> QED BY <3>1, <2>2, <1>1, <1>6, <1>8, <1>10 DEF OpInv, AddInv
  <2>3. CASE op[u].pc = "tmpfile"
    <3>1. NamesOf(dents, op[u].ino) = {}
      BY <2>3, <1>10, <1>3 DEF OpInv, AddInv, OrphanInv
    <3> QED BY <3>1, <2>3, <1>1, <1>6, <1>8, <1>10 DEF OpInv, AddInv
  <2>4. CASE op[u].pc \notin {"new", "metadata", "acquired", "tmpfile"}
    BY <2>4, <1>1 DEF AddInv
  <2> QED BY <2>1, <2>2, <2>3, <2>4
<1>12. UnlinkInv(u)'
  <2>1. CASE op[u].pc = "unlink"
    <3>1. /\ op[u].what = "unlink" /\ {op[u].dir, op[u].ino} \subseteq op[u].locks /\ LiveDir(op[u].dir)
          /\ op[u].name \in Names /\ HasName(dents, op[u].ino, op[u].dir, op[u].name)
          /\ OnlyAt(op[u].ino, {<<op[u].dir, op[u].name>>})
          /\ IsDir(op[u].ino) => dents[op[u].ino] = {} /\ parent[op[u].ino] = op[u].dir
      BY <1>10, <2>1 DEF OpInv, UnlinkInv
    <3>2. LiveDir(op[u].dir)' /\ dents'[op[u].dir] = dents[op[u].dir]
      BY <3>1, <1>7, <1>1 DEF LiveDir
    <3>3. HasName(dents', op[u].ino, op[u].dir, op[u].name)
      BY <3>1, <3>2 DEF HasName
    <3>4. OnlyAt(op[u].ino, {<<op[u].dir, op[u].name>>})'
      BY <3>1, <1>6, <1>8, <1>1, <2>1 DEF OnlyAt, IsDir
    <3>5. IsDir(op[u].ino)' => dents'[op[u].ino] = {} /\ parent'[op[u].ino] = op[u].dir
      BY <3>1, <1>6, <1>8, <1>1, <2>1 DEF IsDir
    <3> QED BY <2>1, <1>1, <3>1, <3>2, <3>3, <3>4, <3>5 DEF UnlinkInv
  <2>2. CASE op[u].pc = "settle"
    <3>1. /\ op[u].what = "unlink" /\ {op[u].dir, op[u].ino} \subseteq op[u].locks /\ LiveDir(op[u].dir)
          /\ page[op[u].ino].kind # "none" /\ page[op[u].ino] = inode[op[u].ino] /\ op[u].ino \notin orphans
          /\ IsDir(op[u].ino) => inode[op[u].ino].nlink = 0
      BY <1>10, <2>2 DEF OpInv, UnlinkInv
    <3>2. LiveDir(op[u].dir)'
      BY <3>1, <1>7, <1>1 DEF LiveDir
    <3>3. /\ page'[op[u].ino].kind # "none" /\ page'[op[u].ino] = inode'[op[u].ino] /\ op[u].ino \notin orphans'
      BY <3>1, <1>6, <1>8, <2>2
    <3>4. IsDir(op[u].ino)' => inode'[op[u].ino].nlink = 0
      BY <3>1, <1>6, <1>8, <2>2, <1>1 DEF IsDir, LiveDir
    <3> QED BY <2>2, <1>1, <3>1, <3>2, <3>3, <3>4 DEF UnlinkInv
  <2>3. CASE op[u].pc \notin {"unlink", "settle"}
    BY <2>3, <1>1 DEF UnlinkInv
  <2> QED BY <2>1, <2>2, <2>3
<1>13. RenameInv(u)'
  <2>1. CASE op[u].pc \notin {"replace", "replaced", "add", "moved", "exchange", "crossed"}
    BY <2>1, <1>1 DEF RenameInv
  <2>2. CASE op[u].pc \in {"replace", "replaced", "add", "moved", "exchange", "crossed"}
    <3> DEFINE from == <<op[u].dir, op[u].name>>
               to   == <<op[u].toDir, op[u].toName>>
    <3>1. /\ op[u].what = "rename" /\ {op[u].dir, op[u].toDir} \subseteq op[u].locks
          /\ LiveDir(op[u].dir) /\ LiveDir(op[u].toDir)
          /\ op[u].name \in Names /\ op[u].toName \in Names /\ from # to
          /\ \A k \in Targets(u) : page[k].kind # "none" /\ (~IsDir(k) => k \in op[u].locks)
      BY <1>10, <2>2 DEF OpInv, RenameInv
    <3>2. /\ LiveDir(op[u].dir)' /\ dents'[op[u].dir] = dents[op[u].dir]
          /\ LiveDir(op[u].toDir)' /\ dents'[op[u].toDir] = dents[op[u].toDir]
      BY <3>1, <1>7, <1>1 DEF LiveDir
    <3>3. \A k \in Targets(u) : page'[k].kind # "none" /\ (~IsDir(k)' => k \in op[u].locks)
      BY <3>1, <1>6 DEF IsDir
    <3>4. \A k, n : /\ HasName(dents', k, op[u].dir, n) <=> HasName(dents, k, op[u].dir, n)
                    /\ HasName(dents', k, op[u].toDir, n) <=> HasName(dents, k, op[u].toDir, n)
      BY <3>2 DEF HasName
    <3>5. \A k \in Targets(u) : \A S : OnlyAt(k, S) => (inode'[k].kind = "dir" => NamesOf(dents', k) = S)
      BY <1>6 DEF OnlyAt, IsDir
    <3>6. Taken(op[u].toDir, op[u].toName) <=> Taken(op[u].toDir, op[u].toName)'
      BY <3>2, <1>1 DEF Taken
    <3>7. \A k \in Targets(u) : /\ inode'[k].kind = inode[k].kind /\ parent'[k] = parent[k]
                                /\ k \in orphans' <=> k \in orphans
                                /\ inode[k].nlink = 0 => inode'[k].nlink = 0
                                /\ inode[k].nlink # 0 => inode'[k].nlink # 0
                                /\ k \in op[u].locks => (dents[k] = {} => dents'[k] = {})
      <4> TAKE k \in Targets(u)
      <4>1. /\ inode'[k].kind = inode[k].kind /\ parent'[k] = parent[k]
            /\ k \in orphans' <=> k \in orphans
            /\ inode'[k] = inode[k] \/ (LiveDir(k) /\ LiveDir(k)')
            /\ k \notin L => dents'[k] = dents[k]
        BY <1>6
      <4> QED BY <4>1, <1>1 DEF LiveDir
    <3>8. op[u].ino \in Targets(u)
      BY <2>2, <1>8
    <3>9. /\ op[u].pc \in {"replace", "replaced", "add", "moved", "exchange"} =>
             HasName(dents', op[u].ino, op[u].dir, op[u].name)
             /\ (inode'[op[u].ino].kind = "dir" => parent'[op[u].ino] = op[u].dir)
          /\ op[u].pc \in {"replaced", "moved"} =>
               HasName(dents', op[u].ino, op[u].toDir, op[u].toName)
               /\ (inode'[op[u].ino].kind = "dir" => NamesOf(dents', op[u].ino) = {from, to})
          /\ op[u].pc \in {"replace", "add", "exchange"} =>
               (inode'[op[u].ino].kind = "dir" => NamesOf(dents', op[u].ino) = {from})
      BY <3>4, <3>5, <3>7, <3>8, <1>10 DEF OpInv, RenameInv, IsDir
    <3>10. op[u].pc \in {"replace", "replaced"} =>
             /\ op[u].old \in op[u].locks /\ dents'[op[u].old] = {}
             /\ inode'[op[u].old].kind = "dir" <=> inode'[op[u].ino].kind = "dir"
      BY <3>7, <3>8, <1>9, <1>10 DEF OpInv, RenameInv, IsDir
    <3>11. op[u].pc \in {"replace", "exchange"} =>
             /\ HasName(dents', op[u].old, op[u].toDir, op[u].toName)
             /\ inode'[op[u].old].kind = "dir" => NamesOf(dents', op[u].old) = {to}
             /\ inode'[op[u].old].kind = "dir" => parent'[op[u].old] = op[u].toDir
      BY <3>4, <3>5, <3>7, <1>9, <1>10 DEF OpInv, RenameInv, IsDir
    <3>12. op[u].pc = "replaced" =>
             op[u].old \notin orphans' /\ (inode'[op[u].old].kind = "dir" => inode'[op[u].old].nlink = 0)
      BY <3>7, <1>9, <1>10 DEF OpInv, RenameInv, IsDir
    <3>13. op[u].pc = "crossed" =>
             /\ HasName(dents', op[u].old, op[u].dir, op[u].name)
             /\ HasName(dents', op[u].old, op[u].toDir, op[u].toName)
             /\ inode'[op[u].old].kind = "dir" => NamesOf(dents', op[u].old) = {from, to}
             /\ inode'[op[u].ino].kind = "dir" => NamesOf(dents', op[u].ino) = {}
             /\ inode'[op[u].ino].nlink # 0
             /\ inode'[op[u].ino].kind = "dir" => parent'[op[u].ino] = op[u].toDir
             /\ inode'[op[u].old].kind = "dir" => parent'[op[u].old] = op[u].dir
      BY <3>4, <3>5, <3>7, <3>8, <1>9, <1>10 DEF OpInv, RenameInv, IsDir
    <3>15. op[u].pc = "crossed" => page'[op[u].ino] = inode'[op[u].ino]
      BY <1>6, <3>8, <1>10 DEF OpInv, RenameInv
    <3>14. /\ op[u].pc = "add" => ~Taken(op[u].toDir, op[u].toName)'
           /\ op[u].pc \in {"replace", "replaced", "exchange", "crossed"} => op[u].ino # op[u].old
      BY <3>6, <1>10 DEF OpInv, RenameInv
    <3>16. /\ op'[u] = op[u] /\ Targets(u)' = Targets(u)
           /\ LiveDir(op[u].dir)' /\ LiveDir(op[u].toDir)'
      BY <1>1, <1>5, <3>2
    <3>17. CASE op[u].pc = "crossed"
      BY <3>1, <3>3, <3>13, <3>14, <3>15, <3>16, <3>17 DEF RenameInv, OnlyAt, IsDir
    <3>18. CASE op[u].pc \in {"replace", "replaced"}
      BY <3>1, <3>3, <3>9, <3>10, <3>11, <3>12, <3>14, <3>16, <3>18 DEF RenameInv, OnlyAt, IsDir
    <3>19. CASE op[u].pc \in {"add", "moved", "exchange"}
      BY <3>1, <3>3, <3>9, <3>11, <3>14, <3>16, <3>19 DEF RenameInv, OnlyAt, IsDir
    <3> QED BY <2>2, <3>17, <3>18, <3>19
  <2> QED BY <2>1, <2>2
<1>14. op'[u].pc = "idle" => op'[u] = Idle
  BY <1>10, <1>1 DEF OpInv
<1>15. Targets(u)' \cap {Root, op'[u].dir, op'[u].toDir} = {}
  BY <1>10, <1>1, <1>5 DEF OpInv
<1> QED BY <1>11, <1>12, <1>13, <1>14, <1>15 DEF OpInv

LEMMA HasNameNamed ==
  ASSUME NEW D \in Directories, NEW d \in Inos, NEW e \in D[d]
  PROVE  HasName(D, e.ino, d, e.name) /\ <<d, e.name>> \in NamesOf(D, e.ino) /\ e.name \in Names
<1>1. e.name \in Names
  BY DEF Directories, Entries
<1>2. HasName(D, e.ino, d, e.name)
  BY DEF HasName
<1> QED BY <1>1, <1>2, NamesMember

\* The operations on an inode a step is not about are what they were.
LEMMA ActorsFrame ==
  ASSUME Inv, NEW C, NEW T, NEW L, Frame(C, T, L), NEW k \in Inos, k \notin T
  PROVE  /\ Ahead(k)' <=> Ahead(k)
         /\ Behind(k)' <=> Behind(k)
         /\ Losing(k)' <=> Losing(k)
         /\ (\E t \in Threads : op'[t].ino = k /\ op'[t].pc = "tmpfile")
              <=> (\E t \in Threads : op[t].ino = k /\ op[t].pc = "tmpfile")
         /\ (\E t \in Threads : k \in Targets(t)') <=> (\E t \in Threads : k \in Targets(t))
         /\ k \notin L => (Doubled(k)' <=> Doubled(k))
<1>1. \A u \in Threads \ C : op'[u] = op[u]
  BY DEF Frame
<1>2. \A t \in C : k \notin Targets(t) /\ k \notin Targets(t)'
  BY DEF Frame
<1>3. \A t \in C : /\ op[t].ino = k => op[t].pc \notin {"metadata", "tmpfile", "crossed", "replaced", "moved", "settle"}
                   /\ op[t].old = k => op[t].pc \notin {"crossed", "replaced"}
                   /\ op'[t].ino = k => op'[t].pc \notin {"metadata", "tmpfile", "crossed", "replaced", "moved", "settle"}
                   /\ op'[t].old = k => op'[t].pc \notin {"crossed", "replaced"}
  BY <1>2 DEF Targets
<1>4. \A u \in Threads : u \in C \/ u \in Threads \ C
  OBVIOUS
<1>5. Ahead(k)' <=> Ahead(k)
  BY <1>1, <1>3, <1>4 DEF Ahead
<1>6. Behind(k)' <=> Behind(k)
  BY <1>1, <1>3, <1>4 DEF Behind
<1>7. Losing(k)' <=> Losing(k)
  BY <1>1, <1>3, <1>4 DEF Losing
<1>8. (\E t \in Threads : op'[t].ino = k /\ op'[t].pc = "tmpfile")
              <=> (\E t \in Threads : op[t].ino = k /\ op[t].pc = "tmpfile")
  BY <1>1, <1>3, <1>4
<1>9. (\E t \in Threads : k \in Targets(t)') <=> (\E t \in Threads : k \in Targets(t))
  <2>1. \A u \in Threads \ C : Targets(u)' = Targets(u)
    BY <1>1 DEF Targets
  <2> QED BY <2>1, <1>2, <1>4
<1>10. ASSUME k \notin L PROVE Doubled(k)' <=> Doubled(k)
  <2>1. ASSUME NEW u \in Threads \ C PROVE DoubledBy(u, k)' <=> DoubledBy(u, k)
    <3>1. CASE op[u].pc \in {"replaced", "moved", "crossed"}
      <4>1. op[u].ino \in Targets(u) /\ op[u].ino \in Inos /\ op[u].ino \notin T
        <5>1. op[u] \in OpTypes
          BY DEF Inv, TypeInv
        <5>2. op[u].ino \in Targets(u)
          BY <3>1 DEF Targets
        <5> QED BY <5>1, <5>2 DEF OpTypes, Frame
      <4>2. inode'[op[u].ino].kind = inode[op[u].ino].kind
        BY <4>1, KeptInode DEF Inv
      <4> QED BY <1>1, <4>2 DEF DoubledBy, IsDir
    <3>2. CASE op[u].pc \notin {"replaced", "moved", "crossed"}
      BY <3>2, <1>1 DEF DoubledBy
    <3> QED BY <3>1, <3>2
  <2>2. \A t \in C : DoubledBy(t, k)' <=> DoubledBy(t, k)
    BY <1>10 DEF Frame
  <2> QED BY <2>1, <2>2, <1>4 DEF Doubled
<1> QED BY <1>5, <1>6, <1>7, <1>8, <1>9, <1>10

\* What is known of an inode that the step is not about stays true.
LEMMA InodeFrame ==
  ASSUME Inv, NEW C, NEW T, NEW L, Frame(C, T, L), NEW k \in Inos, k \notin T
  PROVE  PageInv(k)' /\ OrphanInv(k)' /\ LinkInv(k)'
<1>1. PageInv(k) /\ OrphanInv(k) /\ LinkInv(k)
  BY DEF Inv
<1>2. /\ page'[k].kind = page[k].kind /\ inode'[k].kind = inode[k].kind
      /\ page[k].kind = "none" => page'[k] = page[k] /\ inode'[k] = inode[k] /\ k \notin L
      /\ inode'[k] = inode[k] \/ (LiveDir(k) /\ LiveDir(k)')
      /\ k \notin L => inode'[k] = inode[k] /\ dents'[k] = dents[k]
      /\ LiveDir(k)' <=> LiveDir(k)
      /\ page'[k] = inode'[k] \/ (page'[k] = page[k] /\ inode'[k] = inode[k])
      /\ parent'[k] = parent[k]
      /\ k \in orphans' <=> k \in orphans
      /\ open'[k] \in {"no", open[k]} \/ NamesOf(dents, k) # {}
      /\ NamesOf(dents', k) = NamesOf(dents, k)
  BY <1>1, KeptInode
<1>3. /\ Ahead(k)' <=> Ahead(k)
      /\ Behind(k)' <=> Behind(k)
      /\ Losing(k)' <=> Losing(k)
      /\ (\E t \in Threads : op'[t].ino = k /\ op'[t].pc = "tmpfile")
           <=> (\E t \in Threads : op[t].ino = k /\ op[t].pc = "tmpfile")
      /\ (\E t \in Threads : k \in Targets(t)') <=> (\E t \in Threads : k \in Targets(t))
      /\ k \notin L => (Doubled(k)' <=> Doubled(k))
  BY ActorsFrame
<1>4. OrphanInv(k)'
  BY <1>1, <1>2, <1>3 DEF OrphanInv, LiveDir
<1>5. LinkInv(k)'
  <2>1. page'[k].kind = "file" =>
           inode'[k].nlink = Cardinality(NamesOf(dents', k)) + Bit(Ahead(k)') - Bit(Behind(k)')
    BY <1>1, <1>2, <1>3 DEF LinkInv, LiveDir, Bit
  <2>2. LiveDir(k)' => inode'[k].nlink = 2 + Cardinality(Subdirs(dents', inode', k)) + Bit(Doubled(k)')
    <3>1. CASE k \in L
      BY <3>1 DEF Frame, Counted
    <3>2. CASE k \notin L
      <4>1. \A e \in dents[k] : e.ino \in Inos => inode'[e.ino].kind = inode[e.ino].kind
        <5>1. dents \in Directories
          BY DEF Inv, TypeInv, Directories
        <5>2. \A e \in dents[k] : NamesOf(dents, e.ino) # {}
          BY <5>1, HasNameNamed
        <5> QED BY <5>2 DEF Frame
      <4>2. Subdirs(dents', inode', k) = Subdirs(dents, inode, k)
        BY <3>2, <1>2, <4>1 DEF Subdirs
      <4> QED BY <3>2, <4>2, <1>1, <1>2, <1>3 DEF LinkInv, Bit
    <3> QED BY <3>1, <3>2
  <2>3. page'[k].kind = "dir" /\ inode'[k].nlink = 0 => NamesOf(dents', k) = {}
    BY <1>1, <1>2 DEF LinkInv, LiveDir
  <2>4. LiveDir(k)' /\ k # Root /\ (\A t \in Threads : k \notin Targets(t)') =>
          \E n \in Names : NamesOf(dents', k) = {<<parent'[k], n>>}
    BY <1>1, <1>2, <1>3 DEF LinkInv
  <2> QED BY <2>1, <2>2, <2>3, <2>4 DEF LinkInv
<1>6. PageInv(k)'
  <2>1. dents'[k] # {} => LiveDir(k)'
    <3>1. CASE k \in L
      BY <3>1 DEF Frame, Counted
    <3>2. CASE k \notin L
      BY <3>2, <1>1, <1>2 DEF PageInv
    <3> QED BY <3>1, <3>2
  <2>2. page'[k].kind = "none" => dents'[k] = {}
    BY <1>1, <1>2 DEF PageInv
  <2>3. inode'[k].nlink >= 0 /\ page'[k].nlink >= 0
    <3>1. LiveDir(k)' => inode'[k].nlink >= 0
      <4>1. Cardinality(Subdirs(dents', inode', k)) \in Nat /\ Bit(Doubled(k)') \in Nat
        BY NamesFinite DEF Bit
      <4>2. LiveDir(k)' => inode'[k].nlink = 2 + Cardinality(Subdirs(dents', inode', k)) + Bit(Doubled(k)')
        BY <1>5 DEF LinkInv, Bit
      <4> QED BY <4>1, <4>2
    <3>2. inode'[k].nlink >= 0
      BY <3>1, <1>1, <1>2 DEF PageInv
    <3> QED BY <3>2, <1>1, <1>2 DEF PageInv
  <2> QED BY <2>1, <2>2, <2>3, <1>1, <1>2, <1>3 DEF PageInv, LiveDir
<1> QED BY <1>4, <1>5, <1>6

\* The steps of the proof that a step keeps the invariant
LEMMA Assemble ==
  ASSUME Inv, NEW C, NEW T, NEW L, Frame(C, T, L),
         TypeInv', \A t \in C : OpInv(t)',
         \A k \in T : PageInv(k)' /\ OrphanInv(k)' /\ LinkInv(k)',
         DirsFound', CycleInv', OrphanCount', SavedInv'
  PROVE  Inv'
<1>1. \A u \in Threads : OpInv(u)'
  BY OpFrame
<1>2. \A k \in Inos : PageInv(k)' /\ OrphanInv(k)' /\ LinkInv(k)'
  BY InodeFrame
<1>3. RootInv'
  <2>1. Root \in Inos /\ Root \notin T
    BY NamespaceAssumption DEF Frame
  <2>2. PageInv(Root) /\ RootInv
    BY <2>1 DEF Inv
  <2>3. LiveDir(Root)' <=> LiveDir(Root)
    BY <2>1, <2>2, KeptInode
  <2>4. parent'[Root] = parent[Root] /\ NamesOf(dents', Root) = NamesOf(dents, Root)
    BY <2>1, <2>2, KeptInode
  <2> QED BY <2>2, <2>3, <2>4 DEF RootInv
<1>4. ExclusionInv'
  <2> SUFFICES ASSUME NEW t \in Threads, NEW u \in Threads, t # u
               PROVE  /\ op'[t].locks \cap op'[u].locks = {}
                      /\ Targets(t)' \cap Targets(u)' = {}
                      /\ ~(CrossDir(t)' /\ CrossDir(u)')
    BY DEF ExclusionInv
  <2>1. \A v \in Threads \ C : op'[v] = op[v] /\ Targets(v)' = Targets(v) /\ (CrossDir(v)' <=> CrossDir(v))
    BY DEF Frame, Targets, CrossDir
  <2>2. t \notin C \/ u \notin C
    BY DEF Frame
  <2>3. CASE t \notin C /\ u \notin C
    BY <2>1, <2>3 DEF Inv, ExclusionInv
  <2>4. ASSUME NEW v \in C, NEW w \in Threads \ C
        PROVE  /\ op'[v].locks \cap op'[w].locks = {}
               /\ Targets(v)' \cap Targets(w)' = {}
               /\ ~(CrossDir(v)' /\ CrossDir(w)')
    BY <2>1 DEF Frame
  <2> QED BY <2>2, <2>3, <2>4
<1> QED BY <1>1, <1>2, <1>3, <1>4 DEF Inv

-----------------------------------------------------------------------------
(* What the helpers of the operations do.                                  *)

\* A search finds the only entry of a name.
LEMMA EntryByName ==
  ASSUME TypeInv, DirsFound, NEW d \in Inos, NEW n \in Names
  PROVE  /\ Named(d, n) <=> Taken(d, n)
         /\ \A i : HasName(dents, i, d, n) => Taken(d, n)
         /\ Taken(d, n) =>
              /\ EntryAt(d, n) \in dents[d] /\ EntryAt(d, n).name = n /\ InoAt(d, n) \in Inos
              /\ \A x \in dents[d] : x.name = n => x = EntryAt(d, n)
              /\ \A i : HasName(dents, i, d, n) <=> i = InoAt(d, n)
<1>1. EntriesFound(dents[d], inode[d].depth)
  BY DEF DirsFound
<1>2. EntriesOf(dents[d], inode[d].depth, n) = {e \in dents[d] : e.name = n}
  BY <1>1, SearchIsExact
<1>3. Named(d, n) <=> Taken(d, n)
  BY <1>2 DEF Named, Search, Taken
<1>4. \A i : HasName(dents, i, d, n) => Taken(d, n)
  BY DEF HasName, Taken
<1>5. ASSUME Taken(d, n)
      PROVE  /\ EntryAt(d, n) \in dents[d] /\ EntryAt(d, n).name = n /\ InoAt(d, n) \in Inos
             /\ \A x \in dents[d] : x.name = n => x = EntryAt(d, n)
             /\ \A i : HasName(dents, i, d, n) <=> i = InoAt(d, n)
  <2>1. PICK e \in dents[d] : e.name = n
    BY <1>5 DEF Taken
  <2>2. EntryAt(d, n) = e /\ \A f \in dents[d] : f.name = n => f = e
    BY <2>1, <1>1, FoundByName DEF EntryAt
  <2>3. e.ino \in Inos
    BY <2>1 DEF TypeInv, Entries
  <2> QED BY <2>1, <2>2, <2>3 DEF InoAt, HasName
<1> QED BY <1>3, <1>4, <1>5

DeletesEntry(d, n) == dents' = [dents EXCEPT ![d] = Without(@, EntryAt(d, n))]
SetsLink(d, n, i)  == dents' = [dents EXCEPT ![d] = SetLink(@, EntryAt(d, n), i)]

\* The names after f2fs_delete_entry()
LEMMA DeleteStep ==
  ASSUME TypeInv, DirsFound, NEW d \in Inos, NEW n \in Names, Taken(d, n), DeletesEntry(d, n)
  PROVE  /\ dents' \in Directories
         /\ \A k \in Inos \ {d} : dents'[k] = dents[k]
         /\ \A k, f \in Inos, m \in Names :
              HasName(dents', k, f, m) <=> HasName(dents, k, f, m) /\ ~(f = d /\ m = n)
         /\ \A k \in Inos : NamesOf(dents', k) = NamesOf(dents, k) \ {<<d, n>>}
         /\ EntriesFound(dents'[d], inode[d].depth)
<1>1. dents \in Directories
  BY DEF TypeInv, Directories
<1>2. EntryAt(d, n) \in dents[d] /\ EntryAt(d, n).name = n
      /\ \A x \in dents[d] : x.name = n => x = EntryAt(d, n)
  BY EntryByName
<1>0. /\ dents' \in Directories
      /\ \A f \in Inos : \A x : x \in dents'[f] <=> x \in dents[f] /\ ~(f = d /\ x = EntryAt(d, n))
  BY <1>1 DEF Directories, Without, DeletesEntry
<1>3. ASSUME NEW k \in Inos, NEW f \in Inos, NEW m \in Names
      PROVE  HasName(dents', k, f, m) <=> HasName(dents, k, f, m) /\ ~(f = d /\ m = n)
  BY <1>0, <1>2 DEF HasName
<1>6. ASSUME NEW k \in Inos PROVE NamesOf(dents', k) = NamesOf(dents, k) \ {<<d, n>>}
  <2> DEFINE N == NamesOf(dents, k) \ {<<d, n>>}
  <2>1. N \in SUBSET (Inos \X Names)
    BY DEF NamesOf
  <2>2. ASSUME NEW f \in Inos, NEW m \in Names PROVE HasName(dents', k, f, m) <=> <<f, m>> \in N
    BY <1>3, NamesMember
  <2> HIDE DEF N
  <2>3. NamesOf(dents', k) = N
    BY <2>1, <2>2, NamesFromHasName
  <2> QED BY <2>3 DEF N
<1>4. dents'[d] = Without(dents[d], EntryAt(d, n)) /\ \A k \in Inos \ {d} : dents'[k] = dents[k]
  BY <1>1 DEF Directories, DeletesEntry
<1>5. EntriesFound(dents'[d], inode[d].depth)
  BY <1>4, DeleteKeepsFound DEF DirsFound
<1> QED BY <1>0, <1>3, <1>4, <1>5, <1>6

\* The names after f2fs_set_link()
LEMMA SetLinkStep ==
  ASSUME TypeInv, DirsFound, NEW d \in Inos, NEW n \in Names, Taken(d, n), NEW i \in Inos,
         SetsLink(d, n, i)
  PROVE  /\ dents' \in Directories
         /\ \A k \in Inos \ {d} : dents'[k] = dents[k]
         /\ \A k, f \in Inos, m \in Names :
              HasName(dents', k, f, m) <=> IF f = d /\ m = n THEN k = i ELSE HasName(dents, k, f, m)
         /\ \A k \in Inos : NamesOf(dents', k) =
              (NamesOf(dents, k) \ {<<d, n>>}) \cup (IF k = i THEN {<<d, n>>} ELSE {})
         /\ EntriesFound(dents'[d], inode[d].depth)
<1>1. dents \in Directories
  BY DEF TypeInv, Directories
<1>2. EntryAt(d, n) \in dents[d] /\ EntryAt(d, n).name = n
      /\ \A x \in dents[d] : x.name = n => x = EntryAt(d, n)
  BY EntryByName
<1>0. /\ dents' \in Directories
      /\ \A f \in Inos : \A x :
           x \in dents'[f] <=> (x \in dents[f] /\ ~(f = d /\ x = EntryAt(d, n)))
                              \/ (f = d /\ x = [EntryAt(d, n) EXCEPT !.ino = i])
  <2>1. [EntryAt(d, n) EXCEPT !.ino = i] \in Entries
    BY <1>1, <1>2 DEF Directories, Entries
  <2>2. SetLink(dents[d], EntryAt(d, n), i) \subseteq Entries
    BY <1>1, <2>1 DEF SetLink, Directories
  <2>3. dents' \in Directories
    BY <1>1, <2>2 DEF Directories, SetsLink
  <2>4. \A f \in Inos : dents'[f] = IF f = d THEN SetLink(dents[f], EntryAt(d, n), i) ELSE dents[f]
    BY <1>1 DEF Directories, SetsLink
  <2>5. \A x : x \in SetLink(dents[d], EntryAt(d, n), i) <=>
                (x \in dents[d] /\ x # EntryAt(d, n)) \/ x = [EntryAt(d, n) EXCEPT !.ino = i]
    BY DEF SetLink
  <2> QED BY <2>3, <2>4, <2>5
<1>3. ASSUME NEW k \in Inos, NEW f \in Inos, NEW m \in Names
      PROVE  HasName(dents', k, f, m) <=> IF f = d /\ m = n THEN k = i ELSE HasName(dents, k, f, m)
  <2> DEFINE y == [EntryAt(d, n) EXCEPT !.ino = i]
  <2>1. y.name = n /\ y.ino = i
    BY <1>1, <1>2 DEF Directories, Entries
  <2>2. \A x : x \in dents'[f] <=> (x \in dents[f] /\ ~(f = d /\ x = EntryAt(d, n))) \/ (f = d /\ x = y)
    BY <1>0
  <2> HIDE DEF y
  <2> QED BY <2>1, <2>2, <1>2 DEF HasName
<1>6. ASSUME NEW k \in Inos
      PROVE  NamesOf(dents', k) = (NamesOf(dents, k) \ {<<d, n>>}) \cup (IF k = i THEN {<<d, n>>} ELSE {})
  <2> DEFINE N == (NamesOf(dents, k) \ {<<d, n>>}) \cup (IF k = i THEN {<<d, n>>} ELSE {})
  <2>1. N \in SUBSET (Inos \X Names)
    BY DEF NamesOf
  <2>2. ASSUME NEW f \in Inos, NEW m \in Names PROVE HasName(dents', k, f, m) <=> <<f, m>> \in N
    BY <1>3, NamesMember
  <2> HIDE DEF N
  <2>3. NamesOf(dents', k) = N
    BY <2>1, <2>2, NamesFromHasName
  <2> QED BY <2>3 DEF N
<1>4. dents'[d] = SetLink(dents[d], EntryAt(d, n), i) /\ \A k \in Inos \ {d} : dents'[k] = dents[k]
  BY <1>1 DEF Directories, SetsLink
<1>5. EntriesFound(dents'[d], inode[d].depth)
  <2>1. EntriesFound(dents[d], inode[d].depth)
    BY DEF DirsFound
  <2>2. dents[d] \subseteq EntriesWith(Inos)
    BY <1>1, EntriesAre DEF Directories
  <2> QED BY <1>2, <1>4, <2>1, <2>2, SetLinkKeepsFound
<1> QED BY <1>0, <1>3, <1>4, <1>5, <1>6

\* The names after the entry of f2fs_add_link() is there
LEMMA AddStep ==
  ASSUME TypeInv, DirsFound, NEW d \in Inos, NEW n \in Names, ~Taken(d, n), NEW i \in Inos,
         NEW new \in BOOLEAN,
         CanAdd(dents[d], inode[d].depth, hint[d], n), AddEntry(d, n, i, new)
  PROVE  /\ dents' \in Directories
         /\ inode' \in [Inos -> AnyInodes]
         /\ hint' \in [Inos -> Hints]
         /\ \A k \in Inos \ {d} : dents'[k] = dents[k] /\ inode'[k] = inode[k] /\ hint'[k] = hint[k]
         /\ inode'[d].kind = inode[d].kind
         /\ inode'[d].nlink = inode[d].nlink + Bit(new /\ IsDir(i))
         /\ \A k, f \in Inos, m \in Names :
              HasName(dents', k, f, m) <=> HasName(dents, k, f, m) \/ (k = i /\ f = d /\ m = n)
         /\ \A k \in Inos : NamesOf(dents', k) =
              IF k = i THEN NamesOf(dents, k) \cup {<<d, n>>} ELSE NamesOf(dents, k)
         /\ EntriesFound(dents'[d], inode'[d].depth)
<1> DEFINE e == NewEntry(dents[d], hint[d], n, i)
<1>1. dents \in Directories /\ inode[d] \in AnyInodes /\ inode[d].depth \in 0..MaxDepth
      /\ hint \in [Inos -> Hints] /\ dents[d] \subseteq EntriesWith(Inos)
      /\ EntriesFound(dents[d], inode[d].depth) /\ \A x \in dents[d] : x.name # n
  BY EntriesAre DEF TypeInv, Directories, AnyInodes, Hints, DirsFound, Taken
<1>2. e \in EntriesWith(Inos) /\ e.name = n /\ e.ino = i
  BY <1>1, NewEntryFits
<1>3. /\ EntriesFound(dents[d] \cup {e}, DepthAfterAdd(inode[d].depth, e))
      /\ DepthAfterAdd(inode[d].depth, e) \in 0..MaxDepth
  BY <1>1, AddKeepsFound
<1>4. HintAfterAdd(hint[d], n) \in Hints
  BY <1>1, HintTypes
<1>5. /\ dents' = [dents EXCEPT ![d] = @ \cup {e}]
      /\ hint' = [hint EXCEPT ![d] = HintAfterAdd(@, n)]
      /\ inode' = [inode EXCEPT ![d].depth = DepthAfterAdd(@, e),
                                ![d].nlink = @ + IF new /\ IsDir(i) THEN 1 ELSE 0]
  BY DEF AddEntry
<1> HIDE DEF e
<1>0. /\ dents' \in Directories
      /\ \A f \in Inos : \A x : x \in dents'[f] <=> x \in dents[f] \/ (f = d /\ x = e)
  BY <1>1, <1>2, <1>5, EntriesAre DEF Directories
<1>3a. ASSUME NEW k \in Inos, NEW f \in Inos, NEW m \in Names
      PROVE  HasName(dents', k, f, m) <=> HasName(dents, k, f, m) \/ (k = i /\ f = d /\ m = n)
  BY <1>0, <1>2 DEF HasName
<1>6. ASSUME NEW k \in Inos
      PROVE  NamesOf(dents', k) = IF k = i THEN NamesOf(dents, k) \cup {<<d, n>>} ELSE NamesOf(dents, k)
  <2> DEFINE N == IF k = i THEN NamesOf(dents, k) \cup {<<d, n>>} ELSE NamesOf(dents, k)
  <2>1. N \in SUBSET (Inos \X Names)
    BY DEF NamesOf
  <2>2. ASSUME NEW f \in Inos, NEW m \in Names PROVE HasName(dents', k, f, m) <=> <<f, m>> \in N
    BY <1>3a, NamesMember
  <2> HIDE DEF N
  <2>3. NamesOf(dents', k) = N
    BY <2>1, <2>2, NamesFromHasName
  <2> QED BY <2>3 DEF N
<1>7. dents'[d] = dents[d] \cup {e} /\ \A k \in Inos \ {d} : dents'[k] = dents[k] /\ hint'[k] = hint[k]
  BY <1>1, <1>5 DEF Directories
<1>8. /\ inode' \in [Inos -> AnyInodes]
      /\ \A k \in Inos \ {d} : inode'[k] = inode[k]
      /\ inode'[d].kind = inode[d].kind
      /\ inode'[d].nlink = inode[d].nlink + Bit(new /\ IsDir(i))
      /\ inode'[d].depth = DepthAfterAdd(inode[d].depth, e)
  <2>1. inode \in [Inos -> AnyInodes] /\ inode[d].nlink \in Int
    BY DEF TypeInv, AnyInodes
  <2>2. /\ inode'[d] = [inode[d] EXCEPT !.depth = DepthAfterAdd(inode[d].depth, e),
                                        !.nlink = inode[d].nlink + IF new /\ IsDir(i) THEN 1 ELSE 0]
        /\ \A k \in Inos \ {d} : inode'[k] = inode[k]
        /\ inode' = [inode EXCEPT ![d] = inode'[d]]
    BY <1>5, <2>1
  <2>3. /\ inode'[d] \in AnyInodes /\ inode'[d].kind = inode[d].kind
        /\ inode'[d].nlink = inode[d].nlink + Bit(new /\ IsDir(i))
        /\ inode'[d].depth = DepthAfterAdd(inode[d].depth, e)
    <3> DEFINE b == IF new /\ IsDir(i) THEN 1 ELSE 0
    <3>1. b = Bit(new /\ IsDir(i)) /\ b \in Int
      BY DEF Bit
    <3>2. inode'[d] = [inode[d] EXCEPT !.depth = DepthAfterAdd(inode[d].depth, e), !.nlink = inode[d].nlink + b]
      BY <2>2
    <3> HIDE DEF b
    <3>3. inode'[d].nlink = inode[d].nlink + b
      BY <1>1, <3>2 DEF AnyInodes
    <3>4. inode[d].nlink + b \in Int
      BY <2>1, <3>1
    <3> DEFINE l == inode[d].nlink + b
               h == DepthAfterAdd(inode[d].depth, e)
    <3>5. inode'[d] = [inode[d] EXCEPT !.depth = h, !.nlink = l] /\ l \in Int /\ h \in 0..MaxDepth
      BY <1>3, <3>2, <3>4
    <3> HIDE DEF l, h
    <3>6. inode'[d] \in AnyInodes /\ inode'[d].kind = inode[d].kind /\ inode'[d].depth = h
      BY <1>1, <3>5 DEF AnyInodes
    <3> QED BY <3>1, <3>3, <3>6 DEF h
  <2> QED BY <2>1, <2>2, <2>3
<1>9. hint' \in [Inos -> Hints]
  BY <1>1, <1>4, <1>5
<1>10. EntriesFound(dents'[d], inode'[d].depth)
  BY <1>3, <1>7, <1>8
<1> QED BY <1>0, <1>3a, <1>6, <1>7, <1>8, <1>9, <1>10

LEMMA GotoStep ==
  ASSUME TypeInv, NEW t \in Threads, NEW pc \in Pcs, Goto(t, pc)
  PROVE  /\ op' \in [Threads -> OpTypes] /\ ops' = ops
         /\ \A u \in Threads \ {t} : op'[u] = op[u]
         /\ op'[t].pc = pc /\ op'[t].what = op[t].what /\ op'[t].locks = op[t].locks
         /\ op'[t].dir = op[t].dir /\ op'[t].name = op[t].name /\ op'[t].ino = op[t].ino
         /\ op'[t].toDir = op[t].toDir /\ op'[t].toName = op[t].toName /\ op'[t].old = op[t].old
<1>1. op \in [Threads -> OpTypes]
  BY DEF TypeInv
<1>2. op' = [op EXCEPT ![t].pc = pc] /\ ops' = ops
  BY DEF Goto
<1>3. op'[t] = [op[t] EXCEPT !.pc = pc] /\ \A u \in Threads \ {t} : op'[u] = op[u]
  BY <1>1, <1>2
<1>4. op'[t] \in OpTypes
  BY <1>1, <1>3 DEF OpTypes
<1>5. op' \in [Threads -> OpTypes]
  BY <1>1, <1>2, <1>3, <1>4
<1>6. /\ op'[t].pc = pc /\ op'[t].what = op[t].what /\ op'[t].locks = op[t].locks
      /\ op'[t].dir = op[t].dir /\ op'[t].name = op[t].name /\ op'[t].ino = op[t].ino
      /\ op'[t].toDir = op[t].toDir /\ op'[t].toName = op[t].toName /\ op'[t].old = op[t].old
  BY <1>1, <1>3 DEF OpTypes
<1> QED BY <1>2, <1>3, <1>5, <1>6

LEMMA IdleType == Idle \in OpTypes
<1>1. Root \in Inos
  BY NamespaceAssumption
<1> QED BY <1>1 DEF Idle, OpTypes, Pcs

LEMMA FinishStep ==
  ASSUME TypeInv, NEW t \in Threads, Finish(t)
  PROVE  /\ op' \in [Threads -> OpTypes] /\ ops' = ops
         /\ \A u \in Threads \ {t} : op'[u] = op[u]
         /\ op'[t] = Idle /\ op'[t].pc = "idle"
<1>1. op' = [op EXCEPT ![t] = Idle] /\ ops' = ops /\ op \in [Threads -> OpTypes]
  BY DEF Finish, TypeInv
<1>2. op' \in [Threads -> OpTypes] /\ op'[t] = Idle /\ \A u \in Threads \ {t} : op'[u] = op[u]
  BY <1>1, IdleType
<1> QED BY <1>1, <1>2 DEF Idle

LEMMA BeginStep ==
  ASSUME TypeInv, NEW t \in Threads, NEW o \in OpTypes, MayBegin(t), Begin(t, o)
  PROVE  /\ op' \in [Threads -> OpTypes] /\ ops' \in 0..MaxOps
         /\ \A u \in Threads \ {t} : op'[u] = op[u]
         /\ op[t] = Idle /\ op[t].pc = "idle" /\ op'[t] = o
<1>1. op' = [op EXCEPT ![t] = o] /\ op \in [Threads -> OpTypes]
  BY DEF Begin, TypeInv
<1>2. ops' \in 0..MaxOps
  <2>1. ops \in 0..MaxOps /\ ops < MaxOps /\ ops' = ops + 1 /\ MaxOps \in Nat
    BY NamespaceAssumption DEF TypeInv, MayBegin, Begin
  <2> QED BY <2>1
<1>3. op[t] = Idle /\ op[t].pc = "idle"
  BY DEF MayBegin, Idle
<1> QED BY <1>1, <1>2, <1>3

\* The link counts after AddLinks()
LEMMA AddLinksStep ==
  ASSUME TypeInv, NEW S, NEW U, AddLinks(S, U)
  PROVE  /\ inode' \in [Inos -> AnyInodes]
         /\ \A k \in Inos : /\ inode'[k].kind = inode[k].kind /\ inode'[k].depth = inode[k].depth
                            /\ inode'[k].nlink = inode[k].nlink + Bit(k \in S) - Bit(k \in U)
                            /\ k \notin S /\ k \notin U => inode'[k] = inode[k]
<1>1. inode' = [i \in Inos |-> [inode[i] EXCEPT !.nlink = @ + (IF i \in S THEN 1 ELSE 0)
                                                          - (IF i \in U THEN 1 ELSE 0)]]
  BY DEF AddLinks
<1>2. ASSUME NEW k \in Inos
      PROVE  /\ inode'[k] \in AnyInodes
             /\ inode'[k].kind = inode[k].kind /\ inode'[k].depth = inode[k].depth
             /\ inode'[k].nlink = inode[k].nlink + Bit(k \in S) - Bit(k \in U)
             /\ k \notin S /\ k \notin U => inode'[k] = inode[k]
  <2> DEFINE b == IF k \in S THEN 1 ELSE 0
             c == IF k \in U THEN 1 ELSE 0
  <2>1. inode'[k] = [inode[k] EXCEPT !.nlink = inode[k].nlink + b - c]
    BY <1>1
  <2>2. b = Bit(k \in S) /\ c = Bit(k \in U) /\ b \in Int /\ c \in Int
        /\ (k \notin S /\ k \notin U => b = 0 /\ c = 0)
    BY DEF Bit
  <2>3. inode[k] \in AnyInodes /\ inode[k].nlink \in Int
    BY DEF TypeInv, AnyInodes
  <2> HIDE DEF b, c
  <2>4. inode'[k].nlink = inode[k].nlink + b - c
    BY <2>1, <2>3 DEF AnyInodes
  <2>5. inode'[k] \in AnyInodes /\ inode'[k].kind = inode[k].kind /\ inode'[k].depth = inode[k].depth
    BY <2>1, <2>2, <2>3 DEF AnyInodes
  <2>6. b = 0 /\ c = 0 => inode'[k] = inode[k]
    BY <2>1, <2>3 DEF AnyInodes
  <2> QED BY <2>2, <2>4, <2>5, <2>6
<1>3. inode' \in [Inos -> AnyInodes]
  <2> DEFINE f(k) == [inode[k] EXCEPT !.nlink = @ + (IF k \in S THEN 1 ELSE 0) - (IF k \in U THEN 1 ELSE 0)]
  <2>1. inode' = [k \in Inos |-> f(k)]
    BY <1>1
  <2> HIDE DEF f
  <2>2. \A k \in Inos : f(k) \in AnyInodes
    BY <1>2, <2>1
  <2> QED BY <2>1, <2>2
<1> QED BY <1>2, <1>3

LEMMA UpdateStep ==
  ASSUME TypeInv, inode' \in [Inos -> AnyInodes], NEW S, UpdateInodePages(S)
  PROVE  /\ page' \in [Inos -> AnyInodes]
         /\ \A k \in Inos : page'[k] = IF k \in S THEN inode'[k] ELSE page[k]
BY DEF TypeInv, UpdateInodePages

\* The reservations of an operation that moves
LEMMA ReservingStep ==
  ASSUME NEW t \in Threads, \A u \in Threads \ {t} : op'[u] = op[u]
  PROVE  LET R == {"acquired", "unlink", "settle", "replace", "replaced"}
         IN  /\ Cardinality(Reserving) \in Nat /\ Cardinality(Reserving') \in Nat
             /\ op'[t].pc \in R /\ op[t].pc \in R => Cardinality(Reserving') = Cardinality(Reserving)
             /\ op'[t].pc \notin R /\ op[t].pc \notin R => Cardinality(Reserving') = Cardinality(Reserving)
             /\ op'[t].pc \in R /\ op[t].pc \notin R => Cardinality(Reserving') = Cardinality(Reserving) + 1
             /\ op'[t].pc \notin R /\ op[t].pc \in R => Cardinality(Reserving') = Cardinality(Reserving) - 1
<1> DEFINE R == {"acquired", "unlink", "settle", "replace", "replaced"}
<1>1. Reserving' = {u \in Threads : op'[u].pc \in R} /\ Reserving = {u \in Threads : op[u].pc \in R}
  BY DEF Reserving
<1> HIDE DEF R
<1>2. IsFiniteSet(Reserving) /\ IsFiniteSet(Reserving')
  BY <1>1, NamespaceAssumption, FS_Subset
<1>3. Cardinality(Reserving) \in Nat /\ Cardinality(Reserving') \in Nat
  BY <1>2, FS_CardinalityType
<1>4. CASE (op'[t].pc \in R /\ op[t].pc \in R) \/ (op'[t].pc \notin R /\ op[t].pc \notin R)
  <2>1. Reserving' = Reserving
    BY <1>1, <1>4
  <2> QED BY <1>3, <1>4, <2>1 DEF R
<1>5. CASE op'[t].pc \in R /\ op[t].pc \notin R
  <2>1. Reserving' = Reserving \cup {t} /\ t \notin Reserving
    BY <1>1, <1>5
  <2> QED BY <1>2, <1>3, <1>5, <2>1, FS_AddElement DEF R
<1>6. CASE op'[t].pc \notin R /\ op[t].pc \in R
  <2>1. Reserving' = Reserving \ {t} /\ t \in Reserving
    BY <1>1, <1>6
  <2> QED BY <1>2, <1>3, <1>6, <2>1, FS_RemoveElement DEF R
<1> QED BY <1>4, <1>5, <1>6

LEMMA OrphansFinite ==
  ASSUME TypeInv
  PROVE  IsFiniteSet(orphans) /\ Cardinality(orphans) \in Nat
<1>1. orphans \in SUBSET Inos /\ IsFiniteSet(Inos)
  BY NamespaceAssumption DEF TypeInv
<1>2. IsFiniteSet(orphans)
  BY <1>1, FS_Subset
<1> QED BY <1>2, FS_CardinalityType

-----------------------------------------------------------------------------
(* What the invariant says of the inodes an operation begins with.         *)

LEMMA InvTypes ==
  ASSUME TypeInv
  PROVE  /\ dents \in Directories
         /\ \A k \in Inos : inode[k] \in AnyInodes /\ page[k] \in AnyInodes /\ inode[k].nlink \in Int
                            /\ dents[k] \subseteq Entries /\ parent[k] \in Inos
         /\ \A t \in Threads : /\ op[t] \in OpTypes /\ op[t].ino \in Inos /\ op[t].old \in Inos
                               /\ op[t].dir \in Inos /\ op[t].toDir \in Inos /\ op[t].pc \in Pcs
                               /\ op[t].locks \subseteq Inos /\ Targets(t) \subseteq Inos
                               /\ op[t].pc # "idle" => op[t].ino \in Targets(t)
                               /\ op[t].pc \in {"replace", "replaced", "exchange", "crossed"} =>
                                    op[t].old \in Targets(t)
<1>1. dents \in Directories
  BY DEF TypeInv, Directories
<1>2. ASSUME NEW k \in Inos
      PROVE  inode[k] \in AnyInodes /\ page[k] \in AnyInodes /\ inode[k].nlink \in Int
             /\ dents[k] \subseteq Entries /\ parent[k] \in Inos
  BY DEF TypeInv, AnyInodes
<1>3. ASSUME NEW t \in Threads
      PROVE  /\ op[t] \in OpTypes /\ op[t].ino \in Inos /\ op[t].old \in Inos
             /\ op[t].dir \in Inos /\ op[t].toDir \in Inos /\ op[t].pc \in Pcs
             /\ op[t].locks \subseteq Inos /\ Targets(t) \subseteq Inos
             /\ op[t].pc # "idle" => op[t].ino \in Targets(t)
             /\ op[t].pc \in {"replace", "replaced", "exchange", "crossed"} => op[t].old \in Targets(t)
  BY DEF TypeInv, OpTypes, Targets
<1> QED BY <1>1, <1>2, <1>3

\* An inode with a name has its page, and the name is in a directory of the tree.
LEMMA NamedInode ==
  ASSUME Inv, NEW i \in Inos, NEW d \in Inos, NEW n \in Names, HasName(dents, i, d, n)
  PROVE  /\ <<d, n>> \in NamesOf(dents, i) /\ NamesOf(dents, i) # {}
         /\ page[i].kind # "none" /\ page[i].kind = inode[i].kind /\ page[i].kind \in {"file", "dir"}
         /\ IsDir(i) => LiveDir(i)
         /\ LiveDir(d) /\ i \notin orphans /\ i # Root
<1>1. <<d, n>> \in NamesOf(dents, i) /\ NamesOf(dents, i) # {}
  BY NamesMember
<1>2. PageInv(i) /\ PageInv(d) /\ LinkInv(i) /\ OrphanInv(i)
  BY DEF Inv
<1>3. page[i].kind # "none" /\ page[i].kind = inode[i].kind
  BY <1>1, <1>2 DEF PageInv
<1>4. page[i].kind \in {"file", "dir"}
  BY <1>3 DEF Inv, TypeInv, AnyInodes
<1>5. IsDir(i) => LiveDir(i)
  BY <1>1, <1>2, <1>3 DEF LinkInv, IsDir, LiveDir
<1>6. LiveDir(d)
  <2>1. dents[d] # {}
    BY DEF HasName
  <2> QED BY <2>1, <1>2 DEF PageInv
<1>7. i \notin orphans
  BY <1>1, <1>2 DEF OrphanInv
<1>8. i # Root
  BY <1>1 DEF Inv, RootInv
<1> QED BY <1>1, <1>3, <1>4, <1>5, <1>6, <1>7, <1>8

LEMMA LinkedInode ==
  ASSUME Inv, NEW i \in Inos, Linked(i)
  PROVE  \E d \in Inos, n \in Names : HasName(dents, i, d, n)
<1>1. PICK d \in Inos : \E e \in dents[d] : e.ino = i
  BY DEF Linked
<1>2. PICK e \in dents[d] : e.ino = i
  BY <1>1
<1>3. dents \in Directories
  BY InvTypes DEF Inv
<1>4. e.name \in Names /\ HasName(dents, i, d, e.name)
  BY <1>2, <1>3, HasNameNamed
<1> QED BY <1>4

LEMMA LiveIsLiveDir ==
  ASSUME Inv, NEW d \in Inos, Live(d)
  PROVE  LiveDir(d)
<1>1. CASE d = Root
  BY <1>1 DEF Inv, RootInv
<1>2. CASE Linked(d)
  BY <1>2, LinkedInode, NamedInode DEF Live
<1> QED BY <1>1, <1>2 DEF Live

\* No operation is about an inode whose name is in a directory, when the directory and,
\* for a file, the inode are not locked.
LEMMA Fresh ==
  ASSUME Inv, NEW i \in Inos, NEW d \in Inos, NEW n \in Names, HasName(dents, i, d, n),
         Unheld({d}), IsDir(i) \/ Unheld({i}), NEW u \in Threads
  PROVE  i \notin Targets(u)
<1> SUFFICES ASSUME i \in Targets(u) PROVE FALSE
  OBVIOUS
<1>1. /\ <<d, n>> \in NamesOf(dents, i)
      /\ page[i].kind # "none" /\ page[i].kind = inode[i].kind
      /\ IsDir(i) => LiveDir(i)
      /\ i \notin orphans
  BY NamedInode
<1>2. OpInv(u) /\ op[u].pc \in Pcs /\ op[u].pc # "idle"
  BY InvTypes DEF Inv, Targets
<1>3. d \notin op[u].locks /\ (IsDir(i) \/ i \notin op[u].locks)
  BY DEF Unheld
<1>4. CASE i = op[u].ino /\ op[u].pc \in {"new", "metadata", "acquired", "tmpfile"}
  BY <1>1, <1>2, <1>3, <1>4 DEF OpInv, AddInv, NoInode, IsDir
<1>5. CASE i = op[u].ino /\ op[u].pc \in {"unlink", "settle"}
  <2>1. i \in op[u].locks /\ op[u].dir \in op[u].locks
    BY <1>2, <1>5 DEF OpInv, UnlinkInv
  <2>2. IsDir(i)
    BY <2>1, <1>3
  <2>3. CASE op[u].pc = "unlink"
    <3>1. NamesOf(dents, i) = {<<op[u].dir, op[u].name>>}
      BY <1>2, <1>5, <2>2, <2>3 DEF OpInv, UnlinkInv, OnlyAt
    <3> QED BY <3>1, <1>1, <1>3, <2>1
  <2>4. CASE op[u].pc = "settle"
    BY <2>2, <2>4, <1>1, <1>2, <1>5 DEF OpInv, UnlinkInv, LiveDir
  <2> QED BY <1>5, <2>3, <2>4
<1>6. CASE op[u].pc \in {"replace", "replaced", "add", "moved", "exchange", "crossed"}
  <2>1. /\ {op[u].dir, op[u].toDir} \subseteq op[u].locks /\ (~IsDir(i) => i \in op[u].locks)
    BY <1>2, <1>6 DEF OpInv, RenameInv
  <2>2. IsDir(i)
    BY <2>1, <1>3
  <2>3. CASE i = op[u].ino
    <3>1. NamesOf(dents, i) \subseteq {<<op[u].dir, op[u].name>>, <<op[u].toDir, op[u].toName>>}
      BY <1>2, <1>6, <2>2, <2>3 DEF OpInv, RenameInv, OnlyAt
    <3> QED BY <3>1, <1>1, <1>3, <2>1
  <2>4. CASE i = op[u].old /\ op[u].pc \in {"replace", "exchange", "crossed"}
    <3>1. NamesOf(dents, i) \subseteq {<<op[u].dir, op[u].name>>, <<op[u].toDir, op[u].toName>>}
      BY <1>2, <2>2, <2>4 DEF OpInv, RenameInv, OnlyAt
    <3> QED BY <3>1, <1>1, <1>3, <2>1
  <2>5. CASE i = op[u].old /\ op[u].pc = "replaced"
    BY <1>1, <1>2, <2>2, <2>5 DEF OpInv, RenameInv, LiveDir
  <2> QED BY <1>6, <2>3, <2>4, <2>5 DEF Targets
<1> QED BY <1>2, <1>4, <1>5, <1>6 DEF Targets, Pcs

\* No operation is about a file that is not locked, when it has a name or is an
\* O_TMPFILE that may be linked.
LEMMA FreshFile ==
  ASSUME Inv, NEW i \in Inos, inode[i].kind = "file", Linked(i) \/ open[i] = "tmpfile",
         Unheld({i}), NEW u \in Threads
  PROVE  i \notin Targets(u) /\ page[i].kind = "file"
<1>1. page[i].kind = "file"
  <2>1. CASE Linked(i)
    BY <2>1, LinkedInode, NamedInode
  <2>2. CASE open[i] = "tmpfile"
    <3>1. PageInv(i)
      BY DEF Inv
    <3> QED BY <2>2, <3>1 DEF PageInv
  <2> QED BY <2>1, <2>2
<1>2. ~IsDir(i)
  BY DEF IsDir
<1>3. ASSUME i \in Targets(u) PROVE FALSE
  <2>1. OpInv(u) /\ op[u].pc \in Pcs /\ op[u].pc # "idle"
    BY <1>3, InvTypes DEF Inv, Targets
  <2>2. i \notin op[u].locks
    BY DEF Unheld
  <2>3. CASE op[u].pc \in {"new", "metadata", "acquired"}
    BY <1>1, <1>3, <2>1, <2>2, <2>3 DEF OpInv, AddInv, NoInode, Targets
  <2>4. CASE op[u].pc = "tmpfile"
    <3>1. i = op[u].ino /\ i \in orphans /\ open[i] = "no"
      BY <1>3, <2>1, <2>4 DEF OpInv, AddInv, Targets
    <3>2. Linked(i)
      BY <3>1
    <3>3. i \notin orphans
      BY <3>2, LinkedInode, NamedInode
    <3> QED BY <3>1, <3>3
  <2>5. CASE op[u].pc \in {"unlink", "settle"}
    BY <1>3, <2>1, <2>2, <2>5 DEF OpInv, UnlinkInv, Targets
  <2>6. CASE op[u].pc \in {"replace", "replaced", "add", "moved", "exchange", "crossed"}
    BY <1>2, <1>3, <2>1, <2>2, <2>6 DEF OpInv, RenameInv
  <2> QED BY <2>1, <2>3, <2>4, <2>5, <2>6 DEF Pcs
<1> QED BY <1>1, <1>3

\* No operation is about an inode nobody works with.
LEMMA NotBusy ==
  ASSUME Inv, NEW i \in Inos, ~Busy(i), NEW u \in Threads
  PROVE  i \notin Targets(u) /\ (op[u] # Idle => i \notin op[u].locks /\ i # op[u].ino /\ i # op[u].old)
         /\ (op[u].pc # "idle" => op[u] # Idle) /\ i \notin op[u].locks
<1>1. op[u].pc # "idle" => op[u] # Idle
  BY DEF Idle
<1>2. Idle.locks = {}
  BY DEF Idle
<1>3. op[u].pc = "idle" => op[u] = Idle
  BY DEF Inv, OpInv
<1> QED BY <1>1, <1>2, <1>3 DEF Busy, Targets

-----------------------------------------------------------------------------
(* The directories above a directory.                                      *)

LEMMA AboveClosed ==
  ASSUME TypeInv, NEW d \in Inos
  PROVE  d \in Above(d) /\ Above(d) \subseteq Inos /\ \A x \in Above(d) : parent[x] \in Above(d)
<1>1. ASSUME NEW x \in Above(d) PROVE parent[x] \in Above(d)
  <2>1. parent[x] \in Inos
    BY InvTypes DEF Above
  <2> QED BY <2>1 DEF Above
<1> QED BY <1>1 DEF Above

LEMMA AboveLeast ==
  ASSUME NEW d \in Inos, NEW S \in SUBSET Inos, d \in S, \A x \in S : parent[x] \in S
  PROVE  Above(d) \subseteq S
BY DEF Above

\* Between the directory of a name and the root there are only directories of the tree.
LEMMA ParentLive ==
  ASSUME Inv, NEW i \in Inos, LiveDir(i)
  PROVE  LiveDir(parent[i]) /\ parent[i] \in Inos
<1>0. parent[i] \in Inos
  BY InvTypes DEF Inv
<1>1. CASE i = Root
  BY <1>0, <1>1 DEF Inv, RootInv
<1>2. CASE i # Root /\ \A t \in Threads : i \notin Targets(t)
  <2>1. PICK n \in Names : NamesOf(dents, i) = {<<parent[i], n>>}
    BY <1>2 DEF Inv, LinkInv
  <2>2. HasName(dents, i, parent[i], n)
    BY <1>0, <2>1, NamesMember
  <2> QED BY <1>0, <2>2, NamedInode
<1>3. ASSUME NEW t \in Threads, i \in Targets(t) PROVE LiveDir(parent[i])
  <2>1. OpInv(t) /\ op[t].pc \in Pcs /\ op[t].pc # "idle"
    BY <1>3, InvTypes DEF Inv, Targets
  <2>2. page[i].kind = "dir" /\ inode[i].nlink # 0 /\ IsDir(i)
    BY DEF LiveDir, Inv, PageInv, IsDir
  <2>3. CASE op[t].pc \in {"new", "metadata", "acquired", "tmpfile"}
    BY <1>3, <2>1, <2>2, <2>3 DEF OpInv, AddInv, NoInode, Targets
  <2>4. CASE op[t].pc \in {"unlink", "settle"}
    BY <1>3, <2>1, <2>2, <2>4 DEF OpInv, UnlinkInv, Targets
  <2>5. CASE op[t].pc \in {"replace", "replaced", "add", "moved", "exchange", "crossed"}
    BY <1>3, <2>1, <2>2, <2>5 DEF OpInv, RenameInv, Targets
  <2> QED BY <2>1, <2>3, <2>4, <2>5 DEF Pcs
<1> QED BY <1>0, <1>1, <1>2, <1>3

LEMMA AboveLive ==
  ASSUME Inv, NEW d \in Inos, LiveDir(d)
  PROVE  \A a \in Above(d) : a \in Inos /\ LiveDir(a)
<1> DEFINE S == {x \in Inos : LiveDir(x)}
<1>1. S \in SUBSET Inos /\ d \in S /\ \A x \in S : parent[x] \in S
  BY ParentLive
<1> HIDE DEF S
<1>2. Above(d) \subseteq S
  BY <1>1, AboveLeast
<1> QED BY <1>2 DEF S

LEMMA AboveParent ==
  ASSUME TypeInv, NEW x \in Inos
  PROVE  Above(x) \subseteq {x} \cup Above(parent[x])
<1>1. parent[x] \in Inos
  BY InvTypes
<1> DEFINE S == {x} \cup Above(parent[x])
<1>2. S \in SUBSET Inos /\ x \in S /\ \A y \in S : parent[y] \in S
  BY <1>1, AboveClosed
<1> HIDE DEF S
<1>3. Above(x) \subseteq S
  BY <1>2, AboveLeast
<1> QED BY <1>3 DEF S

LEMMA AboveRoot ==
  ASSUME Inv
  PROVE  Above(Root) = {Root}
<1>1. Root \in Inos /\ parent[Root] = Root
  BY NamespaceAssumption DEF Inv, RootInv
<1>2. Above(Root) \subseteq {Root}
  BY <1>1, AboveLeast
<1>3. Root \in Above(Root)
  BY <1>1, AboveClosed DEF Inv
<1> QED BY <1>2, <1>3

\* A directory is not above the directory it is in.
LEMMA ChildNotAbove ==
  ASSUME Inv, NEW i \in Inos, LiveDir(i), i # Root
  PROVE  i \notin Above(parent[i]) /\ i # parent[i]
<1>0. LiveDir(parent[i]) /\ parent[i] \in Inos
  BY ParentLive
<1>1. parent[i] \in Above(parent[i])
  BY <1>0, AboveClosed DEF Inv
<1>2. ASSUME i \in Above(parent[i]) PROVE FALSE
  <2> DEFINE S == {x \in Above(parent[i]) : i \in Above(x)}
  <2>1. \A x \in Above(parent[i]) : x \in Inos /\ LiveDir(x)
    BY <1>0, AboveLive
  <2>2. S \subseteq {x \in Inos : LiveDir(x)} /\ S # {}
    BY <1>1, <1>2, <2>1
  <2>3. Root \notin S
    BY AboveRoot
  <2>4. ASSUME NEW x \in S PROVE parent[x] \in S
    <3>1. parent[x] \in Above(parent[i]) /\ x \in Inos
      BY <1>0, <2>1, AboveClosed DEF Inv
    <3>2. CASE x = i
      BY <1>1, <1>2, <3>2
    <3>3. CASE x # i
      <4>1. Above(x) \subseteq {x} \cup Above(parent[x])
        BY <3>1, AboveParent DEF Inv
      <4> QED BY <3>1, <3>3, <4>1
    <3> QED BY <3>2, <3>3
  <2>5. NoCycle(parent, {x \in Inos : LiveDir(x)})
    BY DEF Inv, CycleInv
  <2> HIDE DEF S
  <2> QED BY <2>2, <2>3, <2>4, <2>5 DEF NoCycle
<1> QED BY <1>1, <1>2

\* Directories that are not above a directory d do not matter for what is above d.
LEMMA AboveSame ==
  ASSUME TypeInv, NEW d \in Inos, \A x \in Above(d) : parent'[x] = parent[x]
  PROVE  Above(d)' \subseteq Above(d)
<1>1. d \in Above(d) /\ Above(d) \subseteq Inos /\ \A x \in Above(d) : parent'[x] \in Above(d)
  BY AboveClosed
<1> QED BY <1>1 DEF Above

\* A step that keeps every ".." and adds no directory makes no cycle.
LEMMA CycleKept ==
  ASSUME Inv, parent' = parent,
         \A k \in Inos : LiveDir(k)' => LiveDir(k),
         \A u \in Threads : CrossDir(u)' =>
           \/ op'[u].pc \notin {"replace", "replaced", "add", "moved", "exchange"}
           \/ CrossDir(u) /\ op'[u].ino = op[u].ino /\ op'[u].toDir = op[u].toDir
              /\ op'[u].old = op[u].old /\ op'[u].dir = op[u].dir
              /\ op[u].pc \in {"replace", "replaced", "add", "moved", "exchange"}
              /\ (op'[u].pc = "exchange" => op[u].pc = "exchange")
           \/ /\ op'[u].ino \notin Above(op'[u].toDir)
              /\ op'[u].pc = "exchange" => op'[u].old \notin Above(op'[u].dir)
  PROVE  CycleInv'
<1>1. NoCycle(parent', {d \in Inos : LiveDir(d)'})
  <2>1. NoCycle(parent, {d \in Inos : LiveDir(d)})
    BY DEF Inv, CycleInv
  <2>2. {d \in Inos : LiveDir(d)'} \subseteq {d \in Inos : LiveDir(d)}
    OBVIOUS
  <2> HIDE DEF LiveDir
  <2> QED BY <2>1, <2>2 DEF NoCycle
<1>2. \A d : Above(d)' = Above(d)
  BY DEF Above
<1>3. \A u \in Threads : CrossDir(u) =>
         /\ op[u].pc \in {"replace", "replaced", "add", "moved", "exchange"} =>
              op[u].ino \notin Above(op[u].toDir)
         /\ op[u].pc = "exchange" => op[u].old \notin Above(op[u].dir)
  BY DEF Inv, CycleInv
<1>4. ASSUME NEW u \in Threads, CrossDir(u)'
      PROVE  /\ op'[u].pc \in {"replace", "replaced", "add", "moved", "exchange"} =>
                  op'[u].ino \notin Above(op'[u].toDir)
             /\ op'[u].pc = "exchange" => op'[u].old \notin Above(op'[u].dir)
  BY <1>3, <1>4
<1>5. ASSUME NEW u \in Threads, CrossDir(u)'
      PROVE  /\ op'[u].pc \in {"replace", "replaced", "add", "moved", "exchange"} =>
                  op'[u].ino \notin Above(op[u].toDir)'
             /\ op'[u].pc = "exchange" => op'[u].old \notin Above(op[u].dir)'
  BY <1>4, <1>5 DEF Above
<1> QED BY <1>1, <1>5 DEF CycleInv

-----------------------------------------------------------------------------
(* The frames of the steps of an operation, and of the begin of one.       *)

LEMMA Exclusive ==
  ASSUME Inv, NEW t \in Threads, NEW u \in Threads \ {t}
  PROVE  /\ op[t].locks \cap op[u].locks = {} /\ Targets(t) \cap Targets(u) = {}
         /\ ~(CrossDir(t) /\ CrossDir(u))
BY DEF Inv, ExclusionInv

LEMMA MoveFrame ==
  ASSUME Inv, NEW t \in Threads, NEW L,
         L \subseteq op[t].locks,
         \A u \in Threads \ {t} : op'[u] = op[u],
         op'[t].locks \subseteq op[t].locks, Targets(t)' \subseteq Targets(t), CrossDir(t)' => CrossDir(t),
         \A k \in Inos \ L : DoubledBy(t, k)' <=> DoubledBy(t, k),
         \A k \in Inos : NamesOf(dents, k) # {} => inode'[k].kind = inode[k].kind,
         \A k \in L : k \in Targets(t) \/ (LiveDir(k) /\ Counted(k)'),
         \A k \in Inos \ L : LiveDir(k) =>
           /\ LiveDir(k)'
           /\ dents'[k] = dents[k] /\ hint'[k] = hint[k] /\ inode'[k].depth = inode[k].depth,
         \A k \in Inos \ Targets(t) : Kept(k, L)
  PROVE  Frame({t}, Targets(t), L)
<1>1. \A u \in Threads \ {t} : Targets(u) \cap Targets(t) = {} /\ op[u].locks \cap L = {}
  BY Exclusive
<1>2. \A u \in Threads \ {t} : op'[t].locks \cap op[u].locks = {} /\ ~(CrossDir(t)' /\ CrossDir(u))
  BY Exclusive
<1>3. Targets(t) \subseteq Inos /\ L \subseteq Inos /\ Root \notin Targets(t)
  BY InvTypes DEF Inv, OpInv
<1> HIDE DEF Targets, CrossDir, DoubledBy, LiveDir, Counted, Kept
<1> QED BY <1>1, <1>2, <1>3 DEF Frame

LEMMA BeginFrame ==
  ASSUME Inv, NEW t \in Threads, op[t].pc = "idle", NEW T \in SUBSET Inos,
         \A u \in Threads \ {t} : op'[u] = op[u],
         Unheld(op'[t].locks), Targets(t)' \subseteq T, \A u \in Threads : Targets(u) \cap T = {},
         Root \notin T, CrossDir(t)' => \A u \in Threads : ~CrossDir(u),
         op'[t].pc \notin {"replaced", "moved", "crossed"},
         dents' = dents, hint' = hint, parent' = parent,
         \A k \in Inos \ T : inode'[k] = inode[k] /\ page'[k] = page[k] /\ open'[k] = open[k]
                             /\ (k \in orphans' <=> k \in orphans),
         \A k \in T : /\ NamesOf(dents, k) # {} => inode'[k].kind = inode[k].kind
                      /\ LiveDir(k) => inode'[k] = inode[k] /\ page'[k] = page[k]
  PROVE  Frame({t}, T, {})
<1>1. \A u \in Threads \ {t} : op[u].locks \cap op'[t].locks = {}
  BY DEF Unheld
<1>2. Targets(t) = {}
  BY DEF Targets
<1>3. \A k \in Inos : DoubledBy(t, k)' <=> DoubledBy(t, k)
  BY DEF DoubledBy
<1>4. \A k \in Inos : LiveDir(k) => LiveDir(k)' /\ inode'[k].depth = inode[k].depth
  BY DEF LiveDir
<1>5. \A k \in Inos \ T : Kept(k, {})
  BY DEF Kept
<1>6. \A k \in Inos : NamesOf(dents, k) # {} => inode'[k].kind = inode[k].kind
  OBVIOUS
<1> HIDE DEF Targets, CrossDir, DoubledBy, LiveDir, Kept
<1> QED BY <1>1, <1>2, <1>3, <1>4, <1>5, <1>6 DEF Frame

\* An operation that begins and changes no inode
LEMMA BeginInv ==
  ASSUME Inv, NEW t \in Threads, NEW o \in OpTypes, MayBegin(t), Begin(t, o),
         o.pc \in {"new", "unlink", "replace", "add", "exchange"},
         UNCHANGED <<inode, page, dirVars, orphans, open, saved>>,
         Unheld(o.locks), \A u \in Threads : Targets(u) \cap Targets(t)' = {},
         CrossDir(t)' => \A u \in Threads : ~CrossDir(u),
         OpInv(t)',
         IF o.pc \in {"unlink", "replace"} THEN AcquireOrphan ELSE nOrphans' = nOrphans,
         CrossDir(t)' =>
           /\ o.ino \notin Above(o.toDir)
           /\ o.pc = "exchange" => o.old \notin Above(o.dir)
  PROVE  Inv'
<1>1. /\ op' \in [Threads -> OpTypes] /\ ops' \in 0..MaxOps
      /\ \A u \in Threads \ {t} : op'[u] = op[u]
      /\ op[t] = Idle /\ op[t].pc = "idle" /\ op'[t] = o
  BY BeginStep DEF Inv
<1>2. inode' = inode /\ page' = page /\ dents' = dents /\ parent' = parent /\ hint' = hint
      /\ orphans' = orphans /\ open' = open /\ saved' = saved
  BY DEF dirVars
<1> DEFINE T == IF o.pc \in {"replace", "exchange"} THEN {o.ino, o.old} ELSE {o.ino}
<1>0. Targets(t)' = T
  BY <1>1 DEF Targets
<1>3. Frame({t}, T, {})
  <2>1. T \in SUBSET Inos
    BY DEF OpTypes
  <2>2. Root \notin T
    BY <1>0 DEF OpInv
  <2>3. \A k \in T : /\ NamesOf(dents, k) # {} => inode'[k].kind = inode[k].kind
                     /\ LiveDir(k) => inode'[k] = inode[k] /\ page'[k] = page[k]
    BY <1>2
  <2>4. Unheld(op'[t].locks) /\ op'[t].pc \notin {"replaced", "moved", "crossed"}
    BY <1>1
  <2>5. Targets(t)' \subseteq T /\ \A u \in Threads : Targets(u) \cap T = {}
    BY <1>0
  <2> HIDE DEF T
  <2> QED BY <1>1, <1>2, <2>1, <2>2, <2>3, <2>4, <2>5, BeginFrame
<1>4. nOrphans' \in Int /\ nOrphans' <= MaxOrphans /\
      nOrphans' = nOrphans + (IF o.pc \in {"unlink", "replace"} THEN 1 ELSE 0)
  <2>1. nOrphans \in Int /\ nOrphans <= MaxOrphans /\ MaxOrphans \in Nat
    BY NamespaceAssumption DEF Inv, TypeInv
  <2> QED BY <2>1 DEF AcquireOrphan
<1>5. TypeInv'
  BY <1>1, <1>2, <1>4 DEF Inv, TypeInv
<1>6. ASSUME NEW k \in T PROVE PageInv(k)' /\ OrphanInv(k)' /\ LinkInv(k)'
  <2>1. k \in Inos
    BY DEF OpTypes
  <2>2. PageInv(k) /\ OrphanInv(k) /\ LinkInv(k)
    BY <2>1 DEF Inv
  <2>3. /\ Ahead(k)' <=> Ahead(k)
        /\ Behind(k)' <=> Behind(k)
        /\ Losing(k)' <=> Losing(k)
        /\ (\E u \in Threads : op'[u].ino = k /\ op'[u].pc = "tmpfile")
             <=> (\E u \in Threads : op[u].ino = k /\ op[u].pc = "tmpfile")
    BY <1>1 DEF Ahead, Behind, Losing
  <2>4. Doubled(k)' <=> Doubled(k)
    BY <1>1, <1>2 DEF Doubled, DoubledBy, IsDir
  <2>5. LiveDir(k)' <=> LiveDir(k)
    BY <1>2 DEF LiveDir
  <2>6. PageInv(k)'
    BY <1>2, <2>2, <2>3, <2>5 DEF PageInv
  <2>7. OrphanInv(k)'
    BY <1>2, <2>2, <2>3 DEF OrphanInv
  <2>8. \E u \in Threads : k \in Targets(u)'
    BY <1>0
  <2>9. LinkInv(k)'
    <3>1. page'[k].kind = "file" =>
            inode'[k].nlink = Cardinality(NamesOf(dents', k)) + Bit(Ahead(k)') - Bit(Behind(k)')
      BY <1>2, <2>2, <2>3 DEF LinkInv, Bit
    <3>2. LiveDir(k)' => inode'[k].nlink = 2 + Cardinality(Subdirs(dents', inode', k)) + Bit(Doubled(k)')
      BY <1>2, <2>2, <2>4, <2>5 DEF LinkInv, Bit
    <3>3. page'[k].kind = "dir" /\ inode'[k].nlink = 0 => NamesOf(dents', k) = {}
      BY <1>2, <2>2 DEF LinkInv
    <3> QED BY <2>8, <3>1, <3>2, <3>3 DEF LinkInv
  <2> QED BY <2>6, <2>7, <2>9
<1>7. DirsFound'
  BY <1>2 DEF Inv, DirsFound
<1>8. CycleInv'
  <2>1. \A k \in Inos : LiveDir(k)' => LiveDir(k)
    BY <1>2 DEF LiveDir
  <2>2. \A u \in Threads \ {t} : CrossDir(u)' => CrossDir(u)
    BY <1>1 DEF CrossDir
  <2>3. CrossDir(t)' => op'[t].ino \notin Above(op'[t].toDir)
                        /\ (op'[t].pc = "exchange" => op'[t].old \notin Above(op'[t].dir))
    BY <1>1
  <2>4. ASSUME NEW u \in Threads, CrossDir(u)'
        PROVE  \/ op'[u].pc \notin {"replace", "replaced", "add", "moved", "exchange"}
               \/ CrossDir(u) /\ op'[u].ino = op[u].ino /\ op'[u].toDir = op[u].toDir
                  /\ op'[u].old = op[u].old /\ op'[u].dir = op[u].dir
                  /\ op[u].pc \in {"replace", "replaced", "add", "moved", "exchange"}
                  /\ (op'[u].pc = "exchange" => op[u].pc = "exchange")
               \/ /\ op'[u].ino \notin Above(op'[u].toDir)
                  /\ op'[u].pc = "exchange" => op'[u].old \notin Above(op'[u].dir)
    <3>1. CASE u = t
      BY <2>3, <2>4, <3>1
    <3>2. CASE u # t
      BY <2>2, <2>4, <3>2, <1>1
    <3> QED BY <3>1, <3>2
  <2> QED BY <1>2, <2>1, <2>4, CycleKept
<1>9. OrphanCount'
  <2>1. /\ o.pc \in {"unlink", "replace"} => Cardinality(Reserving') = Cardinality(Reserving) + 1
        /\ o.pc \notin {"unlink", "replace"} => Cardinality(Reserving') = Cardinality(Reserving)
        /\ Cardinality(Reserving) \in Nat
    BY <1>1, ReservingStep
  <2>2. nOrphans = Cardinality(orphans) + Cardinality(Reserving) /\ Cardinality(orphans) \in Nat
    BY OrphansFinite DEF Inv, OrphanCount
  <2> QED BY <1>2, <1>4, <2>1, <2>2 DEF OrphanCount
<1>10. SavedInv'
  BY <1>2 DEF Inv, SavedInv, SavedTreeConsistent
<1>11. \A u \in {t} : OpInv(u)'
  OBVIOUS
<1> HIDE DEF T
<1> QED BY <1>3, <1>5, <1>6, <1>7, <1>8, <1>9, <1>10, <1>11, Assemble

-----------------------------------------------------------------------------
(* Each step keeps the invariant.  First, the begin of an operation.       *)

LEMMA LinkKeeps ==
  ASSUME Inv, NEW t \in Threads, NEW i \in Inos, NEW d \in Inos, NEW n \in Names, Link(t, i, d, n)
  PROVE  Inv'
<1> DEFINE o == [Idle EXCEPT !.pc = "new", !.what = "link", !.locks = {d, i}, !.dir = d, !.name = n,
                             !.ino = i]
<1>1. /\ MayBegin(t) /\ Begin(t, o) /\ Live(d) /\ Unheld({d, i}) /\ ~Named(d, n)
      /\ inode[i].kind = "file" /\ (Linked(i) \/ open[i] = "tmpfile")
      /\ UNCHANGED <<inode, page, dirVars, orphanVars, open, saved>>
  BY DEF Link
<1>2. /\ o \in OpTypes /\ o.pc = "new" /\ o.what = "link" /\ o.locks = {d, i} /\ o.dir = d /\ o.name = n
      /\ o.ino = i /\ o.toDir = Root
  BY NamespaceAssumption DEF OpTypes, Idle, Pcs
<1> HIDE DEF o
<1>3. op'[t] = o
  BY <1>1, <1>2, BeginStep DEF Inv
<1>4. inode' = inode /\ page' = page /\ dents' = dents /\ parent' = parent /\ hint' = hint
      /\ orphans' = orphans /\ nOrphans' = nOrphans /\ open' = open /\ saved' = saved
  BY <1>1 DEF dirVars, orphanVars
<1>5. LiveDir(d) /\ ~Taken(d, n)
  BY <1>1, LiveIsLiveDir, EntryByName DEF Inv
<1>6. page[i].kind = "file" /\ \A u \in Threads : i \notin Targets(u)
  <2>1. Unheld({i})
    BY <1>1 DEF Unheld
  <2>2. \A u \in Threads : i \notin Targets(u) /\ page[i].kind = "file"
    BY <1>1, <2>1, FreshFile
  <2> QED BY <2>2
<1>7. Targets(t)' = {i} /\ ~CrossDir(t)'
  BY <1>2, <1>3 DEF Targets, CrossDir
<1>8. i # Root /\ i # d
  BY <1>5, <1>6 DEF Inv, RootInv, LiveDir
<1>9. AddInv(t)'
  BY <1>2, <1>3, <1>4, <1>5, <1>6 DEF AddInv, LiveDir, Taken
<1>10. UnlinkInv(t)' /\ RenameInv(t)'
  BY <1>2, <1>3 DEF UnlinkInv, RenameInv
<1>11. OpInv(t)'
  BY <1>2, <1>3, <1>7, <1>8, <1>9, <1>10 DEF OpInv
<1>12. Unheld(o.locks) /\ UNCHANGED <<inode, page, dirVars, orphans, open, saved>>
  BY <1>1, <1>2 DEF orphanVars
<1>13. \A u \in Threads : Targets(u) \cap Targets(t)' = {}
  BY <1>6, <1>7
<1>14. IF o.pc \in {"unlink", "replace"} THEN AcquireOrphan ELSE nOrphans' = nOrphans
  BY <1>2, <1>4
<1> QED BY <1>1, <1>2, <1>7, <1>11, <1>12, <1>13, <1>14, BeginInv

LEMMA UnlinkKeeps ==
  ASSUME Inv, NEW t \in Threads, NEW d \in Inos, NEW n \in Names, Unlink(t, d, n)
  PROVE  Inv'
<1> DEFINE i == InoAt(d, n)
           o == [Idle EXCEPT !.pc = "unlink", !.what = "unlink", !.locks = {d, i},
                             !.dir = d, !.name = n, !.ino = i]
<1>1. /\ MayBegin(t) /\ Begin(t, o) /\ Live(d) /\ Named(d, n)
      /\ Unheld({d, i})
      /\ IsDir(i) => EmptyDir(i)
      /\ AcquireOrphan
      /\ UNCHANGED <<inode, page, dirVars, open, saved>>
  BY DEF Unlink
<1>2. i \in Inos /\ HasName(dents, i, d, n)
  BY <1>1, EntryByName DEF Inv
<1> HIDE DEF i
<1>3. /\ o \in OpTypes /\ o.pc = "unlink" /\ o.what = "unlink" /\ o.locks = {d, i} /\ o.dir = d /\ o.name = n
      /\ o.ino = i /\ o.toDir = Root
  BY <1>2, NamespaceAssumption DEF OpTypes, Idle, Pcs
<1> HIDE DEF o
<1>4. op'[t] = o
  BY <1>1, <1>3, BeginStep DEF Inv
<1>5. inode' = inode /\ page' = page /\ dents' = dents /\ parent' = parent /\ hint' = hint
      /\ orphans' = orphans /\ open' = open /\ saved' = saved
  BY <1>1 DEF dirVars, AcquireOrphan
<1>6. Unheld({d}) /\ Unheld({i})
  BY <1>1 DEF Unheld
<1>7. \A u \in Threads : i \notin Targets(u)
  BY <1>2, <1>6, Fresh
<1>8. LiveDir(d) /\ i # Root /\ (IsDir(i) => LiveDir(i)) /\ <<d, n>> \in NamesOf(dents, i)
  BY <1>2, NamedInode
<1>9. IsDir(i) => NamesOf(dents, i) = {<<d, n>>} /\ parent[i] = d /\ dents[i] = {}
  <2>1. ASSUME IsDir(i) PROVE \E m \in Names : NamesOf(dents, i) = {<<parent[i], m>>}
    BY <2>1, <1>2, <1>7, <1>8 DEF Inv, LinkInv
  <2> QED BY <1>1, <1>8, <2>1 DEF EmptyDir
<1>10. i # d
  <2>1. dents[d] # {}
    BY <1>2 DEF HasName
  <2>2. d = i => IsDir(i)
    BY <1>8 DEF IsDir, LiveDir, Inv, PageInv
  <2> QED BY <1>9, <2>1, <2>2
<1>11. Targets(t)' = {i} /\ ~CrossDir(t)'
  BY <1>3, <1>4 DEF Targets, CrossDir
<1>12. UnlinkInv(t)'
  BY <1>2, <1>3, <1>4, <1>5, <1>8, <1>9 DEF UnlinkInv, LiveDir, OnlyAt, IsDir
<1>13. AddInv(t)' /\ RenameInv(t)'
  BY <1>3, <1>4 DEF AddInv, RenameInv
<1>14. OpInv(t)'
  BY <1>3, <1>4, <1>8, <1>10, <1>11, <1>12, <1>13 DEF OpInv
<1>15. UNCHANGED <<inode, page, dirVars, orphans, open, saved>> /\ Unheld(o.locks)
  BY <1>1, <1>3, <1>5
<1>16. \A u \in Threads : Targets(u) \cap Targets(t)' = {}
  BY <1>7, <1>11
<1>17. IF o.pc \in {"unlink", "replace"} THEN AcquireOrphan ELSE nOrphans' = nOrphans
  BY <1>1, <1>3
<1> QED BY <1>1, <1>3, <1>11, <1>14, <1>15, <1>16, <1>17, BeginInv

\* An inode that a rename takes from a directory, or replaces there
LEMMA Place ==
  ASSUME Inv, NEW i \in Inos, NEW d \in Inos, NEW n \in Names, HasName(dents, i, d, n),
         Unheld({d}), IsDir(i) \/ Unheld({i})
  PROVE  /\ \A u \in Threads : i \notin Targets(u)
         /\ page[i].kind # "none" /\ LiveDir(d) /\ i # Root /\ i # d
         /\ IsDir(i) => LiveDir(i) /\ NamesOf(dents, i) = {<<d, n>>} /\ parent[i] = d
         /\ ~IsDir(i) => dents[i] = {}
<1>1. \A u \in Threads : i \notin Targets(u)
  BY Fresh
<1>2. /\ page[i].kind # "none" /\ page[i].kind = inode[i].kind /\ LiveDir(d) /\ i # Root
      /\ (IsDir(i) => LiveDir(i)) /\ <<d, n>> \in NamesOf(dents, i)
  BY NamedInode
<1>3. IsDir(i) => NamesOf(dents, i) = {<<d, n>>} /\ parent[i] = d
  <2>1. ASSUME IsDir(i) PROVE \E m \in Names : NamesOf(dents, i) = {<<parent[i], m>>}
    BY <2>1, <1>1, <1>2 DEF Inv, LinkInv
  <2> QED BY <1>2, <2>1
<1>4. i # d
  <2>1. CASE IsDir(i)
    BY <1>2, <1>3, <2>1, ChildNotAbove
  <2>2. CASE ~IsDir(i)
    BY <1>2, <2>2 DEF IsDir, LiveDir
  <2> QED BY <2>1, <2>2
<1>5. ~IsDir(i) => dents[i] = {}
  BY <1>2 DEF Inv, PageInv, LiveDir, IsDir
<1> QED BY <1>1, <1>2, <1>3, <1>4, <1>5

LEMMA RenameOverKeeps ==
  ASSUME Inv, NEW t \in Threads, NEW d \in Inos, NEW n \in Names, NEW e \in Inos, NEW m \in Names,
         RenameOver(t, d, n, e, m)
  PROVE  Inv'
<1> DEFINE i     == InoAt(d, n)
           old   == InoAt(e, m)
           locks == {old} \cup (IF IsDir(i) THEN {} ELSE {i})
           o     == [pc |-> "replace", what |-> "rename", locks |-> {d, e} \cup locks, dir |-> d, name |-> n,
                     ino |-> i, toDir |-> e, toName |-> m, old |-> old]
<1>1. /\ MayBegin(t) /\ Begin(t, o) /\ RenameAllowed(d, e) /\ Named(d, n) /\ Named(e, m)
      /\ i # old /\ inode[i].kind = inode[old].kind
      /\ Unheld(locks)
      /\ i \notin Above(e) /\ old \notin Above(d)
      /\ IsDir(i) => EmptyDir(old)
      /\ AcquireOrphan
      /\ UNCHANGED <<inode, page, dirVars, open, saved>>
  BY DEF RenameOver, Moving
<1>2. i \in Inos /\ HasName(dents, i, d, n) /\ old \in Inos /\ HasName(dents, old, e, m)
  BY <1>1, EntryByName DEF Inv
<1> HIDE DEF i, old
<1>3. /\ o \in OpTypes /\ o.pc = "replace" /\ o.what = "rename" /\ o.locks = {d, e} \cup locks /\ o.dir = d
      /\ o.name = n /\ o.ino = i /\ o.toDir = e /\ o.toName = m /\ o.old = old
  BY <1>2 DEF OpTypes, Pcs
<1> HIDE DEF o
<1>4. op'[t] = o
  BY <1>1, <1>3, BeginStep DEF Inv
<1>5. inode' = inode /\ page' = page /\ dents' = dents /\ parent' = parent /\ hint' = hint
      /\ orphans' = orphans /\ open' = open /\ saved' = saved
  BY <1>1 DEF dirVars, AcquireOrphan
<1>6. Unheld({d}) /\ Unheld({e}) /\ Unheld({old}) /\ (IsDir(i) \/ Unheld({i})) /\ Unheld(o.locks)
  BY <1>1, <1>3 DEF Unheld, RenameAllowed
<1>7. /\ \A u \in Threads : i \notin Targets(u)
      /\ page[i].kind # "none" /\ LiveDir(d) /\ i # Root /\ i # d
      /\ IsDir(i) => LiveDir(i) /\ NamesOf(dents, i) = {<<d, n>>} /\ parent[i] = d
  BY <1>2, <1>6, Place
<1>8. /\ \A u \in Threads : old \notin Targets(u)
      /\ page[old].kind # "none" /\ LiveDir(e) /\ old # Root /\ old # e
      /\ IsDir(old) => LiveDir(old) /\ NamesOf(dents, old) = {<<e, m>>} /\ parent[old] = e
      /\ ~IsDir(old) => dents[old] = {}
  BY <1>2, <1>6, Place
<1>9. i # e /\ old # d
  BY <1>1, AboveClosed DEF Inv
<1>10. <<d, n>> # <<e, m>>
  BY <1>1 DEF i, old
<1>11. Targets(t)' = {i, old} /\ (CrossDir(t)' <=> d # e)
  BY <1>3, <1>4 DEF Targets, CrossDir
<1>12. (IsDir(old) <=> IsDir(i)) /\ dents[old] = {}
  BY <1>1, <1>8 DEF IsDir, EmptyDir
<1>13. RenameInv(t)'
  <2>1. \A k \in {i, old} : page'[k].kind # "none" /\ (inode'[k].kind # "dir" => k \in o.locks)
    BY <1>3, <1>5, <1>7, <1>8 DEF IsDir
  <2>2. LiveDir(d)' /\ LiveDir(e)' /\ {d, e} \subseteq o.locks /\ old \in o.locks
    BY <1>3, <1>5, <1>7, <1>8 DEF LiveDir
  <2>3. HasName(dents', i, d, n) /\ HasName(dents', old, e, m)
    BY <1>2, <1>5
  <2>4. /\ inode'[i].kind = "dir" => NamesOf(dents', i) = {<<d, n>>} /\ parent'[i] = d
        /\ inode'[old].kind = "dir" => NamesOf(dents', old) = {<<e, m>>} /\ parent'[old] = e
        /\ (inode'[old].kind = "dir" <=> inode'[i].kind = "dir") /\ dents'[old] = {}
    BY <1>5, <1>7, <1>8, <1>12 DEF IsDir
  <2> QED BY <1>1, <1>3, <1>4, <1>10, <1>11, <2>1, <2>2, <2>3, <2>4 DEF RenameInv, LiveDir, IsDir, OnlyAt
<1>14. AddInv(t)' /\ UnlinkInv(t)'
  BY <1>3, <1>4 DEF AddInv, UnlinkInv
<1>15. OpInv(t)'
  BY <1>3, <1>4, <1>7, <1>8, <1>9, <1>11, <1>13, <1>14 DEF OpInv
<1>16. UNCHANGED <<inode, page, dirVars, orphans, open, saved>>
  BY <1>1, <1>5
<1>17. \A u \in Threads : Targets(u) \cap Targets(t)' = {}
  BY <1>7, <1>8, <1>11
<1>18. IF o.pc \in {"unlink", "replace"} THEN AcquireOrphan ELSE nOrphans' = nOrphans
  BY <1>1, <1>3
<1>19. CrossDir(t)' => \A u \in Threads : ~CrossDir(u)
  <2>1. \A u \in Threads : op[u].pc = "idle" => op[u] = Idle
    BY DEF Inv, OpInv
  <2>2. \A u \in Threads : op[u] = Idle => ~CrossDir(u)
    BY DEF CrossDir, Idle
  <2> QED BY <1>1, <1>11, <2>1, <2>2 DEF RenameAllowed, CrossDir
<1> QED BY <1>1, <1>3, <1>6, <1>15, <1>16, <1>17, <1>18, <1>19, BeginInv

LEMMA RenameToKeeps ==
  ASSUME Inv, NEW t \in Threads, NEW d \in Inos, NEW n \in Names, NEW e \in Inos, NEW m \in Names,
         RenameTo(t, d, n, e, m)
  PROVE  Inv'
<1> DEFINE i     == InoAt(d, n)
           locks == IF IsDir(i) THEN {} ELSE {i}
           o     == [pc |-> "add", what |-> "rename", locks |-> {d, e} \cup locks, dir |-> d, name |-> n,
                     ino |-> i, toDir |-> e, toName |-> m, old |-> i]
<1>1. /\ MayBegin(t) /\ Begin(t, o) /\ RenameAllowed(d, e) /\ Named(d, n) /\ ~Named(e, m)
      /\ Unheld(locks)
      /\ i \notin Above(e)
      /\ UNCHANGED <<inode, page, dirVars, orphanVars, open, saved>>
  BY DEF RenameTo, Moving
<1>2. i \in Inos /\ HasName(dents, i, d, n) /\ Taken(d, n) /\ ~Taken(e, m)
  BY <1>1, EntryByName DEF Inv
<1> HIDE DEF i
<1>3. /\ o \in OpTypes /\ o.pc = "add" /\ o.what = "rename" /\ o.locks = {d, e} \cup locks /\ o.dir = d
      /\ o.name = n /\ o.ino = i /\ o.toDir = e /\ o.toName = m /\ o.old = i
  BY <1>2 DEF OpTypes, Pcs
<1> HIDE DEF o
<1>4. op'[t] = o
  BY <1>1, <1>3, BeginStep DEF Inv
<1>5. inode' = inode /\ page' = page /\ dents' = dents /\ parent' = parent /\ hint' = hint
      /\ orphans' = orphans /\ nOrphans' = nOrphans /\ open' = open /\ saved' = saved
  BY <1>1 DEF dirVars, orphanVars
<1>6. Unheld({d}) /\ Unheld({e}) /\ (IsDir(i) \/ Unheld({i})) /\ Unheld(o.locks)
  BY <1>1, <1>3 DEF Unheld, RenameAllowed
<1>7. /\ \A u \in Threads : i \notin Targets(u)
      /\ page[i].kind # "none" /\ LiveDir(d) /\ i # Root /\ i # d
      /\ IsDir(i) => LiveDir(i) /\ NamesOf(dents, i) = {<<d, n>>} /\ parent[i] = d
  BY <1>2, <1>6, Place
<1>8. LiveDir(e)
  BY <1>1, LiveIsLiveDir DEF RenameAllowed
<1>9. i # e
  BY <1>1, AboveClosed DEF Inv
<1>10. <<d, n>> # <<e, m>>
  BY <1>2
<1>11. Targets(t)' = {i} /\ (CrossDir(t)' <=> d # e)
  BY <1>3, <1>4 DEF Targets, CrossDir
<1>13. RenameInv(t)'
  <2>1. page'[i].kind # "none" /\ (inode'[i].kind # "dir" => i \in o.locks)
    BY <1>3, <1>5, <1>7 DEF IsDir
  <2>2. LiveDir(d)' /\ LiveDir(e)' /\ {d, e} \subseteq o.locks
    BY <1>3, <1>5, <1>7, <1>8 DEF LiveDir
  <2>3. HasName(dents', i, d, n) /\ ~(\E x \in dents'[e] : x.name = m)
    BY <1>2, <1>5 DEF Taken
  <2>4. inode'[i].kind = "dir" => NamesOf(dents', i) = {<<d, n>>} /\ parent'[i] = d
    BY <1>5, <1>7 DEF IsDir
  <2> QED BY <1>3, <1>4, <1>10, <1>11, <2>1, <2>2, <2>3, <2>4 DEF RenameInv, LiveDir, IsDir, OnlyAt, Taken
<1>14. AddInv(t)' /\ UnlinkInv(t)'
  BY <1>3, <1>4 DEF AddInv, UnlinkInv
<1>15. OpInv(t)'
  BY <1>3, <1>4, <1>7, <1>9, <1>11, <1>13, <1>14 DEF OpInv
<1>16. UNCHANGED <<inode, page, dirVars, orphans, open, saved>>
  BY <1>1, <1>5
<1>17. \A u \in Threads : Targets(u) \cap Targets(t)' = {}
  BY <1>7, <1>11
<1>18. IF o.pc \in {"unlink", "replace"} THEN AcquireOrphan ELSE nOrphans' = nOrphans
  BY <1>3, <1>5
<1>19. CrossDir(t)' => \A u \in Threads : ~CrossDir(u)
  <2>1. \A u \in Threads : op[u].pc = "idle" => op[u] = Idle
    BY DEF Inv, OpInv
  <2>2. \A u \in Threads : op[u] = Idle => ~CrossDir(u)
    BY DEF CrossDir, Idle
  <2> QED BY <1>1, <1>11, <2>1, <2>2 DEF RenameAllowed, CrossDir
<1> QED BY <1>1, <1>3, <1>6, <1>15, <1>16, <1>17, <1>18, <1>19, BeginInv

LEMMA CrossRenameKeeps ==
  ASSUME Inv, NEW t \in Threads, NEW d \in Inos, NEW n \in Names, NEW e \in Inos, NEW m \in Names,
         CrossRename(t, d, n, e, m)
  PROVE  Inv'
<1> DEFINE i     == InoAt(d, n)
           old   == InoAt(e, m)
           locks == {k \in {i, old} : ~IsDir(k)}
           o     == [pc |-> "exchange", what |-> "rename", locks |-> {d, e} \cup locks, dir |-> d, name |-> n,
                     ino |-> i, toDir |-> e, toName |-> m, old |-> old]
<1>1. /\ MayBegin(t) /\ Begin(t, o) /\ RenameAllowed(d, e) /\ Named(d, n) /\ Named(e, m)
      /\ i # old
      /\ Unheld(locks)
      /\ i \notin Above(e) /\ old \notin Above(d)
      /\ UNCHANGED <<inode, page, dirVars, orphanVars, open, saved>>
  BY DEF CrossRename, Moving
<1>2. i \in Inos /\ HasName(dents, i, d, n) /\ old \in Inos /\ HasName(dents, old, e, m)
  BY <1>1, EntryByName DEF Inv
<1> HIDE DEF i, old
<1>3. /\ o \in OpTypes /\ o.pc = "exchange" /\ o.what = "rename" /\ o.locks = {d, e} \cup locks /\ o.dir = d
      /\ o.name = n /\ o.ino = i /\ o.toDir = e /\ o.toName = m /\ o.old = old
  BY <1>2 DEF OpTypes, Pcs
<1> HIDE DEF o
<1>4. op'[t] = o
  BY <1>1, <1>3, BeginStep DEF Inv
<1>5. inode' = inode /\ page' = page /\ dents' = dents /\ parent' = parent /\ hint' = hint
      /\ orphans' = orphans /\ nOrphans' = nOrphans /\ open' = open /\ saved' = saved
  BY <1>1 DEF dirVars, orphanVars
<1>6. Unheld({d}) /\ Unheld({e}) /\ (IsDir(old) \/ Unheld({old})) /\ (IsDir(i) \/ Unheld({i}))
      /\ Unheld(o.locks)
  BY <1>1, <1>3 DEF Unheld, RenameAllowed
<1>7. /\ \A u \in Threads : i \notin Targets(u)
      /\ page[i].kind # "none" /\ LiveDir(d) /\ i # Root /\ i # d
      /\ IsDir(i) => LiveDir(i) /\ NamesOf(dents, i) = {<<d, n>>} /\ parent[i] = d
  BY <1>2, <1>6, Place
<1>8. /\ \A u \in Threads : old \notin Targets(u)
      /\ page[old].kind # "none" /\ LiveDir(e) /\ old # Root /\ old # e
      /\ IsDir(old) => LiveDir(old) /\ NamesOf(dents, old) = {<<e, m>>} /\ parent[old] = e
  BY <1>2, <1>6, Place
<1>9. i # e /\ old # d
  BY <1>1, AboveClosed DEF Inv
<1>10. <<d, n>> # <<e, m>>
  BY <1>1 DEF i, old
<1>11. Targets(t)' = {i, old} /\ (CrossDir(t)' <=> d # e)
  BY <1>3, <1>4 DEF Targets, CrossDir
<1>13. RenameInv(t)'
  <2>1. \A k \in {i, old} : page'[k].kind # "none" /\ (inode'[k].kind # "dir" => k \in o.locks)
    BY <1>3, <1>5, <1>7, <1>8 DEF IsDir
  <2>2. LiveDir(d)' /\ LiveDir(e)' /\ {d, e} \subseteq o.locks
    BY <1>3, <1>5, <1>7, <1>8 DEF LiveDir
  <2>3. HasName(dents', i, d, n) /\ HasName(dents', old, e, m)
    BY <1>2, <1>5
  <2>4. /\ inode'[i].kind = "dir" => NamesOf(dents', i) = {<<d, n>>} /\ parent'[i] = d
        /\ inode'[old].kind = "dir" => NamesOf(dents', old) = {<<e, m>>} /\ parent'[old] = e
    BY <1>5, <1>7, <1>8 DEF IsDir
  <2> QED BY <1>1, <1>3, <1>4, <1>10, <1>11, <2>1, <2>2, <2>3, <2>4 DEF RenameInv, LiveDir, IsDir, OnlyAt
<1>14. AddInv(t)' /\ UnlinkInv(t)'
  BY <1>3, <1>4 DEF AddInv, UnlinkInv
<1>15. OpInv(t)'
  BY <1>3, <1>4, <1>7, <1>8, <1>9, <1>11, <1>13, <1>14 DEF OpInv
<1>16. UNCHANGED <<inode, page, dirVars, orphans, open, saved>>
  BY <1>1, <1>5
<1>17. \A u \in Threads : Targets(u) \cap Targets(t)' = {}
  BY <1>7, <1>8, <1>11
<1>18. IF o.pc \in {"unlink", "replace"} THEN AcquireOrphan ELSE nOrphans' = nOrphans
  BY <1>3, <1>5
<1>19. CrossDir(t)' => \A u \in Threads : ~CrossDir(u)
  <2>1. \A u \in Threads : op[u].pc = "idle" => op[u] = Idle
    BY DEF Inv, OpInv
  <2>2. \A u \in Threads : op[u] = Idle => ~CrossDir(u)
    BY DEF CrossDir, Idle
  <2> QED BY <1>1, <1>11, <2>1, <2>2 DEF RenameAllowed, CrossDir
<1> QED BY <1>1, <1>3, <1>6, <1>15, <1>16, <1>17, <1>18, <1>19, BeginInv

-----------------------------------------------------------------------------
(* What a step of an operation needs of counts and of the other operations. *)

LEMMA CountStep ==
  ASSUME NEW S, NEW U, IsFiniteSet(S), IsFiniteSet(U), NEW x, \A y : y # x => (y \in U <=> y \in S)
  PROVE  /\ Cardinality(S) \in Nat /\ Cardinality(U) \in Nat
         /\ Cardinality(U) = Cardinality(S) + Bit(x \in U) - Bit(x \in S)
<1>1. Cardinality(S) \in Nat /\ Cardinality(U) \in Nat
  BY FS_CardinalityType
<1>2. CASE x \in U /\ x \notin S
  <2>1. U = S \cup {x}
    BY <1>2
  <2>2. Cardinality(U) = Cardinality(S) + 1
    BY <1>2, <2>1, FS_AddElement
  <2> QED BY <1>1, <1>2, <2>2 DEF Bit
<1>3. CASE x \notin U /\ x \in S
  <2>1. S = U \cup {x}
    BY <1>3
  <2>2. Cardinality(S) = Cardinality(U) + 1
    BY <1>3, <2>1, FS_AddElement
  <2> QED BY <1>1, <1>3, <2>2 DEF Bit
<1>4. CASE x \in U <=> x \in S
  <2>1. S = U
    BY <1>4
  <2> QED BY <1>1, <1>4, <2>1 DEF Bit
<1> QED BY <1>1, <1>2, <1>3, <1>4

\* A step that changes the names of one inode in a directory
LEMMA SubdirsStep ==
  ASSUME TypeInv, dents' \in Directories, NEW d \in Inos, NEW i \in Inos,
         \A k \in Inos : inode'[k].kind = inode[k].kind,
         \A k \in Inos \ {i}, n \in Names : HasName(dents', k, d, n) <=> HasName(dents, k, d, n)
  PROVE  /\ Cardinality(Subdirs(dents, inode, d)) \in Nat /\ Cardinality(Subdirs(dents', inode', d)) \in Nat
         /\ Cardinality(Subdirs(dents', inode', d)) = Cardinality(Subdirs(dents, inode, d))
              + Bit(IsDir(i) /\ \E n \in Names : HasName(dents', i, d, n))
              - Bit(IsDir(i) /\ \E n \in Names : HasName(dents, i, d, n))
<1>1. dents \in Directories
  BY DEF TypeInv, Directories
<1> DEFINE S == Subdirs(dents, inode, d)
           U == Subdirs(dents', inode', d)
<1>2. \A k \in Inos : /\ k \in S <=> inode[k].kind = "dir" /\ \E n \in Names : HasName(dents, k, d, n)
                      /\ k \in U <=> inode[k].kind = "dir" /\ \E n \in Names : HasName(dents', k, d, n)
  <2> TAKE k \in Inos
  <2>1. k \in S <=> inode[k].kind = "dir" /\ \E n \in Names : <<d, n>> \in NamesOf(dents, k)
    BY <1>1, SubdirsMember
  <2>2. k \in U <=> inode'[k].kind = "dir" /\ \E n \in Names : <<d, n>> \in NamesOf(dents', k)
    BY SubdirsMember
  <2> QED BY <2>1, <2>2, NamesMember
<1>3. \A k : k # i => (k \in U <=> k \in S)
  <2>1. S \subseteq Inos /\ U \subseteq Inos
    BY DEF Subdirs
  <2> HIDE DEF S, U
  <2> QED BY <1>2, <2>1
<1>4. IsFiniteSet(S) /\ IsFiniteSet(U)
  BY NamesFinite
<1> HIDE DEF S, U
<1>5. /\ Cardinality(S) \in Nat /\ Cardinality(U) \in Nat
      /\ Cardinality(U) = Cardinality(S) + Bit(i \in U) - Bit(i \in S)
  BY <1>3, <1>4, CountStep
<1>6. /\ Bit(i \in U) = Bit(IsDir(i) /\ \E n \in Names : HasName(dents', i, d, n))
      /\ Bit(i \in S) = Bit(IsDir(i) /\ \E n \in Names : HasName(dents, i, d, n))
  BY <1>2 DEF Bit, IsDir
<1> QED BY <1>5, <1>6 DEF S, U

\* What is known of an inode that no other operation is about
LEMMA OnlyActor ==
  ASSUME NEW t \in Threads, NEW k,
         \A u \in Threads \ {t} : op'[u] = op[u] /\ k \notin Targets(u)
  PROVE  /\ Ahead(k) <=> op[t].ino = k /\ op[t].pc \in {"metadata", "tmpfile", "crossed"}
         /\ Ahead(k)' <=> op'[t].ino = k /\ op'[t].pc \in {"metadata", "tmpfile", "crossed"}
         /\ Behind(k) <=> \/ op[t].ino = k /\ op[t].pc \in {"replaced", "moved"}
                          \/ op[t].old = k /\ op[t].pc = "crossed"
         /\ Behind(k)' <=> \/ op'[t].ino = k /\ op'[t].pc \in {"replaced", "moved"}
                           \/ op'[t].old = k /\ op'[t].pc = "crossed"
         /\ Losing(k) <=> \/ op[t].ino = k /\ op[t].pc = "settle"
                          \/ op[t].old = k /\ op[t].pc = "replaced"
         /\ Losing(k)' <=> \/ op'[t].ino = k /\ op'[t].pc = "settle"
                           \/ op'[t].old = k /\ op'[t].pc = "replaced"
         /\ (\E u \in Threads : op[u].ino = k /\ op[u].pc = "tmpfile")
              <=> op[t].ino = k /\ op[t].pc = "tmpfile"
         /\ (\E u \in Threads : op'[u].ino = k /\ op'[u].pc = "tmpfile")
              <=> op'[t].ino = k /\ op'[t].pc = "tmpfile"
         /\ (\E u \in Threads : k \in Targets(u)') <=> k \in Targets(t)'
<1>1. \A u \in Threads \ {t} :
         /\ op[u].ino = k => op[u].pc \notin {"metadata", "tmpfile", "crossed", "replaced", "moved", "settle"}
         /\ op[u].old = k => op[u].pc \notin {"crossed", "replaced"}
         /\ op'[u].ino = k => op'[u].pc \notin {"metadata", "tmpfile", "crossed", "replaced", "moved", "settle"}
         /\ op'[u].old = k => op'[u].pc \notin {"crossed", "replaced"}
  BY DEF Targets
<1>2. \A u \in Threads \ {t} : k \notin Targets(u)'
  BY DEF Targets
<1>3. \A u \in Threads : u = t \/ u \in Threads \ {t}
  OBVIOUS
<1>4. /\ Ahead(k) <=> op[t].ino = k /\ op[t].pc \in {"metadata", "tmpfile", "crossed"}
      /\ Ahead(k)' <=> op'[t].ino = k /\ op'[t].pc \in {"metadata", "tmpfile", "crossed"}
  BY <1>1, <1>3 DEF Ahead
<1>5. /\ Behind(k) <=> \/ op[t].ino = k /\ op[t].pc \in {"replaced", "moved"}
                       \/ op[t].old = k /\ op[t].pc = "crossed"
      /\ Behind(k)' <=> \/ op'[t].ino = k /\ op'[t].pc \in {"replaced", "moved"}
                        \/ op'[t].old = k /\ op'[t].pc = "crossed"
  BY <1>1, <1>3 DEF Behind
<1>6. /\ Losing(k) <=> \/ op[t].ino = k /\ op[t].pc = "settle"
                       \/ op[t].old = k /\ op[t].pc = "replaced"
      /\ Losing(k)' <=> \/ op'[t].ino = k /\ op'[t].pc = "settle"
                        \/ op'[t].old = k /\ op'[t].pc = "replaced"
  BY <1>1, <1>3 DEF Losing
<1> HIDE DEF Targets
<1> QED BY <1>1, <1>2, <1>3, <1>4, <1>5, <1>6

\* An operation that locks a directory is the only one that has an inode there twice.
LEMMA DoubledHeld ==
  ASSUME Inv, NEW t \in Threads, NEW k \in op[t].locks, \A u \in Threads \ {t} : op'[u] = op[u]
  PROVE  /\ Doubled(k) <=> DoubledBy(t, k)
         /\ Doubled(k)' <=> DoubledBy(t, k)'
<1>1. ASSUME NEW u \in Threads \ {t} PROVE ~DoubledBy(u, k) /\ ~DoubledBy(u, k)'
  <2>1. op[u].pc \in {"replaced", "moved", "crossed"} => op[u].dir \in op[u].locks
    BY DEF Inv, OpInv, RenameInv
  <2>2. op[t].locks \cap op[u].locks = {}
    BY Exclusive
  <2> QED BY <2>1, <2>2 DEF DoubledBy
<1> QED BY <1>1 DEF Doubled

LEMMA DoubledSame ==
  ASSUME Inv, NEW t \in Threads, NEW k \in Inos, \A u \in Threads \ {t} : op'[u] = op[u],
         \A j \in Inos : page[j].kind # "none" => inode'[j].kind = inode[j].kind,
         DoubledBy(t, k)' <=> DoubledBy(t, k)
  PROVE  Doubled(k)' <=> Doubled(k)
<1>1. ASSUME NEW u \in Threads \ {t} PROVE DoubledBy(u, k)' <=> DoubledBy(u, k)
  <2>1. op[u].pc \in {"replaced", "moved", "crossed"} => op[u].ino \in Inos /\ page[op[u].ino].kind # "none"
    <3>1. TypeInv /\ RenameInv(u)
      BY DEF Inv, OpInv
    <3>2. op[u].ino \in Inos /\ (op[u].pc # "idle" => op[u].ino \in Targets(u))
      BY <3>1, InvTypes
    <3>3. op[u].pc \in {"replaced", "moved", "crossed"} => \A j \in Targets(u) : page[j].kind # "none"
      BY <3>1 DEF RenameInv
    <3> QED BY <3>2, <3>3
  <2>2. op'[u] = op[u]
    OBVIOUS
  <2>3. op[u].pc \in {"replaced", "moved", "crossed"} => inode'[op[u].ino].kind = inode[op[u].ino].kind
    BY <2>1
  <2> QED BY <2>2, <2>3 DEF DoubledBy, IsDir
<1> QED BY <1>1 DEF Doubled

\* A directory that keeps its entries keeps its link count.
LEMMA DirKept ==
  ASSUME Inv, NEW t \in Threads, NEW k \in Inos, \A u \in Threads \ {t} : op'[u] = op[u],
         \A j \in Inos : page[j].kind # "none" => inode'[j].kind = inode[j].kind,
         DoubledBy(t, k)' <=> DoubledBy(t, k),
         dents'[k] = dents[k], inode'[k].nlink = inode[k].nlink, LiveDir(k)
  PROVE  inode'[k].nlink = 2 + Cardinality(Subdirs(dents', inode', k)) + Bit(Doubled(k)')
<1>1. \A e \in dents[k] : e.ino \in Inos => inode'[e.ino].kind = inode[e.ino].kind
  <2>1. dents \in Directories
    BY DEF Inv, TypeInv, Directories
  <2>2. \A e \in dents[k] : e.ino \in Inos => page[e.ino].kind # "none"
    BY <2>1, HasNameNamed, NamedInode
  <2> QED BY <2>2
<1>2. Subdirs(dents', inode', k) = Subdirs(dents, inode, k)
  BY <1>1 DEF Subdirs
<1>3. Doubled(k)' <=> Doubled(k)
  BY DoubledSame
<1> QED BY <1>2, <1>3 DEF Inv, LinkInv, Bit

LEMMA RemoveStep ==
  ASSUME TypeInv, NEW i \in Inos, RemoveOrphan(i)
  PROVE  /\ orphans' \subseteq Inos /\ nOrphans' \in Int /\ nOrphans' <= MaxOrphans
         /\ i \notin orphans' /\ \A k \in Inos \ {i} : k \in orphans' <=> k \in orphans
         /\ Cardinality(orphans') \in Nat
         /\ nOrphans' - Cardinality(orphans') = nOrphans - Cardinality(orphans)
<1>1. /\ orphans \subseteq Inos /\ nOrphans \in Int /\ nOrphans <= MaxOrphans /\ MaxOrphans \in Nat
      /\ IsFiniteSet(orphans) /\ Cardinality(orphans) \in Nat
  BY OrphansFinite, NamespaceAssumption DEF TypeInv
<1>2. orphans' = orphans \ {i} /\ nOrphans' = nOrphans - Bit(i \in orphans)
  BY <1>1 DEF RemoveOrphan, Bit
<1>3. Cardinality(orphans') \in Nat /\ Cardinality(orphans') = Cardinality(orphans) - Bit(i \in orphans)
  <2>1. IsFiniteSet(orphans')
    BY <1>1, <1>2, FS_Subset
  <2>2. \A y : y # i => (y \in orphans' <=> y \in orphans)
    BY <1>2
  <2>3. Cardinality(orphans') \in Nat
        /\ Cardinality(orphans') = Cardinality(orphans) + Bit(i \in orphans') - Bit(i \in orphans)
    BY <1>1, <2>1, <2>2, CountStep
  <2> QED BY <1>1, <1>2, <2>3 DEF Bit
<1> QED BY <1>1, <1>2, <1>3 DEF Bit

LEMMA SettleStep ==
  ASSUME TypeInv, NEW i \in Inos, i \notin orphans, SettleOrphan(i)
  PROVE  /\ orphans' \subseteq Inos /\ nOrphans' \in Int /\ nOrphans' <= MaxOrphans
         /\ i \in orphans' <=> inode[i].nlink = 0
         /\ \A k \in Inos \ {i} : k \in orphans' <=> k \in orphans
         /\ Cardinality(orphans') \in Nat
         /\ nOrphans' - Cardinality(orphans') = nOrphans - Cardinality(orphans) - 1
<1>1. /\ orphans \subseteq Inos /\ nOrphans \in Int /\ nOrphans <= MaxOrphans /\ MaxOrphans \in Nat
      /\ IsFiniteSet(orphans) /\ Cardinality(orphans) \in Nat
  BY OrphansFinite, NamespaceAssumption DEF TypeInv
<1>2. CASE inode[i].nlink = 0
  <2>1. orphans' = orphans \cup {i} /\ nOrphans' = nOrphans
    BY <1>2 DEF SettleOrphan
  <2>2. Cardinality(orphans') = Cardinality(orphans) + 1
    BY <1>1, <2>1, FS_AddElement
  <2> QED BY <1>1, <1>2, <2>1, <2>2
<1>3. CASE inode[i].nlink # 0
  BY <1>1, <1>3 DEF SettleOrphan
<1> QED BY <1>2, <1>3

\* A step of one operation that keeps every ".." and adds no directory
LEMMA CycleOthers ==
  ASSUME Inv, NEW t \in Threads, \A u \in Threads \ {t} : op'[u] = op[u],
         parent' = parent, \A k \in Inos : LiveDir(k)' => LiveDir(k),
         CrossDir(t)' => CrossDir(t) /\ op'[t].ino = op[t].ino /\ op'[t].toDir = op[t].toDir
                         /\ op[t].pc \in {"replace", "replaced", "add", "moved", "exchange"}
                         /\ op'[t].pc # "exchange"
  PROVE  CycleInv'
<1>1. ASSUME NEW u \in Threads, CrossDir(u)'
      PROVE  \/ op'[u].pc \notin {"replace", "replaced", "add", "moved", "exchange"}
             \/ /\ op'[u].ino \notin Above(op'[u].toDir)
                /\ op'[u].pc = "exchange" => op'[u].old \notin Above(op'[u].dir)
  <2>1. CASE u = t
    BY <1>1, <2>1 DEF Inv, CycleInv
  <2>2. CASE u # t
    <3>1. op'[u] = op[u] /\ CrossDir(u)
      BY <1>1, <2>2 DEF CrossDir
    <3> QED BY <3>1 DEF Inv, CycleInv
  <2> QED BY <2>1, <2>2
<1> QED BY <1>1, CycleKept

-----------------------------------------------------------------------------
(* The steps of f2fs_add_link().                                           *)

LEMMA AddLinkMetadataKeeps ==
  ASSUME Inv, NEW t \in Threads, AddLinkMetadata(t)
  PROVE  Inv'
<1>0. PICK i \in Inos, d \in Inos, n \in {op[t].name} : i = op[t].ino /\ d = op[t].dir /\ n = op[t].name
  BY InvTypes DEF Inv
<1> DEFINE S == IF IncLink(t) THEN {i} ELSE {}
<1>1. /\ op[t].pc = "new"
      /\ CanAdd(dents[d], inode[d].depth, hint[d], n)
      /\ IF IncLink(t) /\ inode[i].nlink = 0 THEN RemoveOrphan(i) ELSE UNCHANGED orphanVars
      /\ AddLinks(S, {}) /\ Goto(t, "metadata")
      /\ page' = page /\ dents' = dents /\ parent' = parent /\ hint' = hint /\ open' = open /\ saved' = saved
  BY <1>0 DEF AddLinkMetadata, dirVars
<1>2. /\ op[t].what \in {"create", "link"} /\ n \in Names
      /\ d \in op[t].locks /\ LiveDir(d) /\ ~Taken(d, n)
      /\ op[t].what = "create" =>
           page[i] = NoInode /\ inode[i].kind # "none" /\ inode[i].nlink = 1
      /\ op[t].what = "link" => page[i].kind = "file" /\ i \in op[t].locks
  BY <1>0, <1>1 DEF Inv, OpInv, AddInv
<1>3. /\ Targets(t) = {i} /\ i # Root /\ i # d /\ i # op[t].toDir
      /\ TypeInv /\ PageInv(i) /\ OrphanInv(i) /\ LinkInv(i) /\ inode[i].nlink \in Int
  BY <1>0, <1>1, InvTypes DEF Inv, OpInv, Targets
<1>4. /\ op' \in [Threads -> OpTypes] /\ ops' = ops
      /\ \A u \in Threads \ {t} : op'[u] = op[u]
      /\ op'[t].pc = "metadata" /\ op'[t].what = op[t].what /\ op'[t].locks = op[t].locks
      /\ op'[t].dir = d /\ op'[t].name = n /\ op'[t].ino = i
      /\ op'[t].toDir = op[t].toDir
  BY <1>0, <1>1, <1>3, GotoStep DEF Pcs
<1>5. /\ inode' \in [Inos -> AnyInodes]
      /\ \A k \in Inos : inode'[k].kind = inode[k].kind /\ inode'[k].depth = inode[k].depth
      /\ \A k \in Inos \ {i} : inode'[k] = inode[k]
      /\ inode'[i].nlink = inode[i].nlink + Bit(IncLink(t))
  BY <1>0, <1>1, <1>3, AddLinksStep DEF Bit
<1>6. IncLink(t) <=> op[t].what = "link" \/ inode[i].kind = "dir"
  BY <1>0, <1>2 DEF IncLink, IsDir
<1> HIDE DEF S
<1>7. /\ \A u \in Threads \ {t} : i \notin Targets(u)
      /\ Targets(t)' = {i} /\ ~CrossDir(t)' /\ \A k : ~DoubledBy(t, k) /\ ~DoubledBy(t, k)'
  BY <1>1, <1>2, <1>3, <1>4, Exclusive DEF Targets, CrossDir, DoubledBy
<1>8. Ahead(i)' /\ ~Ahead(i) /\ ~Behind(i) /\ ~Behind(i)' /\ ~Losing(i) /\ ~Losing(i)'
      /\ ~\E u \in Threads : op[u].ino = i /\ op[u].pc = "tmpfile"
  <2>1. \A u \in Threads \ {t} : op'[u] = op[u] /\ i \notin Targets(u)
    BY <1>4, <1>7
  <2>2. op[t].pc = "new" /\ op'[t].pc = "metadata" /\ op'[t].ino = i
    BY <1>1, <1>4
  <2> QED BY <2>1, <2>2, OnlyActor
<1>9. page[i].kind \in {"none", "file"} /\ ~LiveDir(i) /\ ~LiveDir(i)' /\ dents[i] = {}
  BY <1>1, <1>2, <1>3 DEF LiveDir, PageInv, NoInode
<1>10. /\ orphans' \subseteq Inos /\ nOrphans' \in Int /\ nOrphans' <= MaxOrphans
       /\ i \notin orphans' /\ \A k \in Inos \ {i} : k \in orphans' <=> k \in orphans
       /\ nOrphans' - Cardinality(orphans') = nOrphans - Cardinality(orphans)
       /\ Cardinality(orphans') \in Nat
  <2>1. CASE IncLink(t) /\ inode[i].nlink = 0
    BY <1>1, <1>3, <2>1, RemoveStep
  <2>2. CASE ~(IncLink(t) /\ inode[i].nlink = 0)
    <3>1. i \notin orphans
      BY <1>2, <1>3, <1>6, <1>8, <2>2 DEF PageInv, OrphanInv, NoInode
    <3>2. orphans' = orphans /\ nOrphans' = nOrphans
      BY <1>1, <2>2 DEF orphanVars
    <3> QED BY <1>3, <3>1, <3>2, OrphansFinite DEF TypeInv
  <2> QED BY <2>1, <2>2
<1>11. \A k \in Inos \ {i} : LiveDir(k)' <=> LiveDir(k)
  BY <1>1, <1>5 DEF LiveDir
<1>12. Frame({t}, {i}, {})
  <2>1. \A k \in Inos : LiveDir(k) =>
           LiveDir(k)' /\ dents'[k] = dents[k] /\ hint'[k] = hint[k] /\ inode'[k].depth = inode[k].depth
    BY <1>1, <1>5, <1>9, <1>11
  <2>2. \A k \in Inos \ {i} : Kept(k, {})
    BY <1>1, <1>5, <1>10 DEF Kept
  <2> HIDE DEF Targets, LiveDir
  <2>3. /\ {} \subseteq op[t].locks /\ op'[t].locks \subseteq op[t].locks
        /\ Targets(t) = {i} /\ Targets(t)' \subseteq Targets(t) /\ (CrossDir(t)' => CrossDir(t))
        /\ \A u \in Threads \ {t} : op'[u] = op[u]
        /\ \A k \in Inos \ {} : DoubledBy(t, k)' <=> DoubledBy(t, k)
    BY <1>3, <1>4, <1>7
  <2>4. /\ \A k \in Inos : NamesOf(dents, k) # {} => inode'[k].kind = inode[k].kind
        /\ \A k \in Inos \ Targets(t) : Kept(k, {})
    BY <1>5, <2>2, <2>3
  <2>5. Frame({t}, Targets(t), {})
    BY <2>1, <2>3, <2>4, MoveFrame
  <2> QED BY <2>3, <2>5
<1>13. TypeInv'
  BY <1>1, <1>3, <1>4, <1>5, <1>10 DEF TypeInv
<1>14. OpInv(t)'
  <2>1. AddInv(t)'
    <3>1. LiveDir(d)' /\ ~Taken(d, n)' /\ inode'[d] = inode[d]
      BY <1>1, <1>2, <1>3, <1>4, <1>5, <1>11 DEF Taken
    <3>2. CanAdd(dents'[d], inode'[d].depth, hint'[d], n)
      BY <1>1, <3>1
    <3>3. op[t].what = "create" =>
            /\ page'[i] = NoInode /\ inode'[i].kind # "none"
            /\ inode'[i].nlink = IF inode'[i].kind = "dir" THEN 2 ELSE 1
      BY <1>1, <1>2, <1>3, <1>5, <1>6 DEF Bit
    <3> QED BY <1>1, <1>2, <1>4, <1>10, <3>1, <3>2, <3>3 DEF AddInv, LiveDir, Taken, IsDir
  <2>2. UnlinkInv(t)' /\ RenameInv(t)'
    BY <1>4 DEF UnlinkInv, RenameInv
  <2> QED BY <1>3, <1>4, <1>7, <2>1, <2>2 DEF OpInv
<1>15. PageInv(i)' /\ OrphanInv(i)' /\ LinkInv(i)'
  <2>1. inode'[i].nlink >= 0 /\ (op[t].what = "link" => inode'[i].nlink = inode[i].nlink + 1)
    BY <1>3, <1>5, <1>6 DEF PageInv, Bit
  <2>2. PageInv(i)'
    BY <1>1, <1>2, <1>3, <1>5, <1>8, <1>9, <1>10, <2>1 DEF PageInv, NoInode
  <2>3. OrphanInv(i)'
    <3>1. page[i].kind # "none" => inode'[i].nlink # 0
      BY <1>2, <1>3, <2>1 DEF PageInv, NoInode
    <3> QED BY <1>1, <1>10, <3>1 DEF OrphanInv
  <2>4. LinkInv(i)'
    <3>1. page[i].kind = "file" => inode'[i].nlink = Cardinality(NamesOf(dents, i)) + Bit(Ahead(i)') - Bit(Behind(i)')
      <4>1. Cardinality(NamesOf(dents, i)) \in Nat
        BY NamesFinite
      <4>2. page[i].kind = "file" => op[t].what = "link"
        BY <1>2 DEF NoInode
      <4> QED BY <1>3, <1>8, <2>1, <4>1, <4>2 DEF LinkInv, Bit
    <3> QED BY <1>1, <1>9, <3>1 DEF LinkInv
  <2> QED BY <2>2, <2>3, <2>4
<1>16. DirsFound'
  BY <1>1, <1>5 DEF Inv, DirsFound
<1>17. CycleInv'
  BY <1>1, <1>4, <1>7, <1>9, <1>11, CycleOthers
<1>18. OrphanCount'
  <2>1. Cardinality(Reserving') = Cardinality(Reserving) /\ Cardinality(Reserving) \in Nat
    BY <1>1, <1>4, ReservingStep
  <2>2. nOrphans = Cardinality(orphans) + Cardinality(Reserving) /\ Cardinality(orphans) \in Nat
    BY OrphansFinite DEF Inv, OrphanCount
  <2> QED BY <1>10, <2>1, <2>2 DEF OrphanCount
<1>19. SavedInv'
  BY <1>1 DEF Inv, SavedInv, SavedTreeConsistent
<1>20. \A u \in {t} : OpInv(u)'
  BY <1>14
<1>21. \A k \in {i} : PageInv(k)' /\ OrphanInv(k)' /\ LinkInv(k)'
  BY <1>15
<1> QED BY <1>12, <1>13, <1>16, <1>17, <1>18, <1>19, <1>20, <1>21, Assemble

\* A new directory is above no other one.
LEMMA CycleAdded ==
  ASSUME Inv, NEW t \in Threads, \A u \in Threads \ {t} : op'[u] = op[u], ~CrossDir(t)',
         NEW i \in Inos, NEW d \in Inos, LiveDir(d), ~LiveDir(i),
         parent'[i] = d, \A k \in Inos \ {i} : parent'[k] = parent[k],
         \A k \in Inos \ {i} : LiveDir(k)' => LiveDir(k)
  PROVE  CycleInv'
<1>1. NoCycle(parent', {k \in Inos : LiveDir(k)'})
  <2> SUFFICES ASSUME NEW S \in SUBSET {k \in Inos : LiveDir(k)'}, S # {}, Root \notin S,
                      \A k \in S : parent'[k] \in S
               PROVE  FALSE
    BY DEF NoCycle
  <2> DEFINE U == S \ {i}
  <2>1. U # {}
    <3>1. i \in S => d \in S
      OBVIOUS
    <3> QED BY <3>1
  <2>2. \A k \in U : LiveDir(k) /\ k \in Inos
    OBVIOUS
  <2>3. \A k \in U : parent[k] \in U
    <3> TAKE k \in U
    <3>1. LiveDir(parent[k])
      BY <2>2, ParentLive
    <3> QED BY <2>2, <3>1
  <2>4. U \in SUBSET {k \in Inos : LiveDir(k)} /\ Root \notin U
    BY <2>2
  <2> HIDE DEF U
  <2> QED BY <2>1, <2>3, <2>4 DEF Inv, CycleInv, NoCycle
<1>2. ASSUME NEW u \in Threads, CrossDir(u)',
             op'[u].pc \in {"replace", "replaced", "add", "moved", "exchange"}
      PROVE  /\ (op[u].ino \notin Above(op[u].toDir))'
             /\ op'[u].pc = "exchange" => (op[u].old \notin Above(op[u].dir))'
  <2>1. op'[u] = op[u] /\ CrossDir(u)
    BY <1>2 DEF CrossDir
  <2>2. PICK e \in Inos, f \in Inos : e = op[u].toDir /\ f = op[u].dir
    BY InvTypes DEF Inv
  <2>3. LiveDir(e) /\ LiveDir(f)
    <3>1. RenameInv(u)
      BY DEF Inv, OpInv
    <3> QED BY <1>2, <2>1, <2>2, <3>1 DEF RenameInv
  <2>4. ASSUME NEW x \in Inos, LiveDir(x) PROVE Above(x)' \subseteq Above(x)
    <3>1. \A a \in Above(x) : a \in Inos /\ LiveDir(a)
      BY <2>4, AboveLive
    <3>2. \A a \in Above(x) : parent'[a] = parent[a]
      BY <3>1
    <3> QED BY <3>2, AboveSame DEF Inv
  <2>5. Above(e)' \subseteq Above(e) /\ Above(f)' \subseteq Above(f)
    BY <2>3, <2>4
  <2>6. op[u].ino \notin Above(e) /\ (op[u].pc = "exchange" => op[u].old \notin Above(f))
    BY <1>2, <2>1, <2>2 DEF Inv, CycleInv
  <2>7. op'[u].toDir = e /\ op'[u].dir = f
    BY <2>1, <2>2
  <2> QED BY <2>1, <2>5, <2>6, <2>7
<1> QED BY <1>1, <1>2 DEF CycleInv

LEMMA AddLinkEntryKeeps ==
  ASSUME Inv, NEW t \in Threads, AddLinkEntry(t)
  PROVE  Inv'
<1>0. PICK i \in Inos, d \in Inos, n \in {op[t].name} : i = op[t].ino /\ d = op[t].dir /\ n = op[t].name
  BY InvTypes DEF Inv
<1>00. PICK new \in BOOLEAN : new <=> op[t].what = "create"
  OBVIOUS
<1>1. /\ op[t].pc = "metadata"
      /\ AddEntry(d, n, i, new)
      /\ parent' = IF IsDir(i) THEN [parent EXCEPT ![i] = d] ELSE parent
      /\ UpdateInodePages({i, d})
      /\ open' = [open EXCEPT ![i] = IF @ = "tmpfile" THEN "yes" ELSE @]
      /\ Finish(t)
      /\ orphans' = orphans /\ nOrphans' = nOrphans /\ saved' = saved
  <2>1. new = (op[t].what = "create")
    BY <1>00
  <2> QED BY <1>0, <2>1 DEF AddLinkEntry, orphanVars
<1>2. /\ op[t].what \in {"create", "link"} /\ n \in Names
      /\ d \in op[t].locks /\ LiveDir(d) /\ ~Taken(d, n)
      /\ new => page[i] = NoInode /\ inode[i].kind # "none"
                /\ inode[i].nlink = IF IsDir(i) THEN 2 ELSE 1
      /\ ~new => page[i].kind = "file"
      /\ i \notin orphans /\ CanAdd(dents[d], inode[d].depth, hint[d], n)
  BY <1>0, <1>00, <1>1 DEF Inv, OpInv, AddInv
<1>3. /\ Targets(t) = {i} /\ i # Root
      /\ TypeInv /\ PageInv(i) /\ OrphanInv(i) /\ LinkInv(i) /\ inode[i].nlink \in Int
      /\ PageInv(d) /\ LinkInv(d) /\ inode[d].nlink \in Int
  BY <1>0, <1>1, InvTypes DEF Inv, OpInv, Targets
<1>4. /\ op' \in [Threads -> OpTypes] /\ ops' = ops
      /\ \A u \in Threads \ {t} : op'[u] = op[u]
      /\ op'[t] = Idle /\ op'[t].pc = "idle"
  BY <1>1, <1>3, FinishStep
<1>5. /\ dents' \in Directories
      /\ inode' \in [Inos -> AnyInodes]
      /\ hint' \in [Inos -> Hints]
      /\ \A k \in Inos \ {d} : dents'[k] = dents[k] /\ inode'[k] = inode[k] /\ hint'[k] = hint[k]
      /\ inode'[d].kind = inode[d].kind
      /\ inode'[d].nlink = inode[d].nlink + Bit(new /\ IsDir(i))
      /\ \A k, f \in Inos, m \in Names :
           HasName(dents', k, f, m) <=> HasName(dents, k, f, m) \/ (k = i /\ f = d /\ m = n)
      /\ \A k \in Inos : NamesOf(dents', k) =
           IF k = i THEN NamesOf(dents, k) \cup {<<d, n>>} ELSE NamesOf(dents, k)
      /\ EntriesFound(dents'[d], inode'[d].depth)
  <2>1. DirsFound
    BY DEF Inv
  <2> QED BY <1>1, <1>2, <1>3, <2>1, AddStep
<1>6. /\ page' \in [Inos -> AnyInodes]
      /\ \A k \in Inos : page'[k] = IF k \in {i, d} THEN inode'[k] ELSE page[k]
  BY <1>1, <1>3, <1>5, UpdateStep
<1>7. /\ \A u \in Threads \ {t} : i \notin Targets(u)
      /\ Targets(t)' = {} /\ ~CrossDir(t)' /\ \A k : ~DoubledBy(t, k) /\ ~DoubledBy(t, k)'
      /\ op'[t].locks = {}
  <2>1. \A u \in Threads \ {t} : i \notin Targets(u)
    BY <1>3, Exclusive
  <2>2. op'[t].locks = {} /\ op'[t].what = "none"
    BY <1>4 DEF Idle
  <2> QED BY <1>1, <1>4, <2>1, <2>2 DEF Targets, CrossDir, DoubledBy
<1>8. ~Ahead(i)' /\ Ahead(i) /\ ~Behind(i) /\ ~Behind(i)' /\ ~Losing(i) /\ ~Losing(i)'
      /\ ~\E u \in Threads : op'[u].ino = i /\ op'[u].pc = "tmpfile"
  <2>1. \A u \in Threads \ {t} : op'[u] = op[u] /\ i \notin Targets(u)
    BY <1>4, <1>7
  <2>2. op[t].pc = "metadata" /\ op'[t].pc = "idle" /\ op[t].ino = i
    BY <1>0, <1>1, <1>4
  <2> QED BY <2>1, <2>2, OnlyActor
<1>9. /\ ~LiveDir(i) /\ i # d /\ dents[i] = {} /\ inode[i].kind \in {"file", "dir"}
      /\ IsDir(i) => new /\ NamesOf(dents, i) = {}
      /\ new => NamesOf(dents, i) = {}
      /\ ~IsDir(i) => inode[i].kind = "file"
  <2>1. inode[i].kind \in {"none", "file", "dir"}
    BY <1>3 DEF TypeInv, AnyInodes
  <2>2. ~LiveDir(i) /\ i # d
    BY <1>2 DEF LiveDir, NoInode
  <2>3. page[i].kind # "none" => page[i].kind = inode[i].kind
    BY <1>3 DEF PageInv
  <2> QED BY <1>2, <1>3, <2>1, <2>2, <2>3 DEF PageInv, NoInode, IsDir
<1>10. inode'[i] = inode[i] /\ page'[i] = inode[i] /\ dents'[i] = {} /\ page'[d] = inode'[d]
  BY <1>5, <1>6, <1>9
<1>11. \A k \in Inos : inode'[k].kind = inode[k].kind
  BY <1>5
<1>12. inode'[d].nlink = 2 + Cardinality(Subdirs(dents', inode', d)) + Bit(Doubled(d)')
  <2>1. inode[d].nlink = 2 + Cardinality(Subdirs(dents, inode, d)) + Bit(Doubled(d))
    BY <1>2, <1>3 DEF LinkInv
  <2>2. ~Doubled(d) /\ ~Doubled(d)'
    BY <1>2, <1>4, <1>7, DoubledHeld
  <2>3. \A k \in Inos \ {i}, m \in Names : HasName(dents', k, d, m) <=> HasName(dents, k, d, m)
    BY <1>5
  <2>4. /\ Cardinality(Subdirs(dents, inode, d)) \in Nat /\ Cardinality(Subdirs(dents', inode', d)) \in Nat
        /\ Cardinality(Subdirs(dents', inode', d)) = Cardinality(Subdirs(dents, inode, d))
              + Bit(IsDir(i) /\ \E m \in Names : HasName(dents', i, d, m))
              - Bit(IsDir(i) /\ \E m \in Names : HasName(dents, i, d, m))
    BY <1>3, <1>5, <1>11, <2>3, SubdirsStep
  <2>5. IsDir(i) => (\E m \in Names : HasName(dents', i, d, m)) /\ ~\E m \in Names : HasName(dents, i, d, m)
    <3>1. \E m \in Names : HasName(dents', i, d, m)
      BY <1>2, <1>5
    <3> QED BY <3>1, <1>9, NamesMember
  <2>6. Bit(new /\ IsDir(i)) = Bit(IsDir(i))
    BY <1>9 DEF Bit
  <2> QED BY <1>3, <1>5, <2>1, <2>2, <2>4, <2>5, <2>6 DEF Bit
<1>13. LiveDir(d)' /\ inode'[d].nlink # 0
  <2>1. inode'[d].nlink # 0
    BY <1>12, NamesFinite DEF Bit
  <2>2. inode[d].kind = "dir"
    BY <1>2, <1>3 DEF LiveDir, PageInv
  <2> QED BY <1>5, <1>10, <2>1, <2>2 DEF LiveDir
<1>14. \A k \in Inos \ {i} : LiveDir(k)' <=> LiveDir(k)
  <2>1. \A k \in Inos \ {i, d} : LiveDir(k)' <=> LiveDir(k)
    BY <1>5, <1>6 DEF LiveDir
  <2> QED BY <1>2, <1>13, <2>1
<1>15. \A k \in Inos \ {i} : parent'[k] = parent[k] /\ open'[k] = open[k]
  BY <1>1, <1>3 DEF TypeInv
<1>16. Frame({t}, {i}, {d})
  <2>1. \A k \in Inos \ {d} : LiveDir(k) =>
           LiveDir(k)' /\ dents'[k] = dents[k] /\ hint'[k] = hint[k] /\ inode'[k].depth = inode[k].depth
    BY <1>5, <1>9, <1>14
  <2>2. \A k \in Inos \ {i} : Kept(k, {d})
    <3>1. page[d].kind # "none"
      BY <1>2 DEF LiveDir
    <3> QED BY <1>1, <1>5, <1>6, <1>15, <3>1 DEF Kept
  <2>3. Counted(d)'
    BY <1>12, <1>13 DEF Counted, Bit
  <2> HIDE DEF Targets, LiveDir
  <2>4. /\ {d} \subseteq op[t].locks /\ op'[t].locks \subseteq op[t].locks
        /\ Targets(t) = {i} /\ Targets(t)' \subseteq Targets(t) /\ (CrossDir(t)' => CrossDir(t))
        /\ \A u \in Threads \ {t} : op'[u] = op[u]
        /\ \A k \in Inos \ {d} : DoubledBy(t, k)' <=> DoubledBy(t, k)
    BY <1>2, <1>3, <1>4, <1>7
  <2>5. /\ \A k \in Inos : NamesOf(dents, k) # {} => inode'[k].kind = inode[k].kind
        /\ \A k \in Inos \ Targets(t) : Kept(k, {d})
        /\ \A k \in {d} : k \in Targets(t) \/ (LiveDir(k) /\ Counted(k)')
    BY <1>2, <1>11, <2>2, <2>3, <2>4
  <2>6. Frame({t}, Targets(t), {d})
    BY <2>1, <2>4, <2>5, MoveFrame
  <2> QED BY <2>4, <2>6
<1>17. TypeInv'
  <2>1. dents' \in [Inos -> SUBSET Entries] /\ hint' \in [Inos -> [hash : Nat, level : 0..MaxDepth-1]]
    BY <1>5 DEF Directories, Hints
  <2>2. parent' \in [Inos -> Inos] /\ open' \in [Inos -> {"no", "yes", "tmpfile"}]
    BY <1>1, <1>3 DEF TypeInv
  <2> QED BY <1>1, <1>3, <1>4, <1>5, <1>6, <2>1, <2>2 DEF TypeInv
<1>18. OpInv(t)'
  <2>1. AddInv(t)' /\ UnlinkInv(t)' /\ RenameInv(t)'
    BY <1>4 DEF AddInv, UnlinkInv, RenameInv
  <2> QED BY <1>4, <1>7, <2>1 DEF OpInv
<1>19. PageInv(i)' /\ OrphanInv(i)' /\ LinkInv(i)'
  <2>1. Cardinality(NamesOf(dents, i)) \in Nat
        /\ Cardinality(NamesOf(dents', i)) = Cardinality(NamesOf(dents, i)) + 1
    <3>1. <<d, n>> \notin NamesOf(dents, i)
      BY <1>2, NamesMember, EntryByName DEF Inv
    <3>2. NamesOf(dents', i) = NamesOf(dents, i) \cup {<<d, n>>}
      BY <1>5
    <3> QED BY <3>1, <3>2, NamesFinite, FS_AddElement
  <2>2. ~IsDir(i) => inode[i].nlink = Cardinality(NamesOf(dents, i)) + 1
    <3>1. CASE new
      <4>1. Cardinality(NamesOf(dents, i)) = 0
        BY <3>1, <1>9, FS_EmptySet
      <4> QED BY <3>1, <1>2, <4>1
    <3>2. CASE ~new
      BY <3>2, <1>2, <1>3, <1>8, <2>1 DEF LinkInv, Bit
    <3> QED BY <3>1, <3>2
  <2>3. inode[i].nlink > 0
    BY <1>2, <1>3, <1>9, <2>1, <2>2
  <2>4. PageInv(i)'
    BY <1>3, <1>9, <1>10, <2>3 DEF PageInv
  <2>5. OrphanInv(i)'
    BY <1>1, <1>2, <1>10, <2>3 DEF OrphanInv
  <2>6. LinkInv(i)'
    <3>1. page'[i].kind = "file" =>
            inode'[i].nlink = Cardinality(NamesOf(dents', i)) + Bit(Ahead(i)') - Bit(Behind(i)')
      BY <1>8, <1>10, <2>1, <2>2 DEF Bit, IsDir
    <3>2. page'[i].kind = "dir" =>
            inode'[i].nlink = 2 + Cardinality(Subdirs(dents', inode', i)) + Bit(Doubled(i)')
      <4>1. Cardinality(Subdirs(dents', inode', i)) = 0
        <5>1. Subdirs(dents', inode', i) = {}
          BY <1>10 DEF Subdirs
        <5> QED BY <5>1, FS_EmptySet
      <4>2. ~Doubled(i)'
        <5>1. ASSUME NEW u \in Threads \ {t} PROVE ~DoubledBy(u, i)'
          <6>1. op[u].pc \in {"replaced", "moved", "crossed"} => LiveDir(op[u].dir)
            BY DEF Inv, OpInv, RenameInv
          <6> QED BY <1>4, <1>9, <6>1 DEF DoubledBy, LiveDir
        <5> QED BY <5>1, <1>7 DEF Doubled
      <4> QED BY <1>2, <1>9, <1>10, <4>1, <4>2 DEF Bit, IsDir
    <3>3. page'[i].kind = "dir" => NamesOf(dents', i) = {<<parent'[i], n>>}
      <4>1. IsDir(i) => parent'[i] = d
        BY <1>1, <1>3 DEF TypeInv
      <4>2. IsDir(i) => NamesOf(dents', i) = {<<d, n>>}
        BY <1>5, <1>9
      <4> QED BY <1>10, <4>1, <4>2 DEF IsDir
    <3> QED BY <1>2, <1>10, <2>3, <3>1, <3>2, <3>3 DEF LinkInv, LiveDir
  <2> QED BY <2>4, <2>5, <2>6
<1>20. DirsFound'
  <2> SUFFICES ASSUME NEW k \in Inos PROVE EntriesFound(dents'[k], inode'[k].depth)
    BY DEF DirsFound
  <2>1. EntriesFound(dents[k], inode[k].depth)
    BY DEF Inv, DirsFound
  <2> QED BY <1>5, <2>1
<1>21. CycleInv'
  <2>1. CASE IsDir(i)
    <3>1. parent'[i] = d
      BY <1>1, <1>3, <2>1 DEF TypeInv
    <3> QED BY <1>2, <1>4, <1>7, <1>9, <1>14, <1>15, <3>1, CycleAdded
  <2>2. CASE ~IsDir(i)
    <3>1. parent' = parent
      BY <1>1, <2>2
    <3>2. ~LiveDir(i)'
      BY <1>9, <1>10, <2>2 DEF LiveDir, IsDir
    <3> QED BY <1>4, <1>7, <1>14, <3>1, <3>2, CycleOthers
  <2> QED BY <2>1, <2>2
<1>22. OrphanCount'
  <2>1. Cardinality(Reserving') = Cardinality(Reserving)
    BY <1>1, <1>4, ReservingStep
  <2> QED BY <1>1, <2>1 DEF Inv, OrphanCount
<1>23. SavedInv'
  BY <1>1 DEF Inv, SavedInv, SavedTreeConsistent
<1>24. \A u \in {t} : OpInv(u)'
  BY <1>18
<1>25. \A k \in {i} : PageInv(k)' /\ OrphanInv(k)' /\ LinkInv(k)'
  BY <1>19
<1> QED BY <1>16, <1>17, <1>20, <1>21, <1>22, <1>23, <1>24, <1>25, Assemble

\* An operation that begins with a new inode
LEMMA BeginNew ==
  ASSUME Inv, NEW t \in Threads, NEW o \in OpTypes, MayBegin(t), Begin(t, o),
         o.pc \in {"new", "acquired"}, o.what # "rename", Unheld(o.locks),
         NEW i \in Inos, i = o.ino, FreeIno(i), i \notin {o.dir, o.toDir},
         NEW kind \in {"file", "dir"}, inode' = [inode EXCEPT ![i] = NewInode(kind)],
         UNCHANGED <<page, dirVars, orphans, open, saved>>,
         IF o.pc = "acquired" THEN AcquireOrphan ELSE nOrphans' = nOrphans,
         AddInv(t)'
  PROVE  Inv'
<1>1. /\ op' \in [Threads -> OpTypes] /\ ops' \in 0..MaxOps
      /\ \A u \in Threads \ {t} : op'[u] = op[u]
      /\ op[t] = Idle /\ op[t].pc = "idle" /\ op'[t] = o
  BY BeginStep DEF Inv
<1>2. page' = page /\ dents' = dents /\ parent' = parent /\ hint' = hint
      /\ orphans' = orphans /\ open' = open /\ saved' = saved
  BY DEF dirVars
<1>3. /\ inode[i].kind = "none" /\ page[i].kind = "none" /\ NamesOf(dents, i) = {} /\ dents[i] = {}
      /\ page[i] = NoInode /\ open[i] = "no" /\ i \notin orphans /\ parent[i] = Root
  <2>1. inode[i].kind = "none"
    BY DEF FreeIno, NoInode
  <2> QED BY <2>1 DEF Inv, PageInv
<1>4. /\ inode' \in [Inos -> AnyInodes] /\ inode'[i] = NewInode(kind)
      /\ inode'[i].kind = kind /\ inode'[i].nlink = 1
      /\ \A k \in Inos \ {i} : inode'[k] = inode[k]
  <2>1. NewInode(kind) \in AnyInodes /\ NewInode(kind).kind = kind /\ NewInode(kind).nlink = 1
    BY DirectoryAssumption DEF NewInode, AnyInodes
  <2>2. inode \in [Inos -> AnyInodes]
    BY DEF Inv, TypeInv
  <2> HIDE DEF NewInode
  <2> QED BY <2>1, <2>2
<1>5. \A u \in Threads : i \notin Targets(u)
  BY NotBusy DEF FreeIno
<1>6. Targets(t)' = {i} /\ ~CrossDir(t)' /\ i # Root
  BY <1>1, <1>3 DEF Targets, CrossDir, Inv, RootInv, LiveDir
<1>7. Frame({t}, {i}, {})
  <2>1. \A k \in {i} : /\ NamesOf(dents, k) # {} => inode'[k].kind = inode[k].kind
                       /\ LiveDir(k) => inode'[k] = inode[k] /\ page'[k] = page[k]
    BY <1>3 DEF LiveDir
  <2>2. Unheld(op'[t].locks) /\ op'[t].pc \notin {"replaced", "moved", "crossed"}
    BY <1>1
  <2>3. \A u \in Threads : Targets(u) \cap {i} = {}
    BY <1>5
  <2> HIDE DEF Targets
  <2> QED BY <1>1, <1>2, <1>4, <1>6, <2>1, <2>2, <2>3, BeginFrame
<1>8. nOrphans' \in Int /\ nOrphans' <= MaxOrphans /\
      nOrphans' = nOrphans + (IF o.pc = "acquired" THEN 1 ELSE 0)
  <2>1. nOrphans \in Int /\ nOrphans <= MaxOrphans /\ MaxOrphans \in Nat
    BY NamespaceAssumption DEF Inv, TypeInv
  <2> QED BY <2>1 DEF AcquireOrphan
<1>9. TypeInv'
  BY <1>1, <1>2, <1>4, <1>8 DEF Inv, TypeInv
<1>10. OpInv(t)'
  <2>1. UnlinkInv(t)' /\ RenameInv(t)'
    BY <1>1 DEF UnlinkInv, RenameInv
  <2> QED BY <1>1, <1>6, <2>1 DEF OpInv
<1>11. PageInv(i)' /\ OrphanInv(i)' /\ LinkInv(i)'
  <2>1. PageInv(i)'
    BY <1>2, <1>3, <1>4 DEF PageInv, NoInode
  <2>2. OrphanInv(i)'
    BY <1>2, <1>3 DEF OrphanInv
  <2>3. LinkInv(i)'
    BY <1>2, <1>3 DEF LinkInv, LiveDir
  <2> QED BY <2>1, <2>2, <2>3
<1>12. DirsFound'
  <2>1. \A depth : EntriesFound({}, depth)
    BY DEF EntriesFound
  <2>2. \A k \in Inos \ {i} : EntriesFound(dents'[k], inode'[k].depth)
    BY <1>2, <1>4 DEF Inv, DirsFound
  <2> QED BY <1>2, <1>3, <2>1, <2>2 DEF DirsFound
<1>13. CycleInv'
  <2>1. \A k \in Inos : LiveDir(k)' => LiveDir(k)
    BY <1>2, <1>3, <1>4 DEF LiveDir
  <2> QED BY <1>1, <1>2, <1>6, <2>1, CycleOthers
<1>14. OrphanCount'
  <2>1. /\ o.pc = "acquired" => Cardinality(Reserving') = Cardinality(Reserving) + 1
        /\ o.pc = "new" => Cardinality(Reserving') = Cardinality(Reserving)
        /\ Cardinality(Reserving) \in Nat
    BY <1>1, ReservingStep
  <2>2. nOrphans = Cardinality(orphans) + Cardinality(Reserving) /\ Cardinality(orphans) \in Nat
    BY OrphansFinite DEF Inv, OrphanCount
  <2> QED BY <1>2, <1>8, <2>1, <2>2 DEF OrphanCount
<1>15. SavedInv'
  BY <1>2 DEF Inv, SavedInv, SavedTreeConsistent
<1>16. \A u \in {t} : OpInv(u)'
  BY <1>10
<1>17. \A k \in {i} : PageInv(k)' /\ OrphanInv(k)' /\ LinkInv(k)'
  BY <1>11
<1> QED BY <1>7, <1>9, <1>12, <1>13, <1>14, <1>15, <1>16, <1>17, Assemble

LEMMA CreateKeeps ==
  ASSUME Inv, NEW t \in Threads, NEW d \in Inos, NEW n \in Names, NEW i \in Inos,
         NEW kind \in {"file", "dir"}, Create(t, d, n, i, kind)
  PROVE  Inv'
<1> DEFINE o == [Idle EXCEPT !.pc = "new", !.what = "create", !.locks = {d}, !.dir = d, !.name = n,
                             !.ino = i]
<1>1. /\ MayBegin(t) /\ Begin(t, o) /\ Live(d) /\ Unheld({d}) /\ ~Named(d, n) /\ FreeIno(i)
      /\ inode' = [inode EXCEPT ![i] = NewInode(kind)]
      /\ UNCHANGED <<page, dirVars, orphanVars, open, saved>>
  BY DEF Create
<1>2. /\ o \in OpTypes /\ o.pc = "new" /\ o.what = "create" /\ o.locks = {d} /\ o.dir = d /\ o.name = n
      /\ o.ino = i /\ o.toDir = Root
  BY NamespaceAssumption DEF OpTypes, Idle, Pcs
<1> HIDE DEF o
<1>3. /\ op'[t] = o /\ \A u \in Threads \ {t} : op'[u] = op[u]
  BY <1>1, <1>2, BeginStep DEF Inv
<1>4. page' = page /\ dents' = dents /\ orphans' = orphans /\ nOrphans' = nOrphans
      /\ UNCHANGED <<page, dirVars, orphans, open, saved>>
  BY <1>1 DEF dirVars, orphanVars
<1>5. LiveDir(d) /\ ~Taken(d, n)
  BY <1>1, LiveIsLiveDir, EntryByName DEF Inv
<1>6. page[i] = NoInode /\ page[i].kind = "none"
  <2>1. inode[i].kind = "none"
    BY <1>1 DEF FreeIno, NoInode
  <2> QED BY <2>1 DEF Inv, PageInv
<1>7. i # d /\ i # Root
  BY <1>5, <1>6 DEF Inv, RootInv, LiveDir
<1>8. inode'[i].kind # "none" /\ inode'[i].nlink = 1 /\ inode'[d] = inode[d]
  <2>1. NewInode(kind).kind # "none" /\ NewInode(kind).nlink = 1
    BY DEF NewInode
  <2> HIDE DEF NewInode
  <2> QED BY <1>1, <1>7, <2>1 DEF Inv, TypeInv
<1>9. AddInv(t)'
  BY <1>2, <1>3, <1>4, <1>5, <1>6, <1>8 DEF AddInv, LiveDir, Taken
<1>10. Unheld(o.locks) /\ o.pc \in {"new", "acquired"} /\ o.what # "rename" /\ i \notin {o.dir, o.toDir}
       /\ i = o.ino /\ (IF o.pc = "acquired" THEN AcquireOrphan ELSE nOrphans' = nOrphans)
  BY <1>1, <1>2, <1>4, <1>7
<1> QED BY <1>1, <1>2, <1>4, <1>9, <1>10, BeginNew

LEMMA TmpfileKeeps ==
  ASSUME Inv, NEW t \in Threads, NEW i \in Inos, Tmpfile(t, i)
  PROVE  Inv'
<1> DEFINE o == [Idle EXCEPT !.pc = "acquired", !.what = "tmpfile", !.ino = i]
<1>1. /\ MayBegin(t) /\ Begin(t, o) /\ FreeIno(i) /\ AcquireOrphan
      /\ inode' = [inode EXCEPT ![i] = NewInode("file")]
      /\ UNCHANGED <<page, dirVars, orphans, open, saved>>
  BY DEF Tmpfile, AcquireOrphan
<1>2. /\ o \in OpTypes /\ o.pc = "acquired" /\ o.what = "tmpfile" /\ o.locks = {} /\ o.dir = Root
      /\ o.ino = i /\ o.toDir = Root
  BY NamespaceAssumption DEF OpTypes, Idle, Pcs
<1> HIDE DEF o
<1>3. /\ op'[t] = o /\ \A u \in Threads \ {t} : op'[u] = op[u]
  BY <1>1, <1>2, BeginStep DEF Inv
<1>4. page[i] = NoInode /\ page[i].kind = "none" /\ page' = page
  <2>1. inode[i].kind = "none"
    BY <1>1 DEF FreeIno, NoInode
  <2> QED BY <1>1, <2>1 DEF Inv, PageInv
<1>5. i # Root
  BY <1>4 DEF Inv, RootInv, LiveDir
<1>6. inode'[i].kind = "file" /\ inode'[i].nlink = 1
  <2>1. NewInode("file").kind = "file" /\ NewInode("file").nlink = 1
    BY DEF NewInode
  <2> HIDE DEF NewInode
  <2> QED BY <1>1, <2>1 DEF Inv, TypeInv
<1>7. AddInv(t)'
  BY <1>2, <1>3, <1>4, <1>6 DEF AddInv
<1>8. Unheld(o.locks) /\ o.pc \in {"new", "acquired"} /\ o.what # "rename" /\ i \notin {o.dir, o.toDir}
      /\ i = o.ino /\ (IF o.pc = "acquired" THEN AcquireOrphan ELSE nOrphans' = nOrphans)
  BY <1>1, <1>2, <1>5 DEF Unheld
<1> QED BY <1>1, <1>2, <1>7, <1>8, BeginNew

\* __f2fs_add_link() fails
LEMMA AddLinkFailsKeeps ==
  ASSUME Inv, NEW t \in Threads, AddLinkFails(t)
  PROVE  Inv'
<1>0. PICK i \in Inos, d \in Inos, n \in {op[t].name} : i = op[t].ino /\ d = op[t].dir /\ n = op[t].name
  BY InvTypes DEF Inv
<1>1. /\ op[t].pc = "new"
      /\ inode' = IF op[t].what = "create" THEN [inode EXCEPT ![i] = NoInode] ELSE inode
      /\ hint' = [hint EXCEPT ![d] = HintAfterAdd(@, n)]
      /\ Finish(t)
      /\ page' = page /\ dents' = dents /\ parent' = parent /\ open' = open /\ saved' = saved
      /\ orphans' = orphans /\ nOrphans' = nOrphans
  BY <1>0 DEF AddLinkFails, orphanVars
<1>2. /\ op[t].what \in {"create", "link"} /\ n \in Names
      /\ d \in op[t].locks /\ LiveDir(d)
      /\ op[t].what = "create" => page[i] = NoInode
      /\ op[t].what # "create" => page[i].kind = "file"
  BY <1>0, <1>1 DEF Inv, OpInv, AddInv
<1>3. /\ Targets(t) = {i} /\ i # Root
      /\ TypeInv /\ PageInv(i) /\ OrphanInv(i) /\ LinkInv(i)
  BY <1>0, <1>1 DEF Inv, OpInv, Targets
<1>4. /\ op' \in [Threads -> OpTypes] /\ ops' = ops
      /\ \A u \in Threads \ {t} : op'[u] = op[u]
      /\ op'[t] = Idle /\ op'[t].pc = "idle"
  BY <1>1, <1>3, FinishStep
<1>5. /\ inode' \in [Inos -> AnyInodes]
      /\ \A k \in Inos \ {i} : inode'[k] = inode[k]
      /\ op[t].what = "create" => inode'[i] = NoInode
      /\ op[t].what # "create" => inode'[i] = inode[i]
  <2>1. NoInode \in AnyInodes
    BY DirectoryAssumption DEF NoInode, AnyInodes
  <2> HIDE DEF NoInode
  <2> QED BY <1>1, <1>3, <2>1 DEF TypeInv
<1>6. hint' \in [Inos -> Hints] /\ \A k \in Inos \ {d} : hint'[k] = hint[k]
  <2>1. hint \in [Inos -> Hints]
    BY <1>3 DEF TypeInv, Hints
  <2>2. \A k \in Inos : HintAfterAdd(hint[k], n) \in Hints
    BY <2>1 DEF HintAfterAdd, Hints
  <2> QED BY <1>1, <2>1, <2>2
<1>7. /\ \A u \in Threads \ {t} : i \notin Targets(u)
      /\ Targets(t)' = {} /\ ~CrossDir(t)' /\ \A k : ~DoubledBy(t, k) /\ ~DoubledBy(t, k)'
      /\ op'[t].locks = {}
  <2>1. \A u \in Threads \ {t} : i \notin Targets(u)
    BY <1>3, Exclusive
  <2>2. op'[t].locks = {} /\ op'[t].what = "none"
    BY <1>4 DEF Idle
  <2> QED BY <1>1, <1>4, <2>1, <2>2 DEF Targets, CrossDir, DoubledBy
<1>8. ~Ahead(i)' /\ ~Ahead(i) /\ ~Behind(i) /\ ~Behind(i)' /\ ~Losing(i) /\ ~Losing(i)'
      /\ ~(\E u \in Threads : op'[u].ino = i /\ op'[u].pc = "tmpfile")
      /\ ~(\E u \in Threads : op[u].ino = i /\ op[u].pc = "tmpfile")
  <2>1. \A u \in Threads \ {t} : op'[u] = op[u] /\ i \notin Targets(u)
    BY <1>4, <1>7
  <2>2. op[t].pc = "new" /\ op'[t].pc = "idle" /\ op[t].ino = i
    BY <1>0, <1>1, <1>4
  <2>3. ~Ahead(i)' /\ ~Ahead(i)
    BY <2>1, <2>2, OnlyActor
  <2>5. ~Behind(i) /\ ~Behind(i)' /\ ~Losing(i) /\ ~Losing(i)'
    BY <2>1, <2>2, OnlyActor
  <2>4. ~(\E u \in Threads : op'[u].ino = i /\ op'[u].pc = "tmpfile")
    BY <2>1, <2>2, OnlyActor
  <2>6. ~(\E u \in Threads : op[u].ino = i /\ op[u].pc = "tmpfile")
    <3>1. (\E u \in Threads : op[u].ino = i /\ op[u].pc = "tmpfile")
            <=> op[t].ino = i /\ op[t].pc = "tmpfile"
      BY <2>1, OnlyActor
    <3> QED BY <2>2, <3>1
  <2> QED BY <2>3, <2>4, <2>5, <2>6
<1>9. /\ ~LiveDir(i) /\ i # d /\ dents[i] = {} /\ ~LiveDir(i)' /\ page[i].kind \in {"none", "file"}
      /\ op[t].what = "create" => page[i].kind = "none" /\ NamesOf(dents, i) = {}
  BY <1>1, <1>2, <1>3 DEF LiveDir, NoInode, PageInv
<1>10. \A k \in Inos : LiveDir(k)' <=> LiveDir(k)
  BY <1>1, <1>5, <1>9 DEF LiveDir
<1>11. /\ \A j \in Inos : page[j].kind # "none" => inode'[j].kind = inode[j].kind
       /\ \A j \in Inos : NamesOf(dents, j) # {} => inode'[j].kind = inode[j].kind
  BY <1>5, <1>9
<1>12. Frame({t}, {i}, {d})
  <2>1. \A k \in Inos \ {d} : LiveDir(k) =>
           LiveDir(k)' /\ dents'[k] = dents[k] /\ hint'[k] = hint[k] /\ inode'[k].depth = inode[k].depth
    BY <1>1, <1>5, <1>6, <1>9, <1>10
  <2>2. \A k \in Inos \ {i} : Kept(k, {d})
    BY <1>1, <1>5 DEF Kept
  <2>3. Counted(d)'
    <3>1. inode'[d].nlink = 2 + Cardinality(Subdirs(dents', inode', d)) + Bit(Doubled(d)')
      BY <1>1, <1>2, <1>4, <1>5, <1>7, <1>9, <1>11, DirKept
    <3> QED BY <1>2, <1>10, <3>1 DEF Counted, Bit
  <2> HIDE DEF Targets, LiveDir
  <2>4. /\ {d} \subseteq op[t].locks /\ op'[t].locks \subseteq op[t].locks
        /\ Targets(t) = {i} /\ Targets(t)' \subseteq Targets(t) /\ (CrossDir(t)' => CrossDir(t))
        /\ \A u \in Threads \ {t} : op'[u] = op[u]
        /\ \A k \in Inos \ {d} : DoubledBy(t, k)' <=> DoubledBy(t, k)
    BY <1>2, <1>3, <1>4, <1>7
  <2>5. /\ \A k \in Inos : NamesOf(dents, k) # {} => inode'[k].kind = inode[k].kind
        /\ \A k \in Inos \ Targets(t) : Kept(k, {d})
        /\ \A k \in {d} : k \in Targets(t) \/ (LiveDir(k) /\ Counted(k)')
    BY <1>2, <1>11, <2>2, <2>3, <2>4
  <2>6. Frame({t}, Targets(t), {d})
    BY <2>1, <2>4, <2>5, MoveFrame
  <2> QED BY <2>4, <2>6
<1>13. TypeInv'
  BY <1>1, <1>3, <1>4, <1>5, <1>6 DEF TypeInv, Hints
<1>14. OpInv(t)'
  <2>1. AddInv(t)' /\ UnlinkInv(t)' /\ RenameInv(t)'
    BY <1>4 DEF AddInv, UnlinkInv, RenameInv
  <2> QED BY <1>4, <1>7, <2>1 DEF OpInv
<1>15. PageInv(i)' /\ OrphanInv(i)' /\ LinkInv(i)'
  <2>1. CASE op[t].what = "create"
    <3>1. page'[i].kind = "none" /\ page'[i] = NoInode /\ inode'[i] = NoInode
      BY <1>1, <1>2, <1>5, <1>9, <2>1
    <3>2. PageInv(i)'
      BY <1>1, <1>3, <1>9, <3>1 DEF PageInv, NoInode
    <3>3. i \notin orphans'
      BY <1>1, <1>3, <1>9, <2>1 DEF PageInv
    <3>4. OrphanInv(i)' /\ LinkInv(i)'
      BY <3>1, <3>3 DEF OrphanInv, LinkInv, LiveDir
    <3> QED BY <3>2, <3>4
  <2>2. CASE op[t].what # "create"
    <3>1. inode'[i] = inode[i] /\ page'[i].kind = "file"
      BY <1>1, <1>2, <1>5, <2>2
    <3>2. PageInv(i)'
      BY <1>1, <1>3, <1>8, <1>9, <3>1 DEF PageInv
    <3>3. OrphanInv(i)'
      BY <1>1, <1>3, <1>8, <3>1 DEF OrphanInv
    <3>4. LinkInv(i)'
      BY <1>1, <1>3, <1>8, <3>1 DEF LinkInv, LiveDir, Bit
    <3> QED BY <3>2, <3>3, <3>4
  <2> QED BY <2>1, <2>2
<1>16. DirsFound'
  <2>1. \A depth : EntriesFound({}, depth)
    BY DEF EntriesFound
  <2>2. \A k \in Inos \ {i} : EntriesFound(dents'[k], inode'[k].depth)
    BY <1>1, <1>5 DEF Inv, DirsFound
  <2> QED BY <1>1, <1>9, <2>1, <2>2 DEF DirsFound
<1>17. CycleInv'
  BY <1>1, <1>4, <1>7, <1>10, CycleOthers
<1>18. OrphanCount'
  <2>1. Cardinality(Reserving') = Cardinality(Reserving)
    BY <1>1, <1>4, ReservingStep
  <2> QED BY <1>1, <2>1 DEF Inv, OrphanCount
<1>19. SavedInv'
  BY <1>1 DEF Inv, SavedInv, SavedTreeConsistent
<1>20. \A u \in {t} : OpInv(u)'
  BY <1>14
<1>21. \A k \in {i} : PageInv(k)' /\ OrphanInv(k)' /\ LinkInv(k)'
  BY <1>15
<1> QED BY <1>12, <1>13, <1>16, <1>17, <1>18, <1>19, <1>20, <1>21, Assemble

-----------------------------------------------------------------------------
(* The steps of f2fs_tmpfile().                                            *)

\* What the steps of f2fs_tmpfile() have in common: they are about a file without names.
LEMMA TmpfileStep ==
  ASSUME Inv, NEW t \in Threads, NEW i \in Inos, i = op[t].ino,
         op[t].pc \in {"acquired", "tmpfile"}, op'[t].pc \in {"tmpfile", "idle"},
         op' \in [Threads -> OpTypes], ops' = ops, \A u \in Threads \ {t} : op'[u] = op[u],
         op'[t] = Idle \/ (op'[t].ino = i /\ op'[t].what = "tmpfile" /\ op'[t].locks = op[t].locks),
         inode' \in [Inos -> AnyInodes], page' \in [Inos -> AnyInodes],
         open' \in [Inos -> {"no", "yes", "tmpfile"}], orphans' \subseteq Inos,
         nOrphans' \in Int, nOrphans' <= MaxOrphans,
         \A k \in Inos \ {i} : /\ inode'[k] = inode[k] /\ page'[k] = page[k] /\ open'[k] = open[k]
                               /\ k \in orphans' <=> k \in orphans,
         UNCHANGED <<dirVars, saved>>, page'[i].kind \in {"none", "file"},
         OpInv(t)', PageInv(i)', OrphanInv(i)', LinkInv(i)', OrphanCount'
  PROVE  Inv'
<1>1. dents' = dents /\ parent' = parent /\ hint' = hint /\ saved' = saved
  BY DEF dirVars
<1>2. /\ Targets(t) = {i} /\ i # Root /\ TypeInv /\ PageInv(i) /\ OrphanInv(i)
      /\ op[t].what = "tmpfile" /\ page[i].kind \in {"none", "file"}
      /\ op[t].pc = "acquired" => page[i].kind = "none"
      /\ op[t].pc = "tmpfile" => i \in orphans
  <2>1. TypeInv /\ PageInv(i) /\ OrphanInv(i) /\ OpInv(t)
    BY DEF Inv
  <2>2. AddInv(t) /\ Root \notin Targets(t)
    BY <2>1 DEF OpInv
  <2>3. Targets(t) = {i}
    BY DEF Targets
  <2>4. /\ op[t].what = "tmpfile" /\ page[i].kind \in {"none", "file"}
        /\ op[t].pc = "acquired" => page[i].kind = "none"
        /\ op[t].pc = "tmpfile" => i \in orphans
    BY <2>2 DEF AddInv, NoInode
  <2> QED BY <2>1, <2>2, <2>3, <2>4
<1>3. NamesOf(dents, i) = {} /\ dents[i] = {} /\ ~LiveDir(i) /\ ~LiveDir(i)'
  BY <1>2 DEF PageInv, OrphanInv, LiveDir
<1>4. /\ Targets(t)' \subseteq {i} /\ ~CrossDir(t)' /\ \A k : ~DoubledBy(t, k) /\ ~DoubledBy(t, k)'
      /\ op'[t].locks \subseteq op[t].locks
  <2>1. op'[t] = Idle => op'[t].locks = {} /\ op'[t].what = "none" /\ op'[t].pc = "idle"
    BY DEF Idle
  <2>2. op'[t].pc = "idle" \/ op'[t].ino = i
    BY <2>1
  <2>3. Targets(t)' \subseteq {i}
    BY <2>2 DEF Targets
  <2>4. op'[t].what # "rename" /\ op'[t].locks \subseteq op[t].locks
    BY <2>1
  <2> QED BY <2>3, <2>4 DEF CrossDir, DoubledBy
<1>5. \A k \in Inos : LiveDir(k)' <=> LiveDir(k)
  BY <1>3 DEF LiveDir
<1>6. Frame({t}, {i}, {})
  <2>1. \A k \in Inos : LiveDir(k) =>
           LiveDir(k)' /\ dents'[k] = dents[k] /\ hint'[k] = hint[k] /\ inode'[k].depth = inode[k].depth
    BY <1>1, <1>3, <1>5
  <2>2. \A k \in Inos \ {i} : Kept(k, {})
    BY <1>1 DEF Kept
  <2>3. \A k \in Inos : NamesOf(dents, k) # {} => inode'[k].kind = inode[k].kind
    BY <1>3
  <2>4. Targets(t)' \subseteq Targets(t) /\ (CrossDir(t)' => CrossDir(t))
        /\ \A k \in Inos \ {} : DoubledBy(t, k)' <=> DoubledBy(t, k)
    BY <1>2, <1>4
  <2> HIDE DEF Targets, LiveDir
  <2>5. Frame({t}, Targets(t), {})
    BY <1>2, <1>4, <2>1, <2>2, <2>3, <2>4, MoveFrame
  <2> QED BY <1>2, <2>5
<1>7. TypeInv'
  BY <1>1, <1>2 DEF TypeInv
<1>8. DirsFound'
  <2>1. \A depth : EntriesFound({}, depth)
    BY DEF EntriesFound
  <2>2. \A k \in Inos \ {i} : EntriesFound(dents'[k], inode'[k].depth)
    BY <1>1 DEF Inv, DirsFound
  <2>3. EntriesFound(dents'[i], inode'[i].depth)
    BY <1>1, <1>3, <2>1
  <2>4. \A k \in Inos : EntriesFound(dents'[k], inode'[k].depth)
    BY <2>2, <2>3
  <2> QED BY <2>4 DEF DirsFound
<1>9. CycleInv'
  BY <1>1, <1>4, <1>5, CycleOthers
<1>10. SavedInv'
  BY <1>1 DEF Inv, SavedInv, SavedTreeConsistent
<1>11. \A u \in {t} : OpInv(u)'
  OBVIOUS
<1>12. \A k \in {i} : PageInv(k)' /\ OrphanInv(k)' /\ LinkInv(k)'
  OBVIOUS
<1> QED BY <1>6, <1>7, <1>8, <1>9, <1>10, <1>11, <1>12, Assemble

LEMMA TmpfileOrphanKeeps ==
  ASSUME Inv, NEW t \in Threads, TmpfileOrphan(t)
  PROVE  Inv'
<1>0. PICK i \in Inos : i = op[t].ino
  BY InvTypes DEF Inv
<1>1. /\ op[t].pc = "acquired"
      /\ page' = [page EXCEPT ![i] = inode[i]]
      /\ orphans' = orphans \cup {i} /\ nOrphans' = nOrphans
      /\ Goto(t, "tmpfile") /\ inode' = inode /\ open' = open
      /\ UNCHANGED <<dirVars, saved>> /\ dents' = dents /\ parent' = parent
  BY <1>0 DEF TmpfileOrphan, dirVars
<1>2. /\ op[t].what = "tmpfile" /\ page[i] = NoInode /\ page[i].kind = "none"
      /\ inode[i].kind = "file" /\ inode[i].nlink = 1
      /\ TypeInv /\ PageInv(i) /\ OrphanInv(i)
      /\ Targets(t) = {i} /\ {i} \cap {Root, op[t].dir, op[t].toDir} = {}
  BY <1>0, <1>1 DEF Inv, OpInv, AddInv, NoInode, Targets
<1>3. /\ op' \in [Threads -> OpTypes] /\ ops' = ops
      /\ \A u \in Threads \ {t} : op'[u] = op[u]
      /\ op'[t].pc = "tmpfile" /\ op'[t].what = op[t].what /\ op'[t].locks = op[t].locks
      /\ op'[t].dir = op[t].dir /\ op'[t].ino = op[t].ino /\ op'[t].toDir = op[t].toDir
  BY <1>1, <1>2, GotoStep DEF Pcs
<1>4. NamesOf(dents, i) = {} /\ dents[i] = {} /\ i \notin orphans /\ open[i] = "no"
  BY <1>2 DEF PageInv
<1>5. /\ page' \in [Inos -> AnyInodes] /\ page'[i] = inode[i] /\ page'[i].kind = "file"
      /\ \A k \in Inos \ {i} : page'[k] = page[k]
  BY <1>1, <1>2 DEF TypeInv
<1>6. Ahead(i)' /\ ~Behind(i)' /\ \E u \in Threads : op'[u].ino = i /\ op'[u].pc = "tmpfile"
  <2>1. \A u \in Threads \ {t} : op'[u] = op[u] /\ i \notin Targets(u)
    BY <1>2, <1>3, Exclusive
  <2> QED BY <1>0, <1>3, <2>1, OnlyActor
<1>7. OpInv(t)'
  <2>1. AddInv(t)'
    BY <1>0, <1>1, <1>2, <1>3, <1>4, <1>5 DEF AddInv
  <2>2. UnlinkInv(t)' /\ RenameInv(t)'
    BY <1>3 DEF UnlinkInv, RenameInv
  <2>3. Targets(t)' = {i}
    BY <1>0, <1>3 DEF Targets
  <2> QED BY <1>2, <1>3, <2>1, <2>2, <2>3 DEF OpInv
<1>8. PageInv(i)'
  BY <1>1, <1>2, <1>4, <1>5 DEF PageInv
<1>9. OrphanInv(i)'
  BY <1>1, <1>4, <1>6 DEF OrphanInv
<1>10. LinkInv(i)'
  <2>1. Cardinality(NamesOf(dents', i)) = 0
    BY <1>1, <1>4, FS_EmptySet
  <2>2. inode'[i].nlink = Cardinality(NamesOf(dents', i)) + Bit(Ahead(i)') - Bit(Behind(i)')
    BY <1>1, <1>2, <1>6, <2>1 DEF Bit
  <2> QED BY <1>5, <2>2 DEF LinkInv, LiveDir
<1>11. OrphanCount'
  <2>1. Cardinality(Reserving') = Cardinality(Reserving) - 1 /\ Cardinality(Reserving) \in Nat
    BY <1>1, <1>3, ReservingStep
  <2>2. Cardinality(orphans') = Cardinality(orphans) + 1
    BY <1>1, <1>2, <1>4, OrphansFinite, FS_AddElement
  <2>3. nOrphans = Cardinality(orphans) + Cardinality(Reserving) /\ Cardinality(orphans) \in Nat
    BY OrphansFinite DEF Inv, OrphanCount
  <2> QED BY <1>1, <2>1, <2>2, <2>3 DEF OrphanCount
<1>12. /\ inode' \in [Inos -> AnyInodes] /\ open' \in [Inos -> {"no", "yes", "tmpfile"}]
       /\ orphans' \subseteq Inos /\ nOrphans' \in Int /\ nOrphans' <= MaxOrphans
  BY <1>1, <1>2 DEF TypeInv
<1>13. \A k \in Inos \ {i} : /\ inode'[k] = inode[k] /\ page'[k] = page[k] /\ open'[k] = open[k]
                             /\ k \in orphans' <=> k \in orphans
  BY <1>1, <1>5
<1>14. /\ op[t].pc \in {"acquired", "tmpfile"} /\ op'[t].pc \in {"tmpfile", "idle"}
       /\ op'[t].ino = i /\ op'[t].what = "tmpfile" /\ op'[t].locks = op[t].locks
  BY <1>0, <1>1, <1>2, <1>3
<1>15. UNCHANGED <<dirVars, saved>> /\ page'[i].kind \in {"none", "file"}
  BY <1>1, <1>5
<1> QED BY <1>0, <1>3, <1>5, <1>7, <1>8, <1>9, <1>10, <1>11, <1>12, <1>13, <1>14, <1>15, TmpfileStep

LEMMA TmpfileFailsKeeps ==
  ASSUME Inv, NEW t \in Threads, TmpfileFails(t)
  PROVE  Inv'
<1>0. PICK i \in Inos : i = op[t].ino
  BY InvTypes DEF Inv
<1>1. /\ op[t].pc = "acquired"
      /\ inode' = [inode EXCEPT ![i] = NoInode]
      /\ nOrphans' = nOrphans - 1 /\ orphans' = orphans
      /\ Finish(t) /\ page' = page /\ open' = open
      /\ UNCHANGED <<dirVars, saved>> /\ dents' = dents /\ parent' = parent
  BY <1>0 DEF TmpfileFails, dirVars
<1>2. /\ page[i] = NoInode /\ page[i].kind = "none" /\ TypeInv /\ PageInv(i) /\ OrphanInv(i)
  BY <1>0, <1>1 DEF Inv, OpInv, AddInv, NoInode
<1>3. /\ op' \in [Threads -> OpTypes] /\ ops' = ops
      /\ \A u \in Threads \ {t} : op'[u] = op[u]
      /\ op'[t] = Idle /\ op'[t].pc = "idle"
  BY <1>1, <1>2, FinishStep
<1>4. /\ inode' \in [Inos -> AnyInodes] /\ inode'[i] = NoInode
      /\ \A k \in Inos \ {i} : inode'[k] = inode[k]
  <2>1. NoInode \in AnyInodes
    BY DirectoryAssumption DEF NoInode, AnyInodes
  <2> HIDE DEF NoInode
  <2> QED BY <1>1, <1>2, <2>1 DEF TypeInv
<1>5. OpInv(t)'
  BY <1>3 DEF OpInv, AddInv, UnlinkInv, RenameInv, Targets
<1>6. PageInv(i)'
  BY <1>1, <1>2, <1>4 DEF PageInv, NoInode
<1>7. OrphanInv(i)' /\ LinkInv(i)'
  BY <1>1, <1>2 DEF OrphanInv, LinkInv, PageInv, LiveDir
<1>8. nOrphans' \in Int /\ nOrphans' <= MaxOrphans /\ orphans' \subseteq Inos
      /\ page' \in [Inos -> AnyInodes] /\ open' \in [Inos -> {"no", "yes", "tmpfile"}]
  <2>1. nOrphans \in Int /\ nOrphans <= MaxOrphans /\ MaxOrphans \in Nat
    BY <1>2, NamespaceAssumption DEF TypeInv
  <2> QED BY <1>1, <1>2, <2>1 DEF TypeInv
<1>9. OrphanCount'
  <2>1. Cardinality(Reserving') = Cardinality(Reserving) - 1 /\ Cardinality(Reserving) \in Nat
    BY <1>1, <1>3, ReservingStep
  <2>2. nOrphans = Cardinality(orphans) + Cardinality(Reserving) /\ Cardinality(orphans) \in Nat
    BY OrphansFinite DEF Inv, OrphanCount
  <2> QED BY <1>1, <2>1, <2>2 DEF OrphanCount
<1>10. \A k \in Inos \ {i} : /\ inode'[k] = inode[k] /\ page'[k] = page[k] /\ open'[k] = open[k]
                             /\ k \in orphans' <=> k \in orphans
  BY <1>1, <1>4
<1>11. /\ op[t].pc \in {"acquired", "tmpfile"} /\ op'[t].pc \in {"tmpfile", "idle"}
       /\ page'[i].kind \in {"none", "file"} /\ UNCHANGED <<dirVars, saved>>
  BY <1>1, <1>2, <1>3
<1> QED BY <1>0, <1>3, <1>4, <1>5, <1>6, <1>7, <1>8, <1>9, <1>10, <1>11, TmpfileStep

LEMMA TmpfileDoneKeeps ==
  ASSUME Inv, NEW t \in Threads, TmpfileDone(t)
  PROVE  Inv'
<1>0. PICK i \in Inos : i = op[t].ino
  BY InvTypes DEF Inv
<1>1. /\ op[t].pc = "tmpfile" /\ AddLinks({}, {i})
      /\ open' = [open EXCEPT ![i] = "tmpfile"]
      /\ nOrphans' = nOrphans /\ orphans' = orphans
      /\ Finish(t) /\ page' = page
      /\ UNCHANGED <<dirVars, saved>> /\ dents' = dents /\ parent' = parent
  BY <1>0 DEF TmpfileDone, dirVars, orphanVars
<1>2. /\ page[i].kind = "file" /\ i \in orphans /\ TypeInv /\ PageInv(i) /\ OrphanInv(i) /\ LinkInv(i)
      /\ Targets(t) = {i} /\ inode[i].nlink \in Int
  BY <1>0, <1>1, InvTypes DEF Inv, OpInv, AddInv, Targets
<1>3. /\ op' \in [Threads -> OpTypes] /\ ops' = ops
      /\ \A u \in Threads \ {t} : op'[u] = op[u]
      /\ op'[t] = Idle /\ op'[t].pc = "idle"
  BY <1>1, <1>2, FinishStep
<1>4. /\ inode' \in [Inos -> AnyInodes]
      /\ inode'[i].kind = inode[i].kind /\ inode'[i].nlink = inode[i].nlink - 1
      /\ \A k \in Inos \ {i} : inode'[k] = inode[k]
  <2>1. /\ inode' \in [Inos -> AnyInodes]
        /\ \A k \in Inos : /\ inode'[k].kind = inode[k].kind /\ inode'[k].depth = inode[k].depth
                           /\ inode'[k].nlink = inode[k].nlink + Bit(k \in {}) - Bit(k \in {i})
                           /\ k \notin {} /\ k \notin {i} => inode'[k] = inode[k]
    BY <1>1, <1>2, AddLinksStep
  <2> QED BY <1>2, <2>1 DEF Bit
<1>5. Ahead(i) /\ ~Behind(i) /\ ~Ahead(i)' /\ ~Behind(i)'
  <2>1. \A u \in Threads \ {t} : op'[u] = op[u] /\ i \notin Targets(u)
    BY <1>2, <1>3, Exclusive
  <2> QED BY <1>0, <1>1, <1>3, <2>1, OnlyActor
<1>6. NamesOf(dents, i) = {} /\ inode'[i].nlink = 0 /\ Cardinality(NamesOf(dents, i)) = 0
  <2>1. NamesOf(dents, i) = {} /\ Cardinality(NamesOf(dents, i)) = 0
    BY <1>2, FS_EmptySet DEF OrphanInv
  <2>2. inode[i].nlink = Cardinality(NamesOf(dents, i)) + Bit(Ahead(i)) - Bit(Behind(i))
    BY <1>2 DEF LinkInv, Bit
  <2> QED BY <1>4, <1>5, <2>1, <2>2 DEF Bit
<1>7. OpInv(t)'
  BY <1>3 DEF OpInv, AddInv, UnlinkInv, RenameInv, Targets
<1>8. PageInv(i)'
  BY <1>1, <1>2, <1>4, <1>6 DEF PageInv, LiveDir
<1>9. OrphanInv(i)'
  BY <1>1, <1>2, <1>6 DEF OrphanInv
<1>10. LinkInv(i)'
  <2>1. inode'[i].nlink = Cardinality(NamesOf(dents', i)) + Bit(Ahead(i)') - Bit(Behind(i)')
    BY <1>1, <1>5, <1>6 DEF Bit
  <2> QED BY <1>1, <1>2, <2>1 DEF LinkInv, LiveDir
<1>11. OrphanCount'
  <2>1. Cardinality(Reserving') = Cardinality(Reserving)
    BY <1>1, <1>3, ReservingStep
  <2> QED BY <1>1, <2>1 DEF Inv, OrphanCount
<1>12. nOrphans' \in Int /\ nOrphans' <= MaxOrphans /\ orphans' \subseteq Inos
       /\ page' \in [Inos -> AnyInodes] /\ open' \in [Inos -> {"no", "yes", "tmpfile"}]
  BY <1>1, <1>2 DEF TypeInv
<1>13. \A k \in Inos \ {i} : /\ inode'[k] = inode[k] /\ page'[k] = page[k] /\ open'[k] = open[k]
                             /\ k \in orphans' <=> k \in orphans
  BY <1>1, <1>2, <1>4 DEF TypeInv
<1>14. /\ op[t].pc \in {"acquired", "tmpfile"} /\ op'[t].pc \in {"tmpfile", "idle"}
       /\ page'[i].kind \in {"none", "file"} /\ UNCHANGED <<dirVars, saved>>
  BY <1>1, <1>2, <1>3
<1> QED BY <1>0, <1>3, <1>4, <1>7, <1>8, <1>9, <1>10, <1>11, <1>12, <1>13, <1>14, TmpfileStep

-----------------------------------------------------------------------------
(* Steps of no operation.                                                  *)

\* A hint changes.
LEMMA LookupKeeps ==
  ASSUME Inv, NEW d \in Inos, NEW n \in Names, Lookup(d, n)
  PROVE  Inv'
<1>1. PICK h \in HintsAfterSearch(dents[d], inode[d].depth, hint[d], n) : hint' = [hint EXCEPT ![d] = h]
  BY DEF Lookup
<1>2. /\ Live(d) /\ Unheld({d})
      /\ inode' = inode /\ page' = page /\ dents' = dents /\ parent' = parent /\ orphans' = orphans
      /\ nOrphans' = nOrphans /\ open' = open /\ op' = op /\ saved' = saved /\ ops' = ops
  BY DEF Lookup, orphanVars
<1>3. LiveDir(d) /\ TypeInv /\ LinkInv(d)
  BY <1>2, LiveIsLiveDir DEF Inv
<1>4. hint' \in [Inos -> Hints] /\ \A k \in Inos \ {d} : hint'[k] = hint[k]
  <2>1. hint \in [Inos -> Hints] /\ inode[d].depth \in 0..MaxDepth /\ dents[d] \subseteq EntriesWith(Inos)
    BY <1>3, EntriesAre DEF TypeInv, Hints, AnyInodes
  <2>2. EntriesFound(dents[d], inode[d].depth)
    BY DEF Inv, DirsFound
  <2>3. HintsAfterSearch(dents[d], inode[d].depth, hint[d], n) \subseteq Hints
    BY <2>1, <2>2, HintTypes
  <2>4. h \in Hints
    BY <1>1, <2>3
  <2> QED BY <1>1, <2>1, <2>4
<1>5. Counted(d)'
  BY <1>2, <1>3 DEF Counted, LinkInv, LiveDir, Doubled, DoubledBy, IsDir, Bit
<1>6. Frame({}, {}, {d})
  <2>1. \A u \in Threads \ {} : op'[u] = op[u] /\ Targets(u) \cap {} = {} /\ op[u].locks \cap {d} = {}
    BY <1>2 DEF Unheld
  <2>2. \A k \in Inos \ {d} : LiveDir(k) =>
           LiveDir(k)' /\ dents'[k] = dents[k] /\ hint'[k] = hint[k] /\ inode'[k].depth = inode[k].depth
    BY <1>2, <1>4 DEF LiveDir
  <2>3. \A k \in Inos \ {} : Kept(k, {d})
    BY <1>2 DEF Kept
  <2>4. \A k \in Inos : NamesOf(dents, k) # {} => inode'[k].kind = inode[k].kind
    BY <1>2
  <2> HIDE DEF Targets, LiveDir
  <2> QED BY <1>3, <1>5, <2>1, <2>2, <2>3, <2>4 DEF Frame
<1>7. TypeInv'
  BY <1>2, <1>3, <1>4 DEF TypeInv, Hints
<1>8. DirsFound' /\ OrphanCount' /\ SavedInv'
  BY <1>2 DEF Inv, DirsFound, OrphanCount, Reserving, SavedInv, SavedTreeConsistent
<1>9. CycleInv'
  <2>1. \A k \in Inos : LiveDir(k)' => LiveDir(k)
    BY <1>2 DEF LiveDir
  <2>2. \A u \in Threads : CrossDir(u)' =>
           \/ op'[u].pc \notin {"replace", "replaced", "add", "moved", "exchange"}
           \/ CrossDir(u) /\ op'[u].ino = op[u].ino /\ op'[u].toDir = op[u].toDir
              /\ op'[u].old = op[u].old /\ op'[u].dir = op[u].dir
              /\ op[u].pc \in {"replace", "replaced", "add", "moved", "exchange"}
              /\ (op'[u].pc = "exchange" => op[u].pc = "exchange")
    BY <1>2 DEF CrossDir
  <2> QED BY <1>2, <2>1, <2>2, CycleKept
<1> QED BY <1>6, <1>7, <1>8, <1>9, Assemble

\* No operation moves, no name changes: what it changes of an inode T it is about
LEMMA QuietFrame ==
  ASSUME Inv, op' = op, dents' = dents,
         NEW T \in SUBSET Inos, \A u \in Threads : Targets(u) \cap T = {}, Root \notin T,
         \A k \in T : NamesOf(dents, k) = {} /\ ~LiveDir(k),
         \A k \in Inos \ T : /\ inode'[k] = inode[k] /\ hint'[k] = hint[k] /\ parent'[k] = parent[k]
                             /\ page'[k] = page[k] \/ (page[k].kind # "none" /\ page'[k] = inode[k])
                             /\ k \in orphans' <=> k \in orphans
                             /\ open'[k] \in {"no", open[k]} \/ NamesOf(dents, k) # {}
  PROVE  Frame({}, T, {}) /\ \A k \in Inos \ T : LiveDir(k)' <=> LiveDir(k)
<1>1. \A k \in Inos \ T : LiveDir(k)' <=> LiveDir(k)
  <2>1. \A k \in Inos : page[k].kind # "none" => page[k].kind = inode[k].kind
    BY DEF Inv, PageInv
  <2> QED BY <2>1 DEF LiveDir
<1>2. \A u \in Threads \ {} : op'[u] = op[u] /\ Targets(u) \cap T = {} /\ op[u].locks \cap {} = {}
  OBVIOUS
<1>3. \A k \in Inos \ {} : LiveDir(k) =>
         LiveDir(k)' /\ dents'[k] = dents[k] /\ hint'[k] = hint[k] /\ inode'[k].depth = inode[k].depth
  BY <1>1
<1>4. \A k \in Inos \ T : Kept(k, {})
  BY DEF Kept
<1>5. \A k \in Inos : NamesOf(dents, k) # {} => inode'[k].kind = inode[k].kind
  OBVIOUS
<1> HIDE DEF Targets, LiveDir
<1>6. Frame({}, T, {})
  BY <1>2, <1>3, <1>4, <1>5 DEF Frame
<1> QED BY <1>1, <1>6

\* iget(), iput() and the write of an inode page
LEMMA QuietKeeps ==
  ASSUME Inv, UNCHANGED <<inode, dents, parent, hint, orphanVars, op, saved>>,
         page' \in [Inos -> AnyInodes], open' \in [Inos -> {"no", "yes", "tmpfile"}], ops' \in 0..MaxOps,
         \A k \in Inos : /\ page'[k] = page[k] \/ (page[k].kind # "none" /\ page'[k] = inode[k])
                         /\ open'[k] \in {"no", open[k]} \/ NamesOf(dents, k) # {}
  PROVE  Inv'
<1>1. /\ inode' = inode /\ dents' = dents /\ parent' = parent /\ hint' = hint /\ orphans' = orphans
      /\ nOrphans' = nOrphans /\ op' = op /\ saved' = saved
  BY DEF orphanVars
<1>2. Frame({}, {}, {}) /\ \A k \in Inos \ {} : LiveDir(k)' <=> LiveDir(k)
  BY <1>1, QuietFrame
<1>3. TypeInv'
  BY <1>1 DEF Inv, TypeInv
<1>4. DirsFound' /\ OrphanCount' /\ SavedInv'
  BY <1>1 DEF Inv, DirsFound, OrphanCount, Reserving, SavedInv, SavedTreeConsistent
<1>5. CycleInv'
  <2>1. \A k \in Inos : LiveDir(k)' => LiveDir(k)
    BY <1>2
  <2>2. \A u \in Threads : CrossDir(u)' =>
           \/ op'[u].pc \notin {"replace", "replaced", "add", "moved", "exchange"}
           \/ CrossDir(u) /\ op'[u].ino = op[u].ino /\ op'[u].toDir = op[u].toDir
              /\ op'[u].old = op[u].old /\ op'[u].dir = op[u].dir
              /\ op[u].pc \in {"replace", "replaced", "add", "moved", "exchange"}
              /\ (op'[u].pc = "exchange" => op[u].pc = "exchange")
    BY <1>1 DEF CrossDir
  <2> QED BY <1>1, <2>1, <2>2, CycleKept
<1> QED BY <1>2, <1>3, <1>4, <1>5, Assemble

LEMMA OpenKeeps ==
  ASSUME Inv, NEW i \in Inos, Open(i)
  PROVE  Inv'
<1>1. NamesOf(dents, i) # {}
  <2>1. Linked(i)
    BY DEF Open
  <2>2. PICK d \in Inos, n \in Names : HasName(dents, i, d, n)
    BY <2>1, LinkedInode
  <2> QED BY <2>2, NamedInode
<1>2. TypeInv
  BY DEF Inv
<1>3. /\ ops' \in 0..MaxOps /\ open' = [open EXCEPT ![i] = "yes"]
  BY <1>2, NamespaceAssumption DEF Open, TypeInv
<1>4. UNCHANGED <<inode, dents, parent, hint, orphanVars, op, saved>> /\ page' = page
  BY DEF Open, dirVars
<1>5. open' \in [Inos -> {"no", "yes", "tmpfile"}] /\ page' \in [Inos -> AnyInodes]
      /\ \A k \in Inos : k # i => open'[k] = open[k]
  BY <1>2, <1>3, <1>4 DEF TypeInv
<1> QED BY <1>1, <1>3, <1>4, <1>5, QuietKeeps

LEMMA CloseKeeps ==
  ASSUME Inv, NEW i \in Inos, Close(i)
  PROVE  Inv'
<1>1. TypeInv
  BY DEF Inv
<1>2. /\ ops' = ops /\ open' = [open EXCEPT ![i] = "no"]
      /\ UNCHANGED <<inode, dents, parent, hint, orphanVars, op, saved>> /\ page' = page
  BY DEF Close, dirVars
<1>3. open' \in [Inos -> {"no", "yes", "tmpfile"}] /\ page' \in [Inos -> AnyInodes] /\ ops' \in 0..MaxOps
      /\ open'[i] = "no" /\ \A k \in Inos : k # i => open'[k] = open[k]
  BY <1>1, <1>2 DEF TypeInv
<1> QED BY <1>2, <1>3, QuietKeeps

LEMMA WriteInodeKeeps ==
  ASSUME Inv, NEW i \in Inos, WriteInode(i)
  PROVE  Inv'
<1>1. TypeInv /\ PageInv(i)
  BY DEF Inv
<1>2. /\ ops' = ops /\ page' = [page EXCEPT ![i] = inode[i]] /\ open' = open
      /\ UNCHANGED <<inode, dents, parent, hint, orphanVars, op, saved>>
      /\ page[i] # NoInode
  BY DEF WriteInode, dirVars
<1>3. page[i].kind # "none"
  BY <1>1, <1>2 DEF PageInv
<1>4. open' \in [Inos -> {"no", "yes", "tmpfile"}] /\ page' \in [Inos -> AnyInodes] /\ ops' \in 0..MaxOps
      /\ page'[i] = inode[i] /\ \A k \in Inos : k # i => page'[k] = page[k]
  BY <1>1, <1>2 DEF TypeInv
<1> QED BY <1>2, <1>3, <1>4, QuietKeeps

\* A removed directory is above no other one.
LEMMA CycleOff ==
  ASSUME Inv, op' = op, NEW i \in Inos, ~LiveDir(i), ~LiveDir(i)',
         \A k \in Inos \ {i} : parent'[k] = parent[k] /\ (LiveDir(k)' => LiveDir(k))
  PROVE  CycleInv'
<1>1. NoCycle(parent', {k \in Inos : LiveDir(k)'})
  <2> SUFFICES ASSUME NEW S \in SUBSET {k \in Inos : LiveDir(k)'}, S # {}, Root \notin S,
                      \A k \in S : parent'[k] \in S
               PROVE  FALSE
    BY DEF NoCycle
  <2>1. \A k \in S : k \in Inos \ {i} /\ LiveDir(k)
    OBVIOUS
  <2>2. \A k \in S : parent[k] \in S
    BY <2>1
  <2>3. S \in SUBSET {k \in Inos : LiveDir(k)}
    BY <2>1
  <2> QED BY <2>2, <2>3 DEF Inv, CycleInv, NoCycle
<1>2. ASSUME NEW u \in Threads, CrossDir(u)',
             op'[u].pc \in {"replace", "replaced", "add", "moved", "exchange"}
      PROVE  /\ (op[u].ino \notin Above(op[u].toDir))'
             /\ op'[u].pc = "exchange" => (op[u].old \notin Above(op[u].dir))'
  <2>1. CrossDir(u)
    BY <1>2 DEF CrossDir
  <2>2. PICK e \in Inos, f \in Inos : e = op[u].toDir /\ f = op[u].dir
    BY InvTypes DEF Inv
  <2>3. LiveDir(e) /\ LiveDir(f)
    BY <1>2, <2>2 DEF Inv, OpInv, RenameInv
  <2>4. ASSUME NEW x \in Inos, LiveDir(x) PROVE Above(x)' \subseteq Above(x)
    <3>1. \A a \in Above(x) : a \in Inos /\ LiveDir(a)
      BY <2>4, AboveLive
    <3>2. \A a \in Above(x) : parent'[a] = parent[a]
      BY <3>1
    <3> QED BY <3>2, AboveSame DEF Inv
  <2>5. Above(e)' \subseteq Above(e) /\ Above(f)' \subseteq Above(f)
    BY <2>3, <2>4
  <2>6. op[u].ino \notin Above(e) /\ (op[u].pc = "exchange" => op[u].old \notin Above(f))
    BY <1>2, <2>1, <2>2 DEF Inv, CycleInv
  <2>7. op'[u].toDir = e /\ op'[u].dir = f /\ op'[u] = op[u]
    BY <2>2
  <2> QED BY <2>5, <2>6, <2>7
<1> QED BY <1>1, <1>2 DEF CycleInv

LEMMA EvictKeeps ==
  ASSUME Inv, NEW i \in Inos, Evict(i)
  PROVE  Inv'
<1>1. /\ inode[i] # NoInode /\ inode[i].nlink = 0 /\ open[i] = "no" /\ ~Busy(i) /\ RemoveOrphan(i)
      /\ inode' = [inode EXCEPT ![i] = NoInode] /\ page' = [page EXCEPT ![i] = NoInode]
      /\ dents' = [dents EXCEPT ![i] = {}] /\ parent' = [parent EXCEPT ![i] = Root]
      /\ hint' = [hint EXCEPT ![i] = NoHint]
      /\ open' = open /\ op' = op /\ saved' = saved /\ ops' = ops
  BY DEF Evict
<1>2. TypeInv /\ PageInv(i) /\ OrphanInv(i) /\ LinkInv(i) /\ inode[i].nlink \in Int
  BY InvTypes DEF Inv
<1>3. \A u \in Threads : i \notin Targets(u)
  BY <1>1, NotBusy
<1>4. ~Ahead(i) /\ ~Behind(i)
  <2>1. \A u \in Threads : op[u].pc # "idle" => i # op[u].ino /\ i # op[u].old
    BY <1>1, NotBusy
  <2> QED BY <2>1 DEF Ahead, Behind
<1>5. ~LiveDir(i) /\ i # Root /\ dents[i] = {}
  BY <1>1, <1>2 DEF LiveDir, Inv, RootInv, PageInv
<1>6. NamesOf(dents, i) = {}
  <2>1. CASE page[i].kind = "file"
    <3>1. Cardinality(NamesOf(dents, i)) = 0
      <4>1. Cardinality(NamesOf(dents, i)) \in Nat
        BY NamesFinite
      <4> QED BY <1>1, <1>2, <1>4, <2>1, <4>1 DEF LinkInv, Bit
    <3> QED BY <3>1, NamesFinite, FS_EmptySet
  <2>2. CASE page[i].kind # "file"
    <3>1. page[i].kind \in {"none", "file", "dir"}
      BY <1>2 DEF TypeInv, AnyInodes
    <3> QED BY <1>1, <1>2, <2>2, <3>1 DEF PageInv, LinkInv
  <2> QED BY <2>1, <2>2
<1>7. dents' = dents
  BY <1>1, <1>2, <1>5 DEF TypeInv
<1>8. /\ inode' \in [Inos -> AnyInodes] /\ page' \in [Inos -> AnyInodes]
      /\ inode'[i] = NoInode /\ page'[i] = NoInode
      /\ \A k \in Inos \ {i} : inode'[k] = inode[k] /\ page'[k] = page[k]
  <2>1. NoInode \in AnyInodes
    BY DirectoryAssumption DEF NoInode, AnyInodes
  <2> HIDE DEF NoInode
  <2> QED BY <1>1, <1>2, <2>1 DEF TypeInv
<1>9. /\ parent' \in [Inos -> Inos] /\ parent'[i] = Root
      /\ hint' \in [Inos -> Hints]
      /\ \A k \in Inos \ {i} : parent'[k] = parent[k] /\ hint'[k] = hint[k]
  <2>1. NoHint \in Hints /\ hint \in [Inos -> Hints]
    BY <1>2, DirectoryAssumption DEF NoHint, Hints, TypeInv
  <2> HIDE DEF NoHint
  <2> QED BY <1>1, <1>2, <2>1, NamespaceAssumption DEF TypeInv
<1>10. /\ orphans' \subseteq Inos /\ nOrphans' \in Int /\ nOrphans' <= MaxOrphans
       /\ i \notin orphans' /\ \A k \in Inos \ {i} : k \in orphans' <=> k \in orphans
       /\ Cardinality(orphans') \in Nat
       /\ nOrphans' - Cardinality(orphans') = nOrphans - Cardinality(orphans)
  BY <1>1, <1>2, RemoveStep
<1>11. Frame({}, {i}, {}) /\ \A k \in Inos \ {i} : LiveDir(k)' <=> LiveDir(k)
  <2>1. \A u \in Threads : Targets(u) \cap {i} = {}
    BY <1>3
  <2>2. \A k \in {i} : NamesOf(dents, k) = {} /\ ~LiveDir(k)
    BY <1>5, <1>6
  <2>3. \A k \in Inos \ {i} : /\ inode'[k] = inode[k] /\ hint'[k] = hint[k] /\ parent'[k] = parent[k]
                              /\ page'[k] = page[k] /\ (k \in orphans' <=> k \in orphans)
                              /\ open'[k] \in {"no", open[k]} \/ NamesOf(dents, k) # {}
    BY <1>1, <1>8, <1>9, <1>10
  <2> HIDE DEF Targets, LiveDir
  <2> QED BY <1>1, <1>5, <1>7, <2>1, <2>2, <2>3, QuietFrame
<1>12. TypeInv'
  BY <1>1, <1>2, <1>7, <1>8, <1>9, <1>10 DEF TypeInv, Hints
<1>13. ~LiveDir(i)'
  BY <1>8 DEF LiveDir, NoInode
<1>14. PageInv(i)' /\ OrphanInv(i)' /\ LinkInv(i)'
  <2>1. page'[i].kind = "none" /\ inode'[i].nlink = 0 /\ page'[i].nlink = 0
    BY <1>8 DEF NoInode
  <2>2. PageInv(i)'
    <3>1. NamesOf(dents', i) = {} /\ dents'[i] = {} /\ open'[i] = "no"
      BY <1>1, <1>5, <1>6, <1>7
    <3>2. /\ inode'[i] = NoInode /\ page'[i] = NoInode /\ parent'[i] = Root /\ i \notin orphans'
      BY <1>8, <1>9, <1>10
    <3> QED BY <2>1, <3>1, <3>2 DEF PageInv
  <2>3. LinkInv(i)'
    BY <1>13, <2>1 DEF LinkInv
  <2> QED BY <1>10, <2>1, <2>2, <2>3 DEF OrphanInv
<1>15. DirsFound'
  <2>1. EntriesFound(dents'[i], inode'[i].depth)
    BY <1>5, <1>7 DEF EntriesFound
  <2>2. \A k \in Inos \ {i} : EntriesFound(dents'[k], inode'[k].depth)
    BY <1>7, <1>8 DEF Inv, DirsFound
  <2>3. \A k \in Inos : EntriesFound(dents'[k], inode'[k].depth)
    BY <2>1, <2>2
  <2> QED BY <2>3 DEF DirsFound
<1>16. CycleInv'
  BY <1>1, <1>5, <1>9, <1>11, <1>13, CycleOff
<1>17. OrphanCount'
  <2>1. Reserving' = Reserving
    BY <1>1 DEF Reserving
  <2>2. IsFiniteSet(Reserving) /\ Cardinality(Reserving) \in Nat
    <3>1. Reserving \subseteq Threads
      BY DEF Reserving
    <3> QED BY <3>1, NamespaceAssumption, FS_Subset, FS_CardinalityType
  <2>3. nOrphans = Cardinality(orphans) + Cardinality(Reserving) /\ Cardinality(orphans) \in Nat
    BY OrphansFinite DEF Inv, OrphanCount
  <2> QED BY <1>10, <2>1, <2>2, <2>3 DEF OrphanCount
<1>18. SavedInv'
  BY <1>1 DEF Inv, SavedInv, SavedTreeConsistent
<1>19. \A k \in {i} : PageInv(k)' /\ OrphanInv(k)' /\ LinkInv(k)'
  BY <1>14
<1>20. \A u \in {} : OpInv(u)'
  OBVIOUS
<1> QED BY <1>11, <1>12, <1>15, <1>16, <1>17, <1>18, <1>19, <1>20, Assemble

-----------------------------------------------------------------------------
(* The steps of f2fs_unlink().                                             *)

LEMMA DeleteEntryKeeps ==
  ASSUME Inv, NEW t \in Threads, DeleteEntry(t)
  PROVE  Inv'
<1>0. PICK i \in Inos, d \in Inos, n \in {op[t].name} : i = op[t].ino /\ d = op[t].dir /\ n = op[t].name
  BY InvTypes DEF Inv
<1> DEFINE a == IF IsDir(i) THEN 2 ELSE 1
           b == IF IsDir(i) THEN 1 ELSE 0
           S == IF IsDir(i) THEN {i, d} ELSE {i}
<1>1. /\ op[t].pc = "unlink" /\ DeletesEntry(d, n)
      /\ inode' = [inode EXCEPT ![i].nlink = @ - a, ![d].nlink = @ - b]
      /\ UpdateInodePages(S) /\ Goto(t, "settle")
      /\ parent' = parent /\ hint' = hint /\ orphans' = orphans /\ nOrphans' = nOrphans
      /\ open' = open /\ saved' = saved
  BY <1>0 DEF DeleteEntry, DeletesEntry, orphanVars
<1>2. /\ op[t].what = "unlink" /\ {d, i} \subseteq op[t].locks /\ LiveDir(d)
      /\ n \in Names /\ HasName(dents, i, d, n)
      /\ IsDir(i) => NamesOf(dents, i) = {<<d, n>>} /\ dents[i] = {}
      /\ {i} \cap {Root, d, op[t].toDir} = {} /\ Targets(t) = {i}
  BY <1>0, <1>1 DEF Inv, OpInv, UnlinkInv, OnlyAt, Targets
<1>3. /\ TypeInv /\ DirsFound /\ PageInv(i) /\ OrphanInv(i) /\ LinkInv(i)
      /\ PageInv(d) /\ LinkInv(d) /\ inode[i].nlink \in Int /\ inode[d].nlink \in Int
  BY InvTypes DEF Inv
<1>4. /\ <<d, n>> \in NamesOf(dents, i)
      /\ page[i].kind = inode[i].kind /\ page[i].kind \in {"file", "dir"}
      /\ IsDir(i) => LiveDir(i)
      /\ i \notin orphans
  BY <1>2, NamedInode
<1>5. /\ op' \in [Threads -> OpTypes] /\ ops' = ops
      /\ \A u \in Threads \ {t} : op'[u] = op[u]
      /\ op'[t].pc = "settle" /\ op'[t].what = op[t].what /\ op'[t].locks = op[t].locks
      /\ op'[t].dir = d /\ op'[t].ino = i /\ op'[t].toDir = op[t].toDir
  BY <1>0, <1>1, <1>3, GotoStep DEF Pcs
<1>6. /\ a \in Int /\ b \in Int /\ b = Bit(IsDir(i))
      /\ IsDir(i) => a = 2 /\ S = {i, d}
      /\ ~IsDir(i) => a = 1 /\ b = 0 /\ S = {i}
  BY DEF Bit
<1> HIDE DEF a, b, S
<1>7. /\ inode' \in [Inos -> AnyInodes]
      /\ \A k \in Inos : inode'[k].kind = inode[k].kind /\ inode'[k].depth = inode[k].depth
      /\ \A k \in Inos \ {i, d} : inode'[k] = inode[k]
      /\ inode'[i].nlink = inode[i].nlink - a /\ inode'[d].nlink = inode[d].nlink - b
      /\ b = 0 => inode'[d] = inode[d]
  <2>1. inode \in [Inos -> AnyInodes] /\ \A k \in Inos : inode[k] \in AnyInodes
    BY <1>3 DEF TypeInv
  <2>2. /\ inode'[i] = [inode[i] EXCEPT !.nlink = inode[i].nlink - a]
        /\ inode'[d] = [inode[d] EXCEPT !.nlink = inode[d].nlink - b]
        /\ \A k \in Inos \ {i, d} : inode'[k] = inode[k]
        /\ DOMAIN inode' = Inos /\ inode' = [k \in Inos |-> inode'[k]]
    BY <1>1, <1>2, <2>1
  <2>3. \A x \in AnyInodes, c \in Int :
          /\ [x EXCEPT !.nlink = x.nlink - c] \in AnyInodes
          /\ [x EXCEPT !.nlink = x.nlink - c].kind = x.kind
          /\ [x EXCEPT !.nlink = x.nlink - c].depth = x.depth
          /\ [x EXCEPT !.nlink = x.nlink - c].nlink = x.nlink - c
          /\ c = 0 => [x EXCEPT !.nlink = x.nlink - c] = x
    BY DEF AnyInodes
  <2>4. \A k \in Inos : inode'[k] \in AnyInodes
    BY <1>6, <2>1, <2>2, <2>3
  <2>5. inode' \in [Inos -> AnyInodes]
    BY <2>2, <2>4
  <2>6. /\ inode'[i].kind = inode[i].kind /\ inode'[i].depth = inode[i].depth
        /\ inode'[i].nlink = inode[i].nlink - a
    BY <1>6, <2>1, <2>2, <2>3
  <2>7. /\ inode'[d].kind = inode[d].kind /\ inode'[d].depth = inode[d].depth
        /\ inode'[d].nlink = inode[d].nlink - b /\ (b = 0 => inode'[d] = inode[d])
    BY <1>6, <2>1, <2>2, <2>3
  <2> QED BY <2>2, <2>5, <2>6, <2>7
<1>8. /\ page' \in [Inos -> AnyInodes]
      /\ \A k \in Inos : page'[k] = IF k \in S THEN inode'[k] ELSE page[k]
  BY <1>1, <1>3, <1>7, UpdateStep
<1>9. /\ Taken(d, n)
      /\ \A k : HasName(dents, k, d, n) <=> k = i
  BY <1>2, <1>3, EntryByName
<1>10. /\ dents' \in Directories
       /\ \A k \in Inos \ {d} : dents'[k] = dents[k]
       /\ \A k, f \in Inos, m \in Names :
            HasName(dents', k, f, m) <=> HasName(dents, k, f, m) /\ ~(f = d /\ m = n)
       /\ \A k \in Inos : NamesOf(dents', k) = NamesOf(dents, k) \ {<<d, n>>}
       /\ EntriesFound(dents'[d], inode[d].depth)
  BY <1>1, <1>2, <1>3, <1>9, DeleteStep
<1>11. \A k \in Inos \ {i} : NamesOf(dents', k) = NamesOf(dents, k)
  <2>1. \A k \in Inos \ {i} : <<d, n>> \notin NamesOf(dents, k)
    BY <1>2, <1>9, NamesMember
  <2> QED BY <1>10, <2>1
<1>12. /\ \A u \in Threads \ {t} : i \notin Targets(u)
       /\ Targets(t)' = {i} /\ ~CrossDir(t)' /\ \A k : ~DoubledBy(t, k) /\ ~DoubledBy(t, k)'
  BY <1>1, <1>2, <1>5, Exclusive DEF Targets, CrossDir, DoubledBy
<1>13. ~Ahead(i) /\ ~Ahead(i)' /\ ~Behind(i) /\ ~Behind(i)' /\ Losing(i)'
  <2>1. \A u \in Threads \ {t} : op'[u] = op[u] /\ i \notin Targets(u)
    BY <1>5, <1>12
  <2>2. op[t].pc = "unlink" /\ op'[t].pc = "settle" /\ op'[t].ino = i
    BY <1>1, <1>5
  <2> QED BY <2>1, <2>2, OnlyActor
<1>14. inode'[d].nlink = 2 + Cardinality(Subdirs(dents', inode', d)) + Bit(Doubled(d)')
  <2>1. inode[d].nlink = 2 + Cardinality(Subdirs(dents, inode, d)) + Bit(Doubled(d))
    BY <1>2, <1>3 DEF LinkInv
  <2>2. ~Doubled(d) /\ ~Doubled(d)'
    BY <1>2, <1>5, <1>12, DoubledHeld
  <2>3. \A k \in Inos \ {i}, m \in Names : HasName(dents', k, d, m) <=> HasName(dents, k, d, m)
    BY <1>2, <1>9, <1>10
  <2>4. /\ Cardinality(Subdirs(dents, inode, d)) \in Nat /\ Cardinality(Subdirs(dents', inode', d)) \in Nat
        /\ Cardinality(Subdirs(dents', inode', d)) = Cardinality(Subdirs(dents, inode, d))
              + Bit(IsDir(i) /\ \E m \in Names : HasName(dents', i, d, m))
              - Bit(IsDir(i) /\ \E m \in Names : HasName(dents, i, d, m))
    BY <1>3, <1>7, <1>10, <2>3, SubdirsStep
  <2>5. IsDir(i) => (\E m \in Names : HasName(dents, i, d, m)) /\ ~\E m \in Names : HasName(dents', i, d, m)
    <3>1. IsDir(i) => \A m \in Names : HasName(dents, i, d, m) => m = n
      BY <1>2, NamesMember
    <3> QED BY <1>2, <1>10, <3>1
  <2> QED BY <1>3, <1>6, <1>7, <2>1, <2>2, <2>4, <2>5 DEF Bit
<1>15. LiveDir(d)' /\ page'[d].kind = page[d].kind
  <2>1. inode'[d].nlink # 0
    BY <1>14, NamesFinite DEF Bit
  <2>2. page[d].kind = "dir" /\ inode[d].kind = "dir"
    BY <1>2, <1>3 DEF LiveDir, PageInv
  <2> QED BY <1>7, <1>8, <2>1, <2>2 DEF LiveDir
<1>16. /\ IsDir(i) => inode'[i].nlink = 0
       /\ ~IsDir(i) => inode'[i].nlink = Cardinality(NamesOf(dents', i))
       /\ inode'[i].nlink >= 0
       /\ page'[i] = inode'[i] /\ page'[i].kind = inode[i].kind
  <2>1. CASE IsDir(i)
    <3>1. Subdirs(dents, inode, i) = {}
      BY <1>2, <2>1 DEF Subdirs
    <3>2. Cardinality(Subdirs(dents, inode, i)) = 0
      BY <3>1, FS_EmptySet
    <3>3. ~Doubled(i)
      BY <1>2, <1>5, <1>12, DoubledHeld
    <3>4. inode[i].nlink = 2 + Cardinality(Subdirs(dents, inode, i)) + Bit(Doubled(i))
      BY <1>3, <1>4, <2>1 DEF LinkInv
    <3> QED BY <1>6, <1>7, <1>8, <2>1, <3>2, <3>3, <3>4 DEF Bit
  <2>2. CASE ~IsDir(i)
    <3>1. page[i].kind = "file"
      BY <1>4, <2>2 DEF IsDir
    <3>2. Cardinality(NamesOf(dents, i)) \in Nat /\ IsFiniteSet(NamesOf(dents, i))
      BY NamesFinite
    <3>3. Cardinality(NamesOf(dents', i)) = Cardinality(NamesOf(dents, i)) - 1
          /\ Cardinality(NamesOf(dents', i)) \in Nat
      <4>1. Cardinality(NamesOf(dents', i)) = Cardinality(NamesOf(dents, i)) - 1
        BY <1>4, <1>10, <3>2, FS_RemoveElement
      <4> QED BY <4>1, NamesFinite
    <3>4. inode[i].nlink = Cardinality(NamesOf(dents, i))
      BY <1>3, <1>13, <3>1, <3>2 DEF LinkInv, Bit
    <3> QED BY <1>3, <1>6, <1>7, <1>8, <2>2, <3>2, <3>3, <3>4
  <2> QED BY <2>1, <2>2
<1>17. \A k \in Inos \ {i} : LiveDir(k)' <=> LiveDir(k)
  <2>1. \A k \in Inos \ {i, d} : LiveDir(k)' <=> LiveDir(k)
    BY <1>6, <1>7, <1>8 DEF LiveDir
  <2> QED BY <1>2, <1>15, <2>1
<1>18. ~LiveDir(i)' /\ dents'[i] = {}
  <2>1. ~LiveDir(i)'
    BY <1>16 DEF LiveDir, IsDir
  <2>2. dents[i] = {}
    BY <1>2, <1>3, <1>4 DEF PageInv, LiveDir, IsDir
  <2> QED BY <1>2, <1>10, <2>1, <2>2
<1>19. Frame({t}, {i}, {d, i})
  <2>1. \A k \in Inos \ {d, i} : LiveDir(k) =>
           LiveDir(k)' /\ dents'[k] = dents[k] /\ hint'[k] = hint[k] /\ inode'[k].depth = inode[k].depth
    BY <1>1, <1>7, <1>10, <1>17
  <2>2. \A k \in Inos \ {i} : Kept(k, {d, i})
    <3>1. page[d].kind # "none"
      BY <1>2 DEF LiveDir
    <3>2. ASSUME NEW k \in Inos \ {i} PROVE Kept(k, {d, i})
      <4>1. page'[k] = page[k] \/ (page[k].kind # "none" /\ page'[k] = inode'[k])
        BY <1>6, <1>8, <3>1
      <4>2. page'[k] = inode'[k] \/ inode'[k] = inode[k]
        BY <1>6, <1>7, <1>8
      <4> QED BY <1>1, <1>7, <1>10, <1>11, <4>1, <4>2 DEF Kept
    <3> QED BY <3>2
  <2>3. Counted(d)'
    BY <1>14, <1>15 DEF Counted, Bit
  <2>4. {d, i} \subseteq op[t].locks /\ op'[t].locks \subseteq op[t].locks
    BY <1>2, <1>5
  <2>5. \A k \in {d, i} : k \in Targets(t) \/ (LiveDir(k) /\ Counted(k)')
    BY <1>2, <2>3
  <2>6. Targets(t)' \subseteq Targets(t) /\ (CrossDir(t)' => CrossDir(t))
    BY <1>2, <1>12
  <2> HIDE DEF Targets, LiveDir
  <2>7. Frame({t}, Targets(t), {d, i})
    <3>1. /\ \A u \in Threads \ {t} : op'[u] = op[u]
          /\ \A k \in Inos : NamesOf(dents, k) # {} => inode'[k].kind = inode[k].kind
          /\ \A k \in Inos \ {d, i} : DoubledBy(t, k)' <=> DoubledBy(t, k)
      BY <1>5, <1>7, <1>12
    <3>2. \A k \in Inos \ Targets(t) : Kept(k, {d, i})
      BY <1>2, <2>2
    <3> QED BY <2>1, <2>4, <2>5, <2>6, <3>1, <3>2, MoveFrame
  <2> QED BY <1>2, <2>7
<1>20. TypeInv'
  BY <1>1, <1>3, <1>5, <1>7, <1>8, <1>10 DEF TypeInv, Directories
<1>21. OpInv(t)'
  <2>1. UnlinkInv(t)'
    <3>1. /\ op'[t].pc = "settle" /\ op'[t].what = "unlink" /\ op'[t].dir = d /\ op'[t].ino = i
          /\ {d, i} \subseteq op'[t].locks /\ LiveDir(d)'
      BY <1>2, <1>5, <1>15
    <3>2. /\ page'[i].kind # "none" /\ page'[i] = inode'[i] /\ i \notin orphans'
          /\ inode'[i].kind = "dir" => inode'[i].nlink = 0
      BY <1>1, <1>4, <1>7, <1>16 DEF IsDir
    <3> QED BY <3>1, <3>2 DEF UnlinkInv, IsDir
  <2>2. AddInv(t)' /\ RenameInv(t)'
    BY <1>5 DEF AddInv, RenameInv
  <2> QED BY <1>2, <1>5, <1>12, <2>1, <2>2 DEF OpInv
<1>22. PageInv(i)' /\ OrphanInv(i)' /\ LinkInv(i)'
  <2>1. PageInv(i)'
    BY <1>4, <1>16, <1>18 DEF PageInv
  <2>2. OrphanInv(i)'
    BY <1>1, <1>4, <1>13 DEF OrphanInv
  <2>3. LinkInv(i)'
    <3>1. page'[i].kind = "file" =>
            inode'[i].nlink = Cardinality(NamesOf(dents', i)) + Bit(Ahead(i)') - Bit(Behind(i)')
      <4>1. Cardinality(NamesOf(dents', i)) \in Nat
        BY NamesFinite
      <4> QED BY <1>13, <1>16, <4>1 DEF Bit, IsDir
    <3>2. page'[i].kind = "dir" => NamesOf(dents', i) = {}
      BY <1>2, <1>10, <1>16 DEF IsDir
    <3> QED BY <1>18, <3>1, <3>2 DEF LinkInv
  <2> QED BY <2>1, <2>2, <2>3
<1>23. DirsFound'
  <2>1. \A k \in Inos : EntriesFound(dents'[k], inode'[k].depth)
    BY <1>3, <1>7, <1>10 DEF DirsFound
  <2> QED BY <2>1 DEF DirsFound
<1>24. CycleInv'
  BY <1>1, <1>5, <1>12, <1>17, <1>18, CycleOthers
<1>25. OrphanCount'
  <2>1. Cardinality(Reserving') = Cardinality(Reserving)
    BY <1>1, <1>5, ReservingStep
  <2> QED BY <1>1, <2>1 DEF Inv, OrphanCount
<1>26. SavedInv'
  BY <1>1 DEF Inv, SavedInv, SavedTreeConsistent
<1>27. \A u \in {t} : OpInv(u)'
  BY <1>21
<1>28. \A k \in {i} : PageInv(k)' /\ OrphanInv(k)' /\ LinkInv(k)'
  BY <1>22
<1> QED BY <1>19, <1>20, <1>23, <1>24, <1>25, <1>26, <1>27, <1>28, Assemble

LEMMA DeleteSettleKeeps ==
  ASSUME Inv, NEW t \in Threads, DeleteSettle(t)
  PROVE  Inv'
<1>0. PICK i \in Inos : i = op[t].ino
  BY InvTypes DEF Inv
<1>1. /\ op[t].pc = "settle" /\ SettleOrphan(i) /\ Finish(t)
      /\ inode' = inode /\ page' = page /\ dents' = dents /\ parent' = parent /\ hint' = hint
      /\ open' = open /\ saved' = saved
  BY <1>0 DEF DeleteSettle, dirVars
<1>2. /\ page[i].kind # "none" /\ page[i] = inode[i] /\ i \notin orphans
      /\ IsDir(i) => inode[i].nlink = 0
      /\ Targets(t) = {i} /\ i # Root
      /\ TypeInv /\ PageInv(i) /\ OrphanInv(i) /\ LinkInv(i)
  BY <1>0, <1>1 DEF Inv, OpInv, UnlinkInv, Targets
<1>3. /\ op' \in [Threads -> OpTypes] /\ ops' = ops
      /\ \A u \in Threads \ {t} : op'[u] = op[u]
      /\ op'[t] = Idle /\ op'[t].pc = "idle"
  BY <1>1, <1>2, FinishStep
<1>4. /\ Targets(t)' = {} /\ ~CrossDir(t)' /\ \A k : ~DoubledBy(t, k) /\ ~DoubledBy(t, k)'
      /\ op'[t].locks = {}
  <2>1. op'[t].locks = {} /\ op'[t].what = "none"
    BY <1>3 DEF Idle
  <2> QED BY <1>1, <1>3, <2>1 DEF Targets, CrossDir, DoubledBy
<1>5. ~Ahead(i) /\ ~Ahead(i)' /\ ~Behind(i) /\ ~Behind(i)' /\ ~Losing(i)'
      /\ ~\E u \in Threads : op'[u].ino = i /\ op'[u].pc = "tmpfile"
  <2>1. \A u \in Threads \ {t} : op'[u] = op[u] /\ i \notin Targets(u)
    BY <1>2, <1>3, Exclusive
  <2>2. op[t].pc = "settle" /\ op'[t].pc = "idle"
    BY <1>1, <1>3
  <2> QED BY <2>1, <2>2, OnlyActor
<1>6. /\ orphans' \subseteq Inos /\ nOrphans' \in Int /\ nOrphans' <= MaxOrphans
      /\ i \in orphans' <=> inode[i].nlink = 0
      /\ \A k \in Inos \ {i} : k \in orphans' <=> k \in orphans
      /\ Cardinality(orphans') \in Nat
      /\ nOrphans' - Cardinality(orphans') = nOrphans - Cardinality(orphans) - 1
  BY <1>1, <1>2, SettleStep
<1>7. \A k \in Inos : LiveDir(k)' <=> LiveDir(k)
  BY <1>1 DEF LiveDir
<1>8. ~LiveDir(i) /\ ~LiveDir(i)'
  BY <1>2, <1>7 DEF LiveDir, IsDir
<1>9. inode[i].nlink = 0 => NamesOf(dents, i) = {}
  <2>1. CASE page[i].kind = "file"
    <3>1. inode[i].nlink = 0 => Cardinality(NamesOf(dents, i)) = 0
      <4>1. Cardinality(NamesOf(dents, i)) \in Nat
        BY NamesFinite
      <4> QED BY <1>2, <1>5, <2>1, <4>1 DEF LinkInv, Bit
    <3> QED BY <3>1, NamesFinite, FS_EmptySet
  <2>2. CASE page[i].kind # "file"
    <3>1. page[i].kind \in {"none", "file", "dir"}
      BY <1>2 DEF TypeInv, AnyInodes
    <3> QED BY <1>2, <2>2, <3>1 DEF LinkInv
  <2> QED BY <2>1, <2>2
<1>10. Frame({t}, {i}, {})
  <2>1. \A k \in Inos : LiveDir(k) =>
           LiveDir(k)' /\ dents'[k] = dents[k] /\ hint'[k] = hint[k] /\ inode'[k].depth = inode[k].depth
    BY <1>1, <1>7
  <2>2. \A k \in Inos \ {i} : Kept(k, {})
    BY <1>1, <1>6 DEF Kept
  <2>3. \A k \in Inos : NamesOf(dents, k) # {} => inode'[k].kind = inode[k].kind
    BY <1>1
  <2> HIDE DEF Targets, LiveDir
  <2> QED BY <1>2, <1>3, <1>4, <2>1, <2>2, <2>3, MoveFrame
<1>11. TypeInv'
  BY <1>1, <1>2, <1>3, <1>6 DEF TypeInv
<1>12. OpInv(t)'
  BY <1>3 DEF OpInv, AddInv, UnlinkInv, RenameInv, Targets
<1>13. PageInv(i)' /\ OrphanInv(i)' /\ LinkInv(i)'
  <2>1. PageInv(i)'
    BY <1>1, <1>2, <1>8 DEF PageInv
  <2>2. OrphanInv(i)'
    BY <1>1, <1>6, <1>9 DEF OrphanInv
  <2>3. LinkInv(i)'
    BY <1>1, <1>2, <1>5, <1>8 DEF LinkInv, Bit
  <2> QED BY <2>1, <2>2, <2>3
<1>14. DirsFound' /\ SavedInv'
  BY <1>1 DEF Inv, DirsFound, SavedInv, SavedTreeConsistent
<1>15. CycleInv'
  BY <1>1, <1>3, <1>4, <1>7, CycleOthers
<1>16. OrphanCount'
  <2>1. Cardinality(Reserving') = Cardinality(Reserving) - 1 /\ Cardinality(Reserving) \in Nat
    BY <1>1, <1>3, ReservingStep
  <2>2. nOrphans = Cardinality(orphans) + Cardinality(Reserving) /\ Cardinality(orphans) \in Nat
    BY <1>2, OrphansFinite DEF Inv, OrphanCount
  <2> QED BY <1>6, <2>1, <2>2 DEF OrphanCount
<1>17. \A u \in {t} : OpInv(u)'
  BY <1>12
<1>18. \A k \in {i} : PageInv(k)' /\ OrphanInv(k)' /\ LinkInv(k)'
  BY <1>13
<1> QED BY <1>10, <1>11, <1>14, <1>15, <1>16, <1>17, <1>18, Assemble

-----------------------------------------------------------------------------
(* The steps of f2fs_rename2().                                            *)

\* An inode loses a name, or gets one.
LEMMA NameGone ==
  ASSUME NEW k, NEW p, NamesOf(dents', k) = NamesOf(dents, k) \ {p}, p \in NamesOf(dents, k)
  PROVE  /\ Cardinality(NamesOf(dents', k)) \in Nat
         /\ Cardinality(NamesOf(dents, k)) = Cardinality(NamesOf(dents', k)) + 1
<1>1. /\ IsFiniteSet(NamesOf(dents, k)) /\ Cardinality(NamesOf(dents, k)) \in Nat
      /\ Cardinality(NamesOf(dents', k)) \in Nat
  BY NamesFinite
<1>2. Cardinality(NamesOf(dents', k)) = Cardinality(NamesOf(dents, k)) - 1
  BY <1>1, FS_RemoveElement
<1> QED BY <1>1, <1>2

LEMMA NameCame ==
  ASSUME NEW k, NEW p, NamesOf(dents', k) = NamesOf(dents, k) \cup {p}, p \notin NamesOf(dents, k)
  PROVE  /\ Cardinality(NamesOf(dents, k)) \in Nat
         /\ Cardinality(NamesOf(dents', k)) = Cardinality(NamesOf(dents, k)) + 1
BY NamesFinite, FS_AddElement

\* A step that changes the names of two inodes in a directory
LEMMA SubdirsStep2 ==
  ASSUME TypeInv, dents' \in Directories, NEW d \in Inos, NEW i \in Inos, NEW j \in Inos, i # j,
         \A k \in Inos : inode'[k].kind = inode[k].kind,
         \A k \in Inos \ {i, j}, n \in Names : HasName(dents', k, d, n) <=> HasName(dents, k, d, n)
  PROVE  /\ Cardinality(Subdirs(dents, inode, d)) \in Nat /\ Cardinality(Subdirs(dents', inode', d)) \in Nat
         /\ Cardinality(Subdirs(dents', inode', d)) = Cardinality(Subdirs(dents, inode, d))
              + Bit(IsDir(i) /\ \E n \in Names : HasName(dents', i, d, n))
              - Bit(IsDir(i) /\ \E n \in Names : HasName(dents, i, d, n))
              + Bit(IsDir(j) /\ \E n \in Names : HasName(dents', j, d, n))
              - Bit(IsDir(j) /\ \E n \in Names : HasName(dents, j, d, n))
<1>1. dents \in Directories
  BY DEF TypeInv, Directories
<1> DEFINE S == Subdirs(dents, inode, d)
           U == Subdirs(dents', inode', d)
           V == IF j \in U THEN S \cup {j} ELSE S \ {j}
<1>2. \A k \in Inos : /\ k \in S <=> inode[k].kind = "dir" /\ \E n \in Names : HasName(dents, k, d, n)
                      /\ k \in U <=> inode[k].kind = "dir" /\ \E n \in Names : HasName(dents', k, d, n)
  <2> TAKE k \in Inos
  <2>1. k \in S <=> inode[k].kind = "dir" /\ \E n \in Names : <<d, n>> \in NamesOf(dents, k)
    BY <1>1, SubdirsMember
  <2>2. k \in U <=> inode'[k].kind = "dir" /\ \E n \in Names : <<d, n>> \in NamesOf(dents', k)
    BY SubdirsMember
  <2> QED BY <2>1, <2>2, NamesMember
<1>3. /\ \A k : k # i => (k \in U <=> k \in V)
      /\ \A k : k # j => (k \in V <=> k \in S)
      /\ (i \in V <=> i \in S) /\ (j \in V <=> j \in U)
  <2>1. S \subseteq Inos /\ U \subseteq Inos
    BY DEF Subdirs
  <2> HIDE DEF S, U
  <2> QED BY <1>2, <2>1
<1>4. IsFiniteSet(S) /\ IsFiniteSet(U) /\ IsFiniteSet(V)
  <2>1. IsFiniteSet(S) /\ IsFiniteSet(U)
    BY NamesFinite
  <2> HIDE DEF S, U
  <2>2. IsFiniteSet(S \cup {j}) /\ IsFiniteSet(S \ {j})
    BY <2>1, FS_AddElement, FS_RemoveElement
  <2> QED BY <2>1, <2>2
<1> HIDE DEF S, U, V
<1>5. /\ Cardinality(S) \in Nat /\ Cardinality(V) \in Nat
      /\ Cardinality(V) = Cardinality(S) + Bit(j \in V) - Bit(j \in S)
  BY <1>3, <1>4, CountStep
<1>6. /\ Cardinality(U) \in Nat
      /\ Cardinality(U) = Cardinality(V) + Bit(i \in U) - Bit(i \in V)
  BY <1>3, <1>4, CountStep
<1>7. /\ Bit(i \in U) = Bit(IsDir(i) /\ \E n \in Names : HasName(dents', i, d, n))
      /\ Bit(i \in V) = Bit(IsDir(i) /\ \E n \in Names : HasName(dents, i, d, n))
      /\ Bit(j \in V) = Bit(IsDir(j) /\ \E n \in Names : HasName(dents', j, d, n))
      /\ Bit(j \in S) = Bit(IsDir(j) /\ \E n \in Names : HasName(dents, j, d, n))
  BY <1>2, <1>3 DEF Bit, IsDir
<1>8. \A p : Bit(p) \in Int
  BY DEF Bit
<1> QED BY <1>5, <1>6, <1>7, <1>8 DEF S, U

\* No cycle is made by moving the directories M to directories that none of them is above.
LEMMA NoCycleMoved ==
  ASSUME Inv, NEW M \in SUBSET Inos, \A k \in Inos \ M : parent'[k] = parent[k],
         \A k \in M : parent'[k] \in Inos /\ Above(parent'[k]) \cap M = {},
         \A k \in Inos : LiveDir(k)' => LiveDir(k)
  PROVE  NoCycle(parent', {k \in Inos : LiveDir(k)'})
<1> SUFFICES ASSUME NEW S \in SUBSET {k \in Inos : LiveDir(k)'}, S # {}, Root \notin S,
                    \A k \in S : parent'[k] \in S
             PROVE  FALSE
  BY DEF NoCycle
<1>1. \A k \in S : k \in Inos /\ LiveDir(k)
  OBVIOUS
<1>2. ASSUME NEW U \in SUBSET S, U # {}, \A k \in U : parent[k] \in U PROVE FALSE
  <2>1. U \in SUBSET {k \in Inos : LiveDir(k)} /\ Root \notin U
    BY <1>1, <1>2
  <2> QED BY <1>2, <2>1 DEF Inv, CycleInv, NoCycle
<1>3. CASE S \cap M = {}
  <2>1. \A k \in S : parent[k] \in S
    BY <1>1, <1>3
  <2> QED BY <1>2, <2>1
<1>4. CASE S \cap M # {}
  <2>1. PICK i \in S : i \in M
    BY <1>4
  <2>2. PICK e \in Inos : e = parent'[i] /\ e \in S /\ Above(e) \cap M = {}
    BY <2>1
  <2> DEFINE U == S \cap Above(e)
  <2>3. e \in Above(e) /\ \A x \in Above(e) : parent[x] \in Above(e)
    BY AboveClosed DEF Inv
  <2>4. U # {}
    BY <2>2, <2>3
  <2>5. \A k \in U : parent[k] \in U
    <3> TAKE k \in U
    <3>1. parent'[k] = parent[k]
      BY <1>1, <2>2
    <3> QED BY <2>3, <3>1
  <2> HIDE DEF U
  <2>6. U \in SUBSET S
    BY DEF U
  <2> QED BY <1>2, <2>4, <2>5, <2>6
<1> QED BY <1>3, <1>4

\* The end of the part of a rename in which it may move a directory
LEMMA CycleMoved ==
  ASSUME Inv, NEW t \in Threads, \A u \in Threads \ {t} : op'[u] = op[u],
         NoCycle(parent', {k \in Inos : LiveDir(k)'}),
         parent' = parent \/ CrossDir(t),
         op'[t].pc \notin {"replace", "replaced", "add", "moved", "exchange"}
  PROVE  CycleInv'
<1>1. ASSUME NEW u \in Threads, CrossDir(u)',
             op'[u].pc \in {"replace", "replaced", "add", "moved", "exchange"}
      PROVE  /\ (op[u].ino \notin Above(op[u].toDir))'
             /\ op'[u].pc = "exchange" => (op[u].old \notin Above(op[u].dir))'
  <2>1. u # t /\ op'[u] = op[u] /\ CrossDir(u)
    BY <1>1 DEF CrossDir
  <2>2. parent' = parent
    BY <2>1, Exclusive
  <2>3. PICK e \in Inos, f \in Inos : e = op[u].toDir /\ f = op[u].dir
    BY InvTypes DEF Inv
  <2>4. Above(e)' = Above(e) /\ Above(f)' = Above(f)
    BY <2>2 DEF Above
  <2>5. op[u].ino \notin Above(e) /\ (op[u].pc = "exchange" => op[u].old \notin Above(f))
    BY <1>1, <2>1, <2>3 DEF Inv, CycleInv
  <2>6. op'[u].toDir = e /\ op'[u].dir = f
    BY <2>1, <2>3
  <2> QED BY <2>1, <2>4, <2>5, <2>6
<1> QED BY <1>1 DEF CycleInv

LEMMA AbsentRemoved ==
  ASSUME NEW N, NEW p, p \notin N
  PROVE  (N \ {p}) \cup {} = N
OBVIOUS

LEMMA RenameReplaceKeeps ==
  ASSUME Inv, NEW t \in Threads, RenameReplace(t)
  PROVE  Inv'
<1>0. PICK i \in Inos, old \in Inos, d \in Inos, e \in Inos, n \in {op[t].name}, m \in {op[t].toName} :
         /\ i = op[t].ino /\ old = op[t].old /\ d = op[t].dir /\ e = op[t].toDir
         /\ n = op[t].name /\ m = op[t].toName
  BY InvTypes DEF Inv
<1> DEFINE a == IF IsDir(old) THEN 2 ELSE 1
<1>1. /\ op[t].pc = "replace" /\ SetsLink(e, m, i)
      /\ inode' = [inode EXCEPT ![old].nlink = @ - a]
      /\ Goto(t, "replaced") /\ page' = page /\ parent' = parent /\ hint' = hint
      /\ orphans' = orphans /\ nOrphans' = nOrphans /\ open' = open /\ saved' = saved
  BY <1>0 DEF RenameReplace, SetsLink, orphanVars
<1>2. /\ op[t].what = "rename" /\ {d, e, old} \subseteq op[t].locks /\ LiveDir(d) /\ LiveDir(e)
      /\ n \in Names /\ m \in Names /\ <<d, n>> # <<e, m>>
      /\ page[i].kind # "none" /\ page[old].kind # "none" /\ (~IsDir(i) => i \in op[t].locks)
      /\ HasName(dents, i, d, n) /\ HasName(dents, old, e, m)
      /\ i # old /\ (IsDir(old) <=> IsDir(i)) /\ dents[old] = {}
      /\ IsDir(i) => parent[i] = d /\ NamesOf(dents, i) = {<<d, n>>}
      /\ IsDir(old) => NamesOf(dents, old) = {<<e, m>>}
      /\ {i, old} \cap {Root, d, e} = {} /\ Targets(t) = {i, old}
  <2>1. RenameInv(t) /\ Targets(t) \cap {Root, d, e} = {}
    BY <1>0 DEF Inv, OpInv
  <2>2. Targets(t) = {i, old}
    BY <1>0, <1>1 DEF Targets
  <2> HIDE DEF Targets
  <2> QED BY <1>0, <1>1, <2>1, <2>2 DEF RenameInv, OnlyAt
<1>3. /\ TypeInv /\ DirsFound /\ PageInv(i) /\ OrphanInv(i) /\ LinkInv(i)
      /\ PageInv(old) /\ LinkInv(old) /\ LinkInv(e)
      /\ inode[i].nlink \in Int /\ inode[old].nlink \in Int /\ inode[e].nlink \in Int
  BY InvTypes DEF Inv
<1>4. /\ <<d, n>> \in NamesOf(dents, i) /\ <<e, m>> \in NamesOf(dents, old)
      /\ page[i].kind = inode[i].kind /\ page[i].kind \in {"file", "dir"}
      /\ page[old].kind = inode[old].kind /\ page[old].kind \in {"file", "dir"}
      /\ IsDir(i) => LiveDir(i)
      /\ IsDir(old) => LiveDir(old)
      /\ i \notin orphans /\ old \notin orphans
  BY <1>2, NamedInode
<1>5. /\ op' \in [Threads -> OpTypes] /\ ops' = ops
      /\ \A u \in Threads \ {t} : op'[u] = op[u]
      /\ op'[t].pc = "replaced" /\ op'[t].what = op[t].what /\ op'[t].locks = op[t].locks
      /\ op'[t].dir = d /\ op'[t].name = n /\ op'[t].ino = i
      /\ op'[t].toDir = e /\ op'[t].toName = m /\ op'[t].old = old
  BY <1>0, <1>1, <1>3, GotoStep DEF Pcs
<1>6. a \in Int /\ (IsDir(old) => a = 2) /\ (~IsDir(old) => a = 1)
  OBVIOUS
<1> HIDE DEF a
<1>7. /\ inode' \in [Inos -> AnyInodes]
      /\ \A k \in Inos : inode'[k].kind = inode[k].kind /\ inode'[k].depth = inode[k].depth
      /\ \A k \in Inos \ {old} : inode'[k] = inode[k]
      /\ inode'[old].nlink = inode[old].nlink - a
  <2>1. inode \in [Inos -> AnyInodes] /\ \A k \in Inos : inode[k] \in AnyInodes
    BY <1>3 DEF TypeInv
  <2>2. /\ inode'[old] = [inode[old] EXCEPT !.nlink = inode[old].nlink - a]
        /\ \A k \in Inos \ {old} : inode'[k] = inode[k]
        /\ DOMAIN inode' = Inos /\ inode' = [k \in Inos |-> inode'[k]]
    BY <1>1, <2>1
  <2>3. \A x \in AnyInodes, c \in Int :
          /\ [x EXCEPT !.nlink = x.nlink - c] \in AnyInodes
          /\ [x EXCEPT !.nlink = x.nlink - c].kind = x.kind
          /\ [x EXCEPT !.nlink = x.nlink - c].depth = x.depth
          /\ [x EXCEPT !.nlink = x.nlink - c].nlink = x.nlink - c
    BY DEF AnyInodes
  <2>4. \A k \in Inos : inode'[k] \in AnyInodes
    BY <1>6, <2>1, <2>2, <2>3
  <2>5. inode' \in [Inos -> AnyInodes]
    BY <2>2, <2>4
  <2>6. /\ inode'[old].kind = inode[old].kind /\ inode'[old].depth = inode[old].depth
        /\ inode'[old].nlink = inode[old].nlink - a
    BY <1>6, <2>1, <2>2, <2>3
  <2> QED BY <2>2, <2>5, <2>6
<1>8. /\ Taken(e, m)
      /\ \A k : HasName(dents, k, e, m) <=> k = old
  BY <1>2, <1>3, EntryByName
<1>9. /\ dents' \in Directories
      /\ \A k \in Inos \ {e} : dents'[k] = dents[k]
      /\ \A k, f \in Inos, x \in Names :
           HasName(dents', k, f, x) <=> IF f = e /\ x = m THEN k = i ELSE HasName(dents, k, f, x)
      /\ \A k \in Inos : NamesOf(dents', k) =
           (NamesOf(dents, k) \ {<<e, m>>}) \cup (IF k = i THEN {<<e, m>>} ELSE {})
      /\ EntriesFound(dents'[e], inode[e].depth)
  BY <1>1, <1>2, <1>3, <1>8, SetLinkStep
<1>10. /\ \A k \in Inos \ {i, old} : NamesOf(dents', k) = NamesOf(dents, k)
       /\ <<e, m>> \notin NamesOf(dents, i)
       /\ NamesOf(dents', i) = NamesOf(dents, i) \cup {<<e, m>>}
       /\ NamesOf(dents', old) = NamesOf(dents, old) \ {<<e, m>>}
  <2>1. \A k \in Inos \ {old} : <<e, m>> \notin NamesOf(dents, k)
    BY <1>2, <1>8, NamesMember
  <2>2. \A k \in Inos : NamesOf(dents', k) =
           (NamesOf(dents, k) \ {<<e, m>>}) \cup (IF k = i THEN {<<e, m>>} ELSE {})
    BY <1>9
  <2>3. ASSUME NEW k \in Inos \ {i, old} PROVE NamesOf(dents', k) = NamesOf(dents, k)
    <3>1. NamesOf(dents', k) = (NamesOf(dents, k) \ {<<e, m>>}) \cup {}
      BY <2>2
    <3> QED BY <2>1, <3>1, AbsentRemoved
  <2>4. \A k \in Inos \ {i, old} : NamesOf(dents', k) = NamesOf(dents, k)
    BY <2>3
  <2> QED BY <1>2, <2>1, <2>2, <2>3, <2>4
<1>11. /\ \A u \in Threads \ {t} : i \notin Targets(u) /\ old \notin Targets(u)
       /\ Targets(t)' = {i, old} /\ (CrossDir(t)' <=> CrossDir(t))
       /\ \A k : ~DoubledBy(t, k)
       /\ \A k : DoubledBy(t, k)' <=> k = d /\ k = e /\ inode'[i].kind = "dir"
  <2>1. \A u \in Threads \ {t} : i \notin Targets(u) /\ old \notin Targets(u)
    BY <1>2, Exclusive
  <2>2. Targets(t)' = {i, old}
    BY <1>5 DEF Targets
  <2>3. CrossDir(t)' <=> CrossDir(t)
    BY <1>0, <1>5 DEF CrossDir
  <2>4. \A k : ~DoubledBy(t, k)
    BY <1>1 DEF DoubledBy
  <2>5. \A k : DoubledBy(t, k)' <=> k = d /\ k = e /\ inode'[i].kind = "dir"
    BY <1>5 DEF DoubledBy, IsDir
  <2> QED BY <2>1, <2>2, <2>3, <2>4, <2>5
<1>12. /\ ~Ahead(i) /\ ~Ahead(i)' /\ ~Behind(i) /\ Behind(i)' /\ ~Losing(i) /\ ~Losing(i)'
       /\ ~Ahead(old) /\ ~Ahead(old)' /\ ~Behind(old) /\ ~Behind(old)' /\ Losing(old)'
  <2>1. \A u \in Threads \ {t} : op'[u] = op[u] /\ i \notin Targets(u) /\ old \notin Targets(u)
    BY <1>5, <1>11
  <2>2. op[t].pc = "replace" /\ op'[t].pc = "replaced" /\ op'[t].ino = i /\ op'[t].old = old /\ i # old
    BY <1>1, <1>2, <1>5
  <2>3. ~Ahead(i) /\ ~Ahead(i)' /\ ~Behind(i) /\ Behind(i)' /\ ~Losing(i) /\ ~Losing(i)'
    BY <2>1, <2>2, OnlyActor
  <2>4. ~Ahead(old) /\ ~Ahead(old)' /\ ~Behind(old) /\ ~Behind(old)' /\ Losing(old)'
    BY <2>1, <2>2, OnlyActor
  <2> QED BY <2>3, <2>4
<1>13. /\ IsDir(old) => inode'[old].nlink = 0
       /\ ~IsDir(old) => inode'[old].nlink = Cardinality(NamesOf(dents', old))
       /\ inode'[old].nlink >= 0
  <2>1. CASE IsDir(old)
    <3>1. Subdirs(dents, inode, old) = {}
      BY <1>2 DEF Subdirs
    <3>2. Cardinality(Subdirs(dents, inode, old)) = 0
      BY <3>1, FS_EmptySet
    <3>3. ~Doubled(old)
      BY <1>2, <1>5, <1>11, DoubledHeld
    <3>4. inode[old].nlink = 2 + Cardinality(Subdirs(dents, inode, old)) + Bit(Doubled(old))
      BY <1>3, <1>4, <2>1 DEF LinkInv
    <3> QED BY <1>6, <1>7, <2>1, <3>2, <3>3, <3>4 DEF Bit
  <2>2. CASE ~IsDir(old)
    <3>1. page[old].kind = "file"
      BY <1>4, <2>2 DEF IsDir
    <3>2. /\ Cardinality(NamesOf(dents', old)) \in Nat
          /\ Cardinality(NamesOf(dents, old)) = Cardinality(NamesOf(dents', old)) + 1
      BY <1>4, <1>10, NameGone
    <3>3. inode[old].nlink = Cardinality(NamesOf(dents, old))
      BY <1>3, <1>12, <3>1, <3>2 DEF LinkInv, Bit
    <3> QED BY <1>3, <1>6, <1>7, <2>2, <3>2, <3>3
  <2> QED BY <2>1, <2>2
<1>14. ~LiveDir(old)' /\ dents'[old] = {}
  BY <1>1, <1>2, <1>4, <1>9, <1>13 DEF LiveDir, IsDir
<1>15. \A k \in Inos \ {old} : LiveDir(k)' <=> LiveDir(k)
  BY <1>1, <1>7 DEF LiveDir
<1>16. Counted(e)'
  <2>1. inode[e].nlink = 2 + Cardinality(Subdirs(dents, inode, e)) + Bit(Doubled(e))
    BY <1>2, <1>3 DEF LinkInv
  <2>2. ~Doubled(e) /\ (Doubled(e)' <=> d = e /\ IsDir(i))
    BY <1>2, <1>5, <1>7, <1>11, DoubledHeld DEF IsDir
  <2>3. \A k \in Inos \ {i, old}, x \in Names : HasName(dents', k, e, x) <=> HasName(dents, k, e, x)
    BY <1>2, <1>8, <1>9
  <2>4. /\ Cardinality(Subdirs(dents, inode, e)) \in Nat /\ Cardinality(Subdirs(dents', inode', e)) \in Nat
        /\ Cardinality(Subdirs(dents', inode', e)) = Cardinality(Subdirs(dents, inode, e))
              + Bit(IsDir(i) /\ \E x \in Names : HasName(dents', i, e, x))
              - Bit(IsDir(i) /\ \E x \in Names : HasName(dents, i, e, x))
              + Bit(IsDir(old) /\ \E x \in Names : HasName(dents', old, e, x))
              - Bit(IsDir(old) /\ \E x \in Names : HasName(dents, old, e, x))
    BY <1>2, <1>3, <1>7, <1>9, <2>3, SubdirsStep2
  <2>5. IsDir(i) => (\E x \in Names : HasName(dents', i, e, x))
                    /\ ((\E x \in Names : HasName(dents, i, e, x)) <=> d = e)
    <3>1. IsDir(i) => \A x \in Names : HasName(dents, i, e, x) => e = d
      BY <1>2, NamesMember
    <3> QED BY <1>2, <1>9, <3>1
  <2>6. IsDir(i) => (\E x \in Names : HasName(dents, old, e, x)) /\ ~\E x \in Names : HasName(dents', old, e, x)
    <3>1. IsDir(old) => \A x \in Names : HasName(dents, old, e, x) => x = m
      BY <1>2, NamesMember
    <3> QED BY <1>2, <1>9, <3>1
  <2>7. inode'[e] = inode[e] /\ LiveDir(e)'
    BY <1>2, <1>7, <1>15
  <2>8. inode'[e].nlink = 2 + Cardinality(Subdirs(dents', inode', e)) + Bit(Doubled(e)')
    BY <1>2, <1>3, <2>1, <2>2, <2>4, <2>5, <2>6, <2>7 DEF Bit
  <2> QED BY <2>7, <2>8 DEF Counted, Bit
<1>17. Frame({t}, {i, old}, {e, old})
  <2>1. \A k \in Inos \ {e, old} : LiveDir(k) =>
           LiveDir(k)' /\ dents'[k] = dents[k] /\ hint'[k] = hint[k] /\ inode'[k].depth = inode[k].depth
    BY <1>1, <1>7, <1>9, <1>15
  <2>2. \A k \in Inos \ {i, old} : Kept(k, {e, old})
    BY <1>1, <1>7, <1>9, <1>10 DEF Kept
  <2>3. {e, old} \subseteq op[t].locks /\ op'[t].locks \subseteq op[t].locks
    BY <1>2, <1>5
  <2>4. \A k \in {e, old} : k \in Targets(t) \/ (LiveDir(k) /\ Counted(k)')
    BY <1>2, <1>16
  <2>5. Targets(t)' \subseteq Targets(t) /\ (CrossDir(t)' => CrossDir(t))
        /\ \A k \in Inos \ {e, old} : DoubledBy(t, k)' <=> DoubledBy(t, k)
    BY <1>2, <1>11
  <2> HIDE DEF Targets, LiveDir
  <2>6. Frame({t}, Targets(t), {e, old})
    <3>1. /\ \A u \in Threads \ {t} : op'[u] = op[u]
          /\ \A k \in Inos : NamesOf(dents, k) # {} => inode'[k].kind = inode[k].kind
      BY <1>5, <1>7
    <3>2. \A k \in Inos \ Targets(t) : Kept(k, {e, old})
      BY <1>2, <2>2
    <3> QED BY <2>1, <2>3, <2>4, <2>5, <3>1, <3>2, MoveFrame
  <2> QED BY <1>2, <2>6
<1>18. TypeInv'
  BY <1>1, <1>3, <1>5, <1>7, <1>9 DEF TypeInv, Directories
<1>19. OpInv(t)'
  <2>1. HasName(dents', i, d, n) /\ HasName(dents', i, e, m)
    BY <1>2, <1>9
  <2>2. IsDir(i) => NamesOf(dents', i) = {<<d, n>>, <<e, m>>}
    BY <1>2, <1>10
  <2>3. LiveDir(d)' /\ LiveDir(e)'
    BY <1>2, <1>15
  <2>4. RenameInv(t)'
    BY <1>1, <1>2, <1>4, <1>5, <1>7, <1>11, <1>13, <1>14, <2>1, <2>2, <2>3 DEF RenameInv, OnlyAt, IsDir
  <2>5. AddInv(t)' /\ UnlinkInv(t)'
    BY <1>5 DEF AddInv, UnlinkInv
  <2> QED BY <1>2, <1>5, <1>11, <2>4, <2>5 DEF OpInv
<1>20. PageInv(i)' /\ OrphanInv(i)' /\ LinkInv(i)'
  <2>1. inode[i].nlink # 0
    BY <1>2, <1>3, <1>4, <1>12 DEF OrphanInv, Inv
  <2>2. inode'[i] = inode[i] /\ page'[i] = page[i] /\ dents'[i] = dents[i] /\ page[i] = inode[i]
    BY <1>1, <1>2, <1>3, <1>7, <1>9, <1>12, <2>1 DEF PageInv
  <2>3. PageInv(i)'
    BY <1>1, <1>2, <1>3, <1>15, <2>2 DEF PageInv
  <2>4. OrphanInv(i)'
    BY <1>1, <1>4, <2>1, <2>2 DEF OrphanInv
  <2>5. LinkInv(i)'
    <3>1. page'[i].kind = "file" =>
            inode'[i].nlink = Cardinality(NamesOf(dents', i)) + Bit(Ahead(i)') - Bit(Behind(i)')
      <4>1. /\ Cardinality(NamesOf(dents, i)) \in Nat
            /\ Cardinality(NamesOf(dents', i)) = Cardinality(NamesOf(dents, i)) + 1
        BY <1>10, NameCame
      <4> QED BY <1>3, <1>12, <2>2, <4>1 DEF LinkInv, Bit
    <3>2. LiveDir(i)' => inode'[i].nlink = 2 + Cardinality(Subdirs(dents', inode', i)) + Bit(Doubled(i)')
      <4>1. LiveDir(i)' => LiveDir(i)
        BY <1>2, <1>15
      <4>2. DoubledBy(t, i)' <=> DoubledBy(t, i)
        BY <1>2, <1>11
      <4> QED BY <1>5, <1>7, <2>2, <4>1, <4>2, DirKept
    <3> QED BY <1>11, <2>1, <2>2, <3>1, <3>2 DEF LinkInv
  <2> QED BY <2>3, <2>4, <2>5
<1>21. PageInv(old)' /\ OrphanInv(old)' /\ LinkInv(old)'
  <2>1. PageInv(old)'
    BY <1>1, <1>2, <1>3, <1>4, <1>7, <1>12, <1>13, <1>14 DEF PageInv
  <2>2. OrphanInv(old)'
    BY <1>1, <1>4, <1>12 DEF OrphanInv
  <2>3. LinkInv(old)'
    <3>1. page'[old].kind = "file" =>
            inode'[old].nlink = Cardinality(NamesOf(dents', old)) + Bit(Ahead(old)') - Bit(Behind(old)')
      <4>1. Cardinality(NamesOf(dents', old)) \in Nat
        BY NamesFinite
      <4> QED BY <1>1, <1>4, <1>12, <1>13, <4>1 DEF Bit, IsDir
    <3>2. page'[old].kind = "dir" => NamesOf(dents', old) = {}
      BY <1>1, <1>2, <1>4, <1>10 DEF IsDir
    <3> QED BY <1>14, <3>1, <3>2 DEF LinkInv
  <2> QED BY <2>1, <2>2, <2>3
<1>22. DirsFound'
  <2>1. \A k \in Inos : EntriesFound(dents'[k], inode'[k].depth)
    BY <1>3, <1>7, <1>9 DEF DirsFound
  <2> QED BY <2>1 DEF DirsFound
<1>23. CycleInv'
  <2>1. \A k \in Inos : LiveDir(k)' => LiveDir(k)
    BY <1>14, <1>15
  <2> QED BY <1>0, <1>1, <1>5, <1>11, <2>1, CycleOthers
<1>24. OrphanCount'
  <2>1. Cardinality(Reserving') = Cardinality(Reserving)
    BY <1>1, <1>5, ReservingStep
  <2> QED BY <1>1, <2>1 DEF Inv, OrphanCount
<1>25. SavedInv'
  BY <1>1 DEF Inv, SavedInv, SavedTreeConsistent
<1>26. \A u \in {t} : OpInv(u)'
  BY <1>19
<1>27. \A k \in {i, old} : PageInv(k)' /\ OrphanInv(k)' /\ LinkInv(k)'
  BY <1>20, <1>21
<1> QED BY <1>17, <1>18, <1>22, <1>23, <1>24, <1>25, <1>26, <1>27, Assemble

LEMMA RenameSettleKeeps ==
  ASSUME Inv, NEW t \in Threads, RenameSettle(t)
  PROVE  Inv'
<1>0. PICK i \in Inos, old \in Inos, d \in Inos, e \in Inos, n \in {op[t].name}, m \in {op[t].toName} :
         /\ i = op[t].ino /\ old = op[t].old /\ d = op[t].dir /\ e = op[t].toDir
         /\ n = op[t].name /\ m = op[t].toName
  BY InvTypes DEF Inv
<1>1. /\ op[t].pc = "replaced" /\ SettleOrphan(old) /\ UpdateInodePages({i, old}) /\ Goto(t, "moved")
      /\ inode' = inode /\ dents' = dents /\ parent' = parent /\ hint' = hint
      /\ open' = open /\ saved' = saved
  BY <1>0 DEF RenameSettle, dirVars
<1>2. /\ op[t].what = "rename" /\ {d, e} \subseteq op[t].locks /\ LiveDir(d) /\ LiveDir(e)
      /\ n \in Names /\ m \in Names /\ <<d, n>> # <<e, m>>
      /\ page[i].kind # "none" /\ page[old].kind # "none" /\ (~IsDir(i) => i \in op[t].locks)
      /\ HasName(dents, i, d, n) /\ HasName(dents, i, e, m)
      /\ i # old /\ dents[old] = {} /\ old \notin orphans
      /\ IsDir(i) => parent[i] = d /\ NamesOf(dents, i) = {<<d, n>>, <<e, m>>}
      /\ IsDir(old) => inode[old].nlink = 0
      /\ {i, old} \cap {Root, d, e} = {} /\ Targets(t) = {i, old}
  <2>1. RenameInv(t) /\ Targets(t) \cap {Root, d, e} = {}
    BY <1>0 DEF Inv, OpInv
  <2>2. Targets(t) = {i, old}
    BY <1>0, <1>1 DEF Targets
  <2> HIDE DEF Targets
  <2> QED BY <1>0, <1>1, <2>1, <2>2 DEF RenameInv, OnlyAt
<1>3. /\ TypeInv /\ PageInv(i) /\ OrphanInv(i) /\ LinkInv(i)
      /\ PageInv(old) /\ OrphanInv(old) /\ LinkInv(old)
  BY DEF Inv
<1>4. /\ op' \in [Threads -> OpTypes] /\ ops' = ops
      /\ \A u \in Threads \ {t} : op'[u] = op[u]
      /\ op'[t].pc = "moved" /\ op'[t].what = op[t].what /\ op'[t].locks = op[t].locks
      /\ op'[t].dir = d /\ op'[t].name = n /\ op'[t].ino = i
      /\ op'[t].toDir = e /\ op'[t].toName = m
  BY <1>0, <1>1, <1>3, GotoStep DEF Pcs
<1>5. /\ page' \in [Inos -> AnyInodes]
      /\ \A k \in Inos : page'[k] = IF k \in {i, old} THEN inode[k] ELSE page[k]
  <2>1. inode' \in [Inos -> AnyInodes]
    BY <1>1, <1>3 DEF TypeInv
  <2> QED BY <1>1, <1>3, <2>1, UpdateStep
<1>6. /\ page[i].kind = inode[i].kind /\ page[old].kind = inode[old].kind
      /\ page[old].kind \in {"file", "dir"} /\ i \notin orphans /\ NamesOf(dents, i) # {}
  <2>1. page[old].kind \in {"none", "file", "dir"}
    BY <1>3 DEF TypeInv, AnyInodes
  <2> QED BY <1>2, <1>3, <2>1, NamedInode DEF PageInv
<1>7. /\ \A u \in Threads \ {t} : i \notin Targets(u) /\ old \notin Targets(u)
      /\ Targets(t)' = {i} /\ (CrossDir(t)' <=> CrossDir(t))
      /\ \A k : DoubledBy(t, k)' <=> DoubledBy(t, k)
  <2>1. \A u \in Threads \ {t} : i \notin Targets(u) /\ old \notin Targets(u)
    BY <1>2, Exclusive
  <2>2. Targets(t)' = {i}
    BY <1>4 DEF Targets
  <2>3. CrossDir(t)' <=> CrossDir(t)
    BY <1>0, <1>4 DEF CrossDir
  <2>4. \A k : DoubledBy(t, k)' <=> DoubledBy(t, k)
    BY <1>0, <1>1, <1>4 DEF DoubledBy, IsDir
  <2> QED BY <2>1, <2>2, <2>3, <2>4
<1>8. /\ Behind(i) /\ Behind(i)' /\ ~Ahead(i) /\ ~Ahead(i)' /\ ~Losing(i) /\ ~Losing(i)'
      /\ ~Ahead(old) /\ ~Ahead(old)' /\ ~Behind(old) /\ ~Behind(old)'
  <2>1. \A u \in Threads \ {t} : op'[u] = op[u] /\ i \notin Targets(u) /\ old \notin Targets(u)
    BY <1>4, <1>7
  <2>2. /\ op[t].pc = "replaced" /\ op[t].ino = i /\ op[t].old = old /\ i # old
        /\ op'[t].pc = "moved" /\ op'[t].ino = i
    BY <1>0, <1>1, <1>2, <1>4
  <2>3. Behind(i) /\ Behind(i)' /\ ~Ahead(i) /\ ~Ahead(i)' /\ ~Losing(i) /\ ~Losing(i)'
    BY <2>1, <2>2, OnlyActor
  <2>4. ~Ahead(old) /\ ~Ahead(old)' /\ ~Behind(old) /\ ~Behind(old)'
    BY <2>1, <2>2, OnlyActor
  <2> QED BY <2>3, <2>4
<1>9. /\ orphans' \subseteq Inos /\ nOrphans' \in Int /\ nOrphans' <= MaxOrphans
      /\ old \in orphans' <=> inode[old].nlink = 0
      /\ \A k \in Inos \ {old} : k \in orphans' <=> k \in orphans
      /\ Cardinality(orphans') \in Nat
      /\ nOrphans' - Cardinality(orphans') = nOrphans - Cardinality(orphans) - 1
  BY <1>1, <1>2, <1>3, SettleStep
<1>10. \A k \in Inos : LiveDir(k)' <=> LiveDir(k)
  BY <1>1, <1>5, <1>6 DEF LiveDir
<1>11. ~LiveDir(old)
  BY <1>2, <1>6 DEF LiveDir, IsDir
<1>12. inode[old].nlink = 0 => NamesOf(dents, old) = {}
  <2>1. CASE page[old].kind = "file"
    <3>1. inode[old].nlink = 0 => Cardinality(NamesOf(dents, old)) = 0
      <4>1. Cardinality(NamesOf(dents, old)) \in Nat
        BY NamesFinite
      <4> QED BY <1>3, <1>8, <2>1, <4>1 DEF LinkInv, Bit
    <3> QED BY <3>1, NamesFinite, FS_EmptySet
  <2>2. CASE page[old].kind = "dir"
    BY <1>3, <2>2 DEF LinkInv
  <2> QED BY <1>6, <2>1, <2>2
<1>13. Frame({t}, {i, old}, {})
  <2>1. \A k \in Inos : LiveDir(k) =>
           LiveDir(k)' /\ dents'[k] = dents[k] /\ hint'[k] = hint[k] /\ inode'[k].depth = inode[k].depth
    BY <1>1, <1>10
  <2>2. \A k \in Inos \ {i, old} : Kept(k, {})
    BY <1>1, <1>5, <1>9 DEF Kept
  <2>3. \A k \in Inos : NamesOf(dents, k) # {} => inode'[k].kind = inode[k].kind
    BY <1>1
  <2>4. Targets(t)' \subseteq Targets(t) /\ (CrossDir(t)' => CrossDir(t)) /\ op'[t].locks \subseteq op[t].locks
    BY <1>2, <1>4, <1>7
  <2> HIDE DEF Targets, LiveDir
  <2>5. Frame({t}, Targets(t), {})
    BY <1>4, <1>7, <2>1, <2>2, <2>3, <2>4, <1>2, MoveFrame
  <2> QED BY <1>2, <2>5
<1>14. TypeInv'
  BY <1>1, <1>3, <1>4, <1>5, <1>9 DEF TypeInv
<1>15. OpInv(t)'
  <2>1. RenameInv(t)'
    BY <1>1, <1>2, <1>4, <1>5, <1>6, <1>7, <1>10 DEF RenameInv, OnlyAt, IsDir
  <2>2. AddInv(t)' /\ UnlinkInv(t)'
    BY <1>4 DEF AddInv, UnlinkInv
  <2> QED BY <1>2, <1>4, <1>7, <2>1, <2>2 DEF OpInv
<1>16. PageInv(i)' /\ OrphanInv(i)' /\ LinkInv(i)'
  <2>1. inode[i].nlink # 0
    BY <1>2, <1>3, <1>6, <1>8 DEF OrphanInv
  <2>2. PageInv(i)'
    BY <1>1, <1>2, <1>3, <1>5, <1>6, <1>10 DEF PageInv
  <2>3. OrphanInv(i)'
    BY <1>1, <1>2, <1>6, <1>9, <2>1 DEF OrphanInv
  <2>4. LinkInv(i)'
    <3>1. page'[i].kind = "file" =>
            inode'[i].nlink = Cardinality(NamesOf(dents', i)) + Bit(Ahead(i)') - Bit(Behind(i)')
      BY <1>1, <1>3, <1>5, <1>6, <1>8 DEF LinkInv, Bit
    <3>2. LiveDir(i)' => inode'[i].nlink = 2 + Cardinality(Subdirs(dents', inode', i)) + Bit(Doubled(i)')
      <4>1. LiveDir(i)' => LiveDir(i)
        BY <1>10
      <4>2. DoubledBy(t, i)' <=> DoubledBy(t, i)
        BY <1>7
      <4> QED BY <1>1, <1>4, <4>1, <4>2, DirKept
    <3>3. \E u \in Threads : i \in Targets(u)'
      BY <1>7
    <3> QED BY <1>1, <2>1, <3>1, <3>2, <3>3 DEF LinkInv
  <2> QED BY <2>2, <2>3, <2>4
<1>17. PageInv(old)' /\ OrphanInv(old)' /\ LinkInv(old)'
  <2>1. PageInv(old)'
    BY <1>1, <1>2, <1>3, <1>5, <1>6, <1>10 DEF PageInv
  <2>2. OrphanInv(old)'
    BY <1>1, <1>9, <1>12 DEF OrphanInv
  <2>3. LinkInv(old)'
    BY <1>1, <1>3, <1>5, <1>6, <1>8, <1>10, <1>11, <1>12 DEF LinkInv, Bit
  <2> QED BY <2>1, <2>2, <2>3
<1>18. DirsFound' /\ SavedInv'
  BY <1>1 DEF Inv, DirsFound, SavedInv, SavedTreeConsistent
<1>19. CycleInv'
  BY <1>0, <1>1, <1>4, <1>7, <1>10, CycleOthers
<1>20. OrphanCount'
  <2>1. Cardinality(Reserving') = Cardinality(Reserving) - 1 /\ Cardinality(Reserving) \in Nat
    BY <1>1, <1>4, ReservingStep
  <2>2. nOrphans = Cardinality(orphans) + Cardinality(Reserving) /\ Cardinality(orphans) \in Nat
    BY <1>3, OrphansFinite DEF Inv, OrphanCount
  <2> QED BY <1>9, <2>1, <2>2 DEF OrphanCount
<1>21. \A u \in {t} : OpInv(u)'
  BY <1>15
<1>22. \A k \in {i, old} : PageInv(k)' /\ OrphanInv(k)' /\ LinkInv(k)'
  BY <1>16, <1>17
<1> QED BY <1>13, <1>14, <1>18, <1>19, <1>20, <1>21, <1>22, Assemble

LEMMA RenameAddKeeps ==
  ASSUME Inv, NEW t \in Threads, RenameAdd(t)
  PROVE  Inv'
<1>0. PICK i \in Inos, d \in Inos, e \in Inos, n \in {op[t].name}, m \in {op[t].toName} :
         i = op[t].ino /\ d = op[t].dir /\ e = op[t].toDir /\ n = op[t].name /\ m = op[t].toName
  BY InvTypes DEF Inv
<1>1. /\ op[t].pc = "add" /\ CanAdd(dents[e], inode[e].depth, hint[e], m)
      /\ AddEntry(e, m, i, TRUE) /\ UpdateInodePages({i, e}) /\ Goto(t, "moved")
      /\ parent' = parent /\ orphans' = orphans /\ nOrphans' = nOrphans /\ open' = open /\ saved' = saved
  BY <1>0 DEF RenameAdd, orphanVars
<1>2. /\ op[t].what = "rename" /\ {d, e} \subseteq op[t].locks /\ LiveDir(d) /\ LiveDir(e)
      /\ n \in Names /\ m \in Names /\ <<d, n>> # <<e, m>>
      /\ page[i].kind # "none" /\ (~IsDir(i) => i \in op[t].locks)
      /\ HasName(dents, i, d, n) /\ ~Taken(e, m)
      /\ IsDir(i) => parent[i] = d /\ NamesOf(dents, i) = {<<d, n>>}
      /\ {i} \cap {Root, d, e} = {} /\ Targets(t) = {i}
  <2>1. RenameInv(t) /\ Targets(t) \cap {Root, d, e} = {}
    BY <1>0 DEF Inv, OpInv
  <2>2. Targets(t) = {i}
    BY <1>0, <1>1 DEF Targets
  <2> HIDE DEF Targets
  <2> QED BY <1>0, <1>1, <2>1, <2>2 DEF RenameInv, OnlyAt
<1>3. /\ TypeInv /\ DirsFound /\ PageInv(i) /\ OrphanInv(i) /\ LinkInv(i) /\ LinkInv(e) /\ PageInv(e)
      /\ inode[i].nlink \in Int /\ inode[e].nlink \in Int
  BY InvTypes DEF Inv
<1>4. /\ op' \in [Threads -> OpTypes] /\ ops' = ops
      /\ \A u \in Threads \ {t} : op'[u] = op[u]
      /\ op'[t].pc = "moved" /\ op'[t].what = op[t].what /\ op'[t].locks = op[t].locks
      /\ op'[t].dir = d /\ op'[t].name = n /\ op'[t].ino = i
      /\ op'[t].toDir = e /\ op'[t].toName = m
  BY <1>0, <1>1, <1>3, GotoStep DEF Pcs
<1>5. /\ dents' \in Directories
      /\ inode' \in [Inos -> AnyInodes]
      /\ hint' \in [Inos -> Hints]
      /\ \A k \in Inos \ {e} : dents'[k] = dents[k] /\ inode'[k] = inode[k] /\ hint'[k] = hint[k]
      /\ inode'[e].kind = inode[e].kind
      /\ inode'[e].nlink = inode[e].nlink + Bit(TRUE /\ IsDir(i))
      /\ \A k, f \in Inos, x \in Names :
           HasName(dents', k, f, x) <=> HasName(dents, k, f, x) \/ (k = i /\ f = e /\ x = m)
      /\ \A k \in Inos : NamesOf(dents', k) =
           IF k = i THEN NamesOf(dents, k) \cup {<<e, m>>} ELSE NamesOf(dents, k)
      /\ EntriesFound(dents'[e], inode'[e].depth)
  BY <1>1, <1>2, <1>3, AddStep
<1>6. /\ page' \in [Inos -> AnyInodes]
      /\ \A k \in Inos : page'[k] = IF k \in {i, e} THEN inode'[k] ELSE page[k]
  BY <1>1, <1>3, <1>5, UpdateStep
<1>7. /\ \A u \in Threads \ {t} : i \notin Targets(u)
      /\ Targets(t)' = {i} /\ (CrossDir(t)' <=> CrossDir(t))
      /\ \A k : ~DoubledBy(t, k)
      /\ \A k : DoubledBy(t, k)' <=> k = d /\ k = e /\ inode'[i].kind = "dir"
  <2>1. \A u \in Threads \ {t} : i \notin Targets(u)
    BY <1>2, Exclusive
  <2>2. Targets(t)' = {i}
    BY <1>4 DEF Targets
  <2>3. CrossDir(t)' <=> CrossDir(t)
    BY <1>0, <1>4 DEF CrossDir
  <2>4. \A k : ~DoubledBy(t, k)
    BY <1>1 DEF DoubledBy
  <2>5. \A k : DoubledBy(t, k)' <=> k = d /\ k = e /\ inode'[i].kind = "dir"
    BY <1>4 DEF DoubledBy, IsDir
  <2> QED BY <2>1, <2>2, <2>3, <2>4, <2>5
<1>8. ~Ahead(i) /\ ~Ahead(i)' /\ ~Behind(i) /\ Behind(i)' /\ ~Losing(i) /\ ~Losing(i)'
  <2>1. \A u \in Threads \ {t} : op'[u] = op[u] /\ i \notin Targets(u)
    BY <1>4, <1>7
  <2>2. op[t].pc = "add" /\ op'[t].pc = "moved" /\ op'[t].ino = i
    BY <1>1, <1>4
  <2> QED BY <2>1, <2>2, OnlyActor
<1>9. /\ page[i].kind = inode[i].kind /\ i \notin orphans /\ <<d, n>> \in NamesOf(dents, i)
      /\ <<e, m>> \notin NamesOf(dents, i)
      /\ inode'[i] = inode[i] /\ page'[i] = inode[i] /\ dents'[i] = dents[i] /\ page'[e] = inode'[e]
      /\ inode[i].nlink # 0
  <2>1. page[i].kind = inode[i].kind /\ i \notin orphans /\ <<d, n>> \in NamesOf(dents, i)
    BY <1>2, NamedInode
  <2>2. <<e, m>> \notin NamesOf(dents, i)
    BY <1>2, <1>3, NamesMember, EntryByName
  <2>3. inode[i].nlink # 0
    BY <1>2, <1>3, <1>8, <2>1 DEF OrphanInv
  <2> QED BY <1>2, <1>5, <1>6, <2>1, <2>2, <2>3
<1>10. \A k \in Inos : inode'[k].kind = inode[k].kind
  BY <1>5
<1>11. inode'[e].nlink = 2 + Cardinality(Subdirs(dents', inode', e)) + Bit(Doubled(e)')
  <2>1. inode[e].nlink = 2 + Cardinality(Subdirs(dents, inode, e)) + Bit(Doubled(e))
    BY <1>2, <1>3 DEF LinkInv
  <2>2. ~Doubled(e) /\ (Doubled(e)' <=> d = e /\ IsDir(i))
    BY <1>2, <1>4, <1>7, <1>10, DoubledHeld DEF IsDir
  <2>3. \A k \in Inos \ {i}, x \in Names : HasName(dents', k, e, x) <=> HasName(dents, k, e, x)
    BY <1>5
  <2>4. /\ Cardinality(Subdirs(dents, inode, e)) \in Nat /\ Cardinality(Subdirs(dents', inode', e)) \in Nat
        /\ Cardinality(Subdirs(dents', inode', e)) = Cardinality(Subdirs(dents, inode, e))
              + Bit(IsDir(i) /\ \E x \in Names : HasName(dents', i, e, x))
              - Bit(IsDir(i) /\ \E x \in Names : HasName(dents, i, e, x))
    BY <1>3, <1>5, <1>10, <2>3, SubdirsStep
  <2>5. IsDir(i) => (\E x \in Names : HasName(dents', i, e, x))
                    /\ ((\E x \in Names : HasName(dents, i, e, x)) <=> d = e)
    <3>1. IsDir(i) => \A x \in Names : HasName(dents, i, e, x) => e = d
      BY <1>2, NamesMember
    <3>2. \E x \in Names : HasName(dents', i, e, x)
      BY <1>2, <1>5
    <3> QED BY <1>2, <3>1, <3>2
  <2> QED BY <1>3, <1>5, <2>1, <2>2, <2>4, <2>5 DEF Bit
<1>12. LiveDir(e)'
  <2>1. inode'[e].nlink # 0
    BY <1>11, NamesFinite DEF Bit
  <2>2. inode[e].kind = "dir"
    BY <1>2, <1>3 DEF LiveDir, PageInv
  <2> QED BY <1>5, <1>9, <2>1, <2>2 DEF LiveDir
<1>13. \A k \in Inos : LiveDir(k)' <=> LiveDir(k)
  <2>1. \A k \in Inos \ {i, e} : LiveDir(k)' <=> LiveDir(k)
    BY <1>5, <1>6 DEF LiveDir
  <2>2. LiveDir(i)' <=> LiveDir(i)
    BY <1>9 DEF LiveDir
  <2> QED BY <1>2, <1>12, <2>1, <2>2
<1>14. Frame({t}, {i}, {e})
  <2>1. \A k \in Inos \ {e} : LiveDir(k) =>
           LiveDir(k)' /\ dents'[k] = dents[k] /\ hint'[k] = hint[k] /\ inode'[k].depth = inode[k].depth
    BY <1>5, <1>13
  <2>2. \A k \in Inos \ {i} : Kept(k, {e})
    <3>1. page[e].kind # "none"
      BY <1>2 DEF LiveDir
    <3> QED BY <1>1, <1>5, <1>6, <3>1 DEF Kept
  <2>3. Counted(e)'
    BY <1>11, <1>12 DEF Counted, Bit
  <2>4. {e} \subseteq op[t].locks /\ op'[t].locks \subseteq op[t].locks
        /\ \A k \in {e} : k \in Targets(t) \/ (LiveDir(k) /\ Counted(k)')
    BY <1>2, <1>4, <2>3
  <2>5. Targets(t)' \subseteq Targets(t) /\ (CrossDir(t)' => CrossDir(t))
        /\ \A k \in Inos \ {e} : DoubledBy(t, k)' <=> DoubledBy(t, k)
    BY <1>2, <1>7
  <2> HIDE DEF Targets, LiveDir
  <2>6. Frame({t}, Targets(t), {e})
    BY <1>2, <1>4, <1>10, <2>1, <2>2, <2>4, <2>5, MoveFrame
  <2> QED BY <1>2, <2>6
<1>15. TypeInv'
  <2>1. dents' \in [Inos -> SUBSET Entries] /\ hint' \in [Inos -> [hash : Nat, level : 0..MaxDepth-1]]
    BY <1>5 DEF Directories, Hints
  <2> QED BY <1>1, <1>3, <1>4, <1>5, <1>6, <2>1 DEF TypeInv
<1>16. OpInv(t)'
  <2>1. HasName(dents', i, d, n) /\ HasName(dents', i, e, m)
    BY <1>2, <1>5
  <2>2. IsDir(i) => NamesOf(dents', i) = {<<d, n>>, <<e, m>>}
    BY <1>2, <1>5
  <2>3. RenameInv(t)'
    BY <1>1, <1>2, <1>4, <1>7, <1>9, <1>13, <2>1, <2>2 DEF RenameInv, OnlyAt, IsDir
  <2>4. AddInv(t)' /\ UnlinkInv(t)'
    BY <1>4 DEF AddInv, UnlinkInv
  <2> QED BY <1>2, <1>4, <1>7, <2>3, <2>4 DEF OpInv
<1>17. PageInv(i)' /\ OrphanInv(i)' /\ LinkInv(i)'
  <2>1. PageInv(i)'
    BY <1>2, <1>3, <1>9, <1>13 DEF PageInv
  <2>2. OrphanInv(i)'
    BY <1>1, <1>9 DEF OrphanInv
  <2>3. LinkInv(i)'
    <3>1. page'[i].kind = "file" =>
            inode'[i].nlink = Cardinality(NamesOf(dents', i)) + Bit(Ahead(i)') - Bit(Behind(i)')
      <4>1. NamesOf(dents', i) = NamesOf(dents, i) \cup {<<e, m>>}
        BY <1>5
      <4>2. /\ Cardinality(NamesOf(dents, i)) \in Nat
            /\ Cardinality(NamesOf(dents', i)) = Cardinality(NamesOf(dents, i)) + 1
        BY <1>9, <4>1, NameCame
      <4> QED BY <1>3, <1>8, <1>9, <4>2 DEF LinkInv, Bit
    <3>2. LiveDir(i)' => inode'[i].nlink = 2 + Cardinality(Subdirs(dents', inode', i)) + Bit(Doubled(i)')
      <4>1. LiveDir(i)' => LiveDir(i)
        BY <1>13
      <4>2. DoubledBy(t, i)' <=> DoubledBy(t, i)
        BY <1>2, <1>7
      <4> QED BY <1>4, <1>9, <1>10, <4>1, <4>2, DirKept
    <3>3. \E u \in Threads : i \in Targets(u)'
      BY <1>7
    <3> QED BY <1>9, <3>1, <3>2, <3>3 DEF LinkInv
  <2> QED BY <2>1, <2>2, <2>3
<1>18. DirsFound'
  <2>1. \A k \in Inos : EntriesFound(dents'[k], inode'[k].depth)
    <3>1. \A k \in Inos : EntriesFound(dents[k], inode[k].depth)
      BY <1>3 DEF DirsFound
    <3> QED BY <1>5, <3>1
  <2> QED BY <2>1 DEF DirsFound
<1>19. CycleInv'
  BY <1>0, <1>1, <1>4, <1>7, <1>13, CycleOthers
<1>20. OrphanCount'
  <2>1. Cardinality(Reserving') = Cardinality(Reserving)
    BY <1>1, <1>4, ReservingStep
  <2> QED BY <1>1, <2>1 DEF Inv, OrphanCount
<1>21. SavedInv'
  BY <1>1 DEF Inv, SavedInv, SavedTreeConsistent
<1>22. \A u \in {t} : OpInv(u)'
  BY <1>16
<1>23. \A k \in {i} : PageInv(k)' /\ OrphanInv(k)' /\ LinkInv(k)'
  BY <1>17
<1> QED BY <1>14, <1>15, <1>18, <1>19, <1>20, <1>21, <1>22, <1>23, Assemble

LEMMA RenameAddFailsKeeps ==
  ASSUME Inv, NEW t \in Threads, RenameAddFails(t)
  PROVE  Inv'
<1>0. PICK i \in Inos, d \in Inos, e \in Inos, n \in {op[t].name}, m \in {op[t].toName} :
         i = op[t].ino /\ d = op[t].dir /\ e = op[t].toDir /\ n = op[t].name /\ m = op[t].toName
  BY InvTypes DEF Inv
<1>1. /\ op[t].pc = "add" /\ hint' = [hint EXCEPT ![e] = HintAfterAdd(@, m)] /\ Finish(t)
      /\ inode' = inode /\ page' = page /\ dents' = dents /\ parent' = parent
      /\ orphans' = orphans /\ nOrphans' = nOrphans /\ open' = open /\ saved' = saved
  BY <1>0 DEF RenameAddFails, orphanVars
<1>2. /\ {d, e} \subseteq op[t].locks /\ LiveDir(d) /\ LiveDir(e) /\ n \in Names /\ m \in Names
      /\ page[i].kind # "none"
      /\ IsDir(i) => parent[i] = d /\ NamesOf(dents, i) = {<<d, n>>}
      /\ {i} \cap {Root, d, e} = {} /\ Targets(t) = {i}
  <2>1. RenameInv(t) /\ Targets(t) \cap {Root, d, e} = {}
    BY <1>0 DEF Inv, OpInv
  <2>2. Targets(t) = {i}
    BY <1>0, <1>1 DEF Targets
  <2> HIDE DEF Targets
  <2> QED BY <1>0, <1>1, <2>1, <2>2 DEF RenameInv, OnlyAt
<1>3. TypeInv /\ PageInv(i) /\ OrphanInv(i) /\ LinkInv(i) /\ LinkInv(e)
  BY DEF Inv
<1>4. /\ op' \in [Threads -> OpTypes] /\ ops' = ops
      /\ \A u \in Threads \ {t} : op'[u] = op[u]
      /\ op'[t] = Idle /\ op'[t].pc = "idle"
  BY <1>1, <1>3, FinishStep
<1>5. hint' \in [Inos -> Hints] /\ \A k \in Inos \ {e} : hint'[k] = hint[k]
  <2>1. hint \in [Inos -> Hints]
    BY <1>3 DEF TypeInv, Hints
  <2>2. \A k \in Inos : HintAfterAdd(hint[k], m) \in Hints
    BY <2>1 DEF HintAfterAdd, Hints
  <2> QED BY <1>1, <2>1, <2>2
<1>6. /\ \A u \in Threads \ {t} : i \notin Targets(u)
      /\ Targets(t)' = {} /\ ~CrossDir(t)' /\ \A k : ~DoubledBy(t, k) /\ ~DoubledBy(t, k)'
      /\ op'[t].locks = {}
  <2>1. \A u \in Threads \ {t} : i \notin Targets(u)
    BY <1>2, Exclusive
  <2>2. op'[t].locks = {} /\ op'[t].what = "none"
    BY <1>4 DEF Idle
  <2> QED BY <1>1, <1>4, <2>1, <2>2 DEF Targets, CrossDir, DoubledBy
<1>7. /\ Ahead(i)' <=> Ahead(i)
      /\ Behind(i)' <=> Behind(i)
      /\ Losing(i)' <=> Losing(i)
      /\ (\E u \in Threads : op'[u].ino = i /\ op'[u].pc = "tmpfile")
           <=> (\E u \in Threads : op[u].ino = i /\ op[u].pc = "tmpfile")
  <2>1. \A u \in Threads \ {t} : op'[u] = op[u] /\ i \notin Targets(u)
    BY <1>4, <1>6
  <2>2. op[t].pc = "add" /\ op'[t].pc = "idle"
    BY <1>1, <1>4
  <2> QED BY <2>1, <2>2, OnlyActor
<1>8. \A k \in Inos : LiveDir(k)' <=> LiveDir(k)
  BY <1>1 DEF LiveDir
<1>9. ASSUME NEW k \in Inos, LiveDir(k)
      PROVE  inode'[k].nlink = 2 + Cardinality(Subdirs(dents', inode', k)) + Bit(Doubled(k)')
  <2>1. DoubledBy(t, k)' <=> DoubledBy(t, k)
    BY <1>6
  <2> QED BY <1>1, <1>4, <1>9, <2>1, DirKept
<1>10. Frame({t}, {i}, {e})
  <2>1. \A k \in Inos \ {e} : LiveDir(k) =>
           LiveDir(k)' /\ dents'[k] = dents[k] /\ hint'[k] = hint[k] /\ inode'[k].depth = inode[k].depth
    BY <1>1, <1>5, <1>8
  <2>2. \A k \in Inos \ {i} : Kept(k, {e})
    BY <1>1 DEF Kept
  <2>3. Counted(e)'
    BY <1>2, <1>8, <1>9 DEF Counted, Bit
  <2>4. {e} \subseteq op[t].locks /\ op'[t].locks \subseteq op[t].locks
        /\ \A k \in {e} : k \in Targets(t) \/ (LiveDir(k) /\ Counted(k)')
    BY <1>2, <1>6, <2>3
  <2>5. Targets(t)' \subseteq Targets(t) /\ (CrossDir(t)' => CrossDir(t))
        /\ (\A k \in Inos \ {e} : DoubledBy(t, k)' <=> DoubledBy(t, k))
    BY <1>6
  <2>6. \A k \in Inos : NamesOf(dents, k) # {} => inode'[k].kind = inode[k].kind
    BY <1>1
  <2>7. \A k \in Inos \ Targets(t) : Kept(k, {e})
    BY <1>2, <2>2
  <2> HIDE DEF Targets, LiveDir
  <2>8. Frame({t}, Targets(t), {e})
    BY <1>4, <2>1, <2>4, <2>5, <2>6, <2>7, MoveFrame
  <2> QED BY <1>2, <2>8
<1>11. TypeInv'
  BY <1>1, <1>3, <1>4, <1>5 DEF TypeInv, Hints
<1>12. OpInv(t)'
  BY <1>4 DEF OpInv, AddInv, UnlinkInv, RenameInv, Targets
<1>13. PageInv(i)' /\ OrphanInv(i)' /\ LinkInv(i)'
  <2>1. PageInv(i)'
    BY <1>1, <1>3, <1>7, <1>8 DEF PageInv
  <2>2. OrphanInv(i)'
    BY <1>1, <1>3, <1>7 DEF OrphanInv
  <2>3. LinkInv(i)'
    <3>1. page'[i].kind = "file" =>
            inode'[i].nlink = Cardinality(NamesOf(dents', i)) + Bit(Ahead(i)') - Bit(Behind(i)')
      BY <1>1, <1>3, <1>7 DEF LinkInv, Bit
    <3>2. LiveDir(i)' => inode'[i].nlink = 2 + Cardinality(Subdirs(dents', inode', i)) + Bit(Doubled(i)')
      BY <1>8, <1>9
    <3>3. page'[i].kind = "dir" /\ inode'[i].nlink = 0 => NamesOf(dents', i) = {}
      BY <1>1, <1>3 DEF LinkInv
    <3>4. LiveDir(i)' => NamesOf(dents', i) = {<<parent'[i], n>>}
      <4>1. LiveDir(i)' => IsDir(i)
        BY <1>1, <1>3 DEF LiveDir, PageInv, IsDir
      <4> QED BY <1>1, <1>2, <4>1
    <3> QED BY <1>2, <3>1, <3>2, <3>3, <3>4 DEF LinkInv
  <2> QED BY <2>1, <2>2, <2>3
<1>14. DirsFound' /\ SavedInv'
  BY <1>1 DEF Inv, DirsFound, SavedInv, SavedTreeConsistent
<1>15. CycleInv'
  BY <1>1, <1>4, <1>6, <1>8, CycleOthers
<1>16. OrphanCount'
  <2>1. Cardinality(Reserving') = Cardinality(Reserving)
    BY <1>1, <1>4, ReservingStep
  <2> QED BY <1>1, <2>1 DEF Inv, OrphanCount
<1>17. \A u \in {t} : OpInv(u)'
  BY <1>12
<1>18. \A k \in {i} : PageInv(k)' /\ OrphanInv(k)' /\ LinkInv(k)'
  BY <1>13
<1> QED BY <1>10, <1>11, <1>14, <1>15, <1>16, <1>17, <1>18, Assemble

LEMMA RenameDeleteKeeps ==
  ASSUME Inv, NEW t \in Threads, RenameDelete(t)
  PROVE  Inv'
<1>0. PICK i \in Inos, d \in Inos, e \in Inos, n \in {op[t].name}, m \in {op[t].toName} :
         i = op[t].ino /\ d = op[t].dir /\ e = op[t].toDir /\ n = op[t].name /\ m = op[t].toName
  BY InvTypes DEF Inv
<1> DEFINE U == IF IsDir(i) THEN {d} ELSE {}
           S == IF IsDir(i) THEN {d, i} ELSE {}
<1>1. /\ op[t].pc = "moved" /\ DeletesEntry(d, n)
      /\ parent' = IF IsDir(i) THEN [parent EXCEPT ![i] = e] ELSE parent
      /\ AddLinks({}, U) /\ UpdateInodePages(S) /\ Finish(t)
      /\ hint' = hint /\ orphans' = orphans /\ nOrphans' = nOrphans /\ open' = open /\ saved' = saved
  BY <1>0 DEF RenameDelete, DeletesEntry, orphanVars
<1>2. /\ op[t].what = "rename" /\ {d, e} \subseteq op[t].locks /\ LiveDir(d) /\ LiveDir(e)
      /\ n \in Names /\ m \in Names /\ <<d, n>> # <<e, m>>
      /\ page[i].kind # "none"
      /\ HasName(dents, i, d, n) /\ HasName(dents, i, e, m)
      /\ IsDir(i) => parent[i] = d /\ NamesOf(dents, i) = {<<d, n>>, <<e, m>>}
      /\ {i} \cap {Root, d, e} = {} /\ Targets(t) = {i}
  <2>1. RenameInv(t) /\ Targets(t) \cap {Root, d, e} = {}
    BY <1>0 DEF Inv, OpInv
  <2>2. Targets(t) = {i}
    BY <1>0, <1>1 DEF Targets
  <2> HIDE DEF Targets
  <2> QED BY <1>0, <1>1, <2>1, <2>2 DEF RenameInv, OnlyAt
<1>3. /\ TypeInv /\ DirsFound /\ PageInv(i) /\ OrphanInv(i) /\ LinkInv(i) /\ LinkInv(d) /\ PageInv(d)
      /\ inode[i].nlink \in Int /\ inode[d].nlink \in Int
  BY InvTypes DEF Inv
<1>4. /\ op' \in [Threads -> OpTypes] /\ ops' = ops
      /\ \A u \in Threads \ {t} : op'[u] = op[u]
      /\ op'[t] = Idle /\ op'[t].pc = "idle"
  BY <1>1, <1>3, FinishStep
<1>5. /\ inode' \in [Inos -> AnyInodes]
      /\ \A k \in Inos : inode'[k].kind = inode[k].kind /\ inode'[k].depth = inode[k].depth
      /\ \A k \in Inos \ {d} : inode'[k] = inode[k]
      /\ inode'[d].nlink = inode[d].nlink - Bit(IsDir(i))
      /\ ~IsDir(i) => inode'[d] = inode[d]
  <2>1. /\ inode' \in [Inos -> AnyInodes]
        /\ \A k \in Inos : /\ inode'[k].kind = inode[k].kind /\ inode'[k].depth = inode[k].depth
                           /\ inode'[k].nlink = inode[k].nlink + Bit(k \in {}) - Bit(k \in U)
                           /\ k \notin {} /\ k \notin U => inode'[k] = inode[k]
    BY <1>1, <1>3, AddLinksStep
  <2>2. Bit(d \in U) = Bit(IsDir(i)) /\ Bit(d \in {}) = 0 /\ Bit(IsDir(i)) \in Int
    BY DEF Bit
  <2> QED BY <1>3, <2>1, <2>2
<1>6. /\ page' \in [Inos -> AnyInodes]
      /\ \A k \in Inos : page'[k] = IF IsDir(i) /\ k \in {d, i} THEN inode'[k] ELSE page[k]
  <2>1. /\ page' \in [Inos -> AnyInodes]
        /\ \A k \in Inos : page'[k] = IF k \in S THEN inode'[k] ELSE page[k]
    BY <1>1, <1>3, <1>5, UpdateStep
  <2> QED BY <2>1
<1> HIDE DEF U, S
<1>7. /\ Taken(d, n)
      /\ \A k : HasName(dents, k, d, n) <=> k = i
  BY <1>2, <1>3, EntryByName
<1>8. /\ dents' \in Directories
      /\ \A k \in Inos \ {d} : dents'[k] = dents[k]
      /\ \A k, f \in Inos, x \in Names :
           HasName(dents', k, f, x) <=> HasName(dents, k, f, x) /\ ~(f = d /\ x = n)
      /\ \A k \in Inos : NamesOf(dents', k) = NamesOf(dents, k) \ {<<d, n>>}
      /\ EntriesFound(dents'[d], inode[d].depth)
  BY <1>1, <1>2, <1>3, <1>7, DeleteStep
<1>9. /\ \A k \in Inos \ {i} : NamesOf(dents', k) = NamesOf(dents, k)
      /\ \A k \in Inos \ {i} : parent'[k] = parent[k]
  <2>1. \A k \in Inos \ {i} : <<d, n>> \notin NamesOf(dents, k)
    BY <1>2, <1>7, NamesMember
  <2>2. \A k \in Inos : NamesOf(dents', k) = NamesOf(dents, k) \ {<<d, n>>}
    BY <1>8
  <2>3. \A N, p : p \notin N => N \ {p} = N
    OBVIOUS
  <2>4. \A k \in Inos \ {i} : parent'[k] = parent[k]
    BY <1>1, <1>3 DEF TypeInv
  <2> QED BY <2>1, <2>2, <2>3, <2>4
<1>10. /\ \A u \in Threads \ {t} : i \notin Targets(u)
       /\ Targets(t)' = {} /\ ~CrossDir(t)' /\ op'[t].locks = {}
       /\ \A k : ~DoubledBy(t, k)'
       /\ \A k : DoubledBy(t, k) <=> k = d /\ k = e /\ IsDir(i)
       /\ CrossDir(t) <=> d # e
  <2>1. \A u \in Threads \ {t} : i \notin Targets(u)
    BY <1>2, Exclusive
  <2>2. op'[t].locks = {} /\ op'[t].what = "none"
    BY <1>4 DEF Idle
  <2>3. Targets(t)' = {} /\ ~CrossDir(t)' /\ \A k : ~DoubledBy(t, k)'
    BY <1>4, <2>2 DEF Targets, CrossDir, DoubledBy
  <2>4. /\ \A k : DoubledBy(t, k) <=> k = d /\ k = e /\ IsDir(i)
        /\ CrossDir(t) <=> d # e
    BY <1>0, <1>1, <1>2 DEF DoubledBy, CrossDir
  <2> QED BY <2>1, <2>2, <2>3, <2>4
<1>11. /\ Behind(i) /\ ~Behind(i)' /\ ~Ahead(i) /\ ~Ahead(i)' /\ ~Losing(i) /\ ~Losing(i)'
       /\ ~\E u \in Threads : op'[u].ino = i /\ op'[u].pc = "tmpfile"
  <2>1. \A u \in Threads \ {t} : op'[u] = op[u] /\ i \notin Targets(u)
    BY <1>4, <1>10
  <2>2. op[t].pc = "moved" /\ op[t].ino = i /\ op'[t].pc = "idle"
    BY <1>0, <1>1, <1>4
  <2> QED BY <2>1, <2>2, OnlyActor
<1>12. /\ page[i].kind = inode[i].kind /\ i \notin orphans
       /\ <<d, n>> \in NamesOf(dents, i) /\ <<e, m>> \in NamesOf(dents', i)
       /\ inode[i].nlink # 0 /\ page[i] = inode[i]
       /\ inode'[i] = inode[i] /\ page'[i] = inode[i] /\ dents'[i] = dents[i]
  <2>1. page[i].kind = inode[i].kind /\ i \notin orphans /\ <<d, n>> \in NamesOf(dents, i)
        /\ <<e, m>> \in NamesOf(dents, i)
    BY <1>2, NamedInode
  <2>2. inode[i].nlink # 0
    BY <1>2, <1>3, <1>11, <2>1 DEF OrphanInv
  <2>3. page[i] = inode[i]
    BY <1>2, <1>3, <1>11, <2>2 DEF PageInv
  <2>4. <<e, m>> \in NamesOf(dents', i)
    BY <1>2, <1>8, <2>1
  <2> QED BY <1>2, <1>5, <1>6, <1>8, <2>1, <2>2, <2>3, <2>4
<1>13. inode'[d].nlink = 2 + Cardinality(Subdirs(dents', inode', d)) + Bit(Doubled(d)')
  <2>1. inode[d].nlink = 2 + Cardinality(Subdirs(dents, inode, d)) + Bit(Doubled(d))
    BY <1>2, <1>3 DEF LinkInv
  <2>2. ~Doubled(d)' /\ (Doubled(d) <=> d = e /\ IsDir(i))
    BY <1>2, <1>4, <1>10, DoubledHeld
  <2>3. \A k \in Inos \ {i}, x \in Names : HasName(dents', k, d, x) <=> HasName(dents, k, d, x)
    BY <1>2, <1>7, <1>8
  <2>4. /\ Cardinality(Subdirs(dents, inode, d)) \in Nat /\ Cardinality(Subdirs(dents', inode', d)) \in Nat
        /\ Cardinality(Subdirs(dents', inode', d)) = Cardinality(Subdirs(dents, inode, d))
              + Bit(IsDir(i) /\ \E x \in Names : HasName(dents', i, d, x))
              - Bit(IsDir(i) /\ \E x \in Names : HasName(dents, i, d, x))
    BY <1>3, <1>5, <1>8, <2>3, SubdirsStep
  <2>5. IsDir(i) => (\E x \in Names : HasName(dents, i, d, x))
                    /\ ((\E x \in Names : HasName(dents', i, d, x)) <=> d = e)
    <3>1. ASSUME IsDir(i), NEW x \in Names, HasName(dents, i, d, x) PROVE x = n \/ (d = e /\ x = m)
      <4>1. <<d, x>> \in {<<d, n>>, <<e, m>>}
        BY <1>2, <3>1, NamesMember
      <4> QED BY <4>1
    <3>2. d = e => n # m /\ HasName(dents', i, d, m)
      BY <1>2, <1>8
    <3>3. IsDir(i) /\ d # e => ~\E x \in Names : HasName(dents', i, d, x)
      BY <1>8, <3>1
    <3> QED BY <1>2, <3>2, <3>3
  <2> QED BY <1>3, <1>5, <2>1, <2>2, <2>4, <2>5 DEF Bit
<1>14. LiveDir(d)'
  <2>1. inode'[d].nlink # 0
    BY <1>13, NamesFinite DEF Bit
  <2>2. inode[d].kind = "dir" /\ page[d].kind = "dir"
    BY <1>2, <1>3 DEF LiveDir, PageInv
  <2> QED BY <1>5, <1>6, <2>1, <2>2 DEF LiveDir
<1>15. \A k \in Inos : LiveDir(k)' <=> LiveDir(k)
  <2>1. \A k \in Inos \ {i, d} : LiveDir(k)' <=> LiveDir(k)
    BY <1>5, <1>6 DEF LiveDir
  <2>2. LiveDir(i)' <=> LiveDir(i)
    BY <1>12 DEF LiveDir
  <2> QED BY <1>2, <1>14, <2>1, <2>2
<1>16. Frame({t}, {i}, {d})
  <2>1. \A k \in Inos \ {d} : LiveDir(k) =>
           LiveDir(k)' /\ dents'[k] = dents[k] /\ hint'[k] = hint[k] /\ inode'[k].depth = inode[k].depth
    BY <1>1, <1>5, <1>8, <1>15
  <2>2. \A k \in Inos \ {i} : Kept(k, {d})
    <3>1. page[d].kind # "none"
      BY <1>2 DEF LiveDir
    <3>2. ASSUME NEW k \in Inos \ {i} PROVE Kept(k, {d})
      <4>1. page'[k] = page[k] \/ (page[k].kind # "none" /\ page'[k] = inode'[k])
        BY <1>6, <3>1
      <4>2. page'[k] = inode'[k] \/ inode'[k] = inode[k]
        BY <1>5, <1>6
      <4> QED BY <1>1, <1>5, <1>8, <1>9, <4>1, <4>2 DEF Kept
    <3> QED BY <3>2
  <2>3. Counted(d)'
    BY <1>13, <1>14 DEF Counted, Bit
  <2>4. {d} \subseteq op[t].locks /\ op'[t].locks \subseteq op[t].locks
        /\ \A k \in {d} : k \in Targets(t) \/ (LiveDir(k) /\ Counted(k)')
    BY <1>2, <1>10, <2>3
  <2>5. Targets(t)' \subseteq Targets(t) /\ (CrossDir(t)' => CrossDir(t))
        /\ \A k \in Inos \ {d} : DoubledBy(t, k)' <=> DoubledBy(t, k)
    BY <1>2, <1>10
  <2>6. \A k \in Inos \ Targets(t) : Kept(k, {d})
    BY <1>2, <2>2
  <2>7. \A k \in Inos : NamesOf(dents, k) # {} => inode'[k].kind = inode[k].kind
    BY <1>5
  <2> HIDE DEF Targets, LiveDir
  <2>8. Frame({t}, Targets(t), {d})
    BY <1>4, <2>1, <2>4, <2>5, <2>6, <2>7, MoveFrame
  <2> QED BY <1>2, <2>8
<1>17. TypeInv'
  <2>1. parent' \in [Inos -> Inos]
    BY <1>1, <1>3 DEF TypeInv
  <2> QED BY <1>1, <1>3, <1>4, <1>5, <1>6, <1>8, <2>1 DEF TypeInv, Directories
<1>18. OpInv(t)'
  BY <1>4 DEF OpInv, AddInv, UnlinkInv, RenameInv, Targets
<1>19. IsDir(i) => parent'[i] = e /\ NamesOf(dents', i) = {<<e, m>>}
  BY <1>1, <1>2, <1>3, <1>8 DEF TypeInv
<1>20. PageInv(i)' /\ OrphanInv(i)' /\ LinkInv(i)'
  <2>1. PageInv(i)'
    BY <1>2, <1>3, <1>12, <1>15 DEF PageInv
  <2>2. OrphanInv(i)'
    BY <1>1, <1>12 DEF OrphanInv
  <2>3. LinkInv(i)'
    <3>1. page'[i].kind = "file" =>
            inode'[i].nlink = Cardinality(NamesOf(dents', i)) + Bit(Ahead(i)') - Bit(Behind(i)')
      <4>1. NamesOf(dents', i) = NamesOf(dents, i) \ {<<d, n>>}
        BY <1>8
      <4>2. /\ Cardinality(NamesOf(dents', i)) \in Nat
            /\ Cardinality(NamesOf(dents, i)) = Cardinality(NamesOf(dents', i)) + 1
        BY <1>12, <4>1, NameGone
      <4> QED BY <1>3, <1>11, <1>12, <4>2 DEF LinkInv, Bit
    <3>2. LiveDir(i)' => inode'[i].nlink = 2 + Cardinality(Subdirs(dents', inode', i)) + Bit(Doubled(i)')
      <4>1. LiveDir(i)' => LiveDir(i)
        BY <1>15
      <4>2. DoubledBy(t, i)' <=> DoubledBy(t, i)
        BY <1>2, <1>10
      <4> QED BY <1>4, <1>5, <1>12, <4>1, <4>2, DirKept
    <3>3. LiveDir(i)' => NamesOf(dents', i) = {<<parent'[i], m>>}
      BY <1>12, <1>19 DEF LiveDir, IsDir
    <3> QED BY <1>2, <1>12, <3>1, <3>2, <3>3 DEF LinkInv
  <2> QED BY <2>1, <2>2, <2>3
<1>21. DirsFound'
  <2>1. \A k \in Inos : EntriesFound(dents'[k], inode'[k].depth)
    BY <1>3, <1>5, <1>8 DEF DirsFound
  <2> QED BY <2>1 DEF DirsFound
<1>22. CycleInv'
  <2>1. CASE ~IsDir(i)
    <3>1. parent' = parent
      BY <1>1, <2>1
    <3> QED BY <1>4, <1>10, <1>15, <3>1, CycleOthers
  <2>2. CASE IsDir(i)
    <3>1. i \notin Above(e)
      <4>1. CASE d # e
        BY <1>0, <1>1, <1>10, <4>1 DEF Inv, CycleInv
      <4>2. CASE d = e
        BY <1>2, <1>12, <2>2, <4>2, ChildNotAbove DEF LiveDir, IsDir
      <4> QED BY <4>1, <4>2
    <3>2. NoCycle(parent', {k \in Inos : LiveDir(k)'})
      <4>1. {i} \in SUBSET Inos /\ \A k \in {i} : parent'[k] \in Inos /\ Above(parent'[k]) \cap {i} = {}
        BY <1>19, <2>2, <3>1
      <4> HIDE DEF LiveDir, Above
      <4> QED BY <1>9, <1>15, <4>1, NoCycleMoved
    <3>3. parent' = parent \/ CrossDir(t)
      <4>1. d = e => parent' = parent
        BY <1>1, <1>2, <1>3, <2>2 DEF TypeInv
      <4> QED BY <1>10, <4>1
    <3> QED BY <1>4, <3>2, <3>3, CycleMoved
  <2> QED BY <2>1, <2>2
<1>23. OrphanCount'
  <2>1. Cardinality(Reserving') = Cardinality(Reserving)
    BY <1>1, <1>4, ReservingStep
  <2> QED BY <1>1, <2>1 DEF Inv, OrphanCount
<1>24. SavedInv'
  BY <1>1 DEF Inv, SavedInv, SavedTreeConsistent
<1>25. \A u \in {t} : OpInv(u)'
  BY <1>18
<1>26. \A k \in {i} : PageInv(k)' /\ OrphanInv(k)' /\ LinkInv(k)'
  BY <1>20
<1> QED BY <1>16, <1>17, <1>21, <1>22, <1>23, <1>24, <1>25, <1>26, Assemble

LEMMA CrossOldDirKeeps ==
  ASSUME Inv, NEW t \in Threads, CrossOldDir(t)
  PROVE  Inv'
<1>0. PICK i \in Inos, old \in Inos, d \in Inos, e \in Inos, n \in {op[t].name}, m \in {op[t].toName} :
         /\ i = op[t].ino /\ old = op[t].old /\ d = op[t].dir /\ e = op[t].toDir
         /\ n = op[t].name /\ m = op[t].toName
  BY InvTypes DEF Inv
<1> DEFINE U == IF d # e /\ IsDir(old) /\ ~IsDir(i) THEN {d} ELSE {}
           V == IF d # e /\ IsDir(i) /\ ~IsDir(old) THEN {d} ELSE {}
<1>1. /\ op[t].pc = "exchange" /\ SetsLink(d, n, old)
      /\ parent' = [k \in Inos |-> IF k = i /\ IsDir(i) THEN e
                                   ELSE IF k = old /\ IsDir(old) THEN d ELSE parent[k]]
      /\ AddLinks(U, V) /\ UpdateInodePages({i, d}) /\ Goto(t, "crossed")
      /\ hint' = hint /\ orphans' = orphans /\ nOrphans' = nOrphans /\ open' = open /\ saved' = saved
  BY <1>0 DEF CrossOldDir, SetsLink, orphanVars
<1>2. /\ op[t].what = "rename" /\ {d, e} \subseteq op[t].locks /\ LiveDir(d) /\ LiveDir(e)
      /\ n \in Names /\ m \in Names /\ <<d, n>> # <<e, m>>
      /\ page[i].kind # "none" /\ (~IsDir(i) => i \in op[t].locks)
      /\ page[old].kind # "none" /\ (~IsDir(old) => old \in op[t].locks)
      /\ HasName(dents, i, d, n) /\ HasName(dents, old, e, m) /\ i # old
      /\ IsDir(i) => parent[i] = d /\ NamesOf(dents, i) = {<<d, n>>}
      /\ IsDir(old) => parent[old] = e /\ NamesOf(dents, old) = {<<e, m>>}
      /\ {i, old} \cap {Root, d, e} = {} /\ Targets(t) = {i, old}
  <2>1. RenameInv(t) /\ Targets(t) \cap {Root, d, e} = {}
    BY <1>0 DEF Inv, OpInv
  <2>2. Targets(t) = {i, old}
    BY <1>0, <1>1 DEF Targets
  <2> HIDE DEF Targets, U, V
  <2> QED BY <1>0, <1>1, <2>1, <2>2 DEF RenameInv, OnlyAt
<1>3. /\ TypeInv /\ DirsFound /\ PageInv(i) /\ OrphanInv(i) /\ LinkInv(i)
      /\ PageInv(old) /\ OrphanInv(old) /\ LinkInv(old) /\ LinkInv(d) /\ PageInv(d)
      /\ inode[i].nlink \in Int /\ inode[old].nlink \in Int /\ inode[d].nlink \in Int
  BY InvTypes DEF Inv
<1>4. /\ op' \in [Threads -> OpTypes] /\ ops' = ops
      /\ \A u \in Threads \ {t} : op'[u] = op[u]
      /\ op'[t].pc = "crossed" /\ op'[t].what = op[t].what /\ op'[t].locks = op[t].locks
      /\ op'[t].dir = d /\ op'[t].name = n /\ op'[t].ino = i
      /\ op'[t].toDir = e /\ op'[t].toName = m /\ op'[t].old = old
  BY <1>0, <1>1, <1>3, GotoStep DEF Pcs
<1>5. /\ inode' \in [Inos -> AnyInodes]
      /\ \A k \in Inos : inode'[k].kind = inode[k].kind /\ inode'[k].depth = inode[k].depth
      /\ \A k \in Inos \ {d} : inode'[k] = inode[k]
      /\ inode'[d].nlink = inode[d].nlink + Bit(d # e /\ IsDir(old) /\ ~IsDir(i))
                                          - Bit(d # e /\ IsDir(i) /\ ~IsDir(old))
  <2>1. /\ inode' \in [Inos -> AnyInodes]
        /\ \A k \in Inos : /\ inode'[k].kind = inode[k].kind /\ inode'[k].depth = inode[k].depth
                           /\ inode'[k].nlink = inode[k].nlink + Bit(k \in U) - Bit(k \in V)
                           /\ k \notin U /\ k \notin V => inode'[k] = inode[k]
    BY <1>1, <1>3, AddLinksStep
  <2>2. /\ Bit(d \in U) = Bit(d # e /\ IsDir(old) /\ ~IsDir(i))
        /\ Bit(d \in V) = Bit(d # e /\ IsDir(i) /\ ~IsDir(old))
        /\ \A k \in Inos \ {d} : k \notin U /\ k \notin V
    BY DEF Bit
  <2> HIDE DEF U, V
  <2> QED BY <2>1, <2>2
<1>6. /\ page' \in [Inos -> AnyInodes]
      /\ \A k \in Inos : page'[k] = IF k \in {i, d} THEN inode'[k] ELSE page[k]
  BY <1>1, <1>3, <1>5, UpdateStep
<1> HIDE DEF U, V
<1>7. /\ Taken(d, n)
      /\ \A k : HasName(dents, k, d, n) <=> k = i
  BY <1>2, <1>3, EntryByName
<1>8. /\ dents' \in Directories
      /\ \A k \in Inos \ {d} : dents'[k] = dents[k]
      /\ \A k, f \in Inos, x \in Names :
           HasName(dents', k, f, x) <=> IF f = d /\ x = n THEN k = old ELSE HasName(dents, k, f, x)
      /\ \A k \in Inos : NamesOf(dents', k) =
           (NamesOf(dents, k) \ {<<d, n>>}) \cup (IF k = old THEN {<<d, n>>} ELSE {})
      /\ EntriesFound(dents'[d], inode[d].depth)
  BY <1>1, <1>2, <1>3, <1>7, SetLinkStep
<1>9. /\ \A k \in Inos \ {i, old} : NamesOf(dents', k) = NamesOf(dents, k)
      /\ <<d, n>> \notin NamesOf(dents, old)
      /\ NamesOf(dents', old) = NamesOf(dents, old) \cup {<<d, n>>}
      /\ NamesOf(dents', i) = NamesOf(dents, i) \ {<<d, n>>}
  <2>1. \A k \in Inos \ {i} : <<d, n>> \notin NamesOf(dents, k)
    BY <1>2, <1>7, NamesMember
  <2>2. \A k \in Inos : NamesOf(dents', k) =
           (NamesOf(dents, k) \ {<<d, n>>}) \cup (IF k = old THEN {<<d, n>>} ELSE {})
    BY <1>8
  <2>3. ASSUME NEW k \in Inos \ {i, old} PROVE NamesOf(dents', k) = NamesOf(dents, k)
    <3>1. NamesOf(dents', k) = (NamesOf(dents, k) \ {<<d, n>>}) \cup {}
      BY <2>2
    <3> QED BY <2>1, <3>1, AbsentRemoved
  <2>4. \A k \in Inos \ {i, old} : NamesOf(dents', k) = NamesOf(dents, k)
    BY <2>3
  <2> QED BY <1>2, <2>1, <2>2, <2>3, <2>4
<1>10. /\ \A u \in Threads \ {t} : i \notin Targets(u) /\ old \notin Targets(u)
       /\ Targets(t)' = {i, old} /\ (CrossDir(t)' <=> CrossDir(t)) /\ (CrossDir(t) <=> d # e)
       /\ \A k : ~DoubledBy(t, k)
       /\ \A k : DoubledBy(t, k)' <=> k = d /\ k = e /\ inode'[i].kind = "dir"
  <2>1. \A u \in Threads \ {t} : i \notin Targets(u) /\ old \notin Targets(u)
    BY <1>2, Exclusive
  <2>2. Targets(t)' = {i, old}
    BY <1>4 DEF Targets
  <2>3. (CrossDir(t)' <=> CrossDir(t)) /\ (CrossDir(t) <=> d # e)
    BY <1>0, <1>2, <1>4 DEF CrossDir
  <2>4. \A k : ~DoubledBy(t, k)
    BY <1>1 DEF DoubledBy
  <2>5. \A k : DoubledBy(t, k)' <=> k = d /\ k = e /\ inode'[i].kind = "dir"
    BY <1>4 DEF DoubledBy, IsDir
  <2> QED BY <2>1, <2>2, <2>3, <2>4, <2>5
<1>11. /\ ~Ahead(i) /\ Ahead(i)' /\ ~Behind(i) /\ ~Behind(i)' /\ ~Losing(i) /\ ~Losing(i)'
       /\ ~Ahead(old) /\ ~Ahead(old)' /\ ~Behind(old) /\ Behind(old)' /\ ~Losing(old) /\ ~Losing(old)'
  <2>1. \A u \in Threads \ {t} : op'[u] = op[u] /\ i \notin Targets(u) /\ old \notin Targets(u)
    BY <1>4, <1>10
  <2>2. /\ op[t].pc = "exchange" /\ op'[t].pc = "crossed"
        /\ op'[t].ino = i /\ op'[t].old = old /\ i # old
    BY <1>1, <1>2, <1>4
  <2>3. ~Ahead(i) /\ Ahead(i)' /\ ~Behind(i) /\ ~Behind(i)' /\ ~Losing(i) /\ ~Losing(i)'
    BY <2>1, <2>2, OnlyActor
  <2>4. ~Ahead(old) /\ ~Ahead(old)' /\ ~Behind(old) /\ Behind(old)' /\ ~Losing(old) /\ ~Losing(old)'
    BY <2>1, <2>2, OnlyActor
  <2> QED BY <2>3, <2>4
<1>12. /\ page[i].kind = inode[i].kind /\ i \notin orphans /\ <<d, n>> \in NamesOf(dents, i)
       /\ inode[i].nlink # 0 /\ inode'[i] = inode[i] /\ page'[i] = inode[i] /\ dents'[i] = dents[i]
       /\ IsDir(i) => LiveDir(i)
  <2>1. page[i].kind = inode[i].kind /\ i \notin orphans /\ <<d, n>> \in NamesOf(dents, i)
        /\ (IsDir(i) => LiveDir(i))
    BY <1>2, NamedInode
  <2>2. inode[i].nlink # 0
    BY <1>2, <1>3, <1>11, <2>1 DEF OrphanInv
  <2> QED BY <1>2, <1>5, <1>6, <1>8, <2>1, <2>2
<1>13. /\ page[old].kind = inode[old].kind /\ old \notin orphans
       /\ inode[old].nlink # 0 /\ page[old] = inode[old]
       /\ inode'[old] = inode[old] /\ page'[old] = inode[old] /\ dents'[old] = dents[old]
       /\ IsDir(old) => LiveDir(old)
  <2>1. page[old].kind = inode[old].kind /\ old \notin orphans /\ (IsDir(old) => LiveDir(old))
    BY <1>2, NamedInode
  <2>2. inode[old].nlink # 0
    BY <1>2, <1>3, <1>11, <2>1 DEF OrphanInv
  <2>3. page[old] = inode[old]
    BY <1>2, <1>3, <1>11, <2>2 DEF PageInv
  <2> QED BY <1>2, <1>5, <1>6, <1>8, <2>1, <2>2, <2>3
<1>14. inode'[d].nlink = 2 + Cardinality(Subdirs(dents', inode', d)) + Bit(Doubled(d)')
  <2>1. inode[d].nlink = 2 + Cardinality(Subdirs(dents, inode, d)) + Bit(Doubled(d))
    BY <1>2, <1>3 DEF LinkInv
  <2>2. ~Doubled(d) /\ (Doubled(d)' <=> d = e /\ IsDir(i))
    BY <1>2, <1>4, <1>5, <1>10, DoubledHeld DEF IsDir
  <2>3. \A k \in Inos \ {i, old}, x \in Names : HasName(dents', k, d, x) <=> HasName(dents, k, d, x)
    BY <1>2, <1>7, <1>8
  <2>4. /\ Cardinality(Subdirs(dents, inode, d)) \in Nat /\ Cardinality(Subdirs(dents', inode', d)) \in Nat
        /\ Cardinality(Subdirs(dents', inode', d)) = Cardinality(Subdirs(dents, inode, d))
              + Bit(IsDir(i) /\ \E x \in Names : HasName(dents', i, d, x))
              - Bit(IsDir(i) /\ \E x \in Names : HasName(dents, i, d, x))
              + Bit(IsDir(old) /\ \E x \in Names : HasName(dents', old, d, x))
              - Bit(IsDir(old) /\ \E x \in Names : HasName(dents, old, d, x))
    BY <1>2, <1>3, <1>5, <1>8, <2>3, SubdirsStep2
  <2>5. IsDir(i) => (\E x \in Names : HasName(dents, i, d, x)) /\ ~\E x \in Names : HasName(dents', i, d, x)
    <3>1. IsDir(i) => \A x \in Names : HasName(dents, i, d, x) => x = n
      BY <1>2, NamesMember
    <3> QED BY <1>2, <1>8, <3>1
  <2>6. IsDir(old) => (\E x \in Names : HasName(dents', old, d, x))
                      /\ ((\E x \in Names : HasName(dents, old, d, x)) <=> d = e)
    <3>1. IsDir(old) => \A x \in Names : HasName(dents, old, d, x) => d = e
      BY <1>2, NamesMember
    <3>2. HasName(dents', old, d, n)
      BY <1>2, <1>8
    <3> QED BY <1>2, <3>1, <3>2
  <2>7. Cardinality(Subdirs(dents', inode', d)) = Cardinality(Subdirs(dents, inode, d))
              - Bit(IsDir(i)) + Bit(IsDir(old) /\ d # e)
    BY <2>4, <2>5, <2>6 DEF Bit
  <2> QED BY <1>3, <1>5, <2>1, <2>2, <2>4, <2>7 DEF Bit
<1>15. LiveDir(d)'
  <2>1. inode'[d].nlink # 0
    BY <1>14, NamesFinite DEF Bit
  <2>2. inode[d].kind = "dir"
    BY <1>2, <1>3 DEF LiveDir, PageInv
  <2> QED BY <1>5, <1>6, <2>1, <2>2 DEF LiveDir
<1>16. \A k \in Inos : LiveDir(k)' <=> LiveDir(k)
  <2>1. \A k \in Inos \ {i, d} : LiveDir(k)' <=> LiveDir(k)
    BY <1>5, <1>6 DEF LiveDir
  <2>2. LiveDir(i)' <=> LiveDir(i)
    BY <1>12 DEF LiveDir
  <2> QED BY <1>2, <1>15, <2>1, <2>2
<1>17. Frame({t}, {i, old}, {d})
  <2>1. \A k \in Inos \ {d} : LiveDir(k) =>
           LiveDir(k)' /\ dents'[k] = dents[k] /\ hint'[k] = hint[k] /\ inode'[k].depth = inode[k].depth
    BY <1>1, <1>5, <1>8, <1>16
  <2>2. \A k \in Inos \ {i, old} : Kept(k, {d})
    <3>1. page[d].kind # "none"
      BY <1>2 DEF LiveDir
    <3>2. ASSUME NEW k \in Inos \ {i, old} PROVE Kept(k, {d})
      <4>1. page'[k] = page[k] \/ (page[k].kind # "none" /\ page'[k] = inode'[k])
        BY <1>6, <3>1
      <4>2. page'[k] = inode'[k] \/ inode'[k] = inode[k]
        BY <1>5, <1>6
      <4>3. parent'[k] = parent[k]
        BY <1>1
      <4> QED BY <1>1, <1>5, <1>8, <1>9, <4>1, <4>2, <4>3 DEF Kept
    <3> QED BY <3>2
  <2>3. Counted(d)'
    BY <1>14, <1>15 DEF Counted, Bit
  <2>4. {d} \subseteq op[t].locks /\ op'[t].locks \subseteq op[t].locks
        /\ \A k \in {d} : k \in Targets(t) \/ (LiveDir(k) /\ Counted(k)')
    BY <1>2, <1>4, <2>3
  <2>5. Targets(t)' \subseteq Targets(t) /\ (CrossDir(t)' => CrossDir(t))
        /\ \A k \in Inos \ {d} : DoubledBy(t, k)' <=> DoubledBy(t, k)
    BY <1>2, <1>10
  <2>6. \A k \in Inos \ Targets(t) : Kept(k, {d})
    BY <1>2, <2>2
  <2>7. \A k \in Inos : NamesOf(dents, k) # {} => inode'[k].kind = inode[k].kind
    BY <1>5
  <2> HIDE DEF Targets, LiveDir
  <2>8. Frame({t}, Targets(t), {d})
    BY <1>4, <2>1, <2>4, <2>5, <2>6, <2>7, MoveFrame
  <2> QED BY <1>2, <2>8
<1>18. TypeInv'
  <2>1. parent' \in [Inos -> Inos]
    BY <1>1, <1>3 DEF TypeInv
  <2> QED BY <1>1, <1>3, <1>4, <1>5, <1>6, <1>8, <2>1 DEF TypeInv, Directories
<1>19. (IsDir(i) => parent'[i] = e) /\ (IsDir(old) => parent'[old] = d)
  BY <1>1, <1>2
<1>20. OpInv(t)'
  <2>1. HasName(dents', old, d, n) /\ HasName(dents', old, e, m)
    BY <1>2, <1>8
  <2>2. /\ IsDir(old) => NamesOf(dents', old) = {<<d, n>>, <<e, m>>}
        /\ IsDir(i) => NamesOf(dents', i) = {}
    BY <1>2, <1>9
  <2>3. page'[i].kind # "none" /\ page'[old].kind # "none"
        /\ (IsDir(i)' <=> IsDir(i)) /\ (IsDir(old)' <=> IsDir(old))
    BY <1>2, <1>12, <1>13 DEF IsDir
  <2>4. RenameInv(t)'
    BY <1>2, <1>4, <1>10, <1>12, <1>16, <1>19, <2>1, <2>2, <2>3 DEF RenameInv, OnlyAt
  <2>5. AddInv(t)' /\ UnlinkInv(t)'
    BY <1>4 DEF AddInv, UnlinkInv
  <2> QED BY <1>2, <1>4, <1>10, <2>4, <2>5 DEF OpInv
<1>21. PageInv(i)' /\ OrphanInv(i)' /\ LinkInv(i)'
  <2>1. PageInv(i)'
    BY <1>2, <1>3, <1>12, <1>16 DEF PageInv
  <2>2. OrphanInv(i)'
    BY <1>1, <1>12 DEF OrphanInv
  <2>3. LinkInv(i)'
    <3>1. page'[i].kind = "file" =>
            inode'[i].nlink = Cardinality(NamesOf(dents', i)) + Bit(Ahead(i)') - Bit(Behind(i)')
      <4>1. /\ Cardinality(NamesOf(dents', i)) \in Nat
            /\ Cardinality(NamesOf(dents, i)) = Cardinality(NamesOf(dents', i)) + 1
        BY <1>9, <1>12, NameGone
      <4> QED BY <1>3, <1>11, <1>12, <4>1 DEF LinkInv, Bit
    <3>2. LiveDir(i)' => inode'[i].nlink = 2 + Cardinality(Subdirs(dents', inode', i)) + Bit(Doubled(i)')
      <4>1. LiveDir(i)' => LiveDir(i)
        BY <1>16
      <4>2. DoubledBy(t, i)' <=> DoubledBy(t, i)
        BY <1>2, <1>10
      <4> QED BY <1>4, <1>5, <1>12, <4>1, <4>2, DirKept
    <3>3. \E u \in Threads : i \in Targets(u)'
      BY <1>10
    <3> QED BY <1>12, <3>1, <3>2, <3>3 DEF LinkInv
  <2> QED BY <2>1, <2>2, <2>3
<1>22. PageInv(old)' /\ OrphanInv(old)' /\ LinkInv(old)'
  <2>1. PageInv(old)'
    BY <1>2, <1>3, <1>13, <1>16 DEF PageInv
  <2>2. OrphanInv(old)'
    BY <1>1, <1>13 DEF OrphanInv
  <2>3. LinkInv(old)'
    <3>1. page'[old].kind = "file" =>
            inode'[old].nlink = Cardinality(NamesOf(dents', old)) + Bit(Ahead(old)') - Bit(Behind(old)')
      <4>1. /\ Cardinality(NamesOf(dents, old)) \in Nat
            /\ Cardinality(NamesOf(dents', old)) = Cardinality(NamesOf(dents, old)) + 1
        BY <1>9, NameCame
      <4> QED BY <1>3, <1>11, <1>13, <4>1 DEF LinkInv, Bit
    <3>2. LiveDir(old)' => inode'[old].nlink = 2 + Cardinality(Subdirs(dents', inode', old)) + Bit(Doubled(old)')
      <4>1. LiveDir(old)' => LiveDir(old)
        BY <1>16
      <4>2. DoubledBy(t, old)' <=> DoubledBy(t, old)
        BY <1>2, <1>10
      <4> QED BY <1>4, <1>5, <1>13, <4>1, <4>2, DirKept
    <3>3. \E u \in Threads : old \in Targets(u)'
      BY <1>10
    <3> QED BY <1>13, <3>1, <3>2, <3>3 DEF LinkInv
  <2> QED BY <2>1, <2>2, <2>3
<1>23. DirsFound'
  <2>1. \A k \in Inos : EntriesFound(dents'[k], inode'[k].depth)
    BY <1>3, <1>5, <1>8 DEF DirsFound
  <2> QED BY <2>1 DEF DirsFound
<1>24. CycleInv'
  <2> DEFINE M == {k \in {i, old} : IsDir(k)}
  <2>1. IsDir(i) => i \notin Above(d) /\ i \notin Above(e)
    <3>1. IsDir(i) => i \notin Above(d)
      BY <1>2, <1>12, ChildNotAbove
    <3>2. d # e => i \notin Above(e)
      BY <1>0, <1>1, <1>10 DEF Inv, CycleInv
    <3> QED BY <3>1, <3>2
  <2>2. IsDir(old) => old \notin Above(d) /\ old \notin Above(e)
    <3>1. IsDir(old) => old \notin Above(e)
      BY <1>2, <1>13, ChildNotAbove
    <3>2. d # e => old \notin Above(d)
      BY <1>0, <1>1, <1>10 DEF Inv, CycleInv
    <3> QED BY <3>1, <3>2
  <2>3. NoCycle(parent', {k \in Inos : LiveDir(k)'})
    <3>1. M \in SUBSET Inos /\ \A k \in Inos \ M : parent'[k] = parent[k]
      BY <1>1
    <3>2. \A k \in M : parent'[k] \in {d, e}
      BY <1>19
    <3>3. Above(d) \cap M = {} /\ Above(e) \cap M = {}
      BY <2>1, <2>2
    <3>4. \A k \in M : parent'[k] \in Inos /\ Above(parent'[k]) \cap M = {}
      <4> HIDE DEF M, Above
      <4> QED BY <3>2, <3>3
    <3>5. \A k \in Inos : LiveDir(k)' => LiveDir(k)
      BY <1>16
    <3> HIDE DEF M, LiveDir, Above
    <3> QED BY <3>1, <3>4, <3>5, NoCycleMoved
  <2>4. parent' = parent \/ CrossDir(t)
    <3>1. CASE d = e
      <4>1. \A k \in Inos : parent'[k] = parent[k]
        BY <1>1, <1>2, <3>1
      <4> QED BY <1>3, <1>18, <4>1 DEF TypeInv
    <3> QED BY <1>10, <3>1
  <2> QED BY <1>4, <2>3, <2>4, CycleMoved
<1>25. OrphanCount'
  <2>1. Cardinality(Reserving') = Cardinality(Reserving)
    BY <1>1, <1>4, ReservingStep
  <2> QED BY <1>1, <2>1 DEF Inv, OrphanCount
<1>26. SavedInv'
  BY <1>1 DEF Inv, SavedInv, SavedTreeConsistent
<1>27. \A u \in {t} : OpInv(u)'
  BY <1>20
<1>28. \A k \in {i, old} : PageInv(k)' /\ OrphanInv(k)' /\ LinkInv(k)'
  BY <1>21, <1>22
<1> QED BY <1>17, <1>18, <1>23, <1>24, <1>25, <1>26, <1>27, <1>28, Assemble

LEMMA CrossNewDirKeeps ==
  ASSUME Inv, NEW t \in Threads, CrossNewDir(t)
  PROVE  Inv'
<1>0. PICK i \in Inos, old \in Inos, d \in Inos, e \in Inos, n \in {op[t].name}, m \in {op[t].toName} :
         /\ i = op[t].ino /\ old = op[t].old /\ d = op[t].dir /\ e = op[t].toDir
         /\ n = op[t].name /\ m = op[t].toName
  BY InvTypes DEF Inv
<1> DEFINE U == IF d # e /\ IsDir(i) /\ ~IsDir(old) THEN {e} ELSE {}
           V == IF d # e /\ IsDir(old) /\ ~IsDir(i) THEN {e} ELSE {}
<1>1. /\ op[t].pc = "crossed" /\ SetsLink(e, m, i)
      /\ AddLinks(U, V) /\ UpdateInodePages({old, e}) /\ Finish(t)
      /\ parent' = parent /\ hint' = hint /\ orphans' = orphans /\ nOrphans' = nOrphans
      /\ open' = open /\ saved' = saved
  BY <1>0 DEF CrossNewDir, SetsLink, orphanVars
<1>2. /\ op[t].what = "rename" /\ {d, e} \subseteq op[t].locks /\ LiveDir(d) /\ LiveDir(e)
      /\ n \in Names /\ m \in Names /\ <<d, n>> # <<e, m>>
      /\ page[i].kind # "none" /\ page[old].kind # "none"
      /\ HasName(dents, old, d, n) /\ HasName(dents, old, e, m) /\ i # old
      /\ inode[i].nlink # 0 /\ page[i] = inode[i]
      /\ IsDir(i) => parent[i] = e /\ NamesOf(dents, i) = {}
      /\ IsDir(old) => parent[old] = d /\ NamesOf(dents, old) = {<<d, n>>, <<e, m>>}
      /\ {i, old} \cap {Root, d, e} = {} /\ Targets(t) = {i, old}
  <2>1. RenameInv(t) /\ Targets(t) \cap {Root, d, e} = {}
    BY <1>0 DEF Inv, OpInv
  <2>2. Targets(t) = {i, old}
    BY <1>0, <1>1 DEF Targets
  <2> HIDE DEF Targets, U, V
  <2> QED BY <1>0, <1>1, <2>1, <2>2 DEF RenameInv, OnlyAt
<1>3. /\ TypeInv /\ DirsFound /\ PageInv(i) /\ OrphanInv(i) /\ LinkInv(i)
      /\ PageInv(old) /\ OrphanInv(old) /\ LinkInv(old) /\ LinkInv(e) /\ PageInv(e)
      /\ inode[i].nlink \in Int /\ inode[old].nlink \in Int /\ inode[e].nlink \in Int
  BY InvTypes DEF Inv
<1>4. /\ op' \in [Threads -> OpTypes] /\ ops' = ops
      /\ \A u \in Threads \ {t} : op'[u] = op[u]
      /\ op'[t] = Idle /\ op'[t].pc = "idle"
  BY <1>1, <1>3, FinishStep
<1>5. /\ inode' \in [Inos -> AnyInodes]
      /\ \A k \in Inos : inode'[k].kind = inode[k].kind /\ inode'[k].depth = inode[k].depth
      /\ \A k \in Inos \ {e} : inode'[k] = inode[k]
      /\ inode'[e].nlink = inode[e].nlink + Bit(d # e /\ IsDir(i) /\ ~IsDir(old))
                                          - Bit(d # e /\ IsDir(old) /\ ~IsDir(i))
  <2>1. /\ inode' \in [Inos -> AnyInodes]
        /\ \A k \in Inos : /\ inode'[k].kind = inode[k].kind /\ inode'[k].depth = inode[k].depth
                           /\ inode'[k].nlink = inode[k].nlink + Bit(k \in U) - Bit(k \in V)
                           /\ k \notin U /\ k \notin V => inode'[k] = inode[k]
    BY <1>1, <1>3, AddLinksStep
  <2>2. /\ Bit(e \in U) = Bit(d # e /\ IsDir(i) /\ ~IsDir(old))
        /\ Bit(e \in V) = Bit(d # e /\ IsDir(old) /\ ~IsDir(i))
        /\ \A k \in Inos \ {e} : k \notin U /\ k \notin V
    BY DEF Bit
  <2> HIDE DEF U, V
  <2> QED BY <2>1, <2>2
<1>6. /\ page' \in [Inos -> AnyInodes]
      /\ \A k \in Inos : page'[k] = IF k \in {old, e} THEN inode'[k] ELSE page[k]
  BY <1>1, <1>3, <1>5, UpdateStep
<1> HIDE DEF U, V
<1>7. /\ Taken(e, m)
      /\ \A k : HasName(dents, k, e, m) <=> k = old
  BY <1>2, <1>3, EntryByName
<1>8. /\ dents' \in Directories
      /\ \A k \in Inos \ {e} : dents'[k] = dents[k]
      /\ \A k, f \in Inos, x \in Names :
           HasName(dents', k, f, x) <=> IF f = e /\ x = m THEN k = i ELSE HasName(dents, k, f, x)
      /\ \A k \in Inos : NamesOf(dents', k) =
           (NamesOf(dents, k) \ {<<e, m>>}) \cup (IF k = i THEN {<<e, m>>} ELSE {})
      /\ EntriesFound(dents'[e], inode[e].depth)
  BY <1>1, <1>2, <1>3, <1>7, SetLinkStep
<1>9. /\ \A k \in Inos \ {i, old} : NamesOf(dents', k) = NamesOf(dents, k)
      /\ <<e, m>> \notin NamesOf(dents, i) /\ <<e, m>> \in NamesOf(dents, old)
      /\ NamesOf(dents', i) = NamesOf(dents, i) \cup {<<e, m>>}
      /\ NamesOf(dents', old) = NamesOf(dents, old) \ {<<e, m>>}
  <2>1. \A k \in Inos \ {old} : <<e, m>> \notin NamesOf(dents, k)
    BY <1>2, <1>7, NamesMember
  <2>2. \A k \in Inos : NamesOf(dents', k) =
           (NamesOf(dents, k) \ {<<e, m>>}) \cup (IF k = i THEN {<<e, m>>} ELSE {})
    BY <1>8
  <2>3. ASSUME NEW k \in Inos \ {i, old} PROVE NamesOf(dents', k) = NamesOf(dents, k)
    <3>1. NamesOf(dents', k) = (NamesOf(dents, k) \ {<<e, m>>}) \cup {}
      BY <2>2
    <3> QED BY <2>1, <3>1, AbsentRemoved
  <2>4. \A k \in Inos \ {i, old} : NamesOf(dents', k) = NamesOf(dents, k)
    BY <2>3
  <2>5. <<e, m>> \in NamesOf(dents, old)
    BY <1>2, NamesMember
  <2> QED BY <1>2, <2>1, <2>2, <2>3, <2>4, <2>5
<1>10. /\ \A u \in Threads \ {t} : i \notin Targets(u) /\ old \notin Targets(u)
       /\ Targets(t)' = {} /\ ~CrossDir(t)' /\ op'[t].locks = {}
       /\ \A k : ~DoubledBy(t, k)'
       /\ \A k : DoubledBy(t, k) <=> k = d /\ k = e /\ IsDir(i)
  <2>1. \A u \in Threads \ {t} : i \notin Targets(u) /\ old \notin Targets(u)
    BY <1>2, Exclusive
  <2>2. op'[t].locks = {} /\ op'[t].what = "none"
    BY <1>4 DEF Idle
  <2>3. Targets(t)' = {} /\ ~CrossDir(t)' /\ \A k : ~DoubledBy(t, k)'
    BY <1>4, <2>2 DEF Targets, CrossDir, DoubledBy
  <2>4. \A k : DoubledBy(t, k) <=> k = d /\ k = e /\ IsDir(i)
    BY <1>0, <1>1 DEF DoubledBy
  <2> QED BY <2>1, <2>2, <2>3, <2>4
<1>11. /\ Ahead(i) /\ ~Ahead(i)' /\ ~Behind(i) /\ ~Behind(i)' /\ ~Losing(i) /\ ~Losing(i)'
       /\ ~Ahead(old) /\ ~Ahead(old)' /\ Behind(old) /\ ~Behind(old)' /\ ~Losing(old) /\ ~Losing(old)'
       /\ ~\E u \in Threads : op[u].ino = i /\ op[u].pc = "tmpfile"
  <2>1. \A u \in Threads \ {t} : op'[u] = op[u] /\ i \notin Targets(u) /\ old \notin Targets(u)
    BY <1>4, <1>10
  <2>2. /\ op[t].pc = "crossed" /\ op'[t].pc = "idle"
        /\ op[t].ino = i /\ op[t].old = old /\ i # old
    BY <1>0, <1>1, <1>2, <1>4
  <2>3. /\ Ahead(i) /\ ~Ahead(i)' /\ ~Behind(i) /\ ~Behind(i)' /\ ~Losing(i) /\ ~Losing(i)'
        /\ ~\E u \in Threads : op[u].ino = i /\ op[u].pc = "tmpfile"
    BY <2>1, <2>2, OnlyActor
  <2>4. ~Ahead(old) /\ ~Ahead(old)' /\ Behind(old) /\ ~Behind(old)' /\ ~Losing(old) /\ ~Losing(old)'
    BY <2>1, <2>2, OnlyActor
  <2> QED BY <2>3, <2>4
<1>12. /\ page[i].kind = inode[i].kind /\ i \notin orphans
       /\ inode'[i] = inode[i] /\ page'[i] = inode[i] /\ dents'[i] = dents[i]
  BY <1>2, <1>3, <1>5, <1>6, <1>8, <1>11 DEF OrphanInv
<1>13. /\ page[old].kind = inode[old].kind /\ old \notin orphans /\ inode[old].nlink # 0
       /\ inode'[old] = inode[old] /\ page'[old] = inode[old] /\ dents'[old] = dents[old]
  <2>1. page[old].kind = inode[old].kind /\ old \notin orphans
    BY <1>2, NamedInode
  <2>2. inode[old].nlink # 0
    BY <1>2, <1>3, <1>11, <2>1 DEF OrphanInv
  <2> QED BY <1>2, <1>5, <1>6, <1>8, <2>1, <2>2
<1>14. inode'[e].nlink = 2 + Cardinality(Subdirs(dents', inode', e)) + Bit(Doubled(e)')
  <2>1. inode[e].nlink = 2 + Cardinality(Subdirs(dents, inode, e)) + Bit(Doubled(e))
    BY <1>2, <1>3 DEF LinkInv
  <2>2. ~Doubled(e)' /\ (Doubled(e) <=> d = e /\ IsDir(i))
    BY <1>2, <1>4, <1>10, DoubledHeld
  <2>3. \A k \in Inos \ {i, old}, x \in Names : HasName(dents', k, e, x) <=> HasName(dents, k, e, x)
    BY <1>2, <1>7, <1>8
  <2>4. /\ Cardinality(Subdirs(dents, inode, e)) \in Nat /\ Cardinality(Subdirs(dents', inode', e)) \in Nat
        /\ Cardinality(Subdirs(dents', inode', e)) = Cardinality(Subdirs(dents, inode, e))
              + Bit(IsDir(i) /\ \E x \in Names : HasName(dents', i, e, x))
              - Bit(IsDir(i) /\ \E x \in Names : HasName(dents, i, e, x))
              + Bit(IsDir(old) /\ \E x \in Names : HasName(dents', old, e, x))
              - Bit(IsDir(old) /\ \E x \in Names : HasName(dents, old, e, x))
    BY <1>2, <1>3, <1>5, <1>8, <2>3, SubdirsStep2
  <2>5. IsDir(i) => (\E x \in Names : HasName(dents', i, e, x)) /\ ~\E x \in Names : HasName(dents, i, e, x)
    <3>1. IsDir(i) => \A x \in Names : ~HasName(dents, i, e, x)
      BY <1>2, NamesMember
    <3> QED BY <1>2, <1>8, <3>1
  <2>6. IsDir(old) => (\E x \in Names : HasName(dents, old, e, x))
                      /\ ((\E x \in Names : HasName(dents', old, e, x)) <=> d = e)
    <3>1. ASSUME IsDir(old), NEW x \in Names, HasName(dents, old, e, x) PROVE x = m \/ (d = e /\ x = n)
      <4>1. <<e, x>> \in {<<d, n>>, <<e, m>>}
        BY <1>2, <3>1, NamesMember
      <4> QED BY <4>1
    <3>2. d = e => n # m /\ HasName(dents', old, e, n)
      BY <1>2, <1>8
    <3>3. IsDir(old) /\ d # e => ~\E x \in Names : HasName(dents', old, e, x)
      BY <1>2, <1>8, <3>1
    <3> QED BY <1>2, <3>2, <3>3
  <2>7. Cardinality(Subdirs(dents', inode', e)) = Cardinality(Subdirs(dents, inode, e))
              + Bit(IsDir(i)) - Bit(IsDir(old) /\ d # e)
    BY <2>4, <2>5, <2>6 DEF Bit
  <2> QED BY <1>3, <1>5, <2>1, <2>2, <2>4, <2>7 DEF Bit
<1>15. LiveDir(e)'
  <2>1. inode'[e].nlink # 0
    BY <1>14, NamesFinite DEF Bit
  <2>2. inode[e].kind = "dir"
    BY <1>2, <1>3 DEF LiveDir, PageInv
  <2> QED BY <1>5, <1>6, <2>1, <2>2 DEF LiveDir
<1>16. \A k \in Inos : LiveDir(k)' <=> LiveDir(k)
  <2>1. \A k \in Inos \ {old, e} : LiveDir(k)' <=> LiveDir(k)
    BY <1>5, <1>6 DEF LiveDir
  <2>2. LiveDir(old)' <=> LiveDir(old)
    BY <1>13 DEF LiveDir
  <2> QED BY <1>2, <1>15, <2>1, <2>2
<1>17. Frame({t}, {i, old}, {e})
  <2>1. \A k \in Inos \ {e} : LiveDir(k) =>
           LiveDir(k)' /\ dents'[k] = dents[k] /\ hint'[k] = hint[k] /\ inode'[k].depth = inode[k].depth
    BY <1>1, <1>5, <1>8, <1>16
  <2>2. \A k \in Inos \ {i, old} : Kept(k, {e})
    <3>1. page[e].kind # "none"
      BY <1>2 DEF LiveDir
    <3>2. ASSUME NEW k \in Inos \ {i, old} PROVE Kept(k, {e})
      <4>1. page'[k] = page[k] \/ (page[k].kind # "none" /\ page'[k] = inode'[k])
        BY <1>6, <3>1
      <4>2. page'[k] = inode'[k] \/ inode'[k] = inode[k]
        BY <1>5, <1>6
      <4> QED BY <1>1, <1>5, <1>8, <1>9, <4>1, <4>2 DEF Kept
    <3> QED BY <3>2
  <2>3. Counted(e)'
    BY <1>14, <1>15 DEF Counted, Bit
  <2>4. {e} \subseteq op[t].locks /\ op'[t].locks \subseteq op[t].locks
        /\ \A k \in {e} : k \in Targets(t) \/ (LiveDir(k) /\ Counted(k)')
    BY <1>2, <1>10, <2>3
  <2>5. Targets(t)' \subseteq Targets(t) /\ (CrossDir(t)' => CrossDir(t))
        /\ \A k \in Inos \ {e} : DoubledBy(t, k)' <=> DoubledBy(t, k)
    BY <1>2, <1>10
  <2>6. \A k \in Inos \ Targets(t) : Kept(k, {e})
    BY <1>2, <2>2
  <2>7. \A k \in Inos : NamesOf(dents, k) # {} => inode'[k].kind = inode[k].kind
    BY <1>5
  <2> HIDE DEF Targets, LiveDir
  <2>8. Frame({t}, Targets(t), {e})
    BY <1>4, <2>1, <2>4, <2>5, <2>6, <2>7, MoveFrame
  <2> QED BY <1>2, <2>8
<1>18. TypeInv'
  BY <1>1, <1>3, <1>4, <1>5, <1>6, <1>8 DEF TypeInv, Directories
<1>19. OpInv(t)'
  BY <1>4 DEF OpInv, AddInv, UnlinkInv, RenameInv, Targets
<1>20. PageInv(i)' /\ OrphanInv(i)' /\ LinkInv(i)'
  <2>1. PageInv(i)'
    BY <1>2, <1>3, <1>12, <1>16 DEF PageInv
  <2>2. OrphanInv(i)'
    BY <1>1, <1>2, <1>12 DEF OrphanInv
  <2>3. LinkInv(i)'
    <3>1. page'[i].kind = "file" =>
            inode'[i].nlink = Cardinality(NamesOf(dents', i)) + Bit(Ahead(i)') - Bit(Behind(i)')
      <4>1. /\ Cardinality(NamesOf(dents, i)) \in Nat
            /\ Cardinality(NamesOf(dents', i)) = Cardinality(NamesOf(dents, i)) + 1
        BY <1>9, NameCame
      <4> QED BY <1>2, <1>3, <1>11, <1>12, <4>1 DEF LinkInv, Bit
    <3>2. LiveDir(i)' => inode'[i].nlink = 2 + Cardinality(Subdirs(dents', inode', i)) + Bit(Doubled(i)')
      <4>1. LiveDir(i)' => LiveDir(i)
        BY <1>16
      <4>2. DoubledBy(t, i)' <=> DoubledBy(t, i)
        BY <1>2, <1>10
      <4> QED BY <1>4, <1>5, <1>12, <4>1, <4>2, DirKept
    <3>3. LiveDir(i)' => NamesOf(dents', i) = {<<parent'[i], m>>}
      <4>1. LiveDir(i)' => IsDir(i)
        BY <1>12 DEF LiveDir, IsDir
      <4>2. IsDir(i) => NamesOf(dents', i) = {<<e, m>>} /\ parent'[i] = e
        BY <1>1, <1>2, <1>9
      <4> QED BY <4>1, <4>2
    <3> QED BY <1>2, <1>12, <3>1, <3>2, <3>3 DEF LinkInv
  <2> QED BY <2>1, <2>2, <2>3
<1>21. PageInv(old)' /\ OrphanInv(old)' /\ LinkInv(old)'
  <2>1. PageInv(old)'
    BY <1>2, <1>3, <1>13, <1>16 DEF PageInv
  <2>2. OrphanInv(old)'
    BY <1>1, <1>13 DEF OrphanInv
  <2>3. LinkInv(old)'
    <3>1. page'[old].kind = "file" =>
            inode'[old].nlink = Cardinality(NamesOf(dents', old)) + Bit(Ahead(old)') - Bit(Behind(old)')
      <4>1. /\ Cardinality(NamesOf(dents', old)) \in Nat
            /\ Cardinality(NamesOf(dents, old)) = Cardinality(NamesOf(dents', old)) + 1
        BY <1>9, NameGone
      <4> QED BY <1>3, <1>11, <1>13, <4>1 DEF LinkInv, Bit
    <3>2. LiveDir(old)' => inode'[old].nlink = 2 + Cardinality(Subdirs(dents', inode', old)) + Bit(Doubled(old)')
      <4>1. LiveDir(old)' => LiveDir(old)
        BY <1>16
      <4>2. DoubledBy(t, old)' <=> DoubledBy(t, old)
        BY <1>2, <1>10
      <4> QED BY <1>4, <1>5, <1>13, <4>1, <4>2, DirKept
    <3>3. LiveDir(old)' => NamesOf(dents', old) = {<<parent'[old], n>>}
      <4>1. LiveDir(old)' => IsDir(old)
        BY <1>13 DEF LiveDir, IsDir
      <4>2. IsDir(old) => NamesOf(dents', old) = {<<d, n>>} /\ parent'[old] = d
        BY <1>1, <1>2, <1>9
      <4> QED BY <4>1, <4>2
    <3> QED BY <1>2, <1>13, <3>1, <3>2, <3>3 DEF LinkInv
  <2> QED BY <2>1, <2>2, <2>3
<1>22. DirsFound'
  <2>1. \A k \in Inos : EntriesFound(dents'[k], inode'[k].depth)
    BY <1>3, <1>5, <1>8 DEF DirsFound
  <2> QED BY <2>1 DEF DirsFound
<1>23. CycleInv'
  BY <1>1, <1>4, <1>10, <1>16, CycleOthers
<1>24. OrphanCount'
  <2>1. Cardinality(Reserving') = Cardinality(Reserving)
    BY <1>1, <1>4, ReservingStep
  <2> QED BY <1>1, <2>1 DEF Inv, OrphanCount
<1>25. SavedInv'
  BY <1>1 DEF Inv, SavedInv, SavedTreeConsistent
<1>26. \A u \in {t} : OpInv(u)'
  BY <1>19
<1>27. \A k \in {i, old} : PageInv(k)' /\ OrphanInv(k)' /\ LinkInv(k)'
  BY <1>20, <1>21
<1> QED BY <1>17, <1>18, <1>22, <1>23, <1>24, <1>25, <1>26, <1>27, Assemble

-----------------------------------------------------------------------------
(* The checkpoint and the power failure.                                   *)

\* Nobody is between f2fs_lock_op() and f2fs_unlock_op().
Settled == \A t \in Threads : ~HoldsOpLock(t)

\* Then an inode that is no orphan is in its page as it is, and only an orphan counts a name
\* that it does not have.
LEMMA SettledInodes ==
  ASSUME Inv, Settled, NEW i \in Inos
  PROVE  /\ ~Behind(i) /\ ~Losing(i) /\ ~Doubled(i)
         /\ Ahead(i) => i \in orphans
         /\ i \in orphans => page[i].kind # "none" /\ NamesOf(dents, i) = {}
         /\ i \notin orphans /\ page[i].kind # "none" => page[i] = inode[i] /\ inode[i].nlink # 0
         /\ page[i].kind = "dir" => (i \notin orphans <=> LiveDir(i))
         /\ LiveDir(i) => \A t \in Threads : i \notin Targets(t)
<1>1. \A t \in Threads : op[t].pc \in {"idle", "new", "tmpfile"}
  BY DEF Settled, HoldsOpLock
<1>2. ~Behind(i) /\ ~Losing(i) /\ ~Doubled(i)
  BY <1>1 DEF Behind, Losing, Doubled, DoubledBy
<1>3. \A t \in Threads : OpInv(t)
  BY DEF Inv
<1>4. \A t \in Threads : op[t].ino = i /\ op[t].pc = "tmpfile" => i \in orphans /\ page[i].kind = "file"
  BY <1>3 DEF OpInv, AddInv
<1>5. Ahead(i) => i \in orphans
  BY <1>1, <1>4 DEF Ahead
<1>6. PageInv(i) /\ OrphanInv(i)
  BY DEF Inv
<1>7. i \in orphans => page[i].kind # "none" /\ NamesOf(dents, i) = {}
  BY <1>6 DEF PageInv, OrphanInv
<1>8. i \notin orphans /\ page[i].kind # "none" => inode[i].nlink # 0
  BY <1>2, <1>6 DEF OrphanInv
<1>9. i \notin orphans /\ page[i].kind # "none" => page[i] = inode[i]
  BY <1>2, <1>5, <1>6, <1>8 DEF PageInv
<1>10. i \in orphans /\ page[i].kind = "dir" => inode[i].nlink = 0
  BY <1>4, <1>6 DEF OrphanInv
<1>11. page[i].kind = "dir" => (i \notin orphans <=> LiveDir(i))
  BY <1>8, <1>10 DEF LiveDir
<1>12. ASSUME LiveDir(i), NEW t \in Threads PROVE i \notin Targets(t)
  <2>1. page[i].kind = "dir" /\ page[i] # NoInode
    BY <1>12 DEF LiveDir, NoInode
  <2> QED BY <1>1, <1>3, <2>1 DEF OpInv, AddInv, Targets
<1> QED BY <1>2, <1>5, <1>7, <1>8, <1>9, <1>11, <1>12

\* What is in memory is then a tree.
LEMMA SettledTree ==
  ASSUME Inv, Settled
  PROVE  TreeConsistent(page, dents, parent, orphans)
<1> USE DEF Inv
<1>1. dents \in Directories /\ orphans \subseteq Inos /\ Root \in Inos
  BY InvTypes, NamespaceAssumption DEF TypeInv
<1>2. \A i \in orphans : page[i] # NoInode /\ NamesOf(dents, i) = {}
  <2>1. \A i \in orphans : i \in Inos /\ page[i].kind # "none" /\ NamesOf(dents, i) = {}
    BY <1>1, SettledInodes
  <2> QED BY <2>1 DEF NoInode
<1>3. \A i \in Inos : NamesOf(dents, i) # {} => page[i] # NoInode
  BY DEF PageInv, NoInode
<1>4. \A d \in Inos : Subdirs(dents, page, d) = Subdirs(dents, inode, d)
  <2>1. ASSUME NEW d \in Inos, NEW e \in dents[d], e.ino \in Inos
        PROVE  page[e.ino].kind = inode[e.ino].kind
    <3>1. HasName(dents, e.ino, d, e.name) /\ e.name \in Names
      BY <1>1, HasNameNamed
    <3> QED BY <2>1, <3>1, NamedInode
  <2> QED BY <2>1 DEF Subdirs
<1>5. ASSUME NEW i \in Inos, i \notin orphans, page[i].kind = "file"
      PROVE  NamesOf(dents, i) # {} /\ page[i].nlink = Cardinality(NamesOf(dents, i))
  <2>1. inode[i].nlink = Cardinality(NamesOf(dents, i)) + Bit(Ahead(i)) - Bit(Behind(i))
    BY <1>5 DEF LinkInv
  <2>2. ~Ahead(i) /\ ~Behind(i) /\ page[i] = inode[i] /\ inode[i].nlink # 0
    BY <1>5, SettledInodes
  <2>3. Cardinality(NamesOf(dents, i)) \in Nat
    BY NamesFinite
  <2>4. page[i].nlink = Cardinality(NamesOf(dents, i))
    BY <2>1, <2>2, <2>3 DEF Bit
  <2> QED BY <2>2, <2>4, FS_EmptySet
<1>6. ASSUME NEW i \in Inos, i \notin orphans, page[i].kind = "dir"
      PROVE  page[i].nlink = 2 + Cardinality(Subdirs(dents, page, i))
  <2>1. LiveDir(i) /\ ~Doubled(i) /\ page[i] = inode[i]
    BY <1>6, SettledInodes
  <2>2. inode[i].nlink = 2 + Cardinality(Subdirs(dents, inode, i)) + Bit(Doubled(i))
    BY <2>1 DEF LinkInv
  <2>3. Cardinality(Subdirs(dents, inode, i)) \in Nat
    BY NamesFinite
  <2>4. inode[i].nlink = 2 + Cardinality(Subdirs(dents, inode, i))
    BY <2>1, <2>2, <2>3 DEF Bit
  <2> QED BY <2>1, <2>4, <1>4
<1>7. ASSUME NEW i \in Inos, i \notin orphans, page[i].kind = "dir", i # Root
      PROVE  \E n \in Names : NamesOf(dents, i) = {<<parent[i], n>>}
  <2>1. LiveDir(i) /\ \A t \in Threads : i \notin Targets(t)
    BY <1>7, SettledInodes
  <2> QED BY <1>7, <2>1 DEF LinkInv
<1>8. page[Root].kind = "dir" /\ Root \notin orphans
  <2>1. LiveDir(Root)
    BY DEF RootInv
  <2> QED BY <1>1, <2>1, SettledInodes DEF LiveDir
<1>9. \A i \in Inos : page[i].kind = "none" => page[i] = NoInode
  BY DEF PageInv
<1>10. \A i \in Inos : page[i].kind \in {"none", "file", "dir"}
  BY DEF TypeInv, AnyInodes
<1>11. NoCycle(parent, {i \in Inos \ orphans : page[i].kind = "dir"})
  <2>1. {i \in Inos \ orphans : page[i].kind = "dir"} = {d \in Inos : LiveDir(d)}
    <3>1. \A i \in Inos : page[i].kind = "dir" => (i \notin orphans <=> LiveDir(i))
      BY SettledInodes
    <3>2. \A i \in Inos : LiveDir(i) => page[i].kind = "dir"
      BY DEF LiveDir
    <3> QED BY <3>1, <3>2
  <2>2. NoCycle(parent, {d \in Inos : LiveDir(d)})
    BY DEF CycleInv
  <2> QED BY <2>1, <2>2
<1>12. \A i \in Inos \ ({Root} \cup orphans) : page[i] # NoInode =>
         IF page[i].kind = "file"
         THEN NamesOf(dents, i) # {} /\ page[i].nlink = Cardinality(NamesOf(dents, i))
         ELSE /\ \E n \in Names : NamesOf(dents, i) = {<<parent[i], n>>}
              /\ page[i].nlink = 2 + Cardinality(Subdirs(dents, page, i))
  <2> SUFFICES ASSUME NEW i \in Inos, i # Root, i \notin orphans, page[i] # NoInode
               PROVE  IF page[i].kind = "file"
                      THEN NamesOf(dents, i) # {} /\ page[i].nlink = Cardinality(NamesOf(dents, i))
                      ELSE /\ \E n \in Names : NamesOf(dents, i) = {<<parent[i], n>>}
                           /\ page[i].nlink = 2 + Cardinality(Subdirs(dents, page, i))
    OBVIOUS
  <2>1. page[i].kind = "file" \/ page[i].kind = "dir"
    BY <1>9, <1>10
  <2> QED BY <2>1, <1>5, <1>6, <1>7
<1>13. page[Root].nlink = 2 + Cardinality(Subdirs(dents, page, Root))
  BY <1>1, <1>6, <1>8
<1> QED BY <1>2, <1>3, <1>11, <1>12, <1>13 DEF TreeConsistent

LEMMA CheckpointKeeps ==
  ASSUME Inv, Checkpoint
  PROVE  Inv'
<1>1. /\ inode' = inode /\ page' = page /\ dents' = dents /\ parent' = parent /\ hint' = hint
      /\ orphans' = orphans /\ nOrphans' = nOrphans /\ open' = open /\ op' = op /\ ops' = ops
      /\ saved' = [page |-> page, dents |-> dents, parent |-> parent, orphans |-> orphans]
  BY DEF Checkpoint, dirVars, orphanVars
<1>2. Settled
  BY DEF Checkpoint, Settled
<1>3. TypeInv
  BY DEF Inv
<1>4. Frame({}, {}, {}) /\ \A k \in Inos \ {} : LiveDir(k)' <=> LiveDir(k)
  BY <1>1, QuietFrame
<1>5. TypeInv'
  BY <1>1, <1>3 DEF TypeInv
<1>6. DirsFound' /\ OrphanCount'
  BY <1>1 DEF Inv, DirsFound, OrphanCount, Reserving
<1>7. CycleInv'
  <2>1. \A k \in Inos : LiveDir(k)' => LiveDir(k)
    BY <1>4
  <2>2. \A u \in Threads : CrossDir(u)' =>
           \/ op'[u].pc \notin {"replace", "replaced", "add", "moved", "exchange"}
           \/ CrossDir(u) /\ op'[u].ino = op[u].ino /\ op'[u].toDir = op[u].toDir
              /\ op'[u].old = op[u].old /\ op'[u].dir = op[u].dir
              /\ op[u].pc \in {"replace", "replaced", "add", "moved", "exchange"}
              /\ (op'[u].pc = "exchange" => op[u].pc = "exchange")
    BY <1>1 DEF CrossDir
  <2> QED BY <1>1, <2>1, <2>2, CycleKept
<1>8. SavedInv'
  <2>1. saved'.page = page /\ saved'.dents = dents /\ saved'.parent = parent /\ saved'.orphans = orphans
    BY <1>1
  <2>2. SavedTreeConsistent'
    BY <1>2, <2>1, SettledTree DEF SavedTreeConsistent
  <2>3. ASSUME NEW i \in Inos PROVE EntriesFound(dents[i], page[i].depth)
    <3>1. EntriesFound(dents[i], inode[i].depth) /\ PageInv(i)
      BY DEF Inv, DirsFound
    <3>2. CASE dents[i] = {}
      BY <3>2 DEF EntriesFound
    <3>3. CASE dents[i] # {}
      <4>1. LiveDir(i)
        BY <3>1, <3>3 DEF PageInv
      <4>2. page[i].kind = "dir"
        BY <4>1 DEF LiveDir
      <4>3. page[i] = inode[i]
        BY <1>2, <4>1, <4>2, SettledInodes
      <4> QED BY <3>1, <4>3
    <3> QED BY <3>2, <3>3
  <2>4. \A i \in Inos : page[i].kind = "none" => page[i] = NoInode
    BY DEF Inv, PageInv
  <2>5. \A i \in Inos : LiveDir(i) => page[i].kind = "dir" /\ i \notin orphans
    <3>1. \A i \in Inos : LiveDir(i) => page[i].kind = "dir"
      BY DEF LiveDir
    <3> QED BY <1>2, <3>1, SettledInodes
  <2>6. \A i \in Inos : dents[i] # {} => page[i].kind = "dir" /\ i \notin orphans
    BY <2>5 DEF Inv, PageInv
  <2>7. page[Root].kind = "dir" /\ Root \notin orphans /\ NamesOf(dents, Root) = {} /\ parent[Root] = Root
    BY <2>5, NamespaceAssumption DEF Inv, RootInv
  <2> QED BY <2>1, <2>2, <2>3, <2>4, <2>6, <2>7 DEF SavedInv
<1> QED BY <1>4, <1>5, <1>6, <1>7, <1>8, Assemble

\* What a mount makes of a saved tree: the inodes that are left, each with the count of its names.
LEMMA RecoveredTree ==
  ASSUME SavedInv, NEW P, NEW D, NEW U, NEW O,
         P = saved.page, D = saved.dents, U = saved.parent, O = saved.orphans,
         P \in [Inos -> AnyInodes], D \in Directories, NEW i \in Inos
  PROVE  /\ i \notin O => Recovered(i) = P[i]
         /\ Recovered(i).kind = "none" => Recovered(i) = NoInode /\ NamesOf(D, i) = {} /\ i # Root
         /\ D[i] # {} => Recovered(i).kind = "dir"
         /\ Recovered(i).kind # "none" => Recovered(i) # NoInode /\ i \notin O
         /\ NamesOf(D, i) # {} => Recovered(i) # NoInode
         /\ Recovered(i).kind = "file" =>
              i # Root /\ NamesOf(D, i) # {} /\ Recovered(i).nlink = Cardinality(NamesOf(D, i))
         /\ Recovered(i).kind = "dir" => Recovered(i).nlink = 2 + Cardinality(Subdirs(D, P, i))
         /\ Recovered(i).kind = "dir" /\ i # Root => \E n \in Names : NamesOf(D, i) = {<<U[i], n>>}
         /\ Recovered(i) \in AnyInodes
<1>1. /\ TreeConsistent(P, D, U, O)
      /\ P[i].kind = "none" => P[i] = NoInode
      /\ D[i] # {} => P[i].kind = "dir" /\ i \notin O
      /\ P[Root].kind = "dir" /\ Root \notin O
  BY DEF SavedInv, SavedTreeConsistent
<1>2. P[i] \in AnyInodes /\ P[i].kind \in {"none", "file", "dir"} /\ NoInode \in AnyInodes
      /\ NoInode.kind = "none"
  BY DirectoryAssumption DEF AnyInodes, NoInode
<1>3. Recovered(i) = IF i \in O THEN NoInode ELSE P[i]
  BY DEF Recovered
<1>4. /\ i \in O => NamesOf(D, i) = {}
      /\ NamesOf(D, i) # {} => P[i] # NoInode
      /\ P[Root].nlink = 2 + Cardinality(Subdirs(D, P, Root))
  BY <1>1 DEF TreeConsistent
<1>5. i # Root /\ i \notin O /\ P[i] # NoInode =>
         IF P[i].kind = "file"
         THEN NamesOf(D, i) # {} /\ P[i].nlink = Cardinality(NamesOf(D, i))
         ELSE /\ \E n \in Names : NamesOf(D, i) = {<<U[i], n>>}
              /\ P[i].nlink = 2 + Cardinality(Subdirs(D, P, i))
  BY <1>1 DEF TreeConsistent
<1>6. CASE i \in O
  BY <1>1, <1>2, <1>3, <1>4, <1>6
<1>7. CASE i \notin O
  <2>1. Recovered(i) = P[i]
    BY <1>3, <1>7
  <2>2. P[i].kind # "none" => P[i] # NoInode
    BY <1>2
  <2>3. P[i].kind = "none" => P[i] = NoInode /\ NamesOf(D, i) = {} /\ i # Root
    BY <1>1, <1>4
  <2>4. P[i].kind = "file" => i # Root /\ NamesOf(D, i) # {} /\ P[i].nlink = Cardinality(NamesOf(D, i))
    BY <1>1, <1>5, <1>7, <2>2
  <2>5. P[i].kind = "dir" => P[i].nlink = 2 + Cardinality(Subdirs(D, P, i))
    BY <1>4, <1>5, <1>7, <2>2
  <2>6. P[i].kind = "dir" /\ i # Root => \E n \in Names : NamesOf(D, i) = {<<U[i], n>>}
    BY <1>5, <1>7, <2>2
  <2> QED BY <1>1, <1>2, <1>4, <1>7, <2>1, <2>2, <2>3, <2>4, <2>5, <2>6
<1> QED BY <1>6, <1>7

LEMMA PowerFailureKeeps ==
  ASSUME Inv, PowerFailure
  PROVE  Inv'
<1>0. PICK P, D, U, O : P = saved.page /\ D = saved.dents /\ U = saved.parent /\ O = saved.orphans
  OBVIOUS
<1>1. /\ inode' = [i \in Inos |-> Recovered(i)] /\ page' = [i \in Inos |-> Recovered(i)]
      /\ dents' = [i \in Inos |-> IF Recovered(i) = NoInode THEN {} ELSE D[i]]
      /\ parent' = [i \in Inos |-> IF Recovered(i) = NoInode THEN Root ELSE U[i]]
      /\ hint' = [i \in Inos |-> NoHint]
      /\ orphans' = {} /\ nOrphans' = 0 /\ open' = [i \in Inos |-> "no"] /\ op' = [t \in Threads |-> Idle]
      /\ saved' = saved /\ ops' = ops
  BY <1>0 DEF PowerFailure
<1>2. SavedInv /\ TypeInv
  BY DEF Inv
<1>3. P \in [Inos -> AnyInodes] /\ D \in Directories /\ U \in [Inos -> Inos] /\ O \in SUBSET Inos
  BY <1>0, <1>2 DEF TypeInv, Directories
<1>4. ASSUME NEW i \in Inos
      PROVE  /\ i \notin O => Recovered(i) = P[i]
             /\ Recovered(i).kind = "none" => Recovered(i) = NoInode /\ NamesOf(D, i) = {} /\ i # Root
             /\ D[i] # {} => Recovered(i).kind = "dir"
             /\ Recovered(i).kind # "none" => Recovered(i) # NoInode /\ i \notin O
             /\ NamesOf(D, i) # {} => Recovered(i) # NoInode
             /\ Recovered(i).kind = "file" =>
                  i # Root /\ NamesOf(D, i) # {} /\ Recovered(i).nlink = Cardinality(NamesOf(D, i))
             /\ Recovered(i).kind = "dir" => Recovered(i).nlink = 2 + Cardinality(Subdirs(D, P, i))
             /\ Recovered(i).kind = "dir" /\ i # Root => \E n \in Names : NamesOf(D, i) = {<<U[i], n>>}
             /\ Recovered(i) \in AnyInodes
  BY <1>0, <1>2, <1>3, RecoveredTree
<1>5. \A i \in Inos : inode'[i] = Recovered(i) /\ page'[i] = Recovered(i) /\ open'[i] = "no"
  BY <1>1
<1>6. \A t \in Threads : /\ op'[t] = Idle /\ op'[t].pc = "idle" /\ op'[t].locks = {} /\ op'[t].what = "none"
  BY <1>1 DEF Idle
<1>7. dents' = D
  <2>1. \A i \in Inos : (IF Recovered(i) = NoInode THEN {} ELSE D[i]) = D[i]
    BY <1>4 DEF NoInode
  <2>2. dents' = [i \in Inos |-> D[i]]
    BY <1>1, <2>1
  <2> QED BY <1>3, <2>2 DEF Directories
<1>8. \A i \in Inos : parent'[i] = IF Recovered(i) = NoInode THEN Root ELSE U[i]
  BY <1>1
<1>9. \A t \in Threads : Targets(t)' = {} /\ ~CrossDir(t)'
  BY <1>6 DEF Targets, CrossDir
<1>10. \A i : ~Ahead(i)' /\ ~Behind(i)' /\ ~Losing(i)' /\ ~Doubled(i)'
  BY <1>6 DEF Ahead, Behind, Losing, Doubled, DoubledBy
<1>11. TypeInv'
  <2>1. inode' \in [Inos -> AnyInodes] /\ page' \in [Inos -> AnyInodes]
    BY <1>1, <1>4
  <2>2. dents' \in [Inos -> SUBSET Entries]
    BY <1>3, <1>7 DEF Directories
  <2>3. parent' \in [Inos -> Inos]
    BY <1>1, <1>3, NamespaceAssumption
  <2>4. hint' \in [Inos -> [hash : Nat, level : 0..MaxDepth-1]]
    <3>1. NoHint \in [hash : Nat, level : 0..MaxDepth-1]
      BY DirectoryAssumption DEF NoHint
    <3> QED BY <1>1, <3>1
  <2>5. orphans' \subseteq Inos /\ nOrphans' \in Int /\ nOrphans' <= MaxOrphans
    BY <1>1, NamespaceAssumption
  <2>6. open' \in [Inos -> {"no", "yes", "tmpfile"}]
    BY <1>1
  <2>7. op' \in [Threads -> OpTypes]
    BY <1>1, IdleType
  <2>8. /\ saved' \in [page : [Inos -> AnyInodes], dents : [Inos -> SUBSET Entries],
                       parent : [Inos -> Inos], orphans : SUBSET Inos]
        /\ ops' \in 0..MaxOps
    BY <1>1, <1>2 DEF TypeInv
  <2> QED BY <2>1, <2>2, <2>3, <2>4, <2>5, <2>6, <2>7, <2>8 DEF TypeInv
<1>12. ExclusionInv'
  BY <1>6, <1>9 DEF ExclusionInv
<1>13. ASSUME NEW t \in Threads PROVE OpInv(t)'
  BY <1>6, <1>9 DEF OpInv, AddInv, UnlinkInv, RenameInv
<1>14. ASSUME NEW i \in Inos
       PROVE  /\ Cardinality(NamesOf(D, i)) \in Nat /\ Cardinality(Subdirs(D, P, i)) \in Nat
              /\ NamesOf(D, i) # {} => Cardinality(NamesOf(D, i)) # 0
  BY NamesFinite, FS_EmptySet
<1>15. ASSUME NEW i \in Inos
       PROVE  /\ Recovered(i).nlink >= 0
              /\ Recovered(i).kind # "none" => Recovered(i).nlink # 0
  <2>1. Recovered(i).kind \in {"none", "file", "dir"}
    BY <1>4 DEF AnyInodes
  <2>2. CASE Recovered(i).kind = "none"
    BY <1>4, <2>2 DEF NoInode
  <2>3. CASE Recovered(i).kind = "file"
    BY <1>4, <1>14, <2>3
  <2>4. CASE Recovered(i).kind = "dir"
    BY <1>4, <1>14, <2>4
  <2> QED BY <2>1, <2>2, <2>3, <2>4
<1>16. \A i \in Inos : LiveDir(i)' <=> Recovered(i).kind = "dir"
  BY <1>5, <1>15 DEF LiveDir
<1>17. ASSUME NEW i \in Inos PROVE PageInv(i)'
  <2>1. inode'[i].nlink >= 0 /\ page'[i].nlink >= 0
    BY <1>5, <1>15
  <2>2. page'[i].kind = "none" =>
          /\ page'[i] = NoInode /\ inode'[i] = NoInode /\ NamesOf(dents', i) = {} /\ dents'[i] = {}
          /\ parent'[i] = Root /\ open'[i] = "no" /\ i \notin orphans'
    BY <1>1, <1>4, <1>5, <1>7, <1>8
  <2>3. dents'[i] # {} => LiveDir(i)'
    BY <1>4, <1>7, <1>16
  <2> QED BY <1>5, <2>1, <2>2, <2>3 DEF PageInv
<1>18. ASSUME NEW i \in Inos PROVE OrphanInv(i)'
  BY <1>1, <1>5, <1>15 DEF OrphanInv
<1>19. ASSUME NEW d \in Inos PROVE Subdirs(dents', inode', d) = Subdirs(D, P, d)
  <2>1. ASSUME NEW e \in D[d], e.ino \in Inos PROVE inode'[e.ino] = P[e.ino]
    <3>1. NamesOf(D, e.ino) # {}
      BY <1>3, HasNameNamed
    <3>2. Recovered(e.ino).kind # "none"
      BY <1>4, <2>1, <3>1
    <3> QED BY <1>4, <1>5, <2>1, <3>2
  <2> QED BY <1>7, <2>1 DEF Subdirs
<1>20. ASSUME NEW i \in Inos PROVE LinkInv(i)'
  <2>1. page'[i].kind = "file" =>
           inode'[i].nlink = Cardinality(NamesOf(dents', i)) + Bit(Ahead(i)') - Bit(Behind(i)')
    BY <1>4, <1>5, <1>7, <1>10, <1>14 DEF Bit
  <2>2. LiveDir(i)' => inode'[i].nlink = 2 + Cardinality(Subdirs(dents', inode', i)) + Bit(Doubled(i)')
    <3>1. LiveDir(i)' => inode'[i].nlink = 2 + Cardinality(Subdirs(D, P, i))
      BY <1>4, <1>5, <1>16
    <3>2. Bit(Doubled(i)') = 0
      BY <1>10 DEF Bit
    <3> QED BY <1>14, <1>19, <3>1, <3>2
  <2>3. page'[i].kind = "dir" => inode'[i].nlink # 0
    BY <1>5, <1>15
  <2>4. LiveDir(i)' /\ i # Root => \E n \in Names : NamesOf(dents', i) = {<<parent'[i], n>>}
    <3>1. LiveDir(i)' => parent'[i] = U[i]
      BY <1>4, <1>8, <1>16
    <3> QED BY <1>4, <1>7, <1>16, <3>1
  <2> QED BY <2>1, <2>2, <2>3, <2>4 DEF LinkInv
<1>21. RootInv'
  <2>1. Root \in Inos
    BY NamespaceAssumption
  <2>2. P[Root].kind = "dir" /\ Root \notin O /\ NamesOf(D, Root) = {} /\ U[Root] = Root
    BY <1>0, <1>2 DEF SavedInv
  <2>3. Recovered(Root) = P[Root]
    BY <1>4, <2>1, <2>2
  <2> QED BY <1>7, <1>8, <1>16, <2>1, <2>2, <2>3 DEF RootInv
<1>22. DirsFound'
  <2>1. ASSUME NEW i \in Inos PROVE EntriesFound(dents'[i], inode'[i].depth)
    <3>1. EntriesFound(D[i], P[i].depth)
      BY <1>0, <1>2 DEF SavedInv
    <3>2. CASE D[i] = {}
      BY <1>7, <3>2 DEF EntriesFound
    <3>3. CASE D[i] # {}
      <4>1. inode'[i] = P[i]
        BY <1>4, <1>5, <3>3
      <4> QED BY <1>7, <3>1, <4>1
    <3> QED BY <3>2, <3>3
  <2> QED BY <2>1 DEF DirsFound
<1>23. CycleInv'
  <2>1. NoCycle(U, {i \in Inos \ O : P[i].kind = "dir"})
    BY <1>0, <1>2 DEF SavedInv, SavedTreeConsistent, TreeConsistent
  <2>2. \A i \in Inos : LiveDir(i)' => i \in {k \in Inos \ O : P[k].kind = "dir"} /\ parent'[i] = U[i]
    BY <1>4, <1>8, <1>16
  <2>3. NoCycle(parent', {i \in Inos : LiveDir(i)'})
    <3> HIDE DEF LiveDir
    <3> QED BY <2>1, <2>2 DEF NoCycle
  <2> QED BY <1>9, <2>3 DEF CycleInv
<1>24. OrphanCount'
  <2>1. Reserving' = {}
    BY <1>6 DEF Reserving
  <2>2. Cardinality({}) = 0
    BY FS_EmptySet
  <2> QED BY <1>1, <2>1, <2>2 DEF OrphanCount
<1>25. SavedInv'
  BY <1>1, <1>2 DEF SavedInv, SavedTreeConsistent
<1> QED BY <1>11, <1>12, <1>13, <1>17, <1>18, <1>20, <1>21, <1>22, <1>23, <1>24, <1>25 DEF Inv

-----------------------------------------------------------------------------
(* The invariant and what follows from it.                                 *)

LEMMA InitInv ==
  ASSUME Init
  PROVE  Inv
<1> USE DEF Init
<1>0. Root \in Inos /\ MaxOrphans \in Nat /\ MaxOps \in Nat /\ MaxDepth \in Nat \ {0}
  BY NamespaceAssumption, DirectoryAssumption
<1>1. PICK r : r = [NewInode("dir") EXCEPT !.nlink = 2]
  OBVIOUS
<1>2. r = [kind |-> "dir", nlink |-> 2, depth |-> 1] /\ NoInode \in AnyInodes /\ r \in AnyInodes
  BY <1>0, <1>1 DEF NewInode, NoInode, AnyInodes
<1>3. /\ inode = [i \in Inos |-> IF i = Root THEN r ELSE NoInode] /\ page = inode
      /\ dents = [i \in Inos |-> {}] /\ parent = [i \in Inos |-> Root] /\ hint = [i \in Inos |-> NoHint]
      /\ orphans = {} /\ nOrphans = 0 /\ open = [i \in Inos |-> "no"] /\ op = [t \in Threads |-> Idle]
      /\ saved = [page |-> page, dents |-> dents, parent |-> parent, orphans |-> {}] /\ ops = 0
  BY <1>1
<1> HIDE DEF Init
<1>4. \A t \in Threads : /\ op[t] = Idle /\ op[t].pc = "idle" /\ op[t].locks = {} /\ op[t].what = "none"
  BY <1>3 DEF Idle
<1>5. \A i \in Inos : /\ inode[i] = (IF i = Root THEN r ELSE NoInode) /\ page[i] = inode[i]
                      /\ dents[i] = {} /\ parent[i] = Root /\ open[i] = "no"
  BY <1>3
<1>6. \A t \in Threads : Targets(t) = {} /\ ~CrossDir(t)
  BY <1>4 DEF Targets, CrossDir
<1>7. \A i : ~Ahead(i) /\ ~Behind(i) /\ ~Losing(i) /\ ~Doubled(i)
  BY <1>4 DEF Ahead, Behind, Losing, Doubled, DoubledBy
<1>8. \A i : NamesOf(dents, i) = {}
  BY <1>5 DEF NamesOf, HasName
<1>9. \A d \in Inos : Subdirs(dents, inode, d) = {} /\ Subdirs(dents, page, d) = {}
  BY <1>5 DEF Subdirs
<1>10. Cardinality({}) = 0
  BY FS_EmptySet
<1>11. \A i \in Inos : LiveDir(i) <=> i = Root
  BY <1>2, <1>5 DEF LiveDir, NoInode
<1>12. TypeInv
  <2>1. NoHint \in [hash : Nat, level : 0..MaxDepth-1]
    BY <1>0 DEF NoHint
  <2>2. inode \in [Inos -> AnyInodes] /\ page \in [Inos -> AnyInodes]
    BY <1>2, <1>3
  <2>3. dents \in [Inos -> SUBSET Entries] /\ parent \in [Inos -> Inos]
    BY <1>0, <1>3
  <2>4. hint \in [Inos -> [hash : Nat, level : 0..MaxDepth-1]] /\ open \in [Inos -> {"no", "yes", "tmpfile"}]
    BY <1>3, <2>1
  <2>5. op \in [Threads -> OpTypes]
    BY <1>3, IdleType
  <2>6. saved \in [page : [Inos -> AnyInodes], dents : [Inos -> SUBSET Entries],
                  parent : [Inos -> Inos], orphans : SUBSET Inos]
    BY <1>3, <2>2, <2>3
  <2> QED BY <1>0, <1>3, <2>2, <2>3, <2>4, <2>5, <2>6 DEF TypeInv
<1>13. ExclusionInv
  BY <1>4, <1>6 DEF ExclusionInv
<1>14. \A t \in Threads : OpInv(t)
  BY <1>4, <1>6 DEF OpInv, AddInv, UnlinkInv, RenameInv
<1>15. ASSUME NEW i \in Inos PROVE PageInv(i) /\ OrphanInv(i) /\ LinkInv(i)
  <2>0. /\ inode[i].nlink >= 0 /\ page[i].nlink >= 0 /\ page[i] = inode[i]
        /\ inode[i].kind = "none" => inode[i] = NoInode
    BY <1>2, <1>5 DEF NoInode
  <2>1. PageInv(i)
    <3>1. orphans = {} /\ parent[i] = Root /\ open[i] = "no" /\ dents[i] = {} /\ NamesOf(dents, i) = {}
      BY <1>3, <1>5, <1>8
    <3> QED BY <2>0, <3>1 DEF PageInv
  <2>2. OrphanInv(i)
    BY <1>2, <1>3, <1>5 DEF OrphanInv, NoInode
  <2>3. LinkInv(i)
    BY <1>2, <1>5, <1>7, <1>8, <1>9, <1>10, <1>11 DEF LinkInv, NoInode, Bit
  <2> QED BY <2>1, <2>2, <2>3
<1>16. RootInv
  BY <1>0, <1>5, <1>8, <1>11 DEF RootInv
<1>17. DirsFound
  BY <1>5 DEF DirsFound, EntriesFound
<1>18. NoCycle(parent, {d \in Inos : LiveDir(d)})
  BY <1>11 DEF NoCycle
<1>19. CycleInv
  BY <1>6, <1>18 DEF CycleInv
<1>20. OrphanCount
  <2>1. Reserving = {}
    BY <1>4 DEF Reserving
  <2> QED BY <1>3, <1>10, <2>1 DEF OrphanCount
<1>21. SavedInv
  <2>1. saved.page = page /\ saved.dents = dents /\ saved.parent = parent /\ saved.orphans = {}
    BY <1>3
  <2>2. \A i \in Inos : page[i].kind = "dir" <=> i = Root
    BY <1>2, <1>5 DEF NoInode
  <2>3. NoCycle(parent, {i \in Inos \ {} : page[i].kind = "dir"})
    BY <2>2 DEF NoCycle
  <2>4. page[Root].nlink = 2 + Cardinality(Subdirs(dents, page, Root))
    BY <1>0, <1>2, <1>5, <1>9, <1>10
  <2>5. TreeConsistent(page, dents, parent, {})
    BY <1>5, <1>8, <2>3, <2>4 DEF TreeConsistent
  <2>6. SavedTreeConsistent
    BY <2>1, <2>5 DEF SavedTreeConsistent
  <2>7. \A i \in Inos : /\ EntriesFound(dents[i], page[i].depth)
                        /\ page[i].kind = "none" => page[i] = NoInode
                        /\ dents[i] = {}
    BY <1>2, <1>5 DEF EntriesFound
  <2> QED BY <1>0, <1>5, <1>8, <2>1, <2>2, <2>6, <2>7 DEF SavedInv
<1> QED BY <1>12, <1>13, <1>14, <1>15, <1>16, <1>17, <1>19, <1>20, <1>21 DEF Inv

\* A step that changes no variable
LEMMA StutterInv ==
  ASSUME Inv, UNCHANGED vars
  PROVE  Inv'
<1>1. UNCHANGED <<inode, dents, parent, hint, orphanVars, op, saved>> /\ page' = page /\ open' = open
      /\ ops' = ops
  BY DEF vars, dirVars
<1>2. TypeInv
  BY DEF Inv
<1>3. page' \in [Inos -> AnyInodes] /\ open' \in [Inos -> {"no", "yes", "tmpfile"}] /\ ops' \in 0..MaxOps
  BY <1>1, <1>2 DEF TypeInv
<1> QED BY <1>1, <1>3, QuietKeeps

LEMMA NextInv ==
  ASSUME Inv, [Next]_vars
  PROVE  Inv'
<1>1. CASE UNCHANGED vars
  BY <1>1, StutterInv
<1>2. ASSUME NEW d \in Inos, NEW n \in Names, Lookup(d, n) PROVE Inv'
  BY <1>2, LookupKeeps
<1>3. ASSUME NEW t \in Threads, NEW d \in Inos, NEW i \in Inos, NEW n \in Names,
             (\E kind \in {"file", "dir"} : Create(t, d, n, i, kind)) \/ Link(t, i, d, n)
      PROVE  Inv'
  BY <1>3, CreateKeeps, LinkKeeps
<1>4. ASSUME NEW t \in Threads,
             \/ AddLinkMetadata(t) \/ AddLinkEntry(t) \/ AddLinkFails(t)
             \/ TmpfileOrphan(t) \/ TmpfileFails(t) \/ TmpfileDone(t)
             \/ DeleteEntry(t) \/ DeleteSettle(t)
             \/ RenameReplace(t) \/ RenameSettle(t)
             \/ RenameAdd(t) \/ RenameAddFails(t) \/ RenameDelete(t)
             \/ CrossOldDir(t) \/ CrossNewDir(t)
      PROVE  Inv'
  <2>1. CASE AddLinkMetadata(t) \/ AddLinkEntry(t) \/ AddLinkFails(t)
    BY <2>1, AddLinkMetadataKeeps, AddLinkEntryKeeps, AddLinkFailsKeeps
  <2>2. CASE TmpfileOrphan(t) \/ TmpfileFails(t) \/ TmpfileDone(t)
    BY <2>2, TmpfileOrphanKeeps, TmpfileFailsKeeps, TmpfileDoneKeeps
  <2>3. CASE DeleteEntry(t) \/ DeleteSettle(t)
    BY <2>3, DeleteEntryKeeps, DeleteSettleKeeps
  <2>4. CASE RenameReplace(t) \/ RenameSettle(t)
    BY <2>4, RenameReplaceKeeps, RenameSettleKeeps
  <2>5. CASE RenameAdd(t) \/ RenameAddFails(t) \/ RenameDelete(t)
    BY <2>5, RenameAddKeeps, RenameAddFailsKeeps, RenameDeleteKeeps
  <2>6. CASE CrossOldDir(t) \/ CrossNewDir(t)
    BY <2>6, CrossOldDirKeeps, CrossNewDirKeeps
  <2> QED BY <1>4, <2>1, <2>2, <2>3, <2>4, <2>5, <2>6
<1>5. ASSUME NEW t \in Threads, NEW i \in Inos, Tmpfile(t, i) PROVE Inv'
  BY <1>5, TmpfileKeeps
<1>6. ASSUME NEW t \in Threads, NEW d \in Inos, NEW n \in Names, Unlink(t, d, n) PROVE Inv'
  BY <1>6, UnlinkKeeps
<1>7. ASSUME NEW t \in Threads, NEW d \in Inos, NEW e \in Inos, NEW n \in Names, NEW m \in Names,
             RenameOver(t, d, n, e, m) \/ RenameTo(t, d, n, e, m) \/ CrossRename(t, d, n, e, m)
      PROVE  Inv'
  BY <1>7, RenameOverKeeps, RenameToKeeps, CrossRenameKeeps
<1>8. ASSUME NEW i \in Inos, Open(i) \/ Close(i) \/ WriteInode(i) \/ Evict(i) PROVE Inv'
  BY <1>8, OpenKeeps, CloseKeeps, WriteInodeKeeps, EvictKeeps
<1>9. CASE Checkpoint
  BY <1>9, CheckpointKeeps
<1>10. CASE PowerFailure
  BY <1>10, PowerFailureKeeps
<1> QED BY <1>1, <1>2, <1>3, <1>4, <1>5, <1>6, <1>7, <1>8, <1>9, <1>10 DEF Next

\* The invariant of the proofs: in every state that name operations, checkpoints and power
\* failures of namei.c, dir.c and checkpoint.c lead to, an operation finds the names, inodes
\* and link counts it relies on, and what is saved is a tree that a mount can be made of.
THEOREM Invariance == Spec => []Inv
<1> QED BY InitInv, NextInv, PTL DEF Spec

LEMMA InvTypeOK ==
  ASSUME Inv
  PROVE  TypeOK
<1>1. TypeInv /\ OrphanCount
  BY DEF Inv
<1>2. ASSUME NEW P, P \in [Inos -> AnyInodes], \A i \in Inos : P[i].nlink >= 0
      PROVE  P \in [Inos -> Inodes]
  <2>1. \A i \in Inos : P[i] \in Inodes
    BY <1>2 DEF AnyInodes, Inodes
  <2> QED BY <1>2, <2>1
<1>3. \A i \in Inos : inode[i].nlink >= 0 /\ page[i].nlink >= 0
  BY DEF Inv, PageInv
<1>4. inode \in [Inos -> Inodes] /\ page \in [Inos -> Inodes]
  BY <1>1, <1>2, <1>3 DEF TypeInv
<1>5. nOrphans \in 0..MaxOrphans
  <2>1. Reserving \in SUBSET Threads
    BY DEF Reserving
  <2>2. Cardinality(Reserving) \in Nat
    BY <2>1, NamespaceAssumption, FS_Subset, FS_CardinalityType
  <2>3. Cardinality(orphans) \in Nat
    BY <1>1, OrphansFinite
  <2> QED BY <1>1, <2>2, <2>3, NamespaceAssumption DEF TypeInv, OrphanCount
<1> QED BY <1>1, <1>4, <1>5 DEF TypeInv, TypeOK

\* No link count of an inode or of its page (drop_nlink(), f2fs_drop_nlink()) goes below zero,
\* and n_orphans stays between zero and max_orphans, with every other variable in its type.
THEOREM TypeCorrect == Spec => []TypeOK
<1> QED BY Invariance, InvTypeOK, PTL

\* Whatever operations are under way when block_operations() has them wait, what the checkpoint
\* has of the inode pages, the directories, the ".." entries and the orphan blocks is a tree.
THEOREM SavedTreesConsistent == Spec => []SavedTreeConsistent
<1>1. Inv => SavedTreeConsistent
  BY DEF Inv, SavedInv
<1> QED BY <1>1, Invariance, PTL

\* acquire_orphan_inode(), release_orphan_inode(), add_orphan_inode() and remove_orphan_inode()
\* leave n_orphans at the number of the orphans and of the operations that may still add one.
THEOREM OrphansCounted == Spec => []OrphanCount
<1>1. Inv => OrphanCount
  BY DEF Inv
<1> QED BY <1>1, Invariance, PTL

\* f2fs_find_entry() finds every name that __f2fs_add_link() put into a directory, in memory and
\* in what a checkpoint saved, for any hash function and any sizes of names, levels and blocks.
THEOREM NamesAreFound == Spec => []NamesFound
<1>1. Inv => NamesFound
  BY DEF Inv, DirsFound, SavedInv, NamesFound
<1> QED BY <1>1, Invariance, PTL

\* recover_orphan_inodes() of a mount leaves no inode without a name, and loses none with one.
THEOREM NothingIsLost == Spec => NothingLeaks
<1>1. ASSUME Inv, PowerFailure
      PROVE  \A i \in Inos \ {Root} : inode'[i] # NoInode <=> \E d \in Inos : \E e \in dents'[d] : e.ino = i
  <2>0. PICK P, D, U, O : P = saved.page /\ D = saved.dents /\ U = saved.parent /\ O = saved.orphans
    OBVIOUS
  <2>1. SavedInv /\ P \in [Inos -> AnyInodes] /\ D \in Directories
    BY <1>1, <2>0 DEF Inv, TypeInv, Directories
  <2>2. ASSUME NEW i \in Inos \ {Root}
        PROVE  /\ Recovered(i) # NoInode <=> NamesOf(D, i) # {}
               /\ D[i] # {} => Recovered(i) # NoInode
    <3>1. Recovered(i) \in AnyInodes /\ (Recovered(i).kind = "none" => Recovered(i) = NoInode)
          /\ (NamesOf(D, i) # {} => Recovered(i) # NoInode)
          /\ (Recovered(i).kind # "none" => Recovered(i) # NoInode)
          /\ (Recovered(i).kind = "file" => NamesOf(D, i) # {})
          /\ (Recovered(i).kind = "dir" => \E n \in Names : NamesOf(D, i) = {<<U[i], n>>})
          /\ (D[i] # {} => Recovered(i).kind = "dir")
      BY <2>0, <2>1, RecoveredTree
    <3>2. Recovered(i).kind \in {"none", "file", "dir"}
      BY <3>1 DEF AnyInodes
    <3> QED BY <3>1, <3>2
  <2>3. \A d \in Inos : D[d] # {} => Recovered(d) # NoInode
    <3>1. \A d \in Inos : (D[d] # {} => Recovered(d).kind = "dir")
                          /\ (Recovered(d).kind # "none" => Recovered(d) # NoInode)
      BY <2>0, <2>1, RecoveredTree
    <3> QED BY <3>1
  <2>4. \A d \in Inos : inode'[d] = Recovered(d) /\ dents'[d] = D[d]
    BY <1>1, <2>0, <2>3 DEF PowerFailure
  <2>5. ASSUME NEW i \in Inos
        PROVE  NamesOf(D, i) # {} <=> \E d \in Inos : \E e \in D[d] : e.ino = i
    <3>1. ASSUME NEW d \in Inos, NEW e \in D[d], e.ino = i PROVE NamesOf(D, i) # {}
      BY <2>1, <3>1, HasNameNamed
    <3>2. ASSUME NEW p \in NamesOf(D, i) PROVE \E d \in Inos : \E e \in D[d] : e.ino = i
      BY <3>2 DEF NamesOf, HasName
    <3> QED BY <3>1, <3>2
  <2> QED BY <2>2, <2>4, <2>5
<1>2. Inv /\ [Next]_vars =>
        [PowerFailure => \A i \in Inos \ {Root} :
            inode'[i] # NoInode <=> \E d \in Inos : \E e \in dents'[d] : e.ino = i]_vars
  BY <1>1
<1> QED BY <1>2, Invariance, PTL DEF Spec, NothingLeaks
=============================================================================
