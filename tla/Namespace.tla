------------------------------ MODULE Namespace ------------------------------
(***************************************************************************)
(* Names, link counts and orphan inodes (namei.c, dir.c, the orphan list   *)
(* of checkpoint.c, the end of an inode in inode.c) over power failures.   *)
(*                                                                         *)
(* An operation holds the i_mutex of its directories, and of the inode it  *)
(* takes a name from, as the VFS has it; a checkpoint comes when nobody is *)
(* between f2fs_lock_op() and f2fs_unlock_op().  The entries of each       *)
(* directory are in the hash table of Directory, "." and ".." aside.       *)
(***************************************************************************)
EXTENDS Directory

CONSTANTS
    Inos,         \* inode numbers
    Root,
    Threads,
    MaxOrphans,   \* sbi->max_orphans
    MaxOps        \* bound on the operations of a run

ASSUME NamespaceAssumption ==
    /\ IsFiniteSet(Inos) /\ IsFiniteSet(Names) /\ IsFiniteSet(Threads)
    /\ Root \in Inos /\ MaxOrphans \in Nat /\ MaxOps \in Nat

VARIABLES
    inode,     \* the VFS inodes: kind, i_nlink, i_current_depth
    page,      \* what the inode pages have of them
    dents,     \* the entries of the directories
    parent,    \* the inode that ".." of each directory has
    hint,      \* chash and clevel of each directory
    orphans,   \* ino_list[ORPHAN_INO]
    nOrphans,  \* n_orphans
    open,      \* "no", "yes", or "tmpfile" for an open O_TMPFILE that may be linked
    op,        \* what each thread does
    saved,     \* the last checkpoint
    ops        \* operations so far

dirVars    == <<dents, parent, hint>>
orphanVars == <<orphans, nOrphans>>
vars       == <<inode, page, dirVars, orphanVars, open, op, saved, ops>>

NoInode  == [kind |-> "none", nlink |-> 0, depth |-> 0]
NewInode(kind) == [kind |-> kind, nlink |-> 1, depth |-> IF kind = "dir" THEN 1 ELSE 0]
Idle     == [pc |-> "idle", what |-> "none", locks |-> {}, dir |-> Root, name |-> "none", ino |-> Root,
             toDir |-> Root, toName |-> "none", old |-> Root]

IsDir(i)        == inode[i].kind = "dir"
Linked(i)       == \E d \in Inos : \E e \in dents[d] : e.ino = i
Live(d)         == IsDir(d) /\ (d = Root \/ Linked(d))
Search(d, n)    == EntriesOf(dents[d], inode[d].depth, n)
Named(d, n)     == Search(d, n) # {}
EntryAt(d, n)   == FindEntry(dents[d], inode[d].depth, n)
InoAt(d, n)     == EntryAt(d, n).ino

\* nobody holds the i_mutex of these inodes; nobody works with the inode
Unheld(S)  == \A t \in Threads : op[t].locks \cap S = {}
Busy(i)    == \E t \in Threads : op[t] # Idle /\ i \in op[t].locks \cup {op[t].dir, op[t].ino, op[t].old}

\* wrong: a rename unlocks when the new name is there
HoldsOpLock_NewName(t) == op[t].pc \notin {"idle", "new", "tmpfile", "moved"}

\* between f2fs_lock_op() and f2fs_unlock_op()
HoldsOpLock(t) == op[t].pc \notin {"idle", "new", "tmpfile"}

Init ==
    /\ inode = [i \in Inos |-> IF i = Root THEN [NewInode("dir") EXCEPT !.nlink = 2] ELSE NoInode]
    /\ page = inode
    /\ dents = [i \in Inos |-> {}]
    /\ parent = [i \in Inos |-> Root]
    /\ hint = [i \in Inos |-> NoHint]
    /\ orphans = {} /\ nOrphans = 0
    /\ open = [i \in Inos |-> "no"]
    /\ op = [t \in Threads |-> Idle]
    /\ saved = [page |-> page, dents |-> dents, parent |-> parent, orphans |-> {}]
    /\ ops = 0

-----------------------------------------------------------------------------
(* Helpers.                                                                *)

MayBegin(t) == ops < MaxOps /\ op[t] = Idle
Begin(t, o) == ops' = ops + 1 /\ op' = [op EXCEPT ![t] = o]
Goto(t, pc) == op' = [op EXCEPT ![t].pc = pc] /\ UNCHANGED ops
Finish(t)   == op' = [op EXCEPT ![t] = Idle] /\ UNCHANGED ops

\* update_inode_page() of the inodes S, as they are then
UpdateInodePages(S) == page' = [i \in Inos |-> IF i \in S THEN inode'[i] ELSE page[i]]

AddLinks(S, T) ==
    inode' = [i \in Inos |-> [inode[i] EXCEPT !.nlink = @ + (IF i \in S THEN 1 ELSE 0)
                                                          - (IF i \in T THEN 1 ELSE 0)]]

\* wrong: the count has no limit
AcquireOrphan_NoLimit == nOrphans' = nOrphans + 1 /\ UNCHANGED orphans

\* acquire_orphan_inode()
AcquireOrphan == nOrphans < MaxOrphans /\ nOrphans' = nOrphans + 1 /\ UNCHANGED orphans

\* remove_orphan_inode()
RemoveOrphan(i) ==
    /\ orphans' = orphans \ {i}
    /\ nOrphans' = IF i \in orphans THEN nOrphans - 1 ELSE nOrphans

\* wrong: the reservation of an inode that keeps a name is not released
SettleOrphan_Kept(i) ==
    orphans' = (IF inode[i].nlink = 0 THEN orphans \cup {i} ELSE orphans) /\ UNCHANGED nOrphans

\* add_orphan_inode() or release_orphan_inode() of an inode that lost a name
SettleOrphan(i) ==
    IF inode[i].nlink = 0 THEN orphans' = orphans \cup {i} /\ UNCHANGED nOrphans
                          ELSE nOrphans' = nOrphans - 1 /\ UNCHANGED orphans

\* alloc_nid(): the inode number is in no use and, as in NodeManager, was not freed
\* since the last checkpoint
FreeIno(i) == inode[i] = NoInode /\ saved.page[i] = NoInode /\ ~Busy(i)

\* f2fs_lookup(), which may change the hint
Lookup(d, n) ==
    /\ ops < MaxOps
    /\ Live(d) /\ Unheld({d})
    /\ \E h \in HintsAfterSearch(dents[d], inode[d].depth, hint[d], n) :
         h # hint[d] /\ hint' = [hint EXCEPT ![d] = h]
    /\ UNCHANGED <<inode, page, dents, parent, orphanVars, open, op, saved, ops>>

-----------------------------------------------------------------------------
(* A name for an inode: f2fs_add_link().                                   *)

\* f2fs_create(), f2fs_mkdir(): f2fs_new_inode()
Create(t, d, n, i, kind) ==
    /\ MayBegin(t) /\ Live(d) /\ Unheld({d}) /\ ~Named(d, n) /\ FreeIno(i)
    /\ Begin(t, [Idle EXCEPT !.pc = "new", !.what = "create", !.locks = {d}, !.dir = d, !.name = n,
                             !.ino = i])
    /\ inode' = [inode EXCEPT ![i] = NewInode(kind)]
    /\ UNCHANGED <<page, dirVars, orphanVars, open, saved>>

\* f2fs_link() of a file with a name, or of an O_TMPFILE
Link(t, i, d, n) ==
    /\ MayBegin(t) /\ Live(d) /\ Unheld({d, i}) /\ ~Named(d, n)
    /\ inode[i].kind = "file" /\ (Linked(i) \/ open[i] = "tmpfile")
    /\ Begin(t, [Idle EXCEPT !.pc = "new", !.what = "link", !.locks = {d, i}, !.dir = d, !.name = n,
                             !.ino = i])
    /\ UNCHANGED <<inode, page, dirVars, orphanVars, open, saved>>

\* FI_INC_LINK: a directory, for its ".", and an inode that gets a second name
IncLink(t) == op[t].what = "link" \/ (op[t].what = "create" /\ IsDir(op[t].ino))

\* there is room, and f2fs_lock_op() and init_inode_metadata() are done
AddLinkMetadata(t) ==
    LET d == op[t].dir
        n == op[t].name
        i == op[t].ino
    IN  /\ op[t].pc = "new"
        /\ CanAdd(dents[d], inode[d].depth, hint[d], n)
        /\ IF IncLink(t) /\ inode[i].nlink = 0 THEN RemoveOrphan(i) ELSE UNCHANGED orphanVars
        /\ AddLinks(IF IncLink(t) THEN {i} ELSE {}, {})
        /\ Goto(t, "metadata")
        /\ UNCHANGED <<page, dirVars, open, saved>>

\* the entry, update_inode() and update_parent_metadata()
AddEntry(d, n, i, new) ==
    LET e == NewEntry(dents[d], hint[d], n, i)
    IN  /\ dents' = [dents EXCEPT ![d] = @ \cup {e}]
        /\ hint' = [hint EXCEPT ![d] = HintAfterAdd(@, n)]
        /\ inode' = [inode EXCEPT ![d].depth = DepthAfterAdd(@, e),
                                  ![d].nlink = @ + IF new /\ IsDir(i) THEN 1 ELSE 0]

AddLinkEntry(t) ==
    LET i == op[t].ino
        d == op[t].dir
    IN  /\ op[t].pc = "metadata"
        /\ AddEntry(d, op[t].name, i, op[t].what = "create")
        /\ parent' = IF IsDir(i) THEN [parent EXCEPT ![i] = d] ELSE parent
        /\ UpdateInodePages({i, d})
        /\ open' = [open EXCEPT ![i] = IF @ = "tmpfile" THEN "yes" ELSE @]
        /\ Finish(t)
        /\ UNCHANGED <<orphanVars, saved>>

\* __f2fs_add_link() fails: handle_failed_inode() of a new inode
AddLinkFails(t) ==
    /\ op[t].pc = "new"
    /\ inode' = IF op[t].what = "create" THEN [inode EXCEPT ![op[t].ino] = NoInode] ELSE inode
    /\ hint' = [hint EXCEPT ![op[t].dir] = HintAfterAdd(@, op[t].name)]
    /\ Finish(t)
    /\ UNCHANGED <<page, dents, parent, orphanVars, open, saved>>

-----------------------------------------------------------------------------
(* f2fs_tmpfile().                                                         *)

\* f2fs_new_inode(), f2fs_lock_op() and acquire_orphan_inode()
Tmpfile(t, i) ==
    /\ MayBegin(t) /\ FreeIno(i)
    /\ AcquireOrphan
    /\ Begin(t, [Idle EXCEPT !.pc = "acquired", !.what = "tmpfile", !.ino = i])
    /\ inode' = [inode EXCEPT ![i] = NewInode("file")]
    /\ UNCHANGED <<page, dirVars, open, saved>>

\* f2fs_do_tmpfile(), add_orphan_inode() and f2fs_unlock_op()
TmpfileOrphan(t) ==
    /\ op[t].pc = "acquired"
    /\ page' = [page EXCEPT ![op[t].ino] = inode[op[t].ino]]
    /\ orphans' = orphans \cup {op[t].ino}
    /\ Goto(t, "tmpfile")
    /\ UNCHANGED <<inode, dirVars, nOrphans, open, saved>>

\* f2fs_do_tmpfile() fails
TmpfileFails(t) ==
    /\ op[t].pc = "acquired"
    /\ inode' = [inode EXCEPT ![op[t].ino] = NoInode]
    /\ nOrphans' = nOrphans - 1
    /\ Finish(t)
    /\ UNCHANGED <<page, dirVars, orphans, open, saved>>

\* d_tmpfile(), without the operation lock
TmpfileDone(t) ==
    /\ op[t].pc = "tmpfile"
    /\ AddLinks({}, {op[t].ino})
    /\ open' = [open EXCEPT ![op[t].ino] = "tmpfile"]
    /\ Finish(t)
    /\ UNCHANGED <<page, dirVars, orphanVars, saved>>

-----------------------------------------------------------------------------
(* f2fs_unlink() and f2fs_rmdir().                                         *)

\* f2fs_empty_dir()
EmptyDir(i) == dents[i] = {}

Unlink(t, d, n) ==
    /\ MayBegin(t) /\ Live(d) /\ Named(d, n)
    /\ Unheld({d, InoAt(d, n)})
    /\ IsDir(InoAt(d, n)) => EmptyDir(InoAt(d, n))
    /\ AcquireOrphan
    /\ Begin(t, [Idle EXCEPT !.pc = "unlink", !.what = "unlink", !.locks = {d, InoAt(d, n)},
                             !.dir = d, !.name = n, !.ino = InoAt(d, n)])
    /\ UNCHANGED <<inode, page, dirVars, open, saved>>

\* f2fs_delete_entry(), to update_inode_page()
DeleteEntry(t) ==
    LET d == op[t].dir
        i == op[t].ino
    IN  /\ op[t].pc = "unlink"
        /\ dents' = [dents EXCEPT ![d] = Without(@, EntryAt(d, op[t].name))]
        /\ inode' = [inode EXCEPT ![i].nlink = @ - (IF IsDir(i) THEN 2 ELSE 1),
                                  ![d].nlink = @ - (IF IsDir(i) THEN 1 ELSE 0)]
        /\ UpdateInodePages(IF IsDir(i) THEN {i, d} ELSE {i})
        /\ Goto(t, "settle")
        /\ UNCHANGED <<parent, hint, orphanVars, open, saved>>

DeleteSettle(t) ==
    /\ op[t].pc = "settle"
    /\ SettleOrphan(op[t].ino)
    /\ Finish(t)
    /\ UNCHANGED <<inode, page, dirVars, open, saved>>

-----------------------------------------------------------------------------
(* f2fs_rename2().                                                         *)

\* a directory and those its ".." leads to
Above(d) ==
    {a \in Inos : \A S \in SUBSET Inos : d \in S /\ (\A x \in S : parent[x] \in S) => a \in S}

\* lock_rename(): one rename over two directories at a time
RenameAllowed(d, e) ==
    /\ Live(d) /\ Live(e) /\ Unheld({d, e})
    /\ d # e => \A t \in Threads : op[t].pc # "idle" => op[t].dir = op[t].toDir \/ op[t].what # "rename"

Moving(t, pc, locks, d, n, e, m, i, old) ==
    Begin(t, [pc |-> pc, what |-> "rename", locks |-> {d, e} \cup locks, dir |-> d, name |-> n, ino |-> i,
              toDir |-> e, toName |-> m, old |-> old])

\* f2fs_rename() over a name that exists
RenameOver(t, d, n, e, m) ==
    /\ MayBegin(t) /\ RenameAllowed(d, e)
    /\ Named(d, n) /\ Named(e, m)
    /\ LET i   == InoAt(d, n)
           old == InoAt(e, m)
       IN  /\ i # old /\ inode[i].kind = inode[old].kind
           /\ Unheld({old} \cup (IF IsDir(i) THEN {} ELSE {i}))
           /\ i \notin Above(e) /\ old \notin Above(d)
           /\ IsDir(i) => EmptyDir(old)
           /\ AcquireOrphan
           /\ Moving(t, "replace", {old} \cup (IF IsDir(i) THEN {} ELSE {i}), d, n, e, m, i, old)
    /\ UNCHANGED <<inode, page, dirVars, open, saved>>

\* f2fs_set_link() and drop_nlink()
RenameReplace(t) ==
    LET e   == op[t].toDir
        old == op[t].old
    IN  /\ op[t].pc = "replace"
        /\ dents' = [dents EXCEPT ![e] = SetLink(@, EntryAt(e, op[t].toName), op[t].ino)]
        /\ inode' = [inode EXCEPT ![old].nlink = @ - (IF IsDir(old) THEN 2 ELSE 1)]
        /\ Goto(t, "replaced")
        /\ UNCHANGED <<page, parent, hint, orphanVars, open, saved>>

RenameSettle(t) ==
    /\ op[t].pc = "replaced"
    /\ SettleOrphan(op[t].old)
    /\ UNCHANGED inode
    /\ UpdateInodePages({op[t].ino, op[t].old})
    /\ Goto(t, "moved")
    /\ UNCHANGED <<dirVars, open, saved>>

\* f2fs_rename() to a new name
RenameTo(t, d, n, e, m) ==
    /\ MayBegin(t) /\ RenameAllowed(d, e)
    /\ Named(d, n) /\ ~Named(e, m)
    /\ LET i     == InoAt(d, n)
           locks == IF IsDir(i) THEN {} ELSE {i}
       IN  /\ Unheld(locks)
           /\ i \notin Above(e)
           /\ Moving(t, "add", locks, d, n, e, m, i, i)
    /\ UNCHANGED <<inode, page, dirVars, orphanVars, open, saved>>

RenameAdd(t) ==
    LET e == op[t].toDir
        m == op[t].toName
    IN  /\ op[t].pc = "add"
        /\ CanAdd(dents[e], inode[e].depth, hint[e], m)
        /\ AddEntry(e, m, op[t].ino, TRUE)
        /\ UpdateInodePages({op[t].ino, e})
        /\ Goto(t, "moved")
        /\ UNCHANGED <<parent, orphanVars, open, saved>>

RenameAddFails(t) ==
    /\ op[t].pc = "add"
    /\ hint' = [hint EXCEPT ![op[t].toDir] = HintAfterAdd(@, op[t].toName)]
    /\ Finish(t)
    /\ UNCHANGED <<inode, page, dents, parent, orphanVars, open, saved>>

\* f2fs_delete_entry() of the old name, to f2fs_unlock_op()
RenameDelete(t) ==
    LET d == op[t].dir
        i == op[t].ino
    IN  /\ op[t].pc = "moved"
        /\ dents' = [dents EXCEPT ![d] = Without(@, EntryAt(d, op[t].name))]
        /\ parent' = IF IsDir(i) THEN [parent EXCEPT ![i] = op[t].toDir] ELSE parent
        /\ AddLinks({}, IF IsDir(i) THEN {d} ELSE {})
        /\ UpdateInodePages(IF IsDir(i) THEN {d, i} ELSE {})
        /\ Finish(t)
        /\ UNCHANGED <<hint, orphanVars, open, saved>>

\* f2fs_cross_rename()
CrossRename(t, d, n, e, m) ==
    /\ MayBegin(t) /\ RenameAllowed(d, e)
    /\ Named(d, n) /\ Named(e, m)
    /\ LET i     == InoAt(d, n)
           old   == InoAt(e, m)
           locks == {k \in {i, old} : ~IsDir(k)}
       IN  /\ i # old
           /\ Unheld(locks)
           /\ i \notin Above(e) /\ old \notin Above(d)
           /\ Moving(t, "exchange", locks, d, n, e, m, i, old)
    /\ UNCHANGED <<inode, page, dirVars, orphanVars, open, saved>>

\* the ".." of both, then the entry and the link count of the old directory
CrossOldDir(t) ==
    LET d   == op[t].dir
        e   == op[t].toDir
        i   == op[t].ino
        old == op[t].old
    IN  /\ op[t].pc = "exchange"
        /\ parent' = [k \in Inos |-> IF k = i /\ IsDir(i) THEN e
                                     ELSE IF k = old /\ IsDir(old) THEN d ELSE parent[k]]
        /\ dents' = [dents EXCEPT ![d] = SetLink(@, EntryAt(d, op[t].name), old)]
        /\ AddLinks(IF d # e /\ IsDir(old) /\ ~IsDir(i) THEN {d} ELSE {},
                    IF d # e /\ IsDir(i) /\ ~IsDir(old) THEN {d} ELSE {})
        /\ UpdateInodePages({i, d})
        /\ Goto(t, "crossed")
        /\ UNCHANGED <<hint, orphanVars, open, saved>>

\* the entry and the link count of the new directory
CrossNewDir(t) ==
    LET d   == op[t].dir
        e   == op[t].toDir
        i   == op[t].ino
        old == op[t].old
    IN  /\ op[t].pc = "crossed"
        /\ dents' = [dents EXCEPT ![e] = SetLink(@, EntryAt(e, op[t].toName), i)]
        /\ AddLinks(IF d # e /\ IsDir(i) /\ ~IsDir(old) THEN {e} ELSE {},
                    IF d # e /\ IsDir(old) /\ ~IsDir(i) THEN {e} ELSE {})
        /\ UpdateInodePages({old, e})
        /\ Finish(t)
        /\ UNCHANGED <<parent, hint, orphanVars, open, saved>>

-----------------------------------------------------------------------------
(* Inodes and checkpoints.                                                 *)

Open(i) ==
    /\ open[i] = "no" /\ ops < MaxOps
    /\ Linked(i)
    /\ open' = [open EXCEPT ![i] = "yes"]
    /\ ops' = ops + 1
    /\ UNCHANGED <<inode, page, dirVars, orphanVars, op, saved>>

Close(i) ==
    /\ open[i] # "no" /\ ~Busy(i)
    /\ open' = [open EXCEPT ![i] = "no"]
    /\ UNCHANGED <<inode, page, dirVars, orphanVars, op, saved, ops>>

\* f2fs_write_inode(): only a page that a tmpfile or a replaced name left behind changes
WriteInode(i) ==
    /\ page[i] # NoInode /\ page[i] # inode[i]
    /\ page' = [page EXCEPT ![i] = inode[i]]
    /\ UNCHANGED <<inode, dirVars, orphanVars, open, op, saved, ops>>

\* f2fs_evict_inode() at the last iput(): remove_inode_page() and truncate_node()
Evict(i) ==
    /\ inode[i] # NoInode /\ inode[i].nlink = 0
    /\ open[i] = "no" /\ ~Busy(i)
    /\ RemoveOrphan(i)
    /\ inode' = [inode EXCEPT ![i] = NoInode]
    /\ page' = [page EXCEPT ![i] = NoInode]
    /\ dents' = [dents EXCEPT ![i] = {}]
    /\ parent' = [parent EXCEPT ![i] = Root]
    /\ hint' = [hint EXCEPT ![i] = NoHint]
    /\ UNCHANGED <<open, op, saved, ops>>

\* block_operations() has every operation wait; write_orphan_inodes()
Checkpoint ==
    /\ \A t \in Threads : ~HoldsOpLock(t)
    /\ saved' = [page |-> page, dents |-> dents, parent |-> parent, orphans |-> orphans]
    /\ UNCHANGED <<inode, page, dirVars, orphanVars, open, op, ops>>

\* wrong: the orphans of the checkpoint are not deleted
Recovered_All(i) == saved.page[i]

\* recover_orphan_inodes(): what a mount finds of an inode
Recovered(i) == IF i \in saved.orphans THEN NoInode ELSE saved.page[i]

PowerFailure ==
    /\ inode' = [i \in Inos |-> Recovered(i)]
    /\ page' = [i \in Inos |-> Recovered(i)]
    /\ dents' = [i \in Inos |-> IF Recovered(i) = NoInode THEN {} ELSE saved.dents[i]]
    /\ parent' = [i \in Inos |-> IF Recovered(i) = NoInode THEN Root ELSE saved.parent[i]]
    /\ hint' = [i \in Inos |-> NoHint]
    /\ orphans' = {} /\ nOrphans' = 0
    /\ open' = [i \in Inos |-> "no"]
    /\ op' = [t \in Threads |-> Idle]
    /\ UNCHANGED <<saved, ops>>

Next ==
    \/ \E d \in Inos, n \in Names : Lookup(d, n)
    \/ \E t \in Threads, d, i \in Inos, n \in Names :
         \/ \E kind \in {"file", "dir"} : Create(t, d, n, i, kind)
         \/ Link(t, i, d, n)
    \/ \E t \in Threads :
         \/ AddLinkMetadata(t)
         \/ AddLinkEntry(t)
         \/ AddLinkFails(t)
         \/ TmpfileOrphan(t)
         \/ TmpfileFails(t)
         \/ TmpfileDone(t)
         \/ DeleteEntry(t)
         \/ DeleteSettle(t)
         \/ RenameReplace(t)
         \/ RenameSettle(t)
         \/ RenameAdd(t)
         \/ RenameAddFails(t)
         \/ RenameDelete(t)
         \/ CrossOldDir(t)
         \/ CrossNewDir(t)
    \/ \E t \in Threads, i \in Inos : Tmpfile(t, i)
    \/ \E t \in Threads, d \in Inos, n \in Names : Unlink(t, d, n)
    \/ \E t \in Threads, d, e \in Inos, n, m \in Names :
         \/ RenameOver(t, d, n, e, m)
         \/ RenameTo(t, d, n, e, m)
         \/ CrossRename(t, d, n, e, m)
    \/ \E i \in Inos : Open(i) \/ Close(i) \/ WriteInode(i) \/ Evict(i)
    \/ Checkpoint
    \/ PowerFailure

Spec == Init /\ [][Next]_vars

-----------------------------------------------------------------------------
(* Properties.                                                             *)

Entries == [name : Names, ino : Inos, level : 0..MaxDepth-1, bucket : Nat, pos : Nat]
Inodes  == [kind : {"none", "file", "dir"}, nlink : Nat, depth : 0..MaxDepth]

\* Every variable has its type: link counts and the orphan count never go below zero.
TypeOK ==
    /\ inode \in [Inos -> Inodes] /\ page \in [Inos -> Inodes]
    /\ dents \in [Inos -> SUBSET Entries]
    /\ parent \in [Inos -> Inos]
    /\ hint \in [Inos -> [hash : Nat, level : 0..MaxDepth-1]]
    /\ orphans \subseteq Inos
    /\ nOrphans \in 0..MaxOrphans
    /\ open \in [Inos -> {"no", "yes", "tmpfile"}]
    /\ ops \in 0..MaxOps

\* The places of an inode in directories D: a directory and a name there
HasName(D, i, d, n) == \E e \in D[d] : e.name = n /\ e.ino = i
NamesOf(D, i)       == {p \in Inos \X Names : HasName(D, i, p[1], p[2])}
Subdirs(D, P, d)    == {i \in Inos : P[i].kind = "dir" /\ \E e \in D[d] : e.ino = i}

\* Every ".." leads out of any set of directories without the root, so to the root.
NoCycle(up, dirs) == \A S \in SUBSET dirs : S # {} /\ Root \notin S => \E d \in S : up[d] \notin S

\* Inode pages P and directories D with ".." entries up and orphans O are a tree
TreeConsistent(P, D, up, O) ==
    /\ \A i \in O : P[i] # NoInode /\ NamesOf(D, i) = {}
    /\ \A i \in Inos : NamesOf(D, i) # {} => P[i] # NoInode
    /\ \A i \in Inos \ ({Root} \cup O) : P[i] # NoInode =>
         IF P[i].kind = "file"
         THEN NamesOf(D, i) # {} /\ P[i].nlink = Cardinality(NamesOf(D, i))
         ELSE /\ \E n \in Names : NamesOf(D, i) = {<<up[i], n>>}
              /\ P[i].nlink = 2 + Cardinality(Subdirs(D, P, i))
    /\ P[Root].nlink = 2 + Cardinality(Subdirs(D, P, Root))
    /\ NoCycle(up, {i \in Inos \ O : P[i].kind = "dir"})

\* What a checkpoint has of the tree is a tree, between any two steps of the operations
\* that f2fs_lock_op() lets run at once: a name leads to an inode, a link count is the
\* number of names, a directory has one name and a ".." that leads where its name is and
\* on to the root, and an inode without names is in the orphan blocks, for the mount to
\* delete.
SavedTreeConsistent == TreeConsistent(saved.page, saved.dents, saved.parent, saved.orphans)

\* the operations that may still add an orphan
Reserving == {t \in Threads : op[t].pc \in {"acquired", "unlink", "settle", "replace", "replaced"}}

\* n_orphans, from which a checkpoint takes the number of its orphan blocks, counts the
\* orphans and the reservations of the operations that may still add one, no more.
OrphanCount == nOrphans = Cardinality(orphans) + Cardinality(Reserving)

\* A name that was added is found by every later search, however names of the same hash
\* came and went and whatever the hint said, in memory and after a mount: it is in a level
\* the directory knows of, it is the only entry of its name and no entry overwrote it.
NamesFound ==
    \A d \in Inos :
        /\ EntriesFound(dents[d], inode[d].depth)
        /\ EntriesFound(saved.dents[d], saved.page[d].depth)

\* After a power failure and a mount no inode is left that no name leads to, and none with
\* a name is lost: what was unlinked but open, or made by O_TMPFILE, is gone.
NothingLeaks ==
    [][PowerFailure => \A i \in Inos \ {Root} :
          inode'[i] # NoInode <=> \E d \in Inos : \E e \in dents'[d] : e.ino = i]_vars
-----------------------------------------------------------------------------
(* The inductive invariant of the proofs: what is known of an inode, and of *)
(* an operation at each place it may be.                                    *)

Pcs     == {"idle", "new", "metadata", "acquired", "tmpfile", "unlink", "settle", "replace", "replaced",
            "add", "moved", "exchange", "crossed"}
OpTypes == [pc : Pcs, what : {"none", "create", "link", "tmpfile", "unlink", "rename"},
            locks : SUBSET Inos, dir : Inos, name : Names \cup {"none"}, ino : Inos,
            toDir : Inos, toName : Names \cup {"none"}, old : Inos]

AnyInodes == [kind : {"none", "file", "dir"}, nlink : Int, depth : 0..MaxDepth]

TypeInv ==
    /\ inode \in [Inos -> AnyInodes] /\ page \in [Inos -> AnyInodes]
    /\ dents \in [Inos -> SUBSET Entries]
    /\ parent \in [Inos -> Inos]
    /\ hint \in [Inos -> [hash : Nat, level : 0..MaxDepth-1]]
    /\ orphans \subseteq Inos
    /\ nOrphans \in Int /\ nOrphans <= MaxOrphans
    /\ open \in [Inos -> {"no", "yes", "tmpfile"}]
    /\ op \in [Threads -> OpTypes]
    /\ saved \in [page : [Inos -> AnyInodes], dents : [Inos -> SUBSET Entries],
                  parent : [Inos -> Inos], orphans : SUBSET Inos]
    /\ ops \in 0..MaxOps

\* a directory of the tree: one that has its page and was not removed
LiveDir(d) == page[d].kind = "dir" /\ inode[d].nlink # 0

\* the inodes whose names an operation changes
Targets(t) ==
    IF op[t].pc = "idle" THEN {}
    ELSE IF op[t].pc \in {"replace", "replaced", "exchange", "crossed"} THEN {op[t].ino, op[t].old}
    ELSE {op[t].ino}

CrossDir(t) == op[t].what = "rename" /\ op[t].dir # op[t].toDir

\* No two operations hold one lock or change the names of one inode.
ExclusionInv ==
    \A t, u \in Threads : t # u =>
       /\ op[t].locks \cap op[u].locks = {}
       /\ Targets(t) \cap Targets(u) = {}
       /\ ~(CrossDir(t) /\ CrossDir(u))

Taken(d, n)   == \E e \in dents[d] : e.name = n
OnlyAt(i, S)  == IsDir(i) => NamesOf(dents, i) = S

\* An operation that adds a name: the name is not there, a new inode has no page, and there
\* is room as long as the directory is locked.
AddInv(t) ==
    LET o == op[t]
    IN  /\ o.pc \in {"new", "metadata"} =>
             /\ o.what \in {"create", "link"} /\ o.name \in Names
             /\ o.dir \in o.locks /\ LiveDir(o.dir) /\ ~Taken(o.dir, o.name)
             /\ IF o.what = "create"
                THEN /\ page[o.ino] = NoInode
                     /\ inode[o.ino].kind # "none"
                     /\ inode[o.ino].nlink = IF o.pc = "metadata" /\ IsDir(o.ino) THEN 2 ELSE 1
                ELSE page[o.ino].kind = "file" /\ o.ino \in o.locks
        /\ o.pc = "metadata" =>
             o.ino \notin orphans /\ CanAdd(dents[o.dir], inode[o.dir].depth, hint[o.dir], o.name)
        /\ o.pc = "acquired" =>
             /\ o.what = "tmpfile" /\ page[o.ino] = NoInode
             /\ inode[o.ino].kind = "file" /\ inode[o.ino].nlink = 1
        /\ o.pc = "tmpfile" =>
             /\ o.what = "tmpfile" /\ page[o.ino].kind = "file"
             /\ o.ino \in orphans /\ open[o.ino] = "no"

\* unlink() and rmdir(): the name is there, an empty directory stays empty.
UnlinkInv(t) ==
    LET o == op[t]
    IN  /\ o.pc \in {"unlink", "settle"} =>
             o.what = "unlink" /\ {o.dir, o.ino} \subseteq o.locks /\ LiveDir(o.dir)
        /\ o.pc = "unlink" =>
             /\ o.name \in Names /\ HasName(dents, o.ino, o.dir, o.name)
             /\ OnlyAt(o.ino, {<<o.dir, o.name>>})
             /\ IsDir(o.ino) => dents[o.ino] = {} /\ parent[o.ino] = o.dir
        /\ o.pc = "settle" =>
             /\ page[o.ino].kind # "none" /\ page[o.ino] = inode[o.ino] /\ o.ino \notin orphans
             /\ IsDir(o.ino) => inode[o.ino].nlink = 0

\* rename(): what is at its two places.
RenameInv(t) ==
    LET o    == op[t]
        from == <<o.dir, o.name>>
        to   == <<o.toDir, o.toName>>
    IN  /\ o.pc \in {"replace", "replaced", "add", "moved", "exchange", "crossed"} =>
             /\ o.what = "rename" /\ {o.dir, o.toDir} \subseteq o.locks
             /\ LiveDir(o.dir) /\ LiveDir(o.toDir)
             /\ o.name \in Names /\ o.toName \in Names /\ from # to
             /\ \A k \in Targets(t) : page[k].kind # "none" /\ (~IsDir(k) => k \in o.locks)
        /\ o.pc \in {"replace", "replaced", "add", "moved", "exchange"} =>
             HasName(dents, o.ino, o.dir, o.name) /\ (IsDir(o.ino) => parent[o.ino] = o.dir)
        /\ o.pc \in {"replaced", "moved"} =>
             HasName(dents, o.ino, o.toDir, o.toName) /\ OnlyAt(o.ino, {from, to})
        /\ o.pc \in {"replace", "add", "exchange"} => OnlyAt(o.ino, {from})
        /\ o.pc \in {"replace", "replaced", "exchange", "crossed"} => o.ino # o.old
        /\ o.pc \in {"replace", "replaced"} =>
             o.old \in o.locks /\ (IsDir(o.old) <=> IsDir(o.ino)) /\ dents[o.old] = {}
        /\ o.pc \in {"replace", "exchange"} =>
             /\ HasName(dents, o.old, o.toDir, o.toName) /\ OnlyAt(o.old, {to})
             /\ IsDir(o.old) => parent[o.old] = o.toDir
        /\ o.pc = "replaced" => o.old \notin orphans /\ (IsDir(o.old) => inode[o.old].nlink = 0)
        /\ o.pc = "add" => ~Taken(o.toDir, o.toName)
        /\ o.pc = "crossed" =>
             /\ HasName(dents, o.old, o.dir, o.name) /\ HasName(dents, o.old, o.toDir, o.toName)
             /\ OnlyAt(o.old, {from, to}) /\ OnlyAt(o.ino, {})
             /\ inode[o.ino].nlink # 0 /\ page[o.ino] = inode[o.ino]
             /\ IsDir(o.ino) => parent[o.ino] = o.toDir
             /\ IsDir(o.old) => parent[o.old] = o.dir

OpInv(t) ==
    /\ op[t].pc = "idle" => op[t] = Idle
    /\ Targets(t) \cap {Root, op[t].dir, op[t].toDir} = {}
    /\ AddInv(t) /\ UnlinkInv(t) /\ RenameInv(t)

\* A name of a file is counted and not there yet, or there and not counted; an inode has
\* lost a name and may become an orphan; a directory counts one that it has twice.
Ahead(i)    == \E t \in Threads : op[t].ino = i /\ op[t].pc \in {"metadata", "tmpfile", "crossed"}
Behind(i)   == \E t \in Threads : \/ op[t].ino = i /\ op[t].pc \in {"replaced", "moved"}
                                  \/ op[t].old = i /\ op[t].pc = "crossed"
Losing(i)   == \E t \in Threads : \/ op[t].ino = i /\ op[t].pc = "settle"
                                  \/ op[t].old = i /\ op[t].pc = "replaced"
DoubledBy(t, d) == /\ op[t].dir = d /\ op[t].toDir = d /\ IsDir(op[t].ino)
                   /\ op[t].pc \in {"replaced", "moved", "crossed"}
Doubled(d)  == \E t \in Threads : DoubledBy(t, d)
Bit(b)      == IF b THEN 1 ELSE 0

PageInv(i) ==
    /\ inode[i].nlink >= 0 /\ page[i].nlink >= 0
    /\ inode[i].kind = "none" => inode[i] = NoInode
    /\ page[i].kind = "none" =>
         /\ page[i] = NoInode /\ NamesOf(dents, i) = {} /\ dents[i] = {} /\ parent[i] = Root
         /\ open[i] = "no" /\ i \notin orphans
    /\ page[i].kind # "none" =>
         /\ page[i].kind = inode[i].kind
         /\ page[i] = inode[i] \/ inode[i].nlink = 0 \/ Ahead(i) \/ Losing(i)
    /\ dents[i] # {} => LiveDir(i)

OrphanInv(i) ==
    /\ i \in orphans =>
         /\ NamesOf(dents, i) = {}
         /\ inode[i].nlink = 0 \/ \E t \in Threads : op[t].ino = i /\ op[t].pc = "tmpfile"
    /\ page[i].kind # "none" /\ inode[i].nlink = 0 => i \in orphans \/ Losing(i)

LinkInv(i) ==
    /\ page[i].kind = "file" =>
         inode[i].nlink = Cardinality(NamesOf(dents, i)) + Bit(Ahead(i)) - Bit(Behind(i))
    /\ LiveDir(i) => inode[i].nlink = 2 + Cardinality(Subdirs(dents, inode, i)) + Bit(Doubled(i))
    /\ page[i].kind = "dir" /\ inode[i].nlink = 0 => NamesOf(dents, i) = {}
    /\ LiveDir(i) /\ i # Root /\ (\A t \in Threads : i \notin Targets(t)) =>
         \E n \in Names : NamesOf(dents, i) = {<<parent[i], n>>}

RootInv == LiveDir(Root) /\ NamesOf(dents, Root) = {} /\ parent[Root] = Root

\* A directory that is moved to another one is not above it.
CycleInv ==
    /\ NoCycle(parent, {d \in Inos : LiveDir(d)})
    /\ \A t \in Threads : CrossDir(t) =>
         /\ op[t].pc \in {"replace", "replaced", "add", "moved", "exchange"} =>
              op[t].ino \notin Above(op[t].toDir)
         /\ op[t].pc = "exchange" => op[t].old \notin Above(op[t].dir)

SavedInv ==
    /\ SavedTreeConsistent
    /\ \A i \in Inos :
         /\ EntriesFound(saved.dents[i], saved.page[i].depth)
         /\ saved.page[i].kind = "none" => saved.page[i] = NoInode
         /\ saved.dents[i] # {} => saved.page[i].kind = "dir" /\ i \notin saved.orphans
    /\ saved.page[Root].kind = "dir" /\ Root \notin saved.orphans
    /\ NamesOf(saved.dents, Root) = {} /\ saved.parent[Root] = Root

DirsFound == \A d \in Inos : EntriesFound(dents[d], inode[d].depth)

Inv ==
    /\ TypeInv
    /\ ExclusionInv
    /\ \A t \in Threads : OpInv(t)
    /\ \A i \in Inos : PageInv(i) /\ OrphanInv(i) /\ LinkInv(i)
    /\ RootInv
    /\ DirsFound
    /\ CycleInv
    /\ OrphanCount
    /\ SavedInv
=============================================================================
