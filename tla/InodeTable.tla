----------------------------- MODULE InodeTable -----------------------------
(***************************************************************************)
(* The inode table of virtual_fs/inode.rs as a value, and the operations   *)
(* of InodeTable as operators that return the new table.  A table is       *)
(*   ino  : inode number -> entry                                          *)
(*   path : full path -> inode number     (path_to_inode)                  *)
(*   next : the next inode number (numbers are never used again).          *)
(* Every operation runs under the table's one RwLock, so an operator is    *)
(* one step of whoever calls it.  A file's content is a number (its        *)
(* xet_hash, 0 for none); times, modes, sizes and owners are left out.  A  *)
(* child is named by its full path: nothing is renamed here, so a name in  *)
(* a directory and the full path are the same thing.                       *)
(***************************************************************************)
EXTENDS Naturals, FiniteSets, Functions

CONSTANTS Path,      \* the names of the mounted tree, without the root
          Root,      \* the path of the root
          Up         \* the directory a path lies in

ASSUME PathAssumption == IsFiniteSet(Path) /\ Root \notin Path /\ Up \in [Path -> Path \cup {Root}]
\* The paths are a tree below the root: any set of them has a topmost one.
ASSUME TreeAssumption == \A S \in SUBSET Path : S # {} => \E p \in S : Up[p] \notin S

RootIno == 1
None == 0            \* no inode, no content

\* nlink is 1 until the name is removed (there are no hard links here, and a
\* directory's ".." counts are left out); evict is evict_pending.
NewEntry(kind, p, up, hash) ==
    [kind |-> kind, path |-> p, parent |-> up, hash |-> hash, dirty |-> FALSE, nlink |-> 1,
     loaded |-> FALSE, remote |-> FALSE, local |-> FALSE,
     children |-> {}, index |-> <<>>, nlookup |-> 0, open |-> 0, evict |-> FALSE]

EmptyTable == [ino  |-> [i \in {RootIno} |-> NewEntry("dir", Root, RootIno, None)],
               path |-> [p \in {Root} |-> RootIno], next |-> 2]

Inodes(t) == DOMAIN t.ino
Has(t, i) == i \in Inodes(t)
IsDir(t, i) == Has(t, i) /\ t.ino[i].kind = "dir"
IsFile(t, i) == Has(t, i) /\ t.ino[i].kind = "file"
Linked(t, i) == Has(t, i) /\ t.ino[i].nlink > 0
IsOpen(t, i) == Has(t, i) /\ t.ino[i].open > 0
IsLoaded(t, i) == Has(t, i) /\ t.ino[i].loaded

Change(t, i, e) == [t EXCEPT !.ino[i] = e]
With(f, x, y) == [z \in DOMAIN f \cup {x} |-> IF z = x THEN y ELSE f[z]]
Without(f, S) == Restrict(f, DOMAIN f \ S)

\* The child of d called p, None when there is none.
LookupChild(t, d, p) ==
    IF Has(t, d) /\ p \in DOMAIN t.ino[d].index /\ Has(t, t.ino[d].index[p])
    THEN t.ino[d].index[p] ELSE None

GetByPath(t, p) == IF p \in DOMAIN t.path /\ Has(t, t.path[p]) THEN t.path[p] ELSE None
GetDirIno(t, p) == IF IsDir(t, GetByPath(t, p)) THEN t.path[p] ELSE None

AddChild(e, i, p) == [e EXCEPT !.children = @ \cup {[ino |-> i, name |-> p]},
                               !.index = With(@, p, i)]
RemoveChildByIno(e, i) ==
    LET gone == {c \in e.children : c.ino = i}
    IN  [e EXCEPT !.children = @ \ gone, !.index = Without(@, {c.name : c \in gone})]
RemoveChildByName(e, p) ==
    IF p \notin DOMAIN e.index THEN e
    ELSE [e EXCEPT !.children = {c \in @ : c.ino # e.index[p]}, !.index = Without(@, {p})]

\* A path that is mapped already keeps its inode as it is.
Insert(t, d, p, kind, hash) ==
    IF p \in DOMAIN t.path THEN t
    ELSE LET new == [t EXCEPT !.ino = With(@, t.next, NewEntry(kind, p, d, hash)),
                              !.path = With(@, p, t.next), !.next = @ + 1]
         IN  IF Has(t, d) THEN Change(new, d, AddChild(t.ino[d], t.next, p)) ELSE new
InsertedIno(t, p) == IF p \in DOMAIN t.path THEN t.path[p] ELSE t.next

\* i and everything below it: what is in each set of inodes that has i and
\* the children of its members.
Closed(t, S) == \A j \in S : \A c \in t.ino[j].children : c.ino \in Inodes(t) => c.ino \in S
Subtree(t, i) == {j \in Inodes(t) : \A S \in SUBSET Inodes(t) : i \in S /\ Closed(t, S) => j \in S}

\* i and its descendants leave, with the mappings of their paths, whichever
\* inode those point to.
RemoveInode(t, i) ==
    IF ~Has(t, i) THEN t
    ELSE LET gone == Subtree(t, i)
             up == t.ino[i].parent
             cut == IF Has(t, up) THEN Change(t, up, RemoveChildByIno(t.ino[up], i)) ELSE t
         IN  [cut EXCEPT !.ino = Without(@, gone), !.path = Without(@, {t.ino[j].path : j \in gone})]

\* The name goes, the inode stays with one link less.
UnlinkOne(t, d, p) ==
    IF ~Has(t, d) \/ p \notin DOMAIN t.ino[d].index THEN t
    ELSE LET i == t.ino[d].index[p]
             cut == [Change(t, d, RemoveChildByName(t.ino[d], p)) EXCEPT !.path = Without(@, {p})]
         IN  IF Has(t, i) THEN [cut EXCEPT !.ino[i].nlink = 0] ELSE cut

\* An inode without a name leaves; its path stays mapped when another inode
\* has it by now.
RemoveOrphan(t, i) ==
    IF ~Has(t, i) \/ Linked(t, i) THEN t
    ELSE [t EXCEPT !.ino = Without(@, {i}),
                   !.path = Without(@, {p \in {t.ino[i].path} \cap DOMAIN @ : @[p] = i})]

MayEvict(t, i) == IsFile(t, i) /\ Linked(t, i) /\ t.ino[i].nlookup = 0 /\ ~t.ino[i].dirty

\* Evicts the inodes of S and makes their directories list again.
Evict(t, S) ==
    LET ups == {t.ino[i].parent : i \in S} \cap Inodes(t)
        gone(e) == {c \in e.children : c.ino \in S}
        cut(e) == [e EXCEPT !.children = @ \ gone(e), !.loaded = FALSE,
                            !.index = Without(@, {c.name : c \in gone(e)})]
    IN  [t EXCEPT !.ino = [j \in DOMAIN @ \ S |-> IF j \in ups THEN cut(@[j]) ELSE @[j]],
                  !.path = Without(@, {t.ino[i].path : i \in S})]
EvictIfSafe(t, i) == IF MayEvict(t, i) THEN Evict(t, {i}) ELSE t
EvictBatchIfSafe(t, S) == Evict(t, {i \in S : MayEvict(t, i) /\ ~IsOpen(t, i)})

LruCandidates(t) == {i \in Inodes(t) : /\ IsFile(t, i) /\ Linked(t, i)
                                       /\ ~t.ino[i].dirty /\ ~IsOpen(t, i)}

\* What the Hub says of a file, unless the file is dirty.
UpdateRemoteFileClosed(t, i, hash) ==
    IF Has(t, i) /\ ~t.ino[i].dirty /\ ~IsOpen(t, i) THEN [t EXCEPT !.ino[i].hash = hash] ELSE t
UpdateRemoteFile(t, i, hash) ==
    IF Has(t, i) /\ ~t.ino[i].dirty THEN [t EXCEPT !.ino[i].hash = hash] ELSE t

InvalidateChildren(t, S) ==
    [t EXCEPT !.ino = [j \in DOMAIN @ |-> IF j \in S THEN [@[j] EXCEPT !.loaded = FALSE] ELSE @[j]]]

HasDirtyOrOpen(t, i) == \E j \in Subtree(t, i) : t.ino[j].dirty \/ IsOpen(t, j)

LoadedDirs(t) == {t.ino[i].path : i \in {j \in Inodes(t) : IsDir(t, j) /\ IsLoaded(t, j)}}

\* Every directory above a path.
Ancestors[p \in Path \cup {Root}] == IF p = Root THEN {} ELSE {Up[p]} \cup Ancestors[Up[p]]

\* The nearest directory above p that the table has.
NearestDirAncestor(t, p) ==
    LET up[q \in Path \cup {Root}] ==
            IF q = Root THEN RootIno
            ELSE IF GetDirIno(t, Up[q]) # None THEN GetDirIno(t, Up[q]) ELSE up[Up[q]]
    IN  up[p]

\* A file the Hub no longer has: with open handles it loses its name, without
\* it leaves; a dirty one stays.
RemoveRemoteFileUnchecked(t, i) ==
    IF ~Has(t, i) THEN t
    ELSE IF IsOpen(t, i) THEN UnlinkOne(t, t.ino[i].parent, t.ino[i].path) ELSE RemoveInode(t, i)
RemoveRemoteFileOpenToo(t, i) == IF ~Has(t, i) \/ t.ino[i].dirty THEN t ELSE RemoveInode(t, i)
RemoveRemoteFile(t, i) ==
    IF ~Has(t, i) \/ t.ino[i].dirty THEN t
    ELSE IF IsOpen(t, i) THEN UnlinkOne(t, t.ino[i].parent, t.ino[i].path)
    ELSE RemoveInode(t, i)

\* The four structures of a table tell one story: every child of a directory
\* is a linked inode that names that directory as its parent, under the path
\* that path_to_inode maps to it, and every linked inode is such a child.
TableIsConsistent(t) ==
    /\ \A d \in Inodes(t) :
         /\ t.ino[d].children = {[ino |-> t.ino[d].index[p], name |-> p] : p \in DOMAIN t.ino[d].index}
         /\ \A c \in t.ino[d].children :
              /\ Linked(t, c.ino)
              /\ t.ino[c.ino].parent = d /\ t.ino[c.ino].path = c.name
    /\ \A i \in Inodes(t) \ {RootIno} :
         Linked(t, i) => /\ LookupChild(t, t.ino[i].parent, t.ino[i].path) = i
                         /\ GetByPath(t, t.ino[i].path) = i
    /\ \A p \in DOMAIN t.path : Linked(t, t.path[p]) /\ t.ino[t.path[p]].path = p
=============================================================================
