--------------------------- MODULE RemoteFeedProofs ---------------------------
(***************************************************************************)
(* What stays true of the inode table of RemoteFeed, for every tree of     *)
(* paths and all bounds.  The proof has three layers:                      *)
(*   - operations: each operator of InodeTable takes a Sound table to a    *)
(*     Sound one and keeps what others know by number (Keeps);             *)
(*   - folds: a listing, a round and a batch of events apply such an       *)
(*     operator to every member of a finite set or sequence;               *)
(*   - steps: IInv adds what a call, a round, the kernel and the feed hold *)
(*     over the table, and each action of Next keeps it.                   *)
(* What the names and contents are is a second pass over the operations    *)
(* and the steps: an operation is Honest when the names that it takes are  *)
(* gone from the Hub and the contents that it brings are the Hub's, and    *)
(* Seen says that what calls, commits and the round hold of the Hub is     *)
(* what the Hub has, while no answer is late.                              *)
(***************************************************************************)
EXTENDS RemoteFeed, FiniteSetTheorems, TLAPS

-----------------------------------------------------------------------------
(* The inductive invariant.                                                *)

Fields == {"kind", "path", "parent", "hash", "dirty", "nlink", "loaded", "remote", "local",
           "children", "index", "nlookup", "open", "evict"}
EntryOK(e) ==
    /\ DOMAIN e = Fields
    /\ e.kind \in {"file", "dir"} /\ e.path \in Path \cup {Root} /\ e.parent \in Nat
    /\ e.hash \in 0..MaxRev /\ e.dirty \in BOOLEAN /\ e.nlink \in 0..1
    /\ e.nlookup \in Nat /\ e.open \in Nat
    /\ DOMAIN e.index \subseteq Path /\ \A p \in DOMAIN e.index : e.index[p] \in Nat
TableTyped(t) ==
    /\ DOMAIN t = {"ino", "path", "next"} /\ t.next \in Nat
    /\ RootIno \in Inodes(t) /\ \A i \in Inodes(t) : i \in Nat \ {0} /\ i < t.next /\ EntryOK(t.ino[i])
    /\ DOMAIN t.path \subseteq Path \cup {Root}
RootStays(t) == t.ino[RootIno].kind = "dir" /\ t.ino[RootIno].path = Root /\ t.ino[RootIno].nlink = 1
\* An inode is younger than its directory.
Below(t) == \A i \in Inodes(t) \ {RootIno} :
    /\ t.ino[i].path \in Path /\ t.ino[i].parent \in Nat \ {0} /\ t.ino[i].parent < i
    /\ Has(t, t.ino[i].parent) => Up[t.ino[i].path] = t.ino[t.ino[i].parent].path
Kinds(t) == \A i \in Inodes(t) :
    IF t.ino[i].kind = "file" THEN t.ino[i].children = {} ELSE t.ino[i].nlink = 1
OrphansOpenBut(t, x) == \A i \in Inodes(t) : i # x /\ t.ino[i].nlink = 0 => t.ino[i].open > 0
SoundBut(t, x) == /\ TableTyped(t) /\ RootStays(t) /\ Below(t) /\ Kinds(t)
                  /\ OrphansOpenBut(t, x) /\ TableIsConsistent(t)
Sound(t) == SoundBut(t, None)

-----------------------------------------------------------------------------
(* Tables.                                                                 *)

LEMMA NoneIsNone == None \notin Nat \ {0} /\ RootIno = 1 /\ None = 0
  BY DEF None, RootIno

\* What TableIsConsistent says, without LookupChild and GetByPath.
ChildrenTell(t) == \A d \in Inodes(t) :
    /\ t.ino[d].children = {[ino |-> t.ino[d].index[p], name |-> p] : p \in DOMAIN t.ino[d].index}
    /\ \A p \in DOMAIN t.ino[d].index :
         /\ t.ino[d].index[p] \in Inodes(t)
         /\ t.ino[t.ino[d].index[p]].nlink > 0
         /\ t.ino[t.ino[d].index[p]].parent = d
         /\ t.ino[t.ino[d].index[p]].path = p
LinkedTell(t) == \A i \in Inodes(t) \ {RootIno} : t.ino[i].nlink > 0 =>
    /\ t.ino[i].parent \in Inodes(t)
    /\ t.ino[i].path \in DOMAIN t.ino[t.ino[i].parent].index
    /\ t.ino[t.ino[i].parent].index[t.ino[i].path] = i
    /\ t.ino[i].path \in DOMAIN t.path /\ t.path[t.ino[i].path] = i
PathsTell(t) == \A p \in DOMAIN t.path :
    t.path[p] \in Inodes(t) /\ t.ino[t.path[p]].nlink > 0 /\ t.ino[t.path[p]].path = p

LEMMA Story ==
    ASSUME NEW t, TableTyped(t)
    PROVE  TableIsConsistent(t) <=> ChildrenTell(t) /\ LinkedTell(t) /\ PathsTell(t)
<1>1. ChildrenTell(t) <=>
      \A d \in Inodes(t) :
         /\ t.ino[d].children = {[ino |-> t.ino[d].index[p], name |-> p] : p \in DOMAIN t.ino[d].index}
         /\ \A c \in t.ino[d].children :
              /\ Linked(t, c.ino)
              /\ t.ino[c.ino].parent = d /\ t.ino[c.ino].path = c.name
  <2> SUFFICES ASSUME NEW d \in Inodes(t),
                      t.ino[d].children = {[ino |-> t.ino[d].index[p], name |-> p] : p \in DOMAIN t.ino[d].index}
               PROVE  (\A c \in t.ino[d].children : Linked(t, c.ino) /\ t.ino[c.ino].parent = d /\ t.ino[c.ino].path = c.name)
                      <=> (\A p \in DOMAIN t.ino[d].index :
                             /\ t.ino[d].index[p] \in Inodes(t)
                             /\ t.ino[t.ino[d].index[p]].nlink > 0
                             /\ t.ino[t.ino[d].index[p]].parent = d
                             /\ t.ino[t.ino[d].index[p]].path = p)
    BY DEF ChildrenTell
  <2>1. ASSUME \A c \in t.ino[d].children : Linked(t, c.ino) /\ t.ino[c.ino].parent = d /\ t.ino[c.ino].path = c.name,
               NEW p \in DOMAIN t.ino[d].index
        PROVE  /\ t.ino[d].index[p] \in Inodes(t)
               /\ t.ino[t.ino[d].index[p]].nlink > 0
               /\ t.ino[t.ino[d].index[p]].parent = d
               /\ t.ino[t.ino[d].index[p]].path = p
    <3>1. [ino |-> t.ino[d].index[p], name |-> p] \in t.ino[d].children
      OBVIOUS
    <3> QED BY <2>1, <3>1 DEF Linked, Has, Inodes
  <2>2. ASSUME \A p \in DOMAIN t.ino[d].index :
                             /\ t.ino[d].index[p] \in Inodes(t)
                             /\ t.ino[t.ino[d].index[p]].nlink > 0
                             /\ t.ino[t.ino[d].index[p]].parent = d
                             /\ t.ino[t.ino[d].index[p]].path = p,
               NEW c \in t.ino[d].children
        PROVE  Linked(t, c.ino) /\ t.ino[c.ino].parent = d /\ t.ino[c.ino].path = c.name
    <3>1. PICK p \in DOMAIN t.ino[d].index : c = [ino |-> t.ino[d].index[p], name |-> p]
      OBVIOUS
    <3> QED BY <2>2, <3>1 DEF Linked, Has, Inodes
  <2> QED BY <2>1, <2>2
<1>2. LinkedTell(t) <=> \A i \in Inodes(t) \ {RootIno} :
         (Linked(t, i) => LookupChild(t, t.ino[i].parent, t.ino[i].path) = i /\ GetByPath(t, t.ino[i].path) = i)
  BY DEF TableTyped, LookupChild, GetByPath, Linked, Has, Inodes, None, LinkedTell
<1>3. PathsTell(t) <=> \A p \in DOMAIN t.path : Linked(t, t.path[p]) /\ t.ino[t.path[p]].path = p
  BY DEF Linked, Has, PathsTell
<1> QED BY <1>1, <1>2, <1>3, Zenon DEF TableIsConsistent

\* A Sound table as first-order facts.
LEMMA Facts ==
    ASSUME NEW t, NEW x, SoundBut(t, x)
    PROVE  /\ TableTyped(t) /\ RootStays(t) /\ Below(t) /\ Kinds(t) /\ OrphansOpenBut(t, x)
           /\ ChildrenTell(t) /\ LinkedTell(t) /\ PathsTell(t)
  BY Story DEF SoundBut
LEMMA FromFacts ==
    ASSUME NEW t, NEW x, TableTyped(t), RootStays(t), Below(t), Kinds(t), OrphansOpenBut(t, x),
           ChildrenTell(t), LinkedTell(t), PathsTell(t)
    PROVE  SoundBut(t, x)
  BY Story DEF SoundBut

\* What the index of a directory says of its names, and of one name.
LEMMA IndexTells ==
    ASSUME NEW t, ChildrenTell(t)
    PROVE  \A d \in Inodes(t) : \A p \in DOMAIN t.ino[d].index :
               /\ t.ino[d].index[p] \in Inodes(t) /\ t.ino[t.ino[d].index[p]].nlink > 0
               /\ t.ino[t.ino[d].index[p]].parent = d /\ t.ino[t.ino[d].index[p]].path = p
  BY DEF ChildrenTell
LEMMA ChildIn ==
    ASSUME NEW t, ChildrenTell(t), NEW d \in Inodes(t), NEW p \in DOMAIN t.ino[d].index
    PROVE  /\ [ino |-> t.ino[d].index[p], name |-> p] \in t.ino[d].children
           /\ t.ino[d].index[p] \in Inodes(t) /\ t.ino[t.ino[d].index[p]].nlink > 0
           /\ t.ino[t.ino[d].index[p]].parent = d /\ t.ino[t.ino[d].index[p]].path = p
<1>1. t.ino[d].children = {[ino |-> t.ino[d].index[q], name |-> q] : q \in DOMAIN t.ino[d].index}
  BY DEF ChildrenTell
<1>2. [ino |-> t.ino[d].index[p], name |-> p] \in t.ino[d].children
  BY ONLY <1>1, p \in DOMAIN t.ino[d].index
<1>3. /\ t.ino[d].index[p] \in Inodes(t) /\ t.ino[t.ino[d].index[p]].nlink > 0
      /\ t.ino[t.ino[d].index[p]].parent = d /\ t.ino[t.ino[d].index[p]].path = p
  BY IndexTells
<1> QED BY <1>2, <1>3

-----------------------------------------------------------------------------
(* Operations that leave names alone.                                      *)

NameFields == {"kind", "path", "parent", "nlink", "children", "index"}
ButFor(e, f, F) == DOMAIN f = Fields /\ \A x \in Fields \ F : f[x] = e[x]
Tweaked(t, u, F) ==
    /\ DOMAIN u = {"ino", "path", "next"} /\ u.path = t.path /\ u.next = t.next /\ Inodes(u) = Inodes(t)
    /\ \A i \in Inodes(t) : EntryOK(u.ino[i]) /\ ButFor(t.ino[i], u.ino[i], F)

LEMMA TweakSound ==
    ASSUME NEW t, NEW x, NEW y, SoundBut(t, x), NEW u, NEW F, Tweaked(t, u, F), F \cap NameFields = {},
           OrphansOpenBut(u, y)
    PROVE  SoundBut(u, y)
<1>0. /\ TableTyped(t) /\ RootStays(t) /\ Below(t) /\ Kinds(t)
      /\ ChildrenTell(t) /\ LinkedTell(t) /\ PathsTell(t)
  BY Facts
<1>s. /\ DOMAIN u = {"ino", "path", "next"} /\ u.path = t.path /\ u.next = t.next /\ Inodes(u) = Inodes(t)
      /\ \A i \in Inodes(t) : /\ EntryOK(u.ino[i])
                             /\ u.ino[i].kind = t.ino[i].kind /\ u.ino[i].path = t.ino[i].path
                             /\ u.ino[i].parent = t.ino[i].parent /\ u.ino[i].nlink = t.ino[i].nlink
                             /\ u.ino[i].children = t.ino[i].children /\ u.ino[i].index = t.ino[i].index
  BY DEF Tweaked, ButFor, Fields, NameFields
<1>1. TableTyped(u)
  BY <1>0, <1>s DEF TableTyped
<1>2. RootStays(u)
  BY <1>0, <1>s DEF RootStays, TableTyped
<1>3. Below(u)
  BY <1>0, <1>s DEF Below, TableTyped, Has
<1>4. Kinds(u)
  BY <1>0, <1>s DEF Kinds, TableTyped
<1>5. ChildrenTell(u)
  BY <1>0, <1>s DEF ChildrenTell, TableTyped
<1>6. LinkedTell(u)
  BY <1>0, <1>s DEF LinkedTell, TableTyped
<1>7. PathsTell(u)
  BY <1>0, <1>s DEF PathsTell, TableTyped
<1> QED BY <1>1, <1>2, <1>3, <1>4, <1>5, <1>6, <1>7, FromFacts

\* What an operation may do to the inodes that others know by number: a number
\* is never used again, an open one stays, and what is dirty stays so.
Grows(t, u) ==
    /\ u.next \in Nat /\ t.next <= u.next
    /\ \A i \in Inodes(u) : i < t.next =>
          i \in Inodes(t) /\ u.ino[i].kind = t.ino[i].kind /\ u.ino[i].path = t.ino[i].path
OpenKept(t, u) ==
    /\ \A i \in Inodes(t) : t.ino[i].open > 0 => i \in Inodes(u)
    /\ \A i \in Inodes(u) : u.ino[i].open = IF i \in Inodes(t) THEN t.ino[i].open ELSE 0
DirtyKept(t, u) == \A i \in Inodes(t) : t.ino[i].nlink > 0 /\ t.ino[i].dirty =>
    i \in Inodes(u) /\ u.ino[i].nlink > 0 /\ u.ino[i].dirty
Keeps(t, u) == Grows(t, u) /\ OpenKept(t, u) /\ DirtyKept(t, u)

LEMMA KeepsItself == ASSUME NEW t, NEW x, SoundBut(t, x) PROVE Keeps(t, t)
  BY Facts DEF Keeps, Grows, OpenKept, DirtyKept, TableTyped
LEMMA SoundTyped == ASSUME NEW t, Sound(t) PROVE TableTyped(t) /\ Keeps(t, t)
  BY Facts, KeepsItself DEF Sound
LEMMA GrowsOn ==
    ASSUME NEW t, NEW u, NEW v, TableTyped(t), TableTyped(u), TableTyped(v),
           Grows(t, u), OpenKept(t, u), Grows(u, v), OpenKept(u, v)
    PROVE  Grows(t, v) /\ OpenKept(t, v)
<1>0. /\ Grows(t, u) /\ Grows(u, v) /\ OpenKept(t, u) /\ OpenKept(u, v)
      /\ t.next \in Nat /\ u.next \in Nat /\ v.next \in Nat
      /\ \A i \in Inodes(v) : i \in Nat /\ i < v.next
      /\ \A i \in Inodes(t) : i \in Nat /\ i < t.next /\ t.ino[i].open \in Nat
  BY DEF TableTyped, EntryOK
<1>1. Grows(t, v)
  <2>1. t.next <= v.next
    BY <1>0 DEF Grows
  <2>2. ASSUME NEW i \in Inodes(v), i < t.next
        PROVE  i \in Inodes(t) /\ v.ino[i].kind = t.ino[i].kind /\ v.ino[i].path = t.ino[i].path
    <3>1. i < u.next
      BY <1>0, <2>2 DEF Grows
    <3> QED BY <1>0, <2>2, <3>1 DEF Grows
  <2> QED BY <1>0, <2>1, <2>2 DEF Grows
<1>2. OpenKept(t, v)
  <2>1. ASSUME NEW i \in Inodes(t), t.ino[i].open > 0 PROVE i \in Inodes(v)
    BY <1>0, <2>1 DEF OpenKept
  <2>2. ASSUME NEW i \in Inodes(v), i \in Inodes(t) PROVE v.ino[i].open = t.ino[i].open
    <3>1. CASE i \in Inodes(u)
      BY <1>0, <2>2, <3>1 DEF OpenKept
    <3>2. CASE i \notin Inodes(u)
      BY <1>0, <2>2, <3>2 DEF OpenKept
    <3> QED BY <3>1, <3>2
  <2>3. ASSUME NEW i \in Inodes(v), i \notin Inodes(t) PROVE v.ino[i].open = 0
    BY <1>0, <2>3 DEF OpenKept
  <2> QED BY <2>1, <2>2, <2>3 DEF OpenKept
<1> QED BY <1>1, <1>2
LEMMA KeepsOn ==
    ASSUME NEW t, NEW u, NEW v, TableTyped(t), TableTyped(u), TableTyped(v), Keeps(t, u), Keeps(u, v)
    PROVE  Keeps(t, v)
<1>1. Grows(t, v) /\ OpenKept(t, v)
  BY GrowsOn DEF Keeps
<1>2. DirtyKept(t, v)
  BY DEF Keeps, DirtyKept
<1> QED BY <1>1, <1>2 DEF Keeps

LEMMA TweakKeeps ==
    ASSUME NEW t, Sound(t), NEW u, NEW F, Tweaked(t, u, F), F \cap (NameFields \cup {"open", "dirty"}) = {}
    PROVE  Sound(u) /\ Keeps(t, u)
<1>0. TableTyped(t) /\ OrphansOpenBut(t, None)
  BY Facts DEF Sound
<1>1. /\ u.next = t.next /\ Inodes(u) = Inodes(t)
      /\ \A i \in Inodes(t) : /\ u.ino[i].kind = t.ino[i].kind /\ u.ino[i].path = t.ino[i].path
                             /\ u.ino[i].nlink = t.ino[i].nlink /\ u.ino[i].open = t.ino[i].open
                             /\ u.ino[i].dirty = t.ino[i].dirty
  BY DEF Tweaked, ButFor, Fields, NameFields
<1>2. OrphansOpenBut(u, None)
  BY <1>0, <1>1 DEF OrphansOpenBut
<1>3. Sound(u)
  BY <1>2, TweakSound DEF Sound
<1>4. Keeps(t, u)
  BY <1>0, <1>1 DEF Keeps, Grows, OpenKept, DirtyKept, TableTyped
<1> QED BY <1>3, <1>4

\* One field of one inode.
LEMMA TweakOne ==
    ASSUME NEW t, TableTyped(t), NEW i \in Inodes(t), NEW f \in Fields, NEW v, NEW u,
           u = [t EXCEPT !.ino[i][f] = v], EntryOK([t.ino[i] EXCEPT ![f] = v])
    PROVE  /\ Tweaked(t, u, {f})
           /\ u.ino[i][f] = v
           /\ \A j \in Inodes(t) \ {i} : u.ino[j] = t.ino[j]
<1>1. /\ DOMAIN u = {"ino", "path", "next"} /\ u.path = t.path /\ u.next = t.next /\ Inodes(u) = Inodes(t)
      /\ u.ino[i] = [t.ino[i] EXCEPT ![f] = v]
      /\ \A j \in Inodes(t) \ {i} : u.ino[j] = t.ino[j]
  BY DEF TableTyped, Inodes
<1>2. \A j \in Inodes(t) : EntryOK(t.ino[j])
  BY DEF TableTyped
<1>3. ButFor(t.ino[i], u.ino[i], {f}) /\ u.ino[i][f] = v
  BY <1>1, <1>2 DEF EntryOK, ButFor
<1>4. \A j \in Inodes(t) \ {i} : EntryOK(u.ino[j]) /\ ButFor(t.ino[j], u.ino[j], {f})
  BY <1>1, <1>2 DEF EntryOK, ButFor
<1> QED BY <1>1, <1>3, <1>4 DEF Tweaked

\* What the Hub says of a file changes its hash alone.
LEMMA HashFits == ASSUME NEW e, EntryOK(e), NEW v \in 0..MaxRev PROVE EntryOK([e EXCEPT !.hash = v])
<1> DEFINE f == [e EXCEPT !.hash = v]
<1>1. ButFor(e, f, {"hash"}) /\ f.hash = v
  BY DEF ButFor, EntryOK, Fields
<1> HIDE DEF f
<1>2. EntryOK(f)
  BY <1>1 DEF ButFor, EntryOK, Fields
<1> QED BY <1>2 DEF f
LEMMA UpdateKeeps ==
    ASSUME NEW t, Sound(t), NEW i, NEW hash \in 0..MaxRev
    PROVE  LET u == UpdateRemoteFile(t, i, hash)
           IN  Sound(u) /\ Keeps(t, u) /\ Tweaked(t, u, {"hash"})
<1> DEFINE u == UpdateRemoteFile(t, i, hash)
<1>0. TableTyped(t)
  BY Facts DEF Sound
<1>1. CASE ~(Has(t, i) /\ ~t.ino[i].dirty)
  <2>1. u = t
    BY <1>1 DEF UpdateRemoteFile
  <2> HIDE DEF u
  <2>2. Tweaked(t, u, {"hash"})
    BY <1>0, <2>1 DEF Tweaked, TableTyped, EntryOK, ButFor
  <2> QED BY <2>1, <2>2, KeepsItself DEF u, Sound
<1>2. CASE Has(t, i) /\ ~t.ino[i].dirty
  <2>1. u = [t EXCEPT !.ino[i].hash = hash]
    BY <1>2 DEF UpdateRemoteFile
  <2>2. i \in Inodes(t) /\ EntryOK([t.ino[i] EXCEPT !.hash = hash])
    BY <1>0, <1>2, HashFits DEF Has, TableTyped
  <2> HIDE DEF u
  <2>3. Tweaked(t, u, {"hash"})
    BY SMTT(30), <1>0, <2>1, <2>2, TweakOne, "hash" \in Fields DEF Fields
  <2>4. {"hash"} \cap (NameFields \cup {"open", "dirty"}) = {}
    BY DEF NameFields
  <2> QED BY <2>3, <2>4, TweakKeeps DEF u
<1> QED BY <1>1, <1>2

LEMMA InvalidateKeeps ==
    ASSUME NEW t, Sound(t), NEW S
    PROVE  Sound(InvalidateChildren(t, S)) /\ Keeps(t, InvalidateChildren(t, S))
           /\ Inodes(InvalidateChildren(t, S)) = Inodes(t) /\ InvalidateChildren(t, S).next = t.next
<1> DEFINE u == InvalidateChildren(t, S)
<1>0. TableTyped(t)
  BY Facts DEF Sound
<1>1. /\ DOMAIN u = {"ino", "path", "next"} /\ u.path = t.path /\ u.next = t.next /\ Inodes(u) = Inodes(t)
      /\ \A j \in Inodes(t) : u.ino[j] = IF j \in S THEN [t.ino[j] EXCEPT !.loaded = FALSE] ELSE t.ino[j]
  BY <1>0 DEF TableTyped, Inodes, InvalidateChildren
<1> HIDE DEF u
<1>2. ASSUME NEW j \in Inodes(t) PROVE EntryOK(u.ino[j]) /\ ButFor(t.ino[j], u.ino[j], {"loaded"})
  <2>1. EntryOK(t.ino[j])
    BY <1>0 DEF TableTyped
  <2>2. ButFor(t.ino[j], u.ino[j], {"loaded"})
    BY <1>1, <2>1 DEF EntryOK, ButFor, Fields
  <2> QED BY <2>1, <2>2 DEF EntryOK, ButFor, Fields
<1>3. Tweaked(t, u, {"loaded"}) /\ {"loaded"} \cap (NameFields \cup {"open", "dirty"}) = {}
  BY <1>1, <1>2 DEF Tweaked, NameFields
<1>4. Sound(u) /\ Keeps(t, u)
  BY <1>3, TweakKeeps
<1> QED BY <1>1, <1>4 DEF u

-----------------------------------------------------------------------------
(* Operations on names.                                                    *)

\* A path that is mapped has one inode, which its directory lists.
LEMMA OneInodePerPath ==
    ASSUME NEW t, NEW x, SoundBut(t, x), NEW i \in Inodes(t) \ {RootIno}, NEW j \in Inodes(t) \ {RootIno},
           t.ino[i].nlink > 0, t.ino[j].nlink > 0, t.ino[i].path = t.ino[j].path
    PROVE  i = j
  BY Facts DEF LinkedTell

\* A directory without a child called p: no inode has the path p.
LEMMA NoChildNoPath ==
    ASSUME NEW t, NEW x, SoundBut(t, x), NEW d, IsDir(t, d), NEW p \in Path, Up[p] = t.ino[d].path,
           LookupChild(t, d, p) = None
    PROVE  p \notin DOMAIN t.path
<1>0. /\ TableTyped(t) /\ RootStays(t) /\ Below(t) /\ Kinds(t)
      /\ ChildrenTell(t) /\ LinkedTell(t) /\ PathsTell(t)
  BY Facts
<1>1. SUFFICES ASSUME p \in DOMAIN t.path PROVE FALSE
  OBVIOUS
<1> DEFINE i == t.path[p]
           up == t.ino[i].parent
<1>2. i \in Inodes(t) /\ t.ino[i].nlink > 0 /\ t.ino[i].path = p /\ i # RootIno
  BY <1>0, <1>1, PathAssumption DEF PathsTell, RootStays
<1>3. up \in Inodes(t) /\ p \in DOMAIN t.ino[up].index /\ t.ino[up].index[p] = i /\ t.ino[up].path = Up[p]
  BY <1>0, <1>2 DEF LinkedTell, Below, Has
<1>4. t.ino[up].kind = "dir" /\ d \in Inodes(t) /\ t.ino[d].kind = "dir"
  <2>1. [ino |-> t.ino[up].index[p], name |-> p] \in t.ino[up].children
    BY <1>0, <1>3, ChildIn
  <2> QED BY <1>0, <1>3, <2>1 DEF Kinds, TableTyped, EntryOK, IsDir, Has
<1>5. up = d
  <2>1. t.ino[up].nlink = 1 /\ t.ino[d].nlink = 1
    BY <1>0, <1>3, <1>4 DEF Kinds
  <2>2. CASE up = RootIno \/ d = RootIno
    BY <1>0, <1>3, <1>4, <2>2, PathAssumption DEF RootStays, Below
  <2>3. CASE up # RootIno /\ d # RootIno
    BY <1>3, <1>4, <2>1, <2>3, OneInodePerPath
  <2> QED BY <2>2, <2>3
<1>6. LookupChild(t, d, p) = i
  BY <1>2, <1>3, <1>5 DEF LookupChild, Has
<1> QED BY <1>0, <1>2, <1>6 DEF TableTyped, None

Inserted(t, d, p, kind, hash, u) ==
    /\ DOMAIN u = {"ino", "path", "next"} /\ u.next = t.next + 1
    /\ Inodes(u) = Inodes(t) \cup {t.next}
    /\ u.ino[t.next] = NewEntry(kind, p, d, hash)
    /\ u.ino[d] = AddChild(t.ino[d], t.next, p)
    /\ \A i \in Inodes(t) \ {d} : u.ino[i] = t.ino[i]
    /\ DOMAIN u.path = DOMAIN t.path \cup {p} /\ u.path[p] = t.next
    /\ \A q \in DOMAIN t.path : u.path[q] = t.path[q]

LEMMA InsertIs ==
    ASSUME NEW t, TableTyped(t), NEW d \in Inodes(t), NEW p, p \notin DOMAIN t.path, NEW kind, NEW hash
    PROVE  Inserted(t, d, p, kind, hash, Insert(t, d, p, kind, hash))
<1> DEFINE e == NewEntry(kind, p, d, hash)
           f == AddChild(t.ino[d], t.next, p)
           new == [t EXCEPT !.ino = With(@, t.next, e), !.path = With(@, p, t.next), !.next = @ + 1]
<1>1. Insert(t, d, p, kind, hash) = [new EXCEPT !.ino[d] = f]
  BY DEF Insert, Has, Change
<1> HIDE DEF e, f
<1>2. /\ DOMAIN new = {"ino", "path", "next"} /\ new.next = t.next + 1
      /\ DOMAIN new.ino = Inodes(t) \cup {t.next} /\ new.ino[t.next] = e
      /\ \A i \in Inodes(t) : new.ino[i] = t.ino[i]
      /\ DOMAIN new.path = DOMAIN t.path \cup {p} /\ new.path[p] = t.next
      /\ \A q \in DOMAIN t.path : new.path[q] = t.path[q]
  <2>1. t.next \notin Inodes(t) /\ t.next \in Nat /\ DOMAIN t = {"ino", "path", "next"}
    BY DEF TableTyped
  <2> QED BY <2>1 DEF Inodes, With
<1> HIDE DEF new
<1>3. d # t.next
  BY DEF TableTyped
<1> QED BY <1>1, <1>2, <1>3 DEF Inserted, Inodes, e, f

LEMMA InsertKeeps ==
    ASSUME NEW t, Sound(t), NEW d, IsDir(t, d), NEW p \in Path, Up[p] = t.ino[d].path,
           NEW kind \in {"file", "dir"}, NEW hash \in 0..MaxRev
    PROVE  /\ Sound(Insert(t, d, p, kind, hash)) /\ Keeps(t, Insert(t, d, p, kind, hash))
           /\ Inodes(t) \subseteq Inodes(Insert(t, d, p, kind, hash))
           /\ InsertedIno(t, p) \in Inodes(Insert(t, d, p, kind, hash))
           /\ Insert(t, d, p, kind, hash).next = IF p \in DOMAIN t.path THEN t.next ELSE t.next + 1
           /\ p \notin DOMAIN t.path => Inserted(t, d, p, kind, hash, Insert(t, d, p, kind, hash))
<1> DEFINE u == Insert(t, d, p, kind, hash)
           n == t.next
<1>0. /\ TableTyped(t) /\ RootStays(t) /\ Below(t) /\ Kinds(t) /\ OrphansOpenBut(t, None)
      /\ ChildrenTell(t) /\ LinkedTell(t) /\ PathsTell(t)
  BY Facts DEF Sound
<1>1. CASE p \in DOMAIN t.path
  BY <1>0, <1>1, KeepsItself DEF Insert, Sound, InsertedIno, PathsTell
<1>2. CASE p \notin DOMAIN t.path
  <2>1. Inserted(t, d, p, kind, hash, u) /\ d \in Inodes(t) /\ t.ino[d].kind = "dir"
    BY <1>0, <1>2, InsertIs DEF IsDir, Has
  <2> HIDE DEF u
  <2>2. n \in Nat \ {0} /\ n \notin Inodes(t) /\ d # n /\ d < n /\ n # RootIno /\ d \in Nat \ {0}
        /\ \A i \in Inodes(t) : i \in Nat \ {0} /\ i < n
    BY <1>0, <2>1, RootIno \in Nat \ {0} DEF TableTyped, RootIno
  \* The new inode, its directory and the others.
  <2>3. /\ EntryOK(u.ino[n]) /\ u.ino[n].kind = kind /\ u.ino[n].path = p /\ u.ino[n].parent = d
        /\ u.ino[n].nlink = 1 /\ u.ino[n].children = {} /\ DOMAIN u.ino[n].index = {}
        /\ u.ino[n].open = 0 /\ u.ino[n].dirty = FALSE
    BY <2>1, <2>2 DEF Inserted, NewEntry, EntryOK, Fields
  <2>4. /\ EntryOK(u.ino[d]) /\ ButFor(t.ino[d], u.ino[d], {"children", "index"})
        /\ u.ino[d].children = t.ino[d].children \cup {[ino |-> n, name |-> p]}
        /\ DOMAIN u.ino[d].index = DOMAIN t.ino[d].index \cup {p} /\ u.ino[d].index[p] = n
        /\ \A q \in DOMAIN t.ino[d].index : q # p => u.ino[d].index[q] = t.ino[d].index[q]
    <3>1. EntryOK(t.ino[d]) /\ u.ino[d] = AddChild(t.ino[d], n, p)
      BY <1>0, <2>1 DEF TableTyped, Inserted
    <3>2. /\ ButFor(t.ino[d], u.ino[d], {"children", "index"})
          /\ u.ino[d].children = t.ino[d].children \cup {[ino |-> n, name |-> p]}
          /\ u.ino[d].index = With(t.ino[d].index, p, n)
      BY <3>1 DEF AddChild, EntryOK, ButFor, Fields
    <3>3. /\ DOMAIN u.ino[d].index = DOMAIN t.ino[d].index \cup {p} /\ u.ino[d].index[p] = n
          /\ \A q \in DOMAIN t.ino[d].index : q # p => u.ino[d].index[q] = t.ino[d].index[q]
      BY <3>2 DEF With
    <3>4. EntryOK(u.ino[d])
      BY <2>2, <3>1, <3>2, <3>3 DEF EntryOK, ButFor, Fields
    <3> QED BY <3>2, <3>3, <3>4
  <2>5. \A i \in Inodes(t) : /\ EntryOK(u.ino[i])
                             /\ u.ino[i].kind = t.ino[i].kind /\ u.ino[i].path = t.ino[i].path
                             /\ u.ino[i].parent = t.ino[i].parent /\ u.ino[i].nlink = t.ino[i].nlink
                             /\ u.ino[i].open = t.ino[i].open /\ u.ino[i].dirty = t.ino[i].dirty
                             /\ i # d => u.ino[i] = t.ino[i]
    BY <1>0, <2>1, <2>4 DEF TableTyped, Inserted, ButFor, Fields
  <2>6. /\ DOMAIN u = {"ino", "path", "next"} /\ u.next = n + 1 /\ Inodes(u) = Inodes(t) \cup {n}
        /\ DOMAIN u.path = DOMAIN t.path \cup {p} /\ u.path[p] = n
        /\ \A q \in DOMAIN t.path : u.path[q] = t.path[q]
    BY <2>1 DEF Inserted
  <2>7. p \notin DOMAIN t.ino[d].index
    <3>1. SUFFICES ASSUME p \in DOMAIN t.ino[d].index PROVE FALSE
      OBVIOUS
    <3> DEFINE i == t.ino[d].index[p]
    <3>2. i \in Inodes(t) /\ t.ino[i].nlink > 0 /\ t.ino[i].path = p
      BY <1>0, <2>1, <3>1 DEF ChildrenTell
    <3>3. i # RootIno
      BY <1>0, <3>2, PathAssumption DEF RootStays
    <3> HIDE DEF i
    <3> QED BY <1>0, <1>2, <3>2, <3>3 DEF LinkedTell
  <2>8. TableTyped(u)
    BY <1>0, <2>2, <2>3, <2>5, <2>6 DEF TableTyped
  <2>9. RootStays(u) /\ Kinds(u) /\ OrphansOpenBut(u, None)
    <3>1. RootStays(u)
      BY <1>0, <2>5 DEF RootStays, TableTyped
    <3>2. Kinds(u)
      BY <1>0, <2>1, <2>3, <2>5, <2>6 DEF Kinds
    <3>3. OrphansOpenBut(u, None)
      BY <1>0, <2>3, <2>5, <2>6 DEF OrphansOpenBut
    <3> QED BY <3>1, <3>2, <3>3
  <2>10. Below(u)
    BY SMTT(30), <1>0, <2>1, <2>2, <2>3, <2>5, <2>6 DEF Below, Has
  <2>11. ChildrenTell(u)
    <3>1. ASSUME NEW i \in Inodes(u)
          PROVE  /\ u.ino[i].children = {[ino |-> u.ino[i].index[q], name |-> q] : q \in DOMAIN u.ino[i].index}
                 /\ \A q \in DOMAIN u.ino[i].index :
                       /\ u.ino[i].index[q] \in Inodes(u)
                       /\ u.ino[u.ino[i].index[q]].nlink > 0
                       /\ u.ino[u.ino[i].index[q]].parent = i
                       /\ u.ino[u.ino[i].index[q]].path = q
      <4>1. CASE i = n
        BY <2>3, <4>1
      <4>2. CASE i \in Inodes(t) /\ i # d
        BY SMTT(30), <1>0, <2>5, <2>6, <4>2 DEF ChildrenTell
      <4>3. CASE i = d
        <5>1. u.ino[d].children = {[ino |-> u.ino[d].index[q], name |-> q] : q \in DOMAIN u.ino[d].index}
          <6>1. {[ino |-> u.ino[d].index[q], name |-> q] : q \in DOMAIN u.ino[d].index}
                 = {[ino |-> t.ino[d].index[q], name |-> q] : q \in DOMAIN t.ino[d].index} \cup {[ino |-> n, name |-> p]}
            BY <2>4, <2>7
          <6> QED BY <1>0, <2>1, <2>4, <6>1 DEF ChildrenTell
        <5>2. ASSUME NEW q \in DOMAIN u.ino[d].index
              PROVE  /\ u.ino[d].index[q] \in Inodes(u)
                     /\ u.ino[u.ino[d].index[q]].nlink > 0
                     /\ u.ino[u.ino[d].index[q]].parent = d
                     /\ u.ino[u.ino[d].index[q]].path = q
          <6>1. CASE q = p
            BY <2>3, <2>4, <2>6, <6>1
          <6>2. CASE q # p
            BY <1>0, <2>1, <2>4, <2>5, <2>6, <5>2, <6>2 DEF ChildrenTell
          <6> QED BY <6>1, <6>2
        <5> QED BY <4>3, <5>1, <5>2
      <4> QED BY <2>6, <4>1, <4>2, <4>3
    <3> QED BY <3>1 DEF ChildrenTell
  <2>12. LinkedTell(u)
    <3>1. ASSUME NEW i \in Inodes(u) \ {RootIno}, u.ino[i].nlink > 0
          PROVE  /\ u.ino[i].parent \in Inodes(u)
                 /\ u.ino[i].path \in DOMAIN u.ino[u.ino[i].parent].index
                 /\ u.ino[u.ino[i].parent].index[u.ino[i].path] = i
                 /\ u.ino[i].path \in DOMAIN u.path /\ u.path[u.ino[i].path] = i
      <4>1. CASE i = n
        BY <2>1, <2>3, <2>4, <2>6, <4>1
      <4>2. CASE i \in Inodes(t)
        <5>1. /\ t.ino[i].parent \in Inodes(t) /\ t.ino[i].path \in DOMAIN t.ino[t.ino[i].parent].index
              /\ t.ino[t.ino[i].parent].index[t.ino[i].path] = i
              /\ t.ino[i].path \in DOMAIN t.path /\ t.path[t.ino[i].path] = i
          BY <1>0, <2>5, <3>1, <4>2 DEF LinkedTell
        <5>2. u.ino[i].path = t.ino[i].path /\ u.ino[i].parent = t.ino[i].parent /\ t.ino[i].path # p
          BY <1>2, <2>5, <4>2, <5>1
        <5> QED BY <2>4, <2>5, <2>6, <5>1, <5>2
      <4> QED BY <2>6, <4>1, <4>2
    <3> QED BY <3>1 DEF LinkedTell
  <2>13. PathsTell(u)
    BY <1>0, <1>2, <2>2, <2>3, <2>5, <2>6 DEF PathsTell
  <2>14. Sound(u)
    BY <2>8, <2>9, <2>10, <2>11, <2>12, <2>13, FromFacts DEF Sound
  <2>15. Keeps(t, u)
    <3>1. Grows(t, u)
      BY <1>0, <2>2, <2>5, <2>6 DEF Grows
    <3>2. OpenKept(t, u)
      BY <2>2, <2>3, <2>5, <2>6 DEF OpenKept
    <3>3. DirtyKept(t, u)
      BY <2>5, <2>6 DEF DirtyKept
    <3> QED BY <3>1, <3>2, <3>3 DEF Keeps
  <2> QED BY <1>2, <2>1, <2>6, <2>14, <2>15 DEF u, InsertedIno
<1> QED BY <1>1, <1>2

\* u is t without the inodes of G, the names that point to them included.
Cut(t, u, G) ==
    /\ DOMAIN u = {"ino", "path", "next"} /\ u.next = t.next /\ Inodes(u) = Inodes(t) \ G
    /\ \A i \in Inodes(u) :
          /\ ButFor(t.ino[i], u.ino[i], {"children", "index", "loaded"})
          /\ u.ino[i].children = {c \in t.ino[i].children : c.ino \notin G}
          /\ DOMAIN u.ino[i].index = {q \in DOMAIN t.ino[i].index : t.ino[i].index[q] \notin G}
          /\ \A q \in DOMAIN u.ino[i].index : u.ino[i].index[q] = t.ino[i].index[q]
    /\ DOMAIN u.path = {q \in DOMAIN t.path : t.path[q] \notin G}
    /\ \A q \in DOMAIN u.path : u.path[q] = t.path[q]

LEMMA CutKeeps ==
    ASSUME NEW t, NEW x, SoundBut(t, x), NEW G, RootIno \notin G, NEW u, Cut(t, u, G),
           \A j \in Inodes(t) \ {RootIno} : t.ino[j].nlink > 0 /\ t.ino[j].parent \in G => j \in G,
           x \in Inodes(t) => x \in G
    PROVE  /\ Sound(u) /\ Grows(t, u)
           /\ (\A j \in G \cap Inodes(t) : t.ino[j].open = 0) => OpenKept(t, u)
           /\ (\A j \in G \cap Inodes(t) : t.ino[j].nlink > 0 => ~t.ino[j].dirty) => DirtyKept(t, u)
<1>0. /\ TableTyped(t) /\ RootStays(t) /\ Below(t) /\ Kinds(t) /\ OrphansOpenBut(t, x)
      /\ ChildrenTell(t) /\ LinkedTell(t) /\ PathsTell(t)
  BY Facts
<1>1. ASSUME NEW i \in Inodes(u)
      PROVE  /\ i \in Inodes(t) /\ i \notin G
             /\ u.ino[i].kind = t.ino[i].kind /\ u.ino[i].path = t.ino[i].path
             /\ u.ino[i].parent = t.ino[i].parent /\ u.ino[i].nlink = t.ino[i].nlink
             /\ u.ino[i].open = t.ino[i].open /\ u.ino[i].dirty = t.ino[i].dirty
  BY DEF Cut, ButFor, Fields
<1>2. ASSUME NEW i \in Inodes(u) PROVE EntryOK(u.ino[i])
  <2>1. EntryOK(t.ino[i])
    BY <1>0, <1>1 DEF TableTyped
  <2>2. DOMAIN u.ino[i].index \subseteq Path /\ \A q \in DOMAIN u.ino[i].index : u.ino[i].index[q] \in Nat
    BY <2>1 DEF Cut, EntryOK
  <2> QED BY <2>1, <2>2 DEF Cut, EntryOK, ButFor, Fields
<1>3. /\ DOMAIN u = {"ino", "path", "next"} /\ u.next = t.next /\ Inodes(u) = Inodes(t) \ G
      /\ DOMAIN u.path = {q \in DOMAIN t.path : t.path[q] \notin G}
      /\ \A q \in DOMAIN u.path : u.path[q] = t.path[q]
  BY DEF Cut
<1>4. TableTyped(u)
  BY <1>0, <1>2, <1>3 DEF TableTyped
<1>5. RootStays(u)
  BY <1>0, <1>1, <1>3 DEF RootStays, TableTyped
<1>6. Below(u)
  BY <1>0, <1>1 DEF Below, Has
<1>7. Kinds(u)
  <2>1. \A i \in Inodes(u) : u.ino[i].children \subseteq t.ino[i].children
    BY DEF Cut
  <2> QED BY <1>0, <1>1, <2>1 DEF Kinds
<1>8. OrphansOpenBut(u, None)
  BY <1>0, <1>1 DEF OrphansOpenBut
<1>9. ChildrenTell(u)
  <2>1. ASSUME NEW i \in Inodes(u)
        PROVE  /\ u.ino[i].children = {[ino |-> u.ino[i].index[q], name |-> q] : q \in DOMAIN u.ino[i].index}
               /\ \A q \in DOMAIN u.ino[i].index :
                     /\ u.ino[i].index[q] \in Inodes(u)
                     /\ u.ino[u.ino[i].index[q]].nlink > 0
                     /\ u.ino[u.ino[i].index[q]].parent = i
                     /\ u.ino[u.ino[i].index[q]].path = q
    <3>1. /\ u.ino[i].children = {c \in t.ino[i].children : c.ino \notin G}
          /\ DOMAIN u.ino[i].index = {q \in DOMAIN t.ino[i].index : t.ino[i].index[q] \notin G}
          /\ \A q \in DOMAIN u.ino[i].index : u.ino[i].index[q] = t.ino[i].index[q]
      BY DEF Cut
    <3>2. /\ t.ino[i].children = {[ino |-> t.ino[i].index[q], name |-> q] : q \in DOMAIN t.ino[i].index}
          /\ \A q \in DOMAIN t.ino[i].index :
                     /\ t.ino[i].index[q] \in Inodes(t)
                     /\ t.ino[t.ino[i].index[q]].nlink > 0
                     /\ t.ino[t.ino[i].index[q]].parent = i
                     /\ t.ino[t.ino[i].index[q]].path = q
      BY <1>0, <1>1 DEF ChildrenTell
    <3>3. u.ino[i].children = {[ino |-> u.ino[i].index[q], name |-> q] : q \in DOMAIN u.ino[i].index}
      BY <3>1, <3>2
    <3>4. ASSUME NEW q \in DOMAIN u.ino[i].index
          PROVE  /\ u.ino[i].index[q] \in Inodes(u)
                 /\ u.ino[u.ino[i].index[q]].nlink > 0
                 /\ u.ino[u.ino[i].index[q]].parent = i
                 /\ u.ino[u.ino[i].index[q]].path = q
      BY <1>1, <1>3, <3>1, <3>2
    <3> QED BY <3>3, <3>4
  <2> QED BY <2>1 DEF ChildrenTell
<1>10. LinkedTell(u)
  <2>1. ASSUME NEW i \in Inodes(u) \ {RootIno}, u.ino[i].nlink > 0
        PROVE  /\ u.ino[i].parent \in Inodes(u)
               /\ u.ino[i].path \in DOMAIN u.ino[u.ino[i].parent].index
               /\ u.ino[u.ino[i].parent].index[u.ino[i].path] = i
               /\ u.ino[i].path \in DOMAIN u.path /\ u.path[u.ino[i].path] = i
    <3>1. /\ t.ino[i].parent \in Inodes(t) /\ t.ino[i].path \in DOMAIN t.ino[t.ino[i].parent].index
          /\ t.ino[t.ino[i].parent].index[t.ino[i].path] = i
          /\ t.ino[i].path \in DOMAIN t.path /\ t.path[t.ino[i].path] = i
          /\ i \notin G /\ t.ino[i].parent \notin G
      BY <1>0, <1>1, <2>1 DEF LinkedTell
    <3>2. /\ t.ino[i].parent \in Inodes(u)
          /\ t.ino[i].path \in DOMAIN u.ino[t.ino[i].parent].index
          /\ u.ino[t.ino[i].parent].index[t.ino[i].path] = i
      BY <3>1 DEF Cut
    <3>3. t.ino[i].path \in DOMAIN u.path /\ u.path[t.ino[i].path] = i
      BY <1>3, <3>1
    <3> QED BY <1>1, <2>1, <3>2, <3>3
  <2> QED BY <2>1 DEF LinkedTell
<1>11. PathsTell(u)
  BY <1>0, <1>1, <1>3 DEF PathsTell
<1>12. Sound(u)
  BY <1>4, <1>5, <1>6, <1>7, <1>8, <1>9, <1>10, <1>11, FromFacts DEF Sound
<1>13. Grows(t, u)
  BY <1>0, <1>1, <1>3 DEF Grows, TableTyped
<1>14. (\A j \in G \cap Inodes(t) : t.ino[j].open = 0) => OpenKept(t, u)
  BY <1>1, <1>3 DEF OpenKept
<1>15. (\A j \in G \cap Inodes(t) : t.ino[j].nlink > 0 => ~t.ino[j].dirty) => DirtyKept(t, u)
  BY <1>1, <1>3 DEF DirtyKept
<1> QED BY <1>12, <1>13, <1>14, <1>15

-----------------------------------------------------------------------------
(* What lies below an inode.                                               *)

\* A child of a member is a member; a member but i itself is a linked child of
\* a member; i is the oldest; a file has nothing below it.
LEMMA SubtreeIs ==
    ASSUME NEW t, NEW x, SoundBut(t, x), NEW i \in Inodes(t)
    PROVE  LET G == Subtree(t, i)
           IN  /\ i \in G /\ G \subseteq Inodes(t)
               /\ \A j \in Inodes(t) \ {RootIno} : t.ino[j].nlink > 0 /\ t.ino[j].parent \in G => j \in G
               /\ \A j \in G : j = i \/ (t.ino[j].nlink > 0 /\ t.ino[j].parent \in G)
               /\ \A j \in G : j >= i
               /\ t.ino[i].kind = "file" => G = {i}
<1> DEFINE G == Subtree(t, i)
<1>0. /\ TableTyped(t) /\ RootStays(t) /\ Below(t) /\ Kinds(t)
      /\ ChildrenTell(t) /\ LinkedTell(t) /\ PathsTell(t)
  BY Facts
<1>1. i \in G /\ G \subseteq Inodes(t)
  BY DEF Subtree
<1>2. ASSUME NEW S \in SUBSET Inodes(t), i \in S, Closed(t, S) PROVE G \subseteq S
  BY <1>2 DEF Subtree
<1>3. Closed(t, G)
  <2>1. SUFFICES ASSUME NEW j \in G, NEW c \in t.ino[j].children, c.ino \in Inodes(t),
                        NEW S \in SUBSET Inodes(t), i \in S, Closed(t, S)
                 PROVE  c.ino \in S
    BY Zenon DEF Subtree, Closed
  <2>2. j \in S
    BY <1>2, <2>1
  <2> QED BY <2>1, <2>2 DEF Closed
<1> HIDE DEF G
\* What a child of j is.
<1>4. ASSUME NEW j \in Inodes(t), NEW c \in t.ino[j].children
      PROVE  c.ino \in Inodes(t) /\ t.ino[c.ino].nlink > 0 /\ t.ino[c.ino].parent = j
             /\ c.ino # RootIno /\ c.ino > j
  <2>1. PICK q \in DOMAIN t.ino[j].index : c = [ino |-> t.ino[j].index[q], name |-> q]
    BY <1>0 DEF ChildrenTell
  <2>2. c.ino \in Inodes(t) /\ t.ino[c.ino].nlink > 0 /\ t.ino[c.ino].parent = j /\ t.ino[c.ino].path = q /\ q \in Path
    BY <1>0, <2>1 DEF ChildrenTell, TableTyped, EntryOK
  <2>3. c.ino # RootIno
    BY <1>0, <2>2, PathAssumption DEF RootStays
  <2> QED BY <1>0, <2>2, <2>3 DEF Below, TableTyped
<1>5. ASSUME NEW j \in Inodes(t) \ {RootIno}, t.ino[j].nlink > 0, t.ino[j].parent \in G PROVE j \in G
  <2>1. t.ino[j].parent \in Inodes(t) /\ [ino |-> j, name |-> t.ino[j].path] \in t.ino[t.ino[j].parent].children
    BY <1>0, <1>5 DEF LinkedTell, ChildrenTell
  <2> QED BY <1>3, <1>5, <2>1 DEF Closed
<1>6. \A j \in G : j = i \/ (t.ino[j].nlink > 0 /\ t.ino[j].parent \in G)
  <2> DEFINE S == {j \in G : j = i \/ (t.ino[j].nlink > 0 /\ t.ino[j].parent \in G)}
  <2>1. i \in S /\ S \in SUBSET Inodes(t)
    BY <1>1
  <2>2. Closed(t, S)
    BY <1>1, <1>3, <1>4 DEF Closed
  <2> QED BY <1>2, <2>1, <2>2
<1>7. \A j \in G : j >= i
  <2> DEFINE S == {j \in G : j >= i}
  <2>0. \A j \in Inodes(t) : j \in Nat
    BY <1>0 DEF TableTyped
  <2>1. i \in S /\ S \in SUBSET Inodes(t)
    BY <1>1, <2>0
  <2>2. Closed(t, S)
    BY <1>1, <1>3, <1>4, <2>0 DEF Closed
  <2> QED BY <1>2, <2>1, <2>2
<1>8. t.ino[i].kind = "file" => G = {i}
  <2>1. t.ino[i].kind = "file" => Closed(t, {i})
    BY <1>0 DEF Kinds, Closed
  <2> QED BY <1>1, <1>2, <2>1
<1> QED BY <1>1, <1>5, <1>6, <1>7, <1>8 DEF G

-----------------------------------------------------------------------------
(* Operations that remove inodes.                                          *)

\* A child entry and a name stand for each other.
LEMMA ChildIs ==
    ASSUME NEW t, ChildrenTell(t), NEW d \in Inodes(t), NEW c
    PROVE  c \in t.ino[d].children <=>
           /\ c.name \in DOMAIN t.ino[d].index /\ c = [ino |-> t.ino[d].index[c.name], name |-> c.name]
  BY DEF ChildrenTell

LEMMA RemoveInodeCuts ==
    ASSUME NEW t, NEW x, SoundBut(t, x), NEW i \in Inodes(t) \ {RootIno}, t.ino[i].nlink > 0
    PROVE  Cut(t, RemoveInode(t, i), Subtree(t, i)) /\ RootIno \notin Subtree(t, i)
<1> DEFINE G == Subtree(t, i)
           up == t.ino[i].parent
           e == RemoveChildByIno(t.ino[up], i)
           u == RemoveInode(t, i)
<1>0. /\ TableTyped(t) /\ RootStays(t) /\ Below(t) /\ Kinds(t)
      /\ ChildrenTell(t) /\ LinkedTell(t) /\ PathsTell(t)
  BY Facts
<1>1. /\ i \in G /\ G \subseteq Inodes(t)
      /\ \A j \in G : j = i \/ (t.ino[j].nlink > 0 /\ t.ino[j].parent \in G)
      /\ \A j \in G : j >= i
  BY SubtreeIs
<1>2. up \in Inodes(t) /\ up < i /\ up \notin G /\ RootIno \notin G
      /\ t.ino[i].path \in DOMAIN t.ino[up].index /\ t.ino[up].index[t.ino[i].path] = i
  <2>1. up \in Inodes(t) /\ up < i /\ up \in Nat /\ i \in Nat /\ i >= 1
        /\ t.ino[i].path \in DOMAIN t.ino[up].index /\ t.ino[up].index[t.ino[i].path] = i
    BY <1>0 DEF LinkedTell, Below, TableTyped
  <2> QED BY <1>1, <2>1 DEF RootIno
<1>3. u = [Change(t, up, e) EXCEPT !.ino = Without(@, G), !.path = Without(@, {t.ino[j].path : j \in G})]
  BY <1>2 DEF RemoveInode, Has
<1> HIDE DEF e, G
<1>4. /\ DOMAIN u = {"ino", "path", "next"} /\ u.next = t.next /\ Inodes(u) = Inodes(t) \ G
      /\ u.ino[up] = e /\ \A j \in Inodes(u) \ {up} : u.ino[j] = t.ino[j]
      /\ DOMAIN u.path = DOMAIN t.path \ {t.ino[j].path : j \in G}
      /\ \A q \in DOMAIN u.path : u.path[q] = t.path[q]
  BY <1>0, <1>2, <1>3 DEF TableTyped, Change, Without, Restrict, Inodes
<1> HIDE DEF u
<1>5. /\ ButFor(t.ino[up], e, {"children", "index", "loaded"})
      /\ e.children = {c \in t.ino[up].children : c.ino # i}
      /\ DOMAIN e.index = DOMAIN t.ino[up].index \ {t.ino[i].path}
      /\ \A q \in DOMAIN e.index : e.index[q] = t.ino[up].index[q]
  <2> DEFINE gone == {c \in t.ino[up].children : c.ino = i}
  <2>1. {c.name : c \in gone} = {t.ino[i].path}
    <3>1. [ino |-> i, name |-> t.ino[i].path] \in gone
      BY <1>0, <1>2, ChildIn
    <3>2. ASSUME NEW c \in gone PROVE c.name = t.ino[i].path
      <4>1. c \in t.ino[up].children /\ c.ino = i
        BY <3>2
      <4>2. c.name \in DOMAIN t.ino[up].index /\ t.ino[up].index[c.name] = i
        BY <1>0, <1>2, <4>1, ChildIs
      <4>3. t.ino[t.ino[up].index[c.name]].path = c.name
        <5>1. \A f \in Inodes(t) : \A q \in DOMAIN t.ino[f].index : t.ino[t.ino[f].index[q]].path = q
          BY <1>0, IndexTells
        <5>2. up \in Inodes(t)
          BY <1>2
        <5> HIDE DEF up
        <5> QED BY ONLY <4>2, <5>1, <5>2
      <4> QED BY ONLY <4>2, <4>3
    <3> HIDE DEF gone
    <3> QED BY <3>1, <3>2
  <2>2. EntryOK(t.ino[up]) /\ e = [t.ino[up] EXCEPT !.children = @ \ gone, !.index = Without(@, {c.name : c \in gone})]
    BY <1>0, <1>2 DEF TableTyped, e, RemoveChildByIno
  <2> HIDE DEF gone
  <2>3. /\ ButFor(t.ino[up], e, {"children", "index", "loaded"})
        /\ e.children = t.ino[up].children \ gone
        /\ e.index = Without(t.ino[up].index, {t.ino[i].path})
    BY Zenon, <2>1, <2>2 DEF EntryOK, ButFor, Fields
  <2>4. e.children = {c \in t.ino[up].children : c.ino # i}
    BY <2>3 DEF gone
  <2> QED BY <2>3, <2>4 DEF Without, Restrict
\* Whoever stays has i as its only child to go, and only its directory has it.
<1>6. ASSUME NEW d \in Inodes(t) \ G, NEW q \in DOMAIN t.ino[d].index
      PROVE  /\ t.ino[d].index[q] \in G <=> t.ino[d].index[q] = i
             /\ t.ino[d].index[q] = i <=> d = up /\ q = t.ino[i].path
  <2>1. t.ino[d].index[q] \in Inodes(t) /\ t.ino[t.ino[d].index[q]].parent = d /\ t.ino[t.ino[d].index[q]].path = q
    BY <1>0 DEF ChildrenTell
  <2> QED BY <1>1, <1>2, <2>1
<1>7. ASSUME NEW d \in Inodes(t) \ G, NEW c \in t.ino[d].children
      PROVE  /\ c.ino \in G <=> c.ino = i
             /\ d # up => c.ino # i
  BY <1>0, <1>6, ChildIs
<1>8. ASSUME NEW d \in Inodes(u)
      PROVE  /\ ButFor(t.ino[d], u.ino[d], {"children", "index", "loaded"})
             /\ u.ino[d].children = {c \in t.ino[d].children : c.ino \notin G}
             /\ DOMAIN u.ino[d].index = {q \in DOMAIN t.ino[d].index : t.ino[d].index[q] \notin G}
             /\ \A q \in DOMAIN u.ino[d].index : u.ino[d].index[q] = t.ino[d].index[q]
  <2>1. CASE d = up
    <3>1. e.children = {c \in t.ino[d].children : c.ino \notin G}
      BY <1>4, <1>5, <1>7, <2>1
    <3>2. DOMAIN e.index = {q \in DOMAIN t.ino[d].index : t.ino[d].index[q] \notin G}
      BY <1>4, <1>5, <1>6, <2>1
    <3> QED BY <1>4, <1>5, <2>1, <3>1, <3>2
  <2>2. CASE d # up
    <3>1. u.ino[d] = t.ino[d] /\ d \in Inodes(t) \ G /\ DOMAIN t.ino[d] = Fields
      BY <1>0, <1>4, <2>2 DEF TableTyped, EntryOK
    <3>2. t.ino[d].children = {c \in t.ino[d].children : c.ino \notin G}
      BY <1>7, <2>2, <3>1
    <3>3. DOMAIN t.ino[d].index = {q \in DOMAIN t.ino[d].index : t.ino[d].index[q] \notin G}
      BY <1>6, <2>2, <3>1
    <3> QED BY <3>1, <3>2, <3>3 DEF ButFor
  <2> QED BY <2>1, <2>2
<1>9. DOMAIN u.path = {q \in DOMAIN t.path : t.path[q] \notin G}
  <2>1. ASSUME NEW q \in DOMAIN t.path PROVE t.path[q] \in G <=> \E j \in G : q = t.ino[j].path
    <3>1. ASSUME NEW j \in G, q = t.ino[j].path PROVE t.path[q] \in G
      <4>1. t.ino[j].nlink > 0 /\ j \in Inodes(t) \ {RootIno}
        BY <1>1, <1>2
      <4> QED BY <1>0, <3>1, <4>1 DEF LinkedTell
    <3> QED BY <1>0, <3>1 DEF PathsTell
  <2> QED BY <1>4, <2>1
<1> QED BY <1>2, <1>4, <1>8, <1>9 DEF Cut, G, u

\* Nothing dirty or open leaves with i.
LEMMA RemoveInodeKeeps ==
    ASSUME NEW t, Sound(t), NEW i, i # RootIno, Linked(t, i)
    PROVE  /\ Sound(RemoveInode(t, i)) /\ Grows(t, RemoveInode(t, i))
           /\ Cut(t, RemoveInode(t, i), Subtree(t, i))
           /\ ~HasDirtyOrOpen(t, i) => Keeps(t, RemoveInode(t, i))
           /\ IsFile(t, i) /\ ~t.ino[i].dirty /\ ~IsOpen(t, i) => Keeps(t, RemoveInode(t, i))
<1> DEFINE G == Subtree(t, i)
           u == RemoveInode(t, i)
<1>0. TableTyped(t) /\ i \in Inodes(t) /\ t.ino[i].nlink > 0
  BY Facts DEF Sound, Linked, Has
<1>1. Cut(t, u, G) /\ RootIno \notin G
  BY <1>0, RemoveInodeCuts DEF Sound
<1>2. /\ \A j \in Inodes(t) \ {RootIno} : t.ino[j].nlink > 0 /\ t.ino[j].parent \in G => j \in G
      /\ G \subseteq Inodes(t) /\ (t.ino[i].kind = "file" => G = {i})
  BY <1>0, SubtreeIs DEF Sound
<1>3. HasDirtyOrOpen(t, i) <=> \E j \in G : t.ino[j].dirty \/ IsOpen(t, j)
  BY DEF HasDirtyOrOpen
<1>4. None \notin Inodes(t) /\ \A j \in Inodes(t) : t.ino[j].open \in Nat
  BY <1>0 DEF TableTyped, EntryOK, None
<1> HIDE DEF G, u
<1>5. /\ Sound(u) /\ Grows(t, u)
      /\ (\A j \in G \cap Inodes(t) : t.ino[j].open = 0) => OpenKept(t, u)
      /\ (\A j \in G \cap Inodes(t) : t.ino[j].nlink > 0 => ~t.ino[j].dirty) => DirtyKept(t, u)
  BY <1>1, <1>2, <1>4, CutKeeps DEF Sound
<1>6. (\A j \in G : ~t.ino[j].dirty /\ ~IsOpen(t, j)) => Keeps(t, u)
  <2>1. \A j \in G : ~IsOpen(t, j) => t.ino[j].open = 0
    BY <1>2, <1>4 DEF IsOpen, Has
  <2> QED BY <1>5, <2>1 DEF Keeps
<1> QED BY <1>1, <1>2, <1>3, <1>5, <1>6 DEF G, u, IsFile

\* The name of a file goes, the file is an orphan.
LEMMA UnlinkOneKeeps ==
    ASSUME NEW t, Sound(t), NEW d, NEW p, NEW i, i = LookupChild(t, d, p), IsFile(t, i)
    PROVE  /\ SoundBut(UnlinkOne(t, d, p), i) /\ Grows(t, UnlinkOne(t, d, p)) /\ OpenKept(t, UnlinkOne(t, d, p))
           /\ Inodes(UnlinkOne(t, d, p)) = Inodes(t) /\ UnlinkOne(t, d, p).next = t.next
           /\ UnlinkOne(t, d, p).ino[i].nlink = 0
           /\ DOMAIN UnlinkOne(t, d, p).path = DOMAIN t.path \ {p}
           /\ \A j \in Inodes(t) \ {i} : /\ UnlinkOne(t, d, p).ino[j].nlink = t.ino[j].nlink
                                         /\ UnlinkOne(t, d, p).ino[j].dirty = t.ino[j].dirty
<1> DEFINE u == UnlinkOne(t, d, p)
           e == RemoveChildByName(t.ino[d], p)
           f == [t.ino[i] EXCEPT !.nlink = 0]
<1>0. /\ TableTyped(t) /\ RootStays(t) /\ Below(t) /\ Kinds(t) /\ OrphansOpenBut(t, None)
      /\ ChildrenTell(t) /\ LinkedTell(t) /\ PathsTell(t)
  BY Facts DEF Sound
<1>1. /\ d \in Inodes(t) /\ p \in DOMAIN t.ino[d].index /\ t.ino[d].index[p] = i /\ i \in Inodes(t)
      /\ t.ino[i].kind = "file"
  BY <1>0 DEF LookupChild, Has, IsFile, None, TableTyped
<1>2. t.ino[i].nlink > 0 /\ t.ino[i].parent = d /\ t.ino[i].path = p /\ i # RootIno /\ i # d /\ t.ino[i].children = {}
  <2>1. t.ino[i].nlink > 0 /\ t.ino[i].parent = d /\ t.ino[i].path = p /\ t.ino[i].children = {}
    BY <1>0, <1>1 DEF ChildrenTell, Kinds
  <2>2. i # RootIno /\ p \in Path
    BY <1>0, <1>1 DEF RootStays, TableTyped, EntryOK
  <2> QED BY <1>0, <1>1, <2>1, <2>2 DEF Below, TableTyped
<1>3. u = [[Change(t, d, e) EXCEPT !.path = Without(@, {p})] EXCEPT !.ino[i].nlink = 0]
  BY <1>1 DEF UnlinkOne, Has
<1> HIDE DEF e, f
<1>4. /\ DOMAIN u = {"ino", "path", "next"} /\ u.next = t.next /\ Inodes(u) = Inodes(t)
      /\ u.ino[d] = e /\ u.ino[i] = f /\ \A j \in Inodes(u) \ {d, i} : u.ino[j] = t.ino[j]
      /\ DOMAIN u.path = DOMAIN t.path \ {p} /\ \A q \in DOMAIN u.path : u.path[q] = t.path[q]
  <2> DEFINE v == [Change(t, d, e) EXCEPT !.path = Without(@, {p})]
  <2>1. /\ DOMAIN v = {"ino", "path", "next"} /\ v.next = t.next /\ DOMAIN v.ino = Inodes(t)
        /\ v.ino[d] = e /\ \A j \in Inodes(t) \ {d} : v.ino[j] = t.ino[j]
        /\ DOMAIN v.path = DOMAIN t.path \ {p} /\ \A q \in DOMAIN v.path : v.path[q] = t.path[q]
    BY <1>0, <1>1 DEF TableTyped, Change, Without, Restrict, Inodes
  <2> HIDE DEF v
  <2>2. u = [v EXCEPT !.ino[i].nlink = 0]
    BY <1>3 DEF v
  <2> HIDE DEF u
  <2> QED BY <1>1, <1>2, <2>1, <2>2 DEF Inodes, f
<1> HIDE DEF u
<1>5. /\ EntryOK(f) /\ ButFor(t.ino[i], f, {"nlink"}) /\ f.nlink = 0
  <2>1. EntryOK(t.ino[i])
    BY <1>0, <1>1 DEF TableTyped
  <2>2. ButFor(t.ino[i], f, {"nlink"}) /\ f.nlink = 0
    BY <2>1 DEF f, EntryOK, ButFor, Fields
  <2> QED BY <2>1, <2>2 DEF EntryOK, ButFor, Fields
<1>6. /\ EntryOK(e) /\ ButFor(t.ino[d], e, {"children", "index"})
      /\ e.children = {c \in t.ino[d].children : c.ino # i}
      /\ DOMAIN e.index = DOMAIN t.ino[d].index \ {p}
      /\ \A q \in DOMAIN e.index : e.index[q] = t.ino[d].index[q]
  <2>1. EntryOK(t.ino[d])
    BY <1>0, <1>1 DEF TableTyped
  <2>2. e = [t.ino[d] EXCEPT !.children = {c \in @ : c.ino # i}, !.index = Without(@, {p})]
    BY <1>1, <2>1 DEF e, RemoveChildByName
  <2>3. ButFor(t.ino[d], e, {"children", "index"})
        /\ e.children = {c \in t.ino[d].children : c.ino # i} /\ e.index = Without(t.ino[d].index, {p})
    BY <2>1, <2>2 DEF EntryOK, ButFor, Fields
  <2>4. DOMAIN e.index = DOMAIN t.ino[d].index \ {p} /\ \A q \in DOMAIN e.index : e.index[q] = t.ino[d].index[q]
    BY <2>3 DEF Without, Restrict
  <2>5. EntryOK(e)
    BY <2>1, <2>3, <2>4 DEF EntryOK, ButFor, Fields
  <2> QED BY <2>3, <2>4, <2>5
<1>7. ASSUME NEW j \in Inodes(t)
      PROVE  /\ EntryOK(u.ino[j])
             /\ u.ino[j].kind = t.ino[j].kind /\ u.ino[j].path = t.ino[j].path
             /\ u.ino[j].parent = t.ino[j].parent
             /\ u.ino[j].open = t.ino[j].open /\ u.ino[j].dirty = t.ino[j].dirty
             /\ u.ino[j].nlink = IF j = i THEN 0 ELSE t.ino[j].nlink
             /\ j # d => u.ino[j].children = t.ino[j].children /\ u.ino[j].index = t.ino[j].index
  <2>1. EntryOK(t.ino[j])
    BY <1>0 DEF TableTyped
  <2> QED BY <1>2, <1>4, <1>5, <1>6, <2>1 DEF ButFor, Fields
<1>8. TableTyped(u)
  BY <1>0, <1>4, <1>7 DEF TableTyped
<1>9. RootStays(u) /\ Below(u)
  BY <1>0, <1>2, <1>4, <1>7 DEF RootStays, Below, TableTyped, Has
<1>10. Kinds(u)
  <2>1. \A j \in Inodes(t) : u.ino[j].children \subseteq t.ino[j].children
    BY <1>4, <1>6, <1>7
  <2> QED BY <1>0, <1>1, <1>4, <1>7, <2>1 DEF Kinds
<1>11. OrphansOpenBut(u, i)
  BY <1>0, <1>4, <1>7 DEF OrphansOpenBut, TableTyped, None
<1>12. ChildrenTell(u)
  <2>1. ASSUME NEW j \in Inodes(t)
        PROVE  /\ u.ino[j].children = {[ino |-> u.ino[j].index[q], name |-> q] : q \in DOMAIN u.ino[j].index}
               /\ \A q \in DOMAIN u.ino[j].index :
                     /\ u.ino[j].index[q] \in Inodes(u)
                     /\ u.ino[u.ino[j].index[q]].nlink > 0
                     /\ u.ino[u.ino[j].index[q]].parent = j
                     /\ u.ino[u.ino[j].index[q]].path = q
    <3>1. /\ t.ino[j].children = {[ino |-> t.ino[j].index[q], name |-> q] : q \in DOMAIN t.ino[j].index}
          /\ \A q \in DOMAIN t.ino[j].index :
                     /\ t.ino[j].index[q] \in Inodes(t)
                     /\ t.ino[t.ino[j].index[q]].nlink > 0
                     /\ t.ino[t.ino[j].index[q]].parent = j
                     /\ t.ino[t.ino[j].index[q]].path = q
      BY <1>0 DEF ChildrenTell
    <3>2. \A q \in DOMAIN t.ino[j].index : t.ino[j].index[q] = i <=> j = d /\ q = p
      BY <1>1, <1>2, <3>1
    <3>3. CASE j = d
      <4>1. u.ino[d].children = e.children /\ u.ino[d].index = e.index
        BY <1>4
      <4>2. e.children = {[ino |-> e.index[q], name |-> q] : q \in DOMAIN e.index}
        BY <1>6, <3>1, <3>2, <3>3
      <4>3. ASSUME NEW q \in DOMAIN e.index
            PROVE  /\ e.index[q] \in Inodes(u) /\ u.ino[e.index[q]].nlink > 0
                   /\ u.ino[e.index[q]].parent = j /\ u.ino[e.index[q]].path = q
        <5>1. q \in DOMAIN t.ino[d].index /\ q # p /\ e.index[q] = t.ino[d].index[q] /\ e.index[q] # i
          BY <1>6, <3>2, <3>3
        <5> QED BY <1>4, <1>7, <3>1, <3>3, <5>1
      <4> QED BY <3>3, <4>1, <4>2, <4>3
    <3>4. CASE j # d
      BY <1>4, <1>7, <3>1, <3>2, <3>4
    <3> QED BY <3>3, <3>4
  <2> QED BY <1>4, <2>1 DEF ChildrenTell
<1>13. LinkedTell(u)
  <2>1. ASSUME NEW j \in Inodes(u) \ {RootIno}, u.ino[j].nlink > 0
        PROVE  /\ u.ino[j].parent \in Inodes(u)
               /\ u.ino[j].path \in DOMAIN u.ino[u.ino[j].parent].index
               /\ u.ino[u.ino[j].parent].index[u.ino[j].path] = j
               /\ u.ino[j].path \in DOMAIN u.path /\ u.path[u.ino[j].path] = j
    <3>1. j \in Inodes(t) /\ j # i /\ t.ino[j].nlink > 0
      BY <1>4, <1>7, <2>1
    <3>2. /\ t.ino[j].parent \in Inodes(t) /\ t.ino[j].path \in DOMAIN t.ino[t.ino[j].parent].index
          /\ t.ino[t.ino[j].parent].index[t.ino[j].path] = j
          /\ t.ino[j].path \in DOMAIN t.path /\ t.path[t.ino[j].path] = j
      BY <1>0, <2>1, <3>1 DEF LinkedTell
    <3>3. t.path[p] = i
      BY <1>0, <1>1, <1>2 DEF LinkedTell
    <3>4. t.ino[j].path # p
      BY <3>1, <3>2, <3>3
    <3>5. t.ino[j].path \in DOMAIN u.ino[t.ino[j].parent].index /\ u.ino[t.ino[j].parent].index[t.ino[j].path] = j
      BY <1>4, <1>6, <1>7, <3>2, <3>4
    <3> QED BY <1>4, <1>7, <3>1, <3>2, <3>4, <3>5
  <2> QED BY <2>1 DEF LinkedTell
<1>14. PathsTell(u)
  <2>1. t.path[p] = i /\ p \in DOMAIN t.path
    BY <1>0, <1>1, <1>2 DEF LinkedTell
  <2> QED BY <1>0, <1>2, <1>4, <1>7, <2>1 DEF PathsTell
<1>15. SoundBut(u, i)
  BY <1>8, <1>9, <1>10, <1>11, <1>12, <1>13, <1>14, FromFacts
<1>16. Grows(t, u) /\ OpenKept(t, u)
  BY <1>0, <1>4, <1>7 DEF Grows, OpenKept, TableTyped
<1> QED BY <1>1, <1>4, <1>7, <1>15, <1>16 DEF u

\* An inode without a name and without handles leaves.
LEMMA RemoveOrphanKeeps ==
    ASSUME NEW t, NEW i, SoundBut(t, i)
    PROVE  /\ Sound(RemoveOrphan(t, i)) /\ Grows(t, RemoveOrphan(t, i)) /\ DirtyKept(t, RemoveOrphan(t, i))
           /\ ~IsOpen(t, i) => OpenKept(t, RemoveOrphan(t, i))
<1> DEFINE u == RemoveOrphan(t, i)
<1>0. /\ TableTyped(t) /\ RootStays(t) /\ Below(t) /\ Kinds(t) /\ OrphansOpenBut(t, i)
      /\ ChildrenTell(t) /\ LinkedTell(t) /\ PathsTell(t)
  BY Facts
<1>1. CASE ~Has(t, i) \/ Linked(t, i)
  <2>1. OrphansOpenBut(t, None)
    BY <1>0, <1>1 DEF OrphansOpenBut, Has, Linked
  <2>2. Sound(t)
    BY <2>1 DEF Sound, SoundBut
  <2> QED BY <1>1, <2>2, KeepsItself DEF RemoveOrphan, Sound, Keeps
<1>2. CASE Has(t, i) /\ ~Linked(t, i)
  <2>1. i \in Inodes(t) /\ t.ino[i].nlink = 0 /\ i # RootIno /\ t.ino[i].kind = "file"
    BY <1>0, <1>2 DEF Has, Linked, RootStays, Kinds, TableTyped, EntryOK
  <2>2. DOMAIN t.path \subseteq DOMAIN t.path /\ \A q \in DOMAIN t.path : t.path[q] # i
    BY <1>0, <2>1 DEF PathsTell
  <2>3. u = [t EXCEPT !.ino = Without(@, {i}), !.path = Without(@, {})]
    <3>1. {q \in {t.ino[i].path} \cap DOMAIN t.path : t.path[q] = i} = {}
      BY <2>2
    <3> QED BY <1>0, <1>2, <3>1 DEF RemoveOrphan, TableTyped
  <2> HIDE DEF u
  <2>4. /\ DOMAIN u = {"ino", "path", "next"} /\ u.next = t.next /\ Inodes(u) = Inodes(t) \ {i}
        /\ \A j \in Inodes(u) : u.ino[j] = t.ino[j]
        /\ DOMAIN u.path = DOMAIN t.path /\ \A q \in DOMAIN u.path : u.path[q] = t.path[q]
    BY <1>0, <2>1, <2>3 DEF TableTyped, Without, Restrict, Inodes
  <2>5. \A d \in Inodes(t) : \A q \in DOMAIN t.ino[d].index : t.ino[d].index[q] # i
    BY <1>0, <2>1 DEF ChildrenTell
  <2>6. \A d \in Inodes(t) : \A c \in t.ino[d].children : c.ino # i
    BY <1>0, <2>5, ChildIs
  <2>7. Cut(t, u, {i})
    <3>1. ASSUME NEW j \in Inodes(u)
          PROVE  /\ ButFor(t.ino[j], u.ino[j], {"children", "index", "loaded"})
                 /\ u.ino[j].children = {c \in t.ino[j].children : c.ino \notin {i}}
                 /\ DOMAIN u.ino[j].index = {q \in DOMAIN t.ino[j].index : t.ino[j].index[q] \notin {i}}
                 /\ \A q \in DOMAIN u.ino[j].index : u.ino[j].index[q] = t.ino[j].index[q]
      BY <1>0, <2>4, <2>5, <2>6 DEF TableTyped, EntryOK, ButFor
    <3>2. DOMAIN u.path = {q \in DOMAIN t.path : t.path[q] \notin {i}}
      BY <2>2, <2>4
    <3> QED BY <2>4, <3>1, <3>2 DEF Cut
  <2>8. \A j \in Inodes(t) \ {RootIno} : t.ino[j].nlink > 0 /\ t.ino[j].parent \in {i} => j \in {i}
    <3>1. DOMAIN t.ino[i].index = {}
      <4>1. \A q \in DOMAIN t.ino[i].index : [ino |-> t.ino[i].index[q], name |-> q] \in t.ino[i].children
        BY <1>0, <2>1 DEF ChildrenTell
      <4> QED BY <1>0, <2>1, <4>1 DEF Kinds
    <3> QED BY <1>0, <3>1 DEF LinkedTell
  <2>9. ~IsOpen(t, i) => t.ino[i].open = 0
    BY <1>0, <2>1 DEF IsOpen, Has, TableTyped, EntryOK
  <2>10. /\ Sound(u) /\ Grows(t, u)
         /\ (\A j \in {i} \cap Inodes(t) : t.ino[j].open = 0) => OpenKept(t, u)
         /\ (\A j \in {i} \cap Inodes(t) : t.ino[j].nlink > 0 => ~t.ino[j].dirty) => DirtyKept(t, u)
    BY <2>1, <2>7, <2>8, CutKeeps
  <2> QED BY <2>1, <2>9, <2>10 DEF u
<1> QED BY <1>1, <1>2

\* Clean closed files that have their names leave together.
LEMMA EvictKeeps ==
    ASSUME NEW t, Sound(t), NEW S \in SUBSET Inodes(t),
           \A i \in S : t.ino[i].kind = "file" /\ t.ino[i].nlink > 0 /\ t.ino[i].open = 0 /\ ~t.ino[i].dirty
    PROVE  Sound(Evict(t, S)) /\ Keeps(t, Evict(t, S)) /\ Evict(t, S).next = t.next
<1> DEFINE ups == {t.ino[i].parent : i \in S} \cap Inodes(t)
           gone(e) == {c \in e.children : c.ino \in S}
           cut(e) == [e EXCEPT !.children = @ \ gone(e), !.loaded = FALSE,
                               !.index = Without(@, {c.name : c \in gone(e)})]
           u == Evict(t, S)
<1>0. /\ TableTyped(t) /\ RootStays(t) /\ Below(t) /\ Kinds(t) /\ OrphansOpenBut(t, None)
      /\ ChildrenTell(t) /\ LinkedTell(t) /\ PathsTell(t)
  BY Facts DEF Sound
<1>1. u = [t EXCEPT !.ino = [j \in DOMAIN @ \ S |-> IF j \in ups THEN cut(@[j]) ELSE @[j]],
                    !.path = Without(@, {t.ino[i].path : i \in S})]
  BY DEF Evict
<1> HIDE DEF cut, u
<1>2. /\ DOMAIN u = {"ino", "path", "next"} /\ u.next = t.next /\ Inodes(u) = Inodes(t) \ S
      /\ \A j \in Inodes(u) : u.ino[j] = IF j \in ups THEN cut(t.ino[j]) ELSE t.ino[j]
      /\ DOMAIN u.path = DOMAIN t.path \ {t.ino[i].path : i \in S}
      /\ \A q \in DOMAIN u.path : u.path[q] = t.path[q]
  <2> HIDE DEF ups
  <2> QED BY <1>0, <1>1 DEF TableTyped, Without, Restrict, Inodes
<1>3. RootIno \notin S
  BY <1>0 DEF RootStays
<1>4. ASSUME NEW d \in Inodes(t), NEW q \in DOMAIN t.ino[d].index, t.ino[d].index[q] \in S PROVE d \in ups
  BY <1>0, <1>4 DEF ChildrenTell
<1> HIDE DEF ups
<1>5. ASSUME NEW d \in Inodes(u)
      PROVE  /\ ButFor(t.ino[d], u.ino[d], {"children", "index", "loaded"})
             /\ u.ino[d].children = {c \in t.ino[d].children : c.ino \notin S}
             /\ DOMAIN u.ino[d].index = {q \in DOMAIN t.ino[d].index : t.ino[d].index[q] \notin S}
             /\ \A q \in DOMAIN u.ino[d].index : u.ino[d].index[q] = t.ino[d].index[q]
  <2>0. EntryOK(t.ino[d]) /\ d \in Inodes(t)
    BY <1>0, <1>2 DEF TableTyped
  <2>1. CASE d \in ups
    <3> DEFINE e == t.ino[d]
    <3>1. u.ino[d] = [e EXCEPT !.children = @ \ gone(e), !.loaded = FALSE,
                               !.index = Without(@, {c.name : c \in gone(e)})]
      BY <1>2, <2>1 DEF cut
    <3>2. {c.name : c \in gone(e)} = {q \in DOMAIN e.index : e.index[q] \in S}
      <4>1. ASSUME NEW c \in gone(e) PROVE c.name \in DOMAIN e.index /\ e.index[c.name] \in S
        BY <1>0, <2>0, ChildIs
      <4>2. ASSUME NEW q \in DOMAIN e.index, e.index[q] \in S PROVE \E c \in gone(e) : c.name = q
        <5>1. [ino |-> e.index[q], name |-> q] \in gone(e)
          BY <1>0, <2>0, <4>2 DEF ChildrenTell
        <5> HIDE DEF gone
        <5> QED BY <5>1
      <4> HIDE DEF gone, e
      <4> QED BY <4>1, <4>2
    <3>3. /\ ButFor(e, u.ino[d], {"children", "index", "loaded"})
          /\ u.ino[d].children = e.children \ gone(e)
          /\ u.ino[d].index = Without(e.index, {q \in DOMAIN e.index : e.index[q] \in S})
      <4> HIDE DEF gone
      <4> QED BY ZenonT(40), <2>0, <3>1, <3>2 DEF EntryOK, ButFor, Fields
    <3>4. u.ino[d].children = {c \in e.children : c.ino \notin S}
      BY <3>3
    <3> HIDE DEF gone, e
    <3>5. /\ DOMAIN u.ino[d].index = {q \in DOMAIN e.index : e.index[q] \notin S}
          /\ \A q \in DOMAIN u.ino[d].index : u.ino[d].index[q] = e.index[q]
      BY <3>3 DEF Without, Restrict
    <3> QED BY <3>3, <3>4, <3>5 DEF e
  <2>2. CASE d \notin ups
    <3>1. u.ino[d] = t.ino[d] /\ DOMAIN t.ino[d] = Fields
      BY <1>2, <2>0, <2>2 DEF EntryOK
    <3>2. DOMAIN t.ino[d].index = {q \in DOMAIN t.ino[d].index : t.ino[d].index[q] \notin S}
      BY <1>4, <2>0, <2>2
    <3>3. t.ino[d].children = {c \in t.ino[d].children : c.ino \notin S}
      <4>1. \A c \in t.ino[d].children : c.ino \notin S
        BY <1>0, <1>4, <2>0, <2>2, ChildIs
      <4> QED BY <4>1
    <3> QED BY <3>1, <3>2, <3>3 DEF ButFor
  <2> QED BY <2>1, <2>2
<1>6. DOMAIN u.path = {q \in DOMAIN t.path : t.path[q] \notin S}
  <2>1. ASSUME NEW q \in DOMAIN t.path PROVE t.path[q] \in S <=> \E j \in S : q = t.ino[j].path
    BY <1>0, <1>3 DEF PathsTell, LinkedTell
  <2> QED BY <1>2, <2>1
<1>7. Cut(t, u, S)
  BY <1>2, <1>5, <1>6 DEF Cut
<1>8. \A j \in Inodes(t) \ {RootIno} : t.ino[j].nlink > 0 /\ t.ino[j].parent \in S => j \in S
  <2>1. ASSUME NEW j \in Inodes(t) \ {RootIno}, t.ino[j].nlink > 0, t.ino[j].parent \in S PROVE FALSE
    <3>1. t.ino[j].parent \in Inodes(t)
          /\ [ino |-> t.ino[t.ino[j].parent].index[t.ino[j].path], name |-> t.ino[j].path] \in t.ino[t.ino[j].parent].children
      BY <1>0, <2>1 DEF LinkedTell, ChildrenTell
    <3> QED BY <1>0, <2>1, <3>1 DEF Kinds
  <2> QED BY <2>1
<1>9. None \notin Inodes(t)
  BY <1>0 DEF TableTyped, None
<1>10. Sound(u) /\ Grows(t, u) /\ OpenKept(t, u) /\ DirtyKept(t, u)
  BY <1>3, <1>7, <1>8, <1>9, CutKeeps DEF Sound
<1> QED BY <1>2, <1>10 DEF u, Keeps

LEMMA EvictIfSafeKeeps ==
    ASSUME NEW t, Sound(t), NEW i, ~IsOpen(t, i)
    PROVE  Sound(EvictIfSafe(t, i)) /\ Keeps(t, EvictIfSafe(t, i)) /\ EvictIfSafe(t, i).next = t.next
<1>1. CASE MayEvict(t, i)
  <2>1. TableTyped(t)
    BY Facts DEF Sound
  <2>2. {i} \in SUBSET Inodes(t) /\ t.ino[i].kind = "file" /\ t.ino[i].nlink > 0 /\ t.ino[i].open = 0 /\ ~t.ino[i].dirty
    BY <1>1, <2>1 DEF MayEvict, IsFile, Linked, Has, IsOpen, TableTyped, EntryOK
  <2> QED BY <1>1, <2>2, EvictKeeps DEF EvictIfSafe
<1>2. CASE ~MayEvict(t, i)
  BY <1>2, KeepsItself DEF EvictIfSafe, Sound
<1> QED BY <1>1, <1>2

LEMMA EvictBatchKeeps ==
    ASSUME NEW t, Sound(t), NEW S
    PROVE  Sound(EvictBatchIfSafe(t, S)) /\ Keeps(t, EvictBatchIfSafe(t, S)) /\ EvictBatchIfSafe(t, S).next = t.next
<1> DEFINE T == {i \in S : MayEvict(t, i) /\ ~IsOpen(t, i)}
<1>1. TableTyped(t)
  BY Facts DEF Sound
<1>2. /\ T \in SUBSET Inodes(t)
      /\ \A i \in T : t.ino[i].kind = "file" /\ t.ino[i].nlink > 0 /\ t.ino[i].open = 0 /\ ~t.ino[i].dirty
  BY <1>1 DEF MayEvict, IsFile, Linked, Has, IsOpen, TableTyped, EntryOK
<1> QED BY <1>2, EvictKeeps DEF EvictBatchIfSafe

\* An orphan whose path nobody has keeps what it has.
LEMMA NoNameToGo ==
    ASSUME NEW t, Sound(t), NEW i, Has(t, i), ~Linked(t, i), t.ino[i].path \notin DOMAIN t.path, ~t.ino[i].dirty
    PROVE  RemoveRemoteFile(t, i) = t
<1>0. /\ TableTyped(t) /\ RootStays(t) /\ Below(t) /\ Kinds(t) /\ OrphansOpenBut(t, None)
      /\ ChildrenTell(t) /\ LinkedTell(t) /\ PathsTell(t)
  BY Facts DEF Sound
<1>1. i \in Inodes(t) /\ IsOpen(t, i) /\ i # None
  BY <1>0 DEF Linked, Has, OrphansOpenBut, TableTyped, EntryOK, None, IsOpen
<1>2. ~Has(t, t.ino[i].parent) \/ t.ino[i].path \notin DOMAIN t.ino[t.ino[i].parent].index
  <2>1. SUFFICES ASSUME Has(t, t.ino[i].parent), t.ino[i].path \in DOMAIN t.ino[t.ino[i].parent].index PROVE FALSE
    OBVIOUS
  <2> DEFINE j == t.ino[t.ino[i].parent].index[t.ino[i].path]
  <2>2. j \in Inodes(t) /\ t.ino[j].nlink > 0 /\ t.ino[j].path = t.ino[i].path
    <3>1. t.ino[i].parent \in Inodes(t)
      BY <2>1 DEF Has
    <3> DEFINE d == t.ino[i].parent
    <3>2. d \in Inodes(t) /\ t.ino[i].path \in DOMAIN t.ino[d].index /\ ChildrenTell(t)
      BY <1>0, <2>1, <3>1
    <3> HIDE DEF d
    <3>3. /\ t.ino[d].index[t.ino[i].path] \in Inodes(t) /\ t.ino[t.ino[d].index[t.ino[i].path]].nlink > 0
          /\ t.ino[t.ino[d].index[t.ino[i].path]].path = t.ino[i].path
      <4>1. \A f \in Inodes(t) : \A q \in DOMAIN t.ino[f].index :
                /\ t.ino[f].index[q] \in Inodes(t) /\ t.ino[t.ino[f].index[q]].nlink > 0
                /\ t.ino[t.ino[f].index[q]].path = q
        BY <3>2, IndexTells
      <4> QED BY ONLY <3>2, <4>1
    <3> QED BY ONLY Zenon, <3>3 DEF j, d
  <2>3. t.ino[i].path \in Path
    BY <1>0, <2>1 DEF TableTyped, EntryOK, Has
  <2> HIDE DEF j
  <2>4. j # RootIno
    BY <1>0, <2>2, <2>3, PathAssumption DEF RootStays
  <2> QED BY <1>0, <2>2, <2>4 DEF LinkedTell
<1> QED BY Zenon, <1>1, <1>2 DEF RemoveRemoteFile, UnlinkOne

\* A file that the Hub no longer has, with its name or with no successor.
LEMMA RemoveRemoteFileKeeps ==
    ASSUME NEW t, Sound(t), NEW i, Has(t, i) => IsFile(t, i),
           Has(t, i) /\ ~Linked(t, i) => t.ino[i].path \notin DOMAIN t.path
    PROVE  LET u == RemoveRemoteFile(t, i)
           IN  /\ Sound(u) /\ Keeps(t, u) /\ u.next = t.next
               /\ Inodes(u) \subseteq Inodes(t) /\ DOMAIN u.path \subseteq DOMAIN t.path
               /\ \A j \in Inodes(u) : u.ino[j].nlink # t.ino[j].nlink => t.ino[j].path \notin DOMAIN u.path
<1> DEFINE u == RemoveRemoteFile(t, i)
<1>0. /\ TableTyped(t) /\ RootStays(t) /\ Below(t) /\ Kinds(t) /\ OrphansOpenBut(t, None)
      /\ ChildrenTell(t) /\ LinkedTell(t) /\ PathsTell(t)
  BY Facts DEF Sound
<1>1. CASE ~Has(t, i) \/ t.ino[i].dirty
  BY <1>1, KeepsItself DEF RemoveRemoteFile, Sound
<1>2. CASE Has(t, i) /\ ~t.ino[i].dirty /\ ~Linked(t, i)
  BY <1>2, NoNameToGo, KeepsItself DEF Sound
<1>3. CASE Has(t, i) /\ ~t.ino[i].dirty /\ Linked(t, i)
  <2>1. /\ i \in Inodes(t) \ {RootIno} /\ t.ino[i].kind = "file" /\ t.ino[i].nlink > 0
        /\ LookupChild(t, t.ino[i].parent, t.ino[i].path) = i
    BY <1>0, <1>3 DEF Has, IsFile, Linked, RootStays, LinkedTell, LookupChild
  <2>2. CASE IsOpen(t, i)
    <3>1. u = UnlinkOne(t, t.ino[i].parent, t.ino[i].path)
      BY <1>3, <2>2 DEF RemoveRemoteFile
    <3> HIDE DEF u
    <3>2. /\ SoundBut(u, i) /\ Grows(t, u) /\ OpenKept(t, u)
          /\ Inodes(u) = Inodes(t) /\ u.next = t.next /\ u.ino[i].nlink = 0
          /\ DOMAIN u.path = DOMAIN t.path \ {t.ino[i].path}
          /\ \A j \in Inodes(t) \ {i} : u.ino[j].nlink = t.ino[j].nlink /\ u.ino[j].dirty = t.ino[j].dirty
      BY <1>3, <2>1, <3>1, UnlinkOneKeeps
    <3>3. u.ino[i].open > 0
      BY <2>1, <2>2, <3>2 DEF OpenKept, IsOpen
    <3>4. Sound(u)
      BY <3>2, <3>3 DEF Sound, SoundBut, OrphansOpenBut
    <3>5. DirtyKept(t, u)
      BY <1>3, <3>2 DEF DirtyKept
    <3> QED BY <3>2, <3>4, <3>5 DEF u, Keeps
  <2>3. CASE ~IsOpen(t, i)
    <3>1. u = RemoveInode(t, i)
      BY <1>3, <2>3 DEF RemoveRemoteFile
    <3> HIDE DEF u
    <3>2. Sound(u) /\ Keeps(t, u) /\ Cut(t, u, Subtree(t, i))
      BY <1>3, <2>1, <2>3, <3>1, RemoveInodeKeeps
    <3> QED BY <3>2 DEF u, Cut, ButFor, Fields
  <2> QED BY <2>2, <2>3
<1> QED BY <1>1, <1>2, <1>3

-----------------------------------------------------------------------------
(* Paths and the Hub.                                                      *)

\* What a path has as soon as the directory it lies in is the root or has it,
\* all paths have.
LEMMA DownTheTree ==
    ASSUME NEW S, \A p \in Path : Up[p] = Root \/ Up[p] \in S => p \in S
    PROVE  Path \subseteq S
<1>1. SUFFICES ASSUME Path \ S # {} PROVE FALSE
  OBVIOUS
<1>2. PICK p \in Path \ S : Up[p] \notin Path \ S
  BY <1>1, TreeAssumption
<1> QED BY <1>2, PathAssumption

\* The equation that defines Ancestors has a solution: the least sets that
\* have the directory and climb to the root.
LEMMA AncestorsAre ==
    /\ Ancestors[Root] = {}
    /\ \A p \in Path : Ancestors[p] = {Up[p]} \cup Ancestors[Up[p]]
<1> DEFINE P == Path \cup {Root}
           Climbs(T) == \A q \in T : q # Root => Up[q] \in T
           Least(p) == {q \in P : \A T \in SUBSET P : p \in T /\ Climbs(T) => q \in T}
           g == [p \in P |-> IF p = Root THEN {} ELSE Least(Up[p])]
           rec(f) == [p \in P |-> IF p = Root THEN {} ELSE {Up[p]} \cup f[Up[p]]]
           s == CHOOSE f : f = rec(f)
<1>1. ASSUME NEW p \in Path PROVE Least(p) = {p} \cup Least(Up[p])
  <2>0. p \in P /\ Up[p] \in P /\ p # Root
    BY PathAssumption
  <2>1. ASSUME NEW q \in Least(p), q # p, NEW T \in SUBSET P, Up[p] \in T, Climbs(T) PROVE q \in T
    <3>1. {p} \cup T \in SUBSET P /\ Climbs({p} \cup T)
      BY <2>0, <2>1
    <3> QED BY <2>1, <3>1
  <2>2. ASSUME NEW T \in SUBSET P, p \in T, Climbs(T) PROVE Up[p] \in T
    BY <2>0, <2>2
  <2>3. \A q \in Least(p) : q = p \/ q \in Least(Up[p])
    BY <2>1
  <2>4. \A q \in Least(Up[p]) : q \in Least(p)
    BY <2>2
  <2>5. p \in Least(p)
    BY <2>0
  <2> HIDE DEF Least
  <2> QED BY <2>3, <2>4, <2>5
<1>2. Least(Root) = {Root}
  <2>1. {Root} \in SUBSET P /\ Climbs({Root})
    OBVIOUS
  <2>2. Root \in Least(Root)
    OBVIOUS
  <2>3. \A q \in Least(Root) : q \in {Root}
    BY <2>1
  <2> HIDE DEF Least
  <2> QED BY <2>2, <2>3
<1>3. g = rec(g)
  <2>1. ASSUME NEW p \in Path PROVE Least(Up[p]) = {Up[p]} \cup g[Up[p]]
    <3> HIDE DEF Least
    <3>1. Up[p] \in P
      BY PathAssumption
    <3> QED BY <1>1, <1>2, <3>1, PathAssumption
  <2> HIDE DEF Least
  <2>2. \A p \in P : (IF p = Root THEN {} ELSE Least(Up[p])) = (IF p = Root THEN {} ELSE {Up[p]} \cup g[Up[p]])
    <3> HIDE DEF g
    <3> QED BY <2>1
  <2>3. rec(g) = [p \in P |-> IF p = Root THEN {} ELSE {Up[p]} \cup g[Up[p]]]
    OBVIOUS
  <2>4. g = [p \in P |-> IF p = Root THEN {} ELSE Least(Up[p])]
    OBVIOUS
  <2> HIDE DEF g, rec
  <2> QED BY ONLY <2>2, <2>3, <2>4
<1>4. Ancestors = s
  BY DEF Ancestors
<1>5. s = rec(s)
  <2> HIDE DEF g, rec
  <2> QED BY <1>3
<1> HIDE DEF s
<1>6. /\ s[Root] = {}
      /\ \A p \in Path : s[p] = {Up[p]} \cup s[Up[p]]
  BY <1>5, PathAssumption
<1> QED BY <1>4, <1>6

\* Ancestors of ancestors are ancestors, and no path is its own.
LEMMA AncestorsClimb ==
    /\ \A p \in Path : Up[p] \in Ancestors[p]
    /\ \A p \in Path : \A q \in Ancestors[p] \cap Path : Ancestors[q] \subseteq Ancestors[p]
    /\ \A p \in Path : p \notin Ancestors[p]
<1>1. \A p \in Path : Up[p] \in Ancestors[p]
  BY AncestorsAre
<1>2. \A p \in Path : \A q \in Ancestors[p] \cap Path : Ancestors[q] \subseteq Ancestors[p]
  <2> DEFINE S == {p \in Path : \A q \in Ancestors[p] \cap Path : Ancestors[q] \subseteq Ancestors[p]}
  <2>1. ASSUME NEW p \in Path, Up[p] = Root \/ Up[p] \in S PROVE p \in S
    <3>1. ASSUME NEW q \in Ancestors[p] \cap Path PROVE Ancestors[q] \subseteq Ancestors[p]
      <4>1. Ancestors[p] = {Up[p]} \cup Ancestors[Up[p]]
        BY AncestorsAre
      <4>2. CASE q = Up[p]
        BY <4>1, <4>2
      <4>3. CASE q # Up[p]
        <5>1. q \in Ancestors[Up[p]]
          BY <3>1, <4>1, <4>3
        <5>2. Up[p] \in S
          BY <2>1, <5>1, AncestorsAre
        <5> QED BY <3>1, <4>1, <5>1, <5>2
      <4> QED BY <4>2, <4>3
    <3> QED BY <3>1
  <2>2. Path \subseteq S
    <3> HIDE DEF S
    <3> QED BY <2>1, DownTheTree
  <2> QED BY <2>2
<1>3. \A p \in Path : p \notin Ancestors[p]
  <2> DEFINE S == {p \in Path : p \notin Ancestors[p]}
  <2>1. ASSUME NEW p \in Path, Up[p] = Root \/ Up[p] \in S PROVE p \in S
    <3>1. SUFFICES ASSUME p \in Ancestors[p] PROVE FALSE
      OBVIOUS
    <3>2. Ancestors[p] = {Up[p]} \cup Ancestors[Up[p]]
      BY AncestorsAre
    <3>3. CASE Up[p] = Root
      BY <3>1, <3>2, <3>3, AncestorsAre, PathAssumption
    <3>4. CASE Up[p] \in S
      <4>0. Up[p] \in Path /\ Up[p] \notin Ancestors[Up[p]]
        BY <3>4
      <4>1. p # Up[p]
        BY <3>1, <3>2, <4>0, AncestorsAre
      <4>2. p \in Ancestors[Up[p]]
        BY <3>1, <3>2, <4>1
      <4>3. Ancestors[p] \subseteq Ancestors[Up[p]]
        BY <1>2, <4>0, <4>2
      <4> QED BY <3>2, <4>0, <4>3
    <3> QED BY <2>1, <3>3, <3>4
  <2>2. Path \subseteq S
    <3> HIDE DEF S
    <3> QED BY <2>1, DownTheTree
  <2> QED BY <2>2
<1> QED BY <1>1, <1>2, <1>3

\* The Hub is a tree: nothing lies below a file.
HubIsTree == \A p, q \in Path : p \in Ancestors[q] /\ Hub[p] # None => Hub[q] = None
\* What the Hub has no file and no directory of.
Absent(p) == Hub[p] = None /\ ~IsHubDir(p)
LEMMA AbsentBelow ==
    ASSUME HubIsTree, NEW p \in Path, NEW q \in Path, p \in Ancestors[q]
    PROVE  Absent(p) \/ Hub[p] # None => Absent(q)
<1>1. ASSUME Hub[p] # None PROVE Absent(q)
  <2>1. \A r \in Path : q \in Ancestors[r] => p \in Ancestors[r]
    BY AncestorsClimb
  <2>2. \A r \in Path : p \in Ancestors[r] => Hub[r] = None
    BY <1>1 DEF HubIsTree
  <2>3. q # Root
    BY PathAssumption
  <2> QED BY <2>1, <2>2, <2>3 DEF Absent, IsHubDir
<1>2. ASSUME ~IsHubDir(p) PROVE Absent(q)
  <2>1. \A r \in Path : q \in Ancestors[r] => p \in Ancestors[r]
    BY AncestorsClimb
  <2>2. \A r \in Path : p \in Ancestors[r] => Hub[r] = None
    BY <1>2 DEF IsHubDir
  <2>3. q # Root
    BY PathAssumption
  <2> QED BY <2>1, <2>2, <2>3 DEF Absent, IsHubDir
<1> QED BY <1>1, <1>2 DEF Absent

\* What a listing says of a name of its directory.
LEMMA ListTreeHashes == \A q : \A e \in ListTree(q) : e.path \in Path /\ e.hash = Hub[e.path]
  BY DEF ListTree
LEMMA ListTreeSays ==
    ASSUME HubIsTree, NEW p \in Path
    PROVE  /\ Absent(p) <=> p \notin {e.path : e \in ListTree(Up[p])}
           /\ Hub[p] # None => [path |-> p, hash |-> Hub[p]] \in ListTree(Up[p])
           /\ IsHubDir(p) => [path |-> p, hash |-> None] \in ListTree(Up[p])
<1>2. p # Root
  BY PathAssumption
<1>3. Hub[p] # None \/ IsHubDir(p) => [path |-> p, hash |-> Hub[p]] \in ListTree(Up[p])
  BY DEF ListTree
<1>4. IsHubDir(p) => Hub[p] = None
  BY <1>2 DEF IsHubDir, HubIsTree
<1>5. \A e \in ListTree(Up[p]) : e.path = p => Hub[p] # None \/ IsHubDir(p)
  BY DEF ListTree
<1>6. Absent(p) <=> p \notin {e.path : e \in ListTree(Up[p])}
  <2>1. ASSUME Absent(p), NEW e \in ListTree(Up[p]) PROVE e.path # p
    BY <1>5, <2>1 DEF Absent
  <2>2. ASSUME ~Absent(p) PROVE \E e \in ListTree(Up[p]) : e.path = p
    BY <1>3, <2>2 DEF Absent
  <2> QED BY <2>1, <2>2
<1> QED BY <1>3, <1>4, <1>6

-----------------------------------------------------------------------------
(* What an operation does to the names and contents that the kernel sees.  *)

\* The Hub has nothing of the kind of i under its name.
Gone(t, i) == IF t.ino[i].kind = "file" THEN Hub[t.ino[i].path] = None ELSE ~IsHubDir(t.ino[i].path)
CleanFiles(t) == {i \in Inodes(t) : IsFile(t, i) /\ Linked(t, i) /\ ~t.ino[i].dirty}
Right(t, i) == t.ino[i].hash = Hub[t.ino[i].path]
Named(t, i) == i \in Inodes(t) /\ t.ino[i].nlink > 0
\* Counts of references stay, the names that leave are gone from the Hub or
\* excused, and a clean content that was not there is the Hub's.
Calm(t, u) == \A i \in Inodes(t) \cap Inodes(u) : u.ino[i].nlookup = t.ino[i].nlookup
Lost(t, u, E) == \A i \in Inodes(t) \cap Ino : refs[i] > 0 /\ Named(t, i) /\ ~Named(u, i) => i \in E \/ Gone(t, i)
Trusted(t, u) == \A i \in CleanFiles(u) :
    Right(u, i) \/ (i \in CleanFiles(t) /\ u.ino[i].hash = t.ino[i].hash)
Modest(t, u, E) == Calm(t, u) /\ Lost(t, u, E)
Honest(t, u, E) == Modest(t, u, E) /\ Trusted(t, u)

LEMMA HonestItself == ASSUME NEW t, NEW E PROVE Honest(t, t, E)
  BY DEF Honest, Modest, Calm, Lost, Trusted

LEMMA ModestOn ==
    ASSUME NEW t, NEW u, NEW v, TableTyped(t), TableTyped(u), TableTyped(v), Grows(t, u), Grows(u, v),
           NEW E, Modest(t, u, E), Modest(u, v, E)
    PROVE  Modest(t, v, E)
<1>1. /\ \A i \in Inodes(v) : i < t.next => i \in Inodes(u)
      /\ \A i \in Inodes(t) : i < t.next /\ i < u.next
      /\ \A i \in Inodes(u) : i < u.next
      /\ \A i \in Inodes(t) \cap Inodes(u) : u.ino[i].kind = t.ino[i].kind /\ u.ino[i].path = t.ino[i].path
      /\ \A i \in Inodes(u) \cap Inodes(v) : v.ino[i].kind = u.ino[i].kind /\ v.ino[i].path = u.ino[i].path
  BY DEF Grows, TableTyped
<1>2. Calm(t, v)
  BY <1>1 DEF Modest, Calm
<1>3. Lost(t, v, E)
  <2>1. ASSUME NEW i \in Inodes(t) \cap Ino, refs[i] > 0, Named(t, i), ~Named(v, i) PROVE i \in E \/ Gone(t, i)
    <3>1. CASE Named(u, i)
      <4>1. i \in E \/ Gone(u, i)
        BY <2>1, <3>1 DEF Modest, Lost, Named
      <4> QED BY <1>1, <3>1, <4>1 DEF Gone, Named
    <3>2. CASE ~Named(u, i)
      BY <2>1, <3>2 DEF Modest, Lost
    <3> QED BY <3>1, <3>2
  <2> QED BY <2>1 DEF Lost
<1> QED BY <1>2, <1>3 DEF Modest
LEMMA HonestOn ==
    ASSUME NEW t, NEW u, NEW v, TableTyped(t), TableTyped(u), TableTyped(v), Grows(t, u), Grows(u, v),
           NEW E, Honest(t, u, E), Honest(u, v, E)
    PROVE  Honest(t, v, E)
<1>1. Modest(t, v, E)
  BY ModestOn DEF Honest
<1>2. Trusted(t, v)
  <2>1. ASSUME NEW i \in CleanFiles(v) PROVE Right(v, i) \/ (i \in CleanFiles(t) /\ v.ino[i].hash = t.ino[i].hash)
    <3>1. Right(v, i) \/ (i \in CleanFiles(u) /\ v.ino[i].hash = u.ino[i].hash)
      BY DEF Honest, Trusted
    <3>2. CASE i \in CleanFiles(u) /\ v.ino[i].hash = u.ino[i].hash
      <4>1. Right(u, i) \/ (i \in CleanFiles(t) /\ u.ino[i].hash = t.ino[i].hash)
        BY <3>2 DEF Honest, Trusted
      <4>2. v.ino[i].path = u.ino[i].path
        BY <3>2 DEF CleanFiles, Grows, TableTyped
      <4> QED BY <3>2, <4>1, <4>2 DEF Right
    <3> QED BY <3>1, <3>2
  <2> QED BY <2>1 DEF Trusted
<1> QED BY <1>1, <1>2 DEF Honest, Modest

\* At most the names of G go.
SeenFields == {"kind", "path", "hash", "dirty", "nlookup"}
Alike(t, u, G) ==
    /\ Inodes(u) \subseteq Inodes(t) /\ Inodes(t) \ G \subseteq Inodes(u)
    /\ \A i \in Inodes(u) : \A f \in SeenFields : u.ino[i][f] = t.ino[i][f]
    /\ \A i \in Inodes(u) : u.ino[i].nlink = t.ino[i].nlink \/ (i \in G /\ u.ino[i].nlink = 0)
LEMMA AlikeHonest ==
    ASSUME NEW t, NEW u, NEW G, Alike(t, u, G), NEW E,
           \A i \in G \cap Inodes(t) \cap Ino : refs[i] > 0 /\ t.ino[i].nlink > 0 => i \in E \/ Gone(t, i)
    PROVE  Honest(t, u, E)
<1>1. \A i \in Inodes(u) : /\ u.ino[i].kind = t.ino[i].kind /\ u.ino[i].path = t.ino[i].path
                           /\ u.ino[i].hash = t.ino[i].hash /\ u.ino[i].dirty = t.ino[i].dirty
                           /\ u.ino[i].nlookup = t.ino[i].nlookup
  BY DEF Alike, SeenFields
<1>2. /\ Inodes(u) \subseteq Inodes(t) /\ Inodes(t) \ G \subseteq Inodes(u)
      /\ \A i \in Inodes(u) : u.ino[i].nlink = t.ino[i].nlink \/ (i \in G /\ u.ino[i].nlink = 0)
  BY DEF Alike
<1>3. Calm(t, u)
  BY <1>1 DEF Calm
<1>4. Lost(t, u, E)
  BY <1>2 DEF Lost, Named
<1>5. Trusted(t, u)
  BY <1>1, <1>2 DEF Trusted, CleanFiles, IsFile, Linked, Has
<1> QED BY <1>3, <1>4, <1>5 DEF Honest, Modest

\* A change of one entry that leaves alone what is seen.
LEMMA TweakAlike ==
    ASSUME NEW t, NEW u, NEW F, Tweaked(t, u, F), F \cap (SeenFields \cup {"nlink"}) = {}, NEW E
    PROVE  Honest(t, u, E)
<1>1. Alike(t, u, {})
  BY DEF Tweaked, ButFor, Alike, SeenFields, Fields
<1> QED BY <1>1, AlikeHonest
LEMMA CutAlike == ASSUME NEW t, NEW u, NEW G, Cut(t, u, G) PROVE Alike(t, u, G)
  BY DEF Cut, ButFor, Alike, SeenFields, Fields

LEMMA InvalidateAlike ==
    ASSUME NEW t, TableTyped(t), NEW S PROVE Alike(t, InvalidateChildren(t, S), {})
<1> DEFINE u == InvalidateChildren(t, S)
           e(j) == [t.ino[j] EXCEPT !.loaded = FALSE]
<1>1. Inodes(u) = Inodes(t) /\ \A j \in Inodes(t) : u.ino[j] = IF j \in S THEN e(j) ELSE t.ino[j]
  BY DEF InvalidateChildren, Inodes, TableTyped
<1>2. ASSUME NEW j \in Inodes(t) PROVE e(j).nlink = t.ino[j].nlink /\ \A f \in SeenFields : e(j)[f] = t.ino[j][f]
  BY DEF TableTyped, EntryOK, SeenFields, Fields
<1> HIDE DEF u, e
<1>3. Alike(t, u, {})
  BY <1>1, <1>2 DEF Alike
<1> QED BY <1>3 DEF u

LEMMA EvictAlike ==
    ASSUME NEW t, TableTyped(t), NEW S \in SUBSET Inodes(t) PROVE Alike(t, Evict(t, S), S)
<1> DEFINE ups == {t.ino[i].parent : i \in S} \cap Inodes(t)
           gone(e) == {c \in e.children : c.ino \in S}
           cut(e) == [e EXCEPT !.children = @ \ gone(e), !.loaded = FALSE,
                               !.index = Without(@, {c.name : c \in gone(e)})]
           u == Evict(t, S)
<1>1. u = [t EXCEPT !.ino = [j \in DOMAIN @ \ S |-> IF j \in ups THEN cut(@[j]) ELSE @[j]],
                    !.path = Without(@, {t.ino[i].path : i \in S})]
  BY DEF Evict
<1>2. ASSUME NEW j \in Inodes(t)
      PROVE  cut(t.ino[j]).nlink = t.ino[j].nlink /\ \A f \in SeenFields : cut(t.ino[j])[f] = t.ino[j][f]
  <2> DEFINE k == gone(t.ino[j])
             x == Without(t.ino[j].index, {c.name : c \in k})
  <2>1. cut(t.ino[j]) = [t.ino[j] EXCEPT !.children = @ \ k, !.loaded = FALSE, !.index = x]
    OBVIOUS
  <2> HIDE DEF k, x, cut
  <2> QED BY <2>1 DEF TableTyped, EntryOK, SeenFields, Fields
<1> HIDE DEF ups, cut, u
<1>3. Inodes(u) = Inodes(t) \ S /\ \A j \in Inodes(u) : u.ino[j] = IF j \in ups THEN cut(t.ino[j]) ELSE t.ino[j]
  BY <1>1 DEF Inodes, TableTyped
<1>4. Alike(t, u, S)
  BY <1>2, <1>3 DEF Alike
<1> QED BY <1>4 DEF u

LEMMA UnlinkAlike ==
    ASSUME NEW t, Sound(t), NEW d, NEW p, NEW i, i = LookupChild(t, d, p), IsFile(t, i)
    PROVE  Alike(t, UnlinkOne(t, d, p), {i})
<1> DEFINE u == UnlinkOne(t, d, p)
           e == RemoveChildByName(t.ino[d], p)
<1>0. /\ TableTyped(t) /\ Kinds(t) /\ ChildrenTell(t)
  BY Facts DEF Sound
<1>1. /\ d \in Inodes(t) /\ p \in DOMAIN t.ino[d].index /\ t.ino[d].index[p] = i /\ i \in Inodes(t)
  BY <1>0 DEF LookupChild, Has, IsFile, None, TableTyped
<1>2. u = [[Change(t, d, e) EXCEPT !.path = Without(@, {p})] EXCEPT !.ino[i].nlink = 0]
  BY <1>1 DEF UnlinkOne, Has
<1>3. e.nlink = t.ino[d].nlink /\ DOMAIN e = Fields /\ \A f \in SeenFields : e[f] = t.ino[d][f]
  <2> DEFINE k == {c \in t.ino[d].children : c.ino # t.ino[d].index[p]}
             x == Without(t.ino[d].index, {p})
  <2>1. e = [t.ino[d] EXCEPT !.children = k, !.index = x]
    BY <1>1 DEF RemoveChildByName
  <2> HIDE DEF k, x, e
  <2> QED BY <1>0, <1>1, <2>1 DEF TableTyped, EntryOK, SeenFields, Fields
<1> HIDE DEF e, u
<1>4. DOMAIN t = {"ino", "path", "next"}
  BY <1>0 DEF TableTyped
<1> DEFINE m == Change(t, d, e)
           n == [m EXCEPT !.path = Without(@, {p})]
<1>5. Inodes(n) = Inodes(t) /\ n.ino[d] = e /\ \A j \in Inodes(t) \ {d} : n.ino[j] = t.ino[j]
  BY <1>1, <1>4 DEF Change, Inodes
<1>6. DOMAIN n = {"ino", "path", "next"}
  BY <1>4 DEF Change
<1>7. u = [n EXCEPT !.ino[i].nlink = 0]
  BY <1>2
<1> HIDE DEF n
<1>8. /\ Inodes(u) = Inodes(t) /\ u.ino[i] = [n.ino[i] EXCEPT !.nlink = 0]
      /\ \A j \in Inodes(t) \ {i} : u.ino[j] = n.ino[j]
  BY <1>1, <1>5, <1>6, <1>7 DEF Inodes
<1>9. \A j \in Inodes(t) : DOMAIN n.ino[j] = Fields /\ n.ino[j].nlink = t.ino[j].nlink /\ \A f \in SeenFields : n.ino[j][f] = t.ino[j][f]
  BY <1>0, <1>3, <1>5 DEF TableTyped, EntryOK
<1>10. u.ino[i].nlink = 0 /\ \A f \in SeenFields : u.ino[i][f] = t.ino[i][f]
  BY <1>1, <1>8, <1>9 DEF SeenFields, Fields
<1>11. Alike(t, u, {i})
  <2>1. ASSUME NEW j \in Inodes(u), j # i
        PROVE  u.ino[j].nlink = t.ino[j].nlink /\ \A f \in SeenFields : u.ino[j][f] = t.ino[j][f]
    <3>1. j \in Inodes(t) /\ u.ino[j] = n.ino[j]
      BY <1>8, <2>1
    <3> QED BY <1>9, <3>1
  <2>2. ASSUME NEW j \in Inodes(u)
        PROVE  /\ \A f \in SeenFields : u.ino[j][f] = t.ino[j][f]
               /\ u.ino[j].nlink = t.ino[j].nlink \/ (j \in {i} /\ u.ino[j].nlink = 0)
    <3>1. CASE j = i
      BY ONLY <1>10, <3>1
    <3>2. CASE j # i
      BY ONLY <2>1, <3>2, j \in Inodes(u)
    <3> QED BY ONLY <3>1, <3>2
  <2> QED BY ONLY <1>8, <2>2 DEF Alike
<1> QED BY <1>11 DEF u

LEMMA RemoveOrphanAlike ==
    ASSUME NEW t, TableTyped(t), NEW i, NEW E PROVE Honest(t, RemoveOrphan(t, i), E)
<1> DEFINE u == RemoveOrphan(t, i)
           x == Without(t.path, {p \in {t.ino[i].path} \cap DOMAIN t.path : t.path[p] = i})
<1>1. CASE ~Has(t, i) \/ Linked(t, i)
  BY <1>1, HonestItself DEF RemoveOrphan
<1>2. CASE Has(t, i) /\ ~Linked(t, i)
  <2>1. u = [t EXCEPT !.ino = Without(@, {i}), !.path = x]
    BY <1>2 DEF RemoveOrphan
  <2> HIDE DEF x, u
  <2>2. Inodes(u) = Inodes(t) \ {i} /\ \A j \in Inodes(u) : u.ino[j] = t.ino[j]
    BY <2>1 DEF Inodes, TableTyped, Without, Restrict
  <2>3. Alike(t, u, {i})
    BY <2>2 DEF Alike
  <2>4. ~(t.ino[i].nlink > 0)
    BY <1>2 DEF Linked
  <2> QED BY <2>3, <2>4, AlikeHonest DEF u
<1> QED BY <1>1, <1>2

\* What lies below an inode lies below its path.
LEMMA SubtreePaths ==
    ASSUME NEW t, Sound(t), NEW i \in Inodes(t)
    PROVE  \A j \in Subtree(t, i) : j = i \/ (t.ino[j].path \in Path /\ t.ino[i].path \in Ancestors[t.ino[j].path])
<1>0. TableTyped(t) /\ RootStays(t) /\ Below(t) /\ ChildrenTell(t)
  BY Facts DEF Sound
<1> DEFINE S == {j \in Inodes(t) : j = i \/ (t.ino[j].path \in Path /\ t.ino[i].path \in Ancestors[t.ino[j].path])}
<1>1. ASSUME NEW j \in S, NEW c \in t.ino[j].children PROVE c.ino \in S
  <2>1. c.name \in DOMAIN t.ino[j].index /\ c.ino = t.ino[j].index[c.name] /\ j \in Inodes(t)
    BY <1>0, ChildIs
  <2>2. c.ino \in Inodes(t) /\ t.ino[c.ino].parent = j /\ t.ino[c.ino].path = c.name /\ c.name \in Path
    BY <1>0, <2>1 DEF ChildrenTell, TableTyped, EntryOK
  <2>3. c.ino # RootIno
    BY <1>0, <2>2, PathAssumption DEF RootStays
  <2>4. Up[c.name] = t.ino[j].path
    BY <1>0, <2>1, <2>2, <2>3 DEF Below, Has
  <2>5. Ancestors[c.name] = {t.ino[j].path} \cup Ancestors[t.ino[j].path]
    BY <2>2, <2>4, AncestorsAre
  <2> QED BY <2>2, <2>5
<1>2. Closed(t, S)
  <2> HIDE DEF S
  <2> QED BY <1>1 DEF Closed
<1>3. S \in SUBSET Inodes(t) /\ i \in S
  OBVIOUS
<1>4. Subtree(t, i) \subseteq S
  <2> HIDE DEF S
  <2> QED BY <1>2, <1>3 DEF Subtree
<1> QED BY <1>4

\* An inode leaves that the Hub does not have, or that has a file in its place.
LEMMA RemoveInodeHonest ==
    ASSUME NEW t, Sound(t), NEW i, i # RootIno, Linked(t, i), HubIsTree, NEW E,
           \/ IsFile(t, i) /\ (i \in E \/ Gone(t, i))
           \/ Absent(t.ino[i].path)
           \/ IsDir(t, i) /\ Hub[t.ino[i].path] # None
    PROVE  Honest(t, RemoveInode(t, i), E)
<1> DEFINE G == Subtree(t, i)
           p == t.ino[i].path
<1>0. /\ TableTyped(t) /\ Below(t) /\ Kinds(t) /\ i \in Inodes(t) /\ p \in Path
  BY Facts DEF Sound, Linked, Has, Below
<1>1. Alike(t, RemoveInode(t, i), G)
  BY RemoveInodeKeeps, CutAlike
<1>2. t.ino[i].kind = "file" => G = {i}
  BY <1>0, SubtreeIs DEF Sound
<1>3. ASSUME NEW j \in G PROVE j = i \/ (t.ino[j].path \in Path /\ p \in Ancestors[t.ino[j].path])
  BY <1>0, SubtreePaths
<1> HIDE DEF G
<1>4. CASE IsFile(t, i) /\ (i \in E \/ Gone(t, i))
  BY <1>1, <1>2, <1>4, AlikeHonest DEF IsFile
<1>5. CASE Absent(p) \/ (IsDir(t, i) /\ Hub[p] # None)
  <2>1. ASSUME NEW j \in G PROVE Gone(t, j)
    <3>1. CASE j = i
      <4>1. Hub[p] # None => ~IsHubDir(p)
        BY <1>0, PathAssumption DEF HubIsTree, IsHubDir
      <4> QED BY <1>5, <3>1, <4>1 DEF Gone, Absent, IsDir
    <3>2. CASE j # i
      <4>1. Absent(t.ino[j].path)
        BY <1>0, <1>3, <1>5, <3>2, AbsentBelow
      <4> QED BY <4>1 DEF Gone, Absent
    <3> QED BY <3>1, <3>2
  <2> QED BY <1>1, <2>1, AlikeHonest
<1> QED BY <1>4, <1>5

\* What the Hub says of a file.
LEMMA UpdateHonest ==
    ASSUME NEW t, TableTyped(t), NEW i, NEW hash, NEW E
    PROVE  LET u == UpdateRemoteFile(t, i, hash)
           IN  /\ Inodes(u) = Inodes(t)
               /\ Modest(t, u, E)
               /\ (Has(t, i) => hash = Hub[t.ino[i].path]) =>
                     Honest(t, u, E) /\ (i \in CleanFiles(u) => Right(u, i))
<1> DEFINE u == UpdateRemoteFile(t, i, hash)
<1>1. CASE ~(Has(t, i) /\ ~t.ino[i].dirty)
  <2>1. u = t
    BY <1>1 DEF UpdateRemoteFile
  <2>2. i \notin CleanFiles(u)
    BY <1>1, <2>1 DEF CleanFiles, Has
  <2> QED BY <2>1, <2>2, HonestItself DEF Honest, Modest
<1>2. CASE Has(t, i) /\ ~t.ino[i].dirty
  <2>1. u = [t EXCEPT !.ino[i].hash = hash]
    BY <1>2 DEF UpdateRemoteFile
  <2> HIDE DEF u
  <2>2. /\ Inodes(u) = Inodes(t) /\ \A j \in Inodes(t) \ {i} : u.ino[j] = t.ino[j]
        /\ i \in Inodes(t) /\ u.ino[i] = [t.ino[i] EXCEPT !.hash = hash]
    BY <1>2, <2>1 DEF Inodes, TableTyped, Has
  <2>3. /\ u.ino[i].hash = hash /\ u.ino[i].nlookup = t.ino[i].nlookup /\ u.ino[i].path = t.ino[i].path
        /\ u.ino[i].kind = t.ino[i].kind /\ u.ino[i].dirty = t.ino[i].dirty /\ u.ino[i].nlink = t.ino[i].nlink
    BY <2>2 DEF TableTyped, EntryOK, Fields
  <2>4. Calm(t, u)
    BY <2>2, <2>3 DEF Calm
  <2>5. Lost(t, u, E)
    BY <2>2, <2>3 DEF Lost, Named
  <2>6. ASSUME hash = Hub[t.ino[i].path] PROVE Trusted(t, u) /\ Right(u, i)
    <3>1. Right(u, i)
      BY <2>3, <2>6 DEF Right
    <3> QED BY <2>2, <3>1 DEF Trusted, CleanFiles, IsFile, Linked, Has
  <2> QED BY <1>2, <2>2, <2>4, <2>5, <2>6 DEF Honest, Modest, u
<1> QED BY <1>1, <1>2

\* No clean file is new, and what the Hub has removed is not one any more.
LEMMA AlikeClean == ASSUME NEW t, NEW u, NEW G, Alike(t, u, G) PROVE CleanFiles(u) \subseteq CleanFiles(t)
<1>1. ASSUME NEW i \in CleanFiles(u) PROVE i \in CleanFiles(t)
  <2>1. /\ i \in Inodes(u) /\ i \in Inodes(t) /\ u.ino[i].kind = t.ino[i].kind /\ u.ino[i].dirty = t.ino[i].dirty
        /\ u.ino[i].nlink = t.ino[i].nlink \/ u.ino[i].nlink = 0
    BY <1>1 DEF Alike, SeenFields, CleanFiles
  <2> QED BY <1>1, <2>1 DEF CleanFiles, IsFile, Linked, Has
<1> QED BY <1>1
LEMMA RemoveRemoteFileAlike ==
    ASSUME NEW t, Sound(t), NEW i, Has(t, i) => IsFile(t, i),
           Has(t, i) /\ ~Linked(t, i) => t.ino[i].path \notin DOMAIN t.path
    PROVE  Alike(t, RemoveRemoteFile(t, i), {i}) /\ i \notin CleanFiles(RemoveRemoteFile(t, i))
<1> DEFINE u == RemoveRemoteFile(t, i)
<1>0. /\ TableTyped(t) /\ RootStays(t) /\ LinkedTell(t) /\ Alike(t, t, {i})
  BY Facts DEF Sound, Alike
<1>1. CASE ~Has(t, i) \/ t.ino[i].dirty
  BY <1>0, <1>1 DEF RemoveRemoteFile, CleanFiles, Has
<1>2. CASE Has(t, i) /\ ~t.ino[i].dirty /\ ~Linked(t, i)
  BY <1>0, <1>2, NoNameToGo DEF CleanFiles
<1>3. CASE Has(t, i) /\ ~t.ino[i].dirty /\ Linked(t, i)
  <2>1. /\ i \in Inodes(t) \ {RootIno} /\ t.ino[i].kind = "file" /\ t.ino[i].nlink > 0
        /\ LookupChild(t, t.ino[i].parent, t.ino[i].path) = i
    BY <1>0, <1>3 DEF Has, IsFile, Linked, RootStays, LinkedTell, LookupChild
  <2>2. CASE IsOpen(t, i)
    <3>1. u = UnlinkOne(t, t.ino[i].parent, t.ino[i].path)
      BY <1>3, <2>2 DEF RemoveRemoteFile
    <3> HIDE DEF u
    <3>2. Alike(t, u, {i})
      BY <1>3, <2>1, <3>1, UnlinkAlike
    <3>3. u.ino[i].nlink = 0
      BY <1>3, <2>1, <3>1, UnlinkOneKeeps
    <3> QED BY <3>2, <3>3 DEF u, CleanFiles, Linked
  <2>3. CASE ~IsOpen(t, i)
    <3>1. u = RemoveInode(t, i)
      BY <1>3, <2>3 DEF RemoveRemoteFile
    <3> HIDE DEF u
    <3>2. Cut(t, u, Subtree(t, i))
      BY <1>3, <2>1, <3>1, RemoveInodeKeeps
    <3>3. Subtree(t, i) = {i}
      BY <2>1, SubtreeIs DEF Sound
    <3>4. Cut(t, u, {i})
      BY <3>2, <3>3
    <3> QED BY <3>4, CutAlike DEF u, CleanFiles, Cut
  <2> QED BY <2>2, <2>3
<1> QED BY <1>1, <1>2, <1>3
LEMMA RemoveRemoteFileHonest ==
    ASSUME NEW t, Sound(t), NEW i, Has(t, i) => IsFile(t, i),
           Has(t, i) /\ ~Linked(t, i) => t.ino[i].path \notin DOMAIN t.path,
           NEW E, Linked(t, i) => i \in E \/ Gone(t, i)
    PROVE  Honest(t, RemoveRemoteFile(t, i), E)
<1>1. Alike(t, RemoveRemoteFile(t, i), {i})
  BY RemoveRemoteFileAlike
<1>2. \A j \in {i} \cap Inodes(t) \cap Ino : refs[j] > 0 /\ t.ino[j].nlink > 0 => j \in E \/ Gone(t, j)
  BY DEF Linked, Has
<1> QED BY <1>1, <1>2, AlikeHonest

\* A new name: a directory, or a file with the content that the Hub has.
LEMMA InsertHonest ==
    ASSUME NEW t, Sound(t), NEW d, IsDir(t, d), NEW p \in Path, Up[p] = t.ino[d].path,
           NEW kind \in {"file", "dir"}, NEW hash \in 0..MaxRev, NEW E
    PROVE  LET u == Insert(t, d, p, kind, hash)
           IN  /\ Modest(t, u, E)
               /\ \A i \in CleanFiles(u) : i # t.next =>
                     i \in CleanFiles(t) /\ u.ino[i].hash = t.ino[i].hash
               /\ (kind = "file" => hash = Hub[p]) => Honest(t, u, E)
<1> DEFINE u == Insert(t, d, p, kind, hash)
<1>1. CASE p \in DOMAIN t.path
  BY <1>1, HonestItself DEF Insert, Honest
<1>2. CASE p \notin DOMAIN t.path
  <2> DEFINE e == AddChild(t.ino[d], t.next, p)
             n == NewEntry(kind, p, d, hash)
  <2>1. /\ d \in Inodes(t) /\ t.next \notin Inodes(t)
        /\ Inodes(u) = Inodes(t) \cup {t.next} /\ u.ino[t.next] = n /\ u.ino[d] = e
        /\ \A i \in Inodes(t) \ {d} : u.ino[i] = t.ino[i]
    BY <1>2, InsertKeeps, SoundTyped DEF Inserted, IsDir, Has, TableTyped
  <2>2. /\ e.nlookup = t.ino[d].nlookup /\ e.path = t.ino[d].path /\ e.kind = t.ino[d].kind
        /\ e.dirty = t.ino[d].dirty /\ e.nlink = t.ino[d].nlink /\ e.hash = t.ino[d].hash
    <3> DEFINE x == With(t.ino[d].index, p, t.next)
               y == t.ino[d].children \cup {[ino |-> t.next, name |-> p]}
    <3>1. e = [t.ino[d] EXCEPT !.children = y, !.index = x]
      BY DEF AddChild
    <3> HIDE DEF x, y, e
    <3> QED BY <2>1, <3>1, SoundTyped DEF TableTyped, EntryOK, Fields
  <2>3. n.kind = kind /\ n.path = p /\ n.hash = hash
    BY DEF NewEntry
  <2> HIDE DEF e, n, u
  <2>4. Calm(t, u) /\ Lost(t, u, E)
    BY <2>1, <2>2 DEF Calm, Lost, Named
  <2>5. \A i \in CleanFiles(u) : i # t.next => i \in CleanFiles(t) /\ u.ino[i].hash = t.ino[i].hash
    BY <2>1, <2>2 DEF CleanFiles, IsFile, Linked, Has
  <2>6. ASSUME kind = "file" => hash = Hub[p] PROVE Trusted(t, u)
    <3>1. t.next \in CleanFiles(u) => Right(u, t.next)
      BY <2>1, <2>3, <2>6 DEF CleanFiles, IsFile, Right
    <3> QED BY <2>5, <3>1 DEF Trusted
  <2> QED BY <2>4, <2>5, <2>6 DEF Honest, Modest, u
<1> QED BY <1>1, <1>2

\* Evicted files have no reference of the kernel.
Referred(t) == \A i \in Inodes(t) \ {RootIno} : refs[i] > 0 => t.ino[i].nlookup > 0
LEMMA ReferredOn ==
    ASSUME NEW t, TableTyped(t), NEW u, Referred(t), Inodes(u) \subseteq Inodes(t), Calm(t, u) PROVE Referred(u)
  BY DEF Referred, Calm
LEMMA EvictIfSafeHonest ==
    ASSUME NEW t, Sound(t), Referred(t), NEW i, NEW E PROVE Honest(t, EvictIfSafe(t, i), E)
<1>0. TableTyped(t) /\ RootStays(t)
  BY Facts DEF Sound
<1>1. CASE MayEvict(t, i)
  <2>1. i \in Inodes(t) /\ i # RootIno /\ t.ino[i].nlookup = 0
    BY <1>0, <1>1 DEF MayEvict, IsFile, Has, RootStays
  <2>2. Alike(t, Evict(t, {i}), {i})
    BY <1>0, <2>1, EvictAlike
  <2>3. ~(refs[i] > 0)
    BY <2>1 DEF Referred
  <2>4. Honest(t, Evict(t, {i}), E)
    BY <2>2, <2>3, AlikeHonest
  <2> QED BY <1>1, <2>4 DEF EvictIfSafe
<1>2. CASE ~MayEvict(t, i)
  BY <1>2, HonestItself DEF EvictIfSafe
<1> QED BY <1>1, <1>2
LEMMA EvictBatchHonest ==
    ASSUME NEW t, Sound(t), Referred(t), NEW S, NEW E PROVE Honest(t, EvictBatchIfSafe(t, S), E)
<1> DEFINE T == {i \in S : MayEvict(t, i) /\ ~IsOpen(t, i)}
<1>0. TableTyped(t) /\ RootStays(t)
  BY Facts DEF Sound
<1>1. T \in SUBSET Inodes(t) /\ \A i \in T : i # RootIno /\ t.ino[i].nlookup = 0
  BY <1>0 DEF MayEvict, IsFile, Has, RootStays
<1>2. \A i \in T : ~(refs[i] > 0)
  BY <1>1 DEF Referred
<1> HIDE DEF T
<1>3. Alike(t, Evict(t, T), T)
  BY <1>0, <1>1, EvictAlike
<1>4. Honest(t, Evict(t, T), E)
  BY <1>2, <1>3, AlikeHonest
<1> QED BY <1>4 DEF EvictBatchIfSafe, T

-----------------------------------------------------------------------------
(* Folds.  The fold of a finite set is an iteration over its subsets; what *)
(* each step keeps, the fold keeps, by a smallest subset that had lost it. *)
(* The induction is the same for the five folds of the model; k.of says    *)
(* which of them it is.                                                    *)

\* One step of a fold: x joins the elements folded into acc.
Step(k, x, acc) ==
    CASE k.of = "fill" -> Insert(acc, k.dir, x.path, KindOf(x), x.hash)
      [] k.of = "prune" -> IF HasDirtyOrOpen(acc, x) THEN acc ELSE RemoveInode(acc, x)
      [] k.of = "update" -> UpdateRemoteFile(acc, x.ino, x.hash)
      [] k.of = "delete" -> RemoveRemoteFile(acc, x)
      [] k.of = "replay" -> [table |-> ApplyChange(acc.table, k.batch[x]),
                             dirs |-> acc.dirs \cup Stale(acc.table, k.batch[x])]
Pick(k, s) == IF k.of = "replay" THEN Max(s) ELSE CHOOSE x \in s : TRUE

\* What is true of acc once the elements of s are folded in.
Good(k, s, acc) ==
    CASE k.of = "fill" -> /\ Sound(acc) /\ Keeps(k.table, acc)
                          /\ IsDir(acc, k.dir) /\ acc.ino[k.dir].path = k.table.ino[k.dir].path
                          /\ k.hub => Honest(k.table, acc, {})
      [] k.of = "prune" -> /\ Sound(acc) /\ Keeps(k.table, acc) /\ acc.next = k.table.next
                           /\ IsDir(acc, k.dir)
                           /\ \A j \in Inodes(acc) : j \in Inodes(k.table) /\ acc.ino[j].nlink = k.table.ino[j].nlink
                           /\ k.hub => Honest(k.table, acc, {})
      [] k.of = "update" -> /\ Sound(acc) /\ Keeps(k.table, acc) /\ acc.path = k.table.path
                            /\ acc.next = k.table.next /\ Inodes(acc) = Inodes(k.table)
                            /\ \A j \in Inodes(acc) : acc.ino[j].nlink = k.table.ino[j].nlink
                            /\ k.hub => /\ Honest(k.table, acc, {})
                                        /\ \A x \in s : x.ino \in CleanFiles(acc) => Right(acc, x.ino)
      [] k.of = "delete" -> /\ Sound(acc) /\ Keeps(k.table, acc) /\ acc.next = k.table.next
                            /\ \A j \in Inodes(acc) : j \in k.inos /\ acc.ino[j].nlink = 0
                                                      => acc.ino[j].path \notin DOMAIN acc.path
                            /\ \A i \in s : i \notin CleanFiles(acc)
                            /\ \A d : IsDir(k.table, d) => IsDir(acc, d)
                            /\ k.hub => Honest(k.table, acc, {})
      [] k.of = "replay" -> /\ Sound(acc.table) /\ Keeps(k.table, acc.table) /\ acc.table.next = k.table.next
                            /\ Modest(k.table, acc.table, k.told)

LEMMA SmallestSubset ==
    ASSUME NEW S, IsFiniteSet(S), NEW T, T \subseteq SUBSET S, T # {}
    PROVE  \E x \in T : \A y \in T : y \subseteq x => y = x
<1>1. IsWellFoundedOn(StrictSubsetOrdering(S), FiniteSubsetsOf(S))
  BY FS_StrictSubsetOrderingWellFounded
<1>2. T \subseteq FiniteSubsetsOf(S)
  BY FS_Subset DEF FiniteSubsetsOf
<1>3. PICK x \in T : \A y \in T : <<y, x>> \notin StrictSubsetOrdering(S)
  BY <1>1, <1>2, WFMin
<1>4. ASSUME NEW y \in T, y \subseteq x, y # x PROVE FALSE
  <2>1. <<y, x>> \in StrictSubsetOrdering(S)
    BY <1>4 DEF StrictSubsetOrdering
  <2> QED BY <2>1, <1>3
<1> QED BY <1>4

Iter(k, base, T, h) ==
    h = [s \in SUBSET T |-> IF s = {} THEN base ELSE Step(k, Pick(k, s), h[s \ {Pick(k, s)}])]

LEMMA IterAt ==
    ASSUME NEW k, NEW base, NEW T, NEW h, Iter(k, base, T, h), NEW s \in SUBSET T
    PROVE  h[s] = IF s = {} THEN base ELSE Step(k, Pick(k, s), h[s \ {Pick(k, s)}])
BY DEF Iter

LEMMA IterUnique ==
    ASSUME NEW k, NEW base, NEW S, IsFiniteSet(S), \A s \in SUBSET S : s # {} => Pick(k, s) \in s,
           NEW A, A \subseteq S, NEW B, B \subseteq S, NEW g, NEW h,
           Iter(k, base, A, g), Iter(k, base, B, h)
    PROVE  \A s \in SUBSET (A \cap B) : g[s] = h[s]
<1> DEFINE Bad == {s \in SUBSET (A \cap B) : g[s] # h[s]}
<1>1. SUFFICES ASSUME Bad # {} PROVE FALSE
  OBVIOUS
<1>2. Bad \subseteq SUBSET S
  OBVIOUS
<1>3. PICK s \in Bad : \A r \in Bad : r \subseteq s => r = s
  <2> HIDE DEF Bad
  <2> QED BY <1>1, <1>2, SmallestSubset
<1>4. /\ g[s] = IF s = {} THEN base ELSE Step(k, Pick(k, s), g[s \ {Pick(k, s)}])
      /\ h[s] = IF s = {} THEN base ELSE Step(k, Pick(k, s), h[s \ {Pick(k, s)}])
  BY <1>3, IterAt
<1>5. s # {} /\ Pick(k, s) \in s
  BY <1>2, <1>3, <1>4
<1>6. s \ {Pick(k, s)} \notin Bad
  BY <1>3, <1>5
<1> QED BY <1>3, <1>4, <1>5, <1>6

LEMMA IterExists ==
    ASSUME NEW k, NEW base, NEW S, IsFiniteSet(S), \A s \in SUBSET S : s # {} => Pick(k, s) \in s
    PROVE  \E h : Iter(k, base, S, h)
<1> DEFINE Bad == {s \in SUBSET S : ~\E h : Iter(k, base, s, h)}
<1>1. SUFFICES ASSUME Bad # {} PROVE FALSE
  OBVIOUS
<1>b. Bad \subseteq SUBSET S
  OBVIOUS
<1>2. PICK T \in Bad : \A r \in Bad : r \subseteq T => r = T
  <2> HIDE DEF Bad
  <2> QED BY <1>1, <1>b, SmallestSubset
<1> DEFINE Sol(r) == CHOOSE h : Iter(k, base, r, h)
           H == [s \in SUBSET T |-> IF s = {} THEN base
                                    ELSE Step(k, Pick(k, s), Sol(s \ {Pick(k, s)})[s \ {Pick(k, s)}])]
<1>3. \A r \in SUBSET T : r # T => Iter(k, base, r, Sol(r))
  BY <1>2
<1>4. ASSUME NEW r \in SUBSET T, r # T PROVE H[r] = Sol(r)[r]
  <2>1. Iter(k, base, r, Sol(r))
    BY <1>3, <1>4
  <2>2. Sol(r)[r] = IF r = {} THEN base ELSE Step(k, Pick(k, r), Sol(r)[r \ {Pick(k, r)}])
    BY <2>1, IterAt
  <2>3. CASE r = {}
    BY <2>2, <2>3
  <2>4. CASE r # {}
    <3> DEFINE q == r \ {Pick(k, r)}
    <3>1. Pick(k, r) \in r /\ q \subseteq r /\ q \in SUBSET T /\ q # T
      BY <2>4, <1>4
    <3>2. Iter(k, base, q, Sol(q))
      BY <1>3, <3>1
    <3>3. Sol(r)[q] = Sol(q)[q]
      <4>1. r \subseteq S /\ q \subseteq S /\ q \in SUBSET (r \cap q)
        BY <3>1
      <4> HIDE DEF q, Sol
      <4> QED BY <2>1, <3>2, <4>1, IterUnique
    <3> QED BY <2>2, <2>4, <3>3
  <2> QED BY <2>3, <2>4
<1>5. Iter(k, base, T, H)
  <2>1. ASSUME NEW s \in SUBSET T, s # {} PROVE H[s \ {Pick(k, s)}] = Sol(s \ {Pick(k, s)})[s \ {Pick(k, s)}]
    <3>1. s \ {Pick(k, s)} \in SUBSET T /\ s \ {Pick(k, s)} # T
      BY <2>1
    <3> QED BY <3>1, <1>4
  <2>2. \A s \in SUBSET T : (IF s = {} THEN base ELSE Step(k, Pick(k, s), Sol(s \ {Pick(k, s)})[s \ {Pick(k, s)}]))
                          = (IF s = {} THEN base ELSE Step(k, Pick(k, s), H[s \ {Pick(k, s)}]))
    <3> HIDE DEF H, Sol
    <3> QED BY <2>1
  <2> DEFINE V(s) == IF s = {} THEN base ELSE Step(k, Pick(k, s), Sol(s \ {Pick(k, s)})[s \ {Pick(k, s)}])
             W(s) == IF s = {} THEN base ELSE Step(k, Pick(k, s), H[s \ {Pick(k, s)}])
  <2>3. H = [s \in SUBSET T |-> V(s)]
    OBVIOUS
  <2>4. H = [s \in SUBSET T |-> W(s)]
    <3>1. \A s \in SUBSET T : V(s) = W(s)
      BY <2>2
    <3> HIDE DEF H, V, W
    <3> QED BY <2>3, <3>1
  <2> QED BY <2>4 DEF Iter
<1> QED BY <1>2, <1>5

\* What lets Good be carried along the fold of S from base.
Folds(k, base, S) ==
    /\ IsFiniteSet(S)
    /\ \A s \in SUBSET S : s # {} => Pick(k, s) \in s
    /\ Good(k, {}, base)
    /\ \A s \in SUBSET S : \A acc :
          s # {} /\ Good(k, s \ {Pick(k, s)}, acc) => Good(k, s, Step(k, Pick(k, s), acc))

LEMMA FoldKeeps ==
    ASSUME NEW k, NEW base, NEW S, Folds(k, base, S), NEW h, Iter(k, base, S, h)
    PROVE  Good(k, S, h[S])
<1> DEFINE Bad == {s \in SUBSET S : ~Good(k, s, h[s])}
<1>0. IsFiniteSet(S) /\ \A s \in SUBSET S : s # {} => Pick(k, s) \in s
  BY DEF Folds
<1>1. Bad \subseteq SUBSET S
  OBVIOUS
<1>2. ASSUME Bad # {} PROVE FALSE
  <2>1. PICK s \in Bad : \A r \in Bad : r \subseteq s => r = s
    <3> HIDE DEF Bad
    <3> QED BY <1>0, <1>1, <1>2, SmallestSubset
  <2>2. s \in SUBSET S /\ ~Good(k, s, h[s])
    OBVIOUS
  <2>3. h[s] = IF s = {} THEN base ELSE Step(k, Pick(k, s), h[s \ {Pick(k, s)}])
    <3> HIDE DEF Bad
    <3> QED BY <2>2, IterAt
  <2>4. s # {} /\ Pick(k, s) \in s
    BY <1>0, <2>2, <2>3 DEF Folds
  <2>5. s \ {Pick(k, s)} \notin Bad
    BY <2>1, <2>4
  <2>6. Good(k, s \ {Pick(k, s)}, h[s \ {Pick(k, s)}])
    BY <2>2, <2>5
  <2> QED BY <2>2, <2>3, <2>4, <2>6 DEF Folds
<1> QED BY <1>2

LEMMA AnyOne == \A s : s # {} => (CHOOSE x \in s : TRUE) \in s
  OBVIOUS

\* The names of a listing come in.
Filled(t, d, list) == FoldSet(LAMBDA e, acc : Insert(acc, d, e.path, KindOf(e), e.hash), t, list)
LEMMA FillKeeps ==
    ASSUME NEW t, Sound(t), NEW d, IsDir(t, d), NEW list, IsFiniteSet(list), list \subseteq [path : Path, hash : 0..MaxRev],
           \A e \in list : Up[e.path] = t.ino[d].path
    PROVE  LET u == Filled(t, d, list)
           IN  /\ Sound(u) /\ Keeps(t, u) /\ IsDir(u, d) /\ u.ino[d].path = t.ino[d].path
               /\ (\A e \in list : e.hash = Hub[e.path]) => Honest(t, u, {})
<1> DEFINE hub == \A e \in list : e.hash = Hub[e.path]
           k == [of |-> "fill", table |-> t, dir |-> d, hub |-> hub]
           More(g, s) == LET x == CHOOSE y \in s : TRUE IN Insert(g[s \ {x}], d, x.path, KindOf(x), x.hash)
           h == CHOOSE h : h = [s \in SUBSET list |-> IF s = {} THEN t ELSE More(h, s)]
           u == Filled(t, d, list)
<1>1. u = h[list]
  BY DEF Filled, FoldSet, MapThenFoldSet
<1> HIDE DEF hub
<1>2. /\ \A x, s, acc : Step(k, x, acc) = Insert(acc, d, x.path, KindOf(x), x.hash)
      /\ \A s : Pick(k, s) = CHOOSE y \in s : TRUE
      /\ \A s, acc : Good(k, s, acc) <=> /\ Sound(acc) /\ Keeps(t, acc)
                                         /\ IsDir(acc, d) /\ acc.ino[d].path = t.ino[d].path
                                         /\ hub => Honest(t, acc, {})
  BY DEF Step, Pick, Good
<1> USE DEF hub
<1> HIDE DEF k
<1>3. \A s \in SUBSET list : s # {} => Pick(k, s) \in s
  BY <1>2, AnyOne
<1>4. \E g : Iter(k, t, list, g)
  BY <1>3, IterExists
<1>5. Iter(k, t, list, h)
  <2>1. \A g, s : Step(k, Pick(k, s), g[s \ {Pick(k, s)}]) = More(g, s)
    BY <1>2
  <2> HIDE DEF More
  <2>2. \A g : Iter(k, t, list, g) <=> g = [s \in SUBSET list |-> IF s = {} THEN t ELSE More(g, s)]
    BY <2>1 DEF Iter
  <2> QED BY <1>4, <2>2
<1> HIDE DEF h
<1>6. Folds(k, t, list)
  <2>1. Good(k, {}, t)
    BY <1>2, SoundTyped, HonestItself
  <2>2. ASSUME NEW s \in SUBSET list, NEW acc, s # {}, Good(k, s \ {Pick(k, s)}, acc)
        PROVE  Good(k, s, Step(k, Pick(k, s), acc))
    <3> DEFINE x == Pick(k, s)
               v == Insert(acc, d, x.path, KindOf(x), x.hash)
    <3>1. x \in list /\ KindOf(x) \in {"file", "dir"}
      BY <1>3, <2>2 DEF KindOf
    <3>2. /\ Sound(acc) /\ Keeps(t, acc) /\ IsDir(acc, d) /\ acc.ino[d].path = t.ino[d].path
          /\ hub => Honest(t, acc, {})
      BY <1>2, <2>2
    <3> HIDE DEF x
    <3>3. x.path \in Path /\ x.hash \in 0..MaxRev /\ Up[x.path] = acc.ino[d].path
      BY <3>1, <3>2
    <3>4. Sound(v) /\ Keeps(acc, v) /\ Inodes(acc) \subseteq Inodes(v)
      BY <3>1, <3>2, <3>3, InsertKeeps
    <3>7. hub => Honest(acc, v, {})
      BY <3>1, <3>2, <3>3, InsertHonest
    <3> HIDE DEF v, hub
    <3>5. IsDir(v, d) /\ v.ino[d].path = t.ino[d].path
      <4>1. d \in Inodes(acc) /\ d < acc.next
        BY <3>2, SoundTyped DEF IsDir, Has, TableTyped
      <4> QED BY <3>2, <3>4, <4>1 DEF IsDir, Has, Keeps, Grows
    <3>6. Keeps(t, v)
      BY <3>2, <3>4, SoundTyped, KeepsOn
    <3>8. hub => Honest(t, v, {})
      BY <3>2, <3>4, <3>7, SoundTyped, HonestOn DEF Keeps
    <3> QED BY <1>2, <3>4, <3>5, <3>6, <3>8 DEF v, x
  <2> QED BY <1>3, <2>1, <2>2 DEF Folds
<1>7. Good(k, list, u)
  BY <1>1, <1>5, <1>6, FoldKeeps
<1> QED BY <1>2, <1>7

\* Children of d that have nothing dirty or open below leave.
Pruned(t, S) == FoldSet(LAMBDA i, acc : IF HasDirtyOrOpen(acc, i) THEN acc ELSE RemoveInode(acc, i), t, S)
LEMMA PruneKeeps ==
    ASSUME NEW t, Sound(t), NEW d, IsDir(t, d), NEW S, IsFiniteSet(S),
           \A i \in S : i \in Inodes(t) /\ i # RootIno /\ t.ino[i].nlink > 0 /\ i > d
    PROVE  LET u == Pruned(t, S)
           IN  /\ Sound(u) /\ Keeps(t, u) /\ IsDir(u, d)
               /\ HubIsTree /\ (\A i \in S : Absent(t.ino[i].path)) => Honest(t, u, {})
<1> DEFINE hub == HubIsTree /\ \A i \in S : Absent(t.ino[i].path)
           k == [of |-> "prune", table |-> t, dir |-> d, hub |-> hub]
           One(acc, i) == IF HasDirtyOrOpen(acc, i) THEN acc ELSE RemoveInode(acc, i)
           More(g, s) == LET i == CHOOSE y \in s : TRUE IN One(g[s \ {i}], i)
           h == CHOOSE h : h = [s \in SUBSET S |-> IF s = {} THEN t ELSE More(h, s)]
           u == Pruned(t, S)
<1>1. u = h[S]
  BY DEF Pruned, FoldSet, MapThenFoldSet
<1> HIDE DEF hub
<1>2. \A x, s, acc : /\ Step(k, x, acc) = One(acc, x)
                     /\ Pick(k, s) = CHOOSE y \in s : TRUE
                     /\ Good(k, s, acc) <=> /\ Sound(acc) /\ Keeps(t, acc) /\ acc.next = t.next /\ IsDir(acc, d)
                                            /\ \A j \in Inodes(acc) : j \in Inodes(t) /\ acc.ino[j].nlink = t.ino[j].nlink
                                            /\ hub => Honest(t, acc, {})
  BY DEF Step, Pick, Good
<1> USE DEF hub
<1> HIDE DEF k, One
<1>3. \A s \in SUBSET S : s # {} => Pick(k, s) \in s
  BY <1>2, AnyOne
<1>4. \E g : Iter(k, t, S, g)
  BY <1>3, IterExists
<1>5. Iter(k, t, S, h)
  <2>1. \A g, s : Step(k, Pick(k, s), g[s \ {Pick(k, s)}]) = More(g, s)
    BY <1>2
  <2> HIDE DEF More
  <2>2. \A g : Iter(k, t, S, g) <=> g = [s \in SUBSET S |-> IF s = {} THEN t ELSE More(g, s)]
    BY <2>1 DEF Iter
  <2> QED BY <1>4, <2>2
<1> HIDE DEF h
<1>6. Folds(k, t, S)
  <2>1. Good(k, {}, t)
    BY <1>2, SoundTyped, HonestItself
  <2>2. ASSUME NEW s \in SUBSET S, NEW acc, s # {}, Good(k, s \ {Pick(k, s)}, acc)
        PROVE  Good(k, s, Step(k, Pick(k, s), acc))
    <3> DEFINE i == Pick(k, s)
               v == One(acc, i)
    <3>1. i \in S
      BY <1>3, <2>2
    <3>2. /\ Sound(acc) /\ Keeps(t, acc) /\ acc.next = t.next /\ IsDir(acc, d)
          /\ \A j \in Inodes(acc) : j \in Inodes(t) /\ acc.ino[j].nlink = t.ino[j].nlink
          /\ hub => Honest(t, acc, {})
      BY <1>2, <2>2
    <3> HIDE DEF i
    <3>3. CASE v = acc
      BY <1>2, <3>2, <3>3 DEF i
    <3>4. CASE Has(acc, i) /\ ~HasDirtyOrOpen(acc, i)
      <4>0. v = RemoveInode(acc, i) /\ Linked(acc, i) /\ i # RootIno /\ i > d
        BY <3>1, <3>2, <3>4 DEF One, Linked, Has
      <4> HIDE DEF v
      <4>1. Sound(v) /\ Keeps(acc, v) /\ Cut(acc, v, Subtree(acc, i))
        BY <3>2, <3>4, <4>0, RemoveInodeKeeps
      <4>2. d \notin Subtree(acc, i) /\ d \in Inodes(acc)
        <5>1. d \in Nat /\ i \in Nat /\ d \in Inodes(acc)
          BY <3>2, <3>4, SoundTyped DEF TableTyped, IsDir, Has
        <5>2. \A j \in Subtree(acc, i) : j >= i
          BY <3>2, <3>4, SubtreeIs DEF Sound, Has
        <5> QED BY <4>0, <5>1, <5>2
      <4>3. IsDir(v, d)
        BY <3>2, <4>1, <4>2 DEF Cut, IsDir, Has, ButFor, Fields
      <4>4. v.next = t.next /\ \A j \in Inodes(v) : j \in Inodes(t) /\ v.ino[j].nlink = t.ino[j].nlink
        BY <3>2, <4>1 DEF Cut, ButFor, Fields
      <4>5. Keeps(t, v)
        BY <3>2, <4>1, SoundTyped, KeepsOn
      <4>6. ASSUME hub PROVE Honest(t, v, {})
        <5>1. i \in Inodes(t) /\ i < t.next /\ acc.ino[i].path = t.ino[i].path
          BY <3>1, <3>2, <3>4, SoundTyped DEF TableTyped, Keeps, Grows, Has
        <5>2. Honest(acc, v, {})
          BY <3>1, <3>2, <4>0, <4>6, <5>1, RemoveInodeHonest
        <5> QED BY <3>2, <4>1, <4>6, <5>2, SoundTyped, HonestOn DEF Keeps
      <4> QED BY <1>2, <4>1, <4>3, <4>4, <4>5, <4>6 DEF i, v
    <3>5. v = acc \/ (Has(acc, i) /\ ~HasDirtyOrOpen(acc, i))
      BY DEF One, RemoveInode
    <3> QED BY <3>3, <3>4, <3>5
  <2> QED BY <1>3, <2>1, <2>2 DEF Folds
<1>7. Good(k, S, u)
  BY <1>1, <1>5, <1>6, FoldKeeps
<1> QED BY <1>2, <1>7

LEMMA FiniteInodes == ASSUME NEW t, TableTyped(t) PROVE IsFiniteSet(Inodes(t))
<1>1. Inodes(t) \subseteq 1..t.next
  BY DEF TableTyped
<1>2. IsFiniteSet(1..t.next)
  BY FS_Interval DEF TableTyped
<1> QED BY <1>1, <1>2, FS_Subset

\* A field without a type of its own.
LEMMA MarkFits == ASSUME NEW e, EntryOK(e), NEW v, NEW f \in {"loaded", "remote", "local", "evict"}
                  PROVE  EntryOK([e EXCEPT ![f] = v])
<1> DEFINE g == [e EXCEPT ![f] = v]
<1>1. ButFor(e, g, {f}) /\ f \in Fields
  BY DEF ButFor, EntryOK, Fields
<1> HIDE DEF g
<1>2. EntryOK(g)
  BY <1>1 DEF ButFor, EntryOK, Fields
<1> QED BY <1>2 DEF g

LEMMA MarkKeeps ==
    ASSUME NEW t, Sound(t), NEW i, Has(t, i), NEW v, NEW f \in {"loaded", "remote", "local", "evict"},
           NEW u, u = [t EXCEPT !.ino[i][f] = v]
    PROVE  /\ Sound(u) /\ Keeps(t, u) /\ u.next = t.next /\ Inodes(u) = Inodes(t)
           /\ Tweaked(t, u, {f}) /\ \A j \in Inodes(t) \ {i} : u.ino[j] = t.ino[j]
<1>0. TableTyped(t) /\ i \in Inodes(t) /\ EntryOK(t.ino[i]) /\ f \in Fields
  BY SoundTyped DEF TableTyped, Has, Fields
<1>1. EntryOK([t.ino[i] EXCEPT ![f] = v])
  BY <1>0, MarkFits
<1>2. Tweaked(t, u, {f}) /\ \A j \in Inodes(t) \ {i} : u.ino[j] = t.ino[j]
  BY ONLY SMT, Sound(t), Has(t, i), f \in {"loaded", "remote", "local", "evict"}, u = [t EXCEPT !.ino[i][f] = v], <1>0, <1>1, TweakOne
<1>3. {f} \cap (NameFields \cup {"open", "dirty"}) = {}
  BY DEF NameFields
<1>4. Sound(u) /\ Keeps(t, u) /\ u.next = t.next /\ Inodes(u) = Inodes(t)
  BY <1>2, <1>3, TweakKeeps DEF Tweaked
<1> QED BY <1>2, <1>4

LEMMA ListedKeeps ==
    ASSUME NEW t, Sound(t), NEW d, IsDir(t, d), NEW list, IsFiniteSet(list), list \subseteq [path : Path, hash : 0..MaxRev],
           \A e \in list : Up[e.path] = t.ino[d].path
    PROVE  /\ Sound(Listed(t, d, list)) /\ Keeps(t, Listed(t, d, list))
           /\ HubIsTree /\ list = ListTree(t.ino[d].path) => Honest(t, Listed(t, d, list), {})
<1> DEFINE names == {e.path : e \in list}
           filled == Filled(t, d, list)
           stale == {c.ino : c \in {x \in filled.ino[d].children :
                      /\ x.name \notin names /\ Has(filled, x.ino)
                      /\ ~filled.ino[x.ino].dirty /\ ~filled.ino[x.ino].local}}
           pruned == Pruned(filled, stale)
           marked == [pruned EXCEPT !.ino[d].loaded = TRUE]
           u == [marked EXCEPT !.ino[d].remote = TRUE]
           hub == HubIsTree /\ list = ListTree(t.ino[d].path)
<1>1. /\ Sound(filled) /\ Keeps(t, filled) /\ IsDir(filled, d) /\ filled.ino[d].path = t.ino[d].path
      /\ (\A e \in list : e.hash = Hub[e.path]) => Honest(t, filled, {})
  BY FillKeeps
<1> HIDE DEF filled, names
<1>2. ASSUME NEW i \in stale
      PROVE  /\ i \in Inodes(filled) /\ i # RootIno /\ filled.ino[i].nlink > 0 /\ i > d
             /\ hub => Absent(filled.ino[i].path)
  <2>0. TableTyped(filled) /\ ChildrenTell(filled) /\ Below(filled) /\ RootStays(filled) /\ d \in Inodes(filled)
    BY <1>1, Facts DEF Sound, IsDir, Has
  <2>1. PICK c \in filled.ino[d].children : i = c.ino /\ c.name \notin names
    OBVIOUS
  <2>2. c.name \in DOMAIN filled.ino[d].index /\ c = [ino |-> filled.ino[d].index[c.name], name |-> c.name]
    BY <2>0, ChildIs
  <2>3. i = filled.ino[d].index[c.name] /\ c.name \in Path
    BY <2>0, <2>1, <2>2 DEF TableTyped, EntryOK
  <2>4. i \in Inodes(filled) /\ filled.ino[i].nlink > 0 /\ filled.ino[i].parent = d /\ filled.ino[i].path = c.name
    BY <2>0, <2>2, <2>3 DEF ChildrenTell
  <2>5. i # RootIno
    BY <2>0, <2>3, <2>4, PathAssumption DEF RootStays
  <2>6. ASSUME hub PROVE Absent(c.name)
    <3>1. Up[c.name] = t.ino[d].path
      BY <1>1, <2>0, <2>4, <2>5 DEF Below, Has
    <3> QED BY <2>1, <2>3, <2>6, <3>1, ListTreeSays DEF names
  <2> QED BY <2>0, <2>4, <2>5, <2>6 DEF Below, TableTyped
<1>3. IsFiniteSet(stale)
  <2>1. stale \subseteq Inodes(filled)
    BY <1>2
  <2> QED BY <1>1, <2>1, SoundTyped, FiniteInodes, FS_Subset
<1> HIDE DEF stale
<1>4. /\ Sound(pruned) /\ Keeps(filled, pruned) /\ IsDir(pruned, d)
      /\ HubIsTree /\ (\A i \in stale : Absent(filled.ino[i].path)) => Honest(filled, pruned, {})
  BY <1>1, <1>2, <1>3, PruneKeeps
<1>5. u = Listed(t, d, list)
  <2>1. u = [pruned EXCEPT !.ino[d].loaded = TRUE, !.ino[d].remote = TRUE]
    OBVIOUS
  <2> QED BY <2>1 DEF Listed, Filled, Pruned, filled, stale, names
<1> HIDE DEF pruned
<1>6. /\ Sound(marked) /\ Keeps(pruned, marked) /\ Inodes(marked) = Inodes(pruned)
      /\ Tweaked(pruned, marked, {"loaded"})
  <2>1. Has(pruned, d) /\ "loaded" \in {"loaded", "remote", "local", "evict"}
    BY <1>4 DEF IsDir
  <2>2. marked = [pruned EXCEPT !.ino[d].loaded = TRUE]
    OBVIOUS
  <2> HIDE DEF marked
  <2> QED BY SMTT(30), <1>4, <2>1, <2>2, MarkKeeps
<1> HIDE DEF marked
<1>7. Sound(u) /\ Keeps(marked, u) /\ Tweaked(marked, u, {"remote"})
  <2>1. Has(marked, d) /\ "remote" \in {"loaded", "remote", "local", "evict"}
    BY <1>4, <1>6 DEF IsDir, Has
  <2>2. u = [marked EXCEPT !.ino[d].remote = TRUE]
    OBVIOUS
  <2> HIDE DEF u
  <2> QED BY SMTT(30), <1>6, <2>1, <2>2, MarkKeeps
<1> HIDE DEF u
<1>8. Keeps(t, u)
  <2>1. Keeps(t, pruned)
    BY <1>1, <1>4, SoundTyped, KeepsOn
  <2>2. Keeps(t, marked)
    BY <1>4, <1>6, <2>1, SoundTyped, KeepsOn
  <2> QED BY <1>6, <1>7, <2>2, SoundTyped, KeepsOn
<1>9. ASSUME hub PROVE Honest(t, u, {})
  <2>1. Honest(t, filled, {})
    BY <1>1, <1>9, ListTreeHashes
  <2>2. Honest(filled, pruned, {})
    BY <1>2, <1>4, <1>9
  <2>3. Honest(pruned, marked, {})
    BY <1>6, TweakAlike DEF SeenFields
  <2>4. Honest(marked, u, {})
    BY <1>7, TweakAlike DEF SeenFields
  <2>5. /\ TableTyped(t) /\ TableTyped(filled) /\ TableTyped(pruned) /\ TableTyped(marked) /\ TableTyped(u)
        /\ Grows(t, filled) /\ Grows(filled, pruned) /\ Grows(pruned, marked) /\ Grows(marked, u)
    BY <1>1, <1>4, <1>6, <1>7, SoundTyped DEF Keeps
  <2>6. Honest(t, pruned, {}) /\ Grows(t, pruned)
    BY <2>1, <2>2, <2>5, <1>1, <1>4, HonestOn, KeepsOn DEF Keeps
  <2>7. Honest(t, marked, {}) /\ Grows(t, marked)
    <3>1. Honest(t, marked, {})
      BY <2>3, <2>5, <2>6, HonestOn
    <3>2. Keeps(t, pruned)
      BY <1>1, <1>4, SoundTyped, KeepsOn
    <3>3. Keeps(t, marked)
      BY <1>4, <1>6, <3>2, SoundTyped, KeepsOn
    <3> QED BY <3>1, <3>3 DEF Keeps
  <2> QED BY <2>4, <2>5, <2>7, HonestOn
<1> QED BY <1>5, <1>7, <1>8, <1>9

\* A round's updates, then its deletions: of files that have their names, or
\* whose names nobody has.
LEMMA UpdatesKeep ==
    ASSUME NEW t, Sound(t), NEW S, IsFiniteSet(S), S \subseteq [ino : Ino, hash : 0..MaxRev]
    PROVE  LET u == FoldSet(LAMBDA x, acc : UpdateRemoteFile(acc, x.ino, x.hash), t, S)
           IN  /\ Sound(u) /\ Keeps(t, u) /\ u.path = t.path /\ u.next = t.next
               /\ Inodes(u) = Inodes(t) /\ \A j \in Inodes(u) : u.ino[j].nlink = t.ino[j].nlink
               /\ (\A x \in S : Has(t, x.ino) => x.hash = Hub[t.ino[x.ino].path]) =>
                     /\ Honest(t, u, {})
                     /\ \A x \in S : x.ino \in CleanFiles(u) => Right(u, x.ino)
<1> DEFINE hub == \A x \in S : Has(t, x.ino) => x.hash = Hub[t.ino[x.ino].path]
           k == [of |-> "update", table |-> t, hub |-> hub]
           One(acc, x) == UpdateRemoteFile(acc, x.ino, x.hash)
           More(g, s) == LET x == CHOOSE y \in s : TRUE IN One(g[s \ {x}], x)
           h == CHOOSE h : h = [s \in SUBSET S |-> IF s = {} THEN t ELSE More(h, s)]
           u == FoldSet(LAMBDA x, acc : UpdateRemoteFile(acc, x.ino, x.hash), t, S)
<1>1. u = h[S]
  BY DEF FoldSet, MapThenFoldSet
<1> HIDE DEF hub
<1>2. \A x, s, acc : /\ Step(k, x, acc) = One(acc, x)
                     /\ Pick(k, s) = CHOOSE y \in s : TRUE
                     /\ Good(k, s, acc) <=> /\ Sound(acc) /\ Keeps(t, acc) /\ acc.path = t.path /\ acc.next = t.next
                                            /\ Inodes(acc) = Inodes(t)
                                            /\ \A j \in Inodes(acc) : acc.ino[j].nlink = t.ino[j].nlink
                                            /\ hub => /\ Honest(t, acc, {})
                                                      /\ \A y \in s : y.ino \in CleanFiles(acc) => Right(acc, y.ino)
  BY DEF Step, Pick, Good
<1> USE DEF hub
<1> HIDE DEF k, One
<1>3. \A s \in SUBSET S : s # {} => Pick(k, s) \in s
  BY <1>2, AnyOne
<1>4. \E g : Iter(k, t, S, g)
  BY <1>3, IterExists
<1>5. Iter(k, t, S, h)
  <2>1. \A g, s : Step(k, Pick(k, s), g[s \ {Pick(k, s)}]) = More(g, s)
    BY <1>2
  <2> HIDE DEF More
  <2>2. \A g : Iter(k, t, S, g) <=> g = [s \in SUBSET S |-> IF s = {} THEN t ELSE More(g, s)]
    BY <2>1 DEF Iter
  <2> QED BY <1>4, <2>2
<1> HIDE DEF h
<1>6. Folds(k, t, S)
  <2>1. Good(k, {}, t)
    BY <1>2, SoundTyped, HonestItself
  <2>2. ASSUME NEW s \in SUBSET S, NEW acc, s # {}, Good(k, s \ {Pick(k, s)}, acc)
        PROVE  Good(k, s, Step(k, Pick(k, s), acc))
    <3> DEFINE x == Pick(k, s)
               v == One(acc, x)
    <3>1. x \in S
      BY <1>3, <2>2
    <3>2. /\ Sound(acc) /\ Keeps(t, acc) /\ acc.path = t.path /\ acc.next = t.next
          /\ Inodes(acc) = Inodes(t) /\ \A j \in Inodes(acc) : acc.ino[j].nlink = t.ino[j].nlink
          /\ hub => /\ Honest(t, acc, {})
                    /\ \A y \in s \ {x} : y.ino \in CleanFiles(acc) => Right(acc, y.ino)
      BY <1>2, <2>2
    <3> HIDE DEF x
    <3>3. x.hash \in 0..MaxRev
      BY <3>1
    <3>4. Sound(v) /\ Keeps(acc, v) /\ Tweaked(acc, v, {"hash"})
      BY <3>2, <3>3, UpdateKeeps DEF One
    <3>7. /\ (Has(acc, x.ino) => x.hash = Hub[acc.ino[x.ino].path]) =>
                Honest(acc, v, {}) /\ (x.ino \in CleanFiles(v) => Right(v, x.ino))
      BY <3>2, SoundTyped, UpdateHonest DEF One
    <3> HIDE DEF v
    <3>5. /\ v.path = t.path /\ v.next = t.next /\ Inodes(v) = Inodes(t)
          /\ \A j \in Inodes(v) : v.ino[j].nlink = t.ino[j].nlink
      BY <3>2, <3>4 DEF Tweaked, ButFor, Fields
    <3>6. Keeps(t, v)
      BY <3>2, <3>4, SoundTyped, KeepsOn
    <3>8. ASSUME hub PROVE Honest(t, v, {}) /\ \A y \in s : y.ino \in CleanFiles(v) => Right(v, y.ino)
      <4>0. \A j \in Inodes(t) : acc.ino[j].path = t.ino[j].path /\ v.ino[j].path = acc.ino[j].path
        BY <3>2, <3>4, <3>5, SoundTyped DEF TableTyped, Keeps, Grows
      <4>1. Honest(acc, v, {}) /\ (x.ino \in CleanFiles(v) => Right(v, x.ino))
        BY <3>1, <3>2, <3>7, <3>8, <4>0 DEF Has
      <4>2. Honest(t, v, {})
        BY <3>2, <3>4, <3>8, <4>1, SoundTyped, HonestOn DEF Keeps
      <4>3. ASSUME NEW y \in s \ {x}, y.ino \in CleanFiles(v) PROVE Right(v, y.ino)
        <5>1. Right(v, y.ino) \/ (y.ino \in CleanFiles(acc) /\ v.ino[y.ino].hash = acc.ino[y.ino].hash)
          BY <4>1, <4>3 DEF Honest, Trusted
        <5> QED BY <3>2, <3>8, <4>0, <4>3, <5>1 DEF Right, CleanFiles
      <4> QED BY <4>1, <4>2, <4>3
    <3> QED BY <1>2, <3>4, <3>5, <3>6, <3>8 DEF v, x
  <2> QED BY <1>3, <2>1, <2>2 DEF Folds
<1>7. Good(k, S, u)
  BY <1>1, <1>5, <1>6, FoldKeeps
<1> QED BY <1>2, <1>7

LEMMA DeletionsKeep ==
    ASSUME NEW t, Sound(t), NEW S, IsFiniteSet(S), \A i \in S : Has(t, i) => IsFile(t, i),
           \A i \in S : Has(t, i) /\ ~Linked(t, i) => t.ino[i].path \notin DOMAIN t.path
    PROVE  LET u == FoldSet(LAMBDA i, acc : RemoveRemoteFile(acc, i), t, S)
           IN  /\ Sound(u) /\ Keeps(t, u) /\ u.next = t.next
               /\ \A i \in S : i \notin CleanFiles(u)
               /\ \A d : IsDir(t, d) => IsDir(u, d)
               /\ (\A i \in S : Has(t, i) => Gone(t, i)) => Honest(t, u, {})
<1> DEFINE hub == \A i \in S : Has(t, i) => Gone(t, i)
           k == [of |-> "delete", table |-> t, inos |-> S, hub |-> hub]
           More(g, s) == LET i == CHOOSE y \in s : TRUE IN RemoveRemoteFile(g[s \ {i}], i)
           h == CHOOSE h : h = [s \in SUBSET S |-> IF s = {} THEN t ELSE More(h, s)]
           u == FoldSet(LAMBDA i, acc : RemoveRemoteFile(acc, i), t, S)
<1>1. u = h[S]
  BY DEF FoldSet, MapThenFoldSet
<1> HIDE DEF hub
<1>2. \A x, s, acc : /\ Step(k, x, acc) = RemoveRemoteFile(acc, x)
                     /\ Pick(k, s) = CHOOSE y \in s : TRUE
                     /\ Good(k, s, acc) <=> /\ Sound(acc) /\ Keeps(t, acc) /\ acc.next = t.next
                                            /\ \A j \in Inodes(acc) : j \in S /\ acc.ino[j].nlink = 0
                                                                      => acc.ino[j].path \notin DOMAIN acc.path
                                            /\ \A i \in s : i \notin CleanFiles(acc)
                                            /\ \A d : IsDir(t, d) => IsDir(acc, d)
                                            /\ hub => Honest(t, acc, {})
  BY DEF Step, Pick, Good
<1> USE DEF hub
<1> HIDE DEF k
<1>3. \A s \in SUBSET S : s # {} => Pick(k, s) \in s
  BY <1>2, AnyOne
<1>4. \E g : Iter(k, t, S, g)
  BY <1>3, IterExists
<1>5. Iter(k, t, S, h)
  <2>1. \A g, s : Step(k, Pick(k, s), g[s \ {Pick(k, s)}]) = More(g, s)
    BY <1>2
  <2> HIDE DEF More
  <2>2. \A g : Iter(k, t, S, g) <=> g = [s \in SUBSET S |-> IF s = {} THEN t ELSE More(g, s)]
    BY <2>1 DEF Iter
  <2> QED BY <1>4, <2>2
<1> HIDE DEF h
<1>6. Folds(k, t, S)
  <2>1. Good(k, {}, t)
    BY <1>2, SoundTyped, HonestItself DEF Has, Linked
  <2>2. ASSUME NEW s \in SUBSET S, NEW acc, s # {}, Good(k, s \ {Pick(k, s)}, acc)
        PROVE  Good(k, s, Step(k, Pick(k, s), acc))
    <3> DEFINE i == Pick(k, s)
               v == RemoveRemoteFile(acc, i)
    <3>1. i \in S
      BY <1>3, <2>2
    <3>2. /\ Sound(acc) /\ Keeps(t, acc) /\ acc.next = t.next
          /\ \A j \in Inodes(acc) : j \in S /\ acc.ino[j].nlink = 0 => acc.ino[j].path \notin DOMAIN acc.path
          /\ \A j \in s \ {i} : j \notin CleanFiles(acc)
          /\ \A d : IsDir(t, d) => IsDir(acc, d)
          /\ hub => Honest(t, acc, {})
      BY <1>2, <2>2
    <3> HIDE DEF i
    <3>3. TableTyped(acc) /\ TableTyped(t)
      BY <3>2, SoundTyped
    <3>4. Has(acc, i) => IsFile(acc, i)
      BY <3>1, <3>2, <3>3 DEF Has, IsFile, Keeps, Grows, TableTyped
    <3>5. Has(acc, i) /\ ~Linked(acc, i) => acc.ino[i].path \notin DOMAIN acc.path
      BY <3>1, <3>2, <3>3 DEF Has, Linked, TableTyped, EntryOK
    <3>6. /\ Sound(v) /\ Keeps(acc, v) /\ v.next = acc.next
          /\ Inodes(v) \subseteq Inodes(acc) /\ DOMAIN v.path \subseteq DOMAIN acc.path
          /\ \A j \in Inodes(v) : v.ino[j].nlink # acc.ino[j].nlink => acc.ino[j].path \notin DOMAIN v.path
      BY <3>2, <3>4, <3>5, RemoveRemoteFileKeeps
    <3>10. Alike(acc, v, {i}) /\ i \notin CleanFiles(v)
      BY <3>2, <3>4, <3>5, RemoveRemoteFileAlike
    <3>11. ASSUME hub PROVE Honest(t, v, {})
      <4>1. Has(acc, i) => Gone(acc, i)
        BY <3>1, <3>2, <3>3, <3>11 DEF Has, Gone, Keeps, Grows, TableTyped
      <4>2. Honest(acc, v, {})
        BY <3>2, <3>4, <3>5, <4>1, RemoveRemoteFileHonest DEF Linked
      <4> HIDE DEF v
      <4> QED BY <3>2, <3>3, <3>6, <3>11, <4>2, SoundTyped, HonestOn DEF Keeps
    <3> HIDE DEF v
    <3>12. \A j \in s : j \notin CleanFiles(v)
      BY <3>2, <3>10, AlikeClean
    <3>13. \A d : IsDir(t, d) => IsDir(v, d)
      <4>1. ASSUME NEW d, IsDir(acc, d) PROVE IsDir(v, d)
        <5>1. d # i
          BY <3>4, <4>1 DEF IsDir, IsFile
        <5> QED BY <3>10, <4>1, <5>1 DEF Alike, SeenFields, IsDir, Has
      <4> QED BY <3>2, <4>1
    <3>7. \A j \in Inodes(v) : v.ino[j].path = acc.ino[j].path
      BY <3>3, <3>6 DEF Keeps, Grows, TableTyped
    <3>8. \A j \in Inodes(v) : j \in S /\ v.ino[j].nlink = 0 => v.ino[j].path \notin DOMAIN v.path
      BY <3>2, <3>6, <3>7
    <3>9. Keeps(t, v)
      BY <3>2, <3>6, SoundTyped, KeepsOn
    <3> QED BY <1>2, <3>2, <3>6, <3>8, <3>9, <3>11, <3>12, <3>13 DEF v, i
  <2> QED BY <1>3, <2>1, <2>2 DEF Folds
<1>7. Good(k, S, u)
  BY <1>1, <1>5, <1>6, FoldKeeps
<1> QED BY <1>2, <1>7

LEMMA MaxIs == ASSUME NEW S, IsFiniteSet(S), S \subseteq Nat, S # {} PROVE Max(S) \in S /\ \A y \in S : Max(S) >= y
<1> DEFINE Above(x) == {y \in S : y >= x}
           T == {Above(x) : x \in S}
<1>1. T \subseteq SUBSET S /\ T # {}
  OBVIOUS
<1>2. PICK m \in T : \A r \in T : r \subseteq m => r = m
  <2>1. \E x \in T : \A y \in T : y \subseteq x => y = x
    <3> HIDE DEF T
    <3> QED BY ONLY <1>1, IsFiniteSet(S), SmallestSubset
  <2> QED BY <2>1
<1>3. PICK x \in S : m = Above(x)
  BY <1>2
<1>4. ASSUME NEW y \in S PROVE x >= y
  <2>1. SUFFICES ASSUME y > x PROVE FALSE
    OBVIOUS
  <2>0. x \in Nat /\ y \in Nat /\ y > x
    BY <2>1
  <2>2. Above(y) \subseteq m /\ x \in m /\ x \notin Above(y)
    <3>1. \A z \in S : z >= y => z >= x
      BY <2>0
    <3>2. x >= x /\ ~(x >= y)
      BY <2>0
    <3> QED BY <1>3, <3>1, <3>2
  <2>3. Above(y) \in T
    OBVIOUS
  <2>4. Above(y) = m
    <3> HIDE DEF Above, T
    <3> QED BY <1>2, <2>2, <2>3
  <2> HIDE DEF Above
  <2> QED BY <2>2, <2>4
<1> QED BY <1>4 DEF Max

\* A change of the stream, applied in place.
LEMMA ApplyChangeKeeps ==
    ASSUME NEW t, Sound(t), NEW change, change.hash \in 0..MaxRev
    PROVE  Sound(ApplyChange(t, change)) /\ Keeps(t, ApplyChange(t, change)) /\ ApplyChange(t, change).next = t.next
<1> DEFINE i == GetByPath(t, change.path)
<1>1. CASE ~IsFile(t, i)
  BY <1>1, SoundTyped DEF ApplyChange
<1>2. CASE IsFile(t, i)
  <2>1. Linked(t, i)
    BY <1>2, Facts DEF Sound, GetByPath, PathsTell, Linked, Has, IsFile, TableTyped, None
  <2>2. CASE change.hash = None
    BY <1>2, <2>1, <2>2, RemoveRemoteFileKeeps DEF ApplyChange
  <2>3. CASE change.hash # None
    BY <1>2, <2>3, UpdateKeeps DEF ApplyChange, Tweaked
  <2> QED BY <2>2, <2>3
<1> QED BY <1>1, <1>2

\* What a change of the stream removes is what it names.
LEMMA ApplyChangeModest ==
    ASSUME NEW t, Sound(t), NEW change, NEW E,
           \A i \in Inodes(t) : t.ino[i].path = change.path /\ change.hash = None => i \in E
    PROVE  Modest(t, ApplyChange(t, change), E)
<1> DEFINE i == GetByPath(t, change.path)
<1>1. CASE ~IsFile(t, i)
  BY <1>1, HonestItself DEF ApplyChange, Honest
<1>2. CASE IsFile(t, i)
  <2>1. Linked(t, i) /\ t.ino[i].path = change.path
    BY <1>2, Facts DEF Sound, GetByPath, PathsTell, Linked, Has, IsFile, TableTyped, None
  <2>2. CASE change.hash = None
    <3>1. i \in E
      BY <2>1, <2>2 DEF Linked, Has
    <3> QED BY <1>2, <2>1, <2>2, <3>1, RemoveRemoteFileHonest DEF ApplyChange, Honest
  <2>3. CASE change.hash # None
    BY <1>2, <2>3, UpdateHonest, SoundTyped DEF ApplyChange
  <2> QED BY <2>2, <2>3
<1> QED BY <1>1, <1>2

\* The inodes that a batch of changes removes.
Told(t, batch) == {i \in Inodes(t) : \E m \in DOMAIN batch : batch[m].path = t.ino[i].path /\ batch[m].hash = None}
\* The changes of the stream, in its order.
LEMMA ReplayKeeps ==
    ASSUME NEW t, Sound(t), NEW n \in Nat, NEW batch, DOMAIN batch = 1..n,
           \A m \in 1..n : batch[m].hash \in 0..MaxRev
    PROVE  LET step(acc, change) == [table |-> ApplyChange(acc.table, change),
                                     dirs |-> acc.dirs \cup Stale(acc.table, change)]
               all == FoldLeft(step, [table |-> t, dirs |-> {}], batch)
           IN  /\ Sound(all.table) /\ Keeps(t, all.table) /\ all.table.next = t.next
               /\ Modest(t, all.table, Told(t, batch))
<1> DEFINE step(acc, change) == [table |-> ApplyChange(acc.table, change),
                                 dirs |-> acc.dirs \cup Stale(acc.table, change)]
           start == [table |-> t, dirs |-> {}]
           all == FoldLeft(step, start, batch)
           S == DOMAIN batch
           k == [of |-> "replay", table |-> t, batch |-> batch, told |-> Told(t, batch)]
           More(g, s) == LET i == Max(s) IN step(g[s \ {i}], batch[i])
           h == CHOOSE h : h = [s \in SUBSET S |-> IF s = {} THEN start ELSE More(h, s)]
<1>1. all = h[S]
  BY DEF FoldLeft, MapThenFoldSet
<1>2. \A x, s, acc : /\ Step(k, x, acc) = step(acc, batch[x])
                     /\ Pick(k, s) = Max(s)
                     /\ Good(k, s, acc) <=> /\ Sound(acc.table) /\ Keeps(t, acc.table) /\ acc.table.next = t.next
                                            /\ Modest(t, acc.table, Told(t, batch))
  BY DEF Step, Pick, Good
<1> HIDE DEF k
<1>0. IsFiniteSet(S) /\ S \subseteq Nat
  BY FS_Interval
<1>3. \A s \in SUBSET S : s # {} => Pick(k, s) \in s
  BY <1>0, <1>2, MaxIs, FS_Subset
<1>8. /\ \A acc, c : step(acc, c).table = ApplyChange(acc.table, c)
      /\ start.table = t
  OBVIOUS
<1>9. \A m \in S : batch[m].hash \in 0..MaxRev
  OBVIOUS
<1>10. S = DOMAIN batch
  OBVIOUS
<1> HIDE DEF S, step, start
<1>4. \E g : Iter(k, start, S, g)
  BY <1>0, <1>3, IterExists
<1>5. Iter(k, start, S, h)
  <2>1. \A g, s : Step(k, Pick(k, s), g[s \ {Pick(k, s)}]) = More(g, s)
    BY <1>2
  <2> HIDE DEF More
  <2>2. \A g : Iter(k, start, S, g) <=> g = [s \in SUBSET S |-> IF s = {} THEN start ELSE More(g, s)]
    BY <2>1 DEF Iter
  <2> QED BY <1>4, <2>2
<1> HIDE DEF h
<1>6. Folds(k, start, S)
  <2>1. Good(k, {}, start)
    BY <1>2, <1>8, SoundTyped, HonestItself DEF Honest
  <2>2. ASSUME NEW s \in SUBSET S, NEW acc, s # {}, Good(k, s \ {Pick(k, s)}, acc)
        PROVE  Good(k, s, Step(k, Pick(k, s), acc))
    <3> DEFINE i == Pick(k, s)
               v == ApplyChange(acc.table, batch[i])
    <3>1. i \in S
      BY <1>3, <2>2
    <3>2. /\ Sound(acc.table) /\ Keeps(t, acc.table) /\ acc.table.next = t.next
          /\ Modest(t, acc.table, Told(t, batch))
      BY <1>2, <2>2
    <3> HIDE DEF i
    <3>3. Sound(v) /\ Keeps(acc.table, v) /\ v.next = t.next
      BY <1>9, <3>1, <3>2, ApplyChangeKeeps
    <3>5. Modest(acc.table, v, Told(t, batch))
      <4>1. \A j \in Inodes(acc.table) : j \in Inodes(t) /\ acc.table.ino[j].path = t.ino[j].path
        BY <3>2, SoundTyped DEF Keeps, Grows, TableTyped
      <4>2. ASSUME NEW j \in Inodes(acc.table), acc.table.ino[j].path = batch[i].path, batch[i].hash = None
            PROVE  j \in Told(t, batch)
        BY <1>10, <3>1, <4>1, <4>2 DEF Told
      <4> QED BY <3>2, <4>2, ApplyChangeModest
    <3> HIDE DEF v
    <3>4. Keeps(t, v)
      BY <3>2, <3>3, SoundTyped, KeepsOn
    <3>6. Modest(t, v, Told(t, batch))
      BY <3>2, <3>3, <3>5, SoundTyped, ModestOn DEF Keeps
    <3> QED BY <1>2, <1>8, <3>3, <3>4, <3>6 DEF v, i
  <2> QED BY <1>0, <1>3, <2>1, <2>2 DEF Folds
<1>7. Good(k, S, all)
  BY <1>1, <1>5, <1>6, FoldKeeps
<1> QED BY <1>2, <1>7 DEF step, start

-----------------------------------------------------------------------------
(* The inductive invariant of the specification.                           *)

Answers == [path : Path, hash : 0..MaxRev]
HubOK == case \in Case /\ log \in Seq(Answers) /\ Rev <= MaxRev
SetsOK == neg \subseteq Path /\ dirlock \subseteq Ino /\ sweep \subseteq Ino
TableOK == Sound(table) /\ table.next <= MaxIno + 1

FileOrGone(t, i) == Has(t, i) => IsFile(t, i)
\* A call as it may stand over a table: the numbers it holds were handed out;
\* its name, and the names of its listing, lie in its directory, if that is
\* there; what it revalidates or unlinks is a file, if it is there.
CallFine(k, t) ==
    /\ DOMAIN k = {"pc", "op", "dir", "path", "ino", "hash", "ans", "list", "fresh"}
    /\ k.op \in Calls /\ k.ino \in Ino \cup {None} /\ k.ino < t.next /\ k.dir \in Nat /\ k.dir < t.next
    /\ k.ans \in 0..MaxRev /\ k.list \subseteq Answers /\ IsFiniteSet(k.list)
    /\ \A e \in k.list : Has(t, k.dir) => Up[e.path] = t.ino[k.dir].path
    /\ IF k.op \in {"none", "readdir", "forget"}
       THEN k.pc \in {"idle", "load", "list", "install", "loaded", "forget"}
       ELSE k.path \in Path /\ (Has(t, k.dir) => Up[k.path] = t.ino[k.dir].path)
    /\ k.op = "create" => k.pc \in {"load", "list", "install", "loaded", "create", "reply"}
    /\ k.pc \in {"revalidate?", "revalidate", "unlink", "unlink_local"} => FileOrGone(t, k.ino)
Creating(k, i) == k.op = "create" /\ k.ino = i /\ k.pc \in {"create", "reply"}
\* A create() that has opened its file holds a handle the kernel does not know
\* yet, and no two of them have the same file.
CallsOK ==
    /\ DOMAIN call = Client
    /\ \A c \in Client : CallFine(call[c], table)
    /\ \A c \in Client : call[c].op = "create" /\ call[c].pc = "reply" =>
          call[c].ino \in Inodes(table) /\ table.ino[call[c].ino].open > opens[call[c].ino]
    /\ \A c, x \in Client, i \in Ino : Creating(call[c], i) /\ Creating(call[x], i) => c = x
KernelOK ==
    /\ refs \in [Ino -> 0..MaxRefs] /\ opens \in [Ino -> 0..MaxRefs] /\ commit \in [Ino -> 0..MaxRev]
    /\ \A i \in Ino : opens[i] > 0 => i \in Inodes(table)
    /\ \A i \in Inodes(table) : table.ino[i].open <= MaxRefs /\ table.ino[i].open >= opens[i]
RoundOK ==
    /\ DOMAIN round = {"pc", "todo", "ok", "failed", "entries", "updates", "deletions"}
    /\ round.entries \subseteq Answers
    /\ round.updates \subseteq [ino : Ino, hash : 0..MaxRev]
    /\ IsFiniteSet(round.updates) /\ IsFiniteSet(round.deletions)
    /\ \A i \in round.deletions : i \in Ino /\ i < table.next /\ FileOrGone(table, i)
FeedOK ==
    /\ DOMAIN feed = {"mode", "at", "resume", "cursor", "last", "probed", "skip", "pos", "ready", "dead"}
    /\ feed.mode \in {"follow", "poll", "off"}
    /\ feed.cursor \in 0..MaxRev /\ feed.last \in 0..MaxRev + 1 /\ feed.probed \in 0..MaxRev + 1
    /\ feed.pos \in 0..MaxRev
IInv == HubOK /\ SetsOK /\ TableOK /\ CallsOK /\ KernelOK /\ RoundOK /\ FeedOK

LocalStep == \A i \in Ino : Linked(table, i) /\ table.ino[i].dirty =>
                   \/ Linked(table', i) /\ table'.ino[i].dirty
                   \/ commit'[i] # commit[i] \/ Unlinking(i)

\* What InTime adds.  While no answer of the Hub is late, what calls, commits
\* and the round hold of the Hub is what the Hub has.
Asking == {"revalidate?", "revalidate", "insert", "install"}
Asked(k, t) ==
    /\ k.pc \in {"revalidate?", "revalidate"} /\ Has(t, k.ino) => t.ino[k.ino].path = k.path
    /\ k.pc = "revalidate" => k.ans = Hub[k.path]
    /\ k.pc = "insert" => k.ans = Hub[k.path] /\ k.ans # None
    /\ k.pc = "install" /\ Has(t, k.dir) => k.list = ListTree(t.ino[k.dir].path)
CallsAsked == \A c \in Client : Asked(call[c], table)
CommitsTell == \A i \in Ino : commit[i] # None =>
    i < table.next /\ (Has(table, i) => commit[i] = Hub[table.ino[i].path])
\* The kernel's references are counted.
RefsCounted == Referred(table) /\ \A i \in Ino : i >= table.next => refs[i] = 0
\* What a round has found between the snapshot and its end.
RoundFound ==
    /\ \A x \in round.updates :
          x.ino < table.next /\ (Has(table, x.ino) => x.hash = Hub[table.ino[x.ino].path])
    /\ \A i \in round.deletions : Has(table, i) => Hub[table.ino[i].path] = None
    /\ \A i \in CleanFiles(table) : Up[table.ino[i].path] \in round.ok =>
          Right(table, i) \/ i \in round.deletions \/ \E x \in round.updates : x.ino = i
RoundTells ==
    /\ round.ok \cup round.failed \subseteq Path \cup {Root}
    /\ round.todo \subseteq Path \cup {Root}
    /\ round.pc # "idle" /\ feed.mode = "follow" => feed.at = "resume"
    /\ round.pc # "idle" => round.entries = UNION {ListTree(q) : q \in round.ok}
    /\ round.pc = "apply" => RoundFound
Seen == HubIsTree /\ CallsAsked /\ CommitsTell /\ RefsCounted /\ RoundTells
SInv == InTime => Seen

\* What a step in time does to names and contents.
Excused(i) == \/ \E n \in feed.pos + 1..feed'.pos : log[n] = [path |-> table.ino[i].path, hash |-> None]
              \/ Unlinking(i)
NamesStay == \A i \in Ino : refs[i] > 0 /\ Linked(table, i) /\ ~Linked(table', i) => Gone(table, i) \/ Excused(i)
Reconciled == round.pc = "apply" /\ round' = NoRound =>
    \A d \in Inodes(table) :
       IsDir(table, d) /\ table.ino[d].path \in round.ok => ContentIsCurrent(table', d)
Kept == Seen' /\ NamesStay /\ Reconciled

LEMMA InodesAreIno == ASSUME TableOK PROVE Inodes(table) \subseteq Ino
  BY SoundTyped, BoundsAssumption DEF TableOK, TableTyped, Ino

LEMMA CallStays ==
    ASSUME NEW t, TableTyped(t), NEW u, Grows(t, u), NEW k, CallFine(k, t)
    PROVE  CallFine(k, u)
<1>1. k.ino < u.next /\ k.dir < u.next
  BY BoundsAssumption DEF CallFine, Grows, TableTyped, None, Ino
<1>2. ASSUME Has(u, k.dir) PROVE Has(t, k.dir) /\ u.ino[k.dir].path = t.ino[k.dir].path
  BY <1>2 DEF CallFine, Grows, Has
<1>3. FileOrGone(t, k.ino) => FileOrGone(u, k.ino)
  BY DEF CallFine, Grows, Has, FileOrGone, IsFile
<1> QED BY <1>1, <1>2, <1>3 DEF CallFine

\* The kernel's side, when the table keeps every open inode.
LEMMA KernelMoves ==
    ASSUME IInv, Sound(table'), OpenKept(table, table'), table'.next <= MaxIno + 1, opens' = opens,
           refs' \in [Ino -> 0..MaxRefs], commit' \in [Ino -> 0..MaxRev]
    PROVE  KernelOK'
<1>0. TableTyped(table) /\ TableTyped(table') /\ Inodes(table) \subseteq Ino /\ KernelOK
  BY SoundTyped, InodesAreIno DEF IInv, TableOK
<1>1. \A i \in Ino : opens[i] > 0 => i \in Inodes(table')
  <2>1. ASSUME NEW i \in Ino, opens[i] > 0 PROVE i \in Inodes(table')
    <3>1. i \in Inodes(table) /\ table.ino[i].open > 0
      BY <1>0, <2>1 DEF KernelOK, TableTyped, EntryOK
    <3> QED BY <3>1 DEF OpenKept
  <2> QED BY <2>1
<1>2. \A i \in Inodes(table') : table'.ino[i].open <= MaxRefs /\ table'.ino[i].open >= opens[i]
  <2>1. Inodes(table') \subseteq Ino
    BY <1>0, BoundsAssumption DEF TableTyped, Ino
  <2> QED BY <1>0, <2>1, BoundsAssumption DEF KernelOK, OpenKept
<1> QED BY <1>0, <1>1, <1>2 DEF KernelOK

\* The parts of the invariant that a step of the table leaves alone.
LEMMA Moves ==
    ASSUME IInv, Sound(table'), Grows(table, table'), OpenKept(table, table'), table'.next <= MaxIno + 1, opens' = opens
    PROVE  /\ TableOK'
           /\ call' = call => CallsOK'
           /\ UNCHANGED <<refs, commit>> => KernelOK'
           /\ round' = round => RoundOK'
<1>0. /\ TableTyped(table) /\ TableTyped(table') /\ Inodes(table) \subseteq Ino
      /\ CallsOK /\ KernelOK /\ RoundOK
  BY SoundTyped, InodesAreIno DEF IInv, TableOK
<1>1. TableOK'
  BY DEF TableOK
<1>2. call' = call => CallsOK'
  <2>1. SUFFICES ASSUME call' = call PROVE CallsOK'
    OBVIOUS
  <2>2. \A c \in Client : CallFine(call[c], table')
    BY <1>0, CallStays DEF CallsOK
  <2>3. ASSUME NEW c \in Client, call[c].op = "create", call[c].pc = "reply"
        PROVE  call[c].ino \in Inodes(table') /\ table'.ino[call[c].ino].open > opens[call[c].ino]
    <3>1. call[c].ino \in Inodes(table) /\ table.ino[call[c].ino].open > opens[call[c].ino]
      BY <1>0, <2>3 DEF CallsOK
    <3>2. table.ino[call[c].ino].open > 0
      BY <1>0, <3>1 DEF KernelOK, TableTyped, EntryOK
    <3> QED BY <3>1, <3>2 DEF OpenKept
  <2> QED BY <1>0, <2>1, <2>2, <2>3 DEF CallsOK
<1>3. UNCHANGED <<refs, commit>> => KernelOK'
  BY <1>0, KernelMoves DEF KernelOK
<1>4. round' = round => RoundOK'
  BY <1>0 DEF RoundOK, FileOrGone, Has, IsFile, Grows, TableTyped, Ino
<1> QED BY <1>1, <1>2, <1>3, <1>4

\* One call moves on.
LEMMA OneCall ==
    ASSUME IInv, Sound(table'), Grows(table, table'), OpenKept(table, table'), table'.next <= MaxIno + 1, opens' = opens,
           NEW c \in Client, NEW k, call' = [call EXCEPT ![c] = k], CallFine(k, table'),
           k.op = "create" => k.pc \notin {"create", "reply"}
    PROVE  CallsOK'
<1>0. TableTyped(table) /\ TableTyped(table') /\ CallsOK /\ KernelOK
  BY SoundTyped DEF IInv, TableOK
<1>1. DOMAIN call' = Client /\ call'[c] = k /\ \A x \in Client \ {c} : call'[x] = call[x]
  BY <1>0 DEF CallsOK
<1>2. \A x \in Client : CallFine(call'[x], table')
  BY <1>0, <1>1, CallStays DEF CallsOK
<1>3. ASSUME NEW x \in Client, call'[x].op = "create", call'[x].pc = "reply"
      PROVE  call'[x].ino \in Inodes(table') /\ table'.ino[call'[x].ino].open > opens'[call'[x].ino]
  <2>0. x # c /\ call'[x] = call[x]
    BY <1>1, <1>3
  <2>1. call[x].ino \in Inodes(table) /\ table.ino[call[x].ino].open > opens[call[x].ino]
    BY <1>0, <1>3, <2>0 DEF CallsOK
  <2>2. call[x].ino \in Ino /\ table.ino[call[x].ino].open > 0
    <3>1. call[x].ino \in Ino
      BY <2>1, InodesAreIno DEF IInv
    <3> QED BY <1>0, <2>1, <3>1 DEF KernelOK, TableTyped, EntryOK
  <2> QED BY <2>0, <2>1, <2>2 DEF OpenKept
<1>4. \A y, x \in Client, i \in Ino : Creating(call'[y], i) /\ Creating(call'[x], i) => y = x
  <2>1. \A i : ~Creating(k, i)
    BY DEF Creating
  <2> QED BY <1>0, <1>1, <2>1 DEF CallsOK
<1> QED BY <1>1, <1>2, <1>3, <1>4 DEF CallsOK

LEMMA FiniteRange == ASSUME NEW S, IsFiniteSet(S), NEW f PROVE IsFiniteSet({f[x] : x \in S})
<1> DEFINE T == {f[x] : x \in S}
           g == [x \in S |-> f[x]]
<1>1. g \in Surjection(S, T)
  BY DEF Surjection
<1> HIDE DEF g, T
<1>2. IsFiniteSet(T)
  BY <1>1, FS_Surjection
<1> QED BY <1>2 DEF T

\* What the Hub answers.
LEMMA HubTyped == ASSUME HubOK PROVE Rev \in 0..MaxRev /\ \A p \in Path : Hub[p] \in 0..MaxRev
<1>1. Rev \in 0..MaxRev /\ \A n \in 1..Rev : log[n].hash \in 0..MaxRev
  <2>1. Rev \in 0..MaxRev /\ \A n \in 1..Rev : log[n] \in Answers
    BY BoundsAssumption DEF HubOK, Rev
  <2> QED BY <2>1 DEF Answers
<1>2. ASSUME NEW p \in Path PROVE Hub[p] \in 0..MaxRev
  <2> DEFINE of == {n \in 1..Rev : log[n].path = p}
  <2>1. Hub[p] = IF of = {} THEN None ELSE log[Max(of)].hash
    BY DEF Hub
  <2>2. IsFiniteSet(of) /\ of \subseteq Nat
    <3>1. of \subseteq 1..Rev
      OBVIOUS
    <3> HIDE DEF of
    <3>2. Rev \in Nat /\ 1..Rev \subseteq Nat
      BY <1>1, BoundsAssumption
    <3>3. IsFiniteSet(1..Rev)
      BY <3>2, FS_Interval
    <3> QED BY <3>1, <3>2, <3>3, FS_Subset
  <2>3. of # {} => Max(of) \in 1..Rev
    <3>1. of # {} => Max(of) \in of
      <4> HIDE DEF of
      <4> QED BY <2>2, MaxIs
    <3> QED BY <3>1
  <2> HIDE DEF of
  <2> QED BY <1>1, <2>1, <2>3, BoundsAssumption DEF None
<1> QED BY <1>1, <1>2
LEMMA ListTreeTyped ==
    ASSUME HubOK, NEW q
    PROVE  ListTree(q) \subseteq Answers /\ IsFiniteSet(ListTree(q)) /\ \A e \in ListTree(q) : Up[e.path] = q
<1>1. ListTree(q) \subseteq Answers /\ \A e \in ListTree(q) : Up[e.path] = q
  BY HubTyped DEF ListTree, Answers
<1>2. IsFiniteSet(ListTree(q))
  <2> DEFINE f == [p \in Path |-> [path |-> p, hash |-> Hub[p]]]
             all == {f[p] : p \in Path}
  <2>1. IsFiniteSet(all)
    <3> HIDE DEF f
    <3> QED BY PathAssumption, FiniteRange
  <2>2. ListTree(q) \subseteq all
    BY DEF ListTree
  <2> QED BY <2>1, <2>2, FS_Subset
<1> QED BY <1>1, <1>2
\* The Hub stays what it is.
LEMMA HubStays ==
    ASSUME log' = log
    PROVE  /\ Hub' = Hub /\ Rev' = Rev
           /\ \A q : IsHubDir(q)' = IsHubDir(q) /\ ListTree(q)' = ListTree(q)
           /\ HubIsTree' <=> HubIsTree
<1>1. Hub' = Hub /\ Rev' = Rev
  BY DEF Hub, Rev
<1>2. \A q : IsHubDir(q)' = IsHubDir(q)
  BY <1>1 DEF IsHubDir
<1> QED BY <1>1, <1>2 DEF ListTree, HubIsTree

\* A change of the Hub changes one path.
LEMMA PutIs ==
    ASSUME HubOK, NEW p \in Path, NEW hash, Put(p, hash)
    PROVE  /\ Rev' = Rev + 1
           /\ \A q \in Path : Hub'[q] = IF q = p THEN hash ELSE Hub[q]
<1>0. Rev \in Nat /\ Rev = Len(log) /\ log \in Seq(Answers)
  BY HubTyped, BoundsAssumption DEF Rev, HubOK
<1>1. /\ Len(log') = Rev + 1 /\ log'[Rev + 1] = [path |-> p, hash |-> hash]
      /\ \A n \in 1..Rev : log'[n] = log[n]
  BY <1>0 DEF Put
<1>2. Rev' = Rev + 1
  BY <1>1 DEF Rev
<1> DEFINE of(q) == {n \in 1..Rev : log[n].path = q}
           new(q) == {n \in 1..Rev + 1 : log'[n].path = q}
<1>3. /\ Hub = [q \in Path |-> IF of(q) = {} THEN None ELSE log[Max(of(q))].hash]
      /\ Hub' = [q \in Path |-> IF new(q) = {} THEN None ELSE log'[Max(new(q))].hash]
  BY <1>2 DEF Hub
<1>4. ASSUME NEW q \in Path, q # p PROVE new(q) = of(q) /\ \A n \in of(q) : log'[n].hash = log[n].hash
  <2>1. 1..Rev + 1 = 1..Rev \cup {Rev + 1}
    BY <1>0
  <2> QED BY <1>1, <1>4, <2>1
<1>5. \A q \in Path : IsFiniteSet(of(q)) /\ of(q) \subseteq Nat /\ IsFiniteSet(new(p)) /\ new(p) \subseteq Nat
  <2>1. IsFiniteSet(1..Rev) /\ IsFiniteSet(1..Rev + 1) /\ 1..Rev \subseteq Nat /\ 1..Rev + 1 \subseteq Nat
    <3>1. Rev + 1 \in Nat /\ \A n \in Nat : 1..n \subseteq Nat
      BY <1>0
    <3>2. \A n \in Nat : IsFiniteSet(1..n)
      BY FS_Interval
    <3> QED BY <1>0, <3>1, <3>2
  <2>2. \A q \in Path : of(q) \subseteq 1..Rev /\ new(p) \subseteq 1..Rev + 1
    OBVIOUS
  <2> HIDE DEF of, new
  <2> QED BY <2>1, <2>2, FS_Subset
<1>6. new(p) # {} /\ Max(new(p)) = Rev + 1
  <2>1. Rev + 1 \in new(p) /\ \A n \in new(p) : n <= Rev + 1 /\ n \in Nat
    BY <1>0, <1>1
  <2> HIDE DEF new
  <2>2. Max(new(p)) \in new(p) /\ Max(new(p)) >= Rev + 1
    BY <1>5, <2>1, MaxIs
  <2> QED BY <1>0, <2>1, <2>2
<1>7. \A q \in Path : of(q) # {} => Max(of(q)) \in of(q)
  <2> HIDE DEF of, new
  <2> QED BY <1>5, MaxIs
<1> HIDE DEF of, new
<1>8. \A q \in Path : Hub'[q] = IF q = p THEN hash ELSE Hub[q]
  <2>1. Hub'[p] = hash
    BY <1>1, <1>3, <1>6
  <2>2. ASSUME NEW q \in Path, q # p PROVE Hub'[q] = Hub[q]
    BY <1>3, <1>4, <1>7, <2>2
  <2> QED BY <2>1, <2>2
<1> QED BY <1>2, <1>8

LEMMA PutKeepsTree ==
    ASSUME HubOK, HubIsTree, NEW p \in Path, NEW hash, Put(p, hash), hash = None \/ HubTakes(p)
    PROVE  HubIsTree'
<1>0. \A q \in Path : Hub'[q] = IF q = p THEN hash ELSE Hub[q]
  BY PutIs
<1>1. SUFFICES ASSUME NEW q \in Path, NEW r \in Path, q \in Ancestors[r], Hub'[q] # None PROVE Hub'[r] = None
  BY DEF HubIsTree
<1>2. q # r
  BY <1>1, AncestorsClimb
<1>3. CASE hash = None
  BY <1>0, <1>1, <1>3 DEF HubIsTree
<1>4. CASE HubTakes(p)
  <2>1. \A x \in Path : p \in Ancestors[x] => Hub[x] = None
    BY <1>4 DEF HubTakes, IsHubDir
  <2>2. \A x \in Ancestors[p] \cap Path : Hub[x] = None
    BY <1>4 DEF HubTakes
  <2> QED BY <1>0, <1>1, <1>2, <2>1, <2>2 DEF HubIsTree
<1> QED BY <1>3, <1>4

LEMMA PutTyped ==
    ASSUME HubOK, case' = case, NEW p \in Path, NEW hash \in {Rev + 1, None}, Put(p, hash)
    PROVE  HubOK'
<1>1. Rev \in Nat /\ Rev < MaxRev /\ [path |-> p, hash |-> hash] \in Answers
  BY BoundsAssumption DEF Put, Answers, HubOK, None, Rev
<1>2. log' \in Seq(Answers) /\ Len(log') = Rev + 1
  BY <1>1 DEF Put, HubOK, Rev
<1> QED BY <1>1, <1>2, BoundsAssumption DEF HubOK, Rev

-----------------------------------------------------------------------------
(* Steps of a call.                                                        *)

LEMMA StaysPut == ASSUME IInv, table' = table
                  PROVE  /\ Sound(table') /\ Keeps(table, table') /\ Grows(table, table') /\ OpenKept(table, table')
                         /\ DirtyKept(table, table') /\ table'.next <= MaxIno + 1
  BY SoundTyped DEF IInv, TableOK, Keeps

LEMMA NoCallFine == ASSUME NEW t, TableTyped(t) PROVE CallFine(NoCall, t)
<1>1. IsFiniteSet({}) /\ t.next > 0
  BY BoundsAssumption, FS_EmptySet DEF TableTyped
<1> QED BY <1>1, FS_EmptySet, BoundsAssumption DEF NoCall, CallFine, Calls, None, Answers, TableTyped

LEMMA Returns ==
    ASSUME IInv, Sound(table'), Grows(table, table'), OpenKept(table, table'), table'.next <= MaxIno + 1, opens' = opens,
           NEW c \in Client, Return(c)
    PROVE  CallsOK'
  BY NoCallFine, OneCall, SoundTyped DEF Return, NoCall

LEMMA GoesOn ==
    ASSUME IInv, Sound(table'), Grows(table, table'), OpenKept(table, table'), table'.next <= MaxIno + 1, opens' = opens,
           NEW c \in Client, NEW pc, Goto(c, pc),
           call[c].op \in {"none", "readdir", "forget"} => pc \in {"idle", "load", "list", "install", "loaded", "forget"},
           call[c].op = "create" => pc \in {"load", "list", "install", "loaded"},
           pc \in {"revalidate?", "revalidate", "unlink", "unlink_local"} => FileOrGone(table', call[c].ino)
    PROVE  CallsOK'
<1> DEFINE k == [call[c] EXCEPT !.pc = pc]
<1>1. CallFine(call[c], table') /\ DOMAIN call = Client
  BY CallStays, SoundTyped DEF IInv, CallsOK, TableOK
<1>2. CallFine(k, table') /\ (k.op = "create" => k.pc \notin {"create", "reply"})
  BY <1>1 DEF CallFine
<1>3. call' = [call EXCEPT ![c] = k]
  BY <1>1 DEF Goto
<1> HIDE DEF k
<1> QED BY <1>2, <1>3, OneCall

LEMMA GotsAttr ==
    ASSUME IInv, Sound(table'), Grows(table, table'), OpenKept(table, table'), table'.next <= MaxIno + 1, opens' = opens,
           NEW c \in Client, NEW i, GotAttr(c, table', i), call[c].op \notin {"none", "readdir", "forget", "create"}
    PROVE  CallsOK'
<1>1. CASE ~Has(table', i)
  BY <1>1, Returns DEF GotAttr
<1>2. CASE Has(table', i)
  <2> DEFINE k == [call[c] EXCEPT !.pc = "reply", !.ino = i]
  <2>1. CallFine(call[c], table') /\ DOMAIN call = Client /\ TableTyped(table')
    BY CallStays, SoundTyped DEF IInv, CallsOK, TableOK
  <2>2. i \in Ino /\ i < table'.next
    BY <1>2, <2>1, BoundsAssumption DEF Has, TableTyped, Ino
  <2>3. CallFine(k, table') /\ (k.op = "create" => k.pc \notin {"create", "reply"})
    BY <2>1, <2>2 DEF CallFine
  <2>4. call' = [call EXCEPT ![c] = k]
    BY <1>2, <2>1 DEF GotAttr
  <2> HIDE DEF k
  <2> QED BY <2>3, <2>4, OneCall
<1> QED BY <1>1, <1>2

\* A step that leaves the Hub, the round and the kernel alone.
LEMMA Closes ==
    ASSUME IInv, UNCHANGED <<case, log, refs, opens, commit, round, feed>>,
           Sound(table'), Grows(table, table'), OpenKept(table, table'), table'.next <= MaxIno + 1,
           neg' \subseteq Path, dirlock' \subseteq Ino, sweep' \subseteq Ino, CallsOK'
    PROVE  IInv'
<1>1. TableOK' /\ KernelOK' /\ RoundOK'
  BY Moves
<1>2. HubOK' /\ SetsOK' /\ FeedOK'
  BY DEF IInv, HubOK, SetsOK, FeedOK, Rev
<1> QED BY <1>1, <1>2 DEF IInv
LEMMA OnlyCallCloses ==
    ASSUME IInv, OnlyCall, UNCHANGED feed, CallsOK' PROVE IInv' /\ LocalStep
<1>1. IInv'
  BY StaysPut, Closes DEF OnlyCall, kernel, IInv, SetsOK
<1> QED BY <1>1 DEF OnlyCall, LocalStep
LEMMA OnlyTableCloses ==
    ASSUME IInv, OnlyTable, UNCHANGED feed, CallsOK', Sound(table'), Keeps(table, table'), table'.next <= MaxIno + 1
    PROVE  IInv' /\ LocalStep
<1>1. IInv'
  BY Closes DEF OnlyTable, kernel, IInv, SetsOK, Keeps
<1>2. LocalStep
  BY DEF LocalStep, Keeps, DirtyKept, Linked, Has
<1> QED BY <1>1, <1>2

LEMMA NamesArePaths == ASSUME IInv PROVE case.names \subseteq Path /\ case.files \subseteq Path
  BY CaseAssumption DEF IInv, HubOK

LEMMA StartStep ==
    ASSUME IInv, UNCHANGED feed, NEW c \in Client, NEW d, NEW p, NEW event, NEW op, NEW pc, NEW i,
           op \in {"lookup", "relookup", "create", "mkdir", "unlink"}, op = "create" => pc = "load",
           i = None \/ Has(table, i), pc \in {"revalidate?", "revalidate", "unlink", "unlink_local"} => IsFile(table, i),
           Start(c, d, p, event, op, pc, i)
    PROVE  IInv' /\ LocalStep
<1> DEFINE k == [NoCall EXCEPT !.op = op, !.dir = d, !.path = p, !.pc = pc,
                               !.ino = i, !.hash = IF i = None THEN None ELSE table.ino[i].hash]
<1>1. CallFine(k, table)
  <2>1. TableTyped(table) /\ Inodes(table) \subseteq Ino /\ p \in Path
    BY SoundTyped, InodesAreIno, NamesArePaths DEF IInv, TableOK, Start
  <2>2. d \in Nat /\ d < table.next /\ i \in Ino \cup {None} /\ i < table.next
    BY <2>1 DEF Start, IsDir, Has, TableTyped, None
  <2>3. op \in Calls /\ 0 \in 0..MaxRev /\ IsFiniteSet({})
    BY BoundsAssumption, FS_EmptySet DEF Calls
  <2> QED BY <2>1, <2>2, <2>3 DEF CallFine, NoCall, None, Start, FileOrGone
<1>2. CallsOK'
  <2>1. OnlyCall /\ call' = [call EXCEPT ![c] = k] /\ (k.op = "create" => k.pc \notin {"create", "reply"})
    BY DEF Start, NoCall
  <2> HIDE DEF k
  <2> QED BY <1>1, <2>1, StaysPut, OneCall DEF OnlyCall, kernel
<1> QED BY <1>2, OnlyCallCloses DEF Start

LEMMA LookupStep ==
    ASSUME IInv, UNCHANGED feed, NEW c \in Client, NEW d, NEW p, Lookup(c, d, p) PROVE IInv' /\ LocalStep
<1> DEFINE i == LookupChild(table, d, p)
           loaded == IsLoaded(table, d)
           op == IF i # None /\ refs[i] > 0 THEN "relookup" ELSE "lookup"
<1>0. op \in {"lookup", "relookup"} /\ (i = None \/ Has(table, i))
  BY DEF LookupChild
<1>1. \/ IsFile(table, i) /\ Start(c, d, p, "lookup", op, "revalidate?", i)
      \/ Start(c, d, p, "lookup", op, "reply", i)
      \/ Start(c, d, p, "lookup", op, "miss", None)
      \/ Start(c, d, p, "lookup", op, "slow", None)
  BY DEF Lookup
<1> HIDE DEF i, op
<1>2. CASE IsFile(table, i) /\ Start(c, d, p, "lookup", op, "revalidate?", i)
  BY <1>0, <1>2, StartStep
<1>3. CASE Start(c, d, p, "lookup", op, "reply", i)
  BY <1>0, <1>3, StartStep
<1>4. CASE Start(c, d, p, "lookup", op, "miss", None)
  BY <1>0, <1>4, StartStep
<1>5. CASE Start(c, d, p, "lookup", op, "slow", None)
  BY <1>0, <1>5, StartStep
<1> QED BY <1>1, <1>2, <1>3, <1>4, <1>5

LEMMA CallOnStep ==
    ASSUME IInv, UNCHANGED feed, NEW c \in Client, NEW d, NEW p, NEW op \in DirOps, CallOn(c, d, p, op)
    PROVE  IInv' /\ LocalStep
  BY StartStep DEF CallOn, DirOps

LEMMA ReaddirStep ==
    ASSUME IInv, UNCHANGED feed, NEW c \in Client, NEW d, Readdir(c, d) PROVE IInv' /\ LocalStep
<1> DEFINE k == [NoCall EXCEPT !.op = "readdir", !.dir = d, !.pc = "load"]
<1>1. CallFine(k, table)
  <2>1. TableTyped(table) /\ d \in Nat /\ d < table.next /\ table.next > 0
    BY SoundTyped DEF IInv, TableOK, Readdir, IsDir, Has, TableTyped
  <2>2. 0 \in 0..MaxRev /\ IsFiniteSet({})
    BY BoundsAssumption, FS_EmptySet
  <2> QED BY <2>1, <2>2 DEF CallFine, NoCall, None, Calls
<1>2. CallsOK'
  <2>1. OnlyCall /\ call' = [call EXCEPT ![c] = k] /\ (k.op = "create" => k.pc \notin {"create", "reply"})
    BY DEF Readdir, NoCall
  <2> HIDE DEF k
  <2> QED BY <1>1, <2>1, StaysPut, OneCall DEF OnlyCall, kernel
<1> QED BY <1>2, OnlyCallCloses DEF Readdir

LEMMA CallAt ==
    ASSUME IInv, NEW c \in Client
    PROVE  /\ CallFine(call[c], table) /\ TableTyped(table) /\ Sound(table) /\ DOMAIN call = Client
           /\ HubOK /\ table.next <= MaxIno + 1
  BY SoundTyped DEF IInv, CallsOK, TableOK

\* A call that works on a name, and one that is not a create().
Plain == {"idle", "load", "list", "install", "loaded", "forget"}
LEMMA OnName ==
    ASSUME IInv, NEW c \in Client, call[c].pc \notin Plain
    PROVE  /\ call[c].op \notin {"none", "readdir", "forget"} /\ call[c].path \in Path
           /\ Has(table, call[c].dir) => Up[call[c].path] = table.ino[call[c].dir].path
           /\ call[c].pc \notin {"create", "reply"} => call[c].op # "create"
  BY CallAt DEF CallFine, Plain

LEMMA RevalidateSkipStep ==
    ASSUME IInv, UNCHANGED feed, NEW c \in Client, RevalidateSkip(c) PROVE IInv' /\ LocalStep
<1>1. call[c].op \notin {"none", "readdir", "forget", "create"}
  BY OnName DEF RevalidateSkip, Plain
<1>2. table' = table /\ opens' = opens /\ GotAttr(c, table', call[c].ino)
  BY DEF RevalidateSkip, OnlyCall, kernel
<1> QED BY <1>1, <1>2, StaysPut, GotsAttr, OnlyCallCloses DEF RevalidateSkip

LEMMA RevalidateHeadStep ==
    ASSUME IInv, UNCHANGED feed, NEW c \in Client, RevalidateHead(c) PROVE IInv' /\ LocalStep
<1> DEFINE k == [call[c] EXCEPT !.pc = "revalidate", !.ans = Hub[call[c].path]]
<1>1. call[c].op \notin {"none", "readdir", "forget", "create"} /\ call[c].path \in Path
  BY OnName DEF RevalidateHead, Plain
<1>2. Hub[call[c].path] \in 0..MaxRev
  BY <1>1, CallAt, HubTyped
<1>3. CallFine(k, table) /\ k.op # "create"
  BY <1>1, <1>2, CallAt DEF CallFine, RevalidateHead
<1>4. call' = [call EXCEPT ![c] = k] /\ OnlyCall
  BY CallAt DEF RevalidateHead
<1> HIDE DEF k
<1> QED BY <1>3, <1>4, StaysPut, OneCall, OnlyCallCloses DEF OnlyCall, kernel

\* A call that found a file goes on with it, or with one the Hub has changed.
LEMMA RevalidateApplyStep ==
    ASSUME IInv, UNCHANGED feed, NEW c \in Client, RevalidateApply(c), ~On("head_404_in_use")
    PROVE  IInv' /\ LocalStep /\ Grows(table, table') /\ (HubIsTree /\ Asked(call[c], table) => Honest(table, table', {}))
<1> DEFINE i == call[c].ino
<1>0. call[c].pc = "revalidate"
  BY DEF RevalidateApply
<1>1. /\ call[c].op \notin {"none", "readdir", "forget", "create"}
      /\ call[c].ans \in 0..MaxRev /\ FileOrGone(table, i) /\ Sound(table)
  BY OnName, CallAt DEF RevalidateApply, Plain, CallFine
<1>2. /\ Sound(table') /\ Keeps(table, table') /\ table'.next = table.next
      /\ HubIsTree /\ Asked(call[c], table) => Honest(table, table', {})
  <2>1. CASE call[c].ans = None
    <3>1. table' = RemoveInode(table, i) /\ ~(Has(table, i) /\ (table.ino[i].dirty \/ IsOpen(table, i) \/ ~Linked(table, i)))
      BY <2>1 DEF RevalidateApply
    <3>2. CASE ~Has(table, i)
      BY <1>1, <3>1, <3>2, SoundTyped, HonestItself DEF RemoveInode
    <3>3. CASE Has(table, i)
      <4>1. IsFile(table, i) /\ Linked(table, i) /\ ~table.ino[i].dirty /\ ~IsOpen(table, i)
        BY <1>1, <3>1, <3>3 DEF FileOrGone
      <4>2. i # RootIno
        BY <1>1, <4>1, Facts DEF IsFile, RootStays, Sound
      <4>3. Sound(table') /\ Keeps(table, table') /\ Cut(table, table', Subtree(table, i))
        BY <1>1, <3>1, <4>1, <4>2, RemoveInodeKeeps
      <4>4. Asked(call[c], table) => Gone(table, i)
        BY <1>0, <2>1, <4>1 DEF Asked, Gone, IsFile
      <4>5. HubIsTree /\ Gone(table, i) => Honest(table, table', {})
        BY <1>1, <3>1, <4>1, <4>2, RemoveInodeHonest
      <4> QED BY <4>3, <4>4, <4>5 DEF Cut
    <3> QED BY <3>2, <3>3
  <2>2. CASE call[c].ans # None /\ call[c].ans # call[c].hash
    <3>1. table' = UpdateRemoteFile(table, i, call[c].ans)
      BY <2>2 DEF RevalidateApply
    <3>2. Asked(call[c], table) => (Has(table, i) => call[c].ans = Hub[table.ino[i].path])
      BY <1>0 DEF Asked
    <3>3. Asked(call[c], table) => Honest(table, table', {})
      BY <1>1, <3>1, <3>2, UpdateHonest, SoundTyped
    <3> QED BY <1>1, <3>1, <3>3, UpdateKeeps DEF Tweaked
  <2>3. CASE call[c].ans # None /\ call[c].ans = call[c].hash
    <3>1. table' = table
      BY <2>3 DEF RevalidateApply
    <3> QED BY <1>1, <3>1, SoundTyped, HonestItself
  <2> QED BY <2>1, <2>2, <2>3
<1>3. GotAttr(c, table', i) /\ OnlyTable /\ opens' = opens
  BY DEF RevalidateApply, OnlyTable, kernel
<1>4. table'.next <= MaxIno + 1
  BY <1>2, CallAt
<1> QED BY <1>1, <1>2, <1>3, <1>4, GotsAttr, OnlyTableCloses DEF Keeps

LEMMA ProbeStep ==
    ASSUME IInv, UNCHANGED feed, NEW c \in Client, Probe(c) PROVE IInv' /\ LocalStep
<1> DEFINE k == [call[c] EXCEPT !.pc = "insert", !.ans = Hub[call[c].path]]
<1>1. /\ call[c].op \notin {"none", "readdir", "forget", "create"} /\ call[c].path \in Path
      /\ OnlyCall /\ opens' = opens /\ table' = table
  BY OnName DEF Probe, Plain, OnlyCall, kernel
<1>2. \/ call' = [call EXCEPT ![c].pc = "insert", ![c].ans = Hub[call[c].path]]
      \/ Goto(c, IF call[c].pc = "miss" THEN "miss_list" ELSE "load")
      \/ Return(c)
  BY DEF Probe
<1>3. CASE call' = [call EXCEPT ![c].pc = "insert", ![c].ans = Hub[call[c].path]]
  <2>1. Hub[call[c].path] \in 0..MaxRev
    BY <1>1, CallAt, HubTyped
  <2>2. CallFine(k, table) /\ k.op # "create"
    BY <1>1, <2>1, CallAt DEF CallFine
  <2>3. call' = [call EXCEPT ![c] = k]
    BY <1>3, CallAt
  <2> HIDE DEF k
  <2> QED BY <1>1, <2>2, <2>3, StaysPut, OneCall, OnlyCallCloses
<1>4. CASE Goto(c, IF call[c].pc = "miss" THEN "miss_list" ELSE "load")
  <2> DEFINE pc == IF call[c].pc = "miss" THEN "miss_list" ELSE "load"
  <2>1. pc \in {"miss_list", "load"} /\ Goto(c, pc)
    BY <1>4
  <2> HIDE DEF pc
  <2>2. CallsOK'
    BY <1>1, <2>1, StaysPut, GoesOn
  <2> QED BY <1>1, <2>2, OnlyCallCloses
<1>5. CASE Return(c)
  BY <1>1, <1>5, StaysPut, Returns, OnlyCallCloses
<1> QED BY <1>2, <1>3, <1>4, <1>5

LEMMA MissListStep ==
    ASSUME IInv, UNCHANGED feed, NEW c \in Client, MissList(c) PROVE IInv' /\ LocalStep
<1>1. /\ call[c].op \notin {"none", "readdir", "forget", "create"}
      /\ OnlyCall /\ opens' = opens /\ table' = table
  BY OnName DEF MissList, Plain, OnlyCall, kernel
<1>2. Goto(c, "insert_dir") \/ Goto(c, "neg") \/ Return(c)
  BY DEF MissList
<1>3. CASE Goto(c, "insert_dir")
  BY <1>1, <1>3, StaysPut, GoesOn, OnlyCallCloses
<1>4. CASE Goto(c, "neg")
  BY <1>1, <1>4, StaysPut, GoesOn, OnlyCallCloses
<1>5. CASE Return(c)
  BY <1>1, <1>5, StaysPut, Returns, OnlyCallCloses
<1> QED BY <1>2, <1>3, <1>4, <1>5

LEMMA NegInsertStep ==
    ASSUME IInv, UNCHANGED feed, NEW c \in Client, NegInsert(c) PROVE IInv' /\ LocalStep
<1>1. /\ UNCHANGED <<case, log, refs, opens, commit, round, table, dirlock, sweep>>
      /\ Return(c) /\ neg' = neg \cup {call[c].path}
  BY DEF NegInsert, kernel
<1>2. neg' \subseteq Path /\ dirlock' \subseteq Ino /\ sweep' \subseteq Ino
  BY <1>1, OnName DEF NegInsert, Plain, IInv, SetsOK
<1>3. IInv'
  BY <1>1, <1>2, StaysPut, Returns, Closes
<1> QED BY <1>1, <1>3 DEF LocalStep

LEMMA NegExpireStep ==
    ASSUME IInv, UNCHANGED feed, NEW p, NegExpire(p) PROVE IInv' /\ LocalStep
<1>1. /\ UNCHANGED <<case, log, refs, opens, commit, round, table, dirlock, sweep, call>>
      /\ neg' = neg \ {p}
  BY DEF NegExpire, kernel
<1>2. neg' \subseteq Path /\ dirlock' \subseteq Ino /\ sweep' \subseteq Ino
  BY <1>1 DEF IInv, SetsOK
<1>3. IInv'
  BY <1>1, <1>2, StaysPut, Moves, Closes
<1> QED BY <1>1, <1>3 DEF LocalStep

\* What LookupChild returns is a linked child under that name.
LEMMA ChildSays ==
    ASSUME NEW t, NEW x, SoundBut(t, x), NEW d, NEW p, LookupChild(t, d, p) # None
    PROVE  LET i == LookupChild(t, d, p)
           IN  /\ d \in Inodes(t) /\ i \in Inodes(t) /\ t.ino[i].nlink > 0
               /\ t.ino[i].parent = d /\ t.ino[i].path = p
<1>1. d \in Inodes(t) /\ p \in DOMAIN t.ino[d].index /\ LookupChild(t, d, p) = t.ino[d].index[p]
  BY DEF LookupChild, Has
<1>2. ChildrenTell(t)
  BY Facts
<1> QED BY <1>1, <1>2 DEF ChildrenTell

LEMMA InsertFileStep ==
    ASSUME IInv, UNCHANGED feed, NEW c \in Client, InsertFile(c) 
    PROVE  IInv' /\ LocalStep /\ Grows(table, table') /\ (HubIsTree /\ Asked(call[c], table) => Honest(table, table', {}))
<1> DEFINE d == call[c].dir
           p == call[c].path
           old == LookupChild(table, d, p)
           cleared == IF old = None THEN table ELSE RemoveInode(table, old)
<1>1. /\ call[c].op \notin {"none", "readdir", "forget", "create"} /\ p \in Path
      /\ Has(table, d) => Up[p] = table.ino[d].path
      /\ call[c].ans \in 0..MaxRev /\ Sound(table) /\ OnlyTable /\ opens' = opens
  BY OnName, CallAt DEF InsertFile, Plain, CallFine, OnlyTable, kernel
<1>2. CASE table' = table /\ Return(c)
  BY <1>1, <1>2, StaysPut, Returns, OnlyTableCloses, HonestItself
<1>3. CASE table' = table /\ GotAttr(c, table, old)
  <2>1. GotAttr(c, table', old)
    BY <1>3
  <2> HIDE DEF old
  <2> QED BY <1>1, <1>3, <2>1, StaysPut, GotsAttr, OnlyTableCloses, HonestItself
<1>4. CASE /\ IsDir(table, d) /\ ~(old # None /\ (IsFile(table, old) \/ HasDirtyOrOpen(table, old)))
           /\ cleared.next <= MaxIno /\ table' = Insert(cleared, d, p, "file", call[c].ans)
           /\ GotAttr(c, table', InsertedIno(cleared, p))
  <2>0. Asked(call[c], table) => call[c].ans = Hub[p] /\ Hub[p] # None
    BY DEF InsertFile, Asked
  <2>1. /\ Sound(cleared) /\ Keeps(table, cleared) /\ IsDir(cleared, d) /\ cleared.ino[d].path = table.ino[d].path
        /\ HubIsTree /\ Hub[p] # None => Honest(table, cleared, {})
    <3>1. CASE old = None
      BY <1>1, <1>4, <3>1, SoundTyped, HonestItself
    <3>2. CASE old # None
      <4>1. /\ Has(table, d) /\ p \in DOMAIN table.ino[d].index /\ old = table.ino[d].index[p] /\ Has(table, old)
            /\ ~HasDirtyOrOpen(table, old)
        BY Zenon, <1>4, <3>2 DEF LookupChild
      <4>2. /\ TableTyped(table) /\ RootStays(table) /\ Below(table) /\ ChildrenTell(table)
        BY <1>1, Facts DEF Sound
      <4>3. table.ino[old].nlink > 0 /\ table.ino[old].parent = d /\ table.ino[old].path = p
        BY <1>1, <3>2, ChildSays DEF Sound
      <4>4. old # RootIno /\ d < old /\ Linked(table, old)
        BY Zenon, <1>1, <4>1, <4>2, <4>3, PathAssumption DEF RootStays, Below, Linked, Has
      <4>5. /\ Sound(cleared) /\ Keeps(table, cleared) /\ Cut(table, cleared, Subtree(table, old))
        BY Zenon, <1>1, <3>2, <4>1, <4>4, RemoveInodeKeeps
      <4>6. d \notin Subtree(table, old)
        <5>1. \A j \in Subtree(table, old) : j >= old
          BY <1>1, <4>1, SubtreeIs DEF Sound, Has
        <5>2. d \in Nat /\ old \in Nat
          BY <4>1, <4>2 DEF TableTyped, Has
        <5> HIDE DEF d, old
        <5> QED BY <4>4, <5>1, <5>2
      <4>7. d \in Inodes(cleared)
        BY Zenon, <4>1, <4>5, <4>6 DEF Cut, Has
      <4>8. cleared.ino[d].kind = table.ino[d].kind /\ cleared.ino[d].path = table.ino[d].path
        BY Zenon, <4>1, <4>2, <4>5, <4>7 DEF Keeps, Grows, TableTyped, Has
      <4>9. HubIsTree /\ Hub[p] # None => Honest(table, cleared, {})
        <5>1. IsDir(table, old)
          BY Zenon, <1>4, <3>2, <4>1, <4>2 DEF IsDir, IsFile, Has, TableTyped, EntryOK
        <5>2. Hub[table.ino[old].path] # None => IsDir(table, old) /\ Hub[table.ino[old].path] # None
          BY <5>1
        <5>3. cleared = RemoveInode(table, old)
          BY <3>2
        <5> HIDE DEF cleared, old, p, d
        <5> QED BY <1>1, <4>3, <4>4, <5>2, <5>3, RemoveInodeHonest
      <4> QED BY <1>4, <4>5, <4>7, <4>8, <4>9 DEF IsDir, Has
    <3> QED BY <3>1, <3>2
  <2> HIDE DEF cleared, old, d, p
  <2>2. /\ Sound(table') /\ Keeps(cleared, table')
        /\ table'.next = IF p \in DOMAIN cleared.path THEN cleared.next ELSE cleared.next + 1
    BY <1>1, <1>4, <2>1, InsertKeeps DEF IsDir
  <2>3. Keeps(table, table')
    BY <1>1, <2>1, <2>2, SoundTyped, KeepsOn
  <2>4. table'.next <= MaxIno + 1
    BY <1>4, <2>1, <2>2, SoundTyped, BoundsAssumption DEF TableTyped
  <2>5. HubIsTree /\ Asked(call[c], table) => Honest(table, table', {})
    <3>1. Asked(call[c], table) => Honest(cleared, table', {})
      BY <1>1, <1>4, <2>0, <2>1, InsertHonest DEF IsDir
    <3>2. TableTyped(table) /\ TableTyped(cleared) /\ TableTyped(table') /\ Grows(table, cleared) /\ Grows(cleared, table')
      BY <1>1, <2>1, <2>2, SoundTyped DEF Keeps
    <3> QED BY <2>0, <2>1, <3>1, <3>2, HonestOn
  <2> QED BY <1>1, <1>4, <2>2, <2>3, <2>4, <2>5, GotsAttr, OnlyTableCloses DEF Keeps
<1>5. \/ table' = table /\ Return(c)
      \/ table' = table /\ GotAttr(c, table, old)
      \/ /\ IsDir(table, d) /\ ~(old # None /\ (IsFile(table, old) \/ HasDirtyOrOpen(table, old)))
         /\ cleared.next <= MaxIno /\ table' = Insert(cleared, d, p, "file", call[c].ans)
         /\ GotAttr(c, table', InsertedIno(cleared, p))
  BY DEF InsertFile
<1> QED BY <1>2, <1>3, <1>4, <1>5

LEMMA InsertDirStep ==
    ASSUME IInv, UNCHANGED feed, NEW c \in Client, InsertDir(c) PROVE IInv' /\ LocalStep
<1> DEFINE d == call[c].dir
           p == call[c].path
           old == LookupChild(table, d, p)
<1>1. /\ call[c].op \notin {"none", "readdir", "forget", "create"} /\ p \in Path
      /\ Has(table, d) => Up[p] = table.ino[d].path
      /\ Sound(table) /\ OnlyTable /\ opens' = opens
  BY OnName, CallAt DEF InsertDir, Plain, CallFine, OnlyTable, kernel
<1>2. CASE table' = table /\ Return(c)
  BY <1>1, <1>2, StaysPut, Returns, OnlyTableCloses
<1>3. CASE table' = table /\ GotAttr(c, table, old)
  <2>1. GotAttr(c, table', old)
    BY <1>3
  <2> HIDE DEF old
  <2> QED BY <1>1, <1>3, <2>1, StaysPut, GotsAttr, OnlyTableCloses
<1>4. CASE /\ IsDir(table, d) /\ table.next <= MaxIno /\ table' = Insert(table, d, p, "dir", None)
           /\ GotAttr(c, table', InsertedIno(table, p))
  <2>1. None \in 0..MaxRev
    BY BoundsAssumption DEF None
  <2> HIDE DEF d, p, old
  <2>2. /\ Sound(table') /\ Keeps(table, table')
        /\ table'.next = IF p \in DOMAIN table.path THEN table.next ELSE table.next + 1
    BY <1>1, <1>4, <2>1, InsertKeeps DEF IsDir
  <2>3. table'.next <= MaxIno + 1
    BY <1>1, <1>4, <2>2, SoundTyped, BoundsAssumption DEF TableTyped
  <2> QED BY <1>1, <1>4, <2>2, <2>3, GotsAttr, OnlyTableCloses DEF Keeps
<1>5. \/ table' = table /\ Return(c)
      \/ table' = table /\ GotAttr(c, table, old)
      \/ /\ IsDir(table, d) /\ table.next <= MaxIno /\ table' = Insert(table, d, p, "dir", None)
         /\ GotAttr(c, table', InsertedIno(table, p))
  BY DEF InsertDir
<1> QED BY <1>2, <1>3, <1>4, <1>5

LEMMA LoadStep ==
    ASSUME IInv, UNCHANGED feed, NEW c \in Client, Load(c) PROVE IInv' /\ LocalStep
<1>1. /\ UNCHANGED <<case, log, refs, opens, commit, round, table, neg, sweep>>
      /\ Return(c) \/ Goto(c, "loaded") \/ Goto(c, "list")
      /\ dirlock' = dirlock \/ (IsDir(table, call[c].dir) /\ dirlock' = dirlock \cup {call[c].dir})
  BY DEF Load, kernel
<1>2. neg' \subseteq Path /\ dirlock' \subseteq Ino /\ sweep' \subseteq Ino
  BY <1>1, InodesAreIno DEF IInv, SetsOK, IsDir, Has
<1>3. CallsOK'
  <2>1. CASE Return(c)
    BY <1>1, <2>1, StaysPut, Returns
  <2>2. CASE Goto(c, "loaded")
    BY <1>1, <2>2, StaysPut, GoesOn
  <2>3. CASE Goto(c, "list")
    BY <1>1, <2>3, StaysPut, GoesOn
  <2> QED BY <1>1, <2>1, <2>2, <2>3
<1>4. IInv'
  BY <1>1, <1>2, <1>3, StaysPut, Closes
<1> QED BY <1>1, <1>4 DEF LocalStep

LEMMA ListDirStep ==
    ASSUME IInv, UNCHANGED feed, NEW c \in Client, ListDir(c) PROVE IInv' /\ LocalStep
<1> DEFINE list == ListTree(table.ino[call[c].dir].path)
           k == [call[c] EXCEPT !.pc = "install", !.list = list]
<1>1. /\ UNCHANGED <<case, log, refs, opens, commit, round, table, neg, sweep>>
      /\ dirlock' \subseteq dirlock
  BY DEF ListDir, kernel
<1>2. neg' \subseteq Path /\ dirlock' \subseteq Ino /\ sweep' \subseteq Ino
  BY <1>1 DEF IInv, SetsOK
<1>3. CallsOK'
  <2>1. CASE Return(c)
    BY <1>1, <2>1, StaysPut, Returns
  <2>2. CASE call' = [call EXCEPT ![c].pc = "install", ![c].list = list]
    <3>1. list \subseteq Answers /\ IsFiniteSet(list) /\ \A e \in list : Up[e.path] = table.ino[call[c].dir].path
      BY CallAt, ListTreeTyped
    <3>2. call' = [call EXCEPT ![c] = k]
      BY <2>2, CallAt
    <3> HIDE DEF list
    <3>3. CallFine(k, table) /\ (k.op = "create" => k.pc \notin {"create", "reply"})
      BY <3>1, CallAt DEF CallFine
    <3> HIDE DEF k
    <3> QED BY <1>1, <3>2, <3>3, StaysPut, OneCall
  <2> QED BY <2>1, <2>2 DEF ListDir
<1>4. IInv'
  BY <1>1, <1>2, <1>3, StaysPut, Closes
<1> QED BY <1>1, <1>4 DEF LocalStep

LEMMA InstallStep ==
    ASSUME IInv, UNCHANGED feed, NEW c \in Client, Install(c) PROVE IInv' /\ LocalStep
<1> DEFINE d == call[c].dir
           k == [call[c] EXCEPT !.pc = "loaded", !.fresh = TRUE, !.list = {}]
<1>1. /\ UNCHANGED <<case, log, refs, opens, commit, round, neg, sweep>>
      /\ dirlock' \subseteq dirlock /\ TableTyped(table) /\ Sound(table)
      /\ CallFine(call[c], table) /\ table.next <= MaxIno + 1
  BY CallAt DEF Install, kernel
<1>2. neg' \subseteq Path /\ dirlock' \subseteq Ino /\ sweep' \subseteq Ino
  BY <1>1 DEF IInv, SetsOK
<1>3. CASE table' = table /\ (Return(c) \/ Goto(c, "loaded"))
  <2>1. CallsOK'
    BY <1>1, <1>3, StaysPut, Returns, GoesOn
  <2>2. IInv'
    BY <1>1, <1>2, <1>3, <2>1, StaysPut, Closes
  <2> QED BY <1>1, <1>3, <2>2 DEF LocalStep
<1>4. CASE /\ IsDir(table, d) /\ table' = Listed(table, d, call[c].list) /\ table'.next <= MaxIno + 1
           /\ call' = [call EXCEPT ![c].pc = "loaded", ![c].fresh = TRUE, ![c].list = {}]
  <2>1. Sound(table') /\ Keeps(table, table')
    <3>1. /\ IsFiniteSet(call[c].list) /\ call[c].list \subseteq [path : Path, hash : 0..MaxRev]
          /\ \A e \in call[c].list : Up[e.path] = table.ino[d].path
      BY <1>1, <1>4 DEF CallFine, Answers, IsDir
    <3> QED BY <1>1, <1>4, <3>1, ListedKeeps
  <2>2. CallFine(k, table') /\ (k.op = "create" => k.pc \notin {"create", "reply"})
    <3>1. CallFine(call[c], table')
      BY <1>1, <2>1, CallStays DEF Keeps
    <3>2. IsFiniteSet({})
      BY FS_EmptySet
    <3> QED BY <3>1, <3>2 DEF CallFine
  <2>3. call' = [call EXCEPT ![c] = k]
    BY <1>4, CallAt
  <2> HIDE DEF k, d
  <2>4. CallsOK'
    BY <1>1, <1>4, <2>1, <2>2, <2>3, OneCall DEF Keeps
  <2>5. IInv'
    BY <1>1, <1>2, <1>4, <2>1, <2>4, Closes DEF Keeps
  <2> QED BY <2>1, <2>5 DEF LocalStep, Keeps, DirtyKept, Linked, Has
<1>5. \/ table' = table /\ (Return(c) \/ Goto(c, "loaded"))
      \/ /\ IsDir(table, d) /\ table' = Listed(table, d, call[c].list) /\ table'.next <= MaxIno + 1
         /\ call' = [call EXCEPT ![c].pc = "loaded", ![c].fresh = TRUE, ![c].list = {}]
  BY DEF Install
<1> QED BY <1>3, <1>4, <1>5

LEMMA LookupLoadedStep ==
    ASSUME IInv, UNCHANGED feed, NEW c \in Client, LookupLoaded(c) PROVE IInv' /\ LocalStep
<1> DEFINE i == LookupChild(table, call[c].dir, call[c].path)
<1>1. /\ call[c].op \in {"lookup", "relookup"} /\ OnlyCall /\ opens' = opens /\ table' = table
      /\ GotAttr(c, table, i) \/ Goto(c, "neg") \/ Return(c)
  BY DEF LookupLoaded, OnlyCall, kernel
<1> HIDE DEF i
<1>2. CallsOK'
  <2>1. CASE GotAttr(c, table, i)
    <3>1. GotAttr(c, table', i)
      BY <1>1, <2>1
    <3> QED BY <1>1, <3>1, StaysPut, GotsAttr
  <2>2. CASE Goto(c, "neg")
    BY <1>1, <2>2, StaysPut, GoesOn
  <2>3. CASE Return(c)
    BY <1>1, <2>3, StaysPut, Returns
  <2> QED BY <1>1, <2>1, <2>2, <2>3
<1> QED BY <1>1, <1>2, OnlyCallCloses

LEMMA ReaddirLoadedStep ==
    ASSUME IInv, UNCHANGED feed, NEW c \in Client, ReaddirLoaded(c) PROVE IInv' /\ LocalStep
<1>1. OnlyCall /\ opens' = opens /\ table' = table /\ Return(c)
  BY DEF ReaddirLoaded, OnlyCall, kernel
<1>2. CallsOK'
  BY <1>1, StaysPut, Returns
<1> QED BY <1>1, <1>2, OnlyCallCloses

-----------------------------------------------------------------------------
(* Steps that count references and handles.                                *)

\* One counter, or the dirty mark or the content, of one inode.
Fits(f, v) == \/ f = "dirty" /\ v \in BOOLEAN
              \/ f \in {"open", "nlookup"} /\ v \in Nat
              \/ f = "hash" /\ v \in 0..MaxRev
SetField(t, i, f, v) == [t EXCEPT !.ino[i][f] = v]
FieldSet(t, u, i, f, v) ==
    /\ Inodes(u) = Inodes(t) /\ u.next = t.next /\ TableTyped(u) /\ Grows(t, u) /\ u.path = t.path
    /\ u.ino[i][f] = v /\ \A x \in Fields \ {f} : u.ino[i][x] = t.ino[i][x]
    /\ \A j \in Inodes(t) \ {i} : u.ino[j] = t.ino[j]
    /\ \A y : OrphansOpenBut(u, y) => SoundBut(u, y)
LEMMA OneField ==
    ASSUME NEW t, NEW z, SoundBut(t, z), NEW i, Has(t, i), NEW f, NEW v, Fits(f, v)
    PROVE  FieldSet(t, SetField(t, i, f, v), i, f, v)
<1> DEFINE u == SetField(t, i, f, v)
<1>u. u = [t EXCEPT !.ino[i][f] = v]
  BY DEF SetField
<1> HIDE DEF u
<1>0. TableTyped(t) /\ i \in Inodes(t) /\ EntryOK(t.ino[i]) /\ f \in Fields
  BY Facts DEF TableTyped, Has, Fields, Fits
<1>1. EntryOK([t.ino[i] EXCEPT ![f] = v])
  BY <1>0 DEF EntryOK, Fields, Fits
<1>2. Tweaked(t, u, {f}) /\ u.ino[i][f] = v /\ \A j \in Inodes(t) \ {i} : u.ino[j] = t.ino[j]
  <2>1. Tweaked(t, u, {f}) /\ \A j \in Inodes(t) \ {i} : u.ino[j] = t.ino[j]
    BY <1>u, <1>0, <1>1, TweakOne
  <2>2. u.ino[i][f] = v
    BY <1>u, <1>0 DEF TableTyped, EntryOK, Inodes
  <2> QED BY <2>1, <2>2
<1>3. {f} \cap NameFields = {}
  BY DEF NameFields, Fits
<1>4. \A y : OrphansOpenBut(u, y) => SoundBut(u, y)
  BY <1>2, <1>3, TweakSound
<1>5. Inodes(u) = Inodes(t) /\ u.next = t.next /\ u.path = t.path /\ \A x \in Fields \ {f} : u.ino[i][x] = t.ino[i][x]
  BY <1>0, <1>2 DEF Tweaked, ButFor
<1>6. TableTyped(u)
  BY <1>0, <1>2 DEF Tweaked, TableTyped
<1>7. Grows(t, u)
  <2>1. {"kind", "path"} \subseteq Fields \ {f}
    BY DEF Fits, Fields
  <2>2. \A j \in Inodes(t) : u.ino[j].kind = t.ino[j].kind /\ u.ino[j].path = t.ino[j].path
    BY <1>2, <1>5, <2>1
  <2> QED BY <1>0, <1>5, <2>2 DEF Grows, TableTyped
<1> QED BY <1>2, <1>4, <1>5, <1>6, <1>7 DEF FieldSet, u

LEMMA FieldAlike ==
    ASSUME NEW t, NEW u, NEW i \in Inodes(t), NEW v, FieldSet(t, u, i, "open", v) PROVE Alike(t, u, {})
  BY DEF FieldSet, Alike, SeenFields, Fields

LEMMA MarkDirty ==
    ASSUME NEW t, Sound(t), NEW i, Has(t, i), NEW u, u = [t EXCEPT !.ino[i].dirty = TRUE]
    PROVE  Sound(u) /\ Keeps(t, u) /\ u.next = t.next /\ Inodes(u) = Inodes(t)
<1>v. PICK v : v = TRUE
  OBVIOUS
<1>0. Fits("dirty", v) /\ u = SetField(t, i, "dirty", v)
  BY <1>v DEF Fits, SetField
<1>1. /\ Inodes(u) = Inodes(t) /\ u.next = t.next /\ TableTyped(u) /\ Grows(t, u)
      /\ u.ino[i].dirty = TRUE /\ \A x \in Fields \ {"dirty"} : u.ino[i][x] = t.ino[i][x]
      /\ \A j \in Inodes(t) \ {i} : u.ino[j] = t.ino[j]
      /\ OrphansOpenBut(u, None) => SoundBut(u, None)
  <2>0. SoundBut(t, None)
    BY DEF Sound
  <2>1. FieldSet(t, u, i, "dirty", v)
    <3>1. Has(t, i)
      OBVIOUS
    <3>2. FieldSet(t, SetField(t, i, "dirty", v), i, "dirty", v)
      BY ONLY <1>0, <2>0, <3>1, OneField
    <3> QED BY <1>0, <3>2, Zenon
  <2>2. u.ino[i].dirty = v
    BY ONLY <2>1, Zenon DEF FieldSet
  <2> QED BY <1>v, <2>1, <2>2, ZenonT(30) DEF FieldSet
<1>2. \A j \in Inodes(t) : u.ino[j].nlink = t.ino[j].nlink /\ u.ino[j].open = t.ino[j].open /\ (t.ino[j].dirty => u.ino[j].dirty)
  BY <1>1 DEF Fields
<1>3. OrphansOpenBut(u, None)
  BY <1>1, <1>2, Facts DEF OrphansOpenBut, Sound
<1> QED BY Zenon, <1>1, <1>2, <1>3 DEF Sound, Keeps, OpenKept, DirtyKept

LEMMA CountLookup ==
    ASSUME NEW t, Sound(t), NEW i, Has(t, i), NEW n \in Nat, NEW u, u = [t EXCEPT !.ino[i].nlookup = n]
    PROVE  Sound(u) /\ Keeps(t, u) /\ u.next = t.next /\ Inodes(u) = Inodes(t)
<1>0. Fits("nlookup", n) /\ u = SetField(t, i, "nlookup", n)
  BY DEF Fits, SetField
<1>1. /\ Inodes(u) = Inodes(t) /\ u.next = t.next /\ TableTyped(u) /\ Grows(t, u)
      /\ \A x \in Fields \ {"nlookup"} : u.ino[i][x] = t.ino[i][x]
      /\ \A j \in Inodes(t) \ {i} : u.ino[j] = t.ino[j]
      /\ OrphansOpenBut(u, None) => SoundBut(u, None)
  <2>1. FieldSet(t, u, i, "nlookup", n)
    BY <1>0, OneField DEF Sound
  <2> QED BY <2>1 DEF FieldSet
<1>2. \A j \in Inodes(t) : u.ino[j].nlink = t.ino[j].nlink /\ u.ino[j].open = t.ino[j].open /\ u.ino[j].dirty = t.ino[j].dirty
  BY <1>1 DEF Fields
<1>3. OrphansOpenBut(u, None)
  BY <1>1, <1>2, Facts DEF OrphansOpenBut, Sound
<1> QED BY <1>1, <1>2, <1>3 DEF Sound, Keeps, OpenKept, DirtyKept

\* One handle more.
Counted(t, u, i, n) ==
    /\ Grows(t, u) /\ DirtyKept(t, u) /\ u.next = t.next /\ Inodes(u) = Inodes(t)
    /\ u.ino[i].open = n /\ \A j \in Inodes(t) \ {i} : u.ino[j] = t.ino[j]
LEMMA OneMore ==
    ASSUME NEW t, Sound(t), NEW i, Has(t, i), NEW u, u = SetField(t, i, "open", t.ino[i].open + 1)
    PROVE  Sound(u) /\ Counted(t, u, i, t.ino[i].open + 1)
<1>0. TableTyped(t) /\ t.ino[i].open \in Nat
  BY SoundTyped DEF TableTyped, EntryOK, Has
<1>s. u = SetField(t, i, "open", t.ino[i].open + 1) /\ Fits("open", t.ino[i].open + 1)
  BY <1>0 DEF Fits
<1>1. /\ Inodes(u) = Inodes(t) /\ u.next = t.next /\ TableTyped(u) /\ Grows(t, u)
      /\ u.ino[i].open = t.ino[i].open + 1 /\ \A x \in Fields \ {"open"} : u.ino[i][x] = t.ino[i][x]
      /\ \A j \in Inodes(t) \ {i} : u.ino[j] = t.ino[j]
      /\ OrphansOpenBut(u, None) => SoundBut(u, None)
  <2>1. FieldSet(t, u, i, "open", t.ino[i].open + 1)
    BY <1>s, OneField DEF Sound
  <2> QED BY <2>1 DEF FieldSet
<1>2. \A j \in Inodes(t) : u.ino[j].nlink = t.ino[j].nlink /\ u.ino[j].kind = t.ino[j].kind /\ u.ino[j].dirty = t.ino[j].dirty
  BY <1>1 DEF Fields
<1>3. OrphansOpenBut(u, None)
  <2>1. OrphansOpenBut(t, None)
    BY Facts DEF Sound
  <2>2. \A j \in Inodes(t) : t.ino[j].open > 0 => u.ino[j].open > 0
    BY ONLY <1>0, <1>1
  <2>3. Inodes(u) = Inodes(t)
    BY <1>1
  <2> QED BY ONLY <1>2, <2>1, <2>2, <2>3 DEF OrphansOpenBut
<1> QED BY <1>1, <1>2, <1>3 DEF Sound, DirtyKept, Has, Counted

LEMMA MarkLoaded ==
    ASSUME NEW t, Sound(t), NEW i, Has(t, i), NEW u, u = SetField(t, i, "loaded", TRUE)
    PROVE  Sound(u) /\ Keeps(t, u) /\ u.next = t.next /\ Inodes(u) = Inodes(t)
  BY SMT, MarkKeeps DEF SetField

LEMMA MarkLocal ==
    ASSUME NEW t, Sound(t), NEW i, Has(t, i), NEW u, u = SetField(t, i, "local", TRUE)
    PROVE  Sound(u) /\ Keeps(t, u) /\ u.next = t.next /\ Inodes(u) = Inodes(t)
  BY SMT, MarkKeeps DEF SetField

LEMMA AnyCall ==
    ASSUME IInv, TableTyped(table'), Grows(table, table'), NEW c \in Client, NEW k, call' = [call EXCEPT ![c] = k],
           CallFine(k, table'),
           \A x \in Client : call'[x].op = "create" /\ call'[x].pc = "reply" =>
               call'[x].ino \in Inodes(table') /\ table'.ino[call'[x].ino].open > opens'[call'[x].ino],
           \A i \in Ino : Creating(k, i) => \A x \in Client \ {c} : ~Creating(call[x], i)
    PROVE  CallsOK'
<1>0. TableTyped(table) /\ CallsOK
  BY CallAt DEF IInv
<1>1. DOMAIN call' = Client /\ call'[c] = k /\ \A x \in Client \ {c} : call'[x] = call[x]
  BY <1>0 DEF CallsOK
<1>2. \A x \in Client : CallFine(call'[x], table')
  BY <1>0, <1>1, CallStays DEF CallsOK
<1>3. \A y, x \in Client, i \in Ino : Creating(call'[y], i) /\ Creating(call'[x], i) => y = x
  BY <1>0, <1>1 DEF CallsOK
<1> QED BY <1>1, <1>2, <1>3 DEF CallsOK

LEMMA RoundStays == ASSUME IInv, Grows(table, table'), TableTyped(table'), round' = round PROVE RoundOK'
<1>0. TableTyped(table) /\ RoundOK
  BY SoundTyped DEF IInv, TableOK
<1> QED BY <1>0 DEF RoundOK, FileOrGone, Has, IsFile, Grows, TableTyped, Ino

\* A step that leaves the Hub and the round alone.
LEMMA ClosesKernel ==
    ASSUME IInv, UNCHANGED <<case, log, round, feed, dirlock, sweep>>, neg' \subseteq Path,
           Sound(table'), Grows(table, table'), table'.next <= MaxIno + 1, CallsOK', KernelOK'
    PROVE  IInv'
<1>1. TableOK' /\ RoundOK'
  BY RoundStays, SoundTyped DEF TableOK
<1>2. HubOK' /\ SetsOK' /\ FeedOK'
  BY DEF IInv, HubOK, SetsOK, FeedOK, Rev
<1> QED BY <1>1, <1>2 DEF IInv

LEMMA CreateInsertStep ==
    ASSUME IInv, UNCHANGED feed, NEW c \in Client, CreateInsert(c) PROVE IInv' /\ LocalStep
<1> DEFINE d == call[c].dir
           p == call[c].path
           i == InsertedIno(table, p)
           u == Insert(table, d, p, "file", None)
           k == [call[c] EXCEPT !.pc = "create", !.ino = i]
<1>1. /\ OnlyTable /\ UNCHANGED <<case, log, round, feed, dirlock, sweep, refs, opens, commit, neg>>
      /\ call[c].op = "create" /\ CallFine(call[c], table) /\ TableTyped(table) /\ Sound(table)
      /\ table.next <= MaxIno + 1 /\ CallsOK
  BY CallAt DEF CreateInsert, OnlyTable, kernel, IInv
<1>2. CASE table' = table /\ Return(c)
  BY <1>1, <1>2, StaysPut, Returns, OnlyTableCloses
<1>3. CASE /\ IsDir(table, d) /\ LookupChild(table, d, p) = None /\ table.next <= MaxIno
           /\ table' = [u EXCEPT !.ino[i].dirty = TRUE]
           /\ call' = [call EXCEPT ![c].pc = "create", ![c].ino = i]
  <2>1. p \in Path /\ Up[p] = table.ino[d].path
    BY <1>1, <1>3 DEF CallFine, IsDir
  <2>2. p \notin DOMAIN table.path /\ i = table.next
    BY <1>1, <1>3, <2>1, NoChildNoPath DEF Sound, InsertedIno
  <2>3. None \in 0..MaxRev
    BY BoundsAssumption DEF None
  <2>4. /\ Sound(u) /\ Keeps(table, u) /\ i \in Inodes(u) /\ u.next = table.next + 1
    BY <1>1, <1>3, <2>1, <2>2, <2>3, InsertKeeps
  <2>c. call' = [call EXCEPT ![c] = k]
    BY <1>1, <1>3 DEF CallsOK
  <2> HIDE DEF u, d, p, i
  <2>5. Sound(table') /\ Keeps(u, table') /\ table'.next = u.next /\ Inodes(table') = Inodes(u)
    BY <1>3, <2>4, MarkDirty DEF Has
  <2>6. Keeps(table, table')
    BY <1>1, <2>4, <2>5, SoundTyped, KeepsOn
  <2>7. table'.next = table.next + 1 /\ table'.next <= MaxIno + 1 /\ i \in Ino
    BY <1>1, <1>3, <2>2, <2>4, <2>5, BoundsAssumption DEF TableTyped, Ino
  <2>8. CallFine(k, table')
    <3>1. CallFine(call[c], table')
      BY <1>1, <2>6, CallStays DEF Keeps
    <3>2. i < table'.next
      BY <1>1, <2>2, <2>7 DEF TableTyped
    <3> QED BY <1>1, <2>7, <3>1, <3>2 DEF CallFine
  <2>9. k.op = "create" /\ k.ino = i /\ k.pc = "create"
    BY <1>1 DEF CallFine
  <2>10. \A j \in Ino : Creating(k, j) => \A x \in Client \ {c} : ~Creating(call[x], j)
    <3>1. \A x \in Client : call[x].ino < table.next /\ call[x].ino \in Nat
      BY <1>1, BoundsAssumption DEF CallsOK, CallFine, Ino, None
    <3>2. \A x \in Client : call[x].ino # i
      BY <1>1, <2>2, <3>1 DEF TableTyped
    <3> QED BY <2>9, <3>2 DEF Creating
  <2>11. \A x \in Client : call'[x].op = "create" /\ call'[x].pc = "reply" =>
               call'[x].ino \in Inodes(table') /\ table'.ino[call'[x].ino].open > opens'[call'[x].ino]
    <3> SUFFICES ASSUME NEW x \in Client, call'[x].op = "create", call'[x].pc = "reply"
                 PROVE  call'[x].ino \in Inodes(table') /\ table'.ino[call'[x].ino].open > opens'[call'[x].ino]
      OBVIOUS
    <3>1. x # c /\ call'[x] = call[x]
      BY <1>1, <2>c, <2>9 DEF CallsOK
    <3>2. call[x].ino \in Inodes(table) /\ table.ino[call[x].ino].open > opens[call[x].ino]
      BY <1>1, <3>1 DEF CallsOK
    <3>3. table.ino[call[x].ino].open > 0
      BY <1>1, <3>2, InodesAreIno DEF IInv, KernelOK, TableTyped, EntryOK
    <3> QED BY <1>1, <2>6, <3>1, <3>2, <3>3 DEF Keeps, OpenKept
  <2> HIDE DEF k
  <2>12. CallsOK'
    BY <2>5, <2>6, <2>8, <2>10, <2>11, <2>c, AnyCall, SoundTyped DEF Keeps
  <2> QED BY <1>1, <2>5, <2>6, <2>7, <2>12, OnlyTableCloses
<1>4. \/ table' = table /\ Return(c)
      \/ /\ IsDir(table, d) /\ LookupChild(table, d, p) = None /\ table.next <= MaxIno
         /\ table' = [u EXCEPT !.ino[i].dirty = TRUE]
         /\ call' = [call EXCEPT ![c].pc = "create", ![c].ino = i]
  BY DEF CreateInsert
<1> QED BY <1>2, <1>3, <1>4

LEMMA CreateOpenStep ==
    ASSUME IInv, UNCHANGED feed, NEW c \in Client, CreateOpen(c) PROVE IInv' /\ LocalStep
<1> DEFINE i == call[c].ino
           k == [call[c] EXCEPT !.pc = "reply", !.ino = i]
<1>1. /\ UNCHANGED <<case, log, round, feed, dirlock, sweep, refs, opens, commit>>
      /\ neg' \subseteq neg /\ call[c].pc = "create" /\ CallFine(call[c], table) /\ TableTyped(table) /\ Sound(table)
      /\ table.next <= MaxIno + 1 /\ CallsOK /\ KernelOK
      /\ neg' \subseteq Path /\ dirlock' \subseteq Ino /\ sweep' \subseteq Ino
  BY CallAt DEF CreateOpen, kernel, IInv, SetsOK
<1>2. CASE ~Has(table, i)
  <2>1. table' = table /\ Return(c)
    BY <1>2 DEF CreateOpen, GotAttr
  <2>2. IInv'
    BY <1>1, <2>1, StaysPut, Returns, Closes
  <2> QED BY <2>1, <2>2 DEF LocalStep
<1>3. CASE Has(table, i)
  <2>1. /\ table' = [table EXCEPT !.ino[i].open = @ + 1] /\ table.ino[i].open < MaxRefs
        /\ call' = [call EXCEPT ![c] = k]
    BY <1>1, <1>3 DEF CreateOpen, GotAttr, CallsOK
  <2>2. i \in Inodes(table) /\ i \in Ino
    BY <1>3, InodesAreIno DEF IInv, Has
  <2>3. k.ino = i /\ k.op = call[c].op
    BY <1>1 DEF CallFine
  <2>4. CallFine(k, table)
    BY <1>1, <2>2, OnName DEF CallFine, Plain
  <2> HIDE DEF i, k
  <2>5. /\ Sound(table') /\ Grows(table, table') /\ DirtyKept(table, table') /\ table'.next = table.next
        /\ Inodes(table') = Inodes(table)
        /\ table'.ino[i].open = table.ino[i].open + 1 /\ \A j \in Inodes(table) \ {i} : table'.ino[j] = table.ino[j]
    <3>1. table' = SetField(table, i, "open", table.ino[i].open + 1)
      BY <2>1 DEF SetField
    <3>2. Sound(table') /\ Counted(table, table', i, table.ino[i].open + 1)
      BY ONLY <1>1, <1>3, <3>1, OneMore
    <3> QED BY <3>2 DEF Counted
  <2>6. CallFine(k, table') /\ TableTyped(table')
    BY <1>1, <2>4, <2>5, CallStays, SoundTyped
  <2>7. \A j \in Inodes(table) : table.ino[j].open \in Nat /\ table'.ino[j].open >= table.ino[j].open /\ table'.ino[j].open <= MaxRefs
    BY <1>1, <2>1, <2>2, <2>5, BoundsAssumption DEF TableTyped, EntryOK, KernelOK
  <2>8. KernelOK'
    <3>1. Inodes(table) \subseteq Ino
      BY InodesAreIno DEF IInv
    <3>2. \A j \in Inodes(table') : opens[j] \in Nat /\ table.ino[j].open >= opens[j] /\ table'.ino[j].open \in Nat
      BY <1>1, <2>5, <2>6, <3>1, BoundsAssumption DEF KernelOK, TableTyped, EntryOK
    <3>3. \A j \in Inodes(table') : table'.ino[j].open <= MaxRefs /\ table'.ino[j].open >= opens[j]
      BY <2>5, <2>7, <3>2
    <3> QED BY <1>1, <2>5, <3>3 DEF KernelOK
  <2>9. \A x \in Client : call'[x].op = "create" /\ call'[x].pc = "reply" =>
               call'[x].ino \in Inodes(table') /\ table'.ino[call'[x].ino].open > opens'[call'[x].ino]
    <3> SUFFICES ASSUME NEW x \in Client, call'[x].op = "create", call'[x].pc = "reply"
                 PROVE  call'[x].ino \in Inodes(table') /\ table'.ino[call'[x].ino].open > opens'[call'[x].ino]
      OBVIOUS
    <3>1. CASE x = c
      <4>1. call'[x].ino = i
        BY <1>1, <2>1, <2>3, <3>1 DEF CallsOK
      <4>2. opens[i] \in Nat /\ table.ino[i].open >= opens[i] /\ table.ino[i].open \in Nat
        BY <1>1, <2>2, <2>7, BoundsAssumption DEF KernelOK
      <4> QED BY <1>1, <2>2, <2>5, <4>1, <4>2
    <3>2. CASE x # c
      <4>1. call'[x] = call[x]
        BY <1>1, <2>1, <3>2 DEF CallsOK
      <4>2. call[x].ino \in Inodes(table) /\ table.ino[call[x].ino].open > opens[call[x].ino]
        BY <1>1, <4>1 DEF CallsOK
      <4>3. opens[call[x].ino] \in Nat
        BY <1>1, <4>2, InodesAreIno, BoundsAssumption DEF KernelOK, IInv
      <4>4. /\ table.ino[call[x].ino].open \in Nat /\ table'.ino[call[x].ino].open >= table.ino[call[x].ino].open
            /\ table'.ino[call[x].ino].open \in Nat
        BY <2>5, <2>6, <2>7, <4>2 DEF TableTyped, EntryOK
      <4> QED BY <1>1, <2>5, <4>1, <4>2, <4>3, <4>4
    <3> QED BY <3>1, <3>2
  <2>10. \A j \in Ino : Creating(k, j) => \A x \in Client \ {c} : ~Creating(call[x], j)
    BY <1>1, <2>3 DEF Creating, CallsOK, i
  <2>11. CallsOK'
    BY <2>1, <2>5, <2>6, <2>9, <2>10, AnyCall
  <2>12. IInv'
    BY <1>1, <2>5, <2>8, <2>11, ClosesKernel
  <2> QED BY <2>5, <2>12 DEF LocalStep, DirtyKept, Linked, Has
<1> QED BY <1>2, <1>3

LEMMA MkdirStep ==
    ASSUME IInv, UNCHANGED feed, NEW c \in Client, Mkdir(c) PROVE IInv' /\ LocalStep
<1> DEFINE d == call[c].dir
           p == call[c].path
           i == InsertedIno(table, p)
           u == Insert(table, d, p, "dir", None)
           v == [u EXCEPT !.ino[i].loaded = TRUE]
           k == [call[c] EXCEPT !.pc = "mkdir", !.ino = i]
<1>1. /\ OnlyTable /\ UNCHANGED <<case, log, round, feed, dirlock, sweep, refs, opens, commit, neg>>
      /\ call[c].op = "mkdir" /\ CallFine(call[c], table) /\ TableTyped(table) /\ Sound(table)
      /\ table.next <= MaxIno + 1 /\ CallsOK
  BY CallAt DEF Mkdir, OnlyTable, kernel, IInv
<1>2. CASE table' = table /\ Return(c)
  BY <1>1, <1>2, StaysPut, Returns, OnlyTableCloses
<1>3. CASE /\ IsDir(table, d) /\ LookupChild(table, d, p) = None /\ table.next <= MaxIno
           /\ table' = [v EXCEPT !.ino[i].local = TRUE]
           /\ call' = [call EXCEPT ![c].pc = "mkdir", ![c].ino = i]
  <2>1. p \in Path /\ Up[p] = table.ino[d].path
    BY <1>1, <1>3 DEF CallFine, IsDir
  <2>2. p \notin DOMAIN table.path /\ i = table.next
    BY <1>1, <1>3, <2>1, NoChildNoPath DEF Sound, InsertedIno
  <2>3. None \in 0..MaxRev
    BY BoundsAssumption DEF None
  <2>4. /\ Sound(u) /\ Keeps(table, u) /\ i \in Inodes(u) /\ u.next = table.next + 1
    BY <1>1, <1>3, <2>1, <2>2, <2>3, InsertKeeps
  <2>c. call' = [call EXCEPT ![c] = k]
    BY <1>1, <1>3 DEF CallsOK
  <2> HIDE DEF u, d, p, i
  <2>5. Sound(v) /\ Keeps(u, v) /\ v.next = u.next /\ Inodes(v) = Inodes(u)
    <3>1. Has(u, i)
      BY <2>4 DEF Has
    <3>2. v = SetField(u, i, "loaded", TRUE)
      BY DEF SetField
    <3> HIDE DEF v
    <3> QED BY ONLY <2>4, <3>1, <3>2, MarkLoaded
  <2> HIDE DEF v
  <2>6. Sound(table') /\ Keeps(v, table') /\ table'.next = v.next
    <3>1. Has(v, i)
      BY <2>4, <2>5 DEF Has
    <3>2. table' = SetField(v, i, "local", TRUE)
      BY <1>3 DEF SetField
    <3> QED BY ONLY <2>5, <3>1, <3>2, MarkLocal
  <2>7. Keeps(table, table')
    BY <1>1, <2>4, <2>5, <2>6, SoundTyped, KeepsOn
  <2>8. table'.next = table.next + 1 /\ table'.next <= MaxIno + 1 /\ i \in Ino
    BY <1>1, <1>3, <2>2, <2>4, <2>5, <2>6, BoundsAssumption DEF TableTyped, Ino
  <2>9. CallFine(k, table')
    <3>1. CallFine(call[c], table')
      BY <1>1, <2>7, CallStays DEF Keeps
    <3>2. i < table'.next
      BY <1>1, <2>2, <2>8 DEF TableTyped
    <3> QED BY <1>1, <2>8, <3>1, <3>2 DEF CallFine
  <2>10. k.op # "create"
    BY <1>1 DEF CallFine
  <2> HIDE DEF k
  <2>11. CallsOK'
    BY <1>1, <2>6, <2>7, <2>8, <2>9, <2>10, <2>c, OneCall DEF Keeps
  <2> QED BY <1>1, <2>6, <2>7, <2>8, <2>11, OnlyTableCloses
<1>4. \/ table' = table /\ Return(c)
      \/ /\ IsDir(table, d) /\ LookupChild(table, d, p) = None /\ table.next <= MaxIno
         /\ table' = [v EXCEPT !.ino[i].local = TRUE]
         /\ call' = [call EXCEPT ![c].pc = "mkdir", ![c].ino = i]
  BY DEF Mkdir
<1> QED BY <1>2, <1>3, <1>4

LEMMA MkdirAttrStep ==
    ASSUME IInv, UNCHANGED feed, NEW c \in Client, MkdirAttr(c) PROVE IInv' /\ LocalStep
<1>1. /\ UNCHANGED <<case, log, refs, opens, commit, round, table, dirlock, sweep>>
      /\ GotAttr(c, table, call[c].ino) /\ neg' \subseteq neg
      /\ call[c].op \notin {"none", "readdir", "forget", "create"}
  BY OnName DEF MkdirAttr, kernel, Plain
<1>2. neg' \subseteq Path /\ dirlock' \subseteq Ino /\ sweep' \subseteq Ino
  BY <1>1 DEF IInv, SetsOK
<1>3. GotAttr(c, table', call[c].ino)
  BY <1>1
<1>4. IInv'
  BY <1>1, <1>2, <1>3, StaysPut, GotsAttr, Closes
<1> QED BY <1>1, <1>4 DEF LocalStep

LEMMA SetPlain ==
    ASSUME NEW t, Sound(t), NEW i, Has(t, i), NEW f \in {"nlookup", "hash"}, NEW v, Fits(f, v), NEW u, u = SetField(t, i, f, v)
    PROVE  Sound(u) /\ Keeps(t, u) /\ u.next = t.next /\ Inodes(u) = Inodes(t)
<1>1. /\ Inodes(u) = Inodes(t) /\ u.next = t.next /\ TableTyped(u) /\ Grows(t, u)
      /\ \A x \in Fields \ {f} : u.ino[i][x] = t.ino[i][x]
      /\ \A j \in Inodes(t) \ {i} : u.ino[j] = t.ino[j]
      /\ OrphansOpenBut(u, None) => SoundBut(u, None)
  <2>1. FieldSet(t, u, i, f, v)
    BY OneField DEF Sound
  <2> QED BY <2>1 DEF FieldSet
<1>2. \A j \in Inodes(t) : u.ino[j].nlink = t.ino[j].nlink /\ u.ino[j].open = t.ino[j].open /\ u.ino[j].dirty = t.ino[j].dirty
  BY <1>1 DEF Fields
<1>3. OrphansOpenBut(u, None)
  BY <1>1, <1>2, Facts DEF OrphansOpenBut, Sound
<1> QED BY <1>1, <1>2, <1>3 DEF Sound, Keeps, OpenKept, DirtyKept

\* open() counts a handle in the table and a descriptor in the kernel.
LEMMA OpensOne ==
    ASSUME IInv, NEW i \in Inodes(table), Inodes(table') = Inodes(table), table.ino[i].open < MaxRefs,
           \A j \in Inodes(table) : table'.ino[j].open = IF j = i THEN table.ino[j].open + 1 ELSE table.ino[j].open,
           opens' = [opens EXCEPT ![i] = @ + 1], UNCHANGED <<refs, commit, call>>, TableTyped(table'), Grows(table, table')
    PROVE  KernelOK' /\ CallsOK'
<1>0. KernelOK /\ CallsOK /\ TableTyped(table) /\ Inodes(table) \subseteq Ino
  BY InodesAreIno, SoundTyped DEF IInv, TableOK
<1>1. \A j \in Ino : opens[j] \in 0..MaxRefs /\ opens'[j] = IF j = i THEN opens[j] + 1 ELSE opens[j]
  BY <1>0 DEF KernelOK
<1>2. \A j \in Inodes(table) : table.ino[j].open \in 0..MaxRefs /\ table.ino[j].open >= opens[j]
  BY <1>0, BoundsAssumption DEF KernelOK, TableTyped, EntryOK
<1>3. opens' \in [Ino -> 0..MaxRefs]
  <2>1. opens[i] + 1 \in 0..MaxRefs
    BY <1>0, <1>1, <1>2, BoundsAssumption
  <2> QED BY <1>0, <2>1 DEF KernelOK
<1>4. KernelOK'
  <2>1. \A j \in Inodes(table') : table'.ino[j].open <= MaxRefs /\ table'.ino[j].open >= opens'[j]
    BY <1>0, <1>1, <1>2, BoundsAssumption
  <2>2. \A j \in Ino : opens'[j] > 0 => j \in Inodes(table')
    BY <1>0, <1>1 DEF KernelOK
  <2> QED BY <1>0, <1>3, <2>1, <2>2 DEF KernelOK
<1>5. \A x \in Client : CallFine(call[x], table')
  BY <1>0, CallStays DEF CallsOK
<1>6. \A x \in Client : call[x].op = "create" /\ call[x].pc = "reply" =>
          call[x].ino \in Inodes(table') /\ table'.ino[call[x].ino].open > opens'[call[x].ino]
  <2> SUFFICES ASSUME NEW x \in Client, call[x].op = "create", call[x].pc = "reply"
               PROVE  call[x].ino \in Inodes(table') /\ table'.ino[call[x].ino].open > opens'[call[x].ino]
    OBVIOUS
  <2>1. call[x].ino \in Inodes(table) /\ table.ino[call[x].ino].open > opens[call[x].ino]
    BY <1>0 DEF CallsOK
  <2> QED BY <1>0, <1>1, <1>2, <2>1, BoundsAssumption
<1> QED BY <1>0, <1>4, <1>5, <1>6 DEF CallsOK

LEMMA OpenStep ==
    ASSUME IInv, UNCHANGED feed, NEW i \in Ino, Open(i) PROVE IInv' /\ LocalStep
<1>1. /\ UNCHANGED <<case, log, round, feed, dirlock, sweep, refs, call, commit, neg>>
      /\ i \in Inodes(table) /\ Has(table, i) /\ table.ino[i].open < MaxRefs
      /\ table' = SetField(table, i, "open", table.ino[i].open + 1)
      /\ opens' = [opens EXCEPT ![i] = @ + 1]
      /\ Sound(table) /\ table.next <= MaxIno + 1 /\ SetsOK
  BY DEF Open, IsFile, Has, SetField, IInv, TableOK
<1>2. Sound(table') /\ Counted(table, table', i, table.ino[i].open + 1)
  BY ONLY SMTT(30), <1>1, OneMore
<1>3. KernelOK' /\ CallsOK'
  <2>1. \A j \in Inodes(table) : table'.ino[j].open = IF j = i THEN table.ino[j].open + 1 ELSE table.ino[j].open
    BY <1>2 DEF Counted
  <2> QED BY <1>1, <1>2, <2>1, OpensOne, SoundTyped DEF Counted
<1>4. IInv'
  BY <1>1, <1>2, <1>3, ClosesKernel DEF Counted, SetsOK
<1> QED BY <1>2, <1>4 DEF LocalStep, Counted, DirtyKept, Linked, Has

LEMMA OpenTruncateStep ==
    ASSUME IInv, UNCHANGED feed, NEW i \in Ino, OpenTruncate(i) PROVE IInv' /\ LocalStep
<1> DEFINE u == SetField(table, i, "open", table.ino[i].open + 1)
           v == [u EXCEPT !.ino[i].dirty = TRUE]
           w == SetField(v, i, "hash", None)
<1>1. /\ UNCHANGED <<case, log, round, feed, dirlock, sweep, refs, call, commit, neg>>
      /\ i \in Inodes(table) /\ Has(table, i) /\ table.ino[i].open < MaxRefs
      /\ opens' = [opens EXCEPT ![i] = @ + 1]
      /\ Sound(table) /\ table.next <= MaxIno + 1 /\ SetsOK
  BY DEF OpenTruncate, IsFile, Has, IInv, TableOK
<1>2. table' = w
  <2>1. table' = [table EXCEPT !.ino[i].open = @ + 1, !.ino[i].dirty = TRUE, !.ino[i].hash = None]
    BY DEF OpenTruncate
  <2> QED BY <2>1 DEF SetField
<1>3. Sound(u) /\ Counted(table, u, i, table.ino[i].open + 1)
  <2> HIDE DEF u
  <2>1. u = SetField(table, i, "open", table.ino[i].open + 1)
    BY DEF u
  <2> QED BY ONLY <1>1, <2>1, OneMore
<1> HIDE DEF u
<1>4. Sound(v) /\ Keeps(u, v) /\ v.next = u.next /\ Inodes(v) = Inodes(u)
  <2>1. Has(u, i) /\ v = [u EXCEPT !.ino[i].dirty = TRUE]
    BY <1>1, <1>3 DEF Counted, Has
  <2> HIDE DEF v
  <2> QED BY <1>3, <2>1, MarkDirty
<1> HIDE DEF v
<1>5. Sound(w) /\ Keeps(v, w) /\ w.next = v.next /\ Inodes(w) = Inodes(v)
  <2>1. Has(v, i) /\ w = SetField(v, i, "hash", None) /\ Fits("hash", None) /\ "hash" \in {"nlookup", "hash"}
    BY <1>1, <1>3, <1>4, BoundsAssumption DEF Counted, Has, Fits, None
  <2> HIDE DEF w
  <2> QED BY ONLY <1>4, <2>1, SetPlain
<1> HIDE DEF w
<1>6. \A j \in Inodes(table) : table'.ino[j].open = IF j = i THEN table.ino[j].open + 1 ELSE table.ino[j].open
  BY <1>2, <1>3, <1>4, <1>5 DEF Counted, Keeps, OpenKept
<1>7. Sound(table') /\ Grows(table, table') /\ table'.next = table.next /\ Inodes(table') = Inodes(table) /\ DirtyKept(table, table')
  <2>1. TableTyped(table) /\ TableTyped(u) /\ TableTyped(v) /\ TableTyped(w)
    BY <1>1, <1>3, <1>4, <1>5, SoundTyped
  <2>2. Sound(table') /\ table'.next = table.next /\ Inodes(table') = Inodes(table)
    BY <1>2, <1>3, <1>4, <1>5 DEF Counted
  <2>3. \A j \in Inodes(table) : w.ino[j].kind = table.ino[j].kind /\ w.ino[j].path = table.ino[j].path
    <3>1. \A j \in Inodes(table) : j < table.next
      BY <2>1 DEF TableTyped
    <3> QED BY <1>3, <1>4, <1>5, <3>1 DEF Counted, Keeps, Grows
  <2>4. Grows(table, table')
    BY <1>2, <2>1, <2>2, <2>3 DEF Grows, TableTyped
  <2>5. DirtyKept(table, w)
    BY <1>3, <1>4, <1>5 DEF Counted, Keeps, DirtyKept
  <2> QED BY <1>2, <2>2, <2>4, <2>5
<1>8. KernelOK' /\ CallsOK'
  BY <1>1, <1>6, <1>7, OpensOne, SoundTyped
<1>9. IInv'
  BY <1>1, <1>7, <1>8, ClosesKernel DEF SetsOK
<1> QED BY <1>7, <1>9 DEF LocalStep, DirtyKept, Linked, Has

LEMMA CloseStep ==
    ASSUME IInv, UNCHANGED feed, NEW i \in Ino, Close(i) PROVE IInv' /\ LocalStep
<1>1. /\ UNCHANGED <<case, log, round, feed, dirlock, sweep, refs, call, commit, neg, table>>
      /\ opens' = [opens EXCEPT ![i] = @ - 1] /\ opens[i] > 0
      /\ Sound(table) /\ table.next <= MaxIno + 1 /\ SetsOK /\ KernelOK /\ CallsOK /\ TableTyped(table)
      /\ Inodes(table) \subseteq Ino
  BY InodesAreIno, SoundTyped DEF Close, IInv, TableOK
<1>2. opens' \in [Ino -> 0..MaxRefs] /\ \A j \in Ino : opens'[j] <= opens[j] /\ opens'[j] \in Nat /\ opens[j] \in Nat
  BY <1>1, BoundsAssumption DEF KernelOK
<1>3. \A j \in Inodes(table) : table.ino[j].open \in Nat
  BY <1>1 DEF TableTyped, EntryOK
<1>4. KernelOK'
  BY <1>1, <1>2, <1>3, BoundsAssumption DEF KernelOK
<1>5. \A x \in Client : call[x].op = "create" /\ call[x].pc = "reply" =>
          call[x].ino \in Inodes(table') /\ table'.ino[call[x].ino].open > opens'[call[x].ino]
  BY <1>1, <1>2, <1>3 DEF CallsOK
<1>6. CallsOK'
  BY <1>1, <1>5 DEF CallsOK
<1>7. IInv'
  BY <1>1, <1>4, <1>6, StaysPut, ClosesKernel DEF SetsOK
<1> QED BY <1>1, <1>7 DEF LocalStep

-----------------------------------------------------------------------------
(* forget(), the sweep and unlink().                                       *)

LEMMA ForgetEvictStep ==
    ASSUME IInv, UNCHANGED feed, NEW c \in Client, ForgetEvict(c) PROVE IInv' /\ LocalStep
<1> DEFINE i == call[c].ino
<1>1. OnlyTable /\ opens' = opens /\ Return(c) /\ Sound(table) /\ table.next <= MaxIno + 1
  BY CallAt DEF ForgetEvict, OnlyTable, kernel
<1>2. Sound(table') /\ Keeps(table, table') /\ table'.next = table.next
  <2>1. CASE IsOpen(table, i)
    <3> PICK v : v = TRUE
      OBVIOUS
    <3>1. table' = [table EXCEPT !.ino[i]["evict"] = v] /\ Has(table, i)
      BY <2>1 DEF ForgetEvict, IsOpen
    <3> QED BY SMTT(30), <1>1, <3>1, MarkKeeps
  <2>2. CASE ~IsOpen(table, i)
    <3>1. table' = EvictIfSafe(table, i)
      BY <2>2 DEF ForgetEvict
    <3> QED BY <1>1, <2>2, <3>1, EvictIfSafeKeeps
  <2> QED BY <2>1, <2>2
<1>3. CallsOK'
  BY <1>1, <1>2, Returns DEF Keeps
<1> QED BY <1>1, <1>2, <1>3, OnlyTableCloses

LEMMA SweepStartStep ==
    ASSUME IInv, UNCHANGED feed, NEW S \in SUBSET Ino, SweepStart(S) PROVE IInv' /\ LocalStep
<1>1. /\ UNCHANGED <<case, log, refs, opens, commit, round, table, dirlock, neg, call>>
      /\ sweep' = S
  BY DEF SweepStart, kernel
<1>2. neg' \subseteq Path /\ dirlock' \subseteq Ino /\ sweep' \subseteq Ino
  BY <1>1 DEF IInv, SetsOK
<1>3. IInv'
  BY <1>1, <1>2, StaysPut, Moves, Closes
<1> QED BY <1>1, <1>3 DEF LocalStep

LEMMA SweepEvictStep ==
    ASSUME IInv, UNCHANGED feed, SweepEvict PROVE IInv' /\ LocalStep
<1>1. /\ UNCHANGED <<case, log, refs, opens, commit, round, dirlock, neg, call>>
      /\ sweep' = {} /\ table' = EvictBatchIfSafe(table, sweep \cap Inodes(table))
      /\ Sound(table) /\ table.next <= MaxIno + 1
  BY DEF SweepEvict, kernel, IInv, TableOK
<1>2. neg' \subseteq Path /\ dirlock' \subseteq Ino /\ sweep' \subseteq Ino
  BY <1>1 DEF IInv, SetsOK
<1>3. Sound(table') /\ Keeps(table, table') /\ table'.next = table.next
  BY <1>1, EvictBatchKeeps
<1>4. IInv'
  BY <1>1, <1>2, <1>3, Moves, Closes DEF Keeps
<1> QED BY <1>3, <1>4 DEF LocalStep, Keeps, DirtyKept, Linked, Has

LEMMA UnlinkCheckStep ==
    ASSUME IInv, UNCHANGED feed, NEW c \in Client, UnlinkCheck(c) PROVE IInv' /\ LocalStep
<1> DEFINE i == LookupChild(table, call[c].dir, call[c].path)
           k == [call[c] EXCEPT !.pc = "unlink", !.ino = i, !.hash = table.ino[i].hash]
<1>1. OnlyCall /\ opens' = opens /\ table' = table /\ call[c].op = "unlink" /\ TableTyped(table) /\ CallFine(call[c], table)
  BY CallAt DEF UnlinkCheck, OnlyCall, kernel
<1>2. CASE Return(c)
  BY <1>1, <1>2, StaysPut, Returns, OnlyCallCloses
<1>3. CASE IsFile(table, i) /\ call' = [call EXCEPT ![c].pc = "unlink", ![c].ino = i, ![c].hash = table.ino[i].hash]
  <2>1. call' = [call EXCEPT ![c] = k]
    BY <1>3, CallAt
  <2>2. i \in Ino /\ i < table.next
    BY <1>1, <1>3, InodesAreIno DEF IsFile, Has, TableTyped, IInv
  <2>3. CallFine(k, table) /\ k.op # "create"
    BY <1>1, <1>3, <2>2 DEF CallFine, FileOrGone
  <2> HIDE DEF k
  <2> QED BY <1>1, <2>1, <2>3, StaysPut, OneCall, OnlyCallCloses
<1> QED BY <1>2, <1>3 DEF UnlinkCheck

\* A step that changes the Hub, and the table not.
LEMMA HubCloses ==
    ASSUME IInv, UNCHANGED <<table, round, feed, refs, opens, neg, dirlock, sweep>>,
           HubOK', CallsOK', commit' \in [Ino -> 0..MaxRev]
    PROVE  IInv'
<1>1. TableOK' /\ RoundOK' /\ SetsOK' /\ FeedOK'
  BY DEF IInv, TableOK, RoundOK, SetsOK, FeedOK, FileOrGone
<1>2. KernelOK'
  BY DEF IInv, KernelOK
<1> QED BY <1>1, <1>2 DEF IInv

LEMMA UnlinkRemoteStep ==
    ASSUME IInv, UNCHANGED feed, NEW c \in Client, UnlinkRemote(c) PROVE IInv' /\ LocalStep
<1>1. /\ UNCHANGED <<case, table, round, feed, refs, opens, neg, dirlock, sweep, commit>>
      /\ call[c].pc = "unlink" /\ HubOK /\ KernelOK
  BY DEF UnlinkRemote, kernel, IInv
<1>2. call[c].op \notin {"none", "readdir", "forget", "create"} /\ call[c].path \in Path /\ FileOrGone(table, call[c].ino)
  BY <1>1, OnName, CallAt DEF Plain, CallFine
<1>3. HubOK'
  <2>1. CASE log' = log
    BY <1>1, <2>1 DEF HubOK, Rev
  <2>2. CASE Put(call[c].path, None)
    BY <1>1, <1>2, <2>2, PutTyped
  <2> QED BY <2>1, <2>2 DEF UnlinkRemote
<1>4. CallsOK'
  <2>1. CASE Return(c)
    BY <1>1, <2>1, StaysPut, Returns
  <2>2. CASE Goto(c, "unlink_local")
    BY <1>1, <1>2, <2>2, StaysPut, GoesOn
  <2> QED BY <2>1, <2>2 DEF UnlinkRemote
<1>5. IInv'
  BY <1>1, <1>3, <1>4, HubCloses DEF KernelOK
<1> QED BY <1>1, <1>5 DEF LocalStep

LEMMA RemoteChangeStep ==
    ASSUME IInv, UNCHANGED feed, NEW p \in Path, RemoteChange(p) PROVE IInv' /\ LocalStep
<1>1. /\ UNCHANGED <<case, table, round, feed, refs, opens, neg, dirlock, sweep, commit, call>>
      /\ HubOK /\ KernelOK
  BY DEF RemoteChange, kernel, IInv
<1>2. HubOK'
  BY <1>1, PutTyped DEF RemoteChange
<1>3. CallsOK'
  BY <1>1, StaysPut, Moves
<1>5. IInv'
  BY <1>1, <1>2, <1>3, HubCloses DEF KernelOK
<1> QED BY <1>1, <1>5 DEF LocalStep

LEMMA CommitHubStep ==
    ASSUME IInv, UNCHANGED feed, NEW i \in Ino, CommitHub(i) PROVE IInv' /\ LocalStep
<1>1. /\ UNCHANGED <<case, table, round, feed, refs, opens, neg, dirlock, sweep, call>>
      /\ HubOK /\ KernelOK /\ Put(table.ino[i].path, Rev + 1)
      /\ commit' = [commit EXCEPT ![i] = Rev + 1] /\ Linked(table, i) /\ table.ino[i].dirty /\ IsOpen(table, i)
  BY DEF CommitHub, kernel, IInv
<1>2. Rev + 1 \in 0..MaxRev
  BY <1>1, HubTyped, BoundsAssumption DEF Put
<1>3. CallsOK'
  BY <1>1, StaysPut, Moves
<1>4. HubOK'
  <2>1. table.ino[i].path \in Path
    <3>1. i # RootIno
      BY Facts DEF IInv, TableOK, Sound, RootStays, CommitHub, HubTakes, IsHubDir
    <3> QED BY <1>1, <3>1, Facts DEF IInv, TableOK, Sound, Below, Linked, Has
  <2> QED BY <1>1, <2>1, PutTyped
<1>5. IInv'
  BY <1>1, <1>2, <1>3, <1>4, HubCloses DEF KernelOK
<1> QED BY <1>1, <1>5 DEF LocalStep

\* Without a replaced name, unlink() takes the name of its own file, or none.
LEMMA UnlinkLocalStep ==
    ASSUME IInv, UNCHANGED feed, NEW c \in Client, UnlinkLocal(c), ~On("unlink_replaced")
    PROVE  IInv' /\ LocalStep /\ Grows(table, table') /\ Honest(table, table', {call[c].ino}) /\ Unlinking(call[c].ino)
<1> DEFINE i == call[c].ino
           child == LookupChild(table, call[c].dir, call[c].path)
           cut == UnlinkOne(table, call[c].dir, call[c].path)
<1>1. /\ OnlyTable /\ opens' = opens /\ Goto(c, "neg") /\ Sound(table) /\ table.next <= MaxIno + 1
      /\ call[c].pc = "unlink_local" /\ child \in {None, i} /\ FileOrGone(table, i) /\ i \in Ino \cup {None}
      /\ TableTyped(table) /\ table' = IF IsOpen(cut, i) THEN cut ELSE RemoveOrphan(cut, i)
  BY CallAt DEF UnlinkLocal, OnlyTable, kernel, CallFine
<1>2. /\ SoundBut(cut, i) /\ Grows(table, cut) /\ OpenKept(table, cut) /\ cut.next = table.next
      /\ \A j \in Inodes(table) \ {i} : j \in Inodes(cut) /\ cut.ino[j].nlink = table.ino[j].nlink
                                        /\ cut.ino[j].dirty = table.ino[j].dirty
      /\ IsOpen(cut, i) => Sound(cut)
      /\ Honest(table, cut, {i})
  <2>1. CASE child = None
    <3>1. cut = table
      <4>1. ~(Has(table, call[c].dir) /\ call[c].path \in DOMAIN table.ino[call[c].dir].index)
        <5>1. ASSUME Has(table, call[c].dir), call[c].path \in DOMAIN table.ino[call[c].dir].index PROVE FALSE
          <6>1. table.ino[call[c].dir].index[call[c].path] \in Inodes(table)
            BY <1>1, <5>1, Facts DEF Sound, ChildrenTell, Has
          <6> QED BY <1>1, <2>1, <5>1, <6>1 DEF LookupChild, Has, TableTyped, None
        <5> QED BY <5>1
      <4> QED BY <4>1 DEF UnlinkOne
    <3>2. OrphansOpenBut(table, i)
      BY <1>1, Facts, NoneIsNone DEF Sound, OrphansOpenBut, TableTyped
    <3>3. SoundBut(table, i)
      BY <1>1, <3>2 DEF Sound, SoundBut
    <3> QED BY <1>1, <3>1, <3>3, SoundTyped, HonestItself DEF Keeps
  <2>2. CASE child = i /\ child # None
    <3>1. IsFile(table, i)
      BY <1>1, <2>2, ChildSays DEF Sound, FileOrGone, Has
    <3> HIDE DEF i
    <3>2. /\ SoundBut(cut, i) /\ Grows(table, cut) /\ OpenKept(table, cut)
           /\ Inodes(cut) = Inodes(table) /\ cut.next = table.next
           /\ \A j \in Inodes(table) \ {i} : /\ cut.ino[j].nlink = table.ino[j].nlink
                                             /\ cut.ino[j].dirty = table.ino[j].dirty
      BY <1>1, <2>2, <3>1, UnlinkOneKeeps
    <3>3. IsOpen(cut, i) => OrphansOpenBut(cut, None)
      BY <3>2, Facts DEF IsOpen, OrphansOpenBut
    <3>4. IsOpen(cut, i) => Sound(cut)
      BY <3>2, <3>3 DEF Sound, SoundBut
    <3>5. Alike(table, cut, {i})
      BY <1>1, <2>2, <3>1, UnlinkAlike
    <3>6. Honest(table, cut, {i})
      BY <3>5, AlikeHonest
    <3> QED BY <3>2, <3>4, <3>6
  <2> QED BY <1>1, <2>1, <2>2
<1>3. TableTyped(cut)
  BY <1>2, Facts
<1> HIDE DEF cut, i
<1>4. /\ Sound(table') /\ Grows(table, table') /\ OpenKept(table, table') /\ table'.next = table.next
      /\ \A j \in Inodes(table) \ {i} : table.ino[j].nlink > 0 /\ table.ino[j].dirty =>
            j \in Inodes(table') /\ table'.ino[j].nlink > 0 /\ table'.ino[j].dirty
      /\ Honest(table, table', {i})
  <2>1. CASE IsOpen(cut, i)
    BY <1>1, <1>2, <2>1
  <2>2. CASE ~IsOpen(cut, i)
    <3>1. /\ Sound(table') /\ Grows(cut, table') /\ DirtyKept(cut, table') /\ OpenKept(cut, table')
      BY <1>1, <1>2, <2>2, RemoveOrphanKeeps
    <3>2. table'.next = cut.next
      BY <1>1, <2>2, <1>3 DEF RemoveOrphan, TableTyped
    <3>3. Grows(table, table') /\ OpenKept(table, table')
      BY <1>1, <1>2, <1>3, <3>1, GrowsOn, SoundTyped
    <3>4. Honest(cut, table', {i})
      BY <1>1, <1>3, <2>2, RemoveOrphanAlike
    <3>5. Honest(table, table', {i})
      BY <1>1, <1>2, <1>3, <3>1, <3>4, HonestOn, SoundTyped
    <3> QED BY <1>2, <3>1, <3>2, <3>3, <3>5 DEF DirtyKept
  <2> QED BY <2>1, <2>2
<1>5. CallsOK'
  <2>1. call[c].op \notin {"none", "readdir", "forget", "create"}
    BY <1>1, OnName DEF Plain
  <2> QED BY <1>1, <1>4, <2>1, GoesOn
<1>6. IInv'
  BY <1>1, <1>4, <1>5, Closes DEF OnlyTable, kernel, IInv, SetsOK
<1>7. Unlinking(i)
  BY <1>1 DEF Unlinking, i
<1>8. LocalStep
  BY <1>4, <1>7 DEF LocalStep, Linked, Has
<1> QED BY <1>4, <1>6, <1>7, <1>8 DEF i

-----------------------------------------------------------------------------
(* Commits, replies and the end of a handle.                               *)

LEMMA CommitApplyStep ==
    ASSUME IInv, UNCHANGED feed, NEW i \in Ino, CommitApply(i) PROVE IInv' /\ LocalStep
<1>1. /\ UNCHANGED <<case, log, round, feed, dirlock, sweep, refs, call, opens, neg>>
      /\ commit[i] # None /\ commit' = [commit EXCEPT ![i] = None]
      /\ Sound(table) /\ table.next <= MaxIno + 1 /\ SetsOK /\ KernelOK /\ TableTyped(table)
  BY SoundTyped DEF CommitApply, kernel, IInv, TableOK
<1>2. commit[i] \in 0..MaxRev /\ commit' \in [Ino -> 0..MaxRev] /\ commit'[i] # commit[i]
  BY <1>1, BoundsAssumption DEF KernelOK, None
<1>3. /\ Sound(table') /\ Grows(table, table') /\ OpenKept(table, table') /\ table'.next = table.next
      /\ \A j \in Inodes(table) \ {i} : j \in Inodes(table') /\ table'.ino[j] = table.ino[j]
  <2>1. CASE ~Has(table, i)
    BY <1>1, <2>1, SoundTyped DEF CommitApply, Keeps
  <2>2. CASE Has(table, i)
    <3> PICK v : v = FALSE
      OBVIOUS
    <3> DEFINE u == SetField(table, i, "hash", commit[i])
               w == SetField(u, i, "dirty", v)
    <3>1. table' = w
      <4>1. table' = [table EXCEPT !.ino[i].hash = commit[i], !.ino[i].dirty = FALSE]
        BY <2>2 DEF CommitApply
      <4> QED BY <4>1 DEF SetField
    <3>2. FieldSet(table, u, i, "hash", commit[i])
      <4>1. Fits("hash", commit[i]) /\ SoundBut(table, None)
        BY <1>1, <1>2 DEF Fits, Sound
      <4> QED BY <2>2, <4>1, OneField
    <3>3. Sound(u) /\ Has(u, i)
      <4> HIDE DEF u
      <4>1. OrphansOpenBut(u, None)
        <5>1. \A j \in Inodes(table) : u.ino[j].nlink = table.ino[j].nlink /\ u.ino[j].open = table.ino[j].open
          BY <3>2 DEF FieldSet, Fields
        <5> QED BY <1>1, <3>2, <5>1, Facts DEF FieldSet, OrphansOpenBut, Sound
      <4> QED BY <2>2, <3>2, <4>1 DEF FieldSet, Sound, Has
    <3>4. FieldSet(u, w, i, "dirty", v)
      <4> HIDE DEF u
      <4>1. Fits("dirty", v) /\ SoundBut(u, None)
        BY <3>3 DEF Fits, Sound
      <4> QED BY <3>3, <4>1, OneField
    <3> HIDE DEF u, w
    <3>5. /\ Inodes(w) = Inodes(table) /\ w.next = table.next /\ \A j \in Inodes(table) \ {i} : w.ino[j] = table.ino[j]
      BY <3>2, <3>4 DEF FieldSet
    <3>6. \A j \in Inodes(table) : w.ino[j].nlink = table.ino[j].nlink /\ w.ino[j].open = table.ino[j].open
                                   /\ w.ino[j].kind = table.ino[j].kind /\ w.ino[j].path = table.ino[j].path
      <4>1. \A x \in Fields \ {"hash", "dirty"} : w.ino[i][x] = table.ino[i][x]
        BY <3>2, <3>4 DEF FieldSet
      <4> QED BY <3>5, <4>1 DEF Fields
    <3>7. Sound(w)
      <4>1. OrphansOpenBut(w, None)
        BY <1>1, <3>5, <3>6, Facts DEF OrphansOpenBut, Sound
      <4> QED BY <3>4, <4>1 DEF FieldSet, Sound
    <3> QED BY <1>1, <3>1, <3>5, <3>6, <3>7 DEF Grows, OpenKept, TableTyped
  <2> QED BY <2>1, <2>2
<1>4. KernelOK' /\ CallsOK'
  BY <1>1, <1>2, <1>3, KernelMoves, Moves DEF KernelOK
<1>5. IInv'
  BY <1>1, <1>3, <1>4, ClosesKernel DEF SetsOK
<1>6. LocalStep
  BY <1>2, <1>3 DEF LocalStep, Linked, Has
<1> QED BY <1>5, <1>6

\* release() takes one handle away, and what the inode stays for with it.
LEMMA ReleaseStep ==
    ASSUME IInv, UNCHANGED feed, NEW i \in Ino, Release(i) 
    PROVE  IInv' /\ LocalStep /\ Grows(table, table') /\ (Referred(table) => Honest(table, table', {}))
<1> DEFINE u == SetField(table, i, "open", table.ino[i].open - 1)
           reaped == RemoveOrphan(u, i)
           spared == IF Has(reaped, i) THEN [reaped EXCEPT !.ino[i].evict = FALSE] ELSE reaped
<1>1. /\ UNCHANGED <<case, log, round, feed, dirlock, sweep, refs, call, opens, neg, commit>>
      /\ i \in Inodes(table) /\ Has(table, i) /\ table.ino[i].open > opens[i]
      /\ \A c \in Client : ~(call[c].op = "create" /\ call[c].pc = "reply" /\ call[c].ino = i)
      /\ table.ino[i].dirty => ~Linked(table, i)
      /\ Sound(table) /\ table.next <= MaxIno + 1 /\ SetsOK /\ KernelOK /\ CallsOK /\ TableTyped(table)
      /\ Inodes(table) \subseteq Ino
  BY SoundTyped, InodesAreIno DEF Release, kernel, IInv, TableOK, Has
<1>2. table' = IF IsOpen(u, i) THEN u
               ELSE IF table.ino[i].evict /\ Has(reaped, i) THEN EvictIfSafe(spared, i) ELSE spared
  BY DEF Release, SetField
<1>3. /\ opens[i] \in Nat /\ table.ino[i].open \in Nat /\ table.ino[i].open - 1 \in Nat
      /\ table.ino[i].open - 1 >= opens[i]
  BY <1>1 DEF KernelOK, TableTyped, EntryOK
<1>4. FieldSet(table, u, i, "open", table.ino[i].open - 1)
  <2>1. Fits("open", table.ino[i].open - 1) /\ SoundBut(table, None)
    BY <1>1, <1>3 DEF Fits, Sound
  <2> QED BY <1>1, <2>1, OneField
<1> HIDE DEF u
<1>5. /\ Inodes(u) = Inodes(table) /\ u.next = table.next /\ TableTyped(u) /\ Grows(table, u)
      /\ u.ino[i].open = table.ino[i].open - 1
      /\ u.ino[i].nlink = table.ino[i].nlink /\ u.ino[i].dirty = table.ino[i].dirty
      /\ \A j \in Inodes(table) \ {i} : u.ino[j] = table.ino[j]
      /\ \A y : OrphansOpenBut(u, y) => SoundBut(u, y)
  BY <1>4 DEF FieldSet, Fields
<1>6. SoundBut(u, i)
  <2>1. OrphansOpenBut(table, None) /\ \A j \in Inodes(table) : j # None
    BY <1>1, Facts, NoneIsNone DEF Sound, TableTyped
  <2>2. OrphansOpenBut(u, i)
    BY <1>5, <2>1 DEF OrphansOpenBut
  <2> QED BY <1>5, <2>2
<1>r. Honest(table, u, {}) /\ (Referred(table) => Referred(u))
  <2>1. Alike(table, u, {})
    BY ONLY <1>1, <1>4, FieldAlike
  <2>2. Honest(table, u, {})
    BY <2>1, AlikeHonest
  <2>3. Inodes(u) \subseteq Inodes(table) /\ Calm(table, u)
    BY ONLY <1>5, <2>2 DEF Honest, Modest
  <2> QED BY ONLY <1>1, <2>2, <2>3, ReferredOn
<1>7. /\ Sound(table') /\ Grows(u, table') /\ OpenKept(u, table') /\ DirtyKept(u, table') /\ table'.next = table.next
      /\ Referred(u) => Honest(u, table', {})
  <2>1. CASE IsOpen(u, i)
    <3>1. Sound(u)
      BY <1>5, <1>6, <2>1, Facts DEF IsOpen, OrphansOpenBut, Sound
    <3> QED BY <1>2, <1>5, <2>1, <3>1, SoundTyped, HonestItself DEF Keeps
  <2>2. CASE ~IsOpen(u, i)
    <3>1. Sound(reaped) /\ Keeps(u, reaped) /\ reaped.next = u.next /\ Honest(u, reaped, {})
      <4>1. reaped.next = u.next
        BY <1>5 DEF RemoveOrphan, TableTyped
      <4> QED BY <1>5, <1>6, <2>2, <4>1, RemoveOrphanKeeps, RemoveOrphanAlike DEF Keeps
    <3>2. ~IsOpen(reaped, i)
      BY <1>1, <1>5, <2>2, <3>1 DEF Keeps, OpenKept, IsOpen, Has
    <3> HIDE DEF reaped
    <3>3. Sound(spared) /\ Keeps(reaped, spared) /\ spared.next = reaped.next /\ Honest(reaped, spared, {})
      <4> PICK v : v = FALSE
        OBVIOUS
      <4>1. CASE Has(reaped, i)
        <5>1. spared = [reaped EXCEPT !.ino[i]["evict"] = v]
          BY <4>1
        <5> HIDE DEF spared
        <5>2. Sound(spared) /\ Keeps(reaped, spared) /\ spared.next = reaped.next /\ Tweaked(reaped, spared, {"evict"})
          BY SMTT(30), <3>1, <4>1, <5>1, MarkKeeps
        <5>3. Honest(reaped, spared, {})
          BY <5>2, TweakAlike DEF SeenFields
        <5> QED BY <5>2, <5>3
      <4>2. CASE ~Has(reaped, i)
        BY <3>1, <4>2, SoundTyped, HonestItself
      <4> QED BY <4>1, <4>2
    <3> HIDE DEF spared
    <3>4. ~IsOpen(spared, i)
      BY <3>1, <3>2, <3>3, SoundTyped DEF Keeps, OpenKept, IsOpen, Has
    <3>5. Sound(table') /\ Keeps(spared, table') /\ table'.next = spared.next
      BY <1>2, <2>2, <3>3, <3>4, EvictIfSafeKeeps, SoundTyped
    <3>6. Keeps(u, table')
      <4>1. Keeps(u, spared)
        BY <1>5, <3>1, <3>3, KeepsOn, SoundTyped
      <4> QED BY <1>5, <3>3, <3>5, <4>1, KeepsOn, SoundTyped
    <3>7. /\ TableTyped(reaped) /\ TableTyped(spared) /\ TableTyped(table')
          /\ Grows(u, reaped) /\ Grows(reaped, spared) /\ Grows(spared, table') /\ Grows(u, spared)
      <4>1. Keeps(u, spared)
        BY <1>5, <3>1, <3>3, KeepsOn, SoundTyped
      <4> QED BY <3>1, <3>3, <3>5, <4>1, SoundTyped DEF Keeps
    <3>8. Referred(u) => Honest(u, table', {})
      <4>1. Honest(u, spared, {})
        BY ONLY <1>5, <3>1, <3>3, <3>7, HonestOn
      <4>2. Referred(u) => Referred(spared)
        <5>1. Inodes(spared) \subseteq Inodes(u)
          BY ONLY <3>1, <3>3, <3>7 DEF Grows, TableTyped
        <5>2. Calm(u, spared)
          BY ONLY <4>1 DEF Honest, Modest
        <5> QED BY ONLY <1>5, <5>1, <5>2, ReferredOn
      <4>3. Referred(spared) => Honest(spared, table', {})
        BY <1>2, <2>2, <3>3, EvictIfSafeHonest, HonestItself
      <4> QED BY ONLY <1>5, <3>7, <4>1, <4>2, <4>3, HonestOn
    <3> QED BY <1>5, <3>1, <3>3, <3>5, <3>6, <3>8 DEF Keeps
  <2> QED BY <2>1, <2>2
<1>8. \A j \in Inodes(table) \ {i} : /\ table.ino[j].open > 0 => j \in Inodes(table')
                                     /\ j \in Inodes(table') => table'.ino[j].open = table.ino[j].open
  BY <1>5, <1>7 DEF OpenKept
<1>9. /\ opens[i] > 0 => i \in Inodes(table')
      /\ i \in Inodes(table') => table'.ino[i].open = table.ino[i].open - 1
  BY <1>1, <1>3, <1>5, <1>7 DEF OpenKept
<1>10. Grows(table, table') /\ TableTyped(table') /\ Inodes(table') \subseteq Ino /\ Inodes(table') \subseteq Inodes(table)
  <2>1. TableTyped(table')
    BY <1>7, SoundTyped
  <2>2. Inodes(table') \subseteq Ino
    <3>1. table'.next \in Nat /\ table'.next <= MaxIno + 1 /\ \A j \in Inodes(table') : j \in Nat \ {0} /\ j < table'.next
      BY <1>1, <1>7, <2>1 DEF TableTyped
    <3> QED BY <3>1, BoundsAssumption DEF Ino
  <2>3. Inodes(table') \subseteq Inodes(table)
    BY <1>5, <1>7, <2>1 DEF Grows, TableTyped
  <2>4. Grows(table, table')
    BY <1>1, <1>5, <1>7, <2>1 DEF Grows, TableTyped
  <2> QED BY <2>1, <2>2, <2>3, <2>4
<1>11. KernelOK'
  <2>1. \A j \in Ino : opens[j] > 0 => j \in Inodes(table')
    <3> SUFFICES ASSUME NEW j \in Ino, opens[j] > 0, j # i PROVE j \in Inodes(table')
      BY <1>9
    <3>1. j \in Inodes(table) /\ table.ino[j].open > 0
      BY <1>1 DEF KernelOK, TableTyped, EntryOK
    <3> QED BY <1>8, <3>1
  <2>2. \A j \in Inodes(table') : table'.ino[j].open <= MaxRefs /\ table'.ino[j].open >= opens[j]
    <3> SUFFICES ASSUME NEW j \in Inodes(table') PROVE table'.ino[j].open <= MaxRefs /\ table'.ino[j].open >= opens[j]
      OBVIOUS
    <3>1. CASE j = i
      BY <1>1, <1>3, <1>9, <3>1, BoundsAssumption DEF KernelOK
    <3>2. CASE j # i
      BY <1>1, <1>8, <1>10, <3>2 DEF KernelOK
    <3> QED BY <3>1, <3>2
  <2> QED BY <1>1, <2>1, <2>2 DEF KernelOK
<1>12. CallsOK'
  <2>1. \A x \in Client : CallFine(call[x], table')
    BY <1>1, <1>10, CallStays DEF CallsOK
  <2>2. \A x \in Client : call[x].op = "create" /\ call[x].pc = "reply" =>
          call[x].ino \in Inodes(table') /\ table'.ino[call[x].ino].open > opens[call[x].ino]
    <3> SUFFICES ASSUME NEW x \in Client, call[x].op = "create", call[x].pc = "reply"
                 PROVE  call[x].ino \in Inodes(table') /\ table'.ino[call[x].ino].open > opens[call[x].ino]
      OBVIOUS
    <3>1. call[x].ino \in Inodes(table) \ {i} /\ table.ino[call[x].ino].open > opens[call[x].ino]
      BY <1>1 DEF CallsOK
    <3>2. table.ino[call[x].ino].open > 0
      BY <1>1, <3>1 DEF KernelOK, TableTyped, EntryOK
    <3> QED BY <1>8, <3>1, <3>2
  <2> QED BY <1>1, <2>1, <2>2 DEF CallsOK
<1>13. IInv'
  BY <1>1, <1>7, <1>10, <1>11, <1>12, ClosesKernel DEF SetsOK
<1>14. LocalStep
  <2>1. \A j \in Inodes(table) : table.ino[j].nlink > 0 /\ table.ino[j].dirty =>
            j \in Inodes(table') /\ table'.ino[j].nlink > 0 /\ table'.ino[j].dirty
    BY <1>5, <1>7 DEF DirtyKept
  <2> QED BY <2>1 DEF LocalStep, Linked, Has
<1>15. Referred(table) => Honest(table, table', {})
  BY <1>1, <1>5, <1>7, <1>10, <1>r, HonestOn
<1> QED BY <1>10, <1>13, <1>14, <1>15

LEMMA ForgetDropStep ==
    ASSUME IInv, UNCHANGED feed, NEW c \in Client, NEW i \in Ino, ForgetDrop(c, i) PROVE IInv' /\ LocalStep
<1> DEFINE n == IF table.ino[i].nlookup > refs[i] THEN table.ino[i].nlookup - refs[i] ELSE 0
           k == [NoCall EXCEPT !.op = "forget", !.pc = "forget", !.ino = i]
<1>1. /\ UNCHANGED <<case, log, round, feed, dirlock, sweep, opens, neg, commit>>
      /\ refs' = [refs EXCEPT ![i] = 0]
      /\ table' = IF Has(table, i) THEN [table EXCEPT !.ino[i].nlookup = n] ELSE table
      /\ \/ call' = call
         \/ Has(table', i) /\ call' = [call EXCEPT ![c] = k]
      /\ Sound(table) /\ table.next <= MaxIno + 1 /\ SetsOK /\ KernelOK /\ TableTyped(table)
  BY SoundTyped DEF ForgetDrop, IInv, TableOK
<1>2. refs' \in [Ino -> 0..MaxRefs] /\ refs[i] \in Nat
  BY <1>1, BoundsAssumption DEF KernelOK
<1>3. Sound(table') /\ Keeps(table, table') /\ table'.next = table.next
  <2>1. CASE ~Has(table, i)
    BY <1>1, <2>1, SoundTyped
  <2>2. CASE Has(table, i)
    <3>1. n \in Nat
      BY <1>1, <1>2, <2>2 DEF TableTyped, EntryOK, Has
    <3> HIDE DEF n
    <3> QED BY <1>1, <2>2, <3>1, CountLookup
  <2> QED BY <2>1, <2>2
<1>4. CallsOK'
  <2>1. CASE call' = call
    BY <1>1, <1>3, <2>1, Moves DEF Keeps
  <2>2. CASE Has(table', i) /\ call' = [call EXCEPT ![c] = k]
    <3>1. CallFine(k, table')
      <4>1. TableTyped(table') /\ i < table'.next /\ table'.next > 0
        BY <1>3, <2>2, SoundTyped DEF TableTyped, Has
      <4>2. CallFine(NoCall, table')
        BY <4>1, NoCallFine
      <4> QED BY <4>1, <4>2 DEF CallFine, NoCall, Calls
    <3>2. k.op # "create"
      BY DEF NoCall
    <3> HIDE DEF k
    <3> QED BY <1>1, <1>3, <2>2, <3>1, <3>2, OneCall DEF Keeps
  <2> QED BY <1>1, <2>1, <2>2
<1>5. KernelOK'
  BY <1>1, <1>2, <1>3, KernelMoves DEF Keeps, KernelOK
<1>6. IInv'
  BY <1>1, <1>3, <1>4, <1>5, ClosesKernel DEF SetsOK, Keeps
<1> QED BY <1>3, <1>6 DEF LocalStep, Keeps, DirtyKept, Linked, Has

\* A create() ends by giving the kernel the handle it has counted.
LEMMA ReplyStep ==
    ASSUME IInv, UNCHANGED feed, NEW c \in Client, Reply(c) PROVE IInv' /\ LocalStep
<1> DEFINE i == call[c].ino
<1>1. /\ UNCHANGED <<case, log, round, feed, dirlock, sweep, neg, commit>> /\ Return(c)
      /\ call[c].pc = "reply" /\ refs[i] < MaxRefs /\ refs' = [refs EXCEPT ![i] = @ + 1]
      /\ table' = IF Has(table, i) THEN [table EXCEPT !.ino[i].nlookup = @ + 1] ELSE table
      /\ opens' = IF call[c].op = "create" THEN [opens EXCEPT ![i] = @ + 1] ELSE opens
      /\ Sound(table) /\ table.next <= MaxIno + 1 /\ SetsOK /\ KernelOK /\ TableTyped(table) /\ CallsOK
      /\ Inodes(table) \subseteq Ino
  BY SoundTyped, InodesAreIno DEF Reply, IInv, TableOK
<1>2. refs' \in [Ino -> 0..MaxRefs]
  <2>1. CASE i \in Ino
    <3>1. refs[i] + 1 \in 0..MaxRefs
      BY <1>1, <2>1, BoundsAssumption DEF KernelOK
    <3> QED BY <1>1, <3>1 DEF KernelOK
  <2>2. CASE i \notin Ino
    BY <1>1, <2>2 DEF KernelOK
  <2> QED BY <2>1, <2>2
<1>3. Sound(table') /\ Keeps(table, table') /\ table'.next = table.next /\ Inodes(table') = Inodes(table)
  <2>1. CASE ~Has(table, i)
    BY <1>1, <2>1, SoundTyped
  <2>2. CASE Has(table, i)
    <3>1. table.ino[i].nlookup + 1 \in Nat /\ table' = [table EXCEPT !.ino[i].nlookup = table.ino[i].nlookup + 1]
      BY <1>1, <2>2 DEF TableTyped, EntryOK, Has
    <3> HIDE DEF i
    <3> QED BY <1>1, <2>2, <3>1, CountLookup
  <2> QED BY <2>1, <2>2
<1>4. \A j \in Inodes(table') : table'.ino[j].open = table.ino[j].open /\ table.ino[j].open \in 0..MaxRefs
  <2>1. \A j \in Inodes(table') : table'.ino[j].open = table.ino[j].open
    BY <1>3 DEF Keeps, OpenKept
  <2>2. \A j \in Inodes(table) : table.ino[j].open \in 0..MaxRefs
    BY <1>1, BoundsAssumption DEF KernelOK, TableTyped, EntryOK
  <2> QED BY <1>3, <2>1, <2>2
<1>5. \A j \in Ino : opens[j] \in 0..MaxRefs /\ opens'[j] = IF call[c].op = "create" /\ j = i THEN opens[j] + 1 ELSE opens[j]
  BY <1>1 DEF KernelOK
<1>6. call[c].op = "create" => i \in Inodes(table) /\ i \in Ino /\ table.ino[i].open > opens[i]
  BY <1>1 DEF CallsOK
<1>7. KernelOK'
  <2>1. opens' \in [Ino -> 0..MaxRefs]
    <3>1. CASE call[c].op = "create"
      <4>1. opens[i] + 1 \in 0..MaxRefs
        <5>1. table.ino[i].open \in 0..MaxRefs /\ opens[i] \in 0..MaxRefs /\ opens[i] < table.ino[i].open
          BY <1>3, <1>4, <1>5, <1>6, <3>1, BoundsAssumption
        <5> QED BY <5>1, BoundsAssumption
      <4> QED BY <1>1, <3>1, <4>1 DEF KernelOK
    <3>2. CASE call[c].op # "create"
      BY <1>1, <3>2 DEF KernelOK
    <3> QED BY <3>1, <3>2
  <2>2. \A j \in Ino : opens'[j] > 0 => j \in Inodes(table')
    BY <1>1, <1>3, <1>5, <1>6 DEF KernelOK
  <2>3. \A j \in Inodes(table') : table'.ino[j].open <= MaxRefs /\ table'.ino[j].open >= opens'[j]
    <3> SUFFICES ASSUME NEW j \in Inodes(table') PROVE table'.ino[j].open <= MaxRefs /\ table'.ino[j].open >= opens'[j]
      OBVIOUS
    <3>1. j \in Ino /\ j \in Inodes(table) /\ table.ino[j].open >= opens[j]
      BY <1>1, <1>3 DEF KernelOK
    <3> QED BY <1>4, <1>5, <1>6, <3>1, BoundsAssumption
  <2> QED BY <1>1, <1>2, <2>1, <2>2, <2>3 DEF KernelOK
<1>8. CallsOK'
  <2>1. call' = [call EXCEPT ![c] = NoCall] /\ CallFine(NoCall, table') /\ TableTyped(table')
    BY <1>1, <1>3, NoCallFine, SoundTyped DEF Return
  <2>2. \A j \in Ino : ~Creating(NoCall, j)
    BY DEF NoCall, Creating
  <2>3. \A x \in Client : call'[x].op = "create" /\ call'[x].pc = "reply" =>
               call'[x].ino \in Inodes(table') /\ table'.ino[call'[x].ino].open > opens'[call'[x].ino]
    <3> SUFFICES ASSUME NEW x \in Client, call'[x].op = "create", call'[x].pc = "reply"
                 PROVE  call'[x].ino \in Inodes(table') /\ table'.ino[call'[x].ino].open > opens'[call'[x].ino]
      OBVIOUS
    <3>1. x # c /\ call'[x] = call[x]
      BY <1>1, <2>1 DEF CallsOK, NoCall
    <3>2. call[x].ino \in Inodes(table) /\ call[x].ino \in Ino /\ table.ino[call[x].ino].open > opens[call[x].ino]
      BY <1>1, <3>1 DEF CallsOK
    <3>3. call[c].op = "create" => call[x].ino # i
      BY <1>1, <3>1, <3>2 DEF CallsOK, Creating
    <3>4. opens'[call[x].ino] = opens[call[x].ino]
      BY <1>5, <3>2, <3>3
    <3> QED BY <1>3, <1>4, <3>1, <3>2, <3>4
  <2> QED BY <1>3, <2>1, <2>2, <2>3, AnyCall DEF Keeps
<1>9. IInv'
  BY <1>1, <1>3, <1>7, <1>8, ClosesKernel DEF SetsOK, Keeps
<1> QED BY <1>3, <1>9 DEF LocalStep, Keeps, DirtyKept, Linked, Has

-----------------------------------------------------------------------------
(* Steps of the watching task.                                             *)

LEMMA FeedCloses == ASSUME IInv, UNCHANGED vars, FeedOK' PROVE IInv' /\ LocalStep
<1>1. /\ case' = case /\ log' = log /\ table' = table /\ neg' = neg /\ call' = call /\ dirlock' = dirlock
      /\ refs' = refs /\ opens' = opens /\ commit' = commit /\ round' = round /\ sweep' = sweep
  BY DEF vars, kernel
<1>2. HubOK' /\ SetsOK' /\ TableOK' /\ RoundOK'
  BY <1>1 DEF IInv, HubOK, SetsOK, TableOK, RoundOK, Rev, FileOrGone
<1>3. CallsOK' /\ KernelOK'
  BY <1>1 DEF IInv, CallsOK, KernelOK
<1> QED BY <1>1, <1>2, <1>3 DEF IInv, LocalStep
LEMMA RoundCloses == ASSUME IInv, UNCHANGED RoundVars, RoundOK', FeedOK' PROVE IInv' /\ LocalStep
<1>1. /\ case' = case /\ log' = log /\ table' = table /\ neg' = neg /\ call' = call /\ dirlock' = dirlock
      /\ refs' = refs /\ opens' = opens /\ commit' = commit /\ sweep' = sweep
  BY DEF RoundVars, kernel
<1>2. HubOK' /\ SetsOK' /\ TableOK'
  BY <1>1 DEF IInv, HubOK, SetsOK, TableOK, Rev
<1>3. CallsOK' /\ KernelOK'
  BY <1>1 DEF IInv, CallsOK, KernelOK
<1> QED BY <1>1, <1>2, <1>3 DEF IInv, LocalStep
LEMMA NoRoundFine == ASSUME NEW k \in {"idle", "list"}, NEW S, round' = [NoRound EXCEPT !.pc = k, !.todo = S]
                     PROVE RoundOK'
<1>1. IsFiniteSet({})
  BY FS_EmptySet
<1> QED BY <1>1 DEF RoundOK, NoRound

LEMMA RoundListStep ==
    ASSUME IInv, NEW q, RoundList(q) \/ RoundListFails(q) PROVE IInv' /\ LocalStep
<1>1. UNCHANGED RoundVars /\ table' = table /\ feed' = feed
  BY DEF RoundList, RoundListFails, RoundVars
<1>2. ListTree(q) \subseteq Answers
  BY ListTreeTyped DEF IInv
<1>3. RoundOK'
  BY ZenonT(40), <1>1, <1>2 DEF RoundList, RoundListFails, RoundOK, IInv, FileOrGone
<1>4. FeedOK'
  BY <1>1 DEF IInv, FeedOK
<1> QED BY <1>1, <1>3, <1>4, RoundCloses

LEMMA RoundDiffStep == ASSUME IInv, RoundDiff PROVE IInv' /\ LocalStep
<1> DEFINE files == {e \in round.entries : e.hash # None}
           clean == {i \in Inodes(table) : IsFile(table, i) /\ ~table.ino[i].dirty}
           remoteOf(i) == {e \in files : e.path = table.ino[i].path}
           changed == {j \in clean : \E e \in remoteOf(j) : e.hash # table.ino[j].hash}
           f == [i \in changed |-> [ino |-> i, hash |-> (CHOOSE e \in remoteOf(i) : TRUE).hash]]
           deletions == {i \in clean : remoteOf(i) = {} /\ Up[table.ino[i].path] \in Polled}
<1>1. /\ UNCHANGED RoundVars /\ table' = table /\ feed' = feed /\ RoundOK /\ TableTyped(table)
      /\ Inodes(table) \subseteq Ino
  BY SoundTyped, InodesAreIno DEF RoundDiff, RoundVars, IInv, TableOK
<1>2. round' = [round EXCEPT !.pc = "apply", !.updates = {f[i] : i \in changed}, !.deletions = deletions]
  BY DEF RoundDiff
<1>3. IsFiniteSet(changed) /\ IsFiniteSet(deletions)
  <2>1. IsFiniteSet(Inodes(table)) /\ changed \subseteq Inodes(table) /\ deletions \subseteq Inodes(table)
    BY <1>1, FiniteInodes
  <2> QED BY <2>1, FS_Subset
<1>4. IsFiniteSet({f[i] : i \in changed})
  <2> HIDE DEF f, changed
  <2> QED BY <1>3, FiniteRange
<1>5. \A i \in changed : f[i] \in [ino : Ino, hash : 0..MaxRev]
  <2> SUFFICES ASSUME NEW i \in changed PROVE f[i] \in [ino : Ino, hash : 0..MaxRev]
    OBVIOUS
  <2>1. (CHOOSE e \in remoteOf(i) : TRUE) \in remoteOf(i)
    BY AnyOne
  <2>2. remoteOf(i) \subseteq Answers
    BY <1>1 DEF RoundOK
  <2> QED BY <1>1, <2>1, <2>2 DEF Answers
<1>6. \A i \in deletions : i \in Ino /\ i < table.next /\ FileOrGone(table, i)
  BY <1>1 DEF TableTyped, FileOrGone
<1> HIDE DEF f, changed, deletions
<1>7. RoundOK'
  BY <1>1, <1>2, <1>3, <1>4, <1>5, <1>6 DEF RoundOK
<1>8. FeedOK'
  BY <1>1 DEF IInv, FeedOK
<1> QED BY <1>1, <1>7, <1>8, RoundCloses

\* A step of the table that comes from the Hub, with what else may change.
LEMMA FeedTableCloses ==
    ASSUME IInv, UNCHANGED <<case, log, call, dirlock, refs, opens, commit, sweep>>,
           Sound(table'), Keeps(table, table'), table'.next = table.next, neg' \subseteq neg,
           round' = NoRound \/ round' = round, FeedOK'
    PROVE  IInv' /\ LocalStep
<1>1. table'.next <= MaxIno + 1
  BY DEF IInv, TableOK
<1>2. TableOK' /\ CallsOK' /\ KernelOK' /\ (round' = round => RoundOK')
  BY <1>1, Moves DEF Keeps
<1>3. round' = NoRound => RoundOK'
  <2>1. IsFiniteSet({})
    BY FS_EmptySet
  <2> QED BY <2>1 DEF RoundOK, NoRound
<1>4. HubOK' /\ SetsOK'
  BY DEF IInv, HubOK, SetsOK, Rev
<1>5. LocalStep
  BY DEF LocalStep, Keeps, DirtyKept, Linked, Has
<1> QED BY <1>2, <1>3, <1>4, <1>5 DEF IInv

\* Without a successor of an unlinked file, a round takes names of its own
\* snapshot only.
LEMMA RoundApplyStep ==
    ASSUME IInv, RoundApply, ~On("orphan_name")
    PROVE  /\ IInv' /\ LocalStep /\ Grows(table, table') /\ \A d : IsDir(table, d) => IsDir(table', d)
           /\ RoundFound => /\ Honest(table, table', {})
                            /\ \A j \in CleanFiles(table') : Up[table'.ino[j].path] \in round.ok => Right(table', j)
<1> DEFINE updated == FoldSet(LAMBDA x, acc : UpdateRemoteFile(acc, x.ino, x.hash), table, round.updates)
           new == {e.path : e \in {x \in round.entries : GetByPath(Applied, x.path) = None}}
           dirs == {i \in {NearestDirAncestor(Applied, p) : p \in new} : IsLoaded(Applied, i)}
           successor(i) == Has(table, i) /\ ~Linked(table, i) /\ GetByPath(table, table.ino[i].path) # None
<1>1. /\ UNCHANGED <<case, log, call, dirlock, refs, opens, commit, sweep>> /\ neg' \subseteq neg
      /\ table' = InvalidateChildren(Applied, dirs) /\ round' = NoRound
      /\ \A i \in round.deletions : ~successor(i)
      /\ \/ feed' = feed
         \/ feed' = [feed EXCEPT !.last = feed.probed, !.at = "connect"]
      /\ RoundOK /\ FeedOK /\ Sound(table) /\ TableTyped(table)
  BY SoundTyped DEF RoundApply, kernel, IInv, TableOK
<1>3. Applied = FoldSet(LAMBDA i, acc : RemoveRemoteFile(acc, i), updated, round.deletions)
  BY DEF Applied
<1>u. updated = FoldSet(LAMBDA x, acc : UpdateRemoteFile(acc, x.ino, x.hash), table, round.updates)
  OBVIOUS
<1> HIDE DEF updated
<1>2. /\ Sound(updated) /\ Keeps(table, updated) /\ updated.path = table.path /\ updated.next = table.next
      /\ \A j \in Inodes(updated) : j \in Inodes(table) /\ updated.ino[j].nlink = table.ino[j].nlink
      /\ Inodes(updated) = Inodes(table)
      /\ (\A x \in round.updates : Has(table, x.ino) => x.hash = Hub[table.ino[x.ino].path]) =>
            /\ Honest(table, updated, {})
            /\ \A x \in round.updates : x.ino \in CleanFiles(updated) => Right(updated, x.ino)
  <2>1. IsFiniteSet(round.updates) /\ round.updates \subseteq [ino : Ino, hash : 0..MaxRev]
    BY <1>1 DEF RoundOK
  <2>2. Sound(table)
    BY <1>1
  <2> QED BY ONLY ZenonT(40), <1>u, <2>1, <2>2, UpdatesKeep
<1>4. /\ \A i \in round.deletions : Has(updated, i) => IsFile(updated, i)
      /\ \A i \in round.deletions : Has(updated, i) /\ ~Linked(updated, i) => updated.ino[i].path \notin DOMAIN updated.path
  <2> SUFFICES ASSUME NEW i \in round.deletions, Has(updated, i)
               PROVE  IsFile(updated, i) /\ (~Linked(updated, i) => updated.ino[i].path \notin DOMAIN updated.path)
    OBVIOUS
  <2>1. /\ i \in Inodes(table) /\ i < table.next /\ updated.ino[i].kind = table.ino[i].kind /\ updated.ino[i].path = table.ino[i].path
        /\ updated.ino[i].nlink = table.ino[i].nlink
    BY <1>1, <1>2 DEF Has, Keeps, Grows, TableTyped
  <2>2. IsFile(table, i)
    BY <1>1, <2>1 DEF RoundOK, FileOrGone, Has
  <2>3. ASSUME table.ino[i].nlink = 0 PROVE table.ino[i].path \notin DOMAIN table.path
    <3>1. GetByPath(table, table.ino[i].path) = None
      BY <1>1, <2>1, <2>3 DEF Has, Linked
    <3>2. ASSUME table.ino[i].path \in DOMAIN table.path PROVE FALSE
      <4>1. table.path[table.ino[i].path] \in Inodes(table) \ {None}
        BY <1>1, <3>2, Facts DEF PathsTell, Sound, TableTyped, None
      <4> QED BY <3>1, <3>2, <4>1 DEF GetByPath, Has
    <3> QED BY <3>2
  <2>4. updated.ino[i].nlink \in 0..1
    BY <1>2, SoundTyped DEF TableTyped, EntryOK, Has
  <2> QED BY <1>2, <2>1, <2>2, <2>3, <2>4 DEF IsFile, Linked
<1>5. /\ Sound(Applied) /\ Keeps(updated, Applied) /\ Applied.next = updated.next
      /\ \A i \in round.deletions : i \notin CleanFiles(Applied)
      /\ \A d : IsDir(updated, d) => IsDir(Applied, d)
      /\ (\A i \in round.deletions : Has(updated, i) => Gone(updated, i)) => Honest(updated, Applied, {})
  <2>1. IsFiniteSet(round.deletions)
    BY <1>1 DEF RoundOK
  <2> QED BY ONLY ZenonT(40), <1>2, <1>3, <1>4, <2>1, DeletionsKeep
<1> HIDE DEF dirs
<1>6. Sound(table') /\ Keeps(Applied, table') /\ table'.next = Applied.next /\ Alike(Applied, table', {})
  BY <1>1, <1>5, InvalidateKeeps, InvalidateAlike, SoundTyped
<1>7. Keeps(table, table')
  <2>1. Keeps(table, Applied)
    BY <1>1, <1>2, <1>5, KeepsOn, SoundTyped
  <2> QED BY <1>1, <1>5, <1>6, <2>1, KeepsOn, SoundTyped
<1>8. FeedOK'
  BY <1>1 DEF FeedOK
<1>9. \A d : IsDir(table, d) => IsDir(table', d)
  <2>1. \A d : IsDir(table, d) => IsDir(updated, d)
    BY <1>1, <1>2 DEF IsDir, Has, Keeps, Grows, TableTyped
  <2>2. \A d : IsDir(Applied, d) => IsDir(table', d)
    BY <1>6 DEF IsDir, Has, Alike, SeenFields
  <2> QED BY <1>5, <2>1, <2>2
<1>10. ASSUME RoundFound
       PROVE  /\ Honest(table, table', {})
              /\ \A j \in CleanFiles(table') : Up[table'.ino[j].path] \in round.ok => Right(table', j)
  <2>1. Honest(table, updated, {}) /\ \A x \in round.updates : x.ino \in CleanFiles(updated) => Right(updated, x.ino)
    BY <1>2, <1>10 DEF RoundFound
  <2>2. Honest(updated, Applied, {})
    <3>1. ASSUME NEW i \in round.deletions, Has(updated, i) PROVE Gone(updated, i)
      <4>1. Has(table, i) /\ updated.ino[i].path = table.ino[i].path
        BY <1>1, <1>2, <3>1 DEF Has, Keeps, Grows, TableTyped
      <4> QED BY <1>4, <1>10, <3>1, <4>1 DEF RoundFound, Gone, IsFile
    <3> QED BY <1>5, <3>1
  <2>3. Honest(Applied, table', {})
    BY <1>6, AlikeHonest
  <2>4. TableTyped(updated) /\ TableTyped(Applied) /\ TableTyped(table') /\ Grows(table, updated) /\ Grows(updated, Applied)
        /\ Grows(Applied, table')
    BY <1>2, <1>5, <1>6, SoundTyped DEF Keeps
  <2>5. Grows(table, Applied) /\ Honest(table, Applied, {})
    BY <1>1, <1>2, <1>5, <2>1, <2>2, <2>4, HonestOn, GrowsOn DEF Keeps
  <2>6. Honest(table, table', {})
    BY <1>1, <2>3, <2>4, <2>5, HonestOn
  <2>7. ASSUME NEW j \in CleanFiles(table'), Up[table'.ino[j].path] \in round.ok PROVE Right(table', j)
    <3>1. j \in CleanFiles(Applied) /\ table'.ino[j].path = Applied.ino[j].path /\ table'.ino[j].hash = Applied.ino[j].hash
      BY <1>6, AlikeClean DEF Alike, SeenFields, CleanFiles
    <3>2. Right(Applied, j) \/ (j \in CleanFiles(updated) /\ Applied.ino[j].hash = updated.ino[j].hash)
      BY <2>2, <3>1 DEF Honest, Trusted
    <3>3. CASE j \in CleanFiles(updated) /\ Applied.ino[j].hash = updated.ino[j].hash
      <4>1. Applied.ino[j].path = updated.ino[j].path /\ updated.ino[j].path = table.ino[j].path
        BY <1>1, <1>2, <2>4, <3>1, <3>3 DEF CleanFiles, Grows, TableTyped
      <4>2. Right(updated, j) \/ (j \in CleanFiles(table) /\ updated.ino[j].hash = table.ino[j].hash)
        BY <2>1, <3>3 DEF Honest, Trusted
      <4>3. j \in CleanFiles(table) => Right(table, j) \/ \E x \in round.updates : x.ino = j
        BY <1>5, <1>10, <2>7, <3>1, <4>1 DEF RoundFound
      <4>4. Right(updated, j)
        BY <2>1, <3>3, <4>1, <4>2, <4>3 DEF Right
      <4> QED BY <3>1, <3>3, <4>4, <4>1 DEF Right
    <3> QED BY <3>1, <3>2, <3>3 DEF Right
  <2> QED BY <2>6, <2>7
<1> QED BY <1>1, <1>2, <1>5, <1>6, <1>7, <1>8, <1>9, <1>10, FeedTableCloses DEF Keeps

LEMMA PollStepFine == ASSUME IInv, PollStep PROVE IInv' /\ LocalStep
<1>1. UNCHANGED RoundVars /\ StartRound /\ (feed' = feed \/ feed' = [feed EXCEPT !.last = Rev])
  BY DEF PollStep, PollProbe, PollProbeFails, RoundVars
<1>2. RoundOK'
  BY <1>1, NoRoundFine DEF StartRound
<1>3. Rev \in 0..MaxRev
  BY HubTyped DEF IInv
<1>4. FeedOK'
  BY <1>1, <1>3, BoundsAssumption DEF IInv, FeedOK
<1> QED BY <1>1, <1>2, <1>4, RoundCloses

LEMMA GiveUpFine ==
    /\ DOMAIN GiveUp(feed) = DOMAIN feed
    /\ GiveUp(feed).mode \in {"follow", "poll", "off"} \/ "mode" \notin DOMAIN feed
    /\ \A x \in DOMAIN feed \ {"mode"} : GiveUp(feed)[x] = feed[x]
  BY DEF GiveUp

LEMMA FollowStepFine == ASSUME IInv, FollowStep PROVE IInv' /\ LocalStep
<1>0. FeedOK /\ Rev \in 0..MaxRev /\ Rev \in 0..MaxRev + 1
  BY HubTyped, BoundsAssumption DEF IInv
<1>1. CASE FollowProbe
  <2>1. CASE feed' = [feed EXCEPT !.at = "connect"] /\ UNCHANGED round
    <3>1. FeedOK'
      BY <1>0, <2>1 DEF FeedOK
    <3>2. UNCHANGED vars
      BY <1>1, <2>1 DEF FollowProbe, RoundVars, vars, kernel
    <3> QED BY <3>1, <3>2, FeedCloses
  <2>2. CASE feed' = [feed EXCEPT !.probed = Rev] /\ StartRound
    <3>1. FeedOK'
      BY <1>0, <2>2 DEF FeedOK
    <3>2. UNCHANGED RoundVars /\ RoundOK'
      BY <1>1, <2>2, NoRoundFine DEF FollowProbe, StartRound
    <3> QED BY <3>1, <3>2, RoundCloses
  <2> QED BY <1>1, <2>1, <2>2 DEF FollowProbe
<1>2. CASE ~FollowProbe
  <2>1. UNCHANGED vars
    BY <1>2 DEF FollowStep, FollowResume, FollowConnect, FollowUnusable, FollowRefused, FollowConnectFails, OnlyFeed
  <2>2. CASE FollowConnect
    <3>1. ResumePoint \in 0..MaxRev
      <4>1. feed.last # NoRev => feed.last \in 0..MaxRev
        BY <1>0, BoundsAssumption DEF FeedOK, NoRev
      <4> QED BY <1>0, <4>1 DEF FeedOK, ResumePoint
    <3>2. feed' = [feed EXCEPT !.at = "stream", !.pos = ResumePoint, !.ready = FALSE]
      BY <2>2 DEF FollowConnect
    <3>3. FeedOK'
      BY <1>0, <3>1, <3>2 DEF FeedOK
    <3> QED BY <2>1, <3>3, FeedCloses
  <2>3. CASE FollowUnusable
    <3>1. feed' = GiveUp(feed)
      BY <2>3 DEF FollowUnusable
    <3>2. FeedOK'
      BY <1>0, <3>1 DEF FeedOK, GiveUp
    <3> QED BY <2>1, <3>2, FeedCloses
  <2>4. CASE FollowResume \/ FollowRefused \/ FollowConnectFails
    <3>1. FeedOK'
      BY <1>0, <2>4 DEF FeedOK, FollowResume, FollowRefused, FollowConnectFails
    <3> QED BY <2>1, <3>1, FeedCloses
  <2> QED BY <1>2, <2>2, <2>3, <2>4 DEF FollowStep
<1> QED BY <1>1, <1>2

LEMMA EndedFine == ASSUME NEW f, NEW h, DOMAIN f = {"mode", "at", "resume", "cursor", "last", "probed", "skip", "pos", "ready", "dead"}
                   PROVE  /\ DOMAIN Ended(f, h) = DOMAIN f
                          /\ \A x \in {"cursor", "last", "probed", "pos"} : Ended(f, h)[x] = f[x]
                          /\ Ended(f, h).mode \in {f.mode, "poll", "off"}
  BY DEF Ended, GiveUp

\* What a batch of the stream removes is what it names.
LEMMA EventChangesStep ==
    ASSUME IInv, NEW to \in 1..MaxRev, EventChanges(to)
    PROVE  /\ IInv' /\ LocalStep /\ Grows(table, table')
           /\ \E E : Modest(table, table', E) /\ \A i \in E : Excused(i)
<1>0. FeedOK /\ Rev \in 0..MaxRev
  BY HubTyped DEF IInv
<1> DEFINE n == to - feed.pos
           batch == [m \in 1..to - feed.pos |-> log[feed.pos + m]]
           step(acc, change) == [table |-> ApplyChange(acc.table, change),
                                 dirs |-> acc.dirs \cup Stale(acc.table, change)]
           all == FoldLeft(step, [table |-> table, dirs |-> {}], batch)
<1>1. /\ UNCHANGED <<case, log, call, dirlock, refs, opens, commit, round, sweep>> /\ neg' \subseteq neg
      /\ table' = InvalidateChildren(all.table, all.dirs)
      /\ feed' = [feed EXCEPT !.pos = to, !.resume = "cursor", !.cursor = to]
      /\ feed.pos < to /\ to <= Rev /\ Sound(table)
  BY DEF EventChanges, kernel, IInv, TableOK
<1>2. n \in Nat /\ DOMAIN batch = 1..n /\ \A m \in 1..n : batch[m].hash \in 0..MaxRev
  <2> HIDE DEF step, all
  <2>0. feed.pos \in Nat
    BY <1>0, BoundsAssumption DEF FeedOK
  <2>1. n \in Nat /\ feed.pos \in Nat /\ to \in Nat
    BY <1>1, <2>0
  <2>2. \A m \in 1..n : log[feed.pos + m] \in Answers
    <3>1. log \in Seq(Answers) /\ Rev = Len(log)
      BY DEF IInv, HubOK, Rev
    <3> QED BY <1>0, <1>1, <2>1, <3>1
  <2> QED BY <2>1, <2>2 DEF Answers
<1>3. /\ Sound(all.table) /\ Keeps(table, all.table) /\ all.table.next = table.next
      /\ Modest(table, all.table, Told(table, batch))
  <2> HIDE DEF batch, n
  <2> QED BY <1>1, <1>2, ReplayKeeps
<1> HIDE DEF all
<1>4. /\ Sound(table') /\ Keeps(all.table, table') /\ table'.next = all.table.next
      /\ Modest(all.table, table', Told(table, batch))
  BY <1>1, <1>3, InvalidateKeeps, InvalidateAlike, AlikeHonest, SoundTyped DEF Honest
<1>5. Keeps(table, table')
  BY <1>1, <1>3, <1>4, KeepsOn, SoundTyped
<1>6. FeedOK'
  BY <1>0, <1>1, BoundsAssumption DEF FeedOK
<1>7. Modest(table, table', Told(table, batch))
  <2> HIDE DEF batch
  <2> QED BY <1>1, <1>3, <1>4, SoundTyped, ModestOn DEF Keeps
<1>8. ASSUME NEW i \in Told(table, batch) PROVE Excused(i)
  <2>1. PICK m \in 1..n : log[feed.pos + m].path = table.ino[i].path /\ log[feed.pos + m].hash = None
    BY <1>2, <1>8 DEF Told
  <2>2. feed.pos \in Nat /\ feed'.pos = to /\ to \in Nat /\ n \in Nat
    BY <1>0, <1>1, <1>2, BoundsAssumption DEF FeedOK
  <2>3. feed.pos + m \in feed.pos + 1..feed'.pos /\ feed.pos + m \in 1..Rev
    BY <1>0, <1>1, <2>1, <2>2
  <2>4. log[feed.pos + m] = [path |-> table.ino[i].path, hash |-> None]
    <3>1. log[feed.pos + m] \in Answers
      BY <1>0, <2>3 DEF IInv, HubOK, Rev
    <3> QED BY <2>1, <3>1 DEF Answers
  <2> QED BY <2>3, <2>4 DEF Excused
<1>9. \E E : Modest(table, table', E) /\ \A i \in E : Excused(i)
  <2> HIDE DEF batch
  <2> QED BY <1>7, <1>8
<1> QED BY <1>1, <1>3, <1>4, <1>5, <1>6, <1>9, FeedTableCloses DEF Keeps
LEMMA EventStepFine == ASSUME IInv, EventStep PROVE IInv' /\ LocalStep
<1>0. FeedOK /\ Rev \in 0..MaxRev
  BY HubTyped DEF IInv
<1>1. CASE EventReady
  <2>1. FeedOK'
    BY <1>0, <1>1 DEF FeedOK, EventReady
  <2> QED BY <1>1, <2>1, FeedCloses DEF EventReady, OnlyFeed
<1>2. CASE EventReset
  <2>1. FeedOK'
    <3> DEFINE f == [feed EXCEPT !.resume = "since"]
    <3>1. feed' = Ended(f, TRUE) /\ DOMAIN f = DOMAIN feed /\ \A x \in DOMAIN feed \ {"resume"} : f[x] = feed[x]
      BY <1>2 DEF EventReset
    <3> HIDE DEF f
    <3>2. DOMAIN f = {"mode", "at", "resume", "cursor", "last", "probed", "skip", "pos", "ready", "dead"}
      BY <1>0, <3>1 DEF FeedOK
    <3>3. /\ DOMAIN feed' = DOMAIN f /\ feed'.mode \in {f.mode, "poll", "off"}
          /\ feed'.cursor = f.cursor /\ feed'.last = f.last /\ feed'.probed = f.probed /\ feed'.pos = f.pos
      BY <3>1, <3>2, EndedFine
    <3> QED BY <1>0, <3>1, <3>2, <3>3 DEF FeedOK
  <2> QED BY <1>2, <2>1, FeedCloses DEF EventReset, OnlyFeed
<1>3. CASE EventReconnect
  <2>1. FeedOK'
    <3> DEFINE f == [feed EXCEPT !.resume = IF feed.pos > 0 THEN "cursor" ELSE @,
                                  !.cursor = IF feed.pos > 0 THEN feed.pos ELSE @]
    <3>1. feed' = Ended(f, TRUE) /\ DOMAIN f = DOMAIN feed
          /\ (\A x \in DOMAIN feed \ {"resume", "cursor"} : f[x] = feed[x]) /\ f.cursor \in {feed.cursor, feed.pos}
      BY <1>0, <1>3 DEF EventReconnect, FeedOK
    <3> HIDE DEF f
    <3>2. DOMAIN f = {"mode", "at", "resume", "cursor", "last", "probed", "skip", "pos", "ready", "dead"}
      BY <1>0, <3>1 DEF FeedOK
    <3>3. /\ DOMAIN feed' = DOMAIN f /\ feed'.mode \in {f.mode, "poll", "off"}
          /\ feed'.cursor = f.cursor /\ feed'.last = f.last /\ feed'.probed = f.probed /\ feed'.pos = f.pos
      BY <3>1, <3>2, EndedFine
    <3> QED BY <1>0, <3>1, <3>2, <3>3 DEF FeedOK
  <2> QED BY <1>3, <2>1, FeedCloses DEF EventReconnect, OnlyFeed
<1>4. CASE StreamEnds
  <2>1. FeedOK'
    BY <1>0, <1>4, EndedFine DEF FeedOK, StreamEnds
  <2> QED BY <1>4, <2>1, FeedCloses DEF StreamEnds, OnlyFeed
<1>5. ASSUME NEW to \in 1..MaxRev, EventChanges(to) PROVE IInv' /\ LocalStep
  BY <1>5, EventChangesStep
<1> QED BY <1>1, <1>2, <1>3, <1>4, <1>5 DEF EventStep

-----------------------------------------------------------------------------
(* Names and contents.  The steps again, in time: the kernel keeps its     *)
(* names, unless they are gone, and what is held of the Hub is true.       *)

Answered == \A c \in Client : call'[c] = call[c] \/ Asked(call'[c], table')
LEMMA NotAsking == ASSUME NEW k, NEW t, k.pc \notin Asking PROVE Asked(k, t)
  BY DEF Asked, Asking
LEMMA AskedOn ==
    ASSUME IInv, IInv', log' = log, CallsAsked, Grows(table, table'), Answered PROVE CallsAsked'
<1>1. ASSUME NEW c \in Client, call'[c] = call[c] PROVE Asked(call'[c], table')
  <2> DEFINE k == call[c]
  <2>1. /\ CallFine(k, table) /\ TableTyped(table) /\ Asked(k, table)
    BY SoundTyped DEF IInv, CallsOK, TableOK, CallsAsked
  <2>2. Has(table', k.ino) => Has(table, k.ino) /\ table'.ino[k.ino].path = table.ino[k.ino].path
    BY <2>1 DEF CallFine, Grows, Has
  <2>3. Has(table', k.dir) => Has(table, k.dir) /\ table'.ino[k.dir].path = table.ino[k.dir].path
    BY <2>1 DEF CallFine, Grows, Has
  <2> HIDE DEF k
  <2>4. Asked(k, table')
    BY ONLY <2>1, <2>2, <2>3 DEF Asked
  <2> QED BY <1>1, <2>4 DEF k
<1>2. \A c \in Client : Asked(call'[c], table')
  BY <1>1 DEF Answered
<1>3. Hub' = Hub /\ \A q : ListTree(q)' = ListTree(q)
  BY HubStays
<1> QED BY <1>2, <1>3 DEF CallsAsked, Asked

\* A step that leaves the Hub alone.
LEMMA Remains ==
    ASSUME IInv, IInv', Seen, UNCHANGED <<log, round>>, Grows(table, table'), NEW E, Lost(table, table', E),
           \A i \in E : Excused(i), Trusted(table, table') \/ round.pc # "apply", RefsCounted', Answered, CommitsTell',
           feed' = feed \/ round.pc = "idle"
    PROVE  Kept
<1>1. Hub' = Hub /\ HubIsTree' /\ \A q : ListTree(q)' = ListTree(q)
  BY HubStays DEF Seen
<1>2. CallsAsked'
  BY AskedOn DEF Seen
<1>3. RoundTells'
  <2>0. RoundTells /\ RoundOK /\ TableTyped(table) /\ TableTyped(table')
    BY SoundTyped DEF Seen, IInv, TableOK
  <2>1. round.pc = "apply" => RoundFound'
    <3> SUFFICES ASSUME round.pc = "apply" PROVE RoundFound'
      OBVIOUS
    <3>0. RoundFound /\ Trusted(table, table')
      BY <2>0 DEF RoundTells
    <3>1. ASSUME NEW x \in round.updates
          PROVE  x.ino < table'.next /\ (Has(table', x.ino) => x.hash = Hub[table'.ino[x.ino].path])
      <4>1. x.ino < table.next /\ x.ino \in Nat /\ (Has(table, x.ino) => x.hash = Hub[table.ino[x.ino].path])
        BY <2>0, <3>0, BoundsAssumption DEF RoundFound, RoundOK, Ino
      <4> QED BY <4>1, <2>0 DEF Grows, Has, TableTyped
    <3>2. ASSUME NEW i \in round.deletions, Has(table', i) PROVE Hub[table'.ino[i].path] = None
      <4>1. i < table.next /\ (Has(table, i) => Hub[table.ino[i].path] = None)
        BY <2>0, <3>0 DEF RoundFound, RoundOK
      <4> QED BY <4>1, <3>2 DEF Grows, Has
    <3>3. ASSUME NEW i \in CleanFiles(table'), Up[table'.ino[i].path] \in round.ok
          PROVE  Right(table', i) \/ i \in round.deletions \/ \E x \in round.updates : x.ino = i
      <4>1. CASE Right(table', i)
        BY <4>1
      <4>2. CASE i \in CleanFiles(table) /\ table'.ino[i].hash = table.ino[i].hash
        <5>1. table'.ino[i].path = table.ino[i].path
          BY <2>0, <4>2 DEF CleanFiles, Grows, TableTyped
        <5>2. Right(table, i) \/ i \in round.deletions \/ \E x \in round.updates : x.ino = i
          BY <3>0, <3>3, <4>2, <5>1 DEF RoundFound
        <5> QED BY <4>2, <5>1, <5>2 DEF Right
      <4> QED BY <3>0, <4>1, <4>2 DEF Trusted
    <3> QED BY <1>1, <3>1, <3>2, <3>3 DEF RoundFound, Right
  <2> QED BY <1>1, <2>0, <2>1 DEF RoundTells
<1>4. NamesStay
  BY DEF NamesStay, Lost, Linked, Has, Named
<1>5. Reconciled
  BY DEF Reconciled, NoRound
<1> QED BY <1>1, <1>2, <1>3, <1>4, <1>5 DEF Kept, Seen

\* Neither the references of the kernel nor its commits change.
LEMMA RefsRemain ==
    ASSUME IInv, IInv', RefsCounted, Grows(table, table'), Calm(table, table'), refs' = refs PROVE RefsCounted'
<1>0. TableTyped(table) /\ TableTyped(table') /\ Inodes(table') \subseteq Ino /\ table.next <= table'.next
      /\ table.next \in Nat /\ table'.next \in Nat
  <2>1. Inodes(table') \subseteq Ino
    <3>1. TableTyped(table') /\ table'.next <= MaxIno + 1
      BY SoundTyped DEF IInv, TableOK
    <3> QED BY <3>1, BoundsAssumption DEF TableTyped, Ino
  <2> QED BY <2>1, SoundTyped DEF IInv, TableOK, Grows, TableTyped
<1>1. ASSUME NEW i \in Inodes(table') \ {RootIno}, refs[i] > 0 PROVE table'.ino[i].nlookup > 0
  <2>1. i < table.next
    BY <1>0, <1>1 DEF RefsCounted, TableTyped
  <2>2. i \in Inodes(table) /\ table'.ino[i].nlookup = table.ino[i].nlookup
    BY <2>1 DEF Grows, Calm
  <2> QED BY <1>1, <2>2 DEF RefsCounted, Referred
<1>2. \A i \in Ino : i >= table'.next => refs[i] = 0
  BY <1>0, BoundsAssumption DEF RefsCounted, Ino
<1> QED BY <1>1, <1>2 DEF RefsCounted, Referred
LEMMA CommitsRemain ==
    ASSUME IInv, IInv', CommitsTell, Grows(table, table'), log' = log, \A i \in Ino : commit'[i] \in {None, commit[i]}
    PROVE  CommitsTell'
<1>0. TableTyped(table) /\ TableTyped(table') /\ table.next <= table'.next /\ table.next \in Nat /\ table'.next \in Nat
  BY SoundTyped DEF IInv, TableOK, Grows, TableTyped
<1>1. ASSUME NEW i \in Ino, commit'[i] # None
      PROVE  i < table'.next /\ (Has(table', i) => commit'[i] = Hub[table'.ino[i].path])
  <2>1. commit'[i] = commit[i] /\ i < table.next /\ (Has(table, i) => commit[i] = Hub[table.ino[i].path])
    BY <1>1 DEF CommitsTell
  <2> QED BY <1>0, <2>1, BoundsAssumption DEF Grows, Has, Ino
<1>2. Hub' = Hub
  BY HubStays
<1> QED BY <1>1, <1>2 DEF CommitsTell
LEMMA Continues ==
    ASSUME IInv, IInv', Seen, UNCHANGED <<log, round, refs>>, Grows(table, table'), NEW E, Modest(table, table', E),
           \A i \in E : Excused(i), Trusted(table, table') \/ round.pc # "apply", Answered,
           \A i \in Ino : commit'[i] \in {None, commit[i]}, feed' = feed \/ round.pc = "idle"
    PROVE  Kept
<1>1. RefsCounted'
  BY RefsRemain DEF Seen, Modest
<1>2. CommitsTell'
  BY CommitsRemain DEF Seen
<1> QED BY <1>1, <1>2, Remains DEF Modest

\* How a call goes on that asks the Hub nothing.
LEMMA Replaced ==
    ASSUME IInv, NEW c \in Client, NEW k, call' = [call EXCEPT ![c] = k], Asked(k, table') PROVE Answered
<1>1. DOMAIN call = Client
  BY CallAt
<1> QED BY <1>1 DEF Answered
LEMMA Returned == ASSUME IInv, NEW c \in Client, Return(c) PROVE Answered
<1>1. NoCall.pc \notin Asking
  BY DEF NoCall, Asking
<1>2. Asked(NoCall, table')
  BY <1>1, NotAsking
<1> QED BY <1>2, Replaced DEF Return
LEMMA Went == ASSUME IInv, NEW c \in Client, NEW pc, pc \notin Asking, Goto(c, pc) PROVE Answered
<1> DEFINE k == [call[c] EXCEPT !.pc = pc]
<1>1. CallFine(call[c], table)
  BY CallAt
<1>2. k.pc \notin Asking
  BY <1>1 DEF CallFine
<1>3. Asked(k, table')
  BY <1>2, NotAsking
<1>4. call' = [call EXCEPT ![c] = k]
  BY DEF Goto
<1> QED BY <1>3, <1>4, Replaced
LEMMA Got == ASSUME IInv, NEW c \in Client, NEW t, NEW i, GotAttr(c, t, i) PROVE Answered
<1>1. CASE Has(t, i)
  <2> DEFINE k == [call[c] EXCEPT !.pc = "reply", !.ino = i]
  <2>1. CallFine(call[c], table)
    BY CallAt
  <2>2. k.pc \notin Asking
    BY <2>1 DEF CallFine, Asking
  <2>3. Asked(k, table')
    BY <2>2, NotAsking
  <2>4. call' = [call EXCEPT ![c] = k]
    BY <1>1 DEF GotAttr
  <2> QED BY <2>3, <2>4, Replaced
<1> QED BY <1>1, Returned DEF GotAttr

\* Nothing but calls, locks, negative entries and handles changes.
LEMMA SeenStays ==
    ASSUME IInv, IInv', Seen, UNCHANGED <<log, table, refs, commit, round, feed>>, Answered PROVE Kept
<1>1. Honest(table, table', {})
  BY HonestItself
<1>2. Grows(table, table') /\ \A i \in Ino : commit'[i] \in {None, commit[i]}
  BY StaysPut
<1> QED BY <1>1, <1>2, Continues DEF Honest

LEMMA StartKept ==
    ASSUME IInv, IInv', Seen, feed' = feed, NEW c \in Client, NEW d, NEW p, NEW event, NEW op, NEW pc, NEW i,
           Start(c, d, p, event, op, pc, i), pc \in Asking => pc = "revalidate?" /\ table.ino[i].path = p
    PROVE  Kept
<1> DEFINE k == [NoCall EXCEPT !.op = op, !.dir = d, !.path = p, !.pc = pc, !.ino = i,
                               !.hash = IF i = None THEN None ELSE table.ino[i].hash]
<1>1. table' = table /\ call' = [call EXCEPT ![c] = k]
  BY DEF Start, OnlyCall
<1>2. Asked(k, table')
  <2>1. k.pc = pc /\ k.ino = i /\ k.path = p
    BY DEF NoCall
  <2> QED BY <1>1, <2>1 DEF Asked, Asking
<1>3. Answered
  BY <1>1, <1>2, Replaced
<1> QED BY <1>3, SeenStays DEF Start, OnlyCall, kernel
LEMMA LookupKept ==
    ASSUME IInv, IInv', Seen, feed' = feed, NEW c \in Client, NEW d, NEW p, Lookup(c, d, p) PROVE Kept
<1> DEFINE i == LookupChild(table, d, p)
           op == IF i # None /\ refs[i] > 0 THEN "relookup" ELSE "lookup"
<1>1. CASE IsFile(table, i) /\ Start(c, d, p, "lookup", op, "revalidate?", i)
  <2>1. i # None
    BY <1>1, SoundTyped DEF IInv, TableOK, TableTyped, IsFile, Has, None
  <2>2. table.ino[i].path = p
    BY <2>1, ChildSays DEF IInv, TableOK, Sound
  <2> QED BY <1>1, <2>2, StartKept
<1>2. CASE \E pc \in {"reply", "miss", "slow"} : \E j : Start(c, d, p, "lookup", op, pc, j)
  BY <1>2, StartKept DEF Asking
<1> QED BY <1>1, <1>2 DEF Lookup
LEMMA CallOnKept ==
    ASSUME IInv, IInv', Seen, feed' = feed, NEW c \in Client, NEW d, NEW p, NEW op, CallOn(c, d, p, op) PROVE Kept
  BY StartKept DEF CallOn, Asking
LEMMA ReaddirKept ==
    ASSUME IInv, IInv', Seen, feed' = feed, NEW c \in Client, NEW d, Readdir(c, d) PROVE Kept
<1> DEFINE k == [NoCall EXCEPT !.op = "readdir", !.dir = d, !.pc = "load"]
<1>1. k.pc \notin Asking
  BY DEF NoCall, Asking
<1>2. Answered
  BY <1>1, NotAsking, Replaced DEF Readdir
<1> QED BY <1>2, SeenStays DEF Readdir, OnlyCall, kernel

LEMMA RevalidateHeadKept ==
    ASSUME IInv, IInv', Seen, feed' = feed, NEW c \in Client, RevalidateHead(c) PROVE Kept
<1> DEFINE k == [call[c] EXCEPT !.pc = "revalidate", !.ans = Hub[call[c].path]]
<1>1. CallFine(call[c], table) /\ Asked(call[c], table) /\ call[c].pc = "revalidate?"
  BY CallAt DEF Seen, CallsAsked, RevalidateHead
<1>2. table' = table /\ log' = log /\ call' = [call EXCEPT ![c] = k]
  BY DEF RevalidateHead, OnlyCall
<1>3. Asked(k, table')
  <2>1. k.pc = "revalidate" /\ k.ans = Hub[k.path] /\ k.ino = call[c].ino /\ k.path = call[c].path
    BY <1>1 DEF CallFine
  <2> HIDE DEF k
  <2> QED BY <1>1, <1>2, <2>1 DEF Asked
<1>4. Answered
  BY <1>2, <1>3, Replaced
<1> QED BY <1>4, SeenStays DEF RevalidateHead, OnlyCall, kernel
LEMMA ProbeKept ==
    ASSUME IInv, IInv', Seen, feed' = feed, NEW c \in Client, Probe(c) PROVE Kept
<1> DEFINE p == call[c].path
<1>1. UNCHANGED <<log, table, refs, commit, round, feed>>
  BY DEF Probe, OnlyCall, kernel
<1>2. ASSUME Hub[p] # None, call' = [call EXCEPT ![c].pc = "insert", ![c].ans = Hub[p]] PROVE Answered
  <2> DEFINE k == [call[c] EXCEPT !.pc = "insert", !.ans = Hub[p]]
  <2>1. CallFine(call[c], table)
    BY CallAt
  <2>2. k.pc = "insert" /\ k.ans = Hub[k.path] /\ k.ans # None
    BY <1>2, <2>1 DEF CallFine
  <2>3. call' = [call EXCEPT ![c] = k]
    BY <1>2
  <2>4. Asked(k, table')
    <3> HIDE DEF k
    <3> QED BY <2>2 DEF Asked
  <2> QED BY <2>3, <2>4, Replaced
<1>3. (\E pc \in {"miss_list", "load"} : Goto(c, pc)) \/ Return(c) => Answered
  BY Went, Returned DEF Asking
<1>4. Answered
  BY <1>2, <1>3 DEF Probe
<1> QED BY <1>1, <1>4, SeenStays
LEMMA ListDirKept ==
    ASSUME IInv, IInv', Seen, feed' = feed, NEW c \in Client, ListDir(c) PROVE Kept
<1>1. UNCHANGED <<log, table, refs, commit, round, feed>>
  BY DEF ListDir, kernel
<1>2. ASSUME call' = [call EXCEPT ![c].pc = "install", ![c].list = ListTree(table.ino[call[c].dir].path)]
      PROVE  Answered
  <2> DEFINE k == [call[c] EXCEPT !.pc = "install", !.list = ListTree(table.ino[call[c].dir].path)]
  <2>1. CallFine(call[c], table)
    BY CallAt
  <2>2. k.pc = "install" /\ k.list = ListTree(table.ino[k.dir].path)
    BY <2>1 DEF CallFine
  <2>3. call' = [call EXCEPT ![c] = k]
    BY <1>2
  <2>4. Asked(k, table')
    <3> HIDE DEF k
    <3> QED BY <1>1, <2>2 DEF Asked
  <2> QED BY <2>3, <2>4, Replaced
<1>3. Answered
  BY <1>2, Returned DEF ListDir
<1> QED BY <1>1, <1>3, SeenStays

\* The steps that change no more than that.
LEMMA QuietKept ==
    ASSUME IInv, IInv', Seen, feed' = feed, NEW c \in Client,
           \/ RevalidateSkip(c) \/ MissList(c) \/ NegInsert(c) \/ Load(c) \/ LookupLoaded(c) \/ ReaddirLoaded(c)
           \/ MkdirAttr(c) \/ UnlinkCheck(c)
    PROVE  Kept
<1>1. UNCHANGED <<log, table, refs, commit, round, feed>>
  BY DEF RevalidateSkip, MissList, NegInsert, Load, LookupLoaded, ReaddirLoaded, MkdirAttr, UnlinkCheck, OnlyCall, kernel
<1>2. \/ Return(c)
      \/ \E pc \in {"insert_dir", "neg", "loaded", "list"} : Goto(c, pc)
      \/ \E i : GotAttr(c, table, i)
      \/ UnlinkCheck(c)
  BY DEF RevalidateSkip, MissList, NegInsert, Load, LookupLoaded, ReaddirLoaded, MkdirAttr
<1>3. UnlinkCheck(c) => Answered
  <2> DEFINE i == LookupChild(table, call[c].dir, call[c].path)
             k == [call[c] EXCEPT !.pc = "unlink", !.ino = i, !.hash = table.ino[i].hash]
  <2>1. CallFine(call[c], table)
    BY CallAt
  <2>2. k.pc \notin Asking
    BY <2>1 DEF CallFine, Asking
  <2>3. UnlinkCheck(c) => Return(c) \/ call' = [call EXCEPT ![c] = k]
    BY DEF UnlinkCheck
  <2> QED BY <2>2, <2>3, NotAsking, Replaced, Returned
<1>4. Answered
  BY <1>2, <1>3, Returned, Went, Got DEF Asking
<1> QED BY <1>1, <1>4, SeenStays
LEMMA AsideKept ==
    ASSUME IInv, IInv', Seen, feed' = feed,
           \/ \E p \in Path : NegExpire(p)
           \/ \E i \in Ino : Close(i)
           \/ \E S \in SUBSET Ino : SweepStart(S)
    PROVE  Kept
<1>1. UNCHANGED <<log, table, call, refs, commit, round, feed>>
  BY DEF NegExpire, Close, SweepStart, kernel
<1> QED BY <1>1, SeenStays DEF Answered

\* A change of the Hub comes when nobody holds an answer.
LEMMA PutKept ==
    ASSUME IInv, IInv', Seen, UNCHANGED <<table, refs, round, feed>>, ~InFlight, NEW p \in Path, NEW hash, Put(p, hash),
           hash = None \/ HubTakes(p),
           \A c \in Client : call'[c] = call[c] \/ call'[c].pc \notin Asking,
           \A i \in Ino : commit'[i] # None => commit'[i] = hash /\ Has(table, i) /\ table.ino[i].path = p
    PROVE  Kept
<1>1. HubIsTree'
  BY PutKeepsTree DEF Seen, IInv
<1>2. CallsAsked'
  <2>1. ASSUME NEW c \in Client, call'[c].pc \in Asking
        PROVE  call'[c].pc = "revalidate?" /\ (Has(table', call'[c].ino) => table'.ino[call'[c].ino].path = call'[c].path)
    <3>1. call[c].pc \in Asking /\ call'[c] = call[c] /\ Asked(call[c], table)
      BY <2>1 DEF Seen, CallsAsked
    <3>2. call[c].pc \notin {"insert", "install", "revalidate"}
      BY DEF InFlight
    <3> QED BY <3>1, <3>2 DEF Asked, Asking
  <2> QED BY <2>1 DEF CallsAsked, Asked, Asking
<1>3. CommitsTell'
  <2>1. Hub'[p] = hash /\ TableTyped(table)
    BY PutIs, SoundTyped DEF IInv, TableOK
  <2> QED BY <2>1 DEF CommitsTell, TableTyped, Has
<1>4. RefsCounted'
  BY DEF Seen, RefsCounted, Referred
<1>5. RoundTells' /\ round.pc = "idle"
  BY DEF Seen, RoundTells, InFlight
<1>6. NamesStay /\ Reconciled
  BY <1>5 DEF NamesStay, Reconciled
<1> QED BY <1>1, <1>2, <1>3, <1>4, <1>5, <1>6 DEF Kept, Seen
LEMMA RemoteChangeKept ==
    ASSUME IInv, IInv', InTime, Seen, feed' = feed, NEW p \in Path, RemoteChange(p) PROVE Kept
<1>1. ~InFlight /\ UNCHANGED <<table, refs, round, feed, call, commit>>
  BY DEF RemoteChange, InTime, kernel
<1>2. PICK hash : Put(p, hash) /\ (hash = None \/ HubTakes(p))
  BY DEF RemoteChange
<1>3. \A i \in Ino : commit'[i] = None
  BY <1>1 DEF InFlight
<1> QED BY <1>1, <1>2, <1>3, PutKept
LEMMA CommitHubKept ==
    ASSUME IInv, IInv', InTime, Seen, feed' = feed, NEW i \in Ino, CommitHub(i) PROVE Kept
<1> DEFINE p == table.ino[i].path
<1>1. ~InFlight /\ UNCHANGED <<table, refs, round, feed, call>>
  BY DEF CommitHub, InTime, kernel
<1>2. Put(p, Rev + 1) /\ HubTakes(p) /\ Has(table, i)
  BY DEF CommitHub, IsOpen
<1>3. p \in Path
  BY <1>2 DEF HubTakes, IsHubDir, IInv, TableOK, Sound, SoundBut, TableTyped, EntryOK, Has
<1>4. \A j \in Ino : commit'[j] # None => j = i /\ commit'[j] = Rev + 1
  BY <1>1 DEF CommitHub, InFlight, IInv, KernelOK
<1> QED BY <1>1, <1>2, <1>3, <1>4, PutKept
LEMMA UnlinkRemoteKept ==
    ASSUME IInv, IInv', InTime, Seen, feed' = feed, NEW c \in Client, UnlinkRemote(c) PROVE Kept
<1> DEFINE p == call[c].path
<1>1. ~InFlight /\ UNCHANGED <<table, refs, round, feed, commit>> /\ call[c].pc = "unlink"
  BY DEF UnlinkRemote, InTime, kernel
<1>2. Goto(c, "unlink_local") \/ Return(c)
  BY DEF UnlinkRemote
<1>3. CASE log' = log
  <2>1. Answered
    BY <1>2, Went, Returned DEF Asking
  <2> QED BY <1>1, <1>3, <2>1, SeenStays
<1>4. CASE Put(p, None) /\ Goto(c, "unlink_local")
  <2>1. p \in Path
    BY <1>1, OnName DEF Plain
  <2>2. call'[c].pc = "unlink_local" /\ \A x \in Client \ {c} : call'[x] = call[x]
    BY <1>4, CallAt DEF Goto, CallFine
  <2>3. \A i \in Ino : commit'[i] = None
    BY <1>1 DEF InFlight
  <2> QED BY <1>1, <1>4, <2>1, <2>2, <2>3, PutKept DEF Asking
<1> QED BY <1>3, <1>4 DEF UnlinkRemote

\* A call moves and the table with it.
LEMMA TableStep ==
    ASSUME IInv, IInv', Seen, UNCHANGED <<log, round, refs, commit, feed>>, Grows(table, table'), Honest(table, table', {}), Answered
    PROVE  Kept
<1>1. \A i \in Ino : commit'[i] \in {None, commit[i]}
  OBVIOUS
<1> QED BY <1>1, Continues DEF Honest

LEMMA InsertDirKept ==
    ASSUME IInv, IInv', Seen, feed' = feed, NEW c \in Client, InsertDir(c) PROVE Kept
<1> DEFINE d == call[c].dir
           p == call[c].path
<1>1. UNCHANGED <<log, round, refs, commit, feed>> /\ call[c].pc = "insert_dir"
  BY DEF InsertDir, OnlyTable, kernel
<1>2. Answered
  BY Returned, Got DEF InsertDir
<1>3. CASE table' = table
  BY <1>1, <1>2, <1>3, SeenStays
<1>4. CASE IsDir(table, d) /\ LookupChild(table, d, p) = None /\ table' = Insert(table, d, p, "dir", None)
  <2>1. p \in Path /\ Up[p] = table.ino[d].path /\ Sound(table) /\ None \in 0..MaxRev
    BY <1>1, <1>4, OnName, BoundsAssumption DEF Plain, IsDir, IInv, TableOK, None
  <2>2. Honest(table, table', {})
    BY <1>4, <2>1, InsertHonest
  <2>3. Grows(table, table')
    BY <1>4, <2>1, InsertKeeps DEF Keeps
  <2> QED BY <1>1, <1>2, <2>2, <2>3, TableStep
<1> QED BY <1>3, <1>4 DEF InsertDir
LEMMA InstallKept ==
    ASSUME IInv, IInv', Seen, feed' = feed, NEW c \in Client, Install(c) PROVE Kept
<1> DEFINE d == call[c].dir
<1>1. UNCHANGED <<log, round, refs, commit, feed>> /\ call[c].pc = "install"
  BY DEF Install, kernel
<1>2. Answered
  <2>1. ASSUME call' = [call EXCEPT ![c].pc = "loaded", ![c].fresh = TRUE, ![c].list = {}] PROVE Answered
    <3> DEFINE k == [call[c] EXCEPT !.pc = "loaded", !.fresh = TRUE, !.list = {}]
    <3>1. k.pc \notin Asking
      BY CallAt DEF CallFine, Asking
    <3>2. call' = [call EXCEPT ![c] = k]
      BY <2>1
    <3> QED BY <3>1, <3>2, NotAsking, Replaced
  <2> QED BY <2>1, Returned, Went DEF Install, Asking
<1>3. CASE table' = table
  BY <1>1, <1>2, <1>3, SeenStays
<1>4. CASE IsDir(table, d) /\ table' = Listed(table, d, call[c].list)
  <2>1. /\ Sound(table) /\ HubIsTree /\ CallFine(call[c], table) /\ Has(table, d)
        /\ call[c].list = ListTree(table.ino[d].path)
    BY <1>1, <1>4, CallAt DEF IsDir, Seen, CallsAsked, Asked
  <2>2. Honest(table, table', {}) /\ Grows(table, table')
    BY <1>4, <2>1, ListedKeeps DEF CallFine, Answers, Keeps
  <2> QED BY <1>1, <1>2, <2>2, TableStep
<1> QED BY <1>3, <1>4 DEF Install
\* One inode changes in what the kernel does not see of its name.
Renewed(t, u, i, e) ==
    /\ Inodes(u) = Inodes(t) /\ u.next = t.next /\ u.ino[i] = e /\ \A j \in Inodes(t) \ {i} : u.ino[j] = t.ino[j]
LEMMA RenewedIs ==
    ASSUME NEW t, TableTyped(t), NEW i, Has(t, i), NEW e PROVE Renewed(t, [t EXCEPT !.ino[i] = e], i, e)
  BY DEF TableTyped, Inodes, Has, Renewed
LEMMA RenewedKeeps ==
    ASSUME NEW t, TableTyped(t), NEW u, NEW i, Has(t, i), NEW e, Renewed(t, u, i, e),
           e.kind = t.ino[i].kind, e.path = t.ino[i].path, e.nlink = t.ino[i].nlink, NEW E
    PROVE  /\ Grows(t, u) /\ Lost(t, u, E)
           /\ e.nlookup = t.ino[i].nlookup => Modest(t, u, E)
           /\ \/ e.dirty
              \/ e.hash = Hub[e.path]
              \/ e.dirty = t.ino[i].dirty /\ e.hash = t.ino[i].hash
              => Trusted(t, u)
<1>1. Inodes(u) = Inodes(t) /\ u.next = t.next /\ u.ino[i] = e /\ \A j \in Inodes(t) \ {i} : u.ino[j] = t.ino[j]
  BY DEF Renewed
<1>2. \A j \in Inodes(t) : u.ino[j].kind = t.ino[j].kind /\ u.ino[j].path = t.ino[j].path /\ u.ino[j].nlink = t.ino[j].nlink
  BY <1>1
<1>3. Grows(t, u)
  BY <1>1, <1>2 DEF Grows, TableTyped
<1>4. Lost(t, u, E)
  BY <1>1, <1>2 DEF Lost, Named
<1>5. e.nlookup = t.ino[i].nlookup => Calm(t, u)
  BY <1>1 DEF Calm
<1>6. ASSUME e.dirty \/ e.hash = Hub[e.path] \/ (e.dirty = t.ino[i].dirty /\ e.hash = t.ino[i].hash),
             NEW j \in CleanFiles(u)
      PROVE  Right(u, j) \/ (j \in CleanFiles(t) /\ u.ino[j].hash = t.ino[j].hash)
  <2>1. CASE j # i
    BY <1>1, <2>1 DEF CleanFiles, IsFile, Linked, Has
  <2>2. CASE j = i
    BY <1>1, <1>2, <1>6, <2>2 DEF CleanFiles, IsFile, Linked, Has, Right
  <2> QED BY <2>1, <2>2
<1> QED BY <1>3, <1>4, <1>5, <1>6 DEF Modest, Trusted

LEMMA CreateOpenKept ==
    ASSUME IInv, IInv', Seen, feed' = feed, NEW c \in Client, CreateOpen(c) PROVE Kept
<1> DEFINE i == call[c].ino
           e == [table.ino[i] EXCEPT !.open = @ + 1]
<1>1. UNCHANGED <<log, round, refs, commit, feed>> /\ Answered /\ TableTyped(table)
  BY Got, CallAt DEF CreateOpen, kernel
<1>2. CASE ~Has(table, i)
  BY <1>1, <1>2, SeenStays DEF CreateOpen
<1>3. CASE Has(table, i)
  <2>1. e.kind = table.ino[i].kind /\ e.path = table.ino[i].path /\ e.nlink = table.ino[i].nlink /\ e.nlookup = table.ino[i].nlookup
        /\ e.dirty = table.ino[i].dirty /\ e.hash = table.ino[i].hash
    BY <1>1, <1>3 DEF TableTyped, EntryOK, Has, Fields
  <2>2. table' = [table EXCEPT !.ino[i] = e]
    BY <1>3 DEF CreateOpen
  <2> HIDE DEF e
  <2>3. Renewed(table, table', i, e)
    BY <1>1, <1>3, <2>2, RenewedIs
  <2>4. Grows(table, table') /\ Honest(table, table', {})
    BY <1>1, <1>3, <2>1, <2>3, RenewedKeeps DEF Honest
  <2> QED BY <1>1, <2>4, TableStep
<1> QED BY <1>2, <1>3
\* A handle more leaves the content, or makes it local.
Opened(e, f) ==
    /\ f.kind = e.kind /\ f.path = e.path /\ f.nlink = e.nlink /\ f.nlookup = e.nlookup
    /\ f.dirty \/ (f.dirty = e.dirty /\ f.hash = e.hash)
LEMMA OpenKeepsNames ==
    ASSUME IInv, IInv', Seen, UNCHANGED <<log, round, refs, commit, call, feed>>, NEW i, Has(table, i), NEW e,
           table' = [table EXCEPT !.ino[i] = e],
           Opened(table.ino[i], e)
    PROVE  Kept
<1>1. Answered /\ TableTyped(table)
  BY SoundTyped DEF IInv, TableOK, Answered
<1>2. Renewed(table, table', i, e)
  BY <1>1, RenewedIs
<1>3. Grows(table, table') /\ Modest(table, table', {}) /\ Trusted(table, table')
  BY <1>1, <1>2, RenewedKeeps DEF Opened
<1> QED BY <1>1, <1>3, TableStep DEF Honest
LEMMA OpensKept ==
    ASSUME IInv, IInv', Seen, feed' = feed, NEW i \in Ino, Open(i) \/ OpenTruncate(i) PROVE Kept
<1> DEFINE e == [table.ino[i] EXCEPT !.open = @ + 1]
           f == [table.ino[i] EXCEPT !.open = @ + 1, !.dirty = TRUE, !.hash = None]
<1>0. IInv /\ IInv' /\ Seen
  OBVIOUS
<1>1. UNCHANGED <<log, round, refs, commit, call, feed>> /\ TableTyped(table) /\ Has(table, i)
  BY SoundTyped DEF Open, OpenTruncate, IsFile, IInv, TableOK
<1>2. DOMAIN table.ino[i] = Fields
  BY <1>1 DEF TableTyped, EntryOK, Has
<1>3. CASE Open(i)
  <2>1. table' = [table EXCEPT !.ino[i] = e]
    BY <1>3 DEF Open
  <2>2. Opened(table.ino[i], e)
    BY <1>2 DEF Fields, Opened
  <2> HIDE DEF e
  <2> QED BY ONLY <1>0, <1>1, <2>1, <2>2, OpenKeepsNames
<1>4. CASE OpenTruncate(i)
  <2>1. table' = [table EXCEPT !.ino[i] = f]
    <3>1. table' = [table EXCEPT !.ino[i].open = @ + 1, !.ino[i].dirty = TRUE, !.ino[i].hash = None]
      BY <1>4 DEF OpenTruncate
    <3>2. DOMAIN table = {"ino", "path", "next"} /\ i \in DOMAIN table.ino
      BY <1>1 DEF TableTyped, Has, Inodes
    <3> HIDE DEF f
    <3> DEFINE a == [table EXCEPT !.ino[i].open = @ + 1]
               b == [a EXCEPT !.ino[i].dirty = TRUE]
               g == [table.ino[i] EXCEPT !.open = @ + 1]
               h == [g EXCEPT !.dirty = TRUE]
    <3>3. a = [table EXCEPT !.ino[i] = g]
      OBVIOUS
    <3>4. table' = [b EXCEPT !.ino[i].hash = None] /\ b = [a EXCEPT !.ino[i].dirty = TRUE]
      BY <3>1
    <3>5. f = [h EXCEPT !.hash = None]
      BY DEF f
    <3> HIDE DEF a, b, g
    <3>6. b = [table EXCEPT !.ino[i] = h]
      BY ONLY <3>2, <3>3, <3>4
    <3> HIDE DEF h
    <3>7. b.ino = [table.ino EXCEPT ![i] = h] /\ b.ino[i] = h
      BY ONLY <3>2, <3>6
    <3>8. [b.ino EXCEPT ![i] = f] = [table.ino EXCEPT ![i] = f]
      BY ONLY <3>7
    <3>9. table' = [b EXCEPT !.ino = [b.ino EXCEPT ![i] = f]]
      BY ONLY <3>4, <3>5, <3>7
    <3> QED BY ONLY <3>2, <3>6, <3>8, <3>9
  <2>2. Opened(table.ino[i], f)
    BY <1>2 DEF Fields, Opened
  <2> HIDE DEF f
  <2> QED BY ONLY <1>0, <1>1, <2>1, <2>2, OpenKeepsNames
<1> QED BY <1>3, <1>4
LEMMA CommitApplyKept ==
    ASSUME IInv, IInv', Seen, feed' = feed, NEW i \in Ino, CommitApply(i) PROVE Kept
<1>1. /\ UNCHANGED <<log, round, refs, call, feed>> /\ Answered /\ TableTyped(table)
      /\ \A j \in Ino : commit'[j] \in {None, commit[j]}
      /\ commit[i] # None
  BY SoundTyped DEF CommitApply, kernel, IInv, TableOK, Answered, KernelOK
<1>2. CASE ~Has(table, i)
  <2>1. table' = table /\ Honest(table, table, {})
    BY <1>2, HonestItself DEF CommitApply
  <2> QED BY <1>1, <2>1, StaysPut, Continues DEF Honest
<1>3. CASE Has(table, i)
  <2> DEFINE e == [table.ino[i] EXCEPT !.hash = commit[i], !.dirty = FALSE]
  <2>1. e.kind = table.ino[i].kind /\ e.path = table.ino[i].path /\ e.nlink = table.ino[i].nlink
        /\ e.nlookup = table.ino[i].nlookup /\ e.hash = Hub[e.path]
    BY <1>1, <1>3 DEF TableTyped, EntryOK, Has, Fields, Seen, CommitsTell
  <2>2. table' = [table EXCEPT !.ino[i] = e]
    BY <1>3 DEF CommitApply
  <2> HIDE DEF e
  <2>3. Renewed(table, table', i, e)
    BY <1>1, <1>3, <2>2, RenewedIs
  <2>4. Grows(table, table') /\ Honest(table, table', {})
    BY <1>1, <1>3, <2>1, <2>3, RenewedKeeps DEF Honest
  <2> QED BY <1>1, <2>4, Continues DEF Honest
<1> QED BY <1>2, <1>3

\* References come and go with their counts.
LEMMA CountStep ==
    ASSUME IInv, IInv', Seen, UNCHANGED <<log, round, commit, feed>>, Answered, NEW i,
           table' = IF Has(table, i) THEN [table EXCEPT !.ino[i] = [@ EXCEPT !.nlookup = table'.ino[i].nlookup]] ELSE table,
           RefsCounted'
    PROVE  Kept
<1>1. TableTyped(table) /\ CommitsTell
  BY SoundTyped DEF IInv, TableOK, Seen
<1>2. Grows(table, table') /\ Lost(table, table', {}) /\ Trusted(table, table')
  <2>1. CASE ~Has(table, i)
    <3>1. Honest(table, table, {})
      BY HonestItself
    <3> QED BY <2>1, <3>1, StaysPut DEF Honest, Modest
  <2>2. CASE Has(table, i)
    <3> DEFINE e == [table.ino[i] EXCEPT !.nlookup = table'.ino[i].nlookup]
    <3>1. e.kind = table.ino[i].kind /\ e.path = table.ino[i].path /\ e.nlink = table.ino[i].nlink
          /\ e.dirty = table.ino[i].dirty /\ e.hash = table.ino[i].hash
      BY <1>1, <2>2 DEF TableTyped, EntryOK, Has, Fields
    <3>2. table' = [table EXCEPT !.ino[i] = e]
      BY <2>2
    <3> HIDE DEF e
    <3>3. Renewed(table, table', i, e)
      BY <1>1, <2>2, <3>2, RenewedIs
    <3> QED BY <1>1, <2>2, <3>1, <3>3, RenewedKeeps
  <2> QED BY <2>1, <2>2
<1>3. CommitsTell'
  BY <1>1, <1>2, CommitsRemain
<1> QED BY <1>2, <1>3, Remains
LEMMA ReplyKept ==
    ASSUME IInv, IInv', Seen, feed' = feed, NEW c \in Client, Reply(c) PROVE Kept
<1> DEFINE i == call[c].ino
           n == table.ino[i].nlookup + 1
<1>1. /\ UNCHANGED <<log, round, commit, feed>> /\ Answered /\ TableTyped(table) /\ RefsCounted
      /\ refs' = [refs EXCEPT ![i] = @ + 1] /\ KernelOK /\ i < table.next /\ CallFine(call[c], table)
  BY CallAt, Returned DEF Reply, CallFine, Seen, IInv
<1>2. table' = IF Has(table, i) THEN [table EXCEPT !.ino[i] = [@ EXCEPT !.nlookup = n]] ELSE table
  BY DEF Reply
<1>3. Has(table, i) => table'.ino[i].nlookup = n /\ n > 0
  BY <1>1, <1>2 DEF TableTyped, EntryOK, Fields, Inodes, Has
<1>4. /\ Inodes(table') = Inodes(table) /\ table'.next = table.next
      /\ \A j \in Inodes(table) \ {i} : table'.ino[j] = table.ino[j]
  BY <1>1, <1>2, RenewedIs DEF Renewed
<1>5. RefsCounted'
  <2>1. \A j \in Ino \ {i} : refs'[j] = refs[j]
    BY <1>1 DEF KernelOK
  <2>2. Inodes(table) \subseteq Ino
    BY InodesAreIno DEF IInv
  <2>3. Referred(table)'
    <3> HIDE DEF i
    <3> QED BY <1>1, <1>3, <1>4, <2>1, <2>2 DEF RefsCounted, Referred, Has
  <2>4. \A j \in Ino : j >= table.next => j # i
    BY <1>1, BoundsAssumption DEF TableTyped, Ino, CallFine, None
  <2> HIDE DEF i
  <2> QED BY <1>1, <1>4, <2>1, <2>3, <2>4 DEF RefsCounted
<1>6. table' = IF Has(table, i) THEN [table EXCEPT !.ino[i] = [@ EXCEPT !.nlookup = table'.ino[i].nlookup]] ELSE table
  BY <1>2, <1>3
<1> HIDE DEF i
<1> QED BY <1>1, <1>5, <1>6, CountStep
LEMMA ForgetDropKept ==
    ASSUME IInv, IInv', Seen, feed' = feed, NEW c \in Client, NEW i \in Ino, ForgetDrop(c, i) PROVE Kept
<1> DEFINE n == IF table.ino[i].nlookup > refs[i] THEN table.ino[i].nlookup - refs[i] ELSE 0
           k == [NoCall EXCEPT !.op = "forget", !.pc = "forget", !.ino = i]
<1>1. /\ UNCHANGED <<log, round, commit, feed>> /\ TableTyped(table) /\ RefsCounted
      /\ refs' = [refs EXCEPT ![i] = 0] /\ KernelOK
      /\ table' = IF Has(table, i) THEN [table EXCEPT !.ino[i] = [@ EXCEPT !.nlookup = n]] ELSE table
      /\ call' = call \/ call' = [call EXCEPT ![c] = k]
  BY CallAt DEF ForgetDrop, Seen, IInv
<1>2. Answered
  <2>1. k.pc \notin Asking
    BY DEF NoCall, Asking
  <2> QED BY <1>1, <2>1, NotAsking, Replaced DEF Answered
<1>3. Has(table, i) => table'.ino[i].nlookup = n
  BY <1>1 DEF TableTyped, EntryOK, Fields, Inodes, Has
<1>4. /\ Inodes(table') = Inodes(table) /\ table'.next = table.next
      /\ \A j \in Inodes(table) \ {i} : table'.ino[j] = table.ino[j]
  BY <1>1, RenewedIs DEF Renewed
<1>5. RefsCounted'
  <2>1. refs'[i] = 0 /\ \A j \in Ino \ {i} : refs'[j] = refs[j]
    BY <1>1 DEF KernelOK
  <2>2. Inodes(table) \subseteq Ino
    BY InodesAreIno DEF IInv
  <2> QED BY <1>1, <1>4, <2>1, <2>2 DEF RefsCounted, Referred
<1>6. table' = IF Has(table, i) THEN [table EXCEPT !.ino[i] = [@ EXCEPT !.nlookup = table'.ino[i].nlookup]] ELSE table
  BY <1>1, <1>3
<1> QED BY <1>1, <1>2, <1>5, <1>6, CountStep

\* create() and mkdir() insert what is not the Hub's.
LEMMA CreateInsertKept ==
    ASSUME IInv, IInv', Seen, feed' = feed, NEW c \in Client, CreateInsert(c) PROVE Kept
<1> DEFINE d == call[c].dir
           p == call[c].path
           i == InsertedIno(table, p)
           u == Insert(table, d, p, "file", None)
           k == [call[c] EXCEPT !.pc = "create", !.ino = i]
<1>1. /\ UNCHANGED <<log, round, refs, commit, feed>> /\ CallFine(call[c], table) /\ Sound(table) /\ TableTyped(table)
      /\ TableTyped(table') /\ call[c].op = "create"
  BY CallAt, SoundTyped DEF CreateInsert, OnlyTable, kernel, IInv, TableOK
<1>2. CASE table' = table /\ Return(c)
  BY <1>1, <1>2, SeenStays, Returned
<1>3. CASE /\ IsDir(table, d) /\ LookupChild(table, d, p) = None
           /\ table' = [u EXCEPT !.ino[i].dirty = TRUE]
           /\ call' = [call EXCEPT ![c].pc = "create", ![c].ino = i]
  <2>1. p \in Path /\ Up[p] = table.ino[d].path /\ None \in 0..MaxRev
    BY <1>1, <1>3, BoundsAssumption DEF CallFine, IsDir, None
  <2>2. p \notin DOMAIN table.path /\ i = table.next
    BY <1>1, <1>3, <2>1, NoChildNoPath DEF Sound, InsertedIno
  <2>3. Answered
    <3>1. k.pc \notin Asking /\ call' = [call EXCEPT ![c] = k]
      BY <1>1, <1>3 DEF CallFine, Asking
    <3> QED BY <3>1, NotAsking, Replaced
  <2>d. IsDir(table, d) /\ call[c].dir = d /\ call[c].path = p
    BY <1>3
  <2>u. u = Insert(table, d, p, "file", None) /\ i = InsertedIno(table, p) /\ table' = [u EXCEPT !.ino[i].dirty = TRUE]
    BY <1>3
  <2> HIDE DEF u, i, k, p, d
  <2>a. Sound(u) /\ Keeps(table, u) /\ i \in Inodes(u)
    BY ONLY <1>1, <2>1, <2>d, <2>u, InsertKeeps
  <2>b. /\ Modest(table, u, {})
        /\ \A j \in CleanFiles(u) : j # table.next => j \in CleanFiles(table) /\ u.ino[j].hash = table.ino[j].hash
    BY ONLY <1>1, <2>1, <2>d, <2>u, InsertHonest
  <2>4. /\ TableTyped(u) /\ Has(u, i) /\ Grows(table, u) /\ Modest(table, u, {})
        /\ \A j \in CleanFiles(u) : j # table.next => j \in CleanFiles(table) /\ u.ino[j].hash = table.ino[j].hash
    BY <2>a, <2>b, SoundTyped DEF Keeps, Has
  <2> DEFINE e == [u.ino[i] EXCEPT !.dirty = TRUE]
  <2>5. /\ e.kind = u.ino[i].kind /\ e.path = u.ino[i].path /\ e.nlink = u.ino[i].nlink
        /\ e.nlookup = u.ino[i].nlookup /\ e.dirty
    BY <2>4 DEF TableTyped, EntryOK, Has, Fields
  <2>6. table' = [u EXCEPT !.ino[i] = e]
    BY <2>u
  <2> HIDE DEF e
  <2>7. Renewed(u, table', i, e)
    BY <2>4, <2>6, RenewedIs
  <2>8. Grows(u, table') /\ Modest(u, table', {})
    BY <2>4, <2>5, <2>7, RenewedKeeps
  <2>9. Modest(table, table', {})
    BY <1>1, <2>4, <2>8, ModestOn
  <2>10. Grows(table, table')
    BY <1>1, <2>4, <2>8 DEF Grows, TableTyped
  <2>11. Trusted(table, table')
    <3>1. \A j \in CleanFiles(table') : j # i /\ j \in CleanFiles(u) /\ table'.ino[j].hash = u.ino[j].hash
      BY <2>5, <2>7 DEF CleanFiles, IsFile, Linked, Has, Renewed
    <3> QED BY <2>2, <2>4, <3>1 DEF Trusted
  <2> QED BY <1>1, <2>3, <2>9, <2>10, <2>11, TableStep DEF Honest
<1> QED BY <1>2, <1>3 DEF CreateInsert
LEMMA MkdirKept ==
    ASSUME IInv, IInv', Seen, feed' = feed, NEW c \in Client, Mkdir(c) PROVE Kept
<1> DEFINE d == call[c].dir
           p == call[c].path
           i == InsertedIno(table, p)
           u == Insert(table, d, p, "dir", None)
           k == [call[c] EXCEPT !.pc = "mkdir", !.ino = i]
<1>1. /\ UNCHANGED <<log, round, refs, commit, feed>> /\ CallFine(call[c], table) /\ Sound(table) /\ TableTyped(table)
      /\ TableTyped(table') /\ call[c].op = "mkdir"
  BY CallAt, SoundTyped DEF Mkdir, OnlyTable, kernel, IInv, TableOK
<1>2. CASE table' = table /\ Return(c)
  BY <1>1, <1>2, SeenStays, Returned
<1>3. CASE /\ IsDir(table, d)
           /\ table' = [u EXCEPT !.ino[i].loaded = TRUE, !.ino[i].local = TRUE]
           /\ call' = [call EXCEPT ![c].pc = "mkdir", ![c].ino = i]
  <2>d. IsDir(table, d) /\ call[c].dir = d /\ call[c].path = p
    BY <1>3
  <2>1. p \in Path /\ Up[p] = table.ino[d].path /\ None \in 0..MaxRev
    BY ONLY <1>1, <2>d, BoundsAssumption DEF CallFine, IsDir, None
  <2>3. Answered
    <3>1. k.pc \notin Asking /\ call' = [call EXCEPT ![c] = k]
      BY <1>1, <1>3 DEF CallFine, Asking
    <3> QED BY <3>1, NotAsking, Replaced
  <2>u. /\ u = Insert(table, d, p, "dir", None) /\ i = InsertedIno(table, p)
        /\ table' = [u EXCEPT !.ino[i].loaded = TRUE, !.ino[i].local = TRUE]
    BY <1>3
  <2> HIDE DEF u, i, k, p, d
  <2>a. Sound(u) /\ Keeps(table, u) /\ i \in Inodes(u)
    BY ONLY <1>1, <2>1, <2>d, <2>u, InsertKeeps
  <2>b. Honest(table, u, {})
    BY ONLY <1>1, <2>1, <2>d, <2>u, InsertHonest
  <2>4. TableTyped(u) /\ Has(u, i) /\ Grows(table, u) /\ Honest(table, u, {})
    BY <2>a, <2>b, SoundTyped DEF Keeps, Has
  <2> DEFINE e == [u.ino[i] EXCEPT !.loaded = TRUE, !.local = TRUE]
  <2>5. /\ e.kind = u.ino[i].kind /\ e.path = u.ino[i].path /\ e.nlink = u.ino[i].nlink
        /\ e.nlookup = u.ino[i].nlookup /\ e.dirty = u.ino[i].dirty /\ e.hash = u.ino[i].hash
    BY <2>4 DEF TableTyped, EntryOK, Has, Fields
  <2>6. table' = [u EXCEPT !.ino[i] = e]
    BY ONLY <2>4, <2>u DEF TableTyped, Has, Inodes
  <2> HIDE DEF e
  <2>7. Renewed(u, table', i, e)
    BY <2>4, <2>6, RenewedIs
  <2>8. Grows(u, table') /\ Honest(u, table', {})
    BY <2>4, <2>5, <2>7, RenewedKeeps DEF Honest
  <2>9. Honest(table, table', {})
    BY <1>1, <2>4, <2>8, HonestOn
  <2>10. Grows(table, table')
    BY <1>1, <2>4, <2>8 DEF Grows, TableTyped
  <2> QED BY <1>1, <2>3, <2>9, <2>10, TableStep
<1> QED BY <1>2, <1>3 DEF Mkdir

\* Evictions take what the kernel does not refer to.
LEMMA ForgetEvictKept ==
    ASSUME IInv, IInv', Seen, feed' = feed, NEW c \in Client, ForgetEvict(c) PROVE Kept
<1> DEFINE i == call[c].ino
           e == [table.ino[i] EXCEPT !.evict = TRUE]
<1>1. UNCHANGED <<log, round, refs, commit, feed>> /\ Sound(table) /\ TableTyped(table) /\ Referred(table) /\ Answered
  BY CallAt, SoundTyped, Returned DEF ForgetEvict, OnlyTable, kernel, Seen, RefsCounted
<1>2. CASE IsOpen(table, i)
  <2>1. Has(table, i) /\ table' = [table EXCEPT !.ino[i] = e]
    BY <1>2 DEF ForgetEvict, IsOpen
  <2>2. e.kind = table.ino[i].kind /\ e.path = table.ino[i].path /\ e.nlink = table.ino[i].nlink
        /\ e.nlookup = table.ino[i].nlookup /\ e.dirty = table.ino[i].dirty /\ e.hash = table.ino[i].hash
    BY <1>1, <2>1 DEF TableTyped, EntryOK, Has, Fields
  <2> HIDE DEF e, i
  <2>3. Renewed(table, table', i, e)
    BY <1>1, <2>1, RenewedIs
  <2>4. Grows(table, table') /\ Honest(table, table', {})
    BY <1>1, <2>1, <2>2, <2>3, RenewedKeeps DEF Honest
  <2> QED BY <1>1, <2>4, TableStep
<1>3. CASE ~IsOpen(table, i)
  <2>1. table' = EvictIfSafe(table, i)
    BY <1>3 DEF ForgetEvict
  <2>2. Grows(table, table') /\ Honest(table, table', {})
    BY <1>1, <1>3, <2>1, EvictIfSafeKeeps, EvictIfSafeHonest DEF Keeps
  <2> QED BY <1>1, <2>2, TableStep
<1> QED BY <1>2, <1>3
LEMMA SweepEvictKept == ASSUME IInv, IInv', Seen, feed' = feed, SweepEvict PROVE Kept
<1>1. /\ UNCHANGED <<log, round, refs, commit, feed>> /\ Sound(table) /\ Referred(table) /\ Answered
      /\ table' = EvictBatchIfSafe(table, sweep \cap Inodes(table))
  BY DEF SweepEvict, kernel, IInv, TableOK, Seen, RefsCounted, Answered
<1>2. Grows(table, table') /\ Honest(table, table', {})
  BY <1>1, EvictBatchKeeps, EvictBatchHonest DEF Keeps
<1> QED BY <1>1, <1>2, TableStep

\* The steps that use an answer of the Hub, or what unlink() has looked up.
LEMMA RevalidateApplyKept ==
    ASSUME IInv, IInv', Seen, feed' = feed, NEW c \in Client, RevalidateApply(c), ~On("head_404_in_use") PROVE Kept
<1>1. UNCHANGED <<log, round, refs, commit, feed>> /\ Answered
  BY Got DEF RevalidateApply, OnlyTable, kernel
<1>2. HubIsTree /\ Asked(call[c], table)
  BY DEF Seen, CallsAsked
<1>3. Grows(table, table') /\ Honest(table, table', {})
  BY <1>2, RevalidateApplyStep
<1> QED BY <1>1, <1>3, TableStep
LEMMA InsertFileKept ==
    ASSUME IInv, IInv', Seen, feed' = feed, NEW c \in Client, InsertFile(c) PROVE Kept
<1>1. UNCHANGED <<log, round, refs, commit, feed>> /\ Answered
  BY Got, Returned DEF InsertFile, OnlyTable, kernel
<1>2. HubIsTree /\ Asked(call[c], table)
  BY DEF Seen, CallsAsked
<1>3. Grows(table, table') /\ Honest(table, table', {})
  BY <1>2, InsertFileStep
<1> QED BY <1>1, <1>3, TableStep
LEMMA ReleaseKept ==
    ASSUME IInv, IInv', Seen, feed' = feed, NEW i \in Ino, Release(i) PROVE Kept
<1>1. UNCHANGED <<log, round, refs, commit, feed>> /\ Answered
  BY DEF Release, kernel, Answered
<1>2. Grows(table, table') /\ Honest(table, table', {})
  BY ReleaseStep DEF Seen, RefsCounted
<1> QED BY <1>1, <1>2, TableStep
LEMMA UnlinkLocalKept ==
    ASSUME IInv, IInv', Seen, feed' = feed, NEW c \in Client, UnlinkLocal(c), ~On("unlink_replaced") PROVE Kept
<1> DEFINE E == {call[c].ino}
<1>1. UNCHANGED <<log, round, refs, commit, feed>> /\ Answered
  BY Went DEF UnlinkLocal, OnlyTable, kernel, Asking
<1>2. Grows(table, table') /\ Honest(table, table', E) /\ \A i \in E : Excused(i)
  BY UnlinkLocalStep DEF Excused
<1>3. \A i \in Ino : commit'[i] \in {None, commit[i]}
  BY <1>1
<1> HIDE DEF E
<1> QED BY <1>1, <1>2, <1>3, Continues DEF Honest

\* A round that has been applied holds nothing any more, and the files of the
\* directories it listed are the Hub's.
LEMMA RoundApplyKept ==
    ASSUME IInv, IInv', Seen, RoundApply, ~On("orphan_name") PROVE Kept
<1>1. UNCHANGED <<log, call, refs, commit>> /\ round.pc = "apply" /\ round' = NoRound
  BY DEF RoundApply, kernel
<1>2. RoundFound
  BY <1>1 DEF Seen, RoundTells
<1>3. /\ Grows(table, table') /\ (\A d : IsDir(table, d) => IsDir(table', d)) /\ Honest(table, table', {})
      /\ \A j \in CleanFiles(table') : Up[table'.ino[j].path] \in round.ok => Right(table', j)
  BY <1>2, RoundApplyStep
<1>4. HubIsTree'
  BY <1>1, HubStays DEF Seen
<1>5. CallsAsked'
  BY <1>1, <1>3, AskedOn DEF Seen, Answered
<1>6. CommitsTell'
  BY <1>1, <1>3, CommitsRemain DEF Seen
<1>7. RefsCounted'
  BY <1>1, <1>3, RefsRemain DEF Seen, Honest, Modest
<1>8. RoundTells'
  BY <1>1 DEF RoundTells, NoRound
<1>9. NamesStay
  BY <1>3 DEF NamesStay, Honest, Modest, Lost, Linked, Has, Named
<1>10. Reconciled
  <2> SUFFICES ASSUME NEW d \in Inodes(table), IsDir(table, d), table.ino[d].path \in round.ok,
                      NEW x \in table'.ino[d].children, IsFile(table', x.ino), ~table'.ino[x.ino].dirty
               PROVE  table'.ino[x.ino].hash = Hub[x.name]
    BY DEF Reconciled, ContentIsCurrent
  <2>1. TableTyped(table) /\ Sound(table')
    BY SoundTyped DEF IInv, TableOK
  <2>2. RootStays(table') /\ Below(table') /\ ChildrenTell(table')
    BY <2>1, Facts DEF Sound
  <2>3. d \in Inodes(table') /\ table'.ino[d].path = table.ino[d].path
    BY <1>3, <2>1 DEF IsDir, Has, Grows, TableTyped
  <2>4. /\ x.ino \in Inodes(table') /\ table'.ino[x.ino].nlink > 0 /\ table'.ino[x.ino].parent = d
        /\ table'.ino[x.ino].path = x.name
    BY <2>2, <2>3 DEF ChildrenTell
  <2>5. x.ino # RootIno
    BY <2>2 DEF RootStays, IsFile
  <2>6. Up[table'.ino[x.ino].path] \in round.ok
    BY <2>2, <2>3, <2>4, <2>5 DEF Below, Has
  <2>7. Right(table', x.ino)
    BY <1>3, <2>4, <2>6 DEF CleanFiles, Linked, Has
  <2> QED BY <2>4, <2>7 DEF Right
<1> QED BY <1>4, <1>5, <1>6, <1>7, <1>8, <1>9, <1>10 DEF Kept, Seen

\* No round is under way while the task connects or streams.
LEMMA EventChangesKept ==
    ASSUME IInv, IInv', Seen, NEW to \in 1..MaxRev, EventChanges(to) PROVE Kept
<1>1. UNCHANGED <<log, call, refs, commit, round>>
  BY DEF EventChanges, kernel
<1>2. round.pc = "idle"
  BY DEF EventChanges, Streaming, Seen, RoundTells
<1>3. Grows(table, table') /\ \E E : Modest(table, table', E) /\ \A i \in E : Excused(i)
  BY EventChangesStep
<1>4. \A i \in Ino : commit'[i] \in {None, commit[i]}
  BY <1>1
<1>5. Answered
  BY <1>1 DEF Answered
<1> QED BY <1>1, <1>2, <1>3, <1>4, <1>5, Continues
LEMMA FeedKept ==
    ASSUME IInv, IInv', Seen, UNCHANGED vars, feed' = feed \/ round.pc = "idle" PROVE Kept
<1>1. UNCHANGED <<log, table, call, refs, commit, round>>
  BY DEF vars, kernel
<1>2. Honest(table, table', {})
  BY <1>1, HonestItself
<1>3. Grows(table, table') /\ \A i \in Ino : commit'[i] \in {None, commit[i]}
  BY <1>1, StaysPut
<1>4. Answered
  BY <1>1 DEF Answered
<1> QED BY <1>1, <1>2, <1>3, <1>4, Continues DEF Honest
LEMMA SessionKept ==
    ASSUME IInv, IInv', Seen,
           \/ FollowResume \/ FollowConnect \/ FollowUnusable \/ FollowRefused \/ FollowConnectFails
           \/ EventReady \/ EventReset \/ EventReconnect \/ StreamEnds
    PROVE  Kept
<1>1. UNCHANGED vars
  BY DEF OnlyFeed, FollowResume, FollowConnect, FollowUnusable, FollowRefused, FollowConnectFails,
         EventReady, EventReset, EventReconnect, StreamEnds
<1>2. Idle \/ (feed.mode = "follow" /\ feed.at # "resume")
  BY DEF FollowResume, FollowConnect, FollowUnusable, FollowRefused, FollowConnectFails,
         EventReady, EventReset, EventReconnect, StreamEnds, Streaming
<1>3. round.pc = "idle"
  BY <1>2 DEF Idle, Seen, RoundTells
<1> QED BY <1>1, <1>3, FeedKept

\* The steps of a round before it is applied.
LEMMA RoundKept ==
    ASSUME IInv, IInv', Seen, UNCHANGED RoundVars, RoundTells', round.pc # "apply" PROVE Kept
<1>1. UNCHANGED <<log, table, call, refs, commit>>
  BY DEF RoundVars, kernel
<1>2. HubIsTree' /\ Hub' = Hub /\ \A q : ListTree(q)' = ListTree(q)
  BY <1>1, HubStays DEF Seen
<1>3. CallsAsked'
  BY <1>1, StaysPut, AskedOn DEF Seen, Answered
<1>4. CommitsTell' /\ RefsCounted'
  BY <1>1, <1>2 DEF Seen, CommitsTell, RefsCounted, Referred
<1>5. NamesStay /\ Reconciled
  BY <1>1 DEF NamesStay, Reconciled
<1> QED BY <1>2, <1>3, <1>4, <1>5 DEF Kept, Seen
LEMMA StartRoundKept ==
    ASSUME IInv, IInv', Seen, UNCHANGED RoundVars, StartRound, Idle,
           feed'.mode = "follow" => feed'.at = "resume"
    PROVE  Kept
<1>1. LoadedDirs(table) \subseteq Path \cup {Root}
  BY SoundTyped DEF IInv, TableOK, TableTyped, EntryOK, LoadedDirs, Inodes
<1>2. round' = [NoRound EXCEPT !.pc = "list", !.todo = LoadedDirs(table)]
  BY DEF StartRound
<1>3. /\ round'.pc = "list" /\ round'.todo = LoadedDirs(table) /\ round'.ok = {} /\ round'.failed = {} /\ round'.entries = {}
  BY <1>2 DEF NoRound
<1>4. RoundTells'
  BY <1>1, <1>3 DEF RoundTells
<1> QED BY <1>4, RoundKept DEF Idle
LEMMA ProbesKept ==
    ASSUME IInv, IInv', Seen, PollStep \/ FollowProbe PROVE Kept
<1>1. CASE PollStep
  <2>1. UNCHANGED RoundVars /\ StartRound /\ Idle /\ feed'.mode = "poll"
    BY <1>1 DEF PollStep, PollProbe, PollProbeFails, RoundVars, IInv, FeedOK
  <2> QED BY <2>1, StartRoundKept
<1>2. CASE FollowProbe
  <2>1. UNCHANGED RoundVars /\ Idle /\ feed.at = "resume"
    BY <1>2 DEF FollowProbe
  <2>2. CASE UNCHANGED round
    <3>1. UNCHANGED vars
      BY <2>1, <2>2 DEF RoundVars, vars, kernel
    <3> QED BY <2>1, <3>1, FeedKept DEF Idle
  <2>3. CASE feed' = [feed EXCEPT !.probed = Rev] /\ StartRound
    <3>1. feed'.at = "resume"
      BY <2>1, <2>3 DEF IInv, FeedOK
    <3> QED BY <2>1, <2>3, <3>1, StartRoundKept
  <2> QED BY <1>2, <2>2, <2>3 DEF FollowProbe
<1> QED BY <1>1, <1>2
LEMMA RoundListKept ==
    ASSUME IInv, IInv', Seen, NEW q \in Path \cup {Root}, RoundList(q) \/ RoundListFails(q) PROVE Kept
<1>1. /\ UNCHANGED RoundVars /\ UNCHANGED feed /\ UNCHANGED log /\ round.pc = "list" /\ round'.pc = "list" /\ RoundTells
      /\ round'.todo = round.todo \ {q}
  BY DEF RoundList, RoundListFails, RoundVars, Seen, IInv, RoundOK
<1>2. \A x : ListTree(x)' = ListTree(x)
  BY <1>1, HubStays
<1>3. CASE RoundList(q)
  <2>1. round'.ok = round.ok \cup {q} /\ round'.failed = round.failed /\ round'.entries = round.entries \cup ListTree(q)
    BY <1>3 DEF RoundList, IInv, RoundOK
  <2>2. round.entries = UNION {ListTree(x) : x \in round.ok}
    BY <1>1 DEF RoundTells
  <2>3. round'.entries = UNION {ListTree(x) : x \in round'.ok}
    BY <2>1, <2>2
  <2>4. (UNION {ListTree(x) : x \in round.ok})' = UNION {ListTree(x) : x \in round'.ok}
    BY <1>2
  <2>5. RoundTells'
    BY <1>1, <2>1, <2>3, <2>4 DEF RoundTells
  <2> QED BY <1>1, <2>5, RoundKept
<1>4. CASE RoundListFails(q)
  <2>1. round'.ok = round.ok /\ round'.failed = round.failed \cup {q} /\ round'.entries = round.entries
    BY <1>4 DEF RoundListFails, IInv, RoundOK
  <2>2. round.entries = UNION {ListTree(x) : x \in round.ok}
    BY <1>1 DEF RoundTells
  <2>4. (UNION {ListTree(x) : x \in round.ok})' = UNION {ListTree(x) : x \in round'.ok}
    BY <1>2
  <2>5. RoundTells'
    BY <1>1, <2>1, <2>2, <2>4 DEF RoundTells
  <2> QED BY <1>1, <2>5, RoundKept
<1> QED BY <1>3, <1>4

\* The equation that defines Polled has a solution: the least set that has the
\* directories that were listed and goes down the failed ones that are gone.
LEMMA PolledIs ==
    \A q \in Path \cup {Root} : q \in Polled <=>
       \/ q \in round.ok
       \/ q \in round.failed /\ q # Root /\ Up[q] \in Polled /\ [path |-> q, hash |-> None] \notin round.entries
<1> DEFINE P == Path \cup {Root}
           Down(q) == q \in round.failed /\ q # Root /\ [path |-> q, hash |-> None] \notin round.entries
           Closing(T) == \A q \in P : q \in round.ok \/ (Down(q) /\ Up[q] \in T) => q \in T
           L == {q \in P : \A T \in SUBSET P : Closing(T) => q \in T}
           g == [q \in P |-> q \in L]
           rec(f) == [q \in P |-> \/ q \in round.ok
                                  \/ /\ q \in round.failed /\ q # Root
                                     /\ f[Up[q]]
                                     /\ [path |-> q, hash |-> None] \notin round.entries]
           s == CHOOSE f : f = rec(f)
<1>0. \A q \in P : q # Root => Up[q] \in P
  BY PathAssumption
<1>1. ASSUME NEW q \in P PROVE q \in L <=> q \in round.ok \/ (Down(q) /\ Up[q] \in L)
  <2> HIDE DEF Down
  <2>1. ASSUME NEW x \in P, x \in round.ok \/ (Down(x) /\ Up[x] \in L) PROVE x \in L
    BY <2>1
  <2> DEFINE T == {x \in P : x \in round.ok \/ (Down(x) /\ Up[x] \in L)}
  <2>2. T \subseteq L /\ T \in SUBSET P
    BY <2>1
  <2>3. Closing(T)
    <3> HIDE DEF L
    <3> QED BY <2>2
  <2>4. q \in L => q \in T
    <3> HIDE DEF T, Closing
    <3> QED BY <2>2, <2>3
  <2> HIDE DEF L
  <2> QED BY <2>1, <2>4
<1>2. g = rec(g)
  <2>1. ASSUME NEW q \in P
        PROVE  (q \in L) = (\/ q \in round.ok
                            \/ /\ q \in round.failed /\ q # Root
                               /\ g[Up[q]]
                               /\ [path |-> q, hash |-> None] \notin round.entries)
    <3> DEFINE b == g[Up[q]]
    <3>1. q # Root => (b <=> Up[q] \in L)
      BY <1>0
    <3> HIDE DEF L, g, b
    <3>2. (q \in L) <=> (\/ q \in round.ok
                        \/ /\ q \in round.failed /\ q # Root
                           /\ b
                           /\ [path |-> q, hash |-> None] \notin round.entries)
      BY <1>1, <3>1
    <3>3. (q \in L) = (\/ q \in round.ok
                      \/ /\ q \in round.failed /\ q # Root
                         /\ b
                         /\ [path |-> q, hash |-> None] \notin round.entries)
      BY ONLY <3>2
    <3> QED BY <3>3 DEF b
  <2> HIDE DEF L
  <2> QED BY <2>1
<1>3. \E f : f = rec(f)
  <2> HIDE DEF g, rec
  <2> QED BY <1>2
<1>4. Polled = {q \in P : s[q]}
  BY DEF Polled
<1>5. s = rec(s)
  <2> HIDE DEF g, rec
  <2> QED BY <1>3
<1> HIDE DEF s
<1>6. \A q \in P : s[q] = rec(s)[q]
  <2> HIDE DEF rec
  <2> QED BY <1>5
<1>7. \A q \in P : q # Root => (Up[q] \in Polled <=> s[Up[q]])
  BY <1>0, <1>4
<1> QED BY <1>4, <1>6, <1>7

\* A directory that counts as listed was listed, or is gone.
LEMMA PolledTells ==
    ASSUME HubIsTree, round.ok \subseteq Path \cup {Root}, round.entries = UNION {ListTree(q) : q \in round.ok}
    PROVE  /\ round.ok \subseteq Polled
           /\ \A q \in Polled : q \in round.ok \/ ~IsHubDir(q)
<1> DEFINE S == {q \in Path : q \in Polled => q \in round.ok \/ ~IsHubDir(q)}
<1>0. round.ok \subseteq Polled /\ Polled \subseteq Path \cup {Root} /\ Root \notin Path
  BY PolledIs, PathAssumption DEF Polled
<1>1. ASSUME NEW q \in Path, Up[q] = Root \/ Up[q] \in S PROVE q \in S
  <2> SUFFICES ASSUME q \in Polled, q \notin round.ok, IsHubDir(q) PROVE FALSE
    BY <1>1
  <2>1. Up[q] \in Polled /\ [path |-> q, hash |-> None] \notin round.entries
    BY PolledIs
  <2>2. CASE Up[q] \in round.ok
    <3>1. [path |-> q, hash |-> None] \in ListTree(Up[q])
      BY ListTreeSays
    <3> QED BY <2>1, <2>2, <3>1
  <2>3. CASE Up[q] \notin round.ok
    <3>1. Up[q] # Root
      BY <2>1, <2>3, PolledIs
    <3>2. Up[q] \in Path /\ ~IsHubDir(Up[q])
      BY <1>1, <2>1, <2>3, <3>1
    <3>3. PICK p \in Path : q \in Ancestors[p] /\ Hub[p] # None
      BY <1>0 DEF IsHubDir
    <3>4. Up[q] \in Ancestors[p]
      BY <3>3, AncestorsClimb
    <3> QED BY <3>2, <3>3, <3>4 DEF IsHubDir
  <2> QED BY <2>2, <2>3
<1>2. Path \subseteq S
  <2> HIDE DEF S
  <2> QED BY <1>1, DownTheTree
<1>3. Root \in Polled => Root \in round.ok
  BY PolledIs
<1> QED BY <1>0, <1>2, <1>3

LEMMA RoundDiffKept == ASSUME IInv, IInv', Seen, RoundDiff PROVE Kept
<1> DEFINE files == {e \in round.entries : e.hash # None}
           clean == {i \in Inodes(table) : IsFile(table, i) /\ ~table.ino[i].dirty}
           remoteOf(i) == {e \in files : e.path = table.ino[i].path}
           changed == {j \in clean : \E e \in remoteOf(j) : e.hash # table.ino[j].hash}
           f(i) == [ino |-> i, hash |-> (CHOOSE e \in remoteOf(i) : TRUE).hash]
           deletions == {i \in clean : remoteOf(i) = {} /\ Up[table.ino[i].path] \in Polled}
<1>1. /\ UNCHANGED RoundVars /\ UNCHANGED feed /\ UNCHANGED log /\ UNCHANGED table /\ round.pc = "list" /\ RoundTells
      /\ HubIsTree /\ Sound(table) /\ TableTyped(table) /\ RootStays(table) /\ Below(table) /\ RoundOK
  BY SoundTyped, Facts DEF RoundDiff, RoundVars, Seen, IInv, TableOK, Sound
<1>2. round' = [round EXCEPT !.pc = "apply", !.updates = {f(i) : i \in changed}, !.deletions = deletions]
  BY DEF RoundDiff
<1>3. /\ round'.updates = {f(i) : i \in changed} /\ round'.deletions = deletions /\ round'.pc = "apply"
      /\ round'.ok = round.ok /\ round'.failed = round.failed /\ round'.todo = round.todo /\ round'.entries = round.entries
  <2> HIDE DEF f, changed, deletions
  <2> QED BY <1>1, <1>2 DEF RoundOK
<1>4. /\ round.entries = UNION {ListTree(q) : q \in round.ok} /\ round.ok \subseteq Path \cup {Root}
      /\ \A e \in round.entries : e.path \in Path /\ e.hash = Hub[e.path]
  BY <1>1, ListTreeHashes DEF RoundTells
<1>5. round.ok \subseteq Polled /\ \A q \in Polled : q \in round.ok \/ ~IsHubDir(q)
  BY <1>1, <1>4, PolledTells
<1>6. ASSUME NEW i \in clean PROVE table.ino[i].path \in Path /\ i < table.next
  BY <1>1 DEF IsFile, RootStays, Below, TableTyped
<1>7. ASSUME NEW i \in changed PROVE f(i).ino = i /\ f(i).hash = Hub[table.ino[i].path]
  <2>1. (CHOOSE e \in remoteOf(i) : TRUE) \in remoteOf(i)
    BY AnyOne
  <2> QED BY <1>4, <2>1
<1>8. ASSUME NEW i \in deletions PROVE Hub[table.ino[i].path] = None
  <2> DEFINE p == table.ino[i].path
  <2>1. p \in Path /\ remoteOf(i) = {} /\ Up[p] \in Polled
    BY <1>6
  <2>2. CASE Up[p] \in round.ok
    <3>1. Hub[p] # None => [path |-> p, hash |-> Hub[p]] \in ListTree(Up[p])
      BY <1>1, <2>1, ListTreeSays
    <3>2. Hub[p] # None => [path |-> p, hash |-> Hub[p]] \in round.entries
      BY <1>4, <2>2, <3>1
    <3> QED BY <2>1, <3>2
  <2>3. CASE ~IsHubDir(Up[p])
    BY <2>1, <2>3, AncestorsClimb DEF IsHubDir
  <2> QED BY <1>5, <2>1, <2>2, <2>3
<1>9. ASSUME NEW i \in CleanFiles(table), Up[table.ino[i].path] \in round.ok
      PROVE  Right(table, i) \/ i \in deletions \/ i \in changed
  <2>1. i \in clean
    BY <1>9 DEF CleanFiles
  <2>2. CASE remoteOf(i) = {}
    BY <1>5, <1>9, <2>1, <2>2
  <2>3. ASSUME NEW e \in remoteOf(i) PROVE Right(table, i) \/ i \in changed
    BY <1>4, <2>1, <2>3 DEF Right
  <2> QED BY <2>2, <2>3
<1>10. RoundFound'
  <2>1. Hub' = Hub /\ \A q : ListTree(q)' = ListTree(q)
    BY <1>1, HubStays
  <2>2. \A i \in changed : i \in clean
    OBVIOUS
  <2>3. \A i \in deletions : Has(table, i)
    BY DEF Has
  <2>4. \A x \in round'.updates : x.ino < table.next /\ (Has(table, x.ino) => x.hash = Hub[table.ino[x.ino].path])
    <3> HIDE DEF f, changed, deletions, clean
    <3> QED BY <1>3, <1>6, <1>7, <2>2
  <2>5. \A i \in CleanFiles(table) : Up[table.ino[i].path] \in round'.ok =>
          Right(table, i) \/ i \in round'.deletions \/ \E x \in round'.updates : x.ino = i
    <3> HIDE DEF f, changed, deletions, clean
    <3> QED BY <1>3, <1>7, <1>9
  <2>6. \A i \in round'.deletions : Has(table, i) => Hub[table.ino[i].path] = None
    <3> HIDE DEF f, changed, deletions, clean
    <3> QED BY <1>3, <1>8
  <2> HIDE DEF f, changed, deletions, clean
  <2> QED BY <1>1, <2>1, <2>4, <2>5, <2>6 DEF RoundFound, CleanFiles, Right, IsFile, Linked, Has
<1>11. RoundTells'
  <2>1. \A q : ListTree(q)' = ListTree(q)
    BY <1>1, HubStays
  <2>2. (UNION {ListTree(q) : q \in round.ok})' = UNION {ListTree(q) : q \in round'.ok}
    BY <2>1
  <2> HIDE DEF f, changed, deletions, clean
  <2> QED BY <1>1, <1>3, <1>4, <1>10, <2>2 DEF RoundTells
<1> QED BY <1>1, <1>11, RoundKept

-----------------------------------------------------------------------------
(* The theorems.                                                           *)

\* None of the three events by which an answer of the Hub, or a name, is used
\* on an inode that is not the one it was looked up for.
Replacing == {"head_404_in_use", "orphan_name", "unlink_replaced"}
NoReplacing == \A k \in Case : k.events \cap Replacing = {}

LEMMA EmptyTableSound == Sound(EmptyTable) /\ Inodes(EmptyTable) = {RootIno} /\ EmptyTable.next = 2
                         /\ EmptyTable.ino[RootIno].open = 0
<1> DEFINE t == EmptyTable
           e == NewEntry("dir", Root, RootIno, None)
<1>1. /\ DOMAIN t = {"ino", "path", "next"} /\ Inodes(t) = {RootIno} /\ t.ino[RootIno] = e /\ t.next = 2
      /\ DOMAIN t.path = {Root} /\ t.path[Root] = RootIno
  BY DEF EmptyTable, Inodes
<1>2. /\ DOMAIN e = Fields /\ e.kind = "dir" /\ e.path = Root /\ e.parent = RootIno /\ e.hash = None
      /\ e.dirty = FALSE /\ e.nlink = 1 /\ e.nlookup = 0 /\ e.open = 0 /\ e.children = {} /\ DOMAIN e.index = {}
  <2>1. /\ e.kind = "dir" /\ e.path = Root /\ e.parent = RootIno /\ e.hash = None /\ e.dirty = FALSE
        /\ e.nlink = 1 /\ e.nlookup = 0 /\ e.open = 0 /\ e.children = {}
    BY DEF NewEntry
  <2>2. DOMAIN e.index = {}
    BY DEF NewEntry
  <2>3. DOMAIN e = Fields
    BY DEF NewEntry, Fields
  <2> QED BY <2>1, <2>2, <2>3
<1>3. EntryOK(e)
  <2> HIDE DEF e
  <2>1. None \in 0..MaxRev /\ RootIno \in Nat /\ 1 \in 0..1 /\ 0 \in Nat
    BY BoundsAssumption DEF None, RootIno
  <2> QED BY <1>2, <2>1 DEF EntryOK
<1> HIDE DEF t, e
<1>4. TableTyped(t)
  BY <1>1, <1>3 DEF TableTyped, RootIno
<1>5. RootStays(t) /\ Below(t) /\ Kinds(t) /\ OrphansOpenBut(t, None)
  BY <1>1, <1>2 DEF RootStays, Below, Kinds, OrphansOpenBut
<1>6. ChildrenTell(t)
  BY <1>1, <1>2 DEF ChildrenTell
<1>7. LinkedTell(t) /\ PathsTell(t)
  BY <1>1, <1>2 DEF LinkedTell, PathsTell
<1>8. Sound(t)
  BY <1>4, <1>5, <1>6, <1>7, FromFacts DEF Sound
<1> QED BY <1>1, <1>2, <1>8 DEF t

LEMMA SeqOfSet ==
    ASSUME NEW S, IsFiniteSet(S)
    PROVE  SetToSeq(S) \in [1..Cardinality(S) -> S] /\ Cardinality(S) \in Nat
<1>1. Cardinality(S) \in Nat /\ ExistsBijection(1..Cardinality(S), S)
  BY FS_CardinalityType
<1>2. \E f \in [1..Cardinality(S) -> S] : IsInjective(f)
  BY <1>1 DEF ExistsBijection, Bijection, Injection
<1> QED BY <1>1, <1>2 DEF SetToSeq

LEMMA InitFine == ASSUME FeedInit PROVE IInv
<1>1. case \in Case
  BY DEF FeedInit, Init
<1> DEFINE s == SetToSeq(case.initial)
           n == Cardinality(case.initial)
<1>2. IsFiniteSet(case.initial) /\ n <= MaxRev /\ case.initial \subseteq Path /\ case.feed \in {"follow", "poll"}
  BY <1>1, CaseAssumption
<1>3. s \in [1..n -> case.initial] /\ n \in Nat
  BY <1>2, SeqOfSet
<1>4. log = [m \in DOMAIN s |-> [path |-> s[m], hash |-> m]]
  BY DEF FeedInit, Init
<1> HIDE DEF s, n
<1>5. HubOK
  <2>1. log \in [1..n -> Answers]
    <3>1. \A m \in 1..n : [path |-> s[m], hash |-> m] \in Answers
      BY <1>2, <1>3, BoundsAssumption DEF Answers
    <3> QED BY <1>3, <1>4, <3>1
  <2>2. log \in Seq(Answers) /\ Len(log) = n
    BY <1>3, <2>1
  <2> QED BY <1>1, <1>2, <2>2 DEF HubOK, Rev
<1>6. /\ table = EmptyTable /\ neg = {} /\ call = [c \in Client |-> NoCall] /\ dirlock = {} /\ sweep = {}
      /\ refs = [i \in Ino |-> IF i = RootIno THEN 1 ELSE 0] /\ opens = [i \in Ino |-> 0]
      /\ commit = [i \in Ino |-> None] /\ round = NoRound
  BY DEF FeedInit, Init
<1>7. TableOK /\ TableTyped(table) /\ Inodes(table) = {RootIno} /\ table.ino[RootIno].open = 0
  BY <1>6, EmptyTableSound, SoundTyped, BoundsAssumption DEF TableOK
<1>8. CallsOK
  <2>1. NoCall.op = "none"
    BY DEF NoCall
  <2> QED BY <1>6, <1>7, <2>1, NoCallFine DEF CallsOK, Creating
<1>9. KernelOK
  BY <1>6, <1>7, BoundsAssumption DEF KernelOK, None, RootIno, Ino
<1>10. RoundOK
  <2>1. IsFiniteSet({})
    BY FS_EmptySet
  <2> QED BY <1>6, <2>1 DEF RoundOK, NoRound
<1>11. SetsOK
  BY <1>6 DEF SetsOK
<1>12. FeedOK
  <2>1. PICK last \in {Rev, NoRev} :
          feed = [mode |-> case.feed, at |-> "resume", resume |-> "since", cursor |-> 0,
                  last |-> last, probed |-> last, skip |-> last # NoRev,
                  pos |-> 0, ready |-> FALSE, dead |-> 0]
    BY DEF FeedInit
  <2>2. last \in 0..MaxRev + 1 /\ 0 \in 0..MaxRev
    BY <1>5, HubTyped, BoundsAssumption DEF NoRev
  <2> QED BY <1>2, <2>1, <2>2 DEF FeedOK
<1> QED BY <1>5, <1>7, <1>8, <1>9, <1>10, <1>11, <1>12 DEF IInv

LEMMA NextFine == ASSUME NoReplacing, IInv, Next PROVE IInv' /\ LocalStep
<1>0. ~On("head_404_in_use") /\ ~On("orphan_name") /\ ~On("unlink_replaced")
  BY DEF NoReplacing, Replacing, On, IInv, HubOK
<1>1. CASE FeedStep
  <2>1. CASE RoundStep
    BY <1>0, <2>1, RoundListStep, RoundDiffStep, RoundApplyStep DEF RoundStep
  <2> QED BY <1>1, <2>1, PollStepFine, FollowStepFine, EventStepFine DEF FeedStep
<1>2. CASE Users /\ UNCHANGED feed
  BY <1>2, RemoteChangeStep, NegExpireStep, ReaddirStep, LookupStep, CallOnStep, OpenStep, OpenTruncateStep,
     CloseStep, ForgetDropStep, SweepStartStep DEF Users
<1>3. CASE VfsStep /\ UNCHANGED feed
  <2>1. ASSUME NEW c \in Client, CallStep(c) PROVE IInv' /\ LocalStep
    <3>1. CASE \/ Reply(c) \/ RevalidateSkip(c) \/ RevalidateHead(c) \/ RevalidateApply(c)
               \/ Probe(c) \/ MissList(c) \/ NegInsert(c) \/ InsertFile(c) \/ InsertDir(c)
      BY <1>0, <1>3, <3>1, ReplyStep, RevalidateSkipStep, RevalidateHeadStep, RevalidateApplyStep, ProbeStep,
         MissListStep, NegInsertStep, InsertFileStep, InsertDirStep
    <3>2. CASE Load(c) \/ ListDir(c) \/ Install(c) \/ LookupLoaded(c) \/ ReaddirLoaded(c)
      BY <1>3, <3>2, LoadStep, ListDirStep, InstallStep, LookupLoadedStep, ReaddirLoadedStep
    <3>3. CASE CreateInsert(c) \/ CreateOpen(c) \/ Mkdir(c) \/ MkdirAttr(c)
      BY <1>3, <3>3, CreateInsertStep, CreateOpenStep, MkdirStep, MkdirAttrStep
    <3>4. CASE UnlinkCheck(c) \/ UnlinkRemote(c) \/ UnlinkLocal(c) \/ ForgetEvict(c)
      BY <1>0, <1>3, <3>4, UnlinkCheckStep, UnlinkRemoteStep, UnlinkLocalStep, ForgetEvictStep
    <3> QED BY <2>1, <3>1, <3>2, <3>3, <3>4 DEF CallStep
  <2>2. ASSUME NEW i \in Ino, InodeStep(i) PROVE IInv' /\ LocalStep
    BY <1>3, <2>2, CommitHubStep, CommitApplyStep, ReleaseStep DEF InodeStep
  <2> QED BY <1>3, <2>1, <2>2, SweepEvictStep DEF VfsStep
<1> QED BY <1>1, <1>2, <1>3 DEF Next

LEMMA Stutters == ASSUME IInv, UNCHANGED allvars PROVE IInv' /\ LocalStep
<1>1. UNCHANGED vars /\ FeedOK'
  BY DEF allvars, IInv, FeedOK
<1> QED BY <1>1, FeedCloses

LEMMA Inductive == ASSUME NoReplacing PROVE Spec => []IInv
<1>1. FeedInit => IInv
  BY InitFine
<1>2. IInv /\ [Next]_allvars => IInv'
  BY NextFine, Stutters
<1> QED BY <1>1, <1>2, PTL DEF Spec

LEMMA SeenInit == ASSUME FeedInit PROVE Seen
<1> DEFINE s == SetToSeq(case.initial)
           n == Cardinality(case.initial)
<1>0. IInv
  BY InitFine
<1>1. /\ case \in Case /\ log = [m \in DOMAIN s |-> [path |-> s[m], hash |-> m]] /\ table = EmptyTable
      /\ call = [c \in Client |-> NoCall] /\ refs = [i \in Ino |-> IF i = RootIno THEN 1 ELSE 0]
      /\ commit = [i \in Ino |-> None] /\ round = NoRound
  BY DEF FeedInit, Init
<1>2. IsFiniteSet(case.initial) /\ \A p, q \in case.initial : p \notin Ancestors[q]
  BY <1>1, CaseAssumption
<1>3. s \in [1..n -> case.initial] /\ n \in Nat
  BY <1>2, SeqOfSet
<1> HIDE DEF s, n
<1>4. HubIsTree
  <2>1. Rev = n /\ \A m \in 1..Rev : log[m].path \in case.initial
    <3>1. log \in Seq([path : case.initial, hash : Nat]) /\ DOMAIN log = 1..n
      BY <1>1, <1>3
    <3>2. Len(log) = n
      BY <1>3, <3>1
    <3> QED BY <1>1, <1>3, <3>2 DEF Rev
  <2>2. ASSUME NEW p \in Path, Hub[p] # None PROVE p \in case.initial
    <3> DEFINE of == {m \in 1..Rev : log[m].path = p}
    <3>1. of # {}
      BY <2>2 DEF Hub
    <3> QED BY <2>1, <3>1
  <2> QED BY <1>2, <2>2 DEF HubIsTree
<1>5. CallsAsked
  <2>1. NoCall.pc \notin Asking
    BY DEF NoCall, Asking
  <2> QED BY <1>1, <2>1, NotAsking DEF CallsAsked
<1>6. CommitsTell
  BY <1>1 DEF CommitsTell
<1>7. RefsCounted
  BY <1>1, EmptyTableSound DEF RefsCounted, Referred, RootIno
<1>8. RoundTells
  BY <1>1 DEF RoundTells, NoRound
<1> QED BY <1>4, <1>5, <1>6, <1>7, <1>8 DEF Seen

LEMMA NextKept == ASSUME NoReplacing, IInv, IInv', Next, InTime, Seen PROVE Kept
<1>0. ~On("head_404_in_use") /\ ~On("orphan_name") /\ ~On("unlink_replaced")
  BY DEF NoReplacing, Replacing, On, IInv, HubOK
<1>1. CASE FeedStep
  <2>1. CASE RoundStep
    BY <1>0, <2>1, RoundListKept, RoundDiffKept, RoundApplyKept DEF RoundStep
  <2>2. CASE PollStep \/ FollowStep
    BY <2>2, ProbesKept, SessionKept DEF FollowStep
  <2>3. CASE EventStep
    BY <2>3, SessionKept, EventChangesKept DEF EventStep
  <2> QED BY <1>1, <2>1, <2>2, <2>3 DEF FeedStep
<1>2. CASE Users /\ UNCHANGED feed
  <2>0. feed' = feed
    BY <1>2
  <2>1. ASSUME NEW p \in Path, RemoteChange(p) \/ NegExpire(p) PROVE Kept
    BY <2>0, <2>1, RemoteChangeKept, AsideKept
  <2>2. ASSUME NEW c \in Client, NEW d \in Inodes(table),
               \/ Readdir(c, d)
               \/ \E p \in Path : Lookup(c, d, p) \/ \E op \in DirOps : CallOn(c, d, p, op)
        PROVE  Kept
    BY <2>0, <2>2, ReaddirKept, LookupKept, CallOnKept
  <2>3. ASSUME NEW i \in Ino, Open(i) \/ OpenTruncate(i) \/ Close(i) \/ \E c \in Client : ForgetDrop(c, i) PROVE Kept
    BY <2>0, <2>3, OpensKept, AsideKept, ForgetDropKept
  <2>4. ASSUME NEW S \in SUBSET Ino, SweepStart(S) PROVE Kept
    BY <2>0, <2>4, AsideKept
  <2> QED BY <1>2, <2>1, <2>2, <2>3, <2>4 DEF Users
<1>3. CASE VfsStep /\ UNCHANGED feed
  <2>0. feed' = feed
    BY <1>3
  <2>1. ASSUME NEW c \in Client, CallStep(c) PROVE Kept
    <3>1. CASE \/ Reply(c) \/ RevalidateSkip(c) \/ RevalidateHead(c) \/ RevalidateApply(c)
               \/ Probe(c) \/ MissList(c) \/ NegInsert(c) \/ InsertFile(c) \/ InsertDir(c)
      BY <1>0, <2>0, <3>1, ReplyKept, QuietKept, RevalidateHeadKept, RevalidateApplyKept, ProbeKept, InsertFileKept,
         InsertDirKept
    <3>2. CASE Load(c) \/ ListDir(c) \/ Install(c) \/ LookupLoaded(c) \/ ReaddirLoaded(c)
      BY <2>0, <3>2, QuietKept, ListDirKept, InstallKept
    <3>3. CASE CreateInsert(c) \/ CreateOpen(c) \/ Mkdir(c) \/ MkdirAttr(c)
      BY <2>0, <3>3, CreateInsertKept, CreateOpenKept, MkdirKept, QuietKept
    <3>4. CASE UnlinkCheck(c) \/ UnlinkRemote(c) \/ UnlinkLocal(c) \/ ForgetEvict(c)
      BY <1>0, <2>0, <3>4, QuietKept, UnlinkRemoteKept, UnlinkLocalKept, ForgetEvictKept
    <3> QED BY <2>1, <3>1, <3>2, <3>3, <3>4 DEF CallStep
  <2>2. ASSUME NEW i \in Ino, InodeStep(i) PROVE Kept
    BY <2>0, <2>2, CommitHubKept, CommitApplyKept, ReleaseKept DEF InodeStep
  <2> QED BY <1>3, <2>0, <2>1, <2>2, SweepEvictKept DEF VfsStep
<1> QED BY <1>1, <1>2, <1>3 DEF Next

\* The case of a behaviour does not change, and so neither does InTime.
LEMMA CaseStays == ASSUME Next PROVE case' = case
<1>1. CASE FeedStep
  <2>1. CASE RoundStep
    BY <2>1 DEF RoundStep, RoundList, RoundListFails, RoundDiff, RoundApply, RoundVars
  <2>2. CASE PollStep \/ FollowProbe
    BY <2>2 DEF PollStep, PollProbe, PollProbeFails, FollowProbe, RoundVars
  <2>3. CASE \/ FollowResume \/ FollowConnect \/ FollowUnusable \/ FollowRefused \/ FollowConnectFails
             \/ EventReady \/ EventReset \/ EventReconnect \/ StreamEnds
    BY <2>3 DEF OnlyFeed, vars, FollowResume, FollowConnect, FollowUnusable, FollowRefused, FollowConnectFails,
                EventReady, EventReset, EventReconnect, StreamEnds
  <2>4. ASSUME NEW to \in 1..MaxRev, EventChanges(to) PROVE case' = case
    BY <2>4 DEF EventChanges
  <2> QED BY <1>1, <2>1, <2>2, <2>3, <2>4 DEF FeedStep, FollowStep, EventStep
<1>2. CASE Users
  <2>1. ASSUME NEW c \in Client, NEW d, NEW p, NEW op,
               Readdir(c, d) \/ Lookup(c, d, p) \/ CallOn(c, d, p, op)
        PROVE  case' = case
    BY <2>1 DEF Readdir, Lookup, CallOn, Start, OnlyCall
  <2>2. ASSUME NEW p, RemoteChange(p) \/ NegExpire(p) PROVE case' = case
    BY <2>2 DEF RemoteChange, NegExpire
  <2>3. ASSUME NEW i, NEW c, Open(i) \/ OpenTruncate(i) \/ Close(i) \/ ForgetDrop(c, i) \/ SweepStart(i)
        PROVE  case' = case
    BY <2>3 DEF Open, OpenTruncate, Close, ForgetDrop, SweepStart
  <2> QED BY <1>2, <2>1, <2>2, <2>3 DEF Users
<1>3. CASE VfsStep
  <2>1. CASE SweepEvict
    BY <2>1 DEF SweepEvict
  <2>2. ASSUME NEW i \in Ino, InodeStep(i) PROVE case' = case
    BY <2>2 DEF InodeStep, CommitHub, CommitApply, Release
  <2>3. ASSUME NEW c \in Client, CallStep(c) PROVE case' = case
    BY <2>3 DEF CallStep, Reply, RevalidateSkip, RevalidateHead, RevalidateApply, Probe, MissList, NegInsert, InsertFile,
       InsertDir, Load, ListDir, Install, LookupLoaded, ReaddirLoaded, CreateInsert, CreateOpen, Mkdir, MkdirAttr,
       UnlinkCheck, UnlinkRemote, UnlinkLocal, ForgetEvict, OnlyCall, OnlyTable
  <2> QED BY <1>3, <2>1, <2>2, <2>3 DEF VfsStep
<1> QED BY <1>1, <1>2, <1>3 DEF Next

\* The steps of a behaviour in time, with SInv.
LEMMA StepKept == ASSUME NoReplacing, IInv, IInv', SInv, [Next]_allvars PROVE SInv' /\ (InTime => NamesStay /\ Reconciled)
<1>1. case' = case
  BY CaseStays DEF allvars, vars
<1>2. ASSUME InTime PROVE Kept
  <2>1. CASE Next
    BY <1>2, <2>1, NextKept DEF SInv
  <2>2. CASE UNCHANGED allvars
    BY <1>2, <2>2, FeedKept DEF SInv, allvars
  <2> QED BY <2>1, <2>2
<1>3. InTime' <=> InTime
  BY <1>1 DEF InTime, On
<1> QED BY <1>2, <1>3 DEF Kept, SInv

LEMMA InductiveInTime == ASSUME NoReplacing PROVE Spec => [](IInv /\ SInv)
<1>1. FeedInit => IInv /\ SInv
  BY InitFine, SeenInit DEF SInv
<1>2. IInv /\ SInv /\ [Next]_allvars => (IInv /\ SInv)'
  BY NextFine, Stutters, StepKept
<1> QED BY <1>1, <1>2, PTL DEF Spec

LEMMA InvariantTells == IInv => TableSound
<1> SUFFICES ASSUME IInv PROVE TableSound
  OBVIOUS
<1>1. HubOK /\ SetsOK /\ Sound(table) /\ TableTyped(table) /\ table.next <= MaxIno + 1 /\ CallsOK /\ KernelOK /\ FeedOK
      /\ Inodes(table) \subseteq Ino
  BY SoundTyped, InodesAreIno DEF IInv, TableOK
<1>2. TypeOK
  <2>1. case \in Case /\ log \in Seq([path : Path, hash : 0..MaxRev]) /\ Rev <= MaxRev
    BY <1>1 DEF HubOK, Answers
  <2>2. Inodes(table) \subseteq Ino /\ RootIno \in Inodes(table) /\ table.next \in 2..MaxIno + 1
    BY <1>1, BoundsAssumption DEF TableTyped, RootIno
  <2>3. \A i \in Inodes(table) :
         /\ table.ino[i].kind \in {"file", "dir"} /\ table.ino[i].path \in Path \cup {Root}
         /\ table.ino[i].hash \in 0..MaxRev /\ table.ino[i].nlink \in 0..1
         /\ table.ino[i].open \in Nat /\ table.ino[i].nlookup \in Nat
    BY <1>1 DEF TableTyped, EntryOK
  <2>4. \A c \in Client : call[c].op \in Calls /\ call[c].ino \in Ino \cup {None}
    BY <1>1 DEF CallsOK, CallFine
  <2> QED BY <1>1, <2>1, <2>2, <2>3, <2>4 DEF TypeOK, SetsOK, KernelOK, FeedOK
<1>3. TableConsistent
  BY <1>1 DEF Sound, SoundBut, TableConsistent
<1>4. OpenSurvives
  BY <1>1 DEF KernelOK, OpenSurvives, Has
<1> QED BY <1>2, <1>3, <1>4 DEF TableSound

\* After each step, in any interleaving of calls, rounds, stream events,
\* forgets and sweeps, the inode map, path_to_inode and the children lists of
\* inode.rs tell one story, and every inode the kernel has a descriptor of is
\* in the table, as long as nothing takes the name of an inode that another
\* has replaced.
THEOREM TableIsSound == ASSUME NoReplacing PROVE Spec => []TableSound
<1>1. IInv => TableSound
  BY InvariantTells
<1> QED BY <1>1, Inductive, PTL

\* "local writes take precedence until flushed" (remove_remote_file): no round,
\* event, revalidation, listing, eviction or forget of the code takes a dirty
\* file's name or its dirty mark, under the same condition.
THEOREM LocalWritesWin == ASSUME NoReplacing PROVE Spec => LocalWins
<1>1. IInv /\ [Next]_allvars => [LocalStep]_allvars
  BY NextFine
<1> QED BY <1>1, Inductive, PTL DEF Spec, LocalWins, LocalStep

GoneStep == \A i \in Ino : InTime /\ refs[i] > 0 /\ Linked(table, i) /\ ~Linked(table', i) =>
    LET p == table.ino[i].path
    IN  \/ IF IsFile(table, i) THEN Hub[p] = None ELSE ~IsHubDir(p)
        \/ \E n \in feed.pos + 1..feed'.pos : log[n] = [path |-> p, hash |-> None]
        \/ Unlinking(i)
\* A name that the kernel knows goes away only when the Hub no longer has it,
\* the stream says so, or unlink() removes it (remove_remote_file, the prune
\* of ensure_children_loaded, evict_if_safe), whatever lists, looks up,
\* forgets and sweeps meanwhile, and whichever listings fail.
THEOREM KnownNamesStay == ASSUME NoReplacing PROVE Spec => RemovedOnlyIfGone
<1>1. IInv /\ SInv /\ [Next]_allvars => [GoneStep]_allvars
  <2> SUFFICES ASSUME IInv, SInv, Next PROVE GoneStep
    OBVIOUS
  <2>1. InTime => NamesStay
    BY NextFine, StepKept
  <2> QED BY <2>1 DEF GoneStep, NamesStay, Gone, Excused, IsFile, Linked
<1> QED BY <1>1, InductiveInTime, PTL DEF Spec, RemovedOnlyIfGone, GoneStep

ReconcileStep == InTime /\ round.pc = "apply" /\ round' = NoRound =>
    \A d \in Inodes(table) :
       IsDir(table, d) /\ table.ino[d].path \in round.ok => ContentIsCurrent(table', d)
\* When a round of the poll loop or of the follow loop has been applied, the
\* clean files of every directory it listed are the Hub's (apply_poll_diff),
\* whatever has happened to the table since the round's snapshot.
THEOREM RoundsReconcile == ASSUME NoReplacing PROVE Spec => RoundReconciles
<1>1. IInv /\ SInv /\ [Next]_allvars => [ReconcileStep]_allvars
  <2> SUFFICES ASSUME IInv, SInv, Next PROVE ReconcileStep
    OBVIOUS
  <2>1. InTime => Reconciled
    BY NextFine, StepKept
  <2> QED BY <2>1 DEF ReconcileStep, Reconciled
<1> QED BY <1>1, InductiveInTime, PTL DEF Spec, RoundReconciles, ReconcileStep
=============================================================================
