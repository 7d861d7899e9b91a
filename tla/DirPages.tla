------------------------------- MODULE DirPages -------------------------------
(* Listing a directory page by page while it changes: by index (fuse.rs,   *)
(* readdir), after an inode (nfs.rs, readdir), or from a snapshot after a  *)
(* marker (windows/winfsp_fs.rs, read_directory; winfs/dirlist.rs).        *)
EXTENDS MountKind, Integers, Sequences, FiniteSets, SequencesExt

CONSTANTS Entry,        \* names, in the order of their code points
          Dot, DotDot   \* where "." and ".." are in that order
VARIABLES dir,   \* the children of the directory, in the order they came
          walk   \* one listing: the cookie or marker, the snapshot, what was returned
dirVars == <<dir, walk>>
Dots == <<Dot, DotDot>>

ASSUME DirAssumption == Entry \subseteq Nat /\ {Dot, DotDot} \subseteq Nat \ Entry /\ Dot # DotDot /\ NONE \notin Nat /\ Dot # 0

NoWalk == [at |-> "none", cookie |-> 0, marker |-> NONE, snap |-> <<>>, got |-> <<>>, stayed |-> {}]
DirInit == dir = SetToSeq(case.entries) /\ walk = NoWalk

\* add_child puts a child at the end; a removal keeps the order of the rest.
AddEntry(e) ==
    /\ e \notin ToSet(dir) /\ Len(dir) < case.most
    /\ dir' = Append(dir, e) /\ UNCHANGED walk
\* Someone removes an entry; what was there throughout is less.
RemoveEntry(e) ==
    /\ Happens("remove") /\ e \in ToSet(dir)
    /\ dir' = SelectSeq(dir, LAMBDA x : x # e)
    /\ walk' = [walk EXCEPT !.stayed = @ \ {e}]
OpenDir ==
    /\ walk.at = "none"
    /\ walk' = [NoWalk EXCEPT !.at = "open", !.stayed = ToSet(dir)]
    /\ UNCHANGED dir
FirstOf(s, n) == SubSeq(s, 1, IF Len(s) < n THEN Len(s) ELSE n)
Page(listing, skip) == FirstOf(SubSeq(listing, skip + 1, Len(listing)), case.page)
Returns(page, at) == [walk EXCEPT !.at = at, !.got = @ \o page, !.cookie = IF page = <<>> THEN @ ELSE @ + Len(page)]
\* FUSE: the entries after the index the kernel got to, until there are none.
PageByIndex ==
    LET page == Page(Dots \o dir, walk.cookie) IN
    /\ case.backend = "fuse" /\ walk.at = "open"
    /\ walk' = Returns(page, IF page = <<>> THEN "done" ELSE "open")
    /\ UNCHANGED dir
\* NFS: the entries after the inode of the last one, from the start when that
\* one is gone.
PageByInode ==
    LET all == Dots \o dir
        after == {k \in DOMAIN all : walk.got # <<>> /\ all[k] = Last(walk.got)}
        skip == IF after = {} THEN 0 ELSE CHOOSE k \in after : TRUE
    IN /\ case.backend = "nfs" /\ walk.at = "open"
       /\ walk' = Returns(Page(all, skip), IF skip + Len(Page(all, skip)) >= Len(all) THEN "done" ELSE "open")
       /\ UNCHANGED dir
\* Mutant: the dots are names like the others.
PageAfterByName(snap, marker) == IF marker = NONE THEN Dots \o snap ELSE SelectSeq(snap, LAMBDA n : n > marker)
\* page_after of a snapshot, for a directory that is not the root.
PageAfter(snap, marker) ==
    CASE marker = NONE -> Dots \o snap
      [] marker = Dot      -> <<DotDot>> \o snap
      [] marker = DotDot   -> snap
      [] OTHER             -> SelectSeq(snap, LAMBDA n : n > marker)
\* WinFsp: a snapshot taken when there is no marker, then what follows the
\* marker in it; a page that fills the buffer is not the last.
PageByMarker ==
    LET snap == IF walk.marker = NONE THEN SetToSortSeq(ToSet(dir), <) ELSE walk.snap
        rest == PageAfter(snap, walk.marker)
        page == FirstOf(rest, case.page)
    IN /\ case.backend = "winfsp" /\ walk.at = "open"
       /\ walk' = [Returns(page, IF page = rest THEN "done" ELSE "open") EXCEPT
                   !.snap = snap, !.marker = IF page = <<>> THEN @ ELSE Last(page)]
       /\ UNCHANGED dir
CloseDir == walk.at = "done" /\ walk' = NoWalk /\ UNCHANGED dir

DirNext == OpenDir \/ PageByIndex \/ PageByInode \/ PageByMarker \/ CloseDir \/ \E e \in Entry : AddEntry(e) \/ RemoveEntry(e)
-----------------------------------------------------------------------------
\* A finished listing has every entry that was there throughout, exactly once,
\* and no entry twice.
EachOnce == walk.at = "done" => ToSet(Dots) \cup walk.stayed \subseteq ToSet(walk.got) /\ Cardinality(ToSet(walk.got)) = Len(walk.got)
=============================================================================
