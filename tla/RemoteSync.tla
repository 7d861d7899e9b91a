----------------------------- MODULE RemoteSync -----------------------------
(***************************************************************************)
(* How the mount keeps its view of the Hub: lookup() with its HEAD probes  *)
(* and the negative cache, directory listings under the loading lock,      *)
(* per-file revalidation, the rounds of the poll loop, forget() and the    *)
(* LRU sweep (virtual_fs/mod.rs, poll.rs, inode.rs, the reply side of      *)
(* fuse.rs), while the kernel opens, creates, truncates, commits, unlinks  *)
(* and closes files in the default streaming mode and other clients change *)
(* the Hub.  A commit is two steps here; its own protocol is the subject   *)
(* of StreamingWrite.  RemoteFeed adds the loops that start the rounds.    *)
(***************************************************************************)
EXTENDS InodeTable, SequencesExt

CONSTANTS Client,     \* FUSE threads
          MaxRev,     \* changes of the Hub, ours included
          MaxIno,     \* inode numbers
          MaxRefs,    \* kernel references to one inode, and descriptors
          SoftLimit,  \* --inode-soft-limit
          Case        \* what the users of the mount and of the Hub do

\* A case bounds a behaviour: its threads, the names the kernel uses, the
\* files other clients have, at mount time and later, the operations and
\* events that happen, how many changes the Hub sees, and whether the mount
\* follows or polls.  No file lies below another.
ASSUME CaseAssumption == \A k \in Case :
    /\ k.clients \subseteq Client /\ k.names \cup k.files \subseteq Path /\ k.initial \subseteq k.files
    /\ IsFiniteSet(k.initial) /\ Cardinality(k.initial) <= MaxRev /\ k.feed \in {"follow", "poll"}
    /\ \A p, q \in k.initial : p \notin Ancestors[q]
ASSUME BoundsAssumption == MaxRev \in Nat /\ {MaxIno, MaxRefs} \subseteq Nat \ {0}

VARIABLES case,       \* the Case of this behaviour
          log,        \* the Hub's changes, [path, hash]; hash None for a deletion
          table,      \* inode_table
          neg,        \* negative_cache
          call,       \* the call each FUSE thread is in
          dirlock,    \* dir_loading_locks: directories being listed
          refs,       \* the kernel's references to an inode number
          opens,      \* the kernel's descriptors of an inode number
          commit,     \* a commit the Hub has made and the table not yet
          round,      \* the poll round
          sweep       \* the inodes lru_evict_sweep has invalidated

vars == <<case, log, table, neg, call, dirlock, refs, opens, commit, round, sweep>>
kernel == <<refs, opens>>

Ino == 1..MaxIno
On(event) == event \in case.events

NoCall == [pc |-> "idle", op |-> "none", dir |-> None, path |-> Root, ino |-> None,
           hash |-> None, ans |-> None, list |-> {}, fresh |-> FALSE]
NoRound == [pc |-> "idle", todo |-> {}, ok |-> {}, failed |-> {}, entries |-> {},
            updates |-> {}, deletions |-> {}]

\* The table at mount time: the root, not listed yet; the Hub has the
\* initial files.
Init ==
    /\ case \in Case
    /\ log = LET s == SetToSeq(case.initial) IN [n \in DOMAIN s |-> [path |-> s[n], hash |-> n]]
    /\ table = EmptyTable /\ neg = {}
    /\ call = [c \in Client |-> NoCall] /\ dirlock = {}
    /\ refs = [i \in Ino |-> IF i = RootIno THEN 1 ELSE 0]
    /\ opens = [i \in Ino |-> 0] /\ commit = [i \in Ino |-> None]
    /\ round = NoRound /\ sweep = {}

-----------------------------------------------------------------------------
(* The Hub.  Its revision is the number of its changes, and a content is   *)
(* named by the revision that brought it.                                  *)

Rev == Len(log)
Hub == [p \in Path |-> LET of == {n \in 1..Rev : log[n].path = p}
                       IN  IF of = {} THEN None ELSE log[Max(of)].hash]
IsHubDir(q) == q = Root \/ \E p \in Path : q \in Ancestors[p] /\ Hub[p] # None
HubTakes(p) == ~IsHubDir(p) /\ \A q \in Ancestors[p] \cap Path : Hub[q] = None
\* list_tree: what lies directly in q; a directory has no hash.
ListTree(q) == {[path |-> p, hash |-> Hub[p]] :
                p \in {x \in Path : Up[x] = q /\ (Hub[x] # None \/ IsHubDir(x))}}
Put(p, hash) == Rev < MaxRev /\ Rev < case.revs /\ log' = Append(log, [path |-> p, hash |-> hash])

\* A call or a round that holds an answer of the Hub it has not acted on.
InFlight == \/ \E c \in Client :
               \/ call[c].pc \in {"insert", "insert_dir", "neg", "install", "revalidate", "unlink_local"}
               \/ call[c].op \in {"lookup", "relookup"} /\ call[c].fresh
            \/ \E i \in Ino : commit[i] # None
            \/ round.pc # "idle"

\* Another client adds, replaces or deletes a file.
RemoteChange(p) ==
    /\ On("remote") /\ p \in case.files
    /\ InFlight => On("late_answer")
    /\ \/ HubTakes(p) /\ Put(p, Rev + 1)
       \/ Hub[p] # None /\ Put(p, None)
    /\ UNCHANGED <<case, table, neg, call, dirlock, kernel, commit, round, sweep>>

-----------------------------------------------------------------------------
(* The steps of a call.  Only Reply and the local operations touch the     *)
(* kernel's side.                                                          *)

Goto(c, pc) == call' = [call EXCEPT ![c].pc = pc]
Return(c) == call' = [call EXCEPT ![c] = NoCall]
\* The entry's attributes are in hand, or the inode is gone by now.
GotAttr(c, t, i) == IF Has(t, i) THEN call' = [call EXCEPT ![c].pc = "reply", ![c].ino = i]
                    ELSE Return(c)
OnlyCall == UNCHANGED <<case, log, table, neg, dirlock, kernel, commit, round, sweep>>
OnlyTable == UNCHANGED <<case, log, neg, dirlock, kernel, commit, round, sweep>>

\* reply_entry_tracked and reply_created_tracked: the reference is counted
\* first; an inode that has left the table in the meantime gets none.
Reply(c) ==
    /\ call[c].pc = "reply"
    /\ LET i == call[c].ino
       IN  /\ refs[i] < MaxRefs
           /\ table' = IF Has(table, i) THEN [table EXCEPT !.ino[i].nlookup = @ + 1] ELSE table
           /\ refs' = [refs EXCEPT ![i] = @ + 1]
           /\ opens' = IF call[c].op = "create" THEN [opens EXCEPT ![i] = @ + 1] ELSE opens
    /\ Return(c)
    /\ UNCHANGED <<case, log, neg, dirlock, commit, round, sweep>>

\* The kernel lets one call at a time change a directory, and none look up a
\* new name in it meanwhile; a name it has is looked up again at any time.
DirOps == {"create", "mkdir", "unlink"}
Excluded(op) == CASE op \in DirOps -> DirOps \cup {"lookup"} [] op = "lookup" -> DirOps [] OTHER -> {}

\* A call on a name in a directory the kernel knows.
Start(c, d, p, event, op, pc, i) ==
    /\ On(event) /\ c \in case.clients /\ call[c].pc = "idle" /\ p \in case.names
    /\ refs[d] > 0 /\ IsDir(table, d) /\ Up[p] = table.ino[d].path
    /\ ~\E x \in Client : call[x].dir = d /\ call[x].op \in Excluded(op)
    /\ call' = [call EXCEPT ![c] = [NoCall EXCEPT !.op = op, !.dir = d, !.path = p, !.pc = pc,
                                    !.ino = i, !.hash = IF i = None THEN None ELSE table.ino[i].hash]]
    /\ OnlyCall

\* lookup(): what the table says decides the way.  The calls that end here
\* with an error change nothing: a name in the negative cache, a name missing
\* from a listed directory made in this session.
Lookup(c, d, p) ==
    LET i == LookupChild(table, d, p)
        loaded == IsLoaded(table, d)
        again == i # None /\ refs[i] > 0
        Begin(pc, ino) == Start(c, d, p, "lookup", IF again THEN "relookup" ELSE "lookup", pc, ino)
    IN  \/ /\ IsFile(table, i) /\ ~table.ino[i].dirty
           /\ Begin("revalidate?", i)
        \/ /\ i # None
           /\ IF IsFile(table, i) THEN table.ino[i].dirty ELSE loaded
           /\ Begin("reply", i)
        \/ /\ i = None /\ loaded /\ table.ino[d].remote /\ p \notin neg
           /\ Begin("miss", None)
        \/ /\ i = None \/ IsDir(table, i)
           /\ ~loaded /\ p \notin neg
           /\ Begin("slow", None)

\* revalidate_file: nothing is asked within metadata_ttl, and a failing HEAD
\* leaves what is cached.
RevalidateSkip(c) ==
    /\ call[c].pc = "revalidate?"
    /\ GotAttr(c, table, call[c].ino)
    /\ OnlyCall
RevalidateHead(c) ==
    /\ call[c].pc = "revalidate?"
    /\ call' = [call EXCEPT ![c].pc = "revalidate", ![c].ans = Hub[call[c].path]]
    /\ OnlyCall
\* A 404 removes the inode, whatever has become of it since it was read.
RevalidateApply(c) ==
    LET i == call[c].ino
        gone == call[c].ans = None
        spared == Has(table, i) /\ (table.ino[i].dirty \/ IsOpen(table, i) \/ ~Linked(table, i))
    IN  /\ call[c].pc = "revalidate"
        /\ gone /\ spared => On("head_404_in_use")
        /\ table' = CASE gone -> RemoveInode(table, i)
                      [] ~gone /\ call[c].ans # call[c].hash -> UpdateRemoteFile(table, i, call[c].ans)
                      [] OTHER -> table
        /\ GotAttr(c, table', i)
        /\ OnlyTable

\* head_probe: a file, a 404 or an answer that decides nothing, or a
\* transient failure, which ends the call of a miss and is remembered by the
\* other.
Probe(c) ==
    /\ call[c].pc \in {"miss", "slow"}
    /\ LET p == call[c].path
       IN  \/ /\ Hub[p] # None
              /\ call' = [call EXCEPT ![c].pc = "insert", ![c].ans = Hub[p]]
           \/ /\ Hub[p] = None \/ On("hub_fails")
              /\ Goto(c, IF call[c].pc = "miss" THEN "miss_list" ELSE "load")
           \/ /\ On("hub_fails") /\ call[c].pc = "miss"
              /\ Return(c)
    /\ OnlyCall

\* A name without a file may be a directory; a permanent failure of this
\* listing counts as an empty one, a transient one ends the call.
MissList(c) ==
    /\ call[c].pc = "miss_list"
    /\ \/ Goto(c, IF ListTree(call[c].path) # {} THEN "insert_dir" ELSE "neg")
       \/ On("hub_fails") /\ Goto(c, "neg")
       \/ On("hub_fails") /\ Return(c)
    /\ OnlyCall

\* negative_cache_insert, and ENOENT; for unlink() it is the last step.
NegInsert(c) ==
    /\ call[c].pc = "neg"
    /\ neg' = neg \cup {call[c].path}
    /\ Return(c)
    /\ UNCHANGED <<case, log, table, dirlock, kernel, commit, round, sweep>>
NegExpire(p) ==
    /\ p \in neg /\ neg' = neg \ {p}
    /\ UNCHANGED <<case, log, table, call, dirlock, kernel, commit, round, sweep>>

\* insert_file_from_head: a file that is there by now is served as it is; a
\* directory in its place leaves unless something below is dirty or open.
InsertFile(c) ==
    LET d == call[c].dir
        p == call[c].path
        old == LookupChild(table, d, p)
        keep == old # None /\ (IsFile(table, old) \/ HasDirtyOrOpen(table, old))
        cleared == IF old = None THEN table ELSE RemoveInode(table, old)
    IN  /\ call[c].pc = "insert"
        /\ IF ~IsDir(table, d) THEN table' = table /\ Return(c)
           ELSE IF keep THEN table' = table /\ GotAttr(c, table, old)
           ELSE /\ cleared.next <= MaxIno
                /\ table' = Insert(cleared, d, p, "file", call[c].ans)
                /\ GotAttr(c, table', InsertedIno(cleared, p))
        /\ OnlyTable

InsertDir(c) ==
    LET d == call[c].dir
        p == call[c].path
        old == LookupChild(table, d, p)
    IN  /\ call[c].pc = "insert_dir"
        /\ IF ~IsDir(table, d) THEN table' = table /\ Return(c)
           ELSE IF old # None THEN table' = table /\ GotAttr(c, table, old)
           ELSE /\ table.next <= MaxIno
                /\ table' = Insert(table, d, p, "dir", None)
                /\ GotAttr(c, table', InsertedIno(table, p))
        /\ OnlyTable

-----------------------------------------------------------------------------
(* ensure_children_loaded: lookup() on its slow path, readdir(), create()  *)
(* and unlink() list the directory first.                                  *)

CallOn(c, d, p, op) == op \in DirOps /\ Start(c, d, p, op, op, "load", None)
Readdir(c, d) ==
    /\ On("readdir") /\ c \in case.clients /\ call[c].pc = "idle" /\ refs[d] > 0 /\ IsDir(table, d)
    /\ call' = [call EXCEPT ![c] = [NoCall EXCEPT !.op = "readdir", !.dir = d, !.pc = "load"]]
    /\ OnlyCall

\* Already listed, or the lock of the directory is taken to list it.
Load(c) ==
    LET d == call[c].dir
    IN  /\ call[c].pc = "load"
        /\ \/ ~IsDir(table, d) /\ Return(c) /\ dirlock' = dirlock
           \/ IsLoaded(table, d) /\ Goto(c, "loaded") /\ dirlock' = dirlock
           \/ /\ IsDir(table, d) /\ ~IsLoaded(table, d) /\ d \notin dirlock
              /\ dirlock' = dirlock \cup {d}
              /\ Goto(c, "list")
        /\ UNCHANGED <<case, log, table, neg, kernel, commit, round, sweep>>

ListDirFailsEmpty(c) ==
    /\ call[c].pc = "list"
    /\ \/ /\ Has(table, call[c].dir)
          /\ call' = [call EXCEPT ![c].pc = "install", ![c].list = ListTree(table.ino[call[c].dir].path)]
       \/ On("hub_fails") /\ Goto(c, "install")
    /\ OnlyCall
ListDir(c) ==
    /\ call[c].pc = "list"
    /\ \/ /\ Has(table, call[c].dir)
          /\ call' = [call EXCEPT ![c].pc = "install", ![c].list = ListTree(table.ino[call[c].dir].path)]
          /\ dirlock' = dirlock
       \/ /\ On("hub_fails") \/ ~Has(table, call[c].dir)
          /\ Return(c) /\ dirlock' = dirlock \ {call[c].dir}
    /\ UNCHANGED <<case, log, table, neg, kernel, commit, round, sweep>>

KindOf(e) == IF e.hash = None THEN "dir" ELSE "file"

\* What a listing does to the table: the listed names are inserted, the
\* children it lacks leave, unless they are dirty, made by mkdir, or have
\* something dirty or open below.
Listed(t, d, list) ==
    LET names == {e.path : e \in list}
        filled == FoldSet(LAMBDA e, acc : Insert(acc, d, e.path, KindOf(e), e.hash), t, list)
        stale == {c.ino : c \in {x \in filled.ino[d].children :
                    /\ x.name \notin names /\ Has(filled, x.ino)
                    /\ ~filled.ino[x.ino].dirty /\ ~filled.ino[x.ino].local}}
        pruned == FoldSet(LAMBDA i, acc : IF HasDirtyOrOpen(acc, i) THEN acc ELSE RemoveInode(acc, i),
                          filled, stale)
    IN  [pruned EXCEPT !.ino[d].loaded = TRUE, !.ino[d].remote = TRUE]

Install(c) ==
    LET d == call[c].dir
    IN  /\ call[c].pc = "install"
        /\ dirlock' = dirlock \ {d}
        /\ \/ ~IsDir(table, d) /\ Return(c) /\ table' = table
           \/ IsLoaded(table, d) /\ Goto(c, "loaded") /\ table' = table
           \/ /\ IsDir(table, d) /\ ~IsLoaded(table, d)
              /\ table' = Listed(table, d, call[c].list) /\ table'.next <= MaxIno + 1
              /\ call' = [call EXCEPT ![c].pc = "loaded", ![c].fresh = TRUE, ![c].list = {}]
        /\ UNCHANGED <<case, log, neg, kernel, commit, round, sweep>>

\* A miss under a listing of this call is remembered, an older listing only
\* ends the call.
LookupLoaded(c) ==
    LET i == LookupChild(table, call[c].dir, call[c].path)
    IN  /\ call[c].pc = "loaded" /\ call[c].op \in {"lookup", "relookup"}
        /\ IF i # None THEN GotAttr(c, table, i)
           ELSE IF call[c].fresh THEN Goto(c, "neg") ELSE Return(c)
        /\ OnlyCall
ReaddirLoaded(c) ==
    /\ call[c].pc = "loaded" /\ call[c].op = "readdir"
    /\ Return(c)
    /\ OnlyCall

-----------------------------------------------------------------------------
(* The kernel's own files.                                                 *)

\* create(): a name that nobody has, as a dirty inode; then the negative
\* cache and the handle.
CreateInsert(c) ==
    LET d == call[c].dir
        p == call[c].path
    IN  /\ call[c].pc = "loaded" /\ call[c].op = "create"
        /\ IF ~IsDir(table, d) \/ LookupChild(table, d, p) # None
           THEN table' = table /\ Return(c)
           ELSE /\ table.next <= MaxIno
                /\ table' = [Insert(table, d, p, "file", None) EXCEPT !.ino[InsertedIno(table, p)].dirty = TRUE]
                /\ call' = [call EXCEPT ![c].pc = "create", ![c].ino = InsertedIno(table, p)]
        /\ OnlyTable
CreateOpen(c) ==
    LET i == call[c].ino
    IN  /\ call[c].pc = "create"
        /\ neg' = neg \ {call[c].path}
        /\ Has(table, i) => table.ino[i].open < MaxRefs
        /\ table' = IF Has(table, i) THEN [table EXCEPT !.ino[i].open = @ + 1] ELSE table
        /\ GotAttr(c, table, i)
        /\ UNCHANGED <<case, log, dirlock, kernel, commit, round, sweep>>

\* mkdir(): a directory that starts as listed; the Hub hears nothing of it.
Mkdir(c) ==
    LET d == call[c].dir
        p == call[c].path
        i == InsertedIno(table, p)
    IN  /\ call[c].pc = "loaded" /\ call[c].op = "mkdir"
        /\ IF ~IsDir(table, d) \/ LookupChild(table, d, p) # None
           THEN table' = table /\ Return(c)
           ELSE /\ table.next <= MaxIno
                /\ table' = [Insert(table, d, p, "dir", None) EXCEPT !.ino[i].loaded = TRUE, !.ino[i].local = TRUE]
                /\ call' = [call EXCEPT ![c].pc = "mkdir", ![c].ino = i]
        /\ OnlyTable
MkdirAttr(c) ==
    /\ call[c].pc = "mkdir"
    /\ neg' = neg \ {call[c].path}
    /\ GotAttr(c, table, call[c].ino)
    /\ UNCHANGED <<case, log, table, dirlock, kernel, commit, round, sweep>>

\* unlink() holds the per-inode lock of streaming writers while it works.
Unlinking(i) == \E c \in Client : call[c].pc \in {"unlink", "unlink_local"} /\ call[c].ino = i

\* open() for reading, and with O_TRUNC, which dirties the inode.
Open(i) ==
    /\ On("open") /\ refs[i] > 0 /\ IsFile(table, i) /\ Linked(table, i) /\ table.ino[i].open < MaxRefs
    /\ table' = [table EXCEPT !.ino[i].open = @ + 1]
    /\ opens' = [opens EXCEPT ![i] = @ + 1]
    /\ UNCHANGED <<case, log, neg, call, dirlock, refs, commit, round, sweep>>
OpenTruncate(i) ==
    /\ On("truncate") /\ refs[i] > 0 /\ IsFile(table, i) /\ Linked(table, i) /\ table.ino[i].open < MaxRefs
    /\ ~table.ino[i].dirty /\ ~Unlinking(i)
    /\ table' = [table EXCEPT !.ino[i].open = @ + 1, !.ino[i].dirty = TRUE, !.ino[i].hash = None]
    /\ opens' = [opens EXCEPT ![i] = @ + 1]
    /\ UNCHANGED <<case, log, neg, call, dirlock, refs, commit, round, sweep>>

\* The commit of a flush() or release(): the Hub first, the table later.
CommitHub(i) ==
    /\ IsOpen(table, i) /\ Linked(table, i) /\ table.ino[i].dirty /\ commit[i] = None
    /\ ~Unlinking(i) /\ (InFlight => On("late_answer"))
    /\ HubTakes(table.ino[i].path) /\ Put(table.ino[i].path, Rev + 1)
    /\ commit' = [commit EXCEPT ![i] = Rev + 1]
    /\ UNCHANGED <<case, table, neg, call, dirlock, kernel, round, sweep>>
CommitApply(i) ==
    /\ commit[i] # None
    /\ table' = IF Has(table, i) THEN [table EXCEPT !.ino[i].hash = commit[i], !.ino[i].dirty = FALSE]
                ELSE table
    /\ commit' = [commit EXCEPT ![i] = None]
    /\ UNCHANGED <<case, log, neg, call, dirlock, kernel, round, sweep>>

\* close(), and the release() that follows, after the commit: the last one
\* reaps an orphan or finishes a deferred eviction.
Close(i) ==
    /\ opens[i] > 0 /\ opens' = [opens EXCEPT ![i] = @ - 1]
    /\ UNCHANGED <<case, log, table, neg, call, dirlock, refs, commit, round, sweep>>
Release(i) ==
    /\ Has(table, i) /\ table.ino[i].open > opens[i]
    /\ \A c \in Client : ~(call[c].op = "create" /\ call[c].pc = "reply" /\ call[c].ino = i)
    /\ commit[i] = None /\ (table.ino[i].dirty => ~Linked(table, i))
    /\ LET dropped == [table EXCEPT !.ino[i].open = @ - 1]
           reaped == RemoveOrphan(dropped, i)
           spared == IF Has(reaped, i) THEN [reaped EXCEPT !.ino[i].evict = FALSE] ELSE reaped
       IN  table' = IF IsOpen(dropped, i) THEN dropped
                    ELSE IF table.ino[i].evict /\ Has(reaped, i) THEN EvictIfSafe(spared, i) ELSE spared
    /\ UNCHANGED <<case, log, neg, call, dirlock, kernel, commit, round, sweep>>

\* unlink(): a dirty open file stays; the Hub's file first, then the name.
UnlinkCheck(c) ==
    LET i == LookupChild(table, call[c].dir, call[c].path)
    IN  /\ call[c].pc = "loaded" /\ call[c].op = "unlink"
        /\ i # None => commit[i] = None
        /\ IF ~IsFile(table, i) \/ (table.ino[i].dirty /\ IsOpen(table, i)) THEN Return(c)
           ELSE call' = [call EXCEPT ![c].pc = "unlink", ![c].ino = i, ![c].hash = table.ino[i].hash]
        /\ OnlyCall
UnlinkRemote(c) ==
    /\ call[c].pc = "unlink"
    /\ InFlight => On("late_answer")
    /\ \/ /\ IF call[c].hash # None /\ Hub[call[c].path] # None
             THEN Put(call[c].path, None) ELSE log' = log
          /\ Goto(c, "unlink_local")
       \/ On("hub_fails") /\ call[c].hash # None /\ log' = log /\ Return(c)
    /\ UNCHANGED <<case, table, neg, dirlock, kernel, commit, round, sweep>>
\* The name goes from whatever has it by now: the event "unlink_replaced" when
\* that is not the file whose handles it has looked at.
UnlinkLocal(c) ==
    LET cut == UnlinkOne(table, call[c].dir, call[c].path)
        child == LookupChild(table, call[c].dir, call[c].path)
    IN  /\ call[c].pc = "unlink_local"
        /\ child \notin {None, call[c].ino} => On("unlink_replaced")
        /\ table' = IF IsOpen(cut, call[c].ino) THEN cut ELSE RemoveOrphan(cut, call[c].ino)
        /\ Goto(c, "neg")
        /\ OnlyTable

-----------------------------------------------------------------------------
(* forget() and the LRU sweep.                                             *)

\* The kernel gives all its references back; the count of an inode that has
\* been given out again since does not reach zero.
ForgetDrop(c, i) ==
    /\ On("forget") /\ c \in case.clients /\ call[c].pc = "idle" /\ i # RootIno /\ refs[i] > 0 /\ opens[i] = 0
    /\ ~IsDir(table, i)
    /\ refs' = [refs EXCEPT ![i] = 0]
    /\ table' = IF Has(table, i) THEN [table EXCEPT !.ino[i].nlookup = IF @ > refs[i] THEN @ - refs[i] ELSE 0]
                ELSE table
    /\ call' = IF Has(table', i) /\ table'.ino[i].nlookup = 0
               THEN [call EXCEPT ![c] = [NoCall EXCEPT !.op = "forget", !.pc = "forget", !.ino = i]]
               ELSE call
    /\ UNCHANGED <<case, log, neg, dirlock, opens, commit, round, sweep>>
\* A handle that is still open defers the eviction to release().
ForgetEvict(c) ==
    LET i == call[c].ino
    IN  /\ call[c].pc = "forget"
        /\ table' = IF IsOpen(table, i) THEN [table EXCEPT !.ino[i].evict = TRUE] ELSE EvictIfSafe(table, i)
        /\ Return(c)
        /\ OnlyTable

\* lru_evict_sweep: over the soft limit, the kernel is asked to drop the
\* names of some clean closed files (how old they are is left out; a full
\* notify channel ends the batch), and later those inodes are evicted that
\* still may be.
SweepStart(S) ==
    /\ On("sweep") /\ sweep = {} /\ S # {} /\ S \subseteq LruCandidates(table)
    /\ Cardinality(S) + SoftLimit <= Cardinality(Inodes(table))
    /\ sweep' = S
    /\ UNCHANGED <<case, log, table, neg, call, dirlock, kernel, commit, round>>
SweepEvict ==
    /\ sweep # {}
    /\ table' = EvictBatchIfSafe(table, sweep \cap Inodes(table))
    /\ sweep' = {}
    /\ UNCHANGED <<case, log, neg, call, dirlock, kernel, commit, round>>
=============================================================================
