------------------------------ MODULE FileCache ------------------------------
(***************************************************************************)
(* The whole-file cache (file_cache.rs): one FileCache per mount over one  *)
(* directory that the mounts share.  A file has its final name only when   *)
(* it is complete (download to a private name, size check, rename), so     *)
(* `disk` is the set of hashes whose file is there.  Downloads for one     *)
(* hash have one leader per mount; eviction is by last access, and files   *)
(* are removed after the lock is gone.                                     *)
(***************************************************************************)
EXTENDS Orders, FiniteSets, SequencesExt, FiniteSetsExt

CONSTANTS Hash,        \* contents
          SizeOf,      \* their sizes
          Capacity,    \* capacity of each cache
          Mount,       \* caches over the same directory
          Task,        \* try_open() and populate() calls under way
          MaxPopulates \* MAX_CONCURRENT_POPULATES

ASSUME FileCacheAssumption ==
    SizeOf \in [Hash -> Nat \ {0}] /\ Capacity \in Nat /\ MaxPopulates \in Nat \ {0} /\ Mount # {}

VARIABLES disk,     \* hashes with a file under their final name
          cache,    \* per mount: items, total, inflight
          task      \* what each task does
cachevars == <<disk, cache, task>>

SizeSum(S) == MapThenSumSet(LAMBDA h : SizeOf[h], S)
NoTask == [pc |-> "idle", m |-> CHOOSE m \in Mount : TRUE, h |-> CHOOSE h \in Hash : TRUE, victims |-> {}]
TaskAt(t, pc) == task' = [task EXCEPT ![t].pc = pc]
OnlyTask == UNCHANGED <<disk, cache>>

\* items: the hashes in the order of their last access; total: total_bytes.
\* A mount starts with what it finds, more than its capacity too.
Scanned(found) == [items |-> SetToSeq(found), total |-> SizeSum(found), inflight |-> {}]
CacheInit(found) ==
    /\ disk = found
    /\ cache = [m \in Mount |-> Scanned(found)]
    /\ task = [t \in Task |-> NoTask]

Holds(m, h) == Contains(cache[m].items, h)
Without(items, h) == Only(items, ToSet(items) \ {h})
Touched(items, h) == Append(Without(items, h), h)
Forgotten(c, h) == IF Contains(c.items, h)
                   THEN [c EXCEPT !.items = Without(@, h), !.total = @ - SizeOf[h]] ELSE c

-----------------------------------------------------------------------------
(* try_open: the entry under the read lock, then the file; an entry whose  *)
(* file is gone is forgotten, and its file removed in case it is back.     *)

TryOpen(t, m, h) ==
    /\ task[t].pc = "idle"
    /\ task' = [task EXCEPT ![t].pc = IF Holds(m, h) THEN "open" ELSE "miss", ![t].m = m, ![t].h = h]
    /\ cache' = IF Holds(m, h) THEN [cache EXCEPT ![m].items = Touched(@, h)] ELSE cache
    /\ disk' = disk
OpenFile(t) ==
    /\ task[t].pc = "open"
    /\ TaskAt(t, IF task[t].h \in disk THEN "hit" ELSE "forget")
    /\ OnlyTask
Forget(t) ==
    /\ task[t].pc = "forget"
    /\ cache' = [cache EXCEPT ![task[t].m] = Forgotten(@, task[t].h)]
    /\ TaskAt(t, "unlink")
    /\ disk' = disk
ForgetFile(t) ==
    /\ task[t].pc = "unlink"
    /\ disk' = disk \ {task[t].h}
    /\ TaskAt(t, "miss")
    /\ cache' = cache

-----------------------------------------------------------------------------
(* populate.                                                               *)

\* A file larger than the cache, or one it has, is not fetched at all.
Spawned(m, h) == IF SizeOf[h] <= Capacity THEN [NoTask EXCEPT !.pc = "contains", !.m = m, !.h = h] ELSE NoTask
Contained(t) ==
    /\ task[t].pc = "contains"
    /\ task' = [task EXCEPT ![t] = IF Holds(task[t].m, task[t].h) THEN NoTask ELSE [task[t] EXCEPT !.pc = "join"]]
    /\ OnlyTask
\* Under the inflight lock: the table is looked at again if its lock is free.
StateBusy(m) == \E u \in Task : task[u].m = m /\ task[u].pc \in {"insert", "forget"}
Join(t) ==
    LET m == task[t].m
        h == task[t].h
    IN  /\ task[t].pc = "join"
        /\ \/ Holds(m, h) /\ task' = [task EXCEPT ![t] = NoTask] /\ cache' = cache
           \/ /\ Holds(m, h) => StateBusy(m)
              /\ TaskAt(t, IF h \in cache[m].inflight THEN "follow" ELSE "permit")
              /\ cache' = [cache EXCEPT ![m].inflight = @ \cup {h}]
        /\ disk' = disk
Permit(t) ==
    /\ task[t].pc = "permit"
    /\ Cardinality({u \in Task : /\ task[u].m = task[t].m
                                 /\ task[u].pc \in {"fetch", "rename", "insert", "remove"}}) < MaxPopulates
    /\ TaskAt(t, "fetch")
    /\ OnlyTask
\* The download, with the check of its size.
Fetch(t) == task[t].pc = "fetch" /\ TaskAt(t, "rename") /\ OnlyTask
FetchFails(t) == task[t].pc = "fetch" /\ TaskAt(t, "done") /\ OnlyTask
Rename(t) ==
    /\ task[t].pc = "rename"
    /\ disk' = disk \cup {task[t].h}
    /\ TaskAt(t, "insert")
    /\ cache' = cache
\* evict_locked: the oldest ones, as many as it takes.
Victims(c) ==
    LET n == CHOOSE k \in 0..Len(c.items) :
                 LET freed(j) == SizeSum(ToSet(SubSeq(c.items, 1, j)))
                 IN  /\ c.total - freed(k) <= Capacity
                     /\ \A j \in 0..k - 1 : c.total - freed(j) > Capacity
    IN  SubSeq(c.items, 1, n)
Insert(t) ==
    LET m == task[t].m
        h == task[t].h
        old == Forgotten(cache[m], h)
        added == [old EXCEPT !.items = Append(@, h), !.total = @ + SizeOf[h]]
        victims == Victims(added)
    IN  /\ task[t].pc = "insert"
        /\ cache' = [cache EXCEPT ![m] = FoldLeft(Forgotten, added, victims)]
        /\ task' = [task EXCEPT ![t].pc = "remove", ![t].victims = ToSet(victims)]
        /\ disk' = disk
\* Mutant: evicted files stay on disk.
RemoveVictimLeaves(t) ==
    /\ task[t].pc = "remove"
    /\ TaskAt(t, "done")
    /\ UNCHANGED <<disk, cache>>
RemoveVictim(t) ==
    /\ task[t].pc = "remove"
    /\ IF task[t].victims = {} THEN TaskAt(t, "done") /\ disk' = disk
       ELSE \E v \in task[t].victims : /\ disk' = disk \ {v}
                                       /\ task' = [task EXCEPT ![t].victims = @ \ {v}]
    /\ cache' = cache
\* Mutant: a leader that fails leaves its entry.
GuardDropOnSuccess(t) ==
    LET m == task[t].m
        h == task[t].h
        over == {u \in Task : u = t \/ (task[u].pc = "follow" /\ task[u].m = m /\ task[u].h = h)}
    IN  /\ task[t].pc = "done"
        /\ IF Holds(m, h)
           THEN /\ cache' = [cache EXCEPT ![m].inflight = @ \ {h}]
                /\ task' = [u \in Task |-> IF u \in over THEN NoTask ELSE task[u]]
           ELSE cache' = cache /\ task' = [task EXCEPT ![t] = NoTask]
        /\ disk' = disk
\* InflightGuard::drop, however the download ended: the followers go on, and
\* their answer is only logged.
GuardDrop(t) ==
    LET m == task[t].m
        h == task[t].h
    IN  /\ task[t].pc = "done"
        /\ cache' = [cache EXCEPT ![m].inflight = @ \ {h}]
        /\ task' = [u \in Task |-> IF u = t \/ (task[u].pc = "follow" /\ task[u].m = m /\ task[u].h = h)
                                   THEN NoTask ELSE task[u]]
        /\ disk' = disk

\* The process ends where it is and comes back; its own .tmp is never reused.
Restart(m) ==
    /\ cache' = [cache EXCEPT ![m] = Scanned(disk)]
    /\ task' = [t \in Task |-> IF task[t].m = m THEN NoTask ELSE task[t]]
    /\ disk' = disk

CacheStep(t) ==
    \/ OpenFile(t) \/ Forget(t) \/ ForgetFile(t) \/ Contained(t) \/ Join(t) \/ Permit(t) \/ Fetch(t) \/ FetchFails(t)
    \/ Rename(t) \/ Insert(t) \/ RemoveVictim(t) \/ GuardDrop(t)

-----------------------------------------------------------------------------
(* Properties.                                                             *)

\* The counter is the sum of the sizes, although entries go in and out by
\* three ways (insert, evict_locked, forget) and an insert may replace one.
AccountingExact == \A m \in Mount : /\ cache[m].total = SizeSum(ToSet(cache[m].items))
                                    /\ IsInjective(cache[m].items)

\* No file is left on disk that no cache knows of, which would take space for
\* good: every file has an entry, or somebody is about to add or remove it.
NoLeak == \A h \in disk :
    \/ \E m \in Mount : Holds(m, h)
    \/ \E t \in Task : \/ task[t].h = h /\ task[t].pc \in {"insert", "unlink"}
                       \/ h \in task[t].victims

\* A populate ends, that of a follower too, however the download of the
\* leader ended: nobody waits on an entry that nobody will remove.
PopulateEnds == \A t \in Task : task[t].pc \in {"join", "follow", "permit"} ~> task[t].pc = "idle"
=============================================================================
