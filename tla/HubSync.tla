------------------------------- MODULE HubSync -------------------------------
(***************************************************************************)
(* The names of files and what becomes of them on the Hub.  create,        *)
(* unlink, rename and rmdir change the local tree at once and the Hub by   *)
(* three different routes: a clean rename sends its own batch, a delete    *)
(* goes through the delete queue, and everything dirty waits for a cycle   *)
(* of flush_loop, which takes the delete queue first and then commits the  *)
(* files it snapshotted, together with the old names (pending_deletes) of  *)
(* the files that were renamed while dirty.                                *)
(*                                                                         *)
(* The bytes and the staging locks are the business of StagedWrite: here a *)
(* file has its current content, a xet hash is the content it stands for.  *)
(* Polling is left out, so nothing but this mount changes the Hub.         *)
(***************************************************************************)
EXTENDS DeleteQueue

CONSTANTS
    Ino,            \* inode numbers, never reused
    NoPath,
    Client,         \* threads serving VFS calls
    MaxContent,     \* contents are 0..MaxContent, 0 is the empty file
    MaxGen,         \* nothing is written at this generation
    Case            \* the instances: who calls, which inodes and names there are, the
                    \* path each inode has on the Hub at mount time (or NoPath), the
                    \* calls made and failures met, and whether a flush cycle and a
                    \* call that changes names are kept apart ("quiet")

AllEvents == {"create", "write", "truncate", "unlink", "rename", "rmdir",
              "refused", "lost_answer",
              "quiet", "rewrite", "shadow", "old_name", "drop_old_names", "create_fails"}

Loop == "flush_loop"
Wake == 0           \* FlushSignal::WakeDeletes
Empty == 0
NoHash == -1        \* xet_hash: None
Absent == -1        \* no such file on the Hub

ASSUME HubSyncAssumption ==
    /\ Ino \subseteq Nat \ {Wake} /\ Ino # {}
    /\ NoPath \notin Path
    /\ \A k \in Case :
          /\ k.clients \subseteq Client /\ k.inodes \subseteq Ino /\ k.paths \subseteq Path
          /\ k.events \subseteq AllEvents
          /\ k.initial \in [Ino -> k.paths \cup {NoPath}]
          /\ \A i, j \in Ino : k.initial[i] = k.initial[j] => i = j \/ k.initial[i] = NoPath
    /\ Loop \notin Client /\ Flusher = Client \cup {Loop}
    /\ MaxContent \in Nat \ {0} /\ MaxGen \in Nat \ {0}

Content == 0..MaxContent

VARIABLES
    case,               \* the instance this behaviour is of
    path,               \* full_path of a linked inode, NoPath otherwise
    used,               \* the inode numbers that have been given out
    dirty_generation,   \* 0 = clean
    xet_hash,
    pending_deletes,    \* old remote paths to delete with the next commit
    local,              \* the content applications see
    hub,                \* the Hub: the content of every path
    signals,            \* the flush channel
    phase, todo, batch, item,   \* flush_loop / flush_batch
    pc, call            \* where each client is in its call, and the call's locals

inodeVars == <<path, used, dirty_generation, xet_hash, pending_deletes, local>>
loopVars == <<phase, todo, batch, item>>
clientVars == <<pc, call>>
vars == <<queueVars, inodeVars, hub, signals, loopVars, clientVars, case>>

Phase == {"recv", "take", "deletes", "snapshot", "upload", "commit", "apply"}
PC == {"idle", "create_cancel", "unlink_enqueue", "unlink_local",
       "rename_remote", "rename_local", "rmdir_flush"}
Call == [ino: Ino, old: Path \cup {NoPath}, new: Path \cup {NoPath},
         xet_hash: Content \cup {NoHash}, is_dirty: BOOLEAN]
NoCall == [ino |-> CHOOSE i \in Ino : TRUE, old |-> NoPath, new |-> NoPath,
           xet_hash |-> NoHash, is_dirty |-> FALSE]
Item == [path: Path \cup {NoPath}, deletes: SUBSET Path, gen: Nat,
         prev: Content \cup {NoHash}, up: Content]
NoItem == [path |-> NoPath, deletes |-> {}, gen |-> 0, prev |-> NoHash, up |-> Empty]

\* Every variable has its type.
TypeOK ==
    /\ QueueTypes
    /\ path \in [Ino -> Path \cup {NoPath}]
    /\ used \subseteq Ino
    /\ dirty_generation \in [Ino -> 0..MaxGen]
    /\ xet_hash \in [Ino -> Content \cup {NoHash}]
    /\ pending_deletes \in [Ino -> SUBSET Path]
    /\ local \in [Ino -> Content]
    /\ hub \in [Path -> Content \cup {Absent}]
    /\ signals \subseteq Ino \cup {Wake}
    /\ phase \in Phase
    /\ todo \subseteq Ino /\ batch \subseteq Ino
    /\ item \in [Ino -> Item]
    /\ pc \in [Client -> PC] /\ call \in [Client -> Call]

InitialContent == 1
Happens(event) == event \in case.events

Init ==
    /\ QueueInit
    /\ case \in Case
    /\ path = case.initial
    /\ used = {i \in Ino : path[i] # NoPath}
    /\ dirty_generation = [i \in Ino |-> 0]
    /\ xet_hash = [i \in Ino |-> IF i \in used THEN InitialContent ELSE NoHash]
    /\ pending_deletes = [i \in Ino |-> {}]
    /\ local = [i \in Ino |-> IF i \in used THEN InitialContent ELSE Empty]
    /\ hub = [p \in Path |-> IF \E i \in Ino : path[i] = p THEN InitialContent ELSE Absent]
    /\ signals = {}
    /\ phase = "recv" /\ todo = {} /\ batch = {}
    /\ item = [i \in Ino |-> NoItem]
    /\ pc = [c \in Client |-> "idle"] /\ call = [c \in Client |-> NoCall]

------------------------------------------------------------------------------
(* The tree and the Hub *)

IsDirty(i) == dirty_generation[i] > 0
LookupPath(p) == {i \in Ino : path[i] = p}

\* A batch of operations: all adds, then all deletes.
BatchOperations(adds, deletes) ==
    hub' = [p \in Path |->
              IF p \in deletes THEN Absent
              ELSE IF p \in DOMAIN adds THEN adds[p]
              ELSE hub[p]]

\* How the Hub may answer a batch: it commits it, refuses it, or commits it and
\* the answer is lost.
Commits(adds, deletes) == BatchOperations(adds, deletes)
Refuses == Happens("refused") /\ UNCHANGED hub
LosesAnswer(adds, deletes) == Happens("lost_answer") /\ BatchOperations(adds, deletes)

NoAdds == [p \in {} |-> Empty]

\* The kernel locks the directories of a call's names until the call returns, so
\* two calls never work on the same name.
Idle(c) == pc[c] = "idle"
Names(c) == {call[c].old, call[c].new}
Locked(p) == \E c \in Client : ~Idle(c) /\ p \in Names(c)

\* A call begins with what it reads of its inode, as RenameInfo holds it.
StartCall(c, step, i, new) ==
    /\ Happens("quiet") => phase = "recv"
    /\ pc' = [pc EXCEPT ![c] = step]
    /\ call' = [call EXCEPT ![c] =
                  [ino |-> i, old |-> path'[i], new |-> new,
                   xet_hash |-> xet_hash[i], is_dirty |-> IsDirty(i)]]

Goto(c, step) == pc' = [pc EXCEPT ![c] = step] /\ UNCHANGED call
Return(c) == pc' = [pc EXCEPT ![c] = "idle"] /\ call' = [call EXCEPT ![c] = NoCall]

\* unlink_one: the name goes.  What an open handle still writes to the inode never
\* reaches the Hub, so nothing else of an unlinked inode is kept.
UnlinkOne(S) ==
    /\ dirty_generation' = [i \in Ino |-> IF i \in S THEN 0 ELSE dirty_generation[i]]
    /\ xet_hash' = [i \in Ino |-> IF i \in S THEN NoHash ELSE xet_hash[i]]
    /\ local' = [i \in Ino |-> IF i \in S THEN Empty ELSE local[i]]

------------------------------------------------------------------------------
(* Situations that an instance leaves out unless its case names them: each      *)
(* is one in which the code lets the Hub and the tree drift apart.            *)

\* "shadow": unlink or rename of a file without a hash although the Hub has a
\* file under its name.
Shadow(i) == xet_hash[i] = NoHash /\ hub[path[i]] # Absent
MayUnname(i) == Shadow(i) => Happens("shadow")

\* "old_name": a name that some file still has in its pending_deletes is taken.
MayTake(p) == (\E i \in Ino : p \in pending_deletes[i]) => Happens("old_name")

\* "drop_old_names": unlink or replacement of a file with pending_deletes.
MayDrop(i) == pending_deletes[i] # {} => Happens("drop_old_names")

\* "rewrite": a file is given back a content it had before.
MayWrite(i, v) == v >= local[i] \/ Happens("rewrite")

\* "create_fails": a create() that cancelled a delete fails afterwards.
MayFail(p) == queued[p] > 0 => Happens("create_fails")

------------------------------------------------------------------------------
(* VFS calls *)

\* create(): the inode is inserted dirty and empty ...
CreateInsert(c, i, p) ==
    /\ Happens("create")
    /\ Idle(c) /\ ~Locked(p) /\ LookupPath(p) = {} /\ i \notin used
    /\ MayTake(p)
    /\ used' = used \cup {i}
    /\ path' = [path EXCEPT ![i] = p]
    /\ dirty_generation' = [dirty_generation EXCEPT ![i] = 1]
    /\ StartCall(c, "create_cancel", i, NoPath)
    /\ UNCHANGED <<queueVars, xet_hash, pending_deletes, local, hub, signals, loopVars>>

\* Mutant: create() leaves the queued delete of its name alone.
CreateKeepsDelete(c) ==
    /\ pc[c] = "create_cancel"
    /\ Return(c)
    /\ UNCHANGED <<queueVars, inodeVars, hub, signals, loopVars>>

\* ... then a queued delete of the name is cancelled, and the staging file opened.
CreateCancel(c) ==
    /\ pc[c] = "create_cancel"
    /\ CancelDelete({call[c].old})
    /\ Return(c)
    /\ UNCHANGED <<inodeVars, hub, signals, loopVars>>

\* The staging file cannot be opened: the inode is removed again.
CreateFails(c) ==
    /\ pc[c] = "create_cancel" /\ MayFail(call[c].old)
    /\ CancelDelete({call[c].old})
    /\ UnlinkOne({call[c].ino})
    /\ path' = [path EXCEPT ![call[c].ino] = NoPath]
    /\ pending_deletes' = [pending_deletes EXCEPT ![call[c].ino] = {}]
    /\ Return(c)
    /\ UNCHANGED <<used, hub, signals, loopVars>>

\* A write through an open handle marks the inode dirty.
Write(i, v) ==
    /\ Happens("write") /\ MayWrite(i, v)
    /\ path[i] # NoPath /\ dirty_generation[i] < MaxGen
    /\ local' = [local EXCEPT ![i] = v]
    /\ dirty_generation' = [dirty_generation EXCEPT ![i] = @ + 1]
    /\ UNCHANGED <<queueVars, path, used, xet_hash, pending_deletes, hub, signals, loopVars, clientVars>>

\* release, fsync and requeue_dirty put a dirty inode on the channel.
Enqueue(i) ==
    /\ path[i] # NoPath /\ IsDirty(i) /\ i \notin signals
    /\ signals' = signals \cup {i}
    /\ UNCHANGED <<queueVars, inodeVars, hub, loopVars, clientVars>>

\* setattr(size = 0) also forgets the hash.
Truncate(i) ==
    /\ Happens("truncate")
    /\ path[i] # NoPath /\ dirty_generation[i] < MaxGen
    /\ local' = [local EXCEPT ![i] = Empty]
    /\ dirty_generation' = [dirty_generation EXCEPT ![i] = @ + 1]
    /\ xet_hash' = [xet_hash EXCEPT ![i] = NoHash]
    /\ signals' = signals \cup {i}
    /\ UNCHANGED <<queueVars, path, used, pending_deletes, hub, loopVars, clientVars>>

\* unlink(): under the read lock, a remote delete is needed if the inode has a hash.
UnlinkDecide(c, i) ==
    /\ Happens("unlink")
    /\ Idle(c) /\ path[i] # NoPath /\ ~Locked(path[i]) /\ MayUnname(i) /\ MayDrop(i)
    /\ UNCHANGED <<queueVars, inodeVars, hub, signals, loopVars>>
    /\ StartCall(c, IF xet_hash[i] # NoHash THEN "unlink_enqueue" ELSE "unlink_local", i, NoPath)

UnlinkEnqueue(c) ==
    /\ pc[c] = "unlink_enqueue"
    /\ PushDelete(call[c].old)
    /\ signals' = signals \cup {Wake}
    /\ Goto(c, "unlink_local")
    /\ UNCHANGED <<inodeVars, hub, loopVars>>

UnlinkLocal(c) ==
    /\ pc[c] = "unlink_local"
    /\ UnlinkOne({call[c].ino})
    /\ path' = [path EXCEPT ![call[c].ino] = NoPath]
    /\ pending_deletes' = [pending_deletes EXCEPT ![call[c].ino] = {}]
    /\ Return(c)
    /\ UNCHANGED <<queueVars, used, hub, signals, loopVars>>

\* rename_validate: what phases 2 and 3 use is read here.  Phase 2 is only for a
\* clean file with a hash.
RenameValidate(c, i, q) ==
    /\ Happens("rename")
    /\ Idle(c) /\ path[i] \notin {NoPath, q} /\ ~Locked(path[i]) /\ ~Locked(q)
    /\ MayUnname(i) /\ MayTake(q) /\ \A j \in LookupPath(q) : MayDrop(j)
    /\ UNCHANGED <<queueVars, inodeVars, hub, signals, loopVars>>
    /\ StartCall(c, IF ~IsDirty(i) /\ xet_hash[i] # NoHash THEN "rename_remote" ELSE "rename_local", i, q)

\* rename_remote: Add new, Delete old, with the hash that rename_validate read.
RenameRemote(c) ==
    /\ pc[c] = "rename_remote"
    /\ Commits([p \in {call[c].new} |-> call[c].xet_hash], {call[c].old})
    /\ Goto(c, "rename_local")
    /\ UNCHANGED <<queueVars, inodeVars, signals, loopVars>>

RenameRemoteFails(c) ==
    /\ pc[c] = "rename_remote"
    /\ Refuses
    /\ Return(c)
    /\ UNCHANGED <<queueVars, inodeVars, signals, loopVars>>

\* rename_apply_local: cancel a queued delete of the new name, replace what is there,
\* remember the old name of a dirty file, move.
RenameLocal(c) ==
    LET i == call[c].ino
        target == LookupPath(call[c].new)
    IN
    /\ pc[c] = "rename_local"
    /\ CancelDelete({call[c].new})
    /\ UnlinkOne(target)
    /\ pending_deletes' = [j \in Ino |->
                             IF j \in target THEN {}
                             ELSE IF j = i /\ call[c].is_dirty /\ call[c].xet_hash # NoHash
                             THEN pending_deletes[j] \cup {call[c].old}
                             ELSE pending_deletes[j]]
    /\ path' = [j \in Ino |-> IF j \in target THEN NoPath
                              ELSE IF j = i THEN call[c].new ELSE path[j]]
    /\ Return(c)
    /\ UNCHANGED <<used, hub, signals, loopVars>>

\* rmdir() of some directory flushes the queue first; a directory is no file on the Hub.
RmdirFlush(c) ==
    /\ Happens("rmdir")
    /\ Idle(c)
    /\ TakeDeletes(c)
    /\ Happens("quiet") => phase = "recv"
    /\ Goto(c, "rmdir_flush")
    /\ UNCHANGED <<inodeVars, hub, signals, loopVars>>

\* The answer to the delete batch of a flusher.
DeletesAnswered(f) ==
    \/ Commits(NoAdds, Elements(sent[f])) /\ FinishDeletes(f, TRUE)
    \/ Refuses /\ FinishDeletes(f, FALSE)
    \/ LosesAnswer(NoAdds, Elements(sent[f])) /\ FinishDeletes(f, FALSE)

RmdirFlushed(c) ==
    /\ pc[c] = "rmdir_flush"
    /\ DeletesAnswered(c)
    /\ Return(c)
    /\ UNCHANGED <<inodeVars, signals, loopVars>>

------------------------------------------------------------------------------
(* flush_loop *)

\* The first signal and those of the debounce window; some may come after it.
LoopRecv ==
    /\ phase = "recv"
    /\ Happens("quiet") => \A c \in Client : Idle(c)
    /\ \E S \in SUBSET signals :
          /\ S # {}
          /\ signals' = signals \ S
          /\ todo' = S \ {Wake}
    /\ phase' = "take"
    /\ UNCHANGED <<queueVars, inodeVars, hub, batch, item, clientVars>>

AfterDeletes == IF todo = {} THEN "recv" ELSE "snapshot"

LoopTake ==
    /\ phase = "take"
    /\ \/ TakeDeletes(Loop) /\ phase' = "deletes"
       \/ NothingQueued /\ phase' = AfterDeletes
    /\ UNCHANGED <<inodeVars, hub, signals, todo, batch, item, clientVars>>

LoopDeletesAnswered ==
    /\ phase = "deletes"
    /\ DeletesAnswered(Loop)
    /\ phase' = AfterDeletes
    /\ UNCHANGED <<inodeVars, signals, todo, batch, item, clientVars>>

\* flush_batch leaves out what is unlinked or clean.
EndBatch ==
    /\ phase' = "recv" /\ batch' = {}
    /\ item' = [i \in Ino |-> NoItem]

LoopSnapshot ==
    LET toFlush == {i \in todo : path[i] # NoPath /\ IsDirty(i)}
    IN
    /\ phase = "snapshot"
    /\ todo' = {}
    /\ IF toFlush = {}
       THEN EndBatch
       ELSE /\ phase' = "upload" /\ batch' = toFlush
            /\ item' = [i \in Ino |->
                          IF i \notin toFlush THEN NoItem
                          ELSE [path |-> path[i], deletes |-> pending_deletes[i],
                                gen |-> dirty_generation[i], prev |-> xet_hash[i], up |-> Empty]]
    /\ UNCHANGED <<queueVars, inodeVars, hub, signals, clientVars>>

\* Mutant: apply_commit without clear_dirty_if's comparison.
ApplyCommitUnchecked(S, items) ==
    LET U == {i \in S : path[i] # NoPath}
    IN
    /\ dirty_generation' = [i \in Ino |-> IF i \in U THEN 0 ELSE dirty_generation[i]]
    /\ xet_hash' = [i \in Ino |-> IF i \in U THEN items[i].up ELSE xet_hash[i]]
    /\ pending_deletes' = [i \in Ino |-> IF i \in U THEN {} ELSE pending_deletes[i]]
    /\ UNCHANGED <<path, used, local>>

\* apply_commit on the inodes of S: only those whose generation did not move.
ApplyCommit(S, items) ==
    LET U == {i \in S : path[i] # NoPath /\ dirty_generation[i] = items[i].gen}
    IN
    /\ dirty_generation' = [i \in Ino |-> IF i \in U THEN 0 ELSE dirty_generation[i]]
    /\ xet_hash' = [i \in Ino |-> IF i \in U THEN items[i].up ELSE xet_hash[i]]
    /\ pending_deletes' = [i \in Ino |-> IF i \in U THEN {} ELSE pending_deletes[i]]
    /\ UNCHANGED <<path, used, local>>

\* upload_files reads the staging files; a file whose hash is the committed one and
\* that has no old name to delete is done, and needs no commit.
LoopUploaded ==
    LET uploaded == [i \in Ino |-> IF i \in batch THEN [item[i] EXCEPT !.up = local[i]] ELSE item[i]]
        unchanged == {i \in batch : item[i].deletes = {} /\ item[i].prev = local[i]}
    IN
    /\ phase = "upload"
    /\ ApplyCommit(unchanged, uploaded)
    /\ IF unchanged = batch
       THEN EndBatch
       ELSE phase' = "commit" /\ batch' = batch \ unchanged /\ item' = uploaded
    /\ UNCHANGED <<queueVars, hub, signals, todo, clientVars>>

LoopUploadFails ==
    /\ phase = "upload"
    /\ EndBatch
    /\ UNCHANGED <<queueVars, inodeVars, hub, signals, todo, clientVars>>

\* One Hub commit: every file of the batch, then every old name.
BatchAdds == [p \in {item[i].path : i \in batch} |-> item[CHOOSE i \in batch : item[i].path = p].up]
BatchDeletes == UNION {item[i].deletes : i \in batch}

LoopCommit ==
    /\ phase = "commit"
    /\ Commits(BatchAdds, BatchDeletes)
    /\ phase' = "apply"
    /\ UNCHANGED <<queueVars, inodeVars, signals, todo, batch, item, clientVars>>

LoopCommitFails ==
    /\ phase = "commit"
    /\ Refuses \/ LosesAnswer(BatchAdds, BatchDeletes)
    /\ EndBatch
    /\ UNCHANGED <<queueVars, inodeVars, signals, todo, clientVars>>

LoopApply ==
    /\ phase = "apply"
    /\ ApplyCommit(batch, item)
    /\ EndBatch
    /\ UNCHANGED <<queueVars, hub, signals, todo, clientVars>>

------------------------------------------------------------------------------
ClientStep(c) ==
    \/ \E i \in case.inodes, p \in case.paths : CreateInsert(c, i, p) \/ RenameValidate(c, i, p)
    \/ CreateCancel(c) \/ CreateFails(c)
    \/ \E i \in case.inodes : UnlinkDecide(c, i)
    \/ UnlinkEnqueue(c) \/ UnlinkLocal(c)
    \/ RenameRemote(c) \/ RenameRemoteFails(c) \/ RenameLocal(c)
    \/ RmdirFlush(c) \/ RmdirFlushed(c)

FileStep ==
    \/ \E i \in case.inodes, v \in Content : Write(i, v)
    \/ \E i \in case.inodes : Enqueue(i) \/ Truncate(i)

LoopStep ==
    \/ LoopRecv \/ LoopTake \/ LoopDeletesAnswered \/ LoopSnapshot
    \/ LoopUploaded \/ LoopUploadFails \/ LoopCommit \/ LoopCommitFails \/ LoopApply

Next ==
    /\ (\E c \in case.clients : ClientStep(c)) \/ FileStep \/ LoopStep
    /\ UNCHANGED case

Spec == Init /\ [][Next]_vars

------------------------------------------------------------------------------
(* Properties *)

\* Nothing is left to do: no file is dirty, no delete is queued or in flight, no
\* call and no cycle is under way.  A status of this state reads "all uploaded".
Settled ==
    /\ \A i \in Ino : path[i] # NoPath => ~IsDirty(i)
    /\ PendingDeleteCount = 0
    /\ phase = "recv"
    /\ \A c \in Client : Idle(c)

\* When nothing is left to do the Hub holds exactly the local tree: every file at
\* its name with its content, and nothing else.
InSync ==
    Settled =>
        \A p \in Path :
            hub[p] = IF LookupPath(p) = {} THEN Absent
                     ELSE local[CHOOSE i \in LookupPath(p) : TRUE]

\* A clean file is on the Hub under its name: the delete queue never holds, and a
\* batch never deletes, the name of a file that nothing would upload again.
CleanIsOnHub ==
    \A i \in Ino :
        path[i] # NoPath /\ ~IsDirty(i) /\ ~Locked(path[i]) =>
            /\ hub[path[i]] = xet_hash[i]
            /\ queued[path[i]] = 0

\* The books and the Hub agree on every clean file.
NamesSound == TypeOK /\ CleanIsOnHub
=============================================================================
