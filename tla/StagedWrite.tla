----------------------------- MODULE StagedWrite -----------------------------
(***************************************************************************)
(* The data path of advanced writes: what happens to the BYTES of a file   *)
(* between an application's write() and the Hub.  A writable open prepares *)
(* a staging file under the per-inode staging lock, writes go straight to  *)
(* it and mark the inode dirty by advancing dirty_generation, close and    *)
(* fsync put the inode on the flush channel, and one background task       *)
(* (flush_loop) locks, snapshots, uploads and commits batches of dirty     *)
(* inodes, clearing the dirty mark only if the generation did not move.    *)
(* Polling replaces the hash of a clean inode, the staging GC removes the  *)
(* staging files of clean ones.                                            *)
(*                                                                         *)
(* Names and Hub paths are the business of module HubSync; here a file is  *)
(* its inode number.  The content of a file is a number, a xet hash is the *)
(* content it stands for.                                                  *)
(***************************************************************************)
EXTENDS Integers, Sequences, FiniteSets

CONSTANTS
    Ino,            \* inode numbers; a number is never reused (next_inode only grows)
    Remote,         \* the inodes that exist, clean, on the Hub when the mount starts
    Client,         \* threads serving VFS calls; each has at most one file open
    MaxContent,     \* contents are 0..MaxContent, 0 is the empty file
    MaxGen,         \* no call that dirties an inode starts at this generation
    MaxSignals,     \* no call that enqueues starts with this many signals queued
    HasBudget,      \* --max-staging-size is set, so the staging GC may run
    Calls           \* the VFS calls the applications of this instance make

AllCalls == {"create", "open", "write", "setattr", "fsync", "unlink", "poll", "requeue", "flush", "reader_flush"}

ASSUME ConstantsAssumption ==
    /\ Ino \subseteq Nat \ {0} /\ Ino # {}
    /\ Remote \subseteq Ino
    /\ MaxContent \in Nat \ {0}
    /\ MaxGen \in Nat \ {0}
    /\ MaxSignals \in Nat \ {0}
    /\ HasBudget \in BOOLEAN
    /\ Calls \subseteq AllCalls

Content == 0..MaxContent
Empty == 0
NoFile == -1        \* no staging file on disk
Partial == -2       \* what an interrupted download leaves in the staging file
NoHash == -1        \* xet_hash: None
Hash == Content \cup {NoHash, Partial}   \* what an upload returns for it
Staged == Content \cup {NoFile, Partial}
Size(content) == IF content = Empty THEN 0 ELSE 1    \* zero or positive

Loop == "flush_loop"
Free == "free"
ASSUME ActorAssumption == Loop \notin Client /\ Free \notin Client

NoIno == 0

VARIABLES
    st,                 \* "free": number not allocated, "live": in the InodeTable, "gone"
    linked,             \* nlink > 0
    dirty_generation,   \* 0 = clean
    xet_hash,
    size,               \* entry.size, abstracted to zero or positive
    staging_is_current,
    staging,            \* the staging file of each inode
    lock,               \* holder of the per-inode staging lock
    fd,                 \* the inode each client has open for writing
    attached,           \* its handle still refers to the file in the staging directory
    pc, call,           \* where each client is in its call, and the call's locals
    signals,            \* the flush channel
    phase, todo, batch, item, changed,   \* flush_loop / flush_batch
    errors              \* flush_errors

inodeVars == <<st, linked, dirty_generation, xet_hash, size, staging_is_current>>
clientVars == <<fd, attached, pc, call>>
loopVars == <<phase, todo, batch, item, changed>>
vars == <<inodeVars, staging, lock, clientVars, signals, loopVars, errors>>

------------------------------------------------------------------------------
Actor == Client \cup {Loop}
OpenPhases == {"open_lock", "open_download", "open_install"}
SetattrPhases == {"setattr_lock", "setattr_download", "setattr_apply"}
ReleasePhases == {"release_reap", "release_unstage", "release_gc"}
PC == {"idle", "create_file", "write_mark", "unlink_drop"}
        \cup OpenPhases \cup SetattrPhases \cup ReleasePhases
\* The steps a call takes while it holds the staging lock of call[c].ino.
LockedPhases == {"open_download", "open_install", "setattr_download", "setattr_apply"}

Phase == {"recv", "lock", "upload", "unchanged", "commit", "apply", "gc", "gc_files", "gc_wait"}
\* The phases in which a batch that has been snapshotted is under way.
InFlight == {"upload", "unchanged", "commit", "apply"}

Call == [ino: Ino, hash: Hash, size: {0, 1}, truncate: BOOLEAN]
Item == [gen: Nat, prev: Hash, up: Staged]
\* The locals of a client that serves no call, and the item of an inode that is
\* in no batch: the code has no such values, the model resets them to these.
NoCall == [ino |-> CHOOSE i \in Ino : TRUE, hash |-> NoHash, size |-> 0, truncate |-> FALSE]
NoItem == [gen |-> 0, prev |-> NoHash, up |-> NoFile]

InodeTypes ==
    /\ st \in [Ino -> {"free", "live", "gone"}]
    /\ linked \in [Ino -> BOOLEAN]
    /\ dirty_generation \in [Ino -> Nat]
    /\ xet_hash \in [Ino -> Hash]
    /\ size \in [Ino -> {0, 1}]
    /\ staging_is_current \in [Ino -> BOOLEAN]

StagingTypes ==
    /\ staging \in [Ino -> Staged]
    /\ lock \in [Ino -> Actor \cup {Free}]

ClientTypes ==
    /\ fd \in [Client -> Ino \cup {NoIno}]
    /\ attached \in [Client -> BOOLEAN]
    /\ pc \in [Client -> PC]
    /\ call \in [Client -> Call]

LoopTypes ==
    /\ signals \in Seq(Ino)
    /\ phase \in Phase
    /\ todo \subseteq Ino
    /\ batch \subseteq Ino
    /\ changed \subseteq Ino
    /\ item \in [Ino -> Item]
    /\ errors \subseteq Ino

TypeOK == InodeTypes /\ StagingTypes /\ ClientTypes /\ LoopTypes

------------------------------------------------------------------------------
(* InodeEntry and InodeTable *)

IsDirty(i) == dirty_generation[i] > 0
HasOpenHandles(i) == \E c \in Client : fd[c] = i
OtherHandles(c, i) == \E d \in Client \ {c} : fd[d] = i

\* set_dirty on every inode of S.
SetDirty(S) ==
    dirty_generation' = [i \in Ino |-> dirty_generation[i] + (IF i \in S THEN 1 ELSE 0)]

\* Mutant: apply_commit without clear_dirty_if's comparison.
UnmovedUnchecked(S) == {i \in S : st[i] = "live"}

\* apply_commit for the inodes of S, with the generations snapshotted in item:
\* only an entry whose generation did not move takes the uploaded hash.
Unmoved(S) == {i \in S : st[i] = "live" /\ dirty_generation[i] = item[i].gen}

ApplyCommit(S) ==
    LET U == Unmoved(S) IN
    /\ dirty_generation' = [i \in Ino |-> IF i \in U THEN 0 ELSE dirty_generation[i]]
    /\ xet_hash' = [i \in Ino |-> IF i \in U THEN item[i].up ELSE xet_hash[i]]
    /\ staging_is_current' = [i \in Ino |-> i \in U \/ staging_is_current[i]]
    /\ size' = [i \in Ino |-> IF i \in U THEN Size(item[i].up) ELSE size[i]]
    /\ UNCHANGED <<st, linked>>

------------------------------------------------------------------------------
(* StagingCoordinator and StagingDir *)

\* Mutant: the per-inode lock is taken by nobody else's leave.
AcquireAnyway(a, i) == lock' = [lock EXCEPT ![i] = a]
Acquire(a, i) == lock[i] = Free /\ lock' = [lock EXCEPT ![i] = a]
Release(i) == lock' = [lock EXCEPT ![i] = Free]
\* Every guard of flush_batch is dropped at once.
ReleaseAll == lock' = [i \in Ino |-> IF lock[i] = Loop THEN Free ELSE lock[i]]

\* Remove a staging file: handles open on it keep the unlinked file.
TryRemove(i) ==
    /\ staging' = [staging EXCEPT ![i] = NoFile]
    /\ attached' = [c \in Client |-> attached[c] /\ fd[c] # i]

\* gc_one once it has the lock: the file goes only if the inode is still clean.
\* It neither awaits nor keeps the lock, so it is one step that needs it free.
GcOne(i) ==
    /\ lock[i] = Free
    /\ IF st[i] = "live" /\ ~IsDirty(i)
       THEN TryRemove(i)
       ELSE UNCHANGED <<staging, attached>>

\* staging_gc_candidates
GcCandidates == {i \in Ino : st[i] = "live" /\ linked[i] /\ ~IsDirty(i) /\ ~HasOpenHandles(i)}

------------------------------------------------------------------------------
(* FlushManager: enqueue, and requeue_dirty *)

Enqueue(i) == signals' = Append(signals, i)
SignalRoom == Len(signals) < MaxSignals
GenRoom(i) == dirty_generation[i] < MaxGen

\* Re-enqueue one dirty inode (requeue_dirty does so for each of dirty_inos).
RequeueDirty(i) ==
    /\ "requeue" \in Calls /\ SignalRoom
    /\ st[i] = "live" /\ linked[i] /\ IsDirty(i)
    /\ Enqueue(i)
    /\ UNCHANGED <<inodeVars, staging, lock, clientVars, loopVars, errors>>

\* flush(): a close or FlushFileBuffers takes the recorded error, through the
\* handle of a writer, or ("reader_flush") of somebody who only reads and whose
\* release() enqueues nothing.
TakeFlushError(i) ==
    /\ "flush" \in Calls /\ i \in errors
    /\ "reader_flush" \in Calls \/ \E c \in Client : pc[c] = "idle" /\ fd[c] = i
    /\ errors' = errors \ {i}
    /\ UNCHANGED <<inodeVars, staging, lock, clientVars, signals, loopVars>>

------------------------------------------------------------------------------
(* flush_loop and flush_batch *)

EndBatch == batch' = {} /\ changed' = {} /\ item' = [i \in Ino |-> NoItem]

\* Receive a signal and whatever else arrives before the debounce ends.
LoopRecv ==
    /\ phase = "recv"
    /\ \E n \in 1..Len(signals) :
         /\ todo' = {signals[k] : k \in 1..n}
         /\ signals' = SubSeq(signals, n + 1, Len(signals))
    /\ phase' = "lock"
    /\ UNCHANGED <<inodeVars, staging, lock, clientVars, batch, item, changed, errors>>

\* Acquire the staging locks one by one, holding the ones already acquired.
LoopLock ==
    /\ phase = "lock"
    /\ \E i \in todo :
         /\ Acquire(Loop, i)
         /\ todo' = todo \ {i}
    /\ UNCHANGED <<inodeVars, staging, clientVars, signals, phase, batch, item, changed, errors>>

\* With every lock held, snapshot the inodes that are worth flushing.
LoopSnapshot ==
    /\ phase = "lock" /\ todo = {}
    /\ LET held == {i \in Ino : lock[i] = Loop}
           dirty == {i \in held : st[i] = "live" /\ linked[i] /\ IsDirty(i)}
           ready == {i \in dirty : staging[i] # NoFile}
       IN
       /\ errors' = errors \cup (dirty \ ready)
       /\ batch' = ready
       /\ item' = [i \in Ino |-> IF i \in ready
                                 THEN [gen |-> dirty_generation[i], prev |-> xet_hash[i], up |-> NoFile]
                                 ELSE NoItem]
       /\ IF ready = {}
          THEN ReleaseAll /\ phase' = "gc"
          ELSE UNCHANGED lock /\ phase' = "upload"
    /\ UNCHANGED <<inodeVars, staging, clientVars, signals, todo, changed>>

\* upload_files reads one staging file to its end.
LoopUploadFile ==
    /\ phase = "upload"
    /\ \E i \in batch :
         /\ item[i].up = NoFile /\ staging[i] # NoFile
         /\ item' = [item EXCEPT ![i].up = staging[i]]
    /\ UNCHANGED <<inodeVars, staging, lock, clientVars, signals, phase, todo, batch, changed, errors>>

\* Mutant: the error return keeps the guards.
LoopUploadFailsHolding ==
    /\ phase = "upload"
    /\ errors' = errors \cup batch
    /\ phase' = "recv" /\ EndBatch
    /\ UNCHANGED <<inodeVars, staging, lock, clientVars, signals, todo>>

\* The upload session fails, or a file has vanished: the whole batch is
\* abandoned with an error for every file of it.
LoopUploadFails ==
    /\ phase = "upload"
    /\ errors' = errors \cup batch
    /\ ReleaseAll
    /\ phase' = "recv" /\ EndBatch
    /\ UNCHANGED <<inodeVars, staging, clientVars, signals, todo>>

\* Uploads are done: the guards are dropped, files whose hash is the one of
\* the last commit need no Hub commit.
LoopUploaded ==
    /\ phase = "upload"
    /\ \A i \in batch : item[i].up # NoFile
    /\ ReleaseAll
    /\ changed' = {i \in batch : item[i].up # item[i].prev}
    /\ phase' = "unchanged"
    /\ UNCHANGED <<inodeVars, staging, clientVars, signals, todo, batch, item, errors>>

LoopApplyUnchanged ==
    /\ phase = "unchanged"
    /\ ApplyCommit(batch \ changed)
    /\ batch' = changed
    /\ IF changed = {}
       THEN phase' = "gc" /\ item' = [i \in Ino |-> NoItem]
       ELSE phase' = "commit" /\ UNCHANGED item
    /\ UNCHANGED <<staging, lock, clientVars, signals, todo, changed, errors>>

LoopCommit ==
    /\ phase = "commit"
    /\ phase' = "apply"
    /\ UNCHANGED <<inodeVars, staging, lock, clientVars, signals, todo, batch, item, changed, errors>>

\* Mutant: a failed commit is not recorded.
LoopCommitFailsSilently ==
    /\ phase = "commit"
    /\ phase' = "recv" /\ EndBatch
    /\ UNCHANGED <<inodeVars, staging, lock, clientVars, signals, todo, errors>>

LoopCommitFails ==
    /\ phase = "commit"
    /\ errors' = errors \cup changed
    /\ phase' = "recv" /\ EndBatch
    /\ UNCHANGED <<inodeVars, staging, lock, clientVars, signals, todo>>

LoopApply ==
    /\ phase = "apply"
    /\ ApplyCommit(changed)
    /\ EndBatch
    /\ phase' = "gc"
    /\ UNCHANGED <<staging, lock, clientVars, signals, todo, errors>>

\* gc: rank the candidates once, then gc_one each while over the limit.  The
\* ranking is kept in todo; a candidate of the ranking may be dirty again or
\* open when its turn comes.
LoopGcRank ==
    /\ phase = "gc" /\ HasBudget /\ todo = {}
    /\ todo' = {i \in GcCandidates : staging[i] \notin {NoFile, Empty}}
    /\ phase' = "gc_files"
    /\ UNCHANGED <<inodeVars, staging, lock, clientVars, signals, batch, item, changed, errors>>

\* Still over the limit: gc_one on the next candidate, which waits for its lock.
LoopGcNext ==
    /\ phase = "gc_files"
    /\ \E i \in todo : batch' = {i} /\ todo' = todo \ {i}
    /\ phase' = "gc_wait"
    /\ UNCHANGED <<inodeVars, staging, lock, clientVars, signals, item, changed, errors>>

LoopGcOne ==
    /\ phase = "gc_wait"
    /\ \E i \in batch : GcOne(i)
    /\ phase' = "gc_files" /\ batch' = {}
    /\ UNCHANGED <<inodeVars, lock, fd, pc, call, signals, todo, item, changed, errors>>

\* Under the limit (again): the cycle is over.
LoopGcDone ==
    /\ phase \in {"gc", "gc_files"}
    /\ phase' = "recv" /\ todo' = {}
    /\ UNCHANGED <<inodeVars, staging, lock, clientVars, signals, batch, item, changed, errors>>

------------------------------------------------------------------------------
(* VFS calls.  A call starts on an idle client; every later step is taken   *)
(* by the thread serving it.                                                *)

Goto(c, label) == pc' = [pc EXCEPT ![c] = label]
Return(c) == Goto(c, "idle") /\ call' = [call EXCEPT ![c] = NoCall]
Keep == FALSE       \* the truncate flag of a call that has none
Start(c, name) == name \in Calls /\ pc[c] = "idle"
\* Begin a call on inode i whose locals are the entry's current hash and size.
Enter(c, i, truncate, label) ==
    /\ call' = [call EXCEPT ![c] = [ino |-> i, hash |-> xet_hash[i], size |-> size[i], truncate |-> truncate]]
    /\ Goto(c, label)
\* Calls name an inode once the reply to its create() (or lookup) told the
\* kernel its number; until then the kernel holds the parent directory's lock.
Known(i) == st[i] = "live" /\ ~\E c \in Client : pc[c] = "create_file" /\ call[c].ino = i
NoInodeChange == UNCHANGED inodeVars
NoLoopChange == UNCHANGED <<loopVars, errors>>

\* create(): the inode is inserted dirty under the inode lock ...
CreateInsert(c, i) ==
    /\ Start(c, "create") /\ fd[c] = NoIno
    /\ st[i] = "free"
    /\ st' = [st EXCEPT ![i] = "live"]
    /\ linked' = [linked EXCEPT ![i] = TRUE]
    /\ SetDirty({i})
    /\ Enter(c, i, Keep, "create_file")
    /\ UNCHANGED <<xet_hash, size, staging_is_current, staging, lock, fd, attached, signals>>
    /\ NoLoopChange

\* ... then its staging file is created and the handle installed, or the
\* inode is removed again when the disk refuses.
CreateFile(c) ==
    /\ pc[c] = "create_file"
    /\ LET i == call[c].ino IN
       /\ staging' = [staging EXCEPT ![i] = Empty]
       /\ fd' = [fd EXCEPT ![c] = i]
       /\ attached' = [attached EXCEPT ![c] = TRUE]
    /\ Return(c)
    /\ UNCHANGED <<lock, signals>>
    /\ NoInodeChange /\ NoLoopChange

CreateFileFails(c) ==
    /\ pc[c] = "create_file"
    /\ st' = [st EXCEPT ![call[c].ino] = "gone"]
    /\ Return(c)
    /\ UNCHANGED <<linked, dirty_generation, xet_hash, size, staging_is_current,
                   staging, lock, fd, attached, signals>>
    /\ NoLoopChange

\* open(): the entry is read before the staging lock is requested.
OpenStart(c, i, truncate) ==
    /\ Start(c, "open") /\ fd[c] = NoIno
    /\ Known(i) /\ GenRoom(i)
    /\ Enter(c, i, truncate, "open_lock")
    /\ UNCHANGED <<staging, lock, fd, attached, signals>>
    /\ NoInodeChange /\ NoLoopChange

CanReuseStaging(c) ==
    LET i == call[c].ino IN
    /\ ~call[c].truncate
    /\ IsDirty(i) \/ staging_is_current[i]
    /\ staging[i] # NoFile

NeedsDownload(c) == ~call[c].truncate /\ call[c].hash # NoHash /\ call[c].size > 0

\* open_advanced_write under the lock: reuse the staging file ...
OpenReuse(c) ==
    /\ pc[c] = "open_lock"
    /\ st[call[c].ino] = "live"
    /\ CanReuseStaging(c)
    /\ Acquire(c, call[c].ino)
    /\ Goto(c, "open_install")
    /\ UNCHANGED <<staging, fd, attached, call, signals>>
    /\ NoInodeChange /\ NoLoopChange

\* ... or clear the flag and start to download the hash open() saw ...
OpenDownload(c) ==
    /\ pc[c] = "open_lock"
    /\ st[call[c].ino] = "live"
    /\ ~CanReuseStaging(c) /\ NeedsDownload(c)
    /\ Acquire(c, call[c].ino)
    /\ staging_is_current' = [staging_is_current EXCEPT ![call[c].ino] = FALSE]
    /\ Goto(c, "open_download")
    /\ UNCHANGED <<st, linked, dirty_generation, xet_hash, size, staging, fd, attached, call, signals>>
    /\ NoLoopChange

\* ... or start from an empty file.
OpenCreate(c) ==
    /\ pc[c] = "open_lock"
    /\ st[call[c].ino] = "live"
    /\ ~CanReuseStaging(c) /\ ~NeedsDownload(c)
    /\ Acquire(c, call[c].ino)
    /\ LET i == call[c].ino
           mirrors == call[c].hash = NoHash /\ call[c].size = 0 IN
       /\ staging' = [staging EXCEPT ![i] = Empty]
       /\ staging_is_current' = [staging_is_current EXCEPT ![i] = mirrors /\ xet_hash[i] = call[c].hash]
    /\ Goto(c, "open_install")
    /\ UNCHANGED <<st, linked, dirty_generation, xet_hash, size, fd, attached, call, signals>>
    /\ NoLoopChange

OpenLockEnoent(c) ==
    /\ pc[c] = "open_lock"
    /\ st[call[c].ino] # "live" /\ lock[call[c].ino] = Free
    /\ Return(c)
    /\ UNCHANGED <<staging, lock, fd, attached, signals>>
    /\ NoInodeChange /\ NoLoopChange

\* The download ends; the cache is current only if polling did not move the
\* hash meanwhile.
OpenDownloaded(c) ==
    /\ pc[c] = "open_download"
    /\ LET i == call[c].ino IN
       /\ staging' = [staging EXCEPT ![i] = call[c].hash]
       /\ staging_is_current' =
            [staging_is_current EXCEPT ![i] = @ \/ (st[i] = "live" /\ xet_hash[i] = call[c].hash)]
    /\ Goto(c, "open_install")
    /\ UNCHANGED <<st, linked, dirty_generation, xet_hash, size, lock, fd, attached, call, signals>>
    /\ NoLoopChange

\* EIO: what was written so far stays on disk.
OpenDownloadFails(c) ==
    /\ pc[c] = "open_download"
    /\ \E left \in {staging[call[c].ino], Partial} :
         staging' = [staging EXCEPT ![call[c].ino] = left]
    /\ Release(call[c].ino)
    /\ Return(c)
    /\ UNCHANGED <<fd, attached, signals>>
    /\ NoInodeChange /\ NoLoopChange

\* Re-check the inode, mark it dirty, install the handle and drop the lock.
OpenInstall(c) ==
    /\ pc[c] = "open_install"
    /\ LET i == call[c].ino IN
       /\ st[i] = "live" /\ staging[i] # NoFile
       /\ SetDirty({i})
       /\ size' = IF call[c].truncate THEN [size EXCEPT ![i] = 0] ELSE size
       /\ fd' = [fd EXCEPT ![c] = i]
       /\ attached' = [attached EXCEPT ![c] = TRUE]
       /\ Release(i)
    /\ Return(c)
    /\ UNCHANGED <<st, linked, xet_hash, staging_is_current, staging, signals>>
    /\ NoLoopChange

\* EIO if the staging file vanished, ENOENT if the inode did.
OpenInstallFails(c) ==
    /\ pc[c] = "open_install"
    /\ st[call[c].ino] # "live" \/ staging[call[c].ino] = NoFile
    /\ Release(call[c].ino)
    /\ Return(c)
    /\ UNCHANGED <<staging, fd, attached, signals>>
    /\ NoInodeChange /\ NoLoopChange

\* write(): the bytes reach the file first (no staging lock is taken) ...
WriteAt(c, content) ==
    /\ Start(c, "write") /\ fd[c] # NoIno /\ GenRoom(fd[c])
    /\ staging' = IF attached[c] THEN [staging EXCEPT ![fd[c]] = content] ELSE staging
    /\ Enter(c, fd[c], Keep, "write_mark")
    /\ UNCHANGED <<lock, fd, attached, signals>>
    /\ NoInodeChange /\ NoLoopChange

\* ... and the inode is marked dirty in a second step, under the inode lock.
WriteMark(c) ==
    /\ pc[c] = "write_mark"
    /\ LET i == call[c].ino IN
       IF st[i] = "live"
       THEN SetDirty({i}) /\ size' = [size EXCEPT ![i] = 1]
       ELSE UNCHANGED <<dirty_generation, size>>
    /\ Return(c)
    /\ UNCHANGED <<st, linked, xet_hash, staging_is_current, staging, lock, fd, attached, signals>>
    /\ NoLoopChange

\* fsync(): enqueue, nothing is awaited.
Fsync(c) ==
    /\ Start(c, "fsync") /\ fd[c] # NoIno /\ SignalRoom
    /\ Enqueue(fd[c])
    /\ UNCHANGED <<staging, lock, clientVars>>
    /\ NoInodeChange /\ NoLoopChange

\* setattr(size): truncate here means a new size of zero.
SetattrStart(c, i, truncate) ==
    /\ Start(c, "setattr")
    /\ Known(i) /\ GenRoom(i) /\ SignalRoom
    /\ Enter(c, i, truncate, "setattr_lock")
    /\ UNCHANGED <<staging, lock, fd, attached, signals>>
    /\ NoInodeChange /\ NoLoopChange

\* Under the lock, an existing staging file is used as it is; a missing one is
\* downloaded when the file keeps some of its bytes, else created empty.
SetattrDownload(c) ==
    /\ pc[c] = "setattr_lock"
    /\ LET i == call[c].ino IN
       /\ Acquire(c, i)
       /\ staging[i] = NoFile /\ ~call[c].truncate
       /\ st[i] = "live" /\ xet_hash[i] # NoHash /\ size[i] > 0
       /\ Enter(c, i, Keep, "setattr_download")
    /\ UNCHANGED <<staging, fd, attached, signals>>
    /\ NoInodeChange /\ NoLoopChange

SetattrPrepare(c) ==
    /\ pc[c] = "setattr_lock"
    /\ LET i == call[c].ino IN
       /\ Acquire(c, i)
       /\ \/ staging[i] # NoFile /\ UNCHANGED staging
          \/ /\ staging[i] = NoFile
             /\ call[c].truncate \/ (st[i] = "live" /\ (xet_hash[i] = NoHash \/ size[i] = 0))
             /\ staging' = [staging EXCEPT ![i] = Empty]
    /\ Goto(c, "setattr_apply")
    /\ UNCHANGED <<fd, attached, call, signals>>
    /\ NoInodeChange /\ NoLoopChange

\* ENOENT: the entry to download from is gone.
SetattrEnoent(c) ==
    /\ pc[c] = "setattr_lock"
    /\ LET i == call[c].ino IN
       lock[i] = Free /\ staging[i] = NoFile /\ ~call[c].truncate /\ st[i] # "live"
    /\ Return(c)
    /\ UNCHANGED <<staging, lock, fd, attached, signals>>
    /\ NoInodeChange /\ NoLoopChange

SetattrDownloaded(c) ==
    /\ pc[c] = "setattr_download"
    /\ staging' = [staging EXCEPT ![call[c].ino] = call[c].hash]
    /\ Goto(c, "setattr_apply")
    /\ UNCHANGED <<lock, fd, attached, call, signals>>
    /\ NoInodeChange /\ NoLoopChange

SetattrDownloadFails(c) ==
    /\ pc[c] = "setattr_download"
    /\ \E left \in {staging[call[c].ino], Partial} :
         staging' = [staging EXCEPT ![call[c].ino] = left]
    /\ Release(call[c].ino)
    /\ Return(c)
    /\ UNCHANGED <<fd, attached, signals>>
    /\ NoInodeChange /\ NoLoopChange

\* The file is truncated (or set to a positive length: some other content) and
\* the entry updated under one inode write lock, then the inode is enqueued.
SetattrApply(c, resized) ==
    /\ pc[c] = "setattr_apply"
    /\ LET i == call[c].ino
           zero == call[c].truncate IN
       /\ zero \/ staging[i] # NoFile
       /\ staging' = [staging EXCEPT ![i] = IF zero THEN Empty ELSE resized]
       /\ SetDirty({i} \cap {j \in Ino : st[j] = "live"})
       /\ IF st[i] = "live"
          THEN /\ size' = [size EXCEPT ![i] = IF zero THEN 0 ELSE 1]
               /\ xet_hash' = IF zero THEN [xet_hash EXCEPT ![i] = NoHash] ELSE xet_hash
          ELSE UNCHANGED <<size, xet_hash>>
       /\ Enqueue(i)
       /\ Release(i)
    /\ Return(c)
    /\ UNCHANGED <<st, linked, staging_is_current, fd, attached>>
    /\ NoLoopChange

\* EIO: there is no file to resize.
SetattrApplyFails(c) ==
    /\ pc[c] = "setattr_apply"
    /\ ~call[c].truncate /\ staging[call[c].ino] = NoFile
    /\ Release(call[c].ino)
    /\ Return(c)
    /\ UNCHANGED <<staging, fd, attached, signals>>
    /\ NoInodeChange /\ NoLoopChange

\* release(): the handle leaves the map and the inode is enqueued, unless it
\* was unlinked.  The handle count drops in the next step.
ReleaseEnqueue(c) ==
    /\ pc[c] = "idle" /\ fd[c] # NoIno /\ SignalRoom
    /\ LET i == fd[c] IN
       /\ IF st[i] = "live" /\ ~linked[i] THEN UNCHANGED signals ELSE Enqueue(i)
       /\ Enter(c, i, Keep, "release_reap")
    /\ UNCHANGED <<staging, lock, fd, attached>>
    /\ NoInodeChange /\ NoLoopChange

\* Mutant: the last close drops the staging file of a linked inode too.
ReleaseReapDropsAll(c) ==
    /\ pc[c] = "release_reap"
    /\ fd' = [fd EXCEPT ![c] = NoIno]
    /\ attached' = [attached EXCEPT ![c] = FALSE]
    /\ Goto(c, "release_unstage")
    /\ UNCHANGED <<inodeVars, staging, lock, call, signals>>
    /\ NoLoopChange

\* reap_on_last_release: an orphan leaves the table, a clean inode is offered
\* to the GC.
ReleaseReap(c) ==
    /\ pc[c] = "release_reap"
    /\ LET i == call[c].ino
           last == ~OtherHandles(c, i)
           orphan == last /\ st[i] = "live" /\ ~linked[i] IN
       /\ fd' = [fd EXCEPT ![c] = NoIno]
       /\ attached' = [attached EXCEPT ![c] = FALSE]
       /\ st' = IF orphan THEN [st EXCEPT ![i] = "gone"] ELSE st
       /\ IF orphan THEN Goto(c, "release_unstage") /\ UNCHANGED call
          ELSE IF last /\ st[i] = "live" /\ ~IsDirty(i) /\ HasBudget
               THEN Goto(c, "release_gc") /\ UNCHANGED call
               ELSE Return(c)
    /\ UNCHANGED <<linked, dirty_generation, xet_hash, size, staging_is_current,
                   staging, lock, signals>>
    /\ NoLoopChange

\* drop_staging: no lock is taken.
ReleaseUnstage(c) ==
    /\ pc[c] = "release_unstage"
    /\ TryRemove(call[c].ino)
    /\ Return(c)
    /\ UNCHANGED <<lock, fd, signals>>
    /\ NoInodeChange /\ NoLoopChange

ReleaseGc(c) ==
    /\ pc[c] = "release_gc"
    /\ \/ GcOne(call[c].ino)
       \/ UNCHANGED <<staging, attached>>        \* under the limit
    /\ Return(c)
    /\ UNCHANGED <<lock, fd, signals>>
    /\ NoInodeChange /\ NoLoopChange

\* unlink(): the last link goes; without open handles the inode goes with it.
Unlink(c, i) ==
    /\ Start(c, "unlink")
    /\ Known(i) /\ linked[i]
    /\ linked' = [linked EXCEPT ![i] = FALSE]
    /\ IF HasOpenHandles(i)
       THEN UNCHANGED <<st, pc, call>>
       ELSE st' = [st EXCEPT ![i] = "gone"] /\ Enter(c, i, Keep, "unlink_drop")
    /\ UNCHANGED <<dirty_generation, xet_hash, size, staging_is_current,
                   staging, lock, fd, attached, signals>>
    /\ NoLoopChange

\* drop_locked
UnlinkDrop(c) ==
    /\ pc[c] = "unlink_drop"
    /\ lock[call[c].ino] = Free
    /\ TryRemove(call[c].ino)
    /\ Return(c)
    /\ UNCHANGED <<lock, fd, signals>>
    /\ NoInodeChange /\ NoLoopChange

\* update_remote_file: polling, live follow or a HEAD found another hash.
UpdateRemoteFile(i, hash) ==
    /\ "poll" \in Calls
    /\ st[i] = "live" /\ linked[i] /\ ~IsDirty(i)
    /\ hash # xet_hash[i]
    /\ xet_hash' = [xet_hash EXCEPT ![i] = hash]
    /\ size' = [size EXCEPT ![i] = Size(hash)]
    /\ staging_is_current' = [staging_is_current EXCEPT ![i] = FALSE]
    /\ UNCHANGED <<st, linked, dirty_generation, staging, lock, clientVars, signals>>
    /\ NoLoopChange

------------------------------------------------------------------------------
Init ==
    /\ st = [i \in Ino |-> IF i \in Remote THEN "live" ELSE "free"]
    /\ linked = [i \in Ino |-> i \in Remote]
    /\ dirty_generation = [i \in Ino |-> 0]
    /\ xet_hash = [i \in Ino |-> IF i \in Remote THEN 1 ELSE NoHash]
    /\ size = [i \in Ino |-> IF i \in Remote THEN 1 ELSE 0]
    /\ staging_is_current = [i \in Ino |-> FALSE]
    /\ staging = [i \in Ino |-> NoFile]
    /\ lock = [i \in Ino |-> Free]
    /\ fd = [c \in Client |-> NoIno]
    /\ attached = [c \in Client |-> FALSE]
    /\ pc = [c \in Client |-> "idle"]
    /\ call = [c \in Client |-> NoCall]
    /\ signals = <<>>
    /\ phase = "recv"
    /\ todo = {} /\ batch = {} /\ changed = {}
    /\ item = [i \in Ino |-> NoItem]
    /\ errors = {}

\* The background task.
LoopStep ==
    \/ LoopRecv \/ LoopLock \/ LoopSnapshot
    \/ LoopUploadFile \/ LoopUploadFails \/ LoopUploaded
    \/ LoopApplyUnchanged \/ LoopCommit \/ LoopCommitFails \/ LoopApply
    \/ LoopGcRank \/ LoopGcNext \/ LoopGcOne \/ LoopGcDone

\* Steps of a call that wait for a staging lock.
LockStep(c) ==
    \/ OpenReuse(c) \/ OpenDownload(c) \/ OpenCreate(c) \/ OpenLockEnoent(c)
    \/ SetattrDownload(c) \/ SetattrPrepare(c) \/ SetattrEnoent(c)
    \/ ReleaseGc(c) \/ UnlinkDrop(c)

\* The other steps of a call that has started.
CallStep(c) ==
    \/ CreateFile(c) \/ CreateFileFails(c)
    \/ OpenDownloaded(c) \/ OpenDownloadFails(c) \/ OpenInstall(c) \/ OpenInstallFails(c)
    \/ WriteMark(c)
    \/ SetattrDownloaded(c) \/ SetattrDownloadFails(c) \/ SetattrApplyFails(c)
    \/ \E v \in Content \ {Empty} : SetattrApply(c, v)
    \/ ReleaseReap(c) \/ ReleaseUnstage(c)

\* A call starts.
CallStart(c) ==
    \/ \E i \in Ino : CreateInsert(c, i) \/ Unlink(c, i)
    \/ \E i \in Ino, truncate \in BOOLEAN : OpenStart(c, i, truncate) \/ SetattrStart(c, i, truncate)
    \/ \E v \in Content \ {Empty} : WriteAt(c, v)
    \/ Fsync(c) \/ ReleaseEnqueue(c)

Environment ==
    \/ \E i \in Ino : RequeueDirty(i) \/ TakeFlushError(i)
    \/ \E i \in Ino, h \in Content : UpdateRemoteFile(i, h)

Next ==
    \/ LoopStep
    \/ \E c \in Client : LockStep(c) \/ CallStep(c) \/ CallStart(c)
    \/ Environment

Spec == Init /\ [][Next]_vars

\* tokio polls every ready task, requests to the Hub and to the CAS end (their
\* clients have timeouts), and its mutex hands the lock over in FIFO order, so a
\* task waiting for a staging lock that keeps being released gets it.  Nothing
\* obliges an application to make another call.
Fairness ==
    /\ WF_vars(LoopStep) /\ SF_vars(LoopLock) /\ SF_vars(LoopGcOne)
    /\ \A c \in Client : WF_vars(CallStep(c)) /\ SF_vars(LockStep(c))

FairSpec == Spec /\ Fairness

------------------------------------------------------------------------------
(* Properties *)

\* A call has changed the staging file of i and has yet to mark the inode.
Touched(i) ==
    \E c \in Client : /\ call[c].ino = i
                      /\ \/ pc[c] = "write_mark" /\ attached[c]
                         \/ pc[c] \in {"open_install", "setattr_apply"}

\* The content the Hub has for an entry: no hash stands for an empty file.
RemoteContent(i) == IF xet_hash[i] = NoHash THEN Empty ELSE xet_hash[i]

\* inode.rs promises that staging_is_current is "true when the on-disk staging
\* file is known to match the remote at xet_hash".  For a clean inode that is
\* what makes dropping the dirty mark and reusing the file safe: whatever was
\* written through a handle has been uploaded, in whichever order writes, the
\* snapshot, the upload, the commit, a poll and another open interleaved.
CacheIsCurrent ==
    \A i \in Ino :
        (st[i] = "live" /\ ~IsDirty(i) /\ staging_is_current[i] /\ staging[i] # NoFile /\ ~Touched(i))
            => staging[i] = RemoteContent(i)

\* The staging file is the only copy of bytes that are not uploaded yet: as
\* long as a linked inode is dirty (and its create() has returned) the file is
\* on disk, so that flush_batch never meets "staging file missing".
DirtyHasBytes ==
    \A i \in Ino :
        (Known(i) /\ linked[i] /\ IsDirty(i)) => staging[i] # NoFile

\* The inode is on its way to the Hub: queued, or in the hands of flush_loop.
OnItsWay(i) ==
    \/ \E k \in 1..Len(signals) : signals[k] = i
    \/ phase = "lock" /\ (i \in todo \/ lock[i] = Loop)
    \/ phase \in InFlight /\ i \in batch

\* Unsaved bytes that nobody has in hand: dirty, linked, not open, no call under
\* way on the file and no failure on record that flush() would report.
Unattended(i) ==
    /\ st[i] = "live" /\ linked[i] /\ IsDirty(i)
    /\ i \notin errors
    /\ ~HasOpenHandles(i)
    /\ ~\E c \in Client : pc[c] # "idle" /\ call[c].ino = i

\* Whatever the order in which writers, closes and the background flush
\* overlapped (a write that outdates a flush under way included), unsaved bytes
\* nobody has in hand are queued or being flushed: none waits for a remount.
NothingForgotten == \A i \in Ino : Unattended(i) => OnItsWay(i)

\* flush_batch holds the staging locks over the upload "so concurrent O_TRUNC
\* (open_advanced_write, setattr) [...] can't truncate [...] the file xet-core is
\* reading": until a file has been read only a write() may change its bytes.
UploadNotTruncated ==
    [][\A i \in Ino :
         (phase = "upload" /\ i \in batch /\ item[i].up = NoFile /\ staging'[i] \notin {staging[i], NoFile})
            => \E c \in Client : pc[c] = "idle" /\ pc'[c] = "write_mark" /\ fd[c] = i]_vars

\* Every call returns: nobody waits for ever on a staging lock, though flush_batch
\* holds several at a time and keeps them over an upload.
CallsReturn == \A c \in Client : pc[c] # "idle" ~> pc[c] = "idle"

\* Every cycle of flush_loop ends: its GC needs the locks that its upload held, and
\* an abandoned batch leaves none behind.
CycleEnds == phase # "recv" ~> phase = "recv"

\* Unsaved bytes nobody has in hand reach the Hub, or a failure is recorded, or
\* somebody takes the file up again.
UnattendedSettles == \A i \in Ino : Unattended(i) ~> ~Unattended(i)
==============================================================================
