---------------------------- MODULE StreamingWrite ----------------------------
(***************************************************************************)
(* Streaming writes, the default mode: open(O_TRUNC) and create() give a   *)
(* handle a channel, write() appends messages to it, a worker feeds them   *)
(* to the CAS, and the file is committed to the Hub by whoever comes first *)
(* of flush(), link() and release().  Several handles may be open on one   *)
(* inode: a newer O_TRUNC writer supersedes the active one.  All drivers   *)
(* of a commit, writer creation and unlink() share the per-inode lock;     *)
(* write() and the deferral of a flush do not take it.  An open() waits    *)
(* for a deferred or failed commit through the hook registered in          *)
(* pending_commits, and so does the drain at shutdown.                     *)
(*                                                                         *)
(* The module follows one inode.  What a channel holds is the number of    *)
(* messages sent to it; the hash of its upload is <<handle, number>>.      *)
(***************************************************************************)
EXTENDS Integers, Sequences, FiniteSets

CONSTANTS
    Client,         \* threads serving VFS calls
    Handle,         \* file handles, given out in order and never reused
    MaxWrites,      \* nothing is written any more when the channels got this many messages
    Remote,         \* whether the file is on the Hub at mount time: the choices of the instance
    Events          \* the calls of the instance, and situations it leaves out unless named here

AllEvents == {"unlink", "link", "drain", "worker_fails", "ghost", "shadowed", "pool"}

Drain == -1         \* the drain itself, beside the handles and the clients
None == 0           \* no handle
NoInfo == -1        \* pending_info: None
Absent == <<0, 0>>      \* xet_hash: None, no such file on the Hub
Original == <<0, 1>>    \* the content at mount time

ASSUME StreamingAssumption ==
    /\ Handle \subseteq Nat \ {None} /\ Handle # {}
    /\ Drain \notin Client
    /\ Client \cap Handle = {}
    /\ MaxWrites \in Nat
    /\ Remote \subseteq BOOLEAN /\ Remote # {}
    /\ Events \subseteq AllEvents

\* A handle also names the future of the shutdown drain that works on it.
Actor == Client \cup Handle \cup {Drain}
Hash == {Absent, Original} \cup (Handle \X Nat)

VARIABLES
    st,                 \* "none": not created yet, "live": in the InodeTable, "gone"
    linked,             \* nlink > 0
    dirty_generation,   \* 0 = clean
    xet_hash,
    hub,                \* what the Hub has under the name
    lock,               \* the per-inode lock: its holder, then its waiters (tokio's is FIFO)
    open_files,         \* the handles in open_files
    open_handles,       \* the handles counted by bump_open_handles
    ch,                 \* the channel of each handle
    pending_commits,    \* whose hook is registered for the inode
    pc, call,           \* where each actor is in its call, and the call's locals
    due                 \* history: the unfinished writers when the drain began

inodeVars == <<st, linked, dirty_generation, xet_hash>>
vars == <<inodeVars, hub, lock, open_files, open_handles, ch, pending_commits, pc, call, due>>

HookPhases == {"install", "spot", "fulfil", "unhook"}
CommitPhases == {"start", "finish", "hub", "apply", "succeeded", "failed"}
PC == {"idle"} \cup HookPhases \cup CommitPhases
        \cup {"demote", "commit_lock", "commit_unlock"}
        \cup {"release_check", "release_lock", "release_unlock", "release_drop"}
        \cup {"open_await", "open_lock", "open_setup", "open_supersede", "open_install"}
        \cup {"unlink_lock", "unlink_remote", "unlink_local"}
        \cup {"drain_flush", "drain_release", "drain_join", "drain_await", "drain_done"}

InodeSnapshot == [xet_hash: Hash, existed_before: BOOLEAN]
CommitState == {"unused", "Writing", "Deferred", "Committing", "Committed", "Failed"}

StreamingChannel == [
    state: CommitState,
    generation: Nat,            \* dirty_generation_at_open
    snapshot: InodeSnapshot,
    sent: Nat,                  \* messages enqueued and acknowledged
    worker: {"running", "failed", "exited"},    \* "failed": error is set
    pending_info: {NoInfo} \cup Nat,
    hook: {"none", "set", "busy"},      \* "busy": being fulfilled under the hook's mutex
    stored: {NoInfo} \cup Nat]         \* history: what the Hub accepted of this channel

Call == [op: {"none", "flush", "release", "link", "open", "unlink"},
         h: Handle \cup {None}, after: PC, retried: BOOLEAN,
         info: {NoInfo} \cup Nat,
         new: Handle \cup {None}, snapshot: InodeSnapshot, watch: Handle \cup {None}]

NoSnapshot == [xet_hash |-> Absent, existed_before |-> FALSE]
NoCall == [op |-> "none", h |-> None, after |-> "idle", retried |-> FALSE, info |-> NoInfo,
           new |-> None, snapshot |-> NoSnapshot, watch |-> None]
Unused == [state |-> "unused", generation |-> 0, snapshot |-> NoSnapshot, sent |-> 0,
           worker |-> "exited", pending_info |-> NoInfo, hook |-> "none", stored |-> NoInfo]

\* Every variable has its type.
TypeOK ==
    /\ st \in {"none", "live", "gone"} /\ linked \in BOOLEAN
    /\ dirty_generation \in Nat
    /\ xet_hash \in Hash /\ hub \in Hash
    /\ lock \in Seq(Actor)
    /\ open_files \subseteq Handle /\ open_handles \subseteq Handle
    /\ ch \in [Handle -> StreamingChannel]
    /\ pending_commits \in Handle \cup {None}
    /\ pc \in [Actor -> PC] /\ call \in [Actor -> Call]
    /\ due \subseteq Handle

Init ==
    /\ linked \in Remote
    /\ st = IF linked THEN "live" ELSE "none"
    /\ dirty_generation = 0
    /\ xet_hash = IF linked THEN Original ELSE Absent
    /\ hub = xet_hash
    /\ lock = <<>>
    /\ open_files = {} /\ open_handles = {}
    /\ ch = [h \in Handle |-> Unused]
    /\ pending_commits = None
    /\ pc = [a \in Actor |-> "idle"] /\ call = [a \in Actor |-> NoCall]
    /\ due = {}

------------------------------------------------------------------------------
(* Helpers *)

\* channel_is_terminal, and the error the worker left.
Terminal(h) == ch[h].state \in {"Committed", "Failed"}
HasError(h) == ch[h].worker = "failed"
OwnsGeneration(h) == ch[h].generation = dirty_generation

\* streaming_channel_for: the open channels that own the inode's dirty bytes.
ActiveChannels ==
    {h \in open_files : st = "live" /\ OwnsGeneration(h) /\ ~Terminal(h)}
Active == IF ActiveChannels = {} THEN None ELSE CHOOSE h \in ActiveChannels : TRUE

\* A release() hands its commit over, hook included, under the write lock of open_files.
FilesLocked == \E a \in Actor : pc[a] \in HookPhases /\ call[a].after = "release_check"

Goto(a, step) == pc' = [pc EXCEPT ![a] = step]
\* The drain's future of a handle goes on from its flush to its release.
Return(a) ==
    /\ Goto(a, IF a \in Handle /\ call[a].op = "flush" THEN "drain_release" ELSE "idle")
    /\ call' = [call EXCEPT ![a] = NoCall]
Enter(a, op, h, after) ==
    call' = [call EXCEPT ![a] = [NoCall EXCEPT !.op = op, !.h = h, !.after = after]]
Keep(a, step) == Goto(a, step) /\ UNCHANGED call

Holds(a) == lock # <<>> /\ Head(lock) = a
Queue(a) == lock' = Append(lock, a)
Unlock == lock' = Tail(lock)

NextHandle == CHOOSE h \in Handle : ch[h].state = "unused" /\ \A g \in Handle : g < h => ch[g].state # "unused"
HandleLeft == \E h \in Handle : ch[h].state = "unused"

NoInodeChange == UNCHANGED <<inodeVars, hub>>
NoFilesChange == UNCHANGED <<open_files, open_handles>>

------------------------------------------------------------------------------
(* The commit hook.  A call enters at "install" or "fulfil" and goes on at    *)
(* call[a].after.                                                             *)

\* "shadowed": the hook of an unfinished commit is not registered, because the one of a
\* superseded writer, whose flush() was under way, still is.
Shadowed(h) == ch[h].hook = "none" /\ pending_commits # None /\ ~Terminal(h)

\* install_commit_hook: an existing hook is kept, an existing registration too.
InstallHook(a) ==
    LET h == call[a].h
    IN
    /\ pc[a] = "install" /\ ch[h].hook # "busy"
    /\ Shadowed(h) => "shadowed" \in Events
    /\ ch' = [ch EXCEPT ![h].hook = "set"]
    /\ pending_commits' = IF ch[h].hook = "none" /\ pending_commits = None THEN h ELSE pending_commits
    /\ Keep(a, "spot")
    /\ UNCHANGED <<lock, due>> /\ NoInodeChange /\ NoFilesChange

\* Mutant: a channel that has reached its end is left with an open hook.
HookOnTheSpotForgotten(a) ==
    /\ pc[a] = "spot"
    /\ Keep(a, call[a].after)
    /\ UNCHANGED <<lock, ch, pending_commits, due>> /\ NoInodeChange /\ NoFilesChange

\* A channel that has reached its end gets the hook fulfilled on the spot.
HookOnTheSpot(a) ==
    /\ pc[a] = "spot"
    /\ Keep(a, IF Terminal(call[a].h) THEN "fulfil" ELSE call[a].after)
    /\ UNCHANGED <<lock, ch, pending_commits, due>> /\ NoInodeChange /\ NoFilesChange

\* fulfill_commit_hook, first half: the sender is taken and every waiter wakes.
FulfilHook(a) ==
    LET h == call[a].h
    IN
    /\ pc[a] = "fulfil" /\ ch[h].hook # "busy"
    /\ IF ch[h].hook = "none"
       THEN Keep(a, call[a].after) /\ UNCHANGED ch
       ELSE /\ ch' = [ch EXCEPT ![h].hook = "busy"]
            /\ Goto(a, "unhook")
            /\ call' = [b \in Actor |-> IF call[b].watch = h THEN [call[b] EXCEPT !.watch = None] ELSE call[b]]
    /\ UNCHANGED <<lock, pending_commits, due>> /\ NoInodeChange /\ NoFilesChange

\* Second half: only this hook's own registration is removed.
RemoveHook(a) ==
    LET h == call[a].h
    IN
    /\ pc[a] = "unhook"
    /\ ch' = [ch EXCEPT ![h].hook = "none"]
    /\ pending_commits' = IF pending_commits = h THEN None ELSE pending_commits
    /\ Keep(a, call[a].after)
    /\ UNCHANGED <<lock, due>> /\ NoInodeChange /\ NoFilesChange

\* await_pending_commit: the registered hook, unless it has its result already.
Awaited == IF pending_commits # None /\ ch[pending_commits].hook = "set" THEN pending_commits ELSE None

------------------------------------------------------------------------------
(* write() and the worker *)

Written == UNION {{h} \X (1..ch[h].sent) : h \in Handle}

\* write(): the state is checked and the message enqueued under the state mutex.  The
\* kernel serialises the writes of a handle and does not release it under them.
Write(h) ==
    /\ h \in open_files /\ ~FilesLocked
    /\ ch[h].state \in {"Writing", "Deferred"} /\ ~HasError(h)
    /\ Cardinality(Written) < MaxWrites
    /\ ch' = [ch EXCEPT ![h].sent = @ + 1]
    /\ UNCHANGED <<lock, pending_commits, pc, call, due>> /\ NoInodeChange /\ NoFilesChange

\* streaming_worker: add_data fails, what follows is drained.  (The error of a
\* superseded channel makes no difference any more.)
WorkerFails(h) ==
    /\ "worker_fails" \in Events
    /\ ch[h].worker = "running" /\ ch[h].sent > 0 /\ ~Terminal(h)
    /\ ch' = [ch EXCEPT ![h].worker = "failed"]
    /\ UNCHANGED <<lock, pending_commits, pc, call, due>> /\ NoInodeChange /\ NoFilesChange

------------------------------------------------------------------------------
(* flush() *)

\* flush(): an error or an end is reported; a dup'd descriptor (another process than
\* the opener) or an empty channel defers the commit to release().
Flush(a, h, dup) ==
    /\ ~FilesLocked
    /\ IF HasError(h) \/ Terminal(h) \/ h \notin open_files
       THEN /\ a \in Handle     \* for a client nothing happens
            /\ Keep(a, "drain_release") /\ UNCHANGED lock
       ELSE IF dup \/ ch[h].sent = 0
       THEN /\ Goto(a, "install") /\ Enter(a, "flush", h, "demote")
            /\ UNCHANGED lock
       ELSE /\ Goto(a, "commit_lock") /\ Enter(a, "flush", h, "start")
            /\ Queue(a)
    /\ UNCHANGED <<ch, pending_commits, due>> /\ NoInodeChange /\ NoFilesChange

FlushStart(c, h, dup) == pc[c] = "idle" /\ h \in open_files /\ Flush(c, h, dup)

\* Mutant: a commit under way is demoted, too.
DemoteAny(a) ==
    /\ pc[a] = "demote"
    /\ ch' = [ch EXCEPT ![call[a].h].state = IF Terminal(call[a].h) THEN @ ELSE "Deferred"]
    /\ Return(a)
    /\ UNCHANGED <<lock, pending_commits, due>> /\ NoInodeChange /\ NoFilesChange

\* defer_commit, after the hook.
Demote(a) ==
    /\ pc[a] = "demote"
    /\ ch' = [ch EXCEPT ![call[a].h].state = IF @ = "Writing" THEN "Deferred" ELSE @]
    /\ Return(a)
    /\ UNCHANGED <<lock, pending_commits, due>> /\ NoInodeChange /\ NoFilesChange

\* commit_streaming_now: the lock, the error, the state, the hook.
CommitLocked(a) ==
    /\ pc[a] = "commit_lock" /\ Holds(a)
    /\ IF HasError(call[a].h) \/ Terminal(call[a].h)
       THEN Unlock /\ Return(a)
       ELSE Keep(a, "install") /\ UNCHANGED lock
    /\ UNCHANGED <<ch, pending_commits, due>> /\ NoInodeChange /\ NoFilesChange

CommitUnlock(a) ==
    /\ pc[a] = "commit_unlock"
    /\ Unlock /\ Return(a)
    /\ UNCHANGED <<ch, pending_commits, due>> /\ NoInodeChange /\ NoFilesChange

\* link() of a file without a committed hash commits its active channel first; the
\* channel is looked up without the lock.  The alias is another file.
LinkStart(c) ==
    /\ "link" \in Events
    /\ pc[c] = "idle" /\ ~FilesLocked
    /\ st = "live" /\ linked
    /\ dirty_generation > 0 \/ xet_hash = Absent
    /\ Active # None
    /\ Goto(c, "commit_lock") /\ Enter(c, "link", Active, "start")
    /\ Queue(c)
    /\ UNCHANGED <<ch, pending_commits, due>> /\ NoInodeChange /\ NoFilesChange

------------------------------------------------------------------------------
(* streaming_commit, run under the lock by flush(), link() and release() *)

\* An unlinked inode or a superseded channel is not committed.
SkipCommit(h) == st # "live" \/ ~linked \/ ~OwnsGeneration(h)

\* The state becomes Committing before Finish is sent; an upload that a failed
\* commit left in pending_info is taken.
CommitStart(a) ==
    LET h == call[a].h
    IN
    /\ pc[a] = "start"
    /\ IF SkipCommit(h)
       THEN Keep(a, "succeeded") /\ UNCHANGED ch
       ELSE /\ ch' = [ch EXCEPT ![h].state = "Committing", ![h].pending_info = NoInfo]
            /\ call' = [call EXCEPT ![a].info = ch[h].pending_info]
            /\ Goto(a, IF ch[h].pending_info = NoInfo THEN "finish" ELSE "hub")
    /\ UNCHANGED <<lock, pending_commits, due>> /\ NoInodeChange /\ NoFilesChange

\* What the worker has fed to the CAS when Finish reaches it.
Upload(h) == ch[h].sent

\* Finish: the worker answers with the upload of all it was sent, or with an error,
\* and exits; a worker that exited before cannot be asked again.
CommitFinish(a) ==
    LET h == call[a].h
    IN
    /\ pc[a] = "finish"
    /\ ch' = [ch EXCEPT ![h].worker = "exited"]
    /\ \/ /\ ch[h].worker = "running"
          /\ call' = [call EXCEPT ![a].info = Upload(h)]
          /\ Goto(a, "hub")
       \/ Keep(a, "failed")
    /\ UNCHANGED <<lock, pending_commits, due>> /\ NoInodeChange /\ NoFilesChange

\* The Hub commits the file.
CommitHub(a) ==
    LET h == call[a].h
    IN
    /\ pc[a] = "hub"
    /\ hub' = <<h, call[a].info>>
    /\ ch' = [ch EXCEPT ![h].stored = call[a].info]
    /\ Keep(a, "apply")
    /\ UNCHANGED <<inodeVars, lock, pending_commits, due>> /\ NoFilesChange

\* The Hub refuses: the upload is kept for a retry.
CommitHubFails(a) ==
    /\ pc[a] = "hub"
    /\ ch' = [ch EXCEPT ![call[a].h].pending_info = call[a].info]
    /\ Keep(a, "failed")
    /\ UNCHANGED <<lock, pending_commits, due>> /\ NoInodeChange /\ NoFilesChange

\* apply_commit, and Committed before the inode table is unlocked.
CommitApply(a) ==
    LET h == call[a].h
    IN
    /\ pc[a] = "apply"
    /\ IF st = "live" /\ OwnsGeneration(h)
       THEN dirty_generation' = 0 /\ xet_hash' = <<h, call[a].info>>
       ELSE UNCHANGED <<dirty_generation, xet_hash>>
    /\ ch' = [ch EXCEPT ![h].state = "Committed"]
    /\ Keep(a, "succeeded")
    /\ UNCHANGED <<st, linked, hub, lock, pending_commits, due>> /\ NoFilesChange

\* The caller: Committed (a skipped commit, too), then the hook.
CommitSucceeded(a) ==
    /\ pc[a] = "succeeded"
    /\ ch' = [ch EXCEPT ![call[a].h].state = "Committed"]
    /\ Goto(a, "fulfil")
    /\ call' = [call EXCEPT ![a].after = IF call[a].op = "release" THEN "release_unlock" ELSE "commit_unlock"]
    /\ UNCHANGED <<lock, pending_commits, due>> /\ NoInodeChange /\ NoFilesChange

\* flush() and link() leave the hook and pending_info for release().
CommitFailed(a) ==
    /\ pc[a] = "failed" /\ call[a].op # "release"
    /\ Unlock /\ Return(a)
    /\ UNCHANGED <<ch, pending_commits, due>> /\ NoInodeChange /\ NoFilesChange

\* release() retries once if only the Hub commit failed.
MayRetry(a) == ch[call[a].h].pending_info # NoInfo /\ ~call[a].retried

ReleaseRetry(a) ==
    /\ pc[a] = "failed" /\ call[a].op = "release" /\ MayRetry(a)
    /\ call' = [call EXCEPT ![a].retried = TRUE]
    /\ Goto(a, "start")
    /\ UNCHANGED <<lock, ch, pending_commits, due>> /\ NoInodeChange /\ NoFilesChange

\* revert_inode: a created file goes, an overwritten one is as it was before.
RevertInode(snapshot) ==
    IF ~snapshot.existed_before
    THEN st' = "gone" /\ linked' = FALSE /\ UNCHANGED <<dirty_generation, xet_hash>>
    ELSE /\ dirty_generation' = IF st = "live" THEN 0 ELSE dirty_generation
         /\ xet_hash' = IF st = "live" THEN snapshot.xet_hash ELSE xet_hash
         /\ UNCHANGED <<st, linked>>

ReleaseFailed(a) ==
    LET h == call[a].h
    IN
    /\ pc[a] = "failed" /\ call[a].op = "release" /\ ~MayRetry(a)
    /\ RevertInode(ch[h].snapshot)
    /\ ch' = [ch EXCEPT ![h].state = "Failed"]
    /\ Goto(a, "fulfil")
    /\ call' = [call EXCEPT ![a].after = "release_unlock"]
    /\ UNCHANGED <<hub, lock, pending_commits, due>> /\ NoFilesChange

------------------------------------------------------------------------------
(* release() *)

\* The handle leaves open_files; an unfinished commit is handed over, hook first.
Release(a, h) ==
    /\ h \in open_files /\ ~FilesLocked
    /\ open_files' = open_files \ {h}
    /\ Enter(a, "release", h, "release_check")
    /\ Goto(a, IF Terminal(h) THEN "release_drop" ELSE "install")
    /\ UNCHANGED <<lock, open_handles, ch, pending_commits, due>> /\ NoInodeChange

\* The kernel sends a release() after the replies to the flushes of the handle; a
\* link() of the file, and the drain, may be at work on it.
ReleaseStart(c, h) ==
    /\ pc[c] = "idle"
    /\ ~\E d \in Client : call[d].op = "flush" /\ call[d].h = h
    /\ Release(c, h)

\* open_files is unlocked; a channel at its end needs no lock.
ReleaseCheck(a) ==
    /\ pc[a] = "release_check"
    /\ IF Terminal(call[a].h)
       THEN Keep(a, "release_drop") /\ UNCHANGED lock
       ELSE Keep(a, "release_lock") /\ Queue(a)
    /\ UNCHANGED <<ch, pending_commits, due>> /\ NoInodeChange /\ NoFilesChange

\* Committing under the lock: an earlier commit failed half way, it is run again.
ReleaseLocked(a) ==
    /\ pc[a] = "release_lock" /\ Holds(a)
    /\ Keep(a, IF Terminal(call[a].h) THEN "release_unlock" ELSE "start")
    /\ UNCHANGED <<lock, ch, pending_commits, due>> /\ NoInodeChange /\ NoFilesChange

ReleaseUnlock(a) ==
    /\ pc[a] = "release_unlock"
    /\ Unlock
    /\ Keep(a, "release_drop")
    /\ UNCHANGED <<ch, pending_commits, due>> /\ NoInodeChange /\ NoFilesChange

\* drop_open_handles after the commit; the last one reaps an orphan.
ReleaseDrop(a) ==
    /\ pc[a] = "release_drop"
    /\ open_handles' = open_handles \ {call[a].h}
    /\ st' = IF open_handles' = {} /\ ~linked THEN "gone" ELSE st
    /\ Return(a)
    /\ UNCHANGED <<linked, dirty_generation, xet_hash, hub, lock, open_files, ch, pending_commits, due>>

------------------------------------------------------------------------------
(* create() and open(O_TRUNC) *)

\* A new channel with its running worker.
Setup(h, generation, snapshot) ==
    ch' = [ch EXCEPT ![h] = [Unused EXCEPT !.state = "Writing", !.generation = generation,
                                           !.snapshot = snapshot, !.worker = "running"]]

\* create(): nobody knows the inode before it returns, so it is one step; one that
\* fails leaves nothing behind.
Create(c) ==
    LET h == NextHandle
    IN
    /\ pc[c] = "idle" /\ st = "none" /\ HandleLeft
    /\ st' = "live" /\ linked' = TRUE
    /\ dirty_generation' = 1
    /\ Setup(h, 1, NoSnapshot)
    /\ open_files' = open_files \cup {h} /\ open_handles' = open_handles \cup {h}
    /\ UNCHANGED <<xet_hash, hub, lock, pending_commits, pc, call, due>>

\* "pool": the adapter has a bounded number of threads; when all of them wait in
\* open() for a deferred commit, nobody serves the release() that would run it.
SpareThread(c) == \E d \in Client \ {c} : pc[d] # "open_await"

\* open_streaming_write: a commit that is registered is waited for first.
OpenStart(c) ==
    /\ pc[c] = "idle" /\ st = "live" /\ linked /\ HandleLeft
    /\ SpareThread(c) \/ "pool" \in Events
    /\ call' = [call EXCEPT ![c] = [NoCall EXCEPT !.op = "open", !.after = "open_install", !.watch = Awaited]]
    /\ IF Awaited = None
       THEN Goto(c, "open_lock") /\ Queue(c)
       ELSE Goto(c, "open_await") /\ UNCHANGED lock
    /\ UNCHANGED <<ch, pending_commits, due>> /\ NoInodeChange /\ NoFilesChange

OpenAwaited(c) ==
    /\ pc[c] = "open_await" /\ call[c].watch = None
    /\ Queue(c) /\ Keep(c, "open_lock")
    /\ UNCHANGED <<ch, pending_commits, due>> /\ NoInodeChange /\ NoFilesChange

\* "ghost": a writer that its release() has already taken out of open_files, and that
\* waits for the lock behind this open(), is not found.
MissesWriter == Active = None /\ dirty_generation > 0

\* Mutant: the snapshot is always taken of the inode.
SnapshotFresh == [xet_hash |-> xet_hash, existed_before |-> TRUE]

\* The snapshot of a new writer: the one of the active writer, or the inode as it is.
SnapshotAtOpen ==
    IF Active # None THEN ch[Active].snapshot
    ELSE [xet_hash |-> xet_hash, existed_before |-> TRUE]

OpenLocked(c) ==
    /\ pc[c] = "open_lock" /\ Holds(c) /\ ~FilesLocked
    /\ MissesWriter => "ghost" \in Events
    /\ IF st # "live"
       THEN Unlock /\ Return(c)
       ELSE /\ Goto(c, "open_setup") /\ UNCHANGED lock
            /\ call' = [call EXCEPT ![c].h = Active, ![c].snapshot = SnapshotAtOpen]
    /\ UNCHANGED <<ch, pending_commits, due>> /\ NoInodeChange /\ NoFilesChange

\* setup_streaming_writer
OpenSetup(c) ==
    /\ pc[c] = "open_setup" /\ HandleLeft
    /\ Setup(NextHandle, 0, call[c].snapshot)
    /\ call' = [call EXCEPT ![c].new = NextHandle]
    /\ Goto(c, IF call[c].h = None THEN "open_install" ELSE "open_supersede")
    /\ UNCHANGED <<lock, pending_commits, due>> /\ NoInodeChange /\ NoFilesChange

OpenSetupFails(c) ==
    /\ pc[c] = "open_setup"
    /\ Unlock /\ Return(c)
    /\ UNCHANGED <<ch, pending_commits, due>> /\ NoInodeChange /\ NoFilesChange

\* The writer that was active fails, and so does its hook.
OpenSupersede(c) ==
    /\ pc[c] = "open_supersede"
    /\ ch' = [ch EXCEPT ![call[c].h].state = "Failed"]
    /\ Keep(c, "fulfil")
    /\ UNCHANGED <<lock, pending_commits, due>> /\ NoInodeChange /\ NoFilesChange

\* The inode is dirty, empty and hashless, the handle open.
OpenInstall(c) ==
    LET h == call[c].new
    IN
    /\ pc[c] = "open_install" /\ ~FilesLocked
    /\ IF st = "live"
       THEN /\ dirty_generation' = dirty_generation + 1 /\ xet_hash' = Absent
            /\ ch' = [ch EXCEPT ![h].generation = dirty_generation']
       ELSE UNCHANGED <<dirty_generation, xet_hash, ch>>
    /\ open_files' = open_files \cup {h} /\ open_handles' = open_handles \cup {h}
    /\ Unlock /\ Return(c)
    /\ UNCHANGED <<st, linked, hub, pending_commits, due>>

------------------------------------------------------------------------------
(* unlink() *)

UnlinkStart(c) ==
    /\ "unlink" \in Events
    /\ pc[c] = "idle" /\ st = "live" /\ linked
    /\ Goto(c, "unlink_lock") /\ Enter(c, "unlink", None, "idle")
    /\ Queue(c)
    /\ UNCHANGED <<ch, pending_commits, due>> /\ NoInodeChange /\ NoFilesChange

\* Mutant: an open dirty file may be unlinked.
UnlinkRefusedGone == st # "live" \/ ~linked

\* ENOENT; EPERM for a dirty file with open handles.
UnlinkRefused == st # "live" \/ ~linked \/ (dirty_generation > 0 /\ open_handles # {})

\* A remote delete if there is a hash.
UnlinkLocked(c) ==
    /\ pc[c] = "unlink_lock" /\ Holds(c)
    /\ IF UnlinkRefused
       THEN Unlock /\ Return(c)
       ELSE Keep(c, IF xet_hash # Absent THEN "unlink_remote" ELSE "unlink_local") /\ UNCHANGED lock
    /\ UNCHANGED <<ch, pending_commits, due>> /\ NoInodeChange /\ NoFilesChange

UnlinkRemote(c) ==
    /\ pc[c] = "unlink_remote"
    /\ hub' = Absent
    /\ Keep(c, "unlink_local")
    /\ UNCHANGED <<inodeVars, lock, ch, pending_commits, due>> /\ NoFilesChange

UnlinkRemoteFails(c) ==
    /\ pc[c] = "unlink_remote"
    /\ Unlock /\ Return(c)
    /\ UNCHANGED <<ch, pending_commits, due>> /\ NoInodeChange /\ NoFilesChange

UnlinkLocal(c) ==
    /\ pc[c] = "unlink_local"
    /\ linked' = FALSE
    /\ st' = IF open_handles = {} THEN "gone" ELSE st
    /\ Unlock /\ Return(c)
    /\ UNCHANGED <<dirty_generation, xet_hash, hub, ch, pending_commits, due>> /\ NoFilesChange

------------------------------------------------------------------------------
(* drain_streaming_writes, at shutdown, beside the calls still being served *)

\* One future per open handle: flush(), without a pid, then release().
DrainStart ==
    /\ "drain" \in Events
    /\ pc[Drain] = "idle" /\ ~FilesLocked
    /\ pc' = [a \in Actor |-> IF a = Drain THEN "drain_join"
                              ELSE IF a \in open_files THEN "drain_flush" ELSE pc[a]]
    /\ due' = {h \in open_handles : ~Terminal(h)}
    /\ UNCHANGED <<lock, ch, pending_commits, call>> /\ NoInodeChange /\ NoFilesChange

DrainFlush(h) == pc[h] = "drain_flush" /\ Flush(h, h, FALSE)
DrainRelease(h) == pc[h] = "drain_release" /\ Release(h, h)
\* An application has released it first.
DrainReleased(h) ==
    /\ pc[h] = "drain_release" /\ h \notin open_files /\ ~FilesLocked
    /\ Return(h)
    /\ UNCHANGED <<lock, ch, pending_commits, due>> /\ NoInodeChange /\ NoFilesChange

\* Mutant: a release() that races the shutdown is not waited for.
DrainJoinedAll ==
    /\ pc[Drain] = "drain_join" /\ \A h \in Handle : pc[h] = "idle"
    /\ Keep(Drain, "drain_done")
    /\ UNCHANGED <<lock, ch, pending_commits, due>> /\ NoInodeChange /\ NoFilesChange

\* The futures are done: wait for the commit that is registered.
DrainJoined ==
    /\ pc[Drain] = "drain_join" /\ \A h \in Handle : pc[h] = "idle"
    /\ Goto(Drain, IF Awaited = None THEN "drain_done" ELSE "drain_await")
    /\ call' = [call EXCEPT ![Drain].watch = Awaited]
    /\ UNCHANGED <<lock, ch, pending_commits, due>> /\ NoInodeChange /\ NoFilesChange

DrainAwaited ==
    /\ pc[Drain] = "drain_await" /\ call[Drain].watch = None
    /\ Keep(Drain, "drain_done")
    /\ UNCHANGED <<lock, ch, pending_commits, due>> /\ NoInodeChange /\ NoFilesChange

------------------------------------------------------------------------------
\* The steps of flush(), link() and release() after their first.
CommitStep(a) ==
    \/ InstallHook(a) \/ HookOnTheSpot(a) \/ FulfilHook(a) \/ RemoveHook(a)
    \/ Demote(a) \/ CommitLocked(a) \/ CommitUnlock(a)
    \/ CommitStart(a) \/ CommitFinish(a) \/ CommitHub(a) \/ CommitHubFails(a) \/ CommitApply(a)
    \/ CommitSucceeded(a) \/ CommitFailed(a) \/ ReleaseRetry(a) \/ ReleaseFailed(a)
    \/ ReleaseCheck(a) \/ ReleaseLocked(a) \/ ReleaseUnlock(a) \/ ReleaseDrop(a)

\* The steps of open() and unlink() after their first.
NameStep(c) ==
    \/ OpenAwaited(c) \/ OpenLocked(c) \/ OpenSetup(c) \/ OpenSetupFails(c)
    \/ OpenSupersede(c) \/ OpenInstall(c)
    \/ UnlinkLocked(c) \/ UnlinkRemote(c) \/ UnlinkRemoteFails(c) \/ UnlinkLocal(c)

CallStart(c) ==
    \/ Create(c) \/ OpenStart(c) \/ UnlinkStart(c) \/ LinkStart(c)
    \/ \E h \in Handle : ReleaseStart(c, h) \/ \E dup \in BOOLEAN : FlushStart(c, h, dup)

FutureStep(h) == CommitStep(h) \/ DrainFlush(h) \/ DrainRelease(h) \/ DrainReleased(h)
DrainStep == DrainJoined \/ DrainAwaited

Next ==
    \/ \E h \in Handle : Write(h) \/ WorkerFails(h) \/ FutureStep(h)
    \/ \E c \in Client : CommitStep(c) \/ NameStep(c) \/ CallStart(c)
    \/ DrainStart \/ DrainStep

Spec == Init /\ [][Next]_vars

\* Calls and futures that have begun are scheduled, requests to the Hub and the CAS end,
\* and the lock is FIFO.  Applications close what they opened, and the adapter serves
\* its requests in order, so a release() is eventually served if threads keep becoming
\* free.  A handle has finitely many descriptors, so its flush() calls come to an end.
\* Nothing obliges a shutdown, or any other call, to begin.
AppFlush == \E c \in Client, h \in Handle, dup \in BOOLEAN : FlushStart(c, h, dup)
Fairness ==
    /\ \A c \in Client : WF_vars(CommitStep(c) \/ NameStep(c))
    /\ \A h \in Handle : WF_vars(FutureStep(h)) /\ SF_vars(\E c \in Client : ReleaseStart(c, h))
    /\ WF_vars(DrainStep)
    /\ <>[][~AppFlush]_vars

FairSpec == Spec /\ Fairness

------------------------------------------------------------------------------
(* Properties *)

\* Committed means stored: every message that write() acknowledged on a channel that
\* flush() or release() reported as committed is in the upload the Hub accepted, whoever
\* drove the commit and however often it was retried.
CommittedIsStored ==
    \A h \in Handle :
        ch[h].state = "Committed" /\ linked => ch[h].stored = ch[h].sent

\* One writer: an open channel that has not ended owns the inode's dirty bytes, so a
\* stale writer can neither be taken for the active one nor commit over it.
OneActiveWriter ==
    st = "live" => \A g, h \in open_files :
        ~Terminal(g) => OwnsGeneration(g) /\ (~Terminal(h) => g = h)

\* A clean file is the one the Hub has: after a commit, after the revert of a failed
\* one, and after a chain of writers that superseded each other.  (An unlink() has
\* deleted the remote file first.)
CleanIsCommitted ==
    st = "live" /\ linked /\ dirty_generation = 0
        /\ ~(\E c \in Client : pc[c] = "unlink_local")
            => hub = xet_hash

\* An unlinked name stays unlinked: no commit under way, or started later by a handle
\* that is still open, brings the file back on the Hub.
NoResurrection == st # "none" /\ ~linked => hub = Absent

\* A registered hook will be fulfilled: its channel is open, so that its release() is
\* still to come, or a call is at work on it.  Otherwise every later open() of the
\* inode would wait for ever.
HookHasOwner ==
    pending_commits # None =>
        \/ pending_commits \in open_files
        \/ \E a \in Actor : pc[a] # "idle" /\ call[a].h = pending_commits

\* One owner each: of the dirty bytes, and of the hook others wait for.
WritersSound == TypeOK /\ OneActiveWriter /\ HookHasOwner

\* When the drain is done every writer that was unfinished when it began has ended,
\* in-flight release() calls of the applications included.
DrainKeepsAll == pc[Drain] = "drain_done" => \A h \in due : Terminal(h)

\* Every call returns, an open() that waits for another handle's deferred commit included.
CallsReturn == \A c \in Client : pc[c] # "idle" ~> pc[c] = "idle"
==============================================================================
