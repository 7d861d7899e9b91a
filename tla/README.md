# hf-mount: a TLA+ verification project

hf-mount mounts Hugging Face repositories and buckets as a local file system.
These modules model what can lose, hide or mix up data: what happens between an
application's call and the state of the Hub, how the mount's view of the Hub follows
other clients, what a read returns, what the adapters of the three backends add, and what
the Windows supervisor does with the drives it serves. Every
definition that models code is listed with its source lines in `PROJECT.json`
(`map`); paths below are relative to the repository root.

Contents: [inventory](#inventory) · [plan](#plan) · [modules](#modules) ·
[runs](#runs) · [fairness](#fairness) · [proofs](#proofs) ·
[where the code and its comments disagree](#where-the-code-and-its-comments-disagree) ·
[not modelled](#not-modelled)

## Inventory

| component | state | operations | what makes it correct |
|---|---|---|---|
| **Inode table** `src/virtual_fs/inode.rs` | `inodes`, `path_to_inode`, per entry `nlink`, `nlookup`, `open_handles`, `dirty_generation`, `xet_hash`, `staging_is_current`, `pending_deletes` | insert, `set_dirty`, `apply_commit`, `clear_dirty_if`, `unlink_one`, `update_remote_file`, `staging_gc_candidates`, LRU eviction | a dirty mark is cleared only by the commit of the bytes it stands for |
| **Advanced writes** `mod.rs` (`open_advanced_write`, `write`, `setattr`, `release`, `fsync`, `unlink`, `create`), `staging.rs`, `xet.rs` (`StagingDir`) | one staging file and one async lock per inode, open handles | prepare/download/truncate the file, write through, drop, garbage-collect | unsaved bytes are on disk; a cached file is the Hub's content |
| **Flush loop** `flush.rs` (`flush_loop`, `flush_batch`) | channel of signals, batch with snapshotted generation, path, hash; `flush_errors` | debounce, lock, snapshot, upload, commit, apply | nothing dirty is forgotten; every cycle ends |
| **Delete queue** `flush.rs` (`DeleteQueue`, `InFlightDeletes`, `shutdown`) | `queued`, `in_flight`, one batch per flusher | enqueue, cancel, flush (loop, `rmdir`, shutdown), put back on failure or abort | a requested delete is sent or cancelled, never dropped; a status of zero is true; shutdown ends |
| **Names** `mod.rs` (`create`, `unlink`, `rename`, `rmdir`) | path of each inode, `pending_deletes` | three routes to the Hub: own batch, delete queue, flush cycle | when all is settled the Hub is the local tree |
| **Streaming writes** `mod.rs` (default mode) | `StreamingChannel` with `CommitState`, `pending_commits` hooks, `open_files`, per-inode lock | append-only write, flush, release, link, supersede by O_TRUNC, `drain_streaming_writes` | one writer per inode; a commit lands once, in order; no hook without an owner |
| **Polling, follow, revalidation** `poll.rs`, `follow.rs`, `mod.rs` | listing, ETags, event stream | add/remove/update inodes | local unsaved state wins over a remote change |
| **Reads** `prefetch.rs`, `cached_xet_client.rs`, `file_cache.rs` | window, chunk and whole-file caches | read, prefetch, evict | bytes of the right version; the caches respect their limits |
| **Overlay** `overlay.rs` | local backing directory | copy-up, whiteout | never writes to the Hub |
| **Hub and CAS clients** `hub_api.rs`, `xet.rs` | tokens, HTTP | batch, HEAD, list, upload, download | external: see *The Hub* |
| **Adapters** `fuse.rs`, `nfs.rs`, `windows/winfsp_fs.rs` | NFS handle pool, WinFsp contexts, directory cookies, threads | translate requests to `VirtualFs` calls | no handle is lost or used after its release; an answer is not older than what the client knows; no thread waits for itself |
| **Manager (Windows)** `manager/registry.rs`, `windows/host.rs`, `windows/mounter.rs` | entries with states and handles, the session journal, staging folders | mount, unmount, force, dismiss, list, shutdown, monitor, start after a crash | no drive is forgotten, no unsaved file discarded, every request ends |
| **Daemon, CLI, setup** `daemon.rs`, `setup.rs`, `windows/cli.rs`, `desktop/` | configuration | start, stop, status | |

How they interact. The adapters call `VirtualFs` from several threads; a call
takes the inode table's `RwLock` for short critical sections and never over an
await. Long work on a file is serialised by a per-inode async lock
(`StagingCoordinator::lock`), which openers, `setattr`, `unlink`, the garbage
collector and the flush loop share. `release`, `fsync` and `requeue_dirty` send
inode numbers over an unbounded channel to the single flush loop; `unlink` pushes
paths on the delete queue and sends `WakeDeletes` on the same channel. Polling
changes clean inodes from a task of its own. What is hard about it is listed,
line by line, under `hazards` in `PROJECT.json`; in short: writes take no lock, so
they overlap every step of an upload; values read before a download, an upload
or a Hub call are used after it; a batch fails as a whole, or commits and loses its
answer; and there are three routes to the Hub whose order nothing enforces.

## Plan

Built in this order: the two ways of writing, the delete queue and the names; then the inode
table with polling, following and revalidation; reads with their caches; the Windows
supervisor and its abstract specification; the adapters. What is left:

1. Directory renames, hard links and the overlay in `HubSync` and `InodeTable`.
2. Proofs: what a quiet mount shows (`Mirror` of `RemoteFeed`, with the hypothesis that a file does not become a directory), the handles and listings of the front ends.
3. The composition of `RemoteFeed` with `HubSync`: other clients that change a name while the
   mount's own deletes and batches for it are under way.

## Modules

`DeleteQueue` is the queue as a data structure with its four critical sections.
`DeleteFlush` EXTENDS it with the tasks that work it; `HubSync` EXTENDS the same module
with the files that own the paths. `StagedWrite` is about bytes, `HubSync` about
names: they split `flush_batch` between them, the first modelling locks, staging files,
partial downloads and GC and no paths, the second paths, hashes and the Hub and no
staging files. `RemoteFeed` EXTENDS `RemoteSync` EXTENDS `InodeTable`: the table as a value with its
operations, the calls and rounds that use it, the task that starts the rounds. `Reads` EXTENDS
`Prefetch` (a value, too), `FileCache`, `PlanCache` and `HttpFile` and puts a handle in front of them; the two caches EXTEND `Orders`,
which has their `retain`.
`FrontEnds` EXTENDS `NfsPool` and `DriveHandles` (both over `OpenFiles`, what they use of `VirtualFs`),
`DirPages` and `FuseThreads`; a mount has one backend, so a behaviour is one of the parts. `Mounts`
stands alone and implements `Volumes`. `MC*` modules only name instances; `*Proofs` modules hold the proofs.

Where the interesting situations need different bounds, a module has a variable `case` that `Init`
picks from a set of records and nothing changes: who takes part, which calls are made, which events happen. A run
checks all its cases at once, and each case is a question of its own.

### StagedWrite

| state | code |
|---|---|
| `st`, `linked`, `dirty_generation`, `xet_hash`, `size`, `staging_is_current` | `InodeEntry`; `st` is absence from, presence in, removal from the table |
| `staging`, `lock` | the file in the staging directory (absent, partial, a content) and the per-inode mutex |
| `fd`, `attached` | the writable handle of a client, and whether it still names the file on disk (a removed file lives on behind its handle) |
| `pc`, `call` | the await points of the call a thread serves, and the locals it carries across them |
| `signals`, `phase`, `todo`, `batch`, `item`, `changed`, `errors` | the channel, the loop's position, `FlushItem`s and `flush_errors` |

A content is a number, a hash is the content it stands for, and a size is zero or
positive. One action is one critical section or the code between two awaits. A
write is two actions, `WriteAt` (bytes, no lock) and `WriteMark` (`set_dirty`). An
upload reads the file when `LoopUploadFile` fires, so a write before it is uploaded and
one after it is not. `Known(i)`: a call names an inode only after its `create()` has
replied, which the kernel guarantees by holding the parent's lock over a create.

### DeleteQueue and DeleteFlush

The `Vec` of paths is a function counting occurrences, since order decides nothing.
`sent[f]` is the `InFlightDeletes` guard of flusher `f`, whose `Drop` (also run when
the task is aborted) is `FinishDeletes`. `owed` is history: the paths requested and neither committed nor
cancelled. `refused` is history too. Shutdown closes the channel, waits for the loop,
aborts it at a deadline (a step that may happen at any time), and flushes the rest.

### HubSync

`path`, `pending_deletes`, `xet_hash`, `dirty_generation` are those of `InodeEntry`;
`local` is the content applications see; `hub` the Hub. `unlink` is three steps (decide
under the read lock, enqueue, remove), `rename` is its three phases (validate, remote
batch, apply locally). The kernel (or WinFsp) holds the directory locks of the names a
call works on, so two calls never overlap on one name (`Locked`); `rename`'s
re-validation branches for a target that changed in between are therefore
unreachable and left out. Writes need no such lock. `quiet` and the other gated events are
explained under [disagreements](#where-the-code-and-its-comments-disagree).

### StreamingWrite

| state | code |
|---|---|
| `st`, `linked`, `dirty_generation`, `xet_hash` | `InodeEntry` of the one file |
| `lock` | the per-inode tokio mutex: holder first, then its FIFO waiters |
| `open_files`, `open_handles` | the map of handles, and the count `release()` lowers only after its commit |
| `ch` | `StreamingChannel`: `CommitState`, generation at open, snapshot, messages sent, worker, `pending_info`, hook |
| `pending_commits` | whose hook is registered for the inode |
| `pc`, `call` | where each thread, each drain future and the drain are, and their locals |
| `due` | history: the writers that were unfinished when the drain began |

The hash of an upload is the pair of the channel and the number of messages in it, so
contents of different writers differ. A commit is driven by `flush()`, `link()` or
`release()`; its steps (`CommitStart` ... `CommitSucceeded`) are shared, as in the code, and
end differently for `release()` (retry, revert) and the others. The hook is taken and
its entry removed in two steps under the hook's own mutex (`"busy"`). While a
`release()` hands over its hook it holds `open_files`, so nobody else gets at the
map (`FilesLocked`). The drain runs one future per open handle beside the calls
still being served, then waits for what is registered. Its timeout only ends the
process, so it is not a step.

From outside: the kernel serialises the writes of a handle and sends `release()` after
the replies to the handle's flushes; `create()` is one step since nobody
knows the inode before the reply; a lost answer of the Hub is not modelled here
(polling repairs the inode). Three situations are behind an event name, because the code does not handle
them and every property after them would be about that: `ghost`, `shadowed`
(see [below](#where-the-code-and-its-comments-disagree)) and `pool` (all FUSE threads
wait in `open()`).

### InodeTable, RemoteSync and RemoteFeed

| state | code |
|---|---|
| `table` | `InodeTable`: entries with kind, parent, path, children, hash, dirty, links, handles, kernel references, loaded; and `path_to_inode` |
| `neg`, `dirlock` | the negative cache, and the locks under which a directory is listed |
| `call` | what each kernel request has read and is waiting for (a HEAD, a listing, a commit) |
| `refs`, `opens`, `commit` | what the kernel holds; the commit of a closed writer that is under way |
| `sweep` | the candidates the LRU sweep has picked and not yet evicted |
| `log` | the Hub: what others and the mount changed, in order; the Hub's content is a function of it |
| `round`, `feed` | the poll round under way (what it still lists, its diff); the watching task: mode, cursor, last revision |

A path is a model value whose directory `Up` gives; a content is the number of the revision
that made it. Each operation of the table runs under its `RwLock` and is one step. `lookup`, `readdir` and the
rounds take the lock, let go of it for the Hub, and take it again: those are their steps. An answer
of the Hub is what the Hub had at the request; with the event `late_answer` it changes again before the answer is used,
and the properties that compare with the Hub (`InTime`) are then off, the others are not.
`Mirror` compares once the calls are done and the feed has seen the last change; `CaughtUp` says what "seen" means in each mode.

### Reads, Prefetch, FileCache, PlanCache, HttpFile

A byte is its offset, so a buffer with the wrong bytes shows. A reader is a handle with the
read under way on it (the handle's mutex admits one). A fetch comes in chunks of at most `MaxChunk`; any
attempt may fail after any number of them, `MaxAttempts` in all. `FileCache` is one cache per mount over one
directory; the download, the rename, the insert and the removal of each evicted file are steps of
their own. A table of either cache is the sequence of its entries in the order of their last access, which is all that eviction asks of the times. A plan is the list of a file's terms and the bytes to skip. A version of the HTTP file is its own ETag; the
inodes of a path are what a recreated file has, each with its own lock; the run gives the path one (see below).

### Mounts and Volumes

A process is the thread of one request, or `Monitor`, the supervisor's loop. `entries` are the
registry's records, a set: mounts are numbered in the order in which they are registered, which is the order of the registry's vector; `vol` the volumes: the drive as the users see it, the engine behind it, files that are dirty or
copied, and whether the staging folder is kept. `journal` is the session file; `told` is history: the crashes that
took drives, those a client was told of, and any that a second client was told of. Several clients may look for a lost supervisor at once (`Client`);
a client can remove the journal it has read (one that cannot reports it again, client.rs:82-83). `Volumes` is what a user may rely on: a drive letter names one
volume; a file is unsent until the Hub has it; a volume is given up only when each of its files is on the Hub or on
the disk of this computer; a host that ends by itself has given up all volumes. `Mounts` implements it under the mapping `V`: a killed
engine's drive is gone with its process, a kept folder counts as saved.

### OpenFiles, NfsPool, DriveHandles, DirPages, FuseThreads, FrontEnds

`OpenFiles` has versions instead of contents: a lazy handle reads the version it was
opened at, a writable or local one the newest. An unlinked file that the Hub has is `queued` until the flush loop's delete; a name that was removed is not taken again
(that is `HubSync`'s business). NFS and WinFsp force advanced writes (`setup.rs:354`), so
it has no streaming. `NfsPool` is the pool with its pins and LRU order, the requests between two
awaits (`rpc`), and handles whose release is spawned (`loose`); `told` is what the client has
been answered, which its next read must not undercut. Requests under way when the pool is drained go on, and may pool a handle again. `DriveHandles` is one context per open file object with a read and a write handle made on
first use; the driver's lock on a file is `Admitted`. A flush of the volume waits for dirty files and queued deletes alike. `DirPages` is one listing under changes. `FuseThreads` is
who waits for whom: fuser threads, the runtime's core workers, the page cache's folio lock and the hooks of deferred commits.
Tasks, contexts and threads are alike, so the first free one is used.

### The Hub

External. The batch endpoint applies all adds and then all deletes, atomically; it may
refuse a batch, or commit it and lose the answer. A clean rename's own batch may be
refused, not lost. Uploads may fail as a whole (`upload_files` returns one `Result`).

## Runs

| run | instance | states | what it shows |
|---|---|---|---|
| `staged_write` | one file, created or on the Hub; two threads, contents 0..2, generation bound 2; resizes, `flush()` errors, polling and retries | 6.6 M | `CacheIsCurrent`, `DirtyHasBytes`, `NothingForgotten`, `UploadNotTruncated` |
| `staged_progress` | two files, one thread, GC on, fairness | 0.3 M | `CallsReturn`, `UnattendedSettles` |
| `hub_names` | one caller, three inodes, two names, every call, a Hub that refuses and loses answers; two callers, three names | 4.8 M | `InSync`, `NamesSound` |
| `delete_flush` | two paths, two clients, at most 3 pending | 0.1 M | `NoDeleteLost`, `ZeroMeansDone`, `WaitsOnlyWhenRefused`, `ShutdownEnds`, `DeletesAreTried` |
| `streaming_write` | one streamed file, on the Hub or created; two threads, two handles, two messages in all; unlink, drain, failing worker | 5.7 M | `CommittedIsStored`, `WritersSound`, `CleanIsCommitted`, `NoResurrection`, `DrainKeepsAll` |
| `streaming_progress` | the same on a created file, with link, without drain and unlink, fairness | 0.3 M | `CallsReturn` |
| `remote` | sixteen cases: at most three paths, one or two threads, at most four changes on the Hub, the initial files included | 0.7 M | `TableSound`, `Mirror`, `LocalWins`, `RemovedOnlyIfGone`, `RoundReconciles` |
| `remote_progress` | five of them under fairness | 45 k | `CatchesUp` |
| `reads` | ten cases: a handle of eight bytes; readers and callers with a plan cache of one; two mounts, three files and a cache of four bytes; the HTTP file | 136 k | `ReadsExact`, `CacheSound`, `PlansSound`, `HttpIsCurrent`, `ReadersAreServed` |
| `mounts` | six cases: at most two requests at once, two letters, three volumes, two files, a crash, two clients that find its journal | 191 k | `RegistrySound`, `NothingDiscarded`, `NoSilentLoss`, `RequestsEnd`, `ImplementsVolumes` |
| `front_ends` | fourteen cases: three NFS requests and a pool of one, a file that changes on the Hub and is written, an unmount with requests under way; two contexts; a directory of two names; three programs on two threads and one core worker | 2.7 M | `BooksAgree`, `NfsAnswers`, `DriveAnswers`, `EachOnce`, `NobodyStuck` |
| `v_mount_slips_in` | a mount that settles during the teardown | | refutes a comment, see below |

Some properties are conjunctions of parts that are stated, each with its comment, before them
(`TableSound`, `ReadsExact`, `CacheSound`, `PlansSound`, `RegistrySound`, `NoSilentLoss`, `BooksAgree`, ...);
TLC names the part's state in the error trace.

Bounds. Two threads are what a race needs; symmetry over the threads is used only where no
liveness is checked. `MaxGen = 2` lets an inode be dirtied, snapshotted and dirtied again, the case
`clear_dirty_if` exists for; the guard is on the call that would dirty it, so a call that has
begun always ends. Three contents tell the committed, the uploaded and the
newest apart. `MaxSignals` bounds the channel. One file suffices for the data races (nothing
but the loop's batch relates two files), two for the lock order of the batch. In
`HubSync` three inodes on two names allow create–unlink–create and a rename over a file.
Two handles are a writer and the one that supersedes it, or a committed handle and the next writer; two
messages let a write race a commit that has something to commit, or fill both channels. The race of `link()` with
`release()` is the one a drain future's flush makes in `streaming_write`.
`MaxQueued = 3` lets one path be queued twice while another is in flight.
`RemoteFeed`: a file in the root, a directory and a file in it are the shapes that `apply_poll_diff` and the listings tell
apart; two revisions after the mount's let a change be overtaken by the next. `Reads`: eight bytes with windows of two and four make a read
cross each boundary (buffer, seek window, forward skip, EOF) and the window double once; a cache of four bytes holds either of two
files and not both, and never the third. `Mounts`: a letter that is asked for twice, a second letter, one failed
record beyond `MaxFailed`. `FrontEnds`: a pool of one evicts at the second file; a third request can find the handle of one
gone while the other holds it; directories of two to four names with pages of two end in the middle, at the end and beyond it;
two fuser threads are the least with which one may wait.
Deadlock checking is off: a mount that nobody uses, with its counters at their bounds, has nothing to do.

## Fairness

Every liveness run is under weak fairness of the steps tokio runs by itself: the loop's and those
of a call that has begun. Steps that wait for a staging lock get strong fairness, because
`tokio::sync::Mutex` is FIFO: a waiter gets a lock that keeps being released. HTTP requests
end, with an answer or an error, since the clients have timeouts; in `DeleteFlush` not even that is assumed and
shutdown's own timers suffice. No application is obliged to make a call. In `StreamingWrite` an application that opened a file
closes it: the kernel sends finitely many flushes of a handle (one per descriptor) and then its
release, which a thread serves in its turn; without that an `open()` that waits for a deferred commit
would wait as long as the other process keeps its descriptor, which is what the code intends. The lock is a FIFO queue there, so
weak fairness of its holder is enough. `DeletesAreTried` assumes, in its
statement, that the loop's batches are answered.

`remote_progress`: the watching task's own steps are weakly fair. What the Hub does is strongly fair and only as an
outcome among others: a probe, a listing of a directory, a connection, a `ready` and the event with the newest revision succeed in the end if they are tried
again and again, as the loop with its back-off does; each single attempt may fail. `reads`: weak fairness of
each download step and of each caller of a plan (or its timeout, which `read()` has); strong fairness of the semaphore's permit, which tokio
hands out in order. `mounts`: weak fairness of each process and of the monitor; the operating system runs threads, and
each wait of theirs (drain, unmount, dispatcher stop) has a limit in the code. `JournalHeals` asks nothing of the disk beyond that it is
not full while it is to be healed. `front_ends` has no fairness: `NobodyStuck` is an invariant that says some step of the daemon, or of a
program that closes what it has open, is enabled while a request waits.

## Proofs

For every value of the constants (any sets of inodes, paths, threads; any bounds):

* `StagedWriteProofs`: `TypeCorrect` (types of all 19 variables over all actions), `UploadsAreStable`
  (`UploadNotTruncated`), `UnsavedBytesKept` (`DirtyHasBytes` without a staging budget; with one
  it is false, see below), `CacheStaysCurrent` (`CacheIsCurrent`, for instances without a staging budget or without `setattr()`; with
  both it is false, see below) and `NothingIsForgotten` (`NothingForgotten`, without `"reader_flush"`, as in the run; see below).
* `DeleteFlushProofs`: `TypeCorrect`, `DeletesAreKept` (`NoDeleteLost`), `ZeroCountIsDone` (`ZeroMeansDone`) and `WakeUpsAreKept` (`WaitsOnlyWhenRefused`).
  What they and `HubSyncProofs` use of the queue is in `DeleteQueueProofs`.
* `HubSyncProofs`: `NamesAreSound` (`NamesSound`) and `SettledIsInSync` (`InSync`) under the hypothesis `NoDrift`: every case keeps calls and
  cycles apart (`"quiet"`), has none of the events `shadow`, `old_name`, `drop_old_names`, `rewrite` and `create_fails`, and no `rmdir` beside the
  calls of another client. The two cases of `hub_names` are of this kind; for what each exclusion leaves out see below.
* `ReadsProofs`: `ReadsAreExact` (`ReadsExact`), without any hypothesis: whatever the length of a file and the limits of a chunk, of a request and of the attempts, whatever a stream
  delivers and however it fails, with any number of readers. `DownloadsAreCurrent` (`HttpIsCurrent`), under two hypotheses: `OneInode` (the openers of a path share one lock)
  and `EtagsReliable` (a Hub that returns to earlier versions, or sidecars that get lost, not both). Without either it is false, see below.
  `CacheIsSound` (`CacheSound`) and `PlansAreSound` (`PlansSound`), without any hypothesis: any mounts, tasks, callers, files, terms, capacities and limits, whatever is evicted,
  restarted, purged, expired, refused or given up.
* `StreamingWriteProofs`: `WritersAreSound` (`WritersSound`), `StoredWhenCommitted` (`CommittedIsStored`), `CleanWhenCommitted`
  (`CleanIsCommitted`), `UnlinkedStaysGone` (`NoResurrection`), `DrainWaitsForAll` (`DrainKeepsAll`) and the action property
  `EndsForGood` (no step takes `Committed` or `Failed` back). All under the hypothesis `"ghost" \notin Events`, the drain's under
  `"shadowed" \notin Events` too; see below what fails with them.
* `MountsProofs`: `RegistryIsSound` (`RegistrySound`, without any hypothesis), `NothingIsDiscarded` (`NothingDiscarded`, without `"slips_in"`),
  `NoLossIsSilent` (`NoSilentLoss`, without `"impatient"` and `"start_first"`), and the refinement `SupervisorImplementsVolumes`
  (`ImplementsVolumes`, without `"slips_in"` and `"impatient"`). Each excluded event is one after which the property is false, see below.
  `PromisesKept` is about `Volumes` itself: a letter has one mounted volume and nothing happens to a volume that has ended.
* `RemoteFeedProofs`: `TableIsSound` (`TableSound`) and the action properties `LocalWritesWin` (`LocalWins`), `KnownNamesStay` (`RemovedOnlyIfGone`)
  and `RoundsReconcile` (`RoundReconciles`), for any tree of paths, any number of threads and of changes,
  under the hypothesis `NoReplacing`: no case has one of the events `head_404_in_use`, `orphan_name` and `unlink_replaced`. The cases of `remote` have none;
  each of the three breaks the table or takes a dirty file, see below.

`DirtyHasBytes` is not inductive: a state could have a clean inode that is open without a
staging file, or a creator whose half-made inode another call knows. The inductive invariant
`IndInv` adds what excludes them:
`AllocInv` (numbers in use are allocated), `LockInv` (who is in which phase
holds which lock: the reason `UploadNotTruncated` holds), `CreateInv` (an inode being created is
private), `ChangedInv`, `PhaseInv` (the steps that remove files unconditionally work on inodes that left the
table) and `BytesInv` (an open live inode has its file). Each part is preserved by a lemma of its own with
one step per action.

The second part of `StagedWriteProofs` continues from there with what the flush loop knows. `SnapshotInv` says that a generation only grows from the
snapshotted one. `FileInv` is about the inodes of a batch whose generation stands still (`Unmoving`, what `clear_dirty_if` will ask): the file is
still there, holds what was uploaded unless a call has changed it and is about to mark the inode, and nobody downloads over it. So `apply_commit`, which drops the mark
and keeps `staging_is_current`, leaves a current cache; `FlagInv` covers the other ways to set the flag. `OwedInv` says who sees to a dirty inode:
it is in the channel, under the locks of `flush_batch`, in the batch with an unmoved generation, or owned by a handle
whose close has not enqueued it yet (or a `create()` about to return one). It is stronger than `NothingForgotten`, which speaks only
of inodes nobody has open, and has to be: the close that makes an inode unattended is the one that enqueues it.

The lemmas of `DeleteQueueProofs` are about the four
queue operations, so they serve both modules that use `DeleteQueue`. The length of a queue is the number of occurrences of paths in it, so that
`Counted` (`in_flight` is the number of paths in all batches) follows from the laws of finite cardinalities: a batch that is taken is disjoint from those of the other
flushers. It is what makes a zero believable, and `in_flight` a natural number.

Neither property of `HubSync` says anything of a dirty file or of a call under way, so neither is inductive. `IInv` of `HubSyncProofs` says where every name the Hub has
comes from and where it goes. `HubInv`: a file with a hash is on the Hub as it was last committed, or its content has moved on and it is dirty.
`OrphanInv`: a name on the Hub that no file has is in some file's `pending_deletes`, in the queue, in a batch, or the new name of a rename that the Hub has made
and the tree has not (`Moved`). `QueuedInv` and `OldNameInv`: no delete that is queued, in flight or pending has the name of a file, except between two steps of the call
that is to remove the file or to cancel the delete. What a call has read of its inode still holds when it uses it (`ReadInv`, `StepInv`), since the kernel locks its names (`LockInv`); and
what a cycle's snapshot says holds for the inodes whose generation has not moved (`CycleInv`: the uploaded content lies between the hash of the inode and its present content, so that a
write during the commit leaves a dirty file that will be committed again). `ActorInv` is what `NoDrift` is for: no call that changes names beside a cycle, no batch of deletes beside such a call.
`ContentKeeps`, `CallStarts`, `NameRemoved`, `BatchTaken`, `BatchAnswered` and `CommitBooks` are the kinds of step; each action's lemma is about one of them or about itself.
On the instance of `hub_names`, which satisfies `NoDrift`, TLC finds `IInv` true in all 4.8 M states.

`ReadsExact` is about byte strings that `read()` puts together: what it drains from the forward buffer, then the chunks of an open stream or of range requests, some of which fail half way. In the
model a byte of a file is its offset, so a string is exact when it is an interval of numbers. `FlattenSeq` of the community modules is unfolded by `FlattenIs` as a recursive function (`Flat`), and
`Induct` and `LeastOf` do the induction over the chunks with a set in place of a predicate. Then each function of prefetch.rs has a lemma: `PsOK` says that the forward buffer and the
seek window hold the bytes at the offsets they claim and that an open stream stands at the end of the buffer; `DrainKeeps`, `ForwardServes`, `SeekServes`, `MissPlans` and `StoredIs` say that each keeps this and
serves what was asked for; `AllChunksAre` says what an attempt may return (a complete attempt gives at least one byte, which is why an attempt without one leaves no stream behind). The invariant
is `RInv`: a reader that is fetching has exact data so far, and the stream it has taken out of the handle stands at its cursor (`Missing`); otherwise the stream in the handle follows the buffer
(`StreamFollows`); an answered one has all it asked for up to the end of the file, unless the read failed (`Whole`).

The two caches are tables in the order of use, so first comes what a `retain` does to one: `OnlyPicks` says that `Only(s, S)` has just the entries of `s` that are in `S`, and none twice if `s` has none twice, by `Induct`
over the recursive function it is defined with. For `CacheSound`, `SumNext` says that the bytes of a set of files grow by the size of a file that is added (the sum is a function on sets, whose existence
is proved with `MinimalSubset`), `EvictedIs` that `evict_locked`, a fold over the positions to give up, leaves a table that counts what it holds, and the victims are what it no longer holds.
The invariant `CInv` then is that each table is `Counted`, and that each file on disk is `Known`: in the table of some mount, or some task is about to insert it, to unlink it or to remove it as a
victim (`Owes`). `TaskOK` says that only a task at its removals has victims. One lemma per action shows that a file is let go of by a table only into the hands of a task.

`PlansSound` has arithmetic in it and a protocol. `OffsetsAre` and `StartsGrow` give where the terms of a file begin; the terms that overlap a range that begins in the file are an interval of them
(`OnlyInterval`), from the one with its first byte to the last one before its end, which is `DerivedCovers`. The invariant `PInv` is that every plan in the cache and every answer is *the* plan of its key
(`PlanFor`), whether it was asked for, derived or waited for; that no key has two plans and the table is not over its bound (`Fill`: an entry that is used is taken out before it is appended, `Reappended`, and
`WithRoom` leaves room for one, `RoomIs`); and `OneLeader`. That a stream never asks for an empty range or one behind the end of the file (`Key`) is
what `RInv` says of a fetch, so the proof of `PlansAreSound` is over both.

`HttpIsCurrent` needs the history of three files: `IndInv` of `ReadsProofs` says that one download runs at a time (`Alone`), whose bytes the
temporary file and the file have (`BodyInv`), that whoever has opened the file has seen both what is there and what is being put there
(`OpenedInv`), and that the sidecar is that of the file or of an earlier version (`EtagInv`, the reason a 304 can be believed).

None of the properties of `StreamingWrite` is inductive. `WriteInv` has eleven more parts. `LockInv` says which steps belong to the critical section of
the per-inode lock; the argument of `StreamingWriteProofs` is that a call in it relies on facts (`PhaseInv`: there is no other writer, the writer it supersedes
is the one it saw; `BytesInv`: the upload it carries has all that was sent) that only calls in the critical section
change (`QuietStep`), so they hold until its own next step (`PhaseElsewhere`, `BytesElsewhere`); what it knows after its own step is `OwnShape`. `WriterInv` is the one-writer property
together with its converse, dirty bytes of a linked file have a writer or one about to be installed; `SnapshotInv` says that the writer's snapshot is what the
Hub has, which is why a revert leaves a clean file and why an unlink after it deletes remotely; `FilesInv`, `HandleInv` and `CallInv` tie handles, channels and calls together.
`HookInv` says who will fulfil a hook that is set: its writer's `release()`, or a call past its commit; two calls
never take the same hook. For the drain, `DrainInv` adds that a hook set on an unfinished channel is the registered one, and that a writer not in `open_files` any
more has its hook set or is about to set it under the lock of `open_files`: the reason nothing falls between the drain's futures and `pending_commits`. The module first has the parts and what
each action does to the types, the lock, the channel and the call it belongs to, then how the parts hold together.

`OneHolder` of `RegistrySound` is inductive only with the reasons for it. `IInv` of `MountsProofs` says what a process's step tells of its
hands (`ShapeInv`), that nobody shares a handle and that the record of a mount in hand is in the state its holder gave it, or went with `entries.clear()` (`HandInv`),
that every running engine, starting and stopping record has somebody behind it (`HolderInv`), how far a volume's unmount is (`HeldInv`, `VolInv`), and
that the registry stays empty from the teardown on (`HostInv`), and that the journal is the one its supervisor wrote last, not yet reported, and what any client has read is it or gone (`JournalInv`, the reason a crash is reported once). `HandFrame`, `HandTakes` and their likes for `HolderInv` are the two kinds of
step there are: handles are only let go of, or taken from mounted entries under the lock that marks these. `TearInv` is the reason for `NothingDiscarded` over the
teardown: while nothing settles during it, what is mounted is on the list of `unmount_all`, so `entries.clear()` drops no handle. For the refinement, what a
step does to each volume's letter, files and copies is stated first (`OneVolume`), then each action of `Volumes` has a lemma that it follows from such a change
(`Attaches`, `Sends`, ...); a step that touches no volume stutters.

`TableIsConsistent` relates four structures that each operation of inode.rs updates by hand. Most operations break it on tables that are consistent and yet impossible, so
`Sound` adds why those do not occur: an inode is younger than its directory (`Below`, hence no cycles, and removing a subtree leaves nothing that points into it),
only directories have children and they keep their link (`Kinds`), and an inode without a name has a handle (`OrphansOpenBut`). The first half of `RemoteFeedProofs` shows for each operation that it takes a `Sound` table to
a `Sound` one and `Keeps` what others know by number: a number is never used again, an open inode stays, a dirty one keeps its name. A listing, the two folds of a round and a
batch of stream events apply such an operation once per member of a finite set or sequence (`ListedKeeps`, `UpdatesKeep`, `DeletionsKeep`, `ReplayKeeps`); `IterExists`
and `FoldKeeps` are what that takes of a fold, from the fact that a nonempty family of finite sets has a smallest member. The second half has one lemma per action: `IInv` adds what is held over the table
between two steps, since a call or a round uses inode numbers that it read earlier (`CallFine`, `RoundOK`: they are not handed out again, and the name a call has read lies in
its directory), and that a `create()` which has opened its file alone knows of that handle (`CallsOK`, `KernelOK`), which is why a release that overtakes its reply does not take it.

`RemovedOnlyIfGone` and `RoundReconciles` compare with the Hub, so they need to know that what a step brings to the table is still what the Hub has. A second pass over the operations shows what each does to
the names and contents that the kernel sees: a table is `Honest` towards the one before when the names that went are gone from the Hub (or excused: an `unlink()` at work, a change of the stream), the counts of references are
the same, and a clean content that was not there is the Hub's. That a subtree may go with its directory takes `HubIsTree`: nothing lies below a file, so what a listing does not show has nothing below
it either (`AbsentBelow`). The invariant is `Seen`, as long as no answer is late (`SInv`): what a call has asked for (`CallsAsked`), a commit has made (`CommitsTell`) and a round has listed is what the Hub has,
a reference of the kernel is counted in the table (`RefsCounted`, the reason an eviction takes no known name), and the updates and deletions of a round's snapshot are together all that its listed directories still differ in (`RoundFound`).
`PolledTells` is the reason a failed listing removes nothing that the Hub has: a directory that counts as listed was listed, or its parent's listing shows that it is gone.

Assumptions: the `ASSUME`s of the component modules (constants have their types, paths and tasks are finitely many, the paths are a tree below the root, no file of the Hub lies below another at mount time, `Loop` is no client) and the hypotheses named above.

Only model-checked:

* liveness (all of the `*_progress` runs, `CallsReturn`, what `reads`, `mounts` and `delete_flush` say of endings), and `NobodyStuck`, which is about `ENABLED`: outside the prover's reach.
* the books of the NFS pool (`BooksAgree`, `NfsAnswers`): `NfsPool` keeps its order of eviction with `SelectSeq`, for which the prover has no definition
  (the caches of `Reads` were rid of it by `Only` of `Orders`).
* `Mirror` of `RemoteFeed` (what the feed has seen since each listing, over its resumes), `DriveAnswers` and `EachOnce` of `FrontEnds`: not proved yet. `Mirror` is about
  the cases of `remote`: it is false where a file becomes a directory before its directory is listed (`MCKinds`), so a theorem would need a hypothesis on what the Hub does.

## Where the code and its comments disagree

Most of what the comments claim holds. The following does not; each is a sequence of states TLC
finds. `v_mount_slips_in` is a run of the project (`findings` in `PROJECT.json` quotes the comment). The others are behind
an event name, or left out by a guard, because every property after them would be about them; adding the
event to a case of the `MC` module, or the guard's removal, shows them.

Windows supervisor (`Mounts`)

* `v_mount_slips_in`: registry.rs:244-245 says that no mount slips in behind the teardown. A mount whose record is still starting when `unmount_all`
  lists the mounted ones (470-474) settles before `entries.clear()` (482). Its handle is dropped there: the drop drains for the bounded wait of a shutdown (mounter.rs:351-360),
  but unlike `unmount` it does not look whether files are unsent after it, so it neither copies them nor keeps the staging folder (mounter.rs:290-340), which goes with the engine.
* `impatient`: the supervisor ends while the thread of a request still drains a volume; host.rs:145-147 says the uploads are finished or saved by then.
* `start_first`: the record of a crash is read by a client that finds no supervisor; one that starts a supervisor first (a mount) makes it overwrite the
  journal, and the user does not hear of the drives that went (docs/windows.md:132-136, cli.rs:596). In the same way a client that has read the journal and is slow
  to remove it (client.rs:66-80) removes that of a supervisor started in between. Without the event a supervisor starts when no journal is there and none is being read.

Writing

* the staging GC removes the file of a clean inode that is open; the next write through the handle goes to the removed file (staging.rs:85; 74-76 says the re-check
  under the lock prevents it). `DirtyHasBytes` is therefore proved and checked without a staging budget.
* a reader's close takes the recorded upload error of a file and its `release()` enqueues nothing: the dirty bytes then wait for `requeue_dirty` or the next
  writer, with no error on record. `staged_write` lets `flush()` take errors when a writable handle is left (`reader_flush` lifts that).
* `HubSync`, event `old_name`: a dirty file renamed a → b → a is added and then deleted by its own commit (mod.rs:4191, inode.rs:147).
* `HubSync`, without `quiet`: a rename between a cycle's snapshot and its `apply_commit` moves the file locally and the commit lands under the old name; the dirty mark
  and the pending old names are cleared. In the same way a clean rename onto a name whose delete is in
  flight loses the file on the Hub (flush.rs:309-313 expects the next cycle to correct both). With `quiet`, the batch of an `rmdir` by another client does the same: it takes the delete
  that the rename would have cancelled and reaches the Hub after it. `quiet` keeps calls that change names and cycles apart.
* `StreamingWrite`, event `ghost`: `release()` leaves `open_files` before it waits for the lock, so an `open(O_TRUNC)` ahead of it in the queue does not find the
  active writer, does not supersede it and takes its own snapshot of the dirty, hashless inode. If its commit fails the inode is clean, empty
  and hashless while the Hub has the file (mod.rs:2121, against 2115-2118), and a later `unlink()` deletes nothing remotely; the released writer itself
  is skipped and reported as `Committed`. `CleanIsCommitted`, `NoResurrection` and `CommittedIsStored` fail with this event.
* `StreamingWrite`, event `shadowed`: a superseded writer's deferred flush may register its hook late; until it is fulfilled the successor's hook is
  not registered (mod.rs:1203), so a drain that starts during the successor's `release()` ends before its commit. mod.rs:2759-2762 says "there must be no
  window where a committing handle is in neither map". `DrainKeepsAll` fails with `Events = {"drain", "shadowed"}`.
* the last close of an unlinked file removes its staging file without the per-inode lock, also under an upload (mod.rs:2923); flush.rs:392-394 says the
  guards held over the upload prevent that. The upload error then fails every other file of the batch.
* event `rewrite`: when a write lands during a commit `apply_commit` is skipped and `xet_hash` stays one commit behind; content
  restored to that older hash is taken for unchanged (flush.rs:502).
* event `shadow`: unlink decides by `xet_hash` whether the Hub has the file: rm a, create a (cancels the delete), rm a leaves a on the Hub (mod.rs:3574).
* event `drop_old_names`: unlink of a file renamed while dirty forgets its old remote name (mod.rs:3602).
* event `create_fails`: a create that fails at the staging file has already cancelled the queued delete of its name (mod.rs:3131).
* `StagedWrite`, calls `open write fsync setattr` with a budget: `setattr(size > 0)` downloads without clearing `staging_is_current`, so a failed
  download leaves a partial file that passes for the current content (mod.rs:4311; mod.rs:2028-2030 says what open does about it).
* `setattr(size > 0)` resizes any staging file it finds, also one that a poll made stale (mod.rs:4294, inode.rs:721).
* a writable open that downloads does not look at the dirty mark again: a write by another handle during the download is overwritten (mod.rs:2043).
* `flush_errors` keeps a file that a retry has uploaded since, so `failed_files` counts clean files (flush.rs:475, mod.rs:4481).
* a cancelled delete whose batch was in flight and fails comes back to the queue and is sent with the next cycle, however late (flush.rs:355 against flush.rs:312).

The view of the Hub (`RemoteSync`, `RemoteFeed`)

* case `MCKinds`: `insert()` asserts that a path does not exist with a different kind (inode.rs:585-589). A file found by HEAD in a directory that is not listed is in the
  table; rounds list loaded directories only, so nobody notices that the Hub replaces it by a directory; the first listing of its directory meets the file (`InsertFindsItsKind`). A debug
  build panics there and poisons the table's lock; a release build keeps the file. `Mirror` does not hold in this case either: when the poll has seen the revision before
  the listing, the next `lookup()` gets a 404, takes the name out of the listed directory, and it stays out of `readdir()` until it is looked up again or the Hub changes. To see both: `remote.cfg`
  with `Path <- MCDeepPath`, `Up <- MCDeepUp`, `Case <- MCKinds` and the invariant `InsertFindsItsKind`, or `Mirror`.
* event `orphan_name`: the snapshot of a round holds files that are unlinked and still open. When their path is gone from the Hub, `remove_remote_file` unlinks by parent
  and name whatever has the name by now, a dirty successor, too (poll.rs:90; 74-75 says local writes take precedence).
* event `unlink_replaced`: `unlink()` holds no lock of the table over its remote delete (mod.rs:3517-3640). A file that a round removes meanwhile, or the sweep evicts, may be listed again under a new inode;
  `unlink_one` then takes the name of the new inode and `remove_orphan` looks for the old one (mod.rs:3626-3638). An inode without a name and without a handle stays in the table, and a later
  removal of it drops the path mapping of whoever has its path by then.
* a directory that is listed again keeps the old hash of a name the table still has (inode.rs:585), although `apply_poll_diff` says of unloaded directories that "their first listing will be fresh".
* event `head_404_in_use`: HEAD revalidation that finds a file gone removes it, dirty or open or not (mod.rs:816).
* interval polling takes a round in which a listing failed for done and does not repeat it until the revision changes (poll.rs:187); following does.
* event `since_refused`: a session that follows live because `since=` was refused is not reconciled before it ends.
* a round does not notice that a path has turned from a directory into a file (the snapshot is of files).

Reading (`Reads`)

* the leader of a plan request that is dropped (`read_fetch_timeout`) leaves its key in flight (cached_xet_client.rs:60-63 has no guard, as file_cache.rs has): later
  callers of the key wait for nobody until their own timeouts. `PlansSound` says only that there is never more than one leader.
* events `hub_returns` with `etag_lost`: the sidecar with the ETag is not written and its failure ignored (hub_api.rs:1157); when the Hub returns to the version it names, a 304 keeps the wrong content.
* a case with two `inodes`: a path that gets a new inode (a removed and recreated name) while an open of the old one still downloads has two locks and one
  temporary file (mod.rs:2264, hub_api.rs:1142): the bytes of two downloads may mix, and one may be handed out half written.

Adapters (`FrontEnds`)

* event `late`: a handle opened before a change on the Hub and put in the pool after the invalidator ran serves the old content from then on (nfs.rs:506-510, issue #160).
  So does one opened before a WRITE of another request and pooled after that one's handle was evicted (nfs.rs:58, 340-345): the client does not read what it wrote. `Late` says which handles
  these are; without the event `Share` and `Publish` do not pool such a one, and nothing else waits for anything. A case of `Evicts` with the event shows the second form.
* event `resize`: SETATTR of a size leaves a pooled lazy handle as it is (nfs.rs:242-274). Without it there is no SETATTR of a size while one is pooled.
* a pinned front keeps the whole pool from evicting, so it grows past its bound although unpinned handles are there (nfs.rs:797).
* `evict_handle` takes an upload error nobody is told of; an error is not cleared by a later upload, and is taken by whoever flushes first, a reader as well.
* `wait_committed(None)`, a flush of the volume, waits for files and for queued deletes, but looks at no error; a delete at `cleanup` is by path, not by the file object.
* a WinFsp read handle is bound to the content at the first read.
* event `all_truncate`: as many `open(O_TRUNC)` as there are fuser threads, each waiting for a deferred commit, wedge the mount: the `release()` they wait for finds no thread (mod.rs:2108).
* event `remove` with FUSE or NFS: a FUSE listing goes by index and skips an entry when an earlier one is removed; an NFS one restarts when the entry it stopped at is gone (`unwrap_or(0)`).

## Not modelled

The overlap of two supervisors: `Start` waits for the last one to end. The code keeps a second one out by the pipe, which is closed before the second `unmount_all` (host.rs:165-171). A supervisor that binds the pipe then
and writes its journal has it removed by the old one's `remove_journal` (registry.rs:537-541); what it remembers as written spares it the next write, so until its list of drives changes a crash of it would
not be reported. `NoSilentLoss` does not speak of that.

Sizes beyond zero/positive and byte ranges in the writing modules (reads have them); the staging budget's arithmetic (the GC
runs or does not); the memory budget of prefetching over all handles; timestamps, permissions, xattrs, security descriptors; tokens,
HTTP retries and pagination; back-off times; directory renames and hard links (a hard link's commit of its source is in `StreamingWrite`);
the overlay (local files only, nothing of it reaches the Hub); the pipe's framing and credentials; service, desktop application, command line, daemon and set-up, which
are start-up code without state that steps of two actors share. Liveness under
fairness and `ENABLED` (`NobodyStuck`) are outside the prover's reach and are checked by TLC only.
