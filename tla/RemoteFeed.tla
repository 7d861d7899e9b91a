----------------------------- MODULE RemoteFeed -----------------------------
(***************************************************************************)
(* The task that watches the Hub (virtual_fs/poll.rs, follow.rs): it       *)
(* follows the bucket's event stream and resumes it by cursor, by revision *)
(* or live, and falls back to interval polling for good when the stream    *)
(* cannot be used; both reconcile the inode table by rounds that list      *)
(* every loaded directory.  How long it sleeps between attempts (Backoff,  *)
(* Retry-After) is left out: every delay ends.                             *)
(***************************************************************************)
EXTENDS RemoteSync

VARIABLE feed         \* the watching task

allvars == <<vars, feed>>
NoRev == MaxRev + 1   \* no revision probed yet
MaxSessionsWithoutReady == 3

\* mode : "follow", "poll" or "off" (the stream is unusable, no interval);
\* at   : where the follow loop is;  resume, cursor : where it resumes;
\* last : last_revision, probed : the revision the round is for;
\* pos, ready : the stream;  dead : sessions that ended before `ready`.
FeedInit ==
    /\ Init
    /\ \E last \in IF On("unprimed") THEN {Rev, NoRev} ELSE {Rev} :
           feed = [mode |-> case.feed, at |-> "resume", resume |-> "since", cursor |-> 0,
                   last |-> last, probed |-> last, skip |-> last # NoRev,
                   pos |-> 0, ready |-> FALSE, dead |-> 0]

-----------------------------------------------------------------------------
(* poll_round: every loaded directory is listed, in any order; then the    *)
(* differences to a snapshot of the table are computed, and applied.       *)

StartRound == round' = [NoRound EXCEPT !.pc = "list", !.todo = LoadedDirs(table)]
RoundVars == <<case, log, table, neg, call, dirlock, kernel, commit, sweep>>

RoundList(q) ==
    /\ round.pc = "list" /\ q \in round.todo
    /\ round' = [round EXCEPT !.todo = @ \ {q}, !.ok = @ \cup {q}, !.entries = @ \cup ListTree(q)]
    /\ UNCHANGED <<RoundVars, feed>>
\* A directory that is gone may be an error of the Hub, as may any.
RoundListFails(q) ==
    /\ round.pc = "list" /\ q \in round.todo
    /\ ~IsHubDir(q) \/ On(IF feed.mode = "poll" THEN "poll_list_fails" ELSE "list_fails")
    /\ round' = [round EXCEPT !.todo = @ \ {q}, !.failed = @ \cup {q}]
    /\ UNCHANGED <<RoundVars, feed>>

\* A directory that failed counts as listed when the listing of its parent
\* shows that it is gone.
Polled == LET p[q \in Path \cup {Root}] ==
                  \/ q \in round.ok
                  \/ /\ q \in round.failed /\ q # Root
                     /\ p[Up[q]]
                     /\ [path |-> q, hash |-> None] \notin round.entries
          IN  {q \in Path \cup {Root} : p[q]}
Complete == round.failed \subseteq Polled

\* file_snapshot under the read lock; a file is compared by its hash, and
\* missing only when its directory was listed.
RoundDiff ==
    LET files == {e \in round.entries : e.hash # None}
        clean == {i \in Inodes(table) : IsFile(table, i) /\ ~table.ino[i].dirty}
        remoteOf(i) == {e \in files : e.path = table.ino[i].path}
    IN  /\ round.pc = "list" /\ round.todo = {}
        /\ round' = [round EXCEPT !.pc = "apply",
               !.updates = {[ino |-> i, hash |-> (CHOOSE e \in remoteOf(i) : TRUE).hash] :
                   i \in {j \in clean : \E e \in remoteOf(j) : e.hash # table.ino[j].hash}},
               !.deletions = {i \in clean : remoteOf(i) = {} /\ Up[table.ino[i].path] \in Polled}]
        /\ UNCHANGED <<RoundVars, feed>>

\* Updates and deletions, checked again under the write lock; then every
\* remote name the table lacks invalidates the nearest loaded directory and
\* the negative entries below it.  An unlinked file that is still open is in
\* the snapshot too, and what has its name by then is what leaves: the event
\* "orphan_name".
Applied ==
    LET updated == FoldSet(LAMBDA x, acc : UpdateRemoteFile(acc, x.ino, x.hash), table, round.updates)
    IN  FoldSet(LAMBDA i, acc : RemoveRemoteFile(acc, i), updated, round.deletions)
RoundApplyForgets ==
    /\ round.pc = "apply"
    /\ table' = Applied /\ round' = NoRound
    /\ UNCHANGED <<case, log, neg, call, dirlock, kernel, commit, sweep, feed>>
RoundApply ==
    LET new == {e.path : e \in {x \in round.entries : GetByPath(Applied, x.path) = None}}
        dirs == {i \in {NearestDirAncestor(Applied, p) : p \in new} : IsLoaded(Applied, i)}
        below(k) == \E i \in dirs : LET q == Applied.ino[i].path IN q = k \/ q \in Ancestors[k]
        successor(i) == Has(table, i) /\ ~Linked(table, i) /\ GetByPath(table, table.ino[i].path) # None
    IN  /\ round.pc = "apply"
        /\ (\E i \in round.deletions : successor(i)) => On("orphan_name")
        /\ table' = InvalidateChildren(Applied, dirs)
        /\ neg' = {k \in neg : ~below(k)}
        /\ round' = NoRound
        /\ feed' = IF feed.mode = "follow" /\ Complete
                   THEN [feed EXCEPT !.last = feed.probed, !.at = "connect"] ELSE feed
        /\ UNCHANGED <<case, log, call, dirlock, kernel, commit, sweep>>

-----------------------------------------------------------------------------
(* poll_remote_changes: an unchanged revision spares the round; a probe    *)
(* that fails for another reason than load or a stale token does not.      *)

Idle == round.pc = "idle"

PollProbe ==
    /\ feed.mode = "poll" /\ Idle /\ feed.last # Rev
    /\ feed' = [feed EXCEPT !.last = Rev]
    /\ StartRound
    /\ UNCHANGED RoundVars
PollProbeFails ==
    /\ feed.mode = "poll" /\ Idle /\ On("probe_fails")
    /\ StartRound
    /\ UNCHANGED <<RoundVars, feed>>

-----------------------------------------------------------------------------
(* follow_remote_changes.                                                  *)

OnlyFeed == UNCHANGED vars
GiveUp(f) == [f EXCEPT !.mode = IF On("no_interval") THEN "off" ELSE "poll"]

\* Without a cursor the revision is probed, except on the first connect: a
\* bucket that has moved is reconciled by a round before the subscription.
FollowProbe ==
    /\ feed.mode = "follow" /\ feed.at = "resume" /\ Idle
    /\ feed.resume = "since" /\ ~feed.skip
    /\ IF feed.last = Rev THEN feed' = [feed EXCEPT !.at = "connect"] /\ UNCHANGED round
       ELSE feed' = [feed EXCEPT !.probed = Rev] /\ StartRound
    /\ UNCHANGED RoundVars
\* The probe is skipped or fails, or there is a cursor.
FollowResume ==
    /\ feed.mode = "follow" /\ feed.at = "resume" /\ Idle
    /\ feed.resume = "since" => feed.skip \/ On("probe_fails")
    /\ feed' = [feed EXCEPT !.at = "connect", !.skip = FALSE]
    /\ OnlyFeed

ResumePoint == CASE feed.resume = "cursor" -> feed.cursor
                 [] feed.resume = "since" /\ feed.last # NoRev -> feed.last
                 [] OTHER -> Rev
FollowConnect ==
    /\ feed.mode = "follow" /\ feed.at = "connect"
    /\ feed' = [feed EXCEPT !.at = "stream", !.pos = ResumePoint, !.ready = FALSE]
    /\ OnlyFeed
\* Not served, or a bare subscription refused: polling from now on.
FollowUnusable ==
    /\ feed.mode = "follow" /\ feed.at = "connect"
    /\ On("not_served") \/ feed.resume = "live"
    /\ feed' = GiveUp(feed)
    /\ OnlyFeed
\* A refused resume point (400) is retried one step further back.
FollowRefused ==
    /\ feed.mode = "follow" /\ feed.at = "connect"
    /\ \/ feed.resume = "cursor" /\ On("cursor_refused")
       \/ feed.resume = "since" /\ On("since_refused")
    /\ feed' = [feed EXCEPT !.at = "resume", !.resume = IF @ = "cursor" THEN "since" ELSE "live"]
    /\ OnlyFeed
FollowConnectFails ==
    /\ feed.mode = "follow" /\ feed.at = "connect" /\ On("connect_fails")
    /\ feed' = [feed EXCEPT !.at = "resume"]
    /\ OnlyFeed

Streaming == feed.mode = "follow" /\ feed.at = "stream"

\* The server has replayed what it had; `ready` has a cursor once there was
\* a change.
EventReady ==
    /\ Streaming /\ ~feed.ready /\ feed.pos = Rev
    /\ feed' = [feed EXCEPT !.ready = TRUE, !.dead = 0,
                            !.resume = IF feed.pos > 0 THEN "cursor" ELSE @,
                            !.cursor = IF feed.pos > 0 THEN feed.pos ELSE @]
    /\ OnlyFeed

\* apply_follow_changes: a file of the table is changed or removed in place
\* unless it is dirty; every other path makes the nearest directory list
\* again; what was added or updated leaves the negative cache, with all
\* directories above it.
ApplyChange(t, change) ==
    LET i == GetByPath(t, change.path)
    IN  IF ~IsFile(t, i) THEN t
        ELSE IF change.hash = None THEN RemoveRemoteFile(t, i)
        ELSE UpdateRemoteFile(t, i, change.hash)
StaleNever(t, change) == {}
Stale(t, change) == IF IsFile(t, GetByPath(t, change.path)) THEN {}
                    ELSE {NearestDirAncestor(t, change.path)} \cap {d \in Inodes(t) : IsLoaded(t, d)}
EventChanges(to) ==
    LET batch == [n \in 1..to - feed.pos |-> log[feed.pos + n]]
        step(acc, change) == [table |-> ApplyChange(acc.table, change),
                              dirs |-> acc.dirs \cup Stale(acc.table, change)]
        all == FoldLeft(step, [table |-> table, dirs |-> {}], batch)
        added == {change.path : change \in {x \in ToSet(batch) : x.hash # None}}
    IN  /\ Streaming /\ feed.pos < to /\ to <= Rev
        /\ table' = InvalidateChildren(all.table, all.dirs)
        /\ neg' = neg \ (added \cup UNION {Ancestors[p] : p \in added})
        /\ feed' = [feed EXCEPT !.pos = to, !.resume = "cursor", !.cursor = to]
        /\ UNCHANGED <<case, log, call, dirlock, kernel, commit, round, sweep>>

\* The end of a session; one that was live only goes back to `since`, and
\* the third in a row without a `ready` ends the following.
Ended(f, healthy) ==
    LET next == [f EXCEPT !.at = "resume", !.resume = IF @ = "live" THEN "since" ELSE @,
                          !.dead = IF healthy THEN @ ELSE @ + 1]
    IN  IF next.dead >= MaxSessionsWithoutReady THEN GiveUp(next) ELSE next
\* The server no longer has what follows the resume point.
EventReset ==
    /\ Streaming /\ On("reset") /\ ~feed.ready
    /\ feed' = Ended([feed EXCEPT !.resume = "since"], TRUE)
    /\ OnlyFeed
EventReconnect ==
    /\ Streaming /\ On("reconnect")
    /\ feed' = Ended([feed EXCEPT !.resume = IF feed.pos > 0 THEN "cursor" ELSE @,
                                  !.cursor = IF feed.pos > 0 THEN feed.pos ELSE @], TRUE)
    /\ OnlyFeed
StreamEnds ==
    /\ Streaming /\ On("stream_ends")
    /\ feed' = Ended(feed, feed.ready)
    /\ OnlyFeed

-----------------------------------------------------------------------------
(* The specification.                                                      *)

\* What users of the mount and of the Hub may or may not do.
Users ==
    \/ \E p \in Path : RemoteChange(p) \/ NegExpire(p)
    \/ \E c \in Client, d \in Inodes(table) :
          \/ Readdir(c, d)
          \/ \E p \in Path : Lookup(c, d, p) \/ \E op \in DirOps : CallOn(c, d, p, op)
    \/ \E i \in Ino : Open(i) \/ OpenTruncate(i) \/ Close(i) \/ \E c \in Client : ForgetDrop(c, i)
    \/ \E S \in SUBSET Ino : SweepStart(S)
\* The steps of a call that has begun.
CallStep(c) ==
    \/ Reply(c) \/ RevalidateSkip(c) \/ RevalidateHead(c) \/ RevalidateApply(c)
    \/ Probe(c) \/ MissList(c) \/ NegInsert(c) \/ InsertFile(c) \/ InsertDir(c)
    \/ Load(c) \/ ListDir(c) \/ Install(c) \/ LookupLoaded(c) \/ ReaddirLoaded(c)
    \/ CreateInsert(c) \/ CreateOpen(c) \/ Mkdir(c) \/ MkdirAttr(c)
    \/ UnlinkCheck(c) \/ UnlinkRemote(c) \/ UnlinkLocal(c) \/ ForgetEvict(c)
InodeStep(i) == CommitHub(i) \/ CommitApply(i) \/ Release(i)
VfsStep == (\E c \in Client : CallStep(c)) \/ (\E i \in Ino : InodeStep(i)) \/ SweepEvict

RoundStep == \/ \E q \in Path \cup {Root} : RoundList(q) \/ RoundListFails(q)
             \/ RoundDiff \/ RoundApply
PollStep == PollProbe \/ PollProbeFails
FollowStep == \/ FollowProbe \/ FollowResume \/ FollowConnect
              \/ FollowUnusable \/ FollowRefused \/ FollowConnectFails
EventStep == \/ EventReady \/ EventReset \/ EventReconnect \/ StreamEnds
             \/ \E to \in 1..MaxRev : EventChanges(to)

FeedStep == RoundStep \/ PollStep \/ FollowStep \/ EventStep

Next == FeedStep \/ ((Users \/ VfsStep) /\ UNCHANGED feed)
Spec == FeedInit /\ [][Next]_allvars

-----------------------------------------------------------------------------
(* Properties.                                                             *)

\* The type of every variable.
Calls == {"none", "lookup", "relookup", "readdir", "create", "mkdir", "unlink", "forget"}
TypeOK ==
    /\ case \in Case /\ log \in Seq([path : Path, hash : 0..MaxRev]) /\ Rev <= MaxRev
    /\ Inodes(table) \subseteq Ino /\ RootIno \in Inodes(table) /\ table.next \in 2..MaxIno + 1
    /\ \A i \in Inodes(table) :
         /\ table.ino[i].kind \in {"file", "dir"} /\ table.ino[i].path \in Path \cup {Root}
         /\ table.ino[i].hash \in 0..MaxRev /\ table.ino[i].nlink \in 0..1
         /\ table.ino[i].open \in Nat /\ table.ino[i].nlookup \in Nat
    /\ neg \subseteq Path /\ dirlock \subseteq Ino /\ sweep \subseteq Ino
    /\ \A c \in Client : call[c].op \in Calls /\ call[c].ino \in Ino \cup {None}
    /\ refs \in [Ino -> 0..MaxRefs] /\ opens \in [Ino -> 0..MaxRefs]
    /\ commit \in [Ino -> 0..MaxRev]
    /\ feed.mode \in {"follow", "poll", "off"} /\ feed.pos \in 0..MaxRev

\* Whatever calls, rounds, stream events, forgets and sweeps interleave, the
\* inode map, path_to_inode and the children lists of all directories tell one
\* story (InodeTable's operations keep four structures up to date by hand).
TableConsistent == TableIsConsistent(table)

Quiet == /\ \A c \in Client : call[c].pc = "idle"
         /\ \A i \in Ino : commit[i] = None
         /\ Idle /\ sweep = {}
\* The feed has seen the last change of the Hub.
CaughtUp == \/ feed.mode = "poll" /\ feed.last = Rev
            \/ Streaming /\ feed.ready /\ feed.pos = Rev

\* The files of d that the mount has from the Hub are the Hub's.
ContentIsCurrent(t, d) == \A c \in t.ino[d].children :
    IsFile(t, c.ino) => t.ino[c.ino].dirty \/ t.ino[c.ino].hash = Hub[c.name]
\* The stream has delivered everything since the mount.
NoRoundYet == feed.mode = "follow" /\ feed.last = Cardinality(case.initial)
Mirrored ==
    \A d \in Inodes(table) : IsLoaded(table, d) /\ table.ino[d].remote =>
      /\ \A p \in Path : Up[p] = table.ino[d].path /\ LookupChild(table, d, p) = None
                          => Hub[p] = None /\ ~IsHubDir(p)
      /\ NoRoundYet => ContentIsCurrent(table, d)

\* No answer of the Hub is used after the Hub has changed again.
InTime == ~On("late_answer")
\* Once the feed has seen the Hub's last change, no listed directory lacks a
\* name that the Hub has, and after an unbroken stream all contents are the
\* Hub's: a resume, a reset, a refused cursor or the fall back to polling
\* leaves no gap (follow.rs's Resume, poll_round's `complete`).
\* This is about the cases of `remote`; it is false with MCKinds of MCRemoteFeed.
Mirror == InTime /\ Quiet /\ CaughtUp => Mirrored

\* "path exists with different kind" (debug_assert of insert()): a listing
\* about to be installed finds each of its names either unknown or as what the
\* Hub has, a file or a directory.  The code does not see to it:
\* the Hub may turn a file that was looked up by HEAD into a directory (the
\* case MCKinds of MCRemoteFeed), so no run claims it.
InsertFindsItsKind ==
    \A c \in Client : call[c].pc = "install" /\ IsDir(table, call[c].dir) /\ ~IsLoaded(table, call[c].dir) =>
      \A e \in call[c].list : GetByPath(table, e.path) # None =>
                               table.ino[GetByPath(table, e.path)].kind = KindOf(e)

\* A round leaves every directory that it has listed with the Hub's content:
\* apply_poll_diff spares dirty files only, whatever was opened, created or
\* evicted since the round's snapshot.
RoundReconciles == [][InTime /\ round.pc = "apply" /\ round' = NoRound =>
    \A d \in Inodes(table) :
       IsDir(table, d) /\ table.ino[d].path \in round.ok => ContentIsCurrent(table', d)]_allvars

\* "local writes take precedence until flushed" (remove_remote_file): a dirty
\* file keeps its name and stays dirty until its own commit or its unlink().
LocalWins == [][\A i \in Ino : Linked(table, i) /\ table.ino[i].dirty =>
                   \/ Linked(table', i) /\ table'.ino[i].dirty
                   \/ commit'[i] # commit[i] \/ Unlinking(i)]_allvars

\* An inode with a descriptor of the kernel stays in the table, whatever the
\* Hub deletes and the sweep evicts (evict_if_safe, remove_remote_file).
OpenSurvives == \A i \in Ino : opens[i] > 0 => Has(table, i)

\* The table is one story and keeps what the kernel holds, after each step.
TableSound == TypeOK /\ TableConsistent /\ OpenSurvives

\* A name that the kernel knows goes away only when the Hub no longer has it,
\* the stream says so, or unlink() removes it: never because a listing failed
\* or a directory was evicted and listed again.
RemovedOnlyIfGone ==
    [][\A i \in Ino : InTime /\ refs[i] > 0 /\ Linked(table, i) /\ ~Linked(table', i) =>
          LET p == table.ino[i].path
          IN  \/ IF IsFile(table, i) THEN Hub[p] = None ELSE ~IsHubDir(p)
              \/ \E n \in feed.pos + 1..feed'.pos : log[n] = [path |-> p, hash |-> None]
              \/ Unlinking(i)]_allvars

\* The task's own steps follow each other; the Hub answers, connects and sends
\* again and again, though any single attempt may fail.
Fairness == /\ WF_allvars(FollowProbe \/ FollowResume \/ RoundDiff \/ RoundApply)
            /\ SF_allvars(PollProbe) /\ SF_allvars(\E q \in Path \cup {Root} : RoundList(q))
            /\ SF_allvars(FollowConnect) /\ SF_allvars(EventReady) /\ SF_allvars(EventChanges(Rev))
FairSpec == Spec /\ Fairness

\* The feed never stays behind the Hub for good: whatever is refused, dropped,
\* reset or fails, it sees the last change, unless the stream is unusable and
\* the mount has no polling interval.
CatchesUp == []<>(CaughtUp \/ feed.mode = "off")
=============================================================================
