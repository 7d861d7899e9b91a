-------------------------------- MODULE Mounts --------------------------------
(***************************************************************************)
(* The background supervisor of Windows: the registry of manager/          *)
(* registry.rs, the loop and teardown of windows/host.rs, the volumes of   *)
(* windows/mounter.rs, the session journal, and the clients that start the *)
(* supervisor, ask it and read the journal after it died.                  *)
(*                                                                         *)
(* A process is the thread of one request or the supervisor's own loop     *)
(* (Monitor); a step is what a process does under one lock or between two. *)
(* A mount's handle is in its entry exactly while the entry is Mounted;    *)
(* elsewhere the process that took it has it.                              *)
(*                                                                         *)
(* Mounts are numbered in the order in which they are registered, so the   *)
(* order of the registry's vector, which only ever grows at its end, is    *)
(* that of the numbers.                                                    *)
(***************************************************************************)
EXTENDS Integers, FiniteSets

CONSTANTS Target, Mount, File, Thread, Monitor, NONE,
          Client,      \* programs that look whether a supervisor was lost
          MaxFailed,   \* MAX_FAILED_RECORDS
          Case         \* [threads, targets, mounts, files, hosts, asks, events]

ASSUME MountsAssumption ==
    /\ Monitor \notin Thread /\ MaxFailed \in Nat /\ Mount \subseteq Nat
    /\ NONE \notin Mount \cup Target \cup [pid : Nat, mounts : SUBSET Target]
    /\ \A c \in Case : /\ c.threads \subseteq Thread /\ c.targets \subseteq Target
                       /\ c.mounts \subseteq Mount /\ c.files \subseteq File

VARIABLES host,      \* at, pid, shutdown, ended
          entries,   \* Registry::entries
          vol,       \* the volume and the engine of each mount
          call,      \* what each process is doing
          journal,   \* the session journal: file, journal_written, what each client read
          told,      \* the supervisors whose end should be, was, and was once more reported
          case
vars == <<host, entries, vol, call, journal, told, case>>
Process == Thread \cup {Monitor}
Happens(event) == event \in case.events

State == {"starting", "mounted", "stopping", "failed"}
Idle == [at |-> "idle", id |-> NONE, next |-> "idle", then |-> "idle", todo |-> {}, stops |-> {}, seen |-> {}, pass |-> 1]
Fresh == [target |-> NONE, drive |-> "none", engine |-> "none", writer |-> FALSE,
          dirty |-> {}, copied |-> {}, kept |-> FALSE]

Init ==
    /\ case \in Case
    /\ host = [at |-> "off", pid |-> 0, shutdown |-> FALSE, ended |-> "running"]
    /\ entries = {}
    /\ vol = [v \in Mount |-> Fresh]
    /\ call = [p \in Process |-> Idle]
    /\ journal = [file |-> NONE, written |-> NONE, read |-> [k \in Client |-> NONE]]
    /\ told = [owed |-> {}, said |-> {}, again |-> {}]

-----------------------------------------------------------------------------
(* The registry's entries: one place to look each thing up.                *)

At(t) == {e \in entries : e.target = t}
Without(t) == entries \ At(t)
InState(state) == {e \in entries : e.state = state}
Marked(ids, state) == {IF e.id \in ids THEN [e EXCEPT !.state = state] ELSE e : e \in entries}
Listed == {e.target : e \in InState("mounted")}
\* The first of these mounts in the registry's order.
IsFirst(v, ids) == v \in ids /\ \A w \in ids : v <= w
\* prune_failed: the oldest failed records go when there are too many.
Pruned == LET Later(e) == {f \in InState("failed") : f.id > e.id}
          IN entries \ {e \in InState("failed") : Cardinality(Later(e)) >= MaxFailed}
LetterFree(t) == \A v \in Mount : ~(vol[v].target = t /\ vol[v].drive = "up")

\* unmount_all has listed the mounts and not cleared the entries.
TearingDown == call[Monitor].then = "next"

Goes(p, at) == call' = [call EXCEPT ![p].at = at]
Becomes(p, c) == call' = [call EXCEPT ![p] = c]
OnlyCall == UNCHANGED <<host, entries, vol, journal, told, case>>
OnlyEntries == UNCHANGED <<host, vol, journal, told, case>>
OnlyVol == UNCHANGED <<host, entries, journal, told, case>>
Asks(p, what) == p \in case.threads /\ what \in case.asks /\ host.at = "on" /\ call[p].at = "idle"

-----------------------------------------------------------------------------
(* Registry::mount.  What is refused changes nothing.                      *)

MountBegin(p, v, t) ==
    /\ Asks(p, "mount") /\ t \in case.targets /\ IsFirst(v, {w \in case.mounts : vol[w] = Fresh})
    /\ ~host.shutdown
    /\ At(t) \subseteq InState("failed")
    /\ LetterFree(t)
    /\ entries' = Without(t) \cup {[id |-> v, target |-> t, state |-> "starting"]}
    /\ vol' = [vol EXCEPT ![v].target = t]
    /\ Becomes(p, [Idle EXCEPT !.at = "build", !.id = v])
    /\ UNCHANGED <<host, journal, told, case>>
\* WinFspMounter::mount gives up: no driver, no such repository, the Hub does
\* not answer within STARTUP_DEADLINE, or the letter was taken meanwhile.
MountFails(p) ==
    /\ call[p].at = "build"
    /\ vol' = [vol EXCEPT ![call[p].id].engine = "off"]
    /\ Goes(p, "settle") /\ OnlyVol
\* The volume is up, and programs may write on it before the registry knows.
Serve(p) ==
    /\ call[p].at = "build" /\ LetterFree(vol[call[p].id].target)
    /\ vol' = [vol EXCEPT ![call[p].id].drive = "up", ![call[p].id].engine = "on"]
    /\ Goes(p, "settle") /\ OnlyVol
\* Mutant: an orphan that nobody unmounts.
SettleForgetsOrphan(p) ==
    /\ call[p].at = "settle" /\ (Happens("slips_in") \/ ~TearingDown)
    /\ entries' = Marked({call[p].id}, IF vol[call[p].id].engine = "on" THEN "mounted" ELSE "failed")
    /\ Becomes(p, [call[p] EXCEPT !.at = "prune", !.id = NONE])
    /\ OnlyEntries
\* Back in Registry::mount: a record cleared meanwhile makes it an orphan.
Settle(p) ==
    LET v == call[p].id
        up == vol[v].engine = "on"
        known == \E e \in entries : e.id = v
    IN /\ call[p].at = "settle" /\ (Happens("slips_in") \/ ~TearingDown)
       /\ entries' = Marked({v}, IF up THEN "mounted" ELSE "failed")
       /\ Becomes(p, IF up /\ ~known THEN [call[p] EXCEPT !.at = "drive", !.next = "prune"]
                     ELSE [call[p] EXCEPT !.at = "prune", !.id = NONE])
       /\ OnlyEntries
PruneFailed(p) ==
    /\ call[p].at = "prune"
    /\ entries' = Pruned
    /\ Goes(p, "list") /\ OnlyEntries

-----------------------------------------------------------------------------
(* Registry::unmount, up to taking the handle; then WinMountHandle's own   *)
(* unmount, which mount (an orphan) and check_health (a lost volume) run   *)
(* too; then the rest of Registry::unmount.                                *)

Takes(p, t, force, c) ==
    \E e \in At(t) :
       \/ /\ e.state = "failed"
          /\ entries' = Without(t)
          /\ Becomes(p, [c EXCEPT !.at = c.then])
       \/ /\ e.state = "mounted" /\ (force \/ ~vol[e.id].writer)
          /\ entries' = Marked({e.id}, "stopping")
          /\ Becomes(p, [c EXCEPT !.at = "drive", !.id = e.id, !.next = "retain"])
UnmountBegin(p, t, force) ==
    /\ Asks(p, IF force THEN "force" ELSE "unmount")
    /\ Takes(p, t, force, Idle) /\ OnlyEntries
DriveGone(p) ==
    /\ call[p].at = "drive"
    /\ vol' = [vol EXCEPT ![call[p].id].drive = "gone", ![call[p].id].writer = FALSE]
    /\ Goes(p, "drain") /\ OnlyVol
\* Mutant: the unsent files are not looked at.
DrainSkipsSave(p) ==
    /\ call[p].at = "drain"
    /\ \E sent \in SUBSET vol[call[p].id].dirty : vol' = [vol EXCEPT ![call[p].id].dirty = @ \ sent]
    /\ Goes(p, "free") /\ OnlyVol
\* VirtualFs::shutdown waits for the uploads as long as the settings say.
Drain(p) ==
    /\ call[p].at = "drain"
    /\ \E sent \in SUBSET vol[call[p].id].dirty : vol' = [vol EXCEPT ![call[p].id].dirty = @ \ sent]
    /\ Goes(p, "save") /\ OnlyVol
\* preserve tries every file; a copy that is not whole does not count.
Preserved(v) == SUBSET vol[v].dirty
\* Mutant: one copy that succeeds is enough.
SaveSome(p) ==
    LET v == call[p].id IN
    /\ call[p].at = "save"
    /\ \E copied \in Preserved(v) :
          vol' = [vol EXCEPT ![v].copied = copied, ![v].kept = copied = {}]
    /\ Goes(p, "free") /\ OnlyVol
\* A file that could not be copied keeps the staging folder (keep_staging).
Save(p) ==
    LET v == call[p].id IN
    /\ call[p].at = "save"
    /\ \E copied \in Preserved(v) :
          vol' = [vol EXCEPT ![v].copied = copied, ![v].kept = copied # vol[v].dirty]
    /\ Goes(p, "free") /\ OnlyVol
\* The engine goes, and its staging folder unless it is kept.  The handle is
\* used up; unmount still has the target.
Free(p) ==
    /\ call[p].at = "free"
    /\ vol' = [vol EXCEPT ![call[p].id].engine = "off"]
    /\ Becomes(p, [call[p] EXCEPT !.at = call[p].next, !.id = IF call[p].next = "retain" THEN @ ELSE NONE])
    /\ OnlyVol
\* Mutant: the entry stays.
RetainKeeps(p) ==
    /\ call[p].at = "retain"
    /\ Becomes(p, [call[p] EXCEPT !.at = "list", !.id = NONE]) /\ OnlyCall
Retain(p) ==
    /\ call[p].at = "retain"
    /\ entries' = Without(vol[call[p].id].target)
    /\ Becomes(p, [call[p] EXCEPT !.at = "list", !.id = NONE]) /\ OnlyEntries
Dismiss(p, t) ==
    /\ Asks(p, "dismiss")
    /\ At(t) \cap InState("failed") # {}
    /\ entries' = Without(t) /\ UNCHANGED call /\ OnlyEntries

-----------------------------------------------------------------------------
(* check_health: the loop's tick and every list request.                   *)

Lost == {e.id : e \in {m \in InState("mounted") : vol[m.id].drive = "lost"}}
\* Mutant: the handle is used and stays in the entry.
MarkLostTwice(p, c) ==
    /\ Becomes(p, [c EXCEPT !.at = "lost", !.todo = Lost])
    /\ OnlyCall
MarkLost(p, c) ==
    /\ entries' = Marked(Lost, "failed")
    /\ Becomes(p, [c EXCEPT !.at = "lost", !.todo = Lost])
    /\ OnlyEntries
List(p) == Asks(p, "list") /\ MarkLost(p, Idle)
Tick == call[Monitor].at = "sleep" /\ MarkLost(Monitor, [Idle EXCEPT !.then = "decide"])
NextLost(p) ==
    LET c == call[p] IN
    /\ c.at = "lost"
    /\ \/ \E v \in Mount :
              /\ IsFirst(v, c.todo)
              /\ Becomes(p, [c EXCEPT !.at = "drive", !.id = v, !.next = "lost", !.todo = @ \ {v}])
       \/ /\ c.todo = {}
          /\ Goes(p, IF entries = {} THEN c.then ELSE "list")
    /\ OnlyCall

-----------------------------------------------------------------------------
(* write_journal lists the mounts under one lock and writes under another. *)

ListMounts(p) ==
    /\ call[p].at = "list"
    /\ Becomes(p, [call[p] EXCEPT !.at = "write", !.seen = Listed]) /\ OnlyCall
WriteJournal(p) ==
    LET new == [pid |-> host.pid, mounts |-> call[p].seen] IN
    /\ call[p].at = "write"
    /\ journal' = [journal EXCEPT !.file = IF journal.written = new THEN @ ELSE new, !.written = new]
    /\ Becomes(p, [call[p] EXCEPT !.at = call[p].then, !.seen = {}])
    /\ UNCHANGED <<host, entries, vol, told, case>>
WriteFails(p) ==
    /\ call[p].at = "write" /\ Happens("disk_full") /\ journal.written # [pid |-> host.pid, mounts |-> call[p].seen]
    /\ Becomes(p, [call[p] EXCEPT !.at = call[p].then, !.seen = {}]) /\ OnlyCall

-----------------------------------------------------------------------------
(* The supervisor: its loop, its teardown, its end.                        *)

Start ==
    /\ host.at = "off" /\ host.pid < case.hosts
    /\ Happens("start_first") \/ (journal.file = NONE /\ \A k \in Client : journal.read[k] = NONE)
    /\ host' = [at |-> "on", pid |-> host.pid + 1, shutdown |-> FALSE, ended |-> "running"]
    /\ call' = [call EXCEPT ![Monitor] = [Idle EXCEPT !.at = "sleep"]]
    /\ journal' = [journal EXCEPT !.written = NONE]
    /\ UNCHANGED <<entries, vol, told, case>>
Shutdown(p) ==
    /\ Asks(p, "shutdown")
    /\ host' = [host EXCEPT !.shutdown = TRUE]
    /\ UNCHANGED <<entries, vol, call, journal, told, case>>
\* Nothing is asked for ten minutes: no request is under way either.
IdleFor == Happens("idle") /\ \A p \in Thread : call[p].at = "idle"
Decide ==
    /\ call[Monitor].at = "decide"
    /\ Goes(Monitor, IF host.shutdown \/ (entries = InState("failed") /\ IdleFor) THEN "stop" ELSE "sleep")
    /\ OnlyCall
RequestShutdown ==
    /\ call[Monitor].at = "stop"
    /\ host' = [host EXCEPT !.shutdown = TRUE]
    /\ Goes(Monitor, "stop_all") /\ UNCHANGED <<entries, vol, journal, told, case>>
\* unmount_all: what is mounted now, one after the other, by force.
StopAll ==
    LET mounted == {e.id : e \in InState("mounted")} IN
    /\ call[Monitor].at = "stop_all"
    /\ Becomes(Monitor, [call[Monitor] EXCEPT !.at = "next", !.stops = mounted, !.then = "next"])
    /\ OnlyCall
StopNext ==
    LET m == call[Monitor] IN
    /\ m.at = "next"
    /\ \E v \in Mount :
          LET t == vol[v].target
              c == [m EXCEPT !.stops = @ \ {v}]
          IN /\ IsFirst(v, m.stops)
             /\ \/ Takes(Monitor, t, TRUE, c)
                \/ /\ At(t) \subseteq InState("starting") \cup InState("stopping")
                   /\ Becomes(Monitor, c) /\ UNCHANGED entries
    /\ OnlyEntries
\* A handle still in an entry is dropped with it: Drop for WinMountHandle
\* drains the engine and frees it with the drive, and saves nothing.
Dropped(v, unsent) == [vol[v] EXCEPT !.drive = "gone", !.engine = "off", !.writer = FALSE, !.dirty = unsent]
Clear ==
    LET in == {e.id : e \in InState("mounted")} IN
    /\ call[Monitor].at = "next" /\ call[Monitor].stops = {}
    /\ entries' = {}
    /\ \E unsent \in [in -> SUBSET File] :
          /\ \A v \in in : unsent[v] \subseteq vol[v].dirty
          /\ vol' = [v \in Mount |-> IF v \in in THEN Dropped(v, unsent[v]) ELSE vol[v]]
    /\ Becomes(Monitor, [call[Monitor] EXCEPT !.at = "erase", !.then = "idle"])
    /\ UNCHANGED <<host, journal, told, case>>
\* Twice: before the pipe closes and after it.
EraseJournal ==
    /\ call[Monitor].at = "erase"
    /\ journal' = [journal EXCEPT !.file = NONE, !.written = NONE]
    /\ Becomes(Monitor, IF call[Monitor].pass = 1 THEN [Idle EXCEPT !.at = "stop_all", !.pass = 2]
                        ELSE [Idle EXCEPT !.at = "exit"])
    /\ host' = [host EXCEPT !.at = "final"]
    /\ UNCHANGED <<entries, vol, told, case>>
\* The process takes its threads and its volumes with it.
Dies(how, engine) ==
    /\ host' = [host EXCEPT !.at = "off", !.shutdown = FALSE, !.ended = how]
    /\ entries' = {} /\ call' = [p \in Process |-> Idle]
    /\ vol' = [v \in Mount |-> IF vol[v].engine = "on"
                 THEN [vol[v] EXCEPT !.drive = "gone", !.engine = engine, !.writer = FALSE] ELSE vol[v]]
    /\ journal' = [journal EXCEPT !.written = NONE]
    /\ UNCHANGED case
\* A handle in hand, or one of a lost volume that is still to be unmounted.
Holds(p, v) == call[p].id = v \/ v \in call[p].todo
Exit ==
    /\ call[Monitor].at = "exit"
    /\ Happens("impatient") \/ ~\E p \in Thread, v \in Mount : Holds(p, v) /\ vol[v].engine = "on"
    /\ Dies("clean", "left") /\ UNCHANGED told
Crash ==
    /\ host.at # "off" /\ Happens("crash")
    /\ Dies("killed", "killed")
    /\ told' = [told EXCEPT !.owed = IF Listed # {} /\ journal.written = [pid |-> host.pid, mounts |-> Listed]
                                     THEN @ \cup {host.pid} ELSE @]

-----------------------------------------------------------------------------
(* Clients that find no supervisor and read what it left behind.           *)

ReadJournal(k) ==
    /\ Happens("status") /\ host.at = "off" /\ journal.file # NONE /\ journal.read[k] = NONE
    /\ journal' = [journal EXCEPT !.read[k] = journal.file]
    /\ UNCHANGED <<host, entries, vol, call, told, case>>
\* Whoever removes the file reports it; one that finds it gone does not.
Reported(k) == IF journal.file # NONE /\ journal.read[k].mounts # {} THEN {journal.read[k].pid} ELSE {}
\* Mutant: a client that finds it gone reports it as well.
TakeReportsAll(k) ==
    /\ journal.read[k] # NONE
    /\ journal' = [journal EXCEPT !.read[k] = NONE, !.file = NONE]
    /\ told' = [told EXCEPT !.said = @ \cup {journal.read[k].pid}, !.again = @ \cup (told.said \cap {journal.read[k].pid})]
    /\ UNCHANGED <<host, entries, vol, call, case>>
TakeJournal(k) ==
    /\ journal.read[k] # NONE
    /\ journal' = [journal EXCEPT !.read[k] = NONE, !.file = NONE]
    /\ told' = [told EXCEPT !.said = @ \cup Reported(k), !.again = @ \cup (told.said \cap Reported(k))]
    /\ UNCHANGED <<host, entries, vol, call, case>>

-----------------------------------------------------------------------------
(* Programs on the drives, uploads, and the driver.                        *)

Write(v, f) ==
    /\ vol[v].drive = "up" /\ f \in case.files /\ f \notin vol[v].dirty
    /\ vol' = [vol EXCEPT ![v].dirty = @ \cup {f}, ![v].writer = TRUE]
    /\ UNCHANGED call /\ OnlyVol
CloseWriter(v) ==
    /\ vol[v].drive = "up" /\ vol[v].writer
    /\ vol' = [vol EXCEPT ![v].writer = FALSE]
    /\ UNCHANGED call /\ OnlyVol
Upload(v, f) ==
    /\ vol[v].engine = "on" /\ vol[v].drive # "gone" /\ f \in vol[v].dirty
    /\ vol' = [vol EXCEPT ![v].dirty = @ \ {f}]
    /\ UNCHANGED call /\ OnlyVol
\* The dispatcher stops: the driver was unloaded or uninstalled.
DriverLost(v) ==
    /\ Happens("lost") /\ vol[v].drive = "up"
    /\ vol' = [vol EXCEPT ![v].drive = "lost"]
    /\ UNCHANGED call /\ OnlyVol

-----------------------------------------------------------------------------
ProcessStep(p) ==
    \/ Serve(p) \/ MountFails(p) \/ Settle(p) \/ PruneFailed(p)
    \/ DriveGone(p) \/ Drain(p) \/ Save(p) \/ Free(p) \/ Retain(p)
    \/ NextLost(p) \/ ListMounts(p) \/ WriteJournal(p) \/ WriteFails(p)
MonitorStep ==
    \/ Tick \/ Decide \/ RequestShutdown \/ StopAll \/ StopNext \/ Clear \/ EraseJournal \/ Exit
Request(p) ==
    \/ \E t \in case.targets : \/ \E v \in case.mounts : MountBegin(p, v, t)
                               \/ \E force \in BOOLEAN : UnmountBegin(p, t, force)
                               \/ Dismiss(p, t)
    \/ List(p) \/ Shutdown(p)
Program(v) == CloseWriter(v) \/ DriverLost(v) \/ \E f \in File : Write(v, f) \/ Upload(v, f)
Next ==
    \/ \E p \in Process : ProcessStep(p)
    \/ \E p \in Thread : Request(p)
    \/ \E v \in Mount : Program(v)
    \/ MonitorStep \/ Start \/ Crash
    \/ \E k \in Client : ReadJournal(k) \/ TakeJournal(k)
Spec == Init /\ [][Next]_vars

\* Threads of the operating system are run; what they wait for has a limit.
Fairness == /\ \A p \in Process : WF_vars(ProcessStep(p))
            /\ WF_vars(MonitorStep)
FairSpec == Spec /\ Fairness

-----------------------------------------------------------------------------
(* Properties.                                                             *)

Steps == {"idle", "build", "settle", "prune", "drive", "drain", "save", "free", "retain", "lost", "list", "write",
          "sleep", "decide", "stop", "stop_all", "next", "erase", "exit"}
Notices == [pid : Nat, mounts : SUBSET Target]
Entries == [id : Mount, target : Target, state : State]
Volume == [target : Target \cup {NONE}, drive : {"none", "up", "lost", "gone"},
           engine : {"none", "on", "off", "killed", "left"}, writer : BOOLEAN,
           dirty : SUBSET File, copied : SUBSET File, kept : BOOLEAN]
Calls == [at : Steps, id : Mount \cup {NONE}, next : {"idle", "retain", "lost", "prune"},
          then : {"idle", "decide", "next"}, todo : SUBSET Mount, stops : SUBSET Mount,
          seen : SUBSET Target, pass : {1, 2}]
\* Types, and no target twice in the registry (registry.rs, 253-271).
TypeOK ==
    /\ case \in Case
    /\ host \in [at : {"off", "on", "final"}, pid : Nat, shutdown : BOOLEAN, ended : {"running", "clean", "killed"}]
    /\ entries \subseteq Entries
    /\ \A e, f \in entries : e.target = f.target \/ e.id = f.id => e = f
    /\ vol \in [Mount -> Volume]
    /\ call \in [Process -> Calls]
    /\ journal \in [file : Notices \cup {NONE}, written : Notices \cup {NONE}, read : [Client -> Notices \cup {NONE}]]
    /\ told \in [owed : SUBSET Nat, said : SUBSET Nat, again : SUBSET Nat]

\* A running engine belongs to exactly one holder: the entry that lists it
\* as mounted, or one process that is putting it up or taking it down.  So no
\* drive is forgotten by entries.clear(), and none is unmounted twice.
Holders(v) == {p \in Process : Holds(p, v)} \cup {e \in InState("mounted") : e.id = v}
OneHolder ==
    \A v \in Mount : vol[v].engine = "on" => Holders(v) # {} /\ \A a, b \in Holders(v) : a = b

\* Every entry that is not failed has a thread behind it or its volume in it:
\* the letter is free again some time.
EntryIsLive ==
    \A e \in entries :
        /\ e.state = "mounted" => vol[e.id].engine = "on"
        /\ e.state \in {"starting", "stopping"} => \E p \in Process : Holds(p, e.id)

\* The registry and the volumes tell one story, whoever adds, marks, takes
\* and removes entries in between: see the three parts.
RegistrySound == TypeOK /\ OneHolder /\ EntryIsLive

\* A staging folder is deleted only when each file in it was uploaded or
\* copied (mounter.rs: "until the uploads are finished or saved").
NothingDiscarded ==
    \A v \in Mount : vol[v].engine = "off" => vol[v].dirty \subseteq vol[v].copied \/ vol[v].kept

\* A supervisor that ended by itself left no file that is only in the staging
\* folder of a volume whose thread it killed (host.rs, 145-147).
ExitIsSafe ==
    \A v \in Mount : vol[v].engine = "left" => vol[v].dirty = {}

\* Drives that a crash took are reported to a client, now or later, and to one
\* only, however many look at the journal at once (client.rs, 78-82).
LossReported ==
    /\ \A pid \in told.owed : pid \in told.said \/ (journal.file # NONE /\ journal.file.pid = pid)
    /\ told.again = {}

\* A drive that goes with its supervisor goes without data, or the user
\* hears of it once: at the end of the process and over a crash and its journal.
NoSilentLoss == ExitIsSafe /\ LossReported

\* An unmount that began ends, and the letter's entry goes.
StopEnds ==
    \A v \in Mount : LET Stopping == \E e \in InState("stopping") : e.id = v
                     IN Stopping ~> ~Stopping
\* A supervisor asked to end does.
ShutdownEnds == host.shutdown ~> host.at = "off"
\* While what is mounted stays the same, the next ticks put it right in the
\* journal, whatever older list a slow thread wrote (registry.rs, 217).
JournalHeals ==
    \A S \in SUBSET Target :
        <>[](~Happens("disk_full") /\ host.at = "on" /\ entries # {} /\ Listed = S) => <>[](journal.file = [pid |-> host.pid, mounts |-> S])

\* What was asked for gets done: unmounts, the shutdown and the journal.
RequestsEnd == StopEnds /\ ShutdownEnds /\ JournalHeals

\* The registry and the supervisor keep the promises of Volumes.
V == INSTANCE Volumes WITH
        drive <- [v \in Mount |-> CASE vol[v].drive = "up" -> vol[v].target
                                    [] vol[v].drive = "lost" -> "gone"
                                    [] OTHER -> vol[v].drive],
        unsent <- [v \in Mount |-> vol[v].dirty],
        safe <- [v \in Mount |-> IF vol[v].kept THEN vol[v].dirty ELSE vol[v].copied],
        open <- {v \in Mount : vol[v].engine = "on"},
        ended <- host.ended
ImplementsVolumes == V!VSpec
=============================================================================
