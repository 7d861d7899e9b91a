------------------------- MODULE StreamingWriteProofs -------------------------
(***************************************************************************)
(* StreamingWrite, proved for every set of handles and threads and every   *)
(* bound on the writes.  The argument: the per-inode lock keeps one call   *)
(* in the critical section, so what that call knows (PhaseInv, BytesInv)   *)
(* is changed by its own steps only; there is at most one writer, and it   *)
(* owns the dirty bytes (WriterInv); its snapshot is the file as the Hub   *)
(* has it (SnapshotInv); a hook that is set has somebody to fulfil it      *)
(* (HookInv), and what the drain still has to wait for is registered       *)
(* (DrainInv).                                                             *)
(*                                                                         *)
(* The theorems leave out "ghost", a released writer that open() does not  *)
(* find: with it CommittedIsStored, CleanIsCommitted and NoResurrection    *)
(* are false.  The one of the drain leaves out "shadowed", with which      *)
(* DrainKeepsAll is false.                                                 *)
(*                                                                         *)
(* First come the parts of the invariant and what each step does to the    *)
(* types, to the lock, to the channel it is about and to the call it       *)
(* belongs to; then how the parts hold together.                           *)
(***************************************************************************)
EXTENDS StreamingWrite, TLAPS, WellFoundedInduction

------------------------------------------------------------------------------
(* The inductive invariant. *)

\* The steps of a call that holds the per-inode lock.
LockSteps == CommitPhases \cup
    {"commit_unlock", "release_unlock", "open_setup", "open_supersede", "open_install",
     "unlink_remote", "unlink_local"}
Hooking(a, S) == pc[a] \in HookPhases /\ call[a].after \in S
Critical(a) == pc[a] \in LockSteps \/ Hooking(a, LockSteps)
LockInv == \A a \in Actor : Critical(a) => Holds(a)

\* What a call at each step is.
CallShape(a) ==
    /\ pc[a] \in {"idle", "drain_flush", "drain_release"} => call[a] = NoCall
    /\ pc[a] \in HookPhases =>
            call[a].after \in {"demote", "start", "release_check", "commit_unlock", "release_unlock", "open_install"}
    /\ Hooking(a, {"release_check", "release_unlock"}) => call[a].op = "release"
    /\ Hooking(a, {"demote", "start", "commit_unlock"}) => call[a].op \in {"flush", "link"}
    /\ Hooking(a, {"open_install"}) => call[a].op = "open" /\ call[a].h # None
    /\ Hooking(a, {"commit_unlock", "release_unlock", "open_install"}) => pc[a] \in {"fulfil", "unhook"}
    /\ Hooking(a, {"start"}) => pc[a] \in {"install", "spot"}
    /\ pc[a] \in {"demote", "commit_lock", "commit_unlock"} => call[a].op \in {"flush", "link"}
    /\ pc[a] \in CommitPhases => call[a].op \in {"flush", "link", "release"}
    /\ pc[a] = "commit_lock" => call[a].after = "start"
    /\ pc[a] \in {"release_check", "release_lock", "release_unlock", "release_drop"} => call[a].op = "release"
    /\ pc[a] \in {"open_await", "open_lock", "open_setup", "open_supersede", "open_install"} =>
            call[a].op = "open" /\ call[a].after = "open_install"
    /\ pc[a] \in {"unlink_lock", "unlink_remote", "unlink_local"} => call[a].op = "unlink"
    /\ call[a].op \in {"flush", "release", "link"} => call[a].h # None
    /\ pc[a] = "open_supersede" => call[a].h # None
    /\ a \in Handle => call[a].op \in {"none", "flush", "release"} /\ call[a].h \in {None, a}
CallInv == \A a \in Actor : CallShape(a)

\* A channel a call works on is open, or has ended; one that is released is not served any more.
HandleInv ==
    /\ \A a \in Actor : call[a].h # None => call[a].h \in open_handles \/ Terminal(call[a].h)
    /\ \A a \in Actor : call[a].op = "release" => call[a].h \notin open_files

\* A writer: an open handle whose channel has not ended.
Unfinished(h) == ch[h].state \in {"Writing", "Deferred", "Committing"}
Writer(h) == h \in open_handles /\ Unfinished(h)
Superseding(a) == pc[a] = "open_install" \/ Hooking(a, {"open_install"})

FilesInv ==
    /\ open_files \subseteq open_handles
    /\ \A h \in open_handles : ch[h].state # "unused"
    /\ st = "live" \/ ~linked
    /\ st = "none" =>
        /\ dirty_generation = 0 /\ xet_hash = Absent /\ hub = Absent
        /\ \A h \in Handle : ch[h].state = "unused"
        /\ \A a \in Handle \cup Client : pc[a] = "idle"

\* The one writer owns the dirty bytes, and dirty bytes have a writer.
WriterInv ==
    /\ \A g, h \in Handle : Writer(g) /\ Writer(h) => g = h
    /\ st = "live" => \A h \in Handle : Writer(h) => OwnsGeneration(h) /\ dirty_generation > 0
    /\ linked /\ dirty_generation > 0 =>
            (\E h \in Handle : Writer(h)) \/ (\E c \in Client : Superseding(c))
    /\ dirty_generation > 0 => xet_hash = Absent

\* A writer that open() has set up and not yet installed.
NewWriter(a) ==
    /\ call[a].new \in Handle \ open_handles
    /\ ch[call[a].new].state = "Writing"
    /\ linked => ch[call[a].new].snapshot.xet_hash = hub

\* What the calls know, most of it because they hold the lock.
PhaseShape(a) ==
    /\ pc[a] \in {"finish", "hub", "apply", "failed"} =>
            linked /\ Writer(call[a].h) /\ ch[call[a].h].state = "Committing"
    /\ pc[a] = "start" \/ Hooking(a, {"start"}) => Writer(call[a].h)
    /\ pc[a] \in {"fulfil", "unhook", "release_unlock", "release_drop"} => Terminal(call[a].h)
    /\ pc[a] = "open_setup" =>
        /\ \A g \in Handle : Writer(g) => g = call[a].h
        /\ linked => call[a].snapshot.xet_hash = hub
    /\ pc[a] = "open_supersede" => NewWriter(a) /\ \A g \in Handle : Writer(g) => g = call[a].h
    /\ Superseding(a) => NewWriter(a) /\ \A g \in Handle : ~Writer(g)
    /\ pc[a] \in {"unlink_remote", "unlink_local"} => dirty_generation = 0
    /\ pc[a] = "unlink_local" => hub = Absent
PhaseInv == \A a \in Actor : PhaseShape(a)

\* What an upload holds, from the answer of the worker to the commit.
BytesShape(a) ==
    /\ pc[a] \in {"hub", "apply"} => call[a].info = ch[call[a].h].sent
    /\ pc[a] = "apply" => hub = <<call[a].h, call[a].info>> /\ ch[call[a].h].stored = ch[call[a].h].sent
    /\ pc[a] = "succeeded" /\ linked =>
            ch[call[a].h].state = "Committed" /\ ch[call[a].h].stored = ch[call[a].h].sent
UploadKept(h) ==
    ch[h].pending_info # NoInfo =>
        ch[h].state \in {"Committing", "Committed", "Failed"} /\ ch[h].pending_info = ch[h].sent
BytesInv ==
    /\ \A h \in Handle : UploadKept(h)
    /\ \A a \in Actor : BytesShape(a)

\* A snapshot is the file as the Hub has it, until the commit.
SnapshotInv ==
    /\ \A h \in Handle : ~ch[h].snapshot.existed_before => ch[h].snapshot.xet_hash = Absent
    /\ \A a \in Actor : ~call[a].snapshot.existed_before => call[a].snapshot.xet_hash = Absent
    /\ linked /\ (\A a \in Actor : pc[a] # "apply") =>
            \A h \in Handle : Writer(h) => ch[h].snapshot.xet_hash = hub

\* Somebody will fulfil a hook that is set.
HookInv ==
    /\ pending_commits # None => ch[pending_commits].hook # "none"
    /\ \A a \in Actor : pc[a] = "unhook" => ch[call[a].h].hook = "busy"
    /\ \A a, b \in Actor : pc[a] = "unhook" /\ pc[b] = "unhook" /\ call[a].h = call[b].h => a = b
    /\ \A h \in Handle : ch[h].hook = "busy" => \E a \in Actor : pc[a] = "unhook" /\ call[a].h = h
    /\ \A h \in Handle : Terminal(h) /\ ch[h].hook = "set" =>
            \E a \in Actor : pc[a] \in {"spot", "fulfil", "succeeded"} /\ call[a].h = h
    /\ \A h \in Handle : ch[h].hook # "none" => Terminal(h) \/ Writer(h)
    /\ \A h \in Handle : Writer(h) => h \in open_files \/ \E a \in Actor : call[a].op = "release" /\ call[a].h = h

\* The futures of the drain begin with it.
DrainShape ==
    /\ pc[Drain] \in {"idle", "drain_join", "drain_await", "drain_done"}
    /\ pc[Drain] = "idle" => due = {} /\ \A h \in Handle : pc[h] = "idle"
    /\ call[Drain].h = None /\ call[Drain].op = "none"

\* What the drain has still to wait for is registered.
DrainInv ==
    /\ \A h \in Handle : Unfinished(h) /\ ch[h].hook = "set" => pending_commits = h
    /\ \A h \in Handle : Writer(h) => h \in open_files \/ ch[h].hook = "set"
            \/ \E a \in Actor : pc[a] = "install" /\ call[a].after = "release_check" /\ call[a].h = h
    /\ \A h \in due : Writer(h) \/ Terminal(h)
    /\ pc[Drain] = "drain_join" =>
        \A h \in due : pc[h] = "idle" /\ ~Terminal(h) => ch[h].hook = "set"
    /\ pc[Drain] = "drain_await" => \A h \in due : ~Terminal(h) => call[Drain].watch = h
    /\ DrainKeepsAll

------------------------------------------------------------------------------
(* The types of what the helpers produce. *)

\* The values that are no handle, thread or hash.
LEMMA Constants ==
    /\ Handle \subseteq Nat /\ None \notin Handle
    /\ Drain \notin Client /\ Drain \notin Handle /\ Client \cap Handle = {}
    /\ Client \subseteq Actor /\ Handle \subseteq Actor /\ Drain \in Actor
    /\ Absent \in Hash /\ Original \in Hash
    /\ \A h \in Handle, n \in Nat : <<h, n>> \in Hash
BY StreamingAssumption DEF Drain, None, Actor, Hash, Absent, Original

\* The values the model resets to.
LEMMA ResetTypes ==
    NoCall \in Call /\ NoSnapshot \in InodeSnapshot /\ Unused \in StreamingChannel
<1>1. NoSnapshot \in InodeSnapshot
  BY Constants DEF NoSnapshot, InodeSnapshot
<1>2. NoCall \in Call
  BY <1>1 DEF NoCall, Call, PC
<1> QED
  BY <1>1, <1>2 DEF Unused, StreamingChannel, CommitState, NoInfo

\* The domains.
LEMMA Domains ==
    ASSUME TypeOK
    PROVE  /\ pc \in [Actor -> PC] /\ call \in [Actor -> Call] /\ ch \in [Handle -> StreamingChannel]
           /\ open_files \subseteq Handle /\ open_handles \subseteq Handle /\ due \subseteq Handle
BY DEF TypeOK

\* The fields of a channel.
LEMMA ChannelTypes ==
    ASSUME TypeOK, NEW h \in Handle
    PROVE  /\ ch[h] \in StreamingChannel
           /\ ch[h].state \in CommitState /\ ch[h].generation \in Nat /\ ch[h].sent \in Nat
           /\ ch[h].snapshot \in InodeSnapshot
           /\ ch[h].snapshot.xet_hash \in Hash /\ ch[h].snapshot.existed_before \in BOOLEAN
           /\ ch[h].pending_info \in {NoInfo} \cup Nat /\ ch[h].stored \in {NoInfo} \cup Nat
           /\ ch[h].hook \in {"none", "set", "busy"}
<1>1. ch[h] \in StreamingChannel
  BY DEF TypeOK
<1>2. ch[h].snapshot \in InodeSnapshot
  BY <1>1 DEF StreamingChannel
<1>3. ch[h].snapshot.xet_hash \in Hash /\ ch[h].snapshot.existed_before \in BOOLEAN
  BY <1>2 DEF InodeSnapshot
<1> QED
  BY <1>1, <1>2, <1>3 DEF StreamingChannel

\* The locals of a call.
LEMMA CallTypes ==
    ASSUME TypeOK, NEW a \in Actor
    PROVE  /\ call[a] \in Call /\ call[a].h \in Handle \cup {None} /\ call[a].after \in PC
           /\ call[a].info \in {NoInfo} \cup Nat /\ call[a].new \in Handle \cup {None}
           /\ call[a].snapshot \in InodeSnapshot /\ call[a].watch \in Handle \cup {None}
           /\ call[a].snapshot.xet_hash \in Hash /\ call[a].snapshot.existed_before \in BOOLEAN
           /\ pc[a] \in PC
<1>1. call[a] \in Call /\ pc[a] \in PC
  BY DEF TypeOK
<1>2. call[a].snapshot \in InodeSnapshot
  BY <1>1 DEF Call
<1>3. call[a].snapshot.xet_hash \in Hash /\ call[a].snapshot.existed_before \in BOOLEAN
  BY <1>2 DEF InodeSnapshot
<1> QED
  BY <1>1, <1>2, <1>3 DEF Call

\* A channel with one field changed.
LEMMA ChannelUpdates ==
    ASSUME TypeOK, NEW h \in Handle
    PROVE  /\ \A s \in CommitState : [ch EXCEPT ![h].state = s] \in [Handle -> StreamingChannel]
           /\ \A s \in {"none", "set", "busy"} : [ch EXCEPT ![h].hook = s] \in [Handle -> StreamingChannel]
           /\ \A s \in {"running", "failed", "exited"} : [ch EXCEPT ![h].worker = s] \in [Handle -> StreamingChannel]
           /\ \A n \in {NoInfo} \cup Nat : [ch EXCEPT ![h].stored = n] \in [Handle -> StreamingChannel]
           /\ \A n \in {NoInfo} \cup Nat : [ch EXCEPT ![h].pending_info = n] \in [Handle -> StreamingChannel]
           /\ \A n \in Nat : [ch EXCEPT ![h].sent = n] \in [Handle -> StreamingChannel]
           /\ \A n \in Nat : [ch EXCEPT ![h].generation = n] \in [Handle -> StreamingChannel]
           /\ \A c \in StreamingChannel : [ch EXCEPT ![h] = c] \in [Handle -> StreamingChannel]
<1>1. ch \in [Handle -> StreamingChannel]
  BY DEF TypeOK
<1> QED
  BY <1>1 DEF StreamingChannel

\* A call with one field changed.
LEMMA CallUpdates ==
    ASSUME TypeOK, NEW a \in Actor
    PROVE  /\ \A s \in PC : [call EXCEPT ![a].after = s] \in [Actor -> Call]
           /\ \A s \in BOOLEAN : [call EXCEPT ![a].retried = s] \in [Actor -> Call]
           /\ \A n \in {NoInfo} \cup Nat : [call EXCEPT ![a].info = n] \in [Actor -> Call]
           /\ \A h \in Handle \cup {None} : [call EXCEPT ![a].new = h] \in [Actor -> Call]
           /\ \A h \in Handle \cup {None} : [call EXCEPT ![a].watch = h] \in [Actor -> Call]
           /\ \A c \in Call : [call EXCEPT ![a] = c] \in [Actor -> Call]
<1>1. call \in [Actor -> Call]
  BY DEF TypeOK
<1> QED
  BY <1>1 DEF Call

\* A set of numbers has a least one ...
LEMMA Least ==
    ASSUME NEW T, T \subseteq Nat, T # {}
    PROVE  \E x \in T : \A y \in T : ~(y < x)
<1> DEFINE R == OpToRel(<, Nat)
<1>1. IsWellFoundedOn(R, Nat)
  BY NatLessThanWellFounded
<1>2. \A x, y \in Nat : y < x => <<y, x>> \in R
  BY DEF OpToRel
<1> HIDE DEF R
<1>3. PICK x \in T : \A y \in T : <<y, x>> \notin R
  BY <1>1, WFMin
<1> QED
  BY <1>2, <1>3

\* ... so the next handle is an unused one.
LEMMA NextHandleUnused ==
    ASSUME HandleLeft
    PROVE  NextHandle \in Handle /\ ch[NextHandle].state = "unused"
<1> DEFINE T == {h \in Handle : ch[h].state = "unused"}
<1>1. T \subseteq Nat /\ T # {}
  BY StreamingAssumption DEF HandleLeft
<1>2. PICK x \in T : \A y \in T : ~(y < x)
  BY <1>1, Least
<1>3. \E h \in Handle : ch[h].state = "unused" /\ \A g \in Handle : g < h => ch[g].state # "unused"
  BY <1>2
<1> QED
  BY <1>3 DEF NextHandle

\* Where a call goes.
LEMMA GotoTypes ==
    ASSUME TypeOK, NEW a \in Actor, NEW step \in PC, Goto(a, step)
    PROVE  pc' \in [Actor -> PC] /\ pc'[a] = step /\ \A b \in Actor \ {a} : pc'[b] = pc[b]
BY DEF TypeOK, Goto

\* A call that keeps its locals.
LEMMA KeepTypes ==
    ASSUME TypeOK, NEW a \in Actor, NEW step \in PC, Keep(a, step)
    PROVE  /\ pc' \in [Actor -> PC] /\ pc'[a] = step /\ \A b \in Actor \ {a} : pc'[b] = pc[b]
           /\ call' = call /\ call' \in [Actor -> Call]
BY GotoTypes DEF TypeOK, Keep

\* A call that returns.
LEMMA ReturnTypes ==
    ASSUME TypeOK, NEW a \in Actor, Return(a)
    PROVE  /\ pc' \in [Actor -> PC] /\ \A b \in Actor \ {a} : pc'[b] = pc[b]
           /\ pc'[a] = IF a \in Handle /\ call[a].op = "flush" THEN "drain_release" ELSE "idle"
           /\ call' \in [Actor -> Call] /\ call'[a] = NoCall /\ \A b \in Actor \ {a} : call'[b] = call[b]
<1>1. (IF a \in Handle /\ call[a].op = "flush" THEN "drain_release" ELSE "idle") \in PC
  BY DEF PC
<1>2. call' = [call EXCEPT ![a] = NoCall] /\ call' \in [Actor -> Call]
  BY ResetTypes, CallUpdates DEF Return
<1>3. call'[a] = NoCall /\ \A b \in Actor \ {a} : call'[b] = call[b]
  BY <1>2 DEF TypeOK
<1> QED
  BY <1>1, <1>2, <1>3, GotoTypes DEF Return

\* A call that begins.
LEMMA EnterTypes ==
    ASSUME TypeOK, NEW a \in Actor, NEW op \in {"flush", "release", "link", "unlink"},
           NEW h \in Handle \cup {None}, NEW after \in PC, Enter(a, op, h, after)
    PROVE  /\ call' \in [Actor -> Call] /\ \A b \in Actor \ {a} : call'[b] = call[b]
           /\ call'[a] \in Call
           /\ call'[a].op = op /\ call'[a].h = h /\ call'[a].after = after
           /\ call'[a].info = NoInfo /\ call'[a].new = None /\ call'[a].watch = None
           /\ call'[a].snapshot = NoSnapshot
<1> DEFINE r == [NoCall EXCEPT !.op = op, !.h = h, !.after = after]
<1>1. r \in Call
  BY ResetTypes DEF NoCall, Call
<1>2. call' = [call EXCEPT ![a] = r]
  BY DEF Enter
<1>3. /\ r.op = op /\ r.h = h /\ r.after = after /\ r.info = NoInfo
      /\ r.new = None /\ r.watch = None /\ r.snapshot = NoSnapshot
  BY DEF NoCall
<1> HIDE DEF r
<1>4. call' \in [Actor -> Call]
  BY <1>1, <1>2, CallUpdates
<1>5. call'[a] = r /\ \A b \in Actor \ {a} : call'[b] = call[b]
  BY <1>2 DEF TypeOK
<1> QED
  BY <1>1, <1>3, <1>4, <1>5

\* The active writer, if there is one.
LEMMA ActiveWriter ==
    ASSUME TypeOK
    PROVE  /\ Active \in Handle \cup {None}
           /\ Active # None => Active \in ActiveChannels
           /\ Active = None => ActiveChannels = {}
<1>1. ActiveChannels \subseteq Handle
  BY DEF TypeOK, ActiveChannels
<1>2. CASE ActiveChannels = {}
  BY <1>2, Constants DEF Active
<1>3. CASE ActiveChannels # {}
  <2>1. Active \in ActiveChannels
    BY <1>3 DEF Active
  <2> QED
    BY <1>1, <1>3, <2>1, Constants
<1> QED
  BY <1>2, <1>3

\* The hook an open() waits for.
LEMMA AwaitedHook ==
    ASSUME TypeOK
    PROVE  /\ Awaited \in Handle \cup {None}
           /\ Awaited # None => Awaited = pending_commits /\ ch[pending_commits].hook = "set"
           /\ Awaited = None => pending_commits = None \/ ch[pending_commits].hook # "set"
BY Constants DEF Awaited, TypeOK

\* A call that is at work on a channel.
LEMMA AtWork ==
    ASSUME TypeOK, CallInv, NEW a \in Actor,
           pc[a] \in HookPhases \cup CommitPhases
                \cup {"demote", "commit_lock", "commit_unlock", "open_supersede"}
                \cup {"release_check", "release_lock", "release_unlock", "release_drop"}
    PROVE  call[a].h \in Handle
BY CallTypes DEF CallInv, CallShape, Hooking, HookPhases, CommitPhases

\* The lock is FIFO: who waits comes behind its holder ...
LEMMA QueueTypes ==
    ASSUME TypeOK, NEW a \in Actor, Queue(a)
    PROVE  lock' \in Seq(Actor) /\ \A b \in Actor : Holds(b) => Holds(b)'
<1>1. lock \in Seq(Actor)
  BY DEF TypeOK
<1>2. lock' = Append(lock, a) /\ lock' \in Seq(Actor) /\ lock' # <<>>
  BY <1>1 DEF Queue
<1>3. lock # <<>> => Head(lock') = Head(lock)
  BY <1>1, <1>2
<1> QED
  BY <1>2, <1>3 DEF Holds

\* ... and who holds it can drop it.
LEMMA UnlockTypes ==
    ASSUME TypeOK, NEW a \in Actor, Holds(a), Unlock
    PROVE  lock' \in Seq(Actor)
<1>1. lock \in Seq(Actor) /\ lock # <<>>
  BY DEF TypeOK, Holds
<1> QED
  BY <1>1 DEF Unlock

\* Who is at a step of the critical section holds the lock.
LEMMA HasLock ==
    ASSUME LockInv, NEW a \in Actor, pc[a] \in LockSteps
    PROVE  Holds(a)
BY DEF LockInv, Critical

------------------------------------------------------------------------------
(* The types are preserved, and which steps change what. *)

\* A flush() waits for the lock, or defers the commit; a future of the drain may have
\* nothing to flush.
LEMMA FlushGoes ==
    ASSUME TypeOK, NEW a \in Actor, NEW h \in Handle, NEW dup \in BOOLEAN, Flush(a, h, dup)
    PROVE  /\ pc' \in [Actor -> PC] /\ call' \in [Actor -> Call]
           /\ \A b \in Actor \ {a} : pc'[b] = pc[b] /\ call'[b] = call[b]
           /\ \A b \in Actor : Holds(b) => Holds(b)'
           /\ \/ a \in Handle /\ pc'[a] = "drain_release" /\ call'[a] = call[a]
              \/ pc'[a] = "install" /\ call'[a].op = "flush" /\ call'[a].h = h /\ call'[a].after = "demote"
              \/ pc'[a] = "commit_lock" /\ call'[a].op = "flush" /\ call'[a].h = h /\ call'[a].after = "start"
<1>1. {"drain_release", "install", "commit_lock", "demote", "start"} \subseteq PC
  BY DEF PC, HookPhases, CommitPhases
<1>2. CASE a \in Handle /\ Keep(a, "drain_release") /\ UNCHANGED lock
  BY <1>1, <1>2, KeepTypes DEF TypeOK, Holds
<1>3. CASE Goto(a, "install") /\ Enter(a, "flush", h, "demote") /\ UNCHANGED lock
  <2>1. /\ pc' \in [Actor -> PC] /\ pc'[a] = "install" /\ \A b \in Actor \ {a} : pc'[b] = pc[b]
    BY <1>1, <1>3, GotoTypes
  <2>2. /\ call' \in [Actor -> Call] /\ \A b \in Actor \ {a} : call'[b] = call[b]
        /\ call'[a].op = "flush" /\ call'[a].h = h /\ call'[a].after = "demote"
    BY <1>1, <1>3, EnterTypes
  <2> QED
    BY <1>3, <2>1, <2>2 DEF Holds
<1>4. CASE Goto(a, "commit_lock") /\ Enter(a, "flush", h, "start") /\ Queue(a)
  <2>1. /\ pc' \in [Actor -> PC] /\ pc'[a] = "commit_lock" /\ \A b \in Actor \ {a} : pc'[b] = pc[b]
    BY <1>1, <1>4, GotoTypes
  <2>2. /\ call' \in [Actor -> Call] /\ \A b \in Actor \ {a} : call'[b] = call[b]
        /\ call'[a].op = "flush" /\ call'[a].h = h /\ call'[a].after = "start"
    BY <1>1, <1>4, EnterTypes
  <2> QED
    BY <1>4, <2>1, <2>2, QueueTypes
<1> QED
  BY <1>2, <1>3, <1>4 DEF Flush

\* A release() drops an ended channel, or sets the hook.
LEMMA ReleaseGoes ==
    ASSUME TypeOK, NEW a \in Actor, NEW h \in Handle, Release(a, h)
    PROVE  /\ pc' \in [Actor -> PC] /\ call' \in [Actor -> Call]
           /\ \A b \in Actor \ {a} : pc'[b] = pc[b] /\ call'[b] = call[b]
           /\ \A b \in Actor : Holds(b) => Holds(b)'
           /\ pc'[a] \in {"release_drop", "install"}
           /\ call'[a].op = "release" /\ call'[a].h = h /\ call'[a].after = "release_check"
<1>1. /\ "release_check" \in PC
      /\ (IF Terminal(h) THEN "release_drop" ELSE "install") \in PC
  BY DEF PC, HookPhases
<1>2. /\ call' \in [Actor -> Call] /\ \A b \in Actor \ {a} : call'[b] = call[b]
      /\ call'[a].op = "release" /\ call'[a].h = h /\ call'[a].after = "release_check"
  BY <1>1, EnterTypes DEF Release
<1>3. /\ pc' \in [Actor -> PC] /\ pc'[a] = (IF Terminal(h) THEN "release_drop" ELSE "install")
      /\ \A b \in Actor \ {a} : pc'[b] = pc[b]
  BY <1>1, GotoTypes DEF Release
<1> QED
  BY <1>2, <1>3 DEF Release, Holds

\* Where the calls are, and with what.
LEMMA WhereType ==
    ASSUME TypeOK, CallInv, Next
    PROVE  pc' \in [Actor -> PC] /\ call' \in [Actor -> Call]
<1>1. ASSUME NEW a \in Handle \cup Client, InstallHook(a)
      PROVE  pc' \in [Actor -> PC] /\ call' \in [Actor -> Call]
  BY <1>1, Constants, Domains, KeepTypes
    DEF InstallHook, PC, HookPhases, CommitPhases
<1>2. ASSUME NEW a \in Handle \cup Client, HookOnTheSpot(a)
      PROVE  pc' \in [Actor -> PC] /\ call' \in [Actor -> Call]
  BY <1>2, Constants, KeepTypes, CallTypes DEF HookOnTheSpot, PC, HookPhases
<1>3. ASSUME NEW a \in Handle \cup Client, FulfilHook(a)
      PROVE  pc' \in [Actor -> PC] /\ call' \in [Actor -> Call]
  <2>1. CASE ch[call[a].h].hook = "none"
    BY <1>3, <2>1, Constants, KeepTypes, CallTypes DEF FulfilHook
  <2>2. CASE ch[call[a].h].hook # "none"
    <3>1. pc' \in [Actor -> PC]
      BY <1>3, <2>2, Constants, GotoTypes DEF FulfilHook, PC, HookPhases
    <3>2. call' = [b \in Actor |-> IF call[b].watch = call[a].h THEN [call[b] EXCEPT !.watch = None] ELSE call[b]]
      BY <1>3, <2>2 DEF FulfilHook
    <3>3. \A b \in Actor : [call[b] EXCEPT !.watch = None] \in Call
      BY CallTypes DEF Call
    <3> QED
      BY <3>1, <3>2, <3>3, CallTypes
  <2> QED
    BY <2>1, <2>2
<1>4. ASSUME NEW a \in Handle \cup Client, RemoveHook(a)
      PROVE  pc' \in [Actor -> PC] /\ call' \in [Actor -> Call]
  BY <1>4, Constants, KeepTypes, CallTypes DEF RemoveHook
<1>5. ASSUME NEW a \in Handle \cup Client, Demote(a)
      PROVE  pc' \in [Actor -> PC] /\ call' \in [Actor -> Call]
  BY <1>5, Constants, Domains, ReturnTypes
    DEF Demote, PC, HookPhases, CommitPhases
<1>6. ASSUME NEW a \in Handle \cup Client, CommitLocked(a)
      PROVE  pc' \in [Actor -> PC] /\ call' \in [Actor -> Call]
  BY <1>6, Constants, Domains, KeepTypes, ReturnTypes, UnlockTypes, HasLock
    DEF CommitLocked, PC, HookPhases, CommitPhases
<1>7. ASSUME NEW a \in Handle \cup Client, CommitUnlock(a)
      PROVE  pc' \in [Actor -> PC] /\ call' \in [Actor -> Call]
  BY <1>7, Constants, Domains, ReturnTypes, UnlockTypes, HasLock
    DEF CommitUnlock, PC, HookPhases, CommitPhases
<1>8. ASSUME NEW a \in Handle \cup Client, CommitStart(a)
      PROVE  pc' \in [Actor -> PC] /\ call' \in [Actor -> Call]
  <2>1. pc' \in [Actor -> PC]
    BY <1>8, Constants, KeepTypes, GotoTypes DEF CommitStart, PC, CommitPhases, HookPhases
  <2>2. ch[call[a].h].pending_info \in {NoInfo} \cup Nat
    <3>1. a \in Actor /\ call[a].h \in Handle
      BY <1>8, Constants, AtWork DEF CommitStart, CommitPhases
    <3> QED
      BY <3>1, ChannelTypes
  <2>3. UNCHANGED call \/ call' = [call EXCEPT ![a].info = ch[call[a].h].pending_info]
    BY <1>8 DEF CommitStart, Keep
  <2>4. a \in Actor
    BY Constants
  <2>5. [call EXCEPT ![a].info = ch[call[a].h].pending_info] \in [Actor -> Call]
    BY <2>2, <2>4, CallUpdates, Zenon
  <2> QED
    BY <2>1, <2>3, <2>5, Domains
<1>9. ASSUME NEW a \in Handle \cup Client, CommitFinish(a)
      PROVE  pc' \in [Actor -> PC] /\ call' \in [Actor -> Call]
  <2>1. ch[call[a].h].sent \in Nat
    <3>1. a \in Actor /\ call[a].h \in Handle
      BY <1>9, Constants, AtWork DEF CommitFinish, CommitPhases
    <3> QED
      BY <3>1, ChannelTypes
  <2>2. UNCHANGED call \/ call' = [call EXCEPT ![a].info = ch[call[a].h].sent]
    BY <1>9 DEF CommitFinish, Keep, Upload
  <2>3. pc' \in [Actor -> PC]
    BY <1>9, Constants, KeepTypes, GotoTypes DEF CommitFinish, PC, CommitPhases, HookPhases
  <2> QED
    BY <2>1, <2>2, <2>3, Constants, CallUpdates, Domains
<1>10. ASSUME NEW a \in Handle \cup Client, CommitHub(a)
      PROVE  pc' \in [Actor -> PC] /\ call' \in [Actor -> Call]
  BY <1>10, Constants, Domains, KeepTypes
    DEF CommitHub, PC, HookPhases, CommitPhases
<1>11. ASSUME NEW a \in Handle \cup Client, CommitHubFails(a)
      PROVE  pc' \in [Actor -> PC] /\ call' \in [Actor -> Call]
  BY <1>11, Constants, Domains, KeepTypes
    DEF CommitHubFails, PC, HookPhases, CommitPhases
<1>12. ASSUME NEW a \in Handle \cup Client, CommitApply(a)
      PROVE  pc' \in [Actor -> PC] /\ call' \in [Actor -> Call]
  BY <1>12, Constants, Domains, KeepTypes
    DEF CommitApply, PC, HookPhases, CommitPhases
<1>13. ASSUME NEW a \in Handle \cup Client, CommitSucceeded(a)
      PROVE  pc' \in [Actor -> PC] /\ call' \in [Actor -> Call]
  <2>1. (IF call[a].op = "release" THEN "release_unlock" ELSE "commit_unlock") \in PC /\ "fulfil" \in PC
    BY DEF PC, HookPhases
  <2> QED
    BY <1>13, <2>1, Constants, GotoTypes, CallUpdates DEF CommitSucceeded
<1>14. ASSUME NEW a \in Handle \cup Client, CommitFailed(a)
      PROVE  pc' \in [Actor -> PC] /\ call' \in [Actor -> Call]
  BY <1>14, Constants, Domains, ReturnTypes, UnlockTypes, HasLock
    DEF CommitFailed, PC, HookPhases, CommitPhases
<1>15. ASSUME NEW a \in Handle \cup Client, ReleaseRetry(a)
      PROVE  pc' \in [Actor -> PC] /\ call' \in [Actor -> Call]
  BY <1>15, Constants, GotoTypes, CallUpdates DEF ReleaseRetry, PC, CommitPhases
<1>16. ASSUME NEW a \in Handle \cup Client, ReleaseFailed(a)
      PROVE  pc' \in [Actor -> PC] /\ call' \in [Actor -> Call]
  <2>1. "release_unlock" \in PC /\ "fulfil" \in PC
    BY DEF PC, HookPhases
  <2> QED
    BY <1>16, <2>1, Constants, GotoTypes, CallUpdates DEF ReleaseFailed
<1>17. ASSUME NEW a \in Handle \cup Client, ReleaseCheck(a)
      PROVE  pc' \in [Actor -> PC] /\ call' \in [Actor -> Call]
  BY <1>17, Constants, Domains, KeepTypes, QueueTypes
    DEF ReleaseCheck, PC, HookPhases, CommitPhases
<1>18. ASSUME NEW a \in Handle \cup Client, ReleaseLocked(a)
      PROVE  pc' \in [Actor -> PC] /\ call' \in [Actor -> Call]
  BY <1>18, Constants, Domains, KeepTypes
    DEF ReleaseLocked, PC, HookPhases, CommitPhases
<1>19. ASSUME NEW a \in Handle \cup Client, ReleaseUnlock(a)
      PROVE  pc' \in [Actor -> PC] /\ call' \in [Actor -> Call]
  BY <1>19, Constants, Domains, KeepTypes, UnlockTypes, HasLock
    DEF ReleaseUnlock, PC, HookPhases, CommitPhases
<1>20. ASSUME NEW a \in Handle \cup Client, ReleaseDrop(a)
      PROVE  pc' \in [Actor -> PC] /\ call' \in [Actor -> Call]
  BY <1>20, Constants, Domains, ReturnTypes
    DEF ReleaseDrop, PC, HookPhases, CommitPhases
<1>21. ASSUME NEW a \in Client, OpenAwaited(a)
      PROVE  pc' \in [Actor -> PC] /\ call' \in [Actor -> Call]
  BY <1>21, Constants, Domains, KeepTypes, QueueTypes
    DEF OpenAwaited, PC, HookPhases, CommitPhases
<1>22. ASSUME NEW a \in Client, OpenLocked(a)
      PROVE  pc' \in [Actor -> PC] /\ call' \in [Actor -> Call]
  <2>1. SnapshotAtOpen \in InodeSnapshot
    <3>1. Active # None => ch[Active].snapshot \in InodeSnapshot
      BY ActiveWriter, ChannelTypes
    <3>2. [xet_hash |-> xet_hash, existed_before |-> TRUE] \in InodeSnapshot
      BY DEF InodeSnapshot, TypeOK
    <3> QED
      BY <3>1, <3>2 DEF SnapshotAtOpen
  <2>2. [call EXCEPT ![a].h = Active, ![a].snapshot = SnapshotAtOpen] \in [Actor -> Call]
    <3>1. [call[a] EXCEPT !.h = Active, !.snapshot = SnapshotAtOpen] \in Call
      BY ZenonT(30), <2>1, Constants, CallTypes, ActiveWriter DEF Call
    <3> QED
      BY <3>1, Constants, Domains
  <2> QED
    BY <1>22, <2>2, Constants, ReturnTypes, GotoTypes DEF OpenLocked, PC
<1>23. ASSUME NEW a \in Client, OpenSetup(a)
      PROVE  pc' \in [Actor -> PC] /\ call' \in [Actor -> Call]
  BY <1>23, Constants, GotoTypes, CallUpdates, NextHandleUnused DEF OpenSetup, PC
<1>24. ASSUME NEW a \in Client, OpenSetupFails(a)
      PROVE  pc' \in [Actor -> PC] /\ call' \in [Actor -> Call]
  BY <1>24, Constants, Domains, ReturnTypes, UnlockTypes, HasLock
    DEF OpenSetupFails, PC, HookPhases, CommitPhases
<1>25. ASSUME NEW a \in Client, OpenSupersede(a)
      PROVE  pc' \in [Actor -> PC] /\ call' \in [Actor -> Call]
  BY <1>25, Constants, Domains, KeepTypes
    DEF OpenSupersede, PC, HookPhases, CommitPhases
<1>26. ASSUME NEW a \in Client, OpenInstall(a)
      PROVE  pc' \in [Actor -> PC] /\ call' \in [Actor -> Call]
  BY <1>26, Constants, Domains, ReturnTypes, UnlockTypes, HasLock
    DEF OpenInstall, PC, HookPhases, CommitPhases
<1>27. ASSUME NEW a \in Client, UnlinkLocked(a)
      PROVE  pc' \in [Actor -> PC] /\ call' \in [Actor -> Call]
  BY <1>27, Constants, Domains, KeepTypes, ReturnTypes, UnlockTypes, HasLock
    DEF UnlinkLocked, PC, HookPhases, CommitPhases
<1>28. ASSUME NEW a \in Client, UnlinkRemote(a)
      PROVE  pc' \in [Actor -> PC] /\ call' \in [Actor -> Call]
  BY <1>28, Constants, Domains, KeepTypes
    DEF UnlinkRemote, PC, HookPhases, CommitPhases
<1>29. ASSUME NEW a \in Client, UnlinkRemoteFails(a)
      PROVE  pc' \in [Actor -> PC] /\ call' \in [Actor -> Call]
  BY <1>29, Constants, Domains, ReturnTypes, UnlockTypes, HasLock
    DEF UnlinkRemoteFails, PC, HookPhases, CommitPhases
<1>30. ASSUME NEW a \in Client, UnlinkLocal(a)
      PROVE  pc' \in [Actor -> PC] /\ call' \in [Actor -> Call]
  BY <1>30, Constants, Domains, ReturnTypes, UnlockTypes, HasLock
    DEF UnlinkLocal, PC, HookPhases, CommitPhases
<1>31. ASSUME NEW a \in Client, Create(a)
      PROVE  pc' \in [Actor -> PC] /\ call' \in [Actor -> Call]
  BY <1>31, Constants, Domains, NextHandleUnused
    DEF Create, PC, HookPhases, CommitPhases
<1>32. ASSUME NEW a \in Client, OpenStart(a)
      PROVE  pc' \in [Actor -> PC] /\ call' \in [Actor -> Call]
  <2>1. [NoCall EXCEPT !.op = "open", !.after = "open_install", !.watch = Awaited] \in Call
    BY AwaitedHook, ResetTypes DEF NoCall, Call, PC
  <2> QED
    BY <1>32, <2>1, Constants, GotoTypes, CallUpdates DEF OpenStart, PC
<1>33. ASSUME NEW a \in Client, UnlinkStart(a)
      PROVE  pc' \in [Actor -> PC] /\ call' \in [Actor -> Call]
  BY ONLY Zenon, TypeOK, CallInv, Next, <1>33, Constants, Domains, GotoTypes, EnterTypes, QueueTypes
    DEF UnlinkStart, PC, HookPhases, CommitPhases
<1>34. ASSUME NEW a \in Client, LinkStart(a)
      PROVE  pc' \in [Actor -> PC] /\ call' \in [Actor -> Call]
  BY ZenonT(30), <1>34, Constants, GotoTypes, EnterTypes, ActiveWriter
    DEF LinkStart, PC, CommitPhases
<1>35. ASSUME NEW a \in Client, NEW h \in Handle, NEW dup \in BOOLEAN, FlushStart(a, h, dup)
      PROVE  pc' \in [Actor -> PC] /\ call' \in [Actor -> Call]
  <2>1. a \in Actor /\ Flush(a, h, dup)
    BY ONLY <1>35, Constants DEF FlushStart
  <2> QED
    BY ONLY TypeOK, <1>35, <2>1, FlushGoes
<1>36. ASSUME NEW a \in Client, NEW h \in Handle, ReleaseStart(a, h)
      PROVE  pc' \in [Actor -> PC] /\ call' \in [Actor -> Call]
  <2>1. a \in Actor /\ Release(a, h)
    BY ONLY <1>36, Constants DEF ReleaseStart
  <2> QED
    BY ONLY TypeOK, <1>36, <2>1, ReleaseGoes
<1>37. ASSUME NEW h \in Handle, Write(h)
      PROVE  pc' \in [Actor -> PC] /\ call' \in [Actor -> Call]
  BY ONLY SMT, TypeOK, CallInv, <1>37, Constants, Domains
    DEF Write, PC, HookPhases, CommitPhases
<1>38. ASSUME NEW h \in Handle, WorkerFails(h)
      PROVE  pc' \in [Actor -> PC] /\ call' \in [Actor -> Call]
  BY SMTT(30), <1>38, Constants, Domains
    DEF WorkerFails, PC, HookPhases, CommitPhases
<1>39. ASSUME NEW h \in Handle, DrainFlush(h)
      PROVE  pc' \in [Actor -> PC] /\ call' \in [Actor -> Call]
  <2>1. h \in Actor /\ FALSE \in BOOLEAN /\ Flush(h, h, FALSE)
    BY ONLY <1>39, Constants DEF DrainFlush
  <2> QED
    BY ONLY TypeOK, <1>39, <2>1, FlushGoes
<1>40. ASSUME NEW h \in Handle, DrainRelease(h)
      PROVE  pc' \in [Actor -> PC] /\ call' \in [Actor -> Call]
  <2>1. h \in Actor /\ Release(h, h)
    BY ONLY <1>40, Constants DEF DrainRelease
  <2> QED
    BY ONLY TypeOK, <1>40, <2>1, ReleaseGoes
<1>41. ASSUME NEW h \in Handle, DrainReleased(h)
      PROVE  pc' \in [Actor -> PC] /\ call' \in [Actor -> Call]
  BY <1>41, Constants, Domains, ReturnTypes
    DEF DrainReleased, PC, HookPhases, CommitPhases
<1>42. ASSUME DrainStart
      PROVE  pc' \in [Actor -> PC] /\ call' \in [Actor -> Call]
  BY <1>42, Constants, Domains
    DEF DrainStart, PC, HookPhases, CommitPhases
<1>43. ASSUME DrainJoined
      PROVE  pc' \in [Actor -> PC] /\ call' \in [Actor -> Call]
  BY <1>43, Constants, GotoTypes, CallUpdates, AwaitedHook DEF DrainJoined, PC
<1>44. ASSUME DrainAwaited
      PROVE  pc' \in [Actor -> PC] /\ call' \in [Actor -> Call]
  BY <1>44, Constants, Domains, KeepTypes
    DEF DrainAwaited, PC, HookPhases, CommitPhases
<1> QED
  BY <1>1, <1>2, <1>3, <1>4, <1>5, <1>6, <1>7, <1>8, <1>9, <1>10, <1>11, <1>12, <1>13, <1>14,
     <1>15, <1>16, <1>17, <1>18, <1>19, <1>20, <1>21, <1>22, <1>23, <1>24, <1>25, <1>26, <1>27,
     <1>28, <1>29, <1>30, <1>31, <1>32, <1>33, <1>34, <1>35, <1>36, <1>37, <1>38, <1>39, <1>40,
     <1>41, <1>42, <1>43, <1>44
    DEF Next, FutureStep, CommitStep, NameStep, CallStart, DrainStep

\* The steps that change a channel.
LEMMA ChannelFrame ==
    ASSUME Next
    PROVE  \/ UNCHANGED <<ch>>
           \/ \E a \in Handle \cup Client :
               \/ InstallHook(a) \/ FulfilHook(a) \/ RemoveHook(a) \/ Demote(a)
               \/ CommitStart(a) \/ CommitFinish(a) \/ CommitHub(a) \/ CommitHubFails(a)
               \/ CommitApply(a) \/ CommitSucceeded(a) \/ ReleaseFailed(a)
           \/ \E a \in Client :
               \/ OpenSetup(a) \/ OpenSupersede(a) \/ OpenInstall(a) \/ Create(a)
           \/ \E h \in Handle : Write(h) \/ WorkerFails(h)
<1>1. \A a \in Handle \cup Client : CommitStep(a) =>
        \/ UNCHANGED <<ch>> \/ InstallHook(a) \/ FulfilHook(a) \/ RemoveHook(a) \/ Demote(a)
        \/ CommitStart(a) \/ CommitFinish(a) \/ CommitHub(a) \/ CommitHubFails(a)
        \/ CommitApply(a) \/ CommitSucceeded(a) \/ ReleaseFailed(a)
  BY DEF CommitStep, HookOnTheSpot, CommitLocked, CommitUnlock, CommitFailed, ReleaseRetry,
     ReleaseCheck, ReleaseLocked, ReleaseUnlock, ReleaseDrop, NoInodeChange, inodeVars,
     NoFilesChange
<1>2. \A a \in Client : NameStep(a) =>
        \/ UNCHANGED <<ch>> \/ OpenSetup(a) \/ OpenSupersede(a) \/ OpenInstall(a)
  BY DEF NameStep, OpenAwaited, OpenLocked, OpenSetupFails, UnlinkLocked, UnlinkRemote,
     UnlinkRemoteFails, UnlinkLocal, NoInodeChange, inodeVars, NoFilesChange
<1>3. \A a \in Client : CallStart(a) =>
        \/ UNCHANGED <<ch>> \/ Create(a)
  BY DEF CallStart, OpenStart, UnlinkStart, LinkStart, FlushStart, ReleaseStart, NoInodeChange,
     inodeVars, NoFilesChange, Flush, Release
<1>4. \A h \in Handle : FutureStep(h) \/ Write(h) \/ WorkerFails(h) =>
        \/ CommitStep(h)
        \/ UNCHANGED <<ch>> \/ Write(h) \/ WorkerFails(h)
  BY DEF FutureStep, DrainFlush, DrainRelease, DrainReleased, Flush, NoInodeChange, inodeVars,
     NoFilesChange, Release
<1>5. DrainStart \/ DrainStep =>
        \/ UNCHANGED <<ch>>
  BY DEF DrainStep, DrainStart, DrainJoined, DrainAwaited, NoInodeChange, inodeVars, NoFilesChange
<1> QED
  BY <1>1, <1>2, <1>3, <1>4, <1>5 DEF Next

\* The steps that change the inode or the Hub.
LEMMA InodeFrame ==
    ASSUME Next
    PROVE  \/ UNCHANGED <<st, linked, dirty_generation, xet_hash, hub>>
           \/ \E a \in Handle \cup Client :
               \/ CommitHub(a) \/ CommitApply(a) \/ ReleaseFailed(a) \/ ReleaseDrop(a)
           \/ \E a \in Client :
               \/ OpenInstall(a) \/ UnlinkRemote(a) \/ UnlinkLocal(a) \/ Create(a)
<1>1. \A a \in Handle \cup Client : CommitStep(a) =>
        \/ UNCHANGED <<st, linked, dirty_generation, xet_hash, hub>> \/ CommitHub(a)
        \/ CommitApply(a) \/ ReleaseFailed(a) \/ ReleaseDrop(a)
  BY DEF CommitStep, InstallHook, HookOnTheSpot, FulfilHook, RemoveHook, Demote, CommitLocked,
     CommitUnlock, CommitStart, CommitFinish, CommitHubFails, CommitSucceeded, CommitFailed,
     ReleaseRetry, ReleaseCheck, ReleaseLocked, ReleaseUnlock, NoInodeChange, inodeVars,
     NoFilesChange
<1>2. \A a \in Client : NameStep(a) =>
        \/ UNCHANGED <<st, linked, dirty_generation, xet_hash, hub>> \/ OpenInstall(a)
        \/ UnlinkRemote(a) \/ UnlinkLocal(a)
  BY DEF NameStep, OpenAwaited, OpenLocked, OpenSetup, OpenSetupFails, OpenSupersede, UnlinkLocked,
     UnlinkRemoteFails, NoInodeChange, inodeVars, NoFilesChange
<1>3. \A a \in Client : CallStart(a) =>
        \/ UNCHANGED <<st, linked, dirty_generation, xet_hash, hub>> \/ Create(a)
  BY DEF CallStart, OpenStart, UnlinkStart, LinkStart, FlushStart, ReleaseStart, NoInodeChange,
     inodeVars, NoFilesChange, Flush, Release
<1>4. \A h \in Handle : FutureStep(h) \/ Write(h) \/ WorkerFails(h) =>
        \/ CommitStep(h)
        \/ UNCHANGED <<st, linked, dirty_generation, xet_hash, hub>>
  BY DEF FutureStep, Write, WorkerFails, DrainFlush, DrainRelease, DrainReleased, NoInodeChange,
     inodeVars, NoFilesChange, Flush, Release
<1>5. DrainStart \/ DrainStep =>
        \/ UNCHANGED <<st, linked, dirty_generation, xet_hash, hub>>
  BY DEF DrainStep, DrainStart, DrainJoined, DrainAwaited, NoInodeChange, inodeVars, NoFilesChange
<1> QED
  BY <1>1, <1>2, <1>3, <1>4, <1>5 DEF Next

\* The steps that change the open handles.
LEMMA FilesFrame ==
    ASSUME Next
    PROVE  \/ UNCHANGED <<open_files, open_handles>>
           \/ \E a \in Handle \cup Client :
               \/ ReleaseDrop(a)
           \/ \E a \in Client :
               \/ OpenInstall(a) \/ Create(a)
               \/ \E h \in Handle : ReleaseStart(a, h)
           \/ \E h \in Handle : DrainRelease(h)
<1>1. \A a \in Handle \cup Client : CommitStep(a) =>
        \/ UNCHANGED <<open_files, open_handles>> \/ ReleaseDrop(a)
  BY DEF CommitStep, InstallHook, HookOnTheSpot, FulfilHook, RemoveHook, Demote, CommitLocked,
     CommitUnlock, CommitStart, CommitFinish, CommitHub, CommitHubFails, CommitApply,
     CommitSucceeded, CommitFailed, ReleaseRetry, ReleaseFailed, ReleaseCheck, ReleaseLocked,
     ReleaseUnlock, NoInodeChange, inodeVars, NoFilesChange
<1>2. \A a \in Client : NameStep(a) =>
        \/ UNCHANGED <<open_files, open_handles>> \/ OpenInstall(a)
  BY DEF NameStep, OpenAwaited, OpenLocked, OpenSetup, OpenSetupFails, OpenSupersede, UnlinkLocked,
     UnlinkRemote, UnlinkRemoteFails, UnlinkLocal, NoInodeChange, inodeVars, NoFilesChange
<1>3. \A a \in Client : CallStart(a) =>
        \/ UNCHANGED <<open_files, open_handles>> \/ Create(a)
        \/ (\E h \in Handle : ReleaseStart(a, h))
  BY DEF CallStart, OpenStart, UnlinkStart, LinkStart, FlushStart, NoInodeChange, inodeVars,
     NoFilesChange, Flush
<1>4. \A h \in Handle : FutureStep(h) \/ Write(h) \/ WorkerFails(h) =>
        \/ CommitStep(h)
        \/ UNCHANGED <<open_files, open_handles>> \/ DrainRelease(h)
  BY DEF FutureStep, Write, WorkerFails, DrainFlush, DrainReleased, NoInodeChange, inodeVars,
     NoFilesChange, Flush
<1>5. DrainStart \/ DrainStep =>
        \/ UNCHANGED <<open_files, open_handles>>
  BY DEF DrainStep, DrainStart, DrainJoined, DrainAwaited, NoInodeChange, inodeVars, NoFilesChange
<1> QED
  BY <1>1, <1>2, <1>3, <1>4, <1>5 DEF Next

\* The steps that change the registered hook.
LEMMA HookFrame ==
    ASSUME Next
    PROVE  \/ UNCHANGED <<pending_commits>>
           \/ \E a \in Handle \cup Client :
               \/ InstallHook(a) \/ RemoveHook(a)
<1>1. \A a \in Handle \cup Client : CommitStep(a) =>
        \/ UNCHANGED <<pending_commits>> \/ InstallHook(a) \/ RemoveHook(a)
  BY DEF CommitStep, HookOnTheSpot, FulfilHook, Demote, CommitLocked, CommitUnlock, CommitStart,
     CommitFinish, CommitHub, CommitHubFails, CommitApply, CommitSucceeded, CommitFailed,
     ReleaseRetry, ReleaseFailed, ReleaseCheck, ReleaseLocked, ReleaseUnlock, ReleaseDrop,
     NoInodeChange, inodeVars, NoFilesChange
<1>2. \A a \in Client : NameStep(a) =>
        \/ UNCHANGED <<pending_commits>>
  BY DEF NameStep, OpenAwaited, OpenLocked, OpenSetup, OpenSetupFails, OpenSupersede, OpenInstall,
     UnlinkLocked, UnlinkRemote, UnlinkRemoteFails, UnlinkLocal, NoInodeChange, inodeVars,
     NoFilesChange
<1>3. \A a \in Client : CallStart(a) =>
        \/ UNCHANGED <<pending_commits>>
  BY DEF CallStart, Create, OpenStart, UnlinkStart, LinkStart, FlushStart, ReleaseStart,
     NoInodeChange, inodeVars, NoFilesChange, Flush, Release
<1>4. \A h \in Handle : FutureStep(h) \/ Write(h) \/ WorkerFails(h) =>
        \/ CommitStep(h)
        \/ UNCHANGED <<pending_commits>>
  BY DEF FutureStep, Write, WorkerFails, DrainFlush, DrainRelease, DrainReleased, NoInodeChange,
     inodeVars, NoFilesChange, Flush, Release
<1>5. DrainStart \/ DrainStep =>
        \/ UNCHANGED <<pending_commits>>
  BY DEF DrainStep, DrainStart, DrainJoined, DrainAwaited, NoInodeChange, inodeVars, NoFilesChange
<1> QED
  BY <1>1, <1>2, <1>3, <1>4, <1>5 DEF Next

\* The steps that change the lock.
LEMMA LockFrame ==
    ASSUME Next
    PROVE  \/ UNCHANGED <<lock>>
           \/ \E a \in Handle \cup Client :
               \/ CommitLocked(a) \/ CommitUnlock(a) \/ CommitFailed(a) \/ ReleaseCheck(a)
               \/ ReleaseUnlock(a)
           \/ \E a \in Client :
               \/ OpenAwaited(a) \/ OpenLocked(a) \/ OpenSetupFails(a) \/ OpenInstall(a)
               \/ UnlinkLocked(a) \/ UnlinkRemoteFails(a) \/ UnlinkLocal(a) \/ OpenStart(a)
               \/ UnlinkStart(a) \/ LinkStart(a)
               \/ \E h \in Handle, dup \in BOOLEAN : FlushStart(a, h, dup)
           \/ \E h \in Handle : DrainFlush(h)
<1>1. \A a \in Handle \cup Client : CommitStep(a) =>
        \/ UNCHANGED <<lock>> \/ CommitLocked(a) \/ CommitUnlock(a) \/ CommitFailed(a)
        \/ ReleaseCheck(a) \/ ReleaseUnlock(a)
  BY DEF CommitStep, InstallHook, HookOnTheSpot, FulfilHook, RemoveHook, Demote, CommitStart,
     CommitFinish, CommitHub, CommitHubFails, CommitApply, CommitSucceeded, ReleaseRetry,
     ReleaseFailed, ReleaseLocked, ReleaseDrop, NoInodeChange, inodeVars, NoFilesChange
<1>2. \A a \in Client : NameStep(a) =>
        \/ UNCHANGED <<lock>> \/ OpenAwaited(a) \/ OpenLocked(a) \/ OpenSetupFails(a)
        \/ OpenInstall(a) \/ UnlinkLocked(a) \/ UnlinkRemoteFails(a) \/ UnlinkLocal(a)
  BY DEF NameStep, OpenSetup, OpenSupersede, UnlinkRemote, NoInodeChange, inodeVars, NoFilesChange
<1>3. \A a \in Client : CallStart(a) =>
        \/ UNCHANGED <<lock>> \/ OpenStart(a) \/ UnlinkStart(a) \/ LinkStart(a)
        \/ (\E h \in Handle, dup \in BOOLEAN : FlushStart(a, h, dup))
  BY DEF CallStart, Create, ReleaseStart, Release, NoInodeChange, inodeVars
<1>4. \A h \in Handle : FutureStep(h) \/ Write(h) \/ WorkerFails(h) =>
        \/ CommitStep(h)
        \/ UNCHANGED <<lock>> \/ DrainFlush(h)
  BY DEF FutureStep, Write, WorkerFails, DrainRelease, DrainReleased, NoInodeChange, inodeVars,
     NoFilesChange, Release
<1>5. DrainStart \/ DrainStep =>
        \/ UNCHANGED <<lock>>
  BY DEF DrainStep, DrainStart, DrainJoined, DrainAwaited, NoInodeChange, inodeVars, NoFilesChange
<1> QED
  BY <1>1, <1>2, <1>3, <1>4, <1>5 DEF Next

\* The channels.
LEMMA ChannelType ==
    ASSUME TypeOK, CallInv, PhaseInv, Next
    PROVE  ch' \in [Handle -> StreamingChannel]
<1>1. ASSUME NEW a \in Handle \cup Client, InstallHook(a)
      PROVE  ch' \in [Handle -> StreamingChannel]
  BY <1>1, Constants, Domains, AtWork, ChannelUpdates, KeepTypes
    DEF InstallHook, HookPhases, CommitPhases, CommitState
<1>2. ASSUME NEW a \in Handle \cup Client, FulfilHook(a)
      PROVE  ch' \in [Handle -> StreamingChannel]
  <2>1. call[a].h \in Handle
    BY <1>2, Constants, AtWork DEF FulfilHook, HookPhases
  <2>2. UNCHANGED ch \/ ch' = [ch EXCEPT ![call[a].h].hook = "busy"]
    BY <1>2 DEF FulfilHook
  <2>3. [ch EXCEPT ![call[a].h].hook = "busy"] \in [Handle -> StreamingChannel]
    BY <2>1, ChannelUpdates
  <2> QED
    BY <2>2, <2>3, Domains
<1>3. ASSUME NEW a \in Handle \cup Client, RemoveHook(a)
      PROVE  ch' \in [Handle -> StreamingChannel]
  BY <1>3, Constants, Domains, AtWork, ChannelUpdates, KeepTypes
    DEF RemoveHook, HookPhases, CommitPhases, CommitState
<1>4. ASSUME NEW a \in Handle \cup Client, Demote(a)
      PROVE  ch' \in [Handle -> StreamingChannel]
  <2>1. call[a].h \in Handle
    BY <1>4, Constants, AtWork DEF Demote
  <2>2. UNCHANGED ch \/ ch' = [ch EXCEPT ![call[a].h].state = "Deferred"]
    BY <1>4, <2>1, Domains DEF Demote, StreamingChannel
  <2> QED
    <3>1. [ch EXCEPT ![call[a].h].state = "Deferred"] \in [Handle -> StreamingChannel]
      BY <2>1, ChannelUpdates DEF CommitState
    <3> QED
      BY <2>2, <3>1, Domains
<1>5. ASSUME NEW a \in Handle \cup Client, CommitStart(a)
      PROVE  ch' \in [Handle -> StreamingChannel]
  <2>1. call[a].h \in Handle
    BY <1>5, Constants, AtWork DEF CommitStart, CommitPhases
  <2>2. ch[call[a].h] \in StreamingChannel
    BY <2>1, Domains
  <2>3. [ch[call[a].h] EXCEPT !.state = "Committing", !.pending_info = NoInfo] \in StreamingChannel
    BY <2>2 DEF StreamingChannel, CommitState
  <2>4. \/ UNCHANGED ch
        \/ ch' = [ch EXCEPT ![call[a].h] = [ch[call[a].h] EXCEPT !.state = "Committing", !.pending_info = NoInfo]]
    <3>1. [ch EXCEPT ![call[a].h].state = "Committing", ![call[a].h].pending_info = NoInfo]
            = [ch EXCEPT ![call[a].h] = [ch[call[a].h] EXCEPT !.state = "Committing", !.pending_info = NoInfo]]
      BY <2>1, <2>2, Domains
    <3> QED
      BY <1>5, <3>1 DEF CommitStart
  <2>5. [ch EXCEPT ![call[a].h] = [ch[call[a].h] EXCEPT !.state = "Committing", !.pending_info = NoInfo]]
            \in [Handle -> StreamingChannel]
    BY <2>1, <2>3, Domains
  <2> QED
    BY <2>4, <2>5, Domains
<1>6. ASSUME NEW a \in Handle \cup Client, CommitFinish(a)
      PROVE  ch' \in [Handle -> StreamingChannel]
  BY <1>6, Constants, Domains, AtWork, ChannelUpdates, KeepTypes, GotoTypes
    DEF CommitFinish, HookPhases, CommitPhases, CommitState
<1>7. ASSUME NEW a \in Handle \cup Client, CommitHub(a)
      PROVE  ch' \in [Handle -> StreamingChannel]
  <2>1. call[a].h \in Handle /\ call[a].info \in {NoInfo} \cup Nat
    BY <1>7, Constants, AtWork, CallTypes DEF CommitHub, CommitPhases
  <2>2. ch' = [ch EXCEPT ![call[a].h].stored = call[a].info]
    BY <1>7 DEF CommitHub
  <2> QED
    BY <2>1, <2>2, ChannelUpdates, Zenon
<1>8. ASSUME NEW a \in Handle \cup Client, CommitHubFails(a)
      PROVE  ch' \in [Handle -> StreamingChannel]
  <2>1. call[a].h \in Handle /\ call[a].info \in {NoInfo} \cup Nat
    BY <1>8, Constants, AtWork, CallTypes DEF CommitHubFails, CommitPhases
  <2>2. ch' = [ch EXCEPT ![call[a].h].pending_info = call[a].info]
    BY <1>8 DEF CommitHubFails
  <2> QED
    BY <2>1, <2>2, ChannelUpdates, Zenon
<1>9. ASSUME NEW a \in Handle \cup Client, CommitApply(a)
      PROVE  ch' \in [Handle -> StreamingChannel]
  BY <1>9, Constants, Domains, AtWork, ChannelUpdates, KeepTypes
    DEF CommitApply, HookPhases, CommitPhases, CommitState
<1>10. ASSUME NEW a \in Handle \cup Client, CommitSucceeded(a)
      PROVE  ch' \in [Handle -> StreamingChannel]
  BY <1>10, Constants, Domains, AtWork, ChannelUpdates, GotoTypes
    DEF CommitSucceeded, HookPhases, CommitPhases, CommitState
<1>11. ASSUME NEW a \in Handle \cup Client, ReleaseFailed(a)
      PROVE  ch' \in [Handle -> StreamingChannel]
  BY <1>11, Constants, Domains, AtWork, ChannelUpdates, GotoTypes
    DEF ReleaseFailed, HookPhases, CommitPhases, CommitState
<1>12. ASSUME NEW a \in Client, OpenSetup(a)
      PROVE  ch' \in [Handle -> StreamingChannel]
  <2>1. [Unused EXCEPT !.state = "Writing", !.generation = 0, !.snapshot = call[a].snapshot,
                       !.worker = "running"] \in StreamingChannel
    BY ResetTypes, CallTypes, Constants DEF Unused, StreamingChannel, CommitState
  <2>2. NextHandle \in Handle
    BY <1>12, NextHandleUnused DEF OpenSetup
  <2> QED
    BY <1>12, <2>1, <2>2, ChannelUpdates DEF OpenSetup, Setup
<1>13. ASSUME NEW a \in Client, OpenSupersede(a)
      PROVE  ch' \in [Handle -> StreamingChannel]
  BY <1>13, Constants, Domains, AtWork, ChannelUpdates, KeepTypes
    DEF OpenSupersede, HookPhases, CommitPhases, CommitState
<1>14. ASSUME NEW a \in Client, OpenInstall(a)
      PROVE  ch' \in [Handle -> StreamingChannel]
  <2>1. call[a].new \in Handle
    BY <1>14, Constants DEF OpenInstall, PhaseInv, PhaseShape, Superseding, NewWriter
  <2>2. UNCHANGED ch \/ ch' = [ch EXCEPT ![call[a].new].generation = dirty_generation + 1]
    BY <1>14 DEF OpenInstall
  <2>3. dirty_generation + 1 \in Nat
    BY DEF TypeOK
  <2>4. [ch EXCEPT ![call[a].new].generation = dirty_generation + 1] \in [Handle -> StreamingChannel]
    BY <2>1, <2>3, ChannelUpdates
  <2> QED
    BY <2>2, <2>4, Domains
<1>15. ASSUME NEW a \in Client, Create(a)
      PROVE  ch' \in [Handle -> StreamingChannel]
  <2>1. [Unused EXCEPT !.state = "Writing", !.generation = 1, !.snapshot = NoSnapshot,
                       !.worker = "running"] \in StreamingChannel
    BY ResetTypes DEF Unused, StreamingChannel, CommitState
  <2>2. NextHandle \in Handle
    BY <1>15, NextHandleUnused DEF Create
  <2> QED
    BY <1>15, <2>1, <2>2, ChannelUpdates DEF Create, Setup
<1>16. ASSUME NEW h \in Handle, Write(h)
      PROVE  ch' \in [Handle -> StreamingChannel]
  <2>1. ch' = [ch EXCEPT ![h].sent = ch[h].sent + 1]
    BY <1>16, Domains DEF Write
  <2>2. ch[h].sent + 1 \in Nat
    BY ChannelTypes
  <2> QED
    BY <2>1, <2>2, ChannelUpdates
<1>17. ASSUME NEW h \in Handle, WorkerFails(h)
      PROVE  ch' \in [Handle -> StreamingChannel]
  BY <1>17, Constants, Domains, AtWork, ChannelUpdates
    DEF WorkerFails, HookPhases, CommitPhases, CommitState
<1> QED
  BY <1>1, <1>2, <1>3, <1>4, <1>5, <1>6, <1>7, <1>8, <1>9, <1>10, <1>11, <1>12, <1>13, <1>14,
     <1>15, <1>16, <1>17, ChannelFrame, Domains

\* The inode and the Hub.
LEMMA InodeType ==
    ASSUME TypeOK, CallInv, BytesInv, Next
    PROVE  /\ st' \in {"none", "live", "gone"} /\ linked' \in BOOLEAN
       /\ dirty_generation' \in Nat /\ xet_hash' \in Hash /\ hub' \in Hash
<1>1. ASSUME NEW a \in Handle \cup Client, CommitHub(a)
      PROVE  /\ st' \in {"none", "live", "gone"} /\ linked' \in BOOLEAN
             /\ dirty_generation' \in Nat /\ xet_hash' \in Hash /\ hub' \in Hash
  <2>1. call[a].h \in Handle
    BY <1>1, Constants, AtWork DEF CommitHub, CommitPhases
  <2>2. call[a].info \in Nat
    BY <1>1, <2>1, Constants, ChannelTypes DEF CommitHub, BytesInv, BytesShape
  <2> QED
    BY <1>1, <2>1, <2>2, Constants DEF CommitHub, inodeVars, TypeOK
<1>2. ASSUME NEW a \in Handle \cup Client, CommitApply(a)
      PROVE  /\ st' \in {"none", "live", "gone"} /\ linked' \in BOOLEAN
             /\ dirty_generation' \in Nat /\ xet_hash' \in Hash /\ hub' \in Hash
  <2>1. call[a].h \in Handle
    BY <1>2, Constants, AtWork DEF CommitApply, CommitPhases
  <2>2. call[a].info \in Nat
    BY <1>2, <2>1, Constants, ChannelTypes DEF CommitApply, BytesInv, BytesShape
  <2> QED
    BY <1>2, <2>1, <2>2, Constants DEF CommitApply, TypeOK
<1>3. ASSUME NEW a \in Handle \cup Client, ReleaseFailed(a)
      PROVE  /\ st' \in {"none", "live", "gone"} /\ linked' \in BOOLEAN
             /\ dirty_generation' \in Nat /\ xet_hash' \in Hash /\ hub' \in Hash
  <2>1. call[a].h \in Handle
    BY <1>3, Constants, AtWork DEF ReleaseFailed, CommitPhases
  <2>2. ch[call[a].h].snapshot.xet_hash \in Hash
    BY <2>1, ChannelTypes
  <2>3. /\ linked' \in {linked, FALSE} /\ st' \in {st, "gone"} /\ dirty_generation' \in {dirty_generation, 0}
        /\ xet_hash' \in {xet_hash, ch[call[a].h].snapshot.xet_hash} /\ hub' = hub
    BY <1>3 DEF ReleaseFailed, RevertInode
  <2>4. dirty_generation' \in Nat
    BY <2>3 DEF TypeOK
  <2>5. xet_hash' \in Hash /\ hub' \in Hash
    BY <2>2, <2>3 DEF TypeOK
  <2>6. st' \in {"none", "live", "gone"} /\ linked' \in BOOLEAN
    BY <2>3 DEF TypeOK
  <2> QED
    BY <2>4, <2>5, <2>6
<1>4. ASSUME NEW a \in Handle \cup Client, ReleaseDrop(a)
      PROVE  /\ st' \in {"none", "live", "gone"} /\ linked' \in BOOLEAN
             /\ dirty_generation' \in Nat /\ xet_hash' \in Hash /\ hub' \in Hash
  BY <1>4, Constants, ReturnTypes
    DEF ReleaseDrop, TypeOK
<1>5. ASSUME NEW a \in Client, OpenInstall(a)
      PROVE  /\ st' \in {"none", "live", "gone"} /\ linked' \in BOOLEAN
             /\ dirty_generation' \in Nat /\ xet_hash' \in Hash /\ hub' \in Hash
  BY <1>5, Constants, ReturnTypes, UnlockTypes, HasLock
    DEF OpenInstall, TypeOK
<1>6. ASSUME NEW a \in Client, UnlinkRemote(a)
      PROVE  /\ st' \in {"none", "live", "gone"} /\ linked' \in BOOLEAN
             /\ dirty_generation' \in Nat /\ xet_hash' \in Hash /\ hub' \in Hash
  BY <1>6, Constants DEF UnlinkRemote, inodeVars, TypeOK
<1>7. ASSUME NEW a \in Client, UnlinkLocal(a)
      PROVE  /\ st' \in {"none", "live", "gone"} /\ linked' \in BOOLEAN
             /\ dirty_generation' \in Nat /\ xet_hash' \in Hash /\ hub' \in Hash
  BY <1>7, Constants, ReturnTypes, UnlockTypes, HasLock
    DEF UnlinkLocal, TypeOK
<1>8. ASSUME NEW a \in Client, Create(a)
      PROVE  /\ st' \in {"none", "live", "gone"} /\ linked' \in BOOLEAN
             /\ dirty_generation' \in Nat /\ xet_hash' \in Hash /\ hub' \in Hash
  BY <1>8, Constants, NextHandleUnused
    DEF Create, TypeOK
<1> QED
  BY <1>1, <1>2, <1>3, <1>4, <1>5, <1>6, <1>7, <1>8, InodeFrame DEF TypeOK

\* The open handles.
LEMMA FilesType ==
    ASSUME TypeOK, PhaseInv, Next
    PROVE  open_files' \subseteq Handle /\ open_handles' \subseteq Handle
<1>1. ASSUME NEW a \in Handle \cup Client, ReleaseDrop(a)
      PROVE  open_files' \subseteq Handle /\ open_handles' \subseteq Handle
  BY <1>1, Constants, Domains, ReturnTypes
    DEF ReleaseDrop
<1>2. ASSUME NEW a \in Client, OpenInstall(a)
      PROVE  open_files' \subseteq Handle /\ open_handles' \subseteq Handle
  <2>1. call[a].new \in Handle
    BY <1>2, Constants DEF OpenInstall, PhaseInv, PhaseShape, Superseding, NewWriter
  <2> QED
    BY <1>2, <2>1, Domains DEF OpenInstall
<1>3. ASSUME NEW a \in Client, Create(a)
      PROVE  open_files' \subseteq Handle /\ open_handles' \subseteq Handle
  BY <1>3, Constants, Domains, NextHandleUnused
    DEF Create
<1>4. ASSUME NEW a \in Client, NEW h \in Handle, ReleaseStart(a, h)
      PROVE  open_files' \subseteq Handle /\ open_handles' \subseteq Handle
  BY <1>4, Constants, Domains, GotoTypes, EnterTypes
    DEF ReleaseStart, Release
<1>5. ASSUME NEW h \in Handle, DrainRelease(h)
      PROVE  open_files' \subseteq Handle /\ open_handles' \subseteq Handle
  BY <1>5, Constants, Domains, GotoTypes, EnterTypes
    DEF DrainRelease, Release
<1> QED
  BY <1>1, <1>2, <1>3, <1>4, <1>5, FilesFrame, Domains

\* The lock.
LEMMA LockType ==
    ASSUME TypeOK, LockInv, Next
    PROVE  lock' \in Seq(Actor)
<1>1. ASSUME NEW a \in Handle \cup Client, CommitLocked(a)
      PROVE  lock' \in Seq(Actor)
  BY <1>1, Constants, KeepTypes, ReturnTypes, UnlockTypes, HasLock
    DEF CommitLocked, TypeOK, LockSteps, CommitPhases
<1>2. ASSUME NEW a \in Handle \cup Client, CommitUnlock(a)
      PROVE  lock' \in Seq(Actor)
  BY <1>2, Constants, ReturnTypes, UnlockTypes, HasLock
    DEF CommitUnlock, TypeOK, LockSteps, CommitPhases
<1>3. ASSUME NEW a \in Handle \cup Client, CommitFailed(a)
      PROVE  lock' \in Seq(Actor)
  BY <1>3, Constants, ReturnTypes, UnlockTypes, HasLock
    DEF CommitFailed, TypeOK, LockSteps, CommitPhases
<1>4. ASSUME NEW a \in Handle \cup Client, ReleaseCheck(a)
      PROVE  lock' \in Seq(Actor)
  BY <1>4, Constants, KeepTypes, QueueTypes
    DEF ReleaseCheck, TypeOK, LockSteps, CommitPhases
<1>5. ASSUME NEW a \in Handle \cup Client, ReleaseUnlock(a)
      PROVE  lock' \in Seq(Actor)
  BY <1>5, Constants, KeepTypes, UnlockTypes, HasLock
    DEF ReleaseUnlock, TypeOK, LockSteps, CommitPhases
<1>6. ASSUME NEW a \in Client, OpenAwaited(a)
      PROVE  lock' \in Seq(Actor)
  BY <1>6, Constants, KeepTypes, QueueTypes
    DEF OpenAwaited, TypeOK, LockSteps, CommitPhases
<1>7. ASSUME NEW a \in Client, OpenLocked(a)
      PROVE  lock' \in Seq(Actor)
  BY <1>7, Constants, GotoTypes, ReturnTypes, ActiveWriter, UnlockTypes, HasLock
    DEF OpenLocked, SnapshotAtOpen, TypeOK, LockSteps, CommitPhases
<1>8. ASSUME NEW a \in Client, OpenSetupFails(a)
      PROVE  lock' \in Seq(Actor)
  BY <1>8, Constants, ReturnTypes, UnlockTypes, HasLock
    DEF OpenSetupFails, TypeOK, LockSteps, CommitPhases
<1>9. ASSUME NEW a \in Client, OpenInstall(a)
      PROVE  lock' \in Seq(Actor)
  BY <1>9, Constants, ReturnTypes, UnlockTypes, HasLock
    DEF OpenInstall, TypeOK, LockSteps, CommitPhases
<1>10. ASSUME NEW a \in Client, UnlinkLocked(a)
      PROVE  lock' \in Seq(Actor)
  BY <1>10, Constants, KeepTypes, ReturnTypes, UnlockTypes, HasLock
    DEF UnlinkLocked, TypeOK, LockSteps, CommitPhases
<1>11. ASSUME NEW a \in Client, UnlinkRemoteFails(a)
      PROVE  lock' \in Seq(Actor)
  BY <1>11, Constants, ReturnTypes, UnlockTypes, HasLock
    DEF UnlinkRemoteFails, TypeOK, LockSteps, CommitPhases
<1>12. ASSUME NEW a \in Client, UnlinkLocal(a)
      PROVE  lock' \in Seq(Actor)
  BY <1>12, Constants, ReturnTypes, UnlockTypes, HasLock
    DEF UnlinkLocal, TypeOK, LockSteps, CommitPhases
<1>13. ASSUME NEW a \in Client, OpenStart(a)
      PROVE  lock' \in Seq(Actor)
  BY <1>13, Constants, GotoTypes, QueueTypes, AwaitedHook
    DEF OpenStart, TypeOK, LockSteps, CommitPhases
<1>14. ASSUME NEW a \in Client, UnlinkStart(a)
      PROVE  lock' \in Seq(Actor)
  BY <1>14, Constants, GotoTypes, EnterTypes, QueueTypes
    DEF UnlinkStart, TypeOK, LockSteps, CommitPhases
<1>15. ASSUME NEW a \in Client, LinkStart(a)
      PROVE  lock' \in Seq(Actor)
  BY <1>15, Constants, GotoTypes, EnterTypes, ActiveWriter, QueueTypes
    DEF LinkStart, TypeOK, LockSteps, CommitPhases
<1>16. ASSUME NEW a \in Client, NEW h \in Handle, NEW dup \in BOOLEAN, FlushStart(a, h, dup)
      PROVE  lock' \in Seq(Actor)
  BY <1>16, Constants, KeepTypes, GotoTypes, EnterTypes, QueueTypes
    DEF FlushStart, Flush, TypeOK, LockSteps, CommitPhases
<1>17. ASSUME NEW h \in Handle, DrainFlush(h)
      PROVE  lock' \in Seq(Actor)
  BY <1>17, Constants, KeepTypes, GotoTypes, EnterTypes, QueueTypes
    DEF DrainFlush, Flush, TypeOK, LockSteps, CommitPhases
<1> QED
  BY <1>1, <1>2, <1>3, <1>4, <1>5, <1>6, <1>7, <1>8, <1>9, <1>10, <1>11, <1>12, <1>13, <1>14,
     <1>15, <1>16, <1>17, LockFrame DEF TypeOK

------------------------------------------------------------------------------
(* The lock, and what a call at each step is. *)

\* Who is in the critical section stays the holder of the lock.
LEMMA LockStep ==
    ASSUME TypeOK, LockInv, CallInv, Next
    PROVE  LockInv'
<1>1. ASSUME NEW a \in Handle \cup Client, InstallHook(a)
      PROVE  LockInv'
  BY <1>1, Constants, Domains, KeepTypes
    DEF InstallHook, LockInv, Critical, Hooking, LockSteps, HookPhases, CommitPhases, Holds, PC
<1>2. ASSUME NEW a \in Handle \cup Client, HookOnTheSpot(a)
      PROVE  LockInv'
  <2>1. a \in Actor /\ call[a].after \in PC /\ "fulfil" \in PC
    BY Constants, CallTypes DEF PC, HookPhases
  <2>2. pc[a] = "spot" /\ UNCHANGED <<call, lock>> /\ pc'[a] \in {"fulfil", call[a].after}
        /\ \A b \in Actor \ {a} : pc'[b] = pc[b]
    BY <1>2, <2>1, KeepTypes DEF HookOnTheSpot
  <2>3. call[a].after \in {"demote", "start", "release_check", "commit_unlock", "release_unlock", "open_install"}
    BY <2>1, <2>2 DEF CallInv, CallShape, HookPhases
  <2> QED
    BY <2>1, <2>2, <2>3 DEF LockInv, Critical, Hooking, LockSteps, HookPhases, CommitPhases, Holds
<1>3. ASSUME NEW a \in Handle \cup Client, FulfilHook(a)
      PROVE  LockInv'
  <2>1. a \in Actor /\ pc[a] = "fulfil" /\ UNCHANGED lock
    BY <1>3, Constants DEF FulfilHook
  <2>2. call[a].after \in {"demote", "start", "release_check", "commit_unlock", "release_unlock", "open_install"}
    BY <2>1 DEF CallInv, CallShape, HookPhases
  <2>3. pc'[a] \in {"unhook", call[a].after} /\ \A b \in Actor \ {a} : pc'[b] = pc[b]
    BY <1>3, <2>1, <2>2, GotoTypes, KeepTypes DEF FulfilHook, PC, HookPhases, CommitPhases
  <2>4. \A b \in Actor : call'[b].after = call[b].after
    BY <1>3, Domains DEF FulfilHook, Keep, Call
  <2> QED
    BY <2>1, <2>2, <2>3, <2>4
      DEF LockInv, Critical, Hooking, LockSteps, HookPhases, CommitPhases, Holds
<1>4. ASSUME NEW a \in Handle \cup Client, RemoveHook(a)
      PROVE  LockInv'
  <2>1. a \in Actor /\ call[a].after \in PC
    BY Constants, CallTypes
  <2>2. pc[a] = "unhook" /\ UNCHANGED <<call, lock>> /\ pc'[a] = call[a].after
        /\ \A b \in Actor \ {a} : pc'[b] = pc[b]
    BY <1>4, <2>1, KeepTypes DEF RemoveHook
  <2>3. call[a].after \in {"demote", "start", "release_check", "commit_unlock", "release_unlock", "open_install"}
    BY <2>1, <2>2 DEF CallInv, CallShape, HookPhases
  <2> QED
    BY <2>1, <2>2, <2>3 DEF LockInv, Critical, Hooking, LockSteps, HookPhases, CommitPhases, Holds
<1>5. ASSUME NEW a \in Handle \cup Client, Demote(a)
      PROVE  LockInv'
  BY <1>5, Constants, Domains, ReturnTypes
    DEF Demote, LockInv, Critical, Hooking, LockSteps, HookPhases, CommitPhases, Holds, PC
<1>6. ASSUME NEW a \in Handle \cup Client, CommitLocked(a)
      PROVE  LockInv'
  BY <1>6, Constants, Domains, KeepTypes, ReturnTypes, UnlockTypes, HasLock
    DEF CommitLocked, Holds, LockInv, Critical, Hooking, LockSteps, HookPhases, CommitPhases, PC
<1>7. ASSUME NEW a \in Handle \cup Client, CommitUnlock(a)
      PROVE  LockInv'
  BY <1>7, Constants, Domains, ReturnTypes, UnlockTypes, HasLock
    DEF CommitUnlock, LockInv, Critical, Hooking, LockSteps, HookPhases, CommitPhases, Holds, PC
<1>8. ASSUME NEW a \in Handle \cup Client, CommitStart(a)
      PROVE  LockInv'
  BY <1>8, Constants, Domains, KeepTypes, GotoTypes
    DEF CommitStart, LockInv, Critical, Hooking, LockSteps, HookPhases, CommitPhases, Holds, PC
<1>9. ASSUME NEW a \in Handle \cup Client, CommitFinish(a)
      PROVE  LockInv'
  BY <1>9, Constants, Domains, KeepTypes, GotoTypes
    DEF CommitFinish, LockInv, Critical, Hooking, LockSteps, HookPhases, CommitPhases, Holds, PC
<1>10. ASSUME NEW a \in Handle \cup Client, CommitHub(a)
      PROVE  LockInv'
  BY <1>10, Constants, Domains, KeepTypes
    DEF CommitHub, LockInv, Critical, Hooking, LockSteps, HookPhases, CommitPhases, Holds, PC
<1>11. ASSUME NEW a \in Handle \cup Client, CommitHubFails(a)
      PROVE  LockInv'
  BY <1>11, Constants, Domains, KeepTypes
    DEF CommitHubFails, LockInv, Critical, Hooking, LockSteps, HookPhases, CommitPhases, Holds,
        PC
<1>12. ASSUME NEW a \in Handle \cup Client, CommitApply(a)
      PROVE  LockInv'
  BY <1>12, Constants, Domains, KeepTypes
    DEF CommitApply, LockInv, Critical, Hooking, LockSteps, HookPhases, CommitPhases, Holds, PC
<1>13. ASSUME NEW a \in Handle \cup Client, CommitSucceeded(a)
      PROVE  LockInv'
  BY <1>13, Constants, Domains, GotoTypes
    DEF CommitSucceeded, LockInv, Critical, Hooking, LockSteps, HookPhases, CommitPhases, Holds,
        PC
<1>14. ASSUME NEW a \in Handle \cup Client, CommitFailed(a)
      PROVE  LockInv'
  BY <1>14, Constants, Domains, ReturnTypes, UnlockTypes, HasLock
    DEF CommitFailed, LockInv, Critical, Hooking, LockSteps, HookPhases, CommitPhases, Holds, PC
<1>15. ASSUME NEW a \in Handle \cup Client, ReleaseRetry(a)
      PROVE  LockInv'
  BY <1>15, Constants, Domains, GotoTypes
    DEF ReleaseRetry, LockInv, Critical, Hooking, LockSteps, HookPhases, CommitPhases, Holds, PC
<1>16. ASSUME NEW a \in Handle \cup Client, ReleaseFailed(a)
      PROVE  LockInv'
  BY <1>16, Constants, Domains, GotoTypes
    DEF ReleaseFailed, LockInv, Critical, Hooking, LockSteps, HookPhases, CommitPhases, Holds,
        PC
<1>17. ASSUME NEW a \in Handle \cup Client, ReleaseCheck(a)
      PROVE  LockInv'
  BY <1>17, Constants, Domains, KeepTypes, QueueTypes
    DEF ReleaseCheck, LockInv, Critical, Hooking, LockSteps, HookPhases, CommitPhases, Holds, PC
<1>18. ASSUME NEW a \in Handle \cup Client, ReleaseLocked(a)
      PROVE  LockInv'
  BY <1>18, Constants, Domains, KeepTypes
    DEF ReleaseLocked, Holds, LockInv, Critical, Hooking, LockSteps, HookPhases, CommitPhases,
        PC
<1>19. ASSUME NEW a \in Handle \cup Client, ReleaseUnlock(a)
      PROVE  LockInv'
  BY <1>19, Constants, Domains, KeepTypes, UnlockTypes, HasLock
    DEF ReleaseUnlock, LockInv, Critical, Hooking, LockSteps, HookPhases, CommitPhases, Holds,
        PC
<1>20. ASSUME NEW a \in Handle \cup Client, ReleaseDrop(a)
      PROVE  LockInv'
  BY <1>20, Constants, Domains, ReturnTypes
    DEF ReleaseDrop, LockInv, Critical, Hooking, LockSteps, HookPhases, CommitPhases, Holds, PC
<1>21. ASSUME NEW a \in Client, OpenAwaited(a)
      PROVE  LockInv'
  BY <1>21, Constants, Domains, KeepTypes, QueueTypes
    DEF OpenAwaited, LockInv, Critical, Hooking, LockSteps, HookPhases, CommitPhases, Holds, PC
<1>22. ASSUME NEW a \in Client, OpenLocked(a)
      PROVE  LockInv'
  BY <1>22, Constants, Domains, GotoTypes, ReturnTypes, ActiveWriter, UnlockTypes, HasLock
    DEF OpenLocked, Holds, SnapshotAtOpen, LockInv, Critical, Hooking, LockSteps, HookPhases,
        CommitPhases, PC
<1>23. ASSUME NEW a \in Client, OpenSetup(a)
      PROVE  LockInv'
  BY <1>23, Constants, Domains, GotoTypes, NextHandleUnused
    DEF OpenSetup, LockInv, Critical, Hooking, LockSteps, HookPhases, CommitPhases, Holds, PC
<1>24. ASSUME NEW a \in Client, OpenSetupFails(a)
      PROVE  LockInv'
  BY <1>24, Constants, Domains, ReturnTypes, UnlockTypes, HasLock
    DEF OpenSetupFails, LockInv, Critical, Hooking, LockSteps, HookPhases, CommitPhases, Holds,
        PC
<1>25. ASSUME NEW a \in Client, OpenSupersede(a)
      PROVE  LockInv'
  BY <1>25, Constants, Domains, KeepTypes
    DEF OpenSupersede, LockInv, Critical, Hooking, LockSteps, HookPhases, CommitPhases, Holds,
        PC
<1>26. ASSUME NEW a \in Client, OpenInstall(a)
      PROVE  LockInv'
  BY <1>26, Constants, Domains, ReturnTypes, UnlockTypes, HasLock
    DEF OpenInstall, LockInv, Critical, Hooking, LockSteps, HookPhases, CommitPhases, Holds, PC
<1>27. ASSUME NEW a \in Client, UnlinkLocked(a)
      PROVE  LockInv'
  BY <1>27, Constants, Domains, KeepTypes, ReturnTypes, UnlockTypes, HasLock
    DEF UnlinkLocked, Holds, LockInv, Critical, Hooking, LockSteps, HookPhases, CommitPhases, PC
<1>28. ASSUME NEW a \in Client, UnlinkRemote(a)
      PROVE  LockInv'
  BY <1>28, Constants, Domains, KeepTypes
    DEF UnlinkRemote, LockInv, Critical, Hooking, LockSteps, HookPhases, CommitPhases, Holds, PC
<1>29. ASSUME NEW a \in Client, UnlinkRemoteFails(a)
      PROVE  LockInv'
  BY <1>29, Constants, Domains, ReturnTypes, UnlockTypes, HasLock
    DEF UnlinkRemoteFails, LockInv, Critical, Hooking, LockSteps, HookPhases, CommitPhases,
        Holds, PC
<1>30. ASSUME NEW a \in Client, UnlinkLocal(a)
      PROVE  LockInv'
  BY <1>30, Constants, Domains, ReturnTypes, UnlockTypes, HasLock
    DEF UnlinkLocal, LockInv, Critical, Hooking, LockSteps, HookPhases, CommitPhases, Holds, PC
<1>31. ASSUME NEW a \in Client, Create(a)
      PROVE  LockInv'
  BY <1>31, Constants, Domains, NextHandleUnused
    DEF Create, LockInv, Critical, Hooking, LockSteps, HookPhases, CommitPhases, Holds, PC
<1>32. ASSUME NEW a \in Client, OpenStart(a)
      PROVE  LockInv'
  BY <1>32, Constants, Domains, GotoTypes, QueueTypes, AwaitedHook
    DEF OpenStart, LockInv, Critical, Hooking, LockSteps, HookPhases, CommitPhases, Holds, PC
<1>33. ASSUME NEW a \in Client, UnlinkStart(a)
      PROVE  LockInv'
  <2>1. a \in Actor /\ "unlink_lock" \in PC /\ "idle" \in PC
    BY Constants DEF PC
  <2>2. /\ pc'[a] = "unlink_lock" /\ \A b \in Actor \ {a} : pc'[b] = pc[b] /\ call'[b] = call[b]
        /\ \A b \in Actor : Holds(b) => Holds(b)'
    BY ZenonT(30), <1>33, <2>1, GotoTypes, EnterTypes, QueueTypes DEF UnlinkStart
  <2> QED
    BY <2>2 DEF LockInv, Critical, Hooking, LockSteps, HookPhases, CommitPhases
<1>34. ASSUME NEW a \in Client, LinkStart(a)
      PROVE  LockInv'
  <2>1. a \in Actor /\ "commit_lock" \in PC
    BY Constants DEF PC
  <2>2. /\ pc'[a] = "commit_lock" /\ \A b \in Actor \ {a} : pc'[b] = pc[b] /\ call'[b] = call[b]
        /\ \A b \in Actor : Holds(b) => Holds(b)'
    BY SMTT(30), <1>34, <2>1, Domains, GotoTypes, QueueTypes DEF LinkStart, Enter
  <2> QED
    BY <2>2 DEF LockInv, Critical, Hooking, LockSteps, HookPhases, CommitPhases
<1>35. ASSUME NEW a \in Client, NEW h \in Handle, NEW dup \in BOOLEAN, FlushStart(a, h, dup)
      PROVE  LockInv'
  <2>1. a \in Actor /\ Flush(a, h, dup)
    BY ONLY <1>35, Constants DEF FlushStart
  <2>2. /\ \A b \in Actor \ {a} : pc'[b] = pc[b] /\ call'[b] = call[b]
        /\ \A b \in Actor : Holds(b) => Holds(b)'
        /\ \/ a \in Handle /\ pc'[a] = "drain_release" /\ call'[a] = call[a]
           \/ pc'[a] = "install" /\ call'[a].op = "flush" /\ call'[a].h = h /\ call'[a].after = "demote"
           \/ pc'[a] = "commit_lock" /\ call'[a].op = "flush" /\ call'[a].h = h /\ call'[a].after = "start"
    BY ONLY TypeOK, <1>35, <2>1, FlushGoes
  <2>3. ~Critical(a)'
    BY ONLY <2>2 DEF Critical, Hooking, LockSteps, HookPhases, CommitPhases
  <2>4. \A b \in Actor \ {a} : Critical(b)' => Critical(b)
    BY ONLY <2>2 DEF Critical, Hooking
  <2> QED
    BY ONLY LockInv, <2>1, <2>2, <2>3, <2>4 DEF LockInv
<1>36. ASSUME NEW a \in Client, NEW h \in Handle, ReleaseStart(a, h)
      PROVE  LockInv'
  <2>1. a \in Actor /\ Release(a, h)
    BY ONLY <1>36, Constants DEF ReleaseStart
  <2>2. /\ \A b \in Actor \ {a} : pc'[b] = pc[b] /\ call'[b] = call[b]
        /\ \A b \in Actor : Holds(b) => Holds(b)'
        /\ pc'[a] \in {"release_drop", "install"} /\ call'[a].after = "release_check"
    BY ONLY TypeOK, <1>36, <2>1, ReleaseGoes
  <2>3. ~Critical(a)'
    BY ONLY <2>2 DEF Critical, Hooking, LockSteps, HookPhases, CommitPhases
  <2> QED
    BY ONLY LockInv, <2>1, <2>2, <2>3 DEF LockInv, Critical, Hooking
<1>37. ASSUME NEW h \in Handle, Write(h)
      PROVE  LockInv'
  BY <1>37, Constants, Domains
    DEF Write, LockInv, Critical, Hooking, LockSteps, HookPhases, CommitPhases, Holds, PC
<1>38. ASSUME NEW h \in Handle, WorkerFails(h)
      PROVE  LockInv'
  BY SMTT(30), <1>38, Constants, Domains
    DEF WorkerFails, LockInv, Critical, Hooking, LockSteps, HookPhases, CommitPhases, Holds, PC
<1>39. ASSUME NEW h \in Handle, DrainFlush(h)
      PROVE  LockInv'
  <2>1. h \in Actor /\ FALSE \in BOOLEAN /\ Flush(h, h, FALSE)
    BY ONLY <1>39, Constants DEF DrainFlush
  <2>2. /\ \A b \in Actor \ {h} : pc'[b] = pc[b] /\ call'[b] = call[b]
        /\ \A b \in Actor : Holds(b) => Holds(b)'
        /\ \/ h \in Handle /\ pc'[h] = "drain_release" /\ call'[h] = call[h]
           \/ pc'[h] = "install" /\ call'[h].op = "flush" /\ call'[h].h = h /\ call'[h].after = "demote"
           \/ pc'[h] = "commit_lock" /\ call'[h].op = "flush" /\ call'[h].h = h /\ call'[h].after = "start"
    BY ONLY TypeOK, <1>39, <2>1, FlushGoes
  <2>3. ~Critical(h)'
    BY ONLY <2>2 DEF Critical, Hooking, LockSteps, HookPhases, CommitPhases
  <2>4. \A b \in Actor \ {h} : Critical(b)' => Critical(b)
    BY ONLY <2>2 DEF Critical, Hooking
  <2> QED
    BY ONLY LockInv, <2>1, <2>2, <2>3, <2>4 DEF LockInv
<1>40. ASSUME NEW h \in Handle, DrainRelease(h)
      PROVE  LockInv'
  <2>1. h \in Actor /\ Release(h, h)
    BY ONLY <1>40, Constants DEF DrainRelease
  <2>2. /\ \A b \in Actor \ {h} : pc'[b] = pc[b] /\ call'[b] = call[b]
        /\ \A b \in Actor : Holds(b) => Holds(b)'
        /\ pc'[h] \in {"release_drop", "install"} /\ call'[h].after = "release_check"
    BY ONLY TypeOK, <1>40, <2>1, ReleaseGoes
  <2>3. ~Critical(h)'
    BY ONLY <2>2 DEF Critical, Hooking, LockSteps, HookPhases, CommitPhases
  <2> QED
    BY ONLY LockInv, <2>1, <2>2, <2>3 DEF LockInv, Critical, Hooking
<1>41. ASSUME NEW h \in Handle, DrainReleased(h)
      PROVE  LockInv'
  BY <1>41, Constants, Domains, ReturnTypes
    DEF DrainReleased, LockInv, Critical, Hooking, LockSteps, HookPhases, CommitPhases, Holds,
        PC
<1>42. ASSUME DrainStart
      PROVE  LockInv'
  BY <1>42, Constants, Domains
    DEF DrainStart, LockInv, Critical, Hooking, LockSteps, HookPhases, CommitPhases, Holds, PC
<1>43. ASSUME DrainJoined
      PROVE  LockInv'
  BY <1>43, Constants, Domains, GotoTypes, AwaitedHook
    DEF DrainJoined, LockInv, Critical, Hooking, LockSteps, HookPhases, CommitPhases, Holds, PC
<1>44. ASSUME DrainAwaited
      PROVE  LockInv'
  BY <1>44, Constants, Domains, KeepTypes
    DEF DrainAwaited, LockInv, Critical, Hooking, LockSteps, HookPhases, CommitPhases, Holds, PC
<1> QED
  BY <1>1, <1>2, <1>3, <1>4, <1>5, <1>6, <1>7, <1>8, <1>9, <1>10, <1>11, <1>12, <1>13, <1>14,
     <1>15, <1>16, <1>17, <1>18, <1>19, <1>20, <1>21, <1>22, <1>23, <1>24, <1>25, <1>26, <1>27,
     <1>28, <1>29, <1>30, <1>31, <1>32, <1>33, <1>34, <1>35, <1>36, <1>37, <1>38, <1>39, <1>40,
     <1>41, <1>42, <1>43, <1>44
    DEF Next, FutureStep, CommitStep, NameStep, CallStart, DrainStep

\* A step of one call leaves the others as they are.
LEMMA OneCall ==
    ASSUME CallInv, NEW a \in Actor, CallShape(a)',
           \A b \in Actor \ {a} : pc'[b] = pc[b] /\ call'[b] = call[b]
    PROVE  CallInv'
BY DEF CallInv, CallShape, Hooking

\* A call that has returned.
LEMMA ReturnShape ==
    ASSUME TypeOK, CallInv, NEW a \in Actor, Return(a)
    PROVE  CallInv'
<1>1. /\ pc'[a] \in {"idle", "drain_release"} /\ call'[a] = NoCall
      /\ \A b \in Actor \ {a} : pc'[b] = pc[b] /\ call'[b] = call[b]
  BY ReturnTypes
<1>2. NoCall.op = "none" /\ NoCall.h = None
  BY DEF NoCall
<1>3. CallShape(a)'
  BY <1>1, <1>2 DEF CallShape, Hooking, HookPhases, CommitPhases
<1> QED
  BY <1>1, <1>3, OneCall

\* What a call at each step is.
LEMMA CallStepShape ==
    ASSUME TypeOK, CallInv, PhaseInv, DrainShape, Next
    PROVE  CallInv'
<1>1. ASSUME NEW a \in Handle \cup Client, InstallHook(a)
      PROVE  CallInv'
  BY <1>1, Constants, Domains, KeepTypes
    DEF InstallHook, CallInv, CallShape, Hooking, HookPhases, CommitPhases, PC
<1>2. ASSUME NEW a \in Handle \cup Client, HookOnTheSpot(a)
      PROVE  CallInv'
  <2>1. a \in Actor /\ CallShape(a) /\ call[a].after \in PC /\ "fulfil" \in PC
    BY Constants, CallTypes DEF PC, HookPhases, CallInv
  <2>2. pc[a] = "spot" /\ UNCHANGED call /\ pc'[a] = (IF Terminal(call[a].h) THEN "fulfil" ELSE call[a].after)
        /\ \A b \in Actor \ {a} : pc'[b] = pc[b]
    BY <1>2, <2>1, KeepTypes DEF HookOnTheSpot
  <2>3. Hooking(a, {"start"}) => ~Terminal(call[a].h)
    BY <2>1 DEF PhaseInv, PhaseShape, Writer, Unfinished, Terminal
  <2>4. CallShape(a)'
    BY <2>1, <2>2, <2>3 DEF CallShape, Hooking, HookPhases, CommitPhases
  <2> QED
    BY <2>1, <2>2, <2>4, OneCall
<1>3. ASSUME NEW a \in Handle \cup Client, FulfilHook(a)
      PROVE  CallInv'
  <2>1. a \in Actor /\ pc[a] = "fulfil" /\ CallShape(a)
    BY <1>3, Constants DEF FulfilHook, CallInv
  <2>2. call[a].after \in {"demote", "release_check", "commit_unlock", "release_unlock", "open_install"}
    BY <2>1 DEF CallShape, Hooking, HookPhases
  <2>3. pc'[a] \in {"unhook", call[a].after} /\ \A b \in Actor \ {a} : pc'[b] = pc[b]
    BY <1>3, <2>1, <2>2, GotoTypes, KeepTypes DEF FulfilHook, PC, HookPhases, CommitPhases
  <2>4. \A b \in Actor : call'[b] \in {call[b], [call[b] EXCEPT !.watch = None]}
    BY <1>3, Domains DEF FulfilHook, Keep
  <2>5. \A b \in Actor : call'[b].after = call[b].after /\ call'[b].op = call[b].op /\ call'[b].h = call[b].h
    BY <2>4, Domains DEF Call
  <2>6. \A b \in Actor : call[b] = NoCall => call'[b] = NoCall
    BY <2>4 DEF NoCall
  <2>7. CallShape(a)'
    BY <2>1, <2>2, <2>3, <2>5, <2>6 DEF CallShape, Hooking, HookPhases, CommitPhases
  <2>8. \A b \in Actor \ {a} : CallShape(b)'
    BY <2>3, <2>5, <2>6 DEF CallInv, CallShape, Hooking
  <2> QED
    BY <2>7, <2>8 DEF CallInv
<1>4. ASSUME NEW a \in Handle \cup Client, RemoveHook(a)
      PROVE  CallInv'
  BY <1>4, Constants, Domains, KeepTypes
    DEF RemoveHook, CallInv, CallShape, Hooking, HookPhases, CommitPhases, PC
<1>5. ASSUME NEW a \in Handle \cup Client, Demote(a)
      PROVE  CallInv'
  BY <1>5, Constants, ReturnShape DEF Demote
<1>6. ASSUME NEW a \in Handle \cup Client, CommitLocked(a)
      PROVE  CallInv'
  <2>1. CASE Return(a)
    BY <2>1, Constants, ReturnShape
  <2>2. CASE ~Return(a)
    <3>1. a \in Actor /\ "install" \in PC
      BY Constants DEF PC, HookPhases, CommitPhases
    <3>2. pc[a] = "commit_lock" /\ pc'[a] = "install" /\ call' = call /\ \A b \in Actor \ {a} : pc'[b] = pc[b]
      BY <1>6, <2>2, <3>1, KeepTypes, GotoTypes DEF CommitLocked
    <3>3. CallShape(a)
      BY <3>1 DEF CallInv
    <3>4. CallShape(a)'
      BY <3>1, <3>2, <3>3 DEF CallShape, Hooking, HookPhases, CommitPhases
    <3> QED
      BY <3>1, <3>2, <3>4, OneCall
  <2> QED
    BY <2>1, <2>2
<1>7. ASSUME NEW a \in Handle \cup Client, CommitUnlock(a)
      PROVE  CallInv'
  BY <1>7, Constants, ReturnShape DEF CommitUnlock
<1>8. ASSUME NEW a \in Handle \cup Client, CommitStart(a)
      PROVE  CallInv'
  <2>1. a \in Actor /\ CallShape(a)
    BY Constants DEF CallInv
  <2>2. pc[a] = "start" /\ pc'[a] \in {"succeeded", "finish", "hub"} /\ \A b \in Actor \ {a} : pc'[b] = pc[b]
    BY <1>8, <2>1, Domains DEF CommitStart, Keep, Goto
  <2>3. call'[a].after = call[a].after /\ call'[a].op = call[a].op /\ call'[a].h = call[a].h
        /\ \A b \in Actor \ {a} : call'[b] = call[b]
    BY <1>8, <2>1, Domains DEF CommitStart, Keep, Call
  <2>4. CallShape(a)'
    BY <2>1, <2>2, <2>3 DEF CallShape, Hooking, HookPhases, CommitPhases
  <2> QED
    BY <2>1, <2>2, <2>3, <2>4, OneCall
<1>9. ASSUME NEW a \in Handle \cup Client, CommitFinish(a)
      PROVE  CallInv'
  <2>1. a \in Actor /\ CallShape(a)
    BY Constants DEF CallInv
  <2>2. pc[a] = "finish" /\ pc'[a] \in {"hub", "failed"} /\ \A b \in Actor \ {a} : pc'[b] = pc[b]
    BY <1>9, <2>1, Domains DEF CommitFinish, Keep, Goto
  <2>3. call'[a].after = call[a].after /\ call'[a].op = call[a].op /\ call'[a].h = call[a].h
        /\ \A b \in Actor \ {a} : call'[b] = call[b]
    BY <1>9, <2>1, Domains DEF CommitFinish, Keep, Call
  <2>4. CallShape(a)'
    BY <2>1, <2>2, <2>3 DEF CallShape, Hooking, HookPhases, CommitPhases
  <2> QED
    BY <2>1, <2>2, <2>3, <2>4, OneCall
<1>10. ASSUME NEW a \in Handle \cup Client, CommitHub(a)
      PROVE  CallInv'
  BY <1>10, Constants, Domains, KeepTypes
    DEF CommitHub, CallInv, CallShape, Hooking, HookPhases, CommitPhases, PC
<1>11. ASSUME NEW a \in Handle \cup Client, CommitHubFails(a)
      PROVE  CallInv'
  BY <1>11, Constants, Domains, KeepTypes
    DEF CommitHubFails, CallInv, CallShape, Hooking, HookPhases, CommitPhases, PC
<1>12. ASSUME NEW a \in Handle \cup Client, CommitApply(a)
      PROVE  CallInv'
  BY <1>12, Constants, Domains, KeepTypes
    DEF CommitApply, CallInv, CallShape, Hooking, HookPhases, CommitPhases, PC
<1>13. ASSUME NEW a \in Handle \cup Client, CommitSucceeded(a)
      PROVE  CallInv'
  BY <1>13, Constants, Domains, GotoTypes
    DEF CommitSucceeded, CallInv, CallShape, Hooking, HookPhases, CommitPhases, PC
<1>14. ASSUME NEW a \in Handle \cup Client, CommitFailed(a)
      PROVE  CallInv'
  BY <1>14, Constants, ReturnShape DEF CommitFailed
<1>15. ASSUME NEW a \in Handle \cup Client, ReleaseRetry(a)
      PROVE  CallInv'
  BY <1>15, Constants, Domains, GotoTypes
    DEF ReleaseRetry, CallInv, CallShape, Hooking, HookPhases, CommitPhases, PC
<1>16. ASSUME NEW a \in Handle \cup Client, ReleaseFailed(a)
      PROVE  CallInv'
  BY <1>16, Constants, Domains, GotoTypes
    DEF ReleaseFailed, CallInv, CallShape, Hooking, HookPhases, CommitPhases, PC
<1>17. ASSUME NEW a \in Handle \cup Client, ReleaseCheck(a)
      PROVE  CallInv'
  BY <1>17, Constants, Domains, KeepTypes, QueueTypes
    DEF ReleaseCheck, CallInv, CallShape, Hooking, HookPhases, CommitPhases, PC
<1>18. ASSUME NEW a \in Handle \cup Client, ReleaseLocked(a)
      PROVE  CallInv'
  BY <1>18, Constants, Domains, KeepTypes
    DEF ReleaseLocked, CallInv, CallShape, Hooking, HookPhases, CommitPhases, PC
<1>19. ASSUME NEW a \in Handle \cup Client, ReleaseUnlock(a)
      PROVE  CallInv'
  BY <1>19, Constants, Domains, KeepTypes, UnlockTypes, HasLock
    DEF ReleaseUnlock, CallInv, CallShape, Hooking, HookPhases, CommitPhases, PC
<1>20. ASSUME NEW a \in Handle \cup Client, ReleaseDrop(a)
      PROVE  CallInv'
  BY <1>20, Constants, ReturnShape DEF ReleaseDrop
<1>21. ASSUME NEW a \in Client, OpenAwaited(a)
      PROVE  CallInv'
  BY <1>21, Constants, Domains, KeepTypes, QueueTypes
    DEF OpenAwaited, CallInv, CallShape, Hooking, HookPhases, CommitPhases, PC
<1>22. ASSUME NEW a \in Client, OpenLocked(a)
      PROVE  CallInv'
  <2>1. a \in Actor /\ CallShape(a) /\ "open_setup" \in PC
    BY Constants DEF CallInv, PC
  <2>2. CASE Return(a)
    BY <2>1, <2>2, ReturnShape
  <2>3. CASE ~Return(a)
    <3>1. pc[a] = "open_lock" /\ pc'[a] = "open_setup" /\ \A b \in Actor \ {a} : pc'[b] = pc[b]
      BY <1>22, <2>1, <2>3, GotoTypes DEF OpenLocked
    <3>2. call'[a].after = call[a].after /\ call'[a].op = call[a].op
          /\ \A b \in Actor \ {a} : call'[b] = call[b]
      BY <1>22, <2>1, <2>3, Domains DEF OpenLocked, Call
    <3>3. CallShape(a)'
      BY <2>1, <3>1, <3>2, Constants DEF CallShape, Hooking, HookPhases, CommitPhases
    <3> QED
      BY <2>1, <3>1, <3>2, <3>3, OneCall
  <2> QED
    BY <2>2, <2>3
<1>23. ASSUME NEW a \in Client, OpenSetup(a)
      PROVE  CallInv'
  BY <1>23, Constants, Domains, GotoTypes, NextHandleUnused
    DEF OpenSetup, CallInv, CallShape, Hooking, HookPhases, CommitPhases, PC
<1>24. ASSUME NEW a \in Client, OpenSetupFails(a)
      PROVE  CallInv'
  BY <1>24, Constants, ReturnShape DEF OpenSetupFails
<1>25. ASSUME NEW a \in Client, OpenSupersede(a)
      PROVE  CallInv'
  BY <1>25, Constants, Domains, KeepTypes
    DEF OpenSupersede, CallInv, CallShape, Hooking, HookPhases, CommitPhases, PC
<1>26. ASSUME NEW a \in Client, OpenInstall(a)
      PROVE  CallInv'
  BY <1>26, Constants, ReturnShape DEF OpenInstall
<1>27. ASSUME NEW a \in Client, UnlinkLocked(a)
      PROVE  CallInv'
  <2>1. CASE Return(a)
    BY <2>1, Constants, ReturnShape
  <2>2. CASE ~Return(a)
    <3>1. a \in Actor /\ "unlink_remote" \in PC /\ "unlink_local" \in PC
      BY Constants DEF PC, HookPhases, CommitPhases
    <3>2. pc[a] = "unlink_lock" /\ pc'[a] \in {"unlink_remote", "unlink_local"} /\ call' = call
          /\ \A b \in Actor \ {a} : pc'[b] = pc[b]
      BY <1>27, <2>2, <3>1, KeepTypes, GotoTypes DEF UnlinkLocked
    <3>3. CallShape(a)
      BY <3>1 DEF CallInv
    <3>4. CallShape(a)'
      BY <3>1, <3>2, <3>3 DEF CallShape, Hooking, HookPhases, CommitPhases
    <3> QED
      BY <3>1, <3>2, <3>4, OneCall
  <2> QED
    BY <2>1, <2>2
<1>28. ASSUME NEW a \in Client, UnlinkRemote(a)
      PROVE  CallInv'
  BY <1>28, Constants, Domains, KeepTypes
    DEF UnlinkRemote, CallInv, CallShape, Hooking, HookPhases, CommitPhases, PC
<1>29. ASSUME NEW a \in Client, UnlinkRemoteFails(a)
      PROVE  CallInv'
  BY <1>29, Constants, ReturnShape DEF UnlinkRemoteFails
<1>30. ASSUME NEW a \in Client, UnlinkLocal(a)
      PROVE  CallInv'
  BY <1>30, Constants, ReturnShape DEF UnlinkLocal
<1>31. ASSUME NEW a \in Client, Create(a)
      PROVE  CallInv'
  BY <1>31, Constants, Domains, NextHandleUnused
    DEF Create, CallInv, CallShape, Hooking, HookPhases, CommitPhases, PC
<1>32. ASSUME NEW a \in Client, OpenStart(a)
      PROVE  CallInv'
  BY <1>32, Constants, Domains, GotoTypes, QueueTypes, AwaitedHook
    DEF OpenStart, CallInv, CallShape, Hooking, HookPhases, CommitPhases, PC
<1>33. ASSUME NEW a \in Client, UnlinkStart(a)
      PROVE  CallInv'
  <2>1. a \in Actor /\ a \notin Handle /\ "unlink_lock" \in PC /\ "idle" \in PC
    BY Constants DEF PC
  <2>2. /\ pc'[a] = "unlink_lock" /\ call'[a].op = "unlink" /\ call'[a].h = None
        /\ \A b \in Actor \ {a} : pc'[b] = pc[b] /\ call'[b] = call[b]
    BY <1>33, <2>1, GotoTypes, EnterTypes DEF UnlinkStart
  <2>3. CallShape(a)'
    BY <2>1, <2>2 DEF CallShape, Hooking, HookPhases, CommitPhases
  <2> QED
    BY <2>1, <2>2, <2>3, OneCall
<1>34. ASSUME NEW a \in Client, LinkStart(a)
      PROVE  CallInv'
  <2>1. a \in Actor /\ a \notin Handle /\ "commit_lock" \in PC /\ "start" \in PC /\ Active \in Handle
    BY SMTT(30), <1>34, Constants, ActiveWriter DEF PC, LinkStart, CommitPhases
  <2>2. /\ pc'[a] = "commit_lock" /\ call'[a].op = "link" /\ call'[a].h = Active /\ call'[a].after = "start"
        /\ \A b \in Actor \ {a} : pc'[b] = pc[b] /\ call'[b] = call[b]
    BY SMTT(30), <1>34, <2>1, GotoTypes, EnterTypes DEF LinkStart
  <2>3. CallShape(a)'
    BY SMTT(30), <2>1, <2>2, Constants DEF CallShape, Hooking, HookPhases, CommitPhases
  <2> QED
    BY <2>1, <2>2, <2>3, OneCall
<1>35. ASSUME NEW a \in Client, NEW h \in Handle, NEW dup \in BOOLEAN, FlushStart(a, h, dup)
      PROVE  CallInv'
  <2>1. a \in Actor /\ Flush(a, h, dup) /\ pc[a] = "idle" /\ h \in Handle
    BY ONLY <1>35, Constants DEF FlushStart
  <2>2. /\ \A b \in Actor \ {a} : pc'[b] = pc[b] /\ call'[b] = call[b]
        /\ \/ a \in Handle /\ pc'[a] = "drain_release" /\ call'[a] = call[a]
           \/ pc'[a] = "install" /\ call'[a].op = "flush" /\ call'[a].h = h /\ call'[a].after = "demote"
           \/ pc'[a] = "commit_lock" /\ call'[a].op = "flush" /\ call'[a].h = h /\ call'[a].after = "start"
    BY ONLY TypeOK, <1>35, <2>1, FlushGoes
  <2>3. CallShape(a)'
    BY ONLY CallInv, <2>1, <2>2, Constants DEF CallInv, CallShape, Hooking, HookPhases, CommitPhases
  <2> QED
    BY ONLY CallInv, <2>1, <2>2, <2>3, OneCall
<1>36. ASSUME NEW a \in Client, NEW h \in Handle, ReleaseStart(a, h)
      PROVE  CallInv'
  <2>1. a \in Actor /\ Release(a, h) /\ pc[a] = "idle" /\ h \in Handle
    BY ONLY <1>36, Constants DEF ReleaseStart
  <2>2. /\ \A b \in Actor \ {a} : pc'[b] = pc[b] /\ call'[b] = call[b]
        /\ pc'[a] \in {"release_drop", "install"}
        /\ call'[a].op = "release" /\ call'[a].h = h /\ call'[a].after = "release_check"
    BY ONLY TypeOK, <1>36, <2>1, ReleaseGoes
  <2>3. CallShape(a)'
    BY ONLY CallInv, <2>1, <2>2, Constants DEF CallInv, CallShape, Hooking, HookPhases, CommitPhases
  <2> QED
    BY ONLY CallInv, <2>1, <2>2, <2>3, OneCall
<1>37. ASSUME NEW h \in Handle, Write(h)
      PROVE  CallInv'
  BY <1>37, Constants, Domains
    DEF Write, CallInv, CallShape, Hooking, HookPhases, CommitPhases, PC
<1>38. ASSUME NEW h \in Handle, WorkerFails(h)
      PROVE  CallInv'
  BY SMTT(30), <1>38, Constants, Domains
    DEF WorkerFails, CallInv, CallShape, Hooking, HookPhases, CommitPhases, PC
<1>39. ASSUME NEW h \in Handle, DrainFlush(h)
      PROVE  CallInv'
  <2>1. h \in Actor /\ FALSE \in BOOLEAN /\ Flush(h, h, FALSE) /\ pc[h] = "drain_flush" /\ h \in Handle
    BY ONLY <1>39, Constants DEF DrainFlush
  <2>2. /\ \A b \in Actor \ {h} : pc'[b] = pc[b] /\ call'[b] = call[b]
        /\ \/ h \in Handle /\ pc'[h] = "drain_release" /\ call'[h] = call[h]
           \/ pc'[h] = "install" /\ call'[h].op = "flush" /\ call'[h].h = h /\ call'[h].after = "demote"
           \/ pc'[h] = "commit_lock" /\ call'[h].op = "flush" /\ call'[h].h = h /\ call'[h].after = "start"
    BY ONLY TypeOK, <1>39, <2>1, FlushGoes
  <2>3. CallShape(h)'
    BY ONLY CallInv, <2>1, <2>2, Constants DEF CallInv, CallShape, Hooking, HookPhases, CommitPhases
  <2> QED
    BY ONLY CallInv, <2>1, <2>2, <2>3, OneCall
<1>40. ASSUME NEW h \in Handle, DrainRelease(h)
      PROVE  CallInv'
  <2>1. h \in Actor /\ Release(h, h) /\ pc[h] = "drain_release" /\ h \in Handle
    BY ONLY <1>40, Constants DEF DrainRelease
  <2>2. /\ \A b \in Actor \ {h} : pc'[b] = pc[b] /\ call'[b] = call[b]
        /\ pc'[h] \in {"release_drop", "install"}
        /\ call'[h].op = "release" /\ call'[h].h = h /\ call'[h].after = "release_check"
    BY ONLY TypeOK, <1>40, <2>1, ReleaseGoes
  <2>3. CallShape(h)'
    BY ONLY CallInv, <2>1, <2>2, Constants DEF CallInv, CallShape, Hooking, HookPhases, CommitPhases
  <2> QED
    BY ONLY CallInv, <2>1, <2>2, <2>3, OneCall
<1>41. ASSUME NEW h \in Handle, DrainReleased(h)
      PROVE  CallInv'
  BY <1>41, Constants, Domains, ReturnTypes
    DEF DrainReleased, CallInv, CallShape, Hooking, HookPhases, CommitPhases, PC
<1>42. ASSUME DrainStart
      PROVE  CallInv'
  <2>1. /\ \A b \in Actor : pc'[b] = pc[b] \/ (b \in Handle /\ pc[b] = "idle" /\ pc'[b] = "drain_flush")
                            \/ (b = Drain /\ pc'[b] = "drain_join")
        /\ UNCHANGED call
    BY <1>42, Domains, Constants DEF DrainStart, DrainShape
  <2>2. call[Drain].h = None /\ call[Drain].op = "none" /\ Drain \notin Handle
    BY Constants DEF DrainShape
  <2> QED
    BY <2>1, <2>2, Constants DEF CallInv, CallShape, Hooking, HookPhases, CommitPhases
<1>43. ASSUME DrainJoined
      PROVE  CallInv'
  BY <1>43, Constants, Domains, GotoTypes, AwaitedHook
    DEF DrainJoined, CallInv, CallShape, Hooking, HookPhases, CommitPhases, PC
<1>44. ASSUME DrainAwaited
      PROVE  CallInv'
  BY <1>44, Constants, Domains, KeepTypes
    DEF DrainAwaited, CallInv, CallShape, Hooking, HookPhases, CommitPhases, PC
<1> QED
  BY <1>1, <1>2, <1>3, <1>4, <1>5, <1>6, <1>7, <1>8, <1>9, <1>10, <1>11, <1>12, <1>13, <1>14,
     <1>15, <1>16, <1>17, <1>18, <1>19, <1>20, <1>21, <1>22, <1>23, <1>24, <1>25, <1>26, <1>27,
     <1>28, <1>29, <1>30, <1>31, <1>32, <1>33, <1>34, <1>35, <1>36, <1>37, <1>38, <1>39, <1>40,
     <1>41, <1>42, <1>43, <1>44
    DEF Next, FutureStep, CommitStep, NameStep, CallStart, DrainStep

------------------------------------------------------------------------------
(* What each step does to the channel it is about. *)

\* What each step does to a channel.
LEMMA InstallHookChannel ==
    ASSUME TypeOK, CallInv, NEW a \in Handle \cup Client, InstallHook(a)
    PROVE  /\ call[a].h \in Handle
           /\ \A g \in Handle \ {call[a].h} : ch'[g] = ch[g]
           /\ ch'[call[a].h].hook = "set"
           /\ ch'[call[a].h].state = ch[call[a].h].state
           /\ ch'[call[a].h].generation = ch[call[a].h].generation
           /\ ch'[call[a].h].snapshot = ch[call[a].h].snapshot
           /\ ch'[call[a].h].sent = ch[call[a].h].sent
           /\ ch'[call[a].h].pending_info = ch[call[a].h].pending_info
           /\ ch'[call[a].h].stored = ch[call[a].h].stored
           /\ ch[call[a].h].hook # "busy"
<1>1. call[a].h \in Handle
  BY Constants, AtWork DEF InstallHook, HookPhases
<1> QED
  BY <1>1, Domains DEF InstallHook, StreamingChannel

\* The hook is gone.
LEMMA RemoveHookChannel ==
    ASSUME TypeOK, CallInv, NEW a \in Handle \cup Client, RemoveHook(a)
    PROVE  /\ call[a].h \in Handle
           /\ \A g \in Handle \ {call[a].h} : ch'[g] = ch[g]
           /\ ch'[call[a].h].hook = "none"
           /\ ch'[call[a].h].state = ch[call[a].h].state
           /\ ch'[call[a].h].generation = ch[call[a].h].generation
           /\ ch'[call[a].h].snapshot = ch[call[a].h].snapshot
           /\ ch'[call[a].h].sent = ch[call[a].h].sent
           /\ ch'[call[a].h].pending_info = ch[call[a].h].pending_info
           /\ ch'[call[a].h].stored = ch[call[a].h].stored
<1>1. call[a].h \in Handle
  BY Constants, AtWork DEF RemoveHook, HookPhases
<1> QED
  BY <1>1, Domains DEF RemoveHook, StreamingChannel

\* Only a channel that is being written is deferred.
LEMMA DemoteChannel ==
    ASSUME TypeOK, CallInv, NEW a \in Handle \cup Client, Demote(a)
    PROVE  /\ call[a].h \in Handle
           /\ \A g \in Handle \ {call[a].h} : ch'[g] = ch[g]
           /\ ch'[call[a].h].state = IF ch[call[a].h].state = "Writing" THEN "Deferred" ELSE ch[call[a].h].state
           /\ ch'[call[a].h].generation = ch[call[a].h].generation
           /\ ch'[call[a].h].snapshot = ch[call[a].h].snapshot
           /\ ch'[call[a].h].sent = ch[call[a].h].sent
           /\ ch'[call[a].h].pending_info = ch[call[a].h].pending_info
           /\ ch'[call[a].h].hook = ch[call[a].h].hook
           /\ ch'[call[a].h].stored = ch[call[a].h].stored
<1>1. call[a].h \in Handle
  BY Constants, AtWork DEF Demote
<1> QED
  BY <1>1, Domains DEF Demote, StreamingChannel

\* The worker ends; nobody looks at it any more.
LEMMA CommitFinishChannel ==
    ASSUME TypeOK, CallInv, NEW a \in Handle \cup Client, CommitFinish(a)
    PROVE  /\ call[a].h \in Handle
           /\ \A g \in Handle \ {call[a].h} : ch'[g] = ch[g]
           /\ ch'[call[a].h].state = ch[call[a].h].state
           /\ ch'[call[a].h].generation = ch[call[a].h].generation
           /\ ch'[call[a].h].snapshot = ch[call[a].h].snapshot
           /\ ch'[call[a].h].sent = ch[call[a].h].sent
           /\ ch'[call[a].h].pending_info = ch[call[a].h].pending_info
           /\ ch'[call[a].h].hook = ch[call[a].h].hook
           /\ ch'[call[a].h].stored = ch[call[a].h].stored
<1>1. call[a].h \in Handle
  BY Constants, AtWork DEF CommitFinish, CommitPhases
<1> QED
  BY <1>1, Domains DEF CommitFinish, StreamingChannel

\* The Hub has the upload.
LEMMA CommitHubChannel ==
    ASSUME TypeOK, CallInv, NEW a \in Handle \cup Client, CommitHub(a)
    PROVE  /\ call[a].h \in Handle
           /\ \A g \in Handle \ {call[a].h} : ch'[g] = ch[g]
           /\ ch'[call[a].h].stored = call[a].info
           /\ ch'[call[a].h].state = ch[call[a].h].state
           /\ ch'[call[a].h].generation = ch[call[a].h].generation
           /\ ch'[call[a].h].snapshot = ch[call[a].h].snapshot
           /\ ch'[call[a].h].sent = ch[call[a].h].sent
           /\ ch'[call[a].h].pending_info = ch[call[a].h].pending_info
           /\ ch'[call[a].h].hook = ch[call[a].h].hook
<1>1. call[a].h \in Handle
  BY Constants, AtWork DEF CommitHub, CommitPhases
<1> QED
  BY <1>1, Domains DEF CommitHub, StreamingChannel

\* The upload is kept.
LEMMA CommitHubFailsChannel ==
    ASSUME TypeOK, CallInv, NEW a \in Handle \cup Client, CommitHubFails(a)
    PROVE  /\ call[a].h \in Handle
           /\ \A g \in Handle \ {call[a].h} : ch'[g] = ch[g]
           /\ ch'[call[a].h].pending_info = call[a].info
           /\ ch'[call[a].h].state = ch[call[a].h].state
           /\ ch'[call[a].h].generation = ch[call[a].h].generation
           /\ ch'[call[a].h].snapshot = ch[call[a].h].snapshot
           /\ ch'[call[a].h].sent = ch[call[a].h].sent
           /\ ch'[call[a].h].hook = ch[call[a].h].hook
           /\ ch'[call[a].h].stored = ch[call[a].h].stored
<1>1. call[a].h \in Handle
  BY Constants, AtWork DEF CommitHubFails, CommitPhases
<1> QED
  BY <1>1, Domains DEF CommitHubFails, StreamingChannel

\* The commit is applied.
LEMMA CommitApplyChannel ==
    ASSUME TypeOK, CallInv, NEW a \in Handle \cup Client, CommitApply(a)
    PROVE  /\ call[a].h \in Handle
           /\ \A g \in Handle \ {call[a].h} : ch'[g] = ch[g]
           /\ ch'[call[a].h].state = "Committed"
           /\ ch'[call[a].h].generation = ch[call[a].h].generation
           /\ ch'[call[a].h].snapshot = ch[call[a].h].snapshot
           /\ ch'[call[a].h].sent = ch[call[a].h].sent
           /\ ch'[call[a].h].pending_info = ch[call[a].h].pending_info
           /\ ch'[call[a].h].hook = ch[call[a].h].hook
           /\ ch'[call[a].h].stored = ch[call[a].h].stored
<1>1. call[a].h \in Handle
  BY Constants, AtWork DEF CommitApply, CommitPhases
<1> QED
  BY <1>1, Domains DEF CommitApply, StreamingChannel

\* Committed, or skipped.
LEMMA CommitSucceededChannel ==
    ASSUME TypeOK, CallInv, NEW a \in Handle \cup Client, CommitSucceeded(a)
    PROVE  /\ call[a].h \in Handle
           /\ \A g \in Handle \ {call[a].h} : ch'[g] = ch[g]
           /\ ch'[call[a].h].state = "Committed"
           /\ ch'[call[a].h].generation = ch[call[a].h].generation
           /\ ch'[call[a].h].snapshot = ch[call[a].h].snapshot
           /\ ch'[call[a].h].sent = ch[call[a].h].sent
           /\ ch'[call[a].h].pending_info = ch[call[a].h].pending_info
           /\ ch'[call[a].h].hook = ch[call[a].h].hook
           /\ ch'[call[a].h].stored = ch[call[a].h].stored
<1>1. call[a].h \in Handle
  BY Constants, AtWork DEF CommitSucceeded, CommitPhases
<1> QED
  BY <1>1, Domains DEF CommitSucceeded, StreamingChannel

\* The last attempt has failed.
LEMMA ReleaseFailedChannel ==
    ASSUME TypeOK, CallInv, NEW a \in Handle \cup Client, ReleaseFailed(a)
    PROVE  /\ call[a].h \in Handle
           /\ \A g \in Handle \ {call[a].h} : ch'[g] = ch[g]
           /\ ch'[call[a].h].state = "Failed"
           /\ ch'[call[a].h].generation = ch[call[a].h].generation
           /\ ch'[call[a].h].snapshot = ch[call[a].h].snapshot
           /\ ch'[call[a].h].sent = ch[call[a].h].sent
           /\ ch'[call[a].h].pending_info = ch[call[a].h].pending_info
           /\ ch'[call[a].h].hook = ch[call[a].h].hook
           /\ ch'[call[a].h].stored = ch[call[a].h].stored
<1>1. call[a].h \in Handle
  BY Constants, AtWork DEF ReleaseFailed, CommitPhases
<1> QED
  BY <1>1, Domains DEF ReleaseFailed, StreamingChannel

\* The writer before is superseded.
LEMMA OpenSupersedeChannel ==
    ASSUME TypeOK, CallInv, NEW a \in Client, OpenSupersede(a)
    PROVE  /\ call[a].h \in Handle
           /\ \A g \in Handle \ {call[a].h} : ch'[g] = ch[g]
           /\ ch'[call[a].h].state = "Failed"
           /\ ch'[call[a].h].generation = ch[call[a].h].generation
           /\ ch'[call[a].h].snapshot = ch[call[a].h].snapshot
           /\ ch'[call[a].h].sent = ch[call[a].h].sent
           /\ ch'[call[a].h].pending_info = ch[call[a].h].pending_info
           /\ ch'[call[a].h].hook = ch[call[a].h].hook
           /\ ch'[call[a].h].stored = ch[call[a].h].stored
<1>1. call[a].h \in Handle
  BY Constants, AtWork DEF OpenSupersede
<1> QED
  BY <1>1, Domains DEF OpenSupersede, StreamingChannel

\* The hook is taken, if there is one.
LEMMA FulfilHookChannel ==
    ASSUME TypeOK, CallInv, NEW a \in Handle \cup Client, FulfilHook(a)
    PROVE  /\ call[a].h \in Handle
           /\ \A g \in Handle \ {call[a].h} : ch'[g] = ch[g]
           /\ ch'[call[a].h].hook = IF ch[call[a].h].hook = "none" THEN "none" ELSE "busy"
           /\ ch'[call[a].h].state = ch[call[a].h].state
           /\ ch'[call[a].h].generation = ch[call[a].h].generation
           /\ ch'[call[a].h].snapshot = ch[call[a].h].snapshot
           /\ ch'[call[a].h].sent = ch[call[a].h].sent
           /\ ch'[call[a].h].pending_info = ch[call[a].h].pending_info
           /\ ch'[call[a].h].stored = ch[call[a].h].stored
           /\ ch[call[a].h].hook # "busy"
<1>1. call[a].h \in Handle
  BY Constants, AtWork DEF FulfilHook, HookPhases
<1>2. /\ ch[call[a].h].hook # "busy"
      /\ ch' = IF ch[call[a].h].hook = "none" THEN ch ELSE [ch EXCEPT ![call[a].h].hook = "busy"]
  BY DEF FulfilHook
<1> QED
  BY <1>1, <1>2, Domains DEF StreamingChannel

\* A commit begins, unless it is skipped.
LEMMA CommitStartChannel ==
    ASSUME TypeOK, CallInv, NEW a \in Handle \cup Client, CommitStart(a)
    PROVE  /\ call[a].h \in Handle
           /\ \A g \in Handle \ {call[a].h} : ch'[g] = ch[g]
           /\ ch'[call[a].h].state = IF SkipCommit(call[a].h) THEN ch[call[a].h].state ELSE "Committing"
           /\ ch'[call[a].h].pending_info = IF SkipCommit(call[a].h) THEN ch[call[a].h].pending_info ELSE NoInfo
           /\ ch'[call[a].h].generation = ch[call[a].h].generation
           /\ ch'[call[a].h].snapshot = ch[call[a].h].snapshot
           /\ ch'[call[a].h].sent = ch[call[a].h].sent
           /\ ch'[call[a].h].hook = ch[call[a].h].hook
           /\ ch'[call[a].h].stored = ch[call[a].h].stored
<1>1. call[a].h \in Handle
  BY Constants, AtWork DEF CommitStart, CommitPhases
<1>2. CASE SkipCommit(call[a].h)
  BY <1>1, <1>2 DEF CommitStart
<1>3. CASE ~SkipCommit(call[a].h)
  <2>1. ch' = [ch EXCEPT ![call[a].h].state = "Committing", ![call[a].h].pending_info = NoInfo]
    BY <1>3 DEF CommitStart
  <2> QED
    BY <1>1, <1>3, <2>1, Domains DEF StreamingChannel
<1> QED
  BY <1>2, <1>3

\* The new writer owns the new generation.
LEMMA OpenInstallChannel ==
    ASSUME TypeOK, PhaseInv, NEW a \in Client, OpenInstall(a)
    PROVE  /\ call[a].new \in Handle
           /\ \A g \in Handle \ {call[a].new} : ch'[g] = ch[g]
           /\ ch'[call[a].new].generation = IF st = "live" THEN dirty_generation + 1 ELSE ch[call[a].new].generation
           /\ ch'[call[a].new].state = ch[call[a].new].state
           /\ ch'[call[a].new].snapshot = ch[call[a].new].snapshot
           /\ ch'[call[a].new].sent = ch[call[a].new].sent
           /\ ch'[call[a].new].pending_info = ch[call[a].new].pending_info
           /\ ch'[call[a].new].hook = ch[call[a].new].hook
           /\ ch'[call[a].new].stored = ch[call[a].new].stored
<1>1. call[a].new \in Handle
  BY Constants DEF OpenInstall, PhaseInv, PhaseShape, Superseding, NewWriter
<1>2. CASE st = "live"
  <2>1. ch' = [ch EXCEPT ![call[a].new].generation = dirty_generation + 1]
    BY <1>2 DEF OpenInstall
  <2> QED
    BY <1>1, <1>2, <2>1, Domains DEF StreamingChannel
<1>3. CASE st # "live"
  BY <1>1, <1>3 DEF OpenInstall
<1> QED
  BY <1>2, <1>3

\* A new channel.
LEMMA OpenSetupChannel ==
    ASSUME TypeOK, NEW a \in Client, OpenSetup(a)
    PROVE  /\ NextHandle \in Handle
           /\ \A g \in Handle \ {NextHandle} : ch'[g] = ch[g]
           /\ ch'[NextHandle].state = "Writing"
           /\ ch'[NextHandle].generation = 0
           /\ ch'[NextHandle].snapshot = call[a].snapshot
           /\ ch'[NextHandle].sent = 0
           /\ ch'[NextHandle].pending_info = NoInfo
           /\ ch'[NextHandle].hook = "none"
           /\ ch'[NextHandle].stored = NoInfo
           /\ ch[NextHandle].state = "unused"
<1>1. NextHandle \in Handle /\ ch[NextHandle].state = "unused"
  BY NextHandleUnused DEF OpenSetup
<1>2. ch' = [ch EXCEPT ![NextHandle] = [Unused EXCEPT !.state = "Writing", !.generation = 0,
                                          !.snapshot = call[a].snapshot, !.worker = "running"]]
  BY DEF OpenSetup, Setup
<1>3. ch'[NextHandle] = [Unused EXCEPT !.state = "Writing", !.generation = 0,
                                          !.snapshot = call[a].snapshot, !.worker = "running"]
      /\ \A g \in Handle \ {NextHandle} : ch'[g] = ch[g]
  BY <1>1, <1>2, Domains
<1> QED
  BY <1>1, <1>3 DEF Unused

\* A new channel.
LEMMA CreateChannel ==
    ASSUME TypeOK, NEW a \in Client, Create(a)
    PROVE  /\ NextHandle \in Handle
           /\ \A g \in Handle \ {NextHandle} : ch'[g] = ch[g]
           /\ ch'[NextHandle].state = "Writing"
           /\ ch'[NextHandle].generation = 1
           /\ ch'[NextHandle].snapshot = NoSnapshot
           /\ ch'[NextHandle].sent = 0
           /\ ch'[NextHandle].pending_info = NoInfo
           /\ ch'[NextHandle].hook = "none"
           /\ ch'[NextHandle].stored = NoInfo
           /\ ch[NextHandle].state = "unused"
<1>1. NextHandle \in Handle /\ ch[NextHandle].state = "unused"
  BY NextHandleUnused DEF Create
<1>2. ch' = [ch EXCEPT ![NextHandle] = [Unused EXCEPT !.state = "Writing", !.generation = 1,
                                          !.snapshot = NoSnapshot, !.worker = "running"]]
  BY DEF Create, Setup
<1>3. ch'[NextHandle] = [Unused EXCEPT !.state = "Writing", !.generation = 1,
                                          !.snapshot = NoSnapshot, !.worker = "running"]
      /\ \A g \in Handle \ {NextHandle} : ch'[g] = ch[g]
  BY <1>1, <1>2, Domains
<1> QED
  BY <1>1, <1>3 DEF Unused

\* A message is enqueued.
LEMMA WriteChannel ==
    ASSUME TypeOK, NEW h \in Handle, Write(h)
    PROVE  /\ h \in Handle
           /\ \A g \in Handle \ {h} : ch'[g] = ch[g]
           /\ ch'[h].sent = ch[h].sent + 1
           /\ ch'[h].state = ch[h].state /\ ch'[h].generation = ch[h].generation
           /\ ch'[h].snapshot = ch[h].snapshot /\ ch'[h].pending_info = ch[h].pending_info
           /\ ch'[h].hook = ch[h].hook /\ ch'[h].stored = ch[h].stored
           /\ ch[h].state \in {"Writing", "Deferred"}
BY Domains DEF Write, StreamingChannel

\* Only the worker is touched.
LEMMA WorkerFailsChannel ==
    ASSUME TypeOK, NEW h \in Handle, WorkerFails(h)
    PROVE  /\ h \in Handle
           /\ \A g \in Handle \ {h} : ch'[g] = ch[g]
           /\ ch'[h].state = ch[h].state /\ ch'[h].generation = ch[h].generation
           /\ ch'[h].snapshot = ch[h].snapshot /\ ch'[h].sent = ch[h].sent
           /\ ch'[h].pending_info = ch[h].pending_info /\ ch'[h].hook = ch[h].hook
           /\ ch'[h].stored = ch[h].stored
BY Domains DEF WorkerFails, StreamingChannel

\* A channel that has ended stays so.
LEMMA TerminalStable ==
    ASSUME TypeOK, CallInv, PhaseInv, Next
    PROVE  \A g \in Handle : Terminal(g) => Terminal(g)'
<1>1. ASSUME NEW a \in Handle \cup Client, InstallHook(a)
      PROVE  \A g \in Handle : Terminal(g) => Terminal(g)'
  BY <1>1, InstallHookChannel DEF Terminal
<1>2. ASSUME NEW a \in Handle \cup Client, FulfilHook(a)
      PROVE  \A g \in Handle : Terminal(g) => Terminal(g)'
  BY <1>2, FulfilHookChannel DEF Terminal
<1>3. ASSUME NEW a \in Handle \cup Client, RemoveHook(a)
      PROVE  \A g \in Handle : Terminal(g) => Terminal(g)'
  BY <1>3, RemoveHookChannel DEF Terminal
<1>4. ASSUME NEW a \in Handle \cup Client, Demote(a)
      PROVE  \A g \in Handle : Terminal(g) => Terminal(g)'
  BY <1>4, DemoteChannel DEF Terminal
<1>5. ASSUME NEW a \in Handle \cup Client, CommitStart(a)
      PROVE  \A g \in Handle : Terminal(g) => Terminal(g)'
  <2>1. a \in Actor /\ pc[a] = "start"
    BY <1>5, Constants DEF CommitStart
  <2>2. ~Terminal(call[a].h)
    BY <2>1 DEF PhaseInv, PhaseShape, Writer, Unfinished, Terminal
  <2> QED
    BY <1>5, <2>2, CommitStartChannel DEF Terminal
<1>6. ASSUME NEW a \in Handle \cup Client, CommitFinish(a)
      PROVE  \A g \in Handle : Terminal(g) => Terminal(g)'
  BY <1>6, CommitFinishChannel DEF Terminal
<1>7. ASSUME NEW a \in Handle \cup Client, CommitHub(a)
      PROVE  \A g \in Handle : Terminal(g) => Terminal(g)'
  BY <1>7, CommitHubChannel DEF Terminal
<1>8. ASSUME NEW a \in Handle \cup Client, CommitHubFails(a)
      PROVE  \A g \in Handle : Terminal(g) => Terminal(g)'
  BY <1>8, CommitHubFailsChannel DEF Terminal
<1>9. ASSUME NEW a \in Handle \cup Client, CommitApply(a)
      PROVE  \A g \in Handle : Terminal(g) => Terminal(g)'
  BY <1>9, CommitApplyChannel DEF Terminal
<1>10. ASSUME NEW a \in Handle \cup Client, CommitSucceeded(a)
      PROVE  \A g \in Handle : Terminal(g) => Terminal(g)'
  BY <1>10, CommitSucceededChannel DEF Terminal
<1>11. ASSUME NEW a \in Handle \cup Client, ReleaseFailed(a)
      PROVE  \A g \in Handle : Terminal(g) => Terminal(g)'
  BY <1>11, ReleaseFailedChannel DEF Terminal
<1>12. ASSUME NEW a \in Client, OpenSetup(a)
      PROVE  \A g \in Handle : Terminal(g) => Terminal(g)'
  BY <1>12, OpenSetupChannel DEF Terminal
<1>13. ASSUME NEW a \in Client, OpenSupersede(a)
      PROVE  \A g \in Handle : Terminal(g) => Terminal(g)'
  BY <1>13, OpenSupersedeChannel DEF Terminal
<1>14. ASSUME NEW a \in Client, OpenInstall(a)
      PROVE  \A g \in Handle : Terminal(g) => Terminal(g)'
  BY <1>14, OpenInstallChannel DEF Terminal
<1>15. ASSUME NEW a \in Client, Create(a)
      PROVE  \A g \in Handle : Terminal(g) => Terminal(g)'
  BY <1>15, CreateChannel DEF Terminal
<1>16. ASSUME NEW h \in Handle, Write(h)
      PROVE  \A g \in Handle : Terminal(g) => Terminal(g)'
  BY <1>16, WriteChannel DEF Terminal
<1>17. ASSUME NEW h \in Handle, WorkerFails(h)
      PROVE  \A g \in Handle : Terminal(g) => Terminal(g)'
  BY <1>17, WorkerFailsChannel DEF Terminal
<1> QED
  BY <1>1, <1>2, <1>3, <1>4, <1>5, <1>6, <1>7, <1>8, <1>9, <1>10, <1>11, <1>12, <1>13, <1>14,
     <1>15, <1>16, <1>17, ChannelFrame DEF Terminal

------------------------------------------------------------------------------
(* Where each step takes the call it belongs to. *)

Moves(a, from, to) == pc[a] = from /\ pc'[a] = to /\ \A b \in Actor \ {a} : pc'[b] = pc[b]
OtherCalls(a) == \A b \in Actor \ {a} : call'[b] = call[b]
SameCall(b) ==
    /\ call'[b].op = call[b].op /\ call'[b].h = call[b].h /\ call'[b].after = call[b].after
    /\ call'[b].info = call[b].info /\ call'[b].new = call[b].new /\ call'[b].snapshot = call[b].snapshot
Begins(a, op, h, after) ==
    /\ OtherCalls(a)
    /\ call'[a].op = op /\ call'[a].h = h /\ call'[a].after = after
    /\ call'[a].new = None /\ call'[a].snapshot = NoSnapshot
Returns(a) ==
    /\ pc'[a] = (IF a \in Handle /\ call[a].op = "flush" THEN "drain_release" ELSE "idle")
    /\ \A b \in Actor \ {a} : pc'[b] = pc[b]
    /\ call'[a] = NoCall /\ OtherCalls(a)

\* A call that returns ...
LEMMA ReturnsAs ==
    ASSUME TypeOK, NEW a \in Actor, Return(a)
    PROVE  Returns(a)
BY ReturnTypes DEF Returns, OtherCalls

\* ... and one that begins.
LEMMA BeginsAs ==
    ASSUME TypeOK, NEW a \in Actor, NEW op \in {"flush", "release", "link", "unlink"},
           NEW h \in Handle \cup {None}, NEW after \in PC, Enter(a, op, h, after)
    PROVE  Begins(a, op, h, after)
BY EnterTypes DEF Begins, OtherCalls

\* The hook is set, its channel looked at next.
LEMMA InstallHookMove ==
    ASSUME TypeOK, NEW a \in Handle \cup Client, InstallHook(a)
    PROVE  Moves(a, "install", "spot") /\ call' = call
BY Constants, KeepTypes DEF InstallHook, Moves, PC, HookPhases, CommitPhases

\* A channel at its end goes on to the hook, another one to the rest of the call.
LEMMA HookOnTheSpotMove ==
    ASSUME TypeOK, NEW a \in Handle \cup Client, HookOnTheSpot(a)
    PROVE  Moves(a, "spot", IF Terminal(call[a].h) THEN "fulfil" ELSE call[a].after) /\ call' = call
<1>1. (IF Terminal(call[a].h) THEN "fulfil" ELSE call[a].after) \in PC
  BY Constants, CallTypes DEF PC, HookPhases
<1> QED
  BY <1>1, Constants, KeepTypes DEF HookOnTheSpot, Moves

\* Who waits for the hook wakes; the other locals stay.
LEMMA FulfilHookMove ==
    ASSUME TypeOK, NEW a \in Handle \cup Client, FulfilHook(a)
    PROVE  /\ Moves(a, "fulfil", IF ch[call[a].h].hook = "none" THEN call[a].after ELSE "unhook")
           /\ \A b \in Actor : SameCall(b) /\ (call[b] = NoCall => call'[b] = NoCall)
           /\ \A b \in Actor :
                call'[b].watch = IF ch[call[a].h].hook # "none" /\ call[b].watch = call[a].h
                                 THEN None ELSE call[b].watch
<1>1. a \in Actor /\ call[a].after \in PC /\ "unhook" \in PC
  BY Constants, CallTypes DEF PC, HookPhases
<1>2. CASE ch[call[a].h].hook = "none"
  BY <1>1, <1>2, KeepTypes DEF FulfilHook, Moves, SameCall
<1>3. CASE ch[call[a].h].hook # "none"
  <2>1. Moves(a, "fulfil", "unhook")
    BY <1>1, <1>3, GotoTypes DEF FulfilHook, Moves
  <2>2. \A b \in Actor :
            call'[b] = IF call[b].watch = call[a].h THEN [call[b] EXCEPT !.watch = None] ELSE call[b]
    BY <1>3 DEF FulfilHook
  <2>3. \A b \in Actor : SameCall(b)
    BY <2>2, CallTypes DEF Call, SameCall
  <2>4. \A b \in Actor : call'[b].watch = IF call[b].watch = call[a].h THEN None ELSE call[b].watch
    BY <2>2, CallTypes DEF Call
  <2>5. \A b \in Actor : call[b] = NoCall => call'[b] = NoCall
    BY <2>2 DEF NoCall
  <2> QED
    BY <1>3, <2>1, <2>3, <2>4, <2>5
<1> QED
  BY <1>2, <1>3

\* The call goes on after its hook.
LEMMA RemoveHookMove ==
    ASSUME TypeOK, NEW a \in Handle \cup Client, RemoveHook(a)
    PROVE  Moves(a, "unhook", call[a].after) /\ call' = call
BY Constants, CallTypes, KeepTypes DEF RemoveHook, Moves

\* A deferred flush() returns.
LEMMA DemoteMove ==
    ASSUME TypeOK, NEW a \in Handle \cup Client, Demote(a)
    PROVE  pc[a] = "demote" /\ Returns(a)
BY Constants, ReturnsAs DEF Demote

\* Under the lock: nothing left to commit, or on to the hook.
LEMMA CommitLockedMove ==
    ASSUME TypeOK, NEW a \in Handle \cup Client, CommitLocked(a)
    PROVE  /\ pc[a] = "commit_lock" /\ Holds(a)
           /\ IF HasError(call[a].h) \/ Terminal(call[a].h)
              THEN Returns(a) /\ Unlock
              ELSE Moves(a, "commit_lock", "install") /\ call' = call /\ UNCHANGED lock
BY Constants, KeepTypes, ReturnsAs DEF CommitLocked, Moves, PC, HookPhases

\* A flush() or link() that has committed returns.
LEMMA CommitUnlockMove ==
    ASSUME TypeOK, NEW a \in Handle \cup Client, CommitUnlock(a)
    PROVE  pc[a] = "commit_unlock" /\ Returns(a)
BY Constants, ReturnsAs DEF CommitUnlock

\* A commit is skipped, asks the worker, or takes the upload that was kept.
LEMMA CommitStartMove ==
    ASSUME TypeOK, NEW a \in Handle \cup Client, CommitStart(a)
    PROVE  IF SkipCommit(call[a].h)
           THEN Moves(a, "start", "succeeded") /\ call' = call
           ELSE /\ Moves(a, "start", IF ch[call[a].h].pending_info = NoInfo THEN "finish" ELSE "hub")
                /\ call' = [call EXCEPT ![a].info = ch[call[a].h].pending_info]
BY Constants, KeepTypes, GotoTypes DEF CommitStart, Moves, PC, CommitPhases

\* The worker's answer, or an error.
LEMMA CommitFinishMove ==
    ASSUME TypeOK, NEW a \in Handle \cup Client, CommitFinish(a)
    PROVE  \/ Moves(a, "finish", "failed") /\ call' = call
           \/ Moves(a, "finish", "hub") /\ call' = [call EXCEPT ![a].info = Upload(call[a].h)]
BY Constants, KeepTypes, GotoTypes DEF CommitFinish, Moves, PC, CommitPhases

\* The Hub accepts.
LEMMA CommitHubMove ==
    ASSUME TypeOK, NEW a \in Handle \cup Client, CommitHub(a)
    PROVE  Moves(a, "hub", "apply") /\ call' = call
BY Constants, KeepTypes DEF CommitHub, Moves, PC, HookPhases, CommitPhases

\* The Hub refuses.
LEMMA CommitHubFailsMove ==
    ASSUME TypeOK, NEW a \in Handle \cup Client, CommitHubFails(a)
    PROVE  Moves(a, "hub", "failed") /\ call' = call
BY Constants, KeepTypes DEF CommitHubFails, Moves, PC, HookPhases, CommitPhases

\* The inode has it.
LEMMA CommitApplyMove ==
    ASSUME TypeOK, NEW a \in Handle \cup Client, CommitApply(a)
    PROVE  Moves(a, "apply", "succeeded") /\ call' = call
BY Constants, KeepTypes DEF CommitApply, Moves, PC, HookPhases, CommitPhases

\* On to the hook, and then to the unlock of its own kind of call.
LEMMA CommitSucceededMove ==
    ASSUME TypeOK, NEW a \in Handle \cup Client, CommitSucceeded(a)
    PROVE  Moves(a, "succeeded", "fulfil") /\ call' = [call EXCEPT ![a].after = IF call[a].op = "release" THEN "release_unlock" ELSE "commit_unlock"]
BY Constants, GotoTypes DEF CommitSucceeded, Moves, PC, HookPhases, CommitPhases

\* A flush() or link() returns its error.
LEMMA CommitFailedMove ==
    ASSUME TypeOK, NEW a \in Handle \cup Client, CommitFailed(a)
    PROVE  pc[a] = "failed" /\ Returns(a)
BY Constants, ReturnsAs DEF CommitFailed

\* The one retry of a release().
LEMMA ReleaseRetryMove ==
    ASSUME TypeOK, NEW a \in Handle \cup Client, ReleaseRetry(a)
    PROVE  Moves(a, "failed", "start") /\ call' = [call EXCEPT ![a].retried = TRUE]
BY Constants, GotoTypes DEF ReleaseRetry, Moves, PC, HookPhases, CommitPhases

\* A release() that gives up goes on to the hook.
LEMMA ReleaseFailedMove ==
    ASSUME TypeOK, NEW a \in Handle \cup Client, ReleaseFailed(a)
    PROVE  Moves(a, "failed", "fulfil") /\ call' = [call EXCEPT ![a].after = "release_unlock"]
BY Constants, GotoTypes DEF ReleaseFailed, Moves, PC, HookPhases, CommitPhases

\* A release() drops an ended channel at once, or waits for the lock.
LEMMA ReleaseCheckMove ==
    ASSUME TypeOK, NEW a \in Handle \cup Client, ReleaseCheck(a)
    PROVE  Moves(a, "release_check", IF Terminal(call[a].h) THEN "release_drop" ELSE "release_lock") /\ call' = call
BY Constants, KeepTypes DEF ReleaseCheck, Moves, PC, HookPhases, CommitPhases

\* Under the lock: ended meanwhile, or on to the commit.
LEMMA ReleaseLockedMove ==
    ASSUME TypeOK, NEW a \in Handle \cup Client, ReleaseLocked(a)
    PROVE  Moves(a, "release_lock", IF Terminal(call[a].h) THEN "release_unlock" ELSE "start") /\ call' = call
BY Constants, KeepTypes DEF ReleaseLocked, Moves, PC, HookPhases, CommitPhases

\* The lock is dropped before the handle.
LEMMA ReleaseUnlockMove ==
    ASSUME TypeOK, NEW a \in Handle \cup Client, ReleaseUnlock(a)
    PROVE  Moves(a, "release_unlock", "release_drop") /\ call' = call
BY Constants, KeepTypes DEF ReleaseUnlock, Moves, PC, HookPhases, CommitPhases

\* A release() returns.
LEMMA ReleaseDropMove ==
    ASSUME TypeOK, NEW a \in Handle \cup Client, ReleaseDrop(a)
    PROVE  pc[a] = "release_drop" /\ Returns(a)
BY Constants, ReturnsAs DEF ReleaseDrop

\* The hook is fulfilled, the open() waits for the lock.
LEMMA OpenAwaitedMove ==
    ASSUME TypeOK, NEW a \in Client, OpenAwaited(a)
    PROVE  Moves(a, "open_await", "open_lock") /\ call' = call
BY Constants, KeepTypes DEF OpenAwaited, Moves, PC, HookPhases, CommitPhases

\* Under the lock: the file is gone, or the active writer is looked up.
LEMMA OpenLockedMove ==
    ASSUME TypeOK, NEW a \in Client, OpenLocked(a)
    PROVE  /\ pc[a] = "open_lock" /\ Holds(a)
           /\ IF st # "live" THEN Returns(a) /\ Unlock
              ELSE /\ Moves(a, "open_lock", "open_setup") /\ UNCHANGED lock
                   /\ call' = [call EXCEPT ![a].h = Active, ![a].snapshot = SnapshotAtOpen]
BY Constants, GotoTypes, ReturnsAs DEF OpenLocked, Moves, PC

\* The new channel, installed at once or after the active writer is superseded.
LEMMA OpenSetupMove ==
    ASSUME TypeOK, NEW a \in Client, OpenSetup(a)
    PROVE  Moves(a, "open_setup", IF call[a].h = None THEN "open_install" ELSE "open_supersede") /\ call' = [call EXCEPT ![a].new = NextHandle]
BY Constants, GotoTypes DEF OpenSetup, Moves, PC, HookPhases, CommitPhases

\* No channel, the open() returns.
LEMMA OpenSetupFailsMove ==
    ASSUME TypeOK, NEW a \in Client, OpenSetupFails(a)
    PROVE  pc[a] = "open_setup" /\ Returns(a)
BY Constants, ReturnsAs DEF OpenSetupFails

\* The superseded writer's hook is next.
LEMMA OpenSupersedeMove ==
    ASSUME TypeOK, NEW a \in Client, OpenSupersede(a)
    PROVE  Moves(a, "open_supersede", "fulfil") /\ call' = call
BY Constants, KeepTypes DEF OpenSupersede, Moves, PC, HookPhases, CommitPhases

\* The open() returns.
LEMMA OpenInstallMove ==
    ASSUME TypeOK, NEW a \in Client, OpenInstall(a)
    PROVE  pc[a] = "open_install" /\ Returns(a)
BY Constants, ReturnsAs DEF OpenInstall

\* Under the lock: refused, or the remote file first if there is one.
LEMMA UnlinkLockedMove ==
    ASSUME TypeOK, NEW a \in Client, UnlinkLocked(a)
    PROVE  /\ pc[a] = "unlink_lock" /\ Holds(a)
           /\ IF UnlinkRefused THEN Returns(a) /\ Unlock
              ELSE /\ Moves(a, "unlink_lock", IF xet_hash # Absent THEN "unlink_remote" ELSE "unlink_local")
                   /\ call' = call /\ UNCHANGED lock
BY Constants, KeepTypes, ReturnsAs DEF UnlinkLocked, Moves, PC

\* The remote file is gone, the local one is next.
LEMMA UnlinkRemoteMove ==
    ASSUME TypeOK, NEW a \in Client, UnlinkRemote(a)
    PROVE  Moves(a, "unlink_remote", "unlink_local") /\ call' = call
BY Constants, KeepTypes DEF UnlinkRemote, Moves, PC, HookPhases, CommitPhases

\* The Hub refuses, the unlink() returns.
LEMMA UnlinkRemoteFailsMove ==
    ASSUME TypeOK, NEW a \in Client, UnlinkRemoteFails(a)
    PROVE  pc[a] = "unlink_remote" /\ Returns(a)
BY Constants, ReturnsAs DEF UnlinkRemoteFails

\* The unlink() returns.
LEMMA UnlinkLocalMove ==
    ASSUME TypeOK, NEW a \in Client, UnlinkLocal(a)
    PROVE  pc[a] = "unlink_local" /\ Returns(a)
BY Constants, ReturnsAs DEF UnlinkLocal

\* create() is one step.
LEMMA CreateMove ==
    ASSUME NEW a \in Client, Create(a)
    PROVE  pc[a] = "idle" /\ UNCHANGED <<pc, call>>
BY DEF Create

\* An open() waits for a registered hook, or for the lock.
LEMMA OpenStartMove ==
    ASSUME TypeOK, NEW a \in Client, OpenStart(a)
    PROVE  /\ Moves(a, "idle", IF Awaited = None THEN "open_lock" ELSE "open_await") /\ OtherCalls(a)
           /\ call'[a].op = "open" /\ call'[a].h = None /\ call'[a].after = "open_install"
           /\ call'[a].new = None /\ call'[a].snapshot = NoSnapshot
           /\ IF Awaited = None THEN Queue(a) ELSE UNCHANGED lock
<1>1. call'[a] = [NoCall EXCEPT !.op = "open", !.after = "open_install", !.watch = Awaited] /\ OtherCalls(a)
  BY Constants, Domains DEF OpenStart, OtherCalls
<1>2. /\ call'[a].op = "open" /\ call'[a].h = None /\ call'[a].after = "open_install"
      /\ call'[a].new = None /\ call'[a].snapshot = NoSnapshot
  BY <1>1 DEF NoCall
<1>3. /\ Moves(a, "idle", IF Awaited = None THEN "open_lock" ELSE "open_await")
      /\ IF Awaited = None THEN Queue(a) ELSE UNCHANGED lock
  BY Constants, GotoTypes DEF OpenStart, Moves, PC
<1> QED
  BY <1>1, <1>2, <1>3

\* An unlink() waits for the lock.
LEMMA UnlinkStartMove ==
    ASSUME TypeOK, NEW a \in Client, UnlinkStart(a)
    PROVE  Moves(a, "idle", "unlink_lock") /\ Begins(a, "unlink", None, "idle") /\ Queue(a)
BY Constants, GotoTypes, BeginsAs DEF UnlinkStart, Moves, PC, HookPhases, CommitPhases

\* A link() waits for the lock to commit the active channel.
LEMMA LinkStartMove ==
    ASSUME TypeOK, NEW a \in Client, LinkStart(a)
    PROVE  Moves(a, "idle", "commit_lock") /\ Begins(a, "link", Active, "start") /\ Queue(a)
BY Constants, GotoTypes, BeginsAs, ActiveWriter DEF LinkStart, Moves, PC, HookPhases, CommitPhases

\* A flush() defers the commit, or waits for the lock.
LEMMA FlushStartMove ==
    ASSUME TypeOK, NEW a \in Client, NEW h \in Handle, NEW dup \in BOOLEAN, FlushStart(a, h, dup)
    PROVE  /\ h \in open_files /\ ~Terminal(h)
           /\ \/ Moves(a, "idle", "install") /\ Begins(a, "flush", h, "demote") /\ UNCHANGED lock
              \/ Moves(a, "idle", "commit_lock") /\ Begins(a, "flush", h, "start") /\ Queue(a)
BY Constants, GotoTypes, BeginsAs DEF FlushStart, Flush, Moves, PC, HookPhases, CommitPhases

\* A release() drops an ended channel, or sets the hook.
LEMMA ReleaseStartMove ==
    ASSUME TypeOK, NEW a \in Client, NEW h \in Handle, ReleaseStart(a, h)
    PROVE  /\ h \in open_files /\ Begins(a, "release", h, "release_check")
           /\ Moves(a, "idle", IF Terminal(h) THEN "release_drop" ELSE "install")
BY Constants, GotoTypes, BeginsAs DEF ReleaseStart, Release, Moves, PC, HookPhases

\* A write() is no step of a call.
LEMMA WriteMove ==
    ASSUME NEW h \in Handle, Write(h)
    PROVE  UNCHANGED <<pc, call>>
BY DEF Write

\* Nor is the end of a worker.
LEMMA WorkerFailsMove ==
    ASSUME NEW h \in Handle, WorkerFails(h)
    PROVE  UNCHANGED <<pc, call>>
BY DEF WorkerFails

\* A future of the drain flushes its handle, or has nothing to flush.
LEMMA DrainFlushMove ==
    ASSUME TypeOK, NEW h \in Handle, DrainFlush(h)
    PROVE  \/ Moves(h, "drain_flush", "drain_release") /\ call' = call /\ UNCHANGED lock
           \/ /\ h \in open_files /\ ~Terminal(h)
              /\ \/ Moves(h, "drain_flush", "install") /\ Begins(h, "flush", h, "demote") /\ UNCHANGED lock
                 \/ Moves(h, "drain_flush", "commit_lock") /\ Begins(h, "flush", h, "start") /\ Queue(h)
BY Constants, GotoTypes, BeginsAs, KeepTypes
  DEF DrainFlush, Flush, Moves, PC, HookPhases, CommitPhases

\* Then it releases it ...
LEMMA DrainReleaseMove ==
    ASSUME TypeOK, NEW h \in Handle, DrainRelease(h)
    PROVE  /\ h \in open_files /\ Begins(h, "release", h, "release_check")
           /\ Moves(h, "drain_release", IF Terminal(h) THEN "release_drop" ELSE "install")
BY Constants, GotoTypes, BeginsAs DEF DrainRelease, Release, Moves, PC, HookPhases

\* ... or finds it released.
LEMMA DrainReleasedMove ==
    ASSUME TypeOK, NEW h \in Handle, DrainReleased(h)
    PROVE  pc[h] = "drain_release" /\ Returns(h)
BY Constants, ReturnsAs DEF DrainReleased

\* The drain starts the futures of the open handles.
LEMMA DrainStartMove ==
    ASSUME TypeOK, DrainShape, DrainStart
    PROVE  /\ pc[Drain] = "idle" /\ pc'[Drain] = "drain_join" /\ call' = call
           /\ \A h \in Handle : pc[h] = "idle" /\ pc'[h] = IF h \in open_files THEN "drain_flush" ELSE "idle"
           /\ \A c \in Client : pc'[c] = pc[c]
BY Constants, Domains DEF DrainStart, DrainShape

\* They are all done.
LEMMA DrainJoinedMove ==
    ASSUME TypeOK, DrainJoined
    PROVE  /\ Moves(Drain, "drain_join", IF Awaited = None THEN "drain_done" ELSE "drain_await")
           /\ call' = [call EXCEPT ![Drain].watch = Awaited]
BY Constants, GotoTypes DEF DrainJoined, Moves, PC

\* The hook the drain waited for is fulfilled.
LEMMA DrainAwaitedMove ==
    ASSUME TypeOK, DrainAwaited
    PROVE  Moves(Drain, "drain_await", "drain_done") /\ call' = call /\ call[Drain].watch = None
BY Constants, KeepTypes DEF DrainAwaited, Moves, PC

------------------------------------------------------------------------------
(* The lock keeps what its holder knows. *)

\* The steps that change what a call in the critical section relies on.
Loud(a) ==
    \/ CommitStart(a) \/ CommitHub(a) \/ CommitHubFails(a) \/ CommitApply(a)
    \/ CommitSucceeded(a) \/ ReleaseFailed(a)
    \/ a \in Client /\ (OpenSetup(a) \/ OpenSupersede(a) \/ OpenInstall(a) \/ UnlinkRemote(a) \/ UnlinkLocal(a))
Quiet ==
    /\ UNCHANGED <<linked, dirty_generation, xet_hash, hub>> /\ (st = st' \/ (st' # "live" /\ ~linked))
    /\ \A h \in Handle :
        /\ Writer(h)' <=> Writer(h)
        /\ ch[h].state \in {"Committing", "Committed", "Failed"} =>
                ch'[h].state = ch[h].state /\ ch'[h].sent = ch[h].sent
        /\ ch'[h].snapshot = ch[h].snapshot /\ ch'[h].stored = ch[h].stored
        /\ ch'[h].pending_info = ch[h].pending_info /\ ch'[h].generation = ch[h].generation
        /\ h \notin open_handles /\ ch[h].state = "Writing" =>
                h \notin open_handles' /\ ch'[h].state = "Writing"

\* They belong to the critical section.
LEMMA LoudMoves ==
    ASSUME TypeOK, CallInv, NEW a \in Handle \cup Client, Loud(a)
    PROVE  pc[a] \in LockSteps /\ pc'[a] # pc[a]
<1>1. ASSUME CommitStart(a)
      PROVE  pc[a] \in LockSteps /\ pc'[a] # pc[a]
  BY <1>1, CommitStartMove DEF Moves, Returns, LockSteps, CommitPhases
<1>2. ASSUME CommitHub(a)
      PROVE  pc[a] \in LockSteps /\ pc'[a] # pc[a]
  BY <1>2, CommitHubMove DEF Moves, Returns, LockSteps, CommitPhases
<1>3. ASSUME CommitHubFails(a)
      PROVE  pc[a] \in LockSteps /\ pc'[a] # pc[a]
  BY <1>3, CommitHubFailsMove DEF Moves, Returns, LockSteps, CommitPhases
<1>4. ASSUME CommitApply(a)
      PROVE  pc[a] \in LockSteps /\ pc'[a] # pc[a]
  BY <1>4, CommitApplyMove DEF Moves, Returns, LockSteps, CommitPhases
<1>5. ASSUME CommitSucceeded(a)
      PROVE  pc[a] \in LockSteps /\ pc'[a] # pc[a]
  BY <1>5, CommitSucceededMove DEF Moves, Returns, LockSteps, CommitPhases
<1>6. ASSUME ReleaseFailed(a)
      PROVE  pc[a] \in LockSteps /\ pc'[a] # pc[a]
  BY <1>6, ReleaseFailedMove DEF Moves, Returns, LockSteps, CommitPhases
<1>7. ASSUME a \in Client, OpenSetup(a)
      PROVE  pc[a] \in LockSteps /\ pc'[a] # pc[a]
  BY <1>7, OpenSetupMove DEF Moves, Returns, LockSteps, CommitPhases
<1>8. ASSUME a \in Client, OpenSupersede(a)
      PROVE  pc[a] \in LockSteps /\ pc'[a] # pc[a]
  BY <1>8, OpenSupersedeMove DEF Moves, Returns, LockSteps, CommitPhases
<1>9. ASSUME a \in Client, OpenInstall(a)
      PROVE  pc[a] \in LockSteps /\ pc'[a] # pc[a]
  BY <1>9, OpenInstallMove DEF Moves, Returns, LockSteps, CommitPhases
<1>10. ASSUME a \in Client, UnlinkRemote(a)
      PROVE  pc[a] \in LockSteps /\ pc'[a] # pc[a]
  BY <1>10, UnlinkRemoteMove DEF Moves, Returns, LockSteps, CommitPhases
<1>11. ASSUME a \in Client, UnlinkLocal(a)
      PROVE  pc[a] \in LockSteps /\ pc'[a] # pc[a]
  BY <1>11, UnlinkLocalMove DEF Moves, Returns, LockSteps, CommitPhases
<1> QED
  BY <1>1, <1>2, <1>3, <1>4, <1>5, <1>6, <1>7, <1>8, <1>9, <1>10, <1>11 DEF Loud

\* Everything else leaves it alone.
LEMMA QuietStep ==
    ASSUME TypeOK, CallInv, PhaseInv, HandleInv, FilesInv, Next
    PROVE  Quiet \/ (\E a \in Handle \cup Client : Loud(a)) \/ (\E c \in Client : Create(c))
<1>1. ASSUME NEW a \in Handle \cup Client, InstallHook(a)
      PROVE  Quiet
  BY <1>1, InstallHookChannel, Domains
    DEF InstallHook, NoInodeChange, inodeVars, NoFilesChange, Quiet, Writer, Unfinished
<1>2. ASSUME NEW a \in Handle \cup Client, FulfilHook(a)
      PROVE  Quiet
  BY <1>2, FulfilHookChannel, Domains
    DEF FulfilHook, NoInodeChange, inodeVars, NoFilesChange, Quiet, Writer, Unfinished
<1>3. ASSUME NEW a \in Handle \cup Client, RemoveHook(a)
      PROVE  Quiet
  BY <1>3, RemoveHookChannel, Domains
    DEF RemoveHook, NoInodeChange, inodeVars, NoFilesChange, Quiet, Writer, Unfinished
<1>4. ASSUME NEW a \in Handle \cup Client, Demote(a)
      PROVE  Quiet
  <2>1. a \in Actor /\ pc[a] = "demote"
    BY ONLY SMT, <1>4, Constants DEF Demote
  <2>2. call[a].h \in open_handles \/ Terminal(call[a].h)
    BY SMTT(30), <2>1, AtWork, Constants DEF HandleInv
  <2>3. UNCHANGED <<st, linked, dirty_generation, xet_hash, hub, open_handles>>
    BY <1>4 DEF Demote, NoInodeChange, inodeVars, NoFilesChange
  <2> QED
    BY <1>4, <2>2, <2>3, DemoteChannel DEF Quiet, Writer, Unfinished, Terminal
<1>5. ASSUME NEW a \in Handle \cup Client, CommitFinish(a)
      PROVE  Quiet
  <2>1. UNCHANGED <<st, linked, dirty_generation, xet_hash, hub, open_files, open_handles>>
    BY ONLY <1>5 DEF CommitFinish, NoInodeChange, inodeVars, NoFilesChange
  <2>2. /\ call[a].h \in Handle /\ \A g \in Handle \ {call[a].h} : ch'[g] = ch[g]
        /\ LET h == call[a].h
           IN  /\ ch'[h].state = ch[h].state /\ ch'[h].generation = ch[h].generation
               /\ ch'[h].snapshot = ch[h].snapshot /\ ch'[h].sent = ch[h].sent
               /\ ch'[h].pending_info = ch[h].pending_info /\ ch'[h].stored = ch[h].stored
    BY ONLY TypeOK, CallInv, <1>5, CommitFinishChannel
  <2> QED
    BY <2>1, <2>2 DEF Quiet, Writer, Unfinished
<1>6. ASSUME NEW a \in Handle \cup Client, ReleaseDrop(a)
      PROVE  Quiet
  <2>1. a \in Actor /\ pc[a] = "release_drop"
    BY <1>6, Constants DEF ReleaseDrop
  <2>2. Terminal(call[a].h)
    BY <2>1 DEF PhaseInv, PhaseShape
  <2>3. UNCHANGED <<linked, dirty_generation, xet_hash, hub, ch>> /\ open_handles' = open_handles \ {call[a].h}
    BY <1>6 DEF ReleaseDrop
  <2> QED
    BY <1>6, <2>2, <2>3 DEF ReleaseDrop, Quiet, Writer, Unfinished, Terminal
<1>7. ASSUME NEW a \in Client, NEW h \in Handle, ReleaseStart(a, h)
      PROVE  Quiet
  BY <1>7, Domains
    DEF ReleaseStart, Release, NoInodeChange, inodeVars, NoFilesChange, Quiet, Writer, Unfinished
<1>8. ASSUME NEW h \in Handle, Write(h)
      PROVE  Quiet
  BY <1>8, WriteChannel, Domains
    DEF Write, NoInodeChange, inodeVars, NoFilesChange, Quiet, Writer, Unfinished
<1>9. ASSUME NEW h \in Handle, WorkerFails(h)
      PROVE  Quiet
  BY <1>9, WorkerFailsChannel, Domains
    DEF WorkerFails, NoInodeChange, inodeVars, NoFilesChange, Quiet, Writer, Unfinished
<1>10. ASSUME NEW h \in Handle, DrainRelease(h)
      PROVE  Quiet
  BY <1>10, Domains
    DEF DrainRelease, Release, NoInodeChange, inodeVars, NoFilesChange, Quiet, Writer, Unfinished
<1>11. CASE UNCHANGED <<ch, st, linked, dirty_generation, xet_hash, hub, open_files, open_handles>>
  BY <1>11 DEF Quiet, Writer, Unfinished
<1> QED
  BY <1>1, <1>2, <1>3, <1>4, <1>5, <1>6, <1>7, <1>8, <1>9, <1>10, <1>11, ChannelFrame,
     InodeFrame, FilesFrame DEF Loud

\* So a call that stands still keeps its shape.
LEMMA PhaseElsewhere ==
    ASSUME TypeOK, LockInv, CallInv, PhaseInv, HandleInv, FilesInv, DrainShape, Next,
           NEW b \in Actor, pc'[b] = pc[b], SameCall(b)
    PROVE  PhaseShape(b)'
<1>1. CASE Critical(b) /\ Quiet
  <2>1. PhaseShape(b) /\ (\A g \in Handle : Terminal(g) => Terminal(g)')
    BY TerminalStable DEF PhaseInv
  <2>2. \A g \in Handle : Writer(g) <=> Writer(g)'
    BY <1>1 DEF Quiet
  <2>3. NewWriter(b) => NewWriter(b)'
    BY <1>1 DEF Quiet, NewWriter, SameCall
  <2>4. QED
    <3>1. call[b].h \in Handle \cup {None} /\ pc'[b] = pc[b] /\ call'[b].h = call[b].h /\ call'[b].after = call[b].after
          /\ call'[b].snapshot = call[b].snapshot
      BY CallTypes DEF SameCall
    <3>2. (Superseding(b)' <=> Superseding(b)) /\ (Hooking(b, {"start"})' <=> Hooking(b, {"start"}))
      BY <3>1 DEF Superseding, Hooking
    <3>3. UNCHANGED <<linked, dirty_generation, hub>>
      BY <1>1 DEF Quiet
    <3>4. pc[b] \in {"finish", "hub", "apply", "failed"} \/ Hooking(b, {"start"}) \/ pc[b] = "start"
            \/ pc[b] \in {"fulfil", "unhook", "release_unlock", "release_drop"} => call[b].h \in Handle
      BY CallTypes DEF CallInv, CallShape, Hooking, HookPhases, CommitPhases
    <3>5. pc[b] \in {"finish", "hub", "apply", "failed"} =>
            linked /\ Writer(call[b].h) /\ (ch[call[b].h].state = "Committing")'
      BY <1>1, <2>1, <3>1, <3>4 DEF PhaseShape, Quiet
    <3> QED
      BY <2>1, <2>2, <2>3, <3>1, <3>2, <3>3, <3>4, <3>5 DEF PhaseShape
<1>2. CASE Critical(b) /\ (\E a \in Handle \cup Client : Loud(a))
  <2>1. PICK a \in Handle \cup Client : Loud(a)
    BY <1>2
  <2>2. a \in Actor /\ pc[a] \in LockSteps /\ pc'[a] # pc[a]
    BY <2>1, Constants, LoudMoves
  <2>3. Holds(a) /\ Holds(b)
    BY <1>2, <2>2 DEF LockInv, Critical
  <2> QED
    BY <2>2, <2>3 DEF Holds
<1>3. CASE Critical(b) /\ (\E c \in Client : Create(c))
  <2>1. st = "none"
    BY <1>3 DEF Create
  <2>2. b # Drain => pc[b] = "idle"
    BY <2>1 DEF FilesInv, Actor
  <2> QED
    BY <1>3, <2>2 DEF DrainShape, Critical, Hooking, LockSteps, CommitPhases, HookPhases
<1>4. CASE ~Critical(b)
  <2>1. PhaseShape(b) /\ (\A g \in Handle : Terminal(g) => Terminal(g)')
    BY TerminalStable DEF PhaseInv
  <2>2. pc[b] \in {"fulfil", "unhook", "release_unlock", "release_drop"} => call[b].h \in Handle
    <3>1. pc[b] \in {"fulfil", "unhook", "release_unlock", "release_drop"} => call[b].h # None
      BY DEF CallInv, CallShape, Hooking, HookPhases
    <3> QED
      BY <3>1, CallTypes
  <2>3. pc[b] \in {"fulfil", "unhook", "release_unlock", "release_drop"} => Terminal(call[b].h)'
    BY <2>1, <2>2 DEF PhaseShape, SameCall
  <2>4. /\ pc'[b] \notin LockSteps
        /\ ~(pc'[b] = "open_install" \/ (pc'[b] \in HookPhases /\ call'[b].after \in {"start", "open_install"}))
    BY <1>4 DEF Critical, Hooking, LockSteps, SameCall, CommitPhases
  <2> QED
    <3>1. ~Superseding(b)' /\ ~Hooking(b, {"start"})'
      BY <2>4 DEF Superseding, Hooking
    <3>2. pc'[b] \notin {"start", "finish", "hub", "apply", "failed", "open_setup", "open_supersede", "unlink_remote", "unlink_local"}
      BY <2>4 DEF LockSteps, CommitPhases
    <3> QED
      BY <2>3, <3>1, <3>2 DEF PhaseShape
<1> QED
  BY <1>1, <1>2, <1>3, <1>4, QuietStep

\* The same for what an upload holds.
LEMMA BytesElsewhere ==
    ASSUME TypeOK, LockInv, CallInv, PhaseInv, HandleInv, FilesInv, BytesInv, DrainShape, Next,
           NEW b \in Actor, pc'[b] = pc[b], SameCall(b)
    PROVE  BytesShape(b)'
<1>1. CASE pc[b] \in LockSteps /\ Quiet
  <2>1. BytesShape(b) /\ PhaseShape(b)
    BY DEF BytesInv, PhaseInv
  <2>2. pc[b] \in {"hub", "apply", "succeeded"} => call[b].h \in Handle
    BY AtWork DEF CommitPhases
  <2> QED
    BY <1>1, <2>1, <2>2 DEF BytesShape, PhaseShape, SameCall, Quiet
<1>2. CASE pc[b] \in LockSteps /\ (\E a \in Handle \cup Client : Loud(a))
  <2>1. PICK a \in Handle \cup Client : Loud(a)
    BY <1>2
  <2>2. a \in Actor /\ pc[a] \in LockSteps /\ pc'[a] # pc[a]
    BY <2>1, Constants, LoudMoves
  <2>3. Holds(a) /\ Holds(b)
    BY <1>2, <2>2 DEF LockInv, Critical
  <2> QED
    BY <2>2, <2>3 DEF Holds
<1>3. CASE pc[b] \in LockSteps /\ (\E c \in Client : Create(c))
  <2>1. st = "none"
    BY <1>3 DEF Create
  <2>2. b # Drain => pc[b] = "idle"
    BY <2>1 DEF FilesInv, Actor
  <2> QED
    BY <1>3, <2>2 DEF DrainShape, LockSteps, CommitPhases
<1>4. CASE pc[b] \notin LockSteps
  BY <1>4 DEF BytesShape, LockSteps, CommitPhases
<1> QED
  BY <1>1, <1>2, <1>3, <1>4, QuietStep

------------------------------------------------------------------------------
(* The step of a call keeps its own shape. *)

Stands(b) == pc'[b] = pc[b] /\ SameCall(b)
Shaped(b) == PhaseShape(b) /\ BytesShape(b)
Acts(b) ==
    \/ b \in Handle \cup Client /\ CommitStep(b)
    \/ b \in Client /\ (NameStep(b) \/ CallStart(b))
    \/ b \in Handle /\ (DrainFlush(b) \/ DrainRelease(b) \/ DrainReleased(b) \/ DrainStart)
    \/ b = Drain /\ (DrainStart \/ DrainStep)

\* A call that does not act stands still.
LEMMA WhoActs ==
    ASSUME TypeOK, DrainShape, Next, NEW b \in Actor
    PROVE  Stands(b) \/ Acts(b)
<1>1. ASSUME NEW a \in Handle \cup Client, InstallHook(a)
      PROVE  \A d \in Actor \ {a} : Stands(d)
  BY <1>1, InstallHookMove, Domains DEF Stands, SameCall, Moves, OtherCalls, Returns, Begins
<1>2. ASSUME NEW a \in Handle \cup Client, HookOnTheSpot(a)
      PROVE  \A d \in Actor \ {a} : Stands(d)
  BY <1>2, HookOnTheSpotMove, Domains DEF Stands, SameCall, Moves, OtherCalls, Returns, Begins
<1>3. ASSUME NEW a \in Handle \cup Client, FulfilHook(a)
      PROVE  \A d \in Actor \ {a} : Stands(d)
  BY <1>3, FulfilHookMove, Domains DEF Stands, SameCall, Moves, OtherCalls, Returns, Begins
<1>4. ASSUME NEW a \in Handle \cup Client, RemoveHook(a)
      PROVE  \A d \in Actor \ {a} : Stands(d)
  BY <1>4, RemoveHookMove, Domains DEF Stands, SameCall, Moves, OtherCalls, Returns, Begins
<1>5. ASSUME NEW a \in Handle \cup Client, Demote(a)
      PROVE  \A d \in Actor \ {a} : Stands(d)
  BY <1>5, DemoteMove, Domains DEF Stands, SameCall, Moves, OtherCalls, Returns, Begins
<1>6. ASSUME NEW a \in Handle \cup Client, CommitLocked(a)
      PROVE  \A d \in Actor \ {a} : Stands(d)
  BY <1>6, CommitLockedMove, Domains DEF Stands, SameCall, Moves, OtherCalls, Returns, Begins
<1>7. ASSUME NEW a \in Handle \cup Client, CommitUnlock(a)
      PROVE  \A d \in Actor \ {a} : Stands(d)
  BY <1>7, CommitUnlockMove, Domains DEF Stands, SameCall, Moves, OtherCalls, Returns, Begins
<1>8. ASSUME NEW a \in Handle \cup Client, CommitStart(a)
      PROVE  \A d \in Actor \ {a} : Stands(d)
  BY <1>8, CommitStartMove, Domains DEF Stands, SameCall, Moves, OtherCalls, Returns, Begins
<1>9. ASSUME NEW a \in Handle \cup Client, CommitFinish(a)
      PROVE  \A d \in Actor \ {a} : Stands(d)
  BY <1>9, CommitFinishMove, Domains DEF Stands, SameCall, Moves, OtherCalls, Returns, Begins
<1>10. ASSUME NEW a \in Handle \cup Client, CommitHub(a)
      PROVE  \A d \in Actor \ {a} : Stands(d)
  BY <1>10, CommitHubMove, Domains DEF Stands, SameCall, Moves, OtherCalls, Returns, Begins
<1>11. ASSUME NEW a \in Handle \cup Client, CommitHubFails(a)
      PROVE  \A d \in Actor \ {a} : Stands(d)
  BY <1>11, CommitHubFailsMove, Domains DEF Stands, SameCall, Moves, OtherCalls, Returns, Begins
<1>12. ASSUME NEW a \in Handle \cup Client, CommitApply(a)
      PROVE  \A d \in Actor \ {a} : Stands(d)
  BY <1>12, CommitApplyMove, Domains DEF Stands, SameCall, Moves, OtherCalls, Returns, Begins
<1>13. ASSUME NEW a \in Handle \cup Client, CommitSucceeded(a)
      PROVE  \A d \in Actor \ {a} : Stands(d)
  BY <1>13, CommitSucceededMove, Domains DEF Stands, SameCall, Moves, OtherCalls, Returns, Begins
<1>14. ASSUME NEW a \in Handle \cup Client, CommitFailed(a)
      PROVE  \A d \in Actor \ {a} : Stands(d)
  BY <1>14, CommitFailedMove, Domains DEF Stands, SameCall, Moves, OtherCalls, Returns, Begins
<1>15. ASSUME NEW a \in Handle \cup Client, ReleaseRetry(a)
      PROVE  \A d \in Actor \ {a} : Stands(d)
  BY <1>15, ReleaseRetryMove, Domains DEF Stands, SameCall, Moves, OtherCalls, Returns, Begins
<1>16. ASSUME NEW a \in Handle \cup Client, ReleaseFailed(a)
      PROVE  \A d \in Actor \ {a} : Stands(d)
  BY <1>16, ReleaseFailedMove, Domains DEF Stands, SameCall, Moves, OtherCalls, Returns, Begins
<1>17. ASSUME NEW a \in Handle \cup Client, ReleaseCheck(a)
      PROVE  \A d \in Actor \ {a} : Stands(d)
  BY <1>17, ReleaseCheckMove, Domains DEF Stands, SameCall, Moves, OtherCalls, Returns, Begins
<1>18. ASSUME NEW a \in Handle \cup Client, ReleaseLocked(a)
      PROVE  \A d \in Actor \ {a} : Stands(d)
  BY <1>18, ReleaseLockedMove, Domains DEF Stands, SameCall, Moves, OtherCalls, Returns, Begins
<1>19. ASSUME NEW a \in Handle \cup Client, ReleaseUnlock(a)
      PROVE  \A d \in Actor \ {a} : Stands(d)
  BY <1>19, ReleaseUnlockMove, Domains DEF Stands, SameCall, Moves, OtherCalls, Returns, Begins
<1>20. ASSUME NEW a \in Handle \cup Client, ReleaseDrop(a)
      PROVE  \A d \in Actor \ {a} : Stands(d)
  BY <1>20, ReleaseDropMove, Domains DEF Stands, SameCall, Moves, OtherCalls, Returns, Begins
<1>21. ASSUME NEW a \in Client, OpenAwaited(a)
      PROVE  \A d \in Actor \ {a} : Stands(d)
  BY <1>21, OpenAwaitedMove, Domains DEF Stands, SameCall, Moves, OtherCalls, Returns, Begins
<1>22. ASSUME NEW a \in Client, OpenLocked(a)
      PROVE  \A d \in Actor \ {a} : Stands(d)
  BY <1>22, OpenLockedMove, Domains DEF Stands, SameCall, Moves, OtherCalls, Returns, Begins
<1>23. ASSUME NEW a \in Client, OpenSetup(a)
      PROVE  \A d \in Actor \ {a} : Stands(d)
  BY <1>23, OpenSetupMove, Domains DEF Stands, SameCall, Moves, OtherCalls, Returns, Begins
<1>24. ASSUME NEW a \in Client, OpenSetupFails(a)
      PROVE  \A d \in Actor \ {a} : Stands(d)
  BY <1>24, OpenSetupFailsMove, Domains DEF Stands, SameCall, Moves, OtherCalls, Returns, Begins
<1>25. ASSUME NEW a \in Client, OpenSupersede(a)
      PROVE  \A d \in Actor \ {a} : Stands(d)
  BY <1>25, OpenSupersedeMove, Domains DEF Stands, SameCall, Moves, OtherCalls, Returns, Begins
<1>26. ASSUME NEW a \in Client, OpenInstall(a)
      PROVE  \A d \in Actor \ {a} : Stands(d)
  BY <1>26, OpenInstallMove, Domains DEF Stands, SameCall, Moves, OtherCalls, Returns, Begins
<1>27. ASSUME NEW a \in Client, UnlinkLocked(a)
      PROVE  \A d \in Actor \ {a} : Stands(d)
  BY <1>27, UnlinkLockedMove, Domains DEF Stands, SameCall, Moves, OtherCalls, Returns, Begins
<1>28. ASSUME NEW a \in Client, UnlinkRemote(a)
      PROVE  \A d \in Actor \ {a} : Stands(d)
  BY <1>28, UnlinkRemoteMove, Domains DEF Stands, SameCall, Moves, OtherCalls, Returns, Begins
<1>29. ASSUME NEW a \in Client, UnlinkRemoteFails(a)
      PROVE  \A d \in Actor \ {a} : Stands(d)
  BY <1>29, UnlinkRemoteFailsMove, Domains DEF Stands, SameCall, Moves, OtherCalls, Returns, Begins
<1>30. ASSUME NEW a \in Client, UnlinkLocal(a)
      PROVE  \A d \in Actor \ {a} : Stands(d)
  BY <1>30, UnlinkLocalMove, Domains DEF Stands, SameCall, Moves, OtherCalls, Returns, Begins
<1>31. ASSUME NEW a \in Client, Create(a)
      PROVE  \A d \in Actor : Stands(d)
  BY <1>31, CreateMove DEF Stands, SameCall
<1>32. ASSUME NEW a \in Client, OpenStart(a)
      PROVE  \A d \in Actor \ {a} : Stands(d)
  BY <1>32, OpenStartMove, Domains DEF Stands, SameCall, Moves, OtherCalls, Returns, Begins
<1>33. ASSUME NEW a \in Client, UnlinkStart(a)
      PROVE  \A d \in Actor \ {a} : Stands(d)
  BY <1>33, UnlinkStartMove, Domains DEF Stands, SameCall, Moves, OtherCalls, Returns, Begins
<1>34. ASSUME NEW a \in Client, LinkStart(a)
      PROVE  \A d \in Actor \ {a} : Stands(d)
  BY <1>34, LinkStartMove, Domains DEF Stands, SameCall, Moves, OtherCalls, Returns, Begins
<1>35. ASSUME NEW a \in Client, NEW h \in Handle, NEW dup \in BOOLEAN, FlushStart(a, h, dup)
      PROVE  \A d \in Actor \ {a} : Stands(d)
  BY <1>35, FlushStartMove, Domains DEF Stands, SameCall, Moves, OtherCalls, Returns, Begins
<1>36. ASSUME NEW a \in Client, NEW h \in Handle, ReleaseStart(a, h)
      PROVE  \A d \in Actor \ {a} : Stands(d)
  BY <1>36, ReleaseStartMove, Domains DEF Stands, SameCall, Moves, OtherCalls, Returns, Begins
<1>37. ASSUME NEW h \in Handle, Write(h)
      PROVE  \A d \in Actor : Stands(d)
  BY <1>37, WriteMove DEF Stands, SameCall
<1>38. ASSUME NEW h \in Handle, WorkerFails(h)
      PROVE  \A d \in Actor : Stands(d)
  BY <1>38, WorkerFailsMove DEF Stands, SameCall
<1>39. ASSUME NEW h \in Handle, DrainFlush(h)
      PROVE  \A d \in Actor \ {h} : Stands(d)
  BY <1>39, DrainFlushMove, Domains DEF Stands, SameCall, Moves, OtherCalls, Returns, Begins
<1>40. ASSUME NEW h \in Handle, DrainRelease(h)
      PROVE  \A d \in Actor \ {h} : Stands(d)
  BY <1>40, DrainReleaseMove, Domains DEF Stands, SameCall, Moves, OtherCalls, Returns, Begins
<1>41. ASSUME NEW h \in Handle, DrainReleased(h)
      PROVE  \A d \in Actor \ {h} : Stands(d)
  BY <1>41, DrainReleasedMove, Domains DEF Stands, SameCall, Moves, OtherCalls, Returns, Begins
<1>42. ASSUME DrainStart
      PROVE  \A d \in Client : Stands(d)
  BY <1>42, DrainStartMove, Constants DEF Stands, SameCall
<1>43. ASSUME DrainJoined
      PROVE  \A d \in Actor \ {Drain} : Stands(d)
  BY <1>43, DrainJoinedMove, Domains DEF Stands, SameCall, Moves, OtherCalls, Returns, Begins
<1>44. ASSUME DrainAwaited
      PROVE  \A d \in Actor \ {Drain} : Stands(d)
  BY <1>44, DrainAwaitedMove, Domains DEF Stands, SameCall, Moves, OtherCalls, Returns, Begins
<1>45. \A a \in Handle \cup Client : CommitStep(a) => \A d \in Actor \ {a} : Stands(d)
  BY <1>1, <1>2, <1>3, <1>4, <1>5, <1>6, <1>7, <1>8, <1>9, <1>10, <1>11, <1>12, <1>13, <1>14,
     <1>15, <1>16, <1>17, <1>18, <1>19, <1>20, Constants DEF CommitStep
<1>46. \A a \in Client : NameStep(a) \/ CallStart(a) => \A d \in Actor \ {a} : Stands(d)
  BY <1>21, <1>22, <1>23, <1>24, <1>25, <1>26, <1>27, <1>28, <1>29, <1>30, <1>31, <1>32, <1>33,
     <1>34, <1>35, <1>36, Constants DEF NameStep, CallStart
<1>47. \A h \in Handle : DrainFlush(h) \/ DrainRelease(h) \/ DrainReleased(h) =>
        \A d \in Actor \ {h} : Stands(d)
  BY <1>39, <1>40, <1>41, Constants
<1>48. (\E h \in Handle : Write(h) \/ WorkerFails(h)) => \A d \in Actor : Stands(d)
  BY <1>37, <1>38, Constants
<1>49. DrainStep => \A d \in Actor \ {Drain} : Stands(d)
  BY <1>43, <1>44, Constants DEF DrainStep
<1> QED
  BY <1>42, <1>45, <1>46, <1>47, <1>48, <1>49, Constants DEF Next, FutureStep, Acts, Actor
\* At most steps there is nothing to know.
LEMMA Plain ==
    ASSUME NEW a \in Actor,
           pc'[a] \notin {"start", "finish", "hub", "apply", "succeeded", "failed", "fulfil", "unhook",
                "release_unlock", "release_drop", "open_setup", "open_supersede", "open_install",
                "unlink_remote", "unlink_local"},
           pc'[a] \in {"install", "spot"} => call'[a].after \notin {"start", "open_install"}
    PROVE  Shaped(a)'
<1>1. ~Superseding(a)' /\ ~Hooking(a, {"start"})'
  BY DEF Superseding, Hooking, HookPhases
<1>2. PhaseShape(a)'
  BY <1>1 DEF PhaseShape
<1>3. BytesShape(a)'
  BY DEF BytesShape
<1> QED
  BY <1>2, <1>3 DEF Shaped

\* A call that is about to commit.
LEMMA LandStart ==
    ASSUME NEW a \in Actor, Writer(call[a].h)',
           pc'[a] = "start" \/ (pc'[a] \in {"install", "spot"} /\ call'[a].after = "start")
    PROVE  Shaped(a)'
<1>1. ~Superseding(a)'
  BY DEF Superseding, Hooking, HookPhases
<1>2. PhaseShape(a)'
  BY <1>1 DEF PhaseShape
<1>3. BytesShape(a)'
  BY DEF BytesShape
<1> QED
  BY <1>2, <1>3 DEF Shaped

\* A call whose channel has ended.
LEMMA LandEnd ==
    ASSUME NEW a \in Actor, Terminal(call[a].h)',
           pc'[a] \in {"fulfil", "unhook", "release_unlock", "release_drop"},
           pc'[a] \in {"fulfil", "unhook"} => call'[a].after # "start",
           pc'[a] \in {"fulfil", "unhook"} /\ call'[a].after = "open_install" =>
                NewWriter(a)' /\ \A g \in Handle : ~Writer(g)'
    PROVE  Shaped(a)'
<1>1. ~Hooking(a, {"start"})' /\ (Superseding(a)' => NewWriter(a)' /\ \A g \in Handle : ~Writer(g)')
  BY DEF Superseding, Hooking, HookPhases
<1>2. PhaseShape(a)'
  BY <1>1 DEF PhaseShape
<1>3. BytesShape(a)'
  BY DEF BytesShape
<1> QED
  BY <1>2, <1>3 DEF Shaped

\* An upload under way.
LEMMA LandUpload ==
    ASSUME NEW a \in Actor, pc'[a] \in {"finish", "hub", "apply", "failed"},
           (linked /\ Writer(call[a].h) /\ ch[call[a].h].state = "Committing")', BytesShape(a)'
    PROVE  Shaped(a)'
<1>1. ~Superseding(a)' /\ ~Hooking(a, {"start"})'
  BY DEF Superseding, Hooking, HookPhases
<1>2. PhaseShape(a)'
  BY <1>1 DEF PhaseShape
<1> QED
  BY <1>2 DEF Shaped

\* A writer about to be installed.
LEMMA LandInstall ==
    ASSUME NEW a \in Actor, pc'[a] = "open_install", NewWriter(a)', \A g \in Handle : ~Writer(g)'
    PROVE  Shaped(a)'
<1>1. ~Hooking(a, {"start"})'
  BY DEF Hooking, HookPhases
<1>2. PhaseShape(a)'
  BY <1>1 DEF PhaseShape
<1>3. BytesShape(a)'
  BY DEF BytesShape
<1> QED
  BY <1>2, <1>3 DEF Shaped

\* A channel that has not ended has a writer.
LEMMA StillWriter ==
    ASSUME TypeOK, HandleInv, FilesInv, NEW a \in Actor, call[a].h \in Handle, ~Terminal(call[a].h)
    PROVE  Writer(call[a].h)
<1>1. call[a].h \in open_handles
  BY Constants DEF HandleInv
<1> QED
  BY <1>1, ChannelTypes DEF FilesInv, Writer, Unfinished, Terminal, CommitState

\* The steps on the hook leave the channels as they are.
LEMMA HookQuiet ==
    ASSUME TypeOK, CallInv, NEW a \in Handle \cup Client,
           InstallHook(a) \/ HookOnTheSpot(a) \/ FulfilHook(a) \/ RemoveHook(a)
    PROVE  Quiet /\ (\A g \in Handle : (Terminal(g)' <=> Terminal(g)) /\ (Writer(g)' <=> Writer(g)))
<1>1. UNCHANGED <<st, linked, dirty_generation, xet_hash, hub, open_handles>>
  BY DEF InstallHook, HookOnTheSpot, FulfilHook, RemoveHook, NoInodeChange, inodeVars, NoFilesChange
<1>2. \A g \in Handle :
        /\ ch'[g].state = ch[g].state /\ ch'[g].sent = ch[g].sent /\ ch'[g].snapshot = ch[g].snapshot
        /\ ch'[g].stored = ch[g].stored /\ ch'[g].pending_info = ch[g].pending_info
        /\ ch'[g].generation = ch[g].generation
  <2>1. CASE HookOnTheSpot(a)
    BY <2>1 DEF HookOnTheSpot
  <2> QED
    BY <2>1, InstallHookChannel, FulfilHookChannel, RemoveHookChannel
<1> QED
  BY <1>1, <1>2 DEF Quiet, Writer, Unfinished, Terminal

\* What follows a fulfilled hook.
LEMMA AfterHook ==
    ASSUME TypeOK, CallInv, PhaseInv, NEW a \in Actor, pc[a] \in {"fulfil", "unhook"}, pc'[a] = call[a].after,
           SameCall(a), Quiet, \A g \in Handle : Terminal(g) => Terminal(g)'
    PROVE  Shaped(a)'
<1>1. CallShape(a) /\ PhaseShape(a) /\ call[a].h \in Handle /\ call'[a].h = call[a].h
  BY AtWork DEF CallInv, PhaseInv, SameCall, HookPhases
<1>2. Terminal(call[a].h)'
  BY <1>1 DEF PhaseShape
<1>3. call[a].after \in {"demote", "release_check", "commit_unlock", "release_unlock", "open_install"}
  BY <1>1 DEF CallShape, Hooking, HookPhases
<1>4. CASE call[a].after \in {"demote", "release_check", "commit_unlock"}
  BY <1>4, Plain
<1>5. CASE call[a].after = "release_unlock"
  BY <1>2, <1>5, LandEnd
<1>6. CASE call[a].after = "open_install"
  <2>1. Superseding(a)
    BY <1>6 DEF Superseding, Hooking, HookPhases
  <2>2. NewWriter(a) /\ \A g \in Handle : ~Writer(g)
    BY <1>1, <2>1 DEF PhaseShape
  <2>3. NewWriter(a)' /\ \A g \in Handle : ~Writer(g)'
    BY <2>2 DEF NewWriter, Quiet, SameCall
  <2> QED
    BY <1>6, <2>3, LandInstall
<1> QED
  BY <1>3, <1>4, <1>5, <1>6

\* What a call knows after a step of its own.
LEMMA OwnShape ==
    ASSUME TypeOK, LockInv, CallInv, HandleInv, FilesInv, WriterInv, PhaseInv, BytesInv,
           SnapshotInv, DrainShape, CleanIsCommitted, "ghost" \notin Events, Next
    PROVE  \A b \in Actor : Stands(b) \/ Shaped(b)'
<1>1. ASSUME NEW a \in Handle \cup Client, InstallHook(a)
      PROVE  Shaped(a)'
  <2>1. a \in Actor /\ pc[a] = "install" /\ pc'[a] = "spot" /\ call' = call
    BY <1>1, Constants, InstallHookMove DEF Moves
  <2>2. CallShape(a) /\ PhaseShape(a) /\ call[a].h \in Handle
    BY <2>1, AtWork DEF CallInv, PhaseInv, HookPhases
  <2>3. call[a].after # "open_install"
    BY <2>1, <2>2 DEF CallShape, Hooking, HookPhases
  <2>4. CASE call[a].after = "start"
    <3>1. Writer(call[a].h)
      BY <2>1, <2>2, <2>4 DEF PhaseShape, Hooking, HookPhases
    <3>2. Writer(call[a].h)'
      BY <1>1, <2>1, <2>2, <3>1, HookQuiet
    <3> QED
      BY <2>1, <2>4, <3>2, LandStart
  <2> QED
    BY <2>1, <2>3, <2>4, Plain
<1>2. ASSUME NEW a \in Handle \cup Client, HookOnTheSpot(a)
      PROVE  Shaped(a)'
  <2>1. /\ a \in Actor /\ pc[a] = "spot" /\ call' = call
        /\ pc'[a] = IF Terminal(call[a].h) THEN "fulfil" ELSE call[a].after
    BY <1>2, Constants, HookOnTheSpotMove DEF Moves
  <2>2. CallShape(a) /\ PhaseShape(a) /\ call[a].h \in Handle
    BY <2>1, AtWork DEF CallInv, PhaseInv, HookPhases
  <2>3. call[a].after \in {"demote", "start", "release_check"}
    BY <2>1, <2>2 DEF CallShape, Hooking, HookPhases
  <2>4. call[a].after = "start" => Writer(call[a].h)
    BY <2>1, <2>2 DEF PhaseShape, Hooking, HookPhases
  <2>5. (Terminal(call[a].h)' <=> Terminal(call[a].h)) /\ (Writer(call[a].h)' <=> Writer(call[a].h))
    BY <1>2, <2>1, <2>2, HookQuiet
  <2>6. CASE Terminal(call[a].h)
    <3>1. call[a].after # "start"
      BY <2>4, <2>6 DEF Writer, Unfinished, Terminal
    <3> QED
      BY <2>1, <2>3, <2>5, <2>6, <3>1, LandEnd
  <2>7. CASE ~Terminal(call[a].h) /\ call[a].after = "start"
    BY <2>1, <2>4, <2>5, <2>7, LandStart
  <2> QED
    BY <2>1, <2>3, <2>6, <2>7, Plain
<1>3. ASSUME NEW a \in Handle \cup Client, FulfilHook(a)
      PROVE  Shaped(a)'
  <2>1. /\ a \in Actor /\ pc[a] = "fulfil" /\ SameCall(a)
        /\ pc'[a] = IF ch[call[a].h].hook = "none" THEN call[a].after ELSE "unhook"
    BY <1>3, Constants, FulfilHookMove DEF Moves
  <2>2. CallShape(a) /\ PhaseShape(a) /\ call[a].h \in Handle /\ call'[a].h = call[a].h /\ call'[a].after = call[a].after
    BY <2>1, AtWork DEF CallInv, PhaseInv, HookPhases, SameCall
  <2>3. Quiet /\ \A g \in Handle : (Terminal(g)' <=> Terminal(g)) /\ (Writer(g)' <=> Writer(g))
    BY <1>3, HookQuiet
  <2>4. Terminal(call[a].h)'
    BY <2>1, <2>2, <2>3 DEF PhaseShape
  <2>5. CASE ch[call[a].h].hook = "none"
    BY <2>1, <2>3, <2>5, AfterHook
  <2>6. CASE ch[call[a].h].hook # "none"
    <3>1. call[a].after # "start"
      BY <2>1, <2>2 DEF CallShape, Hooking, HookPhases
    <3>2. call[a].after = "open_install" => NewWriter(a) /\ \A g \in Handle : ~Writer(g)
      BY <2>1, <2>2 DEF PhaseShape, Superseding, Hooking, HookPhases
    <3>3. call[a].after = "open_install" => NewWriter(a)' /\ \A g \in Handle : ~Writer(g)'
      BY <2>1, <2>3, <3>2 DEF NewWriter, Quiet, SameCall
    <3> QED
      BY <2>1, <2>2, <2>4, <2>6, <3>1, <3>3, LandEnd
  <2> QED
    BY <2>5, <2>6
<1>4. ASSUME NEW a \in Handle \cup Client, RemoveHook(a)
      PROVE  Shaped(a)'
  <2>1. a \in Actor /\ pc[a] = "unhook" /\ call' = call /\ pc'[a] = call[a].after /\ SameCall(a)
    BY <1>4, Constants, RemoveHookMove DEF Moves, SameCall
  <2>2. Quiet /\ \A g \in Handle : (Terminal(g)' <=> Terminal(g))
    BY <1>4, HookQuiet
  <2> QED
    BY <2>1, <2>2, AfterHook
<1>5. ASSUME NEW a \in Handle \cup Client, Demote(a)
      PROVE  Shaped(a)'
  BY <1>5, Constants, DemoteMove, Plain DEF Returns
<1>6. ASSUME NEW a \in Handle \cup Client, CommitLocked(a)
      PROVE  Shaped(a)'
  <2>1. a \in Actor /\ pc[a] = "commit_lock"
    BY <1>6, Constants, CommitLockedMove
  <2>2. CASE HasError(call[a].h) \/ Terminal(call[a].h)
    BY <1>6, <2>1, <2>2, CommitLockedMove, Plain DEF Returns
  <2>3. CASE ~(HasError(call[a].h) \/ Terminal(call[a].h))
    <3>1. pc'[a] = "install" /\ call' = call /\ call[a].h \in Handle /\ call[a].after = "start"
      BY <1>6, <2>1, <2>3, CommitLockedMove, AtWork DEF Moves, CallInv, CallShape
    <3>2. Writer(call[a].h)
      BY <2>1, <2>3, <3>1, StillWriter
    <3>3. Writer(call[a].h)'
      BY <1>6, <3>1, <3>2 DEF CommitLocked, NoFilesChange, Writer, Unfinished
    <3> QED
      BY <2>1, <3>1, <3>3, LandStart
  <2> QED
    BY <2>2, <2>3
<1>7. ASSUME NEW a \in Handle \cup Client, CommitUnlock(a)
      PROVE  Shaped(a)'
  BY <1>7, Constants, CommitUnlockMove, Plain DEF Returns
<1>8. ASSUME NEW a \in Handle \cup Client, CommitStart(a)
      PROVE  Shaped(a)'
  <2>1. a \in Actor /\ pc[a] = "start" /\ UNCHANGED <<st, linked, open_handles, dirty_generation>>
    BY <1>8, Constants DEF CommitStart, NoInodeChange, inodeVars, NoFilesChange
  <2>2. Writer(call[a].h) /\ call[a].h \in Handle
    BY <2>1, AtWork DEF PhaseInv, PhaseShape, CommitPhases
  <2>3. CASE SkipCommit(call[a].h)
    <3>1. pc'[a] = "succeeded" /\ call' = call
      BY <1>8, <2>3, CommitStartMove DEF Moves
    <3>2. ~linked
      <4>1. CASE linked
        <5>1. st = "live" /\ OwnsGeneration(call[a].h)
          BY <2>2, <4>1 DEF FilesInv, WriterInv
        <5> QED
          BY <2>3, <4>1, <5>1 DEF SkipCommit
      <4> QED
        BY <4>1
    <3>3. ~Superseding(a)' /\ ~Hooking(a, {"start"})'
      BY <3>1 DEF Superseding, Hooking, HookPhases
    <3> QED
      BY <2>1, <3>1, <3>2, <3>3 DEF Shaped, PhaseShape, BytesShape
  <2>4. CASE ~SkipCommit(call[a].h)
    <3>1. /\ pc'[a] = IF ch[call[a].h].pending_info = NoInfo THEN "finish" ELSE "hub"
          /\ call' = [call EXCEPT ![a].info = ch[call[a].h].pending_info]
      BY <1>8, <2>4, CommitStartMove DEF Moves
    <3>2. call'[a].h = call[a].h /\ call'[a].info = ch[call[a].h].pending_info
      BY <2>1, <3>1, CallTypes, Domains DEF Call
    <3>3. ch'[call[a].h].state = "Committing" /\ ch'[call[a].h].sent = ch[call[a].h].sent
      BY <1>8, <2>4, CommitStartChannel
    <3>4. (linked /\ Writer(call[a].h) /\ ch[call[a].h].state = "Committing")'
      BY <2>1, <2>2, <2>4, <3>2, <3>3 DEF SkipCommit, Writer, Unfinished
    <3>5. BytesShape(a)'
      BY <2>2, <3>1, <3>2, <3>3 DEF BytesInv, BytesShape, UploadKept
    <3> QED
      BY <2>1, <3>1, <3>4, <3>5, LandUpload
  <2> QED
    BY <2>3, <2>4
<1>9. ASSUME NEW a \in Handle \cup Client, CommitFinish(a)
      PROVE  Shaped(a)'
  <2>1. a \in Actor /\ pc[a] = "finish" /\ UNCHANGED <<linked, open_handles>>
    BY <1>9, Constants DEF CommitFinish, NoInodeChange, inodeVars, NoFilesChange
  <2>2. linked /\ Writer(call[a].h) /\ ch[call[a].h].state = "Committing" /\ call[a].h \in Handle
    BY <2>1, AtWork DEF PhaseInv, PhaseShape, CommitPhases
  <2>3. ch'[call[a].h].state = "Committing" /\ ch'[call[a].h].sent = ch[call[a].h].sent
    BY <1>9, <2>2, CommitFinishChannel
  <2>4. \/ pc'[a] = "failed" /\ call' = call
        \/ pc'[a] = "hub" /\ call' = [call EXCEPT ![a].info = ch[call[a].h].sent]
    BY <1>9, CommitFinishMove DEF Moves, Upload
  <2>5. call'[a].h = call[a].h /\ (pc'[a] = "hub" => call'[a].info = ch[call[a].h].sent)
    BY <2>1, <2>4, CallTypes, Domains DEF Call
  <2>6. BytesShape(a)'
    BY <2>3, <2>4, <2>5 DEF BytesShape
  <2>7. (linked /\ Writer(call[a].h) /\ ch[call[a].h].state = "Committing")'
    BY <2>1, <2>2, <2>3, <2>5 DEF Writer, Unfinished
  <2> QED
    BY <2>1, <2>4, <2>6, <2>7, LandUpload
<1>10. ASSUME NEW a \in Handle \cup Client, CommitHub(a)
      PROVE  Shaped(a)'
  <2>1. a \in Actor /\ pc[a] = "hub" /\ UNCHANGED <<linked, open_handles>>
    BY <1>10, Constants DEF CommitHub, CommitHubFails, NoInodeChange, inodeVars, NoFilesChange
  <2>2. /\ linked /\ Writer(call[a].h) /\ ch[call[a].h].state = "Committing" /\ call[a].h \in Handle
        /\ call[a].info = ch[call[a].h].sent
    BY <2>1, AtWork DEF PhaseInv, PhaseShape, BytesInv, BytesShape, CommitPhases
  <2>3. ch'[call[a].h].state = "Committing" /\ ch'[call[a].h].sent = ch[call[a].h].sent
    BY <1>10, <2>2, CommitHubChannel, CommitHubFailsChannel
  <2>4. pc'[a] \in {"apply", "failed"} /\ call' = call
    BY <1>10, CommitHubMove, CommitHubFailsMove DEF Moves
  <2>5. BytesShape(a)'
    <3>1. CASE CommitHub(a)
      <4>1. ch'[call[a].h].stored = call[a].info /\ hub' = <<call[a].h, call[a].info>> /\ pc'[a] = "apply"
        BY <3>1, CommitHubChannel, CommitHubMove DEF CommitHub, Moves
      <4> QED
        BY <2>2, <2>3, <2>4, <4>1 DEF BytesShape
    <3>2. CASE CommitHubFails(a)
      BY <3>2, CommitHubFailsMove DEF Moves, BytesShape
    <3> QED
      BY <1>10, <3>1, <3>2
  <2>6. (linked /\ Writer(call[a].h) /\ ch[call[a].h].state = "Committing")'
    BY <2>1, <2>2, <2>3, <2>4 DEF Writer, Unfinished
  <2> QED
    BY <2>1, <2>4, <2>5, <2>6, LandUpload
<1>11. ASSUME NEW a \in Handle \cup Client, CommitHubFails(a)
      PROVE  Shaped(a)'
  <2>1. a \in Actor /\ pc[a] = "hub" /\ UNCHANGED <<linked, open_handles>>
    BY <1>11, Constants DEF CommitHub, CommitHubFails, NoInodeChange, inodeVars, NoFilesChange
  <2>2. /\ linked /\ Writer(call[a].h) /\ ch[call[a].h].state = "Committing" /\ call[a].h \in Handle
        /\ call[a].info = ch[call[a].h].sent
    BY <2>1, AtWork DEF PhaseInv, PhaseShape, BytesInv, BytesShape, CommitPhases
  <2>3. ch'[call[a].h].state = "Committing" /\ ch'[call[a].h].sent = ch[call[a].h].sent
    BY <1>11, <2>2, CommitHubChannel, CommitHubFailsChannel
  <2>4. pc'[a] \in {"apply", "failed"} /\ call' = call
    BY <1>11, CommitHubMove, CommitHubFailsMove DEF Moves
  <2>5. BytesShape(a)'
    <3>1. CASE CommitHub(a)
      <4>1. ch'[call[a].h].stored = call[a].info /\ hub' = <<call[a].h, call[a].info>> /\ pc'[a] = "apply"
        BY <3>1, CommitHubChannel, CommitHubMove DEF CommitHub, Moves
      <4> QED
        BY <2>2, <2>3, <2>4, <4>1 DEF BytesShape
    <3>2. CASE CommitHubFails(a)
      BY <3>2, CommitHubFailsMove DEF Moves, BytesShape
    <3> QED
      BY <1>11, <3>1, <3>2
  <2>6. (linked /\ Writer(call[a].h) /\ ch[call[a].h].state = "Committing")'
    BY <2>1, <2>2, <2>3, <2>4 DEF Writer, Unfinished
  <2> QED
    BY <2>1, <2>4, <2>5, <2>6, LandUpload
<1>12. ASSUME NEW a \in Handle \cup Client, CommitApply(a)
      PROVE  Shaped(a)'
  <2>1. a \in Actor /\ pc[a] = "apply" /\ pc'[a] = "succeeded" /\ call' = call
    BY <1>12, Constants, CommitApplyMove DEF Moves
  <2>2. ch[call[a].h].stored = ch[call[a].h].sent
    BY <2>1 DEF BytesInv, BytesShape
  <2>3. ch'[call[a].h].state = "Committed" /\ ch'[call[a].h].stored = ch'[call[a].h].sent
    BY <1>12, <2>2, CommitApplyChannel
  <2>4. ~Superseding(a)' /\ ~Hooking(a, {"start"})'
    BY <2>1 DEF Superseding, Hooking, HookPhases
  <2> QED
    BY <2>1, <2>3, <2>4 DEF Shaped, PhaseShape, BytesShape
<1>13. ASSUME NEW a \in Handle \cup Client, CommitSucceeded(a)
      PROVE  Shaped(a)'
  <2>1. a \in Actor /\ pc'[a] = "fulfil" /\ \E s \in {"commit_unlock", "release_unlock"} : call' = [call EXCEPT ![a].after = s]
    BY <1>13, Constants, CommitSucceededMove, ReleaseFailedMove DEF Moves
  <2>2. call'[a].h = call[a].h /\ call'[a].after \in {"commit_unlock", "release_unlock"}
    BY <2>1, CallTypes, Domains DEF Call
  <2>3. Terminal(call[a].h)'
    BY <1>13, <2>2, CommitSucceededChannel, ReleaseFailedChannel DEF Terminal
  <2> QED
    BY <2>1, <2>2, <2>3, LandEnd
<1>14. ASSUME NEW a \in Handle \cup Client, CommitFailed(a)
      PROVE  Shaped(a)'
  BY <1>14, Constants, CommitFailedMove, Plain DEF Returns
<1>15. ASSUME NEW a \in Handle \cup Client, ReleaseRetry(a)
      PROVE  Shaped(a)'
  <2>1. a \in Actor /\ pc[a] = "failed" /\ pc'[a] = "start" /\ call' = [call EXCEPT ![a].retried = TRUE]
    BY <1>15, Constants, ReleaseRetryMove DEF Moves
  <2>2. Writer(call[a].h) /\ call'[a].h = call[a].h
    BY <2>1, CallTypes, Domains DEF Call, PhaseInv, PhaseShape
  <2>3. Writer(call[a].h)'
    BY <1>15, <2>2 DEF ReleaseRetry, NoFilesChange, Writer, Unfinished
  <2> QED
    BY <2>1, <2>3, LandStart
<1>16. ASSUME NEW a \in Handle \cup Client, ReleaseFailed(a)
      PROVE  Shaped(a)'
  <2>1. a \in Actor /\ pc'[a] = "fulfil" /\ \E s \in {"commit_unlock", "release_unlock"} : call' = [call EXCEPT ![a].after = s]
    BY <1>16, Constants, CommitSucceededMove, ReleaseFailedMove DEF Moves
  <2>2. call'[a].h = call[a].h /\ call'[a].after \in {"commit_unlock", "release_unlock"}
    BY <2>1, CallTypes, Domains DEF Call
  <2>3. Terminal(call[a].h)'
    BY <1>16, <2>2, CommitSucceededChannel, ReleaseFailedChannel DEF Terminal
  <2> QED
    BY <2>1, <2>2, <2>3, LandEnd
<1>17. ASSUME NEW a \in Handle \cup Client, ReleaseCheck(a)
      PROVE  Shaped(a)'
  <2>1. /\ a \in Actor /\ call' = call /\ ch' = ch
        /\ pc'[a] = IF Terminal(call[a].h) THEN "release_drop" ELSE "release_lock"
    BY <1>17, Constants, ReleaseCheckMove DEF Moves, ReleaseCheck
  <2>2. CASE Terminal(call[a].h)
    <3>1. Terminal(call[a].h)'
      BY <2>1, <2>2 DEF Terminal
    <3> QED
      BY <2>1, <2>2, <3>1, LandEnd
  <2> QED
    BY <2>1, <2>2, Plain
<1>18. ASSUME NEW a \in Handle \cup Client, ReleaseLocked(a)
      PROVE  Shaped(a)'
  <2>1. /\ a \in Actor /\ pc[a] = "release_lock" /\ call' = call /\ UNCHANGED <<ch, open_handles>>
        /\ pc'[a] = IF Terminal(call[a].h) THEN "release_unlock" ELSE "start"
    BY <1>18, Constants, ReleaseLockedMove DEF Moves, ReleaseLocked, NoFilesChange
  <2>2. CASE Terminal(call[a].h)
    <3>1. Terminal(call[a].h)'
      BY <2>1, <2>2 DEF Terminal
    <3> QED
      BY <2>1, <2>2, <3>1, LandEnd
  <2>3. CASE ~Terminal(call[a].h)
    <3>1. Writer(call[a].h)
      BY <2>1, <2>3, AtWork, StillWriter
    <3>2. Writer(call[a].h)'
      BY <2>1, <3>1 DEF Writer, Unfinished
    <3> QED
      BY <2>1, <2>3, <3>2, LandStart
  <2> QED
    BY <2>2, <2>3
<1>19. ASSUME NEW a \in Handle \cup Client, ReleaseUnlock(a)
      PROVE  Shaped(a)'
  <2>1. a \in Actor /\ pc[a] = "release_unlock" /\ pc'[a] = "release_drop" /\ call' = call /\ ch' = ch
    BY <1>19, Constants, ReleaseUnlockMove DEF Moves, ReleaseUnlock
  <2>2. Terminal(call[a].h)'
    BY <2>1 DEF PhaseInv, PhaseShape, Terminal
  <2> QED
    BY <2>1, <2>2, LandEnd
<1>20. ASSUME NEW a \in Handle \cup Client, ReleaseDrop(a)
      PROVE  Shaped(a)'
  BY <1>20, Constants, ReleaseDropMove, Plain DEF Returns
<1>21. ASSUME NEW a \in Client, OpenAwaited(a)
      PROVE  Shaped(a)'
  BY <1>21, Constants, OpenAwaitedMove, Plain DEF Moves
<1>22. ASSUME NEW a \in Client, OpenLocked(a)
      PROVE  Shaped(a)'
  <2>1. a \in Actor /\ pc[a] = "open_lock" /\ Holds(a) /\ UNCHANGED <<linked, hub, ch, open_handles>>
    BY <1>22, Constants, OpenLockedMove DEF OpenLocked, NoInodeChange, inodeVars, NoFilesChange
  <2>2. CASE st # "live"
    BY <1>22, <2>1, <2>2, OpenLockedMove, Plain DEF Returns
  <2>3. CASE st = "live"
    <3>1. pc'[a] = "open_setup" /\ call' = [call EXCEPT ![a].h = Active, ![a].snapshot = SnapshotAtOpen]
      BY <1>22, <2>3, OpenLockedMove DEF Moves
    <3>2. call'[a].h = Active /\ call'[a].snapshot = SnapshotAtOpen
      BY <2>1, <3>1, CallTypes, Domains DEF Call
    <3>3. \A b \in Actor : ~Critical(b)
      <4>1. ~Critical(a)
        BY <2>1 DEF Critical, Hooking, LockSteps, CommitPhases, HookPhases
      <4> QED
        BY <2>1, <4>1 DEF LockInv, Holds
    <3>4. \A b \in Actor : pc[b] # "apply" /\ pc[b] # "unlink_local"
      BY <3>3 DEF Critical, LockSteps, CommitPhases
    <3>5. ASSUME Active # None
          PROVE  (\A g \in Handle : Writer(g) => g = Active) /\ (linked => SnapshotAtOpen.xet_hash = hub)
      <4>1. Active \in Handle /\ Active \in open_files /\ ~Terminal(Active)
        BY <3>5, ActiveWriter DEF ActiveChannels
      <4>2. Writer(Active)
        BY <4>1, ChannelTypes DEF FilesInv, Writer, Unfinished, Terminal, CommitState
      <4>3. \A g \in Handle : Writer(g) => g = Active
        BY <4>1, <4>2 DEF WriterInv
      <4>4. linked => ch[Active].snapshot.xet_hash = hub
        BY <3>4, <4>1, <4>2 DEF SnapshotInv
      <4>5. SnapshotAtOpen = ch[Active].snapshot
        BY <3>5 DEF SnapshotAtOpen
      <4> QED
        BY <4>3, <4>4, <4>5
    <3>6. ASSUME Active = None
          PROVE  (\A g \in Handle : Writer(g) => g = Active) /\ (linked => SnapshotAtOpen.xet_hash = hub)
      <4>1. dirty_generation = 0
        BY <1>22, <3>6 DEF OpenLocked, MissesWriter, TypeOK
      <4>2. \A g \in Handle : ~Writer(g)
        BY <2>3, <4>1 DEF WriterInv
      <4>3. linked => hub = xet_hash
        <5>1. ~\E c \in Client : pc[c] = "unlink_local"
          BY <3>4, Constants
        <5> QED
          BY <2>3, <4>1, <5>1 DEF CleanIsCommitted
      <4>4. SnapshotAtOpen.xet_hash = xet_hash
        BY <3>6 DEF SnapshotAtOpen
      <4> QED
        BY <4>2, <4>3, <4>4
    <3>7. (\A g \in Handle : Writer(g) => g = Active) /\ (linked => SnapshotAtOpen.xet_hash = hub)
      BY <3>5, <3>6
    <3>8. \A g \in Handle : Writer(g)' => g = call'[a].h
      BY <2>1, <3>2, <3>7 DEF Writer, Unfinished
    <3>9. linked' => call'[a].snapshot.xet_hash = hub'
      BY <2>1, <3>2, <3>7
    <3>10. ~Superseding(a)' /\ ~Hooking(a, {"start"})'
      BY <3>1 DEF Superseding, Hooking, HookPhases
    <3> QED
      BY <3>1, <3>8, <3>9, <3>10 DEF Shaped, PhaseShape, BytesShape
  <2> QED
    BY <2>2, <2>3
<1>23. ASSUME NEW a \in Client, OpenSetup(a)
      PROVE  Shaped(a)'
  <2>1. /\ a \in Actor /\ pc[a] = "open_setup" /\ UNCHANGED <<linked, hub, open_handles>>
        /\ pc'[a] = (IF call[a].h = None THEN "open_install" ELSE "open_supersede")
        /\ call' = [call EXCEPT ![a].new = NextHandle]
    BY <1>23, Constants, OpenSetupMove DEF Moves, OpenSetup, NoInodeChange, inodeVars, NoFilesChange
  <2>2. call'[a].h = call[a].h /\ call'[a].new = NextHandle /\ call'[a].after = call[a].after
    BY <2>1, CallTypes, Domains DEF Call
  <2>3. /\ \A g \in Handle : Writer(g) => g = call[a].h
        /\ linked => call[a].snapshot.xet_hash = hub
    BY <2>1 DEF PhaseInv, PhaseShape
  <2>4. NextHandle \in Handle \ open_handles
    BY <1>23, OpenSetupChannel DEF FilesInv
  <2>5. \A g \in Handle : Writer(g)' => Writer(g)
    BY <1>23, <2>1, <2>4, OpenSetupChannel DEF Writer, Unfinished
  <2>6. NewWriter(a)'
    BY <1>23, <2>1, <2>2, <2>3, <2>4, OpenSetupChannel DEF NewWriter
  <2>7. CASE call[a].h = None
    BY <2>1, <2>3, <2>5, <2>6, <2>7, Constants, LandInstall
  <2>8. CASE call[a].h # None
    <3>1. ~Superseding(a)' /\ ~Hooking(a, {"start"})' /\ pc'[a] = "open_supersede"
      BY <2>1, <2>8 DEF Superseding, Hooking, HookPhases
    <3>2. \A g \in Handle : Writer(g)' => g = call'[a].h
      BY <2>2, <2>3, <2>5
    <3> QED
      BY <2>6, <3>1, <3>2 DEF Shaped, PhaseShape, BytesShape
  <2> QED
    BY <2>7, <2>8
<1>24. ASSUME NEW a \in Client, OpenSetupFails(a)
      PROVE  Shaped(a)'
  BY <1>24, Constants, OpenSetupFailsMove, Plain DEF Returns
<1>25. ASSUME NEW a \in Client, OpenSupersede(a)
      PROVE  Shaped(a)'
  <2>1. /\ a \in Actor /\ pc[a] = "open_supersede" /\ pc'[a] = "fulfil" /\ call' = call
        /\ UNCHANGED <<linked, hub, open_handles>>
    BY <1>25, Constants, OpenSupersedeMove
      DEF Moves, OpenSupersede, NoInodeChange, inodeVars, NoFilesChange
  <2>2. call[a].after = "open_install" /\ call[a].h \in Handle
    BY <2>1, AtWork DEF CallInv, CallShape
  <2>3. NewWriter(a) /\ \A g \in Handle : Writer(g) => g = call[a].h
    BY <2>1 DEF PhaseInv, PhaseShape
  <2>4. Terminal(call[a].h)' /\ ~Writer(call[a].h)'
    BY <1>25, <2>1, OpenSupersedeChannel DEF Terminal, Writer, Unfinished
  <2>5. \A g \in Handle : ~Writer(g)'
    BY <1>25, <2>1, <2>3, <2>4, OpenSupersedeChannel DEF Writer, Unfinished
  <2>6. call[a].new # call[a].h
    BY <2>1, <2>2, <2>3, Constants DEF NewWriter, HandleInv, Terminal
  <2>7. NewWriter(a)'
    BY <1>25, <2>1, <2>3, <2>6, OpenSupersedeChannel DEF NewWriter
  <2> QED
    BY <2>1, <2>2, <2>4, <2>5, <2>7, LandEnd
<1>26. ASSUME NEW a \in Client, OpenInstall(a)
      PROVE  Shaped(a)'
  BY <1>26, Constants, OpenInstallMove, Plain DEF Returns
<1>27. ASSUME NEW a \in Client, UnlinkLocked(a)
      PROVE  Shaped(a)'
  <2>1. a \in Actor /\ pc[a] = "unlink_lock" /\ Holds(a) /\ UNCHANGED <<dirty_generation, hub>>
    BY <1>27, Constants, UnlinkLockedMove DEF UnlinkLocked, NoInodeChange, inodeVars
  <2>2. CASE UnlinkRefused
    BY <1>27, <2>1, <2>2, UnlinkLockedMove, Plain DEF Returns
  <2>3. CASE ~UnlinkRefused
    <3>1. pc'[a] = (IF xet_hash # Absent THEN "unlink_remote" ELSE "unlink_local")
      BY <1>27, <2>3, UnlinkLockedMove DEF Moves
    <3>2. \A b \in Actor : Critical(b) => b = a
      BY <2>1 DEF LockInv, Holds
    <3>3. ~Critical(a)
      BY <2>1 DEF Critical, Hooking, LockSteps, CommitPhases, HookPhases
    <3>4. \A b \in Actor : ~Superseding(b) /\ pc[b] # "unlink_local"
      BY <3>2, <3>3 DEF Superseding, Hooking, Critical, LockSteps
    <3>5. linked /\ st = "live" /\ dirty_generation = 0
      <4>1. linked /\ st = "live" /\ (dirty_generation > 0 => open_handles = {})
        BY <2>3 DEF UnlinkRefused
      <4>2. ~(dirty_generation > 0)
        BY <3>4, <4>1, Constants DEF WriterInv, Writer
      <4>3. dirty_generation \in Nat
        BY DEF TypeOK
      <4> QED
        BY <4>1, <4>2, <4>3
    <3>6. hub = xet_hash
      BY <3>4, <3>5, Constants DEF CleanIsCommitted
    <3>7. ~Superseding(a)' /\ ~Hooking(a, {"start"})'
      BY <3>1 DEF Superseding, Hooking, HookPhases
    <3> QED
      BY <2>1, <3>1, <3>5, <3>6, <3>7 DEF Shaped, PhaseShape, BytesShape
  <2> QED
    BY <2>2, <2>3
<1>28. ASSUME NEW a \in Client, UnlinkRemote(a)
      PROVE  Shaped(a)'
  <2>1. /\ a \in Actor /\ pc[a] = "unlink_remote" /\ pc'[a] = "unlink_local" /\ call' = call
        /\ hub' = Absent /\ dirty_generation' = dirty_generation
    BY <1>28, Constants, UnlinkRemoteMove DEF Moves, UnlinkRemote, inodeVars
  <2>2. dirty_generation' = 0
    BY <2>1 DEF PhaseInv, PhaseShape
  <2>3. ~Superseding(a)' /\ ~Hooking(a, {"start"})'
    BY <2>1 DEF Superseding, Hooking, HookPhases
  <2> QED
    BY <2>1, <2>2, <2>3 DEF Shaped, PhaseShape, BytesShape
<1>29. ASSUME NEW a \in Client, UnlinkRemoteFails(a)
      PROVE  Shaped(a)'
  BY <1>29, Constants, UnlinkRemoteFailsMove, Plain DEF Returns
<1>30. ASSUME NEW a \in Client, UnlinkLocal(a)
      PROVE  Shaped(a)'
  BY <1>30, Constants, UnlinkLocalMove, Plain DEF Returns
<1>31. ASSUME NEW a \in Client, OpenStart(a)
      PROVE  Shaped(a)'
  BY <1>31, Constants, OpenStartMove, Plain DEF Moves
<1>32. ASSUME NEW a \in Client, UnlinkStart(a)
      PROVE  Shaped(a)'
  BY <1>32, Constants, UnlinkStartMove, Plain DEF Moves, Begins
<1>33. ASSUME NEW a \in Client, LinkStart(a)
      PROVE  Shaped(a)'
  BY <1>33, Constants, LinkStartMove, Plain DEF Moves, Begins
<1>34. ASSUME NEW a \in Client, NEW h \in Handle, NEW dup \in BOOLEAN, FlushStart(a, h, dup)
      PROVE  Shaped(a)'
  BY <1>34, Constants, FlushStartMove, Plain DEF Moves, Begins
<1>35. ASSUME NEW a \in Client, NEW h \in Handle, ReleaseStart(a, h)
      PROVE  Shaped(a)'
  <2>1. a \in Actor /\ h \in open_files /\ ch' = ch /\ call'[a].h = h /\ call'[a].after = "release_check"
        /\ pc'[a] = IF Terminal(h) THEN "release_drop" ELSE "install"
    BY <1>35, Constants, ReleaseStartMove DEF Moves, Begins, ReleaseStart, Release
  <2>2. CASE Terminal(h)
    <3>1. Terminal(call[a].h)'
      BY <2>1, <2>2 DEF Terminal
    <3> QED
      BY <2>1, <2>2, <3>1, LandEnd
  <2> QED
    BY <2>1, <2>2, Plain
<1>36. ASSUME NEW h \in Handle, DrainFlush(h)
      PROVE  Shaped(h)'
  <2>1. h \in Actor
    BY Constants
  <2>2. \/ pc'[h] = "drain_release"
        \/ pc'[h] = "install" /\ call'[h].after = "demote"
        \/ pc'[h] = "commit_lock"
    BY <1>36, DrainFlushMove DEF Moves, Begins
  <2> QED
    BY <2>1, <2>2, Plain
<1>37. ASSUME NEW h \in Handle, DrainRelease(h)
      PROVE  Shaped(h)'
  <2>1. h \in Actor /\ h \in open_files /\ ch' = ch /\ call'[h].h = h /\ call'[h].after = "release_check"
        /\ pc'[h] = IF Terminal(h) THEN "release_drop" ELSE "install"
    BY <1>37, Constants, DrainReleaseMove DEF Moves, Begins, DrainRelease, Release
  <2>2. CASE Terminal(h)
    <3>1. Terminal(call[h].h)'
      BY <2>1, <2>2 DEF Terminal
    <3> QED
      BY <2>1, <2>2, <3>1, LandEnd
  <2> QED
    BY <2>1, <2>2, Plain
<1>38. ASSUME NEW h \in Handle, DrainReleased(h)
      PROVE  Shaped(h)'
  BY <1>38, Constants, DrainReleasedMove, Plain DEF Returns
<1>39. ASSUME DrainStart, NEW b \in Actor, b \notin Client
      PROVE  Shaped(b)'
  <2>1. pc'[b] \in {"idle", "drain_flush", "drain_join"}
    BY <1>39, DrainStartMove DEF Actor
  <2> QED
    BY <1>39, <2>1, Plain
<1>40. ASSUME DrainJoined
      PROVE  Shaped(Drain)'
  BY <1>40, Constants, DrainJoinedMove, Plain DEF Moves
<1>41. ASSUME DrainAwaited
      PROVE  Shaped(Drain)'
  BY <1>41, Constants, DrainAwaitedMove, Plain DEF Moves
<1>42. ASSUME NEW a \in Client, Create(a)
      PROVE  Stands(a)
  BY <1>42, CreateMove, Constants DEF Stands, SameCall
<1> QED
  BY <1>1, <1>2, <1>3, <1>4, <1>5, <1>6, <1>7, <1>8, <1>9, <1>10, <1>11, <1>12, <1>13, <1>14,
     <1>15, <1>16, <1>17, <1>18, <1>19, <1>20, <1>21, <1>22, <1>23, <1>24, <1>25, <1>26, <1>27,
     <1>28, <1>29, <1>30, <1>31, <1>32, <1>33, <1>34, <1>35, <1>36, <1>37, <1>38, <1>39, <1>40,
     <1>41, <1>42, WhoActs, Constants
    DEF Acts, CommitStep, NameStep, CallStart, DrainStep

\* A channel is given out once.
LEMMA UsedStable ==
    ASSUME TypeOK, CallInv, PhaseInv, Next
    PROVE  \A g \in Handle : ch[g].state # "unused" => ch'[g].state # "unused"
<1>1. ASSUME NEW a \in Handle \cup Client, InstallHook(a)
      PROVE  \A g \in Handle : ch[g].state # "unused" => ch'[g].state # "unused"
  BY <1>1, InstallHookChannel
<1>2. ASSUME NEW a \in Handle \cup Client, FulfilHook(a)
      PROVE  \A g \in Handle : ch[g].state # "unused" => ch'[g].state # "unused"
  BY <1>2, FulfilHookChannel
<1>3. ASSUME NEW a \in Handle \cup Client, RemoveHook(a)
      PROVE  \A g \in Handle : ch[g].state # "unused" => ch'[g].state # "unused"
  BY <1>3, RemoveHookChannel
<1>4. ASSUME NEW a \in Handle \cup Client, Demote(a)
      PROVE  \A g \in Handle : ch[g].state # "unused" => ch'[g].state # "unused"
  BY <1>4, DemoteChannel
<1>5. ASSUME NEW a \in Handle \cup Client, CommitStart(a)
      PROVE  \A g \in Handle : ch[g].state # "unused" => ch'[g].state # "unused"
  BY <1>5, CommitStartChannel
<1>6. ASSUME NEW a \in Handle \cup Client, CommitFinish(a)
      PROVE  \A g \in Handle : ch[g].state # "unused" => ch'[g].state # "unused"
  BY <1>6, CommitFinishChannel
<1>7. ASSUME NEW a \in Handle \cup Client, CommitHub(a)
      PROVE  \A g \in Handle : ch[g].state # "unused" => ch'[g].state # "unused"
  BY <1>7, CommitHubChannel
<1>8. ASSUME NEW a \in Handle \cup Client, CommitHubFails(a)
      PROVE  \A g \in Handle : ch[g].state # "unused" => ch'[g].state # "unused"
  BY <1>8, CommitHubFailsChannel
<1>9. ASSUME NEW a \in Handle \cup Client, CommitApply(a)
      PROVE  \A g \in Handle : ch[g].state # "unused" => ch'[g].state # "unused"
  BY <1>9, CommitApplyChannel
<1>10. ASSUME NEW a \in Handle \cup Client, CommitSucceeded(a)
      PROVE  \A g \in Handle : ch[g].state # "unused" => ch'[g].state # "unused"
  BY <1>10, CommitSucceededChannel
<1>11. ASSUME NEW a \in Handle \cup Client, ReleaseFailed(a)
      PROVE  \A g \in Handle : ch[g].state # "unused" => ch'[g].state # "unused"
  BY <1>11, ReleaseFailedChannel
<1>12. ASSUME NEW a \in Client, OpenSetup(a)
      PROVE  \A g \in Handle : ch[g].state # "unused" => ch'[g].state # "unused"
  BY <1>12, OpenSetupChannel
<1>13. ASSUME NEW a \in Client, OpenSupersede(a)
      PROVE  \A g \in Handle : ch[g].state # "unused" => ch'[g].state # "unused"
  BY <1>13, OpenSupersedeChannel
<1>14. ASSUME NEW a \in Client, OpenInstall(a)
      PROVE  \A g \in Handle : ch[g].state # "unused" => ch'[g].state # "unused"
  BY <1>14, OpenInstallChannel
<1>15. ASSUME NEW a \in Client, Create(a)
      PROVE  \A g \in Handle : ch[g].state # "unused" => ch'[g].state # "unused"
  BY <1>15, CreateChannel
<1>16. ASSUME NEW h \in Handle, Write(h)
      PROVE  \A g \in Handle : ch[g].state # "unused" => ch'[g].state # "unused"
  BY <1>16, WriteChannel
<1>17. ASSUME NEW h \in Handle, WorkerFails(h)
      PROVE  \A g \in Handle : ch[g].state # "unused" => ch'[g].state # "unused"
  BY <1>17, WorkerFailsChannel
<1> QED
  BY <1>1, <1>2, <1>3, <1>4, <1>5, <1>6, <1>7, <1>8, <1>9, <1>10, <1>11, <1>12, <1>13, <1>14,
     <1>15, <1>16, <1>17, ChannelFrame

\* How the open handles change.
FilesChange ==
    /\ \A h \in (open_files' \cup open_handles') \ open_handles :
        h \in Handle /\ ch[h].state \in {"unused", "Writing"} /\ ch'[h].state # "unused"
    /\ \A h \in open_handles \ open_handles' : Terminal(h) /\ h \notin open_files
    /\ open_files' \subseteq open_handles' /\ open_files' \cap open_handles \subseteq open_files
    /\ open_handles' \ open_handles \subseteq open_files'

\* Only a new channel is added, only one that has ended is taken away.
LEMMA FilesStep ==
    ASSUME TypeOK, CallInv, PhaseInv, HandleInv, FilesInv, Next
    PROVE  FilesChange
<1>1. ASSUME NEW a \in Handle \cup Client, ReleaseDrop(a)
      PROVE  FilesChange
  <2>1. a \in Actor /\ pc[a] = "release_drop" /\ call[a].h \in Handle
    BY <1>1, Constants, AtWork DEF ReleaseDrop
  <2>2. Terminal(call[a].h) /\ call[a].h \notin open_files
    BY <2>1 DEF PhaseInv, PhaseShape, HandleInv, CallInv, CallShape
  <2> QED
    BY <1>1, <2>2 DEF ReleaseDrop, FilesInv, FilesChange
<1>2. ASSUME NEW a \in Client, OpenInstall(a)
      PROVE  FilesChange
  <2>1. a \in Actor /\ NewWriter(a)
    BY <1>2, Constants DEF OpenInstall, PhaseInv, PhaseShape, Superseding
  <2>2. ch'[call[a].new].state = "Writing"
    BY <1>2, <2>1, OpenInstallChannel DEF NewWriter
  <2> QED
    BY <1>2, <2>1, <2>2 DEF OpenInstall, NewWriter, FilesInv, FilesChange
<1>3. ASSUME NEW a \in Client, Create(a)
      PROVE  FilesChange
  <2>1. NextHandle \in Handle /\ ch[NextHandle].state = "unused" /\ ch'[NextHandle].state = "Writing"
    BY <1>3, CreateChannel
  <2> QED
    BY <1>3, <2>1 DEF Create, FilesInv, FilesChange
<1>4. ASSUME NEW a \in Client, NEW h \in Handle, ReleaseStart(a, h)
      PROVE  FilesChange
  BY <1>4 DEF ReleaseStart, Release, FilesInv, FilesChange
<1>5. ASSUME NEW h \in Handle, DrainRelease(h)
      PROVE  FilesChange
  BY <1>5 DEF DrainRelease, Release, FilesInv, FilesChange
<1>6. CASE UNCHANGED <<open_files, open_handles>>
  BY <1>6 DEF FilesInv, FilesChange
<1> QED
  BY <1>1, <1>2, <1>3, <1>4, <1>5, <1>6, FilesFrame

\* What a call takes over.
LEMMA CallEffect ==
    ASSUME TypeOK, CallInv, DrainShape, Next, NEW b \in Actor
    PROVE  /\ call'[b].h \in {None, call[b].h} \cup open_files
           /\ call'[b].op = "release" =>
                \/ call[b].op = "release" /\ call'[b].h = call[b].h
                \/ call'[b].h \in open_files \ open_files'
           /\ call'[b].snapshot \in {call[b].snapshot, NoSnapshot, SnapshotAtOpen}
<1>1. ASSUME NEW a \in Handle \cup Client, InstallHook(a), b = a
      PROVE  /\ call'[b].h \in {None, call[b].h} \cup open_files
             /\ call'[b].op = "release" =>
                  \/ call[b].op = "release" /\ call'[b].h = call[b].h
                  \/ call'[b].h \in open_files \ open_files'
             /\ call'[b].snapshot \in {call[b].snapshot, NoSnapshot, SnapshotAtOpen}
  BY <1>1, InstallHookMove
<1>2. ASSUME NEW a \in Handle \cup Client, HookOnTheSpot(a), b = a
      PROVE  /\ call'[b].h \in {None, call[b].h} \cup open_files
             /\ call'[b].op = "release" =>
                  \/ call[b].op = "release" /\ call'[b].h = call[b].h
                  \/ call'[b].h \in open_files \ open_files'
             /\ call'[b].snapshot \in {call[b].snapshot, NoSnapshot, SnapshotAtOpen}
  BY <1>2, HookOnTheSpotMove
<1>3. ASSUME NEW a \in Handle \cup Client, FulfilHook(a), b = a
      PROVE  /\ call'[b].h \in {None, call[b].h} \cup open_files
             /\ call'[b].op = "release" =>
                  \/ call[b].op = "release" /\ call'[b].h = call[b].h
                  \/ call'[b].h \in open_files \ open_files'
             /\ call'[b].snapshot \in {call[b].snapshot, NoSnapshot, SnapshotAtOpen}
  BY <1>3, FulfilHookMove DEF SameCall
<1>4. ASSUME NEW a \in Handle \cup Client, RemoveHook(a), b = a
      PROVE  /\ call'[b].h \in {None, call[b].h} \cup open_files
             /\ call'[b].op = "release" =>
                  \/ call[b].op = "release" /\ call'[b].h = call[b].h
                  \/ call'[b].h \in open_files \ open_files'
             /\ call'[b].snapshot \in {call[b].snapshot, NoSnapshot, SnapshotAtOpen}
  BY <1>4, RemoveHookMove
<1>5. ASSUME NEW a \in Handle \cup Client, Demote(a), b = a
      PROVE  /\ call'[b].h \in {None, call[b].h} \cup open_files
             /\ call'[b].op = "release" =>
                  \/ call[b].op = "release" /\ call'[b].h = call[b].h
                  \/ call'[b].h \in open_files \ open_files'
             /\ call'[b].snapshot \in {call[b].snapshot, NoSnapshot, SnapshotAtOpen}
  BY <1>5, DemoteMove DEF Returns, NoCall
<1>6. ASSUME NEW a \in Handle \cup Client, CommitLocked(a), b = a
      PROVE  /\ call'[b].h \in {None, call[b].h} \cup open_files
             /\ call'[b].op = "release" =>
                  \/ call[b].op = "release" /\ call'[b].h = call[b].h
                  \/ call'[b].h \in open_files \ open_files'
             /\ call'[b].snapshot \in {call[b].snapshot, NoSnapshot, SnapshotAtOpen}
  BY <1>6, CommitLockedMove, CallTypes, Domains DEF Call, Begins, Returns, NoCall
<1>7. ASSUME NEW a \in Handle \cup Client, CommitUnlock(a), b = a
      PROVE  /\ call'[b].h \in {None, call[b].h} \cup open_files
             /\ call'[b].op = "release" =>
                  \/ call[b].op = "release" /\ call'[b].h = call[b].h
                  \/ call'[b].h \in open_files \ open_files'
             /\ call'[b].snapshot \in {call[b].snapshot, NoSnapshot, SnapshotAtOpen}
  BY <1>7, CommitUnlockMove DEF Returns, NoCall
<1>8. ASSUME NEW a \in Handle \cup Client, CommitStart(a), b = a
      PROVE  /\ call'[b].h \in {None, call[b].h} \cup open_files
             /\ call'[b].op = "release" =>
                  \/ call[b].op = "release" /\ call'[b].h = call[b].h
                  \/ call'[b].h \in open_files \ open_files'
             /\ call'[b].snapshot \in {call[b].snapshot, NoSnapshot, SnapshotAtOpen}
  BY <1>8, CommitStartMove, CallTypes, Domains DEF Call, Begins, Returns, NoCall
<1>9. ASSUME NEW a \in Handle \cup Client, CommitFinish(a), b = a
      PROVE  /\ call'[b].h \in {None, call[b].h} \cup open_files
             /\ call'[b].op = "release" =>
                  \/ call[b].op = "release" /\ call'[b].h = call[b].h
                  \/ call'[b].h \in open_files \ open_files'
             /\ call'[b].snapshot \in {call[b].snapshot, NoSnapshot, SnapshotAtOpen}
  BY <1>9, CommitFinishMove, CallTypes, Domains DEF Call, Begins, Returns, NoCall
<1>10. ASSUME NEW a \in Handle \cup Client, CommitHub(a), b = a
      PROVE  /\ call'[b].h \in {None, call[b].h} \cup open_files
             /\ call'[b].op = "release" =>
                  \/ call[b].op = "release" /\ call'[b].h = call[b].h
                  \/ call'[b].h \in open_files \ open_files'
             /\ call'[b].snapshot \in {call[b].snapshot, NoSnapshot, SnapshotAtOpen}
  BY <1>10, CommitHubMove
<1>11. ASSUME NEW a \in Handle \cup Client, CommitHubFails(a), b = a
      PROVE  /\ call'[b].h \in {None, call[b].h} \cup open_files
             /\ call'[b].op = "release" =>
                  \/ call[b].op = "release" /\ call'[b].h = call[b].h
                  \/ call'[b].h \in open_files \ open_files'
             /\ call'[b].snapshot \in {call[b].snapshot, NoSnapshot, SnapshotAtOpen}
  BY <1>11, CommitHubFailsMove
<1>12. ASSUME NEW a \in Handle \cup Client, CommitApply(a), b = a
      PROVE  /\ call'[b].h \in {None, call[b].h} \cup open_files
             /\ call'[b].op = "release" =>
                  \/ call[b].op = "release" /\ call'[b].h = call[b].h
                  \/ call'[b].h \in open_files \ open_files'
             /\ call'[b].snapshot \in {call[b].snapshot, NoSnapshot, SnapshotAtOpen}
  BY <1>12, CommitApplyMove
<1>13. ASSUME NEW a \in Handle \cup Client, CommitSucceeded(a), b = a
      PROVE  /\ call'[b].h \in {None, call[b].h} \cup open_files
             /\ call'[b].op = "release" =>
                  \/ call[b].op = "release" /\ call'[b].h = call[b].h
                  \/ call'[b].h \in open_files \ open_files'
             /\ call'[b].snapshot \in {call[b].snapshot, NoSnapshot, SnapshotAtOpen}
  BY <1>13, CommitSucceededMove, CallTypes, Domains DEF Call, Begins, Returns, NoCall
<1>14. ASSUME NEW a \in Handle \cup Client, CommitFailed(a), b = a
      PROVE  /\ call'[b].h \in {None, call[b].h} \cup open_files
             /\ call'[b].op = "release" =>
                  \/ call[b].op = "release" /\ call'[b].h = call[b].h
                  \/ call'[b].h \in open_files \ open_files'
             /\ call'[b].snapshot \in {call[b].snapshot, NoSnapshot, SnapshotAtOpen}
  BY <1>14, CommitFailedMove DEF Returns, NoCall
<1>15. ASSUME NEW a \in Handle \cup Client, ReleaseRetry(a), b = a
      PROVE  /\ call'[b].h \in {None, call[b].h} \cup open_files
             /\ call'[b].op = "release" =>
                  \/ call[b].op = "release" /\ call'[b].h = call[b].h
                  \/ call'[b].h \in open_files \ open_files'
             /\ call'[b].snapshot \in {call[b].snapshot, NoSnapshot, SnapshotAtOpen}
  BY <1>15, ReleaseRetryMove, CallTypes, Domains DEF Call, Begins, Returns, NoCall
<1>16. ASSUME NEW a \in Handle \cup Client, ReleaseFailed(a), b = a
      PROVE  /\ call'[b].h \in {None, call[b].h} \cup open_files
             /\ call'[b].op = "release" =>
                  \/ call[b].op = "release" /\ call'[b].h = call[b].h
                  \/ call'[b].h \in open_files \ open_files'
             /\ call'[b].snapshot \in {call[b].snapshot, NoSnapshot, SnapshotAtOpen}
  BY <1>16, ReleaseFailedMove, CallTypes, Domains DEF Call, Begins, Returns, NoCall
<1>17. ASSUME NEW a \in Handle \cup Client, ReleaseCheck(a), b = a
      PROVE  /\ call'[b].h \in {None, call[b].h} \cup open_files
             /\ call'[b].op = "release" =>
                  \/ call[b].op = "release" /\ call'[b].h = call[b].h
                  \/ call'[b].h \in open_files \ open_files'
             /\ call'[b].snapshot \in {call[b].snapshot, NoSnapshot, SnapshotAtOpen}
  BY <1>17, ReleaseCheckMove
<1>18. ASSUME NEW a \in Handle \cup Client, ReleaseLocked(a), b = a
      PROVE  /\ call'[b].h \in {None, call[b].h} \cup open_files
             /\ call'[b].op = "release" =>
                  \/ call[b].op = "release" /\ call'[b].h = call[b].h
                  \/ call'[b].h \in open_files \ open_files'
             /\ call'[b].snapshot \in {call[b].snapshot, NoSnapshot, SnapshotAtOpen}
  BY <1>18, ReleaseLockedMove
<1>19. ASSUME NEW a \in Handle \cup Client, ReleaseUnlock(a), b = a
      PROVE  /\ call'[b].h \in {None, call[b].h} \cup open_files
             /\ call'[b].op = "release" =>
                  \/ call[b].op = "release" /\ call'[b].h = call[b].h
                  \/ call'[b].h \in open_files \ open_files'
             /\ call'[b].snapshot \in {call[b].snapshot, NoSnapshot, SnapshotAtOpen}
  BY <1>19, ReleaseUnlockMove
<1>20. ASSUME NEW a \in Handle \cup Client, ReleaseDrop(a), b = a
      PROVE  /\ call'[b].h \in {None, call[b].h} \cup open_files
             /\ call'[b].op = "release" =>
                  \/ call[b].op = "release" /\ call'[b].h = call[b].h
                  \/ call'[b].h \in open_files \ open_files'
             /\ call'[b].snapshot \in {call[b].snapshot, NoSnapshot, SnapshotAtOpen}
  BY <1>20, ReleaseDropMove DEF Returns, NoCall
<1>21. ASSUME NEW a \in Client, OpenAwaited(a), b = a
      PROVE  /\ call'[b].h \in {None, call[b].h} \cup open_files
             /\ call'[b].op = "release" =>
                  \/ call[b].op = "release" /\ call'[b].h = call[b].h
                  \/ call'[b].h \in open_files \ open_files'
             /\ call'[b].snapshot \in {call[b].snapshot, NoSnapshot, SnapshotAtOpen}
  BY <1>21, OpenAwaitedMove
<1>22. ASSUME NEW a \in Client, OpenLocked(a), b = a
      PROVE  /\ call'[b].h \in {None, call[b].h} \cup open_files
             /\ call'[b].op = "release" =>
                  \/ call[b].op = "release" /\ call'[b].h = call[b].h
                  \/ call'[b].h \in open_files \ open_files'
             /\ call'[b].snapshot \in {call[b].snapshot, NoSnapshot, SnapshotAtOpen}
  <2>1. CASE st # "live"
    BY <1>22, <2>1, OpenLockedMove DEF Returns, NoCall
  <2>2. CASE st = "live"
    <3>1. call' = [call EXCEPT ![a].h = Active, ![a].snapshot = SnapshotAtOpen]
      BY <1>22, <2>2, OpenLockedMove
    <3>2. Active \in {None} \cup open_files
      BY ActiveWriter DEF ActiveChannels
    <3>3. call'[a].h = Active /\ call'[a].op = call[a].op /\ call'[a].snapshot = SnapshotAtOpen
      BY <1>22, <3>1, CallTypes, Domains DEF Call
    <3>4. call[a].op # "release"
      BY <1>22 DEF OpenLocked, CallInv, CallShape
    <3> QED
      BY <1>22, <3>2, <3>3, <3>4
  <2> QED
    BY <2>1, <2>2
<1>23. ASSUME NEW a \in Client, OpenSetup(a), b = a
      PROVE  /\ call'[b].h \in {None, call[b].h} \cup open_files
             /\ call'[b].op = "release" =>
                  \/ call[b].op = "release" /\ call'[b].h = call[b].h
                  \/ call'[b].h \in open_files \ open_files'
             /\ call'[b].snapshot \in {call[b].snapshot, NoSnapshot, SnapshotAtOpen}
  BY <1>23, OpenSetupMove, CallTypes, Domains DEF Call, Begins, Returns, NoCall
<1>24. ASSUME NEW a \in Client, OpenSetupFails(a), b = a
      PROVE  /\ call'[b].h \in {None, call[b].h} \cup open_files
             /\ call'[b].op = "release" =>
                  \/ call[b].op = "release" /\ call'[b].h = call[b].h
                  \/ call'[b].h \in open_files \ open_files'
             /\ call'[b].snapshot \in {call[b].snapshot, NoSnapshot, SnapshotAtOpen}
  BY <1>24, OpenSetupFailsMove DEF Returns, NoCall
<1>25. ASSUME NEW a \in Client, OpenSupersede(a), b = a
      PROVE  /\ call'[b].h \in {None, call[b].h} \cup open_files
             /\ call'[b].op = "release" =>
                  \/ call[b].op = "release" /\ call'[b].h = call[b].h
                  \/ call'[b].h \in open_files \ open_files'
             /\ call'[b].snapshot \in {call[b].snapshot, NoSnapshot, SnapshotAtOpen}
  BY <1>25, OpenSupersedeMove
<1>26. ASSUME NEW a \in Client, OpenInstall(a), b = a
      PROVE  /\ call'[b].h \in {None, call[b].h} \cup open_files
             /\ call'[b].op = "release" =>
                  \/ call[b].op = "release" /\ call'[b].h = call[b].h
                  \/ call'[b].h \in open_files \ open_files'
             /\ call'[b].snapshot \in {call[b].snapshot, NoSnapshot, SnapshotAtOpen}
  BY <1>26, OpenInstallMove DEF Returns, NoCall
<1>27. ASSUME NEW a \in Client, UnlinkLocked(a), b = a
      PROVE  /\ call'[b].h \in {None, call[b].h} \cup open_files
             /\ call'[b].op = "release" =>
                  \/ call[b].op = "release" /\ call'[b].h = call[b].h
                  \/ call'[b].h \in open_files \ open_files'
             /\ call'[b].snapshot \in {call[b].snapshot, NoSnapshot, SnapshotAtOpen}
  BY <1>27, UnlinkLockedMove, CallTypes, Domains DEF Call, Begins, Returns, NoCall
<1>28. ASSUME NEW a \in Client, UnlinkRemote(a), b = a
      PROVE  /\ call'[b].h \in {None, call[b].h} \cup open_files
             /\ call'[b].op = "release" =>
                  \/ call[b].op = "release" /\ call'[b].h = call[b].h
                  \/ call'[b].h \in open_files \ open_files'
             /\ call'[b].snapshot \in {call[b].snapshot, NoSnapshot, SnapshotAtOpen}
  BY <1>28, UnlinkRemoteMove
<1>29. ASSUME NEW a \in Client, UnlinkRemoteFails(a), b = a
      PROVE  /\ call'[b].h \in {None, call[b].h} \cup open_files
             /\ call'[b].op = "release" =>
                  \/ call[b].op = "release" /\ call'[b].h = call[b].h
                  \/ call'[b].h \in open_files \ open_files'
             /\ call'[b].snapshot \in {call[b].snapshot, NoSnapshot, SnapshotAtOpen}
  BY <1>29, UnlinkRemoteFailsMove DEF Returns, NoCall
<1>30. ASSUME NEW a \in Client, UnlinkLocal(a), b = a
      PROVE  /\ call'[b].h \in {None, call[b].h} \cup open_files
             /\ call'[b].op = "release" =>
                  \/ call[b].op = "release" /\ call'[b].h = call[b].h
                  \/ call'[b].h \in open_files \ open_files'
             /\ call'[b].snapshot \in {call[b].snapshot, NoSnapshot, SnapshotAtOpen}
  BY <1>30, UnlinkLocalMove DEF Returns, NoCall
<1>31. ASSUME NEW a \in Client, OpenStart(a), b = a
      PROVE  /\ call'[b].h \in {None, call[b].h} \cup open_files
             /\ call'[b].op = "release" =>
                  \/ call[b].op = "release" /\ call'[b].h = call[b].h
                  \/ call'[b].h \in open_files \ open_files'
             /\ call'[b].snapshot \in {call[b].snapshot, NoSnapshot, SnapshotAtOpen}
  BY <1>31, OpenStartMove, CallTypes, Domains DEF Call, Begins, Returns, NoCall
<1>32. ASSUME NEW a \in Client, UnlinkStart(a), b = a
      PROVE  /\ call'[b].h \in {None, call[b].h} \cup open_files
             /\ call'[b].op = "release" =>
                  \/ call[b].op = "release" /\ call'[b].h = call[b].h
                  \/ call'[b].h \in open_files \ open_files'
             /\ call'[b].snapshot \in {call[b].snapshot, NoSnapshot, SnapshotAtOpen}
  BY <1>32, UnlinkStartMove, CallTypes, Domains DEF Call, Begins, Returns, NoCall
<1>33. ASSUME NEW a \in Client, LinkStart(a), b = a
      PROVE  /\ call'[b].h \in {None, call[b].h} \cup open_files
             /\ call'[b].op = "release" =>
                  \/ call[b].op = "release" /\ call'[b].h = call[b].h
                  \/ call'[b].h \in open_files \ open_files'
             /\ call'[b].snapshot \in {call[b].snapshot, NoSnapshot, SnapshotAtOpen}
  <2>1. Active \in open_files
    BY <1>33, ActiveWriter DEF LinkStart, ActiveChannels
  <2> QED
    BY <1>33, <2>1, LinkStartMove DEF Begins
<1>34. ASSUME NEW a \in Client, NEW h \in Handle, NEW dup \in BOOLEAN, FlushStart(a, h, dup), b = a
      PROVE  /\ call'[b].h \in {None, call[b].h} \cup open_files
             /\ call'[b].op = "release" =>
                  \/ call[b].op = "release" /\ call'[b].h = call[b].h
                  \/ call'[b].h \in open_files \ open_files'
             /\ call'[b].snapshot \in {call[b].snapshot, NoSnapshot, SnapshotAtOpen}
  BY <1>34, FlushStartMove, CallTypes, Domains DEF Call, Begins, Returns, NoCall
<1>35. ASSUME NEW a \in Client, NEW h \in Handle, ReleaseStart(a, h), b = a
      PROVE  /\ call'[b].h \in {None, call[b].h} \cup open_files
             /\ call'[b].op = "release" =>
                  \/ call[b].op = "release" /\ call'[b].h = call[b].h
                  \/ call'[b].h \in open_files \ open_files'
             /\ call'[b].snapshot \in {call[b].snapshot, NoSnapshot, SnapshotAtOpen}
  <2>1. h \in open_files \ open_files'
    BY <1>35 DEF ReleaseStart, Release
  <2> QED
    BY <1>35, <2>1, ReleaseStartMove DEF Begins
<1>36. ASSUME NEW h \in Handle, DrainFlush(h), b = h
      PROVE  /\ call'[b].h \in {None, call[b].h} \cup open_files
             /\ call'[b].op = "release" =>
                  \/ call[b].op = "release" /\ call'[b].h = call[b].h
                  \/ call'[b].h \in open_files \ open_files'
             /\ call'[b].snapshot \in {call[b].snapshot, NoSnapshot, SnapshotAtOpen}
  BY <1>36, DrainFlushMove, CallTypes, Domains DEF Call, Begins, Returns, NoCall
<1>37. ASSUME NEW h \in Handle, DrainRelease(h), b = h
      PROVE  /\ call'[b].h \in {None, call[b].h} \cup open_files
             /\ call'[b].op = "release" =>
                  \/ call[b].op = "release" /\ call'[b].h = call[b].h
                  \/ call'[b].h \in open_files \ open_files'
             /\ call'[b].snapshot \in {call[b].snapshot, NoSnapshot, SnapshotAtOpen}
  <2>1. h \in open_files \ open_files'
    BY <1>37 DEF DrainRelease, Release
  <2> QED
    BY <1>37, <2>1, DrainReleaseMove DEF Begins
<1>38. ASSUME NEW h \in Handle, DrainReleased(h), b = h
      PROVE  /\ call'[b].h \in {None, call[b].h} \cup open_files
             /\ call'[b].op = "release" =>
                  \/ call[b].op = "release" /\ call'[b].h = call[b].h
                  \/ call'[b].h \in open_files \ open_files'
             /\ call'[b].snapshot \in {call[b].snapshot, NoSnapshot, SnapshotAtOpen}
  BY <1>38, DrainReleasedMove DEF Returns, NoCall
<1>39. ASSUME DrainJoined, b = Drain
      PROVE  /\ call'[b].h \in {None, call[b].h} \cup open_files
             /\ call'[b].op = "release" =>
                  \/ call[b].op = "release" /\ call'[b].h = call[b].h
                  \/ call'[b].h \in open_files \ open_files'
             /\ call'[b].snapshot \in {call[b].snapshot, NoSnapshot, SnapshotAtOpen}
  BY <1>39, DrainJoinedMove, CallTypes, Domains DEF Call, Begins, Returns, NoCall
<1>40. ASSUME DrainAwaited, b = Drain
      PROVE  /\ call'[b].h \in {None, call[b].h} \cup open_files
             /\ call'[b].op = "release" =>
                  \/ call[b].op = "release" /\ call'[b].h = call[b].h
                  \/ call'[b].h \in open_files \ open_files'
             /\ call'[b].snapshot \in {call[b].snapshot, NoSnapshot, SnapshotAtOpen}
  BY <1>40, DrainAwaitedMove
<1>41. CASE DrainStart \/ (\E c \in Client : Create(c)) \/ Stands(b)
  BY <1>41, DrainStartMove, CreateMove DEF Stands, SameCall
<1> QED
  BY <1>1, <1>2, <1>3, <1>4, <1>5, <1>6, <1>7, <1>8, <1>9, <1>10, <1>11, <1>12, <1>13, <1>14,
     <1>15, <1>16, <1>17, <1>18, <1>19, <1>20, <1>21, <1>22, <1>23, <1>24, <1>25, <1>26, <1>27,
     <1>28, <1>29, <1>30, <1>31, <1>32, <1>33, <1>34, <1>35, <1>36, <1>37, <1>38, <1>39, <1>40,
     <1>41, WhoActs, Constants
    DEF Acts, CommitStep, NameStep, CallStart, DrainStep

\* An upload is kept only of a channel that is written no more.
LEMMA KeptStep ==
    ASSUME TypeOK, CallInv, PhaseInv, BytesInv, Next
    PROVE  \A g \in Handle : UploadKept(g)'
<1>1. ASSUME NEW a \in Handle \cup Client, InstallHook(a)
      PROVE  \A g \in Handle : UploadKept(g)'
  BY <1>1, InstallHookChannel, Domains DEF UploadKept, BytesInv
<1>2. ASSUME NEW a \in Handle \cup Client, FulfilHook(a)
      PROVE  \A g \in Handle : UploadKept(g)'
  BY <1>2, FulfilHookChannel, Domains DEF UploadKept, BytesInv
<1>3. ASSUME NEW a \in Handle \cup Client, RemoveHook(a)
      PROVE  \A g \in Handle : UploadKept(g)'
  BY <1>3, RemoveHookChannel, Domains DEF UploadKept, BytesInv
<1>4. ASSUME NEW a \in Handle \cup Client, Demote(a)
      PROVE  \A g \in Handle : UploadKept(g)'
  BY <1>4, DemoteChannel, Domains DEF UploadKept, BytesInv
<1>5. ASSUME NEW a \in Handle \cup Client, CommitStart(a)
      PROVE  \A g \in Handle : UploadKept(g)'
  BY <1>5, CommitStartChannel, Domains DEF UploadKept, BytesInv
<1>6. ASSUME NEW a \in Handle \cup Client, CommitFinish(a)
      PROVE  \A g \in Handle : UploadKept(g)'
  BY <1>6, CommitFinishChannel, Domains DEF UploadKept, BytesInv
<1>7. ASSUME NEW a \in Handle \cup Client, CommitHub(a)
      PROVE  \A g \in Handle : UploadKept(g)'
  BY <1>7, CommitHubChannel, Domains DEF UploadKept, BytesInv
<1>8. ASSUME NEW a \in Handle \cup Client, CommitHubFails(a)
      PROVE  \A g \in Handle : UploadKept(g)'
  <2>1. a \in Actor /\ pc[a] = "hub"
    BY <1>8, Constants DEF CommitHubFails
  <2>2. ch[call[a].h].state = "Committing" /\ call[a].info = ch[call[a].h].sent
    BY <2>1 DEF PhaseInv, PhaseShape, BytesInv, BytesShape
  <2> QED
    BY <1>8, <2>2, CommitHubFailsChannel DEF UploadKept, BytesInv
<1>9. ASSUME NEW a \in Handle \cup Client, CommitApply(a)
      PROVE  \A g \in Handle : UploadKept(g)'
  BY <1>9, CommitApplyChannel, Domains DEF UploadKept, BytesInv
<1>10. ASSUME NEW a \in Handle \cup Client, CommitSucceeded(a)
      PROVE  \A g \in Handle : UploadKept(g)'
  BY <1>10, CommitSucceededChannel, Domains DEF UploadKept, BytesInv
<1>11. ASSUME NEW a \in Handle \cup Client, ReleaseFailed(a)
      PROVE  \A g \in Handle : UploadKept(g)'
  BY <1>11, ReleaseFailedChannel, Domains DEF UploadKept, BytesInv
<1>12. ASSUME NEW a \in Client, OpenSetup(a)
      PROVE  \A g \in Handle : UploadKept(g)'
  BY <1>12, OpenSetupChannel, Domains DEF UploadKept, BytesInv
<1>13. ASSUME NEW a \in Client, OpenSupersede(a)
      PROVE  \A g \in Handle : UploadKept(g)'
  BY <1>13, OpenSupersedeChannel, Domains DEF UploadKept, BytesInv
<1>14. ASSUME NEW a \in Client, OpenInstall(a)
      PROVE  \A g \in Handle : UploadKept(g)'
  BY <1>14, OpenInstallChannel, Domains DEF UploadKept, BytesInv
<1>15. ASSUME NEW a \in Client, Create(a)
      PROVE  \A g \in Handle : UploadKept(g)'
  BY <1>15, CreateChannel, Domains DEF UploadKept, BytesInv
<1>16. ASSUME NEW h \in Handle, Write(h)
      PROVE  \A g \in Handle : UploadKept(g)'
  BY <1>16, WriteChannel, Domains DEF UploadKept, BytesInv
<1>17. ASSUME NEW h \in Handle, WorkerFails(h)
      PROVE  \A g \in Handle : UploadKept(g)'
  BY <1>17, WorkerFailsChannel, Domains DEF UploadKept, BytesInv
<1> QED
  BY <1>1, <1>2, <1>3, <1>4, <1>5, <1>6, <1>7, <1>8, <1>9, <1>10, <1>11, <1>12, <1>13, <1>14,
     <1>15, <1>16, <1>17, ChannelFrame DEF UploadKept, BytesInv

\* Only create() links the file.
LEMMA LinkedStep ==
    ASSUME Next
    PROVE  (linked' => linked) \/ \E c \in Client : Create(c)
<1>1. ASSUME NEW a \in Handle \cup Client,
             CommitApply(a) \/ CommitHub(a) \/ ReleaseFailed(a) \/ ReleaseDrop(a)
      PROVE  linked' => linked
  BY <1>1 DEF CommitApply, CommitHub, inodeVars, ReleaseFailed, RevertInode, ReleaseDrop
<1>2. ASSUME NEW a \in Client, OpenInstall(a) \/ UnlinkRemote(a) \/ UnlinkLocal(a)
      PROVE  linked' => linked
  BY <1>2 DEF OpenInstall, UnlinkRemote, inodeVars, UnlinkLocal
<1> QED
  BY <1>1, <1>2, InodeFrame

\* What is committed of a linked file is stored.
LEMMA StoredWhileLinked ==
    ASSUME TypeOK, CallInv, FilesInv, PhaseInv, BytesInv, CommittedIsStored, Next
    PROVE  \A k \in Handle : linked /\ ch'[k].state = "Committed" => ch'[k].stored = ch'[k].sent
<1>1. ASSUME NEW a \in Handle \cup Client, InstallHook(a)
      PROVE  \A k \in Handle : linked /\ ch'[k].state = "Committed" => ch'[k].stored = ch'[k].sent
  BY <1>1, InstallHookChannel DEF CommittedIsStored
<1>2. ASSUME NEW a \in Handle \cup Client, FulfilHook(a)
      PROVE  \A k \in Handle : linked /\ ch'[k].state = "Committed" => ch'[k].stored = ch'[k].sent
  BY <1>2, FulfilHookChannel DEF CommittedIsStored
<1>3. ASSUME NEW a \in Handle \cup Client, RemoveHook(a)
      PROVE  \A k \in Handle : linked /\ ch'[k].state = "Committed" => ch'[k].stored = ch'[k].sent
  BY <1>3, RemoveHookChannel DEF CommittedIsStored
<1>4. ASSUME NEW a \in Handle \cup Client, Demote(a)
      PROVE  \A k \in Handle : linked /\ ch'[k].state = "Committed" => ch'[k].stored = ch'[k].sent
  BY <1>4, DemoteChannel DEF CommittedIsStored
<1>5. ASSUME NEW a \in Handle \cup Client, CommitStart(a)
      PROVE  \A k \in Handle : linked /\ ch'[k].state = "Committed" => ch'[k].stored = ch'[k].sent
  BY <1>5, CommitStartChannel DEF CommittedIsStored
<1>6. ASSUME NEW a \in Handle \cup Client, CommitFinish(a)
      PROVE  \A k \in Handle : linked /\ ch'[k].state = "Committed" => ch'[k].stored = ch'[k].sent
  BY <1>6, CommitFinishChannel DEF CommittedIsStored
<1>7. ASSUME NEW a \in Handle \cup Client, CommitHub(a)
      PROVE  \A k \in Handle : linked /\ ch'[k].state = "Committed" => ch'[k].stored = ch'[k].sent
  <2>1. a \in Actor /\ pc[a] = "hub" /\ linked' = linked
    BY <1>7, Constants DEF CommitHub, inodeVars
  <2>2. ch[call[a].h].state = "Committing"
    BY <2>1 DEF PhaseInv, PhaseShape
  <2> QED
    BY <1>7, <2>1, <2>2, CommitHubChannel DEF CommittedIsStored
<1>8. ASSUME NEW a \in Handle \cup Client, CommitHubFails(a)
      PROVE  \A k \in Handle : linked /\ ch'[k].state = "Committed" => ch'[k].stored = ch'[k].sent
  BY <1>8, CommitHubFailsChannel DEF CommittedIsStored
<1>9. ASSUME NEW a \in Handle \cup Client, CommitApply(a)
      PROVE  \A k \in Handle : linked /\ ch'[k].state = "Committed" => ch'[k].stored = ch'[k].sent
  <2>1. a \in Actor /\ pc[a] = "apply" /\ linked' = linked
    BY <1>9, Constants DEF CommitApply
  <2>2. ch[call[a].h].stored = ch[call[a].h].sent
    BY <2>1 DEF BytesInv, BytesShape
  <2> QED
    BY <1>9, <2>1, <2>2, CommitApplyChannel DEF CommittedIsStored
<1>10. ASSUME NEW a \in Handle \cup Client, CommitSucceeded(a)
      PROVE  \A k \in Handle : linked /\ ch'[k].state = "Committed" => ch'[k].stored = ch'[k].sent
  <2>1. a \in Actor /\ pc[a] = "succeeded" /\ linked' = linked
    BY <1>10, Constants DEF CommitSucceeded, NoInodeChange, inodeVars
  <2>2. linked => ch[call[a].h].stored = ch[call[a].h].sent
    BY <2>1 DEF BytesInv, BytesShape
  <2> QED
    BY <1>10, <2>1, <2>2, CommitSucceededChannel DEF CommittedIsStored
<1>11. ASSUME NEW a \in Handle \cup Client, ReleaseFailed(a)
      PROVE  \A k \in Handle : linked /\ ch'[k].state = "Committed" => ch'[k].stored = ch'[k].sent
  BY <1>11, ReleaseFailedChannel DEF CommittedIsStored
<1>12. ASSUME NEW a \in Client, OpenSetup(a)
      PROVE  \A k \in Handle : linked /\ ch'[k].state = "Committed" => ch'[k].stored = ch'[k].sent
  BY <1>12, OpenSetupChannel DEF CommittedIsStored
<1>13. ASSUME NEW a \in Client, OpenSupersede(a)
      PROVE  \A k \in Handle : linked /\ ch'[k].state = "Committed" => ch'[k].stored = ch'[k].sent
  BY <1>13, OpenSupersedeChannel DEF CommittedIsStored
<1>14. ASSUME NEW a \in Client, OpenInstall(a)
      PROVE  \A k \in Handle : linked /\ ch'[k].state = "Committed" => ch'[k].stored = ch'[k].sent
  BY <1>14, OpenInstallChannel DEF CommittedIsStored
<1>15. ASSUME NEW h \in Handle, Write(h)
      PROVE  \A k \in Handle : linked /\ ch'[k].state = "Committed" => ch'[k].stored = ch'[k].sent
  BY <1>15, WriteChannel DEF CommittedIsStored
<1>16. ASSUME NEW h \in Handle, WorkerFails(h)
      PROVE  \A k \in Handle : linked /\ ch'[k].state = "Committed" => ch'[k].stored = ch'[k].sent
  BY <1>16, WorkerFailsChannel DEF CommittedIsStored
<1>17. CASE UNCHANGED ch
  BY <1>17 DEF CommittedIsStored
<1>18. CASE \E c \in Client : Create(c)
  <2>1. ~linked
    BY <1>18 DEF Create, FilesInv
  <2> QED
    BY <2>1
<1> QED
  BY <1>1, <1>2, <1>3, <1>4, <1>5, <1>6, <1>7, <1>8, <1>9, <1>10, <1>11, <1>12, <1>13, <1>14,
     <1>15, <1>16, <1>17, <1>18, ChannelFrame

\* So it stays after create().
LEMMA StoredStep ==
    ASSUME TypeOK, CallInv, FilesInv, PhaseInv, BytesInv, CommittedIsStored, Next
    PROVE  CommittedIsStored'
<1>1. CASE \E c \in Client : Create(c)
  <2>1. \A h \in Handle : ch[h].state = "unused"
    BY <1>1 DEF Create, FilesInv
  <2> QED
    BY <1>1, <2>1, CreateChannel DEF CommittedIsStored
<1>2. CASE linked' => linked
  BY <1>2, StoredWhileLinked DEF CommittedIsStored
<1> QED
  BY <1>1, <1>2, LinkedStep

------------------------------------------------------------------------------
(* The step preserves the invariant, part by part. *)

\* What the calls know.
LEMMA PhaseStep ==
    ASSUME TypeOK, LockInv, CallInv, HandleInv, FilesInv, WriterInv, PhaseInv, BytesInv,
           SnapshotInv, DrainShape, CleanIsCommitted, "ghost" \notin Events, Next
    PROVE  PhaseInv' /\ \A b \in Actor : BytesShape(b)'
<1>1. \A b \in Actor : Stands(b) => PhaseShape(b)' /\ BytesShape(b)'
  BY PhaseElsewhere, BytesElsewhere DEF Stands
<1> QED
  BY <1>1, OwnShape DEF PhaseInv, Shaped

\* Before create() nothing but the drain takes a step.
LEMMA BeforeCreate ==
    ASSUME TypeOK, FilesInv, DrainShape, st = "none", Next
    PROVE  \/ \E c \in Client : Create(c)
           \/ /\ UNCHANGED <<st, linked, dirty_generation, xet_hash, hub>>
              /\ \A h \in Handle : ch'[h].state = ch[h].state
              /\ \A a \in Handle \cup Client : pc'[a] = "idle"
<1>1. /\ open_files = {} /\ \A a \in Handle \cup Client : pc[a] = "idle"
      /\ Handle \subseteq Actor /\ Client \subseteq Actor
  BY Constants, Domains DEF FilesInv
<1>2. \A a \in Handle \cup Client : ~CommitStep(a)
  BY <1>1 DEF CommitStep, InstallHook, HookOnTheSpot, FulfilHook, RemoveHook, Demote, CommitLocked,
     CommitUnlock, CommitStart, CommitFinish, CommitHub, CommitHubFails, CommitApply, CommitSucceeded,
     CommitFailed, ReleaseRetry, ReleaseFailed, ReleaseCheck, ReleaseLocked, ReleaseUnlock, ReleaseDrop
<1>3. \A c \in Client : ~NameStep(c)
  BY <1>1
    DEF NameStep, OpenAwaited, OpenLocked, OpenSetup, OpenSetupFails, OpenSupersede, OpenInstall,
     UnlinkLocked, UnlinkRemote, UnlinkRemoteFails, UnlinkLocal
<1>4. \A c \in Client : CallStart(c) => Create(c)
  BY <1>1 DEF CallStart, OpenStart, UnlinkStart, LinkStart, ReleaseStart, Release, FlushStart
<1>5. \A h \in Handle : ~DrainFlush(h) /\ ~DrainRelease(h) /\ ~DrainReleased(h) /\ ~Write(h)
  BY <1>1 DEF DrainFlush, DrainRelease, DrainReleased, Write
<1>6. ASSUME NEW h \in Handle, WorkerFails(h)
      PROVE  /\ UNCHANGED <<st, linked, dirty_generation, xet_hash, hub, pc>>
             /\ \A g \in Handle : ch'[g].state = ch[g].state
  BY <1>6, WorkerFailsChannel DEF WorkerFails, NoInodeChange, inodeVars
<1>7. ASSUME DrainStart \/ DrainStep
      PROVE  /\ UNCHANGED <<st, linked, dirty_generation, xet_hash, hub, ch>>
             /\ \A a \in Handle \cup Client : pc'[a] = "idle"
  <2>1. UNCHANGED <<st, linked, dirty_generation, xet_hash, hub, ch>>
    BY <1>7 DEF DrainStart, DrainStep, DrainJoined, DrainAwaited, NoInodeChange, inodeVars
  <2>2. CASE DrainStart
    BY <1>1, <2>1, <2>2, DrainStartMove
  <2>3. CASE DrainStep
    BY <1>1, <2>1, <2>3, DrainJoinedMove, DrainAwaitedMove, Constants DEF DrainStep, Moves
  <2> QED
    BY <1>7, <2>2, <2>3
<1> QED
  BY <1>1, <1>2, <1>3, <1>4, <1>5, <1>6, <1>7 DEF Next, FutureStep

\* The files and the inode.
LEMMA FilesInvStep ==
    ASSUME TypeOK, CallInv, PhaseInv, HandleInv, FilesInv, DrainShape, Next
    PROVE  FilesInv'
<1>1. /\ open_files' \subseteq open_handles'
      /\ \A h \in open_handles' : ch'[h].state # "unused"
  BY FilesStep, UsedStable, Domains DEF FilesChange, FilesInv
<1>2. st' = "live" \/ ~linked'
  <2>1. ASSUME NEW a \in Handle \cup Client, CommitApply(a) \/ CommitHub(a)
        PROVE  UNCHANGED <<st, linked>>
    BY <2>1 DEF CommitApply, CommitHub, inodeVars
  <2>2. ASSUME NEW a \in Handle \cup Client, ReleaseFailed(a)
        PROVE  UNCHANGED <<st, linked>> \/ ~linked'
    BY <2>2 DEF ReleaseFailed, RevertInode
  <2>3. ASSUME NEW a \in Handle \cup Client, ReleaseDrop(a)
        PROVE  linked' = linked /\ (st' = st \/ ~linked)
    BY <2>3 DEF ReleaseDrop
  <2>4. ASSUME NEW a \in Client, OpenInstall(a) \/ UnlinkRemote(a)
        PROVE  UNCHANGED <<st, linked>>
    BY <2>4 DEF OpenInstall, UnlinkRemote, inodeVars
  <2>5. ASSUME NEW a \in Client, UnlinkLocal(a) \/ Create(a)
        PROVE  st' = "live" \/ ~linked'
    BY <2>5 DEF UnlinkLocal, Create
  <2> QED
    BY <2>1, <2>2, <2>3, <2>4, <2>5, InodeFrame DEF FilesInv
<1>3. ASSUME st' = "none"
      PROVE  /\ dirty_generation' = 0 /\ xet_hash' = Absent /\ hub' = Absent
             /\ \A h \in Handle : ch'[h].state = "unused"
             /\ \A a \in Handle \cup Client : pc'[a] = "idle"
  <2>1. ASSUME NEW a \in Handle \cup Client,
               CommitApply(a) \/ CommitHub(a) \/ ReleaseFailed(a) \/ ReleaseDrop(a)
        PROVE  st = "none"
    BY <1>3, <2>1 DEF CommitApply, CommitHub, inodeVars, ReleaseFailed, RevertInode, ReleaseDrop
  <2>2. ASSUME NEW a \in Client, OpenInstall(a) \/ UnlinkRemote(a) \/ UnlinkLocal(a) \/ Create(a)
        PROVE  st = "none"
    BY <1>3, <2>2 DEF OpenInstall, UnlinkRemote, inodeVars, UnlinkLocal, Create
  <2>3. st = "none"
    BY <1>3, <2>1, <2>2, InodeFrame
  <2>4. ~\E c \in Client : Create(c)
    BY <1>3 DEF Create
  <2> QED
    BY <2>3, <2>4, BeforeCreate DEF FilesInv
<1> QED
  BY <1>1, <1>2, <1>3 DEF FilesInv

\* The handles the calls work on.
LEMMA HandleStep ==
    ASSUME TypeOK, CallInv, PhaseInv, HandleInv, FilesInv, DrainShape, Next
    PROVE  HandleInv'
<1>1. FilesChange /\ open_files \subseteq open_handles /\ open_handles \subseteq Handle /\ None \notin Handle
  BY FilesStep, Constants, Domains DEF FilesInv
<1>2. ASSUME NEW b \in Actor, call'[b].h # None
      PROVE  call'[b].h \in open_handles' \/ Terminal(call[b].h)'
  <2>1. call'[b].h \in open_handles \/ (call'[b].h = call[b].h /\ Terminal(call[b].h) /\ call[b].h \in Handle)
    <3>1. call'[b].h = call[b].h \/ call'[b].h \in open_files
      BY <1>2, CallEffect
    <3>2. call[b].h # None => call[b].h \in Handle /\ (call[b].h \in open_handles \/ Terminal(call[b].h))
      BY CallTypes DEF HandleInv
    <3> QED
      BY <1>1, <1>2, <3>1, <3>2
  <2>2. CASE call'[b].h \in open_handles
    <3>1. PICK g \in Handle : g = call'[b].h /\ g \in open_handles
      BY <1>1, <2>2
    <3>2. g \in open_handles' \/ Terminal(g)
      BY <1>1, <3>1 DEF FilesChange
    <3>3. g \in open_handles' \/ Terminal(g)'
      BY <3>2, TerminalStable
    <3> QED
      BY <3>1, <3>3 DEF Terminal
  <2>3. CASE call'[b].h = call[b].h /\ Terminal(call[b].h) /\ call[b].h \in Handle
    BY <2>3, TerminalStable
  <2> QED
    BY <2>1, <2>2, <2>3, CallTypes
<1>3. ASSUME NEW b \in Actor, call'[b].op = "release"
      PROVE  call'[b].h \notin open_files'
  <2>1. CASE call[b].op = "release" /\ call'[b].h = call[b].h
    <3>1. call[b].h \in Handle /\ call[b].h \notin open_files
      BY <2>1, CallTypes DEF CallInv, CallShape, HandleInv
    <3>2. call[b].h \in open_handles \/ Terminal(call[b].h)
      BY <3>1, <1>1 DEF HandleInv
    <3> QED
      BY <1>1, <2>1, <3>1, <3>2 DEF FilesChange, Terminal
  <2>2. CASE call'[b].h \in open_files \ open_files'
    BY <2>2
  <2> QED
    BY <1>3, <2>1, <2>2, CallEffect
<1> QED
  BY <1>2, <1>3 DEF HandleInv

\* Who is at a step of the critical section stays there, or takes that very step.
LEMMA ApplyStays ==
    ASSUME TypeOK, DrainShape, Next, NEW b \in Actor, pc[b] = "apply"
    PROVE  pc'[b] = "apply" \/ (b \in Handle \cup Client /\ CommitApply(b))
<1>1. ~CallStart(b) /\ ~DrainFlush(b) /\ ~DrainRelease(b) /\ ~DrainReleased(b)
  BY DEF CallStart, Create, OpenStart, UnlinkStart, LinkStart, ReleaseStart, FlushStart,
     DrainFlush, DrainRelease, DrainReleased
<1>2. ~NameStep(b)
  BY DEF NameStep, OpenAwaited, OpenLocked, OpenSetup, OpenSetupFails, OpenSupersede, OpenInstall,
     UnlinkLocked, UnlinkRemote, UnlinkRemoteFails, UnlinkLocal
<1>3. CommitStep(b) => CommitApply(b)
  BY DEF CommitStep, InstallHook, HookOnTheSpot, FulfilHook, RemoveHook, Demote, CommitLocked,
     CommitUnlock, CommitStart, CommitFinish, CommitHub, CommitHubFails, CommitSucceeded,
     CommitFailed, ReleaseRetry, ReleaseFailed, ReleaseCheck, ReleaseLocked, ReleaseUnlock, ReleaseDrop
<1>4. b \in Handle => ~DrainStart
  BY DrainStartMove
<1>5. b # Drain
  BY DEF DrainShape
<1> QED
  BY <1>1, <1>2, <1>3, <1>4, <1>5, WhoActs DEF Acts, Stands

\* So does an unlink() before its last step ...
LEMMA UnlinkLocalStays ==
    ASSUME TypeOK, DrainShape, Next, NEW b \in Client, pc[b] = "unlink_local"
    PROVE  pc'[b] = "unlink_local" \/ UnlinkLocal(b)
<1>1. ~CallStart(b)
  BY DEF CallStart, Create, OpenStart, UnlinkStart, LinkStart, ReleaseStart, FlushStart
<1>2. NameStep(b) => UnlinkLocal(b)
  BY DEF NameStep, OpenAwaited, OpenLocked, OpenSetup, OpenSetupFails, OpenSupersede, OpenInstall,
     UnlinkLocked, UnlinkRemote, UnlinkRemoteFails
<1>3. ~CommitStep(b)
  BY DEF CommitStep, InstallHook, HookOnTheSpot, FulfilHook, RemoveHook, Demote, CommitLocked,
     CommitUnlock, CommitStart, CommitFinish, CommitHub, CommitHubFails, CommitApply, CommitSucceeded,
     CommitFailed, ReleaseRetry, ReleaseFailed, ReleaseCheck, ReleaseLocked, ReleaseUnlock, ReleaseDrop
<1> QED
  BY <1>1, <1>2, <1>3, WhoActs, Constants DEF Acts, Stands

\* ... and an open() that has superseded a writer.
LEMMA SupersedingStays ==
    ASSUME TypeOK, CallInv, DrainShape, Next, NEW b \in Client, Superseding(b)
    PROVE  Superseding(b)' \/ OpenInstall(b)
<1>1. pc[b] = "open_install" \/ (pc[b] \in {"fulfil", "unhook"} /\ call[b].after = "open_install")
  BY Constants DEF Superseding, CallInv, CallShape, Hooking
<1>2. ~CallStart(b)
  BY <1>1 DEF CallStart, Create, OpenStart, UnlinkStart, LinkStart, ReleaseStart, FlushStart
<1>3. NameStep(b) => OpenInstall(b)
  BY <1>1 DEF NameStep, OpenAwaited, OpenLocked, OpenSetup, OpenSetupFails, OpenSupersede,
     UnlinkLocked, UnlinkRemote, UnlinkRemoteFails, UnlinkLocal
<1>4. CommitStep(b) => FulfilHook(b) \/ RemoveHook(b)
  BY <1>1 DEF CommitStep, InstallHook, HookOnTheSpot, Demote, CommitLocked,
     CommitUnlock, CommitStart, CommitFinish, CommitHub, CommitHubFails, CommitApply, CommitSucceeded,
     CommitFailed, ReleaseRetry, ReleaseFailed, ReleaseCheck, ReleaseLocked, ReleaseUnlock, ReleaseDrop
<1>5. CASE FulfilHook(b)
  <2>1. pc[b] = "fulfil" /\ pc'[b] \in {call[b].after, "unhook"} /\ call'[b].after = call[b].after
    BY <1>5, Constants, FulfilHookMove DEF Moves, SameCall
  <2> QED
    BY <1>1, <2>1 DEF Superseding, Hooking, HookPhases
<1>6. CASE RemoveHook(b)
  <2>1. pc[b] = "unhook" /\ pc'[b] = call[b].after
    BY <1>6, Constants, RemoveHookMove DEF Moves
  <2> QED
    BY <1>1, <2>1 DEF Superseding, Hooking, HookPhases
<1>7. CASE Stands(b)
  BY <1>7 DEF Stands, SameCall, Superseding, Hooking
<1> QED
  BY <1>2, <1>3, <1>4, <1>5, <1>6, <1>7, WhoActs, Constants DEF Acts

\* A step that adds no writer, and takes none away from a linked file.
LEMMA WriterCalm ==
    ASSUME WriterInv, UNCHANGED <<dirty_generation, xet_hash>>, linked' => linked, st' = "live" => st = "live",
           \A h \in Handle : Writer(h)' => Writer(h) /\ ch'[h].generation = ch[h].generation,
           linked' => \A h \in Handle : Writer(h) => Writer(h)',
           \A c \in Client : Superseding(c) => Superseding(c)'
    PROVE  WriterInv'
BY DEF WriterInv, OwnsGeneration

\* What the steps that end a writer leave.
LEMMA LastWriter ==
    ASSUME TypeOK, CallInv, PhaseInv, FilesInv, WriterInv, NEW a \in Handle \cup Client,
           CommitApply(a) \/ ReleaseFailed(a) \/ OpenSupersede(a)
    PROVE  \A h \in Handle : ~Writer(h)'
<1>1. a \in Actor /\ pc[a] \in {"apply", "failed", "open_supersede"} /\ call[a].h \in Handle
  BY Constants, AtWork DEF CommitApply, ReleaseFailed, OpenSupersede, CommitPhases
<1>2. UNCHANGED open_handles
  BY DEF CommitApply, ReleaseFailed, OpenSupersede, NoFilesChange
<1>3. \A h \in Handle : Writer(h) => h = call[a].h
  BY <1>1 DEF PhaseInv, PhaseShape, WriterInv
<1>4. ch'[call[a].h].state \in {"Committed", "Failed"} /\ \A g \in Handle \ {call[a].h} : ch'[g] = ch[g]
  <2>1. CASE CommitApply(a)
    BY <2>1, CommitApplyChannel
  <2>2. CASE ReleaseFailed(a)
    BY <2>2, ReleaseFailedChannel
  <2>3. CASE OpenSupersede(a)
    <3>1. a \in Client
      BY <1>1, <2>3 DEF OpenSupersede, CallInv, CallShape
    <3> QED
      BY <2>3, <3>1, OpenSupersedeChannel
  <2> QED
    BY <2>1, <2>2, <2>3
<1> QED
  BY <1>2, <1>3, <1>4 DEF Writer, Unfinished

\* The steps that add or end no writer.
LEMMA LoudCalm ==
    ASSUME TypeOK, CallInv, HandleInv, PhaseInv, FilesInv, BytesInv, NEW a \in Handle \cup Client,
           \/ CommitStart(a) \/ CommitHub(a) \/ CommitHubFails(a) \/ CommitSucceeded(a)
           \/ a \in Client /\ (OpenSetup(a) \/ UnlinkRemote(a) \/ UnlinkLocal(a))
    PROVE  /\ UNCHANGED <<dirty_generation, xet_hash, open_handles>> /\ (linked' => linked) /\ (st' = "live" => st = "live")
           /\ \A h \in Handle : Writer(h)' => Writer(h) /\ ch'[h].generation = ch[h].generation
                                             /\ ch'[h].snapshot = ch[h].snapshot
           /\ linked' => \A h \in Handle : Writer(h) => Writer(h)'
<1>1. /\ UNCHANGED <<dirty_generation, xet_hash, open_handles>>
      /\ (linked' => linked) /\ (st' = "live" => st = "live")
  BY
    DEF CommitStart, CommitHub, CommitHubFails, CommitSucceeded, OpenSetup, UnlinkRemote,
         UnlinkLocal,
     NoInodeChange, inodeVars, NoFilesChange
<1>2. CASE CommitStart(a)
  <2>1. Writer(call[a].h)
    BY <1>2, Constants DEF CommitStart, PhaseInv, PhaseShape
  <2> QED
    BY <1>1, <1>2, <2>1, CommitStartChannel DEF Writer, Unfinished
<1>3. CASE CommitHub(a) \/ CommitHubFails(a)
  BY <1>1, <1>3, CommitHubChannel, CommitHubFailsChannel DEF Writer, Unfinished
<1>4. CASE CommitSucceeded(a)
  <2>1. linked => ~Writer(call[a].h)
    BY <1>4, Constants DEF CommitSucceeded, BytesInv, BytesShape, Writer, Unfinished
  <2> QED
    BY <1>1, <1>4, <2>1, CommitSucceededChannel DEF Writer, Unfinished
<1>5. CASE a \in Client /\ OpenSetup(a)
  <2>1. NextHandle \notin open_handles
    BY <1>5, OpenSetupChannel DEF FilesInv
  <2> QED
    BY <1>1, <1>5, <2>1, OpenSetupChannel DEF Writer, Unfinished
<1>6. CASE a \in Client /\ (UnlinkRemote(a) \/ UnlinkLocal(a))
  BY <1>1, <1>6 DEF UnlinkRemote, UnlinkLocal, Writer, Unfinished
<1> QED
  BY <1>2, <1>3, <1>4, <1>5, <1>6

\* The writer.
LEMMA WriterStep ==
    ASSUME TypeOK, LockInv, CallInv, HandleInv, FilesInv, WriterInv, PhaseInv, BytesInv, DrainShape, Next
    PROVE  WriterInv'
<1>1. CASE \E c \in Client : OpenInstall(c)
  <2>1. PICK c \in Client : OpenInstall(c)
    BY <1>1
  <2>2. NewWriter(c) /\ (\A g \in Handle : ~Writer(g)) /\ dirty_generation \in Nat
    BY <2>1, Constants DEF OpenInstall, PhaseInv, PhaseShape, Superseding, TypeOK
  <2>3. PICK n \in Handle : n = call[c].new
    BY <2>2 DEF NewWriter
  <2>4. ch'[n].state = "Writing" /\ (\A g \in Handle \ {n} : ch'[g] = ch[g])
        /\ open_handles' = open_handles \cup {n}
    BY <2>1, <2>2, <2>3, OpenInstallChannel DEF OpenInstall, NewWriter
  <2>5. (\A g \in Handle : Writer(g)' => g = n) /\ Writer(n)'
    BY <2>2, <2>4 DEF Writer, Unfinished
  <2>6. CASE st = "live"
    <3>1. /\ dirty_generation' = dirty_generation + 1 /\ xet_hash' = Absent
          /\ ch'[n].generation = dirty_generation + 1
      BY <2>1, <2>3, <2>6, OpenInstallChannel DEF OpenInstall
    <3>2. dirty_generation' > 0 /\ OwnsGeneration(n)'
      BY <2>2, <3>1 DEF OwnsGeneration
    <3> QED
      BY <2>5, <3>1, <3>2 DEF WriterInv
  <2>7. CASE st # "live"
    <3>1. st' # "live" /\ ~linked' /\ UNCHANGED <<dirty_generation, xet_hash>>
      BY <2>1, <2>7 DEF OpenInstall, FilesInv
    <3> QED
      BY <2>5, <3>1 DEF WriterInv
  <2> QED
    BY <2>6, <2>7
<1>2. CASE \E c \in Client : Create(c)
  <2>1. PICK c \in Client : Create(c)
    BY <1>2
  <2>2. PICK n \in Handle : n = NextHandle
    BY <2>1, CreateChannel
  <2>3. /\ ch'[n].state = "Writing" /\ ch'[n].generation = 1 /\ \A g \in Handle \ {n} : ch'[g] = ch[g]
        /\ open_handles' = open_handles \cup {n}
    BY <2>1, <2>2, CreateChannel DEF Create
  <2>4. \A g \in Handle : ch[g].state = "unused"
    BY <2>1 DEF Create, FilesInv
  <2>5. (\A g \in Handle : Writer(g)' => g = n) /\ Writer(n)'
    BY <2>3, <2>4 DEF Writer, Unfinished
  <2>6. dirty_generation' = 1 /\ xet_hash' = Absent /\ OwnsGeneration(n)'
    BY <2>1, <2>3 DEF Create, FilesInv, OwnsGeneration
  <2> QED
    BY <2>5, <2>6 DEF WriterInv
<1>3. ASSUME \A c \in Client : ~OpenInstall(c)
      PROVE  \A c \in Client : Superseding(c) => Superseding(c)'
  BY <1>3, SupersedingStays
<1>4. CASE Quiet /\ \A c \in Client : ~OpenInstall(c)
  BY <1>3, <1>4, WriterCalm DEF Quiet
<1>5. CASE /\ \A c \in Client : ~OpenInstall(c)
           /\ \E a \in Handle \cup Client :
                \/ CommitStart(a) \/ CommitHub(a) \/ CommitHubFails(a) \/ CommitSucceeded(a)
                \/ a \in Client /\ (OpenSetup(a) \/ UnlinkRemote(a) \/ UnlinkLocal(a))
  BY <1>3, <1>5, LoudCalm, WriterCalm
<1>6. CASE \E a \in Handle \cup Client : CommitApply(a) \/ ReleaseFailed(a)
  <2>1. PICK a \in Handle \cup Client : CommitApply(a) \/ ReleaseFailed(a)
    BY <1>6
  <2>2. linked /\ st = "live" /\ Writer(call[a].h) /\ call[a].h \in Handle
    <3>1. a \in Actor /\ pc[a] \in {"apply", "failed"}
      BY <2>1, Constants DEF CommitApply, ReleaseFailed
    <3> QED
      BY <3>1, AtWork DEF PhaseInv, PhaseShape, FilesInv, CommitPhases
  <2>3. \A h \in Handle : ~Writer(h)'
    BY <2>1, LastWriter
  <2>4. dirty_generation' = 0 \/ (~linked' /\ UNCHANGED <<dirty_generation, xet_hash>>)
    <3>1. CASE CommitApply(a)
      <4>1. OwnsGeneration(call[a].h)
        BY <2>2 DEF WriterInv
      <4> QED
        BY <2>2, <3>1, <4>1 DEF CommitApply
    <3>2. CASE ReleaseFailed(a)
      BY <2>2, <3>2 DEF ReleaseFailed, RevertInode
    <3> QED
      BY <2>1, <3>1, <3>2
  <2> QED
    BY <2>3, <2>4 DEF WriterInv
<1>7. CASE \E c \in Client : OpenSupersede(c)
  <2>1. PICK c \in Client : OpenSupersede(c)
    BY <1>7
  <2>2. UNCHANGED <<linked, dirty_generation, xet_hash>> /\ \A h \in Handle : ~Writer(h)'
    BY Zenon, <2>1, LastWriter DEF OpenSupersede, NoInodeChange, inodeVars
  <2>3. Superseding(c)'
    <3>1. pc'[c] = "fulfil" /\ call' = call /\ call[c].after = "open_install"
      BY <2>1, OpenSupersedeMove, Constants DEF Moves, CallInv, CallShape
    <3> QED
      BY <3>1 DEF Superseding, Hooking, HookPhases
  <2> QED
    BY <2>2, <2>3 DEF WriterInv
<1> QED
  BY <1>1, <1>2, <1>4, <1>5, <1>6, <1>7, QuietStep DEF Loud

\* A writer's snapshot is what open() gave it.
LEMMA SnapshotChange ==
    ASSUME TypeOK, CallInv, PhaseInv, Next
    PROVE  \A h \in Handle :
               \/ ch'[h].snapshot = ch[h].snapshot \/ ch'[h].snapshot = NoSnapshot
               \/ \E c \in Client : ch'[h].snapshot = call[c].snapshot
<1>1. ASSUME NEW a \in Handle \cup Client,
             \/ InstallHook(a) \/ FulfilHook(a) \/ RemoveHook(a) \/ Demote(a) \/ CommitStart(a)
             \/ CommitFinish(a) \/ CommitHub(a) \/ CommitHubFails(a) \/ CommitApply(a)
             \/ CommitSucceeded(a) \/ ReleaseFailed(a)
      PROVE  \A h \in Handle : ch'[h].snapshot = ch[h].snapshot
  BY <1>1, InstallHookChannel, FulfilHookChannel, RemoveHookChannel, DemoteChannel,
     CommitStartChannel,
     CommitFinishChannel, CommitHubChannel, CommitHubFailsChannel, CommitApplyChannel,
     CommitSucceededChannel, ReleaseFailedChannel
<1>2. ASSUME NEW a \in Client, OpenSupersede(a) \/ OpenInstall(a)
      PROVE  \A h \in Handle : ch'[h].snapshot = ch[h].snapshot
  BY <1>2, OpenSupersedeChannel, OpenInstallChannel
<1>3. ASSUME NEW a \in Client, OpenSetup(a)
      PROVE  \A h \in Handle : ch'[h].snapshot \in {ch[h].snapshot, call[a].snapshot}
  BY <1>3, OpenSetupChannel
<1>4. ASSUME NEW a \in Client, Create(a)
      PROVE  \A h \in Handle : ch'[h].snapshot \in {ch[h].snapshot, NoSnapshot}
  BY <1>4, CreateChannel
<1>5. ASSUME NEW h \in Handle, Write(h) \/ WorkerFails(h)
      PROVE  \A g \in Handle : ch'[g].snapshot = ch[g].snapshot
  BY <1>5, WriteChannel, WorkerFailsChannel
<1> QED
  BY <1>1, <1>2, <1>3, <1>4, <1>5, ChannelFrame

\* Who holds the lock is alone in the critical section.
LEMMA Alone ==
    ASSUME LockInv, NEW a \in Actor, pc[a] \in LockSteps, NEW b \in Actor, pc[b] \in LockSteps
    PROVE  a = b
BY DEF LockInv, Critical, Holds

\* The snapshots.
LEMMA SnapshotStep ==
    ASSUME TypeOK, LockInv, CallInv, HandleInv, FilesInv, WriterInv, PhaseInv, BytesInv, SnapshotInv,
           DrainShape, Next
    PROVE  SnapshotInv'
<1>1. /\ NoSnapshot.xet_hash = Absent
      /\ ~SnapshotAtOpen.existed_before => SnapshotAtOpen.xet_hash = Absent
  <2>1. CASE Active = None
    BY <2>1 DEF NoSnapshot, SnapshotAtOpen
  <2>2. CASE Active # None
    <3>1. Active \in Handle /\ SnapshotAtOpen = ch[Active].snapshot
      BY <2>2, ActiveWriter DEF SnapshotAtOpen
    <3> QED
      BY <3>1 DEF NoSnapshot, SnapshotInv
  <2> QED
    BY <2>1, <2>2
<1>2. \A h \in Handle : ~ch'[h].snapshot.existed_before => ch'[h].snapshot.xet_hash = Absent
  BY <1>1, SnapshotChange, Constants DEF SnapshotInv
<1>3. \A a \in Actor : ~call'[a].snapshot.existed_before => call'[a].snapshot.xet_hash = Absent
  BY <1>1, CallEffect DEF SnapshotInv
<1>4. ASSUME linked', \A a \in Actor : pc'[a] # "apply"
      PROVE  \A h \in Handle : Writer(h)' => ch'[h].snapshot.xet_hash = hub'
  <2>1. CASE \E a \in Handle \cup Client : CommitApply(a) \/ ReleaseFailed(a)
    BY <2>1, LastWriter
  <2>2. CASE \E c \in Client : OpenSupersede(c)
    BY <2>2, LastWriter
  <2>3. ASSUME ~\E c \in Client : Create(c), ~\E a \in Handle \cup Client : CommitApply(a)
        PROVE  linked /\ \A h \in Handle : Writer(h) => ch[h].snapshot.xet_hash = hub
    <3>1. linked /\ \A a \in Actor : pc[a] # "apply"
      BY <1>4, <2>3, LinkedStep, ApplyStays
    <3> QED
      BY <3>1 DEF SnapshotInv
  <2>4. CASE Quiet /\ (~\E c \in Client : Create(c)) /\ (~\E a \in Handle \cup Client : CommitApply(a))
    BY <2>3, <2>4 DEF Quiet
  <2>5. CASE \E c \in Client : Create(c)
    <3>1. PICK c \in Client : Create(c)
      BY <2>5
    <3>2. \A g \in Handle : ch[g].state = "unused"
      BY <3>1 DEF Create, FilesInv
    <3>3. \A g \in Handle : Writer(g)' => ch'[g].snapshot = NoSnapshot
      BY <3>1, <3>2, CreateChannel DEF Writer, Unfinished
    <3>4. hub' = Absent
      BY <3>1 DEF Create, FilesInv
    <3> QED
      BY <1>1, <3>3, <3>4
  <2>6. ASSUME NEW a \in Handle \cup Client,
               \/ CommitStart(a) \/ CommitHubFails(a) \/ CommitSucceeded(a)
               \/ a \in Client /\ (OpenSetup(a) \/ UnlinkLocal(a)),
               ~\E c \in Client : Create(c), ~\E b \in Handle \cup Client : CommitApply(b)
        PROVE  \A h \in Handle : Writer(h)' => ch'[h].snapshot.xet_hash = hub'
    <3>1. hub' = hub
      BY <2>6
        DEF CommitStart, CommitHubFails, CommitSucceeded, OpenSetup, UnlinkLocal, NoInodeChange
    <3>2. \A h \in Handle : Writer(h)' => Writer(h) /\ ch'[h].snapshot = ch[h].snapshot
      BY <2>6, LoudCalm
    <3> QED
      BY <2>3, <2>6, <3>1, <3>2
  <2>7. ASSUME NEW a \in Handle \cup Client, CommitHub(a)
        PROVE  FALSE
    BY <1>4, <2>7, CommitHubMove, Constants DEF Moves
  <2>8. ASSUME NEW a \in Client, UnlinkRemote(a)
        PROVE  \A h \in Handle : ~Writer(h)'
    <3>1. dirty_generation = 0 /\ linked /\ st = "live"
      BY <1>4, <2>8, Constants DEF UnlinkRemote, PhaseInv, PhaseShape, FilesInv, inodeVars
    <3>2. \A h \in Handle : ~Writer(h)
      BY <3>1 DEF WriterInv
    <3> QED
      BY <2>8, <3>2, LoudCalm
  <2>9. ASSUME NEW a \in Client, OpenInstall(a),
               ~\E c \in Client : Create(c), ~\E b \in Handle \cup Client : CommitApply(b)
        PROVE  \A h \in Handle : Writer(h)' => ch'[h].snapshot.xet_hash = hub'
    <3>1. NewWriter(a) /\ \A g \in Handle : ~Writer(g)
      BY <2>9, Constants DEF OpenInstall, PhaseInv, PhaseShape, Superseding
    <3>2. \A g \in Handle : Writer(g)' => g = call[a].new
      BY <2>9, <3>1, OpenInstallChannel DEF OpenInstall, Writer, Unfinished
    <3>3. hub' = hub /\ ch'[call[a].new].snapshot.xet_hash = hub
      BY <2>3, <2>9, <3>1, OpenInstallChannel DEF OpenInstall, NewWriter
    <3> QED
      BY <3>2, <3>3
  <2>10. CASE (~\E c \in Client : Create(c)) /\ (~\E b \in Handle \cup Client : CommitApply(b))
    BY <2>1, <2>2, <2>4, <2>6, <2>7, <2>8, <2>9, <2>10, QuietStep DEF Loud
  <2> QED
    BY <2>1, <2>5, <2>10
<1> QED
  BY <1>2, <1>3, <1>4 DEF SnapshotInv

\* A clean file is the one the Hub has.
LEMMA CleanStep ==
    ASSUME TypeOK, LockInv, CallInv, HandleInv, FilesInv, WriterInv, PhaseInv, BytesInv, SnapshotInv,
           DrainShape, CleanIsCommitted, Next
    PROVE  CleanIsCommitted'
<1> SUFFICES ASSUME st' = "live", linked', dirty_generation' = 0, \A c \in Client : pc'[c] # "unlink_local"
             PROVE  hub' = xet_hash'
  BY DEF CleanIsCommitted
<1>1. CASE \E c \in Client : Create(c) \/ UnlinkLocal(c)
  BY <1>1 DEF Create, UnlinkLocal
<1>2. ASSUME NEW a \in Client, OpenInstall(a)
      PROVE  FALSE
  <2>1. dirty_generation \in Nat /\ st = "live"
    BY <1>2 DEF TypeOK, OpenInstall
  <2> QED
    BY <1>2, <2>1 DEF OpenInstall
<1>3. ASSUME NEW a \in Client, UnlinkRemote(a)
      PROVE  FALSE
  BY <1>3, UnlinkRemoteMove DEF Moves
<1>4. ASSUME NEW a \in Handle \cup Client, CommitHub(a)
      PROVE  FALSE
  <2>1. linked /\ Writer(call[a].h) /\ call[a].h \in Handle /\ UNCHANGED <<st, dirty_generation>>
    BY <1>4, Constants, AtWork DEF CommitHub, PhaseInv, PhaseShape, inodeVars, CommitPhases
  <2> QED
    BY <2>1 DEF WriterInv
<1>5. ASSUME NEW a \in Handle \cup Client, CommitApply(a)
      PROVE  hub' = xet_hash'
  <2>1. /\ linked /\ Writer(call[a].h) /\ call[a].h \in Handle /\ UNCHANGED <<st, hub>>
        /\ hub = <<call[a].h, call[a].info>>
    BY <1>5, Constants, AtWork
      DEF CommitApply, PhaseInv, PhaseShape, BytesInv, BytesShape, CommitPhases
  <2>2. OwnsGeneration(call[a].h)
    BY <2>1 DEF WriterInv
  <2> QED
    BY <1>5, <2>1, <2>2 DEF CommitApply
<1>6. ASSUME NEW a \in Handle \cup Client, ReleaseFailed(a)
      PROVE  hub' = xet_hash'
  <2>1. a \in Actor /\ pc[a] = "failed" /\ Writer(call[a].h) /\ call[a].h \in Handle /\ linked
    BY <1>6, Constants, AtWork DEF ReleaseFailed, PhaseInv, PhaseShape, CommitPhases
  <2>2. \A b \in Actor : pc[b] # "apply"
    BY <2>1, Alone DEF LockSteps, CommitPhases
  <2>3. ch[call[a].h].snapshot.xet_hash = hub
    BY <2>1, <2>2 DEF SnapshotInv
  <2> QED
    BY <1>6, <2>3 DEF ReleaseFailed, RevertInode
<1>7. ASSUME UNCHANGED <<linked, dirty_generation, xet_hash, hub>>, st = "live", ~\E c \in Client : UnlinkLocal(c)
      PROVE  hub' = xet_hash'
  <2>1. \A c \in Client : pc[c] # "unlink_local"
    BY <1>7, UnlinkLocalStays
  <2> QED
    BY <1>7, <2>1 DEF CleanIsCommitted
<1>8. CASE Quiet
  BY <1>1, <1>7, <1>8 DEF Quiet
<1>9. ASSUME NEW a \in Handle \cup Client,
             \/ CommitStart(a) \/ CommitHubFails(a) \/ CommitSucceeded(a)
             \/ a \in Client /\ (OpenSetup(a) \/ OpenSupersede(a))
      PROVE  hub' = xet_hash'
  <2>1. UNCHANGED <<st, linked, dirty_generation, xet_hash, hub>>
    BY <1>9
      DEF CommitStart, CommitHubFails, CommitSucceeded, OpenSetup, OpenSupersede, NoInodeChange,
           inodeVars
  <2> QED
    BY <1>1, <1>7, <2>1
<1> QED
  BY <1>1, <1>2, <1>3, <1>4, <1>5, <1>6, <1>8, <1>9, QuietStep DEF Loud

\* An unlinked name stays unlinked.
LEMMA ResurrectionStep ==
    ASSUME TypeOK, LockInv, CallInv, HandleInv, FilesInv, WriterInv, PhaseInv, BytesInv, SnapshotInv,
           DrainShape, NoResurrection, Next
    PROVE  NoResurrection'
<1> SUFFICES ASSUME st' # "none", ~linked'
             PROVE  hub' = Absent
  BY DEF NoResurrection
<1>1. ASSUME NEW a \in Handle \cup Client, CommitHub(a)
      PROVE  FALSE
  BY <1>1, Constants DEF CommitHub, PhaseInv, PhaseShape, inodeVars
<1>2. ASSUME NEW a \in Client, UnlinkRemote(a) \/ UnlinkLocal(a) \/ Create(a)
      PROVE  hub' = Absent
  BY <1>2, Constants DEF UnlinkRemote, UnlinkLocal, Create, PhaseInv, PhaseShape
<1>3. ASSUME NEW a \in Handle \cup Client, ReleaseFailed(a)
      PROVE  hub' = Absent
  <2>1. a \in Actor /\ pc[a] = "failed" /\ Writer(call[a].h) /\ call[a].h \in Handle /\ linked
    BY <1>3, Constants, AtWork DEF ReleaseFailed, PhaseInv, PhaseShape, CommitPhases
  <2>2. \A b \in Actor : pc[b] # "apply"
    BY <2>1, Alone DEF LockSteps, CommitPhases
  <2>3. ch[call[a].h].snapshot.xet_hash = hub
    BY <2>1, <2>2 DEF SnapshotInv
  <2>4. ~ch[call[a].h].snapshot.existed_before /\ hub' = hub
    BY <1>3, <2>1 DEF ReleaseFailed, RevertInode
  <2> QED
    BY <2>1, <2>3, <2>4 DEF SnapshotInv
<1>4. ASSUME UNCHANGED <<linked, hub>>, st # "none"
      PROVE  hub' = Absent
  BY <1>4 DEF NoResurrection
<1>5. ASSUME NEW a \in Handle \cup Client, CommitApply(a) \/ ReleaseDrop(a)
      PROVE  hub' = Absent
  <2>1. UNCHANGED <<linked, hub>> /\ pc[a] # "idle"
    BY <1>5 DEF CommitApply, ReleaseDrop
  <2> QED
    BY <1>4, <2>1 DEF FilesInv
<1>6. ASSUME NEW a \in Client, OpenInstall(a)
      PROVE  hub' = Absent
  <2>1. UNCHANGED <<linked, hub>> /\ pc[a] # "idle"
    BY <1>6 DEF OpenInstall
  <2> QED
    BY <1>4, <2>1 DEF FilesInv
<1>7. CASE UNCHANGED <<st, linked, dirty_generation, xet_hash, hub>>
  BY <1>4, <1>7
<1> QED
  BY <1>1, <1>2, <1>3, <1>5, <1>6, <1>7, InodeFrame

\* What the drain waits for is settled when it begins.
LEMMA DueFrame ==
    ASSUME Next
    PROVE  \/ UNCHANGED <<due>>
           \/ DrainStart
<1>1. \A a \in Handle \cup Client : CommitStep(a) =>
        \/ UNCHANGED <<due>>
  BY DEF CommitStep, InstallHook, HookOnTheSpot, FulfilHook, RemoveHook, Demote, CommitLocked,
     CommitUnlock, CommitStart, CommitFinish, CommitHub, CommitHubFails, CommitApply,
     CommitSucceeded, CommitFailed, ReleaseRetry, ReleaseFailed, ReleaseCheck, ReleaseLocked,
     ReleaseUnlock, ReleaseDrop, NoInodeChange, inodeVars, NoFilesChange
<1>2. \A a \in Client : NameStep(a) =>
        \/ UNCHANGED <<due>>
  BY DEF NameStep, OpenAwaited, OpenLocked, OpenSetup, OpenSetupFails, OpenSupersede, OpenInstall,
     UnlinkLocked, UnlinkRemote, UnlinkRemoteFails, UnlinkLocal, NoInodeChange, inodeVars,
     NoFilesChange
<1>3. \A a \in Client : CallStart(a) =>
        \/ UNCHANGED <<due>>
  BY DEF CallStart, Create, OpenStart, UnlinkStart, LinkStart, FlushStart, ReleaseStart,
     NoInodeChange, inodeVars, NoFilesChange, Flush, Release
<1>4. \A h \in Handle : FutureStep(h) \/ Write(h) \/ WorkerFails(h) =>
        \/ CommitStep(h)
        \/ UNCHANGED <<due>>
  BY DEF FutureStep, Write, WorkerFails, DrainFlush, DrainRelease, DrainReleased, NoInodeChange,
     inodeVars, NoFilesChange, Flush, Release
<1>5. DrainStart \/ DrainStep =>
        \/ UNCHANGED <<due>> \/ DrainStart
  BY DEF DrainStep, DrainJoined, DrainAwaited, NoInodeChange, inodeVars, NoFilesChange
<1> QED
  BY <1>1, <1>2, <1>3, <1>4, <1>5 DEF Next

\* Only who has taken the hook removes it.
LEMMA UnhookEntry ==
    ASSUME TypeOK, CallInv, DrainShape, Next, NEW b \in Actor
    PROVE  pc'[b] = "unhook" => Stands(b) \/ (b \in Handle \cup Client /\ FulfilHook(b))
<1>1. ASSUME NEW a \in Handle \cup Client, InstallHook(a), b = a
      PROVE  pc'[b] = "unhook" => Stands(b) \/ (b \in Handle \cup Client /\ FulfilHook(b))
  BY <1>1, InstallHookMove, Constants
    DEF Moves, CallInv, CallShape, Hooking, HookPhases, CommitPhases
<1>2. ASSUME NEW a \in Handle \cup Client, HookOnTheSpot(a), b = a
      PROVE  pc'[b] = "unhook" => Stands(b) \/ (b \in Handle \cup Client /\ FulfilHook(b))
  BY <1>2, HookOnTheSpotMove, Constants
    DEF Moves, CallInv, CallShape, Hooking, HookPhases, CommitPhases
<1>3. ASSUME NEW a \in Handle \cup Client, RemoveHook(a), b = a
      PROVE  pc'[b] = "unhook" => Stands(b) \/ (b \in Handle \cup Client /\ FulfilHook(b))
  BY <1>3, RemoveHookMove, Constants
    DEF Moves, CallInv, CallShape, Hooking, HookPhases, CommitPhases
<1>4. ASSUME NEW a \in Handle \cup Client, Demote(a), b = a
      PROVE  pc'[b] = "unhook" => Stands(b) \/ (b \in Handle \cup Client /\ FulfilHook(b))
  BY <1>4, DemoteMove, Constants DEF Returns, CallInv, CallShape, Hooking, HookPhases, CommitPhases
<1>5. ASSUME NEW a \in Handle \cup Client, CommitLocked(a), b = a
      PROVE  pc'[b] = "unhook" => Stands(b) \/ (b \in Handle \cup Client /\ FulfilHook(b))
  BY <1>5, CommitLockedMove, Constants
    DEF Moves, Returns, CallInv, CallShape, Hooking, HookPhases, CommitPhases
<1>6. ASSUME NEW a \in Handle \cup Client, CommitUnlock(a), b = a
      PROVE  pc'[b] = "unhook" => Stands(b) \/ (b \in Handle \cup Client /\ FulfilHook(b))
  BY <1>6, CommitUnlockMove, Constants
    DEF Returns, CallInv, CallShape, Hooking, HookPhases, CommitPhases
<1>7. ASSUME NEW a \in Handle \cup Client, CommitStart(a), b = a
      PROVE  pc'[b] = "unhook" => Stands(b) \/ (b \in Handle \cup Client /\ FulfilHook(b))
  BY <1>7, CommitStartMove, Constants
    DEF Moves, CallInv, CallShape, Hooking, HookPhases, CommitPhases
<1>8. ASSUME NEW a \in Handle \cup Client, CommitFinish(a), b = a
      PROVE  pc'[b] = "unhook" => Stands(b) \/ (b \in Handle \cup Client /\ FulfilHook(b))
  BY <1>8, CommitFinishMove, Constants
    DEF Moves, CallInv, CallShape, Hooking, HookPhases, CommitPhases
<1>9. ASSUME NEW a \in Handle \cup Client, CommitHub(a), b = a
      PROVE  pc'[b] = "unhook" => Stands(b) \/ (b \in Handle \cup Client /\ FulfilHook(b))
  BY <1>9, CommitHubMove, Constants DEF Moves, CallInv, CallShape, Hooking, HookPhases, CommitPhases
<1>10. ASSUME NEW a \in Handle \cup Client, CommitHubFails(a), b = a
      PROVE  pc'[b] = "unhook" => Stands(b) \/ (b \in Handle \cup Client /\ FulfilHook(b))
  BY <1>10, CommitHubFailsMove, Constants
    DEF Moves, CallInv, CallShape, Hooking, HookPhases, CommitPhases
<1>11. ASSUME NEW a \in Handle \cup Client, CommitApply(a), b = a
      PROVE  pc'[b] = "unhook" => Stands(b) \/ (b \in Handle \cup Client /\ FulfilHook(b))
  BY <1>11, CommitApplyMove, Constants
    DEF Moves, CallInv, CallShape, Hooking, HookPhases, CommitPhases
<1>12. ASSUME NEW a \in Handle \cup Client, CommitSucceeded(a), b = a
      PROVE  pc'[b] = "unhook" => Stands(b) \/ (b \in Handle \cup Client /\ FulfilHook(b))
  BY <1>12, CommitSucceededMove, Constants
    DEF Moves, CallInv, CallShape, Hooking, HookPhases, CommitPhases
<1>13. ASSUME NEW a \in Handle \cup Client, CommitFailed(a), b = a
      PROVE  pc'[b] = "unhook" => Stands(b) \/ (b \in Handle \cup Client /\ FulfilHook(b))
  BY <1>13, CommitFailedMove, Constants
    DEF Returns, CallInv, CallShape, Hooking, HookPhases, CommitPhases
<1>14. ASSUME NEW a \in Handle \cup Client, ReleaseRetry(a), b = a
      PROVE  pc'[b] = "unhook" => Stands(b) \/ (b \in Handle \cup Client /\ FulfilHook(b))
  BY <1>14, ReleaseRetryMove, Constants
    DEF Moves, CallInv, CallShape, Hooking, HookPhases, CommitPhases
<1>15. ASSUME NEW a \in Handle \cup Client, ReleaseFailed(a), b = a
      PROVE  pc'[b] = "unhook" => Stands(b) \/ (b \in Handle \cup Client /\ FulfilHook(b))
  BY <1>15, ReleaseFailedMove, Constants
    DEF Moves, CallInv, CallShape, Hooking, HookPhases, CommitPhases
<1>16. ASSUME NEW a \in Handle \cup Client, ReleaseCheck(a), b = a
      PROVE  pc'[b] = "unhook" => Stands(b) \/ (b \in Handle \cup Client /\ FulfilHook(b))
  BY <1>16, ReleaseCheckMove, Constants
    DEF Moves, CallInv, CallShape, Hooking, HookPhases, CommitPhases
<1>17. ASSUME NEW a \in Handle \cup Client, ReleaseLocked(a), b = a
      PROVE  pc'[b] = "unhook" => Stands(b) \/ (b \in Handle \cup Client /\ FulfilHook(b))
  BY <1>17, ReleaseLockedMove, Constants
    DEF Moves, CallInv, CallShape, Hooking, HookPhases, CommitPhases
<1>18. ASSUME NEW a \in Handle \cup Client, ReleaseUnlock(a), b = a
      PROVE  pc'[b] = "unhook" => Stands(b) \/ (b \in Handle \cup Client /\ FulfilHook(b))
  BY <1>18, ReleaseUnlockMove, Constants
    DEF Moves, CallInv, CallShape, Hooking, HookPhases, CommitPhases
<1>19. ASSUME NEW a \in Handle \cup Client, ReleaseDrop(a), b = a
      PROVE  pc'[b] = "unhook" => Stands(b) \/ (b \in Handle \cup Client /\ FulfilHook(b))
  BY <1>19, ReleaseDropMove, Constants
    DEF Returns, CallInv, CallShape, Hooking, HookPhases, CommitPhases
<1>20. ASSUME NEW a \in Client, OpenAwaited(a), b = a
      PROVE  pc'[b] = "unhook" => Stands(b) \/ (b \in Handle \cup Client /\ FulfilHook(b))
  BY <1>20, OpenAwaitedMove, Constants
    DEF Moves, CallInv, CallShape, Hooking, HookPhases, CommitPhases
<1>21. ASSUME NEW a \in Client, OpenLocked(a), b = a
      PROVE  pc'[b] = "unhook" => Stands(b) \/ (b \in Handle \cup Client /\ FulfilHook(b))
  BY <1>21, OpenLockedMove, Constants
    DEF Moves, Returns, CallInv, CallShape, Hooking, HookPhases, CommitPhases
<1>22. ASSUME NEW a \in Client, OpenSetup(a), b = a
      PROVE  pc'[b] = "unhook" => Stands(b) \/ (b \in Handle \cup Client /\ FulfilHook(b))
  BY <1>22, OpenSetupMove, Constants
    DEF Moves, CallInv, CallShape, Hooking, HookPhases, CommitPhases
<1>23. ASSUME NEW a \in Client, OpenSetupFails(a), b = a
      PROVE  pc'[b] = "unhook" => Stands(b) \/ (b \in Handle \cup Client /\ FulfilHook(b))
  BY <1>23, OpenSetupFailsMove, Constants
    DEF Returns, CallInv, CallShape, Hooking, HookPhases, CommitPhases
<1>24. ASSUME NEW a \in Client, OpenSupersede(a), b = a
      PROVE  pc'[b] = "unhook" => Stands(b) \/ (b \in Handle \cup Client /\ FulfilHook(b))
  BY <1>24, OpenSupersedeMove, Constants
    DEF Moves, CallInv, CallShape, Hooking, HookPhases, CommitPhases
<1>25. ASSUME NEW a \in Client, OpenInstall(a), b = a
      PROVE  pc'[b] = "unhook" => Stands(b) \/ (b \in Handle \cup Client /\ FulfilHook(b))
  BY <1>25, OpenInstallMove, Constants
    DEF Returns, CallInv, CallShape, Hooking, HookPhases, CommitPhases
<1>26. ASSUME NEW a \in Client, UnlinkLocked(a), b = a
      PROVE  pc'[b] = "unhook" => Stands(b) \/ (b \in Handle \cup Client /\ FulfilHook(b))
  BY <1>26, UnlinkLockedMove, Constants
    DEF Moves, Returns, CallInv, CallShape, Hooking, HookPhases, CommitPhases
<1>27. ASSUME NEW a \in Client, UnlinkRemote(a), b = a
      PROVE  pc'[b] = "unhook" => Stands(b) \/ (b \in Handle \cup Client /\ FulfilHook(b))
  BY <1>27, UnlinkRemoteMove, Constants
    DEF Moves, CallInv, CallShape, Hooking, HookPhases, CommitPhases
<1>28. ASSUME NEW a \in Client, UnlinkRemoteFails(a), b = a
      PROVE  pc'[b] = "unhook" => Stands(b) \/ (b \in Handle \cup Client /\ FulfilHook(b))
  BY <1>28, UnlinkRemoteFailsMove, Constants
    DEF Returns, CallInv, CallShape, Hooking, HookPhases, CommitPhases
<1>29. ASSUME NEW a \in Client, UnlinkLocal(a), b = a
      PROVE  pc'[b] = "unhook" => Stands(b) \/ (b \in Handle \cup Client /\ FulfilHook(b))
  BY <1>29, UnlinkLocalMove, Constants
    DEF Returns, CallInv, CallShape, Hooking, HookPhases, CommitPhases
<1>30. ASSUME NEW a \in Client, OpenStart(a), b = a
      PROVE  pc'[b] = "unhook" => Stands(b) \/ (b \in Handle \cup Client /\ FulfilHook(b))
  BY <1>30, OpenStartMove, Constants
    DEF Moves, CallInv, CallShape, Hooking, HookPhases, CommitPhases
<1>31. ASSUME NEW a \in Client, UnlinkStart(a), b = a
      PROVE  pc'[b] = "unhook" => Stands(b) \/ (b \in Handle \cup Client /\ FulfilHook(b))
  BY <1>31, UnlinkStartMove, Constants
    DEF Moves, Begins, CallInv, CallShape, Hooking, HookPhases, CommitPhases
<1>32. ASSUME NEW a \in Client, LinkStart(a), b = a
      PROVE  pc'[b] = "unhook" => Stands(b) \/ (b \in Handle \cup Client /\ FulfilHook(b))
  BY <1>32, LinkStartMove, Constants
    DEF Moves, Begins, CallInv, CallShape, Hooking, HookPhases, CommitPhases
<1>33. ASSUME NEW a \in Client, NEW h \in Handle, NEW dup \in BOOLEAN, FlushStart(a, h, dup), b = a
      PROVE  pc'[b] = "unhook" => Stands(b) \/ (b \in Handle \cup Client /\ FulfilHook(b))
  BY <1>33, FlushStartMove, Constants
    DEF Moves, Begins, CallInv, CallShape, Hooking, HookPhases, CommitPhases
<1>34. ASSUME NEW a \in Client, NEW h \in Handle, ReleaseStart(a, h), b = a
      PROVE  pc'[b] = "unhook" => Stands(b) \/ (b \in Handle \cup Client /\ FulfilHook(b))
  BY <1>34, ReleaseStartMove, Constants
    DEF Moves, Begins, CallInv, CallShape, Hooking, HookPhases, CommitPhases
<1>35. ASSUME NEW h \in Handle, DrainFlush(h), b = h
      PROVE  pc'[b] = "unhook" => Stands(b) \/ (b \in Handle \cup Client /\ FulfilHook(b))
  BY <1>35, DrainFlushMove, Constants
    DEF Moves, Begins, CallInv, CallShape, Hooking, HookPhases, CommitPhases
<1>36. ASSUME NEW h \in Handle, DrainRelease(h), b = h
      PROVE  pc'[b] = "unhook" => Stands(b) \/ (b \in Handle \cup Client /\ FulfilHook(b))
  BY <1>36, DrainReleaseMove, Constants
    DEF Moves, Begins, CallInv, CallShape, Hooking, HookPhases, CommitPhases
<1>37. ASSUME NEW h \in Handle, DrainReleased(h), b = h
      PROVE  pc'[b] = "unhook" => Stands(b) \/ (b \in Handle \cup Client /\ FulfilHook(b))
  BY <1>37, DrainReleasedMove, Constants
    DEF Returns, CallInv, CallShape, Hooking, HookPhases, CommitPhases
<1>38. ASSUME DrainJoined, b = Drain
      PROVE  pc'[b] = "unhook" => Stands(b) \/ (b \in Handle \cup Client /\ FulfilHook(b))
  BY <1>38, DrainJoinedMove, Constants
    DEF Moves, CallInv, CallShape, Hooking, HookPhases, CommitPhases
<1>39. ASSUME DrainAwaited, b = Drain
      PROVE  pc'[b] = "unhook" => Stands(b) \/ (b \in Handle \cup Client /\ FulfilHook(b))
  BY <1>39, DrainAwaitedMove, Constants
    DEF Moves, CallInv, CallShape, Hooking, HookPhases, CommitPhases
<1>40. CASE DrainStart \/ (\E c \in Client : Create(c)) \/ Stands(b)
  BY <1>40, DrainStartMove, CreateMove, Constants DEF Stands, SameCall, Actor
<1> QED
  BY <1>1, <1>2, <1>3, <1>4, <1>5, <1>6, <1>7, <1>8, <1>9, <1>10, <1>11, <1>12, <1>13, <1>14,
     <1>15, <1>16, <1>17, <1>18, <1>19, <1>20, <1>21, <1>22, <1>23, <1>24, <1>25, <1>26, <1>27,
     <1>28, <1>29, <1>30, <1>31, <1>32, <1>33, <1>34, <1>35, <1>36, <1>37, <1>38, <1>39, <1>40,
     WhoActs, Constants
    DEF Acts, CommitStep, NameStep, CallStart, DrainStep

\* A release() ends with its channel.
LEMMA ReleaseGoesOn ==
    ASSUME TypeOK, CallInv, PhaseInv, DrainShape, Next, NEW b \in Actor, call[b].op = "release"
    PROVE  (call'[b].op = "release" /\ call'[b].h = call[b].h) \/ Terminal(call[b].h)
<1>1. ASSUME NEW a \in Handle \cup Client, InstallHook(a), b = a
      PROVE  (call'[b].op = "release" /\ call'[b].h = call[b].h) \/ Terminal(call[b].h)
  BY <1>1, InstallHookMove, Constants, CallTypes, Domains
    DEF Moves, CallInv, CallShape, Hooking, HookPhases, CommitPhases, Call, NoCall, PhaseInv,
         PhaseShape
<1>2. ASSUME NEW a \in Handle \cup Client, HookOnTheSpot(a), b = a
      PROVE  (call'[b].op = "release" /\ call'[b].h = call[b].h) \/ Terminal(call[b].h)
  BY <1>2, HookOnTheSpotMove, Constants, CallTypes, Domains
    DEF Moves, CallInv, CallShape, Hooking, HookPhases, CommitPhases, Call, NoCall, PhaseInv,
         PhaseShape
<1>3. ASSUME NEW a \in Handle \cup Client, FulfilHook(a), b = a
      PROVE  (call'[b].op = "release" /\ call'[b].h = call[b].h) \/ Terminal(call[b].h)
  BY <1>3, FulfilHookMove, Constants, CallTypes, Domains
    DEF Moves, SameCall, CallInv, CallShape, Hooking, HookPhases, CommitPhases, Call, NoCall,
         PhaseInv, PhaseShape
<1>4. ASSUME NEW a \in Handle \cup Client, RemoveHook(a), b = a
      PROVE  (call'[b].op = "release" /\ call'[b].h = call[b].h) \/ Terminal(call[b].h)
  BY <1>4, RemoveHookMove, Constants, CallTypes, Domains
    DEF Moves, CallInv, CallShape, Hooking, HookPhases, CommitPhases, Call, NoCall, PhaseInv,
         PhaseShape
<1>5. ASSUME NEW a \in Handle \cup Client, Demote(a), b = a
      PROVE  (call'[b].op = "release" /\ call'[b].h = call[b].h) \/ Terminal(call[b].h)
  BY <1>5, DemoteMove, Constants, CallTypes, Domains
    DEF Returns, CallInv, CallShape, Hooking, HookPhases, CommitPhases, Call, NoCall, PhaseInv,
         PhaseShape
<1>6. ASSUME NEW a \in Handle \cup Client, CommitLocked(a), b = a
      PROVE  (call'[b].op = "release" /\ call'[b].h = call[b].h) \/ Terminal(call[b].h)
  BY <1>6, CommitLockedMove, Constants, CallTypes, Domains
    DEF Moves, Returns, CallInv, CallShape, Hooking, HookPhases, CommitPhases, Call, NoCall,
         PhaseInv, PhaseShape
<1>7. ASSUME NEW a \in Handle \cup Client, CommitUnlock(a), b = a
      PROVE  (call'[b].op = "release" /\ call'[b].h = call[b].h) \/ Terminal(call[b].h)
  BY <1>7, CommitUnlockMove, Constants, CallTypes, Domains
    DEF Returns, CallInv, CallShape, Hooking, HookPhases, CommitPhases, Call, NoCall, PhaseInv,
         PhaseShape
<1>8. ASSUME NEW a \in Handle \cup Client, CommitStart(a), b = a
      PROVE  (call'[b].op = "release" /\ call'[b].h = call[b].h) \/ Terminal(call[b].h)
  BY ONLY SMT, TypeOK, CallInv, PhaseInv, DrainShape, Next, b \in Actor, call[b].op = "release", <1>8, CommitStartMove, Constants, CallTypes, Domains
    DEF Moves, CallInv, CallShape, Hooking, HookPhases, CommitPhases, Call, NoCall, PhaseInv,
         PhaseShape
<1>9. ASSUME NEW a \in Handle \cup Client, CommitFinish(a), b = a
      PROVE  (call'[b].op = "release" /\ call'[b].h = call[b].h) \/ Terminal(call[b].h)
  BY <1>9, CommitFinishMove, Constants, CallTypes, Domains
    DEF Moves, CallInv, CallShape, Hooking, HookPhases, CommitPhases, Call, NoCall, PhaseInv,
         PhaseShape
<1>10. ASSUME NEW a \in Handle \cup Client, CommitHub(a), b = a
      PROVE  (call'[b].op = "release" /\ call'[b].h = call[b].h) \/ Terminal(call[b].h)
  BY <1>10, CommitHubMove, Constants, CallTypes, Domains
    DEF Moves, CallInv, CallShape, Hooking, HookPhases, CommitPhases, Call, NoCall, PhaseInv,
         PhaseShape
<1>11. ASSUME NEW a \in Handle \cup Client, CommitHubFails(a), b = a
      PROVE  (call'[b].op = "release" /\ call'[b].h = call[b].h) \/ Terminal(call[b].h)
  BY <1>11, CommitHubFailsMove, Constants, CallTypes, Domains
    DEF Moves, CallInv, CallShape, Hooking, HookPhases, CommitPhases, Call, NoCall, PhaseInv,
         PhaseShape
<1>12. ASSUME NEW a \in Handle \cup Client, CommitApply(a), b = a
      PROVE  (call'[b].op = "release" /\ call'[b].h = call[b].h) \/ Terminal(call[b].h)
  BY <1>12, CommitApplyMove, Constants, CallTypes, Domains
    DEF Moves, CallInv, CallShape, Hooking, HookPhases, CommitPhases, Call, NoCall, PhaseInv,
         PhaseShape
<1>13. ASSUME NEW a \in Handle \cup Client, CommitSucceeded(a), b = a
      PROVE  (call'[b].op = "release" /\ call'[b].h = call[b].h) \/ Terminal(call[b].h)
  BY ONLY SMT, TypeOK, CallInv, PhaseInv, DrainShape, Next, b \in Actor, call[b].op = "release", <1>13, CommitSucceededMove, Constants, CallTypes, Domains
    DEF Moves, CallInv, CallShape, Hooking, HookPhases, CommitPhases, Call, NoCall, PhaseInv,
         PhaseShape
<1>14. ASSUME NEW a \in Handle \cup Client, CommitFailed(a), b = a
      PROVE  (call'[b].op = "release" /\ call'[b].h = call[b].h) \/ Terminal(call[b].h)
  BY <1>14 DEF CommitFailed
<1>15. ASSUME NEW a \in Handle \cup Client, ReleaseRetry(a), b = a
      PROVE  (call'[b].op = "release" /\ call'[b].h = call[b].h) \/ Terminal(call[b].h)
  BY <1>15, ReleaseRetryMove, Constants, CallTypes, Domains
    DEF Moves, CallInv, CallShape, Hooking, HookPhases, CommitPhases, Call, NoCall, PhaseInv,
         PhaseShape
<1>16. ASSUME NEW a \in Handle \cup Client, ReleaseFailed(a), b = a
      PROVE  (call'[b].op = "release" /\ call'[b].h = call[b].h) \/ Terminal(call[b].h)
  BY <1>16, ReleaseFailedMove, Constants, CallTypes, Domains
    DEF Moves, CallInv, CallShape, Hooking, HookPhases, CommitPhases, Call, NoCall, PhaseInv,
         PhaseShape
<1>17. ASSUME NEW a \in Handle \cup Client, ReleaseCheck(a), b = a
      PROVE  (call'[b].op = "release" /\ call'[b].h = call[b].h) \/ Terminal(call[b].h)
  BY <1>17, ReleaseCheckMove, Constants, CallTypes, Domains
    DEF Moves, CallInv, CallShape, Hooking, HookPhases, CommitPhases, Call, NoCall, PhaseInv,
         PhaseShape
<1>18. ASSUME NEW a \in Handle \cup Client, ReleaseLocked(a), b = a
      PROVE  (call'[b].op = "release" /\ call'[b].h = call[b].h) \/ Terminal(call[b].h)
  BY <1>18, ReleaseLockedMove, Constants, CallTypes, Domains
    DEF Moves, CallInv, CallShape, Hooking, HookPhases, CommitPhases, Call, NoCall, PhaseInv,
         PhaseShape
<1>19. ASSUME NEW a \in Handle \cup Client, ReleaseUnlock(a), b = a
      PROVE  (call'[b].op = "release" /\ call'[b].h = call[b].h) \/ Terminal(call[b].h)
  BY <1>19, ReleaseUnlockMove, Constants, CallTypes, Domains
    DEF Moves, CallInv, CallShape, Hooking, HookPhases, CommitPhases, Call, NoCall, PhaseInv,
         PhaseShape
<1>20. ASSUME NEW a \in Handle \cup Client, ReleaseDrop(a), b = a
      PROVE  (call'[b].op = "release" /\ call'[b].h = call[b].h) \/ Terminal(call[b].h)
  BY <1>20, ReleaseDropMove, Constants, CallTypes, Domains
    DEF Returns, CallInv, CallShape, Hooking, HookPhases, CommitPhases, Call, NoCall, PhaseInv,
         PhaseShape
<1>21. ASSUME NEW a \in Client, OpenAwaited(a), b = a
      PROVE  (call'[b].op = "release" /\ call'[b].h = call[b].h) \/ Terminal(call[b].h)
  BY <1>21, OpenAwaitedMove, Constants, CallTypes, Domains
    DEF Moves, CallInv, CallShape, Hooking, HookPhases, CommitPhases, Call, NoCall, PhaseInv,
         PhaseShape
<1>22. ASSUME NEW a \in Client, OpenLocked(a), b = a
      PROVE  (call'[b].op = "release" /\ call'[b].h = call[b].h) \/ Terminal(call[b].h)
  BY <1>22, OpenLockedMove, Constants, CallTypes, Domains
    DEF Moves, Returns, CallInv, CallShape, Hooking, HookPhases, CommitPhases, Call, NoCall,
         PhaseInv, PhaseShape
<1>23. ASSUME NEW a \in Client, OpenSetup(a), b = a
      PROVE  (call'[b].op = "release" /\ call'[b].h = call[b].h) \/ Terminal(call[b].h)
  BY <1>23, OpenSetupMove, Constants, CallTypes, Domains
    DEF Moves, CallInv, CallShape, Hooking, HookPhases, CommitPhases, Call, NoCall, PhaseInv,
         PhaseShape
<1>24. ASSUME NEW a \in Client, OpenSetupFails(a), b = a
      PROVE  (call'[b].op = "release" /\ call'[b].h = call[b].h) \/ Terminal(call[b].h)
  BY <1>24, OpenSetupFailsMove, Constants, CallTypes, Domains
    DEF Returns, CallInv, CallShape, Hooking, HookPhases, CommitPhases, Call, NoCall, PhaseInv,
         PhaseShape
<1>25. ASSUME NEW a \in Client, OpenSupersede(a), b = a
      PROVE  (call'[b].op = "release" /\ call'[b].h = call[b].h) \/ Terminal(call[b].h)
  BY <1>25, OpenSupersedeMove, Constants, CallTypes, Domains
    DEF Moves, CallInv, CallShape, Hooking, HookPhases, CommitPhases, Call, NoCall, PhaseInv,
         PhaseShape
<1>26. ASSUME NEW a \in Client, OpenInstall(a), b = a
      PROVE  (call'[b].op = "release" /\ call'[b].h = call[b].h) \/ Terminal(call[b].h)
  BY <1>26, OpenInstallMove, Constants, CallTypes, Domains
    DEF Returns, CallInv, CallShape, Hooking, HookPhases, CommitPhases, Call, NoCall, PhaseInv,
         PhaseShape
<1>27. ASSUME NEW a \in Client, UnlinkLocked(a), b = a
      PROVE  (call'[b].op = "release" /\ call'[b].h = call[b].h) \/ Terminal(call[b].h)
  BY <1>27, UnlinkLockedMove, Constants, CallTypes, Domains
    DEF Moves, Returns, CallInv, CallShape, Hooking, HookPhases, CommitPhases, Call, NoCall,
         PhaseInv, PhaseShape
<1>28. ASSUME NEW a \in Client, UnlinkRemote(a), b = a
      PROVE  (call'[b].op = "release" /\ call'[b].h = call[b].h) \/ Terminal(call[b].h)
  BY <1>28, UnlinkRemoteMove, Constants, CallTypes, Domains
    DEF Moves, CallInv, CallShape, Hooking, HookPhases, CommitPhases, Call, NoCall, PhaseInv,
         PhaseShape
<1>29. ASSUME NEW a \in Client, UnlinkRemoteFails(a), b = a
      PROVE  (call'[b].op = "release" /\ call'[b].h = call[b].h) \/ Terminal(call[b].h)
  BY <1>29, UnlinkRemoteFailsMove, Constants, CallTypes, Domains
    DEF Returns, CallInv, CallShape, Hooking, HookPhases, CommitPhases, Call, NoCall, PhaseInv,
         PhaseShape
<1>30. ASSUME NEW a \in Client, UnlinkLocal(a), b = a
      PROVE  (call'[b].op = "release" /\ call'[b].h = call[b].h) \/ Terminal(call[b].h)
  BY <1>30, UnlinkLocalMove, Constants, CallTypes, Domains
    DEF Returns, CallInv, CallShape, Hooking, HookPhases, CommitPhases, Call, NoCall, PhaseInv,
         PhaseShape
<1>31. ASSUME NEW a \in Client, OpenStart(a), b = a
      PROVE  (call'[b].op = "release" /\ call'[b].h = call[b].h) \/ Terminal(call[b].h)
  BY <1>31, OpenStartMove, Constants, CallTypes, Domains
    DEF Moves, CallInv, CallShape, Hooking, HookPhases, CommitPhases, Call, NoCall, PhaseInv,
         PhaseShape
<1>32. ASSUME NEW a \in Client, UnlinkStart(a), b = a
      PROVE  (call'[b].op = "release" /\ call'[b].h = call[b].h) \/ Terminal(call[b].h)
  BY <1>32, UnlinkStartMove, Constants, CallTypes, Domains
    DEF Moves, Begins, CallInv, CallShape, Hooking, HookPhases, CommitPhases, Call, NoCall,
         PhaseInv, PhaseShape
<1>33. ASSUME NEW a \in Client, LinkStart(a), b = a
      PROVE  (call'[b].op = "release" /\ call'[b].h = call[b].h) \/ Terminal(call[b].h)
  BY <1>33, LinkStartMove, Constants, CallTypes, Domains
    DEF Moves, Begins, CallInv, CallShape, Hooking, HookPhases, CommitPhases, Call, NoCall,
         PhaseInv, PhaseShape
<1>34. ASSUME NEW a \in Client, NEW h \in Handle, NEW dup \in BOOLEAN, FlushStart(a, h, dup), b = a
      PROVE  (call'[b].op = "release" /\ call'[b].h = call[b].h) \/ Terminal(call[b].h)
  BY <1>34, FlushStartMove, Constants, CallTypes, Domains
    DEF Moves, Begins, CallInv, CallShape, Hooking, HookPhases, CommitPhases, Call, NoCall,
         PhaseInv, PhaseShape
<1>35. ASSUME NEW a \in Client, NEW h \in Handle, ReleaseStart(a, h), b = a
      PROVE  (call'[b].op = "release" /\ call'[b].h = call[b].h) \/ Terminal(call[b].h)
  BY <1>35, ReleaseStartMove, Constants, CallTypes, Domains
    DEF Moves, Begins, CallInv, CallShape, Hooking, HookPhases, CommitPhases, Call, NoCall,
         PhaseInv, PhaseShape
<1>36. ASSUME NEW h \in Handle, DrainFlush(h), b = h
      PROVE  (call'[b].op = "release" /\ call'[b].h = call[b].h) \/ Terminal(call[b].h)
  BY <1>36, DrainFlushMove, Constants, CallTypes, Domains
    DEF Moves, Begins, CallInv, CallShape, Hooking, HookPhases, CommitPhases, Call, NoCall,
         PhaseInv, PhaseShape
<1>37. ASSUME NEW h \in Handle, DrainRelease(h), b = h
      PROVE  (call'[b].op = "release" /\ call'[b].h = call[b].h) \/ Terminal(call[b].h)
  BY <1>37, DrainReleaseMove, Constants, CallTypes, Domains
    DEF Moves, Begins, CallInv, CallShape, Hooking, HookPhases, CommitPhases, Call, NoCall,
         PhaseInv, PhaseShape
<1>38. ASSUME NEW h \in Handle, DrainReleased(h), b = h
      PROVE  (call'[b].op = "release" /\ call'[b].h = call[b].h) \/ Terminal(call[b].h)
  BY <1>38, DrainReleasedMove, Constants, CallTypes, Domains
    DEF Returns, CallInv, CallShape, Hooking, HookPhases, CommitPhases, Call, NoCall, PhaseInv,
         PhaseShape
<1>39. ASSUME DrainJoined, b = Drain
      PROVE  (call'[b].op = "release" /\ call'[b].h = call[b].h) \/ Terminal(call[b].h)
  BY <1>39, DrainJoinedMove, Constants, CallTypes, Domains
    DEF Moves, CallInv, CallShape, Hooking, HookPhases, CommitPhases, Call, NoCall, PhaseInv,
         PhaseShape
<1>40. ASSUME DrainAwaited, b = Drain
      PROVE  (call'[b].op = "release" /\ call'[b].h = call[b].h) \/ Terminal(call[b].h)
  BY <1>40, DrainAwaitedMove, Constants, CallTypes, Domains
    DEF Moves, CallInv, CallShape, Hooking, HookPhases, CommitPhases, Call, NoCall, PhaseInv,
         PhaseShape
<1>41. CASE DrainStart \/ (\E c \in Client : Create(c)) \/ Stands(b)
  BY <1>41, DrainStartMove, CreateMove DEF Stands, SameCall
<1> QED
  BY <1>1, <1>2, <1>3, <1>4, <1>5, <1>6, <1>7, <1>8, <1>9, <1>10, <1>11, <1>12, <1>13, <1>14,
     <1>15, <1>16, <1>17, <1>18, <1>19, <1>20, <1>21, <1>22, <1>23, <1>24, <1>25, <1>26, <1>27,
     <1>28, <1>29, <1>30, <1>31, <1>32, <1>33, <1>34, <1>35, <1>36, <1>37, <1>38, <1>39, <1>40,
     <1>41, WhoActs, Constants
    DEF Acts, CommitStep, NameStep, CallStart, DrainStep

\* How a future of the drain ends.
LEMMA FutureEnds ==
    ASSUME TypeOK, CallInv, DrainShape, Next, NEW b \in Handle, pc'[b] = "idle"
    PROVE  pc[b] = "idle" \/ ReleaseDrop(b) \/ DrainReleased(b)
<1>1. ASSUME NEW a \in Handle \cup Client, InstallHook(a), b = a
      PROVE  pc[b] = "idle" \/ ReleaseDrop(b) \/ DrainReleased(b)
  BY <1>1, InstallHookMove, Constants
    DEF Moves, CallInv, CallShape, Hooking, HookPhases, CommitPhases
<1>2. ASSUME NEW a \in Handle \cup Client, HookOnTheSpot(a), b = a
      PROVE  pc[b] = "idle" \/ ReleaseDrop(b) \/ DrainReleased(b)
  BY <1>2, HookOnTheSpotMove, Constants
    DEF Moves, CallInv, CallShape, Hooking, HookPhases, CommitPhases
<1>3. ASSUME NEW a \in Handle \cup Client, FulfilHook(a), b = a
      PROVE  pc[b] = "idle" \/ ReleaseDrop(b) \/ DrainReleased(b)
  BY <1>3, FulfilHookMove, Constants
    DEF Moves, SameCall, CallInv, CallShape, Hooking, HookPhases, CommitPhases
<1>4. ASSUME NEW a \in Handle \cup Client, RemoveHook(a), b = a
      PROVE  pc[b] = "idle" \/ ReleaseDrop(b) \/ DrainReleased(b)
  BY <1>4, RemoveHookMove, Constants
    DEF Moves, CallInv, CallShape, Hooking, HookPhases, CommitPhases
<1>5. ASSUME NEW a \in Handle \cup Client, Demote(a), b = a
      PROVE  pc[b] = "idle" \/ ReleaseDrop(b) \/ DrainReleased(b)
  BY <1>5, DemoteMove, Constants DEF Returns, CallInv, CallShape, Hooking, HookPhases, CommitPhases
<1>6. ASSUME NEW a \in Handle \cup Client, CommitLocked(a), b = a
      PROVE  pc[b] = "idle" \/ ReleaseDrop(b) \/ DrainReleased(b)
  BY <1>6, CommitLockedMove, Constants
    DEF Moves, Returns, CallInv, CallShape, Hooking, HookPhases, CommitPhases
<1>7. ASSUME NEW a \in Handle \cup Client, CommitUnlock(a), b = a
      PROVE  pc[b] = "idle" \/ ReleaseDrop(b) \/ DrainReleased(b)
  BY <1>7, CommitUnlockMove, Constants
    DEF Returns, CallInv, CallShape, Hooking, HookPhases, CommitPhases
<1>8. ASSUME NEW a \in Handle \cup Client, CommitStart(a), b = a
      PROVE  pc[b] = "idle" \/ ReleaseDrop(b) \/ DrainReleased(b)
  BY <1>8, CommitStartMove, Constants
    DEF Moves, CallInv, CallShape, Hooking, HookPhases, CommitPhases
<1>9. ASSUME NEW a \in Handle \cup Client, CommitFinish(a), b = a
      PROVE  pc[b] = "idle" \/ ReleaseDrop(b) \/ DrainReleased(b)
  BY <1>9, CommitFinishMove, Constants
    DEF Moves, CallInv, CallShape, Hooking, HookPhases, CommitPhases
<1>10. ASSUME NEW a \in Handle \cup Client, CommitHub(a), b = a
      PROVE  pc[b] = "idle" \/ ReleaseDrop(b) \/ DrainReleased(b)
  BY <1>10, CommitHubMove, Constants
    DEF Moves, CallInv, CallShape, Hooking, HookPhases, CommitPhases
<1>11. ASSUME NEW a \in Handle \cup Client, CommitHubFails(a), b = a
      PROVE  pc[b] = "idle" \/ ReleaseDrop(b) \/ DrainReleased(b)
  BY <1>11, CommitHubFailsMove, Constants
    DEF Moves, CallInv, CallShape, Hooking, HookPhases, CommitPhases
<1>12. ASSUME NEW a \in Handle \cup Client, CommitApply(a), b = a
      PROVE  pc[b] = "idle" \/ ReleaseDrop(b) \/ DrainReleased(b)
  BY <1>12, CommitApplyMove, Constants
    DEF Moves, CallInv, CallShape, Hooking, HookPhases, CommitPhases
<1>13. ASSUME NEW a \in Handle \cup Client, CommitSucceeded(a), b = a
      PROVE  pc[b] = "idle" \/ ReleaseDrop(b) \/ DrainReleased(b)
  BY <1>13, CommitSucceededMove, Constants
    DEF Moves, CallInv, CallShape, Hooking, HookPhases, CommitPhases
<1>14. ASSUME NEW a \in Handle \cup Client, CommitFailed(a), b = a
      PROVE  pc[b] = "idle" \/ ReleaseDrop(b) \/ DrainReleased(b)
  BY <1>14, CommitFailedMove, Constants DEF CommitFailed, Returns, CallInv, CallShape, CommitPhases
<1>15. ASSUME NEW a \in Handle \cup Client, ReleaseRetry(a), b = a
      PROVE  pc[b] = "idle" \/ ReleaseDrop(b) \/ DrainReleased(b)
  BY <1>15, ReleaseRetryMove, Constants
    DEF Moves, CallInv, CallShape, Hooking, HookPhases, CommitPhases
<1>16. ASSUME NEW a \in Handle \cup Client, ReleaseFailed(a), b = a
      PROVE  pc[b] = "idle" \/ ReleaseDrop(b) \/ DrainReleased(b)
  BY <1>16, ReleaseFailedMove, Constants
    DEF Moves, CallInv, CallShape, Hooking, HookPhases, CommitPhases
<1>17. ASSUME NEW a \in Handle \cup Client, ReleaseCheck(a), b = a
      PROVE  pc[b] = "idle" \/ ReleaseDrop(b) \/ DrainReleased(b)
  BY <1>17, ReleaseCheckMove, Constants
    DEF Moves, CallInv, CallShape, Hooking, HookPhases, CommitPhases
<1>18. ASSUME NEW a \in Handle \cup Client, ReleaseLocked(a), b = a
      PROVE  pc[b] = "idle" \/ ReleaseDrop(b) \/ DrainReleased(b)
  BY <1>18, ReleaseLockedMove, Constants
    DEF Moves, CallInv, CallShape, Hooking, HookPhases, CommitPhases
<1>19. ASSUME NEW a \in Handle \cup Client, ReleaseUnlock(a), b = a
      PROVE  pc[b] = "idle" \/ ReleaseDrop(b) \/ DrainReleased(b)
  BY <1>19, ReleaseUnlockMove, Constants
    DEF Moves, CallInv, CallShape, Hooking, HookPhases, CommitPhases
<1>20. ASSUME NEW h \in Handle, DrainFlush(h), b = h
      PROVE  pc[b] = "idle" \/ ReleaseDrop(b) \/ DrainReleased(b)
  BY <1>20, DrainFlushMove, Constants
    DEF Moves, Begins, CallInv, CallShape, Hooking, HookPhases, CommitPhases
<1>21. ASSUME NEW h \in Handle, DrainRelease(h), b = h
      PROVE  pc[b] = "idle" \/ ReleaseDrop(b) \/ DrainReleased(b)
  BY <1>21, DrainReleaseMove, Constants
    DEF Moves, Begins, CallInv, CallShape, Hooking, HookPhases, CommitPhases
<1>22. CASE DrainStart \/ Stands(b)
  BY <1>22, DrainStartMove DEF Stands
<1> QED
  BY <1>1, <1>2, <1>3, <1>4, <1>5, <1>6, <1>7, <1>8, <1>9, <1>10, <1>11, <1>12, <1>13, <1>14,
     <1>15, <1>16, <1>17, <1>18, <1>19, <1>20, <1>21, <1>22, WhoActs, Constants
    DEF Acts, CommitStep

\* What the drain waits for.
LEMMA WatchStep ==
    ASSUME TypeOK, DrainShape, Next
    PROVE  \/ call'[Drain].watch = call[Drain].watch \/ DrainJoined
           \/ \E b \in Handle \cup Client : pc[b] = "fulfil" /\ call[b].h = call[Drain].watch
<1>1. ASSUME NEW a \in Handle \cup Client, InstallHook(a)
      PROVE  \/ call'[Drain].watch = call[Drain].watch \/ DrainJoined
           \/ \E b \in Handle \cup Client : pc[b] = "fulfil" /\ call[b].h = call[Drain].watch
  BY <1>1, InstallHookMove, Constants, Domains DEF Moves, OtherCalls
<1>2. ASSUME NEW a \in Handle \cup Client, HookOnTheSpot(a)
      PROVE  \/ call'[Drain].watch = call[Drain].watch \/ DrainJoined
           \/ \E b \in Handle \cup Client : pc[b] = "fulfil" /\ call[b].h = call[Drain].watch
  BY <1>2, HookOnTheSpotMove, Constants, Domains DEF Moves, OtherCalls
<1>3. ASSUME NEW a \in Handle \cup Client, FulfilHook(a)
      PROVE  \/ call'[Drain].watch = call[Drain].watch \/ DrainJoined
           \/ \E b \in Handle \cup Client : pc[b] = "fulfil" /\ call[b].h = call[Drain].watch
  <2>1. pc[a] = "fulfil" /\ call'[Drain].watch \in {call[Drain].watch, None}
    BY <1>3, FulfilHookMove, Constants DEF Moves
  <2>2. call'[Drain].watch # call[Drain].watch => call[a].h = call[Drain].watch
    BY <1>3, FulfilHookMove, Constants
  <2> QED
    BY <2>1, <2>2
<1>4. ASSUME NEW a \in Handle \cup Client, RemoveHook(a)
      PROVE  \/ call'[Drain].watch = call[Drain].watch \/ DrainJoined
           \/ \E b \in Handle \cup Client : pc[b] = "fulfil" /\ call[b].h = call[Drain].watch
  BY <1>4, RemoveHookMove, Constants, Domains DEF Moves, OtherCalls
<1>5. ASSUME NEW a \in Handle \cup Client, Demote(a)
      PROVE  \/ call'[Drain].watch = call[Drain].watch \/ DrainJoined
           \/ \E b \in Handle \cup Client : pc[b] = "fulfil" /\ call[b].h = call[Drain].watch
  BY <1>5, DemoteMove, Constants, Domains DEF Returns, OtherCalls
<1>6. ASSUME NEW a \in Handle \cup Client, CommitLocked(a)
      PROVE  \/ call'[Drain].watch = call[Drain].watch \/ DrainJoined
           \/ \E b \in Handle \cup Client : pc[b] = "fulfil" /\ call[b].h = call[Drain].watch
  BY <1>6, CommitLockedMove, Constants, Domains DEF Moves, Returns, OtherCalls
<1>7. ASSUME NEW a \in Handle \cup Client, CommitUnlock(a)
      PROVE  \/ call'[Drain].watch = call[Drain].watch \/ DrainJoined
           \/ \E b \in Handle \cup Client : pc[b] = "fulfil" /\ call[b].h = call[Drain].watch
  BY <1>7, CommitUnlockMove, Constants, Domains DEF Returns, OtherCalls
<1>8. ASSUME NEW a \in Handle \cup Client, CommitStart(a)
      PROVE  \/ call'[Drain].watch = call[Drain].watch \/ DrainJoined
           \/ \E b \in Handle \cup Client : pc[b] = "fulfil" /\ call[b].h = call[Drain].watch
  BY <1>8, CommitStartMove, Constants, Domains DEF Moves, OtherCalls
<1>9. ASSUME NEW a \in Handle \cup Client, CommitFinish(a)
      PROVE  \/ call'[Drain].watch = call[Drain].watch \/ DrainJoined
           \/ \E b \in Handle \cup Client : pc[b] = "fulfil" /\ call[b].h = call[Drain].watch
  BY <1>9, CommitFinishMove, Constants, Domains DEF Moves, OtherCalls
<1>10. ASSUME NEW a \in Handle \cup Client, CommitHub(a)
      PROVE  \/ call'[Drain].watch = call[Drain].watch \/ DrainJoined
           \/ \E b \in Handle \cup Client : pc[b] = "fulfil" /\ call[b].h = call[Drain].watch
  BY <1>10, CommitHubMove, Constants, Domains DEF Moves, OtherCalls
<1>11. ASSUME NEW a \in Handle \cup Client, CommitHubFails(a)
      PROVE  \/ call'[Drain].watch = call[Drain].watch \/ DrainJoined
           \/ \E b \in Handle \cup Client : pc[b] = "fulfil" /\ call[b].h = call[Drain].watch
  BY <1>11, CommitHubFailsMove, Constants, Domains DEF Moves, OtherCalls
<1>12. ASSUME NEW a \in Handle \cup Client, CommitApply(a)
      PROVE  \/ call'[Drain].watch = call[Drain].watch \/ DrainJoined
           \/ \E b \in Handle \cup Client : pc[b] = "fulfil" /\ call[b].h = call[Drain].watch
  BY <1>12, CommitApplyMove, Constants, Domains DEF Moves, OtherCalls
<1>13. ASSUME NEW a \in Handle \cup Client, CommitSucceeded(a)
      PROVE  \/ call'[Drain].watch = call[Drain].watch \/ DrainJoined
           \/ \E b \in Handle \cup Client : pc[b] = "fulfil" /\ call[b].h = call[Drain].watch
  BY <1>13, CommitSucceededMove, Constants, Domains DEF Moves, OtherCalls
<1>14. ASSUME NEW a \in Handle \cup Client, CommitFailed(a)
      PROVE  \/ call'[Drain].watch = call[Drain].watch \/ DrainJoined
           \/ \E b \in Handle \cup Client : pc[b] = "fulfil" /\ call[b].h = call[Drain].watch
  BY <1>14, CommitFailedMove, Constants, Domains DEF Returns, OtherCalls
<1>15. ASSUME NEW a \in Handle \cup Client, ReleaseRetry(a)
      PROVE  \/ call'[Drain].watch = call[Drain].watch \/ DrainJoined
           \/ \E b \in Handle \cup Client : pc[b] = "fulfil" /\ call[b].h = call[Drain].watch
  BY <1>15, ReleaseRetryMove, Constants, Domains DEF Moves, OtherCalls
<1>16. ASSUME NEW a \in Handle \cup Client, ReleaseFailed(a)
      PROVE  \/ call'[Drain].watch = call[Drain].watch \/ DrainJoined
           \/ \E b \in Handle \cup Client : pc[b] = "fulfil" /\ call[b].h = call[Drain].watch
  BY <1>16, ReleaseFailedMove, Constants, Domains DEF Moves, OtherCalls
<1>17. ASSUME NEW a \in Handle \cup Client, ReleaseCheck(a)
      PROVE  \/ call'[Drain].watch = call[Drain].watch \/ DrainJoined
           \/ \E b \in Handle \cup Client : pc[b] = "fulfil" /\ call[b].h = call[Drain].watch
  BY <1>17, ReleaseCheckMove, Constants, Domains DEF Moves, OtherCalls
<1>18. ASSUME NEW a \in Handle \cup Client, ReleaseLocked(a)
      PROVE  \/ call'[Drain].watch = call[Drain].watch \/ DrainJoined
           \/ \E b \in Handle \cup Client : pc[b] = "fulfil" /\ call[b].h = call[Drain].watch
  BY <1>18, ReleaseLockedMove, Constants, Domains DEF Moves, OtherCalls
<1>19. ASSUME NEW a \in Handle \cup Client, ReleaseUnlock(a)
      PROVE  \/ call'[Drain].watch = call[Drain].watch \/ DrainJoined
           \/ \E b \in Handle \cup Client : pc[b] = "fulfil" /\ call[b].h = call[Drain].watch
  BY <1>19, ReleaseUnlockMove, Constants, Domains DEF Moves, OtherCalls
<1>20. ASSUME NEW a \in Handle \cup Client, ReleaseDrop(a)
      PROVE  \/ call'[Drain].watch = call[Drain].watch \/ DrainJoined
           \/ \E b \in Handle \cup Client : pc[b] = "fulfil" /\ call[b].h = call[Drain].watch
  BY <1>20, ReleaseDropMove, Constants, Domains DEF Returns, OtherCalls
<1>21. ASSUME NEW a \in Client, OpenAwaited(a)
      PROVE  \/ call'[Drain].watch = call[Drain].watch \/ DrainJoined
           \/ \E b \in Handle \cup Client : pc[b] = "fulfil" /\ call[b].h = call[Drain].watch
  BY <1>21, OpenAwaitedMove, Constants, Domains DEF Moves, OtherCalls
<1>22. ASSUME NEW a \in Client, OpenLocked(a)
      PROVE  \/ call'[Drain].watch = call[Drain].watch \/ DrainJoined
           \/ \E b \in Handle \cup Client : pc[b] = "fulfil" /\ call[b].h = call[Drain].watch
  BY <1>22, OpenLockedMove, Constants, Domains DEF Moves, Returns, OtherCalls
<1>23. ASSUME NEW a \in Client, OpenSetup(a)
      PROVE  \/ call'[Drain].watch = call[Drain].watch \/ DrainJoined
           \/ \E b \in Handle \cup Client : pc[b] = "fulfil" /\ call[b].h = call[Drain].watch
  BY <1>23, OpenSetupMove, Constants, Domains DEF Moves, OtherCalls
<1>24. ASSUME NEW a \in Client, OpenSetupFails(a)
      PROVE  \/ call'[Drain].watch = call[Drain].watch \/ DrainJoined
           \/ \E b \in Handle \cup Client : pc[b] = "fulfil" /\ call[b].h = call[Drain].watch
  BY <1>24, OpenSetupFailsMove, Constants, Domains DEF Returns, OtherCalls
<1>25. ASSUME NEW a \in Client, OpenSupersede(a)
      PROVE  \/ call'[Drain].watch = call[Drain].watch \/ DrainJoined
           \/ \E b \in Handle \cup Client : pc[b] = "fulfil" /\ call[b].h = call[Drain].watch
  BY <1>25, OpenSupersedeMove, Constants, Domains DEF Moves, OtherCalls
<1>26. ASSUME NEW a \in Client, OpenInstall(a)
      PROVE  \/ call'[Drain].watch = call[Drain].watch \/ DrainJoined
           \/ \E b \in Handle \cup Client : pc[b] = "fulfil" /\ call[b].h = call[Drain].watch
  BY <1>26, OpenInstallMove, Constants, Domains DEF Returns, OtherCalls
<1>27. ASSUME NEW a \in Client, UnlinkLocked(a)
      PROVE  \/ call'[Drain].watch = call[Drain].watch \/ DrainJoined
           \/ \E b \in Handle \cup Client : pc[b] = "fulfil" /\ call[b].h = call[Drain].watch
  BY <1>27, UnlinkLockedMove, Constants, Domains DEF Moves, Returns, OtherCalls
<1>28. ASSUME NEW a \in Client, UnlinkRemote(a)
      PROVE  \/ call'[Drain].watch = call[Drain].watch \/ DrainJoined
           \/ \E b \in Handle \cup Client : pc[b] = "fulfil" /\ call[b].h = call[Drain].watch
  BY <1>28, UnlinkRemoteMove, Constants, Domains DEF Moves, OtherCalls
<1>29. ASSUME NEW a \in Client, UnlinkRemoteFails(a)
      PROVE  \/ call'[Drain].watch = call[Drain].watch \/ DrainJoined
           \/ \E b \in Handle \cup Client : pc[b] = "fulfil" /\ call[b].h = call[Drain].watch
  BY <1>29, UnlinkRemoteFailsMove, Constants, Domains DEF Returns, OtherCalls
<1>30. ASSUME NEW a \in Client, UnlinkLocal(a)
      PROVE  \/ call'[Drain].watch = call[Drain].watch \/ DrainJoined
           \/ \E b \in Handle \cup Client : pc[b] = "fulfil" /\ call[b].h = call[Drain].watch
  BY <1>30, UnlinkLocalMove, Constants, Domains DEF Returns, OtherCalls
<1>31. ASSUME NEW a \in Client, Create(a)
      PROVE  \/ call'[Drain].watch = call[Drain].watch \/ DrainJoined
           \/ \E b \in Handle \cup Client : pc[b] = "fulfil" /\ call[b].h = call[Drain].watch
  BY <1>31, CreateMove, Constants, Domains DEF OtherCalls
<1>32. ASSUME NEW a \in Client, OpenStart(a)
      PROVE  \/ call'[Drain].watch = call[Drain].watch \/ DrainJoined
           \/ \E b \in Handle \cup Client : pc[b] = "fulfil" /\ call[b].h = call[Drain].watch
  BY <1>32, OpenStartMove, Constants, Domains DEF Moves, OtherCalls
<1>33. ASSUME NEW a \in Client, UnlinkStart(a)
      PROVE  \/ call'[Drain].watch = call[Drain].watch \/ DrainJoined
           \/ \E b \in Handle \cup Client : pc[b] = "fulfil" /\ call[b].h = call[Drain].watch
  BY <1>33, UnlinkStartMove, Constants, Domains DEF Moves, Begins, OtherCalls
<1>34. ASSUME NEW a \in Client, LinkStart(a)
      PROVE  \/ call'[Drain].watch = call[Drain].watch \/ DrainJoined
           \/ \E b \in Handle \cup Client : pc[b] = "fulfil" /\ call[b].h = call[Drain].watch
  BY <1>34, LinkStartMove, Constants, Domains DEF Moves, Begins, OtherCalls
<1>35. ASSUME NEW a \in Client, NEW h \in Handle, NEW dup \in BOOLEAN, FlushStart(a, h, dup)
      PROVE  \/ call'[Drain].watch = call[Drain].watch \/ DrainJoined
           \/ \E b \in Handle \cup Client : pc[b] = "fulfil" /\ call[b].h = call[Drain].watch
  BY <1>35, FlushStartMove, Constants, Domains DEF Moves, Begins, OtherCalls
<1>36. ASSUME NEW a \in Client, NEW h \in Handle, ReleaseStart(a, h)
      PROVE  \/ call'[Drain].watch = call[Drain].watch \/ DrainJoined
           \/ \E b \in Handle \cup Client : pc[b] = "fulfil" /\ call[b].h = call[Drain].watch
  BY <1>36, ReleaseStartMove, Constants, Domains DEF Moves, Begins, OtherCalls
<1>37. ASSUME NEW h \in Handle, Write(h)
      PROVE  \/ call'[Drain].watch = call[Drain].watch \/ DrainJoined
           \/ \E b \in Handle \cup Client : pc[b] = "fulfil" /\ call[b].h = call[Drain].watch
  BY <1>37, WriteMove, Constants, Domains DEF OtherCalls
<1>38. ASSUME NEW h \in Handle, WorkerFails(h)
      PROVE  \/ call'[Drain].watch = call[Drain].watch \/ DrainJoined
           \/ \E b \in Handle \cup Client : pc[b] = "fulfil" /\ call[b].h = call[Drain].watch
  BY <1>38, WorkerFailsMove, Constants, Domains DEF OtherCalls
<1>39. ASSUME NEW h \in Handle, DrainFlush(h)
      PROVE  \/ call'[Drain].watch = call[Drain].watch \/ DrainJoined
           \/ \E b \in Handle \cup Client : pc[b] = "fulfil" /\ call[b].h = call[Drain].watch
  BY <1>39, DrainFlushMove, Constants, Domains DEF Moves, Begins, OtherCalls
<1>40. ASSUME NEW h \in Handle, DrainRelease(h)
      PROVE  \/ call'[Drain].watch = call[Drain].watch \/ DrainJoined
           \/ \E b \in Handle \cup Client : pc[b] = "fulfil" /\ call[b].h = call[Drain].watch
  BY <1>40, DrainReleaseMove, Constants, Domains DEF Moves, Begins, OtherCalls
<1>41. ASSUME NEW h \in Handle, DrainReleased(h)
      PROVE  \/ call'[Drain].watch = call[Drain].watch \/ DrainJoined
           \/ \E b \in Handle \cup Client : pc[b] = "fulfil" /\ call[b].h = call[Drain].watch
  BY <1>41, DrainReleasedMove, Constants, Domains DEF Returns, OtherCalls
<1>42. ASSUME DrainStart
      PROVE  \/ call'[Drain].watch = call[Drain].watch \/ DrainJoined
           \/ \E b \in Handle \cup Client : pc[b] = "fulfil" /\ call[b].h = call[Drain].watch
  BY <1>42, DrainStartMove, Constants, Domains DEF OtherCalls
<1>43. ASSUME DrainAwaited
      PROVE  \/ call'[Drain].watch = call[Drain].watch \/ DrainJoined
           \/ \E b \in Handle \cup Client : pc[b] = "fulfil" /\ call[b].h = call[Drain].watch
  BY <1>43, DrainAwaitedMove, Constants, Domains DEF Moves, OtherCalls
<1> QED
  BY <1>1, <1>2, <1>3, <1>4, <1>5, <1>6, <1>7, <1>8, <1>9, <1>10, <1>11, <1>12, <1>13, <1>14,
     <1>15, <1>16, <1>17, <1>18, <1>19, <1>20, <1>21, <1>22, <1>23, <1>24, <1>25, <1>26, <1>27,
     <1>28, <1>29, <1>30, <1>31, <1>32, <1>33, <1>34, <1>35, <1>36, <1>37, <1>38, <1>39, <1>40,
     <1>41, <1>42, <1>43
    DEF Next, FutureStep, CommitStep, NameStep, CallStart, DrainStep

\* Who ends a channel goes on to its hook.
LEMMA BecomesTerminal ==
    ASSUME TypeOK, CallInv, PhaseInv, DrainShape, Next
    PROVE  \A k \in Handle : Terminal(k)' =>
               Terminal(k) \/ \E b \in Actor : pc'[b] \in {"fulfil", "succeeded"} /\ call'[b].h = k
<1>1. ASSUME NEW a \in Handle \cup Client, InstallHook(a)
      PROVE  \A k \in Handle : Terminal(k)' =>
               Terminal(k) \/ \E b \in Actor : pc'[b] \in {"fulfil", "succeeded"} /\ call'[b].h = k
  BY <1>1, InstallHookChannel DEF Terminal
<1>2. ASSUME NEW a \in Handle \cup Client, FulfilHook(a)
      PROVE  \A k \in Handle : Terminal(k)' =>
               Terminal(k) \/ \E b \in Actor : pc'[b] \in {"fulfil", "succeeded"} /\ call'[b].h = k
  BY <1>2, FulfilHookChannel DEF Terminal
<1>3. ASSUME NEW a \in Handle \cup Client, RemoveHook(a)
      PROVE  \A k \in Handle : Terminal(k)' =>
               Terminal(k) \/ \E b \in Actor : pc'[b] \in {"fulfil", "succeeded"} /\ call'[b].h = k
  BY <1>3, RemoveHookChannel DEF Terminal
<1>4. ASSUME NEW a \in Handle \cup Client, Demote(a)
      PROVE  \A k \in Handle : Terminal(k)' =>
               Terminal(k) \/ \E b \in Actor : pc'[b] \in {"fulfil", "succeeded"} /\ call'[b].h = k
  BY <1>4, DemoteChannel DEF Terminal
<1>5. ASSUME NEW a \in Handle \cup Client, CommitStart(a)
      PROVE  \A k \in Handle : Terminal(k)' =>
               Terminal(k) \/ \E b \in Actor : pc'[b] \in {"fulfil", "succeeded"} /\ call'[b].h = k
  BY <1>5, CommitStartChannel DEF Terminal
<1>6. ASSUME NEW a \in Handle \cup Client, CommitFinish(a)
      PROVE  \A k \in Handle : Terminal(k)' =>
               Terminal(k) \/ \E b \in Actor : pc'[b] \in {"fulfil", "succeeded"} /\ call'[b].h = k
  BY <1>6, CommitFinishChannel DEF Terminal
<1>7. ASSUME NEW a \in Handle \cup Client, CommitHub(a)
      PROVE  \A k \in Handle : Terminal(k)' =>
               Terminal(k) \/ \E b \in Actor : pc'[b] \in {"fulfil", "succeeded"} /\ call'[b].h = k
  BY <1>7, CommitHubChannel DEF Terminal
<1>8. ASSUME NEW a \in Handle \cup Client, CommitHubFails(a)
      PROVE  \A k \in Handle : Terminal(k)' =>
               Terminal(k) \/ \E b \in Actor : pc'[b] \in {"fulfil", "succeeded"} /\ call'[b].h = k
  BY <1>8, CommitHubFailsChannel DEF Terminal
<1>9. ASSUME NEW a \in Handle \cup Client, CommitApply(a)
      PROVE  \A k \in Handle : Terminal(k)' =>
               Terminal(k) \/ \E b \in Actor : pc'[b] \in {"fulfil", "succeeded"} /\ call'[b].h = k
  BY <1>9, CommitApplyChannel, CommitApplyMove, Constants DEF Moves, Terminal
<1>10. ASSUME NEW a \in Handle \cup Client, CommitSucceeded(a)
      PROVE  \A k \in Handle : Terminal(k)' =>
               Terminal(k) \/ \E b \in Actor : pc'[b] \in {"fulfil", "succeeded"} /\ call'[b].h = k
  <2>1. pc'[a] = "fulfil" /\ call'[a].h = call[a].h /\ a \in Actor
    BY <1>10, CommitSucceededMove, Constants, CallTypes, Domains DEF Moves, Call
  <2> QED
    BY <1>10, <2>1, CommitSucceededChannel DEF Terminal
<1>11. ASSUME NEW a \in Handle \cup Client, ReleaseFailed(a)
      PROVE  \A k \in Handle : Terminal(k)' =>
               Terminal(k) \/ \E b \in Actor : pc'[b] \in {"fulfil", "succeeded"} /\ call'[b].h = k
  <2>1. pc'[a] = "fulfil" /\ call'[a].h = call[a].h /\ a \in Actor
    BY <1>11, ReleaseFailedMove, Constants, CallTypes, Domains DEF Moves, Call
  <2> QED
    BY <1>11, <2>1, ReleaseFailedChannel DEF Terminal
<1>12. ASSUME NEW a \in Client, OpenSetup(a)
      PROVE  \A k \in Handle : Terminal(k)' =>
               Terminal(k) \/ \E b \in Actor : pc'[b] \in {"fulfil", "succeeded"} /\ call'[b].h = k
  BY <1>12, OpenSetupChannel DEF Terminal
<1>13. ASSUME NEW a \in Client, OpenSupersede(a)
      PROVE  \A k \in Handle : Terminal(k)' =>
               Terminal(k) \/ \E b \in Actor : pc'[b] \in {"fulfil", "succeeded"} /\ call'[b].h = k
  <2>1. pc'[a] = "fulfil" /\ call'[a].h = call[a].h /\ a \in Actor
    BY <1>13, OpenSupersedeMove, Constants DEF Moves
  <2>2. \A h \in Handle \ {call[a].h} : ch'[h] = ch[h]
    BY <1>13, OpenSupersedeChannel
  <2> QED
    BY <2>1, <2>2 DEF Terminal
<1>14. ASSUME NEW a \in Client, OpenInstall(a)
      PROVE  \A k \in Handle : Terminal(k)' =>
               Terminal(k) \/ \E b \in Actor : pc'[b] \in {"fulfil", "succeeded"} /\ call'[b].h = k
  BY <1>14, OpenInstallChannel DEF Terminal
<1>15. ASSUME NEW a \in Client, Create(a)
      PROVE  \A k \in Handle : Terminal(k)' =>
               Terminal(k) \/ \E b \in Actor : pc'[b] \in {"fulfil", "succeeded"} /\ call'[b].h = k
  BY <1>15, CreateChannel DEF Terminal
<1>16. ASSUME NEW h \in Handle, Write(h)
      PROVE  \A k \in Handle : Terminal(k)' =>
               Terminal(k) \/ \E b \in Actor : pc'[b] \in {"fulfil", "succeeded"} /\ call'[b].h = k
  BY <1>16, WriteChannel DEF Terminal
<1>17. ASSUME NEW h \in Handle, WorkerFails(h)
      PROVE  \A k \in Handle : Terminal(k)' =>
               Terminal(k) \/ \E b \in Actor : pc'[b] \in {"fulfil", "succeeded"} /\ call'[b].h = k
  BY <1>17, WorkerFailsChannel DEF Terminal
<1> QED
  BY <1>1, <1>2, <1>3, <1>4, <1>5, <1>6, <1>7, <1>8, <1>9, <1>10, <1>11, <1>12, <1>13, <1>14,
     <1>15, <1>16, <1>17, ChannelFrame DEF Terminal

------------------------------------------------------------------------------
(* The hook and those who wait for it. *)

\* The type of every variable.
LEMMA TypeStep ==
    ASSUME TypeOK, LockInv, CallInv, PhaseInv, BytesInv, Next
    PROVE  TypeOK'
<1>1. pending_commits' \in Handle \cup {None}
  <2>1. ASSUME NEW a \in Handle \cup Client, InstallHook(a) \/ RemoveHook(a)
        PROVE  pending_commits' \in {call[a].h, pending_commits, None} /\ call[a].h \in Handle \cup {None}
    BY <2>1, CallTypes, Constants DEF InstallHook, RemoveHook
  <2> QED
    BY <2>1, HookFrame DEF TypeOK
<1>2. due' \subseteq Handle
  BY DueFrame, Domains DEF DrainStart
<1> QED
  BY <1>1, <1>2, WhereType, ChannelType, InodeType, FilesType, LockType DEF TypeOK

\* A writer stays one until its channel ends ...
LEMMA WriterEnds ==
    ASSUME TypeOK, LockInv, CallInv, PhaseInv, BytesInv, HandleInv, FilesInv, Next,
           NEW h \in Handle, Writer(h) \/ Terminal(h)
    PROVE  Writer(h)' \/ Terminal(h)'
<1>1. CASE Terminal(h)
  BY <1>1, TerminalStable
<1>2. CASE Writer(h)
  <2>1. h \in open_handles' /\ ch[h].state # "unused"
    BY <1>2, FilesStep DEF FilesChange, Writer, Unfinished, Terminal
  <2>2. ch'[h].state # "unused" /\ ch'[h] \in StreamingChannel
    BY <2>1, UsedStable, TypeStep DEF TypeOK
  <2> QED
    BY <2>1, <2>2 DEF Writer, Unfinished, Terminal, StreamingChannel, CommitState
<1> QED
  BY <1>1, <1>2

\* ... and a new one comes with its open handle.
LEMMA WriterCame ==
    ASSUME TypeOK, CallInv, PhaseInv, HandleInv, FilesInv, Next, NEW h \in Handle, Writer(h)'
    PROVE  Writer(h) \/ h \in open_files'
<1>1. CASE h \in open_handles
  <2>1. ch[h].state # "unused" /\ ~Terminal(h)
    BY <1>1, TerminalStable DEF FilesInv, Writer, Unfinished, Terminal
  <2> QED
    BY <1>1, <2>1, ChannelTypes DEF Writer, Unfinished, Terminal, CommitState
<1>2. CASE h \notin open_handles
  BY <1>2, FilesStep DEF FilesChange, Writer
<1> QED
  BY <1>1, <1>2

\* A handle leaves the open ones with its release().
LEMMA FilesLeave ==
    ASSUME TypeOK, Next, NEW h \in open_files, h \notin open_files'
    PROVE  \E a \in Actor :
               /\ call'[a].op = "release" /\ call'[a].h = h
               /\ ~Terminal(h) => pc'[a] = "install" /\ call'[a].after = "release_check"
<1>1. ASSUME NEW a \in Client, NEW g \in Handle, ReleaseStart(a, g)
      PROVE  g = h /\ a \in Actor
  BY <1>1, Constants DEF ReleaseStart, Release
<1>2. ASSUME NEW g \in Handle, DrainRelease(g)
      PROVE  g = h /\ g \in Actor
  BY <1>2, Constants DEF DrainRelease, Release
<1>3. ASSUME NEW a \in Client, ReleaseStart(a, h)
      PROVE  /\ call'[a].op = "release" /\ call'[a].h = h
             /\ ~Terminal(h) => pc'[a] = "install" /\ call'[a].after = "release_check"
  BY <1>3, Domains, ReleaseStartMove DEF Begins, Moves
<1>4. ASSUME DrainRelease(h)
      PROVE  /\ call'[h].op = "release" /\ call'[h].h = h
             /\ ~Terminal(h) => pc'[h] = "install" /\ call'[h].after = "release_check"
  BY <1>4, Domains, DrainReleaseMove DEF Begins, Moves
<1>5. ASSUME NEW a \in Handle \cup Client, ReleaseDrop(a)
      PROVE  FALSE
  BY <1>5 DEF ReleaseDrop
<1>6. ASSUME NEW a \in Client, OpenInstall(a) \/ Create(a)
      PROVE  FALSE
  BY <1>6 DEF OpenInstall, Create
<1> QED
  BY <1>1, <1>2, <1>3, <1>4, <1>5, <1>6, FilesFrame

\* What a call with a hook to set or to fulfil does next.
LEMMA HookDuty ==
    ASSUME TypeOK, DrainShape, Next, NEW b \in Actor, pc[b] \in HookPhases \cup {"succeeded"}
    PROVE  \/ Stands(b)
           \/ /\ b \in Handle \cup Client
              /\ \/ InstallHook(b) \/ HookOnTheSpot(b) \/ FulfilHook(b) \/ RemoveHook(b)
                 \/ CommitSucceeded(b)
<1> USE DEF HookPhases
<1>1. ~CallStart(b) /\ ~DrainFlush(b) /\ ~DrainRelease(b) /\ ~DrainReleased(b)
  BY DEF CallStart, Create, OpenStart, UnlinkStart, LinkStart, ReleaseStart, FlushStart,
     DrainFlush, DrainRelease, DrainReleased
<1>2. ~NameStep(b)
  BY DEF NameStep, OpenAwaited, OpenLocked, OpenSetup, OpenSetupFails, OpenSupersede, OpenInstall,
     UnlinkLocked, UnlinkRemote, UnlinkRemoteFails, UnlinkLocal
<1>3. CommitStep(b) => \/ InstallHook(b) \/ HookOnTheSpot(b) \/ FulfilHook(b) \/ RemoveHook(b)
                       \/ CommitSucceeded(b)
  BY DEF CommitStep, Demote, CommitLocked, CommitUnlock, CommitStart, CommitFinish, CommitHub,
     CommitHubFails, CommitApply, CommitFailed, ReleaseRetry, ReleaseFailed, ReleaseCheck,
     ReleaseLocked, ReleaseUnlock, ReleaseDrop
<1>4. b \in Handle => ~DrainStart
  BY DrainStartMove
<1>5. b # Drain
  BY DEF DrainShape
<1> QED
  BY <1>1, <1>2, <1>3, <1>4, <1>5, WhoActs DEF Acts

\* The steps that touch a hook, and the others.
HookStep(a) == InstallHook(a) \/ FulfilHook(a) \/ RemoveHook(a)
HooksStay == UNCHANGED pending_commits /\ \A h \in Handle : ch'[h].hook = ch[h].hook

\* All other steps leave the hooks alone.
LEMMA HookChange ==
    ASSUME TypeOK, CallInv, PhaseInv, HookInv, Next
    PROVE  HooksStay \/ \E a \in Handle \cup Client : HookStep(a)
<1>1. HandleLeft => ch[NextHandle].hook = "none"
  <2>1. ASSUME HandleLeft
        PROVE  NextHandle \in Handle /\ ch[NextHandle].state = "unused"
    BY <2>1, NextHandleUnused
  <2> QED
    BY <2>1, ChannelTypes DEF HookInv, Terminal, Writer, Unfinished
<1>2. ASSUME NEW a \in Handle \cup Client,
             \/ Demote(a) \/ CommitStart(a) \/ CommitFinish(a) \/ CommitHub(a) \/ CommitHubFails(a)
             \/ CommitApply(a) \/ CommitSucceeded(a) \/ ReleaseFailed(a)
      PROVE  \A h \in Handle : ch'[h].hook = ch[h].hook
  BY <1>2, DemoteChannel, CommitStartChannel, CommitFinishChannel, CommitHubChannel,
     CommitHubFailsChannel, CommitApplyChannel, CommitSucceededChannel, ReleaseFailedChannel
<1>3. ASSUME NEW a \in Client, OpenSupersede(a) \/ OpenInstall(a)
      PROVE  \A h \in Handle : ch'[h].hook = ch[h].hook
  BY <1>3, OpenSupersedeChannel, OpenInstallChannel
<1>4. ASSUME NEW a \in Client, OpenSetup(a) \/ Create(a)
      PROVE  \A h \in Handle : ch'[h].hook = ch[h].hook
  <2>1. HandleLeft
    BY <1>4 DEF OpenSetup, Create
  <2> QED
    BY <1>1, <1>4, <2>1, OpenSetupChannel, CreateChannel
<1>5. ASSUME NEW h \in Handle, Write(h) \/ WorkerFails(h)
      PROVE  \A g \in Handle : ch'[g].hook = ch[g].hook
  BY <1>5, WriteChannel, WorkerFailsChannel
<1>6. (\A h \in Handle : ch'[h].hook = ch[h].hook) \/ \E a \in Handle \cup Client : HookStep(a)
  BY <1>2, <1>3, <1>4, <1>5, ChannelFrame DEF HookStep
<1>7. UNCHANGED pending_commits \/ \E a \in Handle \cup Client : HookStep(a)
  BY HookFrame DEF HookStep
<1> QED
  BY <1>6, <1>7 DEF HooksStay

\* A hook that is set stays so until its channel has ended ...
LEMMA SetStays ==
    ASSUME TypeOK, CallInv, PhaseInv, HookInv, Next, NEW h \in Handle, ch[h].hook = "set", ~Terminal(h)
    PROVE  ch'[h].hook = "set"
<1>1. CASE HooksStay
  BY <1>1 DEF HooksStay
<1>2. ASSUME NEW a \in Handle \cup Client, InstallHook(a)
      PROVE  ch'[h].hook = "set"
  BY <1>2, InstallHookChannel
<1>3. ASSUME NEW a \in Handle \cup Client, FulfilHook(a) \/ RemoveHook(a)
      PROVE  ch'[h].hook = "set"
  <2>1. call[a].h # h
    BY <1>3, Constants DEF FulfilHook, RemoveHook, PhaseInv, PhaseShape, Terminal
  <2> QED
    BY <1>3, <2>1, FulfilHookChannel, RemoveHookChannel
<1> QED
  BY <1>1, <1>2, <1>3, HookChange DEF HookStep

\* ... and one that was not set before belongs to the call that sets it.
LEMMA SetBefore ==
    ASSUME TypeOK, CallInv, PhaseInv, HookInv, Next, NEW h \in Handle, ch'[h].hook = "set"
    PROVE  ch[h].hook = "set" \/ \E a \in Handle \cup Client : InstallHook(a) /\ call[a].h = h
<1>1. CASE HooksStay
  BY <1>1 DEF HooksStay
<1>2. ASSUME NEW a \in Handle \cup Client, HookStep(a)
      PROVE  ch[h].hook = "set" \/ (InstallHook(a) /\ call[a].h = h)
  <2>1. CASE h = call[a].h
    BY <1>2, <2>1, FulfilHookChannel, RemoveHookChannel DEF HookStep
  <2>2. CASE h # call[a].h
    BY <1>2, <2>2, InstallHookChannel, FulfilHookChannel, RemoveHookChannel DEF HookStep
  <2> QED
    BY <2>1, <2>2
<1> QED
  BY <1>1, <1>2, HookChange

\* Whoever is at work on a hook that is set or busy goes on with it.
LEMMA HookInvStep ==
    ASSUME TypeOK, LockInv, CallInv, PhaseInv, BytesInv, HandleInv, FilesInv, HookInv, DrainShape, Next
    PROVE  HookInv'
<1>1. \A a \in Actor : pc[a] \in HookPhases \cup {"succeeded"} => call[a].h \in Handle
  BY AtWork DEF CommitPhases
<1>2. ASSUME pending_commits' # None
      PROVE  ch'[pending_commits'].hook # "none"
  <2>1. pending_commits \in Handle \cup {None} /\ (pending_commits # None => ch[pending_commits].hook # "none")
    BY DEF TypeOK, HookInv
  <2>2. CASE HooksStay
    BY <1>2, <2>1, <2>2 DEF HooksStay
  <2>3. ASSUME NEW a \in Handle \cup Client, InstallHook(a)
        PROVE  ch'[pending_commits'].hook # "none"
    <3>1. pending_commits' \in {pending_commits, call[a].h}
      BY <2>3 DEF InstallHook
    <3> QED
      BY <1>2, <2>1, <2>3, <3>1, InstallHookChannel
  <2>4. ASSUME NEW a \in Handle \cup Client, FulfilHook(a)
        PROVE  ch'[pending_commits'].hook # "none"
    <3>1. pending_commits' = pending_commits
      BY <2>4 DEF FulfilHook
    <3> QED
      BY <1>2, <2>1, <2>4, <3>1, FulfilHookChannel
  <2>5. ASSUME NEW a \in Handle \cup Client, RemoveHook(a)
        PROVE  ch'[pending_commits'].hook # "none"
    <3>1. pending_commits' = pending_commits /\ pending_commits # call[a].h
      BY <1>2, <2>5 DEF RemoveHook
    <3> QED
      BY <1>2, <2>1, <2>5, <3>1, RemoveHookChannel
  <2> QED
    BY <2>2, <2>3, <2>4, <2>5, HookChange DEF HookStep
<1>3. ASSUME NEW a \in Actor, pc'[a] = "unhook"
      PROVE  /\ call'[a].h = call[a].h /\ call[a].h \in Handle /\ ch'[call[a].h].hook = "busy"
             /\ \/ pc[a] = "unhook"
                \/ pc[a] = "fulfil" /\ a \in Handle \cup Client /\ FulfilHook(a)
                        /\ ch[call[a].h].hook = "set"
  <2>1. CASE Stands(a)
    <3>1. pc[a] = "unhook" /\ call'[a].h = call[a].h /\ call[a].h \in Handle /\ ch[call[a].h].hook = "busy"
      BY <1>1, <1>3, <2>1 DEF Stands, SameCall, HookInv, HookPhases
    <3>2. CASE HooksStay
      BY <3>1, <3>2 DEF HooksStay
    <3>3. ASSUME NEW b \in Handle \cup Client, InstallHook(b) \/ FulfilHook(b)
          PROVE  ch'[call[a].h].hook = "busy"
      <4>1. call[b].h # call[a].h
        BY <3>1, <3>3 DEF InstallHook, FulfilHook
      <4> QED
        BY <3>1, <3>3, <4>1, InstallHookChannel, FulfilHookChannel
    <3>4. ASSUME NEW b \in Handle \cup Client, RemoveHook(b)
          PROVE  ch'[call[a].h].hook = "busy"
      <4>1. b # a
        BY <1>3, <3>4, RemoveHookMove, Constants DEF Moves, CallInv, CallShape, HookPhases
      <4>2. call[b].h # call[a].h
        BY <3>1, <3>4, <4>1, Constants DEF RemoveHook, HookInv
      <4> QED
        BY <3>1, <3>4, <4>2, RemoveHookChannel
    <3> QED
      BY <3>1, <3>2, <3>3, <3>4, HookChange DEF HookStep
  <2>2. CASE a \in Handle \cup Client /\ FulfilHook(a)
    <3>1. pc[a] = "fulfil" /\ call'[a].h = call[a].h /\ call[a].h \in Handle
      BY <1>1, <2>2, FulfilHookMove DEF Moves, SameCall, HookPhases
    <3>2. call[a].after # "unhook"
      BY <3>1 DEF CallInv, CallShape, HookPhases
    <3>3. ch[call[a].h].hook # "none" /\ ch[call[a].h].hook # "busy"
      BY <1>3, <2>2, <3>2, FulfilHookMove DEF Moves, FulfilHook
    <3>4. ch[call[a].h].hook = "set" /\ ch'[call[a].h].hook = "busy"
      BY <2>2, <3>1, <3>3, FulfilHookChannel, ChannelTypes
    <3> QED
      BY <2>2, <3>1, <3>4
  <2> QED
    BY <1>3, <2>1, <2>2, UnhookEntry
<1>4. ASSUME NEW a \in Actor, NEW b \in Actor, pc'[a] = "unhook", pc'[b] = "unhook", call'[a].h = call'[b].h
      PROVE  a = b
  <2>1. CASE pc[a] = "unhook" /\ pc[b] = "unhook"
    BY <1>3, <1>4, <2>1 DEF HookInv
  <2>2. ASSUME NEW c \in Actor, NEW d \in Actor, c # d, pc'[c] = "unhook", pc'[d] = "unhook",
               call'[c].h = call'[d].h, pc[c] # "unhook"
        PROVE  FALSE
    <3>1. c \in Handle \cup Client /\ FulfilHook(c) /\ ch[call[c].h].hook = "set" /\ call[c].h = call[d].h
      BY <1>3, <2>2
    <3>2. pc'[d] = pc[d]
      BY <2>2, <3>1, FulfilHookMove DEF Moves
    <3>3. ch[call[d].h].hook = "busy"
      BY <2>2, <3>2 DEF HookInv
    <3> QED
      BY <3>1, <3>3
  <2> QED
    BY <1>4, <2>1, <2>2
<1>5. ASSUME NEW h \in Handle, ch'[h].hook = "busy"
      PROVE  \E a \in Actor : pc'[a] = "unhook" /\ call'[a].h = h
  <2>1. CASE \E a \in Handle \cup Client : FulfilHook(a) /\ call[a].h = h
    <3>1. PICK a \in Handle \cup Client : FulfilHook(a) /\ call[a].h = h
      BY <2>1
    <3>2. ch[h].hook # "none"
      BY <1>5, <3>1, FulfilHookChannel
    <3> QED
      BY <3>1, <3>2, FulfilHookMove, Constants DEF Moves, SameCall
  <2>2. CASE ~\E a \in Handle \cup Client : FulfilHook(a) /\ call[a].h = h
    <3>1. ch[h].hook = "busy" /\ ~\E a \in Handle \cup Client : RemoveHook(a) /\ call[a].h = h
      <4>1. CASE HooksStay /\ ~\E a \in Handle \cup Client : RemoveHook(a)
        BY <1>5, <4>1 DEF HooksStay
      <4>2. ASSUME NEW a \in Handle \cup Client, HookStep(a)
            PROVE  ch[h].hook = "busy" /\ (RemoveHook(a) => call[a].h # h)
        <5>1. CASE call[a].h = h
          BY <1>5, <2>2, <4>2, <5>1, InstallHookChannel, RemoveHookChannel DEF HookStep
        <5>2. CASE call[a].h # h
          BY <1>5, <4>2, <5>2, InstallHookChannel, RemoveHookChannel, FulfilHookChannel DEF HookStep
        <5> QED
          BY <5>1, <5>2
      <4> QED
        BY <4>1, <4>2, HookChange DEF HookStep
    <3>2. PICK a \in Actor : pc[a] = "unhook" /\ call[a].h = h
      BY <3>1 DEF HookInv
    <3>3. Stands(a)
      BY <3>1, <3>2, HookDuty
        DEF HookPhases, InstallHook, HookOnTheSpot, FulfilHook, CommitSucceeded
    <3> QED
      BY <3>2, <3>3 DEF Stands, SameCall
  <2> QED
    BY <2>1, <2>2
<1>6. ASSUME NEW h \in Handle, Terminal(h)', ch'[h].hook = "set"
      PROVE  \E a \in Actor : pc'[a] \in {"spot", "fulfil", "succeeded"} /\ call'[a].h = h
  <2>1. CASE \E a \in Handle \cup Client : InstallHook(a) /\ call[a].h = h
    BY <2>1, InstallHookMove, Constants DEF Moves
  <2>2. CASE ~Terminal(h)
    BY <1>6, <2>2, BecomesTerminal
  <2>3. CASE Terminal(h) /\ ch[h].hook = "set"
    <3>1. PICK a \in Actor : pc[a] \in {"spot", "fulfil", "succeeded"} /\ call[a].h = h
      BY <2>3 DEF HookInv
    <3>2. CASE Stands(a)
      BY <3>1, <3>2 DEF Stands, SameCall
    <3>3. CASE a \in Handle \cup Client /\ HookOnTheSpot(a)
      BY <2>3, <3>1, <3>3, HookOnTheSpotMove DEF Moves
    <3>4. CASE a \in Handle \cup Client /\ CommitSucceeded(a)
      <4>1. pc'[a] = "fulfil" /\ call'[a].h = call[a].h
        BY <3>4, CommitSucceededMove, CallTypes, Domains DEF Moves, Call
      <4> QED
        BY <3>1, <4>1
    <3>5. CASE a \in Handle \cup Client /\ FulfilHook(a)
      BY <1>6, <2>3, <3>1, <3>5, FulfilHookChannel
    <3> QED
      BY <3>1, <3>2, <3>3, <3>4, <3>5, HookDuty DEF HookPhases, InstallHook, RemoveHook
  <2> QED
    BY <1>6, <2>1, <2>2, <2>3, SetBefore
<1>7. ASSUME NEW h \in Handle, ch'[h].hook # "none"
      PROVE  Terminal(h)' \/ Writer(h)'
  <2>1. CASE \E a \in Handle \cup Client : InstallHook(a) /\ call[a].h = h
    <3>1. PICK a \in Actor : call[a].h = h
      BY <2>1, Constants
    <3>2. Writer(h) \/ Terminal(h)
      BY <3>1, StillWriter DEF Terminal
    <3> QED
      BY <3>2, WriterEnds
  <2>2. CASE ch[h].hook # "none"
    BY <2>2, WriterEnds DEF HookInv
  <2>3. ch[h].hook # "none" \/ \E a \in Handle \cup Client : InstallHook(a) /\ call[a].h = h
    <3>1. CASE HooksStay
      BY <1>7, <3>1 DEF HooksStay
    <3>2. ASSUME NEW a \in Handle \cup Client, HookStep(a)
          PROVE  ch[h].hook # "none" \/ (InstallHook(a) /\ call[a].h = h)
      <4>1. CASE call[a].h = h
        BY <1>7, <3>2, <4>1, RemoveHookChannel, FulfilHookChannel DEF HookStep
      <4>2. CASE call[a].h # h
        BY <1>7, <3>2, <4>2, InstallHookChannel, RemoveHookChannel, FulfilHookChannel DEF HookStep
      <4> QED
        BY <4>1, <4>2
    <3> QED
      BY <3>1, <3>2, HookChange
  <2> QED
    BY <2>1, <2>2, <2>3
<1>8. ASSUME NEW h \in Handle, Writer(h)'
      PROVE  h \in open_files' \/ \E a \in Actor : call'[a].op = "release" /\ call'[a].h = h
  <2>1. ~Terminal(h)
    BY <1>8, TerminalStable DEF Writer, Unfinished, Terminal
  <2>2. CASE h \in open_files
    BY <2>2, FilesLeave
  <2>3. ASSUME NEW a \in Actor, call[a].op = "release", call[a].h = h
        PROVE  call'[a].op = "release" /\ call'[a].h = h
    BY <2>1, <2>3, ReleaseGoesOn DEF Terminal
  <2> QED
    BY <1>8, <2>2, <2>3, WriterCame DEF HookInv
<1> QED
  BY <1>2, <1>3, <1>4, <1>5, <1>6, <1>7, <1>8 DEF HookInv

\* The drain itself only waits.
LEMMA DrainShapeStep ==
    ASSUME TypeOK, DrainShape, Next
    PROVE  DrainShape'
<1>1. CASE DrainStart
  BY <1>1, DrainStartMove DEF DrainShape
<1>2. CASE DrainStep
  <2>1. /\ pc'[Drain] \in {"drain_await", "drain_done"}
        /\ call'[Drain].h = call[Drain].h /\ call'[Drain].op = call[Drain].op
    BY <1>2, DrainJoinedMove, DrainAwaitedMove, CallTypes, Domains, Constants
      DEF DrainStep, Moves, Call
  <2> QED
    BY <2>1 DEF DrainShape
<1>3. CASE Stands(Drain) /\ ~DrainStart
  <2>1. ASSUME pc'[Drain] = "idle", NEW h \in Handle
        PROVE  pc'[h] = "idle"
    <3>1. pc[h] = "idle"
      BY <1>3, <2>1 DEF Stands, DrainShape
    <3>2. ~CommitStep(h) /\ ~DrainFlush(h) /\ ~DrainRelease(h) /\ ~DrainReleased(h)
      BY <3>1
        DEF CommitStep, InstallHook, HookOnTheSpot, FulfilHook, RemoveHook, Demote, CommitLocked,
         CommitUnlock, CommitStart, CommitFinish, CommitHub, CommitHubFails, CommitApply, CommitSucceeded,
         CommitFailed, ReleaseRetry, ReleaseFailed, ReleaseCheck, ReleaseLocked, ReleaseUnlock, ReleaseDrop,
         DrainFlush, DrainRelease, DrainReleased
    <3>3. Stands(h)
      BY <1>3, <3>2, WhoActs, Constants DEF Acts
    <3> QED
      BY <3>1, <3>3 DEF Stands
  <2> QED
    BY <1>3, <2>1, DueFrame DEF Stands, SameCall, DrainShape
<1> QED
  BY <1>1, <1>2, <1>3, WhoActs, Constants DEF Acts

\* What the drain waits for.
LEMMA DrainInvStep ==
    ASSUME TypeOK, LockInv, CallInv, PhaseInv, BytesInv, HandleInv, FilesInv, HookInv, DrainShape,
           DrainInv, "shadowed" \notin Events, Next
    PROVE  DrainInv'
<1>1. ASSUME NEW h \in Handle
      PROVE  /\ Terminal(h) => Terminal(h)'
             /\ Unfinished(h) => ~Terminal(h)
             /\ Writer(h) => Unfinished(h)
             /\ (Writer(h) \/ Terminal(h)) /\ ~Terminal(h)' => Writer(h) /\ ~Terminal(h)
  BY TerminalStable DEF Unfinished, Terminal, Writer
<1>2. ASSUME NEW h \in Handle, Unfinished(h)', ch'[h].hook = "set"
      PROVE  pending_commits' = h
  <2>1. ~Terminal(h) /\ h # None
    BY <1>2, TerminalStable, Constants DEF Unfinished, Terminal
  <2>2. ASSUME ch[h].hook = "set"
        PROVE  pending_commits = h
    BY <2>1, <2>2 DEF HookInv, DrainInv, Writer
  <2>3. CASE HooksStay
    BY <1>2, <2>2, <2>3 DEF HooksStay
  <2>4. ASSUME NEW a \in Handle \cup Client, InstallHook(a)
        PROVE  pending_commits' = h
    <3>1. CASE ch[h].hook = "set"
      BY <2>1, <2>2, <2>4, <3>1 DEF InstallHook
    <3>2. CASE ch[h].hook # "set"
      <4>1. call[a].h = h
        BY <1>2, <2>4, <3>2, InstallHookChannel
      <4>2. ch[h].hook = "none" /\ ~Shadowed(h)
        BY <2>4, <3>2, <4>1, ChannelTypes DEF InstallHook
      <4>3. pending_commits = None
        BY <2>1, <4>2 DEF Shadowed
      <4> QED
        BY <2>4, <4>1, <4>2, <4>3 DEF InstallHook
    <3> QED
      BY <3>1, <3>2
  <2>5. ASSUME NEW a \in Handle \cup Client, FulfilHook(a) \/ RemoveHook(a)
        PROVE  pending_commits' = h
    <3>1. call[a].h # h
      BY <2>1, <2>5, Constants DEF FulfilHook, RemoveHook, PhaseInv, PhaseShape, Terminal
    <3>2. ch[h].hook = "set"
      BY <1>2, <2>5, <3>1, FulfilHookChannel, RemoveHookChannel
    <3> QED
      BY <2>2, <2>5, <3>1, <3>2 DEF FulfilHook, RemoveHook
  <2> QED
    BY <2>3, <2>4, <2>5, HookChange DEF HookStep
<1>3. ASSUME NEW h \in Handle, Writer(h)'
      PROVE  h \in open_files' \/ ch'[h].hook = "set"
             \/ \E a \in Actor : pc'[a] = "install" /\ call'[a].after = "release_check" /\ call'[a].h = h
  <2>1. ~Terminal(h)
    BY <1>3, TerminalStable DEF Writer, Unfinished, Terminal
  <2>2. CASE h \in open_files
    BY <2>1, <2>2, FilesLeave
  <2>3. CASE ch[h].hook = "set"
    BY <2>1, <2>3, SetStays
  <2>4. ASSUME NEW a \in Actor, pc[a] = "install", call[a].after = "release_check", call[a].h = h
        PROVE  ch'[h].hook = "set" \/ (pc'[a] = "install" /\ call'[a].after = "release_check" /\ call'[a].h = h)
    <3>1. CASE Stands(a)
      BY <2>4, <3>1 DEF Stands, SameCall
    <3>2. CASE a \in Handle \cup Client /\ InstallHook(a)
      BY <2>4, <3>2, InstallHookChannel
    <3> QED
      BY <2>4, <3>1, <3>2, HookDuty
        DEF HookPhases, HookOnTheSpot, FulfilHook, RemoveHook, CommitSucceeded
  <2> QED
    BY <1>3, <2>2, <2>3, <2>4, WriterCame DEF DrainInv
<1>4. ASSUME NEW h \in due'
      PROVE  h \in Handle /\ (Writer(h) \/ Terminal(h))
  <2>1. CASE DrainStart
    <3>1. h \in Handle /\ h \in open_handles /\ ~Terminal(h)
      BY <1>4, <2>1, Domains DEF DrainStart
    <3> QED
      BY <3>1, ChannelTypes DEF FilesInv, Writer, Unfinished, Terminal, CommitState
  <2>2. CASE due' = due
    BY <1>4, <2>2, Domains DEF DrainInv
  <2> QED
    BY <2>1, <2>2, DueFrame
<1>5. ASSUME ~FilesLocked, NEW h \in Handle, Writer(h), h \notin open_files
      PROVE  ch[h].hook = "set"
  BY <1>5 DEF DrainInv, FilesLocked, HookPhases
<1>6. CASE DrainStart
  <2>1. ch' = ch /\ ~FilesLocked /\ pc'[Drain] = "drain_join"
    BY <1>6, DrainStartMove DEF DrainStart
  <2>2. ASSUME NEW h \in due', pc'[h] = "idle", ~Terminal(h)'
        PROVE  ch'[h].hook = "set"
    <3>1. h \in Handle /\ Writer(h) /\ h \notin open_files
      BY <1>1, <1>4, <1>6, <2>2, DrainStartMove
    <3> QED
      BY <1>5, <2>1, <3>1
  <2> QED
    BY <1>2, <1>3, <1>4, <2>1, <2>2, WriterEnds DEF DrainInv, DrainKeepsAll
<1>7. CASE DrainStep
  <2>1. due' = due /\ ch' = ch
    BY <1>7 DEF DrainStep, DrainJoined, DrainAwaited
  <2>2. CASE DrainJoined
    <3>1. /\ pc[Drain] = "drain_join" /\ pc'[Drain] = (IF Awaited = None THEN "drain_done" ELSE "drain_await")
          /\ call'[Drain].watch = Awaited /\ \A h \in Handle : pc[h] = "idle"
      BY <2>2, DrainJoinedMove, CallTypes, Domains, Constants DEF Moves, Call, DrainJoined
    <3>2. ASSUME NEW h \in due, ~Terminal(h)
          PROVE  Awaited = h /\ h # None
      <4>1. h \in Handle /\ Writer(h) /\ h # None
        BY <3>2, Domains, Constants DEF DrainInv
      <4>2. ch[h].hook = "set"
        BY <3>1, <3>2, <4>1 DEF DrainInv
      <4>3. pending_commits = h
        BY <4>1, <4>2 DEF DrainInv, Writer
      <4> QED
        BY <4>1, <4>2, <4>3 DEF Awaited
    <3>3. pc'[Drain] = "drain_await" => \A h \in due' : ~Terminal(h)' => call'[Drain].watch = h
      BY <2>1, <3>1, <3>2 DEF Terminal
    <3>4. pc'[Drain] = "drain_done" => \A h \in due' : Terminal(h)'
      BY <2>1, <3>1, <3>2 DEF Terminal
    <3>5. pc'[Drain] # "drain_join"
      BY <3>1
    <3> QED
      BY <1>2, <1>3, <1>4, <3>3, <3>4, <3>5, WriterEnds DEF DrainInv, DrainKeepsAll
  <2>3. CASE DrainAwaited
    <3>1. pc[Drain] = "drain_await" /\ pc'[Drain] = "drain_done" /\ call[Drain].watch = None
      BY <2>3, DrainAwaitedMove DEF Moves
    <3>2. \A h \in due' : Terminal(h)'
      BY <2>1, <3>1, Domains, Constants DEF DrainInv, Terminal
    <3> QED
      BY <1>2, <1>3, <1>4, <3>1, <3>2, WriterEnds DEF DrainInv, DrainKeepsAll
  <2> QED
    BY <1>7, <2>2, <2>3 DEF DrainStep
<1>8. CASE Stands(Drain) /\ ~DrainStart
  <2>1. due' = due /\ pc'[Drain] = pc[Drain]
    BY <1>8, DueFrame DEF Stands
  <2>2. ASSUME pc[Drain] = "drain_join", NEW h \in due, pc'[h] = "idle", ~Terminal(h)'
        PROVE  ch'[h].hook = "set"
    <3>1. h \in Handle /\ Writer(h) /\ ~Terminal(h)
      BY <1>1, <1>4, <2>1, <2>2
    <3>2. ch[h].hook = "set"
      <4>1. CASE pc[h] = "idle"
        BY <2>2, <3>1, <4>1 DEF DrainInv
      <4>2. CASE ReleaseDrop(h)
        <5>1. h \in Actor /\ call[h].h = h /\ Terminal(call[h].h)
          BY <3>1, <4>2, AtWork, Constants DEF ReleaseDrop, CallInv, CallShape, PhaseInv, PhaseShape
        <5> QED
          BY <3>1, <5>1
      <4>3. CASE DrainReleased(h)
        BY <1>5, <3>1, <4>3 DEF DrainReleased
      <4> QED
        BY <2>2, <3>1, <4>1, <4>2, <4>3, FutureEnds
    <3> QED
      BY <3>1, <3>2, SetStays
  <2>3. ASSUME pc[Drain] = "drain_await", NEW h \in due, ~Terminal(h)'
        PROVE  call'[Drain].watch = h
    <3>1. h \in Handle /\ ~Terminal(h)
      BY <1>1, <1>4, <2>1, <2>3
    <3>2. call[Drain].watch = h
      BY <2>3, <3>1 DEF DrainInv
    <3>3. ~DrainJoined
      BY <2>3 DEF DrainJoined
    <3>4. ASSUME NEW a \in Handle \cup Client, pc[a] = "fulfil"
          PROVE  call[a].h # h
      BY <3>1, <3>4, Constants DEF PhaseInv, PhaseShape
    <3> QED
      BY <3>2, <3>3, <3>4, WatchStep
  <2>4. pc[Drain] = "drain_done" => \A h \in due : Terminal(h)'
    BY <1>1, <1>4, <2>1 DEF DrainInv, DrainKeepsAll
  <2> QED
    BY <1>2, <1>3, <1>4, <2>1, <2>2, <2>3, <2>4, WriterEnds DEF DrainInv, DrainKeepsAll
<1> QED
  BY <1>6, <1>7, <1>8, WhoActs, Constants DEF Acts

------------------------------------------------------------------------------
(* The invariant of the runs without the situation "ghost". *)

WriteInv ==
    /\ TypeOK /\ LockInv /\ CallInv /\ HandleInv /\ FilesInv /\ WriterInv /\ PhaseInv /\ BytesInv
    /\ SnapshotInv /\ HookInv /\ DrainShape
    /\ CommittedIsStored /\ CleanIsCommitted /\ NoResurrection

\* It holds at mount time, when the file is absent or as the Hub has it.
LEMMA WriteInit ==
    ASSUME Init
    PROVE  WriteInv
<1> USE DEF Init
<1>1. /\ linked \in BOOLEAN /\ xet_hash \in {Absent, Original} /\ hub = xet_hash
      /\ st = (IF linked THEN "live" ELSE "none") /\ (~linked => xet_hash = Absent)
  BY StreamingAssumption
<1>2. /\ \A h \in Handle : ch[h] = Unused
      /\ \A a \in Actor : pc[a] = "idle" /\ call[a] = NoCall
  OBVIOUS
<1>3. TypeOK
  BY <1>1, Constants, ResetTypes DEF TypeOK, PC
<1>4. LockInv
  BY <1>2 DEF LockInv, Critical, Hooking, LockSteps, CommitPhases, HookPhases
<1>5. CallInv
  BY <1>2 DEF CallInv, CallShape, Hooking, CommitPhases, HookPhases, NoCall
<1>6. HandleInv
  BY <1>2 DEF HandleInv, NoCall
<1>7. \A h \in Handle : ~Writer(h) /\ ~Terminal(h)
  BY <1>2 DEF Writer, Unfinished, Terminal, Unused
<1>8. FilesInv
  BY <1>1, <1>2, Constants DEF FilesInv, Unused
<1>9. WriterInv
  BY <1>7 DEF WriterInv
<1>10. PhaseInv
  BY <1>2 DEF PhaseInv, PhaseShape, Hooking, HookPhases, Superseding
<1>11. BytesInv
  BY <1>2 DEF BytesInv, BytesShape, UploadKept, Unused
<1>12. SnapshotInv
  BY <1>2, <1>7 DEF SnapshotInv, Unused, NoCall, NoSnapshot
<1>13. HookInv
  BY <1>2, <1>7 DEF HookInv, Unused
<1>14. DrainShape
  BY <1>2, Constants DEF DrainShape, NoCall
<1>15. CommittedIsStored
  BY <1>2 DEF CommittedIsStored, Unused
<1>16. CleanIsCommitted /\ NoResurrection
  BY <1>1 DEF CleanIsCommitted, NoResurrection
<1> QED
  BY <1>3, <1>4, <1>5, <1>6, <1>8, <1>9, <1>10, <1>11, <1>12, <1>13, <1>14, <1>15, <1>16
    DEF WriteInv

\* Every step keeps it ...
LEMMA WriteStep ==
    ASSUME "ghost" \notin Events, WriteInv, Next
    PROVE  WriteInv'
<1>1. TypeOK' /\ LockInv' /\ CallInv' /\ HandleInv' /\ FilesInv' /\ WriterInv'
  BY TypeStep, LockStep, CallStepShape, HandleStep, FilesInvStep, WriterStep DEF WriteInv
<1>2. PhaseInv' /\ BytesInv'
  BY PhaseStep, KeptStep DEF WriteInv, BytesInv
<1>3. SnapshotInv' /\ HookInv' /\ DrainShape'
  BY SnapshotStep, HookInvStep, DrainShapeStep DEF WriteInv
<1>4. CommittedIsStored' /\ CleanIsCommitted' /\ NoResurrection'
  BY StoredStep, CleanStep, ResurrectionStep DEF WriteInv
<1> QED
  BY <1>1, <1>2, <1>3, <1>4 DEF WriteInv

\* ... and so does no step at all.
LEMMA WriteStutter ==
    ASSUME WriteInv, UNCHANGED vars
    PROVE  WriteInv'
<1> USE DEF vars, inodeVars
<1>1. TypeOK'
  BY DEF WriteInv, TypeOK
<1>2. LockInv'
  BY DEF WriteInv, LockInv, Critical, Hooking, Holds
<1>3. CallInv'
  BY DEF WriteInv, CallInv, CallShape, Hooking
<1>4. HandleInv'
  BY DEF WriteInv, HandleInv, Terminal
<1>5. FilesInv'
  BY DEF WriteInv, FilesInv
<1>6. WriterInv'
  BY DEF WriteInv, WriterInv, Writer, Unfinished, OwnsGeneration, Superseding, Hooking
<1>7. PhaseInv'
  BY
    DEF WriteInv, PhaseInv, PhaseShape, Writer, Unfinished, Terminal, NewWriter, Superseding,
         Hooking
<1>8. BytesInv'
  BY DEF WriteInv, BytesInv, BytesShape, UploadKept
<1>9. SnapshotInv'
  BY DEF WriteInv, SnapshotInv, Writer, Unfinished
<1>10. HookInv'
  BY DEF WriteInv, HookInv, Terminal, Writer, Unfinished
<1>11. DrainShape'
  BY DEF WriteInv, DrainShape
<1>12. CommittedIsStored' /\ CleanIsCommitted' /\ NoResurrection'
  BY DEF WriteInv, CommittedIsStored, CleanIsCommitted, NoResurrection
<1> QED
  BY <1>1, <1>2, <1>3, <1>4, <1>5, <1>6, <1>7, <1>8, <1>9, <1>10, <1>11, <1>12 DEF WriteInv

\* One owner of the dirty bytes: it is the one writer.
LEMMA OneOwner ==
    ASSUME WriteInv
    PROVE  OneActiveWriter
<1>1. \A h \in open_files : ~Terminal(h) => Writer(h) /\ h \in Handle
  BY ChannelTypes, Domains DEF WriteInv, FilesInv, Writer, Unfinished, Terminal, CommitState
<1> QED
  BY <1>1 DEF WriteInv, WriterInv, OneActiveWriter

\* One owner of the registered hook.
LEMMA HookOwned ==
    ASSUME WriteInv
    PROVE  HookHasOwner
<1> SUFFICES ASSUME pending_commits # None
             PROVE  \/ pending_commits \in open_files
                    \/ \E a \in Actor : pc[a] # "idle" /\ call[a].h = pending_commits
  BY DEF HookHasOwner
<1>1. pending_commits \in Handle /\ ch[pending_commits].hook \in {"set", "busy"} /\ pending_commits # None
  BY ChannelTypes DEF WriteInv, HookInv, TypeOK
<1>2. CASE Terminal(pending_commits)
  <2>1. PICK a \in Actor : pc[a] \in {"spot", "fulfil", "succeeded", "unhook"} /\ call[a].h = pending_commits
    BY <1>1, <1>2 DEF WriteInv, HookInv
  <2> QED
    BY <2>1
<1>3. CASE Writer(pending_commits)
  <2>1. \A a \in Actor : call[a].h = pending_commits => pc[a] # "idle"
    BY <1>1 DEF WriteInv, CallInv, CallShape, NoCall
  <2> QED
    BY <1>1, <1>3, <2>1 DEF WriteInv, HookInv
<1> QED
  BY <1>1, <1>2, <1>3 DEF WriteInv, HookInv

------------------------------------------------------------------------------
(* The theorems. *)

\* The invariant holds in every state the program reaches, whatever the handles, the
\* threads and the bound on the writes.
THEOREM WriteInvariant ==
    ASSUME "ghost" \notin Events
    PROVE  Spec => []WriteInv
<1>1. Init => WriteInv
  BY WriteInit
<1>2. WriteInv /\ [Next]_vars => WriteInv'
  BY WriteStep, WriteStutter
<1> QED
  BY <1>1, <1>2, PTL DEF Spec

\* One owner each: two open writers are never both alive, the live one owns the inode's
\* dirty bytes (so no stale writer is taken for the active one by link() and open()), and a
\* registered hook is that of an open channel or of one a call is at work on.
THEOREM WritersAreSound ==
    ASSUME "ghost" \notin Events
    PROVE  Spec => []WritersSound
<1>1. WriteInv => WritersSound
  BY OneOwner, HookOwned DEF WritersSound, WriteInv
<1> QED
  BY <1>1, WriteInvariant, PTL

\* What flush() or release() reports as committed is stored: the Hub accepted an upload
\* with every message that write() acknowledged, retries and rival drivers included.
THEOREM StoredWhenCommitted ==
    ASSUME "ghost" \notin Events
    PROVE  Spec => []CommittedIsStored
<1>1. WriteInv => CommittedIsStored
  BY DEF WriteInv
<1> QED
  BY <1>1, WriteInvariant, PTL

\* A clean file is the one the Hub has, also after the revert of a failed commit by a
\* writer that superseded others.
THEOREM CleanWhenCommitted ==
    ASSUME "ghost" \notin Events
    PROVE  Spec => []CleanIsCommitted
<1>1. WriteInv => CleanIsCommitted
  BY DEF WriteInv
<1> QED
  BY <1>1, WriteInvariant, PTL

\* No commit brings an unlinked name back.
THEOREM UnlinkedStaysGone ==
    ASSUME "ghost" \notin Events
    PROVE  Spec => []NoResurrection
<1>1. WriteInv => NoResurrection
  BY DEF WriteInv
<1> QED
  BY <1>1, WriteInvariant, PTL

\* A commit that has ended stays ended: no retry, no superseding open() and no
\* late flush() takes Committed or Failed back.
THEOREM EndsForGood ==
    ASSUME "ghost" \notin Events
    PROVE  Spec => [][\A h \in Handle : Terminal(h) => Terminal(h)']_vars
<1>1. WriteInv /\ [Next]_vars => [\A h \in Handle : Terminal(h) => Terminal(h)']_vars
  BY TerminalStable DEF WriteInv
<1> QED
  BY <1>1, WriteInvariant, PTL DEF Spec

\* The drain's part of the invariant.
LEMMA DrainInit ==
    ASSUME Init
    PROVE  DrainInv
<1>1. \A h \in Handle : ~Writer(h) /\ ~Unfinished(h)
  BY DEF Init, Writer, Unfinished, Unused
<1> QED
  BY <1>1, Constants DEF Init, DrainInv, DrainKeepsAll

\* A stutter keeps it.
LEMMA DrainStutter ==
    ASSUME DrainInv, UNCHANGED vars
    PROVE  DrainInv'
BY DEF DrainInv, DrainKeepsAll, Writer, Unfinished, Terminal, vars, inodeVars

\* When the drain of the shutdown is done, every writer that was unfinished when it began has
\* ended, the release() calls of the applications that raced it included.
THEOREM DrainWaitsForAll ==
    ASSUME "ghost" \notin Events, "shadowed" \notin Events
    PROVE  Spec => []DrainKeepsAll
<1>1. Init => DrainInv
  BY DrainInit
<1>2. WriteInv /\ DrainInv /\ [Next]_vars => DrainInv'
  <2>1. ASSUME WriteInv, DrainInv, Next
        PROVE  DrainInv'
    BY <2>1, DrainInvStep DEF WriteInv
  <2> QED
    BY <2>1, DrainStutter
<1>3. DrainInv => DrainKeepsAll
  BY DEF DrainInv
<1> QED
  BY <1>1, <1>2, <1>3, WriteInvariant, PTL DEF Spec
=============================================================================
