----------------------------- MODULE FuseThreads -----------------------------
(* fuse.rs: programs whose requests wait for a fuser thread, the core      *)
(* workers of the runtime a read needs, the kernel's lock on a folio that  *)
(* is being read, and the invalidations of the poll loop (#195); in simple *)
(* mode an open with O_TRUNC keeps its thread until the commit of the      *)
(* writer before is done.                                                  *)
EXTENDS MountKind, Integers, FiniteSets

CONSTANTS Program, Inode
VARIABLES prog,   \* per program: its file, how it holds it, its request
          folio,  \* per inode: the program whose read has the folio locked
          hook,   \* per inode: pending_commits, the writer whose release is awaited
          poll,   \* the poll task: what it found and how it is to be invalidated
          blocking  \* inodes whose pages a thread of the blocking pool drops
fuseVars == <<prog, folio, hook, poll, blocking>>

NoProg == [at |-> "idle", op |-> "none", ino |-> NONE, open |-> "no"]
NoPoll == [at |-> "idle", ino |-> NONE, kind |-> "none", down |-> FALSE]
FuseInit ==
    /\ prog = [p \in Program |-> NoProg] /\ poll = NoPoll
    /\ folio = [i \in Inode |-> NONE] /\ hook = [i \in Inode |-> NONE] /\ blocking = {}
FuseTypeOK ==
    /\ prog \in [Program -> [at : {"idle", "queued", "serving"}, op : {"none", "open", "trunc", "read", "flush", "close"},
                             ino : Inode \cup {NONE}, open : {"no", "read", "write"}]]
    /\ folio \in [Inode -> Program \cup {NONE}] /\ hook \in [Inode -> Program \cup {NONE}] /\ blocking \subseteq Inode
    /\ Cardinality({p \in Program : prog[p].at = "serving"}) <= case.threads
    /\ poll \in [at : {"idle", "found", "sending"}, ino : Inode \cup {NONE}, kind : {"none", "Pages", "AttrOnly"}, down : BOOLEAN]

-----------------------------------------------------------------------------
(* Programs and the kernel.                                                *)

Asking(op) == {p \in Program : prog[p].op = op}
HasOpenHandles(i) == \E p \in Program : prog[p].ino = i /\ prog[p].open # "no"
Request(p, op, i) == prog' = [prog EXCEPT ![p] = [@ EXCEPT !.at = "queued", !.op = op, !.ino = i]]
Idle(p) == prog[p].at = "idle" /\ ~poll.down
AskOpen(p, i) ==
    /\ Idle(p) /\ prog[p].open = "no" /\ Request(p, "open", i)
    /\ UNCHANGED <<folio, hook, poll, blocking>>
\* Fewer programs truncate at once than there are threads.
AskTrunc(p, i) ==
    /\ Idle(p) /\ prog[p].open = "no" /\ "trunc" \in case.asks
    /\ Happens("all_truncate") \/ Cardinality(Asking("trunc")) + 1 < case.threads
    /\ Request(p, "trunc", i)
    /\ UNCHANGED <<folio, hook, poll, blocking>>
\* The kernel locks the folio until the daemon has filled it.
AskRead(p) ==
    /\ Idle(p) /\ prog[p].open = "read" /\ folio[prog[p].ino] = NONE
    /\ Request(p, "read", prog[p].ino) /\ folio' = [folio EXCEPT ![prog[p].ino] = p]
    /\ UNCHANGED <<hook, poll, blocking>>
\* A child of the writer closes its copy of the descriptor.
AskFlush(p) ==
    /\ Idle(p) /\ prog[p].open = "write" /\ hook[prog[p].ino] # p /\ Request(p, "flush", prog[p].ino)
    /\ UNCHANGED <<folio, hook, poll, blocking>>
AskClose(p) ==
    /\ Idle(p) /\ prog[p].open # "no" /\ Request(p, "close", prog[p].ino)
    /\ UNCHANGED <<folio, hook, poll, blocking>>

-----------------------------------------------------------------------------
(* The daemon.  A request has its thread from Serve to its answer; what    *)
(* goes to the network needs a core worker that is not stuck.              *)

Busy == {p \in Program : prog[p].at = "serving"}
Workers == case.workers - (IF poll.at = "sending" THEN 1 ELSE 0)
Serve(p) ==
    /\ prog[p].at = "queued" /\ Cardinality(Busy) < case.threads
    /\ prog' = [prog EXCEPT ![p].at = "serving"]
    /\ UNCHANGED <<folio, hook, poll, blocking>>
Serving(p, op) == prog[p].at = "serving" /\ prog[p].op = op
Answered(p, open) == prog' = [prog EXCEPT ![p] = [at |-> "idle", op |-> "none", ino |-> IF open = "no" THEN NONE ELSE @.ino, open |-> open]]
Open(p) ==
    /\ Serving(p, "open") /\ Answered(p, "read")
    /\ UNCHANGED <<folio, hook, poll, blocking>>
\* await_pending_commit, with the thread in hand.
Trunc(p) ==
    /\ Serving(p, "trunc") /\ hook[prog[p].ino] = NONE /\ Workers > 0
    /\ Answered(p, "write")
    /\ UNCHANGED <<folio, hook, poll, blocking>>
Fill(p) ==
    /\ Serving(p, "read") /\ Workers > 0
    /\ Answered(p, "read") /\ folio' = [folio EXCEPT ![prog[p].ino] = NONE]
    /\ UNCHANGED <<hook, poll, blocking>>
\* flush from another process than the opener's: the commit is left to release.
DeferCommit(p) ==
    /\ Serving(p, "flush") /\ Answered(p, "write")
    /\ hook' = [hook EXCEPT ![prog[p].ino] = IF @ = NONE THEN p ELSE @]
    /\ UNCHANGED <<folio, poll, blocking>>
ReleaseHandle(p) ==
    /\ Serving(p, "close") /\ (prog[p].open = "write" => Workers > 0) /\ Answered(p, "no")
    /\ hook' = [hook EXCEPT ![prog[p].ino] = IF @ = p THEN NONE ELSE @]
    /\ UNCHANGED <<folio, poll, blocking>>

\* The poll task finds a change, and chooses by the handles open now.
Finds(i) ==
    /\ Happens("update") /\ poll.at = "idle" /\ ~poll.down
    /\ poll' = [poll EXCEPT !.at = "found", !.ino = i, !.kind = IF HasOpenHandles(i) THEN "AttrOnly" ELSE "Pages"]
    /\ UNCHANGED <<prog, folio, hook, blocking>>
\* Attributes are dropped on the spot, pages by a thread of the blocking pool;
\* the core worker is the task's only while it sends.
InvalidateInode ==
    /\ poll.at = "found" /\ Workers > 0
    /\ poll' = [poll EXCEPT !.at = "sending"]
    /\ blocking' = IF ~poll.down /\ poll.kind = "Pages" THEN blocking \cup {poll.ino} ELSE blocking
    /\ UNCHANGED <<prog, folio, hook>>
\* Mutant: the page drop is done, and waited for, by the core worker itself.
SentInline ==
    /\ poll.at = "sending" /\ (poll.down \/ poll.kind # "Pages" \/ folio[poll.ino] = NONE)
    /\ poll' = [NoPoll EXCEPT !.down = poll.down]
    /\ UNCHANGED <<prog, folio, hook, blocking>>
Sent ==
    /\ poll.at = "sending"
    /\ poll' = [NoPoll EXCEPT !.down = poll.down]
    /\ UNCHANGED <<prog, folio, hook, blocking>>
\* invalidate_inode_pages2_range waits for the folio; nothing is sent once the
\* shutdown has begun.
DropPages(i) ==
    /\ i \in blocking /\ (folio[i] = NONE \/ poll.down)
    /\ blocking' = blocking \ {i}
    /\ UNCHANGED <<prog, folio, hook, poll>>
\* The mount goes when nothing is open; destroy shuts the engine down.
Destroy ==
    /\ Happens("unmount") /\ ~poll.down /\ \A p \in Program : prog[p] = NoProg
    /\ poll' = [poll EXCEPT !.down = TRUE]
    /\ UNCHANGED <<prog, folio, hook, blocking>>

DaemonStep(p) == Serve(p) \/ Open(p) \/ Trunc(p) \/ Fill(p) \/ DeferCommit(p) \/ ReleaseHandle(p)
FuseNext ==
    \/ \E p \in Program, i \in Inode : AskOpen(p, i) \/ AskTrunc(p, i)
    \/ \E p \in Program : AskRead(p) \/ AskFlush(p) \/ AskClose(p) \/ DaemonStep(p)
    \/ \E i \in Inode : Finds(i) \/ DropPages(i)
    \/ InvalidateInode \/ Sent \/ Destroy
-----------------------------------------------------------------------------
\* A commit that is awaited is that of a program which still has the file open
\* to write, so that its release, which removes the hook, is still to come.
HookIsHeld == \A i \in Inode : hook[i] # NONE => prog[hook[i]].ino = i /\ prog[hook[i]].open = "write"
\* While a request waits something can move without a new one: the daemon, or a
\* program that closes what it has open.  Reads do not wait for the pages that
\* wait for them (#195), nor opens for a close that finds no thread, while
\* fewer programs truncate than there are threads.
NobodyStuck ==
    (\E p \in Program : prog[p].at # "idle") =>
        ENABLED (\/ \E p \in Program : DaemonStep(p) \/ AskClose(p)
                 \/ InvalidateInode \/ Sent)
=============================================================================
