----------------------------- MODULE DeleteFlush -----------------------------
(***************************************************************************)
(* Who works the delete queue: VFS calls that queue deletes (unlink),      *)
(* cancel them (create, link and rename onto the path) and flush them      *)
(* themselves (rmdir); flush_loop, which flushes when a signal wakes it;   *)
(* and FlushManager::shutdown, which closes the channel, waits for the     *)
(* loop up to a deadline, aborts it and flushes what is left.  The Hub may *)
(* answer, refuse or never answer a batch.                                 *)
(***************************************************************************)
EXTENDS DeleteQueue

CONSTANTS
    Client,         \* threads serving VFS calls
    MaxQueued       \* bound of the instance: nothing is queued while this many deletes are pending

Loop == "flush_loop"
Shutdown == "shutdown"

ASSUME DeleteFlushAssumption ==
    /\ Flusher = Client \cup {Loop, Shutdown}
    /\ Loop \notin Client /\ Shutdown \notin Client
    /\ MaxQueued \in Nat \ {0}

VARIABLES
    pc,         \* where each client is in its call
    woken,      \* a signal is in the flush channel
    loop,       \* where flush_loop is
    down,       \* where FlushManager::shutdown is
    refused     \* history: the queued paths that came back from a failed batch

vars == <<queueVars, pc, woken, loop, down, refused>>

\* Every variable has its type.
TypeOK ==
    /\ QueueTypes
    /\ pc \in [Client -> {"idle", "wake", "flush"}]
    /\ woken \in BOOLEAN
    /\ loop \in {"recv", "take", "flush", "exited"}
    /\ down \in {"up", "drain", "flush", "sent", "done"}
    /\ refused \subseteq Path

Init ==
    /\ QueueInit
    /\ pc = [c \in Client |-> "idle"]
    /\ woken = FALSE
    /\ loop = "recv"
    /\ down = "up"
    /\ refused = {}

------------------------------------------------------------------------------
(* VFS calls *)

Goto(c, step) == pc' = [pc EXCEPT ![c] = step]
\* The sender is gone once shutdown has begun.
Send == woken' = (woken \/ down = "up")
\* The paths of a batch that failed carry no wake-up of their own.
Refuse(f) == refused' = refused \cup Elements(sent[f])

\* Mutant: the path is queued and nobody is told.
EnqueueQuietly(c, p) ==
    /\ pc[c] = "idle"
    /\ PendingDeleteCount < MaxQueued
    /\ PushDelete(p)
    /\ refused' = refused \ {p}
    /\ UNCHANGED <<pc, woken, loop, down>>

\* unlink -> enqueue_delete: the path is queued before the loop is woken.
EnqueueDelete(c, p) ==
    /\ pc[c] = "idle"
    /\ PendingDeleteCount < MaxQueued
    /\ PushDelete(p)
    /\ refused' = refused \ {p}
    /\ Goto(c, "wake")
    /\ UNCHANGED <<woken, loop, down>>

\* Mutant: the signal is lost.
EnqueueWakeLost(c) ==
    /\ pc[c] = "wake"
    /\ Goto(c, "idle")
    /\ UNCHANGED <<queueVars, woken, loop, down, refused>>

EnqueueWake(c) ==
    /\ pc[c] = "wake"
    /\ Send
    /\ Goto(c, "idle")
    /\ UNCHANGED <<queueVars, loop, down, refused>>

\* create, link and rename cancel what is queued for the name they take.
Cancel(P) ==
    /\ CancelDelete(P)
    /\ refused' = refused \ P
    /\ UNCHANGED <<pc, woken, loop, down>>

\* rmdir flushes the queue before it looks at the directory.
RmdirFlush(c) ==
    /\ pc[c] = "idle"
    /\ TakeDeletes(c)
    /\ Goto(c, "flush")
    /\ UNCHANGED <<woken, loop, down, refused>>

RmdirFlushed(c) ==
    /\ pc[c] = "flush"
    /\ FinishDeletes(c, TRUE)
    /\ Goto(c, "idle")
    /\ UNCHANGED <<woken, loop, down, refused>>

RmdirFlushFails(c) ==
    /\ pc[c] = "flush"
    /\ FinishDeletes(c, FALSE)
    /\ Refuse(c)
    /\ Goto(c, "idle")
    /\ UNCHANGED <<woken, loop, down>>

\* Any other signal: a dirty inode, or requeue_dirty's wake_deletes.
Signal ==
    /\ ~woken
    /\ Send
    /\ UNCHANGED <<queueVars, pc, loop, down, refused>>

------------------------------------------------------------------------------
(* flush_loop *)

\* The first signal and the debounce window, which empties the channel.
LoopRecv ==
    /\ loop = "recv" /\ woken
    /\ woken' = FALSE
    /\ loop' = "take"
    /\ UNCHANGED <<queueVars, pc, down, refused>>

LoopTake ==
    /\ loop = "take"
    /\ TakeDeletes(Loop)
    /\ loop' = "flush"
    /\ UNCHANGED <<pc, woken, down, refused>>

LoopTakeNothing ==
    /\ loop = "take"
    /\ NothingQueued
    /\ loop' = "recv"
    /\ UNCHANGED <<pc, woken, down, refused>>

LoopDeleted ==
    /\ loop = "flush"
    /\ FinishDeletes(Loop, TRUE)
    /\ loop' = "recv"
    /\ UNCHANGED <<pc, woken, down, refused>>

LoopDeleteFails ==
    /\ loop = "flush"
    /\ FinishDeletes(Loop, FALSE)
    /\ Refuse(Loop)
    /\ loop' = "recv"
    /\ UNCHANGED <<pc, woken, down>>

\* The channel is closed and empty.
LoopExit ==
    /\ loop = "recv" /\ ~woken /\ down # "up"
    /\ loop' = "exited"
    /\ UNCHANGED <<queueVars, pc, woken, down, refused>>

------------------------------------------------------------------------------
(* FlushManager::shutdown *)

\* The remaining dirty inodes are sent, then the sender is dropped.
ShutdownClose ==
    /\ down = "up"
    /\ down' = "drain"
    /\ woken' \in {woken, TRUE}
    /\ UNCHANGED <<queueVars, pc, loop, refused>>

ShutdownDrained ==
    /\ down = "drain" /\ loop = "exited"
    /\ down' = "flush"
    /\ UNCHANGED <<queueVars, pc, woken, loop, refused>>

\* Mutant: a loop that waits for the Hub is not aborted.
ShutdownAbortIdle ==
    /\ down = "drain" /\ loop \notin {"exited", "flush"}
    /\ loop' = "exited"
    /\ down' = "flush"
    /\ UNCHANGED <<queueVars, pc, woken, refused>>

\* The drain exceeds its deadline: abort() cancels the loop wherever it awaits,
\* which drops the batch it has in flight.
ShutdownAbort ==
    /\ down = "drain" /\ loop # "exited"
    /\ IF loop = "flush"
       THEN FinishDeletes(Loop, FALSE) /\ Refuse(Loop)
       ELSE UNCHANGED <<queueVars, refused>>
    /\ loop' = "exited"
    /\ down' = "flush"
    /\ UNCHANGED <<pc, woken>>

\* flush_deletes within the time that is left.
ShutdownFlush ==
    /\ down = "flush"
    /\ \/ TakeDeletes(Shutdown) /\ down' = "sent"
       \/ NothingQueued /\ down' = "done"
    /\ UNCHANGED <<pc, woken, loop, refused>>

ShutdownFlushed ==
    /\ down = "sent"
    /\ FinishDeletes(Shutdown, TRUE)
    /\ down' = "done"
    /\ UNCHANGED <<pc, woken, loop, refused>>

\* The Hub refuses, or the deadline passes and the flush is dropped.
ShutdownFlushFails ==
    /\ down = "sent"
    /\ FinishDeletes(Shutdown, FALSE)
    /\ Refuse(Shutdown)
    /\ down' = "done"
    /\ UNCHANGED <<pc, woken, loop>>

------------------------------------------------------------------------------
ClientStep(c) ==
    \/ \E p \in Path : EnqueueDelete(c, p)
    \/ EnqueueWake(c)
    \/ RmdirFlush(c) \/ RmdirFlushed(c) \/ RmdirFlushFails(c)

\* The steps flush_loop takes by itself, and the Hub's answers to its batches.
LoopStep == LoopRecv \/ LoopTake \/ LoopTakeNothing \/ LoopExit
LoopAnswer == LoopDeleted \/ LoopDeleteFails

ShutdownStep ==
    \/ ShutdownClose \/ ShutdownDrained \/ ShutdownAbort
    \/ ShutdownFlush \/ ShutdownFlushed \/ ShutdownFlushFails

Next ==
    \/ \E c \in Client : ClientStep(c)
    \/ \E P \in SUBSET Path : Cancel(P)
    \/ Signal
    \/ LoopStep \/ LoopAnswer
    \/ ShutdownStep

Spec == Init /\ [][Next]_vars

\* The runtime schedules the loop, a call returns from an uncontended mutex, and
\* a timer fires, so shutdown's own steps are fair.  The Hub owes no answer:
\* nothing is assumed of LoopAnswer or of the answers to rmdir, and the steps
\* that end shutdown include its deadlines.
Fairness ==
    /\ WF_vars(LoopStep)
    /\ \A c \in Client : WF_vars(EnqueueWake(c))
    /\ WF_vars(down # "up" /\ ShutdownStep)

FairSpec == Spec /\ Fairness

------------------------------------------------------------------------------
(* Properties *)

\* A queued delete waits with nothing on its way to send it only if its last
\* batch failed: otherwise a signal is in the channel, the loop is about to take
\* the queue, or its unlink() has yet to wake the loop.  Once shutdown has begun
\* there is no channel, and shutdown flushes the queue itself.
WaitsOnlyWhenRefused ==
    \A p \in Path :
        queued[p] > 0 /\ down = "up" =>
            \/ p \in refused
            \/ woken
            \/ loop = "take"
            \/ \E c \in Client : pc[c] = "wake"

\* Shutdown ends although the Hub may never answer a batch that the loop, or
\* shutdown itself, has sent (the drain MUST be bounded).
ShutdownEnds == down # "up" ~> down = "done"

\* As long as the Hub answers the loop's batches (or the HTTP call fails), every
\* queued delete is sent, cancelled, or left in the queue by a refusal, until the
\* mount shuts down.
DeletesAreTried ==
    []<>(loop # "flush") =>
        \A p \in Path :
            queued[p] > 0 /\ down = "up" ~> queued[p] = 0 \/ p \in refused \/ down # "up"
=============================================================================
