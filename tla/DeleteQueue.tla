----------------------------- MODULE DeleteQueue -----------------------------
(***************************************************************************)
(* The queue of remote deletes of an advanced-writes mount: the paths that *)
(* unlink() queued, and the batches of them that were sent to the Hub and  *)
(* not answered yet.  This module holds the queue and its operations, each *)
(* one critical section of the pending_deletes mutex; DeleteFlush adds the *)
(* tasks that call them, HubSync the files the paths belong to.            *)
(*                                                                         *)
(* The order of the queue decides nothing (a batch deletes every path in   *)
(* it), so a Vec of paths is the number of times each path occurs in it.   *)
(***************************************************************************)
EXTENDS Integers, FiniteSets

CONSTANTS
    Path,       \* remote paths
    Flusher     \* the tasks that may have a batch in flight, one each

\* A Vec holds finitely many paths, and a process has finitely many tasks.
ASSUME DeleteQueueAssumption == IsFiniteSet(Path) /\ IsFiniteSet(Flusher)

VARIABLES
    queued,     \* DeleteQueue.queued
    in_flight,  \* DeleteQueue.in_flight
    sent,       \* the InFlightDeletes of each flusher
    owed        \* history: the paths whose deletion was requested and has since
                \* been neither committed by the Hub nor cancelled

queueVars == <<queued, in_flight, sent, owed>>

Paths == [Path -> Nat]
NoPaths == [p \in Path |-> 0]
Occurrences(b) == UNION {{p} \X (1..b[p]) : p \in Path}
Len(b) == Cardinality(Occurrences(b))
Elements(b) == {p \in Path : b[p] > 0}
Append(b, d) == [p \in Path |-> b[p] + d[p]]

QueueTypes ==
    /\ queued \in Paths
    /\ in_flight \in Nat
    /\ sent \in [Flusher -> Paths]
    /\ owed \subseteq Path

QueueInit ==
    /\ queued = NoPaths
    /\ in_flight = 0
    /\ sent = [f \in Flusher |-> NoPaths]
    /\ owed = {}

------------------------------------------------------------------------------
\* enqueue_delete, up to the unlock; the wake-up that follows it is the caller's.
PushDelete(p) ==
    /\ queued' = [queued EXCEPT ![p] = @ + 1]
    /\ owed' = owed \cup {p}
    /\ UNCHANGED <<in_flight, sent>>

\* cancel_delete and cancel_delete_prefix: P is the path, or all paths below it.
\* A path that is in flight stays in its batch.
CancelDelete(P) ==
    /\ queued' = [p \in Path |-> IF p \in P THEN 0 ELSE queued[p]]
    /\ owed' = owed \ P
    /\ UNCHANGED <<in_flight, sent>>

\* Mutant: the batch is not counted.
TakeUncounted(f) ==
    /\ sent[f] = NoPaths /\ queued # NoPaths
    /\ sent' = [sent EXCEPT ![f] = queued]
    /\ queued' = NoPaths
    /\ UNCHANGED <<in_flight, owed>>

\* flush_pending_deletes up to the Hub call, and its early return.
TakeDeletes(f) ==
    /\ sent[f] = NoPaths
    /\ queued # NoPaths
    /\ sent' = [sent EXCEPT ![f] = queued]
    /\ in_flight' = in_flight + Len(queued)
    /\ queued' = NoPaths
    /\ UNCHANGED owed

NothingQueued == queued = NoPaths /\ UNCHANGED queueVars

\* Mutant: a failed batch is dropped.
FinishForgets(f, committed) ==
    /\ sent[f] # NoPaths
    /\ in_flight' = in_flight - Len(sent[f])
    /\ owed' = IF committed THEN owed \ Elements(sent[f]) ELSE owed
    /\ sent' = [sent EXCEPT ![f] = NoPaths]
    /\ UNCHANGED queued

\* The Hub's answer and InFlightDeletes::drop, which also runs without one when
\* the task is cancelled: a batch that did not commit goes back to the queue.
FinishDeletes(f, committed) ==
    /\ sent[f] # NoPaths
    /\ in_flight' = in_flight - Len(sent[f])
    /\ queued' = IF committed THEN queued ELSE Append(queued, sent[f])
    /\ owed' = IF committed THEN owed \ Elements(sent[f]) ELSE owed
    /\ sent' = [sent EXCEPT ![f] = NoPaths]

\* pending_delete_count
PendingDeleteCount == Len(queued) + in_flight

------------------------------------------------------------------------------
(* Properties of the queue, whoever uses it *)

\* A requested delete that the Hub has not committed and nothing cancelled is in
\* the queue or in a batch on its way: no failure and no cancellation of a
\* flusher drops it (InFlightDeletes::drop).
NoDeleteLost ==
    \A p \in owed : queued[p] > 0 \/ \E f \in Flusher : sent[f][p] > 0

\* A status or an unmount that reads pending_delete_count = 0 is right that no
\* delete is left to do, batches on their way to the Hub included; in_flight is
\* a usize, so it may not go below zero either.
ZeroMeansDone ==
    /\ in_flight >= 0
    /\ PendingDeleteCount = 0 => owed = {}
=============================================================================
