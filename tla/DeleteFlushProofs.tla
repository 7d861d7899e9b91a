-------------------------- MODULE DeleteFlushProofs --------------------------
(***************************************************************************)
(* Proofs about the users of the delete queue for any sets of paths and    *)
(* clients and any bound on the queue.  Every step of DeleteFlush is one   *)
(* of the operations of DeleteQueueProofs, or leaves the queue alone.      *)
(***************************************************************************)
EXTENDS DeleteFlush, DeleteQueueProofs

\* The actors that flush are flushers.
LEMMA Flushers == Loop \in Flusher /\ Shutdown \in Flusher /\ Client \subseteq Flusher
  BY DeleteFlushAssumption

\* Every step of the system works the queue by its operations only.
LEMMA StepsTheQueue == Next => QueueStep
  <1> SUFFICES ASSUME Next PROVE QueueStep
    OBVIOUS
  <1>1. ASSUME NEW c \in Client, ClientStep(c) PROVE QueueStep
    BY <1>1, Flushers DEF ClientStep, EnqueueDelete, EnqueueWake, RmdirFlush,
       RmdirFlushed, RmdirFlushFails, QueueStep
  <1>2. ASSUME NEW P \in SUBSET Path, Cancel(P) PROVE QueueStep
    BY <1>2 DEF Cancel, QueueStep
  <1>3. CASE Signal
    BY <1>3 DEF Signal, QueueStep
  <1>4. CASE LoopStep \/ LoopAnswer
    BY <1>4, Flushers DEF LoopStep, LoopAnswer, LoopRecv, LoopTake, LoopTakeNothing,
       NothingQueued, LoopDeleted, LoopDeleteFails, LoopExit, QueueStep
  <1>5. CASE ShutdownStep
    BY <1>5, Flushers DEF ShutdownStep, ShutdownClose, ShutdownDrained, ShutdownAbort,
       ShutdownFlush, ShutdownFlushed, ShutdownFlushFails, NothingQueued, QueueStep
  <1> QED BY <1>1, <1>2, <1>3, <1>4, <1>5 DEF Next

\* The types of the control state are kept by every step.
LEMMA ControlTypes == TypeOK /\ QueueTypes' /\ [Next]_vars => TypeOK'
  <1> SUFFICES ASSUME TypeOK, QueueTypes', [Next]_vars PROVE TypeOK'
    OBVIOUS
  <1> USE DEF TypeOK, Goto, Send, Refuse
  <1>0. \A f : Elements(sent[f]) \subseteq Path
    BY DEF Elements
  <1>1. ASSUME NEW c \in Client, ClientStep(c) PROVE TypeOK'
    BY <1>1, <1>0 DEF ClientStep, EnqueueDelete, EnqueueWake, RmdirFlush,
       RmdirFlushed, RmdirFlushFails
  <1>2. ASSUME NEW P \in SUBSET Path, Cancel(P) PROVE TypeOK'
    BY <1>2 DEF Cancel
  <1>3. CASE Signal
    BY <1>3 DEF Signal
  <1>4. CASE LoopStep \/ LoopAnswer
    BY <1>4, <1>0 DEF LoopStep, LoopAnswer, LoopRecv, LoopTake, LoopTakeNothing,
       LoopDeleted, LoopDeleteFails, LoopExit
  <1>5. CASE ShutdownStep
    BY <1>5, <1>0 DEF ShutdownStep, ShutdownClose, ShutdownDrained, ShutdownAbort,
       ShutdownFlush, ShutdownFlushed, ShutdownFlushFails
  <1>6. CASE UNCHANGED vars
    BY <1>6 DEF vars
  <1> QED BY <1>1, <1>2, <1>3, <1>4, <1>5, <1>6 DEF Next

\* The inductive invariant.
IndInv == TypeOK /\ NoDeleteLost /\ Counted

\* IndInv holds at first and every step keeps it.
LEMMA Invariance == Spec => []IndInv
  <1>1. Init => IndInv
    <2> SUFFICES ASSUME Init PROVE IndInv
      OBVIOUS
    <2>1. QueueInv
      BY QueueStarts DEF Init
    <2> QED BY <2>1 DEF Init, IndInv, TypeOK, QueueInv
  <1>2. IndInv /\ [Next]_vars => IndInv'
    <2> SUFFICES ASSUME IndInv, [Next]_vars PROVE IndInv'
      OBVIOUS
    <2>1. QueueStep
      BY StepsTheQueue DEF vars, QueueStep
    <2>2. QueueInv'
      BY <2>1, QueueStepKeeps DEF IndInv, TypeOK, QueueInv
    <2> QED BY <2>2, ControlTypes DEF IndInv, QueueInv
  <1> QED BY <1>1, <1>2, PTL DEF Spec

\* Every variable of the delete queue and of its users has its type, for any number
\* of paths and clients; in_flight, a usize, never goes below zero.
THEOREM TypeCorrect == Spec => []TypeOK
  BY Invariance, PTL DEF IndInv

\* No requested delete is dropped, by a refusal of the Hub, a flusher that is
\* cancelled at the shutdown deadline, or concurrent flushes, for any number of
\* paths, calls and queued deletes.
THEOREM DeletesAreKept == Spec => []NoDeleteLost
  BY Invariance, PTL DEF IndInv

\* When pending_delete_count reads 0 no delete is owed to the Hub, in the queue or on
\* its way: the count is the number of paths in both, for any number of paths, calls
\* and flushers.
THEOREM ZeroCountIsDone == Spec => []ZeroMeansDone
  <1>1. IndInv => ZeroMeansDone
    <2> SUFFICES ASSUME IndInv PROVE ZeroMeansDone
      OBVIOUS
    <2>1. QueueInv
      BY DEF IndInv, TypeOK, QueueInv
    <2>2. in_flight \in Nat
      BY <2>1 DEF QueueInv, QueueTypes
    <2>3. PendingDeleteCount = 0 => owed = {}
      BY <2>1, NothingPending
    <2> QED BY <2>2, <2>3 DEF ZeroMeansDone
  <1> QED BY <1>1, Invariance, PTL

------------------------------------------------------------------------------
\* Empty queues hold no path.
LEMMA NothingInNoPaths == \A p \in Path : ~ (NoPaths[p] > 0)
  BY DEF NoPaths

\* One step of WaitsOnlyWhenRefused: only unlink(), which goes on to wake the loop,
\* and a failed batch, which is refused, put a path into the queue, and the loop
\* passes from its signal to its take with the queue emptied at the end.
LEMMA WakeKeeps ==
    TypeOK /\ WaitsOnlyWhenRefused /\ [Next]_vars => WaitsOnlyWhenRefused'
  <1> SUFFICES ASSUME TypeOK, WaitsOnlyWhenRefused, [Next]_vars,
                      NEW p \in Path, queued'[p] > 0, down' = "up"
               PROVE  (\/ p \in refused
                       \/ woken
                       \/ loop = "take"
                       \/ \E c \in Client : pc[c] = "wake")'
    BY DEF WaitsOnlyWhenRefused
  <1>0. queued[p] > 0 /\ down = "up" =>
            p \in refused \/ woken \/ loop = "take" \/ \E c \in Client : pc[c] = "wake"
    BY DEF WaitsOnlyWhenRefused
  <1>1. ASSUME NEW f \in Flusher, FinishDeletes(f, TRUE) PROVE queued[p] > 0
    BY <1>1 DEF FinishDeletes
  <1>2. ASSUME NEW f \in Flusher, FinishDeletes(f, FALSE)
        PROVE  queued[p] > 0 \/ p \in Elements(sent[f])
    <2>1. queued \in Paths /\ sent[f] \in Paths
      BY <1>2 DEF TypeOK, QueueTypes
    <2>2. queued'[p] = queued[p] + sent[f][p]
      BY <1>2, <2>1 DEF FinishDeletes, Append, Paths
    <2>3. queued[p] \in Nat /\ sent[f][p] \in Nat
      BY <2>1 DEF Paths
    <2> QED BY <2>2, <2>3 DEF Elements
  <1>3. ASSUME NEW f \in Flusher, TakeDeletes(f) PROVE FALSE
    BY <1>3, NothingInNoPaths DEF TakeDeletes
  <1>4. ASSUME NothingQueued PROVE FALSE
    BY <1>4, NothingInNoPaths DEF NothingQueued, queueVars
  <1>5. ASSUME NEW c \in Client, NEW q \in Path, EnqueueDelete(c, q)
        PROVE  \E d \in Client : pc'[d] = "wake"
    BY <1>5 DEF EnqueueDelete, Goto, TypeOK
  <1>6. ASSUME NEW c \in Client, EnqueueWake(c) PROVE woken'
    BY <1>6 DEF EnqueueWake, Send
  <1>7. ASSUME NEW c \in Client, RmdirFlushed(c)
        PROVE  p \in refused' \/ woken' \/ loop' = "take" \/ \E d \in Client : pc'[d] = "wake"
    <2>1. queued[p] > 0
      BY <1>7, <1>1, Flushers DEF RmdirFlushed
    <2>2. \A d \in Client : pc[d] = "wake" => pc'[d] = "wake"
      BY <1>7 DEF RmdirFlushed, Goto, TypeOK
    <2> QED BY <2>1, <2>2, <1>0, <1>7 DEF RmdirFlushed
  <1>8. ASSUME NEW c \in Client, RmdirFlushFails(c)
        PROVE  p \in refused' \/ woken' \/ loop' = "take" \/ \E d \in Client : pc'[d] = "wake"
    <2>1. queued[p] > 0 \/ p \in Elements(sent[c])
      BY <1>8, <1>2, Flushers DEF RmdirFlushFails
    <2>2. \A d \in Client : pc[d] = "wake" => pc'[d] = "wake"
      BY <1>8 DEF RmdirFlushFails, Goto, TypeOK
    <2> QED BY <2>1, <2>2, <1>0, <1>8 DEF RmdirFlushFails, Refuse
  <1>9. ASSUME NEW P \in SUBSET Path, Cancel(P)
        PROVE  p \in refused' \/ woken' \/ loop' = "take" \/ \E d \in Client : pc'[d] = "wake"
    <2>1. p \notin P /\ queued[p] > 0
      BY <1>9 DEF Cancel, CancelDelete
    <2> QED BY <2>1, <1>0, <1>9 DEF Cancel
  <1>10. CASE Signal
    BY <1>10 DEF Signal, Send
  <1>11. CASE LoopRecv
    BY <1>11 DEF LoopRecv
  <1>12. CASE LoopDeleted
    <2>1. queued[p] > 0
      BY <1>12, <1>1, Flushers DEF LoopDeleted
    <2> QED BY <2>1, <1>0, <1>12 DEF LoopDeleted
  <1>13. CASE LoopDeleteFails
    <2>1. queued[p] > 0 \/ p \in Elements(sent[Loop])
      BY <1>13, <1>2, Flushers DEF LoopDeleteFails
    <2> QED BY <2>1, <1>0, <1>13 DEF LoopDeleteFails, Refuse
  <1>14. ASSUME LoopExit \/ ShutdownStep PROVE FALSE
    BY <1>14 DEF LoopExit, ShutdownStep, ShutdownClose, ShutdownDrained, ShutdownAbort,
       ShutdownFlush, ShutdownFlushed, ShutdownFlushFails
  <1>15. CASE UNCHANGED vars
    BY <1>15, <1>0 DEF vars, queueVars
  <1>16. ASSUME NEW c \in Client, RmdirFlush(c) PROVE FALSE
    BY <1>16, <1>3, Flushers DEF RmdirFlush
  <1>17. ASSUME LoopTake \/ LoopTakeNothing PROVE FALSE
    BY <1>17, <1>3, <1>4, Flushers DEF LoopTake, LoopTakeNothing
  <1> QED
    BY <1>5, <1>6, <1>7, <1>8, <1>9, <1>10, <1>11, <1>12, <1>13, <1>14, <1>15, <1>16, <1>17
    DEF Next, ClientStep, LoopStep, LoopAnswer

\* A queued delete always has a wake-up on its way unless its batch was refused, for
\* any number of paths, calls and queued deletes.
THEOREM WakeUpsAreKept == Spec => []WaitsOnlyWhenRefused
  <1>1. Init => WaitsOnlyWhenRefused
    BY NothingInNoPaths DEF Init, QueueInit, WaitsOnlyWhenRefused
  <1>2. TypeOK /\ WaitsOnlyWhenRefused /\ [Next]_vars => WaitsOnlyWhenRefused'
    BY WakeKeeps
  <1> QED BY <1>1, <1>2, TypeCorrect, PTL DEF Spec
=============================================================================
