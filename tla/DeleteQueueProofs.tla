--------------------------- MODULE DeleteQueueProofs ---------------------------
(***************************************************************************)
(* Lemmas about the delete queue for any sets of paths and flushers,       *)
(* whoever calls it: what its four operations do to its types, to          *)
(* NoDeleteLost and to the count of what is on its way.                    *)
(***************************************************************************)
EXTENDS DeleteQueue, FiniteSetTheorems, TLAPS

\* A finite set indexes finitely many sets, each finite: their union is finite.
LEMMA FiniteUnion ==
    ASSUME NEW S, IsFiniteSet(S), NEW F, \A x \in S : IsFiniteSet(F[x])
    PROVE  IsFiniteSet(UNION {F[x] : x \in S})
  <1> DEFINE T == {F[x] : x \in S}
             g == [x \in S |-> F[x]]
  <1>1. g \in Surjection(S, T)
    BY DEF Surjection
  <1>2. IsFiniteSet(T)
    BY <1>1, FS_Surjection
  <1> QED BY <1>2, FS_UNION

\* An occurrence is a path of the queue and one of the numbers up to its count.
LEMMA OccurrencesHold ==
    ASSUME NEW b \in Paths
    PROVE  \A o : o \in Occurrences(b) <=> \E p \in Path : \E n \in 1..b[p] : o = <<p, n>>
  BY DEF Occurrences

\* A queue holds finitely many paths.
LEMMA OccurrencesFinite ==
    ASSUME NEW b \in Paths
    PROVE  IsFiniteSet(Occurrences(b))
  <1> DEFINE F == [p \in Path |-> {p} \X (1..b[p])]
  <1>1. \A p \in Path : IsFiniteSet(F[p])
    <2> SUFFICES ASSUME NEW p \in Path PROVE IsFiniteSet({p} \X (1..b[p]))
      OBVIOUS
    <2>1. b[p] \in Int
      BY DEF Paths
    <2>2. IsFiniteSet(1..b[p])
      BY <2>1, FS_Interval
    <2>3. IsFiniteSet({p})
      BY FS_Singleton
    <2> QED BY <2>2, <2>3, FS_Product
  <1>2. IsFiniteSet(UNION {F[p] : p \in Path})
    <2> HIDE DEF F
    <2> QED BY <1>1, FiniteUnion, DeleteQueueAssumption
  <1>3. {F[p] : p \in Path} = {{p} \X (1..b[p]) : p \in Path}
    OBVIOUS
  <1> QED BY <1>2, <1>3 DEF Occurrences

\* The length of a queue is a number, and 0 only when nothing is in it.
LEMMA LenIsZero ==
    ASSUME NEW b \in Paths
    PROVE  /\ Len(b) \in Nat
           /\ Len(b) = 0 <=> b = NoPaths
  <1>1. IsFiniteSet(Occurrences(b))
    BY OccurrencesFinite
  <1>2. Len(b) \in Nat
    BY <1>1, FS_CardinalityType DEF Len
  <1>3. Len(b) = 0 <=> Occurrences(b) = {}
    BY <1>1, FS_EmptySet DEF Len
  <1>4. ASSUME NEW p \in Path, b[p] # 0 PROVE <<p, 1>> \in Occurrences(b)
    <2>1. 1 \in 1..b[p]
      BY <1>4 DEF Paths
    <2> QED BY <2>1, OccurrencesHold
  <1>5. ASSUME b = NoPaths PROVE Occurrences(b) = {}
    <2>1. \A p \in Path : 1..b[p] = {}
      BY <1>5 DEF NoPaths
    <2> QED BY <2>1, OccurrencesHold
  <1>6. ASSUME Occurrences(b) = {} PROVE b = NoPaths
    <2>1. \A p \in Path : b[p] = 0
      BY <1>4, <1>6
    <2> QED BY <2>1 DEF NoPaths, Paths
  <1> QED BY <1>2, <1>3, <1>5, <1>6

\* Everything that is on its way to the Hub, batch by batch.
Batches(s) == UNION {{f} \X Occurrences(s[f]) : f \in Flusher}

\* Finitely many tasks have finitely many paths on their way.
LEMMA BatchesFinite ==
    ASSUME NEW s \in [Flusher -> Paths]
    PROVE  IsFiniteSet(Batches(s)) /\ Cardinality(Batches(s)) \in Nat
  <1> DEFINE F == [f \in Flusher |-> {f} \X Occurrences(s[f])]
  <1>1. \A f \in Flusher : IsFiniteSet(F[f])
    <2> SUFFICES ASSUME NEW f \in Flusher PROVE IsFiniteSet({f} \X Occurrences(s[f]))
      OBVIOUS
    <2>1. IsFiniteSet({f}) /\ IsFiniteSet(Occurrences(s[f]))
      BY FS_Singleton, OccurrencesFinite
    <2> QED BY <2>1, FS_Product
  <1>2. IsFiniteSet(UNION {F[f] : f \in Flusher})
    <2> HIDE DEF F
    <2> QED BY <1>1, FiniteUnion, DeleteQueueAssumption
  <1>3. {F[f] : f \in Flusher} = {{f} \X Occurrences(s[f]) : f \in Flusher}
    OBVIOUS
  <1>4. IsFiniteSet(Batches(s))
    BY <1>2, <1>3 DEF Batches
  <1> QED BY <1>4, FS_CardinalityType

\* A task that gets a batch adds its length to what is on its way; read backwards,
\* one that gives it up takes its length off.
LEMMA BatchCounted ==
    ASSUME NEW s \in [Flusher -> Paths], NEW f \in Flusher, NEW b \in Paths,
           NEW t \in [Flusher -> Paths],
           s[f] = NoPaths, t[f] = b, \A g \in Flusher \ {f} : t[g] = s[g]
    PROVE  Cardinality(Batches(t)) = Cardinality(Batches(s)) + Len(b)
  <1> DEFINE B == {f} \X Occurrences(b)
  <1>1. Batches(t) = Batches(s) \cup B /\ Batches(s) \cap B = {}
    <2>1. \A o : o \in Batches(t) <=> \E g \in Flusher : o \in {g} \X Occurrences(t[g])
      BY DEF Batches
    <2>2. \A o : o \in Batches(s) <=> \E g \in Flusher : o \in {g} \X Occurrences(s[g])
      BY DEF Batches
    <2>3. Occurrences(s[f]) = {}
      <3>1. NoPaths \in Paths /\ Len(NoPaths) = 0
        <4>1. NoPaths \in Paths
          BY DEF NoPaths, Paths
        <4> QED BY <4>1, LenIsZero
      <3> QED BY <3>1, OccurrencesFinite, FS_EmptySet DEF Len
    <2>4. \A o : o \in Batches(t) => o \in Batches(s) \/ o \in B
      BY <2>1, <2>2
    <2>5. \A o : o \in Batches(s) => o \in Batches(t) /\ o \notin B
      BY <2>1, <2>2, <2>3
    <2>6. \A o \in B : o \in Batches(t)
      BY <2>1
    <2> QED BY <2>4, <2>5, <2>6
  <1>2. IsFiniteSet(B) /\ Cardinality(B) = Len(b)
    <2>1. IsFiniteSet({f}) /\ Cardinality({f}) = 1
      BY FS_Singleton
    <2>2. IsFiniteSet(Occurrences(b)) /\ Len(b) \in Nat
      BY OccurrencesFinite, LenIsZero
    <2>3. IsFiniteSet(B) /\ Cardinality(B) = Cardinality({f}) * Cardinality(Occurrences(b))
      BY <2>1, <2>2, FS_Product
    <2> QED BY <2>1, <2>2, <2>3 DEF Len
  <1>3. IsFiniteSet(Batches(s)) /\ Cardinality(Batches(s)) \in Nat
    BY BatchesFinite
  <1>4. Cardinality(Batches(s) \cup B) = Cardinality(Batches(s)) + Cardinality(B) - Cardinality({})
    BY <1>1, <1>2, <1>3, FS_Union
  <1>5. Cardinality({}) = 0 /\ Len(b) \in Nat
    BY FS_EmptySet, LenIsZero
  <1> QED BY <1>1, <1>2, <1>3, <1>4, <1>5

------------------------------------------------------------------------------
\* A step of the queue: one of its operations, or none.
QueueStep ==
    \/ \E p \in Path : PushDelete(p)
    \/ \E P \in SUBSET Path : CancelDelete(P)
    \/ \E f \in Flusher : TakeDeletes(f)
    \/ \E f \in Flusher, committed \in BOOLEAN : FinishDeletes(f, committed)
    \/ UNCHANGED queueVars

\* The count of the code is the number of paths on their way to the Hub.
Counted == in_flight = Cardinality(Batches(sent))

\* What the lemmas keep.
QueueInv == QueueTypes /\ NoDeleteLost /\ Counted

\* The empty queue has the type of a queue.
LEMMA NoPathsTypes == NoPaths \in Paths /\ \A p \in Path : NoPaths[p] = 0
  BY DEF NoPaths, Paths

\* The empty queue has its type, nothing is owed in it and nothing is on its way.
LEMMA QueueStarts == QueueInit => QueueInv
  <1> SUFFICES ASSUME QueueInit PROVE QueueInv
    OBVIOUS
  <1>1. QueueTypes /\ NoDeleteLost
    BY NoPathsTypes DEF QueueInit, QueueTypes, NoDeleteLost
  <1>2. \A f \in Flusher : Occurrences(sent[f]) = {}
    <2>1. Len(NoPaths) = 0
      BY NoPathsTypes, LenIsZero
    <2>2. Occurrences(NoPaths) = {}
      BY <2>1, NoPathsTypes, OccurrencesFinite, FS_EmptySet DEF Len
    <2> QED BY <2>2 DEF QueueInit
  <1>3. Batches(sent) = {}
    BY <1>2 DEF Batches
  <1> QED BY <1>1, <1>3, FS_EmptySet DEF QueueInv, Counted, QueueInit

\* enqueue_delete keeps the types, and what it adds to owed it also queues.
LEMMA PushKeeps ==
    ASSUME QueueInv, NEW p \in Path, PushDelete(p)
    PROVE  QueueInv'
  <1>1. QueueTypes'
    BY DEF QueueInv, QueueTypes, PushDelete, Paths
  <1>2. \A q \in Path : queued'[q] >= queued[q] /\ queued'[p] > 0
    BY DEF QueueInv, QueueTypes, PushDelete, Paths
  <1>3. NoDeleteLost'
    BY <1>1, <1>2 DEF QueueInv, QueueTypes, NoDeleteLost, PushDelete, Paths
  <1>4. Counted'
    BY DEF QueueInv, Counted, PushDelete
  <1> QED BY <1>1, <1>3, <1>4 DEF QueueInv

\* cancel_delete takes a path out of the queue only together with its debt.
LEMMA CancelKeeps ==
    ASSUME QueueInv, NEW P \in SUBSET Path, CancelDelete(P)
    PROVE  QueueInv'
  <1>1. QueueTypes' /\ NoDeleteLost'
    BY DEF QueueInv, QueueTypes, NoDeleteLost, CancelDelete, Paths
  <1>2. Counted'
    BY DEF QueueInv, Counted, CancelDelete
  <1> QED BY <1>1, <1>2 DEF QueueInv

\* Taking the queue moves every path of it into the batch of the flusher, and counts
\* them.
LEMMA TakeKeeps ==
    ASSUME QueueInv, NEW f \in Flusher, TakeDeletes(f)
    PROVE  QueueInv'
  <1>0. /\ queued \in Paths /\ sent \in [Flusher -> Paths] /\ in_flight \in Nat
        /\ Len(queued) \in Nat /\ NoPaths \in Paths
    BY LenIsZero, NoPathsTypes DEF QueueInv, QueueTypes
  <1>1. QueueTypes'
    BY <1>0 DEF QueueInv, QueueTypes, TakeDeletes
  <1>2. ASSUME NEW p \in owed'
        PROVE  queued'[p] > 0 \/ \E g \in Flusher : sent'[g][p] > 0
    <2>1. p \in owed /\ p \in Path /\ sent[f][p] = 0 /\ sent'[f] = queued
      BY <1>2, NoPathsTypes DEF QueueInv, QueueTypes, TakeDeletes
    <2>2. CASE queued[p] > 0
      BY <2>1, <2>2
    <2>3. CASE ~ (queued[p] > 0)
      <3>1. PICK g \in Flusher : sent[g][p] > 0
        BY <2>1, <2>3 DEF QueueInv, NoDeleteLost
      <3>2. g # f /\ sent'[g] = sent[g]
        BY <3>1, <2>1, <1>0 DEF TakeDeletes
      <3> QED BY <3>1, <3>2
    <2> QED BY <2>2, <2>3
  <1>3. Counted'
    <2>1. /\ sent' \in [Flusher -> Paths] /\ sent[f] = NoPaths /\ sent'[f] = queued
          /\ \A g \in Flusher \ {f} : sent'[g] = sent[g]
      BY <1>0, <1>1 DEF TakeDeletes, QueueTypes
    <2>2. Cardinality(Batches(sent')) = Cardinality(Batches(sent)) + Len(queued)
      BY <1>0, <2>1, BatchCounted
    <2> QED BY <2>2 DEF TakeDeletes, Counted, QueueInv
  <1> QED BY <1>1, <1>2, <1>3 DEF QueueInv, NoDeleteLost

\* A batch leaves its flusher because it was committed, and then its paths are no
\* longer owed, or for the queue; its paths are no longer counted.
LEMMA FinishKeeps ==
    ASSUME QueueInv, NEW f \in Flusher, NEW committed \in BOOLEAN,
           FinishDeletes(f, committed)
    PROVE  QueueInv'
  <1>0. /\ queued \in Paths /\ sent[f] \in Paths /\ sent \in [Flusher -> Paths]
        /\ in_flight \in Nat
    BY DEF QueueInv, QueueTypes
  <1>a. /\ Append(queued, sent[f]) \in Paths
        /\ \A p \in Path : Append(queued, sent[f])[p] = queued[p] + sent[f][p]
    BY <1>0 DEF Append, Paths
  <1>c. /\ sent' \in [Flusher -> Paths] /\ sent'[f] = NoPaths
        /\ \A g \in Flusher \ {f} : sent'[g] = sent[g]
    BY <1>0, NoPathsTypes DEF FinishDeletes
  <1>d. in_flight' = Cardinality(Batches(sent')) /\ in_flight' \in Nat
    <2>1. Cardinality(Batches(sent)) = Cardinality(Batches(sent')) + Len(sent[f])
      BY <1>0, <1>c, BatchCounted
    <2>2. Cardinality(Batches(sent')) \in Nat
      BY <1>c, BatchesFinite
    <2>3. Len(sent[f]) \in Nat
      BY <1>0, LenIsZero
    <2> QED BY <2>1, <2>2, <2>3 DEF QueueInv, Counted, FinishDeletes
  <1>1. QueueTypes'
    BY <1>0, <1>a, <1>c, <1>d DEF QueueInv, QueueTypes, FinishDeletes
  <1>2. ASSUME NEW p \in owed'
        PROVE  queued'[p] > 0 \/ \E g \in Flusher : sent'[g][p] > 0
    <2>1. p \in Path /\ p \in owed
      BY <1>2 DEF FinishDeletes, QueueInv, QueueTypes
    <2>2. /\ queued[p] \in Nat /\ sent[f][p] \in Nat
          /\ queued[p] > 0 \/ \E g \in Flusher : sent[g][p] > 0
      BY <1>0, <2>1 DEF QueueInv, NoDeleteLost, Paths
    <2>3. CASE committed
      <3>1. queued' = queued /\ p \notin Elements(sent[f])
        BY <1>2, <2>3 DEF FinishDeletes
      <3>2. ~ (sent[f][p] > 0)
        BY <3>1, <2>1 DEF Elements
      <3> QED BY <3>1, <3>2, <2>2, <1>c
    <2>4. CASE ~committed
      <3>1. queued'[p] = queued[p] + sent[f][p]
        BY <2>4, <1>a, <2>1 DEF FinishDeletes
      <3>2. CASE queued[p] > 0 \/ sent[f][p] > 0
        BY <3>1, <3>2, <2>2
      <3>3. CASE ~ (queued[p] > 0 \/ sent[f][p] > 0)
        BY <3>3, <3>1, <2>2, <1>c
      <3> QED BY <3>2, <3>3
    <2> QED BY <2>3, <2>4
  <1> QED BY <1>1, <1>2, <1>d DEF QueueInv, NoDeleteLost, Counted

\* With nothing in the queue and nothing counted there is no path in either.
LEMMA NothingOnItsWay ==
    ASSUME QueueInv, PendingDeleteCount = 0, NEW p \in Path
    PROVE  queued[p] = 0 /\ \A f \in Flusher : sent[f][p] = 0
  <1>1. /\ queued \in Paths /\ sent \in [Flusher -> Paths] /\ in_flight \in Nat
        /\ Len(queued) \in Nat
    BY LenIsZero DEF QueueInv, QueueTypes
  <1>2. Len(queued) = 0 /\ in_flight = 0
    BY <1>1 DEF PendingDeleteCount
  <1>3. queued[p] = 0
    BY <1>1, <1>2, LenIsZero, NoPathsTypes
  <1>4. Batches(sent) = {}
    BY <1>1, <1>2, BatchesFinite, FS_EmptySet DEF QueueInv, Counted
  <1>5. ASSUME NEW f \in Flusher PROVE sent[f][p] = 0
    <2>1. sent[f] \in Paths
      BY <1>1
    <2>2. Occurrences(sent[f]) = {}
      <3>1. \A o \in Occurrences(sent[f]) : <<f, o>> \in {f} \X Occurrences(sent[f])
        OBVIOUS
      <3>2. \A o \in Occurrences(sent[f]) : <<f, o>> \in Batches(sent)
        BY <3>1 DEF Batches
      <3> QED BY <3>2, <1>4
    <2>3. Len(sent[f]) = 0
      BY <2>2, FS_EmptySet DEF Len
    <2> QED BY <2>1, <2>3, <1>1, LenIsZero, NoPathsTypes
  <1> QED BY <1>3, <1>5

\* So nothing is owed.
LEMMA NothingPending == QueueInv /\ PendingDeleteCount = 0 => owed = {}
  <1> SUFFICES ASSUME QueueInv, PendingDeleteCount = 0, NEW p \in owed PROVE FALSE
    OBVIOUS
  <1>1. p \in Path /\ (queued[p] > 0 \/ \E f \in Flusher : sent[f][p] > 0)
    BY DEF QueueInv, QueueTypes, NoDeleteLost
  <1> QED BY <1>1, NothingOnItsWay

\* The four lemmas together.
LEMMA QueueStepKeeps == QueueInv /\ QueueStep => QueueInv'
  <1> SUFFICES ASSUME QueueInv, QueueStep PROVE QueueInv'
    OBVIOUS
  <1>1. ASSUME NEW p \in Path, PushDelete(p) PROVE QueueInv'
    BY <1>1, PushKeeps
  <1>2. ASSUME NEW P \in SUBSET Path, CancelDelete(P) PROVE QueueInv'
    BY <1>2, CancelKeeps
  <1>3. ASSUME NEW f \in Flusher, TakeDeletes(f) PROVE QueueInv'
    BY <1>3, TakeKeeps
  <1>4. ASSUME NEW f \in Flusher, NEW b \in BOOLEAN, FinishDeletes(f, b) PROVE QueueInv'
    BY <1>4, FinishKeeps
  <1>5. CASE UNCHANGED queueVars
    BY <1>5 DEF queueVars, QueueInv, QueueTypes, NoDeleteLost, Counted
  <1> QED BY <1>1, <1>2, <1>3, <1>4, <1>5 DEF QueueStep
=============================================================================
