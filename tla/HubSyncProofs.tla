---------------------------- MODULE HubSyncProofs ----------------------------
(***************************************************************************)
(* Proofs about HubSync for any sets of inodes, paths, clients and any     *)
(* instances, as long as these leave out the situations in which the code  *)
(* lets the Hub and the tree drift apart (NoDrift).  IInv says what keeps  *)
(* the two together over the steps of calls and cycles; there is one lemma *)
(* per action, or per kind of action, that it is kept.                     *)
(***************************************************************************)
EXTENDS HubSync, DeleteQueueProofs

\* The instances the proofs are about.  Each event left out is one after which the
\* properties are false; so is a delete batch of rmdir beside the calls of others, which
\* may reach the Hub after one of them has put another file under a name it deletes.
NoDrift ==
    \A k \in Case :
        /\ "quiet" \in k.events
        /\ k.events \cap {"shadow", "old_name", "drop_old_names", "rewrite", "create_fails"} = {}
        /\ "rmdir" \in k.events => \A c, d \in k.clients : c = d

\* The steps of a call that works on names.
Calling(c) == pc[c] \in {"create_cancel", "unlink_enqueue", "unlink_local", "rename_remote", "rename_local"}
Renaming(c) == pc[c] \in {"rename_remote", "rename_local"}
\* The Hub has renamed already what the tree is about to.
Moved(c) == pc[c] = "rename_local" /\ ~call[c].is_dirty
Overtaken(p) == \E c \in Client : Moved(c) /\ p \in Names(c)
Linked(i) == path[i] # NoPath
Cycle == {"upload", "commit", "apply"}

\* Who is at work: calls of the case's clients, rmdir's flush alone, and no call that
\* changes names beside a cycle; a batch in flight is that of a flusher who waits for it.
ActorInv ==
    /\ case \in Case
    /\ \A c \in Client : ~Idle(c) => c \in case.clients
    /\ \A c \in Client : pc[c] = "rmdir_flush" => Happens("rmdir")
    /\ phase = "recv" \/ \A c \in Client : Idle(c)
    /\ \A f \in Flusher : sent[f] # NoPaths =>
          (f = Loop /\ phase = "deletes") \/ (f # Loop /\ pc[f] = "rmdir_flush")

\* A name has one file, and an inode without a name has nothing for the Hub.
NameInv ==
    /\ \A i, j \in Ino : Linked(i) /\ path[i] = path[j] => i = j
    /\ \A i \in Ino : Linked(i) => i \in used
    /\ \A i \in Ino : ~Linked(i) => xet_hash[i] = NoHash /\ pending_deletes[i] = {}

\* The names of calls under way are distinct.
LockInv ==
    /\ \A c \in Client : ~Calling(c) => call[c] = NoCall
    /\ \A c, d \in Client : c # d => Names(c) \cap Names(d) \subseteq {NoPath}

\* What a call has read of its inode is still so, a truncation of the hash apart.
ReadInv ==
    \A c \in Client : Calling(c) =>
        /\ call[c].old # NoPath /\ path[call[c].ino] = call[c].old
        /\ xet_hash[call[c].ino] \in {call[c].xet_hash, NoHash}
        /\ call[c].is_dirty => IsDirty(call[c].ino)
        /\ ~Renaming(c) => call[c].new = NoPath
        /\ Renaming(c) => call[c].new \notin {NoPath, call[c].old}

\* How far a call is with the Hub and the queue.
StepInv ==
    \A c \in Client :
        /\ pc[c] = "rename_remote" => ~call[c].is_dirty
        /\ Calling(c) /\ ~Renaming(c) => pending_deletes[call[c].ino] = {}
        /\ pc[c] \in {"create_cancel", "unlink_local"} =>
              (hub[call[c].old] # Absent => queued[call[c].old] > 0)
        /\ Renaming(c) =>
              /\ \A j \in Ino : path[j] = call[c].new => pending_deletes[j] = {}
              /\ \A j \in Ino : call[c].new \notin pending_deletes[j]
              /\ ~call[c].is_dirty => call[c].xet_hash # NoHash
              /\ call[c].is_dirty /\ call[c].xet_hash = NoHash => hub[call[c].old] = Absent
        /\ Moved(c) => hub[call[c].new] = call[c].xet_hash /\ hub[call[c].old] = Absent

\* The hash of a clean file is its content, and otherwise an earlier content.
CleanInv ==
    \A i \in Ino :
        /\ Linked(i) /\ ~IsDirty(i) => xet_hash[i] = local[i] /\ pending_deletes[i] = {}
        /\ xet_hash[i] # NoHash => xet_hash[i] <= local[i]

\* No file has a name that a commit is going to delete.
OldNameInv == \A i, j \in Ino : path[j] \notin pending_deletes[i]

\* The queue has the name of a file only between two steps of a call, and no batch has.
QueuedInv ==
    \A i \in Ino : Linked(i) =>
        /\ \A f \in Flusher : sent[f][path[i]] = 0
        /\ queued[path[i]] = 0 \/ \E c \in Client : pc[c] \in {"create_cancel", "unlink_local"} /\ call[c].old = path[i]

\* The Hub has a file under its name as it was when it was last committed, or its
\* content has moved on so that it will be committed again.
HubInv ==
    \A i \in Ino :
        Linked(i) /\ xet_hash[i] # NoHash /\ pending_deletes[i] = {} /\ ~Overtaken(path[i]) =>
            hub[path[i]] = xet_hash[i] \/ (IsDirty(i) /\ local[i] > xet_hash[i])

\* What the Hub has under a name that no file has will be deleted, or is about to be
\* taken over.
OrphanInv ==
    \A p \in Path :
        hub[p] # Absent /\ (\A i \in Ino : path[i] # p) =>
            \/ \E i \in Ino : p \in pending_deletes[i]
            \/ queued[p] > 0
            \/ \E f \in Flusher : sent[f][p] > 0
            \/ \E c \in Client : Moved(c) /\ call[c].new = p

\* What the snapshot says of a file of the cycle is still so unless its generation
\* moved, and what the cycle committed is on the Hub.
CycleInv ==
    /\ phase \notin Cycle => batch = {}
    /\ \A i \in batch :
          /\ Linked(i) /\ path[i] = item[i].path /\ pending_deletes[i] = item[i].deletes
          /\ 0 < item[i].gen /\ item[i].gen <= dirty_generation[i]
          /\ xet_hash[i] \in {item[i].prev, NoHash}
          /\ dirty_generation[i] = item[i].gen => xet_hash[i] = item[i].prev
          /\ phase \in {"commit", "apply"} =>
                /\ dirty_generation[i] = item[i].gen => local[i] = item[i].up
                /\ xet_hash[i] # NoHash => xet_hash[i] <= item[i].up /\ item[i].up <= local[i]
          /\ phase = "apply" =>
                /\ hub[item[i].path] = item[i].up
                /\ \A p \in item[i].deletes : hub[p] = Absent

\* What relates the names, the hashes, the queue and the Hub.
BooksInv ==
    /\ NameInv /\ LockInv /\ ReadInv /\ StepInv /\ CleanInv
    /\ OldNameInv /\ QueuedInv /\ HubInv /\ OrphanInv

\* The inductive invariant.
IInv == TypeOK /\ ActorInv /\ BooksInv /\ CycleInv

------------------------------------------------------------------------------
(* Types *)

\* Every step works the queue by its operations only.
LEMMA StepsTheQueue == TypeOK /\ ActorInv /\ ReadInv /\ [Next]_vars => QueueStep
  <1> SUFFICES ASSUME TypeOK, ActorInv, ReadInv, [Next]_vars PROVE QueueStep
    OBVIOUS
  <1>0. Loop \in Flusher /\ Client \subseteq Flusher /\ NoPath \notin Path
    BY HubSyncAssumption
  <1>1. ASSUME NEW f \in Flusher, DeletesAnswered(f) PROVE QueueStep
    BY <1>1 DEF DeletesAnswered, QueueStep
  <1>2. ASSUME NEW c \in case.clients, ClientStep(c) PROVE QueueStep
    <2>0. c \in Client
      BY <1>2, HubSyncAssumption DEF ActorInv
    <2>1. \A p \in Path \cup {NoPath} : CancelDelete({p}) => QueueStep
      <3> SUFFICES ASSUME NEW p \in Path \cup {NoPath}, CancelDelete({p}) PROVE QueueStep
        OBVIOUS
      <3>1. CancelDelete({p} \cap Path)
        BY <1>0 DEF CancelDelete, TypeOK, QueueTypes
      <3> QED BY <3>1 DEF QueueStep
    <2>2. call[c].old \in Path \cup {NoPath} /\ call[c].new \in Path \cup {NoPath}
      BY <2>0 DEF TypeOK, Call
    <2>3. CASE CreateCancel(c) \/ CreateFails(c) \/ RenameLocal(c)
      BY <2>3, <2>1, <2>2 DEF CreateCancel, CreateFails, RenameLocal
    <2>4. CASE UnlinkEnqueue(c)
      <3>1. call[c].old \in Path
        BY <2>0, <2>2, <2>4 DEF UnlinkEnqueue, ReadInv, Calling
      <3> QED BY <3>1, <2>4 DEF UnlinkEnqueue, QueueStep
    <2>5. CASE RmdirFlush(c) \/ RmdirFlushed(c)
      BY <2>5, <2>0, <1>0, <1>1 DEF RmdirFlush, RmdirFlushed, QueueStep
    <2>6. CASE UnlinkLocal(c) \/ RenameRemote(c) \/ RenameRemoteFails(c)
      BY <2>6 DEF UnlinkLocal, RenameRemote, RenameRemoteFails, QueueStep
    <2>7. ASSUME NEW i \in case.inodes, UnlinkDecide(c, i) PROVE QueueStep
      BY <2>7 DEF UnlinkDecide, QueueStep
    <2>8. ASSUME NEW i \in case.inodes, NEW p \in case.paths, CreateInsert(c, i, p) \/ RenameValidate(c, i, p)
          PROVE  QueueStep
      BY <2>8 DEF CreateInsert, RenameValidate, QueueStep
    <2> QED BY <1>2, <2>3, <2>4, <2>5, <2>6, <2>7, <2>8 DEF ClientStep
  <1>3. CASE FileStep
    BY <1>3 DEF FileStep, Write, Enqueue, Truncate, QueueStep
  <1>4. CASE LoopStep
    BY <1>4, <1>0, <1>1 DEF LoopStep, LoopRecv, LoopTake, LoopDeletesAnswered, LoopSnapshot, LoopUploaded,
       LoopUploadFails, LoopCommit, LoopCommitFails, LoopApply, NothingQueued, QueueStep
  <1>5. CASE UNCHANGED vars
    BY <1>5 DEF vars, QueueStep
  <1> QED BY <1>2, <1>3, <1>4, <1>5 DEF Next

\* The variables of the queue apart.
ShapeOK ==
    /\ path \in [Ino -> Path \cup {NoPath}]
    /\ used \subseteq Ino
    /\ dirty_generation \in [Ino -> 0..MaxGen]
    /\ xet_hash \in [Ino -> Content \cup {NoHash}]
    /\ pending_deletes \in [Ino -> SUBSET Path]
    /\ local \in [Ino -> Content]
    /\ hub \in [Path -> Content \cup {Absent}]
    /\ signals \subseteq Ino \cup {Wake}
    /\ phase \in Phase
    /\ todo \subseteq Ino /\ batch \subseteq Ino
    /\ item \in [Ino -> Item]
    /\ pc \in [Client -> PC] /\ call \in [Client -> Call]

\* The constants that stand for nothing have the types of what they stand for.
LEMMA Nothings ==
    /\ NoCall \in Call /\ NoItem \in Item
    /\ NoHash = Absent /\ NoHash \notin Content /\ Empty \in Content /\ 0 \in 0..MaxGen
    /\ NoPath \notin Path /\ Loop \notin Client /\ Loop \in Flusher /\ Client \subseteq Flusher
    /\ Content \subseteq Int
  <1>1. /\ MaxContent \in Nat /\ MaxGen \in Nat /\ NoPath \notin Path
        /\ Loop \notin Client /\ Flusher = Client \cup {Loop} /\ Ino # {}
    BY HubSyncAssumption
  <1>2. (CHOOSE i \in Ino : TRUE) \in Ino
    BY <1>1
  <1>3. Empty \in Content /\ NoHash \notin Content /\ 0 \in 0..MaxGen /\ Content \subseteq Int
    BY <1>1 DEF Empty, NoHash, Content
  <1>4. NoCall \in Call
    BY <1>2 DEF NoCall, Call
  <1>5. NoItem \in Item
    BY <1>3 DEF NoItem, Item
  <1>6. NoHash = Absent
    BY DEF NoHash, Absent
  <1> QED BY <1>1, <1>3, <1>4, <1>5, <1>6

\* A call that starts, goes on or returns leaves the others alone.
LEMMA GotoTypes ==
    ASSUME TypeOK, NEW c \in Client, NEW s \in PC, Goto(c, s)
    PROVE  /\ pc' \in [Client -> PC] /\ call' \in [Client -> Call]
           /\ pc'[c] = s /\ call' = call
           /\ \A d \in Client \ {c} : pc'[d] = pc[d]
  BY DEF TypeOK, Goto

\* See GotoTypes.
LEMMA ReturnTypes ==
    ASSUME TypeOK, NEW c \in Client, Return(c)
    PROVE  /\ pc' \in [Client -> PC] /\ call' \in [Client -> Call]
           /\ pc'[c] = "idle" /\ call'[c] = NoCall
           /\ \A d \in Client \ {c} : pc'[d] = pc[d] /\ call'[d] = call[d]
  BY Nothings DEF TypeOK, Return, PC

\* See GotoTypes.
LEMMA StartTypes ==
    ASSUME TypeOK, NEW c \in Client, NEW s \in PC, NEW i \in Ino, NEW q \in Path \cup {NoPath},
           path'[i] \in Path \cup {NoPath}, StartCall(c, s, i, q)
    PROVE  /\ pc' \in [Client -> PC] /\ call' \in [Client -> Call]
           /\ pc'[c] = s
           /\ call'[c].ino = i /\ call'[c].old = path'[i] /\ call'[c].new = q
           /\ call'[c].xet_hash = xet_hash[i] /\ call'[c].is_dirty = IsDirty(i)
           /\ \A d \in Client \ {c} : pc'[d] = pc[d] /\ call'[d] = call[d]
  <1> DEFINE r == [ino |-> i, old |-> path'[i], new |-> q, xet_hash |-> xet_hash[i], is_dirty |-> IsDirty(i)]
  <1>1. IsDirty(i) \in BOOLEAN /\ xet_hash[i] \in Content \cup {NoHash}
    BY DEF IsDirty, TypeOK
  <1>2. r \in Call
    BY <1>1 DEF Call
  <1>3. /\ r.ino = i /\ r.old = path'[i] /\ r.new = q /\ r.xet_hash = xet_hash[i] /\ r.is_dirty = IsDirty(i)
    OBVIOUS
  <1>4. call' = [call EXCEPT ![c] = r] /\ pc' = [pc EXCEPT ![c] = s]
    BY DEF StartCall
  <1> HIDE DEF r
  <1>5. call'[c] = r /\ pc'[c] = s
    BY <1>4 DEF TypeOK
  <1> QED BY <1>2, <1>3, <1>4, <1>5 DEF TypeOK

\* A batch puts contents under names and takes names away.
LEMMA BatchTypes ==
    ASSUME TypeOK, NEW adds, NEW deletes, BatchOperations(adds, deletes),
           \A p \in DOMAIN adds : adds[p] \in Content \cup {Absent}
    PROVE  /\ hub' \in [Path -> Content \cup {Absent}]
           /\ \A p \in Path : p \in deletes => hub'[p] = Absent
           /\ \A p \in Path : p \notin deletes /\ p \in DOMAIN adds => hub'[p] = adds[p]
           /\ \A p \in Path : p \notin deletes /\ p \notin DOMAIN adds => hub'[p] = hub[p]
  BY DEF BatchOperations, TypeOK

\* An answer to a batch of deletes deletes or does not.
LEMMA AnswerTypes ==
    ASSUME TypeOK, NEW f \in Flusher, DeletesAnswered(f)
    PROVE  /\ hub' \in [Path -> Content \cup {Absent}]
           /\ \A p \in Path : hub'[p] \in {hub[p], Absent}
           /\ \A p \in Path : sent[f][p] = 0 => hub'[p] = hub[p]
  <1>1. Elements(sent[f]) = {p \in Path : sent[f][p] > 0}
    BY DEF Elements
  <1>2. \A p \in Path : sent[f][p] \in Nat
    BY DEF TypeOK, QueueTypes, Paths
  <1>3. DOMAIN NoAdds = {}
    BY DEF NoAdds
  <1>4. ASSUME BatchOperations(NoAdds, Elements(sent[f])) PROVE
          /\ hub' \in [Path -> Content \cup {Absent}]
          /\ \A p \in Path : hub'[p] \in {hub[p], Absent}
          /\ \A p \in Path : sent[f][p] = 0 => hub'[p] = hub[p]
    BY <1>1, <1>2, <1>3, <1>4, BatchTypes
  <1>5. ASSUME hub' = hub PROVE
          /\ hub' \in [Path -> Content \cup {Absent}]
          /\ \A p \in Path : hub'[p] \in {hub[p], Absent}
          /\ \A p \in Path : sent[f][p] = 0 => hub'[p] = hub[p]
    BY <1>5 DEF TypeOK
  <1> QED BY <1>4, <1>5 DEF DeletesAnswered, Commits, Refuses, LosesAnswer

\* What unlink_one leaves of the inodes it works on, and of the others.
LEMMA UnlinkTypes ==
    ASSUME TypeOK, NEW S, UnlinkOne(S)
    PROVE  /\ dirty_generation' \in [Ino -> 0..MaxGen]
           /\ xet_hash' \in [Ino -> Content \cup {NoHash}]
           /\ local' \in [Ino -> Content]
           /\ \A i \in Ino : i \in S => dirty_generation'[i] = 0 /\ xet_hash'[i] = NoHash /\ local'[i] = Empty
           /\ \A i \in Ino : i \notin S =>
                /\ dirty_generation'[i] = dirty_generation[i]
                /\ xet_hash'[i] = xet_hash[i] /\ local'[i] = local[i]
  BY Nothings DEF TypeOK, UnlinkOne

\* apply_commit on a set of inodes: those whose generation stands still are clean with
\* the committed hash, the others are as they were.
LEMMA ApplyTypes ==
    ASSUME TypeOK, NEW S, NEW items \in [Ino -> Item], ApplyCommit(S, items)
    PROVE  LET U == {i \in S : path[i] # NoPath /\ dirty_generation[i] = items[i].gen}
           IN  /\ dirty_generation' \in [Ino -> 0..MaxGen]
               /\ xet_hash' \in [Ino -> Content \cup {NoHash}]
               /\ pending_deletes' \in [Ino -> SUBSET Path]
               /\ path' = path /\ used' = used /\ local' = local
               /\ \A i \in Ino : i \in U =>
                    dirty_generation'[i] = 0 /\ xet_hash'[i] = items[i].up /\ pending_deletes'[i] = {}
               /\ \A i \in Ino : i \notin U =>
                    /\ dirty_generation'[i] = dirty_generation[i]
                    /\ xet_hash'[i] = xet_hash[i] /\ pending_deletes'[i] = pending_deletes[i]
  <1> DEFINE U == {i \in S : path[i] # NoPath /\ dirty_generation[i] = items[i].gen}
  <1>1. \A i \in Ino : items[i].up \in Content
    BY DEF Item
  <1>2. /\ dirty_generation' = [i \in Ino |-> IF i \in U THEN 0 ELSE dirty_generation[i]]
        /\ xet_hash' = [i \in Ino |-> IF i \in U THEN items[i].up ELSE xet_hash[i]]
        /\ pending_deletes' = [i \in Ino |-> IF i \in U THEN {} ELSE pending_deletes[i]]
        /\ path' = path /\ used' = used /\ local' = local
    BY DEF ApplyCommit
  <1> HIDE DEF U
  <1>3. /\ dirty_generation' \in [Ino -> 0..MaxGen]
        /\ xet_hash' \in [Ino -> Content \cup {NoHash}]
        /\ pending_deletes' \in [Ino -> SUBSET Path]
    BY <1>1, <1>2, Nothings DEF TypeOK
  <1>4. \A i \in Ino : i \in U =>
            dirty_generation'[i] = 0 /\ xet_hash'[i] = items[i].up /\ pending_deletes'[i] = {}
    BY <1>2
  <1>5. \A i \in Ino : i \notin U =>
            /\ dirty_generation'[i] = dirty_generation[i]
            /\ xet_hash'[i] = xet_hash[i] /\ pending_deletes'[i] = pending_deletes[i]
    BY <1>2
  <1> QED BY <1>2, <1>3, <1>4, <1>5 DEF U

\* The clients and inodes of a case are clients and inodes.
LEMMA CaseTypes ==
    ASSUME ActorInv
    PROVE  case.clients \subseteq Client /\ case.inodes \subseteq Ino /\ case.paths \subseteq Path
  BY HubSyncAssumption DEF ActorInv

\* A snapshot is made of what the inodes are.
LEMMA SnapshotTypes ==
    ASSUME TypeOK, NEW S \in SUBSET Ino,
           item' = [i \in Ino |->
                      IF i \notin S THEN NoItem
                      ELSE [path |-> path[i], deletes |-> pending_deletes[i],
                            gen |-> dirty_generation[i], prev |-> xet_hash[i], up |-> Empty]]
    PROVE  /\ item' \in [Ino -> Item]
           /\ \A i \in S :
                /\ item'[i].path = path[i] /\ item'[i].deletes = pending_deletes[i]
                /\ item'[i].gen = dirty_generation[i] /\ item'[i].prev = xet_hash[i]
  <1> DEFINE r(i) == [path |-> path[i], deletes |-> pending_deletes[i],
                      gen |-> dirty_generation[i], prev |-> xet_hash[i], up |-> Empty]
  <1>1. ASSUME NEW i \in Ino PROVE r(i) \in Item
    <2>1. dirty_generation[i] \in Nat
      BY HubSyncAssumption DEF TypeOK
    <2> QED BY <2>1, Nothings DEF TypeOK, Item
  <1>2. ASSUME NEW i \in Ino
        PROVE  /\ r(i).path = path[i] /\ r(i).deletes = pending_deletes[i]
               /\ r(i).gen = dirty_generation[i] /\ r(i).prev = xet_hash[i]
    OBVIOUS
  <1>3. item' = [i \in Ino |-> IF i \notin S THEN NoItem ELSE r(i)]
    OBVIOUS
  <1> HIDE DEF r
  <1>4. item' \in [Ino -> Item]
    BY <1>1, <1>3, Nothings
  <1>5. \A i \in S : item'[i] = r(i)
    BY <1>3
  <1> QED BY <1>2, <1>4, <1>5

\* What upload_files adds to the snapshot.
Uploaded == [i \in Ino |-> IF i \in batch THEN [item[i] EXCEPT !.up = local[i]] ELSE item[i]]
Unchanged == {i \in batch : item[i].deletes = {} /\ item[i].prev = local[i]}

\* The uploaded item differs from the snapshot in the uploaded content.
LEMMA UploadTypes ==
    ASSUME TypeOK
    PROVE  /\ Uploaded \in [Ino -> Item]
           /\ \A i \in batch :
                /\ Uploaded[i].path = item[i].path /\ Uploaded[i].deletes = item[i].deletes
                /\ Uploaded[i].gen = item[i].gen /\ Uploaded[i].prev = item[i].prev
                /\ Uploaded[i].up = local[i]
  <1> DEFINE r(i) == [item[i] EXCEPT !.up = local[i]]
  <1>1. ASSUME NEW i \in Ino
        PROVE  /\ r(i) \in Item
               /\ r(i).path = item[i].path /\ r(i).deletes = item[i].deletes
               /\ r(i).gen = item[i].gen /\ r(i).prev = item[i].prev /\ r(i).up = local[i]
    <2>1. item[i] \in Item /\ local[i] \in Content
      BY DEF TypeOK
    <2> QED BY <2>1 DEF Item
  <1>2. Uploaded = [i \in Ino |-> IF i \in batch THEN r(i) ELSE item[i]]
    BY DEF Uploaded
  <1>3. batch \subseteq Ino /\ item \in [Ino -> Item]
    BY DEF TypeOK
  <1> HIDE DEF r
  <1>4. Uploaded \in [Ino -> Item]
    BY <1>1, <1>2, <1>3
  <1>5. \A i \in batch : Uploaded[i] = r(i)
    BY <1>2, <1>3
  <1> QED BY <1>1, <1>3, <1>4, <1>5

\* What is uploaded has the name its file had in the snapshot.
LEMMA AddsTypes ==
    ASSUME TypeOK
    PROVE  \A p \in DOMAIN BatchAdds : /\ BatchAdds[p] \in Content
                                       /\ \E i \in batch : item[i].path = p /\ BatchAdds[p] = item[i].up
  <1> SUFFICES ASSUME NEW p \in DOMAIN BatchAdds
               PROVE  /\ BatchAdds[p] \in Content
                      /\ \E i \in batch : item[i].path = p /\ BatchAdds[p] = item[i].up
    OBVIOUS
  <1>1. p \in {item[i].path : i \in batch}
    BY DEF BatchAdds
  <1> DEFINE j == CHOOSE i \in batch : item[i].path = p
  <1>2. j \in batch /\ item[j].path = p
    BY <1>1
  <1>3. BatchAdds[p] = item[j].up
    BY <1>1 DEF BatchAdds
  <1>4. item[j].up \in Content
    BY <1>2 DEF TypeOK, Item
  <1> HIDE DEF j
  <1> QED BY <1>2, <1>3, <1>4

\* The end of a cycle forgets its batch.
LEMMA EndTypes ==
    ASSUME EndBatch
    PROVE  phase' = "recv" /\ batch' = {} /\ item' \in [Ino -> Item]
  BY Nothings DEF EndBatch

\* Every step of a call keeps the types of what is not the queue.
LEMMA CallShapes ==
    ASSUME TypeOK, ActorInv, ReadInv, NEW c \in case.clients, ClientStep(c)
    PROVE  ShapeOK'
  <1>0. c \in Client
    BY CaseTypes
  <1>a. /\ path \in [Ino -> Path \cup {NoPath}] /\ used \subseteq Ino /\ case.inodes \subseteq Ino
        /\ case.paths \subseteq Path /\ NoPath \notin Path
        /\ call[c].ino \in Ino /\ call[c].old \in Path \cup {NoPath} /\ call[c].new \in Path \cup {NoPath}
        /\ call[c].xet_hash \in Content \cup {NoHash}
        /\ pending_deletes \in [Ino -> SUBSET Path]
    BY <1>0, CaseTypes, Nothings DEF TypeOK, Call
  <1>1. ASSUME NEW i \in case.inodes, NEW p \in case.paths, CreateInsert(c, i, p)
        PROVE  ShapeOK'
    <2>1. path' \in [Ino -> Path \cup {NoPath}] /\ used' \subseteq Ino /\ i \in Ino
      BY <1>1, <1>a DEF CreateInsert
    <2>2. path'[i] \in Path \cup {NoPath}
      BY <2>1
    <2>3. dirty_generation' \in [Ino -> 0..MaxGen]
      <3>1. 1 \in 0..MaxGen
        BY HubSyncAssumption
      <3> QED BY <1>1, <3>1 DEF CreateInsert, TypeOK
    <2>4. StartCall(c, "create_cancel", i, NoPath) /\ "create_cancel" \in PC /\ NoPath \in Path \cup {NoPath}
      BY <1>1 DEF CreateInsert, PC
    <2>5. pc' \in [Client -> PC] /\ call' \in [Client -> Call]
      BY <1>0, <2>1, <2>2, <2>4, StartTypes
    <2>6. UNCHANGED <<xet_hash, pending_deletes, local, hub, signals, loopVars>>
      BY <1>1 DEF CreateInsert
    <2> QED BY <2>1, <2>3, <2>5, <2>6 DEF TypeOK, ShapeOK, loopVars
  <1>2. ASSUME NEW i \in case.inodes, NEW p \in case.paths, RenameValidate(c, i, p)
        PROVE  ShapeOK'
    <2>1. UNCHANGED <<inodeVars, hub, signals, loopVars>> /\ i \in Ino /\ p \in Path \cup {NoPath}
      BY <1>2, <1>a DEF RenameValidate
    <2>2. path'[i] \in Path \cup {NoPath}
      BY <2>1, <1>a DEF inodeVars
    <2>3. PICK s \in PC : StartCall(c, s, i, p)
      BY <1>2 DEF RenameValidate, PC
    <2>5. pc' \in [Client -> PC] /\ call' \in [Client -> Call]
      BY <1>0, <2>1, <2>2, <2>3, StartTypes
    <2> QED BY <2>1, <2>5 DEF TypeOK, ShapeOK, loopVars, inodeVars
  <1>3. ASSUME NEW i \in case.inodes, UnlinkDecide(c, i)
        PROVE  ShapeOK'
    <2>1. UNCHANGED <<inodeVars, hub, signals, loopVars>> /\ i \in Ino /\ NoPath \in Path \cup {NoPath}
      BY <1>3, <1>a DEF UnlinkDecide
    <2>2. path'[i] \in Path \cup {NoPath}
      BY <2>1, <1>a DEF inodeVars
    <2>3. PICK s \in PC : StartCall(c, s, i, NoPath)
      BY <1>3 DEF UnlinkDecide, PC
    <2>5. pc' \in [Client -> PC] /\ call' \in [Client -> Call]
      BY <1>0, <2>1, <2>2, <2>3, StartTypes
    <2> QED BY <2>1, <2>5 DEF TypeOK, ShapeOK, loopVars, inodeVars
  <1>4. CASE CreateCancel(c) \/ RenameRemoteFails(c)
    <2>1. UNCHANGED <<inodeVars, hub, signals, loopVars>> /\ Return(c)
      BY <1>4 DEF CreateCancel, RenameRemoteFails, Refuses
    <2>2. pc' \in [Client -> PC] /\ call' \in [Client -> Call]
      BY <1>0, <2>1, ReturnTypes
    <2> QED BY <2>1, <2>2 DEF TypeOK, ShapeOK, loopVars, inodeVars
  <1>5. CASE CreateFails(c) \/ UnlinkLocal(c)
    <2>1. /\ UNCHANGED <<used, hub, signals, loopVars>> /\ Return(c) /\ UnlinkOne({call[c].ino})
          /\ path' = [path EXCEPT ![call[c].ino] = NoPath]
          /\ pending_deletes' = [pending_deletes EXCEPT ![call[c].ino] = {}]
      BY <1>5 DEF CreateFails, UnlinkLocal
    <2>2. pc' \in [Client -> PC] /\ call' \in [Client -> Call]
      BY <1>0, <2>1, ReturnTypes
    <2>3. /\ dirty_generation' \in [Ino -> 0..MaxGen]
          /\ xet_hash' \in [Ino -> Content \cup {NoHash}]
          /\ local' \in [Ino -> Content]
      BY <2>1, UnlinkTypes
    <2>4. path' \in [Ino -> Path \cup {NoPath}] /\ pending_deletes' \in [Ino -> SUBSET Path]
      BY <2>1, <1>a
    <2> QED BY <2>1, <2>2, <2>3, <2>4 DEF TypeOK, ShapeOK, loopVars
  <1>6. CASE UnlinkEnqueue(c) \/ RmdirFlush(c)
    <2>1. /\ UNCHANGED <<inodeVars, hub, loopVars>> /\ signals' \subseteq Ino \cup {Wake}
          /\ Goto(c, "unlink_local") \/ Goto(c, "rmdir_flush")
      BY <1>6 DEF UnlinkEnqueue, RmdirFlush, TypeOK
    <2>2. pc' \in [Client -> PC] /\ call' \in [Client -> Call]
      BY <1>0, <2>1, GotoTypes DEF PC
    <2> QED BY <2>1, <2>2 DEF TypeOK, ShapeOK, loopVars, inodeVars
  <1>7. CASE RenameRemote(c)
    <2>1. /\ UNCHANGED <<inodeVars, signals, loopVars>> /\ Goto(c, "rename_local")
          /\ BatchOperations([p \in {call[c].new} |-> call[c].xet_hash], {call[c].old})
      BY <1>7 DEF RenameRemote, Commits
    <2>2. pc' \in [Client -> PC] /\ call' \in [Client -> Call]
      BY <1>0, <2>1, GotoTypes DEF PC
    <2>3. \A p \in DOMAIN [q \in {call[c].new} |-> call[c].xet_hash] :
            [q \in {call[c].new} |-> call[c].xet_hash][p] \in Content \cup {Absent}
      BY <1>a, Nothings
    <2>4. hub' \in [Path -> Content \cup {Absent}]
      BY <2>1, <2>3, BatchTypes
    <2> QED BY <2>1, <2>2, <2>4 DEF TypeOK, ShapeOK, loopVars, inodeVars
  <1>8. CASE RenameLocal(c)
    <2>1. /\ UNCHANGED <<used, hub, signals, loopVars>> /\ Return(c) /\ UnlinkOne(LookupPath(call[c].new))
      BY <1>8 DEF RenameLocal
    <2>2. pc' \in [Client -> PC] /\ call' \in [Client -> Call]
      BY <1>0, <2>1, ReturnTypes
    <2>3. /\ dirty_generation' \in [Ino -> 0..MaxGen]
          /\ xet_hash' \in [Ino -> Content \cup {NoHash}]
          /\ local' \in [Ino -> Content]
      BY <2>1, UnlinkTypes
    <2>4. path' \in [Ino -> Path \cup {NoPath}]
      BY <1>8, <1>a DEF RenameLocal
    <2>5. pending_deletes' \in [Ino -> SUBSET Path]
      <3> DEFINE n == [j \in Ino |->
                         IF j \in LookupPath(call[c].new) THEN {}
                         ELSE IF j = call[c].ino /\ call[c].is_dirty /\ call[c].xet_hash # NoHash
                         THEN pending_deletes[j] \cup {call[c].old}
                         ELSE pending_deletes[j]]
      <3>1. pending_deletes' = n
        BY <1>8 DEF RenameLocal
      <3>2. call[c].old \in Path
        BY <1>a, <1>8, <1>0 DEF ReadInv, RenameLocal, Calling
      <3> QED BY <1>a, <3>1, <3>2
    <2> QED BY <2>1, <2>2, <2>3, <2>4, <2>5 DEF TypeOK, ShapeOK, loopVars
  <1>9. CASE RmdirFlushed(c)
    <2>1. UNCHANGED <<inodeVars, signals, loopVars>> /\ Return(c) /\ DeletesAnswered(c) /\ c \in Flusher
      BY <1>9, <1>0, Nothings DEF RmdirFlushed
    <2>2. pc' \in [Client -> PC] /\ call' \in [Client -> Call]
      BY <1>0, <2>1, ReturnTypes
    <2>3. hub' \in [Path -> Content \cup {Absent}]
      BY <2>1, AnswerTypes
    <2> QED BY <2>1, <2>2, <2>3 DEF TypeOK, ShapeOK, loopVars, inodeVars
  <1> QED BY <1>1, <1>2, <1>3, <1>4, <1>5, <1>6, <1>7, <1>8, <1>9 DEF ClientStep

\* So does every write and every step of the loop.
LEMMA OtherShapes ==
    ASSUME TypeOK, ActorInv, FileStep \/ LoopStep \/ UNCHANGED vars
    PROVE  ShapeOK'
  <1>1. CASE FileStep
    <2>1. ASSUME NEW i \in case.inodes, NEW v \in Content, Write(i, v) PROVE ShapeOK'
      <3>0. i \in Ino /\ dirty_generation[i] \in 0..MaxGen /\ dirty_generation[i] < MaxGen /\ MaxGen \in Nat
        BY <2>1, CaseTypes, HubSyncAssumption DEF Write, TypeOK
      <3>1. i \in Ino /\ dirty_generation[i] + 1 \in 0..MaxGen
        BY <3>0
      <3>2. dirty_generation' \in [Ino -> 0..MaxGen] /\ local' \in [Ino -> Content]
        BY <3>1, <2>1 DEF Write, TypeOK
      <3> QED BY <2>1, <3>2 DEF Write, TypeOK, ShapeOK, loopVars, clientVars
    <2>2. ASSUME NEW i \in case.inodes, Enqueue(i) PROVE ShapeOK'
      BY <2>2, CaseTypes DEF Enqueue, TypeOK, ShapeOK, loopVars, clientVars, inodeVars
    <2>3. ASSUME NEW i \in case.inodes, Truncate(i) PROVE ShapeOK'
      <3>0. i \in Ino /\ dirty_generation[i] \in 0..MaxGen /\ dirty_generation[i] < MaxGen /\ MaxGen \in Nat
        BY <2>3, CaseTypes, HubSyncAssumption DEF Truncate, TypeOK
      <3>1. i \in Ino /\ dirty_generation[i] + 1 \in 0..MaxGen
        BY <3>0
      <3>2. dirty_generation' \in [Ino -> 0..MaxGen] /\ local' \in [Ino -> Content]
            /\ xet_hash' \in [Ino -> Content \cup {NoHash}] /\ signals' \subseteq Ino \cup {Wake}
        BY <3>1, <2>3, Nothings DEF Truncate, TypeOK
      <3> QED BY <2>3, <3>2 DEF Truncate, TypeOK, ShapeOK, loopVars, clientVars
    <2> QED BY <1>1, <2>1, <2>2, <2>3 DEF FileStep
  <1>2. CASE LoopRecv
    BY <1>2 DEF LoopRecv, TypeOK, ShapeOK, clientVars, inodeVars, Phase
  <1>3. CASE LoopTake
    BY <1>3 DEF LoopTake, AfterDeletes, TypeOK, ShapeOK, clientVars, inodeVars, Phase
  <1>4. CASE LoopDeletesAnswered
    <2>1. hub' \in [Path -> Content \cup {Absent}]
      BY <1>4, Nothings, AnswerTypes DEF LoopDeletesAnswered
    <2> QED BY <1>4, <2>1 DEF LoopDeletesAnswered, AfterDeletes, TypeOK, ShapeOK, clientVars, inodeVars, Phase
  <1>5. CASE LoopSnapshot
    <2> DEFINE S == {i \in todo : path[i] # NoPath /\ IsDirty(i)}
    <2>1. UNCHANGED <<inodeVars, hub, signals, clientVars>> /\ todo' = {} /\ S \in SUBSET Ino
      BY <1>5 DEF LoopSnapshot, TypeOK
    <2>2. CASE S = {}
      <3>1. EndBatch
        BY <1>5, <2>2 DEF LoopSnapshot
      <3> QED BY <2>1, <3>1, EndTypes DEF TypeOK, ShapeOK, clientVars, inodeVars, Phase
    <2>3. CASE S # {}
      <3>1. /\ phase' = "upload" /\ batch' = S
            /\ item' = [i \in Ino |->
                      IF i \notin S THEN NoItem
                      ELSE [path |-> path[i], deletes |-> pending_deletes[i],
                            gen |-> dirty_generation[i], prev |-> xet_hash[i], up |-> Empty]]
        BY <1>5, <2>3 DEF LoopSnapshot
      <3>2. item' \in [Ino -> Item]
        BY <2>1, <3>1, SnapshotTypes
      <3> QED BY <2>1, <3>1, <3>2 DEF TypeOK, ShapeOK, clientVars, inodeVars, Phase
    <2> QED BY <2>2, <2>3
  <1>6. CASE LoopUploaded
    <2>1. /\ ApplyCommit(Unchanged, Uploaded) /\ UNCHANGED <<hub, signals, todo, clientVars>>
          /\ EndBatch \/ (phase' = "commit" /\ batch' = batch \ Unchanged /\ item' = Uploaded)
      BY <1>6 DEF LoopUploaded, Uploaded, Unchanged
    <2>2. /\ dirty_generation' \in [Ino -> 0..MaxGen]
          /\ xet_hash' \in [Ino -> Content \cup {NoHash}]
          /\ pending_deletes' \in [Ino -> SUBSET Path]
          /\ path' = path /\ used' = used /\ local' = local
      BY <2>1, UploadTypes, ApplyTypes
    <2>3. phase' \in Phase /\ batch' \subseteq Ino /\ item' \in [Ino -> Item]
      BY <2>1, UploadTypes, EndTypes DEF TypeOK, Phase
    <2> QED BY <2>1, <2>2, <2>3 DEF TypeOK, ShapeOK, clientVars
  <1>7. CASE LoopUploadFails
    BY <1>7, EndTypes DEF LoopUploadFails, TypeOK, ShapeOK, clientVars, inodeVars, Phase
  <1>8. ASSUME BatchOperations(BatchAdds, BatchDeletes) \/ UNCHANGED hub
        PROVE  hub' \in [Path -> Content \cup {Absent}]
    <2>1. \A p \in DOMAIN BatchAdds : BatchAdds[p] \in Content \cup {Absent}
      BY AddsTypes
    <2> QED BY <1>8, <2>1, BatchTypes DEF TypeOK
  <1>9. CASE LoopCommit
    BY <1>9, <1>8 DEF LoopCommit, Commits, TypeOK, ShapeOK, clientVars, inodeVars, Phase
  <1>10. CASE LoopCommitFails
    BY <1>10, <1>8, EndTypes DEF LoopCommitFails, Refuses, LosesAnswer, TypeOK, ShapeOK, clientVars, inodeVars, Phase
  <1>11. CASE LoopApply
    <2>1. ApplyCommit(batch, item) /\ EndBatch /\ UNCHANGED <<hub, signals, todo, clientVars>>
      BY <1>11 DEF LoopApply
    <2>2. /\ dirty_generation' \in [Ino -> 0..MaxGen]
          /\ xet_hash' \in [Ino -> Content \cup {NoHash}]
          /\ pending_deletes' \in [Ino -> SUBSET Path]
          /\ path' = path /\ used' = used /\ local' = local
      BY <2>1, ApplyTypes DEF TypeOK
    <2> QED BY <2>1, <2>2, EndTypes DEF TypeOK, ShapeOK, clientVars, Phase
  <1>12. CASE UNCHANGED vars
    BY <1>12 DEF vars, TypeOK, ShapeOK, loopVars, clientVars, inodeVars
  <1> QED BY <1>1, <1>2, <1>3, <1>4, <1>5, <1>6, <1>7, <1>9, <1>10, <1>11, <1>12 DEF LoopStep

\* Every variable keeps its type if the queue does.
LEMMA Typing == TypeOK /\ ActorInv /\ ReadInv /\ QueueTypes' /\ [Next]_vars => TypeOK'
  <1> SUFFICES ASSUME TypeOK, ActorInv, ReadInv, QueueTypes', [Next]_vars PROVE TypeOK'
    OBVIOUS
  <1>1. ShapeOK'
    BY CallShapes, OtherShapes DEF Next
  <1> QED BY <1>1 DEF ShapeOK, TypeOK

------------------------------------------------------------------------------
(* What a step leaves alone *)

\* Each part of the invariant depends on some variables only.
LEMMA NameFrame == NameInv /\ UNCHANGED <<path, used, xet_hash, pending_deletes>> => NameInv'
  BY DEF NameInv, Linked

\* See NameFrame.
LEMMA LockFrame == LockInv /\ UNCHANGED <<pc, call>> => LockInv'
  BY DEF LockInv, Calling, Names

\* See NameFrame.
LEMMA ReadFrame == ReadInv /\ UNCHANGED <<pc, call, path, xet_hash, dirty_generation>> => ReadInv'
  BY DEF ReadInv, Calling, Renaming, IsDirty

\* See NameFrame.
LEMMA StepFrame == StepInv /\ UNCHANGED <<pc, call, path, pending_deletes, hub, queued>> => StepInv'
  BY DEF StepInv, Calling, Renaming, Moved

\* See NameFrame.
LEMMA CleanFrame ==
    CleanInv /\ UNCHANGED <<path, dirty_generation, xet_hash, local, pending_deletes>> => CleanInv'
  BY DEF CleanInv, Linked, IsDirty

\* See NameFrame.
LEMMA OldNameFrame == OldNameInv /\ UNCHANGED <<path, pending_deletes>> => OldNameInv'
  BY DEF OldNameInv

\* See NameFrame.
LEMMA QueuedFrame == QueuedInv /\ UNCHANGED <<path, sent, queued, pc, call>> => QueuedInv'
  BY DEF QueuedInv, Linked

\* See NameFrame.
LEMMA HubFrame ==
    HubInv /\ UNCHANGED <<path, xet_hash, pending_deletes, dirty_generation, local, hub, pc, call>> => HubInv'
  BY DEF HubInv, Linked, Overtaken, Moved, Names, IsDirty

\* See NameFrame.
LEMMA OrphanFrame == OrphanInv /\ UNCHANGED <<hub, path, pending_deletes, queued, sent, pc, call>> => OrphanInv'
  BY DEF OrphanInv, Moved

\* While no call works on names, there is nothing to say of one.
LEMMA NoCalls ==
    ASSUME \A c \in Client : ~Calling(c)
    PROVE  ReadInv /\ StepInv /\ \A p : ~Overtaken(p)
  BY DEF ReadInv, StepInv, Calling, Renaming, Moved, Overtaken

\* An idle client works on no name.
LEMMA IdleIsNoCall == \A c \in Client : (Idle(c) \/ pc[c] = "rmdir_flush") => ~Calling(c)
  BY DEF Idle, Calling

\* What is read of a call on names that is under way.
LEMMA CallFacts ==
    ASSUME TypeOK, LockInv, ReadInv, NEW c \in Client, Calling(c)
    PROVE  /\ call[c].ino \in Ino /\ call[c].old \in Path /\ path[call[c].ino] = call[c].old
           /\ call[c].old # NoPath /\ Linked(call[c].ino)
           /\ \A d \in Client \ {c} : Calling(d) =>
                /\ call[d].ino # call[c].ino
                /\ call[d].old \notin Names(c) /\ call[c].old \notin Names(d)
                /\ call[d].new \in Names(c) => call[d].new = NoPath
  <1>1. call[c].ino \in Ino /\ call[c].old \in Path /\ path[call[c].ino] = call[c].old /\ call[c].old # NoPath
    BY Nothings DEF ReadInv, TypeOK, Call
  <1>2. ASSUME NEW d \in Client \ {c}, Calling(d)
        PROVE  /\ call[d].ino # call[c].ino
               /\ call[d].old \notin Names(c) /\ call[c].old \notin Names(d)
               /\ call[d].new \in Names(c) => call[d].new = NoPath
    <2>1. path[call[d].ino] = call[d].old /\ call[d].old # NoPath
      BY <1>2 DEF ReadInv
    <2>2. Names(c) \cap Names(d) \subseteq {NoPath}
      BY <1>2 DEF LockInv
    <2>3. call[c].old \in Names(c) /\ call[d].old \in Names(d) /\ call[d].new \in Names(d)
      BY DEF Names
    <2> QED BY <1>1, <2>1, <2>2, <2>3
  <1> QED BY <1>1, <1>2 DEF Linked

\* Where a name is free, no call is at work.
LEMMA FreeNames ==
    ASSUME LockInv, NEW p, ~Locked(p), NEW d \in Client, p # NoPath
    PROVE  p \notin Names(d)
  <1>1. CASE Idle(d)
    <2>1. call[d] = NoCall
      BY <1>1, IdleIsNoCall DEF LockInv
    <2>2. NoCall.old = NoPath /\ NoCall.new = NoPath
      BY DEF NoCall
    <2> QED BY <2>1, <2>2 DEF Names
  <1>2. CASE ~Idle(d)
    BY <1>2 DEF Locked
  <1> QED BY <1>1, <1>2

------------------------------------------------------------------------------
(* Calls *)

\* Calls and cycles are kept apart.
LEMMA CallsAreQuiet ==
    ASSUME NoDrift, ActorInv, CycleInv, NEW c \in case.clients, ClientStep(c)
    PROVE  phase = "recv" /\ phase' = phase /\ batch = {} /\ batch' = batch
  <1>0. c \in Client /\ "quiet" \in case.events
    BY CaseTypes DEF NoDrift, ActorInv
  <1>1. UNCHANGED loopVars
    BY DEF ClientStep, CreateInsert, RenameValidate, CreateCancel, CreateFails, UnlinkDecide, UnlinkEnqueue,
       UnlinkLocal, RenameRemote, RenameRemoteFails, RenameLocal, RmdirFlush, RmdirFlushed
  <1>2. ASSUME Idle(c) PROVE phase = "recv"
    <2>1. \A s, i, q : StartCall(c, s, i, q) => phase = "recv"
      BY <1>0 DEF StartCall, Happens
    <2>2. RmdirFlush(c) => phase = "recv"
      BY <1>0 DEF RmdirFlush, Happens
    <2> QED BY <1>2, <2>1, <2>2 DEF ClientStep, CreateInsert, RenameValidate, CreateCancel, CreateFails, UnlinkDecide,
            UnlinkEnqueue, UnlinkLocal, RenameRemote, RenameRemoteFails, RenameLocal, RmdirFlushed, Idle
  <1>3. ASSUME ~Idle(c) PROVE phase = "recv"
    BY <1>0, <1>3 DEF ActorInv
  <1>4. phase = "recv"
    BY <1>2, <1>3
  <1> QED BY <1>1, <1>4 DEF loopVars, CycleInv, Cycle

\* Beside a call that works on names no batch of deletes is in flight.
LEMMA NoFlight ==
    ASSUME NoDrift, TypeOK, ActorInv, phase = "recv", NEW c \in case.clients, pc[c] # "rmdir_flush"
    PROVE  \A f \in Flusher : sent[f] = NoPaths /\ \A p \in Path : sent[f][p] = 0
  <1> SUFFICES ASSUME NEW f \in Flusher, sent[f] # NoPaths PROVE FALSE
    BY DEF NoPaths
  <1>1. f # Loop /\ pc[f] = "rmdir_flush" /\ f \in Client
    BY HubSyncAssumption DEF ActorInv
  <1>2. Happens("rmdir") /\ f \in case.clients
    BY <1>1 DEF ActorInv, Idle
  <1>3. f = c
    BY <1>2 DEF NoDrift, Happens, ActorInv
  <1> QED BY <1>1, <1>3

\* The step of a call keeps the actors apart, unless it is a step of rmdir.
LEMMA CallerActs ==
    ASSUME NoDrift, TypeOK, ActorInv, phase = "recv", NEW c \in case.clients, pc[c] # "rmdir_flush",
           UNCHANGED <<case, phase, sent>>, pc'[c] # "rmdir_flush",
           \A d \in Client \ {c} : pc'[d] = pc[d]
    PROVE  ActorInv'
  <1>1. \A f \in Flusher : sent'[f] = NoPaths
    BY NoFlight
  <1> QED BY <1>1 DEF ActorInv, Idle, Happens

\* A cycle that is not under way has no batch.
LEMMA NoCycle == phase \notin Cycle /\ batch = {} => CycleInv
  BY DEF CycleInv

\* A call in which the name of an inode is inserted.
LEMMA CreateInsertKeeps ==
    ASSUME NoDrift, IInv, NEW c \in case.clients, NEW i \in case.inodes, NEW p \in case.paths,
           CreateInsert(c, i, p), UNCHANGED case, phase = "recv", phase' = phase
    PROVE  ActorInv' /\ BooksInv'
  <1>0. c \in Client /\ i \in Ino /\ p \in Path /\ p # NoPath /\ pc[c] = "idle" /\ "old_name" \notin case.events
    BY CaseTypes, Nothings DEF IInv, ActorInv, CreateInsert, Idle, NoDrift
  <1>i. /\ TypeOK /\ ActorInv /\ NameInv /\ LockInv /\ ReadInv /\ StepInv /\ CleanInv
        /\ OldNameInv /\ QueuedInv /\ HubInv /\ OrphanInv
    BY DEF IInv, BooksInv
  <1>1. /\ UNCHANGED <<queueVars, xet_hash, pending_deletes, local, hub, signals, loopVars>>
        /\ UNCHANGED <<queued, sent>>
        /\ path' = [path EXCEPT ![i] = p] /\ dirty_generation' = [dirty_generation EXCEPT ![i] = 1]
        /\ used' = used \cup {i}
        /\ \A j \in Ino : path[j] # p
        /\ ~Locked(p) /\ i \notin used /\ MayTake(p) /\ StartCall(c, "create_cancel", i, NoPath)
    BY DEF CreateInsert, LookupPath, queueVars
  <1>2. path'[i] = p /\ dirty_generation'[i] = 1 /\ \A j \in Ino \ {i} : path'[j] = path[j] /\ dirty_generation'[j] = dirty_generation[j]
    BY <1>0, <1>1, <1>i DEF TypeOK
  <1>3. /\ pc'[c] = "create_cancel" /\ call'[c].ino = i /\ call'[c].old = p /\ call'[c].new = NoPath
        /\ call'[c].xet_hash = xet_hash[i]
        /\ \A d \in Client \ {c} : pc'[d] = pc[d] /\ call'[d] = call[d]
    BY <1>0, <1>1, <1>2, <1>i, StartTypes DEF PC
  <1>4. path[i] = NoPath /\ xet_hash[i] = NoHash /\ pending_deletes[i] = {}
    BY <1>0, <1>1, <1>i DEF NameInv, Linked
  <1>5. \A j \in Ino : p \notin pending_deletes[j]
    BY <1>0, <1>1 DEF MayTake, Happens
  <1>6. \A f \in Flusher, q \in Path : sent[f][q] = 0
    BY <1>0, <1>i, NoFlight
  <1>7. \A d \in Client : p \notin Names(d)
    BY <1>0, <1>1, <1>i, FreeNames
  <1>8. ~Calling(c)
    BY <1>0 DEF Calling
  <1>9. \A d \in Client : Calling(d) => call[d].ino \in Ino \ {i}
    BY <1>0, <1>4, <1>i, CallFacts
  <1>10. ActorInv'
    BY <1>0, <1>1, <1>3, <1>i, CallerActs
  <1>11. NameInv'
    BY <1>0, <1>1, <1>2, <1>4, <1>i DEF NameInv, Linked
  <1>12. LockInv'
    <2>1. Names(c)' = {p, NoPath}
      BY <1>3 DEF Names
    <2>2. \A d \in Client \ {c} : Names(d)' = Names(d)
      BY <1>3 DEF Names
    <2>3. \A d \in Client : ~Calling(d)' => call'[d] = NoCall
      BY <1>3, <1>i DEF LockInv, Calling
    <2>4. \A d, e \in Client : d # e => Names(d)' \cap Names(e)' \subseteq {NoPath}
      BY <2>1, <2>2, <1>7, <1>i DEF LockInv
    <2> QED BY <2>3, <2>4 DEF LockInv
  <1>13. ReadInv'
    BY <1>0, <1>1, <1>2, <1>3, <1>9, <1>i DEF ReadInv, Calling, Renaming, IsDirty
  <1>14. hub[p] # Absent => queued[p] > 0
    BY <1>0, <1>1, <1>5, <1>6, <1>7, <1>i DEF OrphanInv, Names
  <1>15. StepInv'
    BY <1>0, <1>1, <1>2, <1>3, <1>4, <1>9, <1>14, <1>i DEF StepInv, Calling, Renaming, Moved
  <1>16. CleanInv'
    BY <1>0, <1>1, <1>2, <1>4, <1>i DEF CleanInv, Linked, IsDirty
  <1>17. OldNameInv'
    BY <1>0, <1>1, <1>2, <1>5, <1>i DEF OldNameInv
  <1>18. QueuedInv'
    BY <1>0, <1>1, <1>2, <1>3, <1>6, <1>i DEF QueuedInv, Linked
  <1>19. \A d \in Client : Moved(d)' <=> Moved(d)
    BY <1>0, <1>3 DEF Moved
  <1>20. HubInv'
    <2>1. \A q : Overtaken(q)' <=> Overtaken(q)
      BY <1>0, <1>3, <1>19 DEF Overtaken, Names, Moved
    <2> QED BY <1>0, <1>1, <1>2, <1>4, <2>1, <1>i DEF HubInv, Linked, IsDirty
  <1>21. OrphanInv'
    <2> SUFFICES ASSUME NEW q \in Path, hub[q] # Absent, \A j \in Ino : path'[j] # q
                 PROVE  \/ \E j \in Ino : q \in pending_deletes[j]
                        \/ queued[q] > 0
                        \/ \E f \in Flusher : sent[f][q] > 0
                        \/ \E d \in Client : Moved(d)' /\ call'[d].new = q
      BY <1>1 DEF OrphanInv
    <2>1. \A j \in Ino : path[j] # q
      BY <1>0, <1>2, <1>4, Nothings
    <2>2. \A d \in Client : Moved(d) => call'[d] = call[d]
      BY <1>0, <1>3 DEF Moved
    <2> QED BY <2>1, <2>2, <1>19, <1>i DEF OrphanInv
  <1> QED BY <1>10, <1>11, <1>12, <1>13, <1>15, <1>16, <1>17, <1>18, <1>20, <1>21 DEF BooksInv

\* A call that returns is no call, and the others go on.
LEMMA Returned ==
    ASSUME TypeOK, LockInv, NEW c \in Client, Return(c)
    PROVE  /\ pc'[c] = "idle" /\ call'[c] = NoCall
           /\ \A d \in Client \ {c} : pc'[d] = pc[d] /\ call'[d] = call[d]
           /\ LockInv'
           /\ \A d \in Client : Calling(d)' <=> Calling(d) /\ d # c
           /\ \A d \in Client : Renaming(d)' <=> Renaming(d) /\ d # c
           /\ \A d \in Client : Moved(d)' <=> Moved(d) /\ d # c
  <1>1. /\ pc'[c] = "idle" /\ call'[c] = NoCall
        /\ \A d \in Client \ {c} : pc'[d] = pc[d] /\ call'[d] = call[d]
    BY ReturnTypes
  <1>2. /\ \A d \in Client : Calling(d)' <=> Calling(d) /\ d # c
        /\ \A d \in Client : Renaming(d)' <=> Renaming(d) /\ d # c
        /\ \A d \in Client : Moved(d)' <=> Moved(d) /\ d # c
    BY <1>1 DEF Calling, Renaming, Moved
  <1>3. Names(c)' = {NoPath} /\ \A d \in Client \ {c} : Names(d)' = Names(d)
    BY <1>1 DEF Names, NoCall
  <1>4. \A d \in Client : ~Calling(d)' => call'[d] = NoCall
    BY <1>1, <1>2 DEF LockInv
  <1>5. \A d, e \in Client : d # e => Names(d)' \cap Names(e)' \subseteq {NoPath}
    BY <1>3 DEF LockInv
  <1> QED BY <1>1, <1>2, <1>4, <1>5 DEF LockInv

\* create() that cancels a queued delete of its name returns.
LEMMA CreateCancelKeeps ==
    ASSUME NoDrift, IInv, NEW c \in case.clients,
           CreateCancel(c), UNCHANGED case, phase = "recv", phase' = phase
    PROVE  ActorInv' /\ BooksInv'
  <1>0. c \in Client /\ pc[c] = "create_cancel"
    BY CaseTypes DEF IInv, CreateCancel
  <1>i. /\ TypeOK /\ ActorInv /\ NameInv /\ LockInv /\ ReadInv /\ StepInv /\ CleanInv
        /\ OldNameInv /\ QueuedInv /\ HubInv /\ OrphanInv
    BY DEF IInv, BooksInv
  <1>1. UNCHANGED <<path, used, dirty_generation, xet_hash, pending_deletes, local, hub, sent>> /\ Return(c)
    BY DEF CreateCancel, CancelDelete, inodeVars
  <1>2. /\ call[c].old \in Path /\ path[call[c].ino] = call[c].old /\ call[c].ino \in Ino
        /\ \A d \in Client \ {c} : Calling(d) => call[d].old # call[c].old
    BY <1>0, <1>i, CallFacts DEF Calling, Names
  <1>3. queued'[call[c].old] = 0 /\ \A q \in Path : q # call[c].old => queued'[q] = queued[q]
    BY <1>2 DEF CreateCancel, CancelDelete
  <1>4. /\ pc'[c] = "idle" /\ call'[c] = NoCall
        /\ \A d \in Client \ {c} : pc'[d] = pc[d] /\ call'[d] = call[d]
        /\ LockInv'
        /\ \A d \in Client : Calling(d)' <=> Calling(d) /\ d # c
        /\ \A d \in Client : Renaming(d)' <=> Renaming(d) /\ d # c
        /\ \A d \in Client : Moved(d)' <=> Moved(d) /\ d # c
    BY <1>0, <1>1, <1>i, Returned
  <1>5. ~Moved(c)
    BY <1>0 DEF Moved
  <1>6. \A d \in Client : Calling(d) => call[d].old \in Path
    BY <1>i, CallFacts
  <1>10. ActorInv'
    BY <1>0, <1>1, <1>4, <1>i, CallerActs
  <1>11. NameInv' /\ CleanInv' /\ OldNameInv'
    BY <1>1, <1>i, NameFrame, CleanFrame, OldNameFrame
  <1>12. ReadInv'
    BY <1>1, <1>4, <1>i DEF ReadInv, IsDirty
  <1>13. StepInv'
    <2>1. \A d \in Client : pc'[d] \in {"create_cancel", "unlink_local"} => Calling(d) /\ d # c /\ pc'[d] = pc[d]
      BY <1>4 DEF Calling
    <2>2. \A d \in Client : pc'[d] \in {"create_cancel", "unlink_local"} => queued'[call'[d].old] = queued[call[d].old]
      BY <2>1, <1>2, <1>3, <1>4, <1>6
    <2> QED BY <1>1, <1>4, <2>1, <2>2, <1>i DEF StepInv
  <1>14. QueuedInv'
    <2> SUFFICES ASSUME NEW i \in Ino, path[i] # NoPath
                 PROVE  queued'[path[i]] = 0 \/ \E d \in Client : pc'[d] \in {"create_cancel", "unlink_local"} /\ call'[d].old = path[i]
      BY <1>1, <1>i DEF QueuedInv, Linked
    <2>1. path[i] \in Path
      BY <1>i DEF TypeOK
    <2>2. CASE path[i] = call[c].old
      BY <2>2, <1>3
    <2>3. CASE path[i] # call[c].old
      BY <2>1, <2>3, <1>3, <1>4, <1>i DEF QueuedInv, Linked
    <2> QED BY <2>2, <2>3
  <1>15. HubInv'
    BY <1>1, <1>4, <1>5, <1>i DEF HubInv, Linked, IsDirty, Overtaken, Names
  <1>16. OrphanInv'
    BY <1>1, <1>2, <1>3, <1>4, <1>5, <1>i DEF OrphanInv
  <1> QED BY <1>4, <1>10, <1>11, <1>12, <1>13, <1>14, <1>15, <1>16 DEF BooksInv

\* A call that takes the name away from its inode and returns.
LEMMA NameRemoved ==
    ASSUME NoDrift, IInv, NEW c \in case.clients, pc[c] \in {"create_cancel", "unlink_local"},
           UnlinkOne({call[c].ino}), path' = [path EXCEPT ![call[c].ino] = NoPath],
           pending_deletes' = [pending_deletes EXCEPT ![call[c].ino] = {}],
           UNCHANGED <<queued, sent, used, hub, case>>, Return(c), phase = "recv", phase' = phase
    PROVE  ActorInv' /\ BooksInv'
  <1> DEFINE i == call[c].ino
  <1>0. c \in Client /\ Calling(c) /\ ~Moved(c) /\ pc[c] # "rmdir_flush" /\ ~Renaming(c)
    BY CaseTypes DEF IInv, Calling, Moved, Renaming
  <1>i. /\ TypeOK /\ ActorInv /\ NameInv /\ LockInv /\ ReadInv /\ StepInv /\ CleanInv
        /\ OldNameInv /\ QueuedInv /\ HubInv /\ OrphanInv
    BY DEF IInv, BooksInv
  <1>1. /\ i \in Ino /\ call[c].old \in Path /\ path[i] = call[c].old /\ call[c].old # NoPath
        /\ \A d \in Client \ {c} : Calling(d) => call[d].ino # i
    BY <1>0, <1>i, CallFacts
  <1>2. /\ path'[i] = NoPath /\ pending_deletes'[i] = {}
        /\ dirty_generation'[i] = 0 /\ xet_hash'[i] = NoHash /\ local'[i] = Empty
        /\ \A j \in Ino \ {i} :
             /\ path'[j] = path[j] /\ pending_deletes'[j] = pending_deletes[j]
             /\ dirty_generation'[j] = dirty_generation[j] /\ xet_hash'[j] = xet_hash[j] /\ local'[j] = local[j]
    BY <1>1, <1>i, UnlinkTypes DEF TypeOK
  <1>3. pending_deletes[i] = {} /\ (hub[call[c].old] # Absent => queued[call[c].old] > 0)
    BY <1>0, <1>i DEF StepInv
  <1>4. /\ pc'[c] = "idle" /\ call'[c] = NoCall
        /\ \A d \in Client \ {c} : pc'[d] = pc[d] /\ call'[d] = call[d]
        /\ LockInv'
        /\ \A d \in Client : Calling(d)' <=> Calling(d) /\ d # c
        /\ \A d \in Client : Renaming(d)' <=> Renaming(d) /\ d # c
        /\ \A d \in Client : Moved(d)' <=> Moved(d) /\ d # c
    BY <1>0, <1>i, Returned
  <1>5. \A d \in Client : Calling(d) => call[d].ino \in Ino /\ call[d].old # NoPath
    BY <1>i, CallFacts
  <1>6. \A d \in Client : Renaming(d) => Calling(d) /\ call[d].new # NoPath
    BY <1>i DEF ReadInv, Renaming, Calling
  <1> HIDE DEF i
  <1>10. ActorInv'
    BY <1>0, <1>4, <1>i, CallerActs
  <1>11. NameInv'
    BY <1>1, <1>2, <1>i DEF NameInv, Linked
  <1>12. ReadInv'
    BY <1>1, <1>2, <1>4, <1>5, <1>i DEF ReadInv, IsDirty
  <1>13. StepInv'
    <2> SUFFICES ASSUME NEW d \in Client, d # c
                 PROVE  /\ pc[d] = "rename_remote" => ~call[d].is_dirty
                        /\ Calling(d) /\ ~Renaming(d) => pending_deletes'[call[d].ino] = {}
                        /\ pc[d] \in {"create_cancel", "unlink_local"} =>
                              (hub[call[d].old] # Absent => queued[call[d].old] > 0)
                        /\ Renaming(d) =>
                              /\ \A j \in Ino : path'[j] = call[d].new => pending_deletes'[j] = {}
                              /\ \A j \in Ino : call[d].new \notin pending_deletes'[j]
                              /\ ~call[d].is_dirty => call[d].xet_hash # NoHash
                              /\ call[d].is_dirty /\ call[d].xet_hash = NoHash => hub[call[d].old] = Absent
                        /\ Moved(d) => hub[call[d].new] = call[d].xet_hash /\ hub[call[d].old] = Absent
      <3>1. pc'[c] = "idle" /\ ~Calling(c)' /\ ~Renaming(c)' /\ ~Moved(c)'
        BY <1>0, <1>4
      <3> QED BY <3>1, <1>4 DEF StepInv
    <2>1. Calling(d) => call[d].ino \in Ino \ {i}
      BY <1>1, <1>5
    <2> QED BY <2>1, <1>1, <1>2, <1>3, <1>6, <1>i DEF StepInv
  <1>14. CleanInv'
    BY <1>1, <1>2, <1>i DEF CleanInv, Linked, IsDirty
  <1>15. OldNameInv'
    <2>1. \A j \in Ino : NoPath \notin pending_deletes[j]
      BY <1>i, Nothings DEF TypeOK
    <2> QED BY <2>1, <1>1, <1>2, <1>i DEF OldNameInv
  <1>16. QueuedInv'
    <2>1. \A j \in Ino \ {i} : path[j] # NoPath => path[j] # call[c].old
      BY <1>1, <1>i DEF NameInv, Linked
    <2> QED BY <2>1, <1>1, <1>2, <1>4, <1>i DEF QueuedInv, Linked
  <1>17. HubInv'
    <2>1. \A q : Overtaken(q)' <=> Overtaken(q)
      BY <1>0, <1>4 DEF Overtaken, Names
    <2> QED BY <2>1, <1>1, <1>2, <1>i DEF HubInv, Linked, IsDirty
  <1>18. OrphanInv'
    BY <1>0, <1>1, <1>2, <1>3, <1>4, <1>i DEF OrphanInv
  <1> QED BY <1>4, <1>10, <1>11, <1>12, <1>13, <1>14, <1>15, <1>16, <1>17, <1>18 DEF BooksInv

\* create() that fails, and the local part of unlink().
LEMMA RemovalsKeep ==
    ASSUME NoDrift, IInv, NEW c \in case.clients,
           CreateFails(c) \/ UnlinkLocal(c), UNCHANGED case, phase = "recv", phase' = phase
    PROVE  ActorInv' /\ BooksInv'
  <1>1. CASE UnlinkLocal(c)
    BY <1>1, NameRemoved DEF UnlinkLocal, queueVars
  <1>2. CASE CreateFails(c)
    <2>0. c \in Client /\ Calling(c) /\ TypeOK /\ LockInv /\ ReadInv
      BY <1>2, CaseTypes DEF IInv, BooksInv, CreateFails, Calling
    <2>1. call[c].old \in Path
      BY <2>0, CallFacts
    <2>2. queued[call[c].old] = 0
      <3>1. ~(queued[call[c].old] > 0)
        BY <1>2 DEF CreateFails, MayFail, NoDrift, Happens, IInv, ActorInv
      <3>2. queued[call[c].old] \in Nat
        BY <2>0, <2>1 DEF TypeOK, QueueTypes, Paths
      <3> QED BY <3>1, <3>2
    <2>3. queued' = queued /\ sent' = sent
      <3>1. queued \in [Path -> Nat] /\ queued' = [p \in Path |-> IF p \in {call[c].old} THEN 0 ELSE queued[p]] /\ sent' = sent
        BY <1>2, <2>0 DEF CreateFails, CancelDelete, TypeOK, QueueTypes, Paths
      <3> QED BY <3>1, <2>2
    <2> QED BY <1>2, <2>3, NameRemoved DEF CreateFails
  <1> QED BY <1>1, <1>2

\* A call on names that only reads begins.
LEMMA CallStarts ==
    ASSUME NoDrift, IInv, NEW c \in case.clients, NEW i \in Ino, NEW q \in Path \cup {NoPath},
           NEW s \in {"unlink_enqueue", "unlink_local", "rename_remote", "rename_local"},
           StartCall(c, s, i, q), Idle(c), path[i] \notin {NoPath, q}, ~Locked(path[i]),
           s \in {"unlink_enqueue", "unlink_local"} => q = NoPath /\ pending_deletes[i] = {},
           s \in {"rename_remote", "rename_local"} =>
               /\ q \in Path /\ ~Locked(q)
               /\ \A j \in Ino : path[j] = q => pending_deletes[j] = {}
               /\ \A j \in Ino : q \notin pending_deletes[j],
           s = "rename_remote" => ~IsDirty(i) /\ xet_hash[i] # NoHash,
           s = "rename_local" => IsDirty(i),
           s = "unlink_local" => xet_hash[i] = NoHash,
           xet_hash[i] = NoHash => hub[path[i]] = Absent,
           UNCHANGED <<queueVars, inodeVars, hub, case>>, phase = "recv", phase' = phase
    PROVE  ActorInv' /\ BooksInv'
  <1>0. c \in Client /\ pc[c] = "idle" /\ ~Calling(c) /\ ~Moved(c) /\ NoPath \notin Path
    BY CaseTypes, Nothings DEF IInv, Idle, Calling, Moved
  <1>i. /\ TypeOK /\ ActorInv /\ NameInv /\ LockInv /\ ReadInv /\ StepInv /\ CleanInv
        /\ OldNameInv /\ QueuedInv /\ HubInv /\ OrphanInv
    BY DEF IInv, BooksInv
  <1>1. UNCHANGED <<path, used, dirty_generation, xet_hash, pending_deletes, local, hub, sent, queued, case>>
    BY DEF queueVars, inodeVars
  <1>2. path[i] \in Path /\ path'[i] = path[i] /\ s \in PC
    BY <1>1, <1>i DEF TypeOK, PC
  <1>3. /\ pc'[c] = s /\ call'[c].ino = i /\ call'[c].old = path[i] /\ call'[c].new = q
        /\ call'[c].xet_hash = xet_hash[i] /\ call'[c].is_dirty = IsDirty(i)
        /\ \A d \in Client \ {c} : pc'[d] = pc[d] /\ call'[d] = call[d]
    BY <1>0, <1>2, <1>i, StartTypes
  <1>4. \A d \in Client : path[i] \notin Names(d) /\ (q # NoPath => q \notin Names(d))
    BY <1>0, <1>2, <1>i, FreeNames
  <1>5. \A d \in Client : Moved(d)' <=> Moved(d)
    BY <1>0, <1>3 DEF Moved
  <1>6. \A d \in Client \ {c} : (Calling(d)' <=> Calling(d)) /\ (Renaming(d)' <=> Renaming(d))
    BY <1>3 DEF Calling, Renaming
  <1>7. Calling(c)' /\ (Renaming(c)' <=> s \in {"rename_remote", "rename_local"})
    BY <1>3 DEF Calling, Renaming
  <1>10. ActorInv'
    BY <1>0, <1>1, <1>3, <1>i, CallerActs
  <1>11. NameInv' /\ CleanInv' /\ OldNameInv'
    BY <1>1, <1>i, NameFrame, CleanFrame, OldNameFrame
  <1>12. LockInv'
    <2>1. Names(c)' = {path[i], q} /\ \A d \in Client \ {c} : Names(d)' = Names(d)
      BY <1>3 DEF Names
    <2>2. \A d \in Client : ~Calling(d)' => call'[d] = NoCall
      BY <1>3, <1>6, <1>7, <1>i DEF LockInv
    <2>3. \A d, e \in Client : d # e => Names(d)' \cap Names(e)' \subseteq {NoPath}
      BY <2>1, <1>4, <1>i DEF LockInv
    <2> QED BY <2>2, <2>3 DEF LockInv
  <1>13. ReadInv'
    <2>1. IsDirty(i)' <=> IsDirty(i)
      BY <1>1 DEF IsDirty
    <2>2. s \in {"unlink_enqueue", "unlink_local"} \/ s \in {"rename_remote", "rename_local"}
      OBVIOUS
    <2>3. /\ call'[c].old # NoPath /\ path[call'[c].ino] = call'[c].old
          /\ xet_hash[call'[c].ino] \in {call'[c].xet_hash, NoHash}
          /\ call'[c].is_dirty => IsDirty(call'[c].ino)
          /\ ~Renaming(c)' => call'[c].new = NoPath
          /\ Renaming(c)' => call'[c].new \notin {NoPath, call'[c].old}
      BY <1>0, <1>2, <1>3, <1>7, <2>2
    <2>4. \A j : IsDirty(j)' <=> IsDirty(j)
      BY <1>1 DEF IsDirty
    <2> QED BY <1>1, <1>3, <1>6, <2>3, <2>4, <1>i DEF ReadInv
  <1>14. StepInv'
    <2>1. /\ pc'[c] = "rename_remote" => ~call'[c].is_dirty
          /\ Calling(c)' /\ ~Renaming(c)' => pending_deletes[call'[c].ino] = {}
          /\ pc'[c] \in {"create_cancel", "unlink_local"} =>
                (hub[call'[c].old] # Absent => queued[call'[c].old] > 0)
          /\ Renaming(c)' =>
                /\ \A j \in Ino : path[j] = call'[c].new => pending_deletes[j] = {}
                /\ \A j \in Ino : call'[c].new \notin pending_deletes[j]
                /\ ~call'[c].is_dirty => call'[c].xet_hash # NoHash
                /\ call'[c].is_dirty /\ call'[c].xet_hash = NoHash => hub[call'[c].old] = Absent
          /\ ~Moved(c)'
      BY <1>0, <1>3, <1>5, <1>7
    <2> QED BY <2>1, <1>1, <1>3, <1>5, <1>6, <1>i DEF StepInv
  <1>15. QueuedInv'
    BY <1>0, <1>1, <1>3, <1>i DEF QueuedInv, Linked
  <1>16. HubInv'
    <2>1. \A p : Overtaken(p)' <=> Overtaken(p)
      BY <1>0, <1>3, <1>5 DEF Overtaken, Names
    <2> QED BY <2>1, <1>1, <1>i DEF HubInv, Linked, IsDirty
  <1>17. OrphanInv'
    BY <1>0, <1>1, <1>3, <1>5, <1>i DEF OrphanInv
  <1> QED BY <1>10, <1>11, <1>12, <1>13, <1>14, <1>15, <1>16, <1>17 DEF BooksInv

\* unlink() and rename() begin.
LEMMA UnlinkDecideKeeps ==
    ASSUME NoDrift, IInv, NEW c \in case.clients, NEW i \in case.inodes,
           UnlinkDecide(c, i), UNCHANGED case, phase = "recv", phase' = phase
    PROVE  ActorInv' /\ BooksInv'
  <1>1. i \in Ino /\ case \in Case /\ "drop_old_names" \notin case.events /\ "shadow" \notin case.events
    BY CaseTypes DEF IInv, ActorInv, NoDrift
  <1>2. pending_deletes[i] = {} /\ (xet_hash[i] = NoHash => hub[path[i]] = Absent)
    BY <1>1 DEF UnlinkDecide, MayUnname, MayDrop, Shadow, Happens
  <1>3. /\ Idle(c) /\ path[i] \notin {NoPath, NoPath} /\ ~Locked(path[i])
        /\ UNCHANGED <<queueVars, inodeVars, hub>>
    BY DEF UnlinkDecide
  <1>4. CASE xet_hash[i] # NoHash
    <2>1. StartCall(c, "unlink_enqueue", i, NoPath)
      BY <1>4 DEF UnlinkDecide
    <2> QED BY <1>1, <1>2, <1>3, <1>4, <2>1, CallStarts
  <1>5. CASE xet_hash[i] = NoHash
    <2>1. StartCall(c, "unlink_local", i, NoPath)
      BY <1>5 DEF UnlinkDecide
    <2> QED BY <1>1, <1>2, <1>3, <1>5, <2>1, CallStarts
  <1> QED BY <1>4, <1>5

\* See UnlinkDecideKeeps.
LEMMA RenameValidateKeeps ==
    ASSUME NoDrift, IInv, NEW c \in case.clients, NEW i \in case.inodes, NEW q \in case.paths,
           RenameValidate(c, i, q), UNCHANGED case, phase = "recv", phase' = phase
    PROVE  ActorInv' /\ BooksInv'
  <1>1. /\ i \in Ino /\ q \in Path /\ case \in Case /\ "drop_old_names" \notin case.events
        /\ "shadow" \notin case.events /\ "old_name" \notin case.events
    BY CaseTypes DEF IInv, ActorInv, NoDrift
  <1>2. /\ xet_hash[i] = NoHash => hub[path[i]] = Absent
        /\ \A j \in Ino : path[j] = q => pending_deletes[j] = {}
        /\ \A j \in Ino : q \notin pending_deletes[j]
    BY <1>1 DEF RenameValidate, MayUnname, MayDrop, MayTake, Shadow, Happens, LookupPath
  <1>3. /\ Idle(c) /\ path[i] \notin {NoPath, q} /\ ~Locked(path[i]) /\ ~Locked(q)
        /\ UNCHANGED <<queueVars, inodeVars, hub>>
    BY DEF RenameValidate
  <1>4. ~IsDirty(i) => xet_hash[i] # NoHash
    BY <1>1, <1>3, Nothings DEF IInv, BooksInv, CleanInv, TypeOK, Linked
  <1>5. CASE ~IsDirty(i)
    <2>1. StartCall(c, "rename_remote", i, q)
      BY <1>4, <1>5 DEF RenameValidate
    <2> QED BY <1>1, <1>2, <1>3, <1>4, <1>5, <2>1, CallStarts
  <1>6. CASE IsDirty(i)
    <2>1. StartCall(c, "rename_local", i, q)
      BY <1>6 DEF RenameValidate
    <2> QED BY <1>1, <1>2, <1>3, <1>6, <2>1, CallStarts
  <1> QED BY <1>5, <1>6

\* unlink() queues the name of a file that is still there.
LEMMA UnlinkEnqueueKeeps ==
    ASSUME NoDrift, IInv, NEW c \in case.clients,
           UnlinkEnqueue(c), UNCHANGED case, phase = "recv", phase' = phase
    PROVE  ActorInv' /\ BooksInv'
  <1>0. c \in Client /\ pc[c] = "unlink_enqueue" /\ Calling(c) /\ ~Renaming(c) /\ ~Moved(c)
    BY CaseTypes DEF IInv, UnlinkEnqueue, Calling, Renaming, Moved
  <1>i. /\ TypeOK /\ ActorInv /\ NameInv /\ LockInv /\ ReadInv /\ StepInv /\ CleanInv
        /\ OldNameInv /\ QueuedInv /\ HubInv /\ OrphanInv
    BY DEF IInv, BooksInv
  <1>1. /\ UNCHANGED <<path, used, dirty_generation, xet_hash, pending_deletes, local, hub, sent, case>>
        /\ Goto(c, "unlink_local")
    BY DEF UnlinkEnqueue, PushDelete, inodeVars
  <1>2. call[c].old \in Path /\ queued \in [Path -> Nat]
    BY <1>0, <1>i, CallFacts DEF TypeOK, QueueTypes, Paths
  <1>3. queued'[call[c].old] = queued[call[c].old] + 1 /\ \A q \in Path : q # call[c].old => queued'[q] = queued[q]
    BY <1>2 DEF UnlinkEnqueue, PushDelete
  <1>4. \A q \in Path : queued[q] > 0 => queued'[q] > 0
    BY <1>2, <1>3
  <1>5. /\ pc'[c] = "unlink_local" /\ call' = call /\ \A d \in Client \ {c} : pc'[d] = pc[d]
    BY <1>0, <1>1, <1>i, GotoTypes DEF PC
  <1>6. /\ \A d \in Client : Calling(d)' <=> Calling(d)
        /\ \A d \in Client : Renaming(d)' <=> Renaming(d)
        /\ \A d \in Client : Moved(d)' <=> Moved(d)
    BY <1>0, <1>5 DEF Calling, Renaming, Moved
  <1>7. \A d \in Client : Calling(d) => call[d].old \in Path
    BY <1>i, CallFacts
  <1>10. ActorInv'
    BY <1>0, <1>1, <1>5, <1>i, CallerActs
  <1>11. NameInv' /\ CleanInv' /\ OldNameInv'
    BY <1>1, <1>i, NameFrame, CleanFrame, OldNameFrame
  <1>12. LockInv'
    BY <1>5, <1>6, <1>i DEF LockInv, Names
  <1>13. ReadInv'
    BY <1>1, <1>5, <1>6, <1>i DEF ReadInv, IsDirty
  <1>14. StepInv'
    <2>1. \A d \in Client : pc'[d] \in {"create_cancel", "unlink_local"} =>
            (hub[call[d].old] # Absent => queued'[call[d].old] > 0)
      <3> SUFFICES ASSUME NEW d \in Client, pc'[d] \in {"create_cancel", "unlink_local"}, hub[call[d].old] # Absent
                   PROVE  queued'[call[d].old] > 0
        OBVIOUS
      <3>1. CASE d = c
        <4>1. queued[call[c].old] \in Nat
          BY <1>2
        <4> QED BY <3>1, <4>1, <1>3
      <3>2. CASE d # c
        <4>1. pc[d] = pc'[d] /\ Calling(d)
          BY <3>2, <1>5 DEF Calling
        <4> QED BY <4>1, <1>4, <1>7, <1>i DEF StepInv
      <3> QED BY <3>1, <3>2
    <2>2. \A d \in Client : pc'[d] = "rename_remote" => pc[d] = "rename_remote"
      BY <1>5
    <2> QED BY <2>1, <2>2, <1>1, <1>5, <1>6, <1>i DEF StepInv
  <1>15. QueuedInv'
    <2> SUFFICES ASSUME NEW j \in Ino, path[j] # NoPath
                 PROVE  queued'[path[j]] = 0 \/ \E d \in Client : pc'[d] \in {"create_cancel", "unlink_local"} /\ call[d].old = path[j]
      BY <1>1, <1>5, <1>i DEF QueuedInv, Linked
    <2>1. CASE path[j] = call[c].old
      BY <2>1, <1>0, <1>5
    <2>2. CASE path[j] # call[c].old
      <3>1. path[j] \in Path
        BY <1>i DEF TypeOK
      <3> QED BY <2>2, <3>1, <1>0, <1>3, <1>5, <1>i DEF QueuedInv, Linked
    <2> QED BY <2>1, <2>2
  <1>16. HubInv'
    BY <1>1, <1>5, <1>6, <1>i DEF HubInv, Linked, IsDirty, Overtaken, Names
  <1>17. OrphanInv'
    BY <1>1, <1>4, <1>5, <1>6, <1>i DEF OrphanInv
  <1> QED BY <1>10, <1>11, <1>12, <1>13, <1>14, <1>15, <1>16, <1>17 DEF BooksInv

\* rename() tells the Hub of a clean file.
LEMMA RenameRemoteKeeps ==
    ASSUME NoDrift, IInv, NEW c \in case.clients,
           RenameRemote(c), UNCHANGED case, phase = "recv", phase' = phase
    PROVE  ActorInv' /\ BooksInv'
  <1>0. c \in Client /\ pc[c] = "rename_remote" /\ Calling(c) /\ Renaming(c) /\ ~Moved(c)
    BY CaseTypes DEF IInv, RenameRemote, Calling, Renaming, Moved
  <1>i. /\ TypeOK /\ ActorInv /\ NameInv /\ LockInv /\ ReadInv /\ StepInv /\ CleanInv
        /\ OldNameInv /\ QueuedInv /\ HubInv /\ OrphanInv
    BY DEF IInv, BooksInv
  <1>1. /\ UNCHANGED <<path, used, dirty_generation, xet_hash, pending_deletes, local, sent, queued, case>>
        /\ Goto(c, "rename_local")
        /\ BatchOperations([p \in {call[c].new} |-> call[c].xet_hash], {call[c].old})
    BY DEF RenameRemote, Commits, inodeVars, queueVars
  <1>2. /\ call[c].old \in Path /\ call[c].new \in Path /\ call[c].new # call[c].old
        /\ call[c].xet_hash \in Content \cup {Absent} /\ ~call[c].is_dirty
        /\ \A d \in Client \ {c} : Calling(d) => call[d].old \notin Names(c) /\ (call[d].new \in Names(c) => call[d].new = NoPath)
    <2>1. call[c].old \in Path
      BY <1>0, <1>i, CallFacts
    <2>2. call[c].new # NoPath /\ call[c].new # call[c].old /\ ~call[c].is_dirty
      BY <1>0, <1>i DEF ReadInv, StepInv
    <2>3. call[c].new \in Path /\ call[c].xet_hash \in Content \cup {Absent}
      BY <2>2, <1>0, <1>i, Nothings DEF TypeOK, Call
    <2>4. \A d \in Client \ {c} : Calling(d) => call[d].old \notin Names(c) /\ (call[d].new \in Names(c) => call[d].new = NoPath)
      BY <1>0, <1>i, CallFacts
    <2> QED BY <2>1, <2>2, <2>3, <2>4
  <1>3. /\ hub'[call[c].new] = call[c].xet_hash /\ hub'[call[c].old] = Absent
        /\ \A p \in Path : p \notin Names(c) => hub'[p] = hub[p]
    <2> DEFINE A == [p \in {call[c].new} |-> call[c].xet_hash]
    <2>1. DOMAIN A = {call[c].new} /\ A[call[c].new] = call[c].xet_hash
      OBVIOUS
    <2>2. \A p \in DOMAIN A : A[p] \in Content \cup {Absent}
      BY <1>2
    <2>3. BatchOperations(A, {call[c].old})
      BY <1>1
    <2> HIDE DEF A
    <2>4. /\ \A p \in Path : p \in {call[c].old} => hub'[p] = Absent
          /\ \A p \in Path : p \notin {call[c].old} /\ p \in DOMAIN A => hub'[p] = A[p]
          /\ \A p \in Path : p \notin {call[c].old} /\ p \notin DOMAIN A => hub'[p] = hub[p]
      BY <2>2, <2>3, <1>i, BatchTypes
    <2> QED BY <2>1, <2>4, <1>2 DEF Names
  <1>4. pc'[c] = "rename_local" /\ call' = call /\ \A d \in Client \ {c} : pc'[d] = pc[d]
    BY <1>0, <1>1, <1>i, GotoTypes DEF PC
  <1>5. /\ \A d \in Client : Calling(d)' <=> Calling(d)
        /\ \A d \in Client : Renaming(d)' <=> Renaming(d)
        /\ \A d \in Client : Moved(d)' <=> Moved(d) \/ d = c
        /\ \A d \in Client : Names(d)' = Names(d)
    BY <1>0, <1>2, <1>4 DEF Calling, Renaming, Moved, Names
  <1>10. ActorInv'
    BY <1>0, <1>1, <1>4, <1>i, CallerActs
  <1>11. NameInv' /\ CleanInv' /\ OldNameInv'
    BY <1>1, <1>i, NameFrame, CleanFrame, OldNameFrame
  <1>12. LockInv'
    BY <1>4, <1>5, <1>i DEF LockInv
  <1>13. ReadInv'
    BY <1>1, <1>4, <1>5, <1>i DEF ReadInv, IsDirty
  <1>14. StepInv'
    <2>1. \A d \in Client \ {c} : Calling(d) => hub'[call[d].old] = hub[call[d].old]
      <3>1. \A d \in Client : Calling(d) => call[d].old \in Path
        BY <1>i, CallFacts
      <3> QED BY <3>1, <1>2, <1>3
    <2>2. \A d \in Client \ {c} : Moved(d) => hub'[call[d].new] = hub[call[d].new]
      <3>1. \A d \in Client : Moved(d) => Calling(d) /\ call[d].new # NoPath
        BY <1>i DEF ReadInv, Moved, Calling, Renaming
      <3>2. \A d \in Client : call[d].new \in Path \cup {NoPath}
        BY <1>i DEF TypeOK, Call
      <3> QED BY <3>1, <3>2, <1>2, <1>3
    <2>3. \A d \in Client : /\ pc'[d] \in {"create_cancel", "unlink_local"} => d # c /\ pc'[d] = pc[d] /\ Calling(d)
                            /\ pc'[d] = "rename_remote" => pc[d] = "rename_remote"
                            /\ Renaming(d) => Calling(d)
                            /\ Moved(d) => Calling(d)
      BY <1>4 DEF Calling, Renaming, Moved
    <2> QED BY <2>1, <2>2, <2>3, <1>0, <1>1, <1>2, <1>3, <1>4, <1>5, <1>i DEF StepInv
  <1>15. QueuedInv'
    BY <1>0, <1>1, <1>4, <1>i DEF QueuedInv, Linked
  <1>16. HubInv'
    <2> SUFFICES ASSUME NEW j \in Ino, Linked(j), xet_hash[j] # NoHash, pending_deletes[j] = {}, ~Overtaken(path[j])'
                 PROVE  hub'[path[j]] = xet_hash[j] \/ (IsDirty(j) /\ local[j] > xet_hash[j])
      BY <1>1 DEF HubInv, Linked, Overtaken, IsDirty
    <2>1. path[j] \notin Names(c) /\ ~Overtaken(path[j])
      BY <1>0, <1>1, <1>5 DEF Overtaken
    <2>2. path[j] \in Path
      BY <1>i DEF TypeOK, Linked
    <2> QED BY <2>1, <2>2, <1>3, <1>i DEF HubInv
  <1>17. OrphanInv'
    BY <1>0, <1>1, <1>2, <1>3, <1>4, <1>5, <1>i DEF OrphanInv, Names
  <1> QED BY <1>10, <1>11, <1>12, <1>13, <1>14, <1>15, <1>16, <1>17 DEF BooksInv

\* A rename that the Hub refuses changes nothing.
LEMMA RenameRemoteFailsKeeps ==
    ASSUME NoDrift, IInv, NEW c \in case.clients,
           RenameRemoteFails(c), UNCHANGED case, phase = "recv", phase' = phase
    PROVE  ActorInv' /\ BooksInv'
  <1>0. c \in Client /\ pc[c] = "rename_remote" /\ ~Moved(c)
    BY CaseTypes DEF IInv, RenameRemoteFails, Moved
  <1>i. /\ TypeOK /\ ActorInv /\ NameInv /\ LockInv /\ ReadInv /\ StepInv /\ CleanInv
        /\ OldNameInv /\ QueuedInv /\ HubInv /\ OrphanInv
    BY DEF IInv, BooksInv
  <1>1. /\ UNCHANGED <<path, used, dirty_generation, xet_hash, pending_deletes, local, hub, sent, queued, case>>
        /\ Return(c)
    BY DEF RenameRemoteFails, Refuses, inodeVars, queueVars
  <1>4. /\ pc'[c] = "idle" /\ call'[c] = NoCall
        /\ \A d \in Client \ {c} : pc'[d] = pc[d] /\ call'[d] = call[d]
        /\ LockInv'
        /\ \A d \in Client : Calling(d)' <=> Calling(d) /\ d # c
        /\ \A d \in Client : Renaming(d)' <=> Renaming(d) /\ d # c
        /\ \A d \in Client : Moved(d)' <=> Moved(d) /\ d # c
    BY <1>0, <1>1, <1>i, Returned
  <1>10. ActorInv'
    BY <1>0, <1>1, <1>4, <1>i, CallerActs
  <1>11. NameInv' /\ CleanInv' /\ OldNameInv'
    BY <1>1, <1>i, NameFrame, CleanFrame, OldNameFrame
  <1>12. ReadInv'
    BY <1>1, <1>4, <1>i DEF ReadInv, IsDirty
  <1>13. StepInv'
    BY <1>1, <1>4, <1>i DEF StepInv
  <1>14. QueuedInv'
    BY <1>0, <1>1, <1>4, <1>i DEF QueuedInv, Linked
  <1>15. HubInv'
    BY <1>0, <1>1, <1>4, <1>i DEF HubInv, Linked, IsDirty, Overtaken, Names
  <1>16. OrphanInv'
    BY <1>0, <1>1, <1>4, <1>i DEF OrphanInv
  <1> QED BY <1>4, <1>10, <1>11, <1>12, <1>13, <1>14, <1>15, <1>16 DEF BooksInv

\* The local half of rename(): the file takes the new name, what had it is unlinked,
\* and a dirty file that the Hub knows remembers its old name.
LEMMA RenameLocalKeeps ==
    ASSUME NoDrift, IInv, NEW c \in case.clients,
           RenameLocal(c), UNCHANGED case, phase = "recv", phase' = phase
    PROVE  ActorInv' /\ BooksInv'
  <1> DEFINE i == call[c].ino
             old == call[c].old
             new == call[c].new
             T == LookupPath(call[c].new)
             Kept == call[c].is_dirty /\ call[c].xet_hash # NoHash
  <1>0. c \in Client /\ pc[c] = "rename_local" /\ Calling(c) /\ Renaming(c) /\ (Moved(c) <=> ~call[c].is_dirty)
    BY CaseTypes DEF IInv, RenameLocal, Calling, Renaming, Moved
  <1>i. /\ TypeOK /\ ActorInv /\ NameInv /\ LockInv /\ ReadInv /\ StepInv /\ CleanInv
        /\ OldNameInv /\ QueuedInv /\ HubInv /\ OrphanInv
    BY DEF IInv, BooksInv
  <1>1. UNCHANGED <<used, hub, sent, case>> /\ Return(c) /\ UnlinkOne(T)
    BY DEF RenameLocal, CancelDelete
  <1>2. /\ i \in Ino /\ old \in Path /\ new \in Path /\ old # new /\ path[i] = old
        /\ old # NoPath /\ new # NoPath
        /\ \A d \in Client \ {c} : Calling(d) => call[d].ino # i /\ call[d].old \notin {old, new} /\ (call[d].new \in {old, new} => call[d].new = NoPath)
    <2>1. call[c].new # NoPath /\ call[c].new # call[c].old
      BY <1>0, <1>i DEF ReadInv
    <2>2. call[c].new \in Path
      BY <2>1, <1>0, <1>i DEF TypeOK, Call
    <2> QED BY <2>1, <2>2, <1>0, <1>i, CallFacts DEF Names
  <1>3. \A j \in Ino : j \in T <=> path[j] = new
    BY DEF LookupPath
  <1>4. i \notin T
    BY <1>2, <1>3
  <1>5. /\ \A j \in Ino : j \in T => path'[j] = NoPath /\ pending_deletes'[j] = {} /\ xet_hash'[j] = NoHash
        /\ path'[i] = new /\ xet_hash'[i] = xet_hash[i] /\ dirty_generation'[i] = dirty_generation[i] /\ local'[i] = local[i]
        /\ pending_deletes'[i] = IF Kept THEN pending_deletes[i] \cup {old} ELSE pending_deletes[i]
        /\ \A j \in Ino : j \notin T /\ j # i =>
             /\ path'[j] = path[j] /\ pending_deletes'[j] = pending_deletes[j]
             /\ dirty_generation'[j] = dirty_generation[j] /\ xet_hash'[j] = xet_hash[j] /\ local'[j] = local[j]
    <2>1. \A j \in Ino : path'[j] = IF j \in T THEN NoPath ELSE IF j = i THEN new ELSE path[j]
      BY DEF RenameLocal
    <2>2. \A j \in Ino : pending_deletes'[j] = IF j \in T THEN {} ELSE IF j = i /\ Kept THEN pending_deletes[j] \cup {old}
                                               ELSE pending_deletes[j]
      BY DEF RenameLocal
    <2>3. /\ \A j \in Ino : j \in T => xet_hash'[j] = NoHash
          /\ \A j \in Ino : j \notin T =>
                dirty_generation'[j] = dirty_generation[j] /\ xet_hash'[j] = xet_hash[j] /\ local'[j] = local[j]
      <3> HIDE DEF T
      <3> QED BY <1>1, <1>i, UnlinkTypes
    <2> HIDE DEF T, i, new, old, Kept
    <2> QED BY <1>2, <1>4, <2>1, <2>2, <2>3
  <1>6. queued'[new] = 0 /\ \A q \in Path : q # new => queued'[q] = queued[q]
    BY <1>2 DEF RenameLocal, CancelDelete
  <1>7. /\ pc'[c] = "idle" /\ call'[c] = NoCall
        /\ \A d \in Client \ {c} : pc'[d] = pc[d] /\ call'[d] = call[d]
        /\ LockInv'
        /\ \A d \in Client : Calling(d)' <=> Calling(d) /\ d # c
        /\ \A d \in Client : Renaming(d)' <=> Renaming(d) /\ d # c
        /\ \A d \in Client : Moved(d)' <=> Moved(d) /\ d # c
    BY <1>0, <1>1, <1>i, Returned
  <1>8. /\ \A j \in Ino : path[j] = new => pending_deletes[j] = {}
        /\ \A j \in Ino : new \notin pending_deletes[j]
        /\ ~call[c].is_dirty => call[c].xet_hash # NoHash
        /\ call[c].is_dirty /\ call[c].xet_hash = NoHash => hub[old] = Absent
        /\ Moved(c) => hub[new] = call[c].xet_hash /\ hub[old] = Absent
    BY <1>0, <1>i DEF StepInv
  <1>9. xet_hash[i] \in {call[c].xet_hash, NoHash} /\ (call[c].is_dirty => IsDirty(i))
    BY <1>0, <1>i DEF ReadInv
  <1>a. \A f \in Flusher, q \in Path : sent[f][q] = 0
    BY <1>0, <1>i, NoFlight
  <1>b. \A d \in Client : Calling(d) => call[d].ino \in Ino /\ call[d].old \in Path /\ path[call[d].ino] = call[d].old
    BY <1>i, CallFacts
  <1>c. \A j \in Ino \ {i} : path[j] # old
    BY <1>2, <1>i DEF NameInv, Linked
  <1>d. \A d \in Client : /\ Renaming(d) => Calling(d) /\ call[d].new # NoPath
                          /\ Moved(d) => Renaming(d)
    BY <1>i DEF ReadInv, Renaming, Calling, Moved
  <1>e. \A j \in Ino : path[j] \in Path \cup {NoPath} /\ pending_deletes[j] \subseteq Path
    BY <1>i DEF TypeOK
  <1>f. NoPath \notin Path
    BY Nothings
  <1> HIDE DEF i, old, new, T, Kept
  <1>10. ActorInv'
    BY <1>0, <1>1, <1>7, <1>i, CallerActs
  <1>11. NameInv'
    BY <1>1, <1>2, <1>3, <1>4, <1>5, <1>i DEF NameInv, Linked
  <1>12. ReadInv'
    <2>1. \A d \in Client \ {c} : Calling(d) => call[d].ino \in Ino \ {i} /\ call[d].ino \notin T
      BY <1>2, <1>3, <1>b
    <2> QED BY <2>1, <1>2, <1>5, <1>7, <1>i DEF ReadInv, IsDirty
  <1>13. StepInv'
    <2> SUFFICES ASSUME NEW d \in Client, d # c
                 PROVE  /\ pc[d] = "rename_remote" => ~call[d].is_dirty
                        /\ Calling(d) /\ ~Renaming(d) => pending_deletes'[call[d].ino] = {}
                        /\ pc[d] \in {"create_cancel", "unlink_local"} =>
                              (hub[call[d].old] # Absent => queued'[call[d].old] > 0)
                        /\ Renaming(d) =>
                              /\ \A j \in Ino : path'[j] = call[d].new => pending_deletes'[j] = {}
                              /\ \A j \in Ino : call[d].new \notin pending_deletes'[j]
                              /\ ~call[d].is_dirty => call[d].xet_hash # NoHash
                              /\ call[d].is_dirty /\ call[d].xet_hash = NoHash => hub[call[d].old] = Absent
                        /\ Moved(d) => hub[call[d].new] = call[d].xet_hash /\ hub[call[d].old] = Absent
      <3>1. pc'[c] = "idle" /\ ~Calling(c)' /\ ~Renaming(c)' /\ ~Moved(c)'
        BY <1>0, <1>7
      <3> QED BY <3>1, <1>1, <1>7 DEF StepInv
    <2>1. Calling(d) => call[d].ino \in Ino \ {i} /\ call[d].ino \notin T
      BY <1>2, <1>3, <1>b
    <2>2. pc[d] \in {"create_cancel", "unlink_local"} => Calling(d) /\ queued'[call[d].old] = queued[call[d].old]
      BY <1>2, <1>6, <1>b DEF Calling
    <2>3. Renaming(d) => call[d].new \notin {old, new, NoPath}
      BY <1>2, <1>d
    <2>4. ASSUME Renaming(d), NEW j \in Ino
          PROVE  (path'[j] = call[d].new => pending_deletes'[j] = {}) /\ call[d].new \notin pending_deletes'[j]
      <3>1. (path[j] = call[d].new => pending_deletes[j] = {}) /\ call[d].new \notin pending_deletes[j]
        BY <2>4, <1>i DEF StepInv
      <3> QED BY <2>4, <2>3, <3>1, <1>4, <1>5
    <2> QED BY <2>1, <2>2, <2>4, <1>5, <1>i DEF StepInv
  <1>14. CleanInv'
    <2>1. Kept => IsDirty(i)
      BY <1>9 DEF Kept
    <2> QED BY <2>1, <1>2, <1>4, <1>5, <1>i DEF CleanInv, Linked, IsDirty
  <1>15. OldNameInv'
    <2> SUFFICES ASSUME NEW j \in Ino, NEW k \in Ino PROVE path'[j] \notin pending_deletes'[k]
      BY DEF OldNameInv
    <2>1. pending_deletes'[k] \subseteq pending_deletes[k] \cup {old}
      BY <1>5
    <2>2. path'[j] # old
      BY <1>2, <1>5, <1>c
    <2>3. path'[j] \notin pending_deletes[k]
      BY <1>2, <1>5, <1>8, <1>e, <1>f, <1>i DEF OldNameInv
    <2> QED BY <2>1, <2>2, <2>3
  <1>16. QueuedInv'
    <2> SUFFICES ASSUME NEW j \in Ino, path'[j] # NoPath
                 PROVE  /\ \A f \in Flusher : sent[f][path'[j]] = 0
                        /\ queued'[path'[j]] = 0 \/ \E d \in Client : pc'[d] \in {"create_cancel", "unlink_local"} /\ call'[d].old = path'[j]
      BY <1>1 DEF QueuedInv, Linked
    <2>1. path'[j] \in Path
      BY <1>2, <1>5, <1>e
    <2>2. CASE path'[j] = new
      BY <2>2, <1>2, <1>6, <1>a
    <2>3. CASE path'[j] # new
      <3>1. path'[j] = path[j]
        BY <2>3, <1>5
      <3>2. queued[path[j]] = 0 \/ \E d \in Client : pc[d] \in {"create_cancel", "unlink_local"} /\ call[d].old = path[j]
        BY <3>1, <1>i DEF QueuedInv, Linked
      <3> QED BY <2>1, <2>3, <3>1, <3>2, <1>0, <1>6, <1>7, <1>a
    <2> QED BY <2>2, <2>3
  <1>17. HubInv'
    <2> SUFFICES ASSUME NEW j \in Ino, path'[j] # NoPath, xet_hash'[j] # NoHash, pending_deletes'[j] = {},
                        \A d \in Client : ~(Moved(d)' /\ path'[j] \in Names(d)')
                 PROVE  hub[path'[j]] = xet_hash'[j] \/ (dirty_generation'[j] > 0 /\ local'[j] > xet_hash'[j])
      BY <1>1 DEF HubInv, Linked, Overtaken, IsDirty
    <2>1. CASE j = i
      <3>1. ~Kept /\ xet_hash[i] = call[c].xet_hash
        BY <2>1, <1>5, <1>9
      <3>2. ~call[c].is_dirty
        BY <2>1, <3>1, <1>5 DEF Kept
      <3> QED BY <2>1, <3>1, <3>2, <1>0, <1>5, <1>8
    <2>2. CASE j # i
      <3>1. j \notin T /\ path'[j] = path[j] /\ path[j] \notin {old, new}
        BY <2>2, <1>2, <1>3, <1>5, <1>c
      <3>2. ~Overtaken(path[j])
        <4> SUFFICES ASSUME NEW d \in Client, Moved(d), path[j] \in Names(d) PROVE FALSE
          BY DEF Overtaken
        <4>1. d # c
          BY <3>1 DEF Names, old, new
        <4>2. Moved(d)' /\ path'[j] \in Names(d)'
          BY <3>1, <4>1, <1>7 DEF Names
        <4> QED BY <4>2
      <3>3. hub[path[j]] = xet_hash[j] \/ (dirty_generation[j] > 0 /\ local[j] > xet_hash[j])
        BY <2>2, <3>1, <3>2, <1>5, <1>i DEF HubInv, Linked, IsDirty
      <3> QED BY <2>2, <3>1, <3>3, <1>5
    <2> QED BY <2>1, <2>2
  <1>18. OrphanInv'
    <2> SUFFICES ASSUME NEW q \in Path, hub[q] # Absent, \A j \in Ino : path'[j] # q
                 PROVE  \/ \E j \in Ino : q \in pending_deletes'[j]
                        \/ queued'[q] > 0
                        \/ \E d \in Client : Moved(d)' /\ call'[d].new = q
      BY <1>1 DEF OrphanInv
    <2>1. q # new
      BY <1>2, <1>5
    <2>2. CASE q = old
      <3>1. Kept
        BY <2>2, <1>0, <1>8 DEF Kept
      <3> QED BY <2>2, <3>1, <1>2, <1>5
    <2>3. CASE q # old
      <3>1. \A j \in Ino : path[j] # q
        BY <2>1, <2>3, <1>2, <1>3, <1>5
      <3>2. ASSUME NEW j \in Ino, q \in pending_deletes[j] PROVE q \in pending_deletes'[j]
        BY <3>2, <1>3, <1>5, <1>8
      <3>3. ASSUME NEW d \in Client, Moved(d), call[d].new = q PROVE Moved(d)' /\ call'[d].new = q
        BY <2>1, <3>3, <1>7 DEF new
      <3>4. \A f \in Flusher : ~(sent[f][q] > 0)
        BY <1>a
      <3> QED BY <2>1, <3>1, <3>2, <3>3, <3>4, <1>6, <1>i DEF OrphanInv
    <2> QED BY <2>2, <2>3
  <1> QED BY <1>7, <1>10, <1>11, <1>12, <1>13, <1>14, <1>15, <1>16, <1>17, <1>18 DEF BooksInv

------------------------------------------------------------------------------
(* The delete batches *)

\* A batch is taken while no call works on names.
LEMMA BatchTaken ==
    ASSUME IInv, NEW f \in Flusher, TakeDeletes(f), \A c \in Client : ~Calling(c) /\ ~Calling(c)',
           UNCHANGED <<inodeVars, hub, call>>
    PROVE  BooksInv'
  <1>i. /\ TypeOK /\ NameInv /\ LockInv /\ CleanInv /\ OldNameInv /\ QueuedInv /\ HubInv /\ OrphanInv
    BY DEF IInv, BooksInv
  <1>1. UNCHANGED <<path, used, dirty_generation, xet_hash, pending_deletes, local, hub>>
    BY DEF inodeVars
  <1>2. \A p \in Path : queued'[p] = 0 /\ sent'[f][p] = queued[p] /\ \A g \in Flusher \ {f} : sent'[g][p] = sent[g][p]
    BY <1>i DEF TakeDeletes, NoPaths, TypeOK, QueueTypes
  <1>3. \A c \in Client : /\ pc[c] \notin {"create_cancel", "unlink_local", "rename_local"}
                          /\ pc'[c] \notin {"create_cancel", "unlink_local", "rename_local", "rename_remote"}
                          /\ ~Renaming(c)' /\ ~Moved(c) /\ ~Moved(c)'
    BY DEF Calling, Renaming, Moved
  <1>11. NameInv' /\ CleanInv' /\ OldNameInv'
    BY <1>1, <1>i, NameFrame, CleanFrame, OldNameFrame
  <1>12. LockInv'
    BY <1>i DEF LockInv, Names
  <1>13. ReadInv'
    BY DEF ReadInv
  <1>14. StepInv'
    BY <1>3 DEF StepInv
  <1>15. QueuedInv'
    <2> SUFFICES ASSUME NEW i \in Ino, path[i] # NoPath
                 PROVE  queued'[path[i]] = 0 /\ \A g \in Flusher : sent'[g][path[i]] = 0
      BY <1>1 DEF QueuedInv, Linked
    <2>1. path[i] \in Path
      BY <1>i DEF TypeOK
    <2>2. queued[path[i]] = 0 /\ \A g \in Flusher : sent[g][path[i]] = 0
      BY <1>3, <1>i DEF QueuedInv, Linked
    <2> QED BY <2>1, <2>2, <1>2
  <1>16. HubInv'
    BY <1>1, <1>3, <1>i DEF HubInv, Linked, IsDirty, Overtaken
  <1>17. OrphanInv'
    <2> SUFFICES ASSUME NEW q \in Path, hub[q] # Absent, \A i \in Ino : path[i] # q
                 PROVE  \/ \E i \in Ino : q \in pending_deletes[i]
                        \/ \E g \in Flusher : sent'[g][q] > 0
      BY <1>1 DEF OrphanInv
    <2>1. \/ \E i \in Ino : q \in pending_deletes[i]
          \/ queued[q] > 0
          \/ \E g \in Flusher : sent[g][q] > 0
      BY <1>3, <1>i DEF OrphanInv
    <2>2. CASE queued[q] > 0
      BY <2>2, <1>2
    <2>3. ASSUME NEW g \in Flusher, sent[g][q] > 0 PROVE sent'[g][q] > 0
      <3>1. g # f
        BY <2>3 DEF TakeDeletes, NoPaths
      <3> QED BY <2>3, <3>1, <1>2
    <2> QED BY <2>1, <2>2, <2>3
  <1> QED BY <1>11, <1>12, <1>13, <1>14, <1>15, <1>16, <1>17 DEF BooksInv

\* A batch is answered while no call works on names.
LEMMA BatchAnswered ==
    ASSUME IInv, NEW f \in Flusher, DeletesAnswered(f), \A c \in Client : ~Calling(c) /\ ~Calling(c)',
           \A c \in Client : call'[c] = NoCall, UNCHANGED inodeVars
    PROVE  BooksInv'
  <1>i. /\ TypeOK /\ NameInv /\ LockInv /\ CleanInv /\ OldNameInv /\ QueuedInv /\ HubInv /\ OrphanInv
    BY DEF IInv, BooksInv
  <1>1. UNCHANGED <<path, used, dirty_generation, xet_hash, pending_deletes, local>>
    BY DEF inodeVars
  <1>2. /\ \A p \in Path : hub'[p] \in {hub[p], Absent}
        /\ \A p \in Path : sent[f][p] = 0 => hub'[p] = hub[p]
    BY <1>i, AnswerTypes
  <1>t. queued \in [Path -> Nat] /\ sent \in [Flusher -> [Path -> Nat]]
    BY <1>i DEF TypeOK, QueueTypes, Paths
  <1>3. \A p \in Path : /\ queued'[p] = queued[p] \/ queued'[p] = queued[p] + sent[f][p]
                        /\ sent'[f][p] = 0 /\ \A g \in Flusher \ {f} : sent'[g][p] = sent[g][p]
    BY <1>t DEF DeletesAnswered, FinishDeletes, Append, NoPaths
  <1>4. \A p \in Path : sent[f][p] > 0 => hub'[p] = Absent \/ queued'[p] > 0
    <2> SUFFICES ASSUME NEW p \in Path, sent[f][p] > 0 PROVE hub'[p] = Absent \/ queued'[p] > 0
      OBVIOUS
    <2>1. CASE FinishDeletes(f, FALSE)
      <3>1. queued'[p] = queued[p] + sent[f][p] /\ queued[p] \in Nat /\ sent[f][p] \in Nat
        BY <2>1, <1>t DEF FinishDeletes, Append
      <3> QED BY <3>1
    <2>2. CASE Commits(NoAdds, Elements(sent[f]))
      BY <2>2 DEF Commits, BatchOperations, Elements
    <2> QED BY <2>1, <2>2 DEF DeletesAnswered
  <1>5. \A c \in Client : /\ pc[c] \notin {"create_cancel", "unlink_local", "rename_local"}
                          /\ pc'[c] \notin {"create_cancel", "unlink_local", "rename_local", "rename_remote"}
                          /\ ~Renaming(c)' /\ ~Moved(c) /\ ~Moved(c)'
    BY DEF Calling, Renaming, Moved
  <1>6. \A i \in Ino : path[i] # NoPath => /\ path[i] \in Path /\ queued[path[i]] = 0
                                           /\ \A g \in Flusher : sent[g][path[i]] = 0
    BY <1>5, <1>i DEF QueuedInv, Linked, TypeOK
  <1>11. NameInv' /\ CleanInv' /\ OldNameInv'
    BY <1>1, <1>i, NameFrame, CleanFrame, OldNameFrame
  <1>12. LockInv'
    <2>1. NoCall.old = NoPath /\ NoCall.new = NoPath
      BY DEF NoCall
    <2> QED BY <2>1 DEF LockInv, Names
  <1>13. ReadInv'
    BY DEF ReadInv
  <1>14. StepInv'
    BY <1>5 DEF StepInv
  <1>15. QueuedInv'
    <2> SUFFICES ASSUME NEW i \in Ino, path[i] # NoPath
                 PROVE  queued'[path[i]] = 0 /\ \A g \in Flusher : sent'[g][path[i]] = 0
      BY <1>1 DEF QueuedInv, Linked
    <2> QED BY <1>3, <1>6
  <1>16. HubInv'
    <2>1. \A i \in Ino : path[i] # NoPath => hub'[path[i]] = hub[path[i]]
      BY <1>2, <1>6
    <2> QED BY <2>1, <1>1, <1>5, <1>i DEF HubInv, Linked, IsDirty, Overtaken
  <1>17. OrphanInv'
    <2> SUFFICES ASSUME NEW q \in Path, hub'[q] # Absent, \A i \in Ino : path[i] # q
                 PROVE  \/ \E i \in Ino : q \in pending_deletes[i]
                        \/ queued'[q] > 0
                        \/ \E g \in Flusher : sent'[g][q] > 0
      BY <1>1 DEF OrphanInv
    <2>1. \/ \E i \in Ino : q \in pending_deletes[i]
          \/ queued[q] > 0
          \/ \E g \in Flusher : sent[g][q] > 0
      BY <1>2, <1>5, <1>i DEF OrphanInv
    <2>2. CASE queued[q] > 0
      <3>1. queued[q] \in Nat /\ sent[f][q] \in Nat
        BY <1>t
      <3> QED BY <2>2, <3>1, <1>3
    <2>3. ASSUME NEW g \in Flusher, sent[g][q] > 0 PROVE queued'[q] > 0 \/ sent'[g][q] > 0
      BY <2>3, <1>3, <1>4
    <2> QED BY <2>1, <2>2, <2>3
  <1> QED BY <1>11, <1>12, <1>13, <1>14, <1>15, <1>16, <1>17 DEF BooksInv

\* While one client alone calls rmdir, no call works on names.
LEMMA RmdirAlone ==
    ASSUME NoDrift, ActorInv, Happens("rmdir"), NEW c \in case.clients, Idle(c) \/ pc[c] = "rmdir_flush"
    PROVE  \A d \in Client : ~Calling(d) /\ (d # c => Idle(d))
  <1>1. \A d \in Client : d # c => Idle(d)
    BY DEF ActorInv, NoDrift, Happens
  <1>2. ~Calling(c)
    BY DEF Idle, Calling
  <1> QED BY <1>1, <1>2, IdleIsNoCall

\* rmdir() flushes the queue.
LEMMA RmdirFlushKeeps ==
    ASSUME NoDrift, IInv, NEW c \in case.clients,
           RmdirFlush(c), UNCHANGED case, phase = "recv", phase' = phase
    PROVE  ActorInv' /\ BooksInv'
  <1>0. c \in Client /\ c \in Flusher /\ c # Loop /\ Happens("rmdir") /\ Idle(c) /\ pc[c] # "rmdir_flush"
    BY CaseTypes, Nothings DEF IInv, RmdirFlush, Idle
  <1>i. TypeOK /\ ActorInv
    BY DEF IInv
  <1>1. TakeDeletes(c) /\ Goto(c, "rmdir_flush") /\ UNCHANGED <<inodeVars, hub>>
    BY DEF RmdirFlush
  <1>2. pc'[c] = "rmdir_flush" /\ call' = call /\ \A d \in Client \ {c} : pc'[d] = pc[d]
    BY <1>0, <1>1, <1>i, GotoTypes DEF PC
  <1>3. \A d \in Client : ~Calling(d)
    BY <1>0, <1>i, RmdirAlone
  <1>4. \A d \in Client : ~Calling(d)'
    BY <1>2, <1>3 DEF Calling
  <1>5. BooksInv'
    <2>1. \A d \in Client : ~Calling(d) /\ ~Calling(d)'
      BY <1>3, <1>4
    <2>2. UNCHANGED <<inodeVars, hub, call>>
      BY <1>1, <1>2
    <2> QED BY <1>0, <1>1, <2>1, <2>2, BatchTaken
  <1>6. ActorInv'
    <2>1. \A f \in Flusher : sent[f] = NoPaths
      BY <1>0, <1>i, NoFlight
    <2>2. \A f \in Flusher \ {c} : sent'[f] = NoPaths
      BY <1>0, <1>1, <1>i, <2>1 DEF TakeDeletes, TypeOK, QueueTypes
    <2> QED BY <1>0, <1>2, <1>i, <2>2 DEF ActorInv, Idle, Happens
  <1> QED BY <1>5, <1>6

\* The answer to the batch of rmdir().
LEMMA RmdirFlushedKeeps ==
    ASSUME NoDrift, IInv, NEW c \in case.clients,
           RmdirFlushed(c), UNCHANGED case, phase = "recv", phase' = phase
    PROVE  ActorInv' /\ BooksInv'
  <1>0. c \in Client /\ c \in Flusher /\ c # Loop /\ pc[c] = "rmdir_flush"
    BY CaseTypes, Nothings DEF IInv, RmdirFlushed
  <1>i. TypeOK /\ ActorInv /\ LockInv
    BY DEF IInv, BooksInv
  <1>1. DeletesAnswered(c) /\ Return(c) /\ UNCHANGED inodeVars /\ Happens("rmdir")
    BY <1>0, <1>i DEF RmdirFlushed, ActorInv
  <1>2. pc'[c] = "idle" /\ call'[c] = NoCall /\ \A d \in Client \ {c} : pc'[d] = pc[d] /\ call'[d] = call[d]
    BY <1>0, <1>1, <1>i, ReturnTypes
  <1>3. \A d \in Client : ~Calling(d)
    BY <1>0, <1>1, <1>i, RmdirAlone
  <1>4. \A d \in Client : ~Calling(d)' /\ call'[d] = NoCall
    BY <1>2, <1>3, <1>i DEF Calling, LockInv
  <1>5. BooksInv'
    BY <1>0, <1>1, <1>3, <1>4, BatchAnswered
  <1>6. ActorInv'
    <2>1. sent'[c] = NoPaths /\ \A f \in Flusher \ {c} : sent'[f] = sent[f]
      BY <1>0, <1>1, <1>i DEF DeletesAnswered, FinishDeletes, TypeOK, QueueTypes
    <2>2. \A f \in Flusher : sent[f] # NoPaths => f \in Client /\ pc[f] = "rmdir_flush"
      BY <1>i, HubSyncAssumption DEF ActorInv
    <2>3. \A f \in Flusher : sent'[f] # NoPaths => f # Loop /\ pc'[f] = "rmdir_flush"
      BY <1>0, <1>2, <2>1, <2>2, Nothings
    <2> QED BY <1>0, <1>2, <1>i, <2>3 DEF ActorInv, Idle, Happens
  <1> QED BY <1>5, <1>6

\* Every step of a call keeps the invariant.
LEMMA ClientKeeps ==
    ASSUME NoDrift, IInv, NEW c \in case.clients, ClientStep(c), UNCHANGED case
    PROVE  ActorInv' /\ BooksInv' /\ CycleInv'
  <1>1. phase = "recv" /\ phase' = phase /\ batch = {} /\ batch' = batch
    BY CallsAreQuiet DEF IInv
  <1>2. CycleInv'
    BY <1>1 DEF CycleInv, Cycle
  <1>3. ActorInv' /\ BooksInv'
    BY <1>1, CreateInsertKeeps, CreateCancelKeeps, RemovalsKeep, UnlinkDecideKeeps, UnlinkEnqueueKeeps,
       RenameValidateKeeps, RenameRemoteKeeps, RenameRemoteFailsKeeps, RenameLocalKeeps,
       RmdirFlushKeeps, RmdirFlushedKeeps DEF ClientStep
  <1> QED BY <1>2, <1>3

------------------------------------------------------------------------------
(* Files *)

\* A file gets other bytes: its generation moves, and its hash is kept only if its
\* content does not go back.
LEMMA ContentKeeps ==
    ASSUME IInv, NEW i \in Ino, Linked(i),
           dirty_generation' = [dirty_generation EXCEPT ![i] = @ + 1],
           \/ xet_hash' = xet_hash /\ \E v \in Content : v >= local[i] /\ local' = [local EXCEPT ![i] = v]
           \/ xet_hash' = [xet_hash EXCEPT ![i] = NoHash] /\ local' = [local EXCEPT ![i] = Empty],
           UNCHANGED <<path, used, pending_deletes, hub, queued, sent, pc, call, case, phase, batch, item>>
    PROVE  ActorInv' /\ BooksInv' /\ CycleInv'
  <1>i. /\ TypeOK /\ ActorInv /\ NameInv /\ LockInv /\ ReadInv /\ StepInv /\ CleanInv
        /\ OldNameInv /\ QueuedInv /\ HubInv /\ OrphanInv /\ CycleInv
    BY DEF IInv, BooksInv
  <1>t. \A j \in Ino : dirty_generation[j] \in Nat /\ local[j] \in Int /\ xet_hash[j] \in Int
    BY <1>i, Nothings, HubSyncAssumption DEF TypeOK, Content, NoHash
  <1>1. /\ dirty_generation'[i] = dirty_generation[i] + 1
        /\ \/ xet_hash'[i] = xet_hash[i] /\ local'[i] \in Int /\ local'[i] >= local[i]
           \/ xet_hash'[i] = NoHash
        /\ \A j \in Ino \ {i} :
             dirty_generation'[j] = dirty_generation[j] /\ xet_hash'[j] = xet_hash[j] /\ local'[j] = local[j]
    <2>1. dirty_generation \in [Ino -> 0..MaxGen] /\ xet_hash \in [Ino -> Content \cup {NoHash}] /\ local \in [Ino -> Content]
      BY <1>i DEF TypeOK
    <2> QED BY <2>1, Nothings
  <1>2. ActorInv' /\ LockInv' /\ StepInv' /\ OldNameInv' /\ QueuedInv' /\ OrphanInv'
    <2>1. ActorInv'
      BY <1>i DEF ActorInv, Idle, Happens
    <2> QED BY <2>1, <1>i, LockFrame, StepFrame, OldNameFrame, QueuedFrame, OrphanFrame
  <1>3. NameInv'
    BY <1>1, <1>i DEF NameInv, Linked
  <1>4. \A j \in Ino : dirty_generation'[j] \in Nat /\ (dirty_generation[j] > 0 => dirty_generation'[j] > 0)
    BY <1>1, <1>t
  <1>5. ReadInv'
    <2>1. \A c \in Client : Calling(c) => call[c].ino \in Ino
      BY <1>i, CallFacts
    <2>2. \A j \in Ino : xet_hash'[j] \in {xet_hash[j], NoHash}
      BY <1>1
    <2> QED BY <2>1, <2>2, <1>4, <1>i DEF ReadInv, Calling, Renaming, IsDirty
  <1>6. CleanInv'
    BY <1>1, <1>t, <1>i DEF CleanInv, Linked, IsDirty
  <1>7. HubInv'
    <2> SUFFICES ASSUME NEW j \in Ino, Linked(j), xet_hash'[j] # NoHash, pending_deletes[j] = {}, ~Overtaken(path[j])
                 PROVE  hub[path[j]] = xet_hash'[j] \/ (dirty_generation'[j] > 0 /\ local'[j] > xet_hash'[j])
      BY DEF HubInv, Linked, Overtaken, Moved, Names, IsDirty
    <2>1. xet_hash'[j] = xet_hash[j] /\ local'[j] \in Int /\ local'[j] >= local[j]
      BY <1>1, <1>t
    <2>2. hub[path[j]] = xet_hash[j] \/ (dirty_generation[j] > 0 /\ local[j] > xet_hash[j])
      BY <2>1, <1>i DEF HubInv, IsDirty
    <2> QED BY <2>1, <2>2, <1>4, <1>t
  <1>8. CycleInv'
    <2>1. phase \notin Cycle => batch = {}
      BY <1>i DEF CycleInv
    <2> SUFFICES ASSUME NEW j \in batch
                 PROVE  /\ path[j] # NoPath /\ path[j] = item[j].path /\ pending_deletes[j] = item[j].deletes
                        /\ 0 < item[j].gen /\ item[j].gen <= dirty_generation'[j]
                        /\ xet_hash'[j] \in {item[j].prev, NoHash}
                        /\ dirty_generation'[j] = item[j].gen => xet_hash'[j] = item[j].prev
                        /\ phase \in {"commit", "apply"} =>
                              /\ dirty_generation'[j] = item[j].gen => local'[j] = item[j].up
                              /\ xet_hash'[j] # NoHash => xet_hash'[j] <= item[j].up /\ item[j].up <= local'[j]
                        /\ phase = "apply" =>
                              /\ hub[item[j].path] = item[j].up
                              /\ \A p \in item[j].deletes : hub[p] = Absent
      BY <2>1 DEF CycleInv, Linked, Cycle
    <2>2. /\ path[j] # NoPath /\ path[j] = item[j].path /\ pending_deletes[j] = item[j].deletes
          /\ 0 < item[j].gen /\ item[j].gen <= dirty_generation[j]
          /\ xet_hash[j] \in {item[j].prev, NoHash}
          /\ dirty_generation[j] = item[j].gen => xet_hash[j] = item[j].prev
          /\ phase \in {"commit", "apply"} =>
                /\ dirty_generation[j] = item[j].gen => local[j] = item[j].up
                /\ xet_hash[j] # NoHash => xet_hash[j] <= item[j].up /\ item[j].up <= local[j]
          /\ phase = "apply" =>
                /\ hub[item[j].path] = item[j].up
                /\ \A p \in item[j].deletes : hub[p] = Absent
      BY <1>i DEF CycleInv, Linked
    <2>3. j \in Ino /\ item[j].gen \in Nat /\ item[j].up \in Int
      BY <1>i, Nothings DEF TypeOK, Item
    <2>4. CASE j = i
      <3>1. item[j].gen # dirty_generation'[j] /\ item[j].gen <= dirty_generation'[j]
        BY <2>2, <2>3, <2>4, <1>1, <1>t
      <3> QED BY <2>2, <2>3, <2>4, <3>1, <1>1, <1>t
    <2>5. CASE j # i
      BY <2>2, <2>3, <2>5, <1>1
    <2> QED BY <2>4, <2>5
  <1> QED BY <1>2, <1>3, <1>5, <1>6, <1>7, <1>8 DEF BooksInv

\* Every step of a file keeps the invariant.
LEMMA FileKeeps ==
    ASSUME NoDrift, IInv, FileStep, UNCHANGED case
    PROVE  ActorInv' /\ BooksInv' /\ CycleInv'
  <1>i. TypeOK /\ ActorInv /\ BooksInv /\ CycleInv /\ case.inodes \subseteq Ino /\ "rewrite" \notin case.events
    BY CaseTypes DEF IInv, ActorInv, NoDrift
  <1>1. ASSUME NEW i \in case.inodes, NEW v \in Content, Write(i, v) PROVE ActorInv' /\ BooksInv' /\ CycleInv'
    <2>1. i \in Ino /\ v >= local[i] /\ Linked(i)
      BY <1>1, <1>i DEF Write, MayWrite, Happens, Linked
    <2>2. /\ dirty_generation' = [dirty_generation EXCEPT ![i] = @ + 1]
          /\ xet_hash' = xet_hash /\ local' = [local EXCEPT ![i] = v]
          /\ UNCHANGED <<path, used, pending_deletes, hub, queued, sent, pc, call, case, phase, batch, item>>
      BY <1>1 DEF Write, queueVars, clientVars, loopVars
    <2> QED BY <2>1, <2>2, ContentKeeps
  <1>2. ASSUME NEW i \in case.inodes, Truncate(i) PROVE ActorInv' /\ BooksInv' /\ CycleInv'
    <2>1. i \in Ino /\ Linked(i)
      BY <1>2, <1>i DEF Truncate, Linked
    <2>2. /\ dirty_generation' = [dirty_generation EXCEPT ![i] = @ + 1]
          /\ xet_hash' = [xet_hash EXCEPT ![i] = NoHash] /\ local' = [local EXCEPT ![i] = Empty]
          /\ UNCHANGED <<path, used, pending_deletes, hub, queued, sent, pc, call, case, phase, batch, item>>
      BY <1>2 DEF Truncate, queueVars, clientVars, loopVars
    <2> QED BY <2>1, <2>2, ContentKeeps
  <1>3. ASSUME NEW i \in case.inodes, Enqueue(i) PROVE ActorInv' /\ BooksInv' /\ CycleInv'
    <2>1. UNCHANGED <<path, used, dirty_generation, xet_hash, pending_deletes, local, hub, queued, sent,
                      pc, call, case, phase, batch, item>>
      BY <1>3 DEF Enqueue, queueVars, inodeVars, clientVars, loopVars
    <2>2. ActorInv'
      BY <2>1, <1>i DEF ActorInv, Idle, Happens
    <2>3. BooksInv'
      BY <2>1, <1>i, NameFrame, LockFrame, ReadFrame, StepFrame, CleanFrame, OldNameFrame, QueuedFrame, HubFrame,
         OrphanFrame DEF BooksInv
    <2>4. CycleInv'
      BY <2>1, <1>i DEF CycleInv, Linked
    <2> QED BY <2>2, <2>3, <2>4
  <1> QED BY <1>1, <1>2, <1>3 DEF FileStep

------------------------------------------------------------------------------
(* flush_loop *)

\* While the loop is at work no call is.
LEMMA LoopAlone ==
    ASSUME NoDrift, ActorInv, phase # "recv" \/ LoopRecv
    PROVE  \A c \in Client : Idle(c) /\ ~Calling(c)
  <1>1. ASSUME LoopRecv PROVE \A c \in Client : Idle(c)
    BY <1>1 DEF LoopRecv, Happens, NoDrift, ActorInv
  <1> QED BY <1>1, IdleIsNoCall DEF ActorInv

\* The loop takes signals.
LEMMA LoopRecvKeeps ==
    ASSUME NoDrift, IInv, LoopRecv, UNCHANGED case
    PROVE  ActorInv' /\ BooksInv' /\ CycleInv'
  <1>i. TypeOK /\ ActorInv /\ BooksInv /\ CycleInv
    BY DEF IInv
  <1>1. /\ UNCHANGED <<path, used, dirty_generation, xet_hash, pending_deletes, local, hub, queued, sent,
                       pc, call, case, batch, item>>
        /\ phase = "recv" /\ phase' = "take"
    BY DEF LoopRecv, queueVars, inodeVars, clientVars
  <1>2. \A c \in Client : Idle(c)
    BY <1>i, LoopAlone
  <1>3. ActorInv'
    BY <1>1, <1>2, <1>i DEF ActorInv, Idle, Happens
  <1>4. BooksInv'
    BY <1>1, <1>i, NameFrame, LockFrame, ReadFrame, StepFrame, CleanFrame, OldNameFrame, QueuedFrame, HubFrame,
       OrphanFrame DEF BooksInv
  <1>5. CycleInv'
    BY <1>1, <1>i DEF CycleInv, Cycle
  <1> QED BY <1>3, <1>4, <1>5

\* The cycle takes the delete queue, or finds it empty.
LEMMA LoopTakeKeeps ==
    ASSUME NoDrift, IInv, LoopTake, UNCHANGED case
    PROVE  ActorInv' /\ BooksInv' /\ CycleInv'
  <1>i. TypeOK /\ ActorInv /\ BooksInv /\ CycleInv
    BY DEF IInv
  <1>1. /\ UNCHANGED <<inodeVars, hub, call>> /\ UNCHANGED <<pc, case, batch, item>>
        /\ phase = "take" /\ phase' \in {"recv", "deletes", "snapshot"}
    BY DEF LoopTake, AfterDeletes, clientVars
  <1>2. \A c \in Client : Idle(c) /\ ~Calling(c)
    BY <1>1, <1>i, LoopAlone
  <1>3. \A c \in Client : ~Calling(c) /\ ~Calling(c)'
    BY <1>1, <1>2 DEF Calling
  <1>4. CycleInv'
    BY <1>1, <1>i DEF CycleInv, Cycle
  <1>5. \A f \in Flusher : sent[f] = NoPaths
    BY <1>1, <1>2, <1>i, HubSyncAssumption DEF ActorInv, Idle
  <1>6. CASE TakeDeletes(Loop) /\ phase' = "deletes"
    <2>1. BooksInv'
      BY <1>1, <1>3, <1>6, Nothings, BatchTaken
    <2>2. \A f \in Flusher \ {Loop} : sent'[f] = NoPaths
      BY <1>5, <1>6, <1>i, Nothings DEF TakeDeletes, TypeOK, QueueTypes
    <2>3. ActorInv'
      BY <2>2, <1>1, <1>2, <1>6, <1>i DEF ActorInv, Idle, Happens
    <2> QED BY <2>1, <2>3, <1>4
  <1>7. CASE NothingQueued
    <2>1. UNCHANGED <<path, used, dirty_generation, xet_hash, pending_deletes, local, hub, queued, sent, pc, call, case>>
      BY <1>1, <1>7 DEF NothingQueued, queueVars, inodeVars
    <2>2. BooksInv'
      BY <2>1, <1>i, NameFrame, LockFrame, ReadFrame, StepFrame, CleanFrame, OldNameFrame, QueuedFrame, HubFrame,
         OrphanFrame DEF BooksInv
    <2>3. ActorInv'
      BY <2>1, <1>2, <1>5, <1>i DEF ActorInv, Idle, Happens
    <2> QED BY <2>2, <2>3, <1>4
  <1> QED BY <1>6, <1>7 DEF LoopTake

\* The answer to the batch of the cycle.
LEMMA LoopDeletesKeeps ==
    ASSUME NoDrift, IInv, LoopDeletesAnswered, UNCHANGED case
    PROVE  ActorInv' /\ BooksInv' /\ CycleInv'
  <1>i. TypeOK /\ ActorInv /\ BooksInv /\ CycleInv /\ LockInv
    BY DEF IInv, BooksInv
  <1>1. /\ UNCHANGED inodeVars /\ UNCHANGED <<pc, call, case, batch, item>> /\ DeletesAnswered(Loop)
        /\ phase = "deletes" /\ phase' \in {"recv", "snapshot"}
    BY DEF LoopDeletesAnswered, AfterDeletes, clientVars
  <1>2. \A c \in Client : Idle(c) /\ ~Calling(c)
    BY <1>1, <1>i, LoopAlone
  <1>3. \A c \in Client : ~Calling(c) /\ ~Calling(c)'
    BY <1>1, <1>2 DEF Calling
  <1>4. \A c \in Client : call'[c] = NoCall
    BY <1>1, <1>2, <1>i DEF LockInv
  <1>5. BooksInv'
    BY <1>1, <1>3, <1>4, Nothings, BatchAnswered
  <1>6. ActorInv'
    <2>1. sent'[Loop] = NoPaths /\ \A f \in Flusher \ {Loop} : sent'[f] = sent[f]
      BY <1>1, <1>i, Nothings DEF DeletesAnswered, FinishDeletes, TypeOK, QueueTypes
    <2> QED BY <2>1, <1>1, <1>2, <1>i DEF ActorInv, Idle, Happens
  <1>7. CycleInv'
    BY <1>1, <1>i DEF CycleInv, Cycle
  <1> QED BY <1>5, <1>6, <1>7

\* A cycle goes on to where no batch of deletes is in flight.
LEMMA LoopActs ==
    ASSUME NoDrift, ActorInv, phase \in {"snapshot", "upload", "commit", "apply"}, UNCHANGED <<sent, pc, case>>
    PROVE  /\ ActorInv'
           /\ \A c \in Client : Idle(c) /\ ~Calling(c)
           /\ \A c \in Client : ~Calling(c)' /\ ~Renaming(c)' /\ ~Moved(c) /\ ~Moved(c)'
  <1>1. \A c \in Client : Idle(c) /\ ~Calling(c)
    BY LoopAlone
  <1>2. ActorInv'
    BY <1>1 DEF ActorInv, Idle, Happens
  <1>3. \A c \in Client : ~Calling(c)' /\ ~Renaming(c)' /\ ~Moved(c) /\ ~Moved(c)'
    BY <1>1 DEF Calling, Renaming, Moved
  <1> QED BY <1>1, <1>2, <1>3

\* The snapshot of a batch.
LEMMA LoopSnapshotKeeps ==
    ASSUME NoDrift, IInv, LoopSnapshot, UNCHANGED case
    PROVE  ActorInv' /\ BooksInv' /\ CycleInv'
  <1> DEFINE S == {i \in todo : path[i] # NoPath /\ IsDirty(i)}
  <1>i. TypeOK /\ ActorInv /\ BooksInv /\ CycleInv
    BY DEF IInv
  <1>1. /\ UNCHANGED <<path, used, dirty_generation, xet_hash, pending_deletes, local, hub, queued, sent, pc, call, case>>
        /\ phase = "snapshot"
    BY DEF LoopSnapshot, queueVars, inodeVars, clientVars
  <1>2. ActorInv'
    BY <1>1, <1>i, LoopActs
  <1>3. BooksInv'
    BY <1>1, <1>i, NameFrame, LockFrame, ReadFrame, StepFrame, CleanFrame, OldNameFrame, QueuedFrame, HubFrame,
       OrphanFrame DEF BooksInv
  <1>4. CASE S = {}
    <2>1. phase' = "recv" /\ batch' = {}
      BY <1>4 DEF LoopSnapshot, EndBatch
    <2> QED BY <2>1, <1>2, <1>3 DEF CycleInv, Cycle
  <1>5. CASE S # {}
    <2>1. /\ phase' = "upload" /\ batch' = S
          /\ item' = [i \in Ino |->
                    IF i \notin S THEN NoItem
                    ELSE [path |-> path[i], deletes |-> pending_deletes[i],
                          gen |-> dirty_generation[i], prev |-> xet_hash[i], up |-> Empty]]
      BY <1>5 DEF LoopSnapshot
    <2>2. S \in SUBSET Ino /\ \A i \in S : path[i] # NoPath /\ dirty_generation[i] > 0 /\ dirty_generation[i] \in Nat
      <3>1. \A i \in Ino : dirty_generation[i] \in Nat
        BY <1>i, HubSyncAssumption DEF TypeOK
      <3>2. todo \subseteq Ino
        BY <1>i DEF TypeOK
      <3> QED BY <3>1, <3>2 DEF IsDirty
    <2> HIDE DEF S
    <2>3. \A i \in S : /\ item'[i].path = path[i] /\ item'[i].deletes = pending_deletes[i]
                       /\ item'[i].gen = dirty_generation[i] /\ item'[i].prev = xet_hash[i]
      BY <2>1, <2>2, <1>i, SnapshotTypes
    <2>4. CycleInv'
      BY <1>1, <2>1, <2>2, <2>3 DEF CycleInv, Linked, Cycle
    <2> QED BY <2>4, <1>2, <1>3
  <1> QED BY <1>4, <1>5

\* upload_files: what is as it was committed is clean, the rest is uploaded.
LEMMA LoopUploadedKeeps ==
    ASSUME NoDrift, IInv, LoopUploaded, UNCHANGED case
    PROVE  ActorInv' /\ BooksInv' /\ CycleInv'
  <1> DEFINE U == {i \in Unchanged : path[i] # NoPath /\ dirty_generation[i] = Uploaded[i].gen}
  <1>i. /\ TypeOK /\ ActorInv /\ NameInv /\ LockInv /\ ReadInv /\ StepInv /\ CleanInv
        /\ OldNameInv /\ QueuedInv /\ HubInv /\ OrphanInv /\ CycleInv
    BY DEF IInv, BooksInv
  <1>1. /\ UNCHANGED <<hub, queued, sent, pc, call, case>> /\ phase = "upload"
        /\ ApplyCommit(Unchanged, Uploaded)
    BY DEF LoopUploaded, Unchanged, Uploaded, queueVars, clientVars
  <1>2. /\ ActorInv'
        /\ \A c \in Client : ~Calling(c)' /\ ~Renaming(c)' /\ ~Moved(c) /\ ~Moved(c)'
    BY <1>1, <1>i, LoopActs
  <1>3. /\ Uploaded \in [Ino -> Item]
        /\ \A i \in batch :
             /\ Uploaded[i].path = item[i].path /\ Uploaded[i].deletes = item[i].deletes
             /\ Uploaded[i].gen = item[i].gen /\ Uploaded[i].prev = item[i].prev
             /\ Uploaded[i].up = local[i]
    BY <1>i, UploadTypes
  <1>4. /\ path' = path /\ used' = used /\ local' = local
        /\ \A i \in Ino : i \in U =>
             dirty_generation'[i] = 0 /\ xet_hash'[i] = Uploaded[i].up /\ pending_deletes'[i] = {}
        /\ \A i \in Ino : i \notin U =>
             /\ dirty_generation'[i] = dirty_generation[i]
             /\ xet_hash'[i] = xet_hash[i] /\ pending_deletes'[i] = pending_deletes[i]
    BY <1>1, <1>3, <1>i, ApplyTypes
  <1>5. batch \subseteq Ino /\ Unchanged \subseteq batch /\ U \subseteq Unchanged
    BY <1>i DEF TypeOK, Unchanged
  <1>6. \A i \in batch : /\ path[i] # NoPath /\ path[i] = item[i].path /\ pending_deletes[i] = item[i].deletes
                         /\ 0 < item[i].gen /\ item[i].gen <= dirty_generation[i]
                         /\ xet_hash[i] \in {item[i].prev, NoHash}
                         /\ dirty_generation[i] = item[i].gen => xet_hash[i] = item[i].prev
    BY <1>i DEF CycleInv, Linked
  <1>7. \A i \in U : xet_hash[i] = local[i] /\ pending_deletes[i] = {} /\ i \in batch
    BY <1>3, <1>5, <1>6 DEF Unchanged
  <1>8. \A i \in Ino : /\ xet_hash'[i] = xet_hash[i] /\ pending_deletes'[i] = pending_deletes[i]
                       /\ dirty_generation'[i] = IF i \in U THEN 0 ELSE dirty_generation[i]
    BY <1>3, <1>4, <1>7
  <1>t. \A i \in Ino : /\ dirty_generation[i] \in Nat /\ local[i] \in Int /\ xet_hash[i] \in Int
                       /\ item[i].gen \in Nat /\ item[i].up \in Int
    BY <1>i, Nothings, HubSyncAssumption DEF TypeOK, Content, NoHash, Item
  <1> HIDE DEF U
  <1>11. NameInv'
    BY <1>4, <1>8, <1>i DEF NameInv, Linked
  <1>12. LockInv'
    BY <1>1, <1>i, LockFrame
  <1>13. ReadInv' /\ StepInv'
    <2>1. \A c \in Client : pc'[c] \notin {"create_cancel", "unlink_local", "rename_remote"}
      BY <1>2 DEF Calling
    <2> QED BY <2>1, <1>2 DEF ReadInv, StepInv
  <1>14. CleanInv'
    BY <1>4, <1>7, <1>8, <1>t, <1>i DEF CleanInv, Linked, IsDirty
  <1>15. OldNameInv'
    BY <1>4, <1>8, <1>i DEF OldNameInv
  <1>16. QueuedInv'
    BY <1>1, <1>4, <1>i, QueuedFrame
  <1>17. HubInv'
    <2> SUFFICES ASSUME NEW i \in Ino, path[i] # NoPath, xet_hash[i] # NoHash, pending_deletes[i] = {}
                 PROVE  hub[path[i]] = xet_hash[i] \/ (dirty_generation'[i] > 0 /\ local[i] > xet_hash[i])
      BY <1>1, <1>4, <1>8 DEF HubInv, Linked, IsDirty
    <2>1. hub[path[i]] = xet_hash[i] \/ (dirty_generation[i] > 0 /\ local[i] > xet_hash[i])
      BY <1>2, <1>i DEF HubInv, Linked, IsDirty, Overtaken
    <2> QED BY <2>1, <1>7, <1>8, <1>t
  <1>18. OrphanInv'
    BY <1>1, <1>2, <1>4, <1>8, <1>i DEF OrphanInv
  <1>19. CycleInv'
    <2>1. CASE Unchanged = batch
      <3>1. phase' = "recv" /\ batch' = {}
        BY <2>1 DEF LoopUploaded, EndBatch, Unchanged
      <3> QED BY <3>1 DEF CycleInv, Cycle
    <2>2. CASE Unchanged # batch
      <3>1. phase' = "commit" /\ batch' = batch \ Unchanged /\ item' = Uploaded
        BY <2>2 DEF LoopUploaded, Unchanged, Uploaded
      <3> SUFFICES ASSUME NEW i \in batch, i \notin Unchanged
                   PROVE  /\ path'[i] # NoPath /\ path'[i] = item'[i].path /\ pending_deletes'[i] = item'[i].deletes
                          /\ 0 < item'[i].gen /\ item'[i].gen <= dirty_generation'[i]
                          /\ xet_hash'[i] \in {item'[i].prev, NoHash}
                          /\ dirty_generation'[i] = item'[i].gen => xet_hash'[i] = item'[i].prev
                          /\ local'[i] = item'[i].up
                          /\ xet_hash'[i] # NoHash => xet_hash'[i] <= item'[i].up /\ item'[i].up <= local'[i]
        BY <3>1 DEF CycleInv, Linked, Cycle
      <3>2. i \in Ino /\ i \notin U
        BY <1>5
      <3>3. xet_hash[i] # NoHash => xet_hash[i] <= local[i]
        BY <3>2, <1>i DEF CleanInv
      <3> QED BY <3>1, <3>2, <3>3, <1>3, <1>4, <1>6, <1>8, <1>t
    <2> QED BY <2>1, <2>2
  <1> QED BY <1>2, <1>11, <1>12, <1>13, <1>14, <1>15, <1>16, <1>17, <1>18, <1>19 DEF BooksInv

\* The commit of a batch: its files are on the Hub under their names, its old names
\* are not, and other names are as they were.
LEMMA CommitTypes ==
    ASSUME IInv, BatchOperations(BatchAdds, BatchDeletes)
    PROVE  /\ \A i \in batch : hub'[path[i]] = item[i].up /\ \A p \in item[i].deletes : hub'[p] = Absent
           /\ \A i \in Ino \ batch : path[i] # NoPath => hub'[path[i]] = hub[path[i]]
           /\ \A p \in Path : (\A i \in Ino : path[i] # p) => hub'[p] \in {hub[p], Absent}
  <1>i. TypeOK /\ NameInv /\ OldNameInv /\ CycleInv
    BY DEF IInv, BooksInv
  <1>1. \A i \in batch : /\ i \in Ino /\ path[i] # NoPath /\ path[i] = item[i].path
                         /\ pending_deletes[i] = item[i].deletes /\ item[i].deletes \subseteq Path
    BY <1>i DEF CycleInv, Linked, TypeOK
  <1>2. \A p \in DOMAIN BatchAdds : /\ BatchAdds[p] \in Content
                                    /\ \E i \in batch : item[i].path = p /\ BatchAdds[p] = item[i].up
    BY <1>i, AddsTypes
  <1>3. \A i \in batch : item[i].path \in DOMAIN BatchAdds
    BY DEF BatchAdds
  <1>4. \A p : p \in BatchDeletes <=> \E i \in batch : p \in item[i].deletes
    BY DEF BatchDeletes
  <1>5. /\ \A p \in Path : p \in BatchDeletes => hub'[p] = Absent
        /\ \A p \in Path : p \notin BatchDeletes /\ p \in DOMAIN BatchAdds => hub'[p] = BatchAdds[p]
        /\ \A p \in Path : p \notin BatchDeletes /\ p \notin DOMAIN BatchAdds => hub'[p] = hub[p]
    <2>1. \A p \in DOMAIN BatchAdds : BatchAdds[p] \in Content \cup {Absent}
      BY <1>2
    <2> QED BY <2>1, <1>i, BatchTypes
  <1>6. \A i \in Ino : path[i] # NoPath => path[i] \in Path /\ path[i] \notin BatchDeletes
    BY <1>1, <1>4, <1>i DEF TypeOK, OldNameInv
  <1>7. \A i \in Ino, j \in batch : path[i] # NoPath /\ path[i] = item[j].path => i = j
    BY <1>1, <1>i DEF NameInv, Linked
  <1>8. \A i \in batch : hub'[path[i]] = item[i].up /\ \A p \in item[i].deletes : hub'[p] = Absent
    <2> SUFFICES ASSUME NEW i \in batch PROVE hub'[path[i]] = item[i].up /\ \A p \in item[i].deletes : hub'[p] = Absent
      OBVIOUS
    <2>1. path[i] \in DOMAIN BatchAdds
      BY <1>1, <1>3
    <2>2. PICK j \in batch : item[j].path = path[i] /\ BatchAdds[path[i]] = item[j].up
      BY <2>1, <1>2
    <2>3. j = i
      BY <2>2, <1>1, <1>7
    <2> QED BY <2>1, <2>2, <2>3, <1>1, <1>4, <1>5, <1>6
  <1>9. \A i \in Ino \ batch : path[i] # NoPath => hub'[path[i]] = hub[path[i]]
    BY <1>2, <1>5, <1>6, <1>7
  <1>10. \A p \in Path : (\A i \in Ino : path[i] # p) => hub'[p] \in {hub[p], Absent}
    BY <1>1, <1>2, <1>5
  <1> QED BY <1>8, <1>9, <1>10

\* A commit keeps the books, whether the loop hears of it or not.
LEMMA CommitBooks ==
    ASSUME NoDrift, IInv, phase = "commit", BatchOperations(BatchAdds, BatchDeletes) \/ hub' = hub,
           UNCHANGED <<queued, sent, path, used, dirty_generation, xet_hash, pending_deletes, local, pc, call, case>>
    PROVE  ActorInv' /\ BooksInv'
  <1>i. /\ TypeOK /\ ActorInv /\ NameInv /\ LockInv /\ ReadInv /\ StepInv /\ CleanInv
        /\ OldNameInv /\ QueuedInv /\ HubInv /\ OrphanInv /\ CycleInv
    BY DEF IInv, BooksInv
  <1>1. /\ ActorInv'
        /\ \A c \in Client : ~Calling(c)' /\ ~Renaming(c)' /\ ~Moved(c) /\ ~Moved(c)'
    BY <1>i, LoopActs
  <1>2. NameInv' /\ LockInv' /\ ReadInv' /\ CleanInv' /\ OldNameInv' /\ QueuedInv'
    BY <1>i, NameFrame, LockFrame, ReadFrame, CleanFrame, OldNameFrame, QueuedFrame
  <1>3. CASE hub' = hub
    <2>1. StepInv' /\ HubInv' /\ OrphanInv'
      BY <1>3, <1>i, StepFrame, HubFrame, OrphanFrame
    <2> QED BY <2>1, <1>1, <1>2 DEF BooksInv
  <1>4. CASE BatchOperations(BatchAdds, BatchDeletes)
    <2>0. /\ \A i \in batch : hub'[path[i]] = item[i].up /\ \A p \in item[i].deletes : hub'[p] = Absent
          /\ \A i \in Ino \ batch : path[i] # NoPath => hub'[path[i]] = hub[path[i]]
          /\ \A p \in Path : (\A i \in Ino : path[i] # p) => hub'[p] \in {hub[p], Absent}
      BY <1>4, CommitTypes
    <2>1. StepInv'
      <3>1. \A c \in Client : pc'[c] \notin {"create_cancel", "unlink_local", "rename_remote"}
        BY <1>1 DEF Calling
      <3> QED BY <3>1, <1>1 DEF StepInv
    <2>2. HubInv'
      <3> SUFFICES ASSUME NEW i \in Ino, path[i] # NoPath, xet_hash[i] # NoHash, pending_deletes[i] = {}
                   PROVE  hub'[path[i]] = xet_hash[i] \/ (dirty_generation[i] > 0 /\ local[i] > xet_hash[i])
        BY DEF HubInv, Linked, IsDirty
      <3>1. CASE i \in batch
        <4>1. /\ 0 < item[i].gen /\ item[i].gen <= dirty_generation[i]
              /\ xet_hash[i] <= item[i].up /\ item[i].up <= local[i]
          BY <3>1, <1>i DEF CycleInv
        <4>2. /\ item[i].gen \in Int /\ dirty_generation[i] \in Int
              /\ xet_hash[i] \in Int /\ item[i].up \in Int /\ local[i] \in Int
          BY <1>i, Nothings, HubSyncAssumption DEF TypeOK, Content, NoHash, Item
        <4>3. hub'[path[i]] = item[i].up
          BY <3>1, <2>0
        <4> QED BY <4>1, <4>2, <4>3
      <3>2. CASE i \notin batch
        <4>1. hub[path[i]] = xet_hash[i] \/ (dirty_generation[i] > 0 /\ local[i] > xet_hash[i])
          BY <1>1, <1>i DEF HubInv, Linked, IsDirty, Overtaken
        <4> QED BY <3>2, <4>1, <2>0
      <3> QED BY <3>1, <3>2
    <2>3. OrphanInv'
      BY <2>0, <1>1, <1>i DEF OrphanInv
    <2> QED BY <2>1, <2>2, <2>3, <1>1, <1>2 DEF BooksInv
  <1> QED BY <1>3, <1>4

\* The commit of a cycle, answered or not.
LEMMA LoopCommitKeeps ==
    ASSUME NoDrift, IInv, LoopCommit \/ LoopCommitFails, UNCHANGED case
    PROVE  ActorInv' /\ BooksInv' /\ CycleInv'
  <1>i. TypeOK /\ CycleInv
    BY DEF IInv
  <1>1. /\ UNCHANGED <<queued, sent, path, used, dirty_generation, xet_hash, pending_deletes, local, pc, call, case>>
        /\ BatchOperations(BatchAdds, BatchDeletes) \/ hub' = hub
        /\ phase = "commit"
    BY DEF LoopCommit, LoopCommitFails, Commits, Refuses, LosesAnswer, queueVars, inodeVars, clientVars
  <1>2. ActorInv' /\ BooksInv'
    BY <1>1, CommitBooks
  <1>3. CASE LoopCommitFails
    <2>1. phase' = "recv" /\ batch' = {}
      BY <1>3 DEF LoopCommitFails, EndBatch
    <2> QED BY <2>1, <1>2 DEF CycleInv, Cycle
  <1>4. CASE LoopCommit
    <2>1. phase' = "apply" /\ batch' = batch /\ item' = item /\ BatchOperations(BatchAdds, BatchDeletes)
      BY <1>4 DEF LoopCommit, Commits
    <2>2. \A i \in batch : hub'[path[i]] = item[i].up /\ \A p \in item[i].deletes : hub'[p] = Absent
      BY <2>1, CommitTypes
    <2>3. CycleInv'
      BY <2>1, <2>2, <1>1, <1>i DEF CycleInv, Linked, Cycle
    <2> QED BY <2>3, <1>2
  <1> QED BY <1>3, <1>4

\* An upload that fails ends the cycle.
LEMMA LoopUploadFailsKeeps ==
    ASSUME NoDrift, IInv, LoopUploadFails, UNCHANGED case
    PROVE  ActorInv' /\ BooksInv' /\ CycleInv'
  <1>i. ActorInv /\ BooksInv
    BY DEF IInv
  <1>1. /\ UNCHANGED <<path, used, dirty_generation, xet_hash, pending_deletes, local, hub, queued, sent, pc, call, case>>
        /\ phase = "upload" /\ phase' = "recv" /\ batch' = {}
    BY DEF LoopUploadFails, EndBatch, queueVars, inodeVars, clientVars
  <1>2. ActorInv'
    BY <1>1, <1>i, LoopActs
  <1>3. BooksInv'
    BY <1>1, <1>i, NameFrame, LockFrame, ReadFrame, StepFrame, CleanFrame, OldNameFrame, QueuedFrame, HubFrame,
       OrphanFrame DEF BooksInv
  <1> QED BY <1>1, <1>2, <1>3 DEF CycleInv, Cycle

\* apply_commit: what was not written since the snapshot is clean with the new hash.
LEMMA LoopApplyKeeps ==
    ASSUME NoDrift, IInv, LoopApply, UNCHANGED case
    PROVE  ActorInv' /\ BooksInv' /\ CycleInv'
  <1> DEFINE U == {i \in batch : path[i] # NoPath /\ dirty_generation[i] = item[i].gen}
  <1>i. /\ TypeOK /\ ActorInv /\ NameInv /\ LockInv /\ ReadInv /\ StepInv /\ CleanInv
        /\ OldNameInv /\ QueuedInv /\ HubInv /\ OrphanInv /\ CycleInv
    BY DEF IInv, BooksInv
  <1>1. /\ UNCHANGED <<hub, queued, sent, pc, call, case>> /\ phase = "apply" /\ phase' = "recv" /\ batch' = {}
        /\ ApplyCommit(batch, item)
    BY DEF LoopApply, EndBatch, queueVars, clientVars
  <1>2. /\ ActorInv'
        /\ \A c \in Client : ~Calling(c)' /\ ~Renaming(c)' /\ ~Moved(c) /\ ~Moved(c)'
    BY <1>1, <1>i, LoopActs
  <1>3. item \in [Ino -> Item] /\ batch \subseteq Ino
    BY <1>i DEF TypeOK
  <1>4. /\ path' = path /\ used' = used /\ local' = local
        /\ \A i \in Ino : i \in U =>
             dirty_generation'[i] = 0 /\ xet_hash'[i] = item[i].up /\ pending_deletes'[i] = {}
        /\ \A i \in Ino : i \notin U =>
             /\ dirty_generation'[i] = dirty_generation[i]
             /\ xet_hash'[i] = xet_hash[i] /\ pending_deletes'[i] = pending_deletes[i]
    BY <1>1, <1>3, <1>i, ApplyTypes
  <1>5. \A i \in U : /\ i \in Ino /\ path[i] # NoPath /\ local[i] = item[i].up /\ hub[path[i]] = item[i].up
                     /\ \A p \in pending_deletes[i] : hub[p] = Absent
    BY <1>1, <1>3, <1>i DEF CycleInv, Linked
  <1>6. \A i \in Ino : pending_deletes'[i] \subseteq pending_deletes[i]
    BY <1>4
  <1>t. \A i \in Ino : local[i] \in Int
    BY <1>i, Nothings DEF TypeOK
  <1> HIDE DEF U
  <1>11. NameInv'
    BY <1>4, <1>5, <1>i DEF NameInv, Linked
  <1>12. LockInv'
    BY <1>1, <1>i, LockFrame
  <1>13. ReadInv' /\ StepInv'
    <2>1. \A c \in Client : pc'[c] \notin {"create_cancel", "unlink_local", "rename_remote"}
      BY <1>2 DEF Calling
    <2> QED BY <2>1, <1>2 DEF ReadInv, StepInv
  <1>14. CleanInv'
    BY <1>4, <1>5, <1>t, <1>i DEF CleanInv, Linked, IsDirty
  <1>15. OldNameInv'
    BY <1>4, <1>6, <1>i DEF OldNameInv
  <1>16. QueuedInv'
    BY <1>1, <1>4, <1>i, QueuedFrame
  <1>17. HubInv'
    <2> SUFFICES ASSUME NEW i \in Ino, path[i] # NoPath, xet_hash'[i] # NoHash, pending_deletes'[i] = {}
                 PROVE  hub[path[i]] = xet_hash'[i] \/ (dirty_generation'[i] > 0 /\ local[i] > xet_hash'[i])
      BY <1>1, <1>4 DEF HubInv, Linked, IsDirty
    <2>1. CASE i \in U
      BY <2>1, <1>4, <1>5
    <2>2. CASE i \notin U
      BY <2>2, <1>2, <1>4, <1>i DEF HubInv, Linked, IsDirty, Overtaken
    <2> QED BY <2>1, <2>2
  <1>18. OrphanInv'
    <2> SUFFICES ASSUME NEW q \in Path, hub[q] # Absent, \A i \in Ino : path[i] # q
                 PROVE  \/ \E i \in Ino : q \in pending_deletes'[i]
                        \/ queued[q] > 0
                        \/ \E f \in Flusher : sent[f][q] > 0
      BY <1>1, <1>4 DEF OrphanInv
    <2>1. ASSUME NEW i \in Ino, q \in pending_deletes[i] PROVE q \in pending_deletes'[i]
      BY <2>1, <1>4, <1>5
    <2> QED BY <2>1, <1>2, <1>i DEF OrphanInv
  <1>19. CycleInv'
    BY <1>1 DEF CycleInv, Cycle
  <1> QED BY <1>2, <1>11, <1>12, <1>13, <1>14, <1>15, <1>16, <1>17, <1>18, <1>19 DEF BooksInv

------------------------------------------------------------------------------
(* The theorems *)

\* Every step of the loop keeps the invariant.
LEMMA LoopKeeps ==
    ASSUME NoDrift, IInv, LoopStep, UNCHANGED case
    PROVE  ActorInv' /\ BooksInv' /\ CycleInv'
  BY LoopRecvKeeps, LoopTakeKeeps, LoopDeletesKeeps, LoopSnapshotKeeps, LoopUploadedKeeps,
     LoopUploadFailsKeeps, LoopCommitKeeps, LoopApplyKeeps DEF LoopStep

\* A step in which nothing moves keeps the invariant.
LEMMA StutterKeeps ==
    ASSUME IInv, UNCHANGED vars
    PROVE  ActorInv' /\ BooksInv' /\ CycleInv'
  <1>i. ActorInv /\ BooksInv /\ CycleInv
    BY DEF IInv
  <1>1. UNCHANGED <<path, used, dirty_generation, xet_hash, pending_deletes, local, hub, queued, sent,
                    pc, call, case, phase, batch, item>>
    BY DEF vars, queueVars, inodeVars, clientVars, loopVars
  <1>2. ActorInv'
    BY <1>1, <1>i DEF ActorInv, Idle, Happens
  <1>3. BooksInv'
    BY <1>1, <1>i, NameFrame, LockFrame, ReadFrame, StepFrame, CleanFrame, OldNameFrame, QueuedFrame, HubFrame,
       OrphanFrame DEF BooksInv
  <1>4. CycleInv'
    BY <1>1, <1>i DEF CycleInv, Linked
  <1> QED BY <1>2, <1>3, <1>4

\* At mount time the Hub and the tree are the same and nothing is under way.
LEMMA InitIsSound == Init => IInv
  <1> SUFFICES ASSUME Init PROVE IInv
    OBVIOUS
  <1>1. /\ case \in Case /\ path \in [Ino -> Path \cup {NoPath}]
        /\ \A i, j \in Ino : path[i] = path[j] => i = j \/ path[i] = NoPath
    BY HubSyncAssumption DEF Init
  <1>2. /\ InitialContent \in Content /\ InitialContent # NoHash /\ InitialContent # Absent
        /\ Empty \in Content /\ 0 \in 0..MaxGen
    BY HubSyncAssumption DEF InitialContent, Content, NoHash, Absent, Empty
  <1>3. /\ \A p \in Path : queued[p] = 0
        /\ \A f \in Flusher : sent[f] = NoPaths /\ \A p \in Path : sent[f][p] = 0
    BY DEF Init, QueueInit, NoPaths
  <1>4. TypeOK
    <2>1. QueueTypes
      BY QueueStarts DEF Init, QueueInv
    <2>2. used \subseteq Ino
      BY DEF Init
    <2>3. /\ dirty_generation \in [Ino -> 0..MaxGen] /\ xet_hash \in [Ino -> Content \cup {NoHash}]
          /\ pending_deletes \in [Ino -> SUBSET Path] /\ local \in [Ino -> Content]
          /\ hub \in [Path -> Content \cup {Absent}]
      BY <1>2 DEF Init
    <2>4. pc \in [Client -> PC] /\ call \in [Client -> Call] /\ item \in [Ino -> Item]
      BY Nothings DEF Init, PC
    <2> QED BY <2>1, <2>2, <2>3, <2>4, <1>1 DEF TypeOK, Init, Phase
  <1>5. /\ \A i \in Ino : /\ i \in used <=> path[i] # NoPath
                          /\ dirty_generation[i] = 0 /\ pending_deletes[i] = {}
                          /\ path[i] # NoPath => xet_hash[i] = InitialContent /\ local[i] = InitialContent
                          /\ path[i] = NoPath => xet_hash[i] = NoHash
        /\ \A p \in Path : hub[p] = IF \E i \in Ino : path[i] = p THEN InitialContent ELSE Absent
        /\ \A c \in Client : pc[c] = "idle" /\ call[c] = NoCall
        /\ phase = "recv" /\ batch = {}
    BY DEF Init
  <1>6. \A c \in Client : Idle(c) /\ ~Calling(c) /\ ~Renaming(c) /\ ~Moved(c)
    BY <1>5 DEF Idle, Calling, Renaming, Moved
  <1>7. ActorInv
    BY <1>1, <1>3, <1>5, <1>6 DEF ActorInv
  <1>8. NameInv /\ CleanInv /\ OldNameInv
    BY <1>1, <1>2, <1>5 DEF NameInv, CleanInv, OldNameInv, Linked, IsDirty, InitialContent
  <1>9. LockInv
    <2>1. NoCall.old = NoPath /\ NoCall.new = NoPath
      BY DEF NoCall
    <2> QED BY <2>1, <1>5 DEF LockInv, Names
  <1>10. ReadInv /\ StepInv
    BY <1>5, <1>6 DEF ReadInv, StepInv
  <1>11. QueuedInv /\ HubInv /\ OrphanInv
    BY <1>1, <1>3, <1>5 DEF QueuedInv, HubInv, OrphanInv, Linked
  <1>12. CycleInv
    BY <1>5 DEF CycleInv
  <1> QED BY <1>4, <1>7, <1>8, <1>9, <1>10, <1>11, <1>12 DEF IInv, BooksInv

\* IInv and the invariant of the delete queue hold in every state.
LEMMA Invariance ==
    ASSUME NoDrift
    PROVE  Spec => [](IInv /\ QueueInv)
  <1>1. Init => IInv /\ QueueInv
    BY InitIsSound, QueueStarts DEF Init
  <1>2. IInv /\ QueueInv /\ [Next]_vars => (IInv /\ QueueInv)'
    <2> SUFFICES ASSUME IInv, QueueInv, [Next]_vars PROVE (IInv /\ QueueInv)'
      OBVIOUS
    <2>i. TypeOK /\ ActorInv /\ ReadInv
      BY DEF IInv, BooksInv
    <2>1. QueueInv'
      BY <2>i, StepsTheQueue, QueueStepKeeps
    <2>2. TypeOK'
      BY <2>1, <2>i, Typing DEF QueueInv
    <2>3. ActorInv' /\ BooksInv' /\ CycleInv'
      BY ClientKeeps, FileKeeps, LoopKeeps, StutterKeeps DEF Next
    <2> QED BY <2>1, <2>2, <2>3 DEF IInv
  <1> QED BY <1>1, <1>2, PTL DEF Spec

\* A clean file that no call works on is on the Hub under its name with the hash it is
\* booked with, and no delete of its name is queued: unlink, rename and create, the
\* delete queue and the commits of flush_loop agree on the names (CleanIsOnHub).
THEOREM NamesAreSound ==
    ASSUME NoDrift
    PROVE  Spec => []NamesSound
  <1>1. IInv => NamesSound
    <2> SUFFICES ASSUME IInv, NEW i \in Ino, path[i] # NoPath, ~IsDirty(i), ~Locked(path[i])
                 PROVE  hub[path[i]] = xet_hash[i] /\ queued[path[i]] = 0
      BY DEF NamesSound, CleanIsOnHub, IInv
    <2>1. xet_hash[i] = local[i] /\ pending_deletes[i] = {} /\ xet_hash[i] # NoHash
      BY Nothings DEF IInv, BooksInv, CleanInv, Linked, TypeOK
    <2>2. ~Overtaken(path[i])
      BY DEF Overtaken, Moved, Locked, Idle
    <2>3. hub[path[i]] = xet_hash[i]
      BY <2>1, <2>2 DEF IInv, BooksInv, HubInv, Linked
    <2>4. \A c \in Client : ~(pc[c] \in {"create_cancel", "unlink_local"} /\ call[c].old = path[i])
      BY DEF Locked, Idle, Names
    <2>5. queued[path[i]] = 0
      BY <2>4 DEF IInv, BooksInv, QueuedInv, Linked
    <2> QED BY <2>3, <2>5
  <1> QED BY <1>1, Invariance, PTL

\* When no file is dirty, no delete is pending and neither a call nor a cycle is under
\* way, the Hub holds exactly the files of the tree under their names (what the status
\* of a mount and an unmount promise).
THEOREM SettledIsInSync ==
    ASSUME NoDrift
    PROVE  Spec => []InSync
  <1>1. IInv /\ QueueInv => InSync
    <2> SUFFICES ASSUME IInv, QueueInv, Settled, NEW p \in Path
                 PROVE  hub[p] = IF LookupPath(p) = {} THEN Absent
                                 ELSE local[CHOOSE i \in LookupPath(p) : TRUE]
      BY DEF InSync
    <2>1. \A c \in Client : ~Moved(c)
      BY DEF Settled, Idle, Moved
    <2>2. \A i \in Ino : /\ pending_deletes[i] = {}
                         /\ path[i] # NoPath => ~IsDirty(i) /\ xet_hash[i] = local[i] /\ xet_hash[i] # NoHash
      <3>1. \A i \in Ino : path[i] = NoPath => pending_deletes[i] = {}
        BY DEF IInv, BooksInv, NameInv, Linked
      <3>2. \A i \in Ino : path[i] # NoPath => ~IsDirty(i) /\ xet_hash[i] = local[i] /\ pending_deletes[i] = {}
        BY DEF Settled, IInv, BooksInv, CleanInv, Linked
      <3>3. \A i \in Ino : local[i] # NoHash
        BY Nothings DEF IInv, TypeOK
      <3> QED BY <3>1, <3>2, <3>3
    <2>3. ~(queued[p] > 0) /\ \A f \in Flusher : ~(sent[f][p] > 0)
      BY NothingOnItsWay DEF Settled
    <2>4. CASE LookupPath(p) = {}
      <3>1. \A i \in Ino : path[i] # p
        BY <2>4 DEF LookupPath
      <3>2. hub[p] = Absent
        BY <3>1, <2>1, <2>2, <2>3 DEF IInv, BooksInv, OrphanInv
      <3> QED BY <2>4, <3>2
    <2>5. CASE LookupPath(p) # {}
      <3> DEFINE i == CHOOSE j \in LookupPath(p) : TRUE
      <3>1. i \in LookupPath(p)
        BY <2>5
      <3> HIDE DEF i
      <3>2. i \in Ino /\ path[i] = p /\ path[i] # NoPath
        BY <3>1, Nothings DEF LookupPath
      <3>3. hub[p] = local[i]
        BY <3>2, <2>1, <2>2 DEF IInv, BooksInv, HubInv, Linked, Overtaken
      <3> QED BY <2>5, <3>3 DEF i
    <2> QED BY <2>4, <2>5
  <1> QED BY <1>1, Invariance, PTL
=============================================================================
