-------------------------- MODULE StagedWriteProofs --------------------------
(***************************************************************************)
(* Proofs about StagedWrite, for any set of inodes and threads, any        *)
(* contents, any number of generations and of queued signals: the types,   *)
(* the stability of the files under upload, the survival of unsaved bytes  *)
(* when no staging budget is set, and what flush_loop makes of the dirty   *)
(* marks.  The proofs go action by action; what the helpers of the         *)
(* specification do to each variable is stated once, so that an action's   *)
(* own step cites it without expanding them.                               *)
(***************************************************************************)
EXTENDS StagedWrite, TLAPS

------------------------------------------------------------------------------
(* The types of what the helpers produce. *)

\* Values of the abstract contents.
LEMMA Constants ==
    /\ Empty \in Content /\ Content \subseteq Staged /\ Hash = Staged
    /\ NoFile \in Staged /\ Partial \in Staged /\ NoHash \in Hash
    /\ NoIno \notin Ino /\ Ino \subseteq Nat
BY ConstantsAssumption DEF Content, Empty, NoFile, Partial, NoHash, Hash, Staged, NoIno

\* entry.size is abstracted to zero or positive.
LEMMA SizeType == \A x : Size(x) \in {0, 1}
BY DEF Size

\* The values the model resets to.
LEMMA ResetTypes == NoCall \in Call /\ NoItem \in Item /\ Keep \in BOOLEAN
<1>1. (CHOOSE i \in Ino : TRUE) \in Ino
  BY ConstantsAssumption
<1> QED
  BY <1>1, Constants DEF NoCall, NoItem, Call, Item, Keep

\* The locals of a call.
LEMMA CallTypes ==
    ASSUME ClientTypes, NEW c \in Client
    PROVE  /\ call[c] \in Call
           /\ call[c].ino \in Ino /\ call[c].hash \in Hash
           /\ call[c].size \in {0, 1} /\ call[c].truncate \in BOOLEAN
<1>1. call[c] \in Call
  BY DEF ClientTypes
<1> QED
  BY <1>1 DEF Call

\* The snapshot of a file.
LEMMA ItemTypes ==
    ASSUME LoopTypes, NEW i \in Ino
    PROVE  item[i] \in Item /\ item[i].gen \in Nat /\ item[i].prev \in Hash /\ item[i].up \in Staged
<1>1. item[i] \in Item
  BY DEF LoopTypes
<1> QED
  BY <1>1 DEF Item

\* Where a call may go.
LEMMA GotoType ==
    ASSUME ClientTypes, NEW c \in Client, NEW label \in PC, Goto(c, label)
    PROVE  pc' \in [Client -> PC] /\ pc'[c] = label
BY DEF ClientTypes, Goto

\* A call may become idle.
LEMMA IdleLabel == "idle" \in PC
BY DEF PC

\* A call that returns.
LEMMA ReturnTypes ==
    ASSUME ClientTypes, NEW c \in Client, Return(c)
    PROVE  pc' \in [Client -> PC] /\ call' \in [Client -> Call]
<1>1. pc' \in [Client -> PC]
  BY GotoType, IdleLabel DEF Return
<1>2. call' \in [Client -> Call]
  BY ResetTypes DEF Return, ClientTypes
<1> QED
  BY <1>1, <1>2

\* A call that reads the entry.
LEMMA EnterTypes ==
    ASSUME InodeTypes, ClientTypes, NEW c \in Client, NEW i \in Ino, NEW truncate \in BOOLEAN,
           NEW label \in PC, Enter(c, i, truncate, label)
    PROVE  pc' \in [Client -> PC] /\ call' \in [Client -> Call]
<1>1. pc' \in [Client -> PC]
  BY GotoType DEF Enter
<1>2. [ino |-> i, hash |-> xet_hash[i], size |-> size[i], truncate |-> truncate] \in Call
  BY DEF Call, InodeTypes
<1>3. call' \in [Client -> Call]
  BY <1>2 DEF Enter, ClientTypes
<1> QED
  BY <1>1, <1>3

\* StagingCoordinator: taking and dropping one lock ...
LEMMA LockTypes ==
    ASSUME StagingTypes, NEW i \in Ino
    PROVE  /\ \A a \in Actor : Acquire(a, i) => lock' \in [Ino -> Actor \cup {Free}]
           /\ Release(i) => lock' \in [Ino -> Actor \cup {Free}]
BY DEF StagingTypes, Acquire, Release

\* ... and dropping all the guards of flush_batch.
LEMMA ReleaseAllTypes ==
    ASSUME StagingTypes, ReleaseAll
    PROVE  lock' \in [Ino -> Actor \cup {Free}]
BY DEF StagingTypes, ReleaseAll

\* StagingDir::try_remove and gc_one.
LEMMA RemoveTypes ==
    ASSUME StagingTypes, ClientTypes, NEW i \in Ino
    PROVE  /\ TryRemove(i) => staging' \in [Ino -> Staged] /\ attached' \in [Client -> BOOLEAN]
           /\ GcOne(i) => staging' \in [Ino -> Staged] /\ attached' \in [Client -> BOOLEAN]
<1>1. TryRemove(i) => staging' \in [Ino -> Staged] /\ attached' \in [Client -> BOOLEAN]
  BY Constants DEF StagingTypes, ClientTypes, TryRemove
<1>2. UNCHANGED <<staging, attached>> => staging' \in [Ino -> Staged] /\ attached' \in [Client -> BOOLEAN]
  BY DEF StagingTypes, ClientTypes
<1> QED
  BY <1>1, <1>2 DEF GcOne

\* Any other change of a staging file.
LEMMA StageTypes ==
    ASSUME StagingTypes, NEW i \in Ino, NEW content \in Staged, staging' = [staging EXCEPT ![i] = content]
    PROVE  staging' \in [Ino -> Staged]
BY DEF StagingTypes

\* set_dirty.
LEMMA DirtyTypes ==
    ASSUME InodeTypes, NEW S, SetDirty(S)
    PROVE  dirty_generation' \in [Ino -> Nat]
BY DEF InodeTypes, SetDirty

\* FlushManager::enqueue.
LEMMA EnqueueTypes ==
    ASSUME LoopTypes, NEW i \in Ino, Enqueue(i)
    PROVE  signals' \in Seq(Ino)
BY DEF LoopTypes, Enqueue

\* InodeEntry::apply_commit.
LEMMA ApplyTypes ==
    ASSUME InodeTypes, LoopTypes, NEW S, ApplyCommit(S)
    PROVE  InodeTypes'
<1>1. st' \in [Ino -> {"free", "live", "gone"}] /\ linked' \in [Ino -> BOOLEAN]
  BY DEF InodeTypes, ApplyCommit
<1>2. dirty_generation' \in [Ino -> Nat]
  BY DEF InodeTypes, ApplyCommit
<1>3. xet_hash' \in [Ino -> Hash]
  BY ItemTypes, Constants DEF InodeTypes, ApplyCommit
<1>4. size' \in [Ino -> {0, 1}]
  BY SizeType DEF InodeTypes, ApplyCommit
<1>5. staging_is_current' \in [Ino -> BOOLEAN]
  BY Zenon DEF InodeTypes, ApplyCommit
<1> QED
  BY <1>1, <1>2, <1>3, <1>4, <1>5 DEF InodeTypes

------------------------------------------------------------------------------
\* Types, initially ...
LEMMA TypeOKInit == Init => TypeOK
<1> SUFFICES ASSUME Init PROVE TypeOK
  OBVIOUS
<1>1. InodeTypes
  BY Constants, ConstantsAssumption DEF Init, InodeTypes, Hash, Content
<1>2. StagingTypes /\ ClientTypes
  BY Constants, ResetTypes DEF Init, StagingTypes, ClientTypes, PC, NoIno
<1>3. LoopTypes
  BY ResetTypes DEF Init, LoopTypes, Phase
<1> QED
  BY <1>1, <1>2, <1>3 DEF TypeOK

\* ... and after every step, action by action.
LEMMA TypeOKStep == TypeOK /\ Next => TypeOK'
<1> SUFFICES ASSUME TypeOK, Next PROVE TypeOK'
  OBVIOUS
<1> USE DEF NoInodeChange, NoLoopChange, inodeVars, clientVars, loopVars
<1>types. InodeTypes /\ StagingTypes /\ ClientTypes /\ LoopTypes
  BY DEF TypeOK
<1>1. CASE LoopRecv
  <2>1. InodeTypes' /\ StagingTypes' /\ ClientTypes'
    BY <1>types, <1>1 DEF LoopRecv, InodeTypes, StagingTypes, ClientTypes
  <2>2. LoopTypes'
    BY <1>types, <1>1 DEF LoopRecv, LoopTypes, Phase
  <2> QED
    BY <2>1, <2>2 DEF TypeOK
<1>2. CASE LoopLock
  <2>1. InodeTypes' /\ ClientTypes'
    BY <1>types, <1>2 DEF LoopLock, InodeTypes, ClientTypes
  <2>2. StagingTypes'
    <3>1. PICK i \in todo : Acquire(Loop, i)
      BY <1>2 DEF LoopLock
    <3>2. i \in Ino /\ Loop \in Actor
      BY <1>types, <3>1 DEF LoopTypes, Actor
    <3> QED
      BY <1>types, <1>2, <3>1, <3>2, LockTypes DEF LoopLock, StagingTypes
  <2>3. LoopTypes'
    BY <1>types, <1>2 DEF LoopLock, LoopTypes
  <2> QED
    BY <2>1, <2>2, <2>3 DEF TypeOK
<1>3. CASE LoopSnapshot
  <2>1. InodeTypes' /\ ClientTypes'
    BY <1>types, <1>3 DEF LoopSnapshot, InodeTypes, ClientTypes
  <2>2. StagingTypes'
    BY <1>types, <1>3, ReleaseAllTypes, Constants DEF LoopSnapshot, StagingTypes
  <2>3. LoopTypes'
    <3>1. \A i \in Ino : [gen |-> dirty_generation[i], prev |-> xet_hash[i], up |-> NoFile] \in Item
      BY <1>types, Constants DEF InodeTypes, Item
    <3>2. item' \in [Ino -> Item]
      BY <1>3, <3>1, ResetTypes DEF LoopSnapshot
    <3> QED
      BY <1>types, <1>3, <3>2 DEF LoopSnapshot, LoopTypes, Phase
  <2> QED
    BY <2>1, <2>2, <2>3 DEF TypeOK
<1>4. CASE LoopUploadFile
  <2>1. InodeTypes' /\ StagingTypes' /\ ClientTypes'
    BY <1>types, <1>4 DEF LoopUploadFile, InodeTypes, StagingTypes, ClientTypes
  <2>2. LoopTypes'
    <3>1. PICK i \in batch : item' = [item EXCEPT ![i].up = staging[i]]
      BY <1>4 DEF LoopUploadFile
    <3>2. i \in Ino /\ item[i] \in Item /\ staging[i] \in Staged
      BY <1>types, <3>1, ItemTypes DEF LoopTypes, StagingTypes
    <3>3. [item[i] EXCEPT !.up = staging[i]] \in Item
      BY <3>2 DEF Item
    <3>4. item' \in [Ino -> Item]
      BY <1>types, <3>1, <3>2, <3>3 DEF LoopTypes
    <3> QED
      BY <1>types, <1>4, <3>4 DEF LoopUploadFile, LoopTypes
  <2> QED
    BY <2>1, <2>2 DEF TypeOK
<1>5. CASE LoopUploadFails
  <2>1. InodeTypes' /\ ClientTypes'
    BY <1>types, <1>5 DEF LoopUploadFails, InodeTypes, ClientTypes
  <2>2. StagingTypes'
    BY <1>types, <1>5, ReleaseAllTypes, Constants DEF LoopUploadFails, StagingTypes
  <2>3. LoopTypes'
    BY <1>types, <1>5, ResetTypes DEF LoopUploadFails, LoopTypes, EndBatch, Phase
  <2> QED
    BY <2>1, <2>2, <2>3 DEF TypeOK
<1>6. CASE LoopUploaded
  <2>1. InodeTypes' /\ ClientTypes'
    BY <1>types, <1>6 DEF LoopUploaded, InodeTypes, ClientTypes
  <2>2. StagingTypes'
    BY <1>types, <1>6, ReleaseAllTypes, Constants DEF LoopUploaded, StagingTypes
  <2>3. LoopTypes'
    BY <1>types, <1>6 DEF LoopUploaded, LoopTypes, Phase
  <2> QED
    BY <2>1, <2>2, <2>3 DEF TypeOK
<1>7. CASE LoopApplyUnchanged
  <2>1. StagingTypes' /\ ClientTypes'
    BY <1>types, <1>7 DEF LoopApplyUnchanged, StagingTypes, ClientTypes
  <2>2. InodeTypes'
    BY <1>types, <1>7, ApplyTypes, Constants DEF LoopApplyUnchanged, InodeTypes
  <2>3. LoopTypes'
    BY <1>types, <1>7, ResetTypes DEF LoopApplyUnchanged, LoopTypes, Phase
  <2> QED
    BY <2>1, <2>2, <2>3 DEF TypeOK
<1>8. CASE LoopCommit
  <2>1. InodeTypes' /\ StagingTypes' /\ ClientTypes'
    BY <1>types, <1>8 DEF LoopCommit, InodeTypes, StagingTypes, ClientTypes
  <2>2. LoopTypes'
    BY <1>types, <1>8 DEF LoopCommit, LoopTypes, Phase
  <2> QED
    BY <2>1, <2>2 DEF TypeOK
<1>9. CASE LoopCommitFails
  <2>1. InodeTypes' /\ StagingTypes' /\ ClientTypes'
    BY <1>types, <1>9 DEF LoopCommitFails, InodeTypes, StagingTypes, ClientTypes
  <2>2. LoopTypes'
    BY <1>types, <1>9, ResetTypes DEF LoopCommitFails, LoopTypes, EndBatch, Phase
  <2> QED
    BY <2>1, <2>2 DEF TypeOK
<1>10. CASE LoopApply
  <2>1. StagingTypes' /\ ClientTypes'
    BY <1>types, <1>10 DEF LoopApply, StagingTypes, ClientTypes
  <2>2. InodeTypes'
    BY <1>types, <1>10, ApplyTypes, Constants DEF LoopApply, InodeTypes
  <2>3. LoopTypes'
    BY <1>types, <1>10, ResetTypes DEF LoopApply, LoopTypes, EndBatch, Phase
  <2> QED
    BY <2>1, <2>2, <2>3 DEF TypeOK
<1>11. CASE LoopGcRank
  <2>1. InodeTypes' /\ StagingTypes' /\ ClientTypes'
    BY <1>types, <1>11 DEF LoopGcRank, InodeTypes, StagingTypes, ClientTypes
  <2>2. LoopTypes'
    BY <1>types, <1>11 DEF LoopGcRank, LoopTypes, Phase, GcCandidates
  <2> QED
    BY <2>1, <2>2 DEF TypeOK
<1>12. CASE LoopGcOne
  <2>1. InodeTypes'
    BY <1>types, <1>12 DEF LoopGcOne, InodeTypes
  <2>2. StagingTypes'
    <3>1. PICK i \in batch : GcOne(i)
      BY <1>12 DEF LoopGcOne
    <3>2. i \in Ino
      BY <1>types, <3>1 DEF LoopTypes
    <3> QED
      BY <1>types, <1>12, <3>1, <3>2, RemoveTypes DEF LoopGcOne, StagingTypes
  <2>3. ClientTypes'
    <3>1. PICK i \in batch : GcOne(i)
      BY <1>12 DEF LoopGcOne
    <3>2. i \in Ino
      BY <1>types, <3>1 DEF LoopTypes
    <3> QED
      BY <1>types, <1>12, <3>1, <3>2, RemoveTypes DEF LoopGcOne, ClientTypes
  <2>4. LoopTypes'
    BY <1>types, <1>12 DEF LoopGcOne, LoopTypes, Phase
  <2> QED
    BY <2>1, <2>2, <2>3, <2>4 DEF TypeOK
<1>13. CASE LoopGcNext \/ LoopGcDone
  <2>1. InodeTypes' /\ StagingTypes' /\ ClientTypes'
    BY <1>types, <1>13 DEF LoopGcNext, LoopGcDone, InodeTypes, StagingTypes, ClientTypes
  <2>2. LoopTypes'
    BY <1>types, <1>13 DEF LoopGcNext, LoopGcDone, LoopTypes, Phase
  <2> QED
    BY <2>1, <2>2 DEF TypeOK
<1>14. ASSUME NEW c \in Client, OpenReuse(c) PROVE TypeOK'
  <2>1. InodeTypes' /\ LoopTypes'
    BY <1>types, <1>14 DEF OpenReuse, InodeTypes, LoopTypes
  <2>2. StagingTypes'
    BY <1>types, <1>14, LockTypes, CallTypes, Constants DEF OpenReuse, StagingTypes, Actor
  <2>3. ClientTypes'
    BY <1>types, <1>14, GotoType, CallTypes
    DEF OpenReuse, ClientTypes, PC, OpenPhases, SetattrPhases, ReleasePhases
  <2> QED
    BY <2>1, <2>2, <2>3 DEF TypeOK
<1>15. ASSUME NEW c \in Client, OpenDownload(c) PROVE TypeOK'
  <2>1. LoopTypes'
    BY <1>types, <1>15 DEF OpenDownload, LoopTypes
  <2>2. InodeTypes'
    BY <1>types, <1>15, CallTypes DEF OpenDownload, InodeTypes
  <2>3. StagingTypes'
    BY <1>types, <1>15, LockTypes, CallTypes, Constants DEF OpenDownload, StagingTypes, Actor
  <2>4. ClientTypes'
    BY <1>types, <1>15, GotoType, CallTypes
    DEF OpenDownload, ClientTypes, PC, OpenPhases, SetattrPhases, ReleasePhases
  <2> QED
    BY <2>1, <2>2, <2>3, <2>4 DEF TypeOK
<1>16. ASSUME NEW c \in Client, OpenCreate(c) PROVE TypeOK'
  <2>1. LoopTypes'
    BY <1>types, <1>16 DEF OpenCreate, LoopTypes
  <2>2. InodeTypes'
    BY <1>types, <1>16, CallTypes DEF OpenCreate, InodeTypes
  <2>3. StagingTypes'
    BY <1>types, <1>16, LockTypes, StageTypes, CallTypes, Constants
    DEF OpenCreate, StagingTypes, Actor
  <2>4. ClientTypes'
    BY <1>types, <1>16, GotoType, CallTypes
    DEF OpenCreate, ClientTypes, PC, OpenPhases, SetattrPhases, ReleasePhases
  <2> QED
    BY <2>1, <2>2, <2>3, <2>4 DEF TypeOK
<1>17. ASSUME NEW c \in Client, OpenLockEnoent(c) PROVE TypeOK'
  <2>1. InodeTypes' /\ StagingTypes' /\ LoopTypes'
    BY <1>types, <1>17 DEF OpenLockEnoent, InodeTypes, StagingTypes, LoopTypes
  <2>2. ClientTypes'
    BY <1>types, <1>17, ReturnTypes, CallTypes DEF OpenLockEnoent, ClientTypes
  <2> QED
    BY <2>1, <2>2 DEF TypeOK
<1>18. ASSUME NEW c \in Client, SetattrDownload(c) PROVE TypeOK'
  <2>1. InodeTypes' /\ LoopTypes'
    BY <1>types, <1>18 DEF SetattrDownload, InodeTypes, LoopTypes
  <2>2. StagingTypes'
    BY <1>types, <1>18, LockTypes, CallTypes, Constants DEF SetattrDownload, StagingTypes, Actor
  <2>3. ClientTypes'
    BY <1>types, <1>18, EnterTypes, CallTypes, ResetTypes
    DEF SetattrDownload, ClientTypes, PC, OpenPhases, SetattrPhases, ReleasePhases
  <2> QED
    BY <2>1, <2>2, <2>3 DEF TypeOK
<1>19. ASSUME NEW c \in Client, SetattrPrepare(c) PROVE TypeOK'
  <2>1. InodeTypes' /\ LoopTypes'
    BY <1>types, <1>19 DEF SetattrPrepare, InodeTypes, LoopTypes
  <2>2. StagingTypes'
    BY <1>types, <1>19, LockTypes, StageTypes, CallTypes, Constants
    DEF SetattrPrepare, StagingTypes, Actor
  <2>3. ClientTypes'
    BY <1>types, <1>19, GotoType, CallTypes
    DEF SetattrPrepare, ClientTypes, PC, OpenPhases, SetattrPhases, ReleasePhases
  <2> QED
    BY <2>1, <2>2, <2>3 DEF TypeOK
<1>20. ASSUME NEW c \in Client, SetattrEnoent(c) PROVE TypeOK'
  <2>1. InodeTypes' /\ StagingTypes' /\ LoopTypes'
    BY <1>types, <1>20 DEF SetattrEnoent, InodeTypes, StagingTypes, LoopTypes
  <2>2. ClientTypes'
    BY <1>types, <1>20, ReturnTypes, CallTypes DEF SetattrEnoent, ClientTypes
  <2> QED
    BY <2>1, <2>2 DEF TypeOK
<1>21. ASSUME NEW c \in Client, ReleaseGc(c) PROVE TypeOK'
  <2>1. InodeTypes' /\ LoopTypes'
    BY <1>types, <1>21 DEF ReleaseGc, InodeTypes, LoopTypes
  <2>2. StagingTypes'
    BY <1>types, <1>21, RemoveTypes, CallTypes, Constants DEF ReleaseGc, StagingTypes
  <2>3. ClientTypes'
    BY <1>types, <1>21, RemoveTypes, ReturnTypes, CallTypes DEF ReleaseGc, ClientTypes
  <2> QED
    BY <2>1, <2>2, <2>3 DEF TypeOK
<1>22. ASSUME NEW c \in Client, UnlinkDrop(c) PROVE TypeOK'
  <2>1. InodeTypes' /\ LoopTypes'
    BY <1>types, <1>22 DEF UnlinkDrop, InodeTypes, LoopTypes
  <2>2. StagingTypes'
    BY <1>types, <1>22, RemoveTypes, CallTypes, Constants DEF UnlinkDrop, StagingTypes
  <2>3. ClientTypes'
    BY <1>types, <1>22, RemoveTypes, ReturnTypes, CallTypes DEF UnlinkDrop, ClientTypes
  <2> QED
    BY <2>1, <2>2, <2>3 DEF TypeOK
<1>23. ASSUME NEW c \in Client, CreateFile(c) PROVE TypeOK'
  <2>1. InodeTypes' /\ LoopTypes'
    BY <1>types, <1>23 DEF CreateFile, InodeTypes, LoopTypes
  <2>2. StagingTypes'
    BY <1>types, <1>23, StageTypes, CallTypes, Constants DEF CreateFile, StagingTypes
  <2>3. ClientTypes'
    BY <1>types, <1>23, ReturnTypes, CallTypes DEF CreateFile, ClientTypes
  <2> QED
    BY <2>1, <2>2, <2>3 DEF TypeOK
<1>24. ASSUME NEW c \in Client, CreateFileFails(c) PROVE TypeOK'
  <2>1. StagingTypes' /\ LoopTypes'
    BY <1>types, <1>24 DEF CreateFileFails, StagingTypes, LoopTypes
  <2>2. InodeTypes'
    BY <1>types, <1>24, CallTypes DEF CreateFileFails, InodeTypes
  <2>3. ClientTypes'
    BY <1>types, <1>24, ReturnTypes, CallTypes DEF CreateFileFails, ClientTypes
  <2> QED
    BY <2>1, <2>2, <2>3 DEF TypeOK
<1>25. ASSUME NEW c \in Client, OpenDownloaded(c) PROVE TypeOK'
  <2>1. LoopTypes'
    BY <1>types, <1>25 DEF OpenDownloaded, LoopTypes
  <2>2. InodeTypes'
    BY <1>types, <1>25, CallTypes DEF OpenDownloaded, InodeTypes
  <2>3. StagingTypes'
    BY <1>types, <1>25, StageTypes, CallTypes, Constants DEF OpenDownloaded, StagingTypes
  <2>4. ClientTypes'
    BY <1>types, <1>25, GotoType, CallTypes
    DEF OpenDownloaded, ClientTypes, PC, OpenPhases, SetattrPhases, ReleasePhases
  <2> QED
    BY <2>1, <2>2, <2>3, <2>4 DEF TypeOK
<1>26. ASSUME NEW c \in Client, OpenDownloadFails(c) PROVE TypeOK'
  <2>1. InodeTypes' /\ LoopTypes'
    BY <1>types, <1>26 DEF OpenDownloadFails, InodeTypes, LoopTypes
  <2>2. StagingTypes'
    BY <1>types, <1>26, LockTypes, StageTypes, CallTypes, Constants
    DEF OpenDownloadFails, StagingTypes
  <2>3. ClientTypes'
    BY <1>types, <1>26, ReturnTypes, CallTypes DEF OpenDownloadFails, ClientTypes
  <2> QED
    BY <2>1, <2>2, <2>3 DEF TypeOK
<1>27. ASSUME NEW c \in Client, OpenInstall(c) PROVE TypeOK'
  <2>1. LoopTypes'
    BY <1>types, <1>27 DEF OpenInstall, LoopTypes
  <2>2. InodeTypes'
    BY <1>types, <1>27, DirtyTypes, CallTypes DEF OpenInstall, InodeTypes
  <2>3. StagingTypes'
    BY <1>types, <1>27, LockTypes, CallTypes, Constants DEF OpenInstall, StagingTypes
  <2>4. ClientTypes'
    BY <1>types, <1>27, ReturnTypes, CallTypes DEF OpenInstall, ClientTypes
  <2> QED
    BY <2>1, <2>2, <2>3, <2>4 DEF TypeOK
<1>28. ASSUME NEW c \in Client, OpenInstallFails(c) PROVE TypeOK'
  <2>1. InodeTypes' /\ LoopTypes'
    BY <1>types, <1>28 DEF OpenInstallFails, InodeTypes, LoopTypes
  <2>2. StagingTypes'
    BY <1>types, <1>28, LockTypes, CallTypes, Constants DEF OpenInstallFails, StagingTypes
  <2>3. ClientTypes'
    BY <1>types, <1>28, ReturnTypes, CallTypes DEF OpenInstallFails, ClientTypes
  <2> QED
    BY <2>1, <2>2, <2>3 DEF TypeOK
<1>29. ASSUME NEW c \in Client, WriteMark(c) PROVE TypeOK'
  <2>1. StagingTypes' /\ LoopTypes'
    BY <1>types, <1>29 DEF WriteMark, StagingTypes, LoopTypes
  <2>2. InodeTypes'
    BY <1>types, <1>29, DirtyTypes, CallTypes DEF WriteMark, InodeTypes
  <2>3. ClientTypes'
    BY <1>types, <1>29, ReturnTypes, CallTypes DEF WriteMark, ClientTypes
  <2> QED
    BY <2>1, <2>2, <2>3 DEF TypeOK
<1>30. ASSUME NEW c \in Client, SetattrDownloaded(c) PROVE TypeOK'
  <2>1. InodeTypes' /\ LoopTypes'
    BY <1>types, <1>30 DEF SetattrDownloaded, InodeTypes, LoopTypes
  <2>2. StagingTypes'
    BY <1>types, <1>30, StageTypes, CallTypes, Constants DEF SetattrDownloaded, StagingTypes
  <2>3. ClientTypes'
    BY <1>types, <1>30, GotoType, CallTypes
    DEF SetattrDownloaded, ClientTypes, PC, OpenPhases, SetattrPhases, ReleasePhases
  <2> QED
    BY <2>1, <2>2, <2>3 DEF TypeOK
<1>31. ASSUME NEW c \in Client, SetattrDownloadFails(c) PROVE TypeOK'
  <2>1. InodeTypes' /\ LoopTypes'
    BY <1>types, <1>31 DEF SetattrDownloadFails, InodeTypes, LoopTypes
  <2>2. StagingTypes'
    BY <1>types, <1>31, LockTypes, StageTypes, CallTypes, Constants
    DEF SetattrDownloadFails, StagingTypes
  <2>3. ClientTypes'
    BY <1>types, <1>31, ReturnTypes, CallTypes DEF SetattrDownloadFails, ClientTypes
  <2> QED
    BY <2>1, <2>2, <2>3 DEF TypeOK
<1>32. ASSUME NEW c \in Client, SetattrApplyFails(c) PROVE TypeOK'
  <2>1. InodeTypes' /\ LoopTypes'
    BY <1>types, <1>32 DEF SetattrApplyFails, InodeTypes, LoopTypes
  <2>2. StagingTypes'
    BY <1>types, <1>32, LockTypes, CallTypes, Constants DEF SetattrApplyFails, StagingTypes
  <2>3. ClientTypes'
    BY <1>types, <1>32, ReturnTypes, CallTypes DEF SetattrApplyFails, ClientTypes
  <2> QED
    BY <2>1, <2>2, <2>3 DEF TypeOK
<1>33. ASSUME NEW c \in Client, NEW v \in Content \ {Empty}, SetattrApply(c, v) PROVE TypeOK'
  <2>1. InodeTypes'
    BY <1>types, <1>33, DirtyTypes, CallTypes, Constants DEF SetattrApply, InodeTypes
  <2>2. StagingTypes'
    BY <1>types, <1>33, LockTypes, StageTypes, CallTypes, Constants DEF SetattrApply, StagingTypes
  <2>3. ClientTypes'
    BY <1>types, <1>33, ReturnTypes, CallTypes DEF SetattrApply, ClientTypes
  <2>4. LoopTypes'
    BY <1>types, <1>33, EnqueueTypes, CallTypes DEF SetattrApply, LoopTypes
  <2> QED
    BY <2>1, <2>2, <2>3, <2>4 DEF TypeOK
<1>34. ASSUME NEW c \in Client, ReleaseReap(c) PROVE TypeOK'
  <2>1. StagingTypes' /\ LoopTypes'
    BY <1>types, <1>34 DEF ReleaseReap, StagingTypes, LoopTypes
  <2>2. InodeTypes'
    BY <1>types, <1>34, CallTypes DEF ReleaseReap, InodeTypes
  <2>3. ClientTypes'
    BY <1>types, <1>34, GotoType, ReturnTypes, CallTypes
    DEF ReleaseReap, ClientTypes, PC, OpenPhases, SetattrPhases, ReleasePhases
  <2> QED
    BY <2>1, <2>2, <2>3 DEF TypeOK
<1>35. ASSUME NEW c \in Client, ReleaseUnstage(c) PROVE TypeOK'
  <2>1. InodeTypes' /\ LoopTypes'
    BY <1>types, <1>35 DEF ReleaseUnstage, InodeTypes, LoopTypes
  <2>2. StagingTypes'
    BY <1>types, <1>35, RemoveTypes, CallTypes, Constants DEF ReleaseUnstage, StagingTypes
  <2>3. ClientTypes'
    BY <1>types, <1>35, RemoveTypes, ReturnTypes, CallTypes DEF ReleaseUnstage, ClientTypes
  <2> QED
    BY <2>1, <2>2, <2>3 DEF TypeOK
<1>36. ASSUME NEW c \in Client, NEW i \in Ino, CreateInsert(c, i) PROVE TypeOK'
  <2>1. StagingTypes' /\ LoopTypes'
    BY <1>types, <1>36 DEF CreateInsert, StagingTypes, LoopTypes
  <2>2. InodeTypes'
    BY <1>types, <1>36, DirtyTypes DEF CreateInsert, InodeTypes
  <2>3. ClientTypes'
    BY <1>types, <1>36, EnterTypes, ResetTypes
    DEF CreateInsert, ClientTypes, PC, OpenPhases, SetattrPhases, ReleasePhases, NoIno
  <2> QED
    BY <2>1, <2>2, <2>3 DEF TypeOK
<1>37. ASSUME NEW c \in Client, NEW i \in Ino, Unlink(c, i) PROVE TypeOK'
  <2>1. StagingTypes' /\ LoopTypes'
    BY <1>types, <1>37 DEF Unlink, StagingTypes, LoopTypes
  <2>2. InodeTypes'
    BY <1>types, <1>37 DEF Unlink, InodeTypes
  <2>3. ClientTypes'
    BY <1>types, <1>37, EnterTypes, ResetTypes
    DEF Unlink, ClientTypes, PC, OpenPhases, SetattrPhases, ReleasePhases
  <2> QED
    BY <2>1, <2>2, <2>3 DEF TypeOK
<1>38. ASSUME NEW c \in Client, NEW i \in Ino, NEW truncate \in BOOLEAN, OpenStart(c, i, truncate)
       PROVE  TypeOK'
  <2>1. InodeTypes' /\ StagingTypes' /\ LoopTypes'
    BY <1>types, <1>38 DEF OpenStart, InodeTypes, StagingTypes, LoopTypes
  <2>2. ClientTypes'
    BY <1>types, <1>38, EnterTypes
    DEF OpenStart, ClientTypes, PC, OpenPhases, SetattrPhases, ReleasePhases, NoIno
  <2> QED
    BY <2>1, <2>2 DEF TypeOK
<1>39. ASSUME NEW c \in Client, NEW i \in Ino, NEW truncate \in BOOLEAN, SetattrStart(c, i, truncate)
       PROVE  TypeOK'
  <2>1. InodeTypes' /\ StagingTypes' /\ LoopTypes'
    BY <1>types, <1>39 DEF SetattrStart, InodeTypes, StagingTypes, LoopTypes
  <2>2. ClientTypes'
    BY <1>types, <1>39, EnterTypes
    DEF SetattrStart, ClientTypes, PC, OpenPhases, SetattrPhases, ReleasePhases
  <2> QED
    BY <2>1, <2>2 DEF TypeOK
<1>40. ASSUME NEW c \in Client, NEW v \in Content \ {Empty}, WriteAt(c, v) PROVE TypeOK'
  <2>1. InodeTypes' /\ LoopTypes'
    BY <1>types, <1>40 DEF WriteAt, InodeTypes, LoopTypes
  <2>2. StagingTypes'
    BY <1>types, <1>40, StageTypes, Constants DEF WriteAt, StagingTypes
  <2>3. ClientTypes'
    BY <1>types, <1>40, EnterTypes, ResetTypes
    DEF WriteAt, ClientTypes, PC, OpenPhases, SetattrPhases, ReleasePhases, NoIno
  <2> QED
    BY <2>1, <2>2, <2>3 DEF TypeOK
<1>41. ASSUME NEW c \in Client, Fsync(c) PROVE TypeOK'
  <2>1. InodeTypes' /\ StagingTypes' /\ ClientTypes'
    BY <1>types, <1>41 DEF Fsync, InodeTypes, StagingTypes, ClientTypes
  <2>2. LoopTypes'
    <3>1. fd[c] \in Ino
      BY <1>types, <1>41 DEF Fsync, ClientTypes
    <3> QED
      BY <1>types, <1>41, <3>1, EnqueueTypes DEF Fsync, LoopTypes
  <2> QED
    BY <2>1, <2>2 DEF TypeOK
<1>42. ASSUME NEW c \in Client, ReleaseEnqueue(c) PROVE TypeOK'
  <2>1. InodeTypes' /\ StagingTypes'
    BY <1>types, <1>42 DEF ReleaseEnqueue, InodeTypes, StagingTypes
  <2>2. ClientTypes'
    BY <1>types, <1>42, EnterTypes, ResetTypes
    DEF ReleaseEnqueue, ClientTypes, PC, OpenPhases, SetattrPhases, ReleasePhases, NoIno
  <2>3. LoopTypes'
    <3>1. fd[c] \in Ino
      BY <1>types, <1>42 DEF ReleaseEnqueue, ClientTypes
    <3> QED
      BY <1>types, <1>42, <3>1, EnqueueTypes DEF ReleaseEnqueue, LoopTypes
  <2> QED
    BY <2>1, <2>2, <2>3 DEF TypeOK
<1>43. ASSUME NEW i \in Ino, RequeueDirty(i) PROVE TypeOK'
  <2>1. InodeTypes' /\ StagingTypes' /\ ClientTypes'
    BY <1>types, <1>43 DEF RequeueDirty, InodeTypes, StagingTypes, ClientTypes
  <2>2. LoopTypes'
    BY <1>types, <1>43, EnqueueTypes DEF RequeueDirty, LoopTypes
  <2> QED
    BY <2>1, <2>2 DEF TypeOK
<1>44. ASSUME NEW i \in Ino, TakeFlushError(i) PROVE TypeOK'
  <2>1. InodeTypes' /\ StagingTypes' /\ ClientTypes'
    BY <1>types, <1>44 DEF TakeFlushError, InodeTypes, StagingTypes, ClientTypes
  <2>2. LoopTypes'
    BY <1>types, <1>44 DEF TakeFlushError, LoopTypes
  <2> QED
    BY <2>1, <2>2 DEF TypeOK
<1>45. ASSUME NEW i \in Ino, NEW h \in Content, UpdateRemoteFile(i, h) PROVE TypeOK'
  <2>1. StagingTypes' /\ ClientTypes' /\ LoopTypes'
    BY <1>types, <1>45 DEF UpdateRemoteFile, StagingTypes, ClientTypes, LoopTypes
  <2>2. InodeTypes'
    BY <1>types, <1>45, Constants, SizeType DEF UpdateRemoteFile, InodeTypes
  <2> QED
    BY <2>1, <2>2 DEF TypeOK
<1> QED
  BY <1>1, <1>2, <1>3, <1>4, <1>5, <1>6, <1>7, <1>8, <1>9, <1>10, <1>11, <1>12, <1>13, <1>14,
     <1>15, <1>16, <1>17, <1>18, <1>19, <1>20, <1>21, <1>22, <1>23, <1>24, <1>25, <1>26, <1>27,
     <1>28, <1>29, <1>30, <1>31, <1>32, <1>33, <1>34, <1>35, <1>36, <1>37, <1>38, <1>39, <1>40,
     <1>41, <1>42, <1>43, <1>44, <1>45
  DEF Next, LoopStep, LockStep, CallStep, CallStart, Environment

\* ... and after no step.
LEMMA TypeOKStutter == TypeOK /\ UNCHANGED vars => TypeOK'
BY DEF vars, inodeVars, clientVars, loopVars, TypeOK, InodeTypes, StagingTypes, ClientTypes,
   LoopTypes

\* Every variable keeps its type, for all values of the constants: the numbers a
\* generation takes, the locals of a call and the signals of the channel included.
THEOREM TypeCorrect == Spec => []TypeOK
<1>1. TypeOK /\ [Next]_vars => TypeOK'
  BY TypeOKStep, TypeOKStutter
<1> QED
  BY <1>1, TypeOKInit, PTL DEF Spec

------------------------------------------------------------------------------
(* What the helpers leave in each variable. *)

\* A thread, the flush loop and nobody are three different lock holders.
LEMMA Actors == Loop \notin Client /\ Free \notin Client /\ Free # Loop
BY ActorAssumption DEF Loop, Free

\* A missing file is no content.
LEMMA Distinct == Empty # NoFile /\ Partial # NoFile /\ NoFile \notin Content /\ NoFile = NoHash
BY ConstantsAssumption DEF Empty, Partial, NoFile, NoHash, Content

\* pc after a jump.
LEMMA GotoFacts ==
    ASSUME ClientTypes, NEW c \in Client, NEW label, Goto(c, label)
    PROVE  pc'[c] = label /\ \A d \in Client \ {c} : pc'[d] = pc[d]
BY DEF ClientTypes, Goto

\* pc and locals after a return.
LEMMA ReturnFacts ==
    ASSUME ClientTypes, NEW c \in Client, Return(c)
    PROVE  pc'[c] = "idle" /\ \A d \in Client \ {c} : pc'[d] = pc[d] /\ call'[d] = call[d]
<1>1. pc'[c] = "idle" /\ \A d \in Client \ {c} : pc'[d] = pc[d]
  BY GotoFacts DEF Return
<1> QED
  BY <1>1 DEF ClientTypes, Return

\* pc and locals after an entry is read ...
LEMMA EnterFacts ==
    ASSUME ClientTypes, NEW c \in Client, NEW i, NEW truncate, NEW label, Enter(c, i, truncate, label)
    PROVE  /\ pc'[c] = label /\ call'[c].ino = i
           /\ \A d \in Client \ {c} : pc'[d] = pc[d] /\ call'[d] = call[d]
<1>1. pc'[c] = label /\ \A d \in Client \ {c} : pc'[d] = pc[d]
  BY GotoFacts DEF Enter
<1> QED
  BY <1>1 DEF ClientTypes, Enter

\* ... and what was read.
LEMMA EnterLocals ==
    ASSUME ClientTypes, NEW c \in Client, NEW i, NEW truncate, NEW label, Enter(c, i, truncate, label)
    PROVE  call'[c].hash = xet_hash[i] /\ call'[c].size = size[i] /\ call'[c].truncate = truncate
BY DEF ClientTypes, Enter

\* A lock after it is taken ...
LEMMA AcquireFacts ==
    ASSUME StagingTypes, NEW i \in Ino, NEW a, Acquire(a, i)
    PROVE  lock[i] = Free /\ lock'[i] = a /\ \A j \in Ino \ {i} : lock'[j] = lock[j]
BY DEF StagingTypes, Acquire

\* ... after it is dropped ...
LEMMA ReleaseFacts ==
    ASSUME StagingTypes, NEW i \in Ino, Release(i)
    PROVE  lock'[i] = Free /\ \A j \in Ino \ {i} : lock'[j] = lock[j]
BY DEF StagingTypes, Release

\* ... and all of them after flush_batch drops its guards.
LEMMA ReleaseAllFacts ==
    ASSUME ReleaseAll
    PROVE  \A i \in Ino : lock'[i] = IF lock[i] = Loop THEN Free ELSE lock[i]
BY DEF ReleaseAll

\* set_dirty advances the generation by one.
LEMMA DirtyFacts ==
    ASSUME InodeTypes, NEW S, SetDirty(S)
    PROVE  \A i \in Ino : /\ dirty_generation[i] \in Nat
                          /\ i \in S => dirty_generation'[i] = dirty_generation[i] + 1
                          /\ i \notin S => dirty_generation'[i] = dirty_generation[i]
BY DEF InodeTypes, SetDirty

\* apply_commit: only an entry whose generation is the snapshotted one changes.
LEMMA ApplyFacts ==
    ASSUME NEW S, ApplyCommit(S)
    PROVE  /\ \A i \in Ino : i \notin Unmoved(S) => /\ dirty_generation'[i] = dirty_generation[i]
                                                    /\ xet_hash'[i] = xet_hash[i]
           /\ \A i \in Ino : i \in Unmoved(S) => dirty_generation'[i] = 0 /\ xet_hash'[i] = item[i].up
           /\ \A i \in Unmoved(S) : i \in S /\ st[i] = "live" /\ dirty_generation[i] = item[i].gen
           /\ st' = st /\ linked' = linked
<1>1. \A i \in Unmoved(S) : i \in S /\ st[i] = "live" /\ dirty_generation[i] = item[i].gen
  BY DEF Unmoved
<1> QED
  BY <1>1 DEF ApplyCommit

\* A removed staging file, and the handles detached from it.
LEMMA RemoveFacts ==
    ASSUME StagingTypes, NEW i \in Ino, TryRemove(i)
    PROVE  /\ staging'[i] = NoFile /\ \A j \in Ino \ {i} : staging'[j] = staging[j]
           /\ \A c \in Client : attached'[c] = (attached[c] /\ fd[c] # i)
BY DEF StagingTypes, TryRemove

------------------------------------------------------------------------------
(* The inductive invariant, in parts. *)

\* A call and a handle name an inode that has been allocated, and a number that
\* has not been allocated has no staging file.
AllocInv ==
    /\ \A c \in Client : pc[c] # "idle" => st[call[c].ino] # "free"
    /\ \A c \in Client : fd[c] # NoIno => st[fd[c]] # "free"
    /\ \A i \in Ino : st[i] = "free" => staging[i] = NoFile
    /\ phase \in InFlight => \A i \in batch : st[i] # "free"

\* Who holds a staging lock: the call in one of its locked phases, and
\* flush_batch for every file of the batch until the uploads are done.
LockInv ==
    /\ \A c \in Client : pc[c] \in LockedPhases => lock[call[c].ino] = c
    /\ phase = "upload" => \A i \in batch : lock[i] = Loop

\* An inode being created is dirty and has no staging file yet; nobody else
\* knows it.
Private(c) ==
    /\ st[call[c].ino] = "live" /\ staging[call[c].ino] = NoFile
    /\ dirty_generation[call[c].ino] > 0
    /\ \A d \in Client : fd[d] # call[c].ino
    /\ \A d \in Client \ {c} : pc[d] # "idle" => call[d].ino # call[c].ino
    /\ phase \in InFlight => call[c].ino \notin batch
CreateInv == \A c \in Client : pc[c] = "create_file" => Private(c)

\* The files that need a Hub commit are files of the batch.
ChangedInv == phase \in InFlight \ {"upload"} => changed \subseteq batch

\* Who takes which kind of step: the GC runs only under a budget, the calls that
\* remove a staging file unconditionally do so for an inode that has left the
\* table, a download has a hash to download, and a write is to the open file.
PhaseInv ==
    /\ phase \in {"gc_files", "gc_wait"} => HasBudget
    /\ \A c \in Client : pc[c] = "release_gc" => HasBudget
    /\ \A c \in Client : pc[c] \in {"release_unstage", "unlink_drop"} => st[call[c].ino] = "gone"
    /\ \A c \in Client : pc[c] \in {"open_download", "setattr_download"} => call[c].hash # NoFile
    /\ \A c \in Client : pc[c] = "write_mark" => fd[c] = call[c].ino

\* Without a budget the file behind an open handle stays on disk as long as the
\* inode lives, and so do unsaved bytes.
BytesInv ==
    ~HasBudget =>
        /\ \A c \in Client : (fd[c] # NoIno /\ st[fd[c]] = "live") => staging[fd[c]] # NoFile
        /\ DirtyHasBytes

\* AllocInv is preserved.
LEMMA AllocInvStep ==
    ASSUME TypeOK, AllocInv, ChangedInv, Next
    PROVE  AllocInv'
<1> USE DEF NoInodeChange, NoLoopChange, inodeVars, clientVars, loopVars, AllocInv, InFlight
<1>types. InodeTypes /\ StagingTypes /\ ClientTypes /\ LoopTypes
  BY DEF TypeOK
<1>range. /\ batch \subseteq Ino /\ todo \subseteq Ino
          /\ \A d \in Client : call[d].ino \in Ino /\ (fd[d] # NoIno => fd[d] \in Ino)
  BY <1>types, CallTypes DEF LoopTypes, ClientTypes
<1>1. CASE LoopLock \/ LoopUploadFile
  BY <1>1 DEF LoopLock, LoopUploadFile
<1>2. ASSUME NEW c \in Client, Fsync(c) PROVE AllocInv'
  BY <1>2 DEF Fsync
<1>3. CASE (\E i \in Ino : RequeueDirty(i)) \/ (\E i \in Ino : TakeFlushError(i))
           \/ (\E i \in Ino, h \in Content : UpdateRemoteFile(i, h))
  BY <1>3 DEF RequeueDirty, TakeFlushError, UpdateRemoteFile
<1>4. CASE LoopRecv
  BY <1>types, <1>4, <1>range DEF LoopRecv
<1>5. CASE LoopSnapshot
  BY <1>types, <1>5, <1>range, ReleaseAllFacts DEF LoopSnapshot, IsDirty
<1>6. CASE LoopUploadFails
  BY <1>types, <1>6, <1>range, ReleaseAllFacts DEF LoopUploadFails, EndBatch
<1>7. CASE LoopUploaded
  BY <1>types, <1>7, <1>range, ReleaseAllFacts DEF LoopUploaded
<1>8. CASE LoopApplyUnchanged
  BY <1>types, <1>8, <1>range, ApplyFacts DEF LoopApplyUnchanged, Size, ChangedInv
<1>9. CASE LoopCommit
  BY <1>types, <1>9, <1>range DEF LoopCommit
<1>10. CASE LoopCommitFails
  BY <1>types, <1>10, <1>range DEF LoopCommitFails, EndBatch
<1>11. CASE LoopApply
  BY <1>types, <1>11, <1>range, ApplyFacts DEF LoopApply, Size, EndBatch
<1>12. CASE LoopGcRank
  BY <1>types, <1>12, <1>range DEF LoopGcRank, GcCandidates, HasOpenHandles, IsDirty
<1>13. CASE LoopGcOne
  BY <1>types, <1>13, <1>range, RemoveFacts DEF LoopGcOne, GcOne, IsDirty
<1>14. CASE LoopGcNext \/ LoopGcDone
  BY <1>types, <1>14, <1>range DEF LoopGcNext, LoopGcDone
<1>15. ASSUME NEW c \in Client, OpenReuse(c) PROVE AllocInv'
  BY <1>types, <1>15, <1>range, AcquireFacts, GotoFacts DEF OpenReuse, CanReuseStaging, IsDirty
<1>16. ASSUME NEW c \in Client, OpenDownload(c) PROVE AllocInv'
  BY <1>types, <1>16, <1>range, AcquireFacts, GotoFacts
  DEF OpenDownload, CanReuseStaging, IsDirty, NeedsDownload
<1>17. ASSUME NEW c \in Client, OpenCreate(c) PROVE AllocInv'
  BY <1>types, <1>17, <1>range, AcquireFacts, GotoFacts
  DEF OpenCreate, CanReuseStaging, IsDirty, NeedsDownload
<1>18. ASSUME NEW c \in Client, OpenLockEnoent(c) PROVE AllocInv'
  BY <1>types, <1>18, <1>range, ReturnFacts DEF OpenLockEnoent
<1>19. ASSUME NEW c \in Client, SetattrDownload(c) PROVE AllocInv'
  BY <1>types, <1>19, <1>range, AcquireFacts, EnterFacts DEF SetattrDownload
<1>20. ASSUME NEW c \in Client, SetattrPrepare(c) PROVE AllocInv'
  BY <1>types, <1>20, <1>range, AcquireFacts, GotoFacts DEF SetattrPrepare, StagingTypes
<1>21. ASSUME NEW c \in Client, SetattrEnoent(c) PROVE AllocInv'
  BY <1>types, <1>21, <1>range, ReturnFacts DEF SetattrEnoent
<1>22. ASSUME NEW c \in Client, ReleaseGc(c) PROVE AllocInv'
  BY <1>types, <1>22, <1>range, RemoveFacts, ReturnFacts DEF ReleaseGc, GcOne, IsDirty
<1>23. ASSUME NEW c \in Client, UnlinkDrop(c) PROVE AllocInv'
  BY <1>types, <1>23, <1>range, RemoveFacts, ReturnFacts DEF UnlinkDrop
<1>24. ASSUME NEW c \in Client, CreateFile(c) PROVE AllocInv'
  BY <1>types, <1>24, <1>range, ReturnFacts DEF CreateFile
<1>25. ASSUME NEW c \in Client, CreateFileFails(c) PROVE AllocInv'
  BY <1>types, <1>25, <1>range, ReturnFacts DEF CreateFileFails
<1>26. ASSUME NEW c \in Client, OpenDownloaded(c) PROVE AllocInv'
  BY <1>types, <1>26, <1>range, GotoFacts DEF OpenDownloaded
<1>27. ASSUME NEW c \in Client, OpenDownloadFails(c) PROVE AllocInv'
  BY <1>types, <1>27, <1>range, ReleaseFacts, ReturnFacts DEF OpenDownloadFails
<1>28. ASSUME NEW c \in Client, OpenInstall(c) PROVE AllocInv'
  BY <1>types, <1>28, <1>range, DirtyFacts, ReleaseFacts, ReturnFacts DEF OpenInstall
<1>29. ASSUME NEW c \in Client, OpenInstallFails(c) PROVE AllocInv'
  BY <1>types, <1>29, <1>range, ReleaseFacts, ReturnFacts DEF OpenInstallFails
<1>30. ASSUME NEW c \in Client, WriteMark(c) PROVE AllocInv'
  BY <1>types, <1>30, <1>range, DirtyFacts, ReturnFacts DEF WriteMark
<1>31. ASSUME NEW c \in Client, SetattrDownloaded(c) PROVE AllocInv'
  BY <1>types, <1>31, <1>range, GotoFacts DEF SetattrDownloaded
<1>32. ASSUME NEW c \in Client, SetattrDownloadFails(c) PROVE AllocInv'
  BY <1>types, <1>32, <1>range, ReleaseFacts, ReturnFacts DEF SetattrDownloadFails
<1>33. ASSUME NEW c \in Client, SetattrApplyFails(c) PROVE AllocInv'
  BY <1>types, <1>33, <1>range, ReleaseFacts, ReturnFacts DEF SetattrApplyFails
<1>34. ASSUME NEW c \in Client, NEW v \in Content \ {Empty}, SetattrApply(c, v) PROVE AllocInv'
  BY <1>types, <1>34, <1>range, DirtyFacts, ReleaseFacts, ReturnFacts DEF SetattrApply, Enqueue
<1>35. ASSUME NEW c \in Client, ReleaseReap(c) PROVE AllocInv'
  BY <1>types, <1>35, <1>range, GotoFacts, ReturnFacts DEF ReleaseReap, OtherHandles, IsDirty
<1>36. ASSUME NEW c \in Client, ReleaseUnstage(c) PROVE AllocInv'
  BY <1>types, <1>36, <1>range, RemoveFacts, ReturnFacts DEF ReleaseUnstage
<1>37. ASSUME NEW c \in Client, NEW i \in Ino, CreateInsert(c, i) PROVE AllocInv'
  BY <1>types, <1>37, <1>range, DirtyFacts, EnterFacts DEF CreateInsert, Start, InodeTypes
<1>38. ASSUME NEW c \in Client, NEW i \in Ino, Unlink(c, i) PROVE AllocInv'
  <2>1. CASE HasOpenHandles(i)
    BY <1>types, <1>range, <1>38, <2>1 DEF Unlink, Start
  <2>2. CASE ~HasOpenHandles(i)
    <3>1. st[i] = "live" /\ st'[i] = "gone" /\ \A j \in Ino \ {i} : st'[j] = st[j]
      BY <1>types, <1>38, <2>2 DEF Unlink, Known, InodeTypes
    <3>2. /\ pc'[c] = "unlink_drop" /\ call'[c].ino = i
          /\ \A d \in Client \ {c} : pc'[d] = pc[d] /\ call'[d] = call[d]
      BY <1>types, <1>38, <2>2, EnterFacts DEF Unlink
    <3> QED
      BY <1>types, <1>range, <1>38, <2>2, <3>1, <3>2 DEF Unlink, Start
  <2> QED
    BY <2>1, <2>2
<1>39. ASSUME NEW c \in Client, NEW i \in Ino, NEW truncate \in BOOLEAN, OpenStart(c, i, truncate)
       PROVE  AllocInv'
  BY <1>types, <1>39, <1>range, EnterFacts DEF OpenStart, Start, Known
<1>40. ASSUME NEW c \in Client, NEW i \in Ino, NEW truncate \in BOOLEAN, SetattrStart(c, i, truncate)
       PROVE  AllocInv'
  BY <1>types, <1>40, <1>range, EnterFacts DEF SetattrStart, Start, Known
<1>41. ASSUME NEW c \in Client, NEW v \in Content \ {Empty}, WriteAt(c, v) PROVE AllocInv'
  BY <1>types, <1>41, <1>range, EnterFacts DEF WriteAt, Start
<1>42. ASSUME NEW c \in Client, ReleaseEnqueue(c) PROVE AllocInv'
  BY <1>types, <1>42, <1>range, EnterFacts DEF ReleaseEnqueue, Enqueue
<1> QED
  BY <1>1, <1>2, <1>3, <1>4, <1>5, <1>6, <1>7, <1>8, <1>9, <1>10, <1>11, <1>12, <1>13, <1>14,
     <1>15, <1>16, <1>17, <1>18, <1>19, <1>20, <1>21, <1>22, <1>23, <1>24, <1>25, <1>26, <1>27,
     <1>28, <1>29, <1>30, <1>31, <1>32, <1>33, <1>34, <1>35, <1>36, <1>37, <1>38, <1>39, <1>40,
     <1>41, <1>42
  DEF Next, LoopStep, LockStep, CallStep, CallStart, Environment

\* LockInv is preserved: a lock changes hands only when it is free.
LEMMA LockInvStep ==
    ASSUME TypeOK, LockInv, Next
    PROVE  LockInv'
<1> USE DEF NoInodeChange, NoLoopChange, inodeVars, clientVars, loopVars, LockInv, LockedPhases
<1>types. InodeTypes /\ StagingTypes /\ ClientTypes /\ LoopTypes
  BY DEF TypeOK
<1>range. /\ batch \subseteq Ino /\ todo \subseteq Ino
          /\ \A d \in Client : call[d].ino \in Ino /\ (fd[d] # NoIno => fd[d] \in Ino)
  BY <1>types, CallTypes DEF LoopTypes, ClientTypes
<1>1. CASE LoopUploadFile \/ LoopGcOne
  BY <1>1 DEF LoopUploadFile, LoopGcOne
<1>2. ASSUME NEW c \in Client, Fsync(c) PROVE LockInv'
  BY <1>2 DEF Fsync
<1>3. CASE (\E i \in Ino : RequeueDirty(i)) \/ (\E i \in Ino : TakeFlushError(i))
           \/ (\E i \in Ino, h \in Content : UpdateRemoteFile(i, h))
  BY <1>3 DEF RequeueDirty, TakeFlushError, UpdateRemoteFile
<1>4. CASE LoopRecv
  BY <1>types, <1>4, <1>range, Actors DEF LoopRecv
<1>5. CASE LoopLock
  BY <1>types, <1>5, <1>range, AcquireFacts, Actors DEF LoopLock
<1>6. CASE LoopSnapshot
  BY <1>types, <1>6, <1>range, ReleaseAllFacts, Actors DEF LoopSnapshot, IsDirty
<1>7. CASE LoopUploadFails
  BY <1>types, <1>7, <1>range, ReleaseAllFacts, Actors DEF LoopUploadFails, EndBatch
<1>8. CASE LoopUploaded
  BY <1>types, <1>8, <1>range, ReleaseAllFacts, Actors DEF LoopUploaded
<1>9. CASE LoopApplyUnchanged
  BY <1>types, <1>9, <1>range, ApplyFacts, Actors DEF LoopApplyUnchanged, Size
<1>10. CASE LoopCommit
  BY <1>types, <1>10, <1>range, Actors DEF LoopCommit
<1>11. CASE LoopCommitFails
  BY <1>types, <1>11, <1>range, Actors DEF LoopCommitFails, EndBatch
<1>12. CASE LoopApply
  BY <1>types, <1>12, <1>range, ApplyFacts, Actors DEF LoopApply, Size, EndBatch
<1>13. CASE LoopGcRank
  BY <1>types, <1>13, <1>range, Actors DEF LoopGcRank, GcCandidates, HasOpenHandles, IsDirty
<1>14. CASE LoopGcNext \/ LoopGcDone
  BY <1>types, <1>14, <1>range, Actors DEF LoopGcNext, LoopGcDone
<1>15. ASSUME NEW c \in Client, OpenReuse(c) PROVE LockInv'
  BY <1>types, <1>15, <1>range, AcquireFacts, GotoFacts, Actors
  DEF OpenReuse, CanReuseStaging, IsDirty
<1>16. ASSUME NEW c \in Client, OpenDownload(c) PROVE LockInv'
  BY <1>types, <1>16, <1>range, AcquireFacts, GotoFacts, Actors
  DEF OpenDownload, CanReuseStaging, IsDirty, NeedsDownload
<1>17. ASSUME NEW c \in Client, OpenCreate(c) PROVE LockInv'
  BY <1>types, <1>17, <1>range, AcquireFacts, GotoFacts, Actors
  DEF OpenCreate, CanReuseStaging, IsDirty, NeedsDownload
<1>18. ASSUME NEW c \in Client, OpenLockEnoent(c) PROVE LockInv'
  BY <1>types, <1>18, <1>range, ReturnFacts, Actors DEF OpenLockEnoent
<1>19. ASSUME NEW c \in Client, SetattrDownload(c) PROVE LockInv'
  BY <1>types, <1>19, <1>range, AcquireFacts, EnterFacts, Actors DEF SetattrDownload
<1>20. ASSUME NEW c \in Client, SetattrPrepare(c) PROVE LockInv'
  BY <1>types, <1>20, <1>range, AcquireFacts, GotoFacts, Actors DEF SetattrPrepare
<1>21. ASSUME NEW c \in Client, SetattrEnoent(c) PROVE LockInv'
  BY <1>types, <1>21, <1>range, ReturnFacts, Actors DEF SetattrEnoent
<1>22. ASSUME NEW c \in Client, ReleaseGc(c) PROVE LockInv'
  BY <1>types, <1>22, <1>range, RemoveFacts, ReturnFacts, Actors DEF ReleaseGc, GcOne, IsDirty
<1>23. ASSUME NEW c \in Client, UnlinkDrop(c) PROVE LockInv'
  BY <1>types, <1>23, <1>range, RemoveFacts, ReturnFacts, Actors DEF UnlinkDrop
<1>24. ASSUME NEW c \in Client, CreateFile(c) PROVE LockInv'
  BY <1>types, <1>24, <1>range, ReturnFacts, Actors DEF CreateFile
<1>25. ASSUME NEW c \in Client, CreateFileFails(c) PROVE LockInv'
  BY <1>types, <1>25, <1>range, ReturnFacts, Actors DEF CreateFileFails
<1>26. ASSUME NEW c \in Client, OpenDownloaded(c) PROVE LockInv'
  BY <1>types, <1>26, <1>range, GotoFacts, Actors DEF OpenDownloaded
<1>27. ASSUME NEW c \in Client, OpenDownloadFails(c) PROVE LockInv'
  BY <1>types, <1>27, <1>range, ReleaseFacts, ReturnFacts, Actors DEF OpenDownloadFails
<1>28. ASSUME NEW c \in Client, OpenInstall(c) PROVE LockInv'
  BY <1>types, <1>28, <1>range, DirtyFacts, ReleaseFacts, ReturnFacts, Actors DEF OpenInstall
<1>29. ASSUME NEW c \in Client, OpenInstallFails(c) PROVE LockInv'
  BY <1>types, <1>29, <1>range, ReleaseFacts, ReturnFacts, Actors DEF OpenInstallFails
<1>30. ASSUME NEW c \in Client, WriteMark(c) PROVE LockInv'
  BY <1>types, <1>30, <1>range, DirtyFacts, ReturnFacts, Actors DEF WriteMark
<1>31. ASSUME NEW c \in Client, SetattrDownloaded(c) PROVE LockInv'
  BY <1>types, <1>31, <1>range, GotoFacts, Actors DEF SetattrDownloaded
<1>32. ASSUME NEW c \in Client, SetattrDownloadFails(c) PROVE LockInv'
  BY <1>types, <1>32, <1>range, ReleaseFacts, ReturnFacts, Actors DEF SetattrDownloadFails
<1>33. ASSUME NEW c \in Client, SetattrApplyFails(c) PROVE LockInv'
  BY <1>types, <1>33, <1>range, ReleaseFacts, ReturnFacts, Actors DEF SetattrApplyFails
<1>34. ASSUME NEW c \in Client, NEW v \in Content \ {Empty}, SetattrApply(c, v) PROVE LockInv'
  BY <1>types, <1>34, <1>range, DirtyFacts, ReleaseFacts, ReturnFacts, Actors
  DEF SetattrApply, Enqueue
<1>35. ASSUME NEW c \in Client, ReleaseReap(c) PROVE LockInv'
  BY <1>types, <1>35, <1>range, GotoFacts, ReturnFacts, Actors
  DEF ReleaseReap, OtherHandles, IsDirty
<1>36. ASSUME NEW c \in Client, ReleaseUnstage(c) PROVE LockInv'
  BY <1>types, <1>36, <1>range, RemoveFacts, ReturnFacts, Actors DEF ReleaseUnstage
<1>37. ASSUME NEW c \in Client, NEW i \in Ino, CreateInsert(c, i) PROVE LockInv'
  BY <1>types, <1>37, <1>range, DirtyFacts, EnterFacts, Actors DEF CreateInsert, Start
<1>38. ASSUME NEW c \in Client, NEW i \in Ino, Unlink(c, i) PROVE LockInv'
  BY <1>types, <1>38, <1>range, EnterFacts, Actors DEF Unlink, Start, Known, HasOpenHandles
<1>39. ASSUME NEW c \in Client, NEW i \in Ino, NEW truncate \in BOOLEAN, OpenStart(c, i, truncate)
       PROVE  LockInv'
  BY <1>types, <1>39, <1>range, EnterFacts, Actors DEF OpenStart, Start, Known
<1>40. ASSUME NEW c \in Client, NEW i \in Ino, NEW truncate \in BOOLEAN, SetattrStart(c, i, truncate)
       PROVE  LockInv'
  BY <1>types, <1>40, <1>range, EnterFacts, Actors DEF SetattrStart, Start, Known
<1>41. ASSUME NEW c \in Client, NEW v \in Content \ {Empty}, WriteAt(c, v) PROVE LockInv'
  BY <1>types, <1>41, <1>range, EnterFacts, Actors DEF WriteAt, Start
<1>42. ASSUME NEW c \in Client, ReleaseEnqueue(c) PROVE LockInv'
  BY <1>types, <1>42, <1>range, EnterFacts, Actors DEF ReleaseEnqueue, Enqueue
<1> QED
  BY <1>1, <1>2, <1>3, <1>4, <1>5, <1>6, <1>7, <1>8, <1>9, <1>10, <1>11, <1>12, <1>13, <1>14,
     <1>15, <1>16, <1>17, <1>18, <1>19, <1>20, <1>21, <1>22, <1>23, <1>24, <1>25, <1>26, <1>27,
     <1>28, <1>29, <1>30, <1>31, <1>32, <1>33, <1>34, <1>35, <1>36, <1>37, <1>38, <1>39, <1>40,
     <1>41, <1>42
  DEF Next, LoopStep, LockStep, CallStep, CallStart, Environment

\* ChangedInv is preserved.
LEMMA ChangedInvStep ==
    ASSUME TypeOK, ChangedInv, Next
    PROVE  ChangedInv'
<1> USE DEF NoInodeChange, NoLoopChange, inodeVars, clientVars, loopVars, ChangedInv, InFlight
<1>types. InodeTypes /\ StagingTypes /\ ClientTypes /\ LoopTypes
  BY DEF TypeOK
<1>range. /\ batch \subseteq Ino /\ todo \subseteq Ino
          /\ \A d \in Client : call[d].ino \in Ino /\ (fd[d] # NoIno => fd[d] \in Ino)
  BY <1>types, CallTypes DEF LoopTypes, ClientTypes
<1>1. CASE LoopLock \/ LoopUploadFile \/ LoopGcOne
  BY <1>1 DEF LoopLock, LoopUploadFile, LoopGcOne
<1>2. ASSUME NEW c \in Client, OpenReuse(c) \/ OpenDownload(c) \/ OpenCreate(c)
             \/ OpenLockEnoent(c) \/ SetattrDownload(c) \/ SetattrPrepare(c) \/ SetattrEnoent(c)
             \/ ReleaseGc(c) \/ UnlinkDrop(c) \/ CreateFile(c) \/ CreateFileFails(c)
             \/ OpenDownloaded(c) \/ OpenDownloadFails(c) \/ OpenInstall(c) \/ OpenInstallFails(c)
             \/ WriteMark(c) \/ SetattrDownloaded(c) \/ SetattrDownloadFails(c)
             \/ SetattrApplyFails(c) \/ (\E v \in Content \ {Empty} : SetattrApply(c, v))
             \/ ReleaseReap(c) \/ ReleaseUnstage(c) \/ (\E i \in Ino : CreateInsert(c, i))
             \/ (\E i \in Ino : Unlink(c, i))
             \/ (\E i \in Ino, truncate \in BOOLEAN : OpenStart(c, i, truncate))
             \/ (\E i \in Ino, truncate \in BOOLEAN : SetattrStart(c, i, truncate))
             \/ (\E v \in Content \ {Empty} : WriteAt(c, v)) \/ Fsync(c) \/ ReleaseEnqueue(c)
      PROVE  ChangedInv'
  BY <1>2
  DEF OpenReuse, OpenDownload, OpenCreate, OpenLockEnoent, SetattrDownload, SetattrPrepare,
      SetattrEnoent, ReleaseGc, UnlinkDrop, CreateFile, CreateFileFails, OpenDownloaded,
      OpenDownloadFails, OpenInstall, OpenInstallFails, WriteMark, SetattrDownloaded,
      SetattrDownloadFails, SetattrApplyFails, SetattrApply, ReleaseReap, ReleaseUnstage,
      CreateInsert, Unlink, OpenStart, SetattrStart, WriteAt, Fsync, ReleaseEnqueue
<1>3. CASE (\E i \in Ino : RequeueDirty(i)) \/ (\E i \in Ino : TakeFlushError(i))
           \/ (\E i \in Ino, h \in Content : UpdateRemoteFile(i, h))
  BY <1>3 DEF RequeueDirty, TakeFlushError, UpdateRemoteFile
<1>4. CASE LoopRecv
  BY <1>types, <1>4, <1>range DEF LoopRecv
<1>5. CASE LoopSnapshot
  BY <1>types, <1>5, <1>range, ReleaseAllFacts DEF LoopSnapshot, IsDirty
<1>6. CASE LoopUploadFails
  BY <1>types, <1>6, <1>range, ReleaseAllFacts DEF LoopUploadFails, EndBatch
<1>7. CASE LoopUploaded
  BY <1>types, <1>7, <1>range, ReleaseAllFacts DEF LoopUploaded
<1>8. CASE LoopApplyUnchanged
  BY <1>types, <1>8, <1>range, ApplyFacts DEF LoopApplyUnchanged, Size
<1>9. CASE LoopCommit
  BY <1>types, <1>9, <1>range DEF LoopCommit
<1>10. CASE LoopCommitFails
  BY <1>types, <1>10, <1>range DEF LoopCommitFails, EndBatch
<1>11. CASE LoopApply
  BY <1>types, <1>11, <1>range, ApplyFacts DEF LoopApply, Size, EndBatch
<1>12. CASE LoopGcRank
  BY <1>types, <1>12, <1>range DEF LoopGcRank, GcCandidates, HasOpenHandles, IsDirty
<1>13. CASE LoopGcNext \/ LoopGcDone
  BY <1>types, <1>13, <1>range DEF LoopGcNext, LoopGcDone
<1> QED
  BY <1>1, <1>2, <1>3, <1>4, <1>5, <1>6, <1>7, <1>8, <1>9, <1>10, <1>11, <1>12, <1>13
  DEF Next, LoopStep, LockStep, CallStep, CallStart, Environment

\* CreateInv is preserved: no step of another call, and no batch, reaches the new inode.
LEMMA CreateInvStep ==
    ASSUME TypeOK, AllocInv, ChangedInv, CreateInv, Next
    PROVE  CreateInv'
<1> USE DEF NoInodeChange, NoLoopChange, inodeVars, clientVars, loopVars, InFlight
<1>types. InodeTypes /\ StagingTypes /\ ClientTypes /\ LoopTypes
  BY DEF TypeOK
<1>range. /\ batch \subseteq Ino /\ todo \subseteq Ino
          /\ \A d \in Client : call[d].ino \in Ino /\ (fd[d] # NoIno => fd[d] \in Ino)
  BY <1>types, CallTypes DEF LoopTypes, ClientTypes
<1>1. CASE LoopLock \/ LoopUploadFile
  BY <1>1 DEF LoopLock, LoopUploadFile, CreateInv, Private
<1>2. ASSUME NEW c \in Client, Fsync(c) PROVE CreateInv'
  BY <1>2 DEF Fsync, CreateInv, Private
<1>3. CASE (\E i \in Ino : RequeueDirty(i)) \/ (\E i \in Ino : TakeFlushError(i))
           \/ (\E i \in Ino, h \in Content : UpdateRemoteFile(i, h))
  BY <1>3 DEF RequeueDirty, TakeFlushError, UpdateRemoteFile, CreateInv, Private
<1>4. CASE LoopRecv
  BY <1>types, <1>4, <1>range DEF LoopRecv, CreateInv, Private
<1>5. CASE LoopSnapshot
  BY <1>types, <1>5, <1>range, ReleaseAllFacts DEF LoopSnapshot, IsDirty, CreateInv, Private
<1>6. CASE LoopUploadFails
  BY <1>types, <1>6, <1>range, ReleaseAllFacts DEF LoopUploadFails, EndBatch, CreateInv, Private
<1>7. CASE LoopUploaded
  BY <1>types, <1>7, <1>range, ReleaseAllFacts DEF LoopUploaded, CreateInv, Private
<1>8. CASE LoopApplyUnchanged
  BY <1>types, <1>8, <1>range, ApplyFacts
  DEF LoopApplyUnchanged, Size, ChangedInv, CreateInv, Private
<1>9. CASE LoopCommit
  BY <1>types, <1>9, <1>range DEF LoopCommit, CreateInv, Private
<1>10. CASE LoopCommitFails
  BY <1>types, <1>10, <1>range DEF LoopCommitFails, EndBatch, CreateInv, Private
<1>11. CASE LoopApply
  BY <1>types, <1>11, <1>range, ApplyFacts
  DEF LoopApply, Size, EndBatch, ChangedInv, CreateInv, Private
<1>12. CASE LoopGcRank
  BY <1>types, <1>12, <1>range
  DEF LoopGcRank, GcCandidates, HasOpenHandles, IsDirty, CreateInv, Private
<1>13. CASE LoopGcOne
  BY <1>types, <1>13, <1>range, RemoveFacts DEF LoopGcOne, GcOne, IsDirty, CreateInv, Private
<1>14. CASE LoopGcNext \/ LoopGcDone
  BY <1>types, <1>14, <1>range DEF LoopGcNext, LoopGcDone, CreateInv, Private
<1>15. ASSUME NEW c \in Client, OpenReuse(c) PROVE CreateInv'
  BY <1>types, <1>15, <1>range, AcquireFacts, GotoFacts
  DEF OpenReuse, CanReuseStaging, IsDirty, CreateInv, Private
<1>16. ASSUME NEW c \in Client, OpenDownload(c) PROVE CreateInv'
  BY <1>types, <1>16, <1>range, AcquireFacts, GotoFacts
  DEF OpenDownload, CanReuseStaging, IsDirty, NeedsDownload, CreateInv, Private
<1>17. ASSUME NEW c \in Client, OpenCreate(c) PROVE CreateInv'
  BY <1>types, <1>17, <1>range, AcquireFacts, GotoFacts
  DEF OpenCreate, CanReuseStaging, IsDirty, NeedsDownload, CreateInv, Private
<1>18. ASSUME NEW c \in Client, OpenLockEnoent(c) PROVE CreateInv'
  BY <1>types, <1>18, <1>range, ReturnFacts DEF OpenLockEnoent, CreateInv, Private
<1>19. ASSUME NEW c \in Client, SetattrDownload(c) PROVE CreateInv'
  BY <1>types, <1>19, <1>range, AcquireFacts, EnterFacts DEF SetattrDownload, CreateInv, Private
<1>20. ASSUME NEW c \in Client, SetattrPrepare(c) PROVE CreateInv'
  BY <1>types, <1>20, <1>range, AcquireFacts, GotoFacts
  DEF SetattrPrepare, StagingTypes, CreateInv, Private
<1>21. ASSUME NEW c \in Client, SetattrEnoent(c) PROVE CreateInv'
  BY <1>types, <1>21, <1>range, ReturnFacts DEF SetattrEnoent, CreateInv, Private
<1>22. ASSUME NEW c \in Client, ReleaseGc(c) PROVE CreateInv'
  BY <1>types, <1>22, <1>range, RemoveFacts, ReturnFacts
  DEF ReleaseGc, GcOne, IsDirty, CreateInv, Private
<1>23. ASSUME NEW c \in Client, UnlinkDrop(c) PROVE CreateInv'
  BY <1>types, <1>23, <1>range, RemoveFacts, ReturnFacts DEF UnlinkDrop, CreateInv, Private
<1>24. ASSUME NEW c \in Client, CreateFile(c) PROVE CreateInv'
  BY <1>types, <1>24, <1>range, ReturnFacts DEF CreateFile, CreateInv, Private
<1>25. ASSUME NEW c \in Client, CreateFileFails(c) PROVE CreateInv'
  BY <1>types, <1>25, <1>range, ReturnFacts DEF CreateFileFails, CreateInv, Private
<1>26. ASSUME NEW c \in Client, OpenDownloaded(c) PROVE CreateInv'
  BY <1>types, <1>26, <1>range, GotoFacts DEF OpenDownloaded, CreateInv, Private
<1>27. ASSUME NEW c \in Client, OpenDownloadFails(c) PROVE CreateInv'
  BY <1>types, <1>27, <1>range, ReleaseFacts, ReturnFacts DEF OpenDownloadFails, CreateInv, Private
<1>28. ASSUME NEW c \in Client, OpenInstall(c) PROVE CreateInv'
  BY <1>types, <1>28, <1>range, DirtyFacts, ReleaseFacts, ReturnFacts
  DEF OpenInstall, CreateInv, Private
<1>29. ASSUME NEW c \in Client, OpenInstallFails(c) PROVE CreateInv'
  BY <1>types, <1>29, <1>range, ReleaseFacts, ReturnFacts DEF OpenInstallFails, CreateInv, Private
<1>30. ASSUME NEW c \in Client, WriteMark(c) PROVE CreateInv'
  BY <1>types, <1>30, <1>range, DirtyFacts, ReturnFacts DEF WriteMark, CreateInv, Private
<1>31. ASSUME NEW c \in Client, SetattrDownloaded(c) PROVE CreateInv'
  BY <1>types, <1>31, <1>range, GotoFacts DEF SetattrDownloaded, CreateInv, Private
<1>32. ASSUME NEW c \in Client, SetattrDownloadFails(c) PROVE CreateInv'
  BY <1>types, <1>32, <1>range, ReleaseFacts, ReturnFacts
  DEF SetattrDownloadFails, CreateInv, Private
<1>33. ASSUME NEW c \in Client, SetattrApplyFails(c) PROVE CreateInv'
  BY <1>types, <1>33, <1>range, ReleaseFacts, ReturnFacts DEF SetattrApplyFails, CreateInv, Private
<1>34. ASSUME NEW c \in Client, NEW v \in Content \ {Empty}, SetattrApply(c, v) PROVE CreateInv'
  BY SMTT(30), <1>types, <1>34, <1>range, DirtyFacts, ReleaseFacts, ReturnFacts
  DEF SetattrApply, Enqueue, CreateInv, Private
<1>35. ASSUME NEW c \in Client, ReleaseReap(c) PROVE CreateInv'
  <2>1. /\ pc'[c] \in {"release_unstage", "release_gc", "idle"} /\ (pc'[c] # "idle" => call'[c] = call[c])
        /\ \A d \in Client \ {c} : pc'[d] = pc[d] /\ call'[d] = call[d]
    BY <1>types, <1>35, GotoFacts, ReturnFacts DEF ReleaseReap
  <2>2. fd'[c] = NoIno /\ \A d \in Client \ {c} : fd'[d] = fd[d]
    BY <1>types, <1>35 DEF ReleaseReap, ClientTypes
  <2>3. \A j \in Ino \ {call[c].ino} : st'[j] = st[j]
    BY <1>35 DEF ReleaseReap
  <2>4. pc[c] = "release_reap" /\ UNCHANGED <<linked, dirty_generation, staging_is_current, staging, lock, loopVars>>
    BY <1>35 DEF ReleaseReap
  <2> QED
    <3> SUFFICES ASSUME NEW b \in Client, pc'[b] = "create_file" PROVE Private(b)'
      BY DEF CreateInv
    <3>1. b # c /\ pc[b] = "create_file" /\ call'[b] = call[b] /\ Private(b)
      BY <2>1 DEF CreateInv
    <3>2. call[b].ino # call[c].ino /\ call[b].ino \in Ino /\ call[b].ino # NoIno
      BY <1>range, <2>4, <3>1, Constants DEF Private
    <3> QED
      BY <2>1, <2>2, <2>3, <2>4, <3>1, <3>2 DEF Private
<1>36. ASSUME NEW c \in Client, ReleaseUnstage(c) PROVE CreateInv'
  BY <1>types, <1>36, <1>range, RemoveFacts, ReturnFacts DEF ReleaseUnstage, CreateInv, Private
<1>37. ASSUME NEW c \in Client, NEW i \in Ino, CreateInsert(c, i) PROVE CreateInv'
  <2>1. /\ pc'[c] = "create_file" /\ call'[c].ino = i
        /\ \A d \in Client \ {c} : pc'[d] = pc[d] /\ call'[d] = call[d]
    BY <1>types, <1>37, EnterFacts DEF CreateInsert
  <2>2. st[i] = "free" /\ st'[i] = "live" /\ \A j \in Ino \ {i} : st'[j] = st[j]
    BY <1>types, <1>37 DEF CreateInsert, InodeTypes
  <2>3. dirty_generation'[i] > 0 /\ \A j \in Ino \ {i} : dirty_generation'[j] = dirty_generation[j]
    BY <1>types, <1>37, DirtyFacts DEF CreateInsert
  <2>4. /\ staging[i] = NoFile /\ (phase \in InFlight => i \notin batch)
        /\ \A d \in Client : fd[d] # i /\ (pc[d] # "idle" => call[d].ino # i)
    BY <2>2, Constants DEF AllocInv
  <2> QED
    BY <1>types, <1>range, <1>37, <2>1, <2>2, <2>3, <2>4 DEF CreateInsert, CreateInv, Private
<1>38. ASSUME NEW c \in Client, NEW i \in Ino, Unlink(c, i) PROVE CreateInv'
  <2>1. CASE HasOpenHandles(i)
    BY <1>types, <1>range, <1>38, <2>1 DEF Unlink, CreateInv, Private, Start, Known
  <2>2. CASE ~HasOpenHandles(i)
    <3>1. st[i] = "live" /\ st'[i] = "gone" /\ \A j \in Ino \ {i} : st'[j] = st[j]
      BY <1>types, <1>38, <2>2 DEF Unlink, Known, InodeTypes
    <3>2. /\ pc'[c] = "unlink_drop" /\ call'[c].ino = i
          /\ \A d \in Client \ {c} : pc'[d] = pc[d] /\ call'[d] = call[d]
      BY <1>types, <1>38, <2>2, EnterFacts DEF Unlink
    <3> QED
      BY <1>types, <1>range, <1>38, <2>2, <3>1, <3>2 DEF Unlink, CreateInv, Private, Start, Known
  <2> QED
    BY <2>1, <2>2
<1>39. ASSUME NEW c \in Client, NEW i \in Ino, NEW truncate \in BOOLEAN, OpenStart(c, i, truncate)
       PROVE  CreateInv'
  BY <1>types, <1>39, <1>range, EnterFacts DEF OpenStart, Start, Known, CreateInv, Private
<1>40. ASSUME NEW c \in Client, NEW i \in Ino, NEW truncate \in BOOLEAN, SetattrStart(c, i, truncate)
       PROVE  CreateInv'
  BY <1>types, <1>40, <1>range, EnterFacts DEF SetattrStart, Start, Known, CreateInv, Private
<1>41. ASSUME NEW c \in Client, NEW v \in Content \ {Empty}, WriteAt(c, v) PROVE CreateInv'
  BY <1>types, <1>41, <1>range, EnterFacts DEF WriteAt, Start, CreateInv, Private
<1>42. ASSUME NEW c \in Client, ReleaseEnqueue(c) PROVE CreateInv'
  BY <1>types, <1>42, <1>range, EnterFacts DEF ReleaseEnqueue, Enqueue, CreateInv, Private
<1> QED
  BY <1>1, <1>2, <1>3, <1>4, <1>5, <1>6, <1>7, <1>8, <1>9, <1>10, <1>11, <1>12, <1>13, <1>14,
     <1>15, <1>16, <1>17, <1>18, <1>19, <1>20, <1>21, <1>22, <1>23, <1>24, <1>25, <1>26, <1>27,
     <1>28, <1>29, <1>30, <1>31, <1>32, <1>33, <1>34, <1>35, <1>36, <1>37, <1>38, <1>39, <1>40,
     <1>41, <1>42
  DEF Next, LoopStep, LockStep, CallStep, CallStart, Environment

\* PhaseInv is preserved.
LEMMA PhaseInvStep ==
    ASSUME TypeOK, PhaseInv, Next
    PROVE  PhaseInv'
<1> USE DEF NoInodeChange, NoLoopChange, inodeVars, clientVars, loopVars, PhaseInv
<1>types. InodeTypes /\ StagingTypes /\ ClientTypes /\ LoopTypes
  BY DEF TypeOK
<1>range. /\ batch \subseteq Ino /\ todo \subseteq Ino
          /\ \A d \in Client : call[d].ino \in Ino /\ (fd[d] # NoIno => fd[d] \in Ino)
  BY <1>types, CallTypes DEF LoopTypes, ClientTypes
<1>1. CASE LoopLock \/ LoopUploadFile \/ LoopGcOne
  BY <1>1 DEF LoopLock, LoopUploadFile, LoopGcOne
<1>2. ASSUME NEW c \in Client, Fsync(c) PROVE PhaseInv'
  BY <1>2 DEF Fsync
<1>3. CASE (\E i \in Ino : RequeueDirty(i)) \/ (\E i \in Ino : TakeFlushError(i))
           \/ (\E i \in Ino, h \in Content : UpdateRemoteFile(i, h))
  BY <1>3 DEF RequeueDirty, TakeFlushError, UpdateRemoteFile
<1>4. CASE LoopRecv
  BY <1>types, <1>4, <1>range DEF LoopRecv
<1>5. CASE LoopSnapshot
  BY <1>types, <1>5, <1>range, ReleaseAllFacts DEF LoopSnapshot, IsDirty
<1>6. CASE LoopUploadFails
  BY <1>types, <1>6, <1>range, ReleaseAllFacts DEF LoopUploadFails, EndBatch
<1>7. CASE LoopUploaded
  BY <1>types, <1>7, <1>range, ReleaseAllFacts DEF LoopUploaded
<1>8. CASE LoopApplyUnchanged
  BY <1>types, <1>8, <1>range, ApplyFacts DEF LoopApplyUnchanged, Size
<1>9. CASE LoopCommit
  BY <1>types, <1>9, <1>range DEF LoopCommit
<1>10. CASE LoopCommitFails
  BY <1>types, <1>10, <1>range DEF LoopCommitFails, EndBatch
<1>11. CASE LoopApply
  BY <1>types, <1>11, <1>range, ApplyFacts DEF LoopApply, Size, EndBatch
<1>12. CASE LoopGcRank
  BY <1>types, <1>12, <1>range DEF LoopGcRank, GcCandidates, HasOpenHandles, IsDirty
<1>13. CASE LoopGcNext \/ LoopGcDone
  BY <1>types, <1>13, <1>range DEF LoopGcNext, LoopGcDone
<1>14. ASSUME NEW c \in Client, OpenReuse(c) PROVE PhaseInv'
  BY <1>types, <1>14, <1>range, AcquireFacts, GotoFacts DEF OpenReuse, CanReuseStaging, IsDirty
<1>15. ASSUME NEW c \in Client, OpenDownload(c) PROVE PhaseInv'
  BY <1>types, <1>15, <1>range, AcquireFacts, GotoFacts
  DEF OpenDownload, CanReuseStaging, IsDirty, NeedsDownload, NoHash, NoFile
<1>16. ASSUME NEW c \in Client, OpenCreate(c) PROVE PhaseInv'
  BY <1>types, <1>16, <1>range, AcquireFacts, GotoFacts
  DEF OpenCreate, CanReuseStaging, IsDirty, NeedsDownload
<1>17. ASSUME NEW c \in Client, OpenLockEnoent(c) PROVE PhaseInv'
  BY <1>types, <1>17, <1>range, ReturnFacts DEF OpenLockEnoent
<1>18. ASSUME NEW c \in Client, SetattrDownload(c) PROVE PhaseInv'
  BY <1>types, <1>18, <1>range, AcquireFacts, EnterFacts, EnterLocals, Distinct DEF SetattrDownload
<1>19. ASSUME NEW c \in Client, SetattrPrepare(c) PROVE PhaseInv'
  BY <1>types, <1>19, <1>range, AcquireFacts, GotoFacts DEF SetattrPrepare
<1>20. ASSUME NEW c \in Client, SetattrEnoent(c) PROVE PhaseInv'
  BY <1>types, <1>20, <1>range, ReturnFacts DEF SetattrEnoent
<1>21. ASSUME NEW c \in Client, ReleaseGc(c) PROVE PhaseInv'
  BY <1>types, <1>21, <1>range, RemoveFacts, ReturnFacts DEF ReleaseGc, GcOne, IsDirty
<1>22. ASSUME NEW c \in Client, UnlinkDrop(c) PROVE PhaseInv'
  BY <1>types, <1>22, <1>range, RemoveFacts, ReturnFacts DEF UnlinkDrop
<1>23. ASSUME NEW c \in Client, CreateFile(c) PROVE PhaseInv'
  BY <1>types, <1>23, <1>range, ReturnFacts DEF CreateFile
<1>24. ASSUME NEW c \in Client, CreateFileFails(c) PROVE PhaseInv'
  BY <1>types, <1>24, <1>range, ReturnFacts DEF CreateFileFails
<1>25. ASSUME NEW c \in Client, OpenDownloaded(c) PROVE PhaseInv'
  BY <1>types, <1>25, <1>range, GotoFacts DEF OpenDownloaded
<1>26. ASSUME NEW c \in Client, OpenDownloadFails(c) PROVE PhaseInv'
  BY <1>types, <1>26, <1>range, ReleaseFacts, ReturnFacts DEF OpenDownloadFails
<1>27. ASSUME NEW c \in Client, OpenInstall(c) PROVE PhaseInv'
  BY <1>types, <1>27, <1>range, DirtyFacts, ReleaseFacts, ReturnFacts DEF OpenInstall
<1>28. ASSUME NEW c \in Client, OpenInstallFails(c) PROVE PhaseInv'
  BY <1>types, <1>28, <1>range, ReleaseFacts, ReturnFacts DEF OpenInstallFails
<1>29. ASSUME NEW c \in Client, WriteMark(c) PROVE PhaseInv'
  BY <1>types, <1>29, <1>range, DirtyFacts, ReturnFacts DEF WriteMark
<1>30. ASSUME NEW c \in Client, SetattrDownloaded(c) PROVE PhaseInv'
  BY <1>types, <1>30, <1>range, GotoFacts DEF SetattrDownloaded
<1>31. ASSUME NEW c \in Client, SetattrDownloadFails(c) PROVE PhaseInv'
  BY <1>types, <1>31, <1>range, ReleaseFacts, ReturnFacts DEF SetattrDownloadFails
<1>32. ASSUME NEW c \in Client, SetattrApplyFails(c) PROVE PhaseInv'
  BY <1>types, <1>32, <1>range, ReleaseFacts, ReturnFacts DEF SetattrApplyFails
<1>33. ASSUME NEW c \in Client, NEW v \in Content \ {Empty}, SetattrApply(c, v) PROVE PhaseInv'
  BY <1>types, <1>33, <1>range, DirtyFacts, ReleaseFacts, ReturnFacts DEF SetattrApply, Enqueue
<1>34. ASSUME NEW c \in Client, ReleaseReap(c) PROVE PhaseInv'
  BY <1>types, <1>34, <1>range, GotoFacts, ReturnFacts
  DEF ReleaseReap, OtherHandles, IsDirty, InodeTypes
<1>35. ASSUME NEW c \in Client, ReleaseUnstage(c) PROVE PhaseInv'
  BY <1>types, <1>35, <1>range, RemoveFacts, ReturnFacts DEF ReleaseUnstage
<1>36. ASSUME NEW c \in Client, NEW i \in Ino, CreateInsert(c, i) PROVE PhaseInv'
  BY <1>types, <1>36, <1>range, DirtyFacts, EnterFacts DEF CreateInsert, Start, InodeTypes
<1>37. ASSUME NEW c \in Client, NEW i \in Ino, Unlink(c, i) PROVE PhaseInv'
  <2>1. CASE HasOpenHandles(i)
    BY <1>types, <1>range, <1>37, <2>1 DEF Unlink, Start
  <2>2. CASE ~HasOpenHandles(i)
    <3>1. st[i] = "live" /\ st'[i] = "gone" /\ \A j \in Ino \ {i} : st'[j] = st[j]
      BY <1>types, <1>37, <2>2 DEF Unlink, Known, InodeTypes
    <3>2. /\ pc'[c] = "unlink_drop" /\ call'[c].ino = i
          /\ \A d \in Client \ {c} : pc'[d] = pc[d] /\ call'[d] = call[d]
      BY <1>types, <1>37, <2>2, EnterFacts DEF Unlink
    <3> QED
      BY <1>types, <1>range, <1>37, <2>2, <3>1, <3>2 DEF Unlink, Start
  <2> QED
    BY <2>1, <2>2
<1>38. ASSUME NEW c \in Client, NEW i \in Ino, NEW truncate \in BOOLEAN, OpenStart(c, i, truncate)
       PROVE  PhaseInv'
  BY <1>types, <1>38, <1>range, EnterFacts DEF OpenStart, Start, Known
<1>39. ASSUME NEW c \in Client, NEW i \in Ino, NEW truncate \in BOOLEAN, SetattrStart(c, i, truncate)
       PROVE  PhaseInv'
  BY <1>types, <1>39, <1>range, EnterFacts DEF SetattrStart, Start, Known
<1>40. ASSUME NEW c \in Client, NEW v \in Content \ {Empty}, WriteAt(c, v) PROVE PhaseInv'
  BY <1>types, <1>40, <1>range, EnterFacts DEF WriteAt, Start
<1>41. ASSUME NEW c \in Client, ReleaseEnqueue(c) PROVE PhaseInv'
  BY <1>types, <1>41, <1>range, EnterFacts DEF ReleaseEnqueue, Enqueue
<1> QED
  BY <1>1, <1>2, <1>3, <1>4, <1>5, <1>6, <1>7, <1>8, <1>9, <1>10, <1>11, <1>12, <1>13, <1>14,
     <1>15, <1>16, <1>17, <1>18, <1>19, <1>20, <1>21, <1>22, <1>23, <1>24, <1>25, <1>26, <1>27,
     <1>28, <1>29, <1>30, <1>31, <1>32, <1>33, <1>34, <1>35, <1>36, <1>37, <1>38, <1>39, <1>40,
     <1>41
  DEF Next, LoopStep, LockStep, CallStep, CallStart, Environment

\* A step of a client that is not creating a file makes no inode known.
LEMMA KnownKept ==
    ASSUME NEW c \in Client, pc[c] # "create_file",
           \A d \in Client \ {c} : pc'[d] = pc[d] /\ call'[d] = call[d],
           NEW j \in Ino, st'[j] = "live" => st[j] = "live", Known(j)'
    PROVE  Known(j)
BY DEF Known

\* When a step keeps BytesInv: the files of living inodes stay, and what becomes
\* dirty, known or open has a file.
LEMMA BytesKept ==
    ASSUME BytesInv, ClientTypes',
           \A j \in Ino : st'[j] = "live" => st[j] = "live",
           \A j \in Ino : (st'[j] = "live" /\ staging[j] # NoFile) => staging'[j] # NoFile,
           \A j \in Ino : linked'[j] => linked[j],
           \A j \in Ino : dirty_generation'[j] > 0 => dirty_generation[j] > 0 \/ staging'[j] # NoFile,
           \A j \in Ino : Known(j)' => Known(j) \/ staging'[j] # NoFile,
           \A d \in Client : fd'[d] # NoIno => (fd'[d] = fd[d] \/ staging'[fd'[d]] # NoFile)
    PROVE  BytesInv'
<1> SUFFICES ASSUME ~HasBudget
             PROVE  /\ \A d \in Client : (fd'[d] # NoIno /\ st'[fd'[d]] = "live") => staging'[fd'[d]] # NoFile
                    /\ DirtyHasBytes'
  BY DEF BytesInv
<1>1. \A d \in Client : fd'[d] # NoIno => fd'[d] \in Ino
  BY DEF ClientTypes
<1>2. \A d \in Client : (fd'[d] # NoIno /\ st'[fd'[d]] = "live") => staging'[fd'[d]] # NoFile
  BY <1>1 DEF BytesInv
<1>3. ASSUME NEW j \in Ino, Known(j)', linked'[j], dirty_generation'[j] > 0
      PROVE  staging'[j] # NoFile
  <2>1. st'[j] = "live"
    BY <1>3 DEF Known
  <2> QED
    BY <1>3, <2>1 DEF BytesInv, DirtyHasBytes, IsDirty
<1> QED
  BY <1>2, <1>3 DEF DirtyHasBytes, IsDirty

\* BytesInv is preserved.
LEMMA BytesInvStep ==
    ASSUME TypeOK, TypeOK', AllocInv, LockInv, CreateInv, PhaseInv, BytesInv, Next
    PROVE  BytesInv'
<1> USE DEF NoInodeChange, NoLoopChange, inodeVars, clientVars, loopVars
<1>types. InodeTypes /\ StagingTypes /\ ClientTypes /\ LoopTypes
  BY DEF TypeOK
<1>range. /\ batch \subseteq Ino /\ todo \subseteq Ino
          /\ \A d \in Client : call[d].ino \in Ino /\ (fd[d] # NoIno => fd[d] \in Ino)
  BY <1>types, CallTypes DEF LoopTypes, ClientTypes
<1>after. ClientTypes'
  BY DEF TypeOK
<1>1. CASE LoopRecv \/ LoopLock \/ LoopSnapshot \/ LoopUploadFile \/ LoopUploadFails
           \/ LoopUploaded \/ LoopCommit \/ LoopCommitFails \/ LoopGcRank \/ LoopGcNext \/ LoopGcDone
  BY <1>1
  DEF LoopRecv, LoopLock, LoopSnapshot, LoopUploadFile, LoopUploadFails, LoopUploaded, LoopCommit,
      LoopCommitFails, LoopGcRank, LoopGcNext, LoopGcDone, BytesInv, DirtyHasBytes, IsDirty, Known, PhaseInv
<1>2. ASSUME NEW c \in Client, Fsync(c) PROVE BytesInv'
  BY <1>2 DEF Fsync, BytesInv, DirtyHasBytes, IsDirty, Known, PhaseInv
<1>3. CASE (\E i \in Ino : RequeueDirty(i)) \/ (\E i \in Ino : TakeFlushError(i))
           \/ (\E i \in Ino, h \in Content : UpdateRemoteFile(i, h))
  BY <1>3
  DEF RequeueDirty, TakeFlushError, UpdateRemoteFile, BytesInv, DirtyHasBytes, IsDirty, Known,
      PhaseInv
<1>4. CASE LoopApplyUnchanged
  BY <1>types, <1>4, <1>range, ApplyFacts
  DEF LoopApplyUnchanged, Size, BytesInv, DirtyHasBytes, IsDirty, Known, PhaseInv
<1>5. CASE LoopApply
  BY <1>types, <1>5, <1>range, ApplyFacts
  DEF LoopApply, Size, EndBatch, BytesInv, DirtyHasBytes, IsDirty, Known, PhaseInv
<1>6. CASE LoopGcOne
  BY <1>types, <1>6, <1>range, RemoveFacts
  DEF LoopGcOne, GcOne, IsDirty, BytesInv, DirtyHasBytes, IsDirty, Known, PhaseInv
<1>7. ASSUME NEW c \in Client, OpenReuse(c) PROVE BytesInv'
  BY <1>types, <1>7, <1>range, AcquireFacts, GotoFacts, Constants
  DEF OpenReuse, CanReuseStaging, IsDirty, BytesInv, DirtyHasBytes, IsDirty, Known, PhaseInv
<1>8. ASSUME NEW c \in Client, OpenDownload(c) PROVE BytesInv'
  BY <1>types, <1>8, <1>range, AcquireFacts, GotoFacts, Constants
  DEF OpenDownload, CanReuseStaging, IsDirty, NeedsDownload, BytesInv, DirtyHasBytes, IsDirty,
      Known, PhaseInv
<1>9. ASSUME NEW c \in Client, OpenCreate(c) PROVE BytesInv'
  <2>1. pc[c] # "create_file" /\ \A d \in Client \ {c} : pc'[d] = pc[d] /\ call'[d] = call[d]
    BY <1>types, <1>9, GotoFacts DEF OpenCreate, Start
  <2>2. \A j \in Ino : st'[j] = "live" => st[j] = "live"
    BY <1>9 DEF OpenCreate
  <2>3. \A j \in Ino : Known(j)' => Known(j)
    BY <2>1, <2>2, KnownKept
  <2>4. \A j \in Ino : (st'[j] = "live" /\ staging[j] # NoFile) => staging'[j] # NoFile
    BY <1>types, <1>range, <1>9, Distinct DEF OpenCreate, StagingTypes
  <2> QED
    BY <1>types, <1>range, <1>9, <1>after, <2>2, <2>3, <2>4, BytesKept DEF OpenCreate
<1>10. ASSUME NEW c \in Client, OpenLockEnoent(c) PROVE BytesInv'
  BY <1>types, <1>10, <1>range, ReturnFacts, Constants
  DEF OpenLockEnoent, BytesInv, DirtyHasBytes, IsDirty, Known, PhaseInv
<1>11. ASSUME NEW c \in Client, SetattrDownload(c) PROVE BytesInv'
  BY <1>types, <1>11, <1>range, AcquireFacts, EnterFacts, Constants
  DEF SetattrDownload, BytesInv, DirtyHasBytes, IsDirty, Known, PhaseInv
<1>12. ASSUME NEW c \in Client, SetattrPrepare(c) PROVE BytesInv'
  <2>1. pc[c] # "create_file" /\ \A d \in Client \ {c} : pc'[d] = pc[d] /\ call'[d] = call[d]
    BY <1>types, <1>12, GotoFacts DEF SetattrPrepare, Start
  <2>2. \A j \in Ino : st'[j] = "live" => st[j] = "live"
    BY <1>12 DEF SetattrPrepare
  <2>3. \A j \in Ino : Known(j)' => Known(j)
    BY <2>1, <2>2, KnownKept
  <2>4. \A j \in Ino : (st'[j] = "live" /\ staging[j] # NoFile) => staging'[j] # NoFile
    BY <1>types, <1>range, <1>12, Distinct DEF SetattrPrepare, StagingTypes
  <2> QED
    BY <1>types, <1>range, <1>12, <1>after, <2>2, <2>3, <2>4, BytesKept DEF SetattrPrepare
<1>13. ASSUME NEW c \in Client, SetattrEnoent(c) PROVE BytesInv'
  BY <1>types, <1>13, <1>range, ReturnFacts, Constants
  DEF SetattrEnoent, BytesInv, DirtyHasBytes, IsDirty, Known, PhaseInv
<1>14. ASSUME NEW c \in Client, ReleaseGc(c) PROVE BytesInv'
  BY <1>types, <1>14, <1>range, RemoveFacts, ReturnFacts, Constants
  DEF ReleaseGc, GcOne, IsDirty, BytesInv, DirtyHasBytes, IsDirty, Known, PhaseInv
<1>15. ASSUME NEW c \in Client, UnlinkDrop(c) PROVE BytesInv'
  <2>1. pc[c] # "create_file" /\ \A d \in Client \ {c} : pc'[d] = pc[d] /\ call'[d] = call[d]
    BY <1>types, <1>15, ReturnFacts DEF UnlinkDrop, Start
  <2>2. \A j \in Ino : st'[j] = "live" => st[j] = "live"
    BY <1>15 DEF UnlinkDrop
  <2>3. \A j \in Ino : Known(j)' => Known(j)
    BY <2>1, <2>2, KnownKept
  <2>4. \A j \in Ino : (st'[j] = "live" /\ staging[j] # NoFile) => staging'[j] # NoFile
    BY <1>types, <1>range, <1>15, RemoveFacts DEF UnlinkDrop, PhaseInv
  <2> QED
    BY <1>types, <1>range, <1>15, <1>after, <2>2, <2>3, <2>4, BytesKept DEF UnlinkDrop
<1>16. ASSUME NEW c \in Client, CreateFile(c) PROVE BytesInv'
  <2>1. /\ pc[c] = "create_file" /\ \A d \in Client \ {c} : pc'[d] = pc[d] /\ call'[d] = call[d]
    BY <1>types, <1>16, ReturnFacts DEF CreateFile
  <2>2. staging'[call[c].ino] # NoFile /\ \A j \in Ino \ {call[c].ino} : staging'[j] = staging[j]
    BY <1>types, <1>range, <1>16, Distinct DEF CreateFile, StagingTypes
  <2>3. \A j \in Ino \ {call[c].ino} : Known(j)' => Known(j)
    BY <1>16, <2>1 DEF CreateFile, Known
  <2>4. \A d \in Client : fd'[d] # NoIno => (fd'[d] = fd[d] \/ staging'[fd'[d]] # NoFile)
    BY <1>types, <1>16, <2>2 DEF CreateFile, ClientTypes
  <2> QED
    BY <1>16, <1>after, <2>2, <2>3, <2>4, BytesKept DEF CreateFile
<1>17. ASSUME NEW c \in Client, CreateFileFails(c) PROVE BytesInv'
  <2>1. \A d \in Client \ {c} : pc'[d] = pc[d] /\ call'[d] = call[d]
    BY <1>types, <1>17, ReturnFacts DEF CreateFileFails
  <2>2. st'[call[c].ino] = "gone" /\ \A j \in Ino \ {call[c].ino} : st'[j] = st[j]
    BY <1>types, <1>range, <1>17 DEF CreateFileFails, InodeTypes
  <2>3. \A j \in Ino : Known(j)' => Known(j)
    BY <2>1, <2>2 DEF Known
  <2> QED
    BY <1>17, <1>after, <2>2, <2>3, BytesKept DEF CreateFileFails
<1>18. ASSUME NEW c \in Client, OpenDownloaded(c) PROVE BytesInv'
  BY <1>types, <1>18, <1>range, GotoFacts, Constants
  DEF OpenDownloaded, BytesInv, DirtyHasBytes, IsDirty, Known, PhaseInv
<1>19. ASSUME NEW c \in Client, OpenDownloadFails(c) PROVE BytesInv'
  <2>1. pc[c] # "create_file" /\ \A d \in Client \ {c} : pc'[d] = pc[d] /\ call'[d] = call[d]
    BY <1>types, <1>19, ReturnFacts DEF OpenDownloadFails, Start
  <2>2. \A j \in Ino : st'[j] = "live" => st[j] = "live"
    BY <1>19 DEF OpenDownloadFails
  <2>3. \A j \in Ino : Known(j)' => Known(j)
    BY <2>1, <2>2, KnownKept
  <2>4. \A j \in Ino : (st'[j] = "live" /\ staging[j] # NoFile) => staging'[j] # NoFile
    BY <1>types, <1>range, <1>19, Distinct DEF OpenDownloadFails, StagingTypes
  <2> QED
    BY <1>types, <1>range, <1>19, <1>after, <2>2, <2>3, <2>4, BytesKept DEF OpenDownloadFails
<1>20. ASSUME NEW c \in Client, OpenInstall(c) PROVE BytesInv'
  BY <1>types, <1>20, <1>range, DirtyFacts, ReleaseFacts, ReturnFacts, Constants
  DEF OpenInstall, BytesInv, DirtyHasBytes, IsDirty, Known, PhaseInv
<1>21. ASSUME NEW c \in Client, OpenInstallFails(c) PROVE BytesInv'
  BY <1>types, <1>21, <1>range, ReleaseFacts, ReturnFacts, Constants
  DEF OpenInstallFails, BytesInv, DirtyHasBytes, IsDirty, Known, PhaseInv
<1>22. ASSUME NEW c \in Client, WriteMark(c) PROVE BytesInv'
  BY <1>types, <1>22, <1>range, DirtyFacts, ReturnFacts, Constants
  DEF WriteMark, BytesInv, DirtyHasBytes, IsDirty, Known, PhaseInv
<1>23. ASSUME NEW c \in Client, SetattrDownloaded(c) PROVE BytesInv'
  BY <1>types, <1>23, <1>range, GotoFacts, Constants
  DEF SetattrDownloaded, BytesInv, DirtyHasBytes, IsDirty, Known, PhaseInv
<1>24. ASSUME NEW c \in Client, SetattrDownloadFails(c) PROVE BytesInv'
  <2>1. pc[c] # "create_file" /\ \A d \in Client \ {c} : pc'[d] = pc[d] /\ call'[d] = call[d]
    BY <1>types, <1>24, ReturnFacts DEF SetattrDownloadFails, Start
  <2>2. \A j \in Ino : st'[j] = "live" => st[j] = "live"
    BY <1>24 DEF SetattrDownloadFails
  <2>3. \A j \in Ino : Known(j)' => Known(j)
    BY <2>1, <2>2, KnownKept
  <2>4. \A j \in Ino : (st'[j] = "live" /\ staging[j] # NoFile) => staging'[j] # NoFile
    BY <1>types, <1>range, <1>24, Distinct DEF SetattrDownloadFails, StagingTypes
  <2> QED
    BY <1>types, <1>range, <1>24, <1>after, <2>2, <2>3, <2>4, BytesKept DEF SetattrDownloadFails
<1>25. ASSUME NEW c \in Client, SetattrApplyFails(c) PROVE BytesInv'
  BY <1>types, <1>25, <1>range, ReleaseFacts, ReturnFacts, Constants
  DEF SetattrApplyFails, BytesInv, DirtyHasBytes, IsDirty, Known, PhaseInv
<1>26. ASSUME NEW c \in Client, NEW v \in Content \ {Empty}, SetattrApply(c, v) PROVE BytesInv'
  <2>1. pc[c] # "create_file" /\ \A d \in Client \ {c} : pc'[d] = pc[d] /\ call'[d] = call[d]
    BY <1>types, <1>26, ReturnFacts DEF SetattrApply, Start
  <2>2. \A j \in Ino : st'[j] = "live" => st[j] = "live"
    BY <1>26 DEF SetattrApply
  <2>3. \A j \in Ino : Known(j)' => Known(j)
    BY <2>1, <2>2, KnownKept
  <2>4. \A j \in Ino : (st'[j] = "live" /\ staging[j] # NoFile) => staging'[j] # NoFile
    BY <1>types, <1>range, <1>26, Distinct DEF SetattrApply, StagingTypes
  <2> QED
    BY <1>types, <1>range, <1>26, <1>after, <2>2, <2>3, <2>4, BytesKept, DirtyFacts, Distinct
    DEF SetattrApply, StagingTypes
<1>27. ASSUME NEW c \in Client, ReleaseReap(c) PROVE BytesInv'
  <2>1. pc[c] # "create_file" /\ \A d \in Client \ {c} : pc'[d] = pc[d] /\ call'[d] = call[d]
    BY <1>types, <1>27, GotoFacts, ReturnFacts DEF ReleaseReap, Start
  <2>2. \A j \in Ino : st'[j] = "live" => st[j] = "live"
    BY <1>types, <1>27 DEF ReleaseReap, InodeTypes
  <2>3. \A j \in Ino : Known(j)' => Known(j)
    BY <2>1, <2>2, KnownKept
  <2>4. \A j \in Ino : (st'[j] = "live" /\ staging[j] # NoFile) => staging'[j] # NoFile
    BY <1>27 DEF ReleaseReap
  <2> QED
    BY <1>types, <1>range, <1>27, <1>after, <2>2, <2>3, <2>4, BytesKept DEF ReleaseReap
<1>28. ASSUME NEW c \in Client, ReleaseUnstage(c) PROVE BytesInv'
  <2>1. pc[c] # "create_file" /\ \A d \in Client \ {c} : pc'[d] = pc[d] /\ call'[d] = call[d]
    BY <1>types, <1>28, ReturnFacts DEF ReleaseUnstage, Start
  <2>2. \A j \in Ino : st'[j] = "live" => st[j] = "live"
    BY <1>28 DEF ReleaseUnstage
  <2>3. \A j \in Ino : Known(j)' => Known(j)
    BY <2>1, <2>2, KnownKept
  <2>4. \A j \in Ino : (st'[j] = "live" /\ staging[j] # NoFile) => staging'[j] # NoFile
    BY <1>types, <1>range, <1>28, RemoveFacts DEF ReleaseUnstage, PhaseInv
  <2> QED
    BY <1>types, <1>range, <1>28, <1>after, <2>2, <2>3, <2>4, BytesKept DEF ReleaseUnstage
<1>29. ASSUME NEW c \in Client, NEW i \in Ino, CreateInsert(c, i) PROVE BytesInv'
  <2>1. /\ pc'[c] = "create_file" /\ call'[c].ino = i
        /\ \A d \in Client \ {c} : pc'[d] = pc[d] /\ call'[d] = call[d]
    BY <1>types, <1>29, EnterFacts DEF CreateInsert
  <2>2. st[i] = "free" /\ st'[i] = "live" /\ \A j \in Ino \ {i} : st'[j] = st[j]
    BY <1>types, <1>29 DEF CreateInsert, InodeTypes
  <2>3. dirty_generation'[i] > 0 /\ \A j \in Ino \ {i} : dirty_generation'[j] = dirty_generation[j]
    BY <1>types, <1>29, DirtyFacts DEF CreateInsert
  <2>4. \A j \in Ino : Known(j)' => j # i /\ Known(j)
    BY <1>29, <2>1, <2>2 DEF Known, CreateInsert, Start
  <2>5. \A j \in Ino \ {i} : linked'[j] = linked[j]
    BY <1>types, <1>29 DEF CreateInsert, InodeTypes
  <2>6. \A d \in Client : fd[d] # NoIno => st'[fd[d]] = st[fd[d]]
    BY <1>range, <2>2 DEF AllocInv
  <2> QED
    BY <1>29, <2>3, <2>4, <2>5, <2>6 DEF CreateInsert, BytesInv, DirtyHasBytes, IsDirty
<1>30. ASSUME NEW c \in Client, NEW i \in Ino, Unlink(c, i) PROVE BytesInv'
  <2>1. CASE HasOpenHandles(i)
    BY <1>types, <1>range, <1>30, <2>1 DEF Unlink, BytesInv, DirtyHasBytes, IsDirty, Known, Start
  <2>2. CASE ~HasOpenHandles(i)
    <3>1. st[i] = "live" /\ st'[i] = "gone" /\ \A j \in Ino \ {i} : st'[j] = st[j]
      BY <1>types, <1>30, <2>2 DEF Unlink, Known, InodeTypes
    <3>2. /\ pc'[c] = "unlink_drop" /\ call'[c].ino = i
          /\ \A d \in Client \ {c} : pc'[d] = pc[d] /\ call'[d] = call[d]
      BY <1>types, <1>30, <2>2, EnterFacts DEF Unlink
    <3> QED
      BY <1>types, <1>range, <1>30, <2>2, <3>1, <3>2
      DEF Unlink, BytesInv, DirtyHasBytes, IsDirty, Known, Start
  <2> QED
    BY <2>1, <2>2
<1>31. ASSUME NEW c \in Client, NEW i \in Ino, NEW truncate \in BOOLEAN, OpenStart(c, i, truncate)
       PROVE  BytesInv'
  BY <1>types, <1>31, <1>range, EnterFacts, Constants
  DEF OpenStart, Start, Known, BytesInv, DirtyHasBytes, IsDirty, Known, PhaseInv
<1>32. ASSUME NEW c \in Client, NEW i \in Ino, NEW truncate \in BOOLEAN, SetattrStart(c, i, truncate)
       PROVE  BytesInv'
  BY <1>types, <1>32, <1>range, EnterFacts, Constants
  DEF SetattrStart, Start, Known, BytesInv, DirtyHasBytes, IsDirty, Known, PhaseInv
<1>33. ASSUME NEW c \in Client, NEW v \in Content \ {Empty}, WriteAt(c, v) PROVE BytesInv'
  <2>1. pc[c] # "create_file" /\ \A d \in Client \ {c} : pc'[d] = pc[d] /\ call'[d] = call[d]
    BY <1>types, <1>33, EnterFacts DEF WriteAt, Start
  <2>2. \A j \in Ino : st'[j] = "live" => st[j] = "live"
    BY <1>33 DEF WriteAt
  <2>3. \A j \in Ino : Known(j)' => Known(j)
    BY <2>1, <2>2, KnownKept
  <2>4. \A j \in Ino : (st'[j] = "live" /\ staging[j] # NoFile) => staging'[j] # NoFile
    BY <1>types, <1>range, <1>33, Distinct DEF WriteAt, StagingTypes
  <2> QED
    BY <1>types, <1>range, <1>33, <1>after, <2>2, <2>3, <2>4, BytesKept DEF WriteAt
<1>34. ASSUME NEW c \in Client, ReleaseEnqueue(c) PROVE BytesInv'
  BY <1>types, <1>34, <1>range, EnterFacts, Constants
  DEF ReleaseEnqueue, Enqueue, BytesInv, DirtyHasBytes, IsDirty, Known, PhaseInv
<1> QED
  BY <1>1, <1>2, <1>3, <1>4, <1>5, <1>6, <1>7, <1>8, <1>9, <1>10, <1>11, <1>12, <1>13, <1>14,
     <1>15, <1>16, <1>17, <1>18, <1>19, <1>20, <1>21, <1>22, <1>23, <1>24, <1>25, <1>26, <1>27,
     <1>28, <1>29, <1>30, <1>31, <1>32, <1>33, <1>34
  DEF Next, LoopStep, LockStep, CallStep, CallStart, Environment


\* One step: during the upload phase a file of the batch that has not been read
\* yet keeps its bytes or disappears, unless the step is a write() to it.
LEMMA UploadStep ==
    ASSUME TypeOK, LockInv, CreateInv, Next,
           NEW i \in Ino, phase = "upload", i \in batch
    PROVE  \/ staging'[i] \in {staging[i], NoFile}
           \/ \E c \in Client : pc[c] = "idle" /\ pc'[c] = "write_mark" /\ fd[c] = i
<1> USE DEF NoInodeChange, NoLoopChange, inodeVars, clientVars, loopVars
<1>types. InodeTypes /\ StagingTypes /\ ClientTypes /\ LoopTypes
  BY DEF TypeOK
<1>range. lock[i] = Loop
  BY DEF LockInv
<1>1. CASE LoopRecv \/ LoopLock \/ LoopSnapshot \/ LoopUploadFile \/ LoopUploadFails
           \/ LoopUploaded \/ LoopApplyUnchanged \/ LoopCommit \/ LoopCommitFails \/ LoopApply
           \/ LoopGcRank \/ LoopGcNext \/ LoopGcDone
  BY <1>1
  DEF LoopRecv, LoopLock, LoopSnapshot, LoopUploadFile, LoopUploadFails, LoopUploaded,
      LoopApplyUnchanged, LoopCommit, LoopCommitFails, LoopApply, LoopGcRank, LoopGcNext, LoopGcDone
<1>2. CASE LoopGcOne
  BY <1>2 DEF LoopGcOne
<1>3. ASSUME NEW c \in Client, OpenReuse(c) \/ OpenDownload(c) \/ OpenLockEnoent(c)
             \/ SetattrDownload(c) \/ SetattrEnoent(c) \/ CreateFileFails(c) \/ OpenInstall(c)
             \/ OpenInstallFails(c) \/ WriteMark(c) \/ SetattrApplyFails(c) \/ ReleaseReap(c)
             \/ (\E j \in Ino : CreateInsert(c, j)) \/ (\E j \in Ino : Unlink(c, j))
             \/ (\E j \in Ino, truncate \in BOOLEAN : OpenStart(c, j, truncate))
             \/ (\E j \in Ino, truncate \in BOOLEAN : SetattrStart(c, j, truncate)) \/ Fsync(c)
             \/ ReleaseEnqueue(c)
      PROVE  staging' = staging
  BY <1>3
  DEF OpenReuse, OpenDownload, OpenLockEnoent, SetattrDownload, SetattrEnoent, CreateFileFails,
      OpenInstall, OpenInstallFails, WriteMark, SetattrApplyFails, ReleaseReap, CreateInsert,
      Unlink, OpenStart, SetattrStart, Fsync, ReleaseEnqueue
<1>4. CASE (\E j \in Ino : RequeueDirty(j)) \/ (\E j \in Ino : TakeFlushError(j))
           \/ (\E j \in Ino, h \in Content : UpdateRemoteFile(j, h))
  BY <1>4 DEF RequeueDirty, TakeFlushError, UpdateRemoteFile
<1>5. ASSUME NEW c \in Client, OpenCreate(c)
      PROVE  staging'[i] \in {staging[i], NoFile}
  BY <1>types, <1>range, <1>5, Actors DEF OpenCreate, Acquire
<1>6. ASSUME NEW c \in Client, SetattrPrepare(c)
      PROVE  staging'[i] \in {staging[i], NoFile}
  <2>1. call[c].ino # i
    BY <1>range, <1>6, Actors DEF SetattrPrepare, Acquire
  <2> QED
    BY <1>types, <1>6, <2>1 DEF SetattrPrepare, StagingTypes
<1>7. ASSUME NEW c \in Client, ReleaseGc(c)
      PROVE  staging'[i] \in {staging[i], NoFile}
  BY <1>types, <1>7, CallTypes DEF ReleaseGc, GcOne, TryRemove, StagingTypes
<1>8. ASSUME NEW c \in Client, UnlinkDrop(c)
      PROVE  staging'[i] \in {staging[i], NoFile}
  BY <1>types, <1>8, CallTypes DEF UnlinkDrop, TryRemove, StagingTypes
<1>9. ASSUME NEW c \in Client, CreateFile(c)
      PROVE  staging'[i] \in {staging[i], NoFile}
  BY <1>9 DEF CreateFile, CreateInv, Private, InFlight
<1>10. ASSUME NEW c \in Client, OpenDownloaded(c)
      PROVE  staging'[i] \in {staging[i], NoFile}
  BY <1>range, <1>10, Actors DEF OpenDownloaded, LockInv, LockedPhases
<1>11. ASSUME NEW c \in Client, OpenDownloadFails(c)
      PROVE  staging'[i] \in {staging[i], NoFile}
  BY <1>range, <1>11, Actors DEF OpenDownloadFails, LockInv, LockedPhases
<1>12. ASSUME NEW c \in Client, SetattrDownloaded(c)
      PROVE  staging'[i] \in {staging[i], NoFile}
  BY <1>range, <1>12, Actors DEF SetattrDownloaded, LockInv, LockedPhases
<1>13. ASSUME NEW c \in Client, SetattrDownloadFails(c)
      PROVE  staging'[i] \in {staging[i], NoFile}
  BY <1>range, <1>13, Actors DEF SetattrDownloadFails, LockInv, LockedPhases
<1>14. ASSUME NEW c \in Client, NEW v \in Content \ {Empty}, SetattrApply(c, v)
      PROVE  staging'[i] \in {staging[i], NoFile}
  BY <1>range, <1>14, Actors DEF SetattrApply, LockInv, LockedPhases
<1>15. ASSUME NEW c \in Client, ReleaseUnstage(c)
      PROVE  staging'[i] \in {staging[i], NoFile}
  BY <1>types, <1>15, CallTypes DEF ReleaseUnstage, TryRemove, StagingTypes
<1>16. ASSUME NEW c \in Client, NEW v \in Content \ {Empty}, WriteAt(c, v)
      PROVE  staging'[i] = staging[i] \/ (pc[c] = "idle" /\ pc'[c] = "write_mark" /\ fd[c] = i)
  BY <1>types, <1>16, EnterFacts DEF WriteAt, Start
<1> QED
  BY <1>1, <1>2, <1>3, <1>4, <1>5, <1>6, <1>7, <1>8, <1>9, <1>10, <1>11, <1>12, <1>13, <1>14,
     <1>15, <1>16
  DEF Next, LoopStep, LockStep, CallStep, CallStart, Environment

------------------------------------------------------------------------------
(* The theorems *)

\* The inductive invariant.
IndInv == TypeOK /\ AllocInv /\ LockInv /\ ChangedInv /\ CreateInv /\ PhaseInv /\ BytesInv

\* IndInv holds throughout.
LEMMA IndInvariant == Spec => []IndInv
<1>1. Init => IndInv
  <2> SUFFICES ASSUME Init PROVE IndInv
    OBVIOUS
  <2>1. \A c \in Client : pc[c] = "idle" /\ fd[c] = NoIno
    BY DEF Init
  <2>2. \A i \in Ino : staging[i] = NoFile
    BY DEF Init
  <2>3. phase = "recv"
    BY DEF Init
  <2>4. \A i \in Ino : dirty_generation[i] = 0
    BY DEF Init
  <2> QED
    BY <2>1, <2>2, <2>3, <2>4, TypeOKInit
    DEF IndInv, AllocInv, LockInv, ChangedInv, CreateInv, PhaseInv, BytesInv, DirtyHasBytes,
        IsDirty, InFlight, LockedPhases
<1>2. IndInv /\ Next => IndInv'
  BY TypeOKStep, AllocInvStep, LockInvStep, ChangedInvStep, CreateInvStep, PhaseInvStep,
     BytesInvStep
  DEF IndInv
<1>3. IndInv /\ UNCHANGED vars => IndInv'
  <2> SUFFICES ASSUME IndInv, UNCHANGED vars PROVE IndInv'
    OBVIOUS
  <2>1. TypeOK'
    BY TypeOKStutter DEF IndInv
  <2>2. AllocInv' /\ LockInv' /\ ChangedInv'
    BY DEF IndInv, AllocInv, LockInv, ChangedInv, InFlight, LockedPhases, vars, inodeVars,
       clientVars, loopVars
  <2>3. CreateInv' /\ PhaseInv'
    BY DEF IndInv, CreateInv, Private, PhaseInv, InFlight, vars, inodeVars, clientVars, loopVars
  <2>4. BytesInv'
    BY DEF IndInv, BytesInv, DirtyHasBytes, Known, IsDirty, vars, inodeVars, clientVars
  <2> QED
    BY <2>1, <2>2, <2>3, <2>4 DEF IndInv
<1> QED
  BY <1>1, <1>2, <1>3, PTL DEF Spec

\* Whatever the number of threads, files and signals, no step but a write()
\* changes the bytes of a file that flush_batch has yet to read (flush.rs holds
\* the staging locks from before the snapshot to the end of the uploads).
THEOREM UploadsAreStable == Spec => UploadNotTruncated
<1>1. IndInv /\ [Next]_vars =>
        [\A i \in Ino :
           (phase = "upload" /\ i \in batch /\ item[i].up = NoFile /\ staging'[i] \notin {staging[i], NoFile})
              => \E c \in Client : pc[c] = "idle" /\ pc'[c] = "write_mark" /\ fd[c] = i]_vars
  <2> SUFFICES ASSUME IndInv, Next, NEW i \in Ino, phase = "upload", i \in batch,
                      staging'[i] \notin {staging[i], NoFile}
               PROVE  \E c \in Client : pc[c] = "idle" /\ pc'[c] = "write_mark" /\ fd[c] = i
    OBVIOUS
  <2> QED
    BY UploadStep DEF IndInv
<1> QED
  BY <1>1, IndInvariant, PTL DEF Spec, UploadNotTruncated

\* Without --max-staging-size a dirty inode never loses its staging file, so
\* flush_batch never skips a file with "staging file missing", whatever opens,
\* writes, resizes, unlinks, downloads and uploads overlap and fail.
THEOREM UnsavedBytesKept == Spec => [](~HasBudget => DirtyHasBytes)
<1>1. IndInv => (~HasBudget => DirtyHasBytes)
  BY DEF IndInv, BytesInv
<1> QED
  BY <1>1, IndInvariant, PTL

------------------------------------------------------------------------------
(* What flush_loop does with the bytes it took and with those it has yet to     *)
(* take.  While the snapshotted generation of an inode has not moved its        *)
(* staging file holds what was uploaded, so dropping the dirty mark leaves a    *)
(* current cache; and unsaved bytes always have somebody who will see to them:  *)
(* a signal, the batch under way, or a handle whose close is yet to come.       *)


------------------------------------------------------------------------------
(* The inductive invariant, in parts. *)

\* The batch has the inode, and clear_dirty_if would still find the generation
\* of the snapshot.
Unmoving(i) ==
    /\ phase \in InFlight /\ i \in batch
    /\ st[i] = "live" /\ dirty_generation[i] = item[i].gen

\* What flush_batch knows of the inodes of its batch: they were dirty, the
\* generation only grows from there, an upload has returned a hash for each, and
\* what is left after apply_commit of the unchanged ones is what changed.
SnapshotInv ==
    phase \in InFlight =>
        /\ \A i \in batch : 0 < item[i].gen /\ item[i].gen <= dirty_generation[i]
        /\ phase # "upload" => \A i \in batch : item[i].up # NoFile
        /\ phase \in {"commit", "apply"} => batch = changed

\* As long as the generation stands still, the file stays on disk with the bytes
\* that were uploaded, unless a call has changed it and is about to mark the inode;
\* and nobody downloads over it, since whoever opens a dirty inode reuses its file.
Faithful(i) ==
    /\ staging[i] # NoFile
    /\ item[i].up # NoFile => Touched(i) \/ staging[i] = item[i].up
    /\ \A c \in Client : pc[c] \in {"open_download", "setattr_download"} => call[c].ino # i
FileInv == \A i \in Ino : Unmoving(i) => Faithful(i)

\* staging_is_current is not set while a download writes the file, and without a
\* budget (whose GC removes files) it is set only for a file that is there.
FlagInv ==
    /\ \A i \in Ino : st[i] = "free" => ~staging_is_current[i]
    /\ \A c \in Client : pc[c] = "open_download" => ~staging_is_current[call[c].ino]
    /\ ~HasBudget =>
          /\ \A i \in Ino : (st[i] = "live" /\ staging_is_current[i]) => staging[i] # NoFile
          /\ \A c \in Client : pc[c] = "setattr_download" => ~staging_is_current[call[c].ino]
    /\ "setattr" \notin Calls => \A c \in Client : pc[c] \notin SetattrPhases

\* A client that opens a file has no other one open.
HandleInv == \A c \in Client : pc[c] \in OpenPhases \cup {"create_file"} => fd[c] = NoIno

\* An inode with unsaved bytes and no failure on record ...
Owing(i) == st[i] = "live" /\ linked[i] /\ IsDirty(i) /\ i \notin errors
Queued(i) == \E k \in 1..Len(signals) : signals[k] = i
InHand(i) == phase = "lock" /\ (i \in todo \/ lock[i] = Loop)
\* ... a handle on it whose close has not enqueued it yet, or the create() that
\* is about to return one ...
Owned(i) ==
    \E c \in Client : \/ fd[c] = i /\ pc[c] # "release_reap"
                      \/ pc[c] = "create_file" /\ call[c].ino = i
\* ... is in somebody's hands.  (A reader's flush() takes a failure off the record
\* without enqueueing anything.)
Owes(i) == Owing(i) => Queued(i) \/ InHand(i) \/ Unmoving(i) \/ Owned(i)
OwedInv == "reader_flush" \notin Calls => \A i \in Ino : Owes(i)

------------------------------------------------------------------------------
(* Frames *)

\* The steps of a client leave flush_loop alone, and generations only grow.
LEMMA ClientsGrow ==
    ASSUME TypeOK, NEW c \in Client, LockStep(c) \/ CallStep(c) \/ CallStart(c)
    PROVE  /\ loopVars' = loopVars /\ errors' = errors
           /\ \A i \in Ino : dirty_generation'[i] \in {dirty_generation[i], dirty_generation[i] + 1}
           /\ \A i \in Ino : st'[i] = "live" => st[i] \in {"live", "free"}
<1> USE DEF NoInodeChange, NoLoopChange, inodeVars, loopVars
<1>types. InodeTypes
  BY DEF TypeOK
<1>1. CASE OpenInstall(c) \/ CallStart(c)
  BY ZenonT(40), <1>types, <1>1, DirtyFacts
  DEF InodeTypes, OpenInstall, CallStart, CreateInsert, Unlink, OpenStart, SetattrStart, WriteAt, Fsync, ReleaseEnqueue
<1>2. CASE WriteMark(c)
  BY <1>types, <1>2, DirtyFacts DEF WriteMark
<1>3. CASE \E v \in Content \ {Empty} : SetattrApply(c, v)
  BY <1>types, <1>3, DirtyFacts DEF SetattrApply
<1>4. CASE LockStep(c)
  BY <1>types, <1>4
  DEF LockStep, OpenReuse, OpenDownload, OpenCreate, OpenLockEnoent, SetattrDownload, SetattrPrepare,
      SetattrEnoent, ReleaseGc, UnlinkDrop
<1>5. CASE \/ CreateFile(c) \/ CreateFileFails(c) \/ OpenDownloaded(c) \/ OpenDownloadFails(c)
           \/ OpenInstallFails(c) \/ SetattrDownloaded(c) \/ SetattrDownloadFails(c)
           \/ SetattrApplyFails(c) \/ ReleaseReap(c) \/ ReleaseUnstage(c)
  BY <1>types, <1>5
  DEF InodeTypes, CreateFile, CreateFileFails, OpenDownloaded, OpenDownloadFails, OpenInstallFails,
      SetattrDownloaded, SetattrDownloadFails, SetattrApplyFails, ReleaseReap, ReleaseUnstage
<1> QED
  BY <1>1, <1>2, <1>3, <1>4, <1>5 DEF CallStep

\* The environment leaves flush_loop, the generations and the files alone.
LEMMA EnvironmentFrame ==
    ASSUME Environment
    PROVE  /\ loopVars' = loopVars /\ clientVars' = clientVars
           /\ UNCHANGED <<st, linked, dirty_generation, staging, lock>>
BY DEF Environment, RequeueDirty, TakeFlushError, UpdateRemoteFile, NoLoopChange, inodeVars, loopVars

\* SnapshotInv is preserved.
LEMMA SnapshotInvStep ==
    ASSUME TypeOK, ChangedInv, SnapshotInv, Next
    PROVE  SnapshotInv'
<1> USE DEF inodeVars, clientVars, loopVars, SnapshotInv, InFlight
<1>types. InodeTypes /\ StagingTypes /\ LoopTypes
  BY DEF TypeOK
<1>1. ASSUME NEW c \in Client, LockStep(c) \/ CallStep(c) \/ CallStart(c) PROVE SnapshotInv'
  <2>1. /\ UNCHANGED <<phase, batch, item, changed>>
        /\ \A i \in Ino : dirty_generation'[i] \in {dirty_generation[i], dirty_generation[i] + 1}
    BY <1>1, ClientsGrow
  <2>2. \A i \in batch : i \in Ino /\ item[i].gen \in Nat /\ dirty_generation[i] \in Nat
    BY <1>types, ItemTypes DEF InodeTypes, LoopTypes
  <2> QED
    BY <2>1, <2>2
<1>2. CASE Environment
  BY <1>2, EnvironmentFrame
<1>3. CASE LoopRecv \/ LoopLock \/ LoopUploadFails \/ LoopCommitFails \/ LoopApply
           \/ LoopGcRank \/ LoopGcNext \/ LoopGcOne \/ LoopGcDone
  BY <1>3
  DEF LoopRecv, LoopLock, LoopUploadFails, LoopCommitFails, LoopApply, LoopGcRank, LoopGcNext,
      LoopGcOne, LoopGcDone
<1>4. CASE LoopSnapshot
  BY <1>types, <1>4 DEF LoopSnapshot, IsDirty, InodeTypes
<1>5. CASE LoopUploadFile
  <2>1. \A i \in batch : item'[i].gen = item[i].gen
    BY <1>types, <1>5 DEF LoopUploadFile, LoopTypes, Item
  <2> QED
    BY <1>5, <2>1 DEF LoopUploadFile
<1>6. CASE LoopUploaded
  BY <1>6 DEF LoopUploaded
<1>7. CASE LoopApplyUnchanged
  <2>1. \A i \in changed : i \in batch /\ i \notin Unmoved(batch \ changed)
    BY <1>7 DEF LoopApplyUnchanged, ChangedInv, Unmoved
  <2>2. \A i \in changed : dirty_generation'[i] = dirty_generation[i]
    BY <1>types, <1>7, <2>1, ApplyFacts DEF LoopApplyUnchanged, LoopTypes
  <2> QED
    BY <1>7, <2>1, <2>2 DEF LoopApplyUnchanged
<1>8. CASE LoopCommit
  BY <1>8 DEF LoopCommit
<1> QED
  BY <1>1, <1>2, <1>3, <1>4, <1>5, <1>6, <1>7, <1>8 DEF Next, LoopStep

\* A client's step: what stands still after it stood still before it, and its
\* generation did not move.
LEMMA UnmovingBefore ==
    ASSUME TypeOK, AllocInv, SnapshotInv, NEW c \in Client, LockStep(c) \/ CallStep(c) \/ CallStart(c),
           NEW i \in Ino, Unmoving(i)'
    PROVE  /\ Unmoving(i) /\ dirty_generation'[i] = dirty_generation[i] /\ IsDirty(i)
           /\ item' = item /\ st'[i] = "live"
<1>1. /\ UNCHANGED <<phase, batch, item>>
      /\ dirty_generation'[i] \in {dirty_generation[i], dirty_generation[i] + 1}
      /\ st'[i] = "live" => st[i] \in {"live", "free"}
  BY ClientsGrow DEF loopVars
<1>2. phase \in InFlight /\ i \in batch /\ dirty_generation'[i] = item[i].gen /\ st'[i] = "live"
  BY <1>1 DEF Unmoving
<1>3. item[i].gen \in Nat /\ dirty_generation[i] \in Nat
  BY ItemTypes DEF TypeOK, InodeTypes
<1>4. 0 < item[i].gen /\ item[i].gen <= dirty_generation[i] /\ st[i] = "live"
  BY <1>1, <1>2 DEF SnapshotInv, AllocInv
<1> QED
  BY <1>1, <1>2, <1>3, <1>4 DEF Unmoving, IsDirty

\* A file that nobody removes, downloads or leaves unmarked stays faithful.
LEMMA FaithfulKept ==
    ASSUME NEW c \in Client, NEW i \in Ino, Faithful(i), item' = item, staging'[i] # NoFile,
           staging'[i] = staging[i] \/ Touched(i)',
           \A d \in Client \ {c} : pc'[d] = pc[d] /\ call'[d] = call[d],
           \A d \in Client \ {c} : (pc[d] = "write_mark" /\ call[d].ino = i) => attached'[d] = attached[d],
           \/ ~(pc[c] = "write_mark" /\ attached[c]) /\ pc[c] \notin {"open_install", "setattr_apply"}
           \/ call[c].ino # i,
           pc'[c] \in {"open_download", "setattr_download"} => call'[c].ino # i
    PROVE  Faithful(i)'
<1>1. \A d \in Client : pc'[d] \in {"open_download", "setattr_download"} => call'[d].ino # i
  BY DEF Faithful
<1>2. Touched(i) => Touched(i)'
  BY DEF Touched
<1> QED
  BY <1>1, <1>2 DEF Faithful

\* FileInv is preserved by the steps of a client.
LEMMA FileInvClient ==
    ASSUME TypeOK, AllocInv, CreateInv, PhaseInv, SnapshotInv, FileInv,
           NEW c \in Client, LockStep(c) \/ CallStep(c) \/ CallStart(c), NEW i \in Ino, Unmoving(i)'
    PROVE  Faithful(i)'
<1> USE DEF NoInodeChange, NoLoopChange, inodeVars, clientVars
<1>types. InodeTypes /\ StagingTypes /\ ClientTypes
  BY DEF TypeOK
<1>before. /\ Unmoving(i) /\ dirty_generation'[i] = dirty_generation[i] /\ IsDirty(i)
           /\ item' = item /\ st[i] = "live" /\ st'[i] = "live" /\ dirty_generation[i] \in Nat
  BY <1>types, UnmovingBefore DEF Unmoving, InodeTypes
<1>faithful. Faithful(i) /\ staging[i] # NoFile
  BY <1>before DEF FileInv, Faithful
<1>calls. \A d \in Client : call[d].ino \in Ino /\ (pc[d] = "write_mark" => fd[d] = call[d].ino)
  BY <1>types, CallTypes DEF PhaseInv
<1>1. ASSUME TryRemove(call[c].ino), call[c].ino # i
      PROVE  /\ staging'[i] = staging[i]
             /\ \A d \in Client : (pc[d] = "write_mark" /\ call[d].ino = i) => attached'[d] = attached[d]
  BY <1>types, <1>calls, <1>1, RemoveFacts DEF ClientTypes
<1>2. CASE OpenReuse(c)
  BY <1>types, <1>before, <1>faithful, <1>2, GotoFacts, FaithfulKept DEF OpenReuse
<1>3. CASE OpenDownload(c)
  <2>1. call[c].ino # i
    BY <1>before, <1>faithful, <1>3 DEF OpenDownload, CanReuseStaging, NeedsDownload, IsDirty
  <2> QED
    BY <1>types, <1>before, <1>faithful, <1>3, <2>1, GotoFacts, FaithfulKept DEF OpenDownload
<1>4. CASE OpenCreate(c)
  <2>1. call[c].ino = i => staging'[i] = Empty /\ Touched(i)'
    BY <1>types, <1>4, GotoFacts DEF OpenCreate, StagingTypes, Touched
  <2>2. call[c].ino # i => staging'[i] = staging[i]
    BY <1>types, <1>4 DEF OpenCreate, StagingTypes
  <2> QED
    BY <1>types, <1>before, <1>faithful, <1>4, <2>1, <2>2, GotoFacts, FaithfulKept, Distinct DEF OpenCreate
<1>5. CASE OpenLockEnoent(c)
  BY <1>types, <1>before, <1>faithful, <1>5, ReturnFacts, FaithfulKept DEF OpenLockEnoent
<1>6. CASE SetattrDownload(c)
  BY <1>types, <1>before, <1>faithful, <1>6, EnterFacts, FaithfulKept DEF SetattrDownload
<1>7. CASE SetattrPrepare(c)
  <2>1. staging'[i] = staging[i]
    BY <1>types, <1>faithful, <1>7 DEF SetattrPrepare, StagingTypes
  <2> QED
    BY <1>types, <1>before, <1>faithful, <1>7, <2>1, GotoFacts, FaithfulKept DEF SetattrPrepare
<1>8. CASE SetattrEnoent(c)
  BY <1>types, <1>before, <1>faithful, <1>8, ReturnFacts, FaithfulKept DEF SetattrEnoent
<1>9. CASE ReleaseGc(c)
  <2>1. UNCHANGED <<staging, attached>> \/ (TryRemove(call[c].ino) /\ call[c].ino # i)
    BY <1>before, <1>9 DEF ReleaseGc, GcOne
  <2> QED
    BY <1>types, <1>before, <1>faithful, <1>1, <1>9, <2>1, ReturnFacts, FaithfulKept DEF ReleaseGc
<1>10. CASE UnlinkDrop(c)
  <2>1. TryRemove(call[c].ino) /\ call[c].ino # i
    BY <1>before, <1>10 DEF UnlinkDrop, PhaseInv
  <2> QED
    BY <1>types, <1>before, <1>faithful, <1>1, <1>10, <2>1, ReturnFacts, FaithfulKept DEF UnlinkDrop
<1>11. CASE CreateFile(c) \/ CreateFileFails(c)
  <2>1. call[c].ino # i
    BY <1>before, <1>11 DEF CreateFile, CreateFileFails, CreateInv, Private, Unmoving
  <2>2. staging'[i] = staging[i] /\ \A d \in Client \ {c} : attached'[d] = attached[d]
    BY <1>types, <1>11, <2>1 DEF CreateFile, CreateFileFails, StagingTypes, ClientTypes
  <2> QED
    BY <1>types, <1>before, <1>faithful, <1>11, <2>1, <2>2, ReturnFacts, FaithfulKept
    DEF CreateFile, CreateFileFails
<1>12. CASE OpenDownloaded(c)
  <2>1. call[c].ino # i
    BY <1>faithful, <1>12 DEF OpenDownloaded, Faithful
  <2> QED
    BY <1>types, <1>before, <1>faithful, <1>12, <2>1, GotoFacts, FaithfulKept
    DEF OpenDownloaded, StagingTypes
<1>13. CASE OpenDownloadFails(c)
  <2>1. call[c].ino # i
    BY <1>faithful, <1>13 DEF OpenDownloadFails, Faithful
  <2> QED
    BY <1>types, <1>before, <1>faithful, <1>13, <2>1, ReturnFacts, FaithfulKept
    DEF OpenDownloadFails, StagingTypes
<1>14. CASE OpenInstall(c)
  <2>1. call[c].ino # i
    BY <1>types, <1>before, <1>14, DirtyFacts DEF OpenInstall
  <2> QED
    BY <1>types, <1>before, <1>faithful, <1>14, <2>1, ReturnFacts, FaithfulKept
    DEF OpenInstall, ClientTypes
<1>15. CASE OpenInstallFails(c)
  <2>1. call[c].ino # i
    BY <1>before, <1>faithful, <1>15 DEF OpenInstallFails
  <2> QED
    BY <1>types, <1>before, <1>faithful, <1>15, <2>1, ReturnFacts, FaithfulKept DEF OpenInstallFails
<1>16. CASE WriteMark(c)
  <2>1. call[c].ino # i
    BY <1>types, <1>before, <1>16, DirtyFacts DEF WriteMark
  <2> QED
    BY <1>types, <1>before, <1>faithful, <1>16, <2>1, ReturnFacts, FaithfulKept DEF WriteMark
<1>17. CASE SetattrDownloaded(c)
  <2>1. call[c].ino # i
    BY <1>faithful, <1>17 DEF SetattrDownloaded, Faithful
  <2> QED
    BY <1>types, <1>before, <1>faithful, <1>17, <2>1, GotoFacts, FaithfulKept
    DEF SetattrDownloaded, StagingTypes
<1>18. CASE SetattrDownloadFails(c)
  <2>1. call[c].ino # i
    BY <1>faithful, <1>18 DEF SetattrDownloadFails, Faithful
  <2> QED
    BY <1>types, <1>before, <1>faithful, <1>18, <2>1, ReturnFacts, FaithfulKept
    DEF SetattrDownloadFails, StagingTypes
<1>19. CASE \E v \in Content \ {Empty} : SetattrApply(c, v)
  <2>1. call[c].ino # i
    BY <1>types, <1>before, <1>19, DirtyFacts DEF SetattrApply
  <2> QED
    BY <1>types, <1>before, <1>faithful, <1>19, <2>1, ReturnFacts, FaithfulKept
    DEF SetattrApply, StagingTypes
<1>20. CASE SetattrApplyFails(c)
  BY <1>types, <1>before, <1>faithful, <1>20, ReturnFacts, FaithfulKept DEF SetattrApplyFails
<1>21. CASE ReleaseReap(c)
  <2>1. /\ pc'[c] \in {"release_unstage", "release_gc", "idle"}
        /\ \A d \in Client \ {c} : pc'[d] = pc[d] /\ call'[d] = call[d]
    BY <1>types, <1>21, GotoFacts, ReturnFacts DEF ReleaseReap
  <2>2. \A d \in Client \ {c} : attached'[d] = attached[d]
    BY <1>types, <1>21 DEF ReleaseReap, ClientTypes
  <2> QED
    BY <1>before, <1>faithful, <1>21, <2>1, <2>2, FaithfulKept DEF ReleaseReap
<1>22. CASE ReleaseUnstage(c)
  <2>1. TryRemove(call[c].ino) /\ call[c].ino # i
    BY <1>before, <1>22 DEF ReleaseUnstage, PhaseInv
  <2> QED
    BY <1>types, <1>before, <1>faithful, <1>1, <1>22, <2>1, ReturnFacts, FaithfulKept DEF ReleaseUnstage
<1>23. CASE \E j \in Ino : CreateInsert(c, j)
  BY <1>types, <1>before, <1>faithful, <1>23, EnterFacts, FaithfulKept DEF CreateInsert, Start
<1>24. ASSUME NEW j \in Ino, Unlink(c, j) PROVE Faithful(i)'
  <2>1. /\ pc'[c] \in {"idle", "unlink_drop"}
        /\ \A d \in Client \ {c} : pc'[d] = pc[d] /\ call'[d] = call[d]
    BY <1>types, <1>24, EnterFacts DEF Unlink, Start
  <2> QED
    BY <1>before, <1>faithful, <1>24, <2>1, FaithfulKept DEF Unlink, Start
<1>25. CASE \E j \in Ino, truncate \in BOOLEAN : OpenStart(c, j, truncate)
  BY <1>types, <1>before, <1>faithful, <1>25, EnterFacts, FaithfulKept DEF OpenStart, Start
<1>26. CASE \E j \in Ino, truncate \in BOOLEAN : SetattrStart(c, j, truncate)
  BY <1>types, <1>before, <1>faithful, <1>26, EnterFacts, FaithfulKept DEF SetattrStart, Start
<1>27. ASSUME NEW v \in Content \ {Empty}, WriteAt(c, v) PROVE Faithful(i)'
  <2>1. pc[c] = "idle" /\ pc'[c] = "write_mark" /\ call'[c].ino = fd[c]
        /\ \A d \in Client \ {c} : pc'[d] = pc[d] /\ call'[d] = call[d]
    BY <1>types, <1>27, EnterFacts DEF WriteAt, Start
  <2>2. staging'[i] = staging[i] \/ (staging'[i] = v /\ attached[c] /\ fd[c] = i)
    BY <1>types, <1>27 DEF WriteAt, StagingTypes
  <2>3. staging'[i] # NoFile /\ (staging'[i] = staging[i] \/ Touched(i)')
    BY <1>faithful, <1>27, <2>1, <2>2, Distinct DEF WriteAt, Touched
  <2> QED
    BY <1>before, <1>faithful, <1>27, <2>1, <2>3, FaithfulKept DEF WriteAt
<1>28. CASE Fsync(c)
  BY <1>before, <1>faithful, <1>28, FaithfulKept DEF Fsync, Start
<1>29. CASE ReleaseEnqueue(c)
  BY <1>types, <1>before, <1>faithful, <1>29, EnterFacts, FaithfulKept DEF ReleaseEnqueue
<1> QED
  BY <1>2, <1>3, <1>4, <1>5, <1>6, <1>7, <1>8, <1>9, <1>10, <1>11, <1>12, <1>13, <1>14, <1>15,
     <1>16, <1>17, <1>18, <1>19, <1>20, <1>21, <1>22, <1>23, <1>24, <1>25, <1>26, <1>27, <1>28, <1>29
  DEF LockStep, CallStep, CallStart

\* FileInv is preserved.
LEMMA FileInvStep ==
    ASSUME TypeOK, AllocInv, LockInv, ChangedInv, CreateInv, PhaseInv, SnapshotInv, FileInv, Next
    PROVE  FileInv'
<1> USE DEF inodeVars, clientVars, loopVars
<1>types. InodeTypes /\ StagingTypes /\ LoopTypes
  BY DEF TypeOK
<1>1. ASSUME NEW c \in Client, LockStep(c) \/ CallStep(c) \/ CallStart(c) PROVE FileInv'
  BY <1>1, FileInvClient DEF FileInv
<1>2. CASE Environment
  BY <1>2, EnvironmentFrame DEF FileInv, Unmoving, Faithful, Touched
<1>3. CASE LoopRecv \/ LoopLock \/ LoopUploadFails \/ LoopCommitFails \/ LoopApply
           \/ LoopGcRank \/ LoopGcNext \/ LoopGcOne \/ LoopGcDone
  BY <1>3
  DEF LoopRecv, LoopLock, LoopUploadFails, LoopCommitFails, LoopApply, LoopGcRank, LoopGcNext,
      LoopGcOne, LoopGcDone, FileInv, Unmoving, InFlight
<1>4. CASE LoopSnapshot
  <2> SUFFICES ASSUME NEW i \in Ino, Unmoving(i)' PROVE Faithful(i)'
    BY DEF FileInv
  <2>1. lock[i] = Loop /\ staging[i] # NoFile /\ item'[i].up = NoFile
    BY <1>4 DEF LoopSnapshot, Unmoving
  <2> QED
    BY <1>4, <2>1, Actors DEF LoopSnapshot, Faithful, LockInv, LockedPhases
<1>5. CASE LoopUploadFile
  <2> SUFFICES ASSUME NEW i \in Ino, Unmoving(i)' PROVE Faithful(i)'
    BY DEF FileInv
  <2>1. item'[i].gen = item[i].gen /\ item'[i].up \in {item[i].up, staging[i]}
    BY <1>types, <1>5 DEF LoopUploadFile, LoopTypes, Item
  <2>2. Faithful(i)
    BY <1>5, <2>1 DEF LoopUploadFile, FileInv, Unmoving
  <2> QED
    BY <1>5, <2>1, <2>2 DEF LoopUploadFile, Faithful, Touched
<1>6. CASE LoopUploaded \/ LoopCommit
  BY <1>6 DEF LoopUploaded, LoopCommit, FileInv, Unmoving, Faithful, Touched, InFlight
<1>7. CASE LoopApplyUnchanged
  <2> SUFFICES ASSUME NEW i \in Ino, Unmoving(i)' PROVE Faithful(i)'
    BY DEF FileInv
  <2>1. i \in changed /\ i \in batch /\ i \notin Unmoved(batch \ changed) /\ phase = "unchanged" /\ item' = item
    BY <1>7 DEF LoopApplyUnchanged, ChangedInv, Unmoved, Unmoving, InFlight
  <2>2. dirty_generation'[i] = dirty_generation[i] /\ st' = st
    BY <1>7, <2>1, ApplyFacts DEF LoopApplyUnchanged
  <2>3. Faithful(i)
    BY <2>1, <2>2 DEF FileInv, Unmoving, InFlight
  <2> QED
    BY <1>7, <2>1, <2>3 DEF LoopApplyUnchanged, Faithful, Touched
<1> QED
  BY <1>1, <1>2, <1>3, <1>4, <1>5, <1>6, <1>7 DEF Next, LoopStep

\* What apply_commit cleans: inodes of the batch whose generation stood still, and
\* whose upload has returned.
Applied == Unmoved(IF phase = "unchanged" THEN batch \ changed ELSE changed)
LEMMA AppliedFacts ==
    ASSUME TypeOK, SnapshotInv, FileInv, ChangedInv, LoopApplyUnchanged \/ LoopApply
    PROVE  /\ UNCHANGED <<st, linked, staging, lock, clientVars, signals, errors>>
           /\ \A i \in Applied : /\ i \in Ino /\ Unmoving(i) /\ Faithful(i) /\ item[i].up # NoFile
                                 /\ dirty_generation'[i] = 0 /\ xet_hash'[i] = item[i].up
                                 /\ staging_is_current'[i]
           /\ \A i \in Ino \ Applied : /\ dirty_generation'[i] = dirty_generation[i]
                                       /\ xet_hash'[i] = xet_hash[i]
                                       /\ staging_is_current'[i] = staging_is_current[i]
           /\ phase = "unchanged" => Applied \cap changed = {}
           /\ phase = "apply" => \A i \in changed : i \in Applied \/ ~Unmoving(i)
<1> DEFINE T == IF phase = "unchanged" THEN batch \ changed ELSE changed
<1>1. ApplyCommit(T) /\ UNCHANGED <<staging, lock, clientVars, signals, errors>> /\ phase \in {"unchanged", "apply"}
  BY DEF LoopApplyUnchanged, LoopApply
<1>2. phase \in InFlight /\ phase # "upload" /\ T \subseteq batch /\ batch \subseteq Ino
  BY <1>1 DEF InFlight, ChangedInv, TypeOK, LoopTypes
<1>3. \A i \in Applied : Unmoving(i) /\ item[i].up # NoFile /\ i \in Ino
  BY <1>2 DEF Applied, Unmoved, Unmoving, SnapshotInv
<1>4. \A i \in Applied : /\ Faithful(i) /\ dirty_generation'[i] = 0 /\ xet_hash'[i] = item[i].up
                         /\ staging_is_current'[i]
  BY <1>1, <1>3 DEF FileInv, ApplyCommit, Applied
<1>5. /\ \A i \in Ino \ Applied : /\ dirty_generation'[i] = dirty_generation[i] /\ xet_hash'[i] = xet_hash[i]
                                  /\ staging_is_current'[i] = staging_is_current[i]
      /\ UNCHANGED <<st, linked>>
  BY <1>1 DEF ApplyCommit, Applied, TypeOK, InodeTypes
<1>6. phase = "unchanged" => Applied \cap changed = {}
  BY DEF Applied, Unmoved
<1>7. phase = "apply" => \A i \in changed : i \in Applied \/ ~Unmoving(i)
  BY DEF Applied, Unmoved, Unmoving
<1> QED
  BY <1>1, <1>3, <1>4, <1>5, <1>6, <1>7 DEF clientVars

\* FlagInv is preserved: the staging lock keeps downloads apart, and without a budget
\* only the files of inodes that are gone are removed.
LEMMA FlagInvStep ==
    ASSUME TypeOK, AllocInv, LockInv, ChangedInv, CreateInv, PhaseInv, SnapshotInv, FileInv, FlagInv, Next
    PROVE  FlagInv'
<1> USE DEF NoInodeChange, NoLoopChange, inodeVars, clientVars, loopVars, FlagInv, SetattrPhases
<1>types. InodeTypes /\ StagingTypes /\ ClientTypes /\ LoopTypes
  BY DEF TypeOK
<1>range. /\ batch \subseteq Ino /\ todo \subseteq Ino
          /\ \A d \in Client : call[d].ino \in Ino /\ (fd[d] # NoIno => fd[d] \in Ino)
  BY <1>types, CallTypes DEF LoopTypes, ClientTypes
<1>1. CASE LoopLock \/ LoopUploadFile
  BY <1>1 DEF LoopLock, LoopUploadFile
<1>2. ASSUME NEW c \in Client, Fsync(c) PROVE FlagInv'
  BY <1>2 DEF Fsync
<1>3. CASE (\E i \in Ino : RequeueDirty(i)) \/ (\E i \in Ino : TakeFlushError(i))
           \/ (\E i \in Ino, h \in Content : UpdateRemoteFile(i, h))
  <2>1. \A j \in Ino : staging_is_current'[j] => staging_is_current[j]
    BY <1>types, <1>3 DEF RequeueDirty, TakeFlushError, UpdateRemoteFile, InodeTypes
  <2> QED
    BY <1>3, <1>range, <2>1, EnvironmentFrame DEF Environment
<1>4. CASE LoopRecv
  BY <1>types, <1>4, <1>range DEF LoopRecv
<1>5. CASE LoopSnapshot
  BY <1>types, <1>5, <1>range, ReleaseAllFacts DEF LoopSnapshot, IsDirty
<1>6. CASE LoopUploadFails
  BY <1>types, <1>6, <1>range, ReleaseAllFacts DEF LoopUploadFails, EndBatch
<1>7. CASE LoopUploaded
  BY <1>types, <1>7, <1>range, ReleaseAllFacts DEF LoopUploaded
<1>8. CASE LoopApplyUnchanged
  <2>1. \A j \in Ino : staging_is_current'[j] => staging_is_current[j] \/ (Unmoving(j) /\ Faithful(j))
    BY <1>8, AppliedFacts
  <2>2. \A j \in Ino : (staging_is_current'[j] /\ ~staging_is_current[j]) =>
           /\ st[j] = "live" /\ staging[j] # NoFile
           /\ \A d \in Client : pc[d] \in {"open_download", "setattr_download"} => call[d].ino # j
    BY <2>1 DEF Unmoving, Faithful
  <2> QED
    BY <1>8, <1>range, <2>2, AppliedFacts
<1>9. CASE LoopCommit
  BY <1>types, <1>9, <1>range DEF LoopCommit
<1>10. CASE LoopCommitFails
  BY <1>types, <1>10, <1>range DEF LoopCommitFails, EndBatch
<1>11. CASE LoopApply
  <2>1. \A j \in Ino : staging_is_current'[j] => staging_is_current[j] \/ (Unmoving(j) /\ Faithful(j))
    BY <1>11, AppliedFacts
  <2>2. \A j \in Ino : (staging_is_current'[j] /\ ~staging_is_current[j]) =>
           /\ st[j] = "live" /\ staging[j] # NoFile
           /\ \A d \in Client : pc[d] \in {"open_download", "setattr_download"} => call[d].ino # j
    BY <2>1 DEF Unmoving, Faithful
  <2> QED
    BY <1>11, <1>range, <2>2, AppliedFacts
<1>12. CASE LoopGcRank
  BY <1>types, <1>12, <1>range DEF LoopGcRank, GcCandidates, HasOpenHandles, IsDirty
<1>13. CASE LoopGcOne
  <2>1. HasBudget
    BY <1>13 DEF LoopGcOne, PhaseInv
  <2> QED
    BY <1>13, <2>1 DEF LoopGcOne
<1>14. CASE LoopGcNext \/ LoopGcDone
  BY <1>types, <1>14, <1>range DEF LoopGcNext, LoopGcDone
<1>15. ASSUME NEW c \in Client, OpenReuse(c) PROVE FlagInv'
  BY <1>types, <1>15, <1>range, AcquireFacts, GotoFacts DEF OpenReuse, CanReuseStaging, IsDirty
<1>16. ASSUME NEW c \in Client, OpenDownload(c) PROVE FlagInv'
  <2>1. \A j \in Ino : staging_is_current'[j] => staging_is_current[j] /\ j # call[c].ino
    BY <1>types, <1>16, <1>range DEF OpenDownload, InodeTypes
  <2> QED
    BY <1>types, <1>16, <1>range, <2>1, GotoFacts DEF OpenDownload
<1>17. ASSUME NEW c \in Client, OpenCreate(c) PROVE FlagInv'
  <2>1. /\ \A j \in Ino \ {call[c].ino} : staging'[j] = staging[j] /\ staging_is_current'[j] = staging_is_current[j]
        /\ staging'[call[c].ino] # NoFile
    BY <1>types, <1>17, <1>range, Distinct DEF OpenCreate, StagingTypes, InodeTypes
  <2>2. \A d \in Client : pc[d] \in {"open_download", "setattr_download"} => call[d].ino # call[c].ino
    BY <1>17, Actors DEF OpenCreate, Acquire, LockInv, LockedPhases
  <2> QED
    BY <1>types, <1>17, <1>range, <2>1, <2>2, GotoFacts DEF OpenCreate
<1>18. ASSUME NEW c \in Client, OpenLockEnoent(c) PROVE FlagInv'
  BY <1>types, <1>18, <1>range, ReturnFacts DEF OpenLockEnoent
<1>19. ASSUME NEW c \in Client, SetattrDownload(c) PROVE FlagInv'
  BY <1>types, <1>19, <1>range, AcquireFacts, EnterFacts DEF SetattrDownload
<1>20. ASSUME NEW c \in Client, SetattrPrepare(c) PROVE FlagInv'
  BY <1>types, <1>20, <1>range, AcquireFacts, GotoFacts DEF SetattrPrepare, StagingTypes
<1>21. ASSUME NEW c \in Client, SetattrEnoent(c) PROVE FlagInv'
  BY <1>types, <1>21, <1>range, ReturnFacts DEF SetattrEnoent
<1>22. ASSUME NEW c \in Client, ReleaseGc(c) PROVE FlagInv'
  <2>1. HasBudget
    BY <1>22 DEF ReleaseGc, PhaseInv
  <2>2. ~HasBudget => \A j \in Ino : st[j] = "live" => staging'[j] = staging[j]
    BY <1>types, <1>22, <1>range, <2>1, RemoveFacts DEF ReleaseGc, GcOne
  <2> QED
    BY <1>types, <1>22, <1>range, <2>2, ReturnFacts DEF ReleaseGc
<1>23. ASSUME NEW c \in Client, UnlinkDrop(c) PROVE FlagInv'
  <2>1. st[call[c].ino] # "live"
    BY <1>23 DEF UnlinkDrop, PhaseInv
  <2>2. ~HasBudget => \A j \in Ino : st[j] = "live" => staging'[j] = staging[j]
    BY <1>types, <1>23, <1>range, <2>1, RemoveFacts DEF UnlinkDrop
  <2> QED
    BY <1>types, <1>23, <1>range, <2>2, ReturnFacts DEF UnlinkDrop
<1>24. ASSUME NEW c \in Client, CreateFile(c) PROVE FlagInv'
  <2>1. \A j \in Ino : staging[j] # NoFile => staging'[j] # NoFile
    BY <1>types, <1>24, <1>range, Distinct DEF CreateFile, StagingTypes
  <2> QED
    BY <1>types, <1>24, <1>range, <2>1, ReturnFacts DEF CreateFile
<1>25. ASSUME NEW c \in Client, CreateFileFails(c) PROVE FlagInv'
  BY <1>types, <1>25, <1>range, ReturnFacts DEF CreateFileFails
<1>26. ASSUME NEW c \in Client, OpenDownloaded(c) PROVE FlagInv'
  <2>1. /\ \A j \in Ino \ {call[c].ino} : staging'[j] = staging[j] /\ staging_is_current'[j] = staging_is_current[j]
        /\ staging'[call[c].ino] # NoFile
        /\ st[call[c].ino] = "free" => ~staging_is_current'[call[c].ino]
    BY <1>types, <1>26, <1>range DEF OpenDownloaded, StagingTypes, InodeTypes, PhaseInv
  <2>2. \A d \in Client \ {c} : pc[d] \in {"open_download", "setattr_download"} => call[d].ino # call[c].ino
    BY <1>26 DEF OpenDownloaded, LockInv, LockedPhases
  <2> QED
    BY <1>types, <1>26, <1>range, <2>1, <2>2, GotoFacts DEF OpenDownloaded
<1>27. ASSUME NEW c \in Client, OpenDownloadFails(c) PROVE FlagInv'
  BY <1>types, <1>27, <1>range, ReleaseFacts, ReturnFacts DEF OpenDownloadFails
<1>28. ASSUME NEW c \in Client, OpenInstall(c) PROVE FlagInv'
  BY <1>types, <1>28, <1>range, DirtyFacts, ReleaseFacts, ReturnFacts DEF OpenInstall
<1>29. ASSUME NEW c \in Client, OpenInstallFails(c) PROVE FlagInv'
  BY <1>types, <1>29, <1>range, ReleaseFacts, ReturnFacts DEF OpenInstallFails
<1>30. ASSUME NEW c \in Client, WriteMark(c) PROVE FlagInv'
  BY <1>types, <1>30, <1>range, DirtyFacts, ReturnFacts DEF WriteMark
<1>31. ASSUME NEW c \in Client, SetattrDownloaded(c) PROVE FlagInv'
  BY <1>types, <1>31, <1>range, GotoFacts DEF SetattrDownloaded
<1>32. ASSUME NEW c \in Client, SetattrDownloadFails(c) PROVE FlagInv'
  BY <1>types, <1>32, <1>range, ReleaseFacts, ReturnFacts DEF SetattrDownloadFails
<1>33. ASSUME NEW c \in Client, SetattrApplyFails(c) PROVE FlagInv'
  BY <1>types, <1>33, <1>range, ReleaseFacts, ReturnFacts DEF SetattrApplyFails
<1>34. ASSUME NEW c \in Client, NEW v \in Content \ {Empty}, SetattrApply(c, v) PROVE FlagInv'
  <2>1. \A j \in Ino : staging[j] # NoFile => staging'[j] # NoFile
    BY <1>types, <1>34, <1>range, Distinct DEF SetattrApply, StagingTypes
  <2> QED
    BY <1>types, <1>34, <1>range, <2>1, ReturnFacts DEF SetattrApply
<1>35. ASSUME NEW c \in Client, ReleaseReap(c) PROVE FlagInv'
  BY <1>types, <1>35, <1>range, GotoFacts, ReturnFacts DEF ReleaseReap, OtherHandles, IsDirty
<1>36. ASSUME NEW c \in Client, ReleaseUnstage(c) PROVE FlagInv'
  <2>1. st[call[c].ino] # "live"
    BY <1>36 DEF ReleaseUnstage, PhaseInv
  <2>2. ~HasBudget => \A j \in Ino : st[j] = "live" => staging'[j] = staging[j]
    BY <1>types, <1>36, <1>range, <2>1, RemoveFacts DEF ReleaseUnstage
  <2> QED
    BY <1>types, <1>36, <1>range, <2>2, ReturnFacts DEF ReleaseUnstage
<1>37. ASSUME NEW c \in Client, NEW i \in Ino, CreateInsert(c, i) PROVE FlagInv'
  BY <1>types, <1>37, <1>range, DirtyFacts, EnterFacts DEF CreateInsert, Start, InodeTypes
<1>38. ASSUME NEW c \in Client, NEW i \in Ino, Unlink(c, i) PROVE FlagInv'
  <2>1. CASE HasOpenHandles(i)
    BY <1>types, <1>range, <1>38, <2>1 DEF Unlink, Start
  <2>2. CASE ~HasOpenHandles(i)
    <3>1. st[i] = "live" /\ st'[i] = "gone" /\ \A j \in Ino \ {i} : st'[j] = st[j]
      BY <1>types, <1>38, <2>2 DEF Unlink, Known, InodeTypes
    <3>2. /\ pc'[c] = "unlink_drop" /\ call'[c].ino = i
          /\ \A d \in Client \ {c} : pc'[d] = pc[d] /\ call'[d] = call[d]
      BY <1>types, <1>38, <2>2, EnterFacts DEF Unlink
    <3> QED
      BY <1>types, <1>range, <1>38, <2>2, <3>1, <3>2 DEF Unlink, Start
  <2> QED
    BY <2>1, <2>2
<1>39. ASSUME NEW c \in Client, NEW i \in Ino, NEW truncate \in BOOLEAN, OpenStart(c, i, truncate)
       PROVE  FlagInv'
  BY <1>types, <1>39, <1>range, EnterFacts DEF OpenStart, Start, Known
<1>40. ASSUME NEW c \in Client, NEW i \in Ino, NEW truncate \in BOOLEAN, SetattrStart(c, i, truncate)
       PROVE  FlagInv'
  BY <1>types, <1>40, <1>range, EnterFacts DEF SetattrStart, Start, Known
<1>41. ASSUME NEW c \in Client, NEW v \in Content \ {Empty}, WriteAt(c, v) PROVE FlagInv'
  <2>1. \A j \in Ino : staging[j] # NoFile => staging'[j] # NoFile
    BY <1>types, <1>41, <1>range, Distinct DEF WriteAt, StagingTypes
  <2> QED
    BY <1>types, <1>41, <1>range, <2>1, EnterFacts DEF WriteAt, Start
<1>42. ASSUME NEW c \in Client, ReleaseEnqueue(c) PROVE FlagInv'
  BY <1>types, <1>42, <1>range, EnterFacts DEF ReleaseEnqueue, Enqueue
<1> QED
  BY <1>1, <1>2, <1>3, <1>4, <1>5, <1>6, <1>7, <1>8, <1>9, <1>10, <1>11, <1>12, <1>13, <1>14,
     <1>15, <1>16, <1>17, <1>18, <1>19, <1>20, <1>21, <1>22, <1>23, <1>24, <1>25, <1>26, <1>27,
     <1>28, <1>29, <1>30, <1>31, <1>32, <1>33, <1>34, <1>35, <1>36, <1>37, <1>38, <1>39, <1>40,
     <1>41, <1>42
  DEF Next, LoopStep, LockStep, CallStep, CallStart, Environment

\* HandleInv is preserved.
LEMMA HandleInvStep ==
    ASSUME TypeOK, HandleInv, Next
    PROVE  HandleInv'
<1> USE DEF NoInodeChange, NoLoopChange, inodeVars, clientVars, loopVars, HandleInv, OpenPhases
<1>types. InodeTypes /\ StagingTypes /\ ClientTypes /\ LoopTypes
  BY DEF TypeOK
<1>range. /\ batch \subseteq Ino /\ todo \subseteq Ino
          /\ \A d \in Client : call[d].ino \in Ino /\ (fd[d] # NoIno => fd[d] \in Ino)
  BY <1>types, CallTypes DEF LoopTypes, ClientTypes
<1>1. CASE LoopLock \/ LoopUploadFile
  BY <1>1 DEF LoopLock, LoopUploadFile
<1>2. ASSUME NEW c \in Client, Fsync(c) PROVE HandleInv'
  BY <1>2 DEF Fsync
<1>3. CASE (\E i \in Ino : RequeueDirty(i)) \/ (\E i \in Ino : TakeFlushError(i))
           \/ (\E i \in Ino, h \in Content : UpdateRemoteFile(i, h))
  BY <1>3 DEF RequeueDirty, TakeFlushError, UpdateRemoteFile
<1>4. CASE LoopRecv
  BY <1>types, <1>4, <1>range DEF LoopRecv
<1>5. CASE LoopSnapshot
  BY <1>types, <1>5, <1>range, ReleaseAllFacts DEF LoopSnapshot, IsDirty
<1>6. CASE LoopUploadFails
  BY <1>types, <1>6, <1>range, ReleaseAllFacts DEF LoopUploadFails, EndBatch
<1>7. CASE LoopUploaded
  BY <1>types, <1>7, <1>range, ReleaseAllFacts DEF LoopUploaded
<1>8. CASE LoopApplyUnchanged
  BY <1>types, <1>8, <1>range, ApplyFacts DEF LoopApplyUnchanged, Size, ChangedInv
<1>9. CASE LoopCommit
  BY <1>types, <1>9, <1>range DEF LoopCommit
<1>10. CASE LoopCommitFails
  BY <1>types, <1>10, <1>range DEF LoopCommitFails, EndBatch
<1>11. CASE LoopApply
  BY <1>types, <1>11, <1>range, ApplyFacts DEF LoopApply, Size, EndBatch
<1>12. CASE LoopGcRank
  BY <1>types, <1>12, <1>range DEF LoopGcRank, GcCandidates, HasOpenHandles, IsDirty
<1>13. CASE LoopGcOne
  BY <1>types, <1>13, <1>range, RemoveFacts DEF LoopGcOne, GcOne, IsDirty
<1>14. CASE LoopGcNext \/ LoopGcDone
  BY <1>types, <1>14, <1>range DEF LoopGcNext, LoopGcDone
<1>15. ASSUME NEW c \in Client, OpenReuse(c) PROVE HandleInv'
  BY <1>types, <1>15, <1>range, AcquireFacts, GotoFacts DEF OpenReuse, CanReuseStaging, IsDirty
<1>16. ASSUME NEW c \in Client, OpenDownload(c) PROVE HandleInv'
  BY <1>types, <1>16, <1>range, AcquireFacts, GotoFacts
  DEF OpenDownload, CanReuseStaging, IsDirty, NeedsDownload
<1>17. ASSUME NEW c \in Client, OpenCreate(c) PROVE HandleInv'
  BY <1>types, <1>17, <1>range, AcquireFacts, GotoFacts
  DEF OpenCreate, CanReuseStaging, IsDirty, NeedsDownload
<1>18. ASSUME NEW c \in Client, OpenLockEnoent(c) PROVE HandleInv'
  BY <1>types, <1>18, <1>range, ReturnFacts DEF OpenLockEnoent
<1>19. ASSUME NEW c \in Client, SetattrDownload(c) PROVE HandleInv'
  BY <1>types, <1>19, <1>range, AcquireFacts, EnterFacts DEF SetattrDownload
<1>20. ASSUME NEW c \in Client, SetattrPrepare(c) PROVE HandleInv'
  BY <1>types, <1>20, <1>range, AcquireFacts, GotoFacts DEF SetattrPrepare, StagingTypes
<1>21. ASSUME NEW c \in Client, SetattrEnoent(c) PROVE HandleInv'
  BY <1>types, <1>21, <1>range, ReturnFacts DEF SetattrEnoent
<1>22. ASSUME NEW c \in Client, ReleaseGc(c) PROVE HandleInv'
  BY <1>types, <1>22, <1>range, RemoveFacts, ReturnFacts DEF ReleaseGc, GcOne, IsDirty
<1>23. ASSUME NEW c \in Client, UnlinkDrop(c) PROVE HandleInv'
  BY <1>types, <1>23, <1>range, RemoveFacts, ReturnFacts DEF UnlinkDrop
<1>24. ASSUME NEW c \in Client, CreateFile(c) PROVE HandleInv'
  BY <1>types, <1>24, <1>range, ReturnFacts DEF CreateFile
<1>25. ASSUME NEW c \in Client, CreateFileFails(c) PROVE HandleInv'
  BY <1>types, <1>25, <1>range, ReturnFacts DEF CreateFileFails
<1>26. ASSUME NEW c \in Client, OpenDownloaded(c) PROVE HandleInv'
  BY <1>types, <1>26, <1>range, GotoFacts DEF OpenDownloaded
<1>27. ASSUME NEW c \in Client, OpenDownloadFails(c) PROVE HandleInv'
  BY <1>types, <1>27, <1>range, ReleaseFacts, ReturnFacts DEF OpenDownloadFails
<1>28. ASSUME NEW c \in Client, OpenInstall(c) PROVE HandleInv'
  BY <1>types, <1>28, <1>range, DirtyFacts, ReleaseFacts, ReturnFacts DEF OpenInstall
<1>29. ASSUME NEW c \in Client, OpenInstallFails(c) PROVE HandleInv'
  BY <1>types, <1>29, <1>range, ReleaseFacts, ReturnFacts DEF OpenInstallFails
<1>30. ASSUME NEW c \in Client, WriteMark(c) PROVE HandleInv'
  BY <1>types, <1>30, <1>range, DirtyFacts, ReturnFacts DEF WriteMark
<1>31. ASSUME NEW c \in Client, SetattrDownloaded(c) PROVE HandleInv'
  BY <1>types, <1>31, <1>range, GotoFacts DEF SetattrDownloaded
<1>32. ASSUME NEW c \in Client, SetattrDownloadFails(c) PROVE HandleInv'
  BY <1>types, <1>32, <1>range, ReleaseFacts, ReturnFacts DEF SetattrDownloadFails
<1>33. ASSUME NEW c \in Client, SetattrApplyFails(c) PROVE HandleInv'
  BY <1>types, <1>33, <1>range, ReleaseFacts, ReturnFacts DEF SetattrApplyFails
<1>34. ASSUME NEW c \in Client, NEW v \in Content \ {Empty}, SetattrApply(c, v) PROVE HandleInv'
  BY <1>types, <1>34, <1>range, DirtyFacts, ReleaseFacts, ReturnFacts DEF SetattrApply, Enqueue
<1>35. ASSUME NEW c \in Client, ReleaseReap(c) PROVE HandleInv'
  BY <1>types, <1>35, <1>range, GotoFacts, ReturnFacts DEF ReleaseReap, OtherHandles, IsDirty
<1>36. ASSUME NEW c \in Client, ReleaseUnstage(c) PROVE HandleInv'
  BY <1>types, <1>36, <1>range, RemoveFacts, ReturnFacts DEF ReleaseUnstage
<1>37. ASSUME NEW c \in Client, NEW i \in Ino, CreateInsert(c, i) PROVE HandleInv'
  BY <1>types, <1>37, <1>range, DirtyFacts, EnterFacts DEF CreateInsert, Start, InodeTypes
<1>38. ASSUME NEW c \in Client, NEW i \in Ino, Unlink(c, i) PROVE HandleInv'
  <2>1. CASE HasOpenHandles(i)
    BY <1>types, <1>range, <1>38, <2>1 DEF Unlink, Start
  <2>2. CASE ~HasOpenHandles(i)
    <3>1. st[i] = "live" /\ st'[i] = "gone" /\ \A j \in Ino \ {i} : st'[j] = st[j]
      BY <1>types, <1>38, <2>2 DEF Unlink, Known, InodeTypes
    <3>2. /\ pc'[c] = "unlink_drop" /\ call'[c].ino = i
          /\ \A d \in Client \ {c} : pc'[d] = pc[d] /\ call'[d] = call[d]
      BY <1>types, <1>38, <2>2, EnterFacts DEF Unlink
    <3> QED
      BY <1>types, <1>range, <1>38, <2>2, <3>1, <3>2 DEF Unlink, Start
  <2> QED
    BY <2>1, <2>2
<1>39. ASSUME NEW c \in Client, NEW i \in Ino, NEW truncate \in BOOLEAN, OpenStart(c, i, truncate)
       PROVE  HandleInv'
  BY <1>types, <1>39, <1>range, EnterFacts DEF OpenStart, Start, Known
<1>40. ASSUME NEW c \in Client, NEW i \in Ino, NEW truncate \in BOOLEAN, SetattrStart(c, i, truncate)
       PROVE  HandleInv'
  BY <1>types, <1>40, <1>range, EnterFacts DEF SetattrStart, Start, Known
<1>41. ASSUME NEW c \in Client, NEW v \in Content \ {Empty}, WriteAt(c, v) PROVE HandleInv'
  BY <1>types, <1>41, <1>range, EnterFacts DEF WriteAt, Start
<1>42. ASSUME NEW c \in Client, ReleaseEnqueue(c) PROVE HandleInv'
  BY <1>types, <1>42, <1>range, EnterFacts DEF ReleaseEnqueue, Enqueue
<1> QED
  BY <1>1, <1>2, <1>3, <1>4, <1>5, <1>6, <1>7, <1>8, <1>9, <1>10, <1>11, <1>12, <1>13, <1>14,
     <1>15, <1>16, <1>17, <1>18, <1>19, <1>20, <1>21, <1>22, <1>23, <1>24, <1>25, <1>26, <1>27,
     <1>28, <1>29, <1>30, <1>31, <1>32, <1>33, <1>34, <1>35, <1>36, <1>37, <1>38, <1>39, <1>40,
     <1>41, <1>42
  DEF Next, LoopStep, LockStep, CallStep, CallStart, Environment

------------------------------------------------------------------------------
(* The cache *)

\* CacheIsCurrent of one inode.
Current(i) ==
    (st[i] = "live" /\ ~IsDirty(i) /\ staging_is_current[i] /\ staging[i] # NoFile /\ ~Touched(i))
        => staging[i] = RemoteContent(i)

\* It holds with a staging budget as well, unless setattr() downloads a file that
\* the GC has removed.
CurrentInv == ~HasBudget \/ "setattr" \notin Calls => CacheIsCurrent

\* A step of a client keeps the files it neither changes nor leaves unmarked.
LEMMA CurrentKept ==
    ASSUME NEW c \in Client, NEW i \in Ino, Current(i),
           st'[i] = "live" => st[i] = "live",
           dirty_generation'[i] = dirty_generation[i], xet_hash'[i] = xet_hash[i],
           staging_is_current'[i] => staging_is_current[i],
           staging'[i] \in {staging[i], NoFile},
           \A d \in Client \ {c} : pc'[d] = pc[d] /\ call'[d] = call[d],
           \A d \in Client \ {c} : (pc[d] = "write_mark" /\ call[d].ino = i) => attached'[d] = attached[d],
           \/ ~(pc[c] = "write_mark" /\ attached[c]) /\ pc[c] \notin {"open_install", "setattr_apply"}
           \/ call[c].ino # i
    PROVE  Current(i)'
<1>1. (staging'[i] # NoFile /\ Touched(i)) => Touched(i)'
  BY DEF Touched
<1> QED
  BY <1>1 DEF Current, IsDirty, RemoteContent

\* CurrentInv is preserved by the steps of a client.
LEMMA CurrentClient ==
    ASSUME TypeOK, CreateInv, PhaseInv, FlagInv, ~HasBudget \/ "setattr" \notin Calls,
           NEW c \in Client, LockStep(c) \/ CallStep(c) \/ CallStart(c), NEW i \in Ino, Current(i)
    PROVE  Current(i)'
<1> USE DEF NoInodeChange, NoLoopChange, inodeVars, clientVars
<1>types. InodeTypes /\ StagingTypes /\ ClientTypes
  BY DEF TypeOK
<1>calls. \A d \in Client : call[d].ino \in Ino /\ (pc[d] = "write_mark" => fd[d] = call[d].ino)
  BY <1>types, CallTypes DEF PhaseInv
<1>1. ASSUME TryRemove(call[c].ino)
      PROVE  /\ staging'[i] \in {staging[i], NoFile}
             /\ \/ staging'[i] = NoFile
                \/ \A d \in Client : (pc[d] = "write_mark" /\ call[d].ino = i) => attached'[d] = attached[d]
  BY <1>types, <1>calls, <1>1, RemoveFacts DEF ClientTypes
<1>gone. ASSUME staging'[i] = NoFile \/ Touched(i)' \/ IsDirty(i)' \/ st'[i] # "live" \/ ~staging_is_current'[i]
         PROVE  Current(i)'
  BY <1>gone DEF Current
<1>2. CASE OpenReuse(c)
  BY <1>types, <1>2, GotoFacts, CurrentKept DEF OpenReuse
<1>3. CASE OpenDownload(c)
  BY <1>types, <1>3, GotoFacts, CurrentKept DEF OpenDownload, InodeTypes
<1>4. CASE OpenCreate(c)
  <2>1. call[c].ino = i => Touched(i)'
    BY <1>types, <1>4, GotoFacts DEF OpenCreate, Touched
  <2>2. call[c].ino # i => staging'[i] = staging[i] /\ staging_is_current'[i] = staging_is_current[i]
    BY <1>types, <1>4 DEF OpenCreate, StagingTypes, InodeTypes
  <2> QED
    BY <1>types, <1>gone, <1>4, <2>1, <2>2, GotoFacts, CurrentKept DEF OpenCreate
<1>5. CASE OpenLockEnoent(c)
  BY <1>types, <1>5, ReturnFacts, CurrentKept DEF OpenLockEnoent
<1>6. CASE SetattrDownload(c)
  BY <1>types, <1>6, EnterFacts, CurrentKept DEF SetattrDownload
<1>7. CASE SetattrPrepare(c)
  <2>1. call[c].ino = i => Touched(i)'
    BY <1>types, <1>7, GotoFacts DEF SetattrPrepare, Touched
  <2>2. call[c].ino # i => staging'[i] = staging[i]
    BY <1>types, <1>7 DEF SetattrPrepare, StagingTypes
  <2> QED
    BY <1>types, <1>gone, <1>7, <2>1, <2>2, GotoFacts, CurrentKept DEF SetattrPrepare
<1>8. CASE SetattrEnoent(c)
  BY <1>types, <1>8, ReturnFacts, CurrentKept DEF SetattrEnoent
<1>9. CASE ReleaseGc(c)
  <2>1. UNCHANGED <<staging, attached>> \/ TryRemove(call[c].ino)
    BY <1>9 DEF ReleaseGc, GcOne
  <2> QED
    BY <1>types, <1>gone, <1>1, <1>9, <2>1, ReturnFacts, CurrentKept DEF ReleaseGc
<1>10. CASE UnlinkDrop(c)
  BY <1>types, <1>gone, <1>1, <1>10, ReturnFacts, CurrentKept DEF UnlinkDrop
<1>11. CASE CreateFile(c)
  <2>1. call[c].ino = i => IsDirty(i)'
    BY <1>11 DEF CreateFile, CreateInv, Private, IsDirty
  <2>2. call[c].ino # i => staging'[i] = staging[i] /\ \A d \in Client \ {c} : attached'[d] = attached[d]
    BY <1>types, <1>11 DEF CreateFile, StagingTypes, ClientTypes
  <2> QED
    BY <1>types, <1>gone, <1>11, <2>1, <2>2, ReturnFacts, CurrentKept DEF CreateFile
<1>12. CASE CreateFileFails(c)
  BY <1>types, <1>calls, <1>12, ReturnFacts, CurrentKept DEF CreateFileFails, InodeTypes
<1>13. CASE OpenDownloaded(c)
  <2>1. call[c].ino = i => Touched(i)'
    BY <1>types, <1>13, GotoFacts DEF OpenDownloaded, Touched
  <2>2. call[c].ino # i => staging'[i] = staging[i] /\ staging_is_current'[i] = staging_is_current[i]
    BY <1>types, <1>13 DEF OpenDownloaded, StagingTypes, InodeTypes
  <2> QED
    BY <1>types, <1>gone, <1>13, <2>1, <2>2, GotoFacts, CurrentKept DEF OpenDownloaded
<1>14. CASE OpenDownloadFails(c) \/ SetattrDownloadFails(c)
  <2>1. call[c].ino = i => ~staging_is_current'[i]
    BY <1>14 DEF OpenDownloadFails, SetattrDownloadFails, FlagInv, SetattrPhases
  <2>2. call[c].ino # i => staging'[i] = staging[i]
    BY <1>types, <1>14 DEF OpenDownloadFails, SetattrDownloadFails, StagingTypes
  <2> QED
    BY <1>types, <1>gone, <1>14, <2>1, <2>2, ReturnFacts, CurrentKept
    DEF OpenDownloadFails, SetattrDownloadFails
<1>15. CASE OpenInstall(c)
  <2>1. call[c].ino = i => IsDirty(i)'
    BY <1>types, <1>15, DirtyFacts DEF OpenInstall, IsDirty
  <2>2. call[c].ino # i => dirty_generation'[i] = dirty_generation[i] /\ \A d \in Client \ {c} : attached'[d] = attached[d]
    BY <1>types, <1>15, DirtyFacts DEF OpenInstall, ClientTypes
  <2> QED
    BY ZenonT(40), <1>types, <1>gone, <1>15, <2>1, <2>2, ReturnFacts, CurrentKept DEF OpenInstall
<1>16. CASE OpenInstallFails(c)
  <2>1. call[c].ino = i => staging'[i] = NoFile \/ st'[i] # "live"
    BY <1>16 DEF OpenInstallFails
  <2> QED
    BY <1>types, <1>gone, <1>16, <2>1, ReturnFacts, CurrentKept DEF OpenInstallFails
<1>17. CASE WriteMark(c)
  <2>1. call[c].ino = i => IsDirty(i)' \/ st'[i] # "live"
    BY <1>types, <1>17, DirtyFacts DEF WriteMark, IsDirty
  <2>2. call[c].ino # i => dirty_generation'[i] = dirty_generation[i]
    BY <1>types, <1>17, DirtyFacts DEF WriteMark
  <2> QED
    BY <1>types, <1>gone, <1>17, <2>1, <2>2, ReturnFacts, CurrentKept DEF WriteMark
<1>18. CASE SetattrDownloaded(c)
  <2>1. call[c].ino = i => Touched(i)'
    BY <1>types, <1>18, GotoFacts DEF SetattrDownloaded, Touched
  <2>2. call[c].ino # i => staging'[i] = staging[i]
    BY <1>types, <1>18 DEF SetattrDownloaded, StagingTypes
  <2> QED
    BY <1>types, <1>gone, <1>18, <2>1, <2>2, GotoFacts, CurrentKept DEF SetattrDownloaded
<1>19. ASSUME NEW v \in Content \ {Empty}, SetattrApply(c, v) PROVE Current(i)'
  <2>1. call[c].ino = i => IsDirty(i)' \/ st'[i] # "live"
    BY <1>types, <1>19, DirtyFacts DEF SetattrApply, IsDirty
  <2>2. call[c].ino # i => /\ dirty_generation'[i] = dirty_generation[i] /\ xet_hash'[i] = xet_hash[i]
                           /\ staging'[i] = staging[i]
    BY <1>types, <1>19, DirtyFacts DEF SetattrApply, StagingTypes, InodeTypes
  <2> QED
    BY <1>types, <1>gone, <1>19, <2>1, <2>2, ReturnFacts, CurrentKept DEF SetattrApply
<1>20. CASE SetattrApplyFails(c)
  <2>1. call[c].ino = i => staging'[i] = NoFile
    BY <1>20 DEF SetattrApplyFails
  <2> QED
    BY <1>types, <1>gone, <1>20, <2>1, ReturnFacts, CurrentKept DEF SetattrApplyFails
<1>21. CASE ReleaseReap(c)
  <2>1. \A d \in Client \ {c} : pc'[d] = pc[d] /\ call'[d] = call[d]
    BY <1>types, <1>21, GotoFacts, ReturnFacts DEF ReleaseReap
  <2>2. st'[i] = "live" => st[i] = "live"
    BY <1>types, <1>21 DEF ReleaseReap, InodeTypes
  <2>3. \A d \in Client \ {c} : attached'[d] = attached[d]
    BY <1>types, <1>21 DEF ReleaseReap, ClientTypes
  <2> QED
    BY <1>21, <2>1, <2>2, <2>3, CurrentKept DEF ReleaseReap
<1>22. CASE ReleaseUnstage(c)
  BY <1>types, <1>gone, <1>1, <1>22, ReturnFacts, CurrentKept DEF ReleaseUnstage
<1>23. ASSUME NEW j \in Ino, CreateInsert(c, j) PROVE Current(i)'
  <2>1. j = i => IsDirty(i)'
    BY <1>types, <1>23, DirtyFacts DEF CreateInsert, IsDirty
  <2>2. j # i => st'[i] = st[i] /\ dirty_generation'[i] = dirty_generation[i]
    BY <1>types, <1>23, DirtyFacts DEF CreateInsert, InodeTypes
  <2> QED
    BY <1>types, <1>gone, <1>23, <2>1, <2>2, EnterFacts, CurrentKept DEF CreateInsert, Start
<1>24. ASSUME NEW j \in Ino, Unlink(c, j) PROVE Current(i)'
  <2>1. \A d \in Client \ {c} : pc'[d] = pc[d] /\ call'[d] = call[d]
    BY <1>types, <1>24, EnterFacts DEF Unlink
  <2>2. st'[i] = "live" => st[i] = "live"
    BY <1>types, <1>24 DEF Unlink, InodeTypes
  <2> QED
    BY <1>24, <2>1, <2>2, CurrentKept DEF Unlink, Start
<1>25. CASE \E j \in Ino, truncate \in BOOLEAN : OpenStart(c, j, truncate)
  BY <1>types, <1>25, EnterFacts, CurrentKept DEF OpenStart, Start
<1>26. CASE \E j \in Ino, truncate \in BOOLEAN : SetattrStart(c, j, truncate)
  BY <1>types, <1>26, EnterFacts, CurrentKept DEF SetattrStart, Start
<1>27. ASSUME NEW v \in Content \ {Empty}, WriteAt(c, v) PROVE Current(i)'
  <2>1. pc[c] = "idle" /\ pc'[c] = "write_mark" /\ call'[c].ino = fd[c]
        /\ \A d \in Client \ {c} : pc'[d] = pc[d] /\ call'[d] = call[d]
    BY <1>types, <1>27, EnterFacts DEF WriteAt, Start
  <2>2. staging'[i] = staging[i] \/ Touched(i)'
    BY <1>types, <1>27, <2>1 DEF WriteAt, StagingTypes, Touched
  <2> QED
    BY <1>gone, <1>27, <2>1, <2>2, CurrentKept DEF WriteAt
<1>28. CASE Fsync(c)
  BY <1>28, CurrentKept DEF Fsync, Start
<1>29. CASE ReleaseEnqueue(c)
  BY <1>types, <1>29, EnterFacts, CurrentKept DEF ReleaseEnqueue
<1> QED
  BY <1>2, <1>3, <1>4, <1>5, <1>6, <1>7, <1>8, <1>9, <1>10, <1>11, <1>12, <1>13, <1>14, <1>15,
     <1>16, <1>17, <1>18, <1>19, <1>20, <1>21, <1>22, <1>23, <1>24, <1>25, <1>26, <1>27, <1>28, <1>29
  DEF LockStep, CallStep, CallStart

\* CurrentInv is preserved.
LEMMA CurrentInvStep ==
    ASSUME TypeOK, CreateInv, ChangedInv, PhaseInv, SnapshotInv, FileInv, FlagInv, CurrentInv, Next
    PROVE  CurrentInv'
<1> USE DEF inodeVars, clientVars, loopVars
<1> SUFFICES ASSUME ~HasBudget \/ "setattr" \notin Calls, NEW i \in Ino, Current(i)
             PROVE  Current(i)'
  BY DEF CurrentInv, CacheIsCurrent, Current
<1>types. InodeTypes /\ StagingTypes /\ ClientTypes /\ LoopTypes
  BY DEF TypeOK
<1>1. ASSUME NEW c \in Client, LockStep(c) \/ CallStep(c) \/ CallStart(c) PROVE Current(i)'
  BY <1>1, CurrentClient
<1>2. CASE Environment
  <2>1. \/ ~staging_is_current'[i]
        \/ staging_is_current'[i] = staging_is_current[i] /\ xet_hash'[i] = xet_hash[i]
    BY <1>types, <1>2 DEF Environment, RequeueDirty, TakeFlushError, UpdateRemoteFile, InodeTypes
  <2> QED
    BY <1>2, <2>1, EnvironmentFrame DEF Current, IsDirty, RemoteContent, Touched
<1>3. CASE LoopRecv \/ LoopLock \/ LoopSnapshot \/ LoopUploadFile \/ LoopUploadFails \/ LoopUploaded
           \/ LoopCommit \/ LoopCommitFails \/ LoopGcRank \/ LoopGcNext \/ LoopGcDone
  BY <1>3
  DEF LoopRecv, LoopLock, LoopSnapshot, LoopUploadFile, LoopUploadFails, LoopUploaded, LoopCommit,
      LoopCommitFails, LoopGcRank, LoopGcNext, LoopGcDone, Current, IsDirty, RemoteContent, Touched
<1>4. CASE LoopApplyUnchanged \/ LoopApply
  <2>1. CASE i \in Applied
    BY <1>4, <2>1, AppliedFacts, Distinct DEF Faithful, Current, RemoteContent, Touched
  <2>2. CASE i \notin Applied
    BY <1>4, <2>2, AppliedFacts DEF Current, IsDirty, RemoteContent, Touched
  <2> QED
    BY <2>1, <2>2
<1>5. CASE LoopGcOne
  <2>1. PICK j \in batch : GcOne(j)
    BY <1>5 DEF LoopGcOne
  <2>2. j \in Ino /\ \A d \in Client : (pc[d] = "write_mark" /\ call[d].ino = i) => fd[d] = i
    BY <1>types DEF LoopTypes, PhaseInv
  <2>3. \/ staging'[i] = NoFile
        \/ /\ staging'[i] = staging[i]
           /\ \A d \in Client : (pc[d] = "write_mark" /\ call[d].ino = i) => attached'[d] = attached[d]
    BY <1>types, <2>1, <2>2, RemoveFacts DEF GcOne, ClientTypes
  <2> QED
    BY <1>5, <2>3 DEF LoopGcOne, Current, IsDirty, RemoteContent, Touched
<1> QED
  BY <1>1, <1>2, <1>3, <1>4, <1>5 DEF Next, LoopStep

------------------------------------------------------------------------------
(* Unsaved bytes *)

\* FlushManager::enqueue forgets no earlier signal.
LEMMA EnqueueFacts ==
    ASSUME LoopTypes, NEW j \in Ino, Enqueue(j)
    PROVE  Queued(j)' /\ \A i \in Ino : Queued(i) => Queued(i)'
<1>1. /\ Len(signals) \in Nat /\ Len(signals') = Len(signals) + 1
      /\ \A k \in 1..Len(signals) : signals'[k] = signals[k]
      /\ signals'[Len(signals) + 1] = j
  BY DEF LoopTypes, Enqueue
<1>2. Queued(j)'
  BY <1>1 DEF Queued
<1>3. \A i \in Ino : Queued(i) => Queued(i)'
  BY <1>1 DEF Queued
<1> QED
  BY <1>2, <1>3

\* A client takes no signal off the channel ...
LEMMA ClientsQueue ==
    ASSUME TypeOK, NEW c \in Client, LockStep(c) \/ CallStep(c) \/ CallStart(c), NEW i \in Ino, Queued(i)
    PROVE  Queued(i)'
<1> USE DEF NoInodeChange, NoLoopChange, clientVars
<1>types. ClientTypes /\ LoopTypes
  BY DEF TypeOK
<1>calls. \A d \in Client : call[d].ino \in Ino /\ (fd[d] # NoIno => fd[d] \in Ino)
  BY <1>types, CallTypes DEF ClientTypes
<1>1. CASE signals' = signals
  BY <1>1 DEF Queued
<1>2. CASE \E j \in Ino : Enqueue(j)
  BY <1>types, <1>2, EnqueueFacts
<1>3. CASE LockStep(c)
  BY <1>1, <1>3
  DEF LockStep, OpenReuse, OpenDownload, OpenCreate, OpenLockEnoent, SetattrDownload, SetattrPrepare,
      SetattrEnoent, ReleaseGc, UnlinkDrop
<1>4. CASE CallStep(c)
  BY <1>1, <1>2, <1>4, <1>calls
  DEF CallStep, CreateFile, CreateFileFails, OpenDownloaded, OpenDownloadFails, OpenInstall,
      OpenInstallFails, WriteMark, SetattrDownloaded, SetattrDownloadFails, SetattrApplyFails,
      SetattrApply, ReleaseReap, ReleaseUnstage
<1>5. CASE CallStart(c)
  BY Zenon, <1>1, <1>2, <1>5, <1>calls
  DEF CallStart, CreateInsert, Unlink, OpenStart, SetattrStart, WriteAt, Fsync, ReleaseEnqueue
<1> QED
  BY <1>3, <1>4, <1>5

\* ... and no lock from flush_batch.
LEMMA ClientsLock ==
    ASSUME TypeOK, LockInv, NEW c \in Client, LockStep(c) \/ CallStep(c) \/ CallStart(c),
           NEW i \in Ino, lock[i] = Loop
    PROVE  lock'[i] = Loop
<1> USE DEF NoInodeChange, NoLoopChange, clientVars
<1>types. StagingTypes /\ ClientTypes
  BY DEF TypeOK
<1>calls. \A d \in Client : call[d].ino \in Ino
  BY <1>types, CallTypes
<1>1. CASE Acquire(c, call[c].ino)
  BY <1>types, <1>calls, <1>1, AcquireFacts, Actors
<1>2. CASE Release(call[c].ino) /\ pc[c] \in LockedPhases
  <2>1. call[c].ino # i
    BY <1>2, Actors DEF LockInv
  <2> QED
    BY <1>types, <1>calls, <1>2, <2>1, ReleaseFacts
<1>3. CASE LockStep(c)
  BY <1>1, <1>3
  DEF LockStep, OpenReuse, OpenDownload, OpenCreate, OpenLockEnoent, SetattrDownload, SetattrPrepare,
      SetattrEnoent, ReleaseGc, UnlinkDrop
<1>4. CASE CallStep(c)
  BY <1>2, <1>4
  DEF LockedPhases, CallStep, CreateFile, CreateFileFails, OpenDownloaded, OpenDownloadFails, OpenInstall,
      OpenInstallFails, WriteMark, SetattrDownloaded, SetattrDownloadFails, SetattrApplyFails,
      SetattrApply, ReleaseReap, ReleaseUnstage
<1>5. CASE CallStart(c)
  BY <1>5
  DEF CallStart, CreateInsert, Unlink, OpenStart, SetattrStart, WriteAt, Fsync, ReleaseEnqueue
<1> QED
  BY <1>3, <1>4, <1>5

\* What nobody drops stays in somebody's hands.
LEMMA OwesKept ==
    ASSUME TypeOK, LockInv, NEW c \in Client, LockStep(c) \/ CallStep(c) \/ CallStart(c),
           NEW i \in Ino, Owes(i),
           st'[i] = "live" => st[i] = "live", linked'[i] => linked[i],
           dirty_generation'[i] = dirty_generation[i],
           \A d \in Client \ {c} : pc'[d] = pc[d] /\ call'[d] = call[d] /\ fd'[d] = fd[d],
           (fd[c] = i /\ pc[c] # "release_reap") => (fd'[c] = i /\ pc'[c] # "release_reap"),
           pc[c] = "create_file" => call[c].ino # i
    PROVE  Owes(i)'
<1>1. UNCHANGED <<phase, todo, batch, item, errors>>
  BY ClientsGrow DEF loopVars
<1> SUFFICES ASSUME Owing(i)'
             PROVE  Queued(i)' \/ InHand(i)' \/ Unmoving(i)' \/ Owned(i)'
  BY DEF Owes
<1>2. Owing(i) /\ st'[i] = "live"
  BY <1>1 DEF Owing, IsDirty
<1>3. CASE Queued(i)
  BY <1>3, ClientsQueue
<1>4. CASE InHand(i)
  BY <1>1, <1>4, ClientsLock DEF InHand
<1>5. CASE Unmoving(i)
  BY <1>1, <1>2, <1>5 DEF Unmoving
<1>6. CASE Owned(i)
  BY <1>6 DEF Owned
<1> QED
  BY <1>2, <1>3, <1>4, <1>5, <1>6 DEF Owes

\* OwedInv is preserved by the steps of a client.
LEMMA OwesClient ==
    ASSUME TypeOK, AllocInv, LockInv, PhaseInv, HandleInv,
           NEW c \in Client, LockStep(c) \/ CallStep(c) \/ CallStart(c), NEW i \in Ino, Owes(i)
    PROVE  Owes(i)'
<1> USE DEF NoInodeChange, NoLoopChange, inodeVars, clientVars
<1>types. InodeTypes /\ ClientTypes /\ LoopTypes
  BY DEF TypeOK
<1>calls. i # NoIno /\ \A d \in Client : call[d].ino \in Ino /\ (fd[d] # NoIno => fd[d] \in Ino)
  BY <1>types, CallTypes, Constants DEF ClientTypes
<1>settled. ASSUME Queued(i)' \/ Owned(i)' \/ ~Owing(i)' PROVE Owes(i)'
  BY <1>settled DEF Owes
<1>1. CASE \/ OpenReuse(c) \/ OpenDownload(c) \/ OpenCreate(c) \/ SetattrPrepare(c)
           \/ OpenDownloaded(c) \/ SetattrDownloaded(c)
  <2>1. UNCHANGED <<st, linked, dirty_generation, fd, call>> /\ pc[c] # "create_file"
    BY <1>1 DEF OpenReuse, OpenDownload, OpenCreate, SetattrPrepare, OpenDownloaded, SetattrDownloaded
  <2>2. pc'[c] # "release_reap" /\ \A d \in Client \ {c} : pc'[d] = pc[d]
    BY <1>types, <1>1, GotoFacts
    DEF OpenReuse, OpenDownload, OpenCreate, SetattrPrepare, OpenDownloaded, SetattrDownloaded
  <2> QED
    BY <2>1, <2>2, OwesKept
<1>2. CASE \/ OpenLockEnoent(c) \/ SetattrEnoent(c) \/ ReleaseGc(c) \/ UnlinkDrop(c)
           \/ OpenDownloadFails(c) \/ OpenInstallFails(c) \/ SetattrDownloadFails(c)
           \/ SetattrApplyFails(c) \/ ReleaseUnstage(c)
  <2>1. UNCHANGED <<st, linked, dirty_generation, fd>> /\ pc[c] # "create_file" /\ Return(c)
    BY <1>2 DEF OpenLockEnoent, SetattrEnoent, ReleaseGc, UnlinkDrop, OpenDownloadFails,
       OpenInstallFails, SetattrDownloadFails, SetattrApplyFails, ReleaseUnstage
  <2> QED
    BY <1>types, <2>1, ReturnFacts, OwesKept
<1>3. CASE \/ SetattrDownload(c)
           \/ \E j \in Ino, truncate \in BOOLEAN : OpenStart(c, j, truncate) \/ SetattrStart(c, j, truncate)
           \/ \E v \in Content \ {Empty} : WriteAt(c, v)
  <2>1. UNCHANGED <<st, linked, dirty_generation, fd>> /\ pc[c] # "create_file"
    BY <1>3 DEF SetattrDownload, OpenStart, SetattrStart, WriteAt, Start
  <2>2. pc'[c] # "release_reap" /\ \A d \in Client \ {c} : pc'[d] = pc[d] /\ call'[d] = call[d]
    BY <1>types, <1>3, EnterFacts DEF SetattrDownload, OpenStart, SetattrStart, WriteAt
  <2> QED
    BY <2>1, <2>2, OwesKept
<1>4. CASE Fsync(c)
  BY <1>4, OwesKept DEF Fsync, Start
<1>5. CASE CreateFile(c)
  <2>1. fd'[c] = call[c].ino /\ fd[c] = NoIno /\ \A d \in Client \ {c} : fd'[d] = fd[d]
    BY <1>types, <1>5 DEF CreateFile, HandleInv, ClientTypes
  <2>2. call[c].ino = i => Owned(i)'
    BY <1>types, <1>5, <2>1, ReturnFacts DEF CreateFile, Owned
  <2> QED
    BY <1>types, <1>calls, <1>settled, <1>5, <2>1, <2>2, ReturnFacts, OwesKept DEF CreateFile
<1>6. CASE CreateFileFails(c)
  <2>1. call[c].ino = i => ~Owing(i)'
    BY <1>types, <1>6 DEF CreateFileFails, Owing, InodeTypes
  <2>2. fd[c] = NoIno
    BY <1>6 DEF CreateFileFails, HandleInv
  <2>3. call[c].ino # i => st'[i] = st[i]
    BY <1>types, <1>6 DEF CreateFileFails, InodeTypes
  <2> QED
    BY <1>types, <1>calls, <1>settled, <1>6, <2>1, <2>2, <2>3, ReturnFacts, OwesKept DEF CreateFileFails
<1>7. CASE OpenInstall(c)
  <2>1. fd'[c] = call[c].ino /\ fd[c] = NoIno /\ \A d \in Client \ {c} : fd'[d] = fd[d]
    BY <1>types, <1>7 DEF OpenInstall, HandleInv, OpenPhases, ClientTypes
  <2>2. call[c].ino = i => Owned(i)'
    BY <1>types, <1>7, <2>1, ReturnFacts DEF OpenInstall, Owned
  <2>3. call[c].ino # i => dirty_generation'[i] = dirty_generation[i]
    BY <1>types, <1>7, DirtyFacts DEF OpenInstall
  <2> QED
    BY <1>types, <1>calls, <1>settled, <1>7, <2>1, <2>2, <2>3, ReturnFacts, OwesKept DEF OpenInstall
<1>8. CASE WriteMark(c)
  <2>1. fd[c] = call[c].ino
    BY <1>8 DEF WriteMark, PhaseInv
  <2>2. call[c].ino = i => Owned(i)'
    BY <1>types, <1>8, <2>1, ReturnFacts DEF WriteMark, Owned
  <2>3. call[c].ino # i => dirty_generation'[i] = dirty_generation[i]
    BY <1>types, <1>8, DirtyFacts DEF WriteMark
  <2> QED
    BY <1>types, <1>settled, <1>8, <2>1, <2>2, <2>3, ReturnFacts, OwesKept DEF WriteMark
<1>9. ASSUME NEW v \in Content \ {Empty}, SetattrApply(c, v) PROVE Owes(i)'
  <2>1. call[c].ino = i => Queued(i)'
    BY <1>types, <1>9, EnqueueFacts DEF SetattrApply
  <2>2. call[c].ino # i => dirty_generation'[i] = dirty_generation[i]
    BY <1>types, <1>9, DirtyFacts DEF SetattrApply
  <2> QED
    BY <1>types, <1>settled, <1>9, <2>1, <2>2, ReturnFacts, OwesKept DEF SetattrApply
<1>10. CASE ReleaseReap(c)
  <2>1. \A d \in Client \ {c} : pc'[d] = pc[d] /\ call'[d] = call[d] /\ fd'[d] = fd[d]
    BY <1>types, <1>10, GotoFacts, ReturnFacts DEF ReleaseReap, ClientTypes
  <2>2. st'[i] = "live" => st[i] = "live"
    BY <1>types, <1>10 DEF ReleaseReap, InodeTypes
  <2> QED
    BY <1>10, <2>1, <2>2, OwesKept DEF ReleaseReap
<1>11. ASSUME NEW j \in Ino, CreateInsert(c, j) PROVE Owes(i)'
  <2>1. fd[c] = NoIno /\ pc[c] = "idle" /\ pc'[c] = "create_file" /\ call'[c].ino = j
        /\ \A d \in Client \ {c} : pc'[d] = pc[d] /\ call'[d] = call[d]
    BY <1>types, <1>11, EnterFacts DEF CreateInsert, Start
  <2>2. j = i => Owned(i)'
    BY <2>1 DEF Owned
  <2>3. j # i => st'[i] = st[i] /\ linked'[i] = linked[i] /\ dirty_generation'[i] = dirty_generation[i]
    <3>1. j # i => st'[i] = st[i] /\ linked'[i] = linked[i]
      BY <1>types, <1>11 DEF CreateInsert, InodeTypes
    <3> QED
      BY <1>types, <1>11, <3>1, DirtyFacts DEF CreateInsert
  <2>4. fd' = fd
    BY <1>11 DEF CreateInsert
  <2>5. CASE j # i
    BY <1>calls, <2>1, <2>3, <2>4, <2>5, OwesKept
  <2> QED
    BY <1>settled, <2>2, <2>5
<1>12. ASSUME NEW j \in Ino, Unlink(c, j) PROVE Owes(i)'
  <2>1. /\ pc[c] = "idle" /\ pc'[c] \in {"idle", "unlink_drop"}
        /\ \A d \in Client \ {c} : pc'[d] = pc[d] /\ call'[d] = call[d]
    BY <1>types, <1>12, EnterFacts DEF Unlink, Start
  <2>2. (st'[i] = "live" => st[i] = "live") /\ (linked'[i] => linked[i])
    BY <1>types, <1>12 DEF Unlink, InodeTypes
  <2> QED
    BY <1>12, <2>1, <2>2, OwesKept DEF Unlink
<1>13. CASE ReleaseEnqueue(c)
  <2>1. /\ fd[c] \in Ino /\ pc[c] = "idle"
        /\ \A d \in Client \ {c} : pc'[d] = pc[d] /\ call'[d] = call[d]
    BY <1>types, <1>calls, <1>13, EnterFacts DEF ReleaseEnqueue
  <2>2. fd[c] = i => Queued(i)' \/ ~Owing(i)'
    BY <1>types, <1>13, EnqueueFacts DEF ReleaseEnqueue, Owing
  <2> QED
    BY <1>settled, <1>13, <2>1, <2>2, OwesKept DEF ReleaseEnqueue
<1> QED
  BY <1>1, <1>2, <1>3, <1>4, <1>5, <1>6, <1>7, <1>8, <1>9, <1>10, <1>11, <1>12, <1>13
  DEF LockStep, CallStep, CallStart


\* OwedInv is preserved: flush_loop moves what it owes from the channel to its locks,
\* to the batch and from there to a clean inode, or to the failures on record.
LEMMA OwedInvStep ==
    ASSUME TypeOK, AllocInv, LockInv, ChangedInv, PhaseInv, SnapshotInv, FileInv, HandleInv, OwedInv, Next
    PROVE  OwedInv'
<1> USE DEF inodeVars, clientVars, loopVars
<1> SUFFICES ASSUME "reader_flush" \notin Calls, NEW i \in Ino, Owes(i) PROVE Owes(i)'
  BY DEF OwedInv
<1>types. InodeTypes /\ StagingTypes /\ ClientTypes /\ LoopTypes
  BY DEF TypeOK
<1>owned. ASSUME UNCHANGED clientVars PROVE Owned(i)' = Owned(i)
  BY <1>owned DEF Owned
<1>queued. ASSUME UNCHANGED signals PROVE Queued(i)' = Queued(i)
  BY <1>queued DEF Queued
<1>1. ASSUME NEW c \in Client, LockStep(c) \/ CallStep(c) \/ CallStart(c) PROVE Owes(i)'
  BY <1>1, OwesClient
<1>2. ASSUME NEW j \in Ino, RequeueDirty(j) PROVE Owes(i)'
  BY <1>types, <1>2, <1>owned, EnqueueFacts DEF RequeueDirty, Owes, Owing, IsDirty, InHand, Unmoving
<1>3. ASSUME NEW j \in Ino, TakeFlushError(j) PROVE Owes(i)'
  <2>1. CASE j = i
    BY <1>3, <2>1 DEF TakeFlushError, Owes, Owned
  <2>2. CASE j # i
    BY <1>3, <2>2, <1>owned, <1>queued DEF TakeFlushError, Owes, Owing, IsDirty, InHand, Unmoving
  <2> QED
    BY <2>1, <2>2
<1>4. ASSUME NEW j \in Ino, NEW h \in Content, UpdateRemoteFile(j, h) PROVE Owes(i)'
  BY <1>4, <1>owned, <1>queued
  DEF UpdateRemoteFile, NoLoopChange, Owes, Owing, IsDirty, InHand, Unmoving
<1>5. CASE LoopRecv
  <2>1. PICK n \in 1..Len(signals) : /\ todo' = {signals[k] : k \in 1..n}
                                     /\ signals' = SubSeq(signals, n + 1, Len(signals))
    BY <1>5 DEF LoopRecv
  <2>2. Queued(i) => InHand(i)' \/ Queued(i)'
    <3>1. SUFFICES ASSUME NEW k \in 1..Len(signals), signals[k] = i PROVE InHand(i)' \/ Queued(i)'
      BY DEF Queued
    <3>2. CASE k <= n
      BY <1>5, <2>1, <3>1, <3>2 DEF LoopRecv, InHand
    <3>3. CASE k > n
      <4>1. /\ Len(signals) \in Nat /\ n \in Nat /\ k \in Nat
            /\ Len(signals') = Len(signals) - n /\ signals'[k - n] = signals[k]
        <5>1. signals \in Seq(Ino) /\ Len(signals) \in Nat /\ n \in Nat /\ k \in Nat /\ n + 1 <= k /\ k <= Len(signals)
          BY <1>types, <2>1, <3>1, <3>3 DEF LoopTypes
        <5>2. Len(SubSeq(signals, n + 1, Len(signals))) = Len(signals) - n
          BY <5>1
        <5>3. SubSeq(signals, n + 1, Len(signals))[k - n] = signals[(k - n) + (n + 1) - 1]
          BY <5>1
        <5>4. (k - n) + (n + 1) - 1 = k
          BY <5>1
        <5> QED
          BY <2>1, <5>1, <5>2, <5>3, <5>4
      <4>2. k - n \in 1..Len(signals')
        BY <3>1, <3>3, <4>1
      <4> QED
        BY <3>1, <4>1, <4>2 DEF Queued
    <3> QED
      BY <2>1, <3>1, <3>2, <3>3
  <2>3. ~InHand(i) /\ ~Unmoving(i)
    BY <1>5 DEF LoopRecv, InHand, Unmoving, InFlight
  <2>4. Owing(i)' = Owing(i) /\ Owned(i)' = Owned(i)
    BY <1>5, <1>owned DEF LoopRecv, Owing, IsDirty
  <2> QED
    BY <2>2, <2>3, <2>4 DEF Owes
<1>6. CASE LoopLock
  <2>1. PICK j \in todo : Acquire(Loop, j) /\ todo' = todo \ {j}
    BY <1>6 DEF LoopLock
  <2>2. InHand(i) => InHand(i)'
    BY <1>types, <1>6, <2>1, AcquireFacts DEF LoopLock, InHand, LoopTypes
  <2>3. ~Unmoving(i) /\ Owing(i)' = Owing(i) /\ Owned(i)' = Owned(i) /\ Queued(i)' = Queued(i)
    BY <1>6, <1>owned, <1>queued DEF LoopLock, Unmoving, InFlight, Owing, IsDirty
  <2> QED
    BY <2>2, <2>3 DEF Owes
<1>7. CASE LoopSnapshot
  <2>1. Owing(i)' => Owing(i)
    BY <1>7 DEF LoopSnapshot, Owing, IsDirty
  <2>2. (InHand(i) /\ Owing(i)') => Unmoving(i)'
    BY <1>7 DEF LoopSnapshot, InHand, Owing, IsDirty, Unmoving, InFlight
  <2>3. ~Unmoving(i) /\ Owned(i)' = Owned(i) /\ Queued(i)' = Queued(i)
    BY <1>7, <1>owned, <1>queued DEF LoopSnapshot, Unmoving, InFlight
  <2> QED
    BY <2>1, <2>2, <2>3 DEF Owes
<1>8. CASE LoopUploadFile
  <2>1. item'[i].gen = item[i].gen
    BY <1>types, <1>8 DEF LoopUploadFile, LoopTypes, Item
  <2> QED
    BY <1>8, <2>1, <1>owned, <1>queued DEF LoopUploadFile, Owes, Owing, IsDirty, InHand, Unmoving
<1>9. CASE LoopUploadFails \/ LoopCommitFails
  <2>1. i \in batch => i \in errors'
    BY <1>9 DEF LoopUploadFails, LoopCommitFails, SnapshotInv, InFlight
  <2>2. Owing(i)' => Owing(i) /\ ~Unmoving(i)
    BY <1>9, <2>1 DEF LoopUploadFails, LoopCommitFails, Owing, IsDirty, Unmoving
  <2>3. ~InHand(i) /\ Owned(i)' = Owned(i) /\ Queued(i)' = Queued(i)
    BY <1>9, <1>owned, <1>queued DEF LoopUploadFails, LoopCommitFails, InHand
  <2> QED
    BY <2>2, <2>3 DEF Owes
<1>10. CASE LoopUploaded \/ LoopCommit
  BY <1>10, <1>owned, <1>queued
  DEF LoopUploaded, LoopCommit, Owes, Owing, IsDirty, InHand, Unmoving, InFlight
<1>11. CASE LoopApplyUnchanged \/ LoopApply
  <2>1. Owned(i)' = Owned(i) /\ Queued(i)' = Queued(i) /\ ~InHand(i)
    BY <1>11, <1>owned, <1>queued, AppliedFacts DEF LoopApplyUnchanged, LoopApply, InHand
  <2>2. CASE i \in Applied
    BY <1>11, <2>2, AppliedFacts DEF Owes, Owing, IsDirty
  <2>3. CASE i \notin Applied
    <3>1. Owing(i)' = Owing(i) /\ dirty_generation'[i] = dirty_generation[i] /\ st' = st
      BY <1>11, <2>3, AppliedFacts DEF Owing, IsDirty
    <3>2. (LoopApply /\ Unmoving(i)) => FALSE
      BY <2>3, AppliedFacts DEF LoopApply, Unmoving, SnapshotInv
    <3>3. (LoopApplyUnchanged /\ Unmoving(i)) => Unmoving(i)'
      <4>1. SUFFICES ASSUME LoopApplyUnchanged, Unmoving(i) PROVE Unmoving(i)'
        OBVIOUS
      <4>2. i \in changed
        BY <2>3, <4>1 DEF LoopApplyUnchanged, Applied, Unmoved, Unmoving
      <4> QED
        BY <3>1, <4>1, <4>2 DEF LoopApplyUnchanged, Unmoving, InFlight
    <3> QED
      BY <1>11, <2>1, <3>1, <3>2, <3>3 DEF Owes
  <2> QED
    BY <2>2, <2>3
<1>12. CASE LoopGcRank \/ LoopGcNext \/ LoopGcDone
  BY <1>12, <1>owned, <1>queued
  DEF LoopGcRank, LoopGcNext, LoopGcDone, Owes, Owing, IsDirty, InHand, Unmoving, InFlight
<1>13. CASE LoopGcOne
  BY <1>13, <1>queued DEF LoopGcOne, Owes, Owing, IsDirty, InHand, Unmoving, InFlight, Owned
<1> QED
  BY <1>1, <1>2, <1>3, <1>4, <1>5, <1>6, <1>7, <1>8, <1>9, <1>10, <1>11, <1>12, <1>13
  DEF Next, LoopStep, Environment

------------------------------------------------------------------------------
(* The theorems *)

\* The inductive invariant.
FlushInv ==
    /\ IndInv /\ SnapshotInv /\ FileInv /\ FlagInv /\ HandleInv
    /\ CurrentInv /\ OwedInv

\* FlushInv holds throughout.
LEMMA FlushInvariant == Spec => []FlushInv
<1>1. Init /\ IndInv => FlushInv
  <2> SUFFICES ASSUME Init, IndInv PROVE FlushInv
    OBVIOUS
  <2>1. \A c \in Client : pc[c] = "idle" /\ fd[c] = NoIno
    BY DEF Init
  <2>2. \A i \in Ino : dirty_generation[i] = 0 /\ ~staging_is_current[i]
    BY DEF Init
  <2>3. phase = "recv"
    BY DEF Init
  <2> QED
    BY <2>1, <2>2, <2>3
    DEF FlushInv, SnapshotInv, FileInv, FlagInv, HandleInv, CurrentInv, CacheIsCurrent, OwedInv, Owes,
        Owing, IsDirty, Unmoving, InFlight, SetattrPhases, OpenPhases
<1>2. FlushInv /\ IndInv' /\ Next => FlushInv'
  BY SnapshotInvStep, FileInvStep, FlagInvStep, HandleInvStep, CurrentInvStep, OwedInvStep
  DEF FlushInv, IndInv
<1>3. FlushInv /\ IndInv' /\ UNCHANGED vars => FlushInv'
  <2> SUFFICES ASSUME FlushInv, IndInv', UNCHANGED vars PROVE FlushInv'
    OBVIOUS
  <2> USE DEF FlushInv, vars, inodeVars, clientVars, loopVars
  <2>1. SnapshotInv' /\ FlagInv' /\ HandleInv'
    BY DEF SnapshotInv, FlagInv, HandleInv
  <2>2. FileInv'
    BY DEF FileInv, Unmoving, Faithful, Touched
  <2>3. CurrentInv'
    BY DEF CurrentInv, CacheIsCurrent, IsDirty, Touched, RemoteContent
  <2>4. OwedInv'
    BY DEF OwedInv, Owes, Owing, IsDirty, Queued, InHand, Unmoving, Owned
  <2> QED
    BY <2>1, <2>2, <2>3, <2>4
<1> QED
  BY <1>1, <1>2, <1>3, IndInvariant, PTL DEF Spec

\* Whatever the interleaving of writes, snapshots, uploads, commits, polls and
\* opens, a clean file whose staging_is_current is set has the bytes the Hub has,
\* so that reusing it loses nothing.  With a staging budget this takes that no
\* setattr() downloads a file the GC removed (mod.rs:4311 leaves the flag set).
THEOREM CacheStaysCurrent ==
    ASSUME ~HasBudget \/ "setattr" \notin Calls
    PROVE  Spec => []CacheIsCurrent
<1>1. FlushInv => CacheIsCurrent
  BY DEF FlushInv, CurrentInv
<1> QED
  BY <1>1, FlushInvariant, PTL

\* Unsaved bytes that nobody has open are queued or being flushed, or their failure
\* is on record, for any number of handles, signals and files per batch, as long as
\* only writers take a recorded failure (a reader's flush() enqueues nothing).
THEOREM NothingIsForgotten ==
    ASSUME "reader_flush" \notin Calls
    PROVE  Spec => []NothingForgotten
<1>1. FlushInv => NothingForgotten
  <2> SUFFICES ASSUME FlushInv, NEW i \in Ino, Unattended(i) PROVE OnItsWay(i)
    BY DEF NothingForgotten
  <2>1. Owing(i) /\ ~Owned(i)
    BY DEF Unattended, Owing, Owned, HasOpenHandles
  <2>2. Queued(i) \/ InHand(i) \/ Unmoving(i)
    BY <2>1 DEF FlushInv, OwedInv, Owes
  <2> QED
    BY <2>2 DEF Queued, InHand, Unmoving, OnItsWay
<1> QED
  BY <1>1, FlushInvariant, PTL
=============================================================================
