----------------------------- MODULE DriveHandles -----------------------------
(* windows/winfsp_fs.rs: the contexts of the files open on a drive, the    *)
(* VirtualFs handles each opens when it first reads or writes, and the     *)
(* requests that WinFsp's dispatcher threads serve.  The driver lets       *)
(* several reads of a file run at once and everything else alone; the      *)
(* flush loop, and a flush of the whole volume, run beside them.           *)
EXTENDS OpenFiles

CONSTANTS Context, Irp
ASSUME DriveAssumption == Context \subseteq Nat /\ Irp \subseteq Nat
VARIABLES ctx,      \* OpenHandle of each open file object
          irp,      \* what each dispatcher thread is doing
          writers   \* AdapterStats::open_write_handles
driveVars == <<ctx, irp, writers>>

NoCtx == [at |-> "none", ino |-> NONE, read |-> NONE, write |-> NONE, wrote |-> 0]
NoIrp == [at |-> "idle", op |-> "none", ctx |-> NONE, fh |-> NONE, todo |-> {}, seen |-> 0, must |-> <<>>, gone |-> {}]
DriveInit == ctx = [c \in Context |-> NoCtx] /\ irp = [t \in Irp |-> NoIrp] /\ writers = 0

-----------------------------------------------------------------------------
(* The driver's lock on a file, and the steps of a request.                *)

Mine(t) == ctx[irp[t].ctx]
OfFile(i) == {t \in Irp : irp[t].ctx # NONE /\ ctx[irp[t].ctx].ino = i}
Alone(i) == OfFile(i) = {}
OnlyReads(i) == \A t \in OfFile(i) : irp[t].op = "read"
Kept == UNION {{ctx[c].read, ctx[c].write} : c \in Context} \ {NONE}
InFlight == UNION {({irp[t].fh} \ {NONE}) \cup irp[t].todo : t \in Irp}
Unused == NewHandle(Kept \cup InFlight)
Spare == HandleLeft(Kept \cup InFlight)
Serves(t, r) == irp' = [irp EXCEPT ![t] = r]
Finishes(t) == Serves(t, NoIrp)
\* The first idle thread and the first unused context: they are alike.
Ready(t) == irp[t] = NoIrp /\ \A u \in Irp : u < t => irp[u] # NoIrp
FirstUnused(c) == ctx[c] = NoCtx /\ \A d \in Context : d < c => ctx[d] # NoCtx
Admitted(t, c, op) ==
    /\ Ready(t) /\ op \in case.asks /\ ctx[c].at # "none"
    /\ IF op = "read" THEN OnlyReads(ctx[c].ino) ELSE Alone(ctx[c].ino)
Starts(t, c, op, at) == Serves(t, [NoIrp EXCEPT !.at = at, !.op = op, !.ctx = c])
Asked(t, c, op, at) == Admitted(t, c, op) /\ Starts(t, c, op, at)
SameStore == UNCHANGED storeVars
SameDrive == UNCHANGED <<ctx, writers>>
Sets(t, f, value) == ctx' = [ctx EXCEPT ![irp[t].ctx][f] = value]

\* Open only resolves the path; Create opens a file to write.
OpenCtx(t, c, i) ==
    /\ Ready(t) /\ "open" \in case.asks /\ FirstUnused(c) /\ files[i].at = "named" /\ Alone(i)
    /\ ctx' = [ctx EXCEPT ![c] = [NoCtx EXCEPT !.at = "open", !.ino = i]]
    /\ UNCHANGED <<irp, writers>> /\ SameStore
CreateCtx(t, c, i) ==
    /\ Ready(t) /\ "create" \in case.asks /\ FirstUnused(c) /\ Spare
    /\ files[i].at = "absent" /\ files[i].now = 0 /\ MayChange(i)
    /\ CreateFile(i, Unused)
    /\ ctx' = [ctx EXCEPT ![c] = [NoCtx EXCEPT !.at = "open", !.ino = i, !.write = Unused, !.wrote = files'[i].now]]
    /\ writers' = writers + 1 /\ UNCHANGED irp

\* Read: through the writable handle, or one opened now under read_fh's lock.
ReadIrp(t, c) == Asked(t, c, "read", "reader") /\ ctx[c].at = "open" /\ SameDrive /\ SameStore
Reader(t) ==
    /\ irp[t].at = "reader"
    /\ LET fh == IF Mine(t).write # NONE THEN Mine(t).write ELSE Mine(t).read IN
       \/ /\ fh # NONE /\ Serves(t, [irp[t] EXCEPT !.at = "readfh", !.fh = fh])
          /\ SameStore /\ SameDrive
       \/ /\ fh = NONE
          /\ IF Exists(Mine(t).ino)
             THEN Spare /\ OpenRead(Mine(t).ino, Unused) /\ Sets(t, "read", Unused)
                  /\ Serves(t, [irp[t] EXCEPT !.at = "readfh", !.fh = Unused]) /\ UNCHANGED writers
             ELSE Finishes(t) /\ SameStore /\ SameDrive
ReadFh(t) ==
    /\ irp[t].at = "readfh"
    /\ Serves(t, [irp[t] EXCEPT !.at = "answer", !.fh = NONE, !.seen = Content(irp[t].fh)])
    /\ SameStore /\ SameDrive

\* Write and SetFileSize: the writable handle, opened once; paging writes
\* come after Cleanup too.
WriteIrp(t, c) == Asked(t, c, "write", "writer") /\ SameDrive /\ SameStore
SizeIrp(t, c) == Asked(t, c, "size", "writer") /\ ctx[c].at = "open" /\ SameDrive /\ SameStore
Writer(t) ==
    /\ irp[t].at = "writer"
    /\ \/ Mine(t).write # NONE /\ Serves(t, [irp[t] EXCEPT !.at = "writefh"]) /\ SameStore /\ SameDrive
       \/ Mine(t).write = NONE /\ Exists(Mine(t).ino) /\ Spare
          /\ OpenWrite(Mine(t).ino, Unused, FALSE) /\ Sets(t, "write", Unused) /\ writers' = writers + 1
          /\ Serves(t, [irp[t] EXCEPT !.at = "writefh"])
       \/ Mine(t).write = NONE /\ ~Exists(Mine(t).ino) /\ Finishes(t) /\ SameStore /\ SameDrive
WriteFh(t) ==
    /\ irp[t].at = "writefh" /\ MayChange(Mine(t).ino)
    /\ IF irp[t].op = "size" THEN SetSize(Mine(t).ino) ELSE WriteTo(Mine(t).write)
    /\ Sets(t, "wrote", files'[Mine(t).ino].now)
    /\ Finishes(t) /\ UNCHANGED writers

\* Overwrite: a truncating handle takes the place of the writable one.
Overwrite(t, c) ==
    /\ Admitted(t, c, "overwrite") /\ ctx[c].at = "open"
    /\ Exists(ctx[c].ino) /\ MayChange(ctx[c].ino) /\ Spare
    /\ OpenWrite(ctx[c].ino, Unused, TRUE)
    /\ ctx' = [ctx EXCEPT ![c].write = Unused, ![c].wrote = files'[ctx[c].ino].now]
    /\ writers' = IF ctx[c].write = NONE THEN writers + 1 ELSE writers
    /\ Serves(t, [NoIrp EXCEPT !.at = "swap", !.op = "overwrite", !.ctx = c, !.todo = {ctx[c].write} \ {NONE}])
Discard(t) ==
    /\ irp[t].at = "swap"
    /\ CloseHandles(irp[t].todo) /\ Finishes(t) /\ SameDrive

\* Cleanup deletes, or only starts the upload; Close releases.
Cleanup(t, c) ==
    /\ Ready(t) /\ ctx[c].at = "open" /\ Alone(ctx[c].ino)
    /\ ctx' = [ctx EXCEPT ![c].at = "cleaned"]
    /\ \/ "delete" \in case.asks /\ files[ctx[c].ino].at = "named" /\ UnlinkFile(ctx[c].ino)
       \/ SameStore
    /\ UNCHANGED <<irp, writers>>
Close(t, c) ==
    /\ Ready(t) /\ ctx[c].at = "cleaned" /\ Alone(ctx[c].ino)
    /\ ctx' = [ctx EXCEPT ![c] = NoCtx]
    /\ writers' = IF ctx[c].write # NONE THEN writers - 1 ELSE writers
    /\ Serves(t, [NoIrp EXCEPT !.at = "swap", !.op = "close", !.todo = {ctx[c].read, ctx[c].write} \ {NONE}])
    /\ SameStore
\* Rename over another file: that file's contexts stay.
RenameCtx(t, c, j) ==
    /\ Ready(t) /\ "rename" \in case.asks /\ ctx[c].at = "open" /\ Alone(ctx[c].ino) /\ Alone(j)
    /\ files[ctx[c].ino].at = "named" /\ files[j].at = "named" /\ j # ctx[c].ino
    /\ ReplaceFile(j)
    /\ UNCHANGED <<irp, ctx, writers>>

-----------------------------------------------------------------------------
(* Flush: a parked upload error first, then the wait for the commit.       *)

\* What has to be on the Hub when a flush succeeds.
Owes(i, version) == [j \in File |-> IF j = i THEN version ELSE 0]
FlushIrp(t, c) == 
    /\ Asked(t, c, "flush", "error") /\ ctx[c].at = "open"
    /\ SameDrive /\ SameStore
FlushError(t) ==
    LET i == Mine(t).ino IN
    /\ irp[t].at = "error"
    /\ \/ Mine(t).write = NONE /\ Serves(t, [irp[t] EXCEPT !.at = "flushed", !.must = Owes(i, Mine(t).wrote)]) /\ SameStore
       \/ Mine(t).write # NONE /\ files[i].error /\ TakesError(i) /\ Finishes(t)
       \/ Mine(t).write # NONE /\ ~files[i].error
          /\ Serves(t, [irp[t] EXCEPT !.at = IF files[i].dirty THEN "wait" ELSE "flushed", !.must = Owes(i, Mine(t).wrote)]) /\ SameStore
    /\ SameDrive
VolumeFlush(t) ==
    /\ Ready(t) /\ "volume" \in case.asks
    /\ Serves(t, [NoIrp EXCEPT !.at = "wait", !.op = "volume", !.must = [i \in File |-> files[i].now],
                              !.gone = {i \in File : files[i].queued}])
    /\ SameStore /\ SameDrive
\* Mutant: a flush of the volume forgets the queued deletes.
PendingDirty(t) == {i \in File : files[i].dirty /\ files[i].at = "named" /\ (irp[t].op = "volume" \/ i = Mine(t).ino)}
Pending(t) == IF irp[t].op = "volume" THEN {i \in File : files[i].queued \/ (files[i].dirty /\ files[i].at = "named")}
              ELSE {i \in {Mine(t).ino} : files[i].dirty}
\* Mutant: only the error is looked at.
WaitErrorOnly(t) ==
    /\ irp[t].at = "wait"
    /\ \/ irp[t].op = "flush" /\ files[Mine(t).ino].error /\ TakesError(Mine(t).ino) /\ Finishes(t)
       \/ irp[t].op = "flush" /\ ~files[Mine(t).ino].error /\ Serves(t, [irp[t] EXCEPT !.at = "flushed"]) /\ SameStore
       \/ irp[t].op = "volume" /\ Pending(t) = {} /\ Serves(t, [irp[t] EXCEPT !.at = "flushed"]) /\ SameStore
    /\ SameDrive
WaitCommitted(t) ==
    /\ irp[t].at = "wait"
    /\ \/ irp[t].op = "flush" /\ files[Mine(t).ino].error /\ TakesError(Mine(t).ino) /\ Finishes(t)
       \/ /\ irp[t].op = "flush" => ~files[Mine(t).ino].error
          /\ Pending(t) = {} /\ Serves(t, [irp[t] EXCEPT !.at = "flushed"]) /\ SameStore
    /\ SameDrive
WaitTimesOut(t) ==
    /\ irp[t].at = "wait" /\ Pending(t) # {}
    /\ Finishes(t) /\ SameStore /\ SameDrive
Completes(t) == irp[t].at \in {"answer", "flushed"} /\ Finishes(t) /\ SameStore /\ SameDrive

DriveNext ==
    \/ \E t \in Irp, c \in Context, i \in File : OpenCtx(t, c, i) \/ CreateCtx(t, c, i) \/ RenameCtx(t, c, i)
    \/ \E t \in Irp, c \in Context :
          \/ ReadIrp(t, c) \/ WriteIrp(t, c) \/ SizeIrp(t, c) \/ Overwrite(t, c)
          \/ Cleanup(t, c) \/ Close(t, c) \/ FlushIrp(t, c)
    \/ \E t \in Irp :
          \/ Reader(t) \/ ReadFh(t) \/ Writer(t) \/ WriteFh(t) \/ Discard(t)
          \/ FlushError(t) \/ VolumeFlush(t) \/ WaitCommitted(t) \/ WaitTimesOut(t) \/ Completes(t)
    \/ \E i \in File : (Committed(i) \/ CommitFails(i) \/ Updated(i) \/ Deleted(i)) /\ UNCHANGED driveVars

-----------------------------------------------------------------------------
\* The number the supervisor refuses an unmount by is the number of contexts
\* that can write.
WritersCounted == writers = Cardinality({c \in Context : ctx[c].write # NONE})
\* A read through a context that wrote returns that write, or a later one,
\* and no read finds its handle closed.
SeesOwnWrites == \A t \in Irp : irp[t].at = "answer" => irp[t].seen # EBADF /\ irp[t].seen >= Mine(t).wrote
\* A flush that succeeds has what its context wrote (a flush of the volume,
\* what every file held) on the Hub, unless the file is gone, and after a flush
\* of the volume the Hub has nothing left of the files unlinked before it.
FlushMeansCommitted == \A t \in Irp : irp[t].at = "flushed" =>
    /\ \A i \in File : files[i].at = "named" => files[i].hub >= irp[t].must[i]
    /\ \A i \in irp[t].gone : files[i].hub = 0
=============================================================================
