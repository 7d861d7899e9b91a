------------------------------- MODULE FrontEnds -------------------------------
(* A mount has one of the three backends of setup.rs, and each has its own *)
(* adapter over the same engine.  A behaviour is one of: requests to the   *)
(* NFS server, files open on a drive, programs and threads of a FUSE       *)
(* mount, or one directory listed by any of them.                          *)
EXTENDS NfsPool, DriveHandles, DirPages, FuseThreads

CONSTANT Case   \* [part, backend, events, asks, and the bounds of the part]
vars == <<storeVars, nfsVars, driveVars, dirVars, fuseVars, case>>

Init ==
    /\ case \in Case
    /\ StoreInit /\ NfsInit /\ DriveInit /\ DirInit /\ FuseInit
Part(name) == case.part = name
Next ==
    /\ UNCHANGED case
    /\ \/ Part("nfs") /\ NfsNext /\ UNCHANGED <<driveVars, dirVars, fuseVars>>
       \/ Part("drive") /\ DriveNext /\ UNCHANGED <<nfsVars, dirVars, fuseVars>>
       \/ Part("dir") /\ DirNext /\ UNCHANGED <<storeVars, nfsVars, driveVars, fuseVars>>
       \/ Part("fuse") /\ FuseNext /\ UNCHANGED <<storeVars, nfsVars, driveVars, dirVars>>
Spec == Init /\ [][Next]_vars

-----------------------------------------------------------------------------
TypeOK == NfsTypeOK /\ FuseTypeOK
\* Every open handle is in the NFS pool or in a drive's context, in the hands
\* of a request that will release or keep it, or on its way to be released.
HandlesOwned == \A h \in Handle : IsOpen(h) => h \in Taken \cup Kept \cup InFlight
\* What the adapters keep books of agrees with what is open and under way:
\* handles, the pins and the order of the pool, the count of writers that an
\* unmount looks at, and the commits an open waits for.
BooksAgree == TypeOK /\ HandlesOwned /\ PinsAreHeld /\ WritersCounted /\ HookIsHeld
\* An answer to an NFS client is neither a stale handle nor an older content
\* than the client knew.
NfsAnswers == NoStaleReply /\ ReadIsFresh
\* A drive's reads and flushes mean what a program may take them to mean.
DriveAnswers == SeesOwnWrites /\ FlushMeansCommitted
=============================================================================
