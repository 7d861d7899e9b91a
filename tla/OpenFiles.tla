------------------------------ MODULE OpenFiles ------------------------------
(* What the adapters use of VirtualFs: open, read, write, release, create, *)
(* unlink and setattr on files whose content is a version number, with     *)
(* advanced writes (the NFS and WinFsp adapters force them).  A lazy       *)
(* handle is bound to the content its file had at open; a local or a       *)
(* writable one reads the staging file.  Names and Hub commits in detail   *)
(* are the business of StagedWrite and HubSync.                            *)
EXTENDS Integers, FiniteSets, MountKind

CONSTANTS File, Handle
VARIABLES files,    \* per inode: where it is, its content, staging content, Hub content
          handles   \* VirtualFs::open_files
storeVars == <<files, handles>>

ASSUME OpenFilesAssumption == Handle \subseteq Nat /\ NONE \notin Handle \cup File

Closed == [kind |-> "closed", ino |-> NONE, at |-> 0]
StoreInit ==
    /\ files = [i \in File |-> [at |-> IF i \in case.present THEN "named" ELSE "absent", now |-> IF i \in case.present THEN 1 ELSE 0,
                               hub |-> IF i \in case.present THEN 1 ELSE 0, staged |-> 0, dirty |-> FALSE, error |-> FALSE, queued |-> FALSE]]
    /\ handles = [h \in Handle |-> Closed]
StoreTypeOK ==
    /\ files \in [File -> [at : {"named", "gone", "absent"}, now : 0 .. case.versions, staged : 0 .. case.versions,
                           dirty : BOOLEAN, hub : 0 .. case.versions, error : BOOLEAN, queued : BOOLEAN]]
    /\ handles \in [Handle -> [kind : {"closed", "lazy", "local", "write"}, ino : File \cup {NONE}, at : 0 .. case.versions]]
    /\ \A i \in File : files[i].dirty => files[i].staged = files[i].now
    /\ \A i \in File : files[i].queued => files[i].at # "named" /\ files[i].hub > 0

IsOpen(h) == handles[h].kind # "closed"
OpenOn(i) == {h \in Handle : IsOpen(h) /\ handles[h].ino = i}
Exists(i) == files[i].at = "named" \/ files[i].at = "gone"
MayChange(i) == files[i].now < case.versions
\* alloc_file_handle: a number nobody holds.
NewHandle(held) == CHOOSE h \in Handle \ held : ~IsOpen(h) /\ \A g \in Handle \ held : IsOpen(g) \/ h <= g
HandleLeft(held) == \E h \in Handle \ held : ~IsOpen(h)

Changed(i) == [files EXCEPT ![i].now = @ + 1, ![i].staged = files[i].now + 1, ![i].dirty = TRUE]
OpenRead(i, h) ==
    /\ handles' = [handles EXCEPT ![h] = IF files[i].dirty THEN [kind |-> "local", ino |-> i, at |-> 0]
                                         ELSE [kind |-> "lazy", ino |-> i, at |-> files[i].now]]
    /\ UNCHANGED files
\* Advanced writes: the staging file is reused or downloaded again; the file
\* is dirty from here on.
OpenWrite(i, h, truncate) ==
    /\ handles' = [handles EXCEPT ![h] = [kind |-> "write", ino |-> i, at |-> 0]]
    /\ files' = IF truncate THEN Changed(i) ELSE [files EXCEPT ![i].staged = files[i].now, ![i].dirty = TRUE]
CreateFile(i, h) ==
    /\ files' = [files EXCEPT ![i].at = "named", ![i].now = @ + 1, ![i].staged = files[i].now + 1, ![i].dirty = TRUE]
    /\ handles' = [handles EXCEPT ![h] = [kind |-> "write", ino |-> i, at |-> 0]]

\* What a read returns: a version, or EBADF.
EBADF == -1
ENOENT == -2
Content(h) == CASE handles[h].kind = "closed" -> EBADF
                [] handles[h].kind = "lazy"   -> handles[h].at
                [] OTHER                      -> files[handles[h].ino].staged
Writable(h) == handles[h].kind = "write"
WriteTo(h) == files' = Changed(handles[h].ino) /\ UNCHANGED handles
\* The last close of an unlinked file removes its inode and staging file.
CloseHandles(hs) ==
    /\ handles' = [h \in Handle |-> IF h \in hs THEN Closed ELSE handles[h]]
    /\ files' = [i \in File |-> IF files[i].at = "gone" /\ OpenOn(i) \subseteq hs
                                THEN [files[i] EXCEPT !.at = "absent", !.dirty = FALSE] ELSE files[i]]
Nameless(i) == [files[i] EXCEPT !.at = IF OpenOn(i) = {} THEN "absent" ELSE "gone", !.dirty = OpenOn(i) # {} /\ @]
\* unlink queues a delete if the Hub has the file; a rename over it does not,
\* for the name lives on.
UnlinkFile(i) ==
    /\ files' = [files EXCEPT ![i] = [Nameless(i) EXCEPT !.queued = files[i].hub > 0]]
    /\ UNCHANGED handles
ReplaceFile(i) == files' = [files EXCEPT ![i] = Nameless(i)] /\ UNCHANGED handles
\* setattr of a size: the staging file is cut or extended; handles keep what
\* they are bound to.
SetSize(i) == files' = Changed(i) /\ UNCHANGED handles

-----------------------------------------------------------------------------
(* The rest of the program: the flush loop and the watch on the Hub.       *)

Committed(i) ==
    /\ files[i].at = "named" /\ files[i].dirty
    /\ files' = [files EXCEPT ![i].dirty = FALSE, ![i].hub = files[i].now]
    /\ UNCHANGED handles
CommitFails(i) ==
    /\ Happens("commit_fails") /\ files[i].at = "named" /\ files[i].dirty /\ ~files[i].error
    /\ files' = [files EXCEPT ![i].error = TRUE]
    /\ UNCHANGED handles
\* The batch with the queued delete of i; a refused one stays queued.
Deleted(i) ==
    /\ files[i].queued
    /\ files' = [files EXCEPT ![i].queued = FALSE, ![i].hub = 0]
    /\ UNCHANGED handles
TakesError(i) == files' = [files EXCEPT ![i].error = FALSE] /\ UNCHANGED handles
Updated(i) ==
    /\ Happens("update") /\ files[i].at = "named" /\ ~files[i].dirty /\ MayChange(i)
    /\ files' = [files EXCEPT ![i].now = @ + 1, ![i].hub = files[i].now + 1]
    /\ UNCHANGED handles
=============================================================================
