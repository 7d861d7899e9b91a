----------------------------- MODULE MCFrontEnds -----------------------------
(* Small instances of FrontEnds.                                           *)
EXTENDS FrontEnds

CONSTANTS a, b, c
Of(part, backend, asks, events) ==
    [part |-> part, backend |-> backend, asks |-> asks, events |-> events,
     present |-> {1}, versions |-> 2, tasks |-> {1, 2}, requests |-> 4,
     entries |-> {}, most |-> 0, page |-> 1, threads |-> 2, workers |-> 1]
\* Three requests for one file, and the Hub changes it.
Changes == [Of("nfs", "nfs", {"read", "write"}, {"update"}) EXCEPT !.tasks = {1, 2, 3}, !.requests = 3]
\* It changes there and is written, in either order.
Twice == [Of("nfs", "nfs", {"read", "write"}, {"update"}) EXCEPT !.versions = 3]
\* Two files in a pool of one.
Evicts == [Of("nfs", "nfs", {"read", "write"}, {}) EXCEPT !.present = {1, 2}]
Removes == [Of("nfs", "nfs", {"read", "write", "remove"}, {}) EXCEPT !.present = {1, 2}, !.requests = 3]
Creates == [Of("nfs", "nfs", {"read", "create", "write", "rename", "setattr"}, {"unmount"}) EXCEPT !.requests = 3]
Writers == [Of("nfs", "nfs", {"read", "write"}, {}) EXCEPT !.tasks = {1, 2, 3}]
\* Contexts that read and write, flush, resize and delete, create and rename.
Overwrites == Of("drive", "winfsp", {"open", "read", "write", "overwrite"}, {"update"})
Flushes == [Of("drive", "winfsp", {"open", "write", "delete", "flush", "volume"}, {"commit_fails"}) EXCEPT !.versions = 3]
Deletes == Of("drive", "winfsp", {"open", "read", "write", "size", "delete"}, {})
Renames == Of("drive", "winfsp", {"open", "create", "read", "rename"}, {})
\* Listings of a directory that changes.
Lists(backend, events) == [Of("dir", backend, {}, events) EXCEPT !.entries = {1, 5}, !.most = 4, !.page = 2]
ListsFuse == Lists("fuse", {})
ListsNfs == Lists("nfs", {})
ListsDrive == Lists("winfsp", {"remove"})
\* One core worker and two fuser threads: the file changes on the Hub while it
\* is read; one thread waits for a commit.
Pages == Of("fuse", "fuse", {}, {"update", "unmount"})
Commits == Of("fuse", "fuse", {"trunc"}, {"update"})
MCCase == {Changes, Twice, Evicts, Removes, Creates, Writers, Overwrites, Flushes, Deletes, Renames, Pages, Commits,
           ListsFuse, ListsNfs, ListsDrive}
=============================================================================
