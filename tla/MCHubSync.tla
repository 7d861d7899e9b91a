------------------------------ MODULE MCHubSync ------------------------------
(* Instances of HubSync for TLC. *)
EXTENDS HubSync

CONSTANTS a, b, d, c1, c2

\* Every client and the loop may have a delete batch in flight.
Flushers == Client \cup {Loop}

\* One file, or two files, on the Hub at mount time; the other inode numbers are free.
OneFile == [i \in Ino |-> IF i = 1 THEN a ELSE NoPath]
TwoFiles == [i \in Ino |-> CASE i = 1 -> a [] i = 2 -> b [] OTHER -> NoPath]

Of(clients, inodes, paths, initial, events) ==
    [clients |-> clients, inodes |-> inodes, paths |-> paths, initial |-> initial, events |-> events]
\* Every call on two names, with a Hub that refuses or whose answer is lost.
OneCaller == Of({c1}, {1, 2, 3}, {a, b}, TwoFiles,
    {"create", "write", "truncate", "unlink", "rename", "rmdir", "refused", "lost_answer", "quiet"})
\* Two callers and three names.
TwoCallers == Of({c1, c2}, {1, 2}, {a, b, d}, OneFile, {"create", "write", "unlink", "rename", "refused", "quiet"})
MCCase == {OneCaller, TwoCallers}
=============================================================================
