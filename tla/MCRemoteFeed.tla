---------------------------- MODULE MCRemoteFeed ----------------------------
(* Small instances of RemoteFeed: a file in the root, a directory with one *)
(* file, and one case per question.                                        *)
EXTENDS RemoteFeed

CONSTANTS c1, c2
MCPath == {"a", "d", "d/b"}
MCUp == "a" :> "/" @@ "d" :> "/" @@ "d/b" :> "d"

\* threads, feed, names the kernel uses, files on the Hub, what happens
Of(clients, kind, names, files, events) ==
    [clients |-> clients, feed |-> kind, names |-> names, files |-> files,
     initial |-> files \ {"d"}, events |-> events, revs |-> MaxRev]
Writes == {"remote", "lookup", "create", "truncate", "unlink"}

\* The stream drops, is refused, reset and resumed while a file changes.
Resuming == Of({c1}, "follow", {}, {"a"}, {"remote", "readdir", "reconnect", "reset",
    "stream_ends", "cursor_refused", "connect_fails", "list_fails"})
\* The stream is not there; with and without an interval to poll at.
Fallback == Of({c1}, "follow", {}, {"a"}, {"remote", "readdir", "probe_fails", "not_served"})
NoInterval == [Fallback EXCEPT !.events = {"remote", "readdir", "unprimed", "not_served", "no_interval"}]
\* A file below a directory that is listed, or is not, or is a file by now.
FollowTree == Of({c1}, "follow", {"d", "d/b"}, {"d/b"}, {"remote", "lookup", "readdir"})
PollTree == [FollowTree EXCEPT !.feed = "poll"]
Replaced == Of({c1}, "poll", {"d"}, {"d", "d/b"}, {"remote", "lookup", "readdir"})
\* The mount writes the file that others change.
FollowWrites == Of({c1}, "follow", {"a"}, {"a"}, Writes)
PollWrites == [FollowWrites EXCEPT !.feed = "poll"]
MakesDir == Of({c1}, "poll", {"d", "d/b"}, {"d/b"}, {"remote", "mkdir", "create", "readdir"})
\* References, handles and the soft limit.
Evicts == Of({c1}, "poll", {"a"}, {"a"}, {"lookup", "open", "forget", "sweep"})
PollEvicts == Of({c1}, "poll", {"a"}, {"a"}, {"remote", "lookup", "readdir", "forget"})
\* Two threads, and answers of the Hub that are old when they are used.
Threads == Of({c1, c2}, "poll", {"a"}, {"a"}, {"lookup", "readdir", "unlink", "hub_fails"})
PollLate == [Of({c1}, "poll", {"a"}, {"a"}, Writes \cup {"late_answer", "hub_fails"}) EXCEPT !.revs = 3]
FollowLate == Of({c1}, "follow", {"a"}, {"a"}, (Writes \ {"unlink"}) \cup {"late_answer", "hub_fails"})
TreeLate == Of({c1}, "poll", {"d", "d/b"}, {"d", "d/b"},
    {"late_answer", "remote", "lookup", "truncate"})
ThreadsLate == [Of({c1, c2}, "poll", {"a"}, {"a"}, {"lookup", "create", "unlink", "late_answer"})
                EXCEPT !.revs = 3]

MCCase == {Resuming, Fallback, NoInterval, FollowTree, PollTree, Replaced, FollowWrites, PollWrites,
           MakesDir, Evicts, PollEvicts, Threads, PollLate, FollowLate, TreeLate, ThreadsLate}
\* A file below a directory nobody lists becomes a directory on the Hub.
MCDeepPath == {"d", "d/b", "d/b/c"}
MCDeepUp == "d" :> "/" @@ "d/b" :> "d" @@ "d/b/c" :> "d/b"
MCKinds == {[Of({c1}, "poll", {"d", "d/b"}, {"d/b", "d/b/c"}, {"remote", "lookup", "readdir"})
             EXCEPT !.initial = {"d/b"}]}
MCProgress == {Resuming, Fallback, NoInterval, FollowTree, PollTree}
=============================================================================
