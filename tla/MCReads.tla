------------------------------- MODULE MCReads -------------------------------
(* Small instances of Reads: one handle and every offset, two readers and  *)
(* the plan cache, two mounts and the file cache, and the HTTP download.   *)
EXTENDS Reads

CONSTANTS r1, r2, w1, w2, h8, h3, h2
MCTask == {r1, r2, w1, w2}
MCSizeOf == h8 :> 8 @@ h3 :> 3 @@ h2 :> 2
MCTerms == h8 :> <<3, 5>> @@ h3 :> <<1, 2>> @@ h2 :> <<1, 1>>

Of(readers, hashes, events) ==
    [readers |-> readers, hashes |-> hashes, events |-> events, lengths |-> 1..MaxRead, forwardOnly |-> FALSE,
     found |-> {}, mounts |-> Mount, workers |-> Worker, warmers |-> {}, inodes |-> {}]
\* One handle of eight bytes, reads of one to three bytes anywhere.
Handle == Of({r1}, {h8}, {"cas_fails"})
DirectIo == [Handle EXCEPT !.forwardOnly = TRUE]
\* Two readers of one file; a reader beside a caller that warms the cache.
Plans == [Of({r1, r2}, {h2}, {"plans", "timeout"}) EXCEPT !.lengths = {1}]
Warmed == [Of({r1}, {h3}, {"plans", "ages", "plan_fails"}) EXCEPT !.lengths = {1, 3}, !.warmers = {w1}]
Warming == [Of({}, {h3, h2}, {"plans", "plan_fails"}) EXCEPT !.warmers = {r1, r2, w1}]

\* Files that fit, but not both, and one that never does; two mounts.
FilesOne == [Of({r1}, {h8, h3, h2}, {"file_cache"}) EXCEPT !.lengths = {}, !.mounts = {"m1"}]
FilesTwo == [Of({r1}, {h3}, {"file_cache", "restart"}) EXCEPT !.lengths = {}]
FilesMore == [Of({r1}, {h3, h2}, {"file_cache", "restart"}) EXCEPT !.lengths = {}, !.found = {h2}, !.workers = {w1}]
\* A file of the Hub that is as it was before; an ETag that is not written.
HttpBack == [Of({}, {}, {"http", "hub_returns"}) EXCEPT !.inodes = {1}]
HttpLost == [HttpBack EXCEPT !.events = {"http", "etag_lost"}]
MCCase == {Handle, DirectIo, Plans, Warmed, Warming, FilesOne, FilesTwo, FilesMore, HttpBack, HttpLost}
=============================================================================
