-------------------------------- MODULE Reads --------------------------------
(***************************************************************************)
(* Reading files: open_readonly() and read() of virtual_fs/mod.rs over the *)
(* whole-file cache, the prefetch state of a lazy handle, the streams of   *)
(* the CAS with their retries, the plan cache in front of it, and the      *)
(* download of a file without a xet hash.                                  *)
(*                                                                         *)
(* Threads read one handle under its mutex, so a reader is a handle with   *)
(* the read under way on it; readers meet in the caches.  A CASE has some  *)
(* of what can happen; the caches and the arithmetic of a handle have      *)
(* cases of their own.                                                     *)
(***************************************************************************)
EXTENDS Prefetch, FileCache, PlanCache, HttpFile

CONSTANTS Reader, Worker,  \* handles; spawn_populate_file_cache tasks
          MaxRead,         \* the longest read
          MaxChunk,        \* the longest chunk of a stream
          MaxAttempts,     \* MAX_ATTEMPTS
          Case

ASSUME ReadsAssumption ==
    /\ {MaxChunk, MaxAttempts, MaxPlans} \subseteq Nat \ {0} /\ MaxRead \in Nat
    /\ Terms \in [Hash -> Seq(Nat \ {0})] /\ \A h \in Hash : FileSize(h) = SizeOf[h]
    /\ \A c \in Case :
           /\ c.hashes \subseteq Hash /\ c.lengths \subseteq Nat /\ c.forwardOnly \in BOOLEAN
           /\ c.found \subseteq Hash /\ IsFiniteSet(c.found) /\ c.mounts \subseteq Mount
           /\ c.readers \subseteq Reader \cap Task \cap Caller /\ c.workers \subseteq Task /\ c.warmers \subseteq Caller
           /\ c.inodes \subseteq Ino

VARIABLES reader, case
vars == <<reader, case, cachevars, planvars, httpvars>>

Happens(event) == event \in case.events
OnlyReader == UNCHANGED <<cachevars, planvars, httpvars>>

Closed == [pc |-> "closed", h |-> CHOOSE h \in Hash : TRUE, ps |-> NewPrefetch(0, FALSE), offset |-> 0, n |-> 0,
           data |-> <<>>, strategy |-> "none", size |-> 0, tries |-> 0]
Init ==
    /\ case \in Case
    /\ CacheInit(case.found) /\ PlanInit /\ HttpInit
    /\ reader = [r \in Reader |-> Closed]

-----------------------------------------------------------------------------
(* open_readonly of a clean file.                                          *)

StartOpen(r, m, h) ==
    /\ Happens("file_cache") /\ reader[r].pc = "closed"
    /\ TryOpen(r, m, h)
    /\ reader' = [reader EXCEPT ![r].pc = "opening", ![r].h = h]
    /\ UNCHANGED <<planvars, httpvars>>
\* A hit is a handle on the cached file, which eviction cannot take away.
OpenLocal(r) ==
    /\ reader[r].pc = "opening" /\ task[r].pc = "hit"
    /\ task' = [task EXCEPT ![r] = NoTask]
    /\ reader' = [reader EXCEPT ![r] = Closed]
    /\ UNCHANGED <<disk, cache, planvars, httpvars>>
Lazy(h) == [Closed EXCEPT !.pc = "open", !.h = h, !.ps = NewPrefetch(SizeOf[h], case.forwardOnly)]
\* A miss spawns a download and opens the file lazily.
OpenMissed(r, w) ==
    /\ reader[r].pc = "opening" /\ task[r].pc = "miss" /\ task[w].pc = "idle"
    /\ task' = [task EXCEPT ![r] = NoTask, ![w] = Spawned(task[r].m, task[r].h)]
    /\ reader' = [reader EXCEPT ![r] = Lazy(reader[r].h)]
    /\ UNCHANGED <<disk, cache, planvars, httpvars>>
OpenLazy(r, h) ==
    /\ ~Happens("file_cache") /\ reader[r].pc = "closed"
    /\ reader' = [reader EXCEPT ![r] = Lazy(h)]
    /\ OnlyReader
Close(r) ==
    /\ reader[r].pc = "open"
    /\ reader' = [reader EXCEPT ![r] = Closed]
    /\ OnlyReader

-----------------------------------------------------------------------------
(* read of a lazy handle, under the mutex of its prefetch state.           *)

Cursor(x) == x.offset + Len(x.data)

\* The assembly loop: answered, or the next miss.
Assembled(r, x) ==
    LET plan == PrepareFetch(x.ps, Cursor(x), x.n - Len(x.data))
    IN  reader' = [reader EXCEPT ![r] =
            IF Len(x.data) = Least(x.n, x.ps.size - x.offset) THEN [x EXCEPT !.pc = "answered"]
            ELSE [x EXCEPT !.pc = "fetch", !.ps = plan.ps, !.strategy = plan.strategy,
                           !.size = plan.size, !.tries = 0]]
Read(r, offset, n) ==
    LET hit == ServeForward(reader[r].ps, offset, n)
        data == IF hit.data = <<>> THEN ServeSeek(reader[r].ps, offset, n) ELSE hit.data
    IN  /\ reader[r].pc = "open" /\ offset < reader[r].ps.size
        /\ Assembled(r, [reader[r] EXCEPT !.ps = hit.ps, !.offset = offset, !.n = n, !.data = data])
        /\ OnlyReader
ReadDone(r) ==
    /\ reader[r].pc \in {"answered", "failed"}
    /\ reader' = [reader EXCEPT ![r] = [Closed EXCEPT !.pc = "open", !.h = reader[r].h, !.ps = reader[r].ps]]
    /\ OnlyReader

-----------------------------------------------------------------------------
(* fetch_data.                                                             *)

IsStream(x) == x.strategy \in {"start", "continue"}
\* The first attempt takes the stream of the handle, if the fetch is one of
\* a stream; the others open a new one, which needs a plan.
Stream(x) == IF IsStream(x) /\ x.tries = 0 /\ x.ps.stream.open THEN x.ps.stream ELSE StreamAt(Cursor(x))
NeedsPlan(x) == Happens("plans") /\ ~(IsStream(x) /\ x.tries = 0 /\ x.ps.stream.open)
StreamEnd(x) == IF IsStream(x) THEN x.ps.size ELSE Cursor(x) + x.size
\* The loop over the chunks stops when it has `size` bytes, when the stream
\* ends, or when a chunk fails or does not come within read_fetch_timeout.
Chunks(x, width, k) ==
    LET from == Stream(x).pos
    IN  [j \in 1..k |-> Bytes(Least(from + (j - 1) * width, StreamEnd(x)), Least(from + j * width, StreamEnd(x)))]
AllChunks(x, width) ==
    CHOOSE k \in 0..x.ps.size :
        LET total(j) == Len(FlattenSeq(Chunks(x, width, j)))
        IN  /\ total(k) >= x.size \/ Stream(x).pos + k * width >= StreamEnd(x)
            /\ \A j \in 0..k - 1 : total(j) < x.size /\ Stream(x).pos + j * width < StreamEnd(x)
Fetched(x, width, k) ==
    LET chunks == Chunks(x, width, k)
        total == Len(FlattenSeq(chunks))
        failed == k < AllChunks(x, width)
        eof == ~failed /\ total < x.size
        stream == IF ~IsStream(x) THEN x.ps.stream
                  ELSE IF failed \/ (eof /\ total > 0) THEN NoStream
                  ELSE StreamAt(Stream(x).pos + total)
        kept == [x EXCEPT !.ps.stream = stream]
        filled == StoreFetched(kept.ps, Cursor(x), chunks)
        hit == ServeForward(filled, Cursor(x), x.n - Len(x.data))
    IN  IF total > 0 THEN [kept EXCEPT !.ps = hit.ps, !.data = @ \o hit.data]
        ELSE [kept EXCEPT !.tries = @ + 1]
\* An attempt without a byte is tried again, then the read fails with EIO.
Attempted(r, x) ==
    IF x.tries = reader[r].tries THEN Assembled(r, x)
    ELSE reader' = [reader EXCEPT ![r] = [x EXCEPT !.pc = IF x.tries = MaxAttempts THEN "failed" ELSE "fetch"]]

Attempt(r, width) ==
    /\ reader[r].pc = "fetch" /\ ~NeedsPlan(reader[r])
    /\ Attempted(r, Fetched(reader[r], width, AllChunks(reader[r], width)))
    /\ OnlyReader
AttemptFails(r, width, k) ==
    /\ Happens("cas_fails") /\ reader[r].pc = "fetch" /\ ~NeedsPlan(reader[r])
    /\ k < AllChunks(reader[r], width)
    /\ Attempted(r, Fetched(reader[r], width, k))
    /\ OnlyReader
OpenStream(r) ==
    /\ reader[r].pc = "fetch" /\ NeedsPlan(reader[r])
    /\ PlanStart(r, <<reader[r].h, <<Cursor(reader[r]), StreamEnd(reader[r])>>>>)
    /\ reader' = [reader EXCEPT ![r].pc = "plan"]
    /\ UNCHANGED <<cachevars, httpvars>>
\* The terms of the plan are downloaded from its URLs, which expire.
StreamPlanned(r) ==
    LET x == [reader[r] EXCEPT !.pc = "fetch"]
        useful == caller[r].pc = "answered" /\ caller[r].age # "expired"
    IN  /\ reader[r].pc = "plan" /\ PlanDone(r)
        /\ Attempted(r, Fetched(x, MaxChunk, IF useful THEN AllChunks(x, MaxChunk) ELSE 0))
        /\ UNCHANGED <<cachevars, httpvars>>
\* warm_reconstruction_cache: the plan of the whole file.
WarmCache(c, h) ==
    /\ PlanStart(c, <<h, NoRange>>)
    /\ UNCHANGED <<reader, cachevars, httpvars>>

-----------------------------------------------------------------------------
(* The specification.                                                      *)

ReaderStep(r) ==
    \/ OpenLocal(r) \/ \E w \in case.workers : OpenMissed(r, w)
    \/ ReadDone(r) \/ OpenStream(r) \/ StreamPlanned(r)
    \/ \E width \in 1..MaxChunk : Attempt(r, width) \/ \E k \in 0..MaxRead : AttemptFails(r, width, k)
CacheNext ==
    /\ \/ \E t \in Task : CacheStep(t)
       \/ \E m \in case.mounts : Happens("restart") /\ Restart(m)
    /\ UNCHANGED <<reader, planvars, httpvars>>
PlanNext ==
    /\ \/ \E c \in Caller : PlanStep(c)
       \/ \E c \in case.warmers : PlanDone(c)
       \/ \E c \in Caller : Happens("plan_fails") /\ PlanFails(c)
       \/ \E c \in Caller : Happens("timeout") /\ PlanDropped(c)
       \/ \E n \in 1..MaxPlans : Happens("ages") /\ PlanAges(n)
    /\ UNCHANGED <<reader, cachevars, httpvars>>
HttpNext ==
    /\ Happens("http")
    /\ \/ \E v \in Version : (v > web \/ Happens("hub_returns")) /\ WebChanges(v)
       \/ \E o \in Opener : HttpStep(o) \/ HttpFails(o)
       \/ \E o \in Opener, i \in case.inodes : HttpStart(o, i)
       \/ \E o \in Opener : Happens("etag_lost") /\ HttpSidecarLost(o)
    /\ UNCHANGED <<reader, cachevars, planvars>>
Next ==
    /\ case' = case
    /\ \/ \E r \in case.readers : ReaderStep(r) \/ Close(r)
       \/ \E r \in case.readers, h \in case.hashes : OpenLazy(r, h) \/ \E m \in case.mounts : StartOpen(r, m, h)
       \/ \E r \in case.readers, n \in case.lengths : \E offset \in 0..reader[r].ps.size : Read(r, offset, n)
       \/ \E c \in case.warmers, h \in case.hashes : WarmCache(c, h)
       \/ CacheNext \/ PlanNext \/ HttpNext

\* The spawned tasks and the calls to the CAS go on and end, timers fire,
\* and tokio's semaphore is fair.
Fairness ==
    /\ \A t \in Worker : /\ WF_vars(case' = case /\ CacheStep(t) /\ UNCHANGED <<reader, planvars, httpvars>>)
                         /\ SF_vars(case' = case /\ Permit(t) /\ UNCHANGED <<reader, planvars, httpvars>>)
    /\ \A c \in Caller :
        WF_vars(/\ case' = case /\ UNCHANGED <<reader, cachevars, httpvars>>
                /\ PlanStep(c) \/ (Happens("timeout") /\ caller[c].pc = "wait" /\ PlanDropped(c)))
Spec == Init /\ [][Next]_vars /\ Fairness

-----------------------------------------------------------------------------
(* Properties.                                                             *)

TypeOK ==
    /\ case \in Case /\ disk \subseteq Hash
    /\ \A r \in Reader :
           /\ reader[r].pc \in {"closed", "opening", "open", "fetch", "plan", "answered", "failed"}
           /\ reader[r].tries \in 0..MaxAttempts
           /\ reader[r].ps.window \in InitialWindow..MaxWindow
    /\ \A m \in Mount : cache[m].inflight \subseteq Hash
    /\ dest.file \subseteq Version /\ dest.tmp \subseteq Version

\* "Never return a short read unless at real EOF": what read() returns are
\* the bytes of the file at the offset, all that were asked for, put together
\* from the forward buffer, the seek window and several fetches.
ReadIsExact == \A r \in Reader : reader[r].pc = "answered" =>
    LET x == reader[r]
    IN  x.data = Bytes(x.offset, Least(x.offset + x.n, x.ps.size))

\* The buffers of a handle hold the bytes of the offsets they claim.
BuffersHold == \A r \in Reader : HoldsFile(reader[r].ps)

\* The stream kept for the next fetch continues the buffer: the next
\* sequential read takes its bytes for those at the end of the buffer.
StreamFollowsBuffer == \A r \in Reader :
    LET ps == reader[r].ps
    IN  reader[r].pc = "open" /\ ps.stream.open => ps.stream.pos = BufEnd(ps)

\* What a read takes from memory and what it fetches fit together: no byte is
\* wrong, missing or from another offset, now or on the next read.
ReadsExact == ReadIsExact /\ BuffersHold /\ StreamFollowsBuffer

\* However populates, evictions, forgets and restarts interleave, the file
\* cache counts what it holds, and no file is left on disk that nobody knows.
CacheSound == TypeOK /\ AccountingExact /\ NoLeak

\* A plan from the cache, cut out of a whole one or waited for, covers what
\* was asked; the cache is bounded and asks once.
PlansSound == PlanCovers /\ PlansBounded /\ OneLeader

\* Nobody who waits for the download or the plan of somebody else does so for
\* good, whether the other succeeds, fails or is dropped.
ReadersAreServed == PopulateEnds /\ WaitersWake
=============================================================================
