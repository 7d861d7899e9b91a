------------------------------ MODULE Prefetch ------------------------------
(***************************************************************************)
(* PrefetchState of virtual_fs/prefetch.rs as a value: the buffers of one  *)
(* lazy file handle and the decisions taken on a miss.  A byte is named by *)
(* its offset in the file, so a buffer that holds the wrong bytes shows.   *)
(***************************************************************************)
EXTENDS Naturals, Sequences, SequencesExt

CONSTANTS InitialWindow, MaxWindow,   \* INITIAL_WINDOW, MAX_WINDOW
          SeekWindow,                 \* SEEK_WINDOW
          ForwardSkip                 \* FORWARD_SKIP

ASSUME WindowAssumption == /\ {InitialWindow, MaxWindow, SeekWindow} \subseteq Nat \ {0}
                           /\ ForwardSkip \in Nat /\ InitialWindow <= MaxWindow

Least(a, b) == IF a < b THEN a ELSE b
Most(a, b) == IF a < b THEN b ELSE a
Bytes(from, to) == [n \in 1..(IF to > from THEN to - from ELSE 0) |-> from + n - 1]

\* A stream is where its next byte comes from.
NoStream == [open |-> FALSE, pos |-> 0]
StreamAt(pos) == [open |-> TRUE, pos |-> pos]

NewPrefetch(size, forwardOnly) ==
    [size |-> size, chunks |-> <<>>, len |-> 0, front |-> 0, start |-> 0,
     seek |-> <<>>, seekStart |-> 0, window |-> InitialWindow, stream |-> NoStream,
     forwardOnly |-> forwardOnly]

BufEnd(ps) == ps.start + ps.len
SeekEnd(ps) == ps.seekStart + Len(ps.seek)

\* read_chunk_range: count bytes of the buffer after the first `skip`.
ReadChunkRange(ps, skip, count) ==
    SubSeq(FlattenSeq(ps.chunks), ps.front + skip + 1, ps.front + skip + count)

\* Consumed chunks leave; the rest of a chunk stays with an offset into it.
PopFront(ps, n) ==
    LET cum[k \in 0..Len(ps.chunks)] == IF k = 0 THEN 0 ELSE cum[k - 1] + Len(ps.chunks[k])
        whole == CHOOSE k \in DOMAIN cum : /\ cum[k] <= ps.front + n
                                           /\ \A j \in DOMAIN cum : cum[j] <= ps.front + n => j <= k
    IN  [ps EXCEPT !.chunks = SubSeq(@, whole + 1, Len(@)), !.front = @ + n - cum[whole],
                   !.len = @ - n, !.start = @ + n]

\* What is consumed goes to the seek window, appended when it follows what
\* is there.
DrainToSeek(ps, consumed) ==
    LET n == Least(consumed, ps.len)
        follows == ps.seek # <<>> /\ SeekEnd(ps) = ps.start /\ n <= SeekWindow
        keep == Least(n, SeekWindow)
        appended == ps.seek \o ReadChunkRange(ps, 0, n)
        excess == IF Len(appended) > SeekWindow THEN Len(appended) - SeekWindow ELSE 0
        moved == IF ps.forwardOnly THEN ps
                 ELSE IF follows
                 THEN [ps EXCEPT !.seek = SubSeq(appended, excess + 1, Len(appended)), !.seekStart = @ + excess]
                 ELSE [ps EXCEPT !.seek = ReadChunkRange(ps, n - keep, keep), !.seekStart = ps.start + n - keep]
    IN  IF n = 0 THEN ps ELSE PopFront(moved, n)

\* A read from the forward buffer, [data, ps]; without data when the offset
\* is not in it.
ServeForward(ps, offset, n) ==
    LET skip == offset - ps.start
        count == Least(n, ps.len - skip)
    IN  IF offset < ps.start \/ offset >= BufEnd(ps) THEN [data |-> <<>>, ps |-> ps]
        ELSE [data |-> ReadChunkRange(ps, skip, count),
              ps |-> IF ps.forwardOnly THEN DrainToSeek(ps, skip + count) ELSE ps]
ServeSeek(ps, offset, n) ==
    IF ps.forwardOnly \/ offset < ps.seekStart \/ offset >= SeekEnd(ps) THEN <<>>
    ELSE SubSeq(ps.seek, offset - ps.seekStart + 1, Least(offset - ps.seekStart + n, Len(ps.seek)))

\* Mutant: a forward skip keeps the stream.
PrepareFetchKeeps(ps, offset, n) ==
    LET first == ps.len = 0 /\ ps.start = 0
        near == offset >= BufEnd(ps) /\ offset <= BufEnd(ps) + ForwardSkip
        drained == IF offset >= ps.start THEN DrainToSeek(ps, ps.len) ELSE ps
        joins == (first \/ near) /\ offset = drained.start
        strategy == IF ~(first \/ near) THEN "range"
                    ELSE IF joins /\ ~(first /\ ~ps.stream.open /\ offset = 0) THEN "continue" ELSE "start"
        window == IF first THEN ps.window
                  ELSE IF near THEN Least(2 * ps.window, MaxWindow) ELSE InitialWindow
        needed == Least(n, ps.size - offset)
    IN  [ps |-> [drained EXCEPT !.window = window, !.stream = IF first \/ near THEN @ ELSE NoStream],
         strategy |-> strategy,
         size |-> Least(IF strategy = "range" THEN needed ELSE Most(needed, window), ps.size - offset)]
\* A miss: what is buffered is consumed, the access is sequential or not, and
\* a stream that does not continue at the offset is dropped.
PrepareFetch(ps, offset, n) ==
    LET first == ps.len = 0 /\ ps.start = 0
        near == offset >= BufEnd(ps) /\ offset <= BufEnd(ps) + ForwardSkip
        drained == IF offset >= ps.start THEN DrainToSeek(ps, ps.len) ELSE ps
        joins == (first \/ near) /\ offset = drained.start
        strategy == IF ~(first \/ near) THEN "range"
                    ELSE IF joins /\ ~(first /\ ~ps.stream.open /\ offset = 0) THEN "continue" ELSE "start"
        window == IF first THEN ps.window
                  ELSE IF near THEN Least(2 * ps.window, MaxWindow) ELSE InitialWindow
        needed == Least(n, ps.size - offset)
    IN  [ps |-> [drained EXCEPT !.window = window, !.stream = IF joins THEN @ ELSE NoStream],
         strategy |-> strategy,
         size |-> Least(IF strategy = "range" THEN needed ELSE Most(needed, window), ps.size - offset)]

StoreFetched(ps, offset, chunks) ==
    [ps EXCEPT !.chunks = chunks, !.len = Len(FlattenSeq(chunks)), !.front = 0, !.start = offset]

\* The buffers hold the bytes they claim to hold.
HoldsFile(ps) ==
    /\ ps.len = Len(FlattenSeq(ps.chunks)) - ps.front
    /\ ReadChunkRange(ps, 0, ps.len) = Bytes(ps.start, BufEnd(ps))
    /\ ps.seek = Bytes(ps.seekStart, SeekEnd(ps)) /\ Len(ps.seek) <= SeekWindow
=============================================================================
