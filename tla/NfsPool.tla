------------------------------- MODULE NfsPool -------------------------------
(* nfs.rs: the handle pool between the stateless NFS requests and the open *)
(* files of VirtualFs.  Requests run on the threads of the runtime; a step *)
(* is what a request does under the pool's lock or between two awaits.     *)
EXTENDS OpenFiles, Sequences, SequencesExt

CONSTANTS Task,     \* requests under way at once
          Capacity  \* HANDLE_POOL_CAPACITY

VARIABLES pool,     \* HandlePool: of (handles), pins, order
          rpc,      \* what each request is doing
          loose,    \* handles taken from the pool whose release is spawned
          told,     \* per file: the content the client knows of, and the watch has yet to tell
          server    \* mount_nfs: serving or past its loop, and the requests the model still sends
nfsVars == <<pool, rpc, loose, told, server>>

ASSUME NfsAssumption == Capacity \in Nat \ {0} /\ Task \subseteq Nat

NoRpc == [at |-> "idle", op |-> "none", ino |-> NONE, fh |-> NONE, next |-> "idle", todo |-> <<>>, seen |-> 0, knew |-> 0]
NoPool == [of |-> [i \in File |-> NONE], pins |-> [i \in File |-> 0], order |-> <<>>]
NfsInit ==
    /\ pool = NoPool /\ rpc = [t \in Task |-> NoRpc] /\ loose = {} /\ server = [up |-> TRUE, left |-> case.requests]
    /\ told = [i \in File |-> [now |-> IF i \in case.present THEN 1 ELSE 0, news |-> 0]]

-----------------------------------------------------------------------------
(* HandlePool.                                                             *)

Pooled(i) == pool.of[i] # NONE
Without(p, i) == [of |-> [p.of EXCEPT ![i] = NONE], pins |-> [p.pins EXCEPT ![i] = 0], order |-> SelectSeq(p.order, LAMBDA j : j # i)]
\* acquire_shared: pinned, and the most recently used.
Pinned(p, i) == [p EXCEPT !.pins[i] = @ + 1, !.order = Append(SelectSeq(@, LAMBDA j : j # i), i)]
Unpinned(p, i) == [p EXCEPT !.pins[i] = IF @ = 0 THEN 0 ELSE @ - 1]
\* The strict LRU entries that go when i comes: none behind a pinned one.
Victims(p) ==
    LET excess == Len(p.order) + 1 - Capacity
        goes == {k \in DOMAIN p.order : k <= excess /\ \A j \in 1 .. k : p.pins[p.order[j]] = 0}
    IN SubSeq(p.order, 1, Cardinality(goes))
Insert(i, fh) ==
    LET others == Without(pool, i)
        victims == Victims(others)
        kept == FoldSeq(LAMBDA v, p : Without(p, v), others, victims)
    IN [pool |-> [kept EXCEPT !.of[i] = fh, !.order = Append(@, i)],
        out |-> [k \in DOMAIN victims |-> pool.of[victims[k]]] \o IF Pooled(i) THEN <<pool.of[i]>> ELSE <<>>]

-----------------------------------------------------------------------------
(* Requests.                                                               *)

InHand == UNION {({rpc[t].fh} \ {NONE}) \cup ToSet(rpc[t].todo) : t \in Task}
Taken == InHand \cup loose \cup ({pool.of[i] : i \in File} \ {NONE})
Free == NewHandle(Taken)
NfsCanOpen(i) == Exists(i) /\ HandleLeft(Taken)
\* The handle a request is about to pool has an old content, and neither an
\* invalidation nor a writer that publishes its own will take it out in time.
Late(t) ==
    LET i == rpc[t].ino
        leaves == told[i].news > 0 \/ \E u \in Task \ {t} : rpc[u].ino = i /\ rpc[u].at = "publish"
    IN Content(rpc[t].fh) < IF leaves THEN told[i].now ELSE files[i].now
Pools(t) == Happens("late") \/ ~Late(t)
Step(t, r) == rpc' = [rpc EXCEPT ![t] = r]
To(t, at) == Step(t, [rpc[t] EXCEPT !.at = at])
Answer(t, seen) == [rpc[t] EXCEPT !.at = "reply", !.seen = seen, !.fh = NONE]
\* Releases what a step left, then goes on to `next`.
Releasing(t, todo, r) == Step(t, IF todo = <<>> THEN r ELSE [r EXCEPT !.at = "release", !.todo = todo, !.next = r.at])
OnlyRpc == UNCHANGED <<storeVars, pool, loose, told, server>>
OnlyStore == UNCHANGED <<pool, loose, told, server>>
OnlyPool == UNCHANGED <<storeVars, loose, told, server>>
Calls(t, what) ==
    /\ server.up /\ server.left > 0 /\ t \in case.tasks /\ what \in case.asks
    /\ rpc[t] = NoRpc /\ \A u \in case.tasks : u < t => rpc[u] # NoRpc   \* the first free one: they are alike
    /\ server' = [server EXCEPT !.left = @ - 1]

\* evict_handle and release: flush only takes a parked error.
Release(t) ==
    /\ rpc[t].at = "release"
    /\ CloseHandles({Head(rpc[t].todo)})
    /\ Step(t, IF Len(rpc[t].todo) > 1 THEN [rpc[t] EXCEPT !.todo = Tail(@)]
               ELSE [rpc[t] EXCEPT !.todo = <<>>, !.at = rpc[t].next, !.next = "idle"])
    /\ OnlyStore

\* READ: the pooled handle, shared, or a new one.
ReadBegin(t, i) ==
    /\ Calls(t, "read") /\ told[i].now > 0
    /\ pool' = IF Pooled(i) THEN Pinned(pool, i) ELSE pool
    /\ Step(t, [NoRpc EXCEPT !.op = "read", !.at = IF Pooled(i) THEN "read" ELSE "open", !.ino = i, !.fh = pool.of[i], !.knew = told[i].now])
    /\ UNCHANGED <<storeVars, loose, told>>
ReadOpen(t) ==
    /\ rpc[t].at = "open" /\ NfsCanOpen(rpc[t].ino)
    /\ OpenRead(rpc[t].ino, Free)
    /\ Step(t, [rpc[t] EXCEPT !.at = "share", !.fh = Free])
    /\ OnlyStore
\* The open failed; perhaps another reader has a handle by now.
ReadOpenFails(t) ==
    LET i == rpc[t].ino IN
    /\ rpc[t].at = "open" /\ ~Exists(i)
    /\ pool' = IF Pooled(i) THEN Pinned(pool, i) ELSE pool
    /\ Step(t, IF Pooled(i) THEN [rpc[t] EXCEPT !.at = "read", !.fh = pool.of[i]] ELSE Answer(t, ENOENT))
    /\ OnlyPool
\* Mutant: the loser of the race keeps its own handle open.
ShareLeaks(t) ==
    LET i == rpc[t].ino IN
    /\ rpc[t].at = "share" /\ (Pooled(i) \/ Pools(t))
    /\ pool' = Pinned(IF Pooled(i) THEN pool ELSE Insert(i, rpc[t].fh).pool, i)
    /\ Releasing(t, IF Pooled(i) THEN <<>> ELSE Insert(i, rpc[t].fh).out,
                 [rpc[t] EXCEPT !.at = "read", !.fh = pool'.of[i]])
    /\ OnlyPool
Share(t) ==
    LET i == rpc[t].ino IN
    /\ rpc[t].at = "share" /\ (Pooled(i) \/ Pools(t))
    /\ pool' = Pinned(IF Pooled(i) THEN pool ELSE Insert(i, rpc[t].fh).pool, i)
    /\ Releasing(t, IF Pooled(i) THEN <<rpc[t].fh>> ELSE Insert(i, rpc[t].fh).out,
                 [rpc[t] EXCEPT !.at = "read", !.fh = pool'.of[i]])
    /\ OnlyPool
Read(t) ==
    /\ rpc[t].at = "read"
    /\ Step(t, [rpc[t] EXCEPT !.at = "unpin", !.seen = Content(rpc[t].fh)])
    /\ OnlyRpc
Unpin(t) ==
    /\ rpc[t].at = "unpin"
    /\ pool' = Unpinned(pool, rpc[t].ino)
    /\ Step(t, IF rpc[t].seen = EBADF THEN [rpc[t] EXCEPT !.at = "stale"] ELSE Answer(t, rpc[t].seen))
    /\ OnlyPool
\* EBADF: the entry goes if it is still this one, and the read is repeated on
\* a handle of its own.
DropStale(t) ==
    LET i == rpc[t].ino IN
    /\ rpc[t].at = "stale"
    /\ pool' = IF pool.of[i] = rpc[t].fh THEN Without(pool, i) ELSE pool
    /\ Step(t, [rpc[t] EXCEPT !.at = "reopen", !.fh = NONE])
    /\ OnlyPool
ReadAgain(t) ==
    /\ rpc[t].at = "reopen"
    /\ IF Exists(rpc[t].ino)
       THEN HandleLeft(Taken) /\ OpenRead(rpc[t].ino, Free) /\ Step(t, [rpc[t] EXCEPT !.at = "reread", !.fh = Free])
       ELSE Step(t, Answer(t, ENOENT)) /\ UNCHANGED storeVars
    /\ OnlyStore
Reread(t) ==
    /\ rpc[t].at = "reread"
    /\ Releasing(t, <<rpc[t].fh>>, Answer(t, Content(rpc[t].fh)))
    /\ OnlyRpc

\* WRITE: through the pooled handle if that is writable.
WriteBegin(t, i) ==
    /\ Calls(t, "write") /\ told[i].now > 0
    /\ Step(t, [NoRpc EXCEPT !.op = "write", !.at = IF Pooled(i) THEN "fast" ELSE "openw", !.ino = i, !.fh = pool.of[i], !.knew = told[i].now])
    /\ UNCHANGED <<storeVars, pool, loose, told>>
WriteFast(t) ==
    LET i == rpc[t].ino IN
    /\ rpc[t].at = "fast"
    /\ \/ /\ Writable(rpc[t].fh) /\ MayChange(i) /\ WriteTo(rpc[t].fh)
          /\ Step(t, Answer(t, files'[i].now))
       \/ /\ ~Writable(rpc[t].fh) /\ UNCHANGED storeVars
          /\ To(t, "upgrade")
    /\ OnlyStore
\* A read-only or closed handle: out with it.
Upgrade(t) ==
    LET i == rpc[t].ino IN
    /\ rpc[t].at = "upgrade"
    /\ pool' = IF pool.of[i] = rpc[t].fh THEN Without(pool, i) ELSE pool
    /\ Releasing(t, <<rpc[t].fh>>, [rpc[t] EXCEPT !.at = "openw", !.fh = NONE])
    /\ OnlyPool
WriteOpen(t) ==
    /\ rpc[t].at = "openw"
    /\ IF Exists(rpc[t].ino)
       THEN HandleLeft(Taken) /\ OpenWrite(rpc[t].ino, Free, FALSE) /\ Step(t, [rpc[t] EXCEPT !.at = "private", !.fh = Free])
       ELSE Step(t, Answer(t, ENOENT)) /\ UNCHANGED storeVars
    /\ OnlyStore
PrivateWrite(t) ==
    /\ rpc[t].at = "private" /\ MayChange(rpc[t].ino)
    /\ IF Writable(rpc[t].fh)
       THEN WriteTo(rpc[t].fh) /\ Step(t, [rpc[t] EXCEPT !.at = "publish", !.seen = files'[rpc[t].ino].now])
       ELSE Releasing(t, <<rpc[t].fh>>, Answer(t, EBADF)) /\ UNCHANGED storeVars
    /\ OnlyStore
Publish(t) ==
    LET i == rpc[t].ino IN
    /\ rpc[t].at = "publish" /\ Pools(t)
    /\ pool' = Insert(i, rpc[t].fh).pool
    /\ Releasing(t, Insert(i, rpc[t].fh).out, Answer(t, rpc[t].seen))
    /\ OnlyPool

\* CREATE, REMOVE (or a RENAME over the file), SETATTR of a size.
Create(t, i) ==
    /\ Calls(t, "create") /\ files[i].at = "absent" /\ files[i].now = 0 /\ MayChange(i) /\ HandleLeft(Taken)
    /\ CreateFile(i, Free)
    /\ Step(t, [NoRpc EXCEPT !.op = "create", !.at = "publish", !.ino = i, !.fh = Free, !.seen = files'[i].now])
    /\ UNCHANGED <<pool, loose, told>>
RemoveFile(t, i) ==
    /\ Calls(t, "remove") /\ files[i].at = "named"
    /\ UnlinkFile(i)
    /\ Step(t, [NoRpc EXCEPT !.op = "remove", !.at = "forget", !.ino = i, !.seen = 1])
    /\ UNCHANGED <<pool, loose, told>>
\* i is moved over j; moved over itself nothing happens.
RenameOver(t, i, j) ==
    /\ Calls(t, "rename") /\ files[i].at = "named" /\ files[j].at = "named"
    /\ IF i = j THEN Step(t, [NoRpc EXCEPT !.op = "remove", !.at = "reply", !.ino = i, !.seen = 1]) /\ UNCHANGED storeVars
       ELSE ReplaceFile(j) /\ Step(t, [NoRpc EXCEPT !.op = "remove", !.at = "forget", !.ino = j, !.seen = 1])
    /\ UNCHANGED <<pool, loose, told>>
Forget(t) ==
    LET i == rpc[t].ino IN
    /\ rpc[t].at = "forget"
    /\ pool' = Without(pool, i)
    /\ Releasing(t, IF Pooled(i) THEN <<pool.of[i]>> ELSE <<>>, Answer(t, 1))
    /\ OnlyPool
PooledLazy(i) == Pooled(i) /\ handles[pool.of[i]].kind = "lazy"
SetAttrSize(t, i) ==
    /\ Calls(t, "setattr") /\ files[i].at = "named" /\ MayChange(i)
    /\ Happens("resize") \/ ~PooledLazy(i)
    /\ SetSize(i)
    /\ Step(t, [NoRpc EXCEPT !.op = "setattr", !.at = "reply", !.ino = i, !.seen = files'[i].now])
    /\ UNCHANGED <<pool, loose, told>>
\* The client has its answer, and knows what it wrote.
Reply(t) ==
    /\ rpc[t].at = "reply"
    /\ told' = IF rpc[t].op \in {"write", "create", "setattr"} /\ rpc[t].seen > told[rpc[t].ino].now THEN [told EXCEPT ![rpc[t].ino].now = rpc[t].seen] ELSE told
    /\ Step(t, NoRpc)
    /\ UNCHANGED <<storeVars, pool, loose, server>>

-----------------------------------------------------------------------------
(* The invalidator, called by the watch on the Hub, and the end of the     *)
(* mount.                                                                  *)

HubChanges(i) ==
    /\ server.up /\ Updated(i)
    /\ told' = [told EXCEPT ![i].news = files'[i].now]
    /\ UNCHANGED <<pool, rpc, loose, server>>
\* Mutant: an entry with readers is left alone.
InvalidateUnpinned(i) ==
    /\ told[i].news > 0
    /\ pool' = IF pool.pins[i] = 0 THEN Without(pool, i) ELSE pool
    /\ loose' = IF Pooled(i) /\ pool.pins[i] = 0 THEN loose \cup {pool.of[i]} ELSE loose
    /\ told' = [told EXCEPT ![i] = [now |-> IF told[i].news > @.now THEN told[i].news ELSE @.now, news |-> 0]]
    /\ UNCHANGED <<storeVars, rpc, server>>
Invalidate(i) ==
    /\ told[i].news > 0
    /\ pool' = Without(pool, i)
    /\ loose' = IF Pooled(i) THEN loose \cup {pool.of[i]} ELSE loose
    /\ told' = [told EXCEPT ![i] = [now |-> IF told[i].news > @.now THEN told[i].news ELSE @.now, news |-> 0]]
    /\ UNCHANGED <<storeVars, rpc, server>>
LooseRelease ==
    /\ loose # {}
    /\ CloseHandles(loose) /\ loose' = {}
    /\ UNCHANGED <<pool, rpc, told, server>>
\* The mount is gone: every pooled handle is flushed and released.
Drain ==
    /\ server.up /\ Happens("unmount")
    /\ server' = [server EXCEPT !.up = FALSE] /\ pool' = NoPool
    /\ loose' = loose \cup ({pool.of[i] : i \in File} \ {NONE})
    /\ UNCHANGED <<storeVars, rpc, told>>
FlushLoop(i) == (Committed(i) \/ CommitFails(i) \/ Deleted(i)) /\ UNCHANGED nfsVars

RpcStep(t) ==
    \/ \E i \in File : ReadBegin(t, i) \/ WriteBegin(t, i) \/ Create(t, i) \/ RemoveFile(t, i) \/ SetAttrSize(t, i)
    \/ \E i, j \in File : RenameOver(t, i, j)
    \/ ReadOpen(t) \/ ReadOpenFails(t) \/ Share(t) \/ Read(t) \/ Unpin(t) \/ DropStale(t) \/ ReadAgain(t) \/ Reread(t)
    \/ WriteFast(t) \/ Upgrade(t) \/ WriteOpen(t) \/ PrivateWrite(t) \/ Publish(t)
    \/ Forget(t) \/ Release(t) \/ Reply(t)
NfsNext ==
    \/ \E t \in Task : RpcStep(t)
    \/ \E i \in File : HubChanges(i) \/ Invalidate(i) \/ FlushLoop(i)
    \/ LooseRelease \/ Drain

-----------------------------------------------------------------------------
NfsTypeOK ==
    /\ StoreTypeOK
    /\ pool.of \in [File -> Handle \cup {NONE}] /\ pool.pins \in [File -> 0 .. Cardinality(Task)]
    /\ ToSet(pool.order) = {i \in File : Pooled(i)} /\ Len(pool.order) = Cardinality(ToSet(pool.order))
\* A READ or WRITE of a file never answers with EBADF, which the client gets
\* as a stale file and drops the data for (the comment of write).
NoStaleReply == \A t \in Task : rpc[t].at = "reply" => rpc[t].seen # EBADF
\* A READ returns nothing older than what the client knew when it asked: what
\* a WRITE answered, and what the watch has invalidated.
ReadIsFresh == \A t \in Task : rpc[t].at = "reply" /\ rpc[t].op = "read" /\ rpc[t].seen > 0 => rpc[t].seen >= rpc[t].knew
\* The pins of an entry never outnumber the reads under way, so an idle entry
\* can be evicted.
Reading(i) == {t \in Task : rpc[t].ino = i /\ (rpc[t].at \in {"read", "unpin"} \/ rpc[t].next = "read")}
PinsAreHeld == \A i \in File : pool.pins[i] <= Cardinality(Reading(i))
=============================================================================
