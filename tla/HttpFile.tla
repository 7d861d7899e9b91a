------------------------------ MODULE HttpFile ------------------------------
(***************************************************************************)
(* HubApiClient::download_file_http (hub_api.rs) and its one caller: the   *)
(* file of a path without a xet hash is downloaded at open to http_<hash>, *)
(* with its ETag in a file beside it, and asked for again with             *)
(* If-None-Match.  A version of the file is its own ETag.                  *)
(***************************************************************************)
EXTENDS Naturals, FiniteSets

CONSTANTS Opener,    \* open() calls of the path
          Version,   \* what the file on the Hub can be, numbers from 1
          Ino        \* inodes the path has had; each has its own lock

ASSUME HttpAssumption == 1 \in Version /\ Version \subseteq Nat \ {0}

VARIABLES web,       \* what the Hub has
          dest,      \* dest, its .etag and its .tmp.<pid>
          fetching   \* what each open() does
httpvars == <<web, dest, fetching>>

\* A file is the set of the versions its bytes are from.
Nothing == 0
NotFetching == [pc |-> "idle", ino |-> CHOOSE i \in Ino : TRUE, asked |-> Nothing, got |-> Nothing, seen |-> {}]
HttpInit ==
    /\ web = 1
    /\ dest = [file |-> {}, etag |-> Nothing, tmp |-> {}]
    /\ fetching = [o \in Opener |-> NotFetching]

Step(o, pc) == fetching' = [fetching EXCEPT ![o].pc = pc]
Over(o) == fetching' = [fetching EXCEPT ![o] = NotFetching]
Locked(i) == \E x \in Opener : fetching[x].ino = i /\ fetching[x].pc \notin {"idle", "opened"}
\* Another client of the Hub changes the file.
WebChanges(v) ==
    /\ v # web
    /\ web' = v
    /\ fetching' = [o \in Opener |-> [fetching[o] EXCEPT !.seen = IF fetching[o].pc = "idle" THEN {} ELSE @ \cup {v}]]
    /\ dest' = dest

\* Under the staging lock of the inode.  The ETag counts only with a file.
CachedEtag == IF dest.file = {} THEN Nothing ELSE dest.etag
HttpStart(o, i) ==
    /\ fetching[o].pc = "idle"
    /\ ~Locked(i)
    /\ fetching' = [fetching EXCEPT ![o] = [pc |-> "asking", ino |-> i, asked |-> CachedEtag,
                                            got |-> Nothing, seen |-> {web}]]
    /\ UNCHANGED <<web, dest>>
HttpNotModified(o) ==
    /\ fetching[o].pc = "asking" /\ fetching[o].asked = web
    /\ Step(o, "opened")
    /\ UNCHANGED <<web, dest>>
\* A body: File::create empties the temporary file, whoever writes it.
HttpBody(o) ==
    /\ fetching[o].pc = "asking" /\ fetching[o].asked # web
    /\ fetching' = [fetching EXCEPT ![o].pc = "writing", ![o].got = web]
    /\ dest' = [dest EXCEPT !.tmp = {web}]
    /\ web' = web
HttpWritten(o) ==
    /\ fetching[o].pc = "writing"
    /\ dest' = [dest EXCEPT !.tmp = @ \cup {fetching[o].got}]
    /\ Step(o, "renaming")
    /\ web' = web
\* The body ends early or cannot be written: the old file stays.
HttpFails(o) ==
    /\ fetching[o].pc \in {"asking", "writing"}
    /\ dest' = IF fetching[o].pc = "writing" THEN [dest EXCEPT !.tmp = {}] ELSE dest
    /\ Over(o)
    /\ web' = web
HttpRename(o) ==
    /\ fetching[o].pc = "renaming"
    /\ IF dest.tmp = {} THEN Over(o) /\ dest' = dest
       ELSE /\ Step(o, "sidecar")
            /\ dest' = [dest EXCEPT !.file = dest.tmp, !.tmp = {}]
    /\ web' = web
\* Mutant: an answer without an ETag leaves the old sidecar.
HttpSidecarKeeps(o, tagged) ==
    /\ fetching[o].pc = "sidecar"
    /\ dest' = [dest EXCEPT !.etag = IF tagged THEN fetching[o].got ELSE @]
    /\ Step(o, "opened")
    /\ web' = web
\* An answer without an ETag removes the sidecar; a failed write of it is
\* ignored.
HttpSidecar(o, tagged) ==
    /\ fetching[o].pc = "sidecar"
    /\ dest' = [dest EXCEPT !.etag = IF tagged THEN fetching[o].got ELSE Nothing]
    /\ Step(o, "opened")
    /\ web' = web
HttpSidecarLost(o) ==
    /\ fetching[o].pc = "sidecar"
    /\ Step(o, "opened")
    /\ UNCHANGED <<web, dest>>
HttpClosed(o) ==
    /\ fetching[o].pc = "opened"
    /\ Over(o)
    /\ UNCHANGED <<web, dest>>

HttpStep(o) == \/ HttpNotModified(o) \/ HttpBody(o) \/ HttpWritten(o) \/ HttpRename(o) \/ HttpClosed(o)
               \/ \E tagged \in BOOLEAN : HttpSidecar(o, tagged)

\* What open() is about to give the reader is one version of the file, and
\* one the Hub had while the call ran.
HttpIsCurrent == \A o \in Opener : fetching[o].pc = "opened" =>
                     Cardinality(dest.file) = 1 /\ dest.file \subseteq fetching[o].seen
=============================================================================
