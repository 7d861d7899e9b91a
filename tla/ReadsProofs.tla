------------------------------ MODULE ReadsProofs ------------------------------
(***************************************************************************)
(* What a reader gets (Reads, with Prefetch, FileCache, PlanCache and      *)
(* HttpFile), for any number of readers and openers, any files, windows,   *)
(* chunks and limits.  First the download of a file without a xet hash:    *)
(* one version of the file, and one that the Hub had while open() ran.     *)
(* Then the reads of a lazy handle: the right bytes, all of them.  Then    *)
(* the cache of whole files over a directory, and the cache of plans.      *)
(***************************************************************************)
EXTENDS Reads, FiniteSetTheorems, SequenceTheorems, NaturalsInduction, WellFoundedInduction, TLAPS

-----------------------------------------------------------------------------
(* The download of a file without a xet hash.                              *)

\* The path keeps its inode, so its openers share one lock; and the Hub does
\* not come back to an earlier version where ETag sidecars get lost.
OneInode == \A k \in Case : \A i, j \in k.inodes : i = j
EtagsReliable == \A k \in Case : ~({"etag_lost", "hub_returns"} \subseteq k.events)

Downloading == {"writing", "renaming", "sidecar"}
OpenCall == [pc : {"idle", "opened", "asking"} \cup Downloading, ino : Ino \cup {NotFetching.ino},
             asked : Version \cup {Nothing}, got : Version \cup {Nothing}, seen : SUBSET Version]
HttpTypes ==
    /\ web \in Version
    /\ dest \in [file : SUBSET Version, etag : Version \cup {Nothing}, tmp : SUBSET Version]
    /\ fetching \in [Opener -> OpenCall]
    /\ case \in Case

\* One download at a time.
Alone ==
    /\ \A o \in Opener : fetching[o].pc \notin {"idle", "opened"} => fetching[o].ino \in case.inodes
    /\ \A o, p \in Opener : fetching[o].pc \notin {"idle", "opened"} /\ fetching[p].pc \notin {"idle", "opened"}
                            => o = p
\* What a download has, and where.
BodyInv == \A o \in Opener :
    /\ fetching[o].pc # "idle" => web \in fetching[o].seen
    /\ fetching[o].pc = "asking" => fetching[o].asked = CachedEtag
    /\ fetching[o].pc \in Downloading => fetching[o].got \in fetching[o].seen
    /\ fetching[o].pc \in {"writing", "renaming"} => dest.tmp = {fetching[o].got}
    /\ fetching[o].pc = "sidecar" => dest.file = {fetching[o].got}
\* Whoever has opened the file is content with what is there and with what
\* is being put there.
OpenedInv == \A o \in Opener : fetching[o].pc = "opened" =>
    /\ \E v \in fetching[o].seen : dest.file = {v}
    /\ \A p \in Opener : fetching[p].pc \in Downloading => fetching[p].got \in fetching[o].seen
\* A sidecar is that of the file, or of an earlier version that does not
\* come back.
EtagInv ==
    /\ dest.file = {} => dest.etag = Nothing
    /\ \/ \E o \in Opener : fetching[o].pc = "sidecar"
       \/ dest.etag = Nothing
       \/ dest.file = {dest.etag}
       \/ ~Happens("hub_returns") /\ dest.etag < web
    /\ ~Happens("hub_returns") =>
         /\ dest.etag <= web
         /\ \A o \in Opener : fetching[o].pc \in Downloading =>
                dest.etag < fetching[o].got /\ fetching[o].got <= web
IndInv == HttpTypes /\ Alone /\ BodyInv /\ OpenedInv /\ EtagInv

LEMMA OnlyHttpSteps ==
    ASSUME Next PROVE case' = case /\ (HttpNext \/ UNCHANGED httpvars)
<1>1. ASSUME NEW r \in case.readers, ReaderStep(r) PROVE UNCHANGED httpvars
  BY <1>1 DEF ReaderStep, OpenLocal, OpenMissed, ReadDone, OpenStream, StreamPlanned, Attempt, AttemptFails,
              OnlyReader
<1>2. ASSUME NEW r \in case.readers, Close(r) PROVE UNCHANGED httpvars
  BY <1>2 DEF Close, OnlyReader
<1>3. ASSUME NEW r \in case.readers, NEW h \in case.hashes, OpenLazy(r, h) PROVE UNCHANGED httpvars
  BY <1>3 DEF OpenLazy, OnlyReader
<1>4. ASSUME NEW r \in case.readers, NEW h \in case.hashes, NEW m \in case.mounts, StartOpen(r, m, h)
      PROVE UNCHANGED httpvars
  BY <1>4 DEF StartOpen
<1>5. ASSUME NEW r \in case.readers, NEW n \in case.lengths, NEW k \in 0..reader[r].ps.size, Read(r, k, n)
      PROVE UNCHANGED httpvars
  BY <1>5 DEF Read, OnlyReader
<1>6. ASSUME NEW c \in case.warmers, NEW h \in case.hashes, WarmCache(c, h) PROVE UNCHANGED httpvars
  BY <1>6 DEF WarmCache
<1>7. CacheNext \/ PlanNext => UNCHANGED httpvars
  BY DEF CacheNext, PlanNext
<1> QED BY <1>1, <1>2, <1>3, <1>4, <1>5, <1>6, <1>7 DEF Next

LEMMA HttpInitial == Init => IndInv
<1> SUFFICES ASSUME Init PROVE IndInv
  OBVIOUS
<1>1. /\ web = 1 /\ dest = [file |-> {}, etag |-> Nothing, tmp |-> {}] /\ case \in Case
      /\ fetching = [o \in Opener |-> NotFetching]
  BY DEF Init, HttpInit
<1>2. NotFetching \in OpenCall /\ NotFetching.pc = "idle"
  BY DEF NotFetching, OpenCall
<1>3. HttpTypes
  BY <1>1, <1>2, HttpAssumption DEF HttpTypes
<1>4. \A o \in Opener : fetching[o].pc = "idle"
  BY <1>1, <1>2
<1>5. Alone /\ BodyInv /\ OpenedInv
  BY <1>4 DEF Alone, BodyInv, OpenedInv, Downloading
<1>6. EtagInv
  BY <1>1, <1>4 DEF EtagInv, Nothing, Downloading
<1> QED BY <1>3, <1>5, <1>6 DEF IndInv

LEMMA HttpStepKeeps ==
    ASSUME OneInode, EtagsReliable, IndInv, HttpNext, case' = case PROVE IndInv'
<1>0. /\ Version \subseteq Nat \ {0} /\ Nothing = 0
      /\ NotFetching \in OpenCall /\ NotFetching.pc = "idle"
      /\ case.inodes \subseteq Ino /\ \A i, j \in case.inodes : i = j
      /\ Happens("etag_lost") => ~Happens("hub_returns")
  BY HttpAssumption, ReadsAssumption DEF NotFetching, OpenCall, Nothing, OneInode, EtagsReliable, HttpTypes, Happens, IndInv
<1>1. HttpTypes /\ Alone /\ BodyInv /\ OpenedInv /\ EtagInv
  BY DEF IndInv
<1>2. ASSUME NEW o \in Opener, HttpNotModified(o)
      PROVE IndInv'
  <2>1. HttpTypes'
    BY <1>0, <1>1, <1>2 DEF HttpTypes, OpenCall, Downloading, HttpNotModified, Step
  <2>2. Alone'
    BY <1>0, <1>1, <1>2 DEF HttpTypes, OpenCall, Alone, HttpNotModified, Step
  <2>3. BodyInv'
    BY <1>0, <1>1, <1>2 DEF HttpTypes, OpenCall, Alone, BodyInv, Downloading, CachedEtag, HttpNotModified, Step
  <2>4. OpenedInv'
    BY <1>0, <1>1, <1>2 DEF HttpTypes, OpenCall, Alone, BodyInv, OpenedInv, EtagInv, Downloading, CachedEtag, HttpNotModified, Step
  <2>5. EtagInv'
    BY <1>0, <1>1, <1>2 DEF HttpTypes, OpenCall, Alone, BodyInv, EtagInv, Downloading, CachedEtag, Happens, HttpNotModified, Step
  <2> QED BY <2>1, <2>2, <2>3, <2>4, <2>5 DEF IndInv
<1>3. ASSUME NEW o \in Opener, HttpBody(o)
      PROVE IndInv'
  <2>0. dest' \in [file : SUBSET Version, etag : Version \cup {Nothing}, tmp : SUBSET Version]
    BY <1>1, <1>3 DEF HttpTypes, HttpBody
  <2>1. HttpTypes'
    BY ZenonT(40), <1>0, <1>1, <1>3, <2>0 DEF HttpTypes, OpenCall, Downloading, HttpBody
  <2>2. Alone'
    BY <1>0, <1>1, <1>3 DEF HttpTypes, OpenCall, Alone, HttpBody
  <2>3. BodyInv'
    BY <1>0, <1>1, <1>3 DEF HttpTypes, OpenCall, Alone, BodyInv, Downloading, CachedEtag, HttpBody
  <2>4. OpenedInv'
    BY SMTT(30), <1>0, <1>1, <1>3 DEF HttpTypes, OpenCall, Alone, BodyInv, OpenedInv, EtagInv, Downloading, CachedEtag, HttpBody
  <2>5. EtagInv'
    BY <1>0, <1>1, <1>3 DEF HttpTypes, OpenCall, Alone, BodyInv, EtagInv, Downloading, CachedEtag, Happens, HttpBody
  <2> QED BY <2>1, <2>2, <2>3, <2>4, <2>5 DEF IndInv
<1>4. ASSUME NEW o \in Opener, HttpWritten(o)
      PROVE IndInv'
  <2>0. dest' \in [file : SUBSET Version, etag : Version \cup {Nothing}, tmp : SUBSET Version]
    <3>1. fetching[o].got \in Version
      BY <1>1, <1>4 DEF HttpTypes, BodyInv, HttpWritten
    <3> QED BY <1>1, <1>4, <3>1 DEF HttpTypes, HttpWritten
  <2>1. HttpTypes'
    BY <1>0, <1>1, <1>4, <2>0 DEF HttpTypes, OpenCall, Downloading, HttpWritten, Step
  <2>2. Alone'
    BY <1>0, <1>1, <1>4 DEF HttpTypes, OpenCall, Alone, HttpWritten, Step
  <2>3. BodyInv'
    BY <1>0, <1>1, <1>4 DEF HttpTypes, OpenCall, Alone, BodyInv, Downloading, CachedEtag, HttpWritten, Step
  <2>4. OpenedInv'
    BY <1>0, <1>1, <1>4 DEF HttpTypes, OpenCall, Alone, BodyInv, OpenedInv, EtagInv, Downloading, CachedEtag, HttpWritten, Step
  <2>5. EtagInv'
    BY <1>0, <1>1, <1>4 DEF HttpTypes, OpenCall, Alone, BodyInv, EtagInv, Downloading, CachedEtag, Happens, HttpWritten, Step
  <2> QED BY <2>1, <2>2, <2>3, <2>4, <2>5 DEF IndInv
<1>5. ASSUME NEW o \in Opener, HttpRename(o)
      PROVE IndInv'
  <2>0. /\ fetching[o].pc = "renaming" /\ web' = web
        /\ fetching' = [fetching EXCEPT ![o].pc = "sidecar"]
        /\ dest' = [dest EXCEPT !.file = {fetching[o].got}, !.tmp = {}]
    BY <1>1, <1>5 DEF BodyInv, HttpRename, Step
  <2>a. dest' \in [file : SUBSET Version, etag : Version \cup {Nothing}, tmp : SUBSET Version]
    <3>1. dest.tmp = {fetching[o].got} /\ dest.tmp \subseteq Version
      BY <1>1, <2>0 DEF HttpTypes, BodyInv
    <3> QED BY <1>1, <2>0, <3>1 DEF HttpTypes
  <2>b. /\ dest'.file = {fetching[o].got} /\ dest'.etag = dest.etag
        /\ fetching'[o].pc = "sidecar" /\ fetching'[o].got = fetching[o].got
        /\ \A p \in Opener \ {o} : fetching'[p] = fetching[p] /\ fetching[p].pc \notin Downloading
    BY <1>1, <2>0 DEF HttpTypes, OpenCall, Alone, Downloading
  <2>1. HttpTypes'
    BY <1>0, <1>1, <2>0, <2>a DEF HttpTypes, OpenCall, Downloading
  <2>2. Alone'
    BY <1>0, <1>1, <2>0 DEF HttpTypes, OpenCall, Alone
  <2>3. BodyInv'
    BY <1>0, <1>1, <2>0 DEF HttpTypes, OpenCall, Alone, BodyInv, Downloading, CachedEtag
  <2>4. OpenedInv'
    BY <1>0, <1>1, <2>0 DEF HttpTypes, OpenCall, Alone, BodyInv, OpenedInv, EtagInv, Downloading, CachedEtag
  <2>5. EtagInv'
    BY SMTT(30), <1>0, <1>1, <2>0, <2>b DEF HttpTypes, OpenCall, EtagInv, Downloading, Happens
  <2> QED BY <2>1, <2>2, <2>3, <2>4, <2>5 DEF IndInv
<1>6. ASSUME NEW o \in Opener, HttpClosed(o)
      PROVE IndInv'
  <2>1. HttpTypes'
    BY <1>0, <1>1, <1>6 DEF HttpTypes, OpenCall, Downloading, HttpClosed, Over
  <2>2. Alone'
    BY <1>0, <1>1, <1>6 DEF HttpTypes, OpenCall, Alone, HttpClosed, Over
  <2>3. BodyInv'
    BY <1>0, <1>1, <1>6 DEF HttpTypes, OpenCall, Alone, BodyInv, Downloading, CachedEtag, HttpClosed, Over
  <2>4. OpenedInv'
    BY <1>0, <1>1, <1>6 DEF HttpTypes, OpenCall, Alone, BodyInv, OpenedInv, EtagInv, Downloading, CachedEtag, HttpClosed, Over
  <2>5. EtagInv'
    BY <1>0, <1>1, <1>6 DEF HttpTypes, OpenCall, Alone, BodyInv, EtagInv, Downloading, CachedEtag, Happens, HttpClosed, Over
  <2> QED BY <2>1, <2>2, <2>3, <2>4, <2>5 DEF IndInv
<1>7. ASSUME NEW o \in Opener, NEW tagged \in BOOLEAN, HttpSidecar(o, tagged)
      PROVE IndInv'
  <2>0. /\ fetching[o].pc = "sidecar"
        /\ dest'.file = {fetching[o].got} /\ dest'.etag \in {fetching[o].got, Nothing}
        /\ \A p \in Opener \ {o} : fetching'[p] = fetching[p] /\ fetching[p].pc \notin Downloading
        /\ fetching'[o].pc = "opened" /\ web' = web
    BY <1>1, <1>7 DEF HttpTypes, BodyInv, Alone, OpenCall, Downloading, HttpSidecar, Step
  <2>1. HttpTypes'
    BY <1>0, <1>1, <1>7 DEF HttpTypes, OpenCall, Downloading, HttpSidecar, Step
  <2>2. Alone'
    BY <1>0, <1>1, <1>7 DEF HttpTypes, OpenCall, Alone, HttpSidecar, Step
  <2>3. BodyInv'
    BY <1>0, <1>1, <1>7 DEF HttpTypes, OpenCall, Alone, BodyInv, Downloading, CachedEtag, HttpSidecar, Step
  <2>4. OpenedInv'
    BY <1>0, <1>1, <1>7 DEF HttpTypes, OpenCall, Alone, BodyInv, OpenedInv, EtagInv, Downloading, CachedEtag, HttpSidecar, Step
  <2>5. EtagInv'
    <3>1. ~Happens("hub_returns") => dest'.etag <= web
      <4>1. web \in Nat
        BY <1>0, <1>1 DEF HttpTypes
      <4> QED BY <1>0, <1>1, <2>0, <4>1 DEF EtagInv, Downloading
    <3>2. \A p \in Opener : fetching'[p].pc \notin Downloading
      BY <2>0 DEF Downloading
    <3> QED BY <1>0, <2>0, <3>1, <3>2 DEF EtagInv, Happens
  <2> QED BY <2>1, <2>2, <2>3, <2>4, <2>5 DEF IndInv
<1>8. ASSUME NEW o \in Opener, HttpFails(o)
      PROVE IndInv'
  <2>1. HttpTypes'
    BY <1>0, <1>1, <1>8 DEF HttpTypes, OpenCall, Downloading, HttpFails, Over
  <2>2. Alone'
    BY <1>0, <1>1, <1>8 DEF HttpTypes, OpenCall, Alone, HttpFails, Over
  <2>3. BodyInv'
    BY <1>0, <1>1, <1>8 DEF HttpTypes, OpenCall, Alone, BodyInv, Downloading, CachedEtag, HttpFails, Over
  <2>4. OpenedInv'
    BY <1>0, <1>1, <1>8 DEF HttpTypes, OpenCall, Alone, BodyInv, OpenedInv, EtagInv, Downloading, CachedEtag, HttpFails, Over
  <2>5. EtagInv'
    BY <1>0, <1>1, <1>8 DEF HttpTypes, OpenCall, Alone, BodyInv, EtagInv, Downloading, CachedEtag, Happens, HttpFails, Over
  <2> QED BY <2>1, <2>2, <2>3, <2>4, <2>5 DEF IndInv
<1>9. ASSUME NEW o \in Opener, NEW i \in case.inodes, HttpStart(o, i)
      PROVE IndInv'
  <2>1. HttpTypes'
    BY <1>0, <1>1, <1>9 DEF HttpTypes, OpenCall, Downloading, CachedEtag, HttpStart, Locked
  <2>2. Alone'
    BY <1>0, <1>1, <1>9 DEF HttpTypes, OpenCall, Alone, HttpStart, Locked
  <2>3. BodyInv'
    BY <1>0, <1>1, <1>9 DEF HttpTypes, OpenCall, Alone, BodyInv, Downloading, CachedEtag, HttpStart, Locked
  <2>4. OpenedInv'
    BY <1>0, <1>1, <1>9 DEF HttpTypes, OpenCall, Alone, BodyInv, OpenedInv, EtagInv, Downloading, CachedEtag, HttpStart, Locked
  <2>5. EtagInv'
    BY <1>0, <1>1, <1>9 DEF HttpTypes, OpenCall, Alone, BodyInv, EtagInv, Downloading, CachedEtag, Happens, HttpStart, Locked
  <2> QED BY <2>1, <2>2, <2>3, <2>4, <2>5 DEF IndInv
<1>10. ASSUME NEW o \in Opener, Happens("etag_lost"), HttpSidecarLost(o)
      PROVE IndInv'
  <2>1. HttpTypes'
    BY <1>0, <1>1, <1>10 DEF HttpTypes, OpenCall, Downloading, HttpSidecarLost, Step
  <2>2. Alone'
    BY <1>0, <1>1, <1>10 DEF HttpTypes, OpenCall, Alone, HttpSidecarLost, Step
  <2>3. BodyInv'
    BY <1>0, <1>1, <1>10 DEF HttpTypes, OpenCall, Alone, BodyInv, Downloading, CachedEtag, HttpSidecarLost, Step
  <2>4. OpenedInv'
    <3>1. /\ dest' = dest /\ dest.file = {fetching[o].got} /\ fetching[o].got \in fetching[o].seen
          /\ fetching' = [fetching EXCEPT ![o].pc = "opened"]
          /\ \A p \in Opener \ {o} : fetching[p].pc \notin Downloading
      BY <1>1, <1>10 DEF HttpTypes, OpenCall, Alone, BodyInv, Downloading, HttpSidecarLost, Step
    <3>2. /\ fetching'[o].seen = fetching[o].seen /\ fetching'[o].pc = "opened"
          /\ \A p \in Opener \ {o} : fetching'[p] = fetching[p]
      BY <1>1, <3>1 DEF HttpTypes, OpenCall
    <3>3. \A p \in Opener : fetching'[p].pc \notin Downloading
      BY <3>1, <3>2 DEF Downloading
    <3>4. ASSUME NEW p \in Opener, fetching'[p].pc = "opened"
          PROVE \E u \in fetching'[p].seen : dest'.file = {u}
      <4>1. CASE p = o
        BY <3>1, <3>2, <4>1
      <4>2. CASE p # o
        BY <1>1, <3>1, <3>2, <3>4, <4>2 DEF OpenedInv
      <4> QED BY <4>1, <4>2
    <3> QED BY <3>3, <3>4 DEF OpenedInv
  <2>5. EtagInv'
    BY <1>0, <1>1, <1>10 DEF HttpTypes, OpenCall, Alone, BodyInv, EtagInv, Downloading, CachedEtag, Happens, HttpSidecarLost, Step
  <2> QED BY <2>1, <2>2, <2>3, <2>4, <2>5 DEF IndInv
<1>11. ASSUME NEW v \in Version, v > web \/ Happens("hub_returns"), WebChanges(v)
      PROVE IndInv'
  <2>0. /\ \A p \in Opener : fetching'[p].pc = fetching[p].pc
        /\ \A p \in Opener : fetching'[p].got = fetching[p].got
        /\ \A p \in Opener : fetching[p].pc = "opened" => fetching[p].seen \subseteq fetching'[p].seen
        /\ dest' = dest
    BY <1>1, <1>11 DEF HttpTypes, OpenCall, WebChanges
  <2>1. HttpTypes'
    BY SMTT(30), <1>0, <1>1, <1>11 DEF HttpTypes, OpenCall, Downloading, WebChanges
  <2>2. Alone'
    BY <1>0, <1>1, <1>11 DEF HttpTypes, OpenCall, Alone, WebChanges
  <2>3. BodyInv'
    BY <1>0, <1>1, <1>11 DEF HttpTypes, OpenCall, Alone, BodyInv, Downloading, CachedEtag, WebChanges
  <2>4. OpenedInv'
    <3> SUFFICES ASSUME NEW o \in Opener, fetching'[o].pc = "opened"
                 PROVE /\ \E x \in fetching'[o].seen : dest'.file = {x}
                       /\ \A p \in Opener : fetching'[p].pc \in Downloading => fetching'[p].got \in fetching'[o].seen
      BY DEF OpenedInv
    <3>1. fetching[o].pc = "opened" /\ fetching[o].seen \subseteq fetching'[o].seen
      BY <2>0
    <3>2. PICK w \in fetching[o].seen : dest.file = {w}
      BY <1>1, <3>1 DEF OpenedInv
    <3>3. \A p \in Opener : fetching[p].pc \in Downloading => fetching[p].got \in fetching[o].seen
      BY <1>1, <3>1 DEF OpenedInv
    <3>4. \E x \in fetching'[o].seen : dest'.file = {x}
      BY <2>0, <3>1, <3>2
    <3>5. ASSUME NEW p \in Opener, fetching'[p].pc \in Downloading PROVE fetching'[p].got \in fetching'[o].seen
      <4>1. fetching[p].pc \in Downloading /\ fetching'[p].got = fetching[p].got
        BY <2>0, <3>5
      <4> QED BY <3>1, <3>3, <4>1
    <3> QED BY <3>4, <3>5
  <2>5. EtagInv'
    BY <1>0, <1>1, <1>11 DEF HttpTypes, OpenCall, Alone, BodyInv, EtagInv, Downloading, CachedEtag, Happens, WebChanges
  <2> QED BY <2>1, <2>2, <2>3, <2>4, <2>5 DEF IndInv
<1> QED BY <1>2, <1>3, <1>4, <1>5, <1>6, <1>7, <1>8, <1>9, <1>10, <1>11 DEF HttpNext, HttpStep

\* Whatever the openers, the versions and their changes: what open() gives
\* the reader is one version of the file, one the Hub had while the call ran
\* (download_file_http and its caller), if the path keeps its inode and no
\* ETag is lost where versions come back.
THEOREM DownloadsAreCurrent ==
    ASSUME OneInode, EtagsReliable PROVE Spec => []HttpIsCurrent
<1>1. Init => IndInv
  BY HttpInitial
<1>2. IndInv /\ [Next]_vars => IndInv'
  <2> SUFFICES ASSUME IndInv, [Next]_vars PROVE IndInv'
    OBVIOUS
  <2>1. CASE case' = case /\ UNCHANGED httpvars
    BY <2>1 DEF IndInv, HttpTypes, Alone, BodyInv, OpenedInv, EtagInv, CachedEtag, Happens, httpvars
  <2>2. CASE Next
    BY <2>1, <2>2, OnlyHttpSteps, HttpStepKeeps
  <2>3. CASE UNCHANGED vars
    BY <2>1, <2>3 DEF vars
  <2> QED BY <2>2, <2>3
<1>3. IndInv => HttpIsCurrent
  <2> SUFFICES ASSUME IndInv, NEW o \in Opener, fetching[o].pc = "opened"
               PROVE Cardinality(dest.file) = 1 /\ dest.file \subseteq fetching[o].seen
    BY DEF HttpIsCurrent
  <2>1. PICK v \in fetching[o].seen : dest.file = {v}
    BY DEF IndInv, OpenedInv
  <2> QED BY <2>1, FS_Singleton
<1> QED BY <1>1, <1>2, <1>3, PTL DEF Spec

-----------------------------------------------------------------------------
(* Induction, with the set of the numbers a fact holds for in place of a   *)
(* predicate.                                                              *)

LEMMA LeastOf ==
    ASSUME NEW T, T \subseteq Nat, T # {}
    PROVE  \E m \in T : \A n \in T : m <= n
<1>1. IsWellFoundedOn(OpToRel(<, Nat), Nat)
  BY NatLessThanWellFounded
<1>2. PICK m \in T : \A n \in T : <<n, m>> \notin OpToRel(<, Nat)
  BY <1>1, WFMin
<1>3. ASSUME NEW n \in T, n < m PROVE FALSE
  <2>1. <<n, m>> \in OpToRel(<, Nat)
    BY <1>3 DEF OpToRel
  <2> QED BY <1>2, <2>1
<1> QED BY <1>3

LEMMA Induct ==
    ASSUME NEW P, 0 \in P, NEW m \in Nat, \A n \in 0..m - 1 : n \in P => n + 1 \in P
    PROVE  \A n \in 0..m : n \in P
<1> DEFINE Bad == {n \in 0..m : n \notin P}
<1>1. SUFFICES ASSUME Bad # {} PROVE FALSE
  OBVIOUS
<1>2. Bad \subseteq Nat
  OBVIOUS
<1>3. PICK n \in Bad : \A k \in Bad : n <= k
  <2> HIDE DEF Bad
  <2> QED BY <1>1, <1>2, LeastOf
<1>4. n \in 0..m /\ n \notin P /\ n # 0
  OBVIOUS
<1>5. n - 1 \in 0..m - 1 /\ n - 1 \notin Bad
  BY <1>3, <1>4
<1>6. n - 1 \in P /\ (n - 1) + 1 = n
  BY <1>4, <1>5
<1> QED BY <1>4, <1>5, <1>6

-----------------------------------------------------------------------------
(* Chunks and their concatenation.                                         *)

ByteSeq == Seq(Nat)
IsFlat(c, p) ==
    /\ p \in [0..Len(c) -> ByteSeq] /\ p[0] = <<>>
    /\ \A i \in 1..Len(c) : p[i] = p[i - 1] \o c[i]
\* What the first i chunks give.
Flat(c) == CHOOSE p : IsFlat(c, p)

LEMMA FlatTo ==
    ASSUME NEW L \in Nat, NEW c \in [1..L -> ByteSeq]
    PROVE  \E p : p \in [0..L -> ByteSeq] /\ p[0] = <<>> /\ \A i \in 1..L : p[i] = p[i - 1] \o c[i]
<1> DEFINE To(n, g) == g \in [0..n -> ByteSeq] /\ g[0] = <<>> /\ \A i \in 1..n : g[i] = g[i - 1] \o c[i]
           P == {n \in 0..L : \E g : To(n, g)}
<1>1. 0 \in P
  <2> DEFINE g == [i \in 0..0 |-> <<>>]
  <2>1. g \in [0..0 -> ByteSeq] /\ g[0] = <<>>
    BY EmptySeq DEF ByteSeq
  <2> HIDE DEF g
  <2>2. \A i \in 1..0 : g[i] = g[i - 1] \o c[i]
    OBVIOUS
  <2>3. \E x : To(0, x)
    BY <2>1, <2>2
  <2> HIDE DEF To
  <2> QED BY <2>3
<1>2. ASSUME NEW n \in 0..L - 1, n \in P PROVE n + 1 \in P
  <2>1. PICK g : To(n, g)
    BY <1>2
  <2>n. n \in Nat /\ n + 1 \in 1..L
    OBVIOUS
  <2> DEFINE last == g[n] \o c[n + 1]
             h == [i \in 0..n + 1 |-> IF i <= n THEN g[i] ELSE last]
  <2>2. last \in ByteSeq
    <3>1. g[n] \in ByteSeq /\ c[n + 1] \in ByteSeq
      BY <2>1, <2>n
    <3> QED BY <3>1, ConcatProperties DEF ByteSeq
  <2> HIDE DEF last
  <2>3. h \in [0..n + 1 -> ByteSeq] /\ h[0] = <<>>
    BY <2>n, <2>1, <2>2
  <2>4. \A i \in 0..n : h[i] = g[i]
    BY <2>n
  <2>5. h[n + 1] = last
    BY <2>n
  <2> HIDE DEF h
  <2>6. ASSUME NEW i \in 1..n + 1 PROVE h[i] = h[i - 1] \o c[i]
    <3>1. CASE i \in 1..n
      <4>1. i \in 0..n /\ i - 1 \in 0..n
        BY <2>n, <3>1
      <4> QED BY <2>1, <2>4, <3>1, <4>1
    <3>2. CASE i = n + 1
      <4>1. i - 1 = n /\ n \in 0..n
        BY <2>n, <3>2
      <4> QED BY <2>4, <2>5, <3>2, <4>1 DEF last
    <3>3. i \in 1..n \/ i = n + 1
      BY <2>n
    <3> QED BY <3>1, <3>2, <3>3
  <2>7. To(n + 1, h)
    BY <2>3, <2>6
  <2> HIDE DEF To
  <2> QED BY <2>n, <2>7
<1>3. L \in P
  <2> HIDE DEF P
  <2>1. \A n \in 0..L - 1 : n \in P => n + 1 \in P
    BY <1>2
  <2>2. \A n \in 0..L : n \in P
    BY ONLY <1>1, <2>1, L \in Nat, Induct
  <2> QED BY <2>2
<1> QED BY <1>3
LEMMA FlatIs == ASSUME NEW c \in Seq(ByteSeq) PROVE IsFlat(c, Flat(c))
<1>1. Len(c) \in Nat /\ c \in [1..Len(c) -> ByteSeq]
  BY LenProperties
<1>2. \E p : p \in [0..Len(c) -> ByteSeq] /\ p[0] = <<>> /\ \A i \in 1..Len(c) : p[i] = p[i - 1] \o c[i]
  BY <1>1, FlatTo
<1> QED BY <1>2 DEF IsFlat, Flat

LEMMA FlatType ==
    ASSUME NEW c \in Seq(ByteSeq), NEW i \in 0..Len(c)
    PROVE  Flat(c)[i] \in ByteSeq /\ Len(Flat(c)[i]) \in Nat
<1>1. IsFlat(c, Flat(c))
  BY FlatIs
<1>2. Flat(c)[i] \in ByteSeq
  BY <1>1 DEF IsFlat
<1> QED BY <1>2, LenProperties DEF ByteSeq
LEMMA FlatZero ==
    ASSUME NEW c \in Seq(ByteSeq) PROVE Flat(c)[0] = <<>> /\ Len(Flat(c)[0]) = 0
<1>1. IsFlat(c, Flat(c))
  BY FlatIs
<1> QED BY <1>1, EmptySeq DEF IsFlat
LEMMA FlatNext ==
    ASSUME NEW c \in Seq(ByteSeq), NEW i \in 1..Len(c)
    PROVE  /\ c[i] \in ByteSeq /\ Len(c[i]) \in Nat
           /\ Flat(c)[i] = Flat(c)[i - 1] \o c[i]
           /\ Len(Flat(c)[i]) = Len(Flat(c)[i - 1]) + Len(c[i])
<1>1. IsFlat(c, Flat(c)) /\ i - 1 \in 0..Len(c)
  BY FlatIs, LenProperties
<1>2. c[i] \in ByteSeq /\ Len(c[i]) \in Nat
  BY ElementOfSeq, LenProperties DEF ByteSeq
<1>3. Flat(c)[i - 1] \in ByteSeq
  BY <1>1, FlatType
<1>4. Flat(c)[i] = Flat(c)[i - 1] \o c[i]
  BY <1>1 DEF IsFlat
<1>5. Len(Flat(c)[i - 1] \o c[i]) = Len(Flat(c)[i - 1]) + Len(c[i])
  BY <1>2, <1>3, ConcatProperties DEF ByteSeq
<1> QED BY <1>2, <1>4, <1>5

LEMMA FlattenIs ==
    ASSUME NEW c \in Seq(ByteSeq)
    PROVE  FlattenSeq(c) = Flat(c)[Len(c)] /\ FlattenSeq(c) \in ByteSeq
<1> DEFINE L == Len(c)
           p == Flat(c)
           rec(f) == [i \in 1..L |-> IF i = 1 THEN c[i] ELSE f[i - 1] \o c[i]]
           h == CHOOSE f : f = rec(f)
<1>0. L \in Nat /\ L \in 0..L /\ p[L] \in ByteSeq
  <2>1. L \in Nat
    BY LenProperties
  <2>2. L \in 0..Len(c)
    BY <2>1
  <2> QED BY <2>1, <2>2, FlatType
<1>1. CASE L = 0
  <2>1. FlattenSeq(c) = c /\ c = <<>>
    BY <1>1, EmptySeq DEF FlattenSeq
  <2>2. p[L] = <<>>
    BY <1>1, FlatZero
  <2>3. p[L] = FlattenSeq(c)
    BY <2>1, <2>2
  <2> QED BY <1>0, <2>3
<1>2. CASE L # 0
  <2>1. FlattenSeq(c) = h[L]
    BY <1>2 DEF FlattenSeq
  <2>2. \A i \in 1..L : i # 1 => p[i] = p[i - 1] \o c[i]
    BY <1>0, FlatNext
  <2>3. p[1] = c[1]
    <3>1. 1 \in 1..Len(c) /\ 1 - 1 = 0
      BY <1>0, <1>2
    <3>2. p[1] = p[0] \o c[1] /\ c[1] \in ByteSeq /\ p[0] = <<>>
      BY <3>1, FlatNext, FlatZero
    <3> HIDE DEF p
    <3>3. <<>> \o c[1] = c[1]
      BY <3>2, ConcatEmptySeq DEF ByteSeq
    <3> QED BY ONLY <3>2, <3>3
  <2>4. \E f : f = rec(f)
    <3> DEFINE g == [i \in 1..L |-> p[i]]
    <3>1. \A i \in 1..L : i # 1 => i - 1 \in 1..L
      BY <1>0
    <3>2. \A i \in 1..L : g[i] = IF i = 1 THEN c[i] ELSE g[i - 1] \o c[i]
      BY <2>2, <2>3, <3>1
    <3>3. g = rec(g)
      <4>1. g = [i \in 1..L |-> g[i]]
        OBVIOUS
      <4> HIDE DEF g
      <4> QED BY <3>2, <4>1
    <3> HIDE DEF g, rec
    <3> QED BY <3>3
  <2>5. h = rec(h)
    <3> HIDE DEF rec
    <3> QED BY <2>4
  <2> HIDE DEF h, p, L
  <2>6. \A i \in 1..L : h[i] = IF i = 1 THEN c[i] ELSE h[i - 1] \o c[i]
    BY <2>5
  <2> DEFINE P == {n \in 0..L : n = 0 \/ h[n] = p[n]}
  <2>7. ASSUME NEW n \in 0..L - 1, n \in P PROVE n + 1 \in P
    <3>1. n + 1 \in 1..L /\ n + 1 \in 0..L /\ n \in Nat /\ (n + 1) - 1 = n
      BY <1>0
    <3>2. CASE n = 0
      <4>1. n + 1 = 1 /\ 1 \in 1..L
        BY <3>1, <3>2
      <4>2. h[1] = p[1]
        BY <2>3, <2>6, <4>1
      <4> QED BY <3>1, <4>1, <4>2
    <3>3. CASE n # 0
      <4>1. n + 1 # 1 /\ h[n] = p[n]
        BY <2>7, <3>1, <3>3
      <4>2. h[n + 1] = h[n] \o c[n + 1]
        BY <2>6, <3>1, <4>1
      <4>3. p[n + 1] = p[n] \o c[n + 1]
        BY <2>2, <3>1, <4>1
      <4>4. h[n + 1] = p[n + 1]
        BY ONLY <4>1, <4>2, <4>3
      <4> QED BY <3>1, <4>4
    <3> QED BY <3>2, <3>3
  <2>8. L \in P
    <3>1. 0 \in P
      BY <1>0
    <3>2. \A n \in 0..L - 1 : n \in P => n + 1 \in P
      BY <2>7
    <3>3. \A n \in 0..L : n \in P
      <4>1. L \in Nat
        BY <1>0
      <4> HIDE DEF P
      <4> QED BY ONLY <4>1, <3>1, <3>2, Induct
    <3> QED BY <1>0, <3>3
  <2> QED BY <1>0, <1>2, <2>1, <2>8 DEF p, L
<1> QED BY <1>1, <1>2

LEMMA Associates == \A s, t, u \in ByteSeq : (s \o t) \o u = s \o (t \o u)
<1>1. \A S : \A s, t, u \in Seq(S) : (s \o t) \o u = s \o (t \o u)
  BY ONLY Zenon, ConcatAssociative
<1>2. \A s, t, u \in Seq(Nat) : (s \o t) \o u = s \o (t \o u)
  BY ONLY SMT, <1>1
<1> QED BY ONLY Zenon, <1>2 DEF ByteSeq
LEMMA FlattenTail ==
    ASSUME NEW c \in Seq(ByteSeq), NEW w \in 0..Len(c), NEW d, d = SubSeq(c, w + 1, Len(c))
    PROVE  /\ d \in Seq(ByteSeq) /\ Len(d) = Len(c) - w
           /\ FlattenSeq(c) = Flat(c)[w] \o FlattenSeq(d)
<1>1. Len(c) \in Nat /\ w \in Nat /\ w <= Len(c)
  BY LenProperties
<1>2. \A i \in w + 1..Len(c) : c[i] \in ByteSeq
  <2> SUFFICES ASSUME NEW i \in w + 1..Len(c) PROVE c[i] \in ByteSeq
    OBVIOUS
  <2>1. i \in 1..Len(c)
    BY <1>1
  <2> QED BY <2>1, ElementOfSeq
<1>3. /\ d \in Seq(ByteSeq)
      /\ Len(d) = IF w + 1 <= Len(c) THEN Len(c) - (w + 1) + 1 ELSE 0
      /\ \A i \in 1..Len(c) - (w + 1) + 1 : d[i] = c[w + 1 + i - 1]
  <2>1. w + 1 \in Int /\ Len(c) \in Int
    BY <1>1
  <2> QED BY <1>2, <2>1, SubSeqProperties
<1>4. Len(d) = Len(c) - w /\ \A i \in 1..Len(c) - w : d[i] = c[w + i]
  BY <1>1, <1>3
<1> DEFINE m == Len(c) - w
           P == {i \in 0..m : Flat(c)[w + i] = Flat(c)[w] \o Flat(d)[i]}
<1>m. m \in Nat /\ Len(d) = m
  BY <1>1, <1>4
<1>5. 0 \in P
  <2>1. Flat(d)[0] = <<>> /\ Flat(c)[w] \in ByteSeq
    BY <1>3, FlatZero, FlatType
  <2>2. Flat(c)[w] \o <<>> = Flat(c)[w]
    BY <2>1, ConcatEmptySeq DEF ByteSeq
  <2>3. w + 0 = w /\ 0 \in 0..m
    BY <1>1, <1>m
  <2> QED BY <2>1, <2>2, <2>3
<1>6. ASSUME NEW i \in 0..m - 1, i \in P PROVE i + 1 \in P
  <2>1. /\ i + 1 \in 1..Len(d) /\ (i + 1) - 1 = i /\ w + (i + 1) \in 1..Len(c) /\ w + (i + 1) - 1 = w + i
        /\ i \in 0..Len(d) /\ i + 1 \in 0..m /\ i + 1 \in 1..Len(c) - w
    BY <1>1, <1>m
  <2>2. Flat(d)[i + 1] = Flat(d)[i] \o d[i + 1] /\ d[i + 1] \in ByteSeq
    BY <1>3, <2>1, FlatNext
  <2>3. Flat(c)[w + (i + 1)] = Flat(c)[w + i] \o c[w + (i + 1)]
    <3>1. \A k \in 1..Len(c) : Flat(c)[k] = Flat(c)[k - 1] \o c[k]
      BY FlatNext
    <3>2. w + (i + 1) \in 1..Len(c) /\ w + (i + 1) - 1 = w + i
      BY <2>1
    <3> DEFINE k == w + (i + 1)
    <3>3. k \in 1..Len(c) /\ k - 1 = w + i
      BY <3>2
    <3> HIDE DEF k
    <3>4. Flat(c)[k] = Flat(c)[w + i] \o c[k]
      BY ONLY <3>1, <3>3
    <3> QED BY ONLY <3>4 DEF k
  <2>4. d[i + 1] = c[w + (i + 1)]
    BY <1>4, <2>1
  <2>5. Flat(c)[w] \in ByteSeq /\ Flat(d)[i] \in ByteSeq
    BY <1>3, <2>1, FlatType
  <2>6. (Flat(c)[w] \o Flat(d)[i]) \o d[i + 1] = Flat(c)[w] \o (Flat(d)[i] \o d[i + 1])
    BY ONLY <2>2, <2>5, Associates
  <2>7. Flat(c)[w + i] = Flat(c)[w] \o Flat(d)[i]
    BY <1>6
  <2>8. Flat(c)[w + (i + 1)] = Flat(c)[w] \o Flat(d)[i + 1]
    BY ONLY <2>2, <2>3, <2>4, <2>6, <2>7
  <2> QED BY <2>1, <2>8
<1>7. m \in P
  <2>1. \A i \in 0..m - 1 : i \in P => i + 1 \in P
    BY <1>6
  <2>2. m \in Nat
    BY <1>m
  <2> HIDE DEF P, m
  <2>3. \A n \in 0..m : n \in P
    BY ONLY <1>5, <2>1, <2>2, Induct
  <2> QED BY <2>2, <2>3
<1>8. w + m = Len(c)
  BY <1>1
<1>9. FlattenSeq(c) = Flat(c)[Len(c)] /\ FlattenSeq(d) = Flat(d)[m]
  BY <1>3, <1>m, FlattenIs
<1> QED BY <1>3, <1>4, <1>7, <1>8, <1>9

\* The running sum of the lengths, as PopFront takes it.
LEMMA CumIs ==
    ASSUME NEW c \in Seq(ByteSeq),
           NEW cum, cum = CHOOSE f : f = [k \in 0..Len(c) |-> IF k = 0 THEN 0 ELSE f[k - 1] + Len(c[k])]
    PROVE  DOMAIN cum = 0..Len(c) /\ \A k \in 0..Len(c) : cum[k] = Len(Flat(c)[k])
<1> DEFINE L == Len(c)
           n(k) == Len(Flat(c)[k])
           rec(f) == [k \in 0..L |-> IF k = 0 THEN 0 ELSE f[k - 1] + Len(c[k])]
<1>0. L \in Nat
  BY LenProperties
<1>1. n(0) = 0 /\ \A k \in 1..L : n(k) = n(k - 1) + Len(c[k])
  BY FlatZero, FlatNext
<1> HIDE DEF n
<1>2. \E f : f = rec(f)
  <2> DEFINE g == [k \in 0..L |-> n(k)]
  <2>1. ASSUME NEW k \in 0..L PROVE g[k] = IF k = 0 THEN 0 ELSE g[k - 1] + Len(c[k])
    <3>1. CASE k = 0
      BY <1>1, <3>1
    <3>2. CASE k # 0
      <4>1. k \in 1..L /\ k - 1 \in 0..L
        BY <1>0, <3>2
      <4> QED BY <1>1, <3>2, <4>1
    <3> QED BY <3>1, <3>2
  <2>2. g = [k \in 0..L |-> g[k]]
    OBVIOUS
  <2> HIDE DEF g
  <2>3. g = rec(g)
    BY <2>1, <2>2
  <2> HIDE DEF rec
  <2> QED BY <2>3
<1>3. cum = rec(cum)
  <2>1. cum = CHOOSE f : f = rec(f)
    OBVIOUS
  <2> HIDE DEF rec
  <2> QED BY <1>2, <2>1
<1> HIDE DEF L
<1>4. DOMAIN cum = 0..L /\ \A k \in 0..L : cum[k] = IF k = 0 THEN 0 ELSE cum[k - 1] + Len(c[k])
  BY ONLY <1>3
<1> DEFINE P == {k \in 0..L : cum[k] = n(k)}
<1>5. 0 \in P
  BY <1>0, <1>1, <1>4
<1>6. ASSUME NEW k \in 0..L - 1, k \in P PROVE k + 1 \in P
  <2>1. k + 1 \in 1..L /\ k + 1 \in 0..L /\ (k + 1) - 1 = k /\ k + 1 # 0
    BY <1>0
  <2>2. cum[k + 1] = cum[k] + Len(c[k + 1])
    BY <1>4, <2>1
  <2>3. n(k + 1) = n(k) + Len(c[k + 1])
    BY <1>1, <2>1
  <2>4. cum[k] = n(k)
    BY <1>6
  <2>5. cum[k + 1] = n(k + 1)
    BY ONLY <2>2, <2>3, <2>4
  <2> QED BY <2>1, <2>5
<1>7. \A k \in 0..L : k \in P
  <2>1. \A k \in 0..L - 1 : k \in P => k + 1 \in P
    BY <1>6
  <2>2. L \in Nat
    BY <1>0
  <2> HIDE DEF P
  <2> QED BY ONLY <1>5, <2>1, <2>2, Induct
<1> QED BY <1>4, <1>7 DEF L, n

-----------------------------------------------------------------------------
(* Runs of bytes.                                                          *)

LEMMA BytesIs ==
    ASSUME NEW a \in Nat, NEW b \in Nat, a <= b
    PROVE  /\ Bytes(a, b) \in ByteSeq /\ Len(Bytes(a, b)) = b - a
           /\ \A i \in 1..Len(Bytes(a, b)) : Bytes(a, b)[i] = a + i - 1
<1> DEFINE n == IF b > a THEN b - a ELSE 0
<1>1. n \in Nat /\ n = b - a
  OBVIOUS
<1>2. Bytes(a, b) = [i \in 1..n |-> a + i - 1]
  BY DEF Bytes
<1> HIDE DEF n
<1>3. \A i \in 1..n : a + i - 1 \in Nat
  BY <1>1
<1>4. Bytes(a, b) \in Seq(Nat) /\ Len(Bytes(a, b)) = n
  BY <1>1, <1>2, <1>3
<1>5. \A i \in 1..n : Bytes(a, b)[i] = a + i - 1
  BY <1>2
<1> QED BY <1>1, <1>4, <1>5 DEF ByteSeq

LEMMA SameBytes ==
    ASSUME NEW s \in ByteSeq, NEW t \in ByteSeq, Len(s) = Len(t), \A i \in 1..Len(s) : s[i] = t[i]
    PROVE  s = t
  BY SeqEqual DEF ByteSeq

LEMMA BytesJoin ==
    ASSUME NEW a \in Nat, NEW b \in Nat, NEW c \in Nat, a <= b, b <= c
    PROVE  Bytes(a, b) \o Bytes(b, c) = Bytes(a, c)
<1> DEFINE s == Bytes(a, b)
           t == Bytes(b, c)
           u == Bytes(a, c)
<1>a. s \in ByteSeq /\ Len(s) = b - a /\ \A i \in 1..Len(s) : s[i] = a + i - 1
  BY BytesIs
<1>b. t \in ByteSeq /\ Len(t) = c - b /\ \A i \in 1..Len(t) : t[i] = b + i - 1
  BY BytesIs
<1>c. u \in ByteSeq /\ Len(u) = c - a /\ \A i \in 1..Len(u) : u[i] = a + i - 1
  <2>1. a <= c
    OBVIOUS
  <2> QED BY <2>1, BytesIs
<1>1. /\ s \in ByteSeq /\ Len(s) = b - a /\ \A i \in 1..Len(s) : s[i] = a + i - 1
      /\ t \in ByteSeq /\ Len(t) = c - b /\ \A i \in 1..Len(t) : t[i] = b + i - 1
      /\ u \in ByteSeq /\ Len(u) = c - a /\ \A i \in 1..Len(u) : u[i] = a + i - 1
  BY <1>a, <1>b, <1>c
<1> HIDE DEF s, t, u
<1>2. /\ s \o t \in ByteSeq /\ Len(s \o t) = Len(s) + Len(t)
      /\ \A i \in 1..Len(s) + Len(t) : (s \o t)[i] = IF i <= Len(s) THEN s[i] ELSE t[i - Len(s)]
  BY <1>1, ConcatProperties DEF ByteSeq
<1>3. Len(s \o t) = Len(u)
  BY <1>1, <1>2
<1>4. ASSUME NEW i \in 1..Len(u) PROVE (s \o t)[i] = u[i]
  <2>1. i \in 1..Len(s) + Len(t) /\ u[i] = a + i - 1
    BY <1>1
  <2>2. CASE i <= Len(s)
    <3>1. i \in 1..Len(s)
      BY <1>1, <2>2
    <3> QED BY <1>1, <1>2, <2>1, <2>2, <3>1
  <2>3. CASE ~(i <= Len(s))
    <3>1. i - Len(s) \in 1..Len(t) /\ b + (i - Len(s)) - 1 = a + i - 1
      BY <1>1, <2>1, <2>3
    <3>2. t[i - Len(s)] = a + i - 1
      BY <1>1, <3>1
    <3> QED BY <1>2, <2>1, <2>3, <3>2
  <2> QED BY <2>2, <2>3
<1>5. s \o t = u
  BY ONLY <1>1, <1>2, <1>3, <1>4, SameBytes
<1> QED BY <1>5 DEF s, t, u

Part(s, m, n) == SubSeq(s, m, n)

LEMMA BytesPart ==
    ASSUME NEW a \in Nat, NEW b \in Nat, a <= b, NEW m \in Nat, NEW n \in Nat, 1 <= m, m <= n + 1, n <= b - a
    PROVE  Part(Bytes(a, b), m, n) = Bytes(a + m - 1, a + n)
<1> DEFINE s == Bytes(a, b)
           t == SubSeq(s, m, n)
           x == a + m - 1
           y == a + n
           u == Bytes(x, y)
<1>1. x \in Nat /\ y \in Nat /\ x <= y
  OBVIOUS
<1>2. s \in ByteSeq /\ Len(s) = b - a /\ \A i \in 1..Len(s) : s[i] = a + i - 1
  BY BytesIs
<1>3. u \in ByteSeq /\ Len(u) = y - x /\ \A i \in 1..Len(u) : u[i] = x + i - 1
  BY <1>1, BytesIs
<1> HIDE DEF s, u
<1>4. \A i \in m..n : s[i] \in Nat
  BY <1>2
<1>5. /\ t \in Seq(Nat) /\ Len(t) = IF m <= n THEN n - m + 1 ELSE 0
      /\ \A i \in 1..n - m + 1 : t[i] = s[m + i - 1]
  <2>1. m \in Int /\ n \in Int
    OBVIOUS
  <2> QED BY <1>4, <2>1, SubSeqProperties
<1> HIDE DEF t
<1>6. t \in ByteSeq /\ Len(t) = Len(u) /\ Len(u) = n - m + 1
  BY <1>3, <1>5 DEF ByteSeq
<1>7. ASSUME NEW i \in 1..Len(t) PROVE t[i] = u[i]
  <2>1. i \in 1..n - m + 1 /\ m + i - 1 \in 1..Len(s) /\ i \in 1..Len(u)
    BY <1>2, <1>6
  <2>2. t[i] = s[m + i - 1] /\ s[m + i - 1] = a + (m + i - 1) - 1 /\ u[i] = x + i - 1
    BY <1>2, <1>3, <1>5, <2>1
  <2> QED BY <2>1, <2>2
<1>8. t = u
  BY ONLY <1>3, <1>6, <1>7, SameBytes
<1> QED BY <1>8 DEF s, t, u, Part

LEMMA PartIs ==
    ASSUME NEW s \in ByteSeq, NEW m \in Nat, NEW n \in Nat, 1 <= m, m <= n + 1, n <= Len(s)
    PROVE  /\ SubSeq(s, m, n) \in ByteSeq /\ Len(SubSeq(s, m, n)) = n + 1 - m
           /\ \A i \in 1..Len(SubSeq(s, m, n)) : SubSeq(s, m, n)[i] = s[m + i - 1]
<1>0. Len(s) \in Nat /\ m \in Int /\ n \in Int
  BY LenProperties DEF ByteSeq
<1>1. \A i \in m..n : s[i] \in Nat
  <2> SUFFICES ASSUME NEW i \in m..n PROVE s[i] \in Nat
    OBVIOUS
  <2>1. i \in 1..Len(s)
    BY <1>0
  <2> QED BY <2>1, ElementOfSeq DEF ByteSeq
<1> DEFINE t == SubSeq(s, m, n)
<1>2. /\ t \in Seq(Nat) /\ Len(t) = IF m <= n THEN n - m + 1 ELSE 0
      /\ \A i \in 1..n - m + 1 : t[i] = s[m + i - 1]
  BY <1>0, <1>1, SubSeqProperties
<1> HIDE DEF t
<1>3. Len(t) = n + 1 - m /\ n - m + 1 = n + 1 - m
  BY <1>2
<1>4. t \in ByteSeq /\ \A i \in 1..Len(t) : t[i] = s[m + i - 1]
  BY <1>2, <1>3 DEF ByteSeq
<1> QED BY <1>3, <1>4 DEF t

-----------------------------------------------------------------------------
(* The buffers of a handle, byte by byte.                                  *)

StreamRec == [open : BOOLEAN, pos : Nat]
PsRec == [size : Nat, chunks : Seq(ByteSeq), len : Nat, front : Nat, start : Nat, seek : ByteSeq, seekStart : Nat,
          window : InitialWindow..MaxWindow, stream : StreamRec, forwardOnly : BOOLEAN]
BufOK(ps) ==
    /\ Len(FlattenSeq(ps.chunks)) = ps.front + ps.len /\ BufEnd(ps) <= ps.size
    /\ \A i \in 1..ps.len : FlattenSeq(ps.chunks)[ps.front + i] = ps.start + i - 1
SeekOK(ps) == ps.seek = Bytes(ps.seekStart, SeekEnd(ps)) /\ Len(ps.seek) <= SeekWindow /\ SeekEnd(ps) <= ps.size
PsOK(ps) == ps \in PsRec /\ BufOK(ps) /\ SeekOK(ps)
StreamFollows(ps) == ps.stream.open => ps.stream.pos = BufEnd(ps)

\* The bytes of the buffer after the first `skip`.
LEMMA RangeIs ==
    ASSUME NEW ps \in PsRec, BufOK(ps), NEW skip \in Nat, NEW count \in Nat, skip + count <= ps.len
    PROVE  ReadChunkRange(ps, skip, count) = Bytes(ps.start + skip, ps.start + skip + count)
<1> DEFINE B == FlattenSeq(ps.chunks)
           f == ps.front
           l == ps.len
           a == ps.start
           m == f + skip + 1
           n == f + skip + count
           x == a + skip
           y == a + skip + count
           s == SubSeq(B, m, n)
           t == Bytes(x, y)
<1>1. f \in Nat /\ l \in Nat /\ a \in Nat /\ ps.chunks \in Seq(ByteSeq)
  BY DEF PsRec
<1>2. B \in ByteSeq
  BY <1>1, FlattenIs
<1>3. Len(B) = f + l /\ (\A i \in 1..l : B[f + i] = a + i - 1) /\ skip + count <= l
  BY DEF BufOK
<1>s. ReadChunkRange(ps, skip, count) = s
  BY DEF ReadChunkRange
<1> HIDE DEF B, f, l, a
<1>4. s \in ByteSeq /\ Len(s) = count /\ \A i \in 1..Len(s) : s[i] = B[m + i - 1]
  <2>1. m \in Nat /\ n \in Nat /\ 1 <= m /\ m <= n + 1 /\ n <= Len(B) /\ n + 1 - m = count
    BY <1>1, <1>3
  <2> HIDE DEF m, n
  <2> QED BY <1>2, <2>1, PartIs
<1>5. t \in ByteSeq /\ Len(t) = count /\ \A i \in 1..Len(t) : t[i] = x + i - 1
  <2>1. x \in Nat /\ y \in Nat /\ x <= y /\ y - x = count
    BY <1>1
  <2> HIDE DEF x, y
  <2> QED BY <2>1, BytesIs
<1> HIDE DEF s, t
<1>6. ASSUME NEW i \in 1..Len(s) PROVE s[i] = t[i]
  <2>1. i \in 1..count
    BY <1>4
  <2>2. skip + i \in 1..l /\ m + i - 1 = f + (skip + i) /\ x + i - 1 = a + (skip + i) - 1
    BY <1>1, <1>3, <2>1
  <2>3. B[f + (skip + i)] = a + (skip + i) - 1
    BY <1>3, <2>2
  <2> QED BY <1>4, <1>5, <2>2, <2>3
<1>7. s = t
  BY ONLY <1>4, <1>5, <1>6, SameBytes
<1> QED BY <1>s, <1>7 DEF t, a

SameBut(p, q, F) == \A x \in DOMAIN p \ F : q[x] = p[x]

\* The last chunk that a running sum still reaches.
LEMMA LastReached ==
    ASSUME NEW L \in Nat, NEW v, DOMAIN v = 0..L, v[0] = 0, \A k \in 0..L : v[k] \in Nat, NEW n \in Nat,
           NEW w, w = CHOOSE k \in DOMAIN v : v[k] <= n /\ \A j \in DOMAIN v : v[j] <= n => j <= k
    PROVE  w \in 0..L /\ v[w] <= n
<1> DEFINE T == {m \in 0..L : v[L - m] <= n}
<1>1. T \subseteq Nat
  OBVIOUS
<1>2. L \in T
  <2>1. L - L = 0 /\ L \in 0..L
    OBVIOUS
  <2> QED BY <2>1
<1>3. PICK m \in T : \A k \in T : m <= k
  <2>1. T # {}
    BY <1>2
  <2> HIDE DEF T
  <2> QED BY <1>1, <2>1, LeastOf
<1> DEFINE k == L - m
<1>4. k \in 0..L /\ v[k] <= n
  OBVIOUS
<1>5. ASSUME NEW j \in 0..L, v[j] <= n PROVE j <= k
  <2>1. L - j \in 0..L /\ L - (L - j) = j
    OBVIOUS
  <2>2. L - j \in T
    BY <1>5, <2>1
  <2>3. m <= L - j /\ m \in 0..L
    BY <1>3, <2>2
  <2> QED BY ONLY <2>3, L \in Nat, j \in 0..L
<1> HIDE DEF k, T
<1>6. \E x \in DOMAIN v : v[x] <= n /\ \A j \in DOMAIN v : v[j] <= n => j <= x
  BY <1>4, <1>5
<1> QED BY <1>6

LEMMA PopFrontKeeps ==
    ASSUME NEW ps \in PsRec, BufOK(ps), NEW n \in Nat, n <= ps.len, NEW q, q = PopFront(ps, n)
    PROVE  /\ q \in PsRec /\ BufOK(q)
           /\ q.len = ps.len - n /\ q.start = ps.start + n /\ BufEnd(q) = BufEnd(ps)
           /\ SameBut(ps, q, {"chunks", "front", "len", "start"})
<1> DEFINE c == ps.chunks
           B == FlattenSeq(c)
           f == ps.front
           l == ps.len
           a == ps.start
           L == Len(c)
           cum == CHOOSE g : g = [k \in 0..L |-> IF k = 0 THEN 0 ELSE g[k - 1] + Len(c[k])]
           w == CHOOSE k \in DOMAIN cum : cum[k] <= f + n /\ \A j \in DOMAIN cum : cum[j] <= f + n => j <= k
           d == SubSeq(c, w + 1, L)
<1>1. f \in Nat /\ l \in Nat /\ a \in Nat /\ c \in Seq(ByteSeq) /\ L \in Nat /\ n <= l
  BY LenProperties DEF PsRec
<1>2. B \in ByteSeq
  BY <1>1, FlattenIs
<1>3. Len(B) = f + l /\ (\A i \in 1..l : B[f + i] = a + i - 1) /\ a + l <= ps.size
  BY DEF BufOK, BufEnd
<1>4. q = [ps EXCEPT !.chunks = d, !.front = f + n - cum[w], !.len = l - n, !.start = a + n]
  BY DEF PopFront
<1>5. DOMAIN cum = 0..L /\ \A k \in 0..L : cum[k] = Len(Flat(c)[k])
  <2> HIDE DEF c, cum
  <2>1. cum = CHOOSE g : g = [k \in 0..Len(c) |-> IF k = 0 THEN 0 ELSE g[k - 1] + Len(c[k])]
    BY DEF cum
  <2> QED BY <1>1, <2>1, CumIs
<1>6. w \in 0..L /\ cum[w] <= f + n /\ cum[w] \in Nat
  <2> HIDE DEF cum, c, w, f
  <2>1. cum[0] = 0 /\ \A k \in 0..L : cum[k] \in Nat
    BY <1>1, <1>5, FlatZero, FlatType
  <2>2. f + n \in Nat
    BY <1>1
  <2> DEFINE N == f + n
  <2>3. w = CHOOSE k \in DOMAIN cum : cum[k] <= N /\ \A j \in DOMAIN cum : cum[j] <= N => j <= k
    BY DEF w
  <2>4. L \in Nat /\ N \in Nat /\ DOMAIN cum = 0..L
    BY <1>1, <1>5, <2>2
  <2> HIDE DEF N, L
  <2>5. w \in 0..L /\ cum[w] <= N
    BY ONLY <2>1, <2>3, <2>4, LastReached
  <2>6. w \in 0..L /\ cum[w] <= f + n
    BY <2>5 DEF N
  <2> QED BY <2>1, <2>6
<1> HIDE DEF c, B, f, l, a, cum, w
<1>7. d \in Seq(ByteSeq) /\ B = Flat(c)[w] \o FlattenSeq(d)
  BY <1>1, <1>6, FlattenTail DEF B
<1> DEFINE D == FlattenSeq(d)
           u == cum[w]
<1>8. Flat(c)[w] \in ByteSeq /\ Len(Flat(c)[w]) = u /\ D \in ByteSeq
  BY <1>1, <1>5, <1>6, <1>7, FlatType, FlattenIs
<1> HIDE DEF d, D, u
<1>9. /\ Len(B) = u + Len(D) /\ Len(D) \in Nat
      /\ \A i \in 1..u + Len(D) : B[i] = IF i <= u THEN Flat(c)[w][i] ELSE D[i - u]
  <2>1. B = Flat(c)[w] \o D
    BY <1>7 DEF D
  <2>2. /\ Len(B) = Len(Flat(c)[w]) + Len(D)
        /\ \A i \in 1..Len(Flat(c)[w]) + Len(D) : B[i] = IF i <= Len(Flat(c)[w]) THEN Flat(c)[w][i] ELSE D[i - Len(Flat(c)[w])]
    BY <1>8, <2>1, ConcatProperties DEF ByteSeq
  <2>3. Len(D) \in Nat
    BY <1>8, LenProperties DEF ByteSeq
  <2> QED BY <1>8, <2>2, <2>3
<1> DEFINE g == f + n - u
           b == a + n
<1>a. u \in Nat /\ g \in Nat /\ b \in Nat /\ l - n \in Nat /\ Len(D) = g + (l - n) /\ b + (l - n) = a + l
  <2> DEFINE e == Len(D)
  <2>1. /\ f \in Nat /\ l \in Nat /\ a \in Nat /\ n \in Nat /\ n <= l /\ u \in Nat /\ u <= f + n /\ e \in Nat
        /\ f + l = u + e
    BY <1>1, <1>3, <1>6, <1>9 DEF u
  <2> HIDE DEF e
  <2>2. u \in Nat /\ g \in Nat /\ b \in Nat /\ l - n \in Nat /\ e = g + (l - n) /\ b + (l - n) = a + l
    BY ONLY <2>1
  <2> QED BY <2>2 DEF e
<1>b. ASSUME NEW i \in 1..l - n PROVE D[g + i] = b + i - 1
  <2>1. n + i \in 1..l /\ f + (n + i) = u + (g + i) /\ u + (g + i) \in 1..u + Len(D) /\ ~(u + (g + i) <= u)
        /\ (u + (g + i)) - u = g + i /\ b + i - 1 = a + (n + i) - 1
    BY <1>1, <1>a
  <2>2. B[f + (n + i)] = a + (n + i) - 1
    BY <1>3, <2>1
  <2>3. B[u + (g + i)] = D[g + i]
    BY <1>9, <2>1
  <2> QED BY <2>1, <2>2, <2>3
<1>c. /\ q \in PsRec /\ q.chunks = d /\ q.front = g /\ q.len = l - n /\ q.start = b /\ q.size = ps.size
      /\ SameBut(ps, q, {"chunks", "front", "len", "start"})
  <2>1. q = [ps EXCEPT !.chunks = d, !.front = g, !.len = l - n, !.start = b]
    BY <1>4 DEF u
  <2>2. g \in Nat /\ l - n \in Nat /\ b \in Nat
    BY <1>a
  <2> HIDE DEF g, b
  <2> QED BY <1>7, <2>1, <2>2 DEF PsRec, SameBut
<1> HIDE DEF g, b
<1>d. BufEnd(q) = a + l
  BY <1>a, <1>c DEF BufEnd
<1>e. BufOK(q)
  BY <1>3, <1>a, <1>b, <1>c, <1>d DEF BufOK, D
<1>f. BufEnd(ps) = a + l
  BY DEF BufEnd, a, l
<1>g. q.len = ps.len - n /\ q.start = ps.start + n
  BY <1>c DEF l, b, a
<1> QED BY <1>c, <1>d, <1>e, <1>f, <1>g

Numbers(ps) == /\ ps.size \in Nat /\ ps.len \in Nat /\ ps.front \in Nat /\ ps.start \in Nat /\ ps.seekStart \in Nat
               /\ ps.window \in InitialWindow..MaxWindow /\ ps.stream.open \in BOOLEAN /\ ps.stream.pos \in Nat
LEMMA PsNumbers == ASSUME NEW ps \in PsRec PROVE Numbers(ps)
  BY DEF PsRec, StreamRec, Numbers

LEMMA BufSame ==
    ASSUME NEW p, NEW q, BufOK(p), q.chunks = p.chunks, q.front = p.front, q.len = p.len, q.start = p.start, q.size = p.size
    PROVE  BufOK(q)
  BY DEF BufOK, BufEnd
LEMMA SeekSame ==
    ASSUME NEW p, NEW q, SeekOK(p), q.seek = p.seek, q.seekStart = p.seekStart, q.size = p.size
    PROVE  SeekOK(q)
  BY DEF SeekOK, SeekEnd

PastWindow(s, w) == IF Len(s) > w THEN Len(s) - w ELSE 0

Windowed(b, z, w, s, x) ==
    x \in Nat /\ b + x <= z /\ z - (b + x) <= w /\ Part(s, x + 1, Len(s)) = Bytes(b + x, z)

\* The last bytes of a part of the file.
LEMMA WindowOver ==
    ASSUME NEW b \in Nat, NEW z \in Nat, b <= z, NEW w \in Nat,
           NEW s, s = Bytes(b, z), NEW x, x = PastWindow(s, w)
    PROVE  Windowed(b, z, w, s, x)
<1>1. b <= z /\ s = Bytes(b, z)
  OBVIOUS
<1> DEFINE m == z - b
<1>2. Len(s) = m
  BY <1>1, BytesIs
<1>3. m \in Nat /\ b + m = z
  BY <1>1
<1> HIDE DEF m
<1>4. x = IF m > w THEN m - w ELSE 0
  BY <1>2 DEF PastWindow
<1>5. x \in Nat /\ x <= m
  BY ONLY <1>3, <1>4, w \in Nat
<1>6. b + x <= z /\ z - (b + x) <= w
  BY ONLY <1>3, <1>4, w \in Nat, b \in Nat
<1> DEFINE k == x + 1
<1>7. k \in Nat /\ 1 <= k /\ k <= m + 1 /\ b + k - 1 = b + x
  BY ONLY <1>5, <1>3, b \in Nat
<1> HIDE DEF k
<1>8. m <= z - b
  BY ONLY <1>3, z \in Nat, b \in Nat
<1>9. Part(Bytes(b, z), k, m) = Bytes(b + k - 1, b + m)
  <2>1. b \in Nat /\ z \in Nat /\ b <= z /\ k \in Nat /\ m \in Nat /\ 1 <= k /\ k <= m + 1 /\ m <= z - b
    BY <1>1, <1>3, <1>7, <1>8
  <2> QED BY ONLY <2>1, BytesPart
<1>a. Part(s, k, Len(s)) = Bytes(b + x, z)
  BY ONLY <1>1, <1>2, <1>3, <1>7, <1>9
<1> QED BY <1>5, <1>6, <1>a DEF k, Windowed

Reseated(ps, t, x) == [ps EXCEPT !.seek = t, !.seekStart = x]

\* A new seek window with the right bytes.
LEMMA Reseek ==
    ASSUME NEW ps \in PsRec, BufOK(ps), NEW x \in Nat, NEW y \in Nat, x <= y, y - x <= SeekWindow, y <= ps.size,
           NEW t, t = Bytes(x, y), NEW q, q = Reseated(ps, t, x)
    PROVE  PsOK(q) /\ SeekEnd(q) = y /\ SameBut(ps, q, {"seek", "seekStart"})
<1>1. t \in ByteSeq /\ Len(t) = y - x
  BY BytesIs
<1>3. q \in PsRec /\ q.seek = t /\ q.seekStart = x /\ q.size = ps.size /\ SameBut(ps, q, {"seek", "seekStart"})
  BY <1>1 DEF PsRec, SameBut, Reseated
<1>4. BufOK(q)
  <2>1. q.chunks = ps.chunks /\ q.front = ps.front /\ q.len = ps.len /\ q.start = ps.start
    BY DEF PsRec, Reseated
  <2> QED BY <1>3, <2>1, BufSame
<1>5. SeekEnd(q) = y
  <2>1. Len(t) = y - x
    BY <1>1
  <2>2. x + (y - x) = y
    OBVIOUS
  <2> QED BY <1>3, <2>1, <2>2 DEF SeekEnd
<1>6. SeekOK(q)
  <2>1. Len(q.seek) = y - x
    BY <1>1, <1>3
  <2>2. q.seek = Bytes(q.seekStart, SeekEnd(q))
    BY <1>3, <1>5
  <2> QED BY <1>3, <1>5, <2>1, <2>2 DEF SeekOK
<1> QED BY <1>3, <1>4, <1>5, <1>6 DEF PsOK

LEMMA LeastIs == ASSUME NEW a \in Nat, NEW b \in Nat
                 PROVE Least(a, b) \in Nat /\ Least(a, b) <= a /\ Least(a, b) <= b /\ Least(a, b) \in {a, b}
  BY DEF Least
LEMMA MostIs == ASSUME NEW a \in Nat, NEW b \in Nat
                PROVE Most(a, b) \in Nat /\ Most(a, b) >= a /\ Most(a, b) >= b
  BY DEF Most

Drained == {"chunks", "front", "len", "start", "seek", "seekStart"}
LEMMA DrainKeeps ==
    ASSUME NEW ps, PsOK(ps), NEW consumed \in Nat, NEW q, q = DrainToSeek(ps, consumed)
    PROVE  /\ PsOK(q) /\ q.start = ps.start + Least(consumed, ps.len) /\ q.len = ps.len - Least(consumed, ps.len)
           /\ BufEnd(q) = BufEnd(ps) /\ SameBut(ps, q, Drained)
<1> DEFINE n == Least(consumed, ps.len)
           follows == ps.seek # <<>> /\ SeekEnd(ps) = ps.start /\ n <= SeekWindow
           keep == Least(n, SeekWindow)
           appended == ps.seek \o ReadChunkRange(ps, 0, n)
           excess == IF Len(appended) > SeekWindow THEN Len(appended) - SeekWindow ELSE 0
           moved == IF ps.forwardOnly THEN ps
                    ELSE IF follows
                    THEN [ps EXCEPT !.seek = SubSeq(appended, excess + 1, Len(appended)), !.seekStart = @ + excess]
                    ELSE [ps EXCEPT !.seek = ReadChunkRange(ps, n - keep, keep), !.seekStart = ps.start + n - keep]
           a == ps.start
           size == ps.size
<1>1. ps \in PsRec /\ BufOK(ps) /\ SeekOK(ps) /\ Numbers(ps)
  BY PsNumbers DEF PsOK
<1>2. n \in Nat /\ n <= ps.len /\ a \in Nat /\ size \in Nat /\ a + n <= size /\ SeekWindow \in Nat \ {0}
  <2>1. n \in Nat /\ n <= ps.len
    BY <1>1, LeastIs DEF Numbers
  <2>2. ps.start + ps.len <= ps.size
    BY <1>1 DEF BufOK, BufEnd
  <2> QED BY <1>1, <2>1, <2>2, WindowAssumption DEF Numbers
<1>3. q = IF n = 0 THEN ps ELSE PopFront(moved, n)
  BY DEF DrainToSeek
<1> HIDE DEF n
<1>4. CASE n = 0
  <2>1. q = ps
    BY <1>3, <1>4
  <2>2. ps.start + n = ps.start /\ ps.len - n = ps.len
    BY <1>1, <1>4 DEF Numbers
  <2> QED BY <2>1, <2>2 DEF SameBut, n
<1>5. PsOK(moved) /\ SameBut(ps, moved, {"seek", "seekStart"})
  <2>1. CASE ps.forwardOnly
    BY <2>1 DEF SameBut
  <2>2. CASE ~ps.forwardOnly /\ follows
    <3> DEFINE b == ps.seekStart
               e == b + excess
    <3>1. ps.seek = Bytes(b, a) /\ b \in Nat /\ b <= a /\ Len(ps.seek) = a - b
      <4> DEFINE l == Len(ps.seek)
      <4>1. ps.seek = Bytes(b, SeekEnd(ps)) /\ SeekEnd(ps) = b + l
        BY <1>1 DEF SeekOK, SeekEnd
      <4>2. l \in Nat /\ b \in Nat /\ SeekEnd(ps) = a
        BY <1>1, <2>2, LenProperties DEF PsRec, ByteSeq
      <4> HIDE DEF l, a, b
      <4>3. b <= a /\ l = a - b
        BY ONLY <4>1, <4>2
      <4>4. ps.seek = Bytes(b, a)
        BY ONLY <4>1, <4>2
      <4> QED BY <4>2, <4>3, <4>4 DEF l
    <3>2. ReadChunkRange(ps, 0, n) = Bytes(a, a + n)
      <4>1. 0 + n <= ps.len /\ ps.start + 0 = a /\ ps.start + 0 + n = a + n
        BY <1>1, <1>2 DEF Numbers
      <4>2. ReadChunkRange(ps, 0, n) = Bytes(ps.start + 0, ps.start + 0 + n)
        BY <1>1, <1>2, <4>1, RangeIs
      <4> QED BY <4>1, <4>2
    <3> DEFINE z == a + n
               t == SubSeq(appended, excess + 1, Len(appended))
    <3>3. z \in Nat /\ a <= z /\ z <= size
      BY ONLY <1>2
    <3>4. appended = Bytes(b, a) \o Bytes(a, z)
      BY <3>1, <3>2
    <3>5. moved = Reseated(ps, t, e)
      BY <2>2 DEF Reseated
    <3> HIDE DEF b, z, moved, appended
    <3>6. excess \in Nat /\ e <= z /\ z - e <= SeekWindow /\ t = Bytes(e, z)
      <4>8. b \in Nat /\ z \in Nat /\ b <= a /\ a <= z /\ a \in Nat
        BY <1>2, <3>1, <3>3
      <4>9. b <= z
        BY ONLY <4>8
      <4>0. Bytes(b, a) \o Bytes(a, z) = Bytes(b, z)
        BY ONLY <4>8, BytesJoin
      <4>1. /\ b \in Nat /\ z \in Nat /\ b <= z /\ SeekWindow \in Nat /\ appended = Bytes(b, z)
            /\ excess = PastWindow(appended, SeekWindow)
        BY <1>2, <3>4, <4>0, <4>8, <4>9 DEF PastWindow
      <4> HIDE DEF excess, a
      <4>2. Windowed(b, z, SeekWindow, appended, excess)
        BY ONLY <4>1, WindowOver
      <4>3. t = Part(appended, excess + 1, Len(appended))
        BY DEF Part
      <4> QED BY <4>2, <4>3 DEF Windowed
    <3>7. e \in Nat
      BY <3>1, <3>6
    <3> HIDE DEF t, e, excess
    <3>8. z <= ps.size
      BY <3>3
    <3> HIDE DEF size
    <3>9. PsOK(moved) /\ SeekEnd(moved) = z /\ SameBut(ps, moved, {"seek", "seekStart"})
      BY ONLY <1>1, <3>3, <3>5, <3>6, <3>7, <3>8, Reseek
    <3> QED BY <3>9
  <2>3. CASE ~ps.forwardOnly /\ ~follows
    <3> DEFINE x == a + n - keep
    <3>1. keep \in Nat /\ keep <= n /\ keep <= SeekWindow
      BY <1>2, LeastIs
    <3> HIDE DEF keep
    <3>2. n - keep \in Nat /\ x \in Nat /\ x <= a + n /\ (a + n) - x <= SeekWindow /\ (n - keep) + keep <= ps.len
          /\ a + (n - keep) = x /\ a + (n - keep) + keep = a + n /\ a + n \in Nat
      BY <1>1, <1>2, <3>1 DEF Numbers
    <3>3. ReadChunkRange(ps, n - keep, keep) = Bytes(x, a + n)
      <4>1. ReadChunkRange(ps, n - keep, keep) = Bytes(a + (n - keep), a + (n - keep) + keep)
        BY <1>1, <3>1, <3>2, RangeIs
      <4> QED BY <3>2, <4>1
    <3> DEFINE t == ReadChunkRange(ps, n - keep, keep)
               z == a + n
    <3>4. moved = Reseated(ps, t, x)
      BY <2>3 DEF keep, Reseated
    <3>5. z \in Nat /\ z <= ps.size /\ x <= z /\ z - x <= SeekWindow /\ x \in Nat /\ t = Bytes(x, z)
      BY <1>2, <3>2, <3>3
    <3> HIDE DEF x, z, t, moved
    <3>6. PsOK(moved) /\ SeekEnd(moved) = z /\ SameBut(ps, moved, {"seek", "seekStart"})
      BY ONLY <1>1, <3>4, <3>5, Reseek
    <3> QED BY <3>6
  <2> QED BY <2>1, <2>2, <2>3
<1> HIDE DEF moved
<1>6. CASE n # 0
  <2>1. q = PopFront(moved, n) /\ moved \in PsRec /\ BufOK(moved) /\ SeekOK(moved)
    BY <1>3, <1>5, <1>6 DEF PsOK
  <2>2. moved.len = ps.len /\ moved.start = ps.start
    BY <1>1, <1>5 DEF SameBut, PsRec
  <2>3. /\ q \in PsRec /\ BufOK(q) /\ q.len = moved.len - n /\ q.start = moved.start + n /\ BufEnd(q) = BufEnd(moved)
        /\ SameBut(moved, q, {"chunks", "front", "len", "start"})
    BY <1>2, <2>1, <2>2, PopFrontKeeps
  <2>4. SeekOK(q)
    <3>1. q.seek = moved.seek /\ q.seekStart = moved.seekStart /\ q.size = moved.size
      BY <2>1, <2>3 DEF SameBut, PsRec
    <3> QED BY <2>1, <3>1, SeekSame
  <2>5. BufEnd(q) = BufEnd(ps) /\ q.start = ps.start + n /\ q.len = ps.len - n
    BY <2>2, <2>3 DEF BufEnd
  <2>6. SameBut(ps, q, Drained)
    BY <1>1, <1>5, <2>1, <2>3 DEF SameBut, PsRec, Drained
  <2> QED BY <2>3, <2>4, <2>5, <2>6 DEF PsOK, n
<1> QED BY <1>4, <1>6

\* What a read took from memory: the bytes at the offset, not more than asked
\* for and none past the end of the file.
DataIs(data, offset, n, size) ==
    /\ data \in ByteSeq /\ Len(data) <= n /\ offset + Len(data) <= size
    /\ data = Bytes(offset, offset + Len(data))
LEMMA NoBytes == ASSUME NEW a \in Nat PROVE Bytes(a, a) = <<>>
<1>0. a <= a /\ a - a = 0
  OBVIOUS
<1>1. Bytes(a, a) \in ByteSeq /\ Len(Bytes(a, a)) = a - a
  BY ONLY <1>0, a \in Nat, BytesIs
<1> QED BY <1>0, <1>1, EmptySeq DEF ByteSeq
LEMMA NoData == ASSUME NEW offset \in Nat, NEW n \in Nat, NEW size \in Nat, offset <= size
                PROVE  DataIs(<<>>, offset, n, size)
<1>1. <<>> \in ByteSeq /\ Len(<<>>) = 0
  BY EmptySeq DEF ByteSeq
<1>3. Bytes(offset, offset) = <<>>
  BY NoBytes
<1>4. offset + Len(<<>>) = offset
  BY <1>1
<1> QED BY <1>1, <1>3, <1>4 DEF DataIs
LEMMA SomeData == ASSUME NEW offset \in Nat, NEW n \in Nat, NEW size \in Nat, NEW k \in Nat, k <= n, offset + k <= size
                  PROVE  DataIs(Bytes(offset, offset + k), offset, n, size)
<1> DEFINE y == offset + k
<1>1. y \in Nat /\ offset <= y /\ y - offset = k
  OBVIOUS
<1> HIDE DEF y
<1>2. Bytes(offset, y) \in ByteSeq /\ Len(Bytes(offset, y)) = k
  BY <1>1, BytesIs
<1> QED BY <1>2 DEF DataIs, y

Served(ps, offset, n, hit) ==
    /\ PsOK(hit.ps) /\ BufEnd(hit.ps) = BufEnd(ps) /\ SameBut(ps, hit.ps, Drained)
    /\ DataIs(hit.data, offset, n, ps.size)
LEMMA ForwardServes ==
    ASSUME NEW ps, PsOK(ps), NEW offset \in Nat, offset <= ps.size, NEW n \in Nat,
           NEW hit, hit = ServeForward(ps, offset, n)
    PROVE  Served(ps, offset, n, hit)
<1> DEFINE a == ps.start
           l == ps.len
           size == ps.size
           skip == offset - a
           count == Least(n, l - skip)
<1>1. ps \in PsRec /\ BufOK(ps) /\ Numbers(ps)
  BY PsNumbers DEF PsOK
<1>2. a \in Nat /\ l \in Nat /\ size \in Nat /\ a + l <= size /\ BufEnd(ps) = a + l
  BY <1>1 DEF Numbers, BufOK, BufEnd
<1>3. CASE offset < a \/ offset >= BufEnd(ps)
  <2>1. hit = [data |-> <<>>, ps |-> ps]
    BY <1>3 DEF ServeForward
  <2>2. DataIs(<<>>, offset, n, size)
    BY <1>2, NoData
  <2> QED BY <2>1, <2>2 DEF Served, SameBut
<1>4. CASE ~(offset < a \/ offset >= BufEnd(ps))
  <2>1. hit = [data |-> ReadChunkRange(ps, skip, count), ps |-> IF ps.forwardOnly THEN DrainToSeek(ps, skip + count) ELSE ps]
    BY <1>4 DEF ServeForward
  <2> HIDE DEF a, l
  <2>2. skip \in Nat /\ a + skip = offset /\ l - skip \in Nat
    BY <1>2, <1>4
  <2> HIDE DEF skip
  <2>3. count \in Nat /\ count <= n /\ count <= l - skip
    BY <2>2, LeastIs
  <2> HIDE DEF count
  <2>4. skip + count \in Nat /\ skip + count <= l /\ a + skip + count = offset + count /\ offset + count <= size
    BY <1>2, <2>2, <2>3
  <2>5. ReadChunkRange(ps, skip, count) = Bytes(offset, offset + count)
    <3>1. skip + count <= ps.len
      BY <2>4 DEF l
    <3>2. ReadChunkRange(ps, skip, count) = Bytes(ps.start + skip, ps.start + skip + count)
      BY ONLY <1>1, <2>2, <2>3, <3>1, RangeIs
    <3> QED BY <2>2, <2>4, <3>2 DEF a
  <2>6. DataIs(Bytes(offset, offset + count), offset, n, size)
    BY <1>2, <2>3, <2>4, SomeData
  <2>7. hit.data = Bytes(offset, offset + count) /\ hit.ps = IF ps.forwardOnly THEN DrainToSeek(ps, skip + count) ELSE ps
    BY <2>1, <2>5
  <2>8. PsOK(hit.ps) /\ BufEnd(hit.ps) = BufEnd(ps) /\ SameBut(ps, hit.ps, Drained)
    <3>1. CASE ps.forwardOnly
      <4>1. hit.ps = DrainToSeek(ps, skip + count)
        BY <2>7, <3>1
      <4> QED BY <2>4, <4>1, DrainKeeps
    <3>2. CASE ~ps.forwardOnly
      BY <2>7, <3>2 DEF SameBut
    <3> QED BY <3>1, <3>2
  <2> QED BY <2>6, <2>7, <2>8 DEF Served
<1> QED BY <1>3, <1>4

LEMMA SeekServes ==
    ASSUME NEW ps, PsOK(ps), NEW offset \in Nat, offset <= ps.size, NEW n \in Nat
    PROVE  DataIs(ServeSeek(ps, offset, n), offset, n, ps.size)
<1> DEFINE b == ps.seekStart
           L == Len(ps.seek)
           size == ps.size
           data == ServeSeek(ps, offset, n)
<1>1. ps \in PsRec /\ SeekOK(ps) /\ Numbers(ps)
  BY PsNumbers DEF PsOK
<1>2. b \in Nat /\ L \in Nat /\ size \in Nat /\ b + L <= size /\ SeekEnd(ps) = b + L /\ ps.seek = Bytes(b, b + L)
  BY <1>1, LenProperties DEF Numbers, SeekOK, SeekEnd, PsRec, ByteSeq
<1>3. CASE ps.forwardOnly \/ offset < b \/ offset >= SeekEnd(ps)
  <2>1. data = <<>>
    BY <1>3 DEF ServeSeek
  <2> QED BY <1>2, <2>1, NoData
<1>4. CASE ~(ps.forwardOnly \/ offset < b \/ offset >= SeekEnd(ps))
  <2> DEFINE m == offset - b + 1
             e == Least(offset - b + n, L)
             k == b + e - offset
             z == b + L
  <2>1. data = Part(ps.seek, m, e)
    BY <1>4 DEF ServeSeek, Part
  <2> HIDE DEF b, L, data
  <2>2. m \in Nat /\ 1 <= m /\ b + m - 1 = offset /\ offset - b + n \in Nat /\ m <= L /\ z \in Nat /\ b <= z /\ z - b = L
    BY <1>2, <1>4
  <2>3. e \in Nat /\ e <= offset - b + n /\ e <= L /\ e \in {offset - b + n, L}
    BY <1>2, <2>2, LeastIs
  <2> HIDE DEF m, e
  <2>4. m <= e + 1 /\ e <= z - b /\ k \in Nat /\ k <= n /\ offset + k <= size /\ b + e = offset + k
    <3>1. offset \in Nat /\ n \in Nat /\ b \in Nat /\ size \in Nat /\ L \in Nat /\ z - b = L /\ b + L <= size /\ offset < b + L /\ offset >= b
      BY <1>2, <1>4, <2>2
    <3>2. m = offset - b + 1
      BY DEF m
    <3> HIDE DEF z, size
    <3> QED BY ONLY <2>3, <3>1, <3>2
  <2> HIDE DEF z, k
  <2>5. Part(Bytes(b, z), m, e) = Bytes(b + m - 1, b + e)
    BY ONLY <1>2, <2>2, <2>3, <2>4, BytesPart
  <2>6. data = Bytes(offset, offset + k)
    BY <1>2, <2>1, <2>2, <2>4, <2>5 DEF z
  <2>7. DataIs(Bytes(offset, offset + k), offset, n, size)
    BY <1>2, <2>4, SomeData
  <2> QED BY <2>6, <2>7 DEF data
<1> QED BY <1>3, <1>4

\* What a miss decides: the buffers stay right, a stream that is kept goes on
\* at the offset, and there is something to fetch that the file has.
Planned(ps, offset, plan) ==
    /\ PsOK(plan.ps) /\ plan.ps.size = ps.size
    /\ plan.ps.stream.open => plan.ps.stream.pos = offset /\ plan.strategy \in {"start", "continue"}
    /\ plan.strategy \in {"start", "continue", "range"}
    /\ plan.size \in 1..ps.size - offset
LEMMA MissPlans ==
    ASSUME NEW ps, PsOK(ps), StreamFollows(ps), NEW offset \in Nat, offset < ps.size, NEW n \in Nat, n # 0,
           NEW plan, plan = PrepareFetch(ps, offset, n)
    PROVE  Planned(ps, offset, plan)
<1> DEFINE first == ps.len = 0 /\ ps.start = 0
           near == offset >= BufEnd(ps) /\ offset <= BufEnd(ps) + ForwardSkip
           drained == IF offset >= ps.start THEN DrainToSeek(ps, ps.len) ELSE ps
           joins == (first \/ near) /\ offset = drained.start
           strategy == IF ~(first \/ near) THEN "range"
                       ELSE IF joins /\ ~(first /\ ~ps.stream.open /\ offset = 0) THEN "continue" ELSE "start"
           window == IF first THEN ps.window
                     ELSE IF near THEN Least(2 * ps.window, MaxWindow) ELSE InitialWindow
           needed == Least(n, ps.size - offset)
           stream == IF joins THEN drained.stream ELSE NoStream
           want == IF strategy = "range" THEN needed ELSE Most(needed, window)
           size == Least(want, ps.size - offset)
<1>1. ps \in PsRec /\ BufOK(ps) /\ SeekOK(ps) /\ Numbers(ps)
  BY PsNumbers DEF PsOK
<1>2. plan = [ps |-> [drained EXCEPT !.window = window, !.stream = stream], strategy |-> strategy, size |-> size]
  BY DEF PrepareFetch
<1>3. window \in InitialWindow..MaxWindow /\ window \in Nat
  <2>1. ps.window \in InitialWindow..MaxWindow
    BY <1>1 DEF Numbers
  <2>2. Least(2 * ps.window, MaxWindow) \in InitialWindow..MaxWindow
    <3> DEFINE w == ps.window
    <3>1. w \in InitialWindow..MaxWindow /\ InitialWindow \in Nat /\ MaxWindow \in Nat
      BY <2>1, WindowAssumption
    <3> DEFINE v == 2 * w
    <3>2. v \in Nat /\ w <= v
      BY <3>1
    <3> HIDE DEF v
    <3>3. Least(v, MaxWindow) \in {v, MaxWindow} /\ Least(v, MaxWindow) <= MaxWindow
      BY <3>1, <3>2, LeastIs
    <3>4. Least(v, MaxWindow) \in InitialWindow..MaxWindow
      BY <3>1, <3>2, <3>3, WindowAssumption
    <3> QED BY <3>4 DEF v, w
  <2>3. InitialWindow \in InitialWindow..MaxWindow /\ InitialWindow \in Nat /\ MaxWindow \in Nat
    BY WindowAssumption
  <2>4. window \in InitialWindow..MaxWindow
    BY <2>1, <2>2, <2>3
  <2> HIDE DEF window
  <2> QED BY <2>3, <2>4
<1> HIDE DEF window
<1>4. size \in 1..ps.size - offset
  <2> DEFINE rest == ps.size - offset
  <2>1. rest \in Nat /\ rest >= 1 /\ n >= 1
    BY <1>1 DEF Numbers
  <2> HIDE DEF rest, strategy
  <2>2. Least(n, rest) \in Nat /\ Least(n, rest) >= 1
    BY <2>1, LeastIs
  <2>3. Most(Least(n, rest), window) \in Nat /\ Most(Least(n, rest), window) >= 1
    BY <1>3, <2>2 DEF Most
  <2>4. needed = Least(n, rest) /\ size = Least(want, rest)
    BY DEF rest
  <2>5. want \in Nat /\ want >= 1
    BY <2>2, <2>3, <2>4
  <2> HIDE DEF want, size
  <2>6. size \in 1..rest
    BY <2>1, <2>4, <2>5 DEF Least
  <2> QED BY <2>6 DEF rest
<1>5. strategy \in {"start", "continue", "range"} /\ (joins => strategy \in {"start", "continue"})
  OBVIOUS
<1>6. /\ PsOK(drained) /\ drained.size = ps.size /\ drained.stream = ps.stream
      /\ offset >= ps.start => drained.start = BufEnd(ps)
  <2>1. CASE offset >= ps.start
    <3>1. drained = DrainToSeek(ps, ps.len) /\ ps.len \in Nat
      BY <1>1, <2>1 DEF Numbers
    <3>2. /\ PsOK(drained) /\ drained.start = ps.start + Least(ps.len, ps.len) /\ SameBut(ps, drained, Drained)
      BY <3>1, DrainKeeps
    <3>3. Least(ps.len, ps.len) = ps.len
      BY DEF Least
    <3>4. drained.size = ps.size /\ drained.stream = ps.stream
      BY <1>1, <3>2 DEF SameBut, PsRec, Drained
    <3> QED BY <3>2, <3>3, <3>4 DEF BufEnd
  <2>2. CASE ~(offset >= ps.start)
    BY <2>2
  <2> QED BY <2>1, <2>2
<1>7. joins => offset = BufEnd(ps)
  <2>1. SUFFICES ASSUME joins PROVE offset = BufEnd(ps)
    OBVIOUS
  <2>2. offset >= ps.start
    <3>1. ps.start \in Nat /\ ps.len \in Nat /\ BufEnd(ps) = ps.start + ps.len
      BY <1>1 DEF Numbers, BufEnd
    <3>2. first \/ near
      BY <2>1
    <3> QED BY <3>1, <3>2
  <2> QED BY <1>6, <2>1, <2>2
<1>8. stream \in StreamRec /\ (stream.open => joins /\ stream.pos = offset)
  <2>1. CASE joins
    <3>1. stream = ps.stream /\ ps.stream \in StreamRec
      BY <1>1, <1>6, <2>1 DEF PsRec
    <3>2. ps.stream.open => ps.stream.pos = offset
      BY <1>7, <2>1 DEF StreamFollows
    <3> QED BY <2>1, <3>1, <3>2
  <2>2. CASE ~joins
    <3>1. stream = NoStream
      BY <2>2
    <3>2. NoStream \in StreamRec /\ NoStream.open = FALSE
      BY DEF NoStream, StreamRec
    <3> HIDE DEF stream
    <3> QED BY <3>1, <3>2
  <2> QED BY <2>1, <2>2
<1> HIDE DEF drained, joins, strategy, stream, size
<1> DEFINE q == [drained EXCEPT !.window = window, !.stream = stream]
<1>9. plan.ps = q /\ plan.strategy = strategy /\ plan.size = size
  BY <1>2
<1>a. PsOK(q) /\ q.size = drained.size /\ q.stream = stream
  <2>1. drained \in PsRec /\ BufOK(drained) /\ SeekOK(drained)
    BY <1>6 DEF PsOK
  <2>2. /\ q \in PsRec /\ q.stream = stream /\ q.chunks = drained.chunks /\ q.front = drained.front /\ q.len = drained.len
        /\ q.start = drained.start /\ q.size = drained.size /\ q.seek = drained.seek /\ q.seekStart = drained.seekStart
    BY <1>3, <1>8, <2>1 DEF PsRec
  <2> HIDE DEF q
  <2>3. BufOK(q)
    BY <2>1, <2>2, BufSame
  <2>4. SeekOK(q)
    BY <2>1, <2>2, SeekSame
  <2> QED BY <2>2, <2>3, <2>4 DEF PsOK
<1> QED BY <1>4, <1>5, <1>6, <1>8, <1>9, <1>a DEF Planned

\* What was fetched becomes the buffer.
LEMMA StoredIs ==
    ASSUME NEW ps, PsOK(ps), NEW from \in Nat, NEW to \in Nat, from <= to, to <= ps.size,
           NEW c \in Seq(ByteSeq), FlattenSeq(c) = Bytes(from, to), NEW q, q = StoreFetched(ps, from, c)
    PROVE  PsOK(q) /\ BufEnd(q) = to /\ q.size = ps.size /\ q.stream = ps.stream
<1> DEFINE B == FlattenSeq(c)
           l == Len(B)
<1>1. B \in ByteSeq /\ l = to - from /\ l \in Nat /\ \A i \in 1..l : B[i] = from + i - 1
  <2>1. Bytes(from, to) \in ByteSeq /\ Len(Bytes(from, to)) = to - from
    BY BytesIs
  <2>3. to - from \in Nat
    BY ONLY from \in Nat, to \in Nat, from <= to
  <2>2. \A i \in 1..Len(Bytes(from, to)) : Bytes(from, to)[i] = from + i - 1
    BY BytesIs
  <2> QED BY <2>1, <2>2, <2>3
<1>2. q = [ps EXCEPT !.chunks = c, !.len = l, !.front = 0, !.start = from]
  BY DEF StoreFetched
<1>3. FlattenSeq(c) = B
  OBVIOUS
<1> HIDE DEF B, l
<1>4. ps \in PsRec /\ SeekOK(ps)
  BY DEF PsOK
<1>5. /\ q \in PsRec /\ q.chunks = c /\ q.len = l /\ q.front = 0 /\ q.start = from /\ q.size = ps.size
      /\ q.seek = ps.seek /\ q.seekStart = ps.seekStart /\ q.stream = ps.stream
  <2>1. ps \in PsRec /\ c \in Seq(ByteSeq) /\ l \in Nat /\ from \in Nat
    BY <1>1, <1>4
  <2> QED BY ONLY <1>2, <2>1 DEF PsRec
<1>6. BufEnd(q) = to
  BY <1>1, <1>5 DEF BufEnd
<1>7. BufOK(q)
  <2>1. Len(FlattenSeq(q.chunks)) = q.front + q.len
    BY <1>1, <1>3, <1>5 DEF l
  <2>2. ASSUME NEW i \in 1..q.len PROVE FlattenSeq(q.chunks)[q.front + i] = q.start + i - 1
    <3>1. i \in 1..l /\ 0 + i = i
      BY <1>1, <1>5
    <3> QED BY <1>1, <1>3, <1>5, <3>1
  <2>3. BufEnd(q) <= q.size
    BY <1>5, <1>6
  <2> QED BY <2>1, <2>2, <2>3 DEF BufOK
<1>8. SeekOK(q)
  BY <1>4, <1>5, SeekSame
<1> QED BY <1>5, <1>6, <1>7, <1>8 DEF PsOK

-----------------------------------------------------------------------------
(* Chunk after chunk, a stream gives the bytes from where it stands.       *)

Reach(from, width, end, k) == Least(from + k * width, end)
LEMMA ReachIs ==
    ASSUME NEW from \in Nat, NEW width \in Nat, NEW end \in Nat, from <= end, NEW k \in Nat
    PROVE  /\ Reach(from, width, end, k) \in Nat /\ from <= Reach(from, width, end, k)
           /\ Reach(from, width, end, k) <= end
           /\ Reach(from, width, end, k) <= Reach(from, width, end, k + 1)
           /\ Reach(from, width, end, 0) = from
<1> DEFINE d == k * width
           z == (k + 1) * width
<1>1. d \in Nat /\ z = d + width /\ 0 * width = 0
  OBVIOUS
<1>2. Reach(from, width, end, k) = Least(from + d, end) /\ Reach(from, width, end, k + 1) = Least(from + z, end)
  BY DEF Reach
<1>3. Reach(from, width, end, 0) = Least(from + 0, end)
  BY <1>1 DEF Reach
<1> HIDE DEF d, z
<1> QED BY <1>1, <1>2, <1>3 DEF Least

LEMMA ChunksAre ==
    ASSUME NEW x, NEW from \in Nat, Stream(x).pos = from, NEW end \in Nat, StreamEnd(x) = end, from <= end,
           NEW width \in Nat, NEW k \in Nat, NEW c, c = Chunks(x, width, k)
    PROVE  c \in Seq(ByteSeq) /\ FlattenSeq(c) = Bytes(from, Reach(from, width, end, k))
<1> DEFINE to(j) == Reach(from, width, end, j)
           f == Flat(c)
<1>1. c = [j \in 1..k |-> Bytes(to(j - 1), to(j))]
  BY DEF Chunks, Reach
<1>2. \A j \in Nat : to(j) \in Nat /\ from <= to(j) /\ to(j) <= to(j + 1)
  BY ReachIs
<1>3. to(0) = from
  BY ReachIs
<1> HIDE DEF to
<1>4. \A j \in 1..k : to(j - 1) \in Nat /\ to(j) \in Nat /\ to(j - 1) <= to(j)
  <2> SUFFICES ASSUME NEW j \in 1..k PROVE to(j - 1) \in Nat /\ to(j) \in Nat /\ to(j - 1) <= to(j)
    OBVIOUS
  <2>1. j - 1 \in Nat /\ j \in Nat /\ (j - 1) + 1 = j
    OBVIOUS
  <2> QED BY <1>2, <2>1
<1>5. \A j \in 1..k : Bytes(to(j - 1), to(j)) \in ByteSeq
  BY <1>4, BytesIs
<1>6. c \in Seq(ByteSeq) /\ Len(c) = k /\ \A j \in 1..k : c[j] = Bytes(to(j - 1), to(j))
  BY <1>1, <1>5
<1> DEFINE P == {j \in 0..k : f[j] = Bytes(from, to(j))}
<1>7. 0 \in P
  <2>1. f[0] = <<>>
    BY <1>6, FlatZero
  <2>3. Bytes(from, from) = <<>>
    BY ONLY from \in Nat, NoBytes
  <2> QED BY <1>3, <2>1, <2>3
<1>8. ASSUME NEW j \in 0..k - 1, j \in P PROVE j + 1 \in P
  <2>1. j + 1 \in 1..k /\ (j + 1) - 1 = j /\ j \in Nat /\ j + 1 \in 0..k
    OBVIOUS
  <2> DEFINE i == j + 1
  <2> HIDE DEF i
  <2>2. i \in 1..k /\ i - 1 = j /\ i \in 1..Len(c)
    BY <1>6, <2>1 DEF i
  <2>3. f[i] = f[j] \o c[i]
    BY <1>6, <2>2, FlatNext
  <2>4. c[i] = Bytes(to(j), to(i)) /\ f[j] = Bytes(from, to(j))
    BY <1>6, <1>8, <2>2
  <2>5. to(j) \in Nat /\ to(i) \in Nat /\ from <= to(j) /\ to(j) <= to(i)
    BY <1>2, <1>4, <2>1, <2>2
  <2>6. Bytes(from, to(j)) \o Bytes(to(j), to(i)) = Bytes(from, to(i))
    BY ONLY from \in Nat, <2>5, BytesJoin
  <2>7. f[i] = Bytes(from, to(i))
    BY <2>3, <2>4, <2>6
  <2> QED BY <2>1, <2>7 DEF i
<1>9. k \in P
  <2> HIDE DEF P
  <2>1. \A j \in 0..k - 1 : j \in P => j + 1 \in P
    BY <1>8
  <2>2. \A j \in 0..k : j \in P
    BY ONLY <1>7, <2>1, k \in Nat, Induct
  <2> QED BY <2>2
<1>a. FlattenSeq(c) = f[k]
  BY <1>6, FlattenIs
<1> QED BY <1>6, <1>9, <1>a DEF to

\* There is an attempt that ends well, and it has at least one byte.
LEMMA AllChunksAre ==
    ASSUME NEW x, NEW from \in Nat, Stream(x).pos = from, NEW end \in Nat, StreamEnd(x) = end, from < end,
           x.ps.size \in Nat, end <= x.ps.size, x.size \in Nat, x.size # 0, NEW width \in Nat, width # 0
    PROVE  /\ AllChunks(x, width) \in Nat
           /\ Reach(from, width, end, AllChunks(x, width)) > from
<1> DEFINE total(j) == Len(FlattenSeq(Chunks(x, width, j)))
           S == {j \in Nat : total(j) >= x.size \/ from + j * width >= end}
           L == x.ps.size
<1>0. from <= end
  OBVIOUS
<1>r. \A j \in Nat : Reach(from, width, end, j) \in Nat /\ from <= Reach(from, width, end, j)
  BY ONLY <1>0, from \in Nat, width \in Nat, end \in Nat, ReachIs
<1>1. L \in S
  <2>1. L * width >= L
    OBVIOUS
  <2> DEFINE d == L * width
  <2>2. d \in Nat /\ d >= L
    BY <2>1
  <2> HIDE DEF d
  <2>3. from + d >= end
    BY <2>2
  <2> QED BY <2>3 DEF d
<1>2. PICK k \in S : \A j \in S : k <= j
  <2> HIDE DEF S
  <2>1. S \subseteq Nat /\ S # {}
    BY <1>1 DEF S
  <2> QED BY <2>1, LeastOf
<1>3. k \in 0..L
  <2>1. k <= L /\ k \in Nat
    BY <1>1, <1>2
  <2> QED BY <2>1
<1>4. \A j \in Nat : total(j) = Reach(from, width, end, j) - from
  <2> SUFFICES ASSUME NEW j \in Nat PROVE total(j) = Reach(from, width, end, j) - from
    OBVIOUS
  <2> DEFINE to == Reach(from, width, end, j)
             c == Chunks(x, width, j)
  <2>1. to \in Nat /\ from <= to
    BY <1>r
  <2>2. FlattenSeq(c) = Bytes(from, to)
    BY ChunksAre
  <2> HIDE DEF to, c
  <2>3. Len(Bytes(from, to)) = to - from
    BY <2>1, BytesIs
  <2> QED BY <2>2, <2>3 DEF to, c
<1> HIDE DEF total
<1>5. \A j \in 0..k - 1 : total(j) < x.size /\ from + j * width < end
  <2> SUFFICES ASSUME NEW j \in 0..k - 1 PROVE total(j) < x.size /\ from + j * width < end
    OBVIOUS
  <2>1. j \in Nat /\ ~(k <= j)
    BY <1>3
  <2>2. j \notin S
    BY <1>2, <2>1
  <2> DEFINE d == j * width
             to == Reach(from, width, end, j)
  <2>3. ~(total(j) >= x.size) /\ ~(from + d >= end) /\ total(j) = to - from
    BY <1>4, <2>1, <2>2
  <2>4. d \in Nat /\ to \in Nat
    BY <1>r, <2>1
  <2> HIDE DEF d, to
  <2>5. total(j) < x.size /\ from + d < end
    BY <2>3, <2>4
  <2> QED BY <2>5 DEF d
<1> DEFINE Ends(i) == /\ total(i) >= x.size \/ from + i * width >= end
                      /\ \A j \in 0..i - 1 : total(j) < x.size /\ from + j * width < end
           K == AllChunks(x, width)
<1>6. K = CHOOSE i \in 0..L : Ends(i)
  BY DEF AllChunks, total
<1>7. Ends(k)
  BY <1>2, <1>5
<1> HIDE DEF Ends, K
<1>8. K \in 0..L /\ Ends(K)
  BY <1>3, <1>6, <1>7
<1>9. total(K) >= x.size \/ from + K * width >= end
  BY <1>8 DEF Ends
<1> DEFINE d == K * width
           to == Reach(from, width, end, K)
<1>a. K \in Nat /\ total(K) = to - from /\ to = Least(from + d, end)
  BY <1>4, <1>8 DEF Reach
<1>b. d \in Nat
  BY <1>a
<1>c. total(K) >= x.size \/ from + d >= end
  BY <1>9
<1> HIDE DEF d, to
<1>d. to > from
  BY <1>a, <1>b, <1>c DEF Least
<1> QED BY <1>a, <1>d DEF K, to

-----------------------------------------------------------------------------
(* The inductive invariant: what is right at every point of a read.        *)

NoHash == CHOOSE h \in Hash : TRUE
ReaderRec == [pc : {"closed", "opening", "open", "fetch", "plan", "answered", "failed"}, h : Hash \cup {NoHash}, ps : PsRec,
              offset : Nat, n : Nat, data : ByteSeq, strategy : {"none", "start", "continue", "range"}, size : Nat,
              tries : 0..MaxAttempts]
\* The next bytes are missing, the fetch asks for some, and a stream that is
\* open goes on where they begin.
Missing(x) ==
    /\ DataIs(x.data, x.offset, x.n, x.ps.size) /\ Cursor(x) < x.ps.size /\ Len(x.data) < x.n
    /\ x.size \in 1..x.ps.size - Cursor(x) /\ x.strategy \in {"start", "continue", "range"}
    /\ x.ps.stream.open => x.ps.stream.pos = Cursor(x) /\ IsStream(x)
Whole(x) == x.data = Bytes(x.offset, Least(x.offset + x.n, x.ps.size))
\* A handle has the size of its file.
Fits(x) == x.ps.size = SizeOf[x.h]
Sound(x) ==
    /\ x \in ReaderRec /\ PsOK(x.ps) /\ (x.pc # "closed" => x.h \in Hash)
    /\ x.pc \notin {"closed", "opening"} => Fits(x)
    /\ x.pc \notin {"fetch", "plan"} => StreamFollows(x.ps)
    /\ x.pc \in {"fetch", "plan"} => Missing(x) /\ x.tries < MaxAttempts
    /\ x.pc = "answered" => Whole(x)
RInv == case \in Case /\ reader = [r \in Reader |-> reader[r]] /\ \A r \in Reader : Sound(reader[r])

\* Between two fetches: some bytes are there, and the buffers are right.
Ready(x) ==
    /\ x \in ReaderRec /\ x.h \in Hash /\ PsOK(x.ps) /\ Fits(x) /\ StreamFollows(x.ps)
    /\ x.offset < x.ps.size /\ DataIs(x.data, x.offset, x.n, x.ps.size)

LEMMA FreshHandle ==
    ASSUME NEW size \in Nat, NEW forwardOnly \in BOOLEAN, NEW ps, ps = NewPrefetch(size, forwardOnly)
    PROVE  PsOK(ps) /\ StreamFollows(ps)
<1>1. <<>> \in Seq(ByteSeq) /\ <<>> \in ByteSeq /\ Len(<<>>) = 0
  BY EmptySeq DEF ByteSeq
<1>2. InitialWindow \in InitialWindow..MaxWindow
  BY WindowAssumption
<1>3. ps = [size |-> size, chunks |-> <<>>, len |-> 0, front |-> 0, start |-> 0, seek |-> <<>>, seekStart |-> 0,
            window |-> InitialWindow, stream |-> [open |-> FALSE, pos |-> 0], forwardOnly |-> forwardOnly]
  BY DEF NewPrefetch, NoStream
<1>4. ps \in PsRec
  BY <1>1, <1>2, <1>3 DEF PsRec, StreamRec
<1>5. FlattenSeq(<<>>) = <<>>
  <2>1. FlattenSeq(<<>>) = Flat(<<>>)[Len(<<>>)]
    BY <1>1, FlattenIs
  <2>2. Flat(<<>>)[0] = <<>>
    BY <1>1, FlatZero
  <2> QED BY <1>1, <2>1, <2>2
<1>6. BufOK(ps)
  BY <1>1, <1>3, <1>5 DEF BufOK, BufEnd
<1>7. SeekEnd(ps) = 0 /\ ps.seek = <<>> /\ ps.seekStart = 0 /\ ps.size = size
  BY <1>1, <1>3 DEF SeekEnd
<1>8. SeekOK(ps)
  <2>1. Bytes(0, 0) = <<>>
    BY NoBytes
  <2> QED BY <1>1, <1>7, <2>1, WindowAssumption DEF SeekOK
<1> QED BY <1>3, <1>4, <1>6, <1>8 DEF PsOK, StreamFollows

\* A reader that has the bytes answers; another one misses the next byte.
LEMMA AssembledIsSound ==
    ASSUME NEW x, Ready(x),
           NEW plan, plan = PrepareFetch(x.ps, Cursor(x), x.n - Len(x.data)),
           NEW y, y = IF Len(x.data) = Least(x.n, x.ps.size - x.offset) THEN [x EXCEPT !.pc = "answered"]
                      ELSE [x EXCEPT !.pc = "fetch", !.ps = plan.ps, !.strategy = plan.strategy,
                                     !.size = plan.size, !.tries = 0]
    PROVE  Sound(y)
<1> DEFINE o == x.offset
           n == x.n
           L == Len(x.data)
           size == x.ps.size
           ps == x.ps
<1>1. x \in ReaderRec /\ x.h \in Hash /\ PsOK(ps) /\ Fits(x) /\ StreamFollows(ps)
  BY DEF Ready
<1>2. o \in Nat /\ n \in Nat /\ L \in Nat /\ size \in Nat /\ o < size /\ L <= n /\ o + L <= size /\ Cursor(x) = o + L
  <2>1. size \in Nat
    BY <1>1, PsNumbers DEF PsOK, Numbers
  <2>2. x.data \in ByteSeq /\ o \in Nat /\ n \in Nat
    BY <1>1 DEF ReaderRec
  <2>3. L \in Nat
    BY <2>2, LenProperties DEF ByteSeq
  <2>4. o < size /\ L <= n /\ o + L <= size
    BY DEF Ready, DataIs
  <2> QED BY <2>1, <2>2, <2>3, <2>4 DEF Cursor
<1>3. x.data = Bytes(o, o + L) /\ DataIs(x.data, o, n, size)
  BY DEF Ready, DataIs
<1>4. CASE L = Least(n, size - o)
  <2>1. y = [x EXCEPT !.pc = "answered"]
    BY <1>4
  <2>2. /\ y \in ReaderRec /\ y.ps = x.ps /\ y.h = x.h /\ y.pc = "answered" /\ y.data = x.data /\ y.offset = x.offset
        /\ y.n = x.n
    BY <1>1, <2>1 DEF ReaderRec
  <2> HIDE DEF o, n, L, size
  <2>3. o + L = Least(o + n, size)
    BY <1>2, <1>4 DEF Least
  <2>4. Whole(y)
    BY <1>3, <2>2, <2>3 DEF Whole, o, n, size
  <2> QED BY <1>1, <2>2, <2>4 DEF Sound, Fits
<1>5. CASE L # Least(n, size - o)
  <2>1. y = [x EXCEPT !.pc = "fetch", !.ps = plan.ps, !.strategy = plan.strategy, !.size = plan.size, !.tries = 0]
    BY <1>5
  <2> DEFINE from == Cursor(x)
             m == n - L
  <2>2. from \in Nat /\ from < size /\ m \in Nat /\ m # 0 /\ from = o + L /\ L < n
    <3> HIDE DEF o, n, L, size, from
    <3>1. from = o + L
      BY <1>2 DEF from
    <3> QED BY <1>2, <1>5, <3>1 DEF Least
  <2>3. Planned(ps, from, plan)
    <3>1. from < ps.size /\ plan = PrepareFetch(ps, from, m)
      BY <2>2
    <3> HIDE DEF from, m, ps
    <3> QED BY ONLY <1>1, <2>2, <3>1, MissPlans
  <2>4. /\ PsOK(plan.ps) /\ plan.ps.size = size /\ plan.strategy \in {"start", "continue", "range"}
        /\ plan.ps.stream.open => plan.ps.stream.pos = from /\ plan.strategy \in {"start", "continue"}
        /\ plan.size \in 1..size - from
    BY <2>3 DEF Planned
  <2>5. plan.size \in Nat /\ plan.ps \in PsRec /\ 0 \in 0..MaxAttempts /\ 0 < MaxAttempts
    <3> HIDE DEF size, from
    <3>1. plan.size \in Nat
      BY <1>2, <2>2, <2>4
    <3> QED BY <2>4, <3>1, ReadsAssumption DEF PsOK
  <2> HIDE DEF from
  <2>6. /\ y \in ReaderRec /\ y.ps = plan.ps /\ y.h = x.h /\ y.pc = "fetch" /\ y.data = x.data /\ y.offset = x.offset
        /\ y.n = x.n /\ y.size = plan.size /\ y.strategy = plan.strategy /\ y.tries = 0
    BY <1>1, <2>1, <2>4, <2>5 DEF ReaderRec
  <2>7. Cursor(y) = from
    BY <2>6 DEF Cursor, from
  <2>8. Missing(y)
    BY <1>3, <2>2, <2>4, <2>6, <2>7 DEF Missing, IsStream
  <2>9. Fits(y)
    BY <1>1, <2>4, <2>6 DEF Fits
  <2> QED BY <1>1, <2>4, <2>5, <2>6, <2>8, <2>9 DEF Sound
<1> QED BY <1>4, <1>5

LEMMA DataJoins ==
    ASSUME NEW o \in Nat, NEW n \in Nat, NEW size \in Nat, NEW d, DataIs(d, o, n, size), NEW from \in Nat, from = o + Len(d),
           NEW m \in Nat, m = n - Len(d), NEW e, DataIs(e, from, m, size)
    PROVE  DataIs(d \o e, o, n, size)
<1> DEFINE k == Len(d)
           l == Len(e)
<1>1. k \in Nat /\ l \in Nat /\ k <= n /\ l <= m /\ from + l <= size
  BY LenProperties DEF DataIs, ByteSeq
<1>2. d = Bytes(o, from) /\ e = Bytes(from, from + l)
  BY DEF DataIs
<1> HIDE DEF l
<1> DEFINE to == from + l
<1>3. to \in Nat /\ o <= from /\ from <= to /\ k + l <= n /\ to = o + (k + l) /\ k + l \in Nat /\ o + (k + l) <= size
  <2> HIDE DEF k
  <2>1. from = o + k /\ m = n - k
    BY DEF k
  <2> QED BY <1>1, <2>1
<1>4. e = Bytes(from, to)
  BY <1>2
<1> HIDE DEF to, k
<1>5. Bytes(o, from) \o Bytes(from, to) = Bytes(o, to)
  BY ONLY <1>3, o \in Nat, from \in Nat, BytesJoin
<1>6. d \o e = Bytes(o, o + (k + l))
  BY <1>2, <1>3, <1>4, <1>5
<1>7. DataIs(Bytes(o, o + (k + l)), o, n, size)
  BY <1>3, SomeData
<1> QED BY <1>6, <1>7

\* An attempt adds the bytes it got to the answer and the others to the
\* buffer, or it got none and there is no stream.
NoneCame(x, y) == \E ps : /\ PsOK(ps) /\ ~ps.stream.open /\ ps.size = x.ps.size
                          /\ y = [x EXCEPT !.ps = ps, !.tries = @ + 1]
LEMMA FetchedIs ==
    ASSUME NEW x, x \in ReaderRec, x.h \in Hash, PsOK(x.ps), Fits(x), Missing(x), NEW width \in Nat, width # 0,
           NEW k \in Nat, k <= AllChunks(x, width), NEW y, y = Fetched(x, width, k)
    PROVE  (y.tries = x.tries /\ Ready(y)) \/ NoneCame(x, y)
<1> DEFINE chunks == Chunks(x, width, k)
           total == Len(FlattenSeq(chunks))
           failed == k < AllChunks(x, width)
           eof == ~failed /\ total < x.size
           stream == IF ~IsStream(x) THEN x.ps.stream
                     ELSE IF failed \/ (eof /\ total > 0) THEN NoStream
                     ELSE StreamAt(Stream(x).pos + total)
           kept == [x EXCEPT !.ps.stream = stream]
           filled == StoreFetched(kept.ps, Cursor(x), chunks)
           hit == ServeForward(filled, Cursor(x), x.n - Len(x.data))
           from == Cursor(x)
           size == x.ps.size
           end == StreamEnd(x)
           to == Reach(from, width, end, k)
<1>1. y = IF total > 0 THEN [kept EXCEPT !.ps = hit.ps, !.data = @ \o hit.data] ELSE [kept EXCEPT !.tries = @ + 1]
  BY DEF Fetched
<1>2. /\ x.ps \in PsRec /\ size \in Nat /\ x.offset \in Nat /\ x.n \in Nat /\ x.data \in ByteSeq /\ Len(x.data) \in Nat
      /\ x.size \in Nat /\ x.tries \in Nat
  <2>1. x.ps \in PsRec
    BY DEF PsOK
  <2>2. size \in Nat
    BY <2>1, PsNumbers DEF Numbers
  <2>3. x.offset \in Nat /\ x.n \in Nat /\ x.data \in ByteSeq /\ x.size \in Nat /\ x.tries \in Nat
    BY ReadsAssumption DEF ReaderRec
  <2>4. Len(x.data) \in Nat
    BY <2>3, LenProperties DEF ByteSeq
  <2> QED BY <2>1, <2>2, <2>3, <2>4
<1>3. /\ DataIs(x.data, x.offset, x.n, size) /\ from < size /\ Len(x.data) < x.n /\ x.size \in 1..size - from
      /\ x.ps.stream.open => x.ps.stream.pos = from /\ IsStream(x)
  BY DEF Missing
<1>4. from \in Nat /\ from = x.offset + Len(x.data)
  BY <1>2 DEF Cursor
<1>5. Stream(x).pos = from
  BY <1>3 DEF Stream, StreamAt
<1>6. end \in Nat /\ from < end /\ end <= size /\ x.size # 0 /\ from <= end
  <2> DEFINE s == x.size
  <2>1. s \in 1..size - from /\ end = IF IsStream(x) THEN size ELSE from + s
    BY <1>3 DEF StreamEnd
  <2> HIDE DEF s, size, end, from
  <2>2. end \in Nat /\ from < end /\ end <= size /\ s # 0 /\ from <= end
    BY <1>2, <1>3, <1>4, <2>1 DEF size
  <2> QED BY <2>2 DEF s
<1> HIDE DEF from, size, end
<1>7. chunks \in Seq(ByteSeq) /\ FlattenSeq(chunks) = Bytes(from, to)
  BY <1>4, <1>5, <1>6, ChunksAre DEF end
<1>8. to \in Nat /\ from <= to /\ to <= end /\ to <= size
  <2>1. to \in Nat /\ from <= to /\ to <= end
    <3>1. \A j \in Nat : /\ Reach(from, width, end, j) \in Nat /\ from <= Reach(from, width, end, j)
                         /\ Reach(from, width, end, j) <= end
      BY ONLY <1>4, <1>6, width \in Nat, ReachIs
    <3> QED BY <3>1
  <2> HIDE DEF to
  <2> QED BY <1>2, <1>6, <2>1
<1>9. ~failed => to > from
  <2> SUFFICES ASSUME ~failed PROVE to > from
    OBVIOUS
  <2>1. AllChunks(x, width) \in Nat /\ Reach(from, width, end, AllChunks(x, width)) > from
    <3>1. end <= x.ps.size /\ StreamEnd(x) = end /\ x.ps.size \in Nat
      BY <1>2, <1>6 DEF end, size
    <3> QED BY ONLY <1>2, <1>4, <1>5, <1>6, <3>1, width \in Nat, width # 0, AllChunksAre
  <2>2. k = AllChunks(x, width)
    BY <2>1
  <2> QED BY <2>1, <2>2
<1> HIDE DEF to
<1>a. total = to - from /\ total \in Nat
  <2>1. Len(Bytes(from, to)) = to - from
    BY <1>4, <1>8, BytesIs
  <2>2. to - from \in Nat
    BY <1>4, <1>8
  <2> QED BY <1>7, <2>1, <2>2
<1> HIDE DEF total, chunks
<1>b. stream \in StreamRec /\ (stream.open => stream.pos = to) /\ (total = 0 => ~stream.open)
  <2>1. CASE ~IsStream(x)
    <3>1. stream = x.ps.stream /\ x.ps.stream \in StreamRec
      BY <1>2, <2>1 DEF PsRec
    <3> QED BY <1>3, <2>1, <3>1
  <2>2. CASE IsStream(x) /\ (failed \/ (eof /\ total > 0))
    <3>1. stream = NoStream
      BY <2>2
    <3>2. NoStream \in StreamRec /\ NoStream.open = FALSE
      BY DEF NoStream, StreamRec
    <3> HIDE DEF stream
    <3> QED BY <3>1, <3>2
  <2>3. CASE IsStream(x) /\ ~(failed \/ (eof /\ total > 0))
    <3>1. stream = StreamAt(from + total)
      BY <1>5, <2>3
    <3>2. from + total = to /\ total # 0
      <4> HIDE DEF failed
      <4> QED BY <1>4, <1>8, <1>9, <1>a, <2>3
    <3>3. StreamAt(to) \in StreamRec /\ StreamAt(to).pos = to
      BY <1>8 DEF StreamAt, StreamRec
    <3> HIDE DEF stream
    <3> QED BY <3>1, <3>2, <3>3
  <2> HIDE DEF stream, failed, eof
  <2> QED BY <2>1, <2>2, <2>3
<1> HIDE DEF stream
<1> DEFINE q == [x.ps EXCEPT !.stream = stream]
<1>c. kept = [x EXCEPT !.ps = q] /\ kept.ps = q /\ kept \in ReaderRec
  <2>1. kept = [x EXCEPT !.ps = q]
    OBVIOUS
  <2>2. q \in PsRec
    BY <1>2, <1>b DEF PsRec
  <2> HIDE DEF q, kept
  <2> QED BY <2>1, <2>2 DEF ReaderRec
<1>d. PsOK(q) /\ q.size = size /\ q.stream = stream
  <2>1. x.ps \in PsRec /\ BufOK(x.ps) /\ SeekOK(x.ps)
    BY DEF PsOK
  <2>2. /\ q \in PsRec /\ q.stream = stream /\ q.chunks = x.ps.chunks /\ q.front = x.ps.front /\ q.len = x.ps.len
        /\ q.start = x.ps.start /\ q.size = x.ps.size /\ q.seek = x.ps.seek /\ q.seekStart = x.ps.seekStart
    BY <1>b, <2>1 DEF PsRec
  <2> HIDE DEF q
  <2>3. BufOK(q)
    BY <2>1, <2>2, BufSame
  <2>4. SeekOK(q)
    BY <2>1, <2>2, SeekSame
  <2> QED BY <2>2, <2>3, <2>4 DEF PsOK, size
<1> HIDE DEF q, kept
<1>e. CASE total > 0
  <2>1. y = [kept EXCEPT !.ps = hit.ps, !.data = @ \o hit.data]
    BY <1>1, <1>e
  <2>2. PsOK(filled) /\ BufEnd(filled) = to /\ filled.size = size /\ filled.stream = stream
    <3>1. filled = StoreFetched(q, from, chunks) /\ to <= q.size
      BY <1>8, <1>c, <1>d DEF from
    <3> HIDE DEF filled
    <3>2. PsOK(filled) /\ BufEnd(filled) = to /\ filled.size = q.size /\ filled.stream = q.stream
      BY ONLY <1>4, <1>7, <1>8, <1>d, <3>1, StoredIs
    <3> QED BY <1>d, <3>2
  <2> DEFINE m == x.n - Len(x.data)
  <2>3. m \in Nat /\ m = x.n - Len(x.data)
    BY <1>2, <1>3
  <2>4. Served(filled, from, m, hit)
    <3>1. hit = ServeForward(filled, from, m) /\ from <= filled.size
      BY <1>2, <1>3, <1>4, <2>2 DEF from
    <3> HIDE DEF hit, filled, m
    <3> QED BY ONLY <1>4, <2>2, <2>3, <3>1, ForwardServes
  <2> HIDE DEF hit, filled, m
  <2>5. PsOK(hit.ps) /\ BufEnd(hit.ps) = to /\ hit.ps.size = size /\ hit.ps.stream = stream /\ DataIs(hit.data, from, m, size)
    <3>1. PsOK(hit.ps) /\ BufEnd(hit.ps) = BufEnd(filled) /\ SameBut(filled, hit.ps, Drained) /\ DataIs(hit.data, from, m, filled.size)
      BY <2>4 DEF Served
    <3>2. filled \in PsRec
      BY <2>2 DEF PsOK
    <3>3. hit.ps.size = filled.size /\ hit.ps.stream = filled.stream
      BY <3>1, <3>2 DEF SameBut, PsRec, Drained
    <3> QED BY <2>2, <3>1, <3>3
  <2>6. DataIs(x.data \o hit.data, x.offset, x.n, size)
    BY <1>2, <1>3, <1>4, <2>3, <2>5, DataJoins
  <2>7. x.data \o hit.data \in ByteSeq /\ hit.ps \in PsRec /\ kept.data = x.data
    <3>1. kept.data = x.data
      BY <1>c DEF ReaderRec
    <3> QED BY <2>5, <2>6, <3>1 DEF DataIs, PsOK
  <2> DEFINE d == x.data \o hit.data
  <2>8. y = [kept EXCEPT !.ps = hit.ps, !.data = d]
    <3>1. y = [kept EXCEPT !.ps = hit.ps, !.data = kept.data \o hit.data]
      BY <2>1, <1>c DEF ReaderRec
    <3> QED BY <2>7, <3>1
  <2> HIDE DEF d
  <2>9. /\ y \in ReaderRec /\ y.ps = hit.ps /\ y.data = d /\ y.h = x.h /\ y.offset = x.offset /\ y.n = x.n
        /\ y.tries = x.tries
    <3>1. d \in ByteSeq
      BY <2>7 DEF d
    <3> QED BY <1>c, <2>7, <2>8, <3>1 DEF ReaderRec
  <2>a. StreamFollows(y.ps)
    BY <1>b, <2>5, <2>9 DEF StreamFollows
  <2>b. y.offset < y.ps.size
    <3>1. x.offset < size
      BY <1>2, <1>3, <1>4
    <3> QED BY <2>5, <2>9, <3>1
  <2>c. Fits(y)
    BY <2>5, <2>9 DEF Fits, size
  <2>d. Ready(y)
    BY <2>5, <2>6, <2>9, <2>a, <2>b, <2>c DEF Ready, d
  <2> QED BY <2>9, <2>d
<1>f. CASE ~(total > 0)
  <2>1. y = [kept EXCEPT !.tries = @ + 1]
    BY <1>1, <1>f
  <2>2. ~stream.open
    BY <1>a, <1>b, <1>f
  <2>3. y = [x EXCEPT !.ps = q, !.tries = @ + 1]
    BY <1>c, <2>1 DEF ReaderRec
  <2> QED BY <1>d, <2>2, <2>3 DEF size, NoneCame
<1> QED BY <1>e, <1>f

LEMMA FailedIsSound ==
    ASSUME NEW x, x \in ReaderRec, x.h \in Hash, Fits(x), Missing(x), x.tries < MaxAttempts,
           NEW ps, PsOK(ps), ~ps.stream.open, ps.size = x.ps.size, NEW y, y = [x EXCEPT !.ps = ps, !.tries = @ + 1],
           NEW z, z = [y EXCEPT !.pc = IF y.tries = MaxAttempts THEN "failed" ELSE "fetch"]
    PROVE  Sound(z)
<1> DEFINE t == x.tries + 1
           pc == IF t = MaxAttempts THEN "failed" ELSE "fetch"
<1>1. t \in 0..MaxAttempts /\ (t # MaxAttempts => t < MaxAttempts)
  <2> DEFINE u == x.tries
  <2>1. u \in 0..MaxAttempts /\ u < MaxAttempts /\ MaxAttempts \in Nat /\ t = u + 1
    BY ReadsAssumption DEF ReaderRec
  <2> HIDE DEF u, t
  <2> QED BY ONLY <2>1
<1>2. ps \in PsRec
  BY DEF PsOK
<1>3. y = [x EXCEPT !.ps = ps, !.tries = t]
  OBVIOUS
<1> HIDE DEF t
<1>4. y.tries = t /\ z = [y EXCEPT !.pc = pc] /\ y \in ReaderRec
  BY <1>1, <1>2, <1>3 DEF ReaderRec
<1>5. pc \in {"failed", "fetch"} /\ (pc = "fetch" => t # MaxAttempts)
  OBVIOUS
<1> HIDE DEF pc
<1>6. /\ z \in ReaderRec /\ z.pc = pc /\ z.ps = ps /\ z.tries = t /\ z.h = x.h /\ z.offset = x.offset /\ z.n = x.n
      /\ z.data = x.data /\ z.size = x.size /\ z.strategy = x.strategy
  <2>1. /\ y.pc = x.pc /\ y.ps = ps /\ y.h = x.h /\ y.offset = x.offset /\ y.n = x.n
        /\ y.data = x.data /\ y.size = x.size /\ y.strategy = x.strategy
    BY <1>2, <1>3 DEF ReaderRec
  <2>2. /\ z \in ReaderRec /\ z.pc = pc /\ z.ps = y.ps /\ z.tries = y.tries /\ z.h = y.h /\ z.offset = y.offset
        /\ z.n = y.n /\ z.data = y.data /\ z.size = y.size /\ z.strategy = y.strategy
    BY <1>4, <1>5 DEF ReaderRec
  <2> QED BY <1>4, <2>1, <2>2
<1>7. Cursor(z) = Cursor(x)
  BY <1>6 DEF Cursor
<1>8. Missing(z)
  BY <1>6, <1>7 DEF Missing
<1>9. StreamFollows(z.ps)
  BY <1>6 DEF StreamFollows
<1>a. Fits(z)
  BY <1>6 DEF Fits
<1> QED BY <1>1, <1>5, <1>6, <1>8, <1>9, <1>a DEF Sound

\* An attempt of a reader leaves it as it has to be.
LEMMA AttemptIsSound ==
    ASSUME NEW r, NEW x, x \in ReaderRec, x.h \in Hash, PsOK(x.ps), Fits(x), Missing(x), x.tries < MaxAttempts,
           x.tries = reader[r].tries, NEW width \in Nat, width # 0, NEW k \in Nat, k <= AllChunks(x, width),
           Attempted(r, Fetched(x, width, k))
    PROVE  \E y : Sound(y) /\ reader' = [reader EXCEPT ![r] = y]
<1> DEFINE y == Fetched(x, width, k)
<1>1. (y.tries = x.tries /\ Ready(y)) \/ NoneCame(x, y)
  BY FetchedIs
<1>2. IF y.tries = reader[r].tries THEN Assembled(r, y)
      ELSE reader' = [reader EXCEPT ![r] = [y EXCEPT !.pc = IF y.tries = MaxAttempts THEN "failed" ELSE "fetch"]]
  BY DEF Attempted
<1> HIDE DEF y
<1>3. CASE y.tries = x.tries /\ Ready(y)
  <2> DEFINE plan == PrepareFetch(y.ps, Cursor(y), y.n - Len(y.data))
             z == IF Len(y.data) = Least(y.n, y.ps.size - y.offset) THEN [y EXCEPT !.pc = "answered"]
                  ELSE [y EXCEPT !.pc = "fetch", !.ps = plan.ps, !.strategy = plan.strategy, !.size = plan.size, !.tries = 0]
  <2>1. reader' = [reader EXCEPT ![r] = z]
    BY <1>2, <1>3 DEF Assembled
  <2>2. Sound(z)
    BY <1>3, AssembledIsSound
  <2> HIDE DEF z
  <2> QED BY <2>1, <2>2
<1>4. ASSUME NEW ps, PsOK(ps), ~ps.stream.open, ps.size = x.ps.size, y = [x EXCEPT !.ps = ps, !.tries = @ + 1]
      PROVE  \E z : Sound(z) /\ reader' = [reader EXCEPT ![r] = z]
  <2> DEFINE z == [y EXCEPT !.pc = IF y.tries = MaxAttempts THEN "failed" ELSE "fetch"]
  <2>1. Sound(z)
    BY <1>4, FailedIsSound
  <2>2. y.tries # reader[r].tries
    <3>1. x.tries \in Nat /\ y.tries = x.tries + 1
      BY <1>4, ReadsAssumption DEF ReaderRec
    <3> QED BY <3>1
  <2>3. reader' = [reader EXCEPT ![r] = z]
    BY <1>2, <2>2
  <2> HIDE DEF z
  <2> QED BY <2>1, <2>3
<1> QED BY <1>1, <1>3, <1>4 DEF NoneCame

LEMMA OneReader ==
    ASSUME RInv, case' = case, NEW r, NEW y, reader' = [reader EXCEPT ![r] = y], r \in Reader => Sound(y)
    PROVE  RInv'
<1>1. reader' = [s \in Reader |-> reader'[s]] /\ case' \in Case
  <2>1. DOMAIN reader = Reader
    BY DEF RInv
  <2>2. reader' = [s \in Reader |-> IF s = r THEN y ELSE reader[s]]
    BY <2>1
  <2> QED BY <2>2 DEF RInv
<1>2. ASSUME NEW s \in Reader PROVE Sound(reader'[s])
  <2>1. CASE s = r
    BY <2>1 DEF RInv
  <2>2. CASE s # r
    <3>1. reader'[s] = reader[s]
      BY <2>2 DEF RInv
    <3> QED BY <3>1 DEF RInv
  <2> QED BY <2>1, <2>2
<1> QED BY <1>1, <1>2 DEF RInv

LEMMA ClosedIs ==
    /\ Closed \in ReaderRec /\ Closed.pc = "closed" /\ PsOK(Closed.ps) /\ StreamFollows(Closed.ps) /\ Sound(Closed)
    /\ \A h \in Hash : \A ps, pc : PsOK(ps) /\ StreamFollows(ps) /\ pc = "open" /\ ps.size = SizeOf[h]
                                   => Sound([Closed EXCEPT !.pc = pc, !.h = h, !.ps = ps])
<1> DEFINE ps == NewPrefetch(0, FALSE)
<1>1. PsOK(ps) /\ StreamFollows(ps)
  BY FreshHandle
<1>2. ps \in PsRec
  BY <1>1 DEF PsOK
<1> HIDE DEF ps
<1>3. Closed = [pc |-> "closed", h |-> NoHash, ps |-> ps, offset |-> 0, n |-> 0, data |-> <<>>, strategy |-> "none",
                size |-> 0, tries |-> 0]
  BY DEF Closed, NoHash, ps
<1>4. <<>> \in ByteSeq /\ 0 \in 0..MaxAttempts /\ NoHash \in Hash \cup {NoHash}
  BY EmptySeq, ReadsAssumption DEF ByteSeq
<1>5. Closed \in ReaderRec /\ Closed.pc = "closed" /\ Closed.ps = ps
  BY <1>2, <1>3, <1>4 DEF ReaderRec
<1>6. Sound(Closed)
  BY <1>1, <1>5 DEF Sound
<1>7. ASSUME NEW h \in Hash, NEW q, NEW pc, PsOK(q), StreamFollows(q), pc = "open", q.size = SizeOf[h]
      PROVE  Sound([Closed EXCEPT !.pc = pc, !.h = h, !.ps = q])
  <2> DEFINE x == [Closed EXCEPT !.pc = pc, !.h = h, !.ps = q]
  <2>1. q \in PsRec
    BY <1>7 DEF PsOK
  <2>2. x \in ReaderRec /\ x.pc = pc /\ x.h = h /\ x.ps = q
    BY <1>5, <1>7, <2>1 DEF ReaderRec
  <2> HIDE DEF x
  <2>3. Sound(x)
    BY <1>7, <2>2 DEF Sound, Fits
  <2> QED BY <2>3 DEF x
<1> QED BY <1>1, <1>5, <1>6, <1>7

-----------------------------------------------------------------------------
(* Every step keeps it.                                                    *)

LEMMA LazyIs == ASSUME RInv, NEW h \in Hash PROVE Sound(Lazy(h))
<1>1. SizeOf[h] \in Nat /\ case.forwardOnly \in BOOLEAN
  BY FileCacheAssumption, ReadsAssumption DEF RInv
<1> DEFINE ps == NewPrefetch(SizeOf[h], case.forwardOnly)
<1>2. PsOK(ps) /\ StreamFollows(ps)
  BY <1>1, FreshHandle
<1>5. ps.size = SizeOf[h]
  BY DEF NewPrefetch
<1>3. Lazy(h) = [Closed EXCEPT !.pc = "open", !.h = h, !.ps = ps]
  BY DEF Lazy
<1> HIDE DEF ps
<1>4. Sound([Closed EXCEPT !.pc = "open", !.h = h, !.ps = ps])
  BY <1>2, <1>5, ClosedIs
<1> QED BY <1>3, <1>4

LEMMA ReadIsSound ==
    ASSUME RInv, NEW r \in Reader, NEW n \in Nat, NEW offset \in Nat, Read(r, offset, n)
    PROVE  \E y : Sound(y) /\ reader' = [reader EXCEPT ![r] = y]
<1> DEFINE x == reader[r]
           hit == ServeForward(x.ps, offset, n)
           data == IF hit.data = <<>> THEN ServeSeek(x.ps, offset, n) ELSE hit.data
           w == [x EXCEPT !.ps = hit.ps, !.offset = offset, !.n = n, !.data = data]
<1>1. x.pc = "open" /\ offset < x.ps.size /\ Assembled(r, w)
  BY DEF Read
<1>2. x \in ReaderRec /\ PsOK(x.ps) /\ x.h \in Hash /\ Fits(x) /\ StreamFollows(x.ps)
  BY <1>1 DEF RInv, Sound
<1>3. x.ps \in PsRec /\ x.ps.size \in Nat /\ offset <= x.ps.size
  BY <1>1, <1>2, PsNumbers DEF PsOK, Numbers
<1> HIDE DEF x
<1>4. Served(x.ps, offset, n, hit)
  BY <1>2, <1>3, ForwardServes
<1>5. DataIs(ServeSeek(x.ps, offset, n), offset, n, x.ps.size)
  BY <1>2, <1>3, SeekServes
<1> HIDE DEF hit
<1>6. /\ PsOK(hit.ps) /\ hit.ps \in PsRec /\ hit.ps.size = x.ps.size /\ StreamFollows(hit.ps)
      /\ DataIs(data, offset, n, x.ps.size) /\ data \in ByteSeq
  <2>1. PsOK(hit.ps) /\ BufEnd(hit.ps) = BufEnd(x.ps) /\ SameBut(x.ps, hit.ps, Drained)
    BY <1>4 DEF Served
  <2>2. hit.ps.size = x.ps.size /\ hit.ps.stream = x.ps.stream
    BY <1>3, <2>1 DEF SameBut, PsRec, Drained
  <2>3. DataIs(data, offset, n, x.ps.size)
    BY <1>4, <1>5 DEF Served
  <2> QED BY <1>2, <2>1, <2>2, <2>3 DEF StreamFollows, DataIs, PsOK
<1> HIDE DEF data
<1>7. /\ w \in ReaderRec /\ w.h = x.h /\ w.ps = hit.ps /\ w.offset = offset /\ w.n = n /\ w.data = data
  BY <1>2, <1>6 DEF ReaderRec
<1> HIDE DEF w
<1>8. Ready(w)
  <2>1. Fits(w)
    BY <1>2, <1>6, <1>7 DEF Fits
  <2> QED BY <1>1, <1>2, <1>6, <1>7, <2>1 DEF Ready
<1> DEFINE plan == PrepareFetch(w.ps, Cursor(w), w.n - Len(w.data))
           z == IF Len(w.data) = Least(w.n, w.ps.size - w.offset) THEN [w EXCEPT !.pc = "answered"]
                ELSE [w EXCEPT !.pc = "fetch", !.ps = plan.ps, !.strategy = plan.strategy, !.size = plan.size, !.tries = 0]
<1>9. reader' = [reader EXCEPT ![r] = z]
  BY <1>1 DEF Assembled
<1>a. Sound(z)
  BY <1>8, AssembledIsSound
<1> HIDE DEF z
<1> QED BY <1>9, <1>a

\* One attempt after the plan, with or without it.
LEMMA MissIs ==
    ASSUME RInv, NEW r \in Reader, reader[r].pc \in {"fetch", "plan"}, NEW x, x = [reader[r] EXCEPT !.pc = "fetch"]
    PROVE  /\ x \in ReaderRec /\ x.h \in Hash /\ PsOK(x.ps) /\ Fits(x) /\ Missing(x) /\ x.tries < MaxAttempts
           /\ x.tries = reader[r].tries
           /\ \A width \in 1..MaxChunk : AllChunks(x, width) \in Nat /\ 0 <= AllChunks(x, width)
<1> DEFINE y == reader[r]
<1>1. y \in ReaderRec /\ y.h \in Hash /\ PsOK(y.ps) /\ Fits(y) /\ Missing(y) /\ y.tries < MaxAttempts
  BY DEF RInv, Sound
<1>2. x = [y EXCEPT !.pc = "fetch"]
  OBVIOUS
<1> HIDE DEF y
<1>3. /\ x \in ReaderRec /\ x.h = y.h /\ x.ps = y.ps /\ x.offset = y.offset /\ x.n = y.n /\ x.data = y.data
      /\ x.size = y.size /\ x.strategy = y.strategy /\ x.tries = y.tries
  BY <1>1, <1>2 DEF ReaderRec
<1>4. Missing(x)
  <2>1. Cursor(x) = Cursor(y)
    BY <1>3 DEF Cursor
  <2>2. IsStream(x) <=> IsStream(y)
    BY <1>3 DEF IsStream
  <2> QED BY <1>1, <1>3, <2>1, <2>2 DEF Missing
<1>5. ASSUME NEW width \in 1..MaxChunk PROVE AllChunks(x, width) \in Nat
  <2> DEFINE from == Cursor(x)
             size == x.ps.size
             s == x.size
             end == StreamEnd(x)
  <2>1. size \in Nat /\ from \in Nat /\ s \in 1..size - from /\ from < size /\ s \in Nat
    <3>1. size \in Nat
      BY <1>1, <1>3, PsNumbers DEF PsOK, Numbers
    <3>2. x.offset \in Nat /\ Len(x.data) \in Nat /\ s \in Nat
      BY <1>3, LenProperties DEF ReaderRec, ByteSeq
    <3>3. from \in Nat
      BY <3>2 DEF Cursor
    <3> QED BY <1>4, <3>1, <3>2, <3>3 DEF Missing
  <2>2. Stream(x).pos = from
    BY <1>4 DEF Stream, StreamAt, Missing
  <2>3. end = IF IsStream(x) THEN size ELSE from + s
    BY DEF StreamEnd
  <2>4. width \in Nat /\ width # 0
    BY ReadsAssumption
  <2> HIDE DEF from, end
  <2>5. end \in Nat /\ from < end /\ end <= size /\ s # 0
    <3> HIDE DEF size, s
    <3> QED BY ONLY <2>1, <2>3
  <2>6. StreamEnd(x) = end
    BY DEF end
  <2> QED BY <2>1, <2>2, <2>4, <2>5, <2>6, AllChunksAre
<1> QED BY <1>1, <1>3, <1>4, <1>5 DEF y, Fits

LEMMA FetchIsSound ==
    ASSUME RInv, NEW r \in Reader,
           \/ StreamPlanned(r)
           \/ \E width \in 1..MaxChunk : Attempt(r, width) \/ \E k \in 0..MaxRead : AttemptFails(r, width, k)
    PROVE  \E y : Sound(y) /\ reader' = [reader EXCEPT ![r] = y]
<1>0. MaxChunk \in Nat /\ MaxChunk # 0 /\ MaxChunk \in 1..MaxChunk /\ \A width \in 1..MaxChunk : width \in Nat /\ width # 0
  BY ReadsAssumption
<1> DEFINE x == [reader[r] EXCEPT !.pc = "fetch"]
<1>1. CASE StreamPlanned(r)
  <2>1. PICK k \in {0, AllChunks(x, MaxChunk)} : reader[r].pc = "plan" /\ Attempted(r, Fetched(x, MaxChunk, k))
    BY <1>1 DEF StreamPlanned
  <2> HIDE DEF x
  <2>2. /\ x \in ReaderRec /\ x.h \in Hash /\ PsOK(x.ps) /\ Fits(x) /\ Missing(x) /\ x.tries < MaxAttempts
        /\ x.tries = reader[r].tries /\ AllChunks(x, MaxChunk) \in Nat /\ 0 <= AllChunks(x, MaxChunk)
    BY <1>0, <2>1, MissIs DEF x
  <2>3. k \in Nat /\ k <= AllChunks(x, MaxChunk)
    BY <2>1, <2>2
  <2> QED BY <1>0, <2>1, <2>2, <2>3, AttemptIsSound
<1>2. ASSUME NEW width \in 1..MaxChunk, Attempt(r, width) \/ \E k \in 0..MaxRead : AttemptFails(r, width, k)
      PROVE  \E y : Sound(y) /\ reader' = [reader EXCEPT ![r] = y]
  <2>1. reader[r].pc = "fetch" /\ reader[r] \in ReaderRec
    BY <1>2 DEF Attempt, AttemptFails, RInv, Sound
  <2>2. reader[r] = x
    BY <2>1 DEF ReaderRec
  <2> HIDE DEF x
  <2>3. /\ x \in ReaderRec /\ x.h \in Hash /\ PsOK(x.ps) /\ Fits(x) /\ Missing(x) /\ x.tries < MaxAttempts
        /\ x.tries = reader[r].tries /\ AllChunks(x, width) \in Nat /\ 0 <= AllChunks(x, width)
    BY <2>1, MissIs DEF x
  <2>4. \E k \in Nat : k <= AllChunks(x, width) /\ Attempted(r, Fetched(x, width, k))
    <3>1. CASE Attempt(r, width)
      <4>1. Attempted(r, Fetched(x, width, AllChunks(x, width)))
        BY <2>2, <3>1 DEF Attempt
      <4> QED BY <2>3, <4>1
    <3>2. ASSUME NEW k \in 0..MaxRead, AttemptFails(r, width, k)
          PROVE  \E j \in Nat : j <= AllChunks(x, width) /\ Attempted(r, Fetched(x, width, j))
      <4>1. k < AllChunks(x, width) /\ Attempted(r, Fetched(x, width, k))
        BY <2>2, <3>2 DEF AttemptFails
      <4>2. k \in Nat /\ k <= AllChunks(x, width)
        BY <2>3, <4>1, ReadsAssumption
      <4> QED BY <4>1, <4>2
    <3> QED BY <1>2, <3>1, <3>2
  <2>5. PICK k \in Nat : k <= AllChunks(x, width) /\ Attempted(r, Fetched(x, width, k))
    BY <2>4
  <2> QED BY <1>0, <2>3, <2>5, AttemptIsSound
<1> QED BY <1>1, <1>2

LEMMA StreamIsSound ==
    ASSUME RInv, NEW r \in Reader, OpenStream(r)
    PROVE  \E y : Sound(y) /\ reader' = [reader EXCEPT ![r] = y]
<1> DEFINE x == reader[r]
           y == [x EXCEPT !.pc = "plan"]
<1>1. x.pc = "fetch" /\ x \in ReaderRec /\ x.h \in Hash /\ PsOK(x.ps) /\ Fits(x) /\ Missing(x) /\ x.tries < MaxAttempts
  BY DEF OpenStream, RInv, Sound
<1>2. reader' = [reader EXCEPT ![r] = y]
  BY DEF OpenStream
<1> HIDE DEF x
<1>3. /\ y \in ReaderRec /\ y.pc = "plan" /\ y.h = x.h /\ y.ps = x.ps /\ y.offset = x.offset /\ y.n = x.n
      /\ y.data = x.data /\ y.size = x.size /\ y.strategy = x.strategy /\ y.tries = x.tries
  BY <1>1 DEF ReaderRec
<1> HIDE DEF y
<1>4. Missing(y)
  <2>1. Cursor(y) = Cursor(x)
    BY <1>3 DEF Cursor
  <2>2. IsStream(y) <=> IsStream(x)
    BY <1>3 DEF IsStream
  <2> QED BY <1>1, <1>3, <2>1, <2>2 DEF Missing
<1>5. Sound(y)
  BY <1>1, <1>3, <1>4 DEF Sound, Fits
<1> QED BY <1>2, <1>5

LEMMA DoneIsSound ==
    ASSUME RInv, NEW r \in Reader, ReadDone(r)
    PROVE  \E y : Sound(y) /\ reader' = [reader EXCEPT ![r] = y]
<1> DEFINE x == reader[r]
           y == [Closed EXCEPT !.pc = "open", !.h = x.h, !.ps = x.ps]
<1>1. x.pc \in {"answered", "failed"} /\ x.h \in Hash /\ PsOK(x.ps) /\ StreamFollows(x.ps) /\ x.ps.size = SizeOf[x.h]
  BY DEF ReadDone, RInv, Sound, Fits
<1>2. reader' = [reader EXCEPT ![r] = y]
  BY DEF ReadDone
<1>3. Sound(y)
  BY <1>1, ClosedIs
<1> HIDE DEF y
<1> QED BY <1>2, <1>3

LEMMA StartIsSound ==
    ASSUME RInv, NEW r \in Reader, NEW m, NEW h \in Hash, StartOpen(r, m, h)
    PROVE  \E y : Sound(y) /\ reader' = [reader EXCEPT ![r] = y]
<1> DEFINE x == reader[r]
           y == [x EXCEPT !.pc = "opening", !.h = h]
<1>1. x.pc = "closed" /\ x \in ReaderRec /\ PsOK(x.ps) /\ StreamFollows(x.ps)
  BY DEF StartOpen, RInv, Sound
<1>2. reader' = [reader EXCEPT ![r] = y]
  <2>1. reader' = [reader EXCEPT ![r].pc = "opening", ![r].h = h]
    BY DEF StartOpen
  <2> QED BY <2>1
<1> HIDE DEF x
<1>3. y \in ReaderRec /\ y.pc = "opening" /\ y.h = h /\ y.ps = x.ps
  BY <1>1 DEF ReaderRec
<1> HIDE DEF y
<1>4. Sound(y)
  BY <1>1, <1>3 DEF Sound
<1> QED BY <1>2, <1>4

LEMMA ReadsStart == Init => RInv
<1> SUFFICES ASSUME Init PROVE RInv
  OBVIOUS
<1>1. case \in Case /\ reader = [r \in Reader |-> Closed]
  BY DEF Init
<1>2. Sound(Closed)
  BY ClosedIs
<1> QED BY <1>1, <1>2 DEF RInv

LEMMA ReadsStep == ASSUME RInv, [Next]_vars PROVE RInv'
<1>1. CASE UNCHANGED vars
  BY <1>1 DEF vars, RInv
<1>2. ASSUME case' = case, reader' = reader PROVE RInv'
  BY <1>2 DEF RInv
<1>3. ASSUME case' = case, NEW r \in Reader, NEW y, reader' = [reader EXCEPT ![r] = y], Sound(y) PROVE RInv'
  BY <1>3, OneReader
<1>4. \A x : /\ x \in case.readers => x \in Reader
             /\ x \in case.hashes => x \in Hash
             /\ x \in case.lengths => x \in Nat
  BY ReadsAssumption DEF RInv
<1>5. ASSUME case' = case, NEW r \in Reader, ReaderStep(r) \/ Close(r) PROVE RInv'
  <2>1. \/ OpenLocal(r) \/ Close(r) \/ \E w : OpenMissed(r, w)
        \/ ReadDone(r) \/ OpenStream(r) \/ StreamPlanned(r)
        \/ \E width \in 1..MaxChunk : Attempt(r, width) \/ \E k \in 0..MaxRead : AttemptFails(r, width, k)
    BY <1>5 DEF ReaderStep
  <2>2. CASE OpenLocal(r) \/ Close(r)
    <3>1. reader' = [reader EXCEPT ![r] = Closed] /\ Sound(Closed)
      BY <2>2, ClosedIs DEF OpenLocal, Close
    <3> QED BY <1>3, <1>5, <3>1
  <2>3. ASSUME NEW w, OpenMissed(r, w) PROVE RInv'
    <3>1. reader' = [reader EXCEPT ![r] = Lazy(reader[r].h)] /\ reader[r].pc = "opening"
      BY <2>3 DEF OpenMissed
    <3>2. reader[r].h \in Hash
      BY <3>1 DEF RInv, Sound
    <3> QED BY <1>3, <1>5, <3>1, <3>2, LazyIs
  <2>4. CASE ReadDone(r)
    BY <1>3, <1>5, <2>4, DoneIsSound
  <2>5. CASE OpenStream(r)
    BY <1>3, <1>5, <2>5, StreamIsSound
  <2>6. CASE StreamPlanned(r) \/ \E width \in 1..MaxChunk : Attempt(r, width) \/ \E k \in 0..MaxRead : AttemptFails(r, width, k)
    BY <1>3, <1>5, <2>6, FetchIsSound
  <2> QED BY <2>1, <2>2, <2>3, <2>4, <2>5, <2>6
<1>6. ASSUME case' = case, NEW r \in Reader, NEW h \in Hash, OpenLazy(r, h) \/ \E m : StartOpen(r, m, h) PROVE RInv'
  <2>1. CASE OpenLazy(r, h)
    <3>1. reader' = [reader EXCEPT ![r] = Lazy(h)]
      BY <2>1 DEF OpenLazy
    <3> QED BY <1>3, <1>6, <3>1, LazyIs
  <2>2. ASSUME NEW m, StartOpen(r, m, h) PROVE RInv'
    BY <1>3, <1>6, <2>2, StartIsSound
  <2> QED BY <1>6, <2>1, <2>2
<1>7. ASSUME case' = case, NEW r \in Reader, NEW n \in Nat, NEW offset \in 0..reader[r].ps.size, Read(r, offset, n) PROVE RInv'
  <2>1. offset \in Nat
    <3>1. reader[r].ps.size \in Nat
      BY PsNumbers DEF RInv, Sound, PsOK, Numbers
    <3> QED BY <3>1
  <2> QED BY <1>3, <1>7, <2>1, ReadIsSound
<1>8. CASE Next
  <2>1. /\ case' = case
        /\ \/ \E r \in case.readers : ReaderStep(r) \/ Close(r)
           \/ \E r \in case.readers, h \in case.hashes : OpenLazy(r, h) \/ \E m \in case.mounts : StartOpen(r, m, h)
           \/ \E r \in case.readers, n \in case.lengths : \E offset \in 0..reader[r].ps.size : Read(r, offset, n)
           \/ reader' = reader
    BY <1>8 DEF Next, WarmCache, CacheNext, PlanNext, HttpNext
  <2> QED BY <1>2, <1>4, <1>5, <1>6, <1>7, <2>1
<1> QED BY <1>1, <1>8

\* What is right byte by byte is what HoldsFile says of the buffers.
LEMMA HoldsIt == ASSUME NEW ps, PsOK(ps) PROVE HoldsFile(ps)
<1>1. ps \in PsRec /\ BufOK(ps) /\ SeekOK(ps) /\ Numbers(ps)
  BY PsNumbers DEF PsOK
<1> DEFINE l == ps.len
           f == ps.front
           a == ps.start
           B == Len(FlattenSeq(ps.chunks))
<1>2. l \in Nat /\ f \in Nat /\ a \in Nat /\ B = f + l
  BY <1>1 DEF Numbers, BufOK
<1>3. l = B - f
  <2> HIDE DEF l, f, B
  <2> QED BY <1>2
<1>4. ReadChunkRange(ps, 0, l) = Bytes(a, a + l)
  <2>1. ReadChunkRange(ps, 0, l) = Bytes(ps.start + 0, ps.start + 0 + l)
    <3>1. 0 + l <= ps.len /\ 0 \in Nat /\ l \in Nat
      BY <1>2
    <3> HIDE DEF l
    <3> QED BY ONLY <1>1, <3>1, RangeIs
  <2>2. ps.start + 0 = a
    BY <1>2
  <2> QED BY <2>1, <2>2
<1> QED BY <1>1, <1>3, <1>4 DEF HoldsFile, SeekOK, BufEnd

\* Whatever the sequence of reads, short streams, failed fetches, evicted
\* plans and closed handles, of any number of readers: what read() returns
\* are the bytes at the offset, as many as were asked for or the file has; the
\* forward buffer and the seek window hold the bytes of the offsets they
\* claim; and the stream that is kept goes on where the buffer ends.
THEOREM ReadsAreExact == Spec => []ReadsExact
<1>1. Init => RInv
  BY ReadsStart
<1>2. RInv /\ [Next]_vars => RInv'
  BY ReadsStep
<1>3. RInv => ReadsExact
  <2> SUFFICES ASSUME RInv, NEW r \in Reader
               PROVE  /\ reader[r].pc = "answered" => Whole(reader[r])
                      /\ HoldsFile(reader[r].ps)
                      /\ reader[r].pc = "open" => StreamFollows(reader[r].ps)
    BY DEF ReadsExact, ReadIsExact, BuffersHold, StreamFollowsBuffer, Whole, StreamFollows
  <2>1. Sound(reader[r])
    BY DEF RInv
  <2> QED BY <2>1, HoldsIt DEF Sound
<1> QED BY <1>1, <1>2, <1>3, PTL DEF Spec

-----------------------------------------------------------------------------
(* The entries that a retain keeps.                                        *)

IsOnly(s, S, L, f) == DOMAIN f = 0..L /\ \A n \in 0..L :
    f[n] = IF n = 0 THEN <<>> ELSE IF s[n] \in S THEN Append(f[n - 1], s[n]) ELSE f[n - 1]
\* u is what s has in S up to its n-th entry.
Picked(X, s, S, n, u) ==
    /\ u \in Seq(X) /\ Len(u) <= n
    /\ \A i \in 1..Len(u) : u[i] \in S /\ \E j \in 1..n : u[i] = s[j]
    /\ \A j \in 1..n : s[j] \in S => \E i \in 1..Len(u) : u[i] = s[j]
Distinct(s) == \A i, j \in 1..Len(s) : s[i] = s[j] => i = j

LEMMA AppendIs ==
    ASSUME NEW X, NEW u \in Seq(X), NEW e \in X, NEW v, v = Append(u, e)
    PROVE  /\ v \in Seq(X) /\ Len(v) = Len(u) + 1 /\ Len(u) \in Nat
           /\ v[Len(u) + 1] = e /\ \A i \in 1..Len(u) : v[i] = u[i]
  OBVIOUS

LEMMA OnlyExists ==
    ASSUME NEW X, NEW L \in Nat, NEW s, \A i \in 1..L : s[i] \in X, NEW S
    PROVE  \E f : IsOnly(s, S, L, f)
<1> DEFINE To(n, f) == /\ DOMAIN f = 0..n
                       /\ \A m \in 0..n : f[m] = IF m = 0 THEN <<>> ELSE IF s[m] \in S THEN Append(f[m - 1], s[m]) ELSE f[m - 1]
           P == {n \in 0..L : \E f : To(n, f)}
<1>1. 0 \in P
  <2> DEFINE f == [m \in 0..0 |-> <<>>]
  <2>1. DOMAIN f = 0..0 /\ f[0] = <<>>
    OBVIOUS
  <2> HIDE DEF f
  <2>2. To(0, f)
    BY <2>1
  <2> HIDE DEF To
  <2> QED BY <2>2
<1>2. ASSUME NEW n \in 0..L - 1, n \in P PROVE n + 1 \in P
  <2>1. PICK f : To(n, f)
    BY <1>2
  <2> DEFINE last == IF s[n + 1] \in S THEN Append(f[n], s[n + 1]) ELSE f[n]
             g == [m \in 0..n + 1 |-> IF m <= n THEN f[m] ELSE last]
  <2>2. n \in Nat /\ n + 1 \in 0..L
    OBVIOUS
  <2>3. /\ DOMAIN g = 0..n + 1 /\ g[n + 1] = last
        /\ \A m \in 0..n : g[m] = f[m]
    BY <2>2
  <2> HIDE DEF g
  <2>4. ASSUME NEW m \in 0..n + 1
        PROVE  g[m] = IF m = 0 THEN <<>> ELSE IF s[m] \in S THEN Append(g[m - 1], s[m]) ELSE g[m - 1]
    <3>1. CASE m \in 0..n
      <4>1. m # 0 => m - 1 \in 0..n
        BY <2>2, <3>1
      <4>2. f[m] = IF m = 0 THEN <<>> ELSE IF s[m] \in S THEN Append(f[m - 1], s[m]) ELSE f[m - 1]
        BY <2>1, <3>1
      <4> QED BY <2>3, <3>1, <4>1, <4>2
    <3>2. CASE m = n + 1
      <4>1. m # 0 /\ m - 1 = n /\ n \in 0..n
        BY <2>2, <3>2
      <4> QED BY <2>3, <3>2, <4>1
    <3>3. m \in 0..n \/ m = n + 1
      BY <2>2
    <3> QED BY <3>1, <3>2, <3>3
  <2>5. To(n + 1, g)
    BY <2>3, <2>4
  <2> HIDE DEF To
  <2> QED BY <2>2, <2>5
<1>3. L \in P
  <2> HIDE DEF P
  <2>1. \A n \in 0..L - 1 : n \in P => n + 1 \in P
    BY <1>2
  <2>2. \A n \in 0..L : n \in P
    BY ONLY <1>1, <2>1, L \in Nat, Induct
  <2> QED BY <2>2
<1> QED BY <1>3 DEF IsOnly

LEMMA OnlyIs ==
    ASSUME NEW X, NEW s \in Seq(X), NEW S
    PROVE  \E f : IsOnly(s, S, Len(s), f) /\ Only(s, S) = f[Len(s)]
<1> DEFINE rec(f) == [n \in 0..Len(s) |-> IF n = 0 THEN <<>>
                                 ELSE IF s[n] \in S THEN Append(f[n - 1], s[n]) ELSE f[n - 1]]
           h == CHOOSE f : f = rec(f)
<1>0. Len(s) \in Nat /\ \A i \in 1..Len(s) : s[i] \in X
  BY LenProperties, ElementOfSeq
<1>1. PICK g : IsOnly(s, S, Len(s), g)
  <2> DEFINE L == Len(s)
  <2>1. L \in Nat /\ \A i \in 1..L : s[i] \in X
    BY <1>0
  <2> HIDE DEF L
  <2>2. \E f : IsOnly(s, S, L, f)
    BY ONLY <2>1, OnlyExists
  <2> QED BY <2>2 DEF L
<1>2. \E f : f = rec(f)
  <2> DEFINE e == [n \in 0..Len(s) |-> g[n]]
  <2>1. \A n \in 0..Len(s) : n # 0 => n - 1 \in 0..Len(s)
    BY <1>0
  <2>2. \A n \in 0..Len(s) : e[n] = IF n = 0 THEN <<>> ELSE IF s[n] \in S THEN Append(e[n - 1], s[n]) ELSE e[n - 1]
    BY <1>1, <2>1 DEF IsOnly
  <2>3. e = [n \in 0..Len(s) |-> e[n]]
    OBVIOUS
  <2> HIDE DEF e
  <2>4. e = rec(e)
    BY <2>2, <2>3
  <2> HIDE DEF rec
  <2> QED BY <2>4
<1>3. h = rec(h)
  <2> HIDE DEF rec
  <2> QED BY <1>2
<1>4. Only(s, S) = h[Len(s)]
  BY DEF Only
<1> HIDE DEF h
<1>5. IsOnly(s, S, Len(s), h)
  BY <1>3 DEF IsOnly
<1> QED BY <1>4, <1>5

LEMMA OnlyPicks ==
    ASSUME NEW X, NEW s \in Seq(X), NEW S
    PROVE  /\ Picked(X, s, S, Len(s), Only(s, S))
           /\ Distinct(s) => Distinct(Only(s, S))
<1>0. Len(s) \in Nat /\ \A i \in 1..Len(s) : s[i] \in X
  BY LenProperties, ElementOfSeq
<1>1. PICK f : IsOnly(s, S, Len(s), f) /\ Only(s, S) = f[Len(s)]
  BY OnlyIs
<1> DEFINE Fine(n) == Picked(X, s, S, n, f[n]) /\ (Distinct(s) => Distinct(f[n]))
           P == {n \in 0..Len(s) : Fine(n)}
<1>2. 0 \in P
  <2>1. f[0] = <<>> /\ 0 \in 0..Len(s)
    BY <1>0, <1>1 DEF IsOnly
  <2>2. <<>> \in Seq(X) /\ Len(<<>>) = 0
    OBVIOUS
  <2>3. Picked(X, s, S, 0, <<>>) /\ Distinct(<<>>)
    BY <2>2 DEF Picked, Distinct
  <2> QED BY <2>1, <2>3
<1>3. ASSUME NEW n \in 0..Len(s) - 1, n \in P PROVE n + 1 \in P
  <2> DEFINE u == f[n]
             v == f[n + 1]
             e == s[n + 1]
  <2>0. n \in Nat /\ n + 1 \in 1..Len(s) /\ n + 1 \in 0..Len(s) /\ n + 1 # 0 /\ (n + 1) - 1 = n
    BY <1>0
  <2>1. v = IF e \in S THEN Append(u, e) ELSE u
    BY <1>1, <2>0 DEF IsOnly
  <2>2. e \in X /\ Picked(X, s, S, n, u) /\ (Distinct(s) => Distinct(u))
    BY <1>0, <1>3, <2>0
  <2> HIDE DEF u, v
  <2>3. CASE e \notin S
    <3>1. Picked(X, s, S, n + 1, u)
      <4>1. u \in Seq(X) /\ Len(u) <= n + 1
        BY <2>0, <2>2, LenProperties DEF Picked
      <4>2. ASSUME NEW i \in 1..Len(u) PROVE u[i] \in S /\ \E j \in 1..n + 1 : u[i] = s[j]
        BY <2>0, <2>2 DEF Picked
      <4>3. ASSUME NEW j \in 1..n + 1, s[j] \in S PROVE \E i \in 1..Len(u) : u[i] = s[j]
        <5>1. j \in 1..n
          BY <2>0, <2>3, <4>3
        <5> QED BY <2>2, <4>3, <5>1 DEF Picked
      <4> QED BY <4>1, <4>2, <4>3 DEF Picked
    <3> QED BY <2>0, <2>1, <2>2, <2>3, <3>1 DEF u, v
  <2>4. CASE e \in S
    <3>1. /\ v \in Seq(X) /\ Len(v) = Len(u) + 1 /\ Len(u) \in Nat
          /\ v[Len(u) + 1] = e /\ \A i \in 1..Len(u) : v[i] = u[i]
      <4>1. v = Append(u, e) /\ u \in Seq(X) /\ e \in X
        BY <2>1, <2>2, <2>4 DEF Picked
      <4> HIDE DEF e
      <4> QED BY ONLY <4>1, AppendIs
    <3>2. \A i \in 1..Len(v) : i \in 1..Len(u) \/ i = Len(u) + 1
      BY <3>1
    <3>3. \A j \in 1..n + 1 : j \in 1..n \/ j = n + 1
      BY <2>0
    <3>4. Len(u) + 1 \in 1..Len(v) /\ n + 1 \in 1..n + 1 /\ (\A i \in 1..Len(u) : i \in 1..Len(v))
          /\ \A j \in 1..n : j \in 1..n + 1
      BY <2>0, <3>1
    <3>5. Picked(X, s, S, n + 1, v)
      <4>1. v \in Seq(X) /\ Len(v) <= n + 1
        BY <2>0, <2>2, <3>1 DEF Picked
      <4>2. ASSUME NEW i \in 1..Len(v) PROVE v[i] \in S /\ \E j \in 1..n + 1 : v[i] = s[j]
        <5>1. CASE i = Len(u) + 1
          BY <2>4, <3>1, <3>4, <5>1
        <5>2. CASE i \in 1..Len(u)
          <6>1. u[i] \in S /\ \E j \in 1..n : u[i] = s[j]
            BY <2>2, <5>2 DEF Picked
          <6> HIDE DEF e
          <6> QED BY <3>1, <3>4, <5>2, <6>1
        <5> QED BY <3>2, <5>1, <5>2
      <4>3. ASSUME NEW j \in 1..n + 1, s[j] \in S PROVE \E i \in 1..Len(v) : v[i] = s[j]
        <5>1. CASE j = n + 1
          BY <3>1, <3>4, <5>1
        <5>2. CASE j \in 1..n
          <6>1. PICK i \in 1..Len(u) : u[i] = s[j]
            BY <2>2, <4>3, <5>2 DEF Picked
          <6> QED BY <3>1, <3>4, <6>1
        <5> QED BY <3>3, <5>1, <5>2
      <4> QED BY <4>1, <4>2, <4>3 DEF Picked
    <3>6. ASSUME Distinct(s) PROVE Distinct(v)
      <4>1. ASSUME NEW i \in 1..Len(u), u[i] = e PROVE FALSE
        <5>1. PICK j \in 1..n : u[i] = s[j]
          BY <2>2 DEF Picked
        <5>2. j \in 1..Len(s) /\ j # n + 1
          BY <2>0
        <5> QED BY <2>0, <3>6, <4>1, <5>1, <5>2 DEF Distinct
      <4>2. Distinct(u)
        BY <2>2, <3>6
      <4> SUFFICES ASSUME NEW i \in 1..Len(v), NEW j \in 1..Len(v), v[i] = v[j] PROVE i = j
        BY DEF Distinct
      <4>3. CASE i \in 1..Len(u) /\ j \in 1..Len(u)
        BY <3>1, <4>2, <4>3 DEF Distinct
      <4>4. CASE i = Len(u) + 1 \/ j = Len(u) + 1
        BY <3>1, <3>2, <4>1, <4>4
      <4> QED BY <3>2, <4>3, <4>4
    <3> QED BY <2>0, <3>5, <3>6 DEF v
  <2> QED BY <2>3, <2>4
<1>4. Len(s) \in P
  <2> HIDE DEF P
  <2>1. \A n \in 0..Len(s) - 1 : n \in P => n + 1 \in P
    BY <1>3
  <2> DEFINE L == Len(s)
  <2>2. L \in Nat
    BY <1>0
  <2>3. \A n \in 0..L - 1 : n \in P => n + 1 \in P
    BY <2>1
  <2> HIDE DEF L
  <2>4. \A n \in 0..L : n \in P
    BY ONLY <1>2, <2>2, <2>3, Induct
  <2>5. L \in 0..L
    BY <2>2
  <2> QED BY <2>4, <2>5 DEF L
<1> QED BY <1>1, <1>4

-----------------------------------------------------------------------------
(* The sum of the sizes of a set of files.                                 *)

IsSum(S, f) == f \in [SUBSET S -> Nat] /\ f[{}] = 0 /\ \A s \in SUBSET S : \A x \in s : f[s] = SizeOf[x] + f[s \ {x}]
Summable(S) == IsFiniteSet(S) /\ S \subseteq Hash

LEMMA MinimalSubset ==
    ASSUME NEW S, IsFiniteSet(S), NEW F, F \subseteq SUBSET S, F # {}
    PROVE  \E T \in F : \A r \in F : r \subseteq T => r = T
<1> DEFINE N == {Cardinality(T) : T \in F}
<1>1. \A T \in F : IsFiniteSet(T) /\ Cardinality(T) \in Nat
  BY FS_Subset, FS_CardinalityType
<1>2. N \subseteq Nat /\ N # {}
  BY <1>1
<1>3. PICK m \in N : \A n \in N : m <= n
  <2> HIDE DEF N
  <2> QED BY <1>2, LeastOf
<1>4. PICK T \in F : Cardinality(T) = m
  BY <1>3
<1>5. ASSUME NEW r \in F, r \subseteq T PROVE r = T
  <2>1. Cardinality(r) <= Cardinality(T) /\ (Cardinality(T) = Cardinality(r) => T = r)
    BY <1>1, <1>5, FS_Subset
  <2>2. Cardinality(T) <= Cardinality(r)
    BY <1>3, <1>4
  <2> QED BY <1>1, <2>1, <2>2
<1> QED BY <1>5

LEMMA SizesAre == \A h \in Hash : SizeOf[h] \in Nat
  BY FileCacheAssumption

LEMMA SumExists == ASSUME NEW S, Summable(S) PROVE \E f : IsSum(S, f)
<1> DEFINE Bad == {T \in SUBSET S : ~\E f : IsSum(T, f)}
<1>1. SUFFICES ASSUME Bad # {} PROVE FALSE
  OBVIOUS
<1>2. PICK T \in Bad : \A r \in Bad : r \subseteq T => r = T
  <2>1. Bad \subseteq SUBSET S
    OBVIOUS
  <2> HIDE DEF Bad
  <2> QED BY <1>1, <2>1, MinimalSubset DEF Summable
<1>3. CASE T = {}
  <2> DEFINE f == [s \in SUBSET {} |-> 0]
  <2>1. f \in [SUBSET {} -> Nat] /\ f[{}] = 0
    OBVIOUS
  <2> HIDE DEF f
  <2>2. IsSum({}, f)
    BY <2>1 DEF IsSum
  <2> QED BY <1>2, <1>3, <2>2
<1>4. CASE T # {}
  <2>1. PICK x : x \in T
    BY <1>4
  <2>2. T \ {x} \notin Bad /\ T \subseteq S
    BY <1>2, <2>1
  <2>3. PICK g : IsSum(T \ {x}, g)
    BY <2>2
  <2> DEFINE f == [s \in SUBSET T |-> IF x \in s THEN SizeOf[x] + g[s \ {x}] ELSE g[s]]
  <2>4. \A s \in SUBSET T : f[s] = IF x \in s THEN SizeOf[x] + g[s \ {x}] ELSE g[s]
    OBVIOUS
  <2>5. SizeOf[x] \in Nat /\ \A s \in SUBSET (T \ {x}) : g[s] \in Nat
    BY <2>1, <2>2, <2>3, SizesAre DEF IsSum, Summable
  <2>6. \A s \in SUBSET T : s \ {x} \in SUBSET (T \ {x}) /\ (x \notin s => s \in SUBSET (T \ {x}))
    OBVIOUS
  <2>7. f \in [SUBSET T -> Nat]
    <3>1. \A s \in SUBSET T : f[s] \in Nat
      BY <2>4, <2>5, <2>6
    <3>2. f = [s \in SUBSET T |-> f[s]]
      OBVIOUS
    <3> HIDE DEF f
    <3> QED BY <3>1, <3>2
  <2> HIDE DEF f
  <2>8. f[{}] = 0
    BY <2>3, <2>4 DEF IsSum
  <2>9. ASSUME NEW s \in SUBSET T, NEW y \in s PROVE f[s] = SizeOf[y] + f[s \ {y}]
    <3>0. s \ {y} \in SUBSET T /\ SizeOf[y] \in Nat
      BY <2>2, SizesAre DEF Summable
    <3>1. CASE y = x
      <4>1. f[s] = SizeOf[x] + g[s \ {x}] /\ f[s \ {x}] = g[s \ {x}]
        BY <2>4, <3>0, <3>1
      <4> QED BY <3>1, <4>1
    <3>2. CASE y # x /\ x \notin s
      <4>1. f[s] = g[s] /\ f[s \ {y}] = g[s \ {y}] /\ s \in SUBSET (T \ {x})
        BY <2>4, <3>0, <3>2
      <4>2. g[s] = SizeOf[y] + g[s \ {y}]
        BY <2>3, <4>1 DEF IsSum
      <4> QED BY <4>1, <4>2
    <3>3. CASE y # x /\ x \in s
      <4> DEFINE q == s \ {x}
      <4>1. f[s] = SizeOf[x] + g[q]
        BY <2>4, <3>3
      <4>2. f[s \ {y}] = SizeOf[x] + g[(s \ {y}) \ {x}]
        BY <2>4, <3>0, <3>3
      <4>3. (s \ {y}) \ {x} = q \ {y} /\ q \in SUBSET (T \ {x}) /\ y \in q /\ q \ {y} \in SUBSET (T \ {x})
        BY <3>3
      <4> HIDE DEF q
      <4>4. g[q] = SizeOf[y] + g[q \ {y}] /\ g[q \ {y}] \in Nat
        BY <2>3, <2>5, <4>3 DEF IsSum
      <4>5. f[s \ {y}] = SizeOf[x] + g[q \ {y}]
        BY <4>2, <4>3
      <4> QED BY <2>5, <3>0, <4>1, <4>4, <4>5
    <3> QED BY <3>1, <3>2, <3>3
  <2>10. IsSum(T, f)
    BY <2>7, <2>8, <2>9 DEF IsSum
  <2> QED BY <1>2, <2>10
<1> QED BY <1>3, <1>4

LEMMA SumIs ==
    ASSUME NEW S, Summable(S), NEW f, IsSum(S, f)
    PROVE  SizeSum(S) = f[S]
<1> DEFINE rec(g) == [s \in SUBSET S |-> IF s = {} THEN 0
                        ELSE LET x == CHOOSE x \in s : TRUE IN SizeOf[x] + g[s \ {x}]]
           h == CHOOSE g : g = rec(g)
<1>1. SizeSum(S) = h[S]
  BY DEF SizeSum, MapThenSumSet, MapThenFoldSet
<1>2. f = rec(f)
  <2>1. ASSUME NEW s \in SUBSET S
        PROVE  f[s] = IF s = {} THEN 0 ELSE LET x == CHOOSE x \in s : TRUE IN SizeOf[x] + f[s \ {x}]
    <3>1. CASE s = {}
      BY <3>1 DEF IsSum
    <3>2. CASE s # {}
      <4> DEFINE x == CHOOSE x \in s : TRUE
      <4>1. x \in s
        BY <3>2
      <4> HIDE DEF x
      <4>2. f[s] = SizeOf[x] + f[s \ {x}]
        BY <4>1 DEF IsSum
      <4> QED BY <3>2, <4>2 DEF x
    <3> QED BY <3>1, <3>2
  <2>2. f = [s \in SUBSET S |-> f[s]]
    BY DEF IsSum
  <2> QED BY <2>1, <2>2
<1>3. h = rec(h)
  <2> HIDE DEF rec
  <2> QED BY <1>2
<1> HIDE DEF h
<1>4. \A s \in SUBSET S : h[s] = IF s = {} THEN 0 ELSE LET x == CHOOSE x \in s : TRUE IN SizeOf[x] + h[s \ {x}]
  BY <1>3
<1> DEFINE Bad == {s \in SUBSET S : h[s] # f[s]}
<1>5. ASSUME Bad # {} PROVE FALSE
  <2>1. PICK s \in Bad : \A r \in Bad : r \subseteq s => r = s
    <3>1. Bad \subseteq SUBSET S
      OBVIOUS
    <3> HIDE DEF Bad
    <3> QED BY <1>5, <3>1, MinimalSubset DEF Summable
  <2>2. s \in SUBSET S /\ h[s] # f[s]
    OBVIOUS
  <2>3. s # {}
    BY <1>4, <2>2 DEF IsSum
  <2> DEFINE x == CHOOSE x \in s : TRUE
  <2>4. x \in s /\ h[s] = SizeOf[x] + h[s \ {x}]
    BY <1>4, <2>2, <2>3
  <2> HIDE DEF x
  <2>5. h[s \ {x}] = f[s \ {x}]
    BY <2>1, <2>2, <2>4
  <2>6. f[s] = SizeOf[x] + f[s \ {x}]
    BY <2>2, <2>4 DEF IsSum
  <2> QED BY <2>2, <2>4, <2>5, <2>6
<1> QED BY <1>1, <1>5

LEMMA SumNext ==
    ASSUME NEW S, Summable(S)
    PROVE  /\ SizeSum(S) \in Nat /\ SizeSum({}) = 0
           /\ \A x \in S : SizeSum(S) = SizeOf[x] + SizeSum(S \ {x})
           /\ \A x \in Hash \ S : SizeSum(S \cup {x}) = SizeOf[x] + SizeSum(S)
<1>a. ASSUME NEW R, Summable(R), NEW x \in R
      PROVE  SizeSum(R) = SizeOf[x] + SizeSum(R \ {x})
  <2>1. PICK f : IsSum(R, f)
    BY <1>a, SumExists
  <2> DEFINE g == [s \in SUBSET (R \ {x}) |-> f[s]]
  <2>2. g \in [SUBSET (R \ {x}) -> Nat] /\ \A s \in SUBSET (R \ {x}) : g[s] = f[s]
    BY <2>1 DEF IsSum
  <2> HIDE DEF g
  <2>3. \A s \in SUBSET (R \ {x}) : s \in SUBSET R /\ \A y \in s : s \ {y} \in SUBSET (R \ {x})
    OBVIOUS
  <2>4. IsSum(R \ {x}, g)
    BY <2>1, <2>2, <2>3 DEF IsSum
  <2>5. Summable(R \ {x})
    BY <1>a, FS_RemoveElement DEF Summable
  <2>6. SizeSum(R) = f[R] /\ SizeSum(R \ {x}) = g[R \ {x}]
    BY <1>a, <2>1, <2>4, <2>5, SumIs
  <2>7. f[R] = SizeOf[x] + f[R \ {x}] /\ g[R \ {x}] = f[R \ {x}]
    BY <2>1, <2>2 DEF IsSum
  <2> QED BY <2>6, <2>7
<1>1. SizeSum(S) \in Nat
  <2>1. PICK f : IsSum(S, f)
    BY SumExists
  <2>2. f[S] \in Nat
    BY <2>1 DEF IsSum
  <2> QED BY <2>1, <2>2, SumIs
<1>2. SizeSum({}) = 0
  <2>1. Summable({})
    BY FS_EmptySet DEF Summable
  <2>2. PICK f : IsSum({}, f)
    BY <2>1, SumExists
  <2> QED BY <2>1, <2>2, SumIs DEF IsSum
<1>3. ASSUME NEW x \in Hash \ S PROVE SizeSum(S \cup {x}) = SizeOf[x] + SizeSum(S)
  <2>1. Summable(S \cup {x}) /\ (S \cup {x}) \ {x} = S /\ x \in S \cup {x}
    BY FS_AddElement DEF Summable
  <2> QED BY <1>a, <2>1
<1> QED BY <1>1, <1>2, <1>3, <1>a

-----------------------------------------------------------------------------
(* The table of a cache: no file twice, and the total of their sizes.      *)

CacheRec == [items : Seq(Hash), total : Nat, inflight : SUBSET Hash]
Counted(c) == c \in CacheRec /\ Distinct(c.items) /\ c.total = SizeSum(ToSet(c.items))

\* What the entries of a sequence are.
Listing(X, s) ==
    /\ ToSet(s) \subseteq X /\ IsFiniteSet(ToSet(s))
    /\ \A e : e \in ToSet(s) <=> \E i \in 1..Len(s) : s[i] = e
    /\ \A e : Contains(s, e) <=> e \in ToSet(s)
    /\ IsInjective(s) <=> Distinct(s)
LEMMA ToSetIs == ASSUME NEW X, NEW s \in Seq(X) PROVE Listing(X, s)
<1>1. DOMAIN s = 1..Len(s) /\ Len(s) \in Nat /\ s \in [1..Len(s) -> X]
  BY LenProperties
<1>2. \A e : e \in ToSet(s) <=> \E i \in 1..Len(s) : s[i] = e
  BY <1>1 DEF ToSet
<1>3. ToSet(s) \subseteq X
  BY <1>1, <1>2
<1>4. IsFiniteSet(ToSet(s))
  <2>1. IsFiniteSet(1..Len(s))
    BY <1>1, FS_Interval
  <2>2. s \in Surjection(1..Len(s), ToSet(s))
    BY <1>1, <1>2 DEF Surjection
  <2> QED BY <2>1, <2>2, FS_Surjection
<1>5. IsInjective(s) <=> Distinct(s)
  BY <1>1 DEF IsInjective, Distinct
<1>6. \A e : Contains(s, e) <=> e \in ToSet(s)
  BY <1>2 DEF Contains
<1> QED BY <1>2, <1>3, <1>4, <1>5, <1>6 DEF Listing

LEMMA OnlySet ==
    ASSUME NEW X, NEW s \in Seq(X), Distinct(s), NEW S
    PROVE  LET u == Only(s, S)
           IN  u \in Seq(X) /\ Distinct(u) /\ ToSet(u) = ToSet(s) \cap S /\ Len(u) <= Len(s)
<1> DEFINE u == Only(s, S)
<1>1. Picked(X, s, S, Len(s), u) /\ Distinct(u)
  BY OnlyPicks
<1> HIDE DEF u
<1>2. u \in Seq(X) /\ Len(u) <= Len(s)
  BY <1>1 DEF Picked
<1>3. \A e : e \in ToSet(s) <=> \E i \in 1..Len(s) : s[i] = e
  BY ToSetIs DEF Listing
<1>4. \A e : e \in ToSet(u) <=> \E i \in 1..Len(u) : u[i] = e
  <2>1. Listing(X, u)
    BY <1>2, ToSetIs
  <2> QED BY <2>1 DEF Listing
<1>5. ToSet(u) = ToSet(s) \cap S
  BY <1>1, <1>3, <1>4 DEF Picked
<1> QED BY <1>1, <1>2, <1>5 DEF u

LEMMA WithoutIs ==
    ASSUME NEW s \in Seq(Hash), Distinct(s), NEW h, NEW u, u = Without(s, h)
    PROVE  u \in Seq(Hash) /\ Distinct(u) /\ ToSet(u) = ToSet(s) \ {h} /\ Len(u) <= Len(s)
<1>1. u = Only(s, ToSet(s) \ {h})
  BY DEF Without
<1>2. u \in Seq(Hash) /\ Distinct(u) /\ ToSet(u) = ToSet(s) \cap (ToSet(s) \ {h}) /\ Len(u) <= Len(s)
  BY <1>1, OnlySet
<1> QED BY <1>2

OneMore(X, s, h, u) == u \in Seq(X) /\ Distinct(u) /\ ToSet(u) = ToSet(s) \cup {h} /\ Len(u) = Len(s) + 1
LEMMA AppendSet ==
    ASSUME NEW X, NEW s, s \in Seq(X), Distinct(s), NEW h, h \in X, h \notin ToSet(s)
    PROVE  OneMore(X, s, h, Append(s, h))
<1> DEFINE u == Append(s, h)
<1>1. /\ u \in Seq(X) /\ Len(u) = Len(s) + 1 /\ Len(s) \in Nat
      /\ u[Len(s) + 1] = h /\ \A i \in 1..Len(s) : u[i] = s[i]
  BY AppendIs
<1> HIDE DEF u
<1>2. \A i \in 1..Len(u) : i \in 1..Len(s) \/ i = Len(s) + 1
  BY <1>1
<1>3. Len(s) + 1 \in 1..Len(u) /\ \A i \in 1..Len(s) : i \in 1..Len(u)
  BY <1>1
<1>4. \A e : e \in ToSet(s) <=> \E i \in 1..Len(s) : s[i] = e
  BY ToSetIs DEF Listing
<1>5. \A e : e \in ToSet(u) <=> \E i \in 1..Len(u) : u[i] = e
  BY <1>1, ToSetIs DEF Listing
<1>6. ToSet(u) = ToSet(s) \cup {h}
  <2>1. ASSUME NEW e \in ToSet(u) PROVE e \in ToSet(s) \cup {h}
    BY <1>1, <1>2, <1>4, <1>5, <2>1
  <2>2. ASSUME NEW e \in ToSet(s) \cup {h} PROVE e \in ToSet(u)
    BY <1>1, <1>3, <1>4, <1>5, <2>2
  <2> QED BY <2>1, <2>2
<1>7. Distinct(u)
  <2> SUFFICES ASSUME NEW i \in 1..Len(u), NEW j \in 1..Len(u), u[i] = u[j] PROVE i = j
    BY DEF Distinct
  <2>1. CASE i \in 1..Len(s) /\ j \in 1..Len(s)
    BY <1>1, <2>1 DEF Distinct
  <2>2. CASE i = Len(s) + 1 \/ j = Len(s) + 1
    BY <1>1, <1>2, <1>4, <2>2
  <2> QED BY <1>2, <2>1, <2>2
<1> QED BY <1>1, <1>6, <1>7 DEF OneMore, u

LEMMA CountedIs ==
    ASSUME NEW c, Counted(c)
    PROVE  /\ c \in CacheRec /\ c.items \in Seq(Hash) /\ c.inflight \subseteq Hash /\ Distinct(c.items)
           /\ Summable(ToSet(c.items)) /\ c.total = SizeSum(ToSet(c.items)) /\ c.total \in Nat
<1>1. c.items \in Seq(Hash) /\ c.total \in Nat /\ c.inflight \subseteq Hash
  BY DEF Counted, CacheRec
<1>2. Summable(ToSet(c.items))
  BY <1>1, ToSetIs DEF Summable, Listing
<1> QED BY <1>1, <1>2 DEF Counted

LEMMA ForgottenIs ==
    ASSUME NEW c, Counted(c), NEW h, NEW d, d = Forgotten(c, h)
    PROVE  Counted(d) /\ ToSet(d.items) = ToSet(c.items) \ {h} /\ d.inflight = c.inflight
<1>0. /\ c \in CacheRec /\ c.items \in Seq(Hash) /\ Distinct(c.items)
      /\ Summable(ToSet(c.items)) /\ c.total = SizeSum(ToSet(c.items)) /\ c.total \in Nat
  BY CountedIs
<1>1. Contains(c.items, h) <=> h \in ToSet(c.items)
  BY <1>0, ToSetIs DEF Listing
<1>2. CASE h \notin ToSet(c.items)
  BY <1>1, <1>2 DEF Forgotten
<1>3. CASE h \in ToSet(c.items)
  <2> DEFINE u == Without(c.items, h)
             n == c.total - SizeOf[h]
  <2>1. d = [c EXCEPT !.items = u, !.total = n]
    BY <1>1, <1>3 DEF Forgotten
  <2>2. u \in Seq(Hash) /\ Distinct(u) /\ ToSet(u) = ToSet(c.items) \ {h}
    BY <1>0, WithoutIs
  <2>3. Summable(ToSet(u)) /\ h \in Hash
    BY <1>0, <1>3, <2>2, FS_RemoveElement DEF Summable
  <2>4. n = SizeSum(ToSet(u)) /\ n \in Nat
    <3>1. SizeSum(ToSet(c.items)) = SizeOf[h] + SizeSum(ToSet(c.items) \ {h})
      BY <1>0, <1>3, SumNext
    <3>2. SizeSum(ToSet(u)) \in Nat /\ SizeOf[h] \in Nat
      BY <2>3, SumNext, SizesAre
    <3> HIDE DEF u
    <3> QED BY <1>0, <2>2, <3>1, <3>2
  <2> HIDE DEF u, n
  <2>5. d \in CacheRec /\ d.items = u /\ d.total = n /\ d.inflight = c.inflight
    BY <1>0, <2>1, <2>2, <2>4 DEF CacheRec
  <2> QED BY <2>2, <2>4, <2>5 DEF Counted
<1> QED BY <1>2, <1>3

LEMMA TouchedIs ==
    ASSUME NEW c, Counted(c), NEW h \in ToSet(c.items), NEW d, d = [c EXCEPT !.items = Touched(@, h)]
    PROVE  Counted(d) /\ ToSet(d.items) = ToSet(c.items) /\ d.inflight = c.inflight
<1>0. c \in CacheRec /\ c.items \in Seq(Hash) /\ Distinct(c.items) /\ c.total = SizeSum(ToSet(c.items)) /\ h \in Hash
  BY CountedIs DEF Summable
<1> DEFINE u == Without(c.items, h)
           v == Append(u, h)
<1>1. d = [c EXCEPT !.items = v]
  BY DEF Touched
<1>2. u \in Seq(Hash) /\ Distinct(u) /\ ToSet(u) = ToSet(c.items) \ {h}
  BY <1>0, WithoutIs
<1> HIDE DEF u
<1>3. v \in Seq(Hash) /\ Distinct(v) /\ ToSet(v) = ToSet(u) \cup {h}
  <2>1. u \in Seq(Hash) /\ Distinct(u) /\ h \in Hash /\ h \notin ToSet(u)
    BY <1>0, <1>2
  <2> QED BY <2>1, AppendSet DEF OneMore
<1>4. ToSet(v) = ToSet(c.items)
  BY <1>2, <1>3
<1> HIDE DEF v
<1>5. d \in CacheRec /\ d.items = v /\ d.total = c.total /\ d.inflight = c.inflight
  BY <1>0, <1>1, <1>3 DEF CacheRec
<1> QED BY <1>0, <1>3, <1>4, <1>5 DEF Counted

LEMMA AddedIs ==
    ASSUME NEW c, Counted(c), NEW h \in Hash, h \notin ToSet(c.items),
           NEW d, d = [c EXCEPT !.items = Append(@, h), !.total = @ + SizeOf[h]]
    PROVE  Counted(d) /\ ToSet(d.items) = ToSet(c.items) \cup {h} /\ d.inflight = c.inflight
<1>0. /\ c \in CacheRec /\ c.items \in Seq(Hash) /\ Distinct(c.items) /\ Summable(ToSet(c.items))
      /\ c.total = SizeSum(ToSet(c.items)) /\ c.total \in Nat
  BY CountedIs
<1> DEFINE v == Append(c.items, h)
           n == c.total + SizeOf[h]
<1>1. v \in Seq(Hash) /\ Distinct(v) /\ ToSet(v) = ToSet(c.items) \cup {h}
  <2>1. OneMore(Hash, c.items, h, v)
    BY <1>0, AppendSet
  <2> QED BY <2>1 DEF OneMore
<1>2. n \in Nat /\ n = SizeSum(ToSet(c.items) \cup {h})
  <2>1. SizeSum(ToSet(c.items) \cup {h}) = SizeOf[h] + SizeSum(ToSet(c.items)) /\ SizeOf[h] \in Nat
    BY <1>0, SumNext, SizesAre
  <2> QED BY <1>0, <2>1
<1> HIDE DEF v, n
<1>3. d = [c EXCEPT !.items = v, !.total = n]
  BY DEF v, n
<1>4. d \in CacheRec /\ d.items = v /\ d.total = n /\ d.inflight = c.inflight
  BY <1>0, <1>1, <1>2, <1>3 DEF CacheRec
<1> QED BY <1>1, <1>2, <1>4 DEF Counted

-----------------------------------------------------------------------------
(* Eviction: the oldest files, one after the other.                        *)

Most1(s) == CHOOSE x \in s : \A y \in s : x >= y
IsEvict(c, v, n, f) == DOMAIN f = SUBSET (1..n) /\ \A s \in SUBSET (1..n) :
    f[s] = IF s = {} THEN c ELSE Forgotten(f[s \ {Most1(s)}], v[Most1(s)])

LEMMA MostOf ==
    ASSUME NEW n \in Nat, NEW s, s \subseteq 1..n, s # {}
    PROVE  Most1(s) \in s /\ \A y \in s : Most1(s) >= y
<1> DEFINE T == {n - x : x \in s}
<1>1. T \subseteq Nat /\ T # {}
  <2>1. ASSUME NEW x \in s PROVE n - x \in Nat
    <3>1. x \in 1..n
      OBVIOUS
    <3> QED BY <3>1
  <2>2. \E x : x \in s
    OBVIOUS
  <2> QED BY <2>1, <2>2
<1>2. PICK m \in T : \A k \in T : m <= k
  <2> HIDE DEF T
  <2> QED BY <1>1, LeastOf
<1>3. PICK x \in s : m = n - x
  BY <1>2
<1>4. \A y \in s : x >= y
  <2> SUFFICES ASSUME NEW y \in s PROVE x >= y
    OBVIOUS
  <2>1. n - y \in T /\ y \in Nat /\ x \in Nat
    OBVIOUS
  <2>2. m <= n - y
    BY <1>2, <2>1
  <2> QED BY <1>3, <2>1, <2>2
<1> QED BY <1>4 DEF Most1

LEMMA EvictExists ==
    ASSUME NEW c, NEW v, NEW L \in Nat
    PROVE  \E f : IsEvict(c, v, L, f)
<1> DEFINE P == {n \in 0..L : \E f : IsEvict(c, v, n, f)}
<1>1. 0 \in P
  <2> DEFINE f == [s \in SUBSET (1..0) |-> c]
  <2>1. DOMAIN f = SUBSET (1..0) /\ \A s \in SUBSET (1..0) : f[s] = c /\ s = {}
    OBVIOUS
  <2> HIDE DEF f
  <2>2. IsEvict(c, v, 0, f)
    BY <2>1 DEF IsEvict
  <2> QED BY <2>2
<1>2. ASSUME NEW n \in 0..L - 1, n \in P PROVE n + 1 \in P
  <2>1. PICK f : IsEvict(c, v, n, f)
    BY <1>2
  <2>2. n \in Nat /\ n + 1 \in 0..L /\ n + 1 \in Nat
    OBVIOUS
  <2> DEFINE one(s) == IF n + 1 \in s THEN Forgotten(f[s \ {n + 1}], v[n + 1]) ELSE f[s]
             g == [s \in SUBSET (1..n + 1) |-> one(s)]
  <2>3. DOMAIN g = SUBSET (1..n + 1) /\ \A s \in SUBSET (1..n + 1) : g[s] = one(s)
    OBVIOUS
  <2> HIDE DEF g
  <2>4. \A s \in SUBSET (1..n + 1) : /\ s \ {n + 1} \in SUBSET (1..n)
                                     /\ n + 1 \notin s => s \in SUBSET (1..n)
                                     /\ s \in SUBSET (1..n) => n + 1 \notin s
    BY <2>2
  <2>5. \A s \in SUBSET (1..n) : s \in SUBSET (1..n + 1) /\ g[s] = f[s]
    <3>1. \A s \in SUBSET (1..n) : s \in SUBSET (1..n + 1) /\ n + 1 \notin s
      BY <2>2
    <3> QED BY <2>3, <3>1
  <2>6. ASSUME NEW s \in SUBSET (1..n + 1), s # {}
        PROVE  g[s] = Forgotten(g[s \ {Most1(s)}], v[Most1(s)])
    <3>1. Most1(s) \in s /\ \A y \in s : Most1(s) >= y
      BY <2>2, <2>6, MostOf
    <3>2. CASE n + 1 \in s
      <4> DEFINE x == Most1(s)
      <4>0. x \in 1..n + 1 /\ x >= n + 1
        BY <3>1, <3>2
      <4> HIDE DEF x
      <4>1. x = n + 1
        BY ONLY <2>2, <4>0
      <4>2. g[s \ {n + 1}] = f[s \ {n + 1}]
        BY <2>4, <2>5
      <4> QED BY <2>3, <3>2, <4>1, <4>2 DEF x
    <3>3. CASE n + 1 \notin s
      <4>1. s \in SUBSET (1..n) /\ s \ {Most1(s)} \in SUBSET (1..n)
        BY <2>4, <3>3
      <4>2. f[s] = Forgotten(f[s \ {Most1(s)}], v[Most1(s)])
        BY <2>1, <2>6, <4>1 DEF IsEvict
      <4> QED BY <2>5, <4>1, <4>2
    <3> QED BY <3>2, <3>3
  <2>7. g[{}] = c
    <3>1. {} \in SUBSET (1..n)
      OBVIOUS
    <3>2. f[{}] = c
      BY <2>1, <3>1 DEF IsEvict
    <3> QED BY <2>5, <3>1, <3>2
  <2>8. IsEvict(c, v, n + 1, g)
    BY <2>3, <2>6, <2>7 DEF IsEvict
  <2> QED BY <2>2, <2>8
<1>3. L \in P
  <2> HIDE DEF P
  <2>1. \A n \in 0..L - 1 : n \in P => n + 1 \in P
    BY <1>2
  <2>2. \A n \in 0..L : n \in P
    BY ONLY <1>1, <2>1, L \in Nat, Induct
  <2> QED BY <2>2
<1> QED BY <1>3

LEMMA FoldIs ==
    ASSUME NEW c, NEW v, NEW L \in Nat, DOMAIN v = 1..L
    PROVE  \E f : IsEvict(c, v, L, f) /\ FoldLeft(Forgotten, c, v) = f[1..L]
<1> DEFINE rec(f) == [s \in SUBSET (1..L) |-> IF s = {} THEN c
                        ELSE LET x == Most1(s) IN Forgotten(f[s \ {x}], v[x])]
           h == CHOOSE f : f = rec(f)
<1>1. FoldLeft(Forgotten, c, v) = h[1..L]
  BY DEF FoldLeft, MapThenFoldSet, Max, Most1
<1>2. PICK g : IsEvict(c, v, L, g)
  BY EvictExists
<1>3. \E f : f = rec(f)
  <2> DEFINE e == [s \in SUBSET (1..L) |-> g[s]]
  <2>1. \A s \in SUBSET (1..L) : s \ {Most1(s)} \in SUBSET (1..L)
    OBVIOUS
  <2>2. \A s \in SUBSET (1..L) : e[s] = IF s = {} THEN c ELSE Forgotten(e[s \ {Most1(s)}], v[Most1(s)])
    BY <1>2, <2>1 DEF IsEvict
  <2>3. e = [s \in SUBSET (1..L) |-> e[s]]
    OBVIOUS
  <2> HIDE DEF e
  <2>4. e = rec(e)
    BY <2>2, <2>3
  <2> HIDE DEF rec
  <2> QED BY <2>4
<1>4. h = rec(h)
  <2> HIDE DEF rec
  <2> QED BY <1>3
<1> HIDE DEF h
<1>5. IsEvict(c, v, L, h)
  BY <1>4 DEF IsEvict
<1> QED BY <1>1, <1>5

LEMMA VictimsAre ==
    ASSUME NEW c, Counted(c)
    PROVE  /\ Victims(c) \in Seq(Hash) /\ ToSet(Victims(c)) \subseteq ToSet(c.items)
<1> DEFINE s == c.items
           freed(k) == SizeSum(ToSet(SubSeq(s, 1, k)))
           K == {k \in 0..Len(s) : c.total - freed(k) <= Capacity}
           best(k) == c.total - freed(k) <= Capacity /\ \A j \in 0..k - 1 : c.total - freed(j) > Capacity
           n == CHOOSE k \in 0..Len(s) : best(k)
<1>0. /\ s \in Seq(Hash) /\ Summable(ToSet(s)) /\ c.total = SizeSum(ToSet(s)) /\ c.total \in Nat
      /\ Capacity \in Nat /\ Len(s) \in Nat
  <2>1. s \in Seq(Hash) /\ Summable(ToSet(s)) /\ c.total = SizeSum(ToSet(s)) /\ c.total \in Nat
    BY CountedIs
  <2> QED BY <2>1, LenProperties, FileCacheAssumption
<1>1. Victims(c) = SubSeq(s, 1, n)
  BY DEF Victims
<1>2. Len(s) \in K
  <2>1. SubSeq(s, 1, Len(s)) = s
    BY <1>0, SubSeqFull
  <2>2. freed(Len(s)) = c.total
    BY <1>0, <2>1
  <2> HIDE DEF freed, s
  <2> QED BY <1>0, <2>2
<1>3. \A k \in 0..Len(s) : freed(k) \in Nat
  <2> SUFFICES ASSUME NEW k \in 0..Len(s) PROVE freed(k) \in Nat
    OBVIOUS
  <2>1. SubSeq(s, 1, k) \in Seq(Hash)
    <3>1. \A i \in 1..k : s[i] \in Hash
      BY <1>0, ElementOfSeq
    <3> QED BY <3>1, SubSeqProperties
  <2>2. Summable(ToSet(SubSeq(s, 1, k)))
    BY <2>1, ToSetIs DEF Summable, Listing
  <2> QED BY <2>2, SumNext
<1>4. n \in 0..Len(s)
  <2>1. PICK m \in K : \A k \in K : m <= k
    <3>1. K \subseteq Nat /\ K # {}
      BY <1>0, <1>2
    <3> HIDE DEF K
    <3> QED BY <3>1, LeastOf
  <2>2. best(m)
    <3>1. m \in 0..Len(s) /\ c.total - freed(m) <= Capacity
      BY <2>1
    <3>2. ASSUME NEW j \in 0..m - 1 PROVE c.total - freed(j) > Capacity
      <4>1. j \in 0..Len(s) /\ j \notin K
        BY <1>0, <2>1, <3>1
      <4>2. ~(c.total - freed(j) <= Capacity)
        BY <4>1
      <4>3. freed(j) \in Nat
        BY <1>3, <4>1
      <4> HIDE DEF freed, K
      <4> QED BY <1>0, <4>2, <4>3
    <3> QED BY <3>1, <3>2
  <2>3. m \in 0..Len(s)
    BY <2>1
  <2> HIDE DEF best, K
  <2> QED BY <2>2, <2>3
<1> HIDE DEF n
<1>5. \A i \in 1..n : s[i] \in Hash
  BY <1>0, <1>4, ElementOfSeq
<1> DEFINE u == SubSeq(s, 1, n)
<1>6. u \in Seq(Hash) /\ Len(u) <= n /\ \A i \in 1..Len(u) : u[i] = s[i]
  <2>1. /\ u \in Seq(Hash) /\ Len(u) = IF 1 <= n THEN n - 1 + 1 ELSE 0
        /\ \A i \in 1..n - 1 + 1 : u[i] = s[1 + i - 1]
    BY <1>0, <1>4, <1>5, SubSeqProperties
  <2> HIDE DEF u, s
  <2> QED BY <1>0, <1>4, <2>1
<1> HIDE DEF u
<1>7. ToSet(u) \subseteq ToSet(s)
  <2>1. \A e : e \in ToSet(u) <=> \E i \in 1..Len(u) : u[i] = e
    BY <1>6, ToSetIs DEF Listing
  <2>2. \A e : e \in ToSet(s) <=> \E i \in 1..Len(s) : s[i] = e
    BY <1>0, ToSetIs DEF Listing
  <2>3. \A i \in 1..Len(u) : i \in 1..Len(s)
    <3>1. Len(u) \in Nat
      BY <1>6, LenProperties
    <3> QED BY <1>0, <1>4, <1>6, <3>1
  <2> HIDE DEF s
  <2> QED BY <1>6, <2>1, <2>2, <2>3
<1> QED BY <1>1, <1>6, <1>7 DEF u

LEMMA EvictedIs ==
    ASSUME NEW c, Counted(c), NEW v \in Seq(Hash), NEW d, d = FoldLeft(Forgotten, c, v)
    PROVE  Counted(d) /\ ToSet(d.items) = ToSet(c.items) \ ToSet(v) /\ d.inflight = c.inflight
<1> DEFINE L == Len(v)
<1>0. L \in Nat /\ DOMAIN v = 1..L
  BY LenProperties
<1>1. PICK f : IsEvict(c, v, L, f) /\ d = f[1..L]
  <2> HIDE DEF L
  <2> QED BY <1>0, FoldIs
<1> HIDE DEF L
<1> DEFINE Gone(n) == {v[i] : i \in 1..n}
           Fine(n, e) == Counted(e) /\ ToSet(e.items) = ToSet(c.items) \ Gone(n) /\ e.inflight = c.inflight
           P == {n \in 0..L : Fine(n, f[1..n])}
<1>2. 0 \in P
  <2>1. 1..0 = {} /\ 0 \in 0..L /\ 1..0 \in SUBSET (1..L)
    BY <1>0
  <2>2. f[1..0] = c
    BY <1>1, <2>1 DEF IsEvict
  <2>3. Gone(0) = {}
    BY <2>1
  <2>4. Fine(0, c)
    BY <2>3
  <2> HIDE DEF Fine
  <2> QED BY <2>1, <2>2, <2>4
<1>3. ASSUME NEW n \in 0..L - 1, n \in P PROVE n + 1 \in P
  <2>0. n \in Nat /\ n + 1 \in 0..L /\ n + 1 \in 1..L
    BY <1>0
  <2>1. n \in Nat /\ n + 1 \in 0..L /\ 1..n + 1 \in SUBSET (1..L) /\ 1..n + 1 # {} /\ n + 1 \in 1..L
    <3>1. \A i \in 1..n + 1 : i \in 1..L
      BY ONLY <1>0, <2>0
    <3>2. 1 \in 1..n + 1
      BY ONLY <2>0
    <3> QED BY ONLY <2>0, <3>1, <3>2
  <2>2. Most1(1..n + 1) = n + 1
    <3>1. n + 1 \in Nat /\ n + 1 \in 1..n + 1
      BY <2>1
    <3>2. Most1(1..n + 1) \in 1..n + 1 /\ \A y \in 1..n + 1 : Most1(1..n + 1) >= y
      BY <2>1, <3>1, MostOf
    <3> QED BY <2>1, <3>1, <3>2
  <2>3. (1..n + 1) \ {n + 1} = 1..n
    BY <2>1
  <2>4. f[1..n + 1] = Forgotten(f[1..n], v[n + 1])
    BY <1>1, <2>1, <2>2, <2>3 DEF IsEvict
  <2> DEFINE e == f[1..n]
             e2 == f[1..n + 1]
  <2>5. Fine(n, e)
    BY <1>3
  <2>6. Counted(e2) /\ ToSet(e2.items) = ToSet(e.items) \ {v[n + 1]} /\ e2.inflight = e.inflight
    <3>1. Counted(e) /\ e2 = Forgotten(e, v[n + 1])
      BY <2>4, <2>5
    <3> HIDE DEF e, e2
    <3> QED BY <3>1, ForgottenIs
  <2>7. Gone(n + 1) = Gone(n) \cup {v[n + 1]}
    BY <2>1
  <2>8. Fine(n + 1, e2)
    <3> HIDE DEF e, e2, Gone
    <3> QED BY <2>5, <2>6, <2>7
  <2> HIDE DEF Fine
  <2> QED BY <2>1, <2>8
<1>4. L \in P
  <2> HIDE DEF P
  <2>1. \A n \in 0..L - 1 : n \in P => n + 1 \in P
    BY <1>3
  <2>2. \A n \in 0..L : n \in P
    BY ONLY <1>0, <1>2, <2>1, Induct
  <2>3. L \in 0..L
    BY <1>0
  <2> QED BY <2>2, <2>3
<1>5. Gone(L) = ToSet(v)
  BY <1>0 DEF ToSet
<1> QED BY <1>1, <1>4, <1>5

-----------------------------------------------------------------------------
(* The table of a mount that starts.                                       *)

LEMMA ListOf ==
    ASSUME NEW X, NEW S, S \subseteq X, IsFiniteSet(S)
    PROVE  SetToSeq(S) \in Seq(X) /\ Distinct(SetToSeq(S)) /\ ToSet(SetToSeq(S)) = S
<1> DEFINE n == Cardinality(S)
           f == SetToSeq(S)
<1>1. n \in Nat /\ ExistsBijection(1..n, S)
  BY FS_CardinalityType
<1>2. \E g \in [1..n -> S] : IsInjective(g)
  BY <1>1 DEF ExistsBijection, Bijection, Injection
<1>3. f \in [1..n -> S] /\ IsInjective(f)
  BY <1>2 DEF SetToSeq
<1> HIDE DEF f
<1>4. f \in Seq(X)
  <2>1. f \in [1..n -> X]
    BY <1>3
  <2> HIDE DEF n
  <2> QED BY <1>1, <2>1
<1>5. Len(f) = n /\ DOMAIN f = 1..n
  BY <1>1, <1>3, <1>4, LenProperties
<1>6. ToSet(f) = S
  <2>1. f \in Injection(1..n, S)
    BY <1>3 DEF Injection
  <2>2. f \in Surjection(1..n, S)
    <3>1. IsFiniteSet(1..n) /\ Cardinality(1..n) = n
      BY <1>1, FS_Interval
    <3> HIDE DEF n
    <3> QED BY <2>1, <3>1, FS_Injection DEF n
  <2>3. \A e \in S : \E i \in 1..n : f[i] = e
    BY <2>2 DEF Surjection
  <2> QED BY <1>3, <1>5, <2>3 DEF ToSet
<1>7. Distinct(f)
  BY <1>3, <1>4, ToSetIs DEF Listing
<1> QED BY <1>4, <1>6, <1>7 DEF f

LEMMA ScannedIs ==
    ASSUME NEW S, S \subseteq Hash, IsFiniteSet(S)
    PROVE  Counted(Scanned(S)) /\ ToSet(Scanned(S).items) = S
<1> DEFINE s == SetToSeq(S)
           d == Scanned(S)
<1>1. s \in Seq(Hash) /\ Distinct(s) /\ ToSet(s) = S
  BY ListOf
<1>2. SizeSum(S) \in Nat
  BY SumNext DEF Summable
<1>3. d = [items |-> s, total |-> SizeSum(S), inflight |-> {}]
  BY DEF Scanned
<1> HIDE DEF s, d
<1>4. d \in CacheRec /\ d.items = s /\ d.total = SizeSum(S)
  BY <1>1, <1>2, <1>3 DEF CacheRec
<1> QED BY <1>1, <1>4 DEF Counted, d

-----------------------------------------------------------------------------
(* The invariant of the cache, and its steps.                              *)

Pcs == {"idle", "open", "hit", "miss", "forget", "unlink", "contains", "join", "follow", "permit", "fetch", "rename",
        "insert", "remove", "done"}
TaskRec == [pc : Pcs, m : Mount \cup {NoTask.m}, h : Hash \cup {NoTask.h}, victims : SUBSET Hash]
\* A task at work has a mount and a hash; victims are those of an eviction.
TaskOK(x) == /\ x \in TaskRec
             /\ x.pc # "idle" => x.m \in Mount /\ x.h \in Hash
             /\ x.victims # {} => x.pc = "remove"
\* What a task will still do with the file of h.
Owes(x, h) == (x.h = h /\ x.pc \in {"insert", "unlink"}) \/ h \in x.victims
Known(C, K, h) == (\E m \in Mount : h \in ToSet(C[m].items)) \/ \E t \in Task : Owes(K[t], h)
IsTable(f, S) == f = [x \in S |-> f[x]]
CInv == /\ disk \subseteq Hash /\ IsFiniteSet(disk)
        /\ IsTable(cache, Mount) /\ \A m \in Mount : Counted(cache[m])
        /\ IsTable(task, Task) /\ \A t \in Task : TaskOK(task[t])
        /\ \A h \in disk : Known(cache, task, h)

\* A file is known after a step if it is known anew, or was and nobody who
\* knew of it has lost it.
LEMMA StaysKnown ==
    ASSUME CInv, NEW h \in disk,
           \A m \in Mount : h \in ToSet(cache[m].items) => h \in ToSet(cache'[m].items),
           \A t \in Task : Owes(task[t], h) => Owes(task'[t], h)
    PROVE  Known(cache', task', h)
<1>1. Known(cache, task, h)
  BY DEF CInv
<1> QED BY <1>1 DEF Known

LEMMA SetOne ==
    ASSUME NEW f, NEW S, IsTable(f, S), NEW x \in S, NEW v, NEW g, g = [f EXCEPT ![x] = v]
    PROVE  IsTable(g, S) /\ g[x] = v /\ \A y \in S : y # x => g[y] = f[y]
BY DEF IsTable

NoTaskIs == TaskOK(NoTask) /\ NoTask.pc = "idle" /\ NoTask.victims = {}
LEMMA NoTaskOK == NoTaskIs
BY DEF NoTaskIs, TaskOK, TaskRec, NoTask, Pcs

\* One task goes on to x.
Goes(t, x) == /\ IsTable(task', Task) /\ task'[t] = x /\ \A u \in Task : u # t => task'[u] = task[u]
              /\ \A u \in Task : TaskOK(task'[u])
LEMMA TaskGoes ==
    ASSUME CInv, NEW t \in Task, NEW x, TaskOK(x), task' = [task EXCEPT ![t] = x]
    PROVE  Goes(t, x)
<1>1. IsTable(task', Task) /\ task'[t] = x /\ \A u \in Task : u # t => task'[u] = task[u]
  <2>1. IsTable(task, Task)
    BY DEF CInv
  <2> QED BY <2>1 DEF IsTable
<1> QED BY <1>1 DEF Goes, CInv

\* A step that touches one task and neither the files nor the tables.
LEMMA TaskOnly ==
    ASSUME CInv, NEW t \in Task, NEW x, Goes(t, x), disk' = disk, IsTable(cache', Mount),
           \A m \in Mount : Counted(cache'[m]) /\ ToSet(cache'[m].items) = ToSet(cache[m].items),
           \A h \in disk : Owes(task[t], h) => Owes(x, h)
    PROVE  CInv'
<1>1. ASSUME NEW h \in disk PROVE Known(cache', task', h)
  <2>1. \A u \in Task : Owes(task[u], h) => Owes(task'[u], h)
    BY DEF Goes
  <2> QED BY <2>1, StaysKnown
<1> QED BY <1>1 DEF CInv, Goes

LEMMA TaskRecIs ==
    ASSUME NEW x, TaskOK(x)
    PROVE  /\ x = [pc |-> x.pc, m |-> x.m, h |-> x.h, victims |-> x.victims]
           /\ x.pc \in Pcs /\ x.victims \subseteq Hash
           /\ x.pc # "idle" => x.m \in Mount /\ x.h \in Hash
           /\ x.victims # {} => x.pc = "remove"
BY DEF TaskOK, TaskRec

\* A task with another place to go on.
At(x, pc) == [x EXCEPT !.pc = pc]
LEMMA AtIs ==
    ASSUME NEW x, TaskOK(x), x.pc # "idle", x.victims = {}, NEW pc \in Pcs
    PROVE  /\ TaskOK(At(x, pc)) /\ At(x, pc).pc = pc /\ At(x, pc).victims = {}
           /\ At(x, pc).h = x.h /\ At(x, pc).m = x.m
BY DEF TaskOK, TaskRec, At

LEMMA TaskAtGoes ==
    ASSUME CInv, NEW t \in Task, task[t].pc # "idle", task[t].victims = {}, NEW pc \in Pcs, TaskAt(t, pc)
    PROVE  Goes(t, At(task[t], pc))
<1>1. TaskOK(task[t])
  BY DEF CInv
<1>2. TaskOK(At(task[t], pc))
  BY <1>1, AtIs
<1>3. task' = [task EXCEPT ![t] = At(task[t], pc)]
  BY DEF TaskAt, At
<1> QED BY <1>2, <1>3, TaskGoes

\* What is known of a task that is somewhere.
Somewhere(t) == /\ TaskOK(task[t]) /\ task[t].m \in Mount /\ task[t].h \in Hash
                /\ task[t].pc # "remove" => task[t].victims = {}
                /\ Counted(cache[task[t].m])
LEMMA TaskThere ==
    ASSUME CInv, NEW t \in Task, task[t].pc # "idle"
    PROVE  Somewhere(t)
<1>1. TaskOK(task[t])
  BY DEF CInv
<1> QED BY <1>1 DEF Somewhere, TaskOK, CInv

SameTables == IsTable(cache', Mount) /\ \A m \in Mount : /\ Counted(cache'[m])
                                                         /\ ToSet(cache'[m].items) = ToSet(cache[m].items)
\* Between two places where it owes nothing.
LEMMA QuietMove ==
    ASSUME CInv, NEW t \in Task, NEW pc \in Pcs, task[t].pc \notin {"idle", "insert", "unlink", "remove"},
           TaskAt(t, pc), disk' = disk, SameTables
    PROVE  CInv'
<1>1. Somewhere(t) /\ task[t].victims = {}
  BY TaskThere DEF Somewhere
<1>2. Goes(t, At(task[t], pc))
  BY <1>1, TaskAtGoes
<1>3. \A h \in disk : ~Owes(task[t], h)
  BY <1>1 DEF Owes
<1> QED BY <1>2, <1>3, TaskOnly DEF SameTables

LEMMA CacheSame == ASSUME CInv, cache' = cache PROVE SameTables
BY DEF CInv, SameTables

LEMMA OpenFileKeeps == ASSUME CInv, NEW t \in Task, OpenFile(t) PROVE CInv'
<1> DEFINE pc == IF task[t].h \in disk THEN "hit" ELSE "forget"
<1>1. /\ task[t].pc \notin {"idle", "insert", "unlink", "remove"} /\ TaskAt(t, pc) /\ pc \in Pcs
      /\ disk' = disk /\ cache' = cache
  BY DEF OpenFile, OnlyTask, Pcs
<1> HIDE DEF pc
<1> QED BY <1>1, QuietMove, CacheSame

LEMMA PermitKeeps ==
    ASSUME CInv, NEW t \in Task, Permit(t) \/ Fetch(t) \/ FetchFails(t)
    PROVE  CInv'
<1>1. /\ task[t].pc \notin {"idle", "insert", "unlink", "remove"}
      /\ \E pc \in Pcs : TaskAt(t, pc)
      /\ disk' = disk /\ cache' = cache
  BY DEF Permit, Fetch, FetchFails, OnlyTask, Pcs
<1> QED BY <1>1, QuietMove, CacheSame

LEMMA ContainedKeeps == ASSUME CInv, NEW t \in Task, Contained(t) PROVE CInv'
<1>0. task[t].pc = "contains" /\ disk' = disk /\ cache' = cache
  BY DEF Contained, OnlyTask
<1>1. CASE Holds(task[t].m, task[t].h)
  <2>1. task' = [task EXCEPT ![t] = NoTask]
    BY <1>1 DEF Contained
  <2>2. Goes(t, NoTask)
    BY <2>1, TaskGoes, NoTaskOK DEF NoTaskIs
  <2>3. \A h \in disk : ~Owes(task[t], h)
    BY <1>0, TaskThere DEF Somewhere, Owes
  <2> QED BY <1>0, <2>2, <2>3, CacheSame, TaskOnly DEF SameTables
<1>2. CASE ~Holds(task[t].m, task[t].h)
  <2>1. TaskAt(t, "join") /\ "join" \in Pcs
    BY <1>2 DEF Contained, TaskAt, Pcs
  <2> QED BY <1>0, <2>1, CacheSame, QuietMove
<1> QED BY <1>1, <1>2

\* The table of one mount becomes d.
LEMMA OneTable ==
    ASSUME CInv, NEW m \in Mount, NEW d, Counted(d), cache' = [cache EXCEPT ![m] = d]
    PROVE  /\ IsTable(cache', Mount) /\ cache'[m] = d /\ \A k \in Mount : k # m => cache'[k] = cache[k]
           /\ \A k \in Mount : Counted(cache'[k])
<1>1. IsTable(cache, Mount) /\ \A k \in Mount : Counted(cache[k])
  BY DEF CInv
<1> QED BY <1>1 DEF IsTable

LEMMA InflightIs ==
    ASSUME NEW c, Counted(c), NEW F, F \subseteq Hash, NEW d, d = [c EXCEPT !.inflight = F]
    PROVE  Counted(d) /\ d.items = c.items
<1>1. d \in CacheRec /\ d.items = c.items /\ d.total = c.total
  BY DEF Counted, CacheRec
<1> QED BY <1>1 DEF Counted

LEMMA InflightOnly ==
    ASSUME CInv, NEW m \in Mount, NEW F, F \subseteq Hash, cache' = [cache EXCEPT ![m].inflight = F]
    PROVE  SameTables
<1> DEFINE d == [cache[m] EXCEPT !.inflight = F]
<1>1. cache' = [cache EXCEPT ![m] = d]
  OBVIOUS
<1>2. Counted(d) /\ d.items = cache[m].items
  BY InflightIs DEF CInv
<1> HIDE DEF d
<1>3. /\ IsTable(cache', Mount) /\ cache'[m] = d /\ \A k \in Mount : k # m => cache'[k] = cache[k]
      /\ \A k \in Mount : Counted(cache'[k])
  BY <1>1, <1>2, OneTable
<1> QED BY <1>2, <1>3 DEF SameTables

LEMMA JoinKeeps == ASSUME CInv, NEW t \in Task, Join(t) PROVE CInv'
<1> DEFINE m == task[t].m
           h == task[t].h
<1>0. /\ task[t].pc = "join" /\ disk' = disk /\ m \in Mount /\ h \in Hash /\ Counted(cache[m])
      /\ \A k \in disk : ~Owes(task[t], k)
  BY TaskThere DEF Join, Somewhere, Owes
<1>1. CASE task' = [task EXCEPT ![t] = NoTask] /\ cache' = cache
  <2>1. Goes(t, NoTask)
    BY <1>1, TaskGoes, NoTaskOK DEF NoTaskIs
  <2> QED BY <1>0, <1>1, <2>1, CacheSame, TaskOnly DEF SameTables
<1>2. CASE /\ TaskAt(t, IF h \in cache[m].inflight THEN "follow" ELSE "permit")
           /\ cache' = [cache EXCEPT ![m].inflight = @ \cup {h}]
  <2> DEFINE F == cache[m].inflight \cup {h}
             pc == IF h \in cache[m].inflight THEN "follow" ELSE "permit"
  <2>1. F \subseteq Hash
    BY <1>0, CountedIs
  <2>2. cache' = [cache EXCEPT ![m].inflight = F]
    BY <1>2
  <2>3. SameTables
    <3> HIDE DEF F, m, h
    <3> QED BY <1>0, <2>1, <2>2, InflightOnly
  <2>4. TaskAt(t, pc) /\ pc \in Pcs
    BY <1>2 DEF Pcs
  <2> HIDE DEF pc
  <2> QED BY <1>0, <2>3, <2>4, QuietMove
<1> QED BY <1>1, <1>2 DEF Join

LEMMA HoldsIs ==
    ASSUME CInv, NEW m \in Mount, NEW h
    PROVE  Holds(m, h) <=> h \in ToSet(cache[m].items)
<1>1. cache[m].items \in Seq(Hash)
  BY CountedIs DEF CInv
<1> QED BY <1>1, ToSetIs DEF Holds, Listing

LEMMA TryOpenKeeps == ASSUME CInv, NEW t \in Task, NEW m \in Mount, NEW h \in Hash, TryOpen(t, m, h) PROVE CInv'
<1> DEFINE pc == IF Holds(m, h) THEN "open" ELSE "miss"
           x == [task[t] EXCEPT !.pc = pc, !.m = m, !.h = h]
<1>1. task[t].pc = "idle" /\ disk' = disk /\ TaskOK(task[t]) /\ pc \in Pcs /\ pc \notin {"idle", "insert", "unlink"}
  BY DEF TryOpen, CInv, Pcs
<1>2. task' = [task EXCEPT ![t] = x]
  BY DEF TryOpen
<1> HIDE DEF pc
<1>3. TaskOK(x) /\ \A k : ~Owes(task[t], k)
  BY <1>1 DEF TaskOK, TaskRec, Owes
<1> HIDE DEF x
<1>4. Goes(t, x)
  BY <1>2, <1>3, TaskGoes
<1>5. SameTables
  <2>1. CASE Holds(m, h)
    <3> DEFINE d == [cache[m] EXCEPT !.items = Touched(@, h)]
    <3>1. Counted(cache[m]) /\ h \in ToSet(cache[m].items)
      BY <2>1, HoldsIs DEF CInv
    <3>2. Counted(d) /\ ToSet(d.items) = ToSet(cache[m].items)
      BY <3>1, TouchedIs
    <3>3. cache' = [cache EXCEPT ![m] = d]
      BY <2>1 DEF TryOpen
    <3> HIDE DEF d
    <3>4. /\ IsTable(cache', Mount) /\ cache'[m] = d /\ \A k \in Mount : k # m => cache'[k] = cache[k]
          /\ \A k \in Mount : Counted(cache'[k])
      BY <3>2, <3>3, OneTable
    <3> QED BY <3>2, <3>4 DEF SameTables
  <2>2. CASE ~Holds(m, h)
    BY <2>2, CacheSame DEF TryOpen
  <2> QED BY <2>1, <2>2
<1> QED BY <1>1, <1>3, <1>4, <1>5, TaskOnly DEF SameTables

\* A step that one task takes on a file it will owe, or owes no more.
LEMMA TaskAndFiles ==
    ASSUME CInv, NEW t \in Task, NEW x, Goes(t, x), disk' \subseteq Hash, IsFiniteSet(disk'),
           IsTable(cache', Mount), \A m \in Mount : Counted(cache'[m]),
           \A h \in disk' : \/ Owes(x, h) \/ \E m \in Mount : h \in ToSet(cache'[m].items)
                            \/ /\ h \in disk /\ ~Owes(task[t], h)
                               /\ \A m \in Mount : h \in ToSet(cache[m].items) => h \in ToSet(cache'[m].items)
    PROVE  CInv'
<1>1. ASSUME NEW h \in disk' PROVE Known(cache', task', h)
  <2>1. CASE Owes(x, h)
    BY <2>1 DEF Known, Goes
  <2>2. CASE \E m \in Mount : h \in ToSet(cache'[m].items)
    BY <2>2 DEF Known
  <2>3. CASE /\ h \in disk /\ ~Owes(task[t], h)
             /\ \A m \in Mount : h \in ToSet(cache[m].items) => h \in ToSet(cache'[m].items)
    <3>1. \A u \in Task : Owes(task[u], h) => Owes(task'[u], h)
      BY <2>3 DEF Goes
    <3> QED BY <2>3, <3>1, StaysKnown
  <2> QED BY <2>1, <2>2, <2>3
<1> QED BY <1>1 DEF CInv, Goes

LEMMA SameFiles == ASSUME CInv, disk' = disk PROVE disk' \subseteq Hash /\ IsFiniteSet(disk')
BY DEF CInv

LEMMA ForgetKeeps == ASSUME CInv, NEW t \in Task, Forget(t) PROVE CInv'
<1> DEFINE m == task[t].m
           h == task[t].h
           d == Forgotten(cache[m], h)
           x == At(task[t], "unlink")
<1>1. /\ task[t].pc = "forget" /\ disk' = disk /\ cache' = [cache EXCEPT ![m] = d] /\ TaskAt(t, "unlink")
      /\ m \in Mount /\ h \in Hash /\ Counted(cache[m]) /\ TaskOK(task[t]) /\ task[t].victims = {}
  BY TaskThere DEF Forget, Somewhere
<1>2. Counted(d) /\ ToSet(d.items) = ToSet(cache[m].items) \ {h}
  BY <1>1, ForgottenIs
<1>3. Goes(t, x) /\ Owes(x, h) /\ \A k : ~Owes(task[t], k)
  <2>1. "unlink" \in Pcs
    BY DEF Pcs
  <2> QED BY <1>1, <2>1, TaskAtGoes, AtIs DEF Owes
<1> HIDE DEF d, x
<1>4. /\ IsTable(cache', Mount) /\ cache'[m] = d /\ \A k \in Mount : k # m => cache'[k] = cache[k]
      /\ \A k \in Mount : Counted(cache'[k])
  <2> HIDE DEF m
  <2> QED BY <1>1, <1>2, OneTable
<1>5. ASSUME NEW k \in disk, k # h, NEW n \in Mount, k \in ToSet(cache[n].items) PROVE k \in ToSet(cache'[n].items)
  <2> HIDE DEF m, h
  <2> QED BY <1>2, <1>4, <1>5
<1>6. \A k \in disk' : \/ Owes(x, k)
                       \/ /\ k \in disk /\ ~Owes(task[t], k)
                          /\ \A n \in Mount : k \in ToSet(cache[n].items) => k \in ToSet(cache'[n].items)
  <2> HIDE DEF m, h
  <2> QED BY <1>1, <1>3, <1>5
<1> HIDE DEF m, h
<1> QED BY <1>1, <1>3, <1>4, <1>6, SameFiles, TaskAndFiles

LEMMA ForgetFileKeeps == ASSUME CInv, NEW t \in Task, ForgetFile(t) PROVE CInv'
<1> DEFINE h == task[t].h
           x == At(task[t], "miss")
<1>1. /\ task[t].pc = "unlink" /\ disk' = disk \ {h} /\ cache' = cache /\ TaskAt(t, "miss")
      /\ TaskOK(task[t]) /\ task[t].victims = {}
  BY TaskThere DEF ForgetFile, Somewhere
<1>2. Goes(t, x)
  BY <1>1, TaskAtGoes DEF Pcs
<1>3. disk' \subseteq Hash /\ IsFiniteSet(disk') /\ \A k \in disk' : k \in disk /\ ~Owes(task[t], k)
  BY <1>1, FS_RemoveElement DEF CInv, Owes
<1>4. SameTables
  BY <1>1, CacheSame
<1> HIDE DEF x, h
<1> QED BY <1>1, <1>2, <1>3, <1>4, TaskAndFiles DEF SameTables

LEMMA RenameKeeps == ASSUME CInv, NEW t \in Task, Rename(t) PROVE CInv'
<1> DEFINE h == task[t].h
           x == At(task[t], "insert")
<1>1. /\ task[t].pc = "rename" /\ disk' = disk \cup {h} /\ cache' = cache /\ TaskAt(t, "insert")
      /\ TaskOK(task[t]) /\ task[t].victims = {} /\ h \in Hash
  BY TaskThere DEF Rename, Somewhere
<1>2. Goes(t, x) /\ Owes(x, h)
  <2>1. "insert" \in Pcs
    BY DEF Pcs
  <2> QED BY <1>1, <2>1, TaskAtGoes, AtIs DEF Owes
<1>3. /\ disk' \subseteq Hash /\ IsFiniteSet(disk')
      /\ \A k \in disk' : k = h \/ (k \in disk /\ ~Owes(task[t], k))
  BY <1>1, FS_AddElement DEF CInv, Owes
<1>4. SameTables
  BY <1>1, CacheSame
<1> HIDE DEF x, h
<1> QED BY <1>1, <1>2, <1>3, <1>4, TaskAndFiles DEF SameTables

LEMMA InsertKeeps == ASSUME CInv, NEW t \in Task, Insert(t) PROVE CInv'
<1> DEFINE m == task[t].m
           h == task[t].h
           old == Forgotten(cache[m], h)
           added == [old EXCEPT !.items = Append(@, h), !.total = @ + SizeOf[h]]
           victims == Victims(added)
           V == ToSet(victims)
           d == FoldLeft(Forgotten, added, victims)
           x == [task[t] EXCEPT !.pc = "remove", !.victims = V]
<1>1. /\ task[t].pc = "insert" /\ disk' = disk /\ m \in Mount /\ h \in Hash
      /\ Counted(cache[m]) /\ TaskOK(task[t]) /\ task[t].victims = {}
  BY TaskThere DEF Insert, Somewhere
<1>2. cache' = [cache EXCEPT ![m] = d] /\ task' = [task EXCEPT ![t] = x]
  BY DEF Insert
<1>3. Counted(old) /\ ToSet(old.items) = ToSet(cache[m].items) \ {h}
  BY <1>1, ForgottenIs
<1> HIDE DEF old
<1>4. Counted(added) /\ ToSet(added.items) = ToSet(cache[m].items) \cup {h}
  <2>1. h \notin ToSet(old.items)
    BY <1>3
  <2>2. Counted(added) /\ ToSet(added.items) = ToSet(old.items) \cup {h}
    <3> HIDE DEF h
    <3> QED BY <1>1, <1>3, <2>1, AddedIs
  <2> QED BY <1>3, <2>2
<1> HIDE DEF added
<1>5. victims \in Seq(Hash) /\ V \subseteq Hash
  <2>1. victims \in Seq(Hash)
    BY <1>4, VictimsAre
  <2> QED BY <2>1, ToSetIs DEF Listing
<1> HIDE DEF victims
<1>6. Counted(d) /\ ToSet(d.items) = ToSet(added.items) \ V
  BY <1>4, <1>5, EvictedIs
<1> HIDE DEF d, V
<1>7. TaskOK(x) /\ \A k \in V : Owes(x, k)
  BY <1>1, <1>5 DEF TaskOK, TaskRec, Owes, Pcs
<1> HIDE DEF x
<1>8. Goes(t, x)
  BY <1>2, <1>7, TaskGoes
<1>9. /\ IsTable(cache', Mount) /\ cache'[m] = d /\ \A k \in Mount : k # m => cache'[k] = cache[k]
      /\ \A k \in Mount : Counted(cache'[k])
  <2> HIDE DEF m
  <2> QED BY <1>1, <1>2, <1>6, OneTable
<1>a. ASSUME NEW k \in disk
      PROVE  \/ Owes(x, k) \/ \E n \in Mount : k \in ToSet(cache'[n].items)
             \/ ~Owes(task[t], k) /\ \A n \in Mount : k \in ToSet(cache[n].items) => k \in ToSet(cache'[n].items)
  <2>1. CASE k \in V
    BY <1>7, <2>1
  <2>2. CASE k \notin V /\ k \in ToSet(added.items)
    BY <1>1, <1>6, <1>9, <2>2
  <2>3. CASE k \notin ToSet(added.items)
    <3>1. k # h /\ k \notin ToSet(cache[m].items)
      BY <1>4, <2>3
    <3>2. ~Owes(task[t], k)
      BY <1>1, <3>1 DEF Owes
    <3> HIDE DEF m
    <3> QED BY <1>9, <3>1, <3>2
  <2> QED BY <2>1, <2>2, <2>3
<1> HIDE DEF m, h
<1> QED BY <1>1, <1>8, <1>9, <1>a, SameFiles, TaskAndFiles

LEMMA RemoveVictimKeeps == ASSUME CInv, NEW t \in Task, RemoveVictim(t) PROVE CInv'
<1>1. task[t].pc = "remove" /\ cache' = cache /\ TaskOK(task[t]) /\ SameTables
  BY TaskThere, CacheSame DEF RemoveVictim, Somewhere
<1>2. CASE task[t].victims = {}
  <2>1. TaskAt(t, "done") /\ disk' = disk /\ "done" \in Pcs
    BY <1>2 DEF RemoveVictim, Pcs
  <2>2. Goes(t, At(task[t], "done")) /\ \A k : ~Owes(task[t], k)
    BY <1>1, <1>2, <2>1, TaskAtGoes DEF Owes
  <2> QED BY <1>1, <2>1, <2>2, TaskOnly DEF SameTables
<1>3. CASE task[t].victims # {}
  <2>1. PICK v \in task[t].victims : disk' = disk \ {v} /\ task' = [task EXCEPT ![t].victims = @ \ {v}]
    BY <1>3 DEF RemoveVictim
  <2> DEFINE V == task[t].victims \ {v}
             x == [task[t] EXCEPT !.victims = V]
  <2>2. task' = [task EXCEPT ![t] = x]
    BY <2>1
  <2>3. TaskOK(x) /\ \A k : k # v /\ Owes(task[t], k) => Owes(x, k)
    BY <1>1 DEF TaskOK, TaskRec, Owes
  <2> HIDE DEF x
  <2>4. Goes(t, x)
    BY <2>2, <2>3, TaskGoes
  <2>5. disk' \subseteq Hash /\ IsFiniteSet(disk') /\ \A k \in disk' : k \in disk /\ k # v
    BY <2>1, FS_RemoveElement DEF CInv
  <2> QED BY <1>1, <2>3, <2>4, <2>5, TaskAndFiles DEF SameTables
<1> QED BY <1>2, <1>3

\* Several tasks that owe nothing end.
LEMMA TasksEnd ==
    ASSUME CInv, NEW S, \A u \in S \cap Task : \A h \in disk : ~Owes(task[u], h),
           task' = [u \in Task |-> IF u \in S THEN NoTask ELSE task[u]], disk' = disk, SameTables
    PROVE  CInv'
<1>1. IsTable(task', Task) /\ \A u \in Task : task'[u] = IF u \in S THEN NoTask ELSE task[u]
  BY DEF IsTable
<1>2. \A u \in Task : TaskOK(task'[u])
  BY <1>1, NoTaskOK DEF CInv, NoTaskIs
<1>3. ASSUME NEW h \in disk PROVE Known(cache', task', h)
  <2>1. \A u \in Task : Owes(task[u], h) => Owes(task'[u], h)
    BY <1>1
  <2> QED BY <2>1, StaysKnown DEF SameTables
<1> QED BY <1>1, <1>2, <1>3 DEF CInv, SameTables

LEMMA GuardDropKeeps == ASSUME CInv, NEW t \in Task, GuardDrop(t) PROVE CInv'
<1> DEFINE m == task[t].m
           h == task[t].h
           F == cache[m].inflight \ {h}
           S == {u \in Task : u = t \/ (task[u].pc = "follow" /\ task[u].m = m /\ task[u].h = h)}
<1>1. task[t].pc = "done" /\ disk' = disk /\ m \in Mount /\ Counted(cache[m])
  BY TaskThere DEF GuardDrop, Somewhere
<1>2. SameTables
  <2>1. F \subseteq Hash
    BY <1>1, CountedIs
  <2>2. cache' = [cache EXCEPT ![m].inflight = F]
    BY DEF GuardDrop
  <2> HIDE DEF F, m
  <2> QED BY <1>1, <2>1, <2>2, InflightOnly
<1>3. task' = [u \in Task |-> IF u \in S THEN NoTask ELSE task[u]]
  BY DEF GuardDrop
<1>4. ASSUME NEW u \in S PROVE \A k \in disk : ~Owes(task[u], k)
  <2>1. u \in Task /\ task[u].pc \in {"done", "follow"}
    BY <1>1
  <2>2. task[u].victims = {}
    BY <2>1, TaskThere DEF Somewhere
  <2> QED BY <2>1, <2>2 DEF Owes
<1> HIDE DEF S
<1> QED BY <1>1, <1>2, <1>3, <1>4, TasksEnd

LEMMA RestartKeeps == ASSUME CInv, NEW m \in Mount, Restart(m) PROVE CInv'
<1> DEFINE d == Scanned(disk)
<1>1. disk' = disk /\ cache' = [cache EXCEPT ![m] = d] /\ disk \subseteq Hash /\ IsFiniteSet(disk)
  BY DEF Restart, CInv
<1>2. Counted(d) /\ ToSet(d.items) = disk
  BY <1>1, ScannedIs
<1> HIDE DEF d
<1>3. IsTable(cache', Mount) /\ cache'[m] = d /\ \A k \in Mount : Counted(cache'[k])
  BY <1>1, <1>2, OneTable
<1>4. IsTable(task', Task) /\ \A u \in Task : TaskOK(task'[u])
  BY NoTaskOK DEF Restart, IsTable, CInv, NoTaskIs
<1>5. \A h \in disk' : Known(cache', task', h)
  BY <1>1, <1>2, <1>3 DEF Known
<1> QED BY <1>1, <1>3, <1>4, <1>5 DEF CInv

LEMMA CacheStepKeeps == ASSUME CInv, NEW t \in Task, CacheStep(t) PROVE CInv'
BY OpenFileKeeps, ForgetKeeps, ForgetFileKeeps, ContainedKeeps, JoinKeeps, PermitKeeps, RenameKeeps, InsertKeeps,
   RemoveVictimKeeps, GuardDropKeeps DEF CacheStep

\* What the readers do with the tasks that open for them.
LEMMA TasksKeep ==
    ASSUME CInv, IsTable(task', Task), \A u \in Task : TaskOK(task'[u]),
           \A u \in Task : \A h \in disk : Owes(task[u], h) => Owes(task'[u], h), disk' = disk, cache' = cache
    PROVE  CInv'
<1>1. SameTables
  BY CacheSame
<1>2. ASSUME NEW h \in disk PROVE Known(cache', task', h)
  BY StaysKnown
<1> QED BY <1>1, <1>2 DEF CInv, SameTables

LEMMA OpenLocalKeeps == ASSUME CInv, NEW r \in Task, OpenLocal(r) PROVE CInv'
<1>1. task[r].pc = "hit" /\ task' = [task EXCEPT ![r] = NoTask] /\ disk' = disk /\ cache' = cache
  BY DEF OpenLocal
<1>2. Goes(r, NoTask)
  BY <1>1, TaskGoes, NoTaskOK DEF NoTaskIs
<1>3. \A h \in disk : ~Owes(task[r], h)
  BY <1>1, TaskThere DEF Somewhere, Owes
<1> QED BY <1>1, <1>2, <1>3, CacheSame, TaskOnly DEF SameTables

LEMMA OpenMissedKeeps == ASSUME CInv, NEW r \in Task, NEW w \in Task, OpenMissed(r, w) PROVE CInv'
<1> DEFINE x == Spawned(task[r].m, task[r].h)
<1>1. /\ task[r].pc = "miss" /\ task[w].pc = "idle" /\ disk' = disk /\ cache' = cache
      /\ task[r].m \in Mount /\ task[r].h \in Hash /\ task[r].victims = {} /\ TaskOK(task[w])
  BY TaskThere DEF OpenMissed, Somewhere, CInv
<1>2. task' = [task EXCEPT ![r] = NoTask, ![w] = x]
  BY DEF OpenMissed
<1>3. TaskOK(x)
  BY <1>1, NoTaskOK DEF Spawned, TaskOK, TaskRec, NoTaskIs, Pcs
<1> HIDE DEF x
<1>4. IsTable(task', Task) /\ \A u \in Task : task'[u] = IF u = w THEN x ELSE IF u = r THEN NoTask ELSE task[u]
  <2>1. IsTable(task, Task)
    BY DEF CInv
  <2> QED BY <1>2, <2>1 DEF IsTable
<1>5. \A u \in Task : TaskOK(task'[u])
  BY <1>3, <1>4, NoTaskOK DEF CInv, NoTaskIs
<1>6. \A h : ~Owes(task[r], h) /\ ~Owes(task[w], h)
  BY <1>1 DEF Owes, TaskOK
<1> QED BY <1>1, <1>4, <1>5, <1>6, TasksKeep

LEMMA CachesStart == Init => CInv
<1> SUFFICES ASSUME Init PROVE CInv
  OBVIOUS
<1> DEFINE found == case.found
           d == Scanned(found)
<1>1. found \subseteq Hash /\ IsFiniteSet(found)
  BY ReadsAssumption DEF Init
<1>2. disk = found /\ cache = [m \in Mount |-> d] /\ task = [t \in Task |-> NoTask]
  BY DEF Init, CacheInit
<1>3. Counted(d) /\ ToSet(d.items) = found
  <2> HIDE DEF found
  <2> QED BY <1>1, ScannedIs
<1>4. \A m \in Mount : Counted(cache[m]) /\ ToSet(cache[m].items) = disk
  <2> HIDE DEF d
  <2> QED BY <1>2, <1>3
<1>5. IsTable(cache, Mount) /\ IsTable(task, Task) /\ \A t \in Task : TaskOK(task[t])
  BY <1>2, NoTaskOK DEF IsTable, NoTaskIs
<1>6. Mount # {}
  BY FileCacheAssumption
<1> QED BY <1>1, <1>2, <1>4, <1>5, <1>6 DEF CInv, Known

LEMMA CachesStep == ASSUME CInv, case \in Case, [Next]_vars PROVE CInv'
<1>0. ASSUME UNCHANGED cachevars PROVE CInv'
  BY <1>0 DEF cachevars, CInv
<1>1. CASE UNCHANGED vars
  BY <1>0, <1>1 DEF vars
<1>2. \A t : (t \in case.readers \/ t \in case.workers => t \in Task) /\ (t \in case.mounts => t \in Mount)
             /\ (t \in case.hashes => t \in Hash)
  BY ReadsAssumption
<1>3. ASSUME NEW r \in case.readers, ReaderStep(r) \/ Close(r) PROVE CInv'
  <2>1. \/ UNCHANGED cachevars \/ OpenLocal(r) \/ \E w \in case.workers : OpenMissed(r, w)
    BY <1>3 DEF ReaderStep, ReadDone, OpenStream, StreamPlanned, Attempt, AttemptFails, Close, OnlyReader
  <2> QED BY <1>0, <1>2, <2>1, OpenLocalKeeps, OpenMissedKeeps
<1>4. ASSUME NEW r \in case.readers, NEW h \in case.hashes, OpenLazy(r, h) PROVE CInv'
  BY <1>0, <1>4 DEF OpenLazy, OnlyReader
<1>5. ASSUME NEW r \in case.readers, NEW h \in case.hashes, NEW m \in case.mounts, StartOpen(r, m, h) PROVE CInv'
  BY <1>2, <1>5, TryOpenKeeps DEF StartOpen
<1>6. ASSUME NEW r \in case.readers, NEW n \in case.lengths, NEW k \in 0..reader[r].ps.size, Read(r, k, n) PROVE CInv'
  BY <1>0, <1>6 DEF Read, OnlyReader
<1>7. ASSUME NEW c \in case.warmers, NEW h \in case.hashes, WarmCache(c, h) PROVE CInv'
  BY <1>0, <1>7 DEF WarmCache
<1>8. CASE CacheNext
  BY <1>2, <1>8, CacheStepKeeps, RestartKeeps DEF CacheNext
<1>9. CASE PlanNext \/ HttpNext
  BY <1>0, <1>9 DEF PlanNext, HttpNext
<1> QED BY <1>1, <1>3, <1>4, <1>5, <1>6, <1>7, <1>8, <1>9 DEF Next

\* Whatever is downloaded, whole or mixed, is from versions of the file.
DestRec == [file : SUBSET Version, etag : Version \cup {Nothing}, tmp : SUBSET Version]
VersionsInv == /\ web \in Version /\ dest \in DestRec /\ fetching \in [Opener -> OpenCall] /\ case \in Case
               /\ \A o \in Opener : fetching[o].pc \in Downloading => fetching[o].got \in Version

LEMMA OneCall ==
    ASSUME VersionsInv, web' \in Version, dest' \in DestRec, case' = case, NEW o \in Opener, NEW x \in OpenCall,
           x.pc \in Downloading => x.got \in Version, fetching' = [fetching EXCEPT ![o] = x]
    PROVE  VersionsInv'
<1>1. \A p \in Opener : fetching'[p] = IF p = o THEN x ELSE fetching[p]
  BY DEF VersionsInv
<1>2. fetching' \in [Opener -> OpenCall]
  BY DEF VersionsInv
<1> QED BY <1>1, <1>2 DEF VersionsInv

LEMMA VersionsStep ==
    ASSUME VersionsInv, HttpNext, case' = case
    PROVE  VersionsInv'
<1>0. /\ web \in Version /\ dest \in DestRec /\ case.inodes \subseteq Ino
      /\ \A o \in Opener : fetching[o] \in OpenCall
      /\ NotFetching \in OpenCall /\ NotFetching.pc = "idle" /\ CachedEtag \in Version \cup {Nothing}
  BY ReadsAssumption DEF VersionsInv, NotFetching, OpenCall, DestRec, CachedEtag
<1>1. ASSUME NEW v \in Version, WebChanges(v) PROVE VersionsInv'
  <2> DEFINE x(o) == [fetching[o] EXCEPT !.seen = IF fetching[o].pc = "idle" THEN {} ELSE @ \cup {v}]
  <2>1. ASSUME NEW o \in Opener PROVE x(o) \in OpenCall /\ x(o).pc = fetching[o].pc /\ x(o).got = fetching[o].got
    BY <1>0 DEF OpenCall
  <2>2. web' = v /\ dest' = dest /\ fetching' = [o \in Opener |-> x(o)]
    BY <1>1 DEF WebChanges
  <2> HIDE DEF x
  <2> QED BY <2>1, <2>2 DEF VersionsInv
<1>2. ASSUME NEW o \in Opener, NEW pc \in {"idle", "opened", "asking"}, Step(o, pc), web' = web, dest' \in DestRec
      PROVE  VersionsInv'
  <2> DEFINE x == [fetching[o] EXCEPT !.pc = pc]
  <2>1. x \in OpenCall /\ x.pc \notin Downloading /\ fetching' = [fetching EXCEPT ![o] = x]
    BY <1>0, <1>2 DEF OpenCall, Downloading, Step
  <2> HIDE DEF x
  <2> QED BY <1>0, <1>2, <2>1, OneCall
<1>3. ASSUME NEW o \in Opener, NEW pc \in Downloading, fetching[o].pc \in Downloading, Step(o, pc), web' = web,
             dest' \in DestRec
      PROVE  VersionsInv'
  <2> DEFINE x == [fetching[o] EXCEPT !.pc = pc]
  <2>1. x \in OpenCall /\ x.got \in Version /\ fetching' = [fetching EXCEPT ![o] = x]
    BY <1>0, <1>3 DEF OpenCall, Downloading, Step, VersionsInv
  <2> HIDE DEF x
  <2> QED BY <1>0, <1>3, <2>1, OneCall
<1>4. ASSUME NEW o \in Opener, Over(o), web' = web, dest' \in DestRec PROVE VersionsInv'
  BY <1>0, <1>4, OneCall DEF Over, Downloading
<1>5. ASSUME NEW o \in Opener, NEW i \in case.inodes, HttpStart(o, i) PROVE VersionsInv'
  <2> DEFINE x == [pc |-> "asking", ino |-> i, asked |-> CachedEtag, got |-> Nothing, seen |-> {web}]
  <2>1. x \in OpenCall /\ x.pc \notin Downloading
    BY <1>0 DEF OpenCall, Downloading
  <2>2. fetching' = [fetching EXCEPT ![o] = x] /\ web' = web /\ dest' = dest
    BY <1>5 DEF HttpStart
  <2> HIDE DEF x
  <2> QED BY <1>0, <2>1, <2>2, OneCall
<1>6. ASSUME NEW o \in Opener, HttpBody(o) PROVE VersionsInv'
  <2> DEFINE x == [fetching[o] EXCEPT !.pc = "writing", !.got = web]
  <2>1. x \in OpenCall /\ x.got \in Version
    BY <1>0 DEF OpenCall, Downloading
  <2>2. fetching' = [fetching EXCEPT ![o] = x] /\ web' = web /\ dest' \in DestRec
    BY <1>0, <1>6 DEF HttpBody, DestRec
  <2> HIDE DEF x
  <2> QED BY <1>0, <2>1, <2>2, OneCall
<1>7. ASSUME NEW o \in Opener, HttpNotModified(o) \/ HttpSidecarLost(o) PROVE VersionsInv'
  BY <1>0, <1>2, <1>7 DEF HttpNotModified, HttpSidecarLost
<1>8. ASSUME NEW o \in Opener, HttpWritten(o) PROVE VersionsInv'
  <2>1. fetching[o].pc \in Downloading /\ "renaming" \in Downloading /\ fetching[o].got \in Version
    BY <1>8 DEF HttpWritten, Downloading, VersionsInv
  <2>2. dest' \in DestRec /\ Step(o, "renaming") /\ web' = web
    BY <1>0, <1>8, <2>1 DEF HttpWritten, DestRec
  <2> QED BY <1>3, <2>1, <2>2
<1>9. ASSUME NEW o \in Opener, HttpRename(o) PROVE VersionsInv'
  <2>1. fetching[o].pc \in Downloading /\ "sidecar" \in Downloading /\ web' = web /\ dest' \in DestRec
    BY <1>0, <1>9 DEF HttpRename, Downloading, DestRec
  <2>2. Over(o) \/ Step(o, "sidecar")
    BY <1>9 DEF HttpRename
  <2> QED BY <1>3, <1>4, <2>1, <2>2
<1>a. ASSUME NEW o \in Opener, NEW tagged \in BOOLEAN, HttpSidecar(o, tagged) PROVE VersionsInv'
  <2>1. dest' \in DestRec /\ Step(o, "opened") /\ web' = web
    BY <1>0, <1>a DEF HttpSidecar, DestRec, OpenCall
  <2> QED BY <1>2, <2>1
<1>b. ASSUME NEW o \in Opener, HttpClosed(o) \/ HttpFails(o) PROVE VersionsInv'
  <2>1. dest' \in DestRec /\ Over(o) /\ web' = web
    BY <1>0, <1>b DEF HttpClosed, HttpFails, DestRec
  <2> QED BY <1>4, <2>1
<1> QED BY <1>1, <1>5, <1>6, <1>7, <1>8, <1>9, <1>a, <1>b DEF HttpNext, HttpStep

\* Whatever the mounts over the directory, the tasks, the sizes and the
\* capacity, and however populates, evictions, forgotten entries and
\* restarts interleave: the file cache counts what it holds, no file twice,
\* and every file on disk is in a table or about to be removed or added.
THEOREM CacheIsSound == Spec => []CacheSound
<1> DEFINE All == RInv /\ CInv /\ VersionsInv
<1>1. Init => All
  <2>1. Init => VersionsInv
    BY HttpInitial DEF IndInv, HttpTypes, BodyInv, VersionsInv, DestRec, Downloading
  <2> QED BY <2>1, ReadsStart, CachesStart
<1>2. All /\ [Next]_vars => All'
  <2> SUFFICES ASSUME All, [Next]_vars PROVE All'
    OBVIOUS
  <2>1. VersionsInv'
    <3>1. CASE case' = case /\ UNCHANGED httpvars
      BY <3>1 DEF VersionsInv, httpvars
    <3>2. CASE Next
      BY <3>1, <3>2, OnlyHttpSteps, VersionsStep
    <3>3. CASE UNCHANGED vars
      BY <3>1, <3>3 DEF vars
    <3> QED BY <3>2, <3>3
  <2>2. CInv'
    BY CachesStep DEF RInv
  <2> QED BY <2>1, <2>2, ReadsStep
<1>3. All => CacheSound
  <2> SUFFICES ASSUME All PROVE TypeOK /\ AccountingExact /\ NoLeak
    BY DEF CacheSound
  <2>1. TypeOK
    <3>1. ASSUME NEW r \in Reader
          PROVE  /\ reader[r].pc \in {"closed", "opening", "open", "fetch", "plan", "answered", "failed"}
                 /\ reader[r].tries \in 0..MaxAttempts /\ reader[r].ps.window \in InitialWindow..MaxWindow
      <4>1. reader[r] \in ReaderRec
        BY DEF RInv, Sound
      <4>2. reader[r].ps \in PsRec
        BY <4>1 DEF ReaderRec
      <4>3. reader[r].ps.window \in InitialWindow..MaxWindow
        BY <4>2 DEF PsRec
      <4> QED BY <4>1, <4>3 DEF ReaderRec
    <3>2. \A m \in Mount : cache[m].inflight \subseteq Hash
      BY CountedIs DEF CInv
    <3>3. dest.file \subseteq Version /\ dest.tmp \subseteq Version
      BY DEF VersionsInv, DestRec
    <3> QED BY <3>1, <3>2, <3>3 DEF TypeOK, RInv, CInv
  <2>2. AccountingExact
    <3> SUFFICES ASSUME NEW m \in Mount
                 PROVE  cache[m].total = SizeSum(ToSet(cache[m].items)) /\ IsInjective(cache[m].items)
      BY DEF AccountingExact
    <3>1. Counted(cache[m])
      BY DEF CInv
    <3> QED BY <3>1, CountedIs, ToSetIs DEF Listing
  <2>3. NoLeak
    <3> SUFFICES ASSUME NEW h \in disk
                 PROVE  \/ \E m \in Mount : Holds(m, h)
                        \/ \E t \in Task : \/ task[t].h = h /\ task[t].pc \in {"insert", "unlink"}
                                           \/ h \in task[t].victims
      BY DEF NoLeak
    <3>1. Known(cache, task, h)
      BY DEF CInv
    <3> QED BY <3>1, HoldsIs DEF Known, Owes
  <2> QED BY <2>1, <2>2, <2>3
<1> HIDE DEF All
<1>4. Spec => []All
  BY <1>1, <1>2, PTL DEF Spec
<1> QED BY <1>3, <1>4, PTL

-----------------------------------------------------------------------------
(* The plan of a range: where terms begin, and which ones overlap it.      *)

IsStart(T, L, f) == DOMAIN f = 1..L + 1 /\ \A k \in 1..L + 1 : f[k] = IF k = 1 THEN 0 ELSE f[k - 1] + T[k - 1]
LEMMA StartExists ==
    ASSUME NEW L \in Nat, NEW T
    PROVE  \E f : IsStart(T, L, f)
<1> DEFINE P == {n \in 0..L : \E f : IsStart(T, n, f)}
<1>1. 0 \in P
  <2> DEFINE f == [k \in 1..0 + 1 |-> 0]
  <2>1. DOMAIN f = 1..0 + 1 /\ \A k \in 1..0 + 1 : k = 1 /\ f[k] = 0
    OBVIOUS
  <2> HIDE DEF f
  <2>2. IsStart(T, 0, f)
    BY <2>1 DEF IsStart
  <2> QED BY <2>2
<1>2. ASSUME NEW n \in 0..L - 1, n \in P PROVE n + 1 \in P
  <2>1. PICK f : IsStart(T, n, f)
    BY <1>2
  <2> DEFINE last == f[n + 1] + T[n + 1]
             g == [k \in 1..n + 1 + 1 |-> IF k <= n + 1 THEN f[k] ELSE last]
  <2>2. n \in Nat /\ n + 1 \in 0..L /\ n + 1 \in Nat
    OBVIOUS
  <2>3. DOMAIN g = 1..n + 1 + 1 /\ g[n + 1 + 1] = last /\ \A k \in 1..n + 1 : g[k] = f[k]
    BY <2>2
  <2> HIDE DEF g
  <2>4. ASSUME NEW k \in 1..n + 1 + 1
        PROVE  g[k] = IF k = 1 THEN 0 ELSE g[k - 1] + T[k - 1]
    <3>1. CASE k \in 1..n + 1
      <4>1. k # 1 => k - 1 \in 1..n + 1
        BY <2>2, <3>1
      <4>2. f[k] = IF k = 1 THEN 0 ELSE f[k - 1] + T[k - 1]
        BY <2>1, <3>1 DEF IsStart
      <4> QED BY <2>3, <3>1, <4>1, <4>2
    <3>2. CASE k = n + 1 + 1
      <4>1. k # 1 /\ k - 1 = n + 1 /\ n + 1 \in 1..n + 1
        BY <2>2, <3>2
      <4> QED BY <2>3, <3>2, <4>1
    <3>3. k \in 1..n + 1 \/ k = n + 1 + 1
      BY <2>2
    <3> QED BY <3>1, <3>2, <3>3
  <2>5. IsStart(T, n + 1, g)
    BY <2>3, <2>4 DEF IsStart
  <2> QED BY <2>2, <2>5
<1>3. L \in P
  <2> HIDE DEF P
  <2>1. \A n \in 0..L - 1 : n \in P => n + 1 \in P
    BY <1>2
  <2>2. \A n \in 0..L : n \in P
    BY ONLY <1>1, <2>1, L \in Nat, Induct
  <2> QED BY <2>2
<1> QED BY <1>3

\* A term begins where the one before it ends.
Offsets(h, L) ==
    /\ L \in Nat /\ L = Len(Terms[h]) /\ TermStart(h, 1) = 0
    /\ \A n \in 1..L : Terms[h][n] \in Nat \ {0} /\ TermStart(h, n + 1) = TermStart(h, n) + Terms[h][n]
    /\ \A n \in 1..L + 1 : TermStart(h, n) \in Nat
LEMMA OffsetsAre == ASSUME NEW h \in Hash PROVE Offsets(h, Len(Terms[h]))
<1> DEFINE T == Terms[h]
           L == Len(T)
           rec(f) == [k \in 1..L + 1 |-> IF k = 1 THEN 0 ELSE f[k - 1] + T[k - 1]]
           s == CHOOSE f : f = rec(f)
<1>1. T \in Seq(Nat \ {0}) /\ L \in Nat /\ \A n \in 1..L : T[n] \in Nat \ {0}
  <2>1. T \in Seq(Nat \ {0})
    BY ReadsAssumption
  <2> HIDE DEF T
  <2> QED BY <2>1, LenProperties, ElementOfSeq
<1>2. \A n : TermStart(h, n) = s[n]
  BY DEF TermStart
<1> HIDE DEF T
<1> HIDE DEF L
<1>3. \E f : f = rec(f)
  <2>1. PICK g : IsStart(T, L, g)
    BY <1>1, StartExists
  <2> DEFINE e == [k \in 1..L + 1 |-> g[k]]
  <2>2. \A k \in 1..L + 1 : k # 1 => k - 1 \in 1..L + 1
    BY <1>1
  <2>3. \A k \in 1..L + 1 : e[k] = IF k = 1 THEN 0 ELSE e[k - 1] + T[k - 1]
    BY <2>1, <2>2 DEF IsStart
  <2>4. e = [k \in 1..L + 1 |-> e[k]]
    OBVIOUS
  <2> HIDE DEF e
  <2>5. e = rec(e)
    BY <2>3, <2>4
  <2> HIDE DEF rec
  <2> QED BY <2>5
<1>4. s = rec(s)
  <2> HIDE DEF rec
  <2> QED BY <1>3
<1> HIDE DEF s
<1>5. \A k \in 1..L + 1 : s[k] = IF k = 1 THEN 0 ELSE s[k - 1] + T[k - 1]
  BY <1>4
<1>6. s[1] = 0 /\ \A n \in 1..L : s[n + 1] = s[n] + T[n]
  <2>1. 1 \in 1..L + 1
    BY <1>1
  <2>2. \A n \in 1..L : n + 1 \in 1..L + 1 /\ n + 1 # 1 /\ n + 1 - 1 = n
    BY <1>1
  <2> QED BY <1>5, <2>1, <2>2
<1>7. \A n \in 1..L + 1 : s[n] \in Nat
  <2> DEFINE P == {n \in 0..L : s[n + 1] \in Nat}
  <2>1. 0 \in P
    BY <1>1, <1>6
  <2>2. ASSUME NEW n \in 0..L - 1, n \in P PROVE n + 1 \in P
    <3>1. n + 1 \in 1..L /\ n + 1 \in 0..L
      BY <1>1
    <3>2. s[n + 1] \in Nat /\ s[n + 1 + 1] = s[n + 1] + T[n + 1] /\ T[n + 1] \in Nat
      BY <1>1, <1>6, <2>2, <3>1
    <3> QED BY <3>1, <3>2
  <2>3. \A n \in 0..L : n \in P
    <3>1. \A n \in 0..L - 1 : n \in P => n + 1 \in P
      BY <2>2
    <3> HIDE DEF P
    <3> QED BY ONLY <1>1, <2>1, <3>1, Induct
  <2>4. ASSUME NEW n \in 1..L + 1 PROVE s[n] \in Nat
    <3>1. n - 1 \in 0..L /\ n - 1 + 1 = n
      BY <1>1
    <3> QED BY <2>3, <3>1
  <2> QED BY <2>4
<1> QED BY <1>1, <1>2, <1>6, <1>7 DEF Offsets, T, L

LEMMA StartsGrow ==
    ASSUME NEW h, NEW L, Offsets(h, L), NEW i \in 1..L + 1, NEW j \in 1..L + 1, i <= j
    PROVE  TermStart(h, i) <= TermStart(h, j)
<1> DEFINE s(n) == TermStart(h, n)
           D == L + 1 - i
           P == {n \in 0..D : s(i) <= s(i + n)}
<1>1. /\ L \in Nat /\ D \in Nat /\ i \in Nat /\ \A n \in 1..L + 1 : s(n) \in Nat
      /\ \A n \in 1..L : s(n) <= s(n + 1)
  <2>1. L \in Nat /\ \A n \in 1..L + 1 : s(n) \in Nat
    BY DEF Offsets
  <2>2. ASSUME NEW n \in 1..L PROVE s(n) <= s(n + 1)
    <3>1. Terms[h][n] \in Nat /\ s(n + 1) = s(n) + Terms[h][n]
      BY DEF Offsets
    <3>2. s(n) \in Nat
      BY <2>1
    <3> HIDE DEF s
    <3> QED BY <3>1, <3>2
  <2> QED BY <2>1, <2>2
<1> HIDE DEF s
<1>2. 0 \in P
  BY <1>1
<1>3. ASSUME NEW n \in 0..D - 1, n \in P PROVE n + 1 \in P
  <2>1. i + n \in 1..L /\ i + (n + 1) = (i + n) + 1 /\ n + 1 \in 0..D /\ i + n \in 1..L + 1 /\ (i + n) + 1 \in 1..L + 1
    BY <1>1
  <2>2. s(i) <= s(i + n) /\ s(i + n) <= s((i + n) + 1)
    BY <1>1, <1>3, <2>1
  <2>3. s(i) \in Nat /\ s(i + n) \in Nat /\ s((i + n) + 1) \in Nat
    BY <1>1, <2>1
  <2>4. s(i) <= s(i + (n + 1))
    BY <2>1, <2>2, <2>3
  <2> QED BY <2>1, <2>4
<1>4. \A n \in 0..D : n \in P
  <2>1. \A n \in 0..D - 1 : n \in P => n + 1 \in P
    BY <1>3
  <2> HIDE DEF P, D
  <2> QED BY ONLY <1>1, <1>2, <2>1, Induct
<1>5. j - i \in 0..D /\ i + (j - i) = j
  BY <1>1
<1> QED BY <1>4, <1>5 DEF s

\* A retain of an interval of the terms.
FromTo(u, a, b) == Len(u) = b - a + 1 /\ \A k \in 1..Len(u) : u[k] = a + k - 1
LEMMA OnlyInterval ==
    ASSUME NEW L \in Nat, NEW a \in 1..L, NEW b \in 1..L, a <= b,
           NEW S, \A n \in 1..L : n \in S <=> a <= n /\ n <= b,
           NEW s \in Seq(Nat), Len(s) = L, \A n \in 1..L : s[n] = n
    PROVE  FromTo(Only(s, S), a, b)
<1>2. PICK f : IsOnly(s, S, L, f) /\ Only(s, S) = f[L]
  BY OnlyIs
<1> DEFINE count(n) == IF n < a THEN 0 ELSE IF n <= b THEN n - a + 1 ELSE b - a + 1
           Fine(n) == f[n] \in Seq(Nat) /\ Len(f[n]) = count(n) /\ \A k \in 1..count(n) : f[n][k] = a + k - 1
           P == {n \in 0..L : Fine(n)}
<1>3. 0 \in P
  <2>1. f[0] = <<>>
    <3>1. 0 \in 0..L
      OBVIOUS
    <3> QED BY <1>2, <3>1 DEF IsOnly
  <2>2. count(0) = 0
    <3>1. 0 < a
      OBVIOUS
    <3> QED BY <3>1
  <2>3. <<>> \in Seq(Nat) /\ Len(<<>>) = 0
    OBVIOUS
  <2> HIDE DEF count
  <2>4. Fine(0)
    BY <2>1, <2>2, <2>3
  <2> HIDE DEF Fine
  <2> QED BY <2>4
<1>4. ASSUME NEW n \in 0..L - 1, n \in P PROVE n + 1 \in P
  <2> DEFINE v == f[n]
             w == f[n + 1]
             c == count(n)
  <2>1. n \in Nat /\ n + 1 \in 0..L /\ n + 1 \in 1..L /\ n + 1 # 0 /\ n + 1 - 1 = n /\ a \in Nat /\ b \in Nat
    OBVIOUS
  <2>2. v \in Seq(Nat) /\ Len(v) = c /\ \A k \in 1..c : v[k] = a + k - 1
    BY <1>4
  <2>3. w = IF n + 1 \in S THEN Append(v, n + 1) ELSE v
    <3> HIDE DEF P, Fine, count
    <3>1. \A k \in 0..L : f[k] = IF k = 0 THEN <<>> ELSE IF s[k] \in S THEN Append(f[k - 1], s[k]) ELSE f[k - 1]
      BY <1>2 DEF IsOnly
    <3> DEFINE m == n + 1
    <3>2. m \in 0..L /\ m # 0 /\ m - 1 = n /\ s[m] = m
      BY <2>1
    <3> HIDE DEF m
    <3>3. f[m] = IF m \in S THEN Append(f[n], m) ELSE f[n]
      BY ONLY <3>1, <3>2
    <3> QED BY <3>3 DEF m
  <2>4. n + 1 \in S <=> a <= n + 1 /\ n + 1 <= b
    BY <2>1
  <2> HIDE DEF v, w
  <2>5. CASE n + 1 \in S
    <3>1. count(n + 1) = c + 1 /\ c = n + 1 - a /\ c \in Nat
      BY <2>1, <2>4, <2>5
    <3> HIDE DEF c
    <3>2. w \in Seq(Nat) /\ Len(w) = c + 1 /\ w[c + 1] = n + 1 /\ \A i \in 1..c : w[i] = v[i]
      BY <2>1, <2>2, <2>3, <2>5, AppendIs
    <3>3. ASSUME NEW k \in 1..c + 1 PROVE w[k] = a + k - 1
      <4>1. CASE k \in 1..c
        BY <2>2, <3>2, <4>1
      <4>2. CASE k = c + 1
        BY <2>1, <3>1, <3>2, <4>2
      <4> QED BY <3>1, <4>1, <4>2
    <3>4. Fine(n + 1)
      BY <3>1, <3>2, <3>3 DEF w
    <3> HIDE DEF Fine
    <3> QED BY <2>1, <3>4
  <2>6. CASE n + 1 \notin S
    <3>1. count(n + 1) = c
      BY <2>1, <2>4, <2>6
    <3> HIDE DEF c
    <3>2. Fine(n + 1)
      BY <2>2, <2>3, <2>6, <3>1 DEF w
    <3> HIDE DEF Fine
    <3> QED BY <2>1, <3>2
  <2> QED BY <2>5, <2>6
<1>5. L \in P
  <2> HIDE DEF P
  <2>1. \A n \in 0..L - 1 : n \in P => n + 1 \in P
    BY <1>4
  <2>2. \A n \in 0..L : n \in P
    BY ONLY <1>3, <2>1, L \in Nat, Induct
  <2> QED BY <2>2
<1>6. count(L) = b - a + 1
  OBVIOUS
<1>7. Fine(L)
  BY <1>5
<1> HIDE DEF count
<1> QED BY <1>2, <1>6, <1>7 DEF FromTo

Covers(h, r, plan) ==
    LET ts == plan.terms
        end(n) == TermStart(h, n + 1)
    IN  /\ ts # <<>> /\ \A k \in 1..Len(ts) - 1 : ts[k + 1] = ts[k] + 1
        /\ TermStart(h, ts[1]) + plan.skip = r[1] /\ r[1] < end(ts[1])
        /\ end(Last(ts)) >= r[2] \/ end(Last(ts)) = FileSize(h)
        /\ TermStart(h, Last(ts)) < r[2]

\* derive_range_response gives what was asked for.
LEMMA DerivedCovers ==
    ASSUME NEW h \in Hash, NEW r, r[1] \in Nat, r[2] \in Nat, r[1] < r[2], r[1] < FileSize(h)
    PROVE  Covers(h, r, Derive(h, r)) /\ Derive(h, r).terms # <<>>
<1> DEFINE L == Len(Terms[h])
           s(n) == TermStart(h, n)
           x == r[1]
           y == r[2]
           S == {n \in 1..L : s(n + 1) > x /\ s(n) < y}
           A == {n \in Nat : n \in 1..L /\ s(n + 1) > x}
           B == {n \in Nat : n \in 1..L /\ s(L + 1 - n) < y}
           ts == Only(AllTerms(h), S)
<1>1. /\ L \in Nat /\ s(1) = 0 /\ \A n \in 1..L + 1 : s(n) \in Nat
      /\ \A i, j \in 1..L + 1 : i <= j => s(i) <= s(j)
  <2>1. Offsets(h, L)
    BY OffsetsAre
  <2>2. \A i, j \in 1..L + 1 : i <= j => s(i) <= s(j)
    <3> HIDE DEF L
    <3> QED BY <2>1, StartsGrow
  <2> HIDE DEF L, s
  <2>3. L \in Nat /\ s(1) = 0 /\ \A n \in 1..L + 1 : s(n) \in Nat
    BY <2>1 DEF Offsets, s
  <2> QED BY <2>2, <2>3
<1>2. FileSize(h) = s(L + 1)
  BY DEF FileSize
<1>3. Derive(h, r) = PlanOf(h, ts, x)
  BY DEF Derive
<1>4. AllTerms(h) = [n \in 1..L |-> n]
  BY DEF AllTerms
<1> HIDE DEF L, s
<1>5. x \in Nat /\ y \in Nat /\ x < y /\ x < s(L + 1)
  BY <1>2
<1> HIDE DEF x, y
<1>6. L # 0
  BY <1>1, <1>5
<1>7. PICK a \in 1..L : s(a + 1) > x /\ \A n \in 1..L : s(n + 1) > x => a <= n
  <2>1. L \in A
    BY <1>1, <1>5, <1>6
  <2>2. A \subseteq Nat
    OBVIOUS
  <2>3. PICK a \in A : \A n \in A : a <= n
    <3> HIDE DEF A
    <3> QED BY <2>1, <2>2, LeastOf
  <2> QED BY <2>3
<1>8. s(a) <= x
  <2>1. CASE a = 1
    BY <1>1, <1>5, <2>1
  <2>2. CASE a # 1
    <3>1. a - 1 \in 1..L /\ a - 1 + 1 = a /\ ~(a <= a - 1) /\ a \in 1..L + 1
      BY <1>1, <2>2
    <3>2. ~(s(a) > x)
      BY <1>7, <3>1
    <3> QED BY <1>1, <1>5, <3>1, <3>2
  <2> QED BY <2>1, <2>2
<1>9. PICK b \in 1..L : s(b) < y /\ \A n \in 1..L : s(n) < y => n <= b
  <2> DEFINE C == {n \in 1..L : s(n) < y}
             D == {L - n : n \in C}
  <2>1. a \in C
    <3>1. s(a) \in Nat
      BY <1>1
    <3> QED BY <1>5, <1>8, <3>1
  <2>2. D \subseteq Nat /\ D # {}
    <3>1. \A n \in C : L - n \in Nat
      BY <1>1
    <3> HIDE DEF C
    <3> QED BY <2>1, <3>1
  <2>3. PICK m \in D : \A k \in D : m <= k
    <3> HIDE DEF D
    <3> QED BY <2>2, LeastOf
  <2>4. PICK b \in C : m = L - b
    BY <2>3
  <2>5. ASSUME NEW n \in C PROVE n <= b
    <3>1. L - n \in D /\ n \in Nat /\ b \in Nat
      BY <1>1
    <3>2. m <= L - n
      BY <2>3, <3>1
    <3> HIDE DEF C, D
    <3> QED BY <1>1, <2>4, <3>1, <3>2
  <2> QED BY <2>4, <2>5
<1>a. a <= b /\ a \in 1..L + 1 /\ b \in 1..L + 1 /\ a + 1 \in 1..L + 1 /\ b + 1 \in 1..L + 1
  <2>1. a \in 1..L + 1 /\ b \in 1..L + 1 /\ a + 1 \in 1..L + 1 /\ b + 1 \in 1..L + 1
    BY <1>1
  <2>2. s(a) \in Nat
    BY <1>1, <2>1
  <2>3. s(a) < y
    BY <1>5, <1>8, <2>2
  <2> QED BY <1>9, <2>1, <2>3
<1>b. ASSUME NEW n \in 1..L PROVE n \in S <=> a <= n /\ n <= b
  <2>1. n \in 1..L + 1 /\ n + 1 \in 1..L + 1 /\ n \in Nat /\ a \in Nat /\ b \in Nat
    BY <1>1
  <2>2. s(n) \in Nat /\ s(n + 1) \in Nat /\ s(a + 1) \in Nat /\ s(b) \in Nat
    BY <1>1, <1>a, <2>1
  <2>3. a <= n => s(n + 1) > x
    <3>1. a <= n => s(a + 1) <= s(n + 1)
      <4>1. a <= n => a + 1 <= n + 1
        BY <2>1
      <4> QED BY <1>1, <1>a, <2>1, <4>1
    <3> QED BY <1>5, <1>7, <2>2, <3>1
  <2>4. n <= b => s(n) < y
    <3>1. n <= b => s(n) <= s(b)
      BY <1>1, <1>a, <2>1
    <3> QED BY <1>5, <1>9, <2>2, <3>1
  <2> QED BY <1>7, <1>9, <2>3, <2>4
<1>c. Len(ts) = b - a + 1 /\ \A k \in 1..Len(ts) : ts[k] = a + k - 1
  <2> DEFINE e == [n \in 1..L |-> n]
  <2>1. ts = Only(e, S)
    BY <1>4 DEF ts
  <2>2. e \in Seq(Nat) /\ Len(e) = L /\ \A n \in 1..L : e[n] = n
    <3>1. e \in [1..L -> Nat] /\ DOMAIN e = 1..L /\ \A n \in 1..L : e[n] = n
      BY <1>1
    <3> HIDE DEF e
    <3>2. e \in Seq(Nat)
      BY <1>1, <3>1, SeqDef
    <3> QED BY <1>1, <3>1, <3>2, LenProperties
  <2>3. \A n \in 1..L : n \in S <=> a <= n /\ n <= b
    BY <1>b
  <2>4. L \in Nat /\ a \in 1..L /\ b \in 1..L /\ a <= b
    BY <1>1, <1>a
  <2> HIDE DEF S, ts, e
  <2>5. FromTo(Only(e, S), a, b)
    BY ONLY <2>2, <2>3, <2>4, OnlyInterval
  <2> QED BY <2>1, <2>5 DEF FromTo
<1> HIDE DEF ts
<1>d. /\ Len(ts) \in Nat /\ Len(ts) # 0 /\ ts # <<>> /\ ts[1] = a /\ Last(ts) = b
      /\ \A k \in 1..Len(ts) - 1 : ts[k + 1] = ts[k] + 1
  <2>1. Len(ts) \in Nat /\ Len(ts) # 0 /\ 1 \in 1..Len(ts) /\ Len(ts) \in 1..Len(ts)
    BY <1>1, <1>a, <1>c
  <2>2. ts # <<>>
    BY <2>1
  <2>3. ts[1] = a /\ ts[Len(ts)] = b
    BY <1>c, <2>1
  <2>4. ASSUME NEW k \in 1..Len(ts) - 1 PROVE ts[k + 1] = ts[k] + 1
    <3>1. k \in 1..Len(ts) /\ k + 1 \in 1..Len(ts)
      BY <2>1
    <3> QED BY <1>c, <3>1
  <2> QED BY <2>1, <2>2, <2>3, <2>4 DEF Last
<1> DEFINE plan == PlanOf(h, ts, x)
<1>e. plan.terms = ts /\ plan.skip = IF x > s(a) THEN x - s(a) ELSE 0
  BY <1>d DEF PlanOf, s
<1>f. s(a) + plan.skip = x
  <2>1. s(a) \in Nat
    BY <1>1, <1>a
  <2> HIDE DEF plan
  <2> QED BY <1>5, <1>8, <1>e, <2>1
<1>g. s(b + 1) >= y \/ s(b + 1) = FileSize(h)
  <2>1. CASE b = L
    BY <1>2, <2>1
  <2>2. CASE b # L
    <3>1. b + 1 \in 1..L /\ ~(b + 1 <= b)
      BY <1>1, <2>2
    <3>2. ~(s(b + 1) < y) /\ s(b + 1) \in Nat
      BY <1>1, <1>9, <1>a, <3>1
    <3> QED BY <1>5, <3>2
  <2> QED BY <2>1, <2>2
<1>h. x < s(a + 1) /\ s(b) < y
  <2>1. s(a + 1) \in Nat
    BY <1>1, <1>a
  <2> QED BY <1>5, <1>7, <1>9, <2>1
<1> HIDE DEF plan
<1>i. Covers(h, r, plan)
  BY <1>d, <1>e, <1>f, <1>g, <1>h DEF Covers, s, x, y
<1> QED BY <1>3, <1>d, <1>e, <1>i DEF plan

-----------------------------------------------------------------------------
(* The plan cache.                                                         *)

\* What a plan is asked for: a whole file, or a range that begins in it.
ByteRange == {r \in Nat \X Nat : r[1] < r[2]}
Key == {k \in Hash \X (ByteRange \cup {NoRange}) : k[2] = NoRange \/ (k[2] \in ByteRange /\ k[2][1] < FileSize(k[1]))}
PlanFor(k) == IF k[2] = NoRange THEN FullPlan(k[1]) ELSE Derive(k[1], k[2])
Entry == {[key |-> k, plan |-> PlanFor(k), age |-> a] : k \in Key, a \in Ages}
\* The plans of a cache are right, and no key has two.
OnePlanEach(s) == \A i, j \in 1..Len(s) : s[i].key = s[j].key => i = j
PlansOK(s) == s \in Seq(Entry) /\ OnePlanEach(s)

LEMMA KeyIs ==
    ASSUME NEW k \in Key
    PROVE  /\ k = <<k[1], k[2]>> /\ k[1] \in Hash
           /\ k[2] # NoRange => k[2] \in ByteRange /\ k[2][1] < FileSize(k[1])
<1>1. k \in Hash \X (ByteRange \cup {NoRange}) /\ (k[2] = NoRange \/ (k[2] \in ByteRange /\ k[2][1] < FileSize(k[1])))
  BY DEF Key
<1> QED BY ONLY <1>1

LEMMA EntryIs ==
    ASSUME NEW p
    PROVE  p \in Entry <=> /\ p = [key |-> p.key, plan |-> p.plan, age |-> p.age]
                           /\ p.key \in Key /\ p.plan = PlanFor(p.key) /\ p.age \in Ages
BY DEF Entry

LEMMA DistinctPlans ==
    ASSUME NEW s \in Seq(Entry)
    PROVE  OnePlanEach(s) <=> Distinct(s) /\ \A p, q \in ToSet(s) : p.key = q.key => p = q
<1>1. \A e : e \in ToSet(s) <=> \E i \in 1..Len(s) : s[i] = e
  BY ToSetIs DEF Listing
<1> QED BY <1>1 DEF OnePlanEach, Distinct

LEMMA RetainKeeps ==
    ASSUME NEW s, PlansOK(s), NEW S
    PROVE  PlansOK(Only(s, S)) /\ ToSet(Only(s, S)) = ToSet(s) \cap S /\ Len(Only(s, S)) <= Len(s)
<1> DEFINE u == Only(s, S)
<1>1. s \in Seq(Entry) /\ Distinct(s) /\ \A p, q \in ToSet(s) : p.key = q.key => p = q
  BY DistinctPlans DEF PlansOK
<1>2. u \in Seq(Entry) /\ Distinct(u) /\ ToSet(u) = ToSet(s) \cap S /\ Len(u) <= Len(s)
  BY <1>1, OnlySet
<1> HIDE DEF u
<1>3. \A p, q \in ToSet(u) : p.key = q.key => p = q
  BY <1>1, <1>2
<1>4. PlansOK(u)
  BY <1>2, <1>3, DistinctPlans DEF PlansOK
<1> QED BY <1>2, <1>4 DEF u

\* As many entries as a sequence without repetition is long.
LEMMA LengthIs ==
    ASSUME NEW X, NEW s \in Seq(X), Distinct(s)
    PROVE  Len(s) = Cardinality(ToSet(s)) /\ IsFiniteSet(ToSet(s))
<1> DEFINE L == Len(s)
           T == ToSet(s)
<1>1. L \in Nat /\ s \in [1..L -> X]
  BY LenProperties
<1>2. (\A e : e \in T <=> \E i \in 1..L : s[i] = e) /\ IsFiniteSet(T)
  BY ToSetIs DEF Listing
<1>3. IsInjective(s)
  BY ToSetIs DEF Listing
<1> HIDE DEF L, T
<1>4. s \in Bijection(1..L, T)
  <2>1. s \in [1..L -> T]
    BY <1>1, <1>2
  <2>2. s \in Injection(1..L, T)
    BY <1>3, <2>1 DEF Injection
  <2>3. s \in Surjection(1..L, T)
    BY <1>2, <2>1 DEF Surjection
  <2> QED BY <2>2, <2>3 DEF Bijection
<1>5. Cardinality(1..L) = L /\ IsFiniteSet(1..L)
  <2>1. 1 \in Int /\ L \in Int /\ L - 1 + 1 = L /\ (1 > L => L = 0)
    BY <1>1
  <2> QED BY <2>1, FS_Interval
<1>6. Cardinality(T) = L
  BY <1>4, <1>5, FS_Bijection DEF ExistsBijection
<1> QED BY <1>2, <1>6 DEF L, T

LEMMA RetainDrops ==
    ASSUME NEW s, PlansOK(s), NEW S, NEW e \in ToSet(s), e \notin S
    PROVE  Len(Only(s, S)) < Len(s)
<1> DEFINE u == Only(s, S)
<1>1. PlansOK(u) /\ ToSet(u) = ToSet(s) \cap S
  BY RetainKeeps
<1> HIDE DEF u
<1>2. s \in Seq(Entry) /\ u \in Seq(Entry) /\ Distinct(s) /\ Distinct(u)
  BY <1>1, DistinctPlans DEF PlansOK
<1>3. Len(s) = Cardinality(ToSet(s)) /\ IsFiniteSet(ToSet(s)) /\ Len(u) = Cardinality(ToSet(u)) /\ Len(s) \in Nat /\ Len(u) \in Nat
  BY <1>2, LengthIs, LenProperties
<1>4. ToSet(u) \subseteq ToSet(s) /\ ToSet(u) # ToSet(s)
  BY <1>1
<1>5. Cardinality(ToSet(u)) <= Cardinality(ToSet(s)) /\ Cardinality(ToSet(u)) # Cardinality(ToSet(s))
  BY <1>3, <1>4, FS_Subset
<1> QED BY <1>3, <1>5 DEF u

LEMMA PlansAppend ==
    ASSUME NEW s, PlansOK(s), NEW e \in Entry, \A p \in ToSet(s) : p.key # e.key
    PROVE  PlansOK(Append(s, e)) /\ Len(Append(s, e)) = Len(s) + 1
<1> DEFINE u == Append(s, e)
<1>1. s \in Seq(Entry) /\ Distinct(s) /\ \A p, q \in ToSet(s) : p.key = q.key => p = q
  BY DistinctPlans DEF PlansOK
<1>2. OneMore(Entry, s, e, u)
  BY <1>1, AppendSet
<1> HIDE DEF u
<1>3. u \in Seq(Entry) /\ Distinct(u) /\ ToSet(u) = ToSet(s) \cup {e} /\ Len(u) = Len(s) + 1
  BY <1>2 DEF OneMore
<1>4. \A p, q \in ToSet(u) : p.key = q.key => p = q
  BY <1>1, <1>3
<1>5. PlansOK(u)
  BY <1>3, <1>4, DistinctPlans DEF PlansOK
<1> QED BY <1>3, <1>5 DEF u

LEMMA PlansTail ==
    ASSUME NEW s, PlansOK(s), s # <<>>
    PROVE  PlansOK(Tail(s)) /\ Len(Tail(s)) + 1 = Len(s)
<1> DEFINE u == Tail(s)
<1>1. s \in Seq(Entry) /\ \A i, j \in 1..Len(s) : s[i].key = s[j].key => i = j
  BY DEF PlansOK, OnePlanEach
<1>2. /\ u \in Seq(Entry) /\ Len(s) \in Nat /\ Len(u) = Len(s) - 1
      /\ \A i \in 1..Len(u) : u[i] = s[i + 1]
  BY <1>1, HeadTailProperties, LenProperties
<1> HIDE DEF u
<1>3. \A i \in 1..Len(u) : i + 1 \in 1..Len(s) /\ i \in Nat
  BY <1>2
<1>4. OnePlanEach(u)
  <2> SUFFICES ASSUME NEW i \in 1..Len(u), NEW j \in 1..Len(u), u[i].key = u[j].key PROVE i = j
    BY DEF OnePlanEach
  <2>1. i + 1 = j + 1
    BY <1>1, <1>2, <1>3
  <2> QED BY <1>3, <2>1
<1> QED BY <1>2, <1>4 DEF PlansOK, u

LEMMA WithoutKeyIs ==
    ASSUME NEW s, PlansOK(s), NEW k
    PROVE  LET u == WithoutKey(s, k)
           IN  /\ PlansOK(u) /\ (\A p : p \in ToSet(u) <=> p \in ToSet(s) /\ p.key # k) /\ Len(u) <= Len(s)
               /\ (\E p \in ToSet(s) : p.key = k) => Len(u) < Len(s)
<1> DEFINE S == {p \in ToSet(s) : p.key # k}
<1>1. WithoutKey(s, k) = Only(s, S)
  BY DEF WithoutKey
<1>2. PlansOK(Only(s, S)) /\ ToSet(Only(s, S)) = ToSet(s) \cap S /\ Len(Only(s, S)) <= Len(s)
  <2> HIDE DEF S
  <2> QED BY RetainKeeps
<1>3. ASSUME NEW p \in ToSet(s), p.key = k PROVE Len(Only(s, S)) < Len(s)
  <2>1. p \notin S
    BY <1>3
  <2> HIDE DEF S
  <2> QED BY <2>1, RetainDrops
<1>4. \A p : p \in ToSet(Only(s, S)) <=> p \in ToSet(s) /\ p.key # k
  BY <1>2
<1> HIDE DEF S
<1> QED BY <1>1, <1>2, <1>3, <1>4

AskedOK(x) ==
    /\ x = [pc |-> x.pc, key |-> x.key, plan |-> x.plan, age |-> x.age] /\ x.age \in Ages
    /\ x.pc # "idle" => x.key \in Key
    /\ x.pc = "answered" => x.plan = PlanFor(x.key)
Fill(s) == PlansOK(s) /\ Len(s) <= MaxPlans
PInv == /\ Fill(plans) /\ IsTable(caller, Caller) /\ \A c \in Caller : AskedOK(caller[c])
        /\ OneLeader

\* One caller goes on to x, and does not lead.
LEMMA CallerGoes ==
    ASSUME PInv, NEW c \in Caller, NEW x, AskedOK(x), caller' = [caller EXCEPT ![c] = x],
           x.pc # "lead", inflight' = inflight, Fill(plans')
    PROVE  PInv'
<1>1. IsTable(caller', Caller) /\ caller'[c] = x /\ \A d \in Caller : d # c => caller'[d] = caller[d]
  BY DEF PInv, IsTable
<1>2. \A d \in Caller : AskedOK(caller'[d])
  BY <1>1 DEF PInv
<1>3. \A d \in Caller : caller'[d].pc = "lead" => d # c /\ caller'[d] = caller[d]
  BY <1>1
<1>4. OneLeader'
  BY <1>1, <1>3 DEF PInv, OneLeader
<1> QED BY <1>1, <1>2, <1>4 DEF PInv

LEMMA NotAskingOK == AskedOK(NotAsking) /\ NotAsking.pc = "idle"
BY DEF AskedOK, NotAsking, Ages

\* A caller with another place to go on.
LEMMA AskedAt ==
    ASSUME NEW x, AskedOK(x), x.pc # "idle", NEW pc, pc # "answered"
    PROVE  /\ AskedOK([x EXCEPT !.pc = pc]) /\ [x EXCEPT !.pc = pc].pc = pc /\ [x EXCEPT !.pc = pc].key = x.key
<1> DEFINE y == [x EXCEPT !.pc = pc]
<1>1. y = [pc |-> pc, key |-> x.key, plan |-> x.plan, age |-> x.age]
  BY DEF AskedOK
<1> HIDE DEF y
<1>2. AskedOK(y) /\ y.pc = pc /\ y.key = x.key
  BY <1>1 DEF AskedOK
<1> QED BY <1>2 DEF y

LEMMA Answered ==
    ASSUME NEW k \in Key, NEW a \in Ages, NEW plan, plan = PlanFor(k),
           NEW x, x = [pc |-> "answered", key |-> k, plan |-> plan, age |-> a]
    PROVE  AskedOK(x) /\ x.pc = "answered"
BY DEF AskedOK

LEMMA PlanStartKeeps ==
    ASSUME PInv, NEW c \in Caller, NEW k \in Key, PlanStart(c, k)
    PROVE  PInv'
<1> DEFINE x == caller[c]
           y == [x EXCEPT !.pc = "check", !.key = k]
<1>1. AskedOK(x) /\ IsTable(caller, Caller)
  BY DEF PInv
<1>2. y = [pc |-> "check", key |-> k, plan |-> x.plan, age |-> x.age] /\ x.age \in Ages
  <2> HIDE DEF x
  <2> DEFINE z == [x EXCEPT !.pc = "check"]
  <2>1. x = [pc |-> x.pc, key |-> x.key, plan |-> x.plan, age |-> x.age] /\ x.age \in Ages
    BY <1>1 DEF AskedOK
  <2>2. z = [pc |-> "check", key |-> x.key, plan |-> x.plan, age |-> x.age]
    BY ONLY <2>1
  <2>3. y = [z EXCEPT !.key = k]
    BY ONLY <2>1
  <2> HIDE DEF z, y
  <2>4. y = [pc |-> "check", key |-> k, plan |-> x.plan, age |-> x.age]
    BY ONLY <2>2, <2>3
  <2> QED BY <2>1, <2>4
<1>3. caller' = [caller EXCEPT ![c] = y] /\ inflight' = inflight /\ plans' = plans
  <2>1. caller' = [caller EXCEPT ![c].pc = "check", ![c].key = k]
    BY DEF PlanStart
  <2> QED BY <1>1, <2>1 DEF IsTable, PlanStart
<1> HIDE DEF y, x
<1>4. AskedOK(y) /\ y.pc # "lead"
  BY <1>2 DEF AskedOK
<1> QED BY <1>3, <1>4, CallerGoes DEF PInv

\* Where a caller goes on in a table.
LEMMA CallerAtIs ==
    ASSUME PInv, NEW c \in Caller, caller[c].pc # "idle", NEW pc, pc \notin {"answered", "lead"}, CallerAt(c, pc),
           inflight' = inflight, Fill(plans')
    PROVE  PInv'
<1> DEFINE y == [caller[c] EXCEPT !.pc = pc]
<1>1. caller' = [caller EXCEPT ![c] = y]
  BY DEF CallerAt
<1>2. AskedOK(caller[c])
  BY DEF PInv
<1>3. AskedOK(y) /\ y.pc # "lead"
  BY <1>2, AskedAt
<1> HIDE DEF y
<1> QED BY <1>1, <1>3, CallerGoes

LEMMA PlanIs ==
    ASSUME Fill(plans), NEW k, Valid(k)
    PROVE  Plan(k) \in ToSet(plans) /\ Plan(k).key = k /\ Plan(k) \in Entry /\ Plan(k).plan = PlanFor(k) /\ Plan(k).age \in Ages
<1>1. \E p \in ToSet(plans) : p.key = k
  BY DEF Valid, Keys
<1>2. Plan(k) \in ToSet(plans) /\ Plan(k).key = k
  BY <1>1 DEF Plan
<1>3. plans \in Seq(Entry)
  BY DEF Fill, PlansOK
<1>4. Plan(k) \in Entry
  BY <1>2, <1>3, ToSetIs DEF Listing
<1> QED BY <1>2, <1>4, EntryIs

\* The plan that is used goes to the end.
LEMMA Reappended ==
    ASSUME NEW s, Fill(s), NEW e \in ToSet(s), NEW k, e.key = k
    PROVE  Fill(Append(WithoutKey(s, k), e))
<1> DEFINE u == WithoutKey(s, k)
<1>1. PlansOK(s) /\ Len(s) <= MaxPlans /\ s \in Seq(Entry) /\ MaxPlans \in Nat
  BY ReadsAssumption DEF Fill, PlansOK
<1>2. e \in Entry
  BY <1>1, ToSetIs DEF Listing
<1>3. PlansOK(u) /\ (\A p : p \in ToSet(u) <=> p \in ToSet(s) /\ p.key # k) /\ Len(u) < Len(s)
  BY <1>1, WithoutKeyIs
<1> HIDE DEF u
<1>4. PlansOK(Append(u, e)) /\ Len(Append(u, e)) = Len(u) + 1
  BY <1>2, <1>3, PlansAppend
<1>5. Len(u) \in Nat /\ Len(s) \in Nat
  BY <1>1, <1>3, LenProperties DEF PlansOK
<1>6. Len(Append(u, e)) <= MaxPlans
  BY <1>1, <1>3, <1>4, <1>5
<1> QED BY <1>4, <1>6 DEF Fill, u

LEMMA WithoutFits ==
    ASSUME NEW s, Fill(s), NEW k
    PROVE  Fill(WithoutKey(s, k))
<1> DEFINE u == WithoutKey(s, k)
<1>1. PlansOK(u) /\ Len(u) <= Len(s)
  BY WithoutKeyIs DEF Fill
<1>2. Len(u) \in Nat /\ Len(s) \in Nat /\ MaxPlans \in Nat /\ Len(s) <= MaxPlans
  BY <1>1, LenProperties, ReadsAssumption DEF PlansOK, Fill
<1> QED BY <1>1, <1>2 DEF Fill

LEMMA PlanCheckKeeps ==
    ASSUME PInv, NEW c \in Caller, PlanCheck(c)
    PROVE  PInv'
<1> DEFINE key == caller[c].key
           full == <<key[1], NoRange>>
           use == IF Valid(key) THEN key ELSE full
           seen == IF Valid(key) THEN plans ELSE WithoutKey(plans, key)
           derived == Derive(key[1], key[2])
<1>1. /\ caller[c].pc = "check" /\ key \in Key /\ inflight' = inflight /\ Fill(plans)
  BY DEF PlanCheck, PInv, AskedOK
<1>2. IF Valid(use)
      THEN /\ plans' = Append(WithoutKey(seen, use), Plan(use))
           /\ \/ use = key /\ Answer(c, key, Plan(key).plan, Plan(key).age)
              \/ CallerAt(c, "nothing")
              \/ use # key /\ Answer(c, key, derived, Plan(use).age)
      ELSE plans' = WithoutKey(seen, full) /\ CallerAt(c, "join")
  BY DEF PlanCheck
<1>3. key = <<key[1], key[2]>>
  BY <1>1, KeyIs
<1>4. Fill(seen)
  BY <1>1, WithoutFits
<1>5. Valid(use) => Plan(use) \in ToSet(seen)
  <2>1. CASE Valid(key)
    BY <1>1, <2>1, PlanIs
  <2>2. ASSUME ~Valid(key), Valid(full) PROVE Plan(full) \in ToSet(WithoutKey(plans, key))
    <3>1. Plan(full) \in ToSet(plans) /\ Plan(full).key = full /\ full # key
      BY <1>1, <2>2, PlanIs
    <3>2. PlansOK(plans)
      BY <1>1 DEF Fill
    <3>3. \A p : p \in ToSet(WithoutKey(plans, key)) <=> p \in ToSet(plans) /\ p.key # key
      BY <3>2, WithoutKeyIs
    <3> HIDE DEF full, key
    <3> QED BY <3>1, <3>3
  <2> HIDE DEF full, key
  <2> QED BY <2>1, <2>2
<1>6. CASE ~Valid(use)
  <2>1. Fill(plans')
    <3> HIDE DEF seen, full, use
    <3> QED BY <1>2, <1>4, <1>6, WithoutFits
  <2>2. CallerAt(c, "join")
    BY <1>2, <1>6
  <2> QED BY <1>1, <2>1, <2>2, CallerAtIs
<1>7. CASE Valid(use)
  <2>1. Plan(use).key = use /\ Plan(use).plan = PlanFor(use) /\ Plan(use).age \in Ages
    <3> HIDE DEF use
    <3> QED BY <1>1, <1>7, PlanIs
  <2>2. Fill(plans')
    <3> HIDE DEF seen, full, use
    <3>1. plans' = Append(WithoutKey(seen, use), Plan(use)) /\ Plan(use) \in ToSet(seen)
      BY <1>2, <1>5, <1>7
    <3> QED BY <1>4, <2>1, <3>1, Reappended
  <2>3. ASSUME NEW plan, plan = PlanFor(key), NEW a \in Ages, Answer(c, key, plan, a) PROVE PInv'
    <3> DEFINE y == [pc |-> "answered", key |-> key, plan |-> plan, age |-> a]
    <3>1. AskedOK(y) /\ y.pc = "answered"
      <4> HIDE DEF key
      <4> QED BY <1>1, <2>3, Answered
    <3>2. caller' = [caller EXCEPT ![c] = y]
      BY <2>3 DEF Answer
    <3> HIDE DEF y, key
    <3> QED BY <1>1, <2>2, <3>1, <3>2, CallerGoes
  <2>4. CASE use = key /\ Answer(c, key, Plan(key).plan, Plan(key).age)
    <3>1. Plan(key).plan = PlanFor(key) /\ Plan(key).age \in Ages
      <4> HIDE DEF use, key
      <4> QED BY <2>1, <2>4
    <3> HIDE DEF key, use
    <3> QED BY <2>3, <2>4, <3>1
  <2>5. CASE CallerAt(c, "nothing")
    BY <1>1, <2>2, <2>5, CallerAtIs
  <2>6. CASE use # key /\ Answer(c, key, derived, Plan(use).age)
    <3>1. key[2] # NoRange
      <4>1. use = full
        BY <2>6
      <4> HIDE DEF use, key
      <4> QED BY <1>3, <2>6, <4>1
    <3>2. derived = PlanFor(key)
      BY <3>1 DEF PlanFor
    <3> HIDE DEF key, use, derived
    <3> QED BY <2>1, <2>3, <2>6, <3>2
  <2> HIDE DEF key, use, derived, full, seen
  <2> QED BY <1>2, <1>7, <2>4, <2>5, <2>6
<1> QED BY <1>6, <1>7

LEMMA PlanJoinKeeps ==
    ASSUME PInv, NEW c \in Caller, PlanJoin(c)
    PROVE  PInv'
<1>1. caller[c].pc = "join" /\ AskedOK(caller[c]) /\ plans' = plans /\ Fill(plans)
  BY DEF PlanJoin, PInv
<1>2. CASE caller[c].key \in inflight
  <2>1. CallerAt(c, "wait") /\ inflight' = inflight /\ Fill(plans')
    BY <1>1, <1>2 DEF PlanJoin
  <2> QED BY <1>1, <2>1, CallerAtIs
<1>3. CASE caller[c].key \notin inflight
  <2> DEFINE y == [caller[c] EXCEPT !.pc = "lead"]
  <2>1. AskedOK(y) /\ y.pc = "lead" /\ y.key = caller[c].key
    BY <1>1, AskedAt
  <2>2. caller' = [caller EXCEPT ![c] = y] /\ inflight' = inflight \cup {caller[c].key}
    BY <1>3 DEF PlanJoin, CallerAt
  <2> HIDE DEF y
  <2>3. IsTable(caller', Caller) /\ caller'[c] = y /\ \A d \in Caller : d # c => caller'[d] = caller[d]
    BY <2>2 DEF PInv, IsTable
  <2>4. \A d \in Caller : AskedOK(caller'[d])
    BY <2>1, <2>3 DEF PInv
  <2>5. \A d \in Caller : d # c /\ caller'[d].pc = "lead" => caller[d].key \in inflight /\ caller[d].key # y.key
    BY <1>3, <2>1, <2>3 DEF PInv, OneLeader
  <2>6. OneLeader'
    <3> SUFFICES ASSUME NEW d \in Caller, NEW e \in Caller, caller'[d].pc = "lead"
                 PROVE  /\ caller'[d].key \in inflight'
                        /\ caller'[e].pc = "lead" /\ caller'[e].key = caller'[d].key => d = e
      BY DEF OneLeader
    <3>1. caller'[d].key \in inflight'
      BY <2>1, <2>2, <2>3, <2>5
    <3>2. ASSUME caller'[e].pc = "lead", caller'[e].key = caller'[d].key, d # e PROVE FALSE
      <4>1. CASE d = c \/ e = c
        BY <2>3, <2>5, <3>2, <4>1
      <4>2. CASE d # c /\ e # c
        BY <2>3, <3>2, <4>2 DEF PInv, OneLeader
      <4> QED BY <4>1, <4>2
    <3> QED BY <3>1, <3>2
  <2> QED BY <1>1, <2>3, <2>4, <2>6 DEF PInv
<1> QED BY <1>2, <1>3

\* The leader of a key is done, and who waited for it goes on.
LEMMA WokenKeeps ==
    ASSUME PInv, NEW c \in Caller, caller[c].pc = "lead", NEW k, k = caller[c].key, NEW x, AskedOK(x), x.pc # "lead",
           caller' = Woken(c, k, x), inflight' = inflight \ {k}, Fill(plans')
    PROVE  PInv'
<1> DEFINE woken(d) == IF d = c THEN x
                       ELSE IF caller[d].pc = "wait" /\ caller[d].key = k THEN [caller[d] EXCEPT !.pc = "check"] ELSE caller[d]
<1>1. caller' = [d \in Caller |-> woken(d)]
  BY DEF Woken
<1>2. ASSUME NEW d \in Caller
      PROVE  AskedOK(woken(d)) /\ (woken(d).pc = "lead" => d # c /\ woken(d) = caller[d])
  <2>1. AskedOK(caller[d])
    BY DEF PInv
  <2>2. CASE d = c
    BY <2>2
  <2>3. CASE d # c /\ caller[d].pc = "wait" /\ caller[d].key = k
    <3> DEFINE y == [caller[d] EXCEPT !.pc = "check"]
    <3>1. AskedOK(y) /\ y.pc = "check"
      BY <2>1, <2>3, AskedAt
    <3>2. woken(d) = y
      BY <2>3
    <3> HIDE DEF y, woken
    <3> QED BY <3>1, <3>2
  <2>4. CASE d # c /\ ~(caller[d].pc = "wait" /\ caller[d].key = k)
    BY <2>1, <2>4
  <2> QED BY <2>2, <2>3, <2>4
<1> HIDE DEF woken
<1>3. IsTable(caller', Caller) /\ \A d \in Caller : caller'[d] = woken(d)
  BY <1>1 DEF IsTable
<1>4. \A d \in Caller : caller'[d].pc = "lead" => d # c /\ caller'[d] = caller[d]
  BY <1>2, <1>3
<1>5. OneLeader'
  <2> SUFFICES ASSUME NEW d \in Caller, NEW e \in Caller, caller'[d].pc = "lead"
               PROVE  /\ caller'[d].key \in inflight'
                      /\ caller'[e].pc = "lead" /\ caller'[e].key = caller'[d].key => d = e
    BY DEF OneLeader
  <2>1. d # c /\ caller'[d] = caller[d]
    BY <1>4
  <2>2. caller[d].key \in inflight /\ caller[d].key # k
    BY <2>1 DEF PInv, OneLeader
  <2>3. caller'[e].pc = "lead" /\ caller'[e].key = caller'[d].key => d = e
    BY <1>4, <2>1 DEF PInv, OneLeader
  <2> QED BY <2>1, <2>2, <2>3
<1> QED BY <1>2, <1>3, <1>5 DEF PInv

\* Room is made for one more.
LEMMA RoomIs ==
    ASSUME NEW s, Fill(s)
    PROVE  PlansOK(WithRoom(s)) /\ Len(WithRoom(s)) < MaxPlans
<1> DEFINE u == FullOnes(s)
<1>1. PlansOK(s) /\ Len(s) <= MaxPlans /\ MaxPlans \in Nat \ {0}
  BY ReadsAssumption DEF Fill
<1>2. PlansOK(u) /\ Len(u) <= Len(s)
  BY <1>1, RetainKeeps DEF FullOnes
<1>3. WithRoom(s) = IF Len(s) < MaxPlans THEN s ELSE IF Len(u) < MaxPlans THEN u ELSE Tail(u)
  BY DEF WithRoom
<1> HIDE DEF u
<1>4. Len(s) \in Nat /\ Len(u) \in Nat
  BY <1>1, <1>2, LenProperties DEF PlansOK
<1>5. CASE Len(s) >= MaxPlans /\ Len(u) >= MaxPlans
  <2>1. u # <<>>
    BY <1>1, <1>4, <1>5
  <2>2. PlansOK(Tail(u)) /\ Len(Tail(u)) + 1 = Len(u)
    BY <1>2, <2>1, PlansTail
  <2>3. Len(Tail(u)) \in Nat
    BY <2>2, LenProperties DEF PlansOK
  <2> QED BY <1>1, <1>2, <1>3, <1>4, <1>5, <2>2, <2>3
<1>6. CASE Len(s) < MaxPlans \/ Len(u) < MaxPlans
  BY <1>1, <1>2, <1>3, <1>4, <1>6
<1> QED BY <1>1, <1>4, <1>5, <1>6

LEMMA PlanAnsweredKeeps ==
    ASSUME PInv, NEW c \in Caller, PlanAnswered(c)
    PROVE  PInv'
<1> DEFINE key == caller[c].key
           plan == PlanFor(key)
           entry == [key |-> key, plan |-> plan, age |-> "fresh"]
           s == Purged(key)
           u == WithoutKey(WithRoom(s), key)
           x == [pc |-> "answered", key |-> key, plan |-> plan, age |-> "fresh"]
<1>1. caller[c].pc = "lead" /\ key \in Key /\ Fill(plans)
  BY DEF PlanAnswered, PInv, AskedOK
<1>2. plans' = Append(u, entry) /\ inflight' = inflight \ {key} /\ caller' = Woken(c, key, x)
  BY DEF PlanAnswered, PlanFor
<1>3. Fill(s)
  <2>1. \A S : PlansOK(Only(plans, S)) /\ Len(Only(plans, S)) <= Len(plans)
    BY <1>1, RetainKeeps DEF Fill
  <2>2. MaxPlans \in Nat /\ Len(plans) \in Nat /\ Len(plans) <= MaxPlans
    BY <1>1, ReadsAssumption, LenProperties DEF Fill, PlansOK
  <2>3. \A S : Len(Only(plans, S)) \in Nat
    BY <2>1, LenProperties DEF PlansOK
  <2>4. \A S : Fill(Only(plans, S))
    BY <2>1, <2>2, <2>3 DEF Fill
  <2> HIDE DEF key
  <2> QED BY <1>1, <2>4 DEF Purged
<1> HIDE DEF key, s
<1>4. PlansOK(WithRoom(s)) /\ Len(WithRoom(s)) < MaxPlans
  BY <1>3, RoomIs
<1>5. PlansOK(u) /\ (\A p \in ToSet(u) : p.key # key) /\ Len(u) <= Len(WithRoom(s))
  BY <1>4, WithoutKeyIs
<1>6. entry \in Entry /\ entry.key = key
  BY <1>1 DEF Entry, Ages
<1>7. AskedOK(x) /\ x.pc = "answered"
  <2>1. "fresh" \in Ages
    BY DEF Ages
  <2> HIDE DEF plan
  <2>2. plan = PlanFor(key)
    BY DEF plan
  <2> QED BY <1>1, <2>1, <2>2, Answered
<1> HIDE DEF plan, u, entry, x
<1>8. Fill(plans')
  <2>1. PlansOK(plans') /\ Len(plans') = Len(u) + 1
    BY <1>2, <1>5, <1>6, PlansAppend
  <2>2. Len(u) \in Nat /\ Len(WithRoom(s)) \in Nat /\ MaxPlans \in Nat
    BY <1>4, <1>5, LenProperties, ReadsAssumption DEF PlansOK
  <2>3. Len(plans') <= MaxPlans
    BY <1>4, <1>5, <2>1, <2>2
  <2> QED BY <2>1, <2>3 DEF Fill
<1> QED BY <1>1, <1>2, <1>7, <1>8, WokenKeeps DEF key

LEMMA PlanFailsKeeps ==
    ASSUME PInv, NEW c \in Caller, PlanFails(c)
    PROVE  PInv'
<1> DEFINE x == [caller[c] EXCEPT !.pc = "nothing"]
<1>1. caller[c].pc = "lead" /\ AskedOK(caller[c]) /\ Fill(plans) /\ plans' = plans
  BY DEF PlanFails, PInv
<1>2. AskedOK(x) /\ x.pc = "nothing"
  BY <1>1, AskedAt
<1>3. caller' = Woken(c, caller[c].key, x) /\ inflight' = inflight \ {caller[c].key}
  BY DEF PlanFails
<1> HIDE DEF x
<1> QED BY <1>1, <1>2, <1>3, WokenKeeps

LEMMA PlanEnds ==
    ASSUME PInv, NEW c \in Caller, PlanDropped(c) \/ PlanDone(c)
    PROVE  PInv'
<1>1. Fill(plans') /\ inflight' = inflight
  BY DEF PInv, PlanDropped, PlanDone
<1>2. CASE PlanDropped(c)
  BY <1>1, <1>2, CallerAtIs DEF PlanDropped
<1>3. CASE PlanDone(c)
  BY <1>1, <1>3, CallerGoes, NotAskingOK DEF PlanDone
<1> QED BY <1>2, <1>3

LEMMA PlanAgesKeeps ==
    ASSUME PInv, NEW n \in 1..MaxPlans, PlanAges(n)
    PROVE  PInv'
<1> DEFINE a == IF plans[n].age = "fresh" THEN "old" ELSE "expired"
           e == [plans[n] EXCEPT !.age = a]
<1>1. plans \in Seq(Entry) /\ OnePlanEach(plans) /\ Len(plans) <= MaxPlans
  BY DEF PInv, Fill, PlansOK
<1>2. n \in 1..Len(plans) /\ plans[n] \in Entry
  <2>1. n \in DOMAIN plans /\ DOMAIN plans = 1..Len(plans)
    BY <1>1, LenProperties DEF PlanAges
  <2> QED BY <1>1, <2>1, ElementOfSeq
<1>3. plans' = [plans EXCEPT ![n] = e] /\ inflight' = inflight /\ caller' = caller
  BY DEF PlanAges
<1>4. e \in Entry /\ e.key = plans[n].key
  <2> DEFINE p == plans[n]
  <2>1. /\ p = [key |-> p.key, plan |-> p.plan, age |-> p.age]
        /\ p.key \in Key /\ p.plan = PlanFor(p.key)
    BY <1>2, EntryIs
  <2>2. a \in Ages
    BY DEF Ages
  <2> HIDE DEF a, p
  <2>3. e = [key |-> p.key, plan |-> p.plan, age |-> a]
    BY <2>1 DEF p
  <2> HIDE DEF e
  <2>4. e.key = p.key /\ e.plan = p.plan /\ e.age = a
    BY <2>3
  <2>5. e \in Entry
    BY <2>1, <2>2, <2>3, <2>4, EntryIs
  <2> QED BY <2>4, <2>5 DEF p
<1> HIDE DEF e
<1>5. plans' \in Seq(Entry) /\ Len(plans') = Len(plans) /\ \A i \in 1..Len(plans) : plans'[i] = IF i = n THEN e ELSE plans[i]
  BY <1>1, <1>2, <1>3, <1>4, ExceptSeq
<1>6. Fill(plans')
  BY <1>1, <1>2, <1>4, <1>5 DEF Fill, PlansOK, OnePlanEach
<1> QED BY <1>3, <1>6 DEF PInv, OneLeader

\* A stream asks for the plan of what it has to read.
LEMMA OpenStreamKeeps ==
    ASSUME PInv, RInv, NEW r \in Reader, r \in Caller, OpenStream(r)
    PROVE  PInv'
<1> DEFINE x == reader[r]
           from == Cursor(x)
           end == StreamEnd(x)
           k == <<x.h, <<from, end>>>>
<1>1. x \in ReaderRec /\ x.h \in Hash /\ PsOK(x.ps) /\ Fits(x) /\ Missing(x)
  BY DEF OpenStream, RInv, Sound
<1>2. PlanStart(r, k)
  BY DEF OpenStream
<1> HIDE DEF x
<1>3. x.offset \in Nat /\ x.data \in ByteSeq /\ x.ps.size \in Nat
  BY <1>1, PsNumbers DEF ReaderRec, PsOK, Numbers
<1>4. from \in Nat
  <2>1. Len(x.data) \in Nat
    BY <1>3, LenProperties DEF ByteSeq
  <2> QED BY <1>3, <2>1 DEF Cursor
<1>5. from < x.ps.size /\ x.size \in 1..x.ps.size - from
  BY <1>1 DEF Missing
<1>6. end = x.ps.size \/ end = from + x.size
  BY DEF StreamEnd
<1> HIDE DEF from, end
<1>7. end \in Nat /\ from < end
  BY <1>3, <1>4, <1>5, <1>6
<1>8. x.ps.size = FileSize(x.h)
  BY <1>1, ReadsAssumption DEF Fits
<1>9. k \in Key
  <2> DEFINE q == <<from, end>>
  <2>1. q \in ByteRange /\ q[1] = from
    BY <1>4, <1>7 DEF ByteRange
  <2> HIDE DEF q
  <2>2. <<x.h, q>> \in Key
    BY <1>1, <1>5, <1>8, <2>1 DEF Key
  <2> QED BY <2>2 DEF q
<1> HIDE DEF k
<1> QED BY <1>2, <1>9, PlanStartKeeps

LEMMA WarmKeeps ==
    ASSUME PInv, NEW c \in Caller, NEW h \in Hash, WarmCache(c, h)
    PROVE  PInv'
<1>1. <<h, NoRange>> \in Key
  BY DEF Key
<1> QED BY <1>1, PlanStartKeeps DEF WarmCache

LEMMA PlansStart == Init => PInv
<1> SUFFICES ASSUME Init PROVE PInv
  OBVIOUS
<1>1. plans = <<>> /\ inflight = {} /\ caller = [c \in Caller |-> NotAsking]
  BY DEF Init, PlanInit
<1>2. Fill(<<>>)
  <2>1. <<>> \in Seq(Entry) /\ Len(<<>>) = 0 /\ 0 <= MaxPlans
    BY ReadsAssumption
  <2> QED BY <2>1 DEF Fill, PlansOK, OnePlanEach
<1>3. IsTable(caller, Caller) /\ \A c \in Caller : caller[c] = NotAsking
  BY <1>1 DEF IsTable
<1> QED BY <1>1, <1>2, <1>3, NotAskingOK DEF PInv, OneLeader

LEMMA PlansStep == ASSUME PInv, RInv, [Next]_vars PROVE PInv'
<1>0. ASSUME UNCHANGED planvars PROVE PInv'
  BY <1>0 DEF planvars, PInv, OneLeader
<1>1. CASE UNCHANGED vars
  BY <1>0, <1>1 DEF vars
<1>2. \A c : /\ c \in case.readers => c \in Reader /\ c \in Caller
             /\ c \in case.warmers => c \in Caller
             /\ c \in case.hashes => c \in Hash
  BY ReadsAssumption DEF RInv
<1>3. ASSUME NEW r \in case.readers, ReaderStep(r) \/ Close(r) PROVE PInv'
  <2>1. \/ UNCHANGED planvars \/ OpenStream(r) \/ PlanDone(r)
    BY <1>3 DEF ReaderStep, OpenLocal, OpenMissed, ReadDone, StreamPlanned, Attempt, AttemptFails, Close, OnlyReader
  <2> QED BY <1>0, <1>2, <2>1, OpenStreamKeeps, PlanEnds
<1>4. ASSUME NEW r \in case.readers, NEW h \in case.hashes, OpenLazy(r, h) \/ \E m \in case.mounts : StartOpen(r, m, h) PROVE PInv'
  BY <1>0, <1>4 DEF OpenLazy, StartOpen, OnlyReader
<1>5. ASSUME NEW r \in case.readers, NEW n \in case.lengths, NEW k \in 0..reader[r].ps.size, Read(r, k, n) PROVE PInv'
  BY <1>0, <1>5 DEF Read, OnlyReader
<1>6. ASSUME NEW c \in case.warmers, NEW h \in case.hashes, WarmCache(c, h) PROVE PInv'
  BY <1>2, <1>6, WarmKeeps
<1>7. CASE PlanNext
  <2>1. \/ \E c \in Caller : PlanCheck(c) \/ PlanJoin(c) \/ PlanAnswered(c) \/ PlanFails(c) \/ PlanDropped(c) \/ PlanDone(c)
        \/ \E n \in 1..MaxPlans : PlanAges(n)
    BY <1>2, <1>7 DEF PlanNext, PlanStep
  <2> QED BY <2>1, PlanCheckKeeps, PlanJoinKeeps, PlanAnsweredKeeps, PlanFailsKeeps, PlanEnds, PlanAgesKeeps
<1>8. CASE CacheNext \/ HttpNext
  BY <1>0, <1>8 DEF CacheNext, HttpNext
<1> QED BY <1>1, <1>3, <1>4, <1>5, <1>6, <1>7, <1>8 DEF Next

\* Whatever callers ask for, whatever plans age, are dropped or purged, and
\* whichever calls fail or are given up: a plan that is given covers the
\* range to the byte, from the cache or not; the cache keeps its bound and one
\* plan per key; and one caller at most asks the server for a key.
THEOREM PlansAreSound == Spec => []PlansSound
<1> DEFINE All == RInv /\ PInv
<1>1. Init => All
  BY ReadsStart, PlansStart
<1>2. All /\ [Next]_vars => All'
  BY ReadsStep, PlansStep
<1>3. All => PlansSound
  <2> SUFFICES ASSUME All PROVE PlanCovers /\ PlansBounded /\ OneLeader
    BY DEF PlansSound
  <2>1. PlanCovers
    <3> SUFFICES ASSUME NEW c \in Caller, caller[c].pc = "answered", caller[c].key[2] # NoRange
                 PROVE  Covers(caller[c].key[1], caller[c].key[2], caller[c].plan)
      BY DEF PlanCovers, Covers
    <3> DEFINE k == caller[c].key
    <3>1. k \in Key /\ caller[c].plan = PlanFor(k)
      BY DEF PInv, AskedOK
    <3> HIDE DEF k
    <3>2. k[1] \in Hash /\ k[2] \in ByteRange /\ k[2][1] < FileSize(k[1])
      BY <3>1, KeyIs DEF k
    <3>3. k[2][1] \in Nat /\ k[2][2] \in Nat /\ k[2][1] < k[2][2]
      BY <3>2 DEF ByteRange
    <3>4. PlanFor(k) = Derive(k[1], k[2])
      BY DEF PlanFor, k
    <3>5. Covers(k[1], k[2], Derive(k[1], k[2]))
      BY <3>2, <3>3, DerivedCovers
    <3> QED BY <3>1, <3>4, <3>5 DEF k
  <2>2. PlansBounded
    <3>1. plans \in Seq(Entry) /\ OnePlanEach(plans) /\ Len(plans) <= MaxPlans
      BY DEF PInv, Fill, PlansOK
    <3> DEFINE f == [n \in DOMAIN plans |-> plans[n].key]
    <3>2. DOMAIN f = 1..Len(plans) /\ \A n \in 1..Len(plans) : f[n] = plans[n].key
      BY <3>1, LenProperties
    <3> HIDE DEF f
    <3>3. IsInjective(f)
      BY <3>1, <3>2 DEF IsInjective, OnePlanEach
    <3> QED BY <3>1, <3>3 DEF PlansBounded, f
  <2>3. OneLeader
    BY DEF PInv
  <2> QED BY <2>1, <2>2, <2>3
<1> HIDE DEF All
<1>4. Spec => []All
  BY <1>1, <1>2, PTL DEF Spec
<1> QED BY <1>3, <1>4, PTL
=============================================================================
