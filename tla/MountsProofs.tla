---------------------------- MODULE MountsProofs ----------------------------
(***************************************************************************)
(* Proofs about Mounts, for any numbers of requests, letters, mounts and   *)
(* files: the registry and the volumes agree, no staging folder goes with  *)
(* unsaved files, an exit or a crash loses nothing in silence, and the     *)
(* supervisor implements Volumes.                                          *)
(***************************************************************************)
EXTENDS Mounts, TLAPS

------------------------------------------------------------------------------
(* The inductive invariant, in parts. *)

\* The steps at which a process has a handle in hand, or (build) makes one, or
\* (retain) has just used one up.
Unmounting == {"drive", "drain", "save", "free"}
Hands == {"build", "settle", "retain"} \cup Unmounting

\* What a process has in hand fits its step; check_health's list of lost handles
\* exists from its lock to the last of their unmounts.
Shape(p) ==
    /\ call[p].at \in Hands <=> call[p].id \in Mount
    /\ call[p].todo # {} => call[p].at = "lost" \/ (call[p].at \in Unmounting /\ call[p].next = "lost")
    /\ call[p].id \notin call[p].todo
    /\ call[p].at \in Unmounting => call[p].next # "idle"
    /\ call[p].at = "retain" => call[p].next = "retain"
    /\ call[p].at = "next" => call[p].then = "next"
ShapeInv == \A p \in Process : Shape(p)

\* From the first entries.clear() on the registry stays empty, and from
\* request_shutdown on no mount begins.
Cleared == call[Monitor].at \in {"erase", "exit"} \/ call[Monitor].pass = 2
HostInv ==
    /\ host.at = "off" => /\ entries = {} /\ \A p \in Process : call[p] = Idle
                          /\ \A v \in Mount : vol[v].engine # "on"
    /\ host.at # "off" => host.ended = "running"
    /\ TearingDown \/ Cleared \/ call[Monitor].at = "stop_all" => host.shutdown
    /\ Cleared => entries = {}

\* A process that has a mount in hand from mount() or unmount(), whose record it is
\* to settle or to remove.
Starts(p) == call[p].at \in {"build", "settle"}
Stops(p) == call[p].at \in Unmounting \cup {"retain"} /\ call[p].next = "retain"

\* Nobody shares a handle; the record of a mount in hand is in the state its holder
\* gave it (or failed, for a lost one), and it is there until it is settled or
\* removed, unless entries.clear() took it.
HandInv ==
    \A p \in Process, v \in Mount : Holds(p, v) =>
        /\ \A q \in Process : Holds(q, v) => p = q
        /\ vol[v].target \in Target
        /\ \A e \in entries : e.id = v =>
              /\ e.state # "mounted"
              /\ e.state = "starting" => Starts(p)
              /\ e.state = "stopping" => Stops(p)
        /\ Starts(p) \/ Stops(p) =>
              \/ \E e \in entries : e.id = v /\ e.state # "failed"
              \/ entries = {} /\ host.shutdown
Serving(v) == vol[v].engine = "on" /\ vol[v].drive \in {"up", "lost"}
HolderInv ==
    /\ \A v \in Mount : vol[v].engine = "on" =>
          (\E p \in Process : Holds(p, v)) \/ \E e \in entries : e.id = v /\ e.state = "mounted"
    /\ \A e \in entries :
          /\ vol[e.id].target = e.target
          /\ e.state \in {"starting", "stopping"} => \E p \in Process : Holds(p, e.id)
          /\ e.state = "mounted" => Serving(e.id)

\* The drive, the engine and the files of a volume, step by step of its unmount.
Held(p) ==
    /\ \A v \in call[p].todo : Serving(v)
    /\ \A v \in Mount : v = call[p].id =>
          /\ call[p].at = "build" => vol[v].engine = "none"
          /\ call[p].at = "settle" => vol[v].engine = "off" \/ Serving(v)
          /\ call[p].at = "drive" => Serving(v)
          /\ call[p].at \in {"drain", "save", "free"} => vol[v].engine = "on" /\ vol[v].drive = "gone"
          /\ call[p].at = "retain" => vol[v].engine = "off"
          /\ call[p].at = "free" => vol[v].dirty \subseteq vol[v].copied \/ vol[v].kept
HeldInv == \A p \in Process : Held(p)
Untouched(v) == vol[v].copied = {} /\ ~vol[v].kept
VolOf(v) ==
    /\ vol[v].drive = "none" => vol[v].engine \in {"none", "off"} /\ vol[v].dirty = {} /\ Untouched(v)
    /\ vol[v].engine = "none" => vol[v].drive = "none"
    /\ vol[v].drive \in {"up", "lost"} => vol[v].engine = "on"
    /\ vol[v].engine = "on" => Untouched(v) \/ \E p \in Process : call[p].at = "free" /\ call[p].id = v
VolInv == \A v \in Mount : VolOf(v)

\* While unmount_all is under way, what is mounted is on its list.
TearInv == "slips_in" \notin case.events /\ TearingDown =>
    \A e \in entries : e.state = "mounted" => e.id \in call[Monitor].stops
KeptInv == "slips_in" \notin case.events => NothingDiscarded
ExitInv == "impatient" \notin case.events => ExitIsSafe

\* The journal a crash leaves is what this supervisor wrote last, it stays until
\* somebody reports it, and a client has read either it or one that is gone.
JournalInv == "start_first" \notin case.events =>
    /\ \A pid \in told.owed :
          \/ pid \in told.said
          \/ /\ host.at = "off" /\ journal.file # NONE
             /\ journal.file.pid = pid /\ journal.file.mounts # {}
    /\ \A k \in Client : journal.read[k] # NONE =>
          host.at = "off" /\ (journal.file = NONE \/ journal.read[k] = journal.file)
    /\ told.again = {}
    /\ \A pid \in told.said : pid <= host.pid /\ (host.at # "off" => pid < host.pid)
    /\ journal.file # NONE => journal.file.pid \notin told.said /\ journal.file.pid <= host.pid
    /\ journal.written # NONE => host.at # "off" /\ journal.file = journal.written

------------------------------------------------------------------------------
(* What the constants and the types say. *)

LEMMA Facts ==
    ASSUME TypeOK
    PROVE  /\ case.threads \subseteq Thread /\ case.targets \subseteq Target
           /\ case.mounts \subseteq Mount /\ case.files \subseteq File
           /\ Thread \subseteq Process /\ Monitor \in Process /\ Monitor \notin Thread
           /\ Idle \in Calls /\ Listed \in SUBSET Target
           /\ NONE \notin Mount \cup Target /\ NONE \notin Notices
<1>1. Idle \in Calls
  BY DEF Idle, Calls, Steps
<1>2. Listed \in SUBSET Target
  BY DEF TypeOK, Listed, InState, Entries
<1> QED
  BY <1>1, <1>2, MountsAssumption DEF TypeOK, Process, Notices

\* What an entry of the registry is.
LEMMA EntryFacts ==
    ASSUME TypeOK, NEW e \in entries
    PROVE  /\ e.id \in Mount /\ e.target \in Target /\ e.state \in State
           /\ \A f \in entries : e.target = f.target \/ e.id = f.id => e = f
BY DEF TypeOK, Entries

\* The fields of a process's record and of a volume.
LEMMA FieldFacts ==
    ASSUME TypeOK
    PROVE  /\ \A p \in Process : /\ call[p] \in Calls /\ call[p].at \in Steps
                                 /\ call[p].id \in Mount \cup {NONE} /\ call[p].then \in Steps
                                 /\ call[p].then \in {"idle", "decide", "next"}
                                 /\ call[p].next \in {"idle", "retain", "lost", "prune"}
                                 /\ call[p].todo \subseteq Mount /\ call[p].stops \subseteq Mount
                                 /\ call[p].seen \subseteq Target /\ call[p].pass \in {1, 2}
           /\ \A v \in Mount : /\ vol[v] \in Volume /\ vol[v].target \in Target \cup {NONE}
                               /\ vol[v].drive \in {"none", "up", "lost", "gone"}
                               /\ vol[v].engine \in {"none", "on", "off", "killed", "left"}
                               /\ vol[v].dirty \subseteq File /\ vol[v].copied \subseteq File
                               /\ vol[v].kept \in BOOLEAN /\ vol[v].writer \in BOOLEAN
BY DEF TypeOK, Calls, Volume, Steps

------------------------------------------------------------------------------
(* What the actions do, field by field. *)

\* Only p's record changes, to one of the right type.
OnlyOf(p) ==
    /\ call' \in [Process -> Calls]
    /\ \A q \in Process : q # p => call'[q] = call[q]
Keeps(p) ==
    /\ call'[p].id = call[p].id /\ call'[p].next = call[p].next /\ call'[p].then = call[p].then
    /\ call'[p].todo = call[p].todo /\ call'[p].stops = call[p].stops /\ call'[p].pass = call[p].pass
\* p goes on to its next step with what it has in hand.
Moves(p, at) == OnlyOf(p) /\ call'[p].at = at /\ Keeps(p)
\* p has v in hand, or nothing (NONE); its lists are as given.
Turns(p, at, v, todo, stops) ==
    /\ OnlyOf(p) /\ call'[p].at = at /\ call'[p].id = v
    /\ call'[p].todo = todo /\ call'[p].stops = stops

\* Only v's volume changes.
OnlyVolume(v) ==
    /\ vol' \in [Mount -> Volume]
    /\ \A w \in Mount : w # v => vol'[w] = vol[w]
    /\ vol'[v].target = vol[v].target
\* The marked entries, and nothing else.
Marks(ids, state) ==
    /\ \A e \in entries' : \E f \in entries :
          e.id = f.id /\ e.target = f.target /\ e.state = IF f.id \in ids THEN state ELSE f.state
    /\ \A f \in entries : \E e \in entries' :
          e.id = f.id /\ e.target = f.target /\ e.state = IF f.id \in ids THEN state ELSE f.state

\* Any record of the right type may replace p's.
LEMMA BecomesFacts ==
    ASSUME TypeOK, NEW p \in Process, NEW c \in Calls, Becomes(p, c)
    PROVE  OnlyOf(p) /\ call'[p] = c
BY DEF TypeOK, Becomes, OnlyOf

\* The same for a volume that keeps its letter.
LEMMA VolumeFacts ==
    ASSUME TypeOK, NEW v \in Mount, NEW d \in Volume, d.target = vol[v].target, vol' = [vol EXCEPT ![v] = d]
    PROVE  OnlyVolume(v) /\ vol'[v] = d
BY DEF TypeOK, OnlyVolume

LEMMA GoesFacts ==
    ASSUME TypeOK, NEW p \in Process, NEW at \in Steps, Goes(p, at)
    PROVE  Moves(p, at)
<1> DEFINE c == [call[p] EXCEPT !.at = at]
<1>1. c \in Calls /\ c.at = at
  BY FieldFacts DEF Calls
<1>2. /\ c.id = call[p].id /\ c.next = call[p].next /\ c.then = call[p].then
      /\ c.todo = call[p].todo /\ c.stops = call[p].stops /\ c.pass = call[p].pass
  BY FieldFacts DEF Calls
<1>3. Becomes(p, c)
  BY DEF Goes, Becomes, TypeOK
<1> HIDE DEF c
<1> QED
  BY <1>1, <1>2, <1>3, BecomesFacts DEF Moves, Keeps

\* Marking keeps what else the entries are.
LEMMA MarkedFacts ==
    ASSUME TypeOK, NEW ids \in SUBSET Mount, NEW state \in State, entries' = Marked(ids, state)
    PROVE  /\ entries' \subseteq Entries
           /\ \A e, f \in entries' : e.target = f.target \/ e.id = f.id => e = f
           /\ Marks(ids, state)
<1> DEFINE M(f) == IF f.id \in ids THEN [f EXCEPT !.state = state] ELSE f
<1>1. \A f \in entries : /\ M(f) \in Entries /\ M(f).id = f.id /\ M(f).target = f.target
                         /\ M(f).state = IF f.id \in ids THEN state ELSE f.state
  BY DEF TypeOK, Entries
<1>2. \A e : e \in entries' <=> \E f \in entries : e = M(f)
  BY DEF Marked
<1>3. \A e, f \in entries : e.target = f.target \/ e.id = f.id => e = f
  BY DEF TypeOK
<1>4. entries' \subseteq Entries
  BY <1>1, <1>2
<1>5. ASSUME NEW a \in entries', NEW b \in entries', a.target = b.target \/ a.id = b.id
      PROVE  a = b
  <2>1. PICK f \in entries : a = M(f)
    BY <1>2
  <2>2. PICK g \in entries : b = M(g)
    BY <1>2
  <2>3. f = g
    BY <1>1, <1>3, <1>5, <2>1, <2>2
  <2> QED BY <2>1, <2>2, <2>3
<1>6. ASSUME NEW a \in entries'
      PROVE  \E f \in entries : /\ a.id = f.id /\ a.target = f.target
                                /\ a.state = IF f.id \in ids THEN state ELSE f.state
  <2>1. PICK f \in entries : a = M(f)
    BY <1>2
  <2> QED BY <1>1, <2>1
<1>7. ASSUME NEW f \in entries
      PROVE  \E a \in entries' : /\ a.id = f.id /\ a.target = f.target
                                 /\ a.state = IF f.id \in ids THEN state ELSE f.state
  BY <1>1, <1>2
<1> QED
  BY <1>4, <1>5, <1>6, <1>7 DEF Marks

\* unmount() marks one entry.
LEMMA MarkedOne ==
    ASSUME TypeOK, NEW e \in entries, entries' = Marked({e.id}, "stopping")
    PROVE  /\ \A a \in entries' : \E f \in entries :
                 a.id = f.id /\ a.target = f.target /\ a.state = IF f.id = e.id THEN "stopping" ELSE f.state
           /\ \A f \in entries : \E a \in entries' :
                 a.id = f.id /\ a.target = f.target /\ a.state = IF f.id = e.id THEN "stopping" ELSE f.state
<1>1. {e.id} \in SUBSET Mount /\ "stopping" \in State
  BY EntryFacts DEF State
<1>2. Marks({e.id}, "stopping")
  BY <1>1, MarkedFacts
<1> QED
  BY SMTT(30), <1>2 DEF Marks

\* A handle in hand is that of a mount.
LEMMA InHand ==
    ASSUME TypeOK, ShapeInv, NEW p \in Process, call[p].at \in Hands
    PROVE  call[p].id \in Mount
BY DEF ShapeInv, Shape

LEMMA ServeEffect ==
    ASSUME TypeOK, ShapeInv, NEW p \in Process, Serve(p)
    PROVE  /\ call[p].at = "build" /\ Moves(p, "settle") /\ UNCHANGED <<host, entries, journal, told, case>>
           /\ \E v \in Mount :
                 /\ v = call[p].id /\ LetterFree(vol[v].target) /\ OnlyVolume(v)
                 /\ vol'[v].drive = "up" /\ vol'[v].engine = "on" /\ vol'[v].dirty = vol[v].dirty
                 /\ vol'[v].copied = vol[v].copied /\ vol'[v].kept = vol[v].kept
<1>1. PICK v \in Mount : v = call[p].id
  BY InHand DEF Serve, Hands
<1> DEFINE d == [vol[v] EXCEPT !.drive = "up", !.engine = "on"]
<1>2. /\ d \in Volume /\ d.target = vol[v].target /\ d.drive = "up" /\ d.engine = "on" /\ d.dirty = vol[v].dirty
      /\ d.copied = vol[v].copied /\ d.kept = vol[v].kept
  BY FieldFacts DEF Volume
<1>4. vol' = [vol EXCEPT ![v] = d]
  BY <1>1 DEF Serve, TypeOK
<1> HIDE DEF d
<1>5. OnlyVolume(v) /\ vol'[v] = d
  BY <1>2, <1>4, VolumeFacts
<1>6. Moves(p, "settle")
  BY GoesFacts DEF Serve, Steps
<1> QED
  BY <1>1, <1>2, <1>5, <1>6 DEF Serve, OnlyVol

LEMMA MountFailsEffect ==
    ASSUME TypeOK, ShapeInv, NEW p \in Process, MountFails(p)
    PROVE  /\ call[p].at = "build" /\ Moves(p, "settle") /\ UNCHANGED <<host, entries, journal, told, case>>
           /\ \E v \in Mount :
                 /\ v = call[p].id /\ OnlyVolume(v)
                 /\ vol'[v].drive = vol[v].drive /\ vol'[v].engine = "off" /\ vol'[v].dirty = vol[v].dirty
                 /\ vol'[v].copied = vol[v].copied /\ vol'[v].kept = vol[v].kept
<1>1. PICK v \in Mount : v = call[p].id
  BY InHand DEF MountFails, Hands
<1>2. OnlyVolume(v) /\ vol'[v] = [vol[v] EXCEPT !.engine = "off"]
  BY <1>1, FieldFacts DEF MountFails, OnlyVolume, TypeOK, Volume
<1>3. Moves(p, "settle")
  BY GoesFacts DEF MountFails, Steps
<1> QED
  BY <1>1, <1>2, <1>3, FieldFacts DEF MountFails, OnlyVol, Volume

\* The record, if it is still there, is settled; without it the volume is an orphan.
LEMMA SettleEffect ==
    ASSUME TypeOK, ShapeInv, NEW p \in Process, Settle(p)
    PROVE  /\ call[p].at = "settle" /\ ("slips_in" \in case.events \/ ~TearingDown)
           /\ UNCHANGED <<host, vol, journal, told, case>>
           /\ \E v \in Mount :
                 /\ v = call[p].id
                 /\ entries' = Marked({v}, IF vol[v].engine = "on" THEN "mounted" ELSE "failed")
                 /\ OnlyOf(p) /\ call'[p].todo = call[p].todo /\ call'[p].stops = call[p].stops
                 /\ call'[p].then = call[p].then /\ call'[p].pass = call[p].pass
                 /\ IF vol[v].engine = "on" /\ ~\E e \in entries : e.id = v
                    THEN call'[p].at = "drive" /\ call'[p].next = "prune" /\ call'[p].id = v
                    ELSE call'[p].at = "prune" /\ call'[p].id = NONE
<1>1. PICK v \in Mount : v = call[p].id
  BY InHand DEF Settle, Hands
<1> DEFINE orphan == vol[v].engine = "on" /\ ~\E e \in entries : e.id = v
           c == IF orphan THEN [call[p] EXCEPT !.at = "drive", !.next = "prune"]
                ELSE [call[p] EXCEPT !.at = "prune", !.id = NONE]
<1>2. /\ c \in Calls /\ c.todo = call[p].todo /\ c.stops = call[p].stops
      /\ c.then = call[p].then /\ c.pass = call[p].pass
      /\ IF orphan THEN c.at = "drive" /\ c.next = "prune" /\ c.id = v ELSE c.at = "prune" /\ c.id = NONE
  BY ZenonT(40), <1>1, FieldFacts DEF Calls, Steps
<1>3. /\ entries' = Marked({v}, IF vol[v].engine = "on" THEN "mounted" ELSE "failed")
      /\ Becomes(p, c)
  BY <1>1 DEF Settle
<1> HIDE DEF c
<1>4. OnlyOf(p) /\ call'[p] = c
  BY <1>2, <1>3, BecomesFacts
<1> QED
  BY <1>1, <1>2, <1>3, <1>4 DEF Settle, OnlyEntries, Happens

\* Only failed records go.
LEMMA PruneEffect ==
    ASSUME TypeOK, NEW p \in Process, PruneFailed(p)
    PROVE  /\ call[p].at = "prune" /\ Moves(p, "list") /\ UNCHANGED <<host, vol, journal, told, case>>
           /\ entries' \subseteq entries /\ \A e \in entries : e.state # "failed" => e \in entries'
<1>1. Moves(p, "list")
  BY GoesFacts DEF PruneFailed, Steps
<1> QED
  BY <1>1 DEF PruneFailed, Pruned, InState, OnlyEntries

LEMMA DriveGoneEffect ==
    ASSUME TypeOK, ShapeInv, NEW p \in Process, DriveGone(p)
    PROVE  /\ call[p].at = "drive" /\ Moves(p, "drain") /\ UNCHANGED <<host, entries, journal, told, case>>
           /\ \E v \in Mount :
                 /\ v = call[p].id /\ OnlyVolume(v)
                 /\ vol'[v].drive = "gone" /\ vol'[v].engine = vol[v].engine /\ vol'[v].dirty = vol[v].dirty
                 /\ vol'[v].copied = vol[v].copied /\ vol'[v].kept = vol[v].kept
<1>1. PICK v \in Mount : v = call[p].id
  BY InHand DEF DriveGone, Hands, Unmounting
<1> DEFINE d == [vol[v] EXCEPT !.drive = "gone", !.writer = FALSE]
<1>2. /\ d \in Volume /\ d.target = vol[v].target /\ d.drive = "gone" /\ d.engine = vol[v].engine /\ d.dirty = vol[v].dirty
      /\ d.copied = vol[v].copied /\ d.kept = vol[v].kept
  BY FieldFacts DEF Volume
<1>4. vol' = [vol EXCEPT ![v] = d]
  BY <1>1 DEF DriveGone, TypeOK
<1> HIDE DEF d
<1>5. OnlyVolume(v) /\ vol'[v] = d
  BY <1>2, <1>4, VolumeFacts
<1>6. Moves(p, "drain")
  BY GoesFacts DEF DriveGone, Steps
<1> QED
  BY <1>1, <1>2, <1>5, <1>6 DEF DriveGone, OnlyVol

LEMMA DrainEffect ==
    ASSUME TypeOK, ShapeInv, NEW p \in Process, Drain(p)
    PROVE  /\ call[p].at = "drain" /\ Moves(p, "save") /\ UNCHANGED <<host, entries, journal, told, case>>
           /\ \E v \in Mount :
                 /\ v = call[p].id /\ OnlyVolume(v)
                 /\ vol'[v].drive = vol[v].drive /\ vol'[v].engine = vol[v].engine
                 /\ \E sent \in SUBSET vol[v].dirty : vol'[v].dirty = vol[v].dirty \ sent
                 /\ vol'[v].copied = vol[v].copied /\ vol'[v].kept = vol[v].kept
<1>1. PICK v \in Mount : v = call[p].id
  BY InHand DEF Drain, Hands, Unmounting
<1>2. PICK sent \in SUBSET vol[v].dirty : vol' = [vol EXCEPT ![v].dirty = @ \ sent]
  BY <1>1 DEF Drain
<1>3. OnlyVolume(v) /\ vol'[v] = [vol[v] EXCEPT !.dirty = @ \ sent]
  BY SMTT(30), <1>2, FieldFacts DEF OnlyVolume, TypeOK, Volume
<1>4. Moves(p, "save")
  BY GoesFacts DEF Drain, Steps
<1> QED
  BY ZenonT(40), <1>1, <1>3, <1>4, FieldFacts DEF Drain, OnlyVol, Volume

LEMMA SaveEffect ==
    ASSUME TypeOK, ShapeInv, NEW p \in Process, Save(p)
    PROVE  /\ call[p].at = "save" /\ Moves(p, "free") /\ UNCHANGED <<host, entries, journal, told, case>>
           /\ \E v \in Mount :
                 /\ v = call[p].id /\ OnlyVolume(v)
                 /\ vol'[v].drive = vol[v].drive /\ vol'[v].engine = vol[v].engine
                 /\ vol'[v].dirty = vol[v].dirty /\ vol'[v].copied \subseteq vol[v].dirty
                 /\ vol'[v].kept <=> vol'[v].copied # vol[v].dirty
<1>1. PICK v \in Mount : v = call[p].id
  BY InHand DEF Save, Hands, Unmounting
<1>2. PICK copied \in SUBSET vol[v].dirty :
         vol' = [vol EXCEPT ![v].copied = copied, ![v].kept = copied # vol[v].dirty]
  BY <1>1 DEF Save, Preserved
<1> DEFINE kept == copied # vol[v].dirty
<1>3. kept \in BOOLEAN /\ vol' = [vol EXCEPT ![v].copied = copied, ![v].kept = kept]
  BY <1>2
<1>4. kept <=> copied # vol[v].dirty
  OBVIOUS
<1> HIDE DEF kept
<1> DEFINE d == [vol[v] EXCEPT !.copied = copied, !.kept = kept]
<1>5. /\ d \in Volume /\ d.target = vol[v].target /\ d.drive = vol[v].drive /\ d.engine = vol[v].engine
      /\ d.dirty = vol[v].dirty /\ d.copied = copied /\ d.kept = kept
  BY <1>3, FieldFacts DEF Volume
<1>6. vol' = [vol EXCEPT ![v] = d]
  BY <1>3 DEF TypeOK
<1> HIDE DEF d
<1>7. OnlyVolume(v) /\ vol'[v] = d
  BY <1>5, <1>6, VolumeFacts
<1>8. Moves(p, "free")
  BY GoesFacts DEF Save, Steps
<1> QED
  BY <1>1, <1>4, <1>5, <1>7, <1>8 DEF Save, OnlyVol

\* The handle is used up; unmount() still has the target.
LEMMA FreeEffect ==
    ASSUME TypeOK, ShapeInv, NEW p \in Process, Free(p)
    PROVE  /\ call[p].at = "free" /\ UNCHANGED <<host, entries, journal, told, case>>
           /\ \E v \in Mount :
                 /\ v = call[p].id /\ OnlyVolume(v)
                 /\ vol'[v].drive = vol[v].drive /\ vol'[v].engine = "off" /\ vol'[v].dirty = vol[v].dirty
                 /\ vol'[v].copied = vol[v].copied /\ vol'[v].kept = vol[v].kept
                 /\ OnlyOf(p) /\ call'[p].todo = call[p].todo /\ call'[p].stops = call[p].stops
                 /\ call'[p].then = call[p].then /\ call'[p].pass = call[p].pass
                 /\ call'[p].at = call[p].next /\ call'[p].next = call[p].next
                 /\ call'[p].id = IF call[p].next = "retain" THEN v ELSE NONE
<1>1. PICK v \in Mount : v = call[p].id
  BY InHand DEF Free, Hands, Unmounting
<1>2. OnlyVolume(v) /\ vol'[v] = [vol[v] EXCEPT !.engine = "off"]
  BY <1>1, FieldFacts DEF Free, OnlyVolume, TypeOK, Volume
<1> DEFINE to == IF call[p].next = "retain" THEN v ELSE NONE
           c == [call[p] EXCEPT !.at = call[p].next, !.id = to]
<1>3. to \in Mount \cup {NONE} /\ Becomes(p, c)
  BY <1>1 DEF Free
<1>4. to = IF call[p].next = "retain" THEN v ELSE NONE
  OBVIOUS
<1> HIDE DEF to
<1>5. /\ c \in Calls /\ c.todo = call[p].todo /\ c.stops = call[p].stops /\ c.then = call[p].then
      /\ c.pass = call[p].pass /\ c.at = call[p].next /\ c.next = call[p].next /\ c.id = to
  BY ZenonT(40), <1>3, FieldFacts DEF Calls, Steps
<1> HIDE DEF c
<1>6. OnlyOf(p) /\ call'[p] = c
  BY <1>3, <1>5, BecomesFacts
<1> QED
  BY <1>1, <1>2, <1>4, <1>5, <1>6, FieldFacts DEF Free, OnlyVol, Volume

LEMMA RetainEffect ==
    ASSUME TypeOK, ShapeInv, NEW p \in Process, Retain(p)
    PROVE  /\ call[p].at = "retain" /\ UNCHANGED <<host, vol, journal, told, case>>
           /\ \E v \in Mount : v = call[p].id /\ entries' = {e \in entries : e.target # vol[v].target}
           /\ Turns(p, "list", NONE, call[p].todo, call[p].stops)
           /\ call'[p].then = call[p].then /\ call'[p].pass = call[p].pass
<1>1. PICK v \in Mount : v = call[p].id
  BY InHand DEF Retain, Hands
<1> DEFINE c == [call[p] EXCEPT !.at = "list", !.id = NONE]
<1>2. /\ c \in Calls /\ c.todo = call[p].todo /\ c.stops = call[p].stops /\ c.then = call[p].then
      /\ c.pass = call[p].pass /\ c.at = "list" /\ c.id = NONE
  BY ZenonT(40), FieldFacts DEF Calls, Steps
<1>3. Becomes(p, c)
  BY DEF Retain
<1> HIDE DEF c
<1>4. OnlyOf(p) /\ call'[p] = c
  BY <1>2, <1>3, BecomesFacts
<1> QED
  BY <1>1, <1>2, <1>4 DEF Retain, Without, At, OnlyEntries, Turns

\* The next of the lost handles is unmounted, or check_health goes on.
LEMMA NextLostEffect ==
    ASSUME TypeOK, NEW p \in Process, NextLost(p)
    PROVE  /\ call[p].at = "lost" /\ UNCHANGED <<host, entries, vol, journal, told, case>>
           /\ \/ \E v \in call[p].todo :
                    /\ Turns(p, "drive", v, call[p].todo \ {v}, call[p].stops) /\ call'[p].next = "lost"
                    /\ call'[p].then = call[p].then /\ call'[p].pass = call[p].pass
              \/ call[p].todo = {} /\ Moves(p, IF entries = {} THEN call[p].then ELSE "list")
<1>1. CASE \E v \in Mount : /\ IsFirst(v, call[p].todo)
                            /\ Becomes(p, [call[p] EXCEPT !.at = "drive", !.id = v, !.next = "lost", !.todo = @ \ {v}])
  <2>1. PICK v \in Mount : /\ v \in call[p].todo
           /\ Becomes(p, [call[p] EXCEPT !.at = "drive", !.id = v, !.next = "lost", !.todo = @ \ {v}])
    BY <1>1 DEF IsFirst
  <2> DEFINE c == [call[p] EXCEPT !.at = "drive", !.id = v, !.next = "lost", !.todo = @ \ {v}]
  <2>2. /\ c \in Calls /\ c.todo = call[p].todo \ {v} /\ c.stops = call[p].stops /\ c.then = call[p].then
        /\ c.pass = call[p].pass /\ c.at = "drive" /\ c.id = v /\ c.next = "lost"
    BY ZenonT(40), FieldFacts DEF Calls, Steps
  <2>3. Becomes(p, c)
    BY <2>1
  <2> HIDE DEF c
  <2>4. OnlyOf(p) /\ call'[p] = c
    BY <2>2, <2>3, BecomesFacts
  <2> QED
    BY <2>1, <2>2, <2>4 DEF NextLost, OnlyCall, Turns
<1>2. CASE call[p].todo = {} /\ Goes(p, IF entries = {} THEN call[p].then ELSE "list")
  <2> DEFINE to == IF entries = {} THEN call[p].then ELSE "list"
  <2>1. to \in Steps /\ Goes(p, to)
    BY <1>2, FieldFacts DEF Steps
  <2> HIDE DEF to
  <2>2. Moves(p, to)
    BY <2>1, GoesFacts
  <2> QED
    BY <1>2, <2>2 DEF NextLost, OnlyCall, to
<1> QED
  BY <1>1, <1>2 DEF NextLost

\* Listing the mounts and writing them change only what p has seen.
LEMMA ListEffect ==
    ASSUME TypeOK, NEW p \in Process, ListMounts(p)
    PROVE  call[p].at = "list" /\ Moves(p, "write") /\ UNCHANGED <<host, entries, vol, journal, told, case>>
<1> DEFINE c == [call[p] EXCEPT !.at = "write", !.seen = Listed]
<1>1. /\ c \in Calls /\ c.id = call[p].id /\ c.next = call[p].next /\ c.then = call[p].then
      /\ c.todo = call[p].todo /\ c.stops = call[p].stops /\ c.pass = call[p].pass /\ c.at = "write"
  BY ZenonT(40), Facts, FieldFacts DEF Calls, Steps
<1>2. Becomes(p, c)
  BY DEF ListMounts
<1> HIDE DEF c
<1> QED
  BY <1>1, <1>2, BecomesFacts DEF ListMounts, OnlyCall, Moves, Keeps
LEMMA WriteMoves ==
    ASSUME TypeOK, NEW p \in Process, WriteJournal(p) \/ WriteFails(p)
    PROVE  Moves(p, call[p].then)
<1> DEFINE c == [call[p] EXCEPT !.at = call[p].then, !.seen = {}]
<1>1. /\ c \in Calls /\ c.id = call[p].id /\ c.next = call[p].next /\ c.then = call[p].then
      /\ c.todo = call[p].todo /\ c.stops = call[p].stops /\ c.pass = call[p].pass /\ c.at = call[p].then
  BY FieldFacts DEF Calls
<1>2. Becomes(p, c)
  BY DEF WriteJournal, WriteFails
<1> HIDE DEF c
<1> QED
  BY <1>1, <1>2, BecomesFacts DEF Moves, Keeps
LEMMA WriteEffect ==
    ASSUME TypeOK, NEW p \in Process, WriteJournal(p) \/ WriteFails(p)
    PROVE  /\ call[p].at = "write" /\ Moves(p, call[p].then) /\ UNCHANGED <<host, entries, vol, told, case>>
           /\ \/ UNCHANGED journal
              \/ \E new \in Notices :
                    /\ journal'.file = IF journal.written = new THEN journal.file ELSE new
                    /\ journal'.written = new /\ journal'.read = journal.read /\ new.pid = host.pid
                    /\ journal' \in [file : Notices \cup {NONE}, written : Notices \cup {NONE}, read : [Client -> Notices \cup {NONE}]]
<1> DEFINE new == [pid |-> host.pid, mounts |-> call[p].seen]
<1>1. new \in Notices /\ new.pid = host.pid
  BY FieldFacts DEF Notices, TypeOK
<1>2. WriteJournal(p) => journal' = [journal EXCEPT !.file = IF journal.written = new THEN @ ELSE new, !.written = new]
  BY DEF WriteJournal
<1>3. WriteFails(p) => UNCHANGED journal
  BY DEF WriteFails, OnlyCall
<1> HIDE DEF new
<1>4. WriteJournal(p) =>
         /\ journal'.file = IF journal.written = new THEN journal.file ELSE new
         /\ journal'.written = new /\ journal'.read = journal.read
         /\ journal' \in [file : Notices \cup {NONE}, written : Notices \cup {NONE}, read : [Client -> Notices \cup {NONE}]]
  BY <1>1, <1>2 DEF TypeOK
<1> QED
  BY <1>1, <1>3, <1>4, WriteMoves DEF WriteJournal, WriteFails, OnlyCall

------------------------------------------------------------------------------
(* The requests. *)

\* Whoever asks has nothing in hand.
LEMMA Asking ==
    ASSUME TypeOK, ShapeInv, NEW p \in Process, call[p].at \in {"idle", "sleep"}
    PROVE  call[p].id = NONE /\ call[p].todo = {}
BY FieldFacts DEF ShapeInv, Shape, Hands, Unmounting
LEMMA IdleFacts ==
    ASSUME TypeOK
    PROVE  /\ Idle \in Calls /\ Idle.at = "idle" /\ Idle.id = NONE /\ Idle.next = "idle" /\ Idle.then = "idle"
           /\ Idle.todo = {} /\ Idle.stops = {} /\ Idle.pass = 1
BY Facts DEF Idle

\* mount() begins: a number that nobody has, a letter that only failed records have.
LEMMA MountBeginEffect ==
    ASSUME TypeOK, NEW p \in Thread, NEW v \in case.mounts, NEW t \in case.targets, MountBegin(p, v, t)
    PROVE  /\ p \in Process /\ v \in Mount /\ t \in Target
           /\ call[p].at = "idle" /\ host.at = "on" /\ ~host.shutdown /\ UNCHANGED <<host, journal, told, case>>
           /\ vol[v] = Fresh
           /\ \A e \in entries : e.target = t => e.state = "failed"
           /\ \A e \in entries' : (e \in entries /\ e.target # t) \/ (e.id = v /\ e.target = t /\ e.state = "starting")
           /\ \A e \in entries : e.target # t => e \in entries'
           /\ \E e \in entries' : e.id = v /\ e.target = t /\ e.state = "starting"
           /\ entries' = {e \in entries : e.target # t} \cup {[id |-> v, target |-> t, state |-> "starting"]}
           /\ Turns(p, "build", v, {}, {}) /\ call'[p].then = "idle" /\ call'[p].pass = 1 /\ call'[p].next = "idle"
           /\ vol' \in [Mount -> Volume] /\ (\A w \in Mount : w # v => vol'[w] = vol[w])
           /\ vol'[v].target = t /\ vol'[v].drive = "none" /\ vol'[v].engine = "none" /\ vol'[v].dirty = {}
           /\ vol'[v].copied = {} /\ ~vol'[v].kept
<1>0. p \in Process /\ v \in Mount /\ t \in Target
  BY Facts
<1>1. vol[v] = Fresh
  BY DEF MountBegin, IsFirst
<1> DEFINE d == [vol[v] EXCEPT !.target = t]
           c == [Idle EXCEPT !.at = "build", !.id = v]
           n == [id |-> v, target |-> t, state |-> "starting"]
<1>2. /\ d \in Volume /\ d.target = t /\ d.drive = "none" /\ d.engine = "none" /\ d.dirty = {}
      /\ d.copied = {} /\ d.kept = FALSE
  <2>1. /\ vol[v].drive = "none" /\ vol[v].engine = "none" /\ vol[v].dirty = {}
        /\ vol[v].copied = {} /\ vol[v].kept = FALSE
    BY <1>1 DEF Fresh
  <2> QED
    BY <1>0, <2>1, FieldFacts DEF Volume
<1>3. vol' = [vol EXCEPT ![v] = d]
  BY <1>0 DEF MountBegin, TypeOK
<1>4. /\ c \in Calls /\ c.at = "build" /\ c.id = v /\ c.todo = {} /\ c.stops = {}
      /\ c.then = "idle" /\ c.pass = 1 /\ c.next = "idle"
  BY <1>0, IdleFacts DEF Calls, Steps
<1>5. Becomes(p, c)
  BY DEF MountBegin
<1>6. entries' = {e \in entries : e.target # t} \cup {n} /\ n.id = v /\ n.target = t /\ n.state = "starting"
  BY DEF MountBegin, Without, At
<1>7. \A e \in entries : e.target = t => e.state = "failed"
  BY DEF MountBegin, At, InState
<1> HIDE DEF d, c
<1>8. OnlyOf(p) /\ call'[p] = c
  BY <1>0, <1>4, <1>5, BecomesFacts
<1>9. vol' \in [Mount -> Volume] /\ vol'[v] = d /\ (\A w \in Mount : w # v => vol'[w] = vol[w])
  BY <1>0, <1>2, <1>3 DEF TypeOK
<1>10. call[p].at = "idle" /\ host.at = "on" /\ ~host.shutdown /\ UNCHANGED <<host, journal, told, case>>
  BY DEF MountBegin, Asks
<1>11. Turns(p, "build", v, {}, {}) /\ call'[p].then = "idle" /\ call'[p].pass = 1 /\ call'[p].next = "idle"
  BY <1>4, <1>8 DEF Turns
<1>12. /\ \A e \in entries' : (e \in entries /\ e.target # t) \/ (e.id = v /\ e.target = t /\ e.state = "starting")
       /\ \A e \in entries : e.target # t => e \in entries'
       /\ \E e \in entries' : e.id = v /\ e.target = t /\ e.state = "starting"
  BY <1>6
<1> QED
  BY <1>0, <1>1, <1>2, <1>6, <1>7, <1>9, <1>10, <1>11, <1>12

\* unmount() removes a failed record, or takes the handle of a mounted one.
LEMMA TakesEffect ==
    ASSUME TypeOK, NEW p \in Process, NEW t \in Target, NEW force \in BOOLEAN, NEW c \in Calls, Takes(p, t, force, c)
    PROVE  /\ OnlyOf(p) /\ call'[p].todo = c.todo /\ call'[p].stops = c.stops
           /\ call'[p].then = c.then /\ call'[p].pass = c.pass
           /\ \/ /\ \E e \in entries : e.target = t /\ e.state = "failed"
                 /\ entries' = {e \in entries : e.target # t}
                 /\ call'[p].at = c.then /\ call'[p].id = c.id /\ call'[p].next = c.next
              \/ \E e \in entries :
                    /\ e.target = t /\ e.state = "mounted"
                    /\ entries' = Marked({e.id}, "stopping")
                    /\ call'[p].at = "drive" /\ call'[p].id = e.id /\ call'[p].next = "retain"
<1>1. PICK e \in entries :
         /\ e.target = t
         /\ \/ /\ e.state = "failed" /\ entries' = Without(t)
               /\ Becomes(p, [c EXCEPT !.at = c.then])
            \/ /\ e.state = "mounted" /\ entries' = Marked({e.id}, "stopping")
               /\ Becomes(p, [c EXCEPT !.at = "drive", !.id = e.id, !.next = "retain"])
  BY DEF Takes, At
<1>2. c.then \in Steps /\ e.id \in Mount
  BY EntryFacts DEF Calls, Steps
<1> DEFINE a == [c EXCEPT !.at = c.then]
           b == [c EXCEPT !.at = "drive", !.id = e.id, !.next = "retain"]
<1>3. /\ a \in Calls /\ a.todo = c.todo /\ a.stops = c.stops /\ a.then = c.then /\ a.pass = c.pass
      /\ a.at = c.then /\ a.id = c.id /\ a.next = c.next
  BY <1>2 DEF Calls
<1>4. /\ b \in Calls /\ b.todo = c.todo /\ b.stops = c.stops /\ b.then = c.then /\ b.pass = c.pass
      /\ b.at = "drive" /\ b.id = e.id /\ b.next = "retain"
  BY <1>2 DEF Calls, Steps
<1>5. \/ e.state = "failed" /\ entries' = Without(t) /\ Becomes(p, a)
      \/ e.state = "mounted" /\ entries' = Marked({e.id}, "stopping") /\ Becomes(p, b)
  BY <1>1
<1> HIDE DEF a, b
<1>6. CASE e.state = "failed" /\ entries' = Without(t) /\ Becomes(p, a)
  <2>1. OnlyOf(p) /\ call'[p] = a
    BY <1>3, <1>6, BecomesFacts
  <2> QED
    BY <1>1, <1>3, <1>6, <2>1 DEF Without, At
<1>7. CASE e.state = "mounted" /\ entries' = Marked({e.id}, "stopping") /\ Becomes(p, b)
  <2>1. OnlyOf(p) /\ call'[p] = b
    BY <1>4, <1>7, BecomesFacts
  <2> QED
    BY <1>1, <1>4, <1>7, <2>1
<1> QED
  BY <1>5, <1>6, <1>7

LEMMA UnmountEffect ==
    ASSUME TypeOK, NEW p \in Thread, NEW t \in case.targets, NEW force \in BOOLEAN, UnmountBegin(p, t, force)
    PROVE  /\ p \in Process /\ call[p].at = "idle" /\ host.at = "on" /\ UNCHANGED <<host, vol, journal, told, case>>
           /\ OnlyOf(p) /\ call'[p].todo = {} /\ call'[p].stops = {} /\ call'[p].then = "idle" /\ call'[p].pass = 1
           /\ \/ /\ \E e \in entries : e.target = t /\ e.state = "failed"
                 /\ entries' = {e \in entries : e.target # t}
                 /\ call'[p].at = "idle" /\ call'[p].id = NONE
              \/ \E e \in entries :
                    /\ e.target = t /\ e.state = "mounted"
                    /\ entries' = Marked({e.id}, "stopping")
                    /\ call'[p].at = "drive" /\ call'[p].id = e.id /\ call'[p].next = "retain"
<1>1. p \in Process /\ t \in Target /\ Takes(p, t, force, Idle) /\ Idle \in Calls
  BY Facts DEF UnmountBegin
<1> QED
  BY SMTT(30), <1>1, TakesEffect, IdleFacts DEF UnmountBegin, Asks, OnlyEntries

\* What the call has in hand then.
LEMMA UnmountTakes ==
    ASSUME TypeOK, NEW p \in Thread, NEW t \in case.targets, NEW force \in BOOLEAN, UnmountBegin(p, t, force)
    PROVE  /\ p \in Process /\ OnlyOf(p) /\ UNCHANGED vol /\ call'[p].todo = {}
           /\ \/ call'[p].id = NONE
              \/ \E e \in entries : e.state = "mounted" /\ call'[p].at = "drive" /\ call'[p].id = e.id
<1>1. p \in Process /\ OnlyOf(p) /\ UNCHANGED vol /\ call'[p].todo = {}
  BY ONLY SMT, TypeOK, p \in Thread, t \in case.targets, force \in BOOLEAN, UnmountBegin(p, t, force), UnmountEffect
<1>2. \/ call'[p].id = NONE
      \/ \E e \in entries : e.target = t /\ e.state = "mounted" /\ call'[p].at = "drive" /\ call'[p].id = e.id
  BY ZenonT(40), UnmountEffect
<1> QED BY Zenon, <1>1, <1>2

LEMMA DismissEffect ==
    ASSUME TypeOK, NEW p, NEW t, Dismiss(p, t)
    PROVE  /\ host.at = "on" /\ UNCHANGED <<host, vol, call, journal, told, case>>
           /\ \E e \in entries : e.target = t /\ e.state = "failed"
           /\ entries' = {e \in entries : e.target # t}
BY DEF Dismiss, Asks, Without, At, InState, OnlyEntries

\* check_health takes the handles of the lost mounts.
LEMMA MarkLostEffect ==
    ASSUME TypeOK, NEW p \in Process, NEW c \in Calls, MarkLost(p, c)
    PROVE  /\ UNCHANGED <<host, vol, journal, told, case>>
           /\ Lost \subseteq Mount
           /\ \A v \in Lost : \E e \in entries : e.id = v /\ e.state = "mounted" /\ vol[v].drive = "lost"
           /\ \A e \in entries : e.id \in Lost => e.state = "mounted"
           /\ entries' = Marked(Lost, "failed")
           /\ OnlyOf(p) /\ call'[p].at = "lost" /\ call'[p].id = c.id /\ call'[p].todo = Lost
           /\ call'[p].stops = c.stops /\ call'[p].then = c.then /\ call'[p].pass = c.pass /\ call'[p].next = c.next
<1>1. /\ Lost \subseteq Mount
      /\ \A v \in Lost : \E e \in entries : e.id = v /\ e.state = "mounted" /\ vol[v].drive = "lost"
  BY EntryFacts DEF Lost, InState
<1>2. \A e \in entries : e.id \in Lost => e.state = "mounted"
  BY <1>1, EntryFacts
<1> DEFINE d == [c EXCEPT !.at = "lost", !.todo = Lost]
<1>3. /\ d \in Calls /\ d.at = "lost" /\ d.id = c.id /\ d.todo = Lost /\ d.stops = c.stops
      /\ d.then = c.then /\ d.pass = c.pass /\ d.next = c.next
  BY <1>1 DEF Calls, Steps
<1>4. Becomes(p, d)
  BY DEF MarkLost
<1> HIDE DEF d
<1>5. OnlyOf(p) /\ call'[p] = d
  BY <1>3, <1>4, BecomesFacts
<1> QED
  BY <1>1, <1>2, <1>3, <1>5 DEF MarkLost, OnlyEntries

LEMMA CheckEffect ==
    ASSUME TypeOK, NEW p \in Process,
           (p \in Thread /\ List(p)) \/ (p = Monitor /\ Tick)
    PROVE  /\ (call[p].at = "idle" /\ host.at = "on") \/ call[p].at = "sleep"
           /\ UNCHANGED <<host, vol, journal, told, case>>
           /\ Lost \subseteq Mount
           /\ \A v \in Lost : \E e \in entries : e.id = v /\ e.state = "mounted" /\ vol[v].drive = "lost"
           /\ \A e \in entries : e.id \in Lost => e.state = "mounted"
           /\ entries' = Marked(Lost, "failed")
           /\ Turns(p, "lost", NONE, Lost, {})
           /\ call'[p].then = (IF p = Monitor THEN "decide" ELSE "idle")
           /\ call'[p].pass = 1 /\ call'[p].next = "idle"
<1> DEFINE c == [Idle EXCEPT !.then = "decide"]
<1>1. /\ c \in Calls /\ c.id = NONE /\ c.todo = {} /\ c.stops = {} /\ c.then = "decide"
      /\ c.pass = 1 /\ c.next = "idle"
  BY IdleFacts DEF Calls
<1>2. CASE p \in Thread /\ List(p)
  <2>1. MarkLost(p, Idle) /\ p # Monitor
    BY <1>2, Facts DEF List
  <2> QED
    BY <1>2, <2>1, MarkLostEffect, IdleFacts DEF List, Asks, Turns
<1>3. CASE p = Monitor /\ Tick
  <2>1. MarkLost(p, c)
    BY <1>3 DEF Tick
  <2> HIDE DEF c
  <2> QED
    BY <1>1, <1>3, <2>1, MarkLostEffect DEF Tick, Turns
<1> QED
  BY <1>2, <1>3

LEMMA ShutdownEffect ==
    ASSUME TypeOK, NEW p \in Thread, Shutdown(p)
    PROVE  /\ host.at = "on" /\ UNCHANGED <<entries, vol, call, journal, told, case>>
           /\ host' = [host EXCEPT !.shutdown = TRUE] /\ host'.shutdown
           /\ host'.at = host.at /\ host'.ended = host.ended /\ host'.pid = host.pid
BY DEF Shutdown, Asks, TypeOK

------------------------------------------------------------------------------
(* The supervisor's own steps. *)

LEMMA DecideEffect ==
    ASSUME TypeOK, Decide
    PROVE  /\ call[Monitor].at = "decide" /\ UNCHANGED <<host, entries, vol, journal, told, case>>
           /\ \E at \in {"stop", "sleep"} : Moves(Monitor, at)
<1> DEFINE at == IF host.shutdown \/ (entries = InState("failed") /\ IdleFor) THEN "stop" ELSE "sleep"
<1>1. at \in {"stop", "sleep"} /\ Goes(Monitor, at)
  BY DEF Decide
<1> HIDE DEF at
<1> QED
  BY <1>1, Facts, GoesFacts DEF Decide, OnlyCall, Steps

LEMMA RequestShutdownEffect ==
    ASSUME TypeOK, RequestShutdown
    PROVE  /\ call[Monitor].at = "stop" /\ UNCHANGED <<entries, vol, journal, told, case>>
           /\ Moves(Monitor, "stop_all")
           /\ host' = [host EXCEPT !.shutdown = TRUE] /\ host'.shutdown
           /\ host'.at = host.at /\ host'.ended = host.ended /\ host'.pid = host.pid
<1>1. Moves(Monitor, "stop_all")
  BY Facts, GoesFacts DEF RequestShutdown, Steps
<1> QED
  BY <1>1 DEF RequestShutdown, TypeOK

LEMMA StopAllEffect ==
    ASSUME TypeOK, StopAll
    PROVE  /\ call[Monitor].at = "stop_all" /\ UNCHANGED <<host, entries, vol, journal, told, case>>
           /\ Turns(Monitor, "next", call[Monitor].id, call[Monitor].todo, {e.id : e \in InState("mounted")})
           /\ call'[Monitor].then = "next" /\ call'[Monitor].pass = call[Monitor].pass
<1> DEFINE mounted == {e.id : e \in InState("mounted")}
           c == [call[Monitor] EXCEPT !.at = "next", !.stops = mounted, !.then = "next"]
<1>1. mounted \subseteq Mount
  BY EntryFacts DEF InState
<1>2. Becomes(Monitor, c)
  BY DEF StopAll
<1>3. mounted = {e.id : e \in InState("mounted")}
  OBVIOUS
<1> HIDE DEF mounted
<1>4. /\ c \in Calls /\ c.at = "next" /\ c.id = call[Monitor].id /\ c.todo = call[Monitor].todo
      /\ c.stops = mounted /\ c.then = "next" /\ c.pass = call[Monitor].pass
  BY ZenonT(40), <1>1, Facts, FieldFacts DEF Calls, Steps
<1> HIDE DEF c
<1>5. OnlyOf(Monitor) /\ call'[Monitor] = c
  BY <1>2, <1>4, Facts, BecomesFacts
<1> QED
  BY <1>3, <1>4, <1>5 DEF StopAll, OnlyCall, Turns

\* The first on the list is unmounted; a refused unmount leaves a record that is
\* starting or stopping, or none.
LEMMA StopNextEffect ==
    ASSUME TypeOK, StopNext
    PROVE  /\ call[Monitor].at = "next" /\ UNCHANGED <<host, vol, journal, told, case>>
           /\ OnlyOf(Monitor)
           /\ call'[Monitor].then = call[Monitor].then /\ call'[Monitor].pass = call[Monitor].pass
           /\ call'[Monitor].todo = call[Monitor].todo
           /\ \E v \in call[Monitor].stops :
                 LET t == vol[v].target IN
                 /\ v \in Mount /\ call'[Monitor].stops = call[Monitor].stops \ {v}
                 /\ \/ /\ \E e \in entries : e.target = t /\ e.state = "failed"
                       /\ entries' = {e \in entries : e.target # t}
                       /\ call'[Monitor].at = call[Monitor].then /\ call'[Monitor].id = call[Monitor].id
                    \/ \E e \in entries :
                          /\ e.target = t /\ e.state = "mounted"
                          /\ entries' = Marked({e.id}, "stopping")
                          /\ call'[Monitor].at = "drive" /\ call'[Monitor].id = e.id
                          /\ call'[Monitor].next = "retain"
                    \/ /\ UNCHANGED entries
                       /\ \A e \in entries : e.target = t => e.state \in {"starting", "stopping"}
                       /\ call'[Monitor].at = "next" /\ call'[Monitor].id = call[Monitor].id
<1> DEFINE m == call[Monitor]
<1>0. Monitor \in Process
  BY Facts
<1>1. PICK v \in Mount :
         /\ v \in m.stops
         /\ \/ Takes(Monitor, vol[v].target, TRUE, [m EXCEPT !.stops = @ \ {v}])
            \/ /\ At(vol[v].target) \subseteq InState("starting") \cup InState("stopping")
               /\ Becomes(Monitor, [m EXCEPT !.stops = @ \ {v}]) /\ UNCHANGED entries
  BY DEF StopNext, IsFirst
<1> DEFINE c == [m EXCEPT !.stops = @ \ {v}]
<1>2. /\ c \in Calls /\ c.at = m.at /\ c.id = m.id /\ c.todo = m.todo /\ c.stops = m.stops \ {v}
      /\ c.then = m.then /\ c.pass = m.pass /\ c.next = m.next
  BY <1>0, FieldFacts DEF Calls
<1>3. \/ Takes(Monitor, vol[v].target, TRUE, c)
      \/ /\ At(vol[v].target) \subseteq InState("starting") \cup InState("stopping")
         /\ Becomes(Monitor, c) /\ UNCHANGED entries
  BY <1>1
<1>4. m.at = "next" /\ UNCHANGED <<host, vol, journal, told, case>>
  BY DEF StopNext, OnlyEntries
<1> HIDE DEF c, m
<1>5. CASE Takes(Monitor, vol[v].target, TRUE, c)
  <2>1. vol[v].target \in Target
    <3>1. \E e \in entries : e.target = vol[v].target
      BY <1>5 DEF Takes, At
    <3> QED BY <3>1, EntryFacts
  <2>2. /\ OnlyOf(Monitor) /\ call'[Monitor].todo = c.todo /\ call'[Monitor].stops = c.stops
        /\ call'[Monitor].then = c.then /\ call'[Monitor].pass = c.pass
        /\ \/ /\ \E e \in entries : e.target = vol[v].target /\ e.state = "failed"
              /\ entries' = {e \in entries : e.target # vol[v].target}
              /\ call'[Monitor].at = c.then /\ call'[Monitor].id = c.id /\ call'[Monitor].next = c.next
           \/ \E e \in entries :
                 /\ e.target = vol[v].target /\ e.state = "mounted"
                 /\ entries' = Marked({e.id}, "stopping")
                 /\ call'[Monitor].at = "drive" /\ call'[Monitor].id = e.id /\ call'[Monitor].next = "retain"
    BY ZenonT(40), <1>0, <1>2, <1>5, <2>1, TakesEffect
  <2> QED
    BY <1>1, <1>2, <1>4, <2>2 DEF m
<1>6. CASE At(vol[v].target) \subseteq InState("starting") \cup InState("stopping") /\ Becomes(Monitor, c) /\ UNCHANGED entries
  <2>1. OnlyOf(Monitor) /\ call'[Monitor] = c
    BY <1>0, <1>2, <1>6, BecomesFacts
  <2>2. \A e \in entries : e.target = vol[v].target => e.state \in {"starting", "stopping"}
    BY <1>6 DEF At, InState
  <2> QED
    BY <1>1, <1>2, <1>4, <1>6, <2>1, <2>2 DEF m
<1> QED
  BY <1>3, <1>5, <1>6

\* What entries.clear() drops has no drive and no engine any more, and may lose files.
LEMMA ClearEffect ==
    ASSUME TypeOK, Clear
    PROVE  /\ call[Monitor].at = "next" /\ call[Monitor].stops = {} /\ entries' = {}
           /\ UNCHANGED <<host, journal, told, case>>
           /\ Turns(Monitor, "erase", call[Monitor].id, call[Monitor].todo, call[Monitor].stops)
           /\ call'[Monitor].then = "idle" /\ call'[Monitor].pass = call[Monitor].pass
           /\ vol' \in [Mount -> Volume]
           /\ \A v \in Mount :
                 \/ /\ vol'[v] = vol[v] /\ \A e \in entries : e.id = v => e.state # "mounted"
                 \/ /\ \E e \in entries : e.id = v /\ e.state = "mounted"
                    /\ vol'[v].target = vol[v].target /\ vol'[v].drive = "gone" /\ vol'[v].engine = "off"
                    /\ vol'[v].dirty \subseteq vol[v].dirty
                    /\ vol'[v].copied = vol[v].copied /\ vol'[v].kept = vol[v].kept
<1> DEFINE in == {e.id : e \in InState("mounted")}
           c == [call[Monitor] EXCEPT !.at = "erase", !.then = "idle"]
<1>1. PICK unsent \in [in -> SUBSET File] :
         /\ \A v \in in : unsent[v] \subseteq vol[v].dirty
         /\ vol' = [v \in Mount |-> IF v \in in THEN Dropped(v, unsent[v]) ELSE vol[v]]
  BY DEF Clear
<1>2. \A v \in Mount : v \in in <=> \E e \in entries : e.id = v /\ e.state = "mounted"
  BY DEF InState
<1>3. Becomes(Monitor, c)
  BY DEF Clear
<1>4. /\ c \in Calls /\ c.at = "erase" /\ c.id = call[Monitor].id /\ c.todo = call[Monitor].todo
      /\ c.stops = call[Monitor].stops /\ c.then = "idle" /\ c.pass = call[Monitor].pass
  BY ZenonT(40), Facts, FieldFacts DEF Calls, Steps
<1> HIDE DEF c, in
<1>5. OnlyOf(Monitor) /\ call'[Monitor] = c
  BY <1>3, <1>4, Facts, BecomesFacts
<1>6. ASSUME NEW v \in Mount, v \in in
      PROVE  /\ vol'[v] \in Volume
             /\ vol'[v].target = vol[v].target /\ vol'[v].drive = "gone" /\ vol'[v].engine = "off"
             /\ vol'[v].dirty \subseteq vol[v].dirty
             /\ vol'[v].copied = vol[v].copied /\ vol'[v].kept = vol[v].kept
  <2>1. vol'[v] = Dropped(v, unsent[v]) /\ unsent[v] \in SUBSET File /\ unsent[v] \subseteq vol[v].dirty
    BY <1>1, <1>6
  <2> DEFINE n == unsent[v]
             d == [vol[v] EXCEPT !.drive = "gone", !.engine = "off", !.writer = FALSE, !.dirty = n]
  <2>2. vol'[v] = d
    BY <2>1 DEF Dropped
  <2>3. n \in SUBSET File /\ n \subseteq vol[v].dirty
    BY <2>1
  <2> HIDE DEF n
  <2>4. /\ d \in Volume /\ d.target = vol[v].target /\ d.drive = "gone" /\ d.engine = "off"
        /\ d.dirty = n /\ d.copied = vol[v].copied /\ d.kept = vol[v].kept
    BY Zenon, <2>3, FieldFacts DEF Volume
  <2> HIDE DEF d
  <2> QED
    BY <2>2, <2>3, <2>4
<1>7. \A v \in Mount : v \notin in => vol'[v] = vol[v] /\ vol'[v] \in Volume
  BY <1>1, FieldFacts
<1>8. vol' \in [Mount -> Volume]
  BY <1>1, <1>6, <1>7
<1>9. call[Monitor].at = "next" /\ call[Monitor].stops = {} /\ entries' = {} /\ UNCHANGED <<host, journal, told, case>>
  BY DEF Clear
<1>10. \A e \in entries : e.id \in Mount
  BY EntryFacts
<1> QED
  BY <1>2, <1>4, <1>5, <1>6, <1>7, <1>8, <1>9, <1>10 DEF Turns

\* The journal goes; the teardown runs once more, then the process ends.
LEMMA EraseEffect ==
    ASSUME TypeOK, EraseJournal
    PROVE  /\ call[Monitor].at = "erase" /\ UNCHANGED <<entries, vol, told, case>>
           /\ journal'.file = NONE /\ journal'.written = NONE /\ journal'.read = journal.read
           /\ journal' \in [file : Notices \cup {NONE}, written : Notices \cup {NONE}, read : [Client -> Notices \cup {NONE}]]
           /\ host' = [host EXCEPT !.at = "final"] /\ host'.at = "final"
           /\ host'.ended = host.ended /\ host'.shutdown = host.shutdown /\ host'.pid = host.pid
           /\ \E at \in {"stop_all", "exit"} :
                 /\ Turns(Monitor, at, NONE, {}, {}) /\ call'[Monitor].then = "idle"
                 /\ at = "stop_all" => call'[Monitor].pass = 2
<1> DEFINE a == [Idle EXCEPT !.at = "stop_all", !.pass = 2]
           b == [Idle EXCEPT !.at = "exit"]
<1>1. /\ a \in Calls /\ a.at = "stop_all" /\ a.id = NONE /\ a.todo = {} /\ a.stops = {}
      /\ a.then = "idle" /\ a.pass = 2
  BY IdleFacts DEF Calls, Steps
<1>2. b \in Calls /\ b.at = "exit" /\ b.id = NONE /\ b.todo = {} /\ b.stops = {} /\ b.then = "idle"
  BY IdleFacts DEF Calls, Steps
<1>3. Becomes(Monitor, a) \/ Becomes(Monitor, b)
  BY DEF EraseJournal
<1> HIDE DEF a, b
<1>4. OnlyOf(Monitor) /\ (call'[Monitor] = a \/ call'[Monitor] = b)
  BY <1>1, <1>2, <1>3, Facts, BecomesFacts
<1>5. \E at \in {"stop_all", "exit"} :
         /\ Turns(Monitor, at, NONE, {}, {}) /\ call'[Monitor].then = "idle"
         /\ at = "stop_all" => call'[Monitor].pass = 2
  BY <1>1, <1>2, <1>4 DEF Turns
<1>6. /\ journal'.file = NONE /\ journal'.written = NONE /\ journal'.read = journal.read
      /\ journal' \in [file : Notices \cup {NONE}, written : Notices \cup {NONE}, read : [Client -> Notices \cup {NONE}]]
  BY DEF EraseJournal, TypeOK
<1>7. /\ host' = [host EXCEPT !.at = "final"] /\ host'.at = "final"
      /\ host'.ended = host.ended /\ host'.shutdown = host.shutdown /\ host'.pid = host.pid
  BY DEF EraseJournal, TypeOK
<1> QED
  BY <1>5, <1>6, <1>7 DEF EraseJournal

\* The process ends with its threads and its volumes.
LEMMA DiesEffect ==
    ASSUME TypeOK, NEW how \in {"clean", "killed"}, NEW engine \in {"left", "killed"}, Dies(how, engine)
    PROVE  /\ host'.at = "off" /\ host'.ended = how /\ host'.pid = host.pid /\ ~host'.shutdown
           /\ host' \in [at : {"off", "on", "final"}, pid : Nat, shutdown : BOOLEAN, ended : {"running", "clean", "killed"}]
           /\ entries' = {} /\ call' \in [Process -> Calls] /\ (\A p \in Process : call'[p] = Idle)
           /\ vol' \in [Mount -> Volume]
           /\ \A v \in Mount :
                 \/ vol[v].engine # "on" /\ vol'[v] = vol[v]
                 \/ /\ vol[v].engine = "on" /\ vol'[v].engine = engine /\ vol'[v].drive = "gone"
                    /\ vol'[v].target = vol[v].target /\ vol'[v].dirty = vol[v].dirty
                    /\ vol'[v].copied = vol[v].copied /\ vol'[v].kept = vol[v].kept
           /\ journal'.file = journal.file /\ journal'.written = NONE /\ journal'.read = journal.read
           /\ journal' \in [file : Notices \cup {NONE}, written : Notices \cup {NONE}, read : [Client -> Notices \cup {NONE}]]
           /\ UNCHANGED case
<1>1. /\ host'.at = "off" /\ host'.ended = how /\ host'.pid = host.pid /\ ~host'.shutdown
      /\ host' \in [at : {"off", "on", "final"}, pid : Nat, shutdown : BOOLEAN, ended : {"running", "clean", "killed"}]
  BY DEF Dies, TypeOK
<1>2. call' \in [Process -> Calls] /\ (\A p \in Process : call'[p] = Idle)
  BY IdleFacts DEF Dies
<1>3. ASSUME NEW v \in Mount
      PROVE  /\ vol'[v] \in Volume
             /\ \/ vol[v].engine # "on" /\ vol'[v] = vol[v]
                \/ /\ vol[v].engine = "on" /\ vol'[v].engine = engine /\ vol'[v].drive = "gone"
                   /\ vol'[v].target = vol[v].target /\ vol'[v].dirty = vol[v].dirty
                   /\ vol'[v].copied = vol[v].copied /\ vol'[v].kept = vol[v].kept
  <2> DEFINE d == [vol[v] EXCEPT !.drive = "gone", !.engine = engine, !.writer = FALSE]
  <2>1. vol'[v] = IF vol[v].engine = "on" THEN d ELSE vol[v]
    BY DEF Dies
  <2>2. /\ d \in Volume /\ d.target = vol[v].target /\ d.drive = "gone" /\ d.engine = engine
        /\ d.dirty = vol[v].dirty /\ d.copied = vol[v].copied /\ d.kept = vol[v].kept
    BY FieldFacts DEF Volume
  <2> HIDE DEF d
  <2> QED
    BY <2>1, <2>2, FieldFacts
<1>4. vol' \in [Mount -> Volume]
  BY <1>3 DEF Dies
<1>5. /\ journal'.file = journal.file /\ journal'.written = NONE /\ journal'.read = journal.read
      /\ journal' \in [file : Notices \cup {NONE}, written : Notices \cup {NONE}, read : [Client -> Notices \cup {NONE}]]
  BY DEF Dies, TypeOK
<1> QED
  BY <1>1, <1>2, <1>3, <1>4, <1>5 DEF Dies

\* The next supervisor knows nothing of what an earlier one wrote.
LEMMA StartEffect ==
    ASSUME TypeOK, Start
    PROVE  /\ host.at = "off" /\ host'.pid = host.pid + 1
           /\ \/ "start_first" \in case.events
              \/ journal.file = NONE /\ \A k \in Client : journal.read[k] = NONE
           /\ host' \in [at : {"off", "on", "final"}, pid : Nat, shutdown : BOOLEAN, ended : {"running", "clean", "killed"}]
           /\ host'.at = "on" /\ host'.ended = "running" /\ ~host'.shutdown
           /\ UNCHANGED <<entries, vol, told, case>>
           /\ Turns(Monitor, "sleep", NONE, {}, {}) /\ call'[Monitor].then = "idle" /\ call'[Monitor].pass = 1
           /\ journal'.file = journal.file /\ journal'.written = NONE /\ journal'.read = journal.read
           /\ journal' \in [file : Notices \cup {NONE}, written : Notices \cup {NONE}, read : [Client -> Notices \cup {NONE}]]
<1> DEFINE c == [Idle EXCEPT !.at = "sleep"]
<1>1. /\ c \in Calls /\ c.at = "sleep" /\ c.id = NONE /\ c.todo = {} /\ c.stops = {}
      /\ c.then = "idle" /\ c.pass = 1
  BY IdleFacts DEF Calls, Steps
<1>2. Becomes(Monitor, c)
  BY DEF Start, Becomes
<1> HIDE DEF c
<1>3. OnlyOf(Monitor) /\ call'[Monitor] = c
  BY <1>1, <1>2, Facts, BecomesFacts
<1>4. /\ host' \in [at : {"off", "on", "final"}, pid : Nat, shutdown : BOOLEAN, ended : {"running", "clean", "killed"}]
      /\ host'.at = "on" /\ host'.ended = "running" /\ ~host'.shutdown /\ host'.pid = host.pid + 1
  BY DEF Start, TypeOK
<1>5. /\ journal'.file = journal.file /\ journal'.written = NONE /\ journal'.read = journal.read
      /\ journal' \in [file : Notices \cup {NONE}, written : Notices \cup {NONE}, read : [Client -> Notices \cup {NONE}]]
  BY DEF Start, TypeOK
<1> QED
  BY <1>1, <1>3, <1>4, <1>5 DEF Start, Turns, Happens

LEMMA ReadEffect ==
    ASSUME TypeOK, NEW k \in Client, ReadJournal(k)
    PROVE  /\ host.at = "off" /\ UNCHANGED <<host, entries, vol, call, told, case>>
           /\ journal'.file = journal.file /\ journal'.written = journal.written
           /\ journal'.read[k] = journal.file /\ \A j \in Client : j # k => journal'.read[j] = journal.read[j]
           /\ journal' \in [file : Notices \cup {NONE}, written : Notices \cup {NONE}, read : [Client -> Notices \cup {NONE}]]
<1>1. journal'.read = [journal.read EXCEPT ![k] = journal.file]
  BY DEF ReadJournal, TypeOK
<1>2. journal'.file = journal.file /\ journal'.written = journal.written
  BY DEF ReadJournal, TypeOK
<1>3. journal' \in [file : Notices \cup {NONE}, written : Notices \cup {NONE}, read : [Client -> Notices \cup {NONE}]]
  BY DEF ReadJournal, TypeOK
<1> QED
  BY <1>1, <1>2, <1>3 DEF ReadJournal, TypeOK

LEMMA TakeEffect ==
    ASSUME TypeOK, NEW k \in Client, TakeJournal(k)
    PROVE  /\ journal.read[k] # NONE /\ UNCHANGED <<host, entries, vol, call, case>>
           /\ journal'.file = NONE /\ journal'.written = journal.written
           /\ journal'.read[k] = NONE /\ \A j \in Client : j # k => journal'.read[j] = journal.read[j]
           /\ journal' \in [file : Notices \cup {NONE}, written : Notices \cup {NONE}, read : [Client -> Notices \cup {NONE}]]
           /\ told' \in [owed : SUBSET Nat, said : SUBSET Nat, again : SUBSET Nat] /\ told'.owed = told.owed
           /\ told'.said = told.said \cup Reported(k)
           /\ told'.again = told.again \cup (told.said \cap Reported(k))
           /\ Reported(k) = IF journal.file # NONE /\ journal.read[k].mounts # {} THEN {journal.read[k].pid} ELSE {}
<1>1. journal'.read = [journal.read EXCEPT ![k] = NONE]
  BY DEF TakeJournal, TypeOK
<1>2. journal'.file = NONE /\ journal'.written = journal.written
  BY DEF TakeJournal, TypeOK
<1>3. journal' \in [file : Notices \cup {NONE}, written : Notices \cup {NONE}, read : [Client -> Notices \cup {NONE}]]
  BY DEF TakeJournal, TypeOK
<1>4. Reported(k) \in SUBSET Nat
  <2>1. journal.read[k] # NONE => journal.read[k].pid \in Nat
    BY DEF TypeOK, Notices
  <2> QED
    BY <2>1 DEF TakeJournal, Reported
<1>5. told' = [told EXCEPT !.said = @ \cup Reported(k), !.again = @ \cup (told.said \cap Reported(k))]
  BY DEF TakeJournal
<1>6. Reported(k) = IF journal.file # NONE /\ journal.read[k].mounts # {} THEN {journal.read[k].pid} ELSE {}
  BY DEF Reported
<1> HIDE DEF Reported
<1>7. /\ told' \in [owed : SUBSET Nat, said : SUBSET Nat, again : SUBSET Nat] /\ told'.owed = told.owed
      /\ told'.said = told.said \cup Reported(k)
      /\ told'.again = told.again \cup (told.said \cap Reported(k))
  BY <1>4, <1>5 DEF TypeOK
<1> QED
  BY <1>1, <1>2, <1>3, <1>6, <1>7 DEF TakeJournal, TypeOK

LEMMA CrashEffect ==
    ASSUME TypeOK, Crash
    PROVE  /\ host.at # "off" /\ Dies("killed", "killed")
           /\ told' \in [owed : SUBSET Nat, said : SUBSET Nat, again : SUBSET Nat] /\ told'.said = told.said /\ told'.again = told.again
           /\ told'.owed = IF Listed # {} /\ journal.written = [pid |-> host.pid, mounts |-> Listed]
                           THEN told.owed \cup {host.pid} ELSE told.owed
BY DEF Crash, TypeOK

------------------------------------------------------------------------------
(* Programs, uploads and the driver: they change a volume, and no handle. *)

LEMMA ProgramEffect ==
    ASSUME TypeOK, NEW v \in Mount, Program(v)
    PROVE  /\ OnlyVolume(v) /\ UNCHANGED <<host, entries, call, journal, told, case>>
           /\ vol'[v].engine = vol[v].engine
           /\ vol'[v].copied = vol[v].copied /\ vol'[v].kept = vol[v].kept
           /\ \/ vol[v].drive = "up" /\ vol'[v].drive \in {"up", "lost"} /\ vol'[v].dirty = vol[v].dirty
              \/ /\ vol[v].drive = "up" /\ vol'[v].drive = "up"
                 /\ \E f \in File : vol'[v].dirty = vol[v].dirty \cup {f}
              \/ /\ vol[v].engine = "on" /\ vol[v].drive # "gone" /\ vol'[v].drive = vol[v].drive
                 /\ \E f \in File : vol'[v].dirty = vol[v].dirty \ {f}
<1>1. CASE CloseWriter(v)
  <2> DEFINE d == [vol[v] EXCEPT !.writer = FALSE]
  <2>1. /\ d \in Volume /\ d.target = vol[v].target /\ d.drive = vol[v].drive /\ d.engine = vol[v].engine
        /\ d.dirty = vol[v].dirty /\ d.copied = vol[v].copied /\ d.kept = vol[v].kept
    BY FieldFacts DEF Volume
  <2>2. vol' = [vol EXCEPT ![v] = d]
    BY <1>1 DEF CloseWriter, TypeOK
  <2> HIDE DEF d
  <2> QED
    BY <1>1, <2>1, <2>2, VolumeFacts DEF CloseWriter, OnlyVol
<1>2. CASE DriverLost(v)
  <2> DEFINE d == [vol[v] EXCEPT !.drive = "lost"]
  <2>1. /\ d \in Volume /\ d.target = vol[v].target /\ d.drive = "lost" /\ d.engine = vol[v].engine
        /\ d.dirty = vol[v].dirty /\ d.copied = vol[v].copied /\ d.kept = vol[v].kept
    BY FieldFacts DEF Volume
  <2>2. vol' = [vol EXCEPT ![v] = d]
    BY <1>2 DEF DriverLost, TypeOK
  <2> HIDE DEF d
  <2> QED
    BY <1>2, <2>1, <2>2, VolumeFacts DEF DriverLost, OnlyVol
<1>3. ASSUME NEW f \in File, Write(v, f)
      PROVE  /\ OnlyVolume(v) /\ UNCHANGED <<host, entries, call, journal, told, case>>
             /\ vol'[v].engine = vol[v].engine /\ vol[v].drive = "up" /\ vol'[v].drive = "up"
             /\ vol'[v].copied = vol[v].copied /\ vol'[v].kept = vol[v].kept
             /\ vol'[v].dirty = vol[v].dirty \cup {f}
  <2> DEFINE d == [vol[v] EXCEPT !.dirty = @ \cup {f}, !.writer = TRUE]
  <2>1. /\ d \in Volume /\ d.target = vol[v].target /\ d.drive = vol[v].drive /\ d.engine = vol[v].engine
        /\ d.dirty = vol[v].dirty \cup {f} /\ d.copied = vol[v].copied /\ d.kept = vol[v].kept
    BY FieldFacts DEF Volume
  <2>2. vol' = [vol EXCEPT ![v] = d]
    BY <1>3 DEF Write, TypeOK
  <2> HIDE DEF d
  <2> QED
    BY <1>3, <2>1, <2>2, VolumeFacts DEF Write, OnlyVol
<1>4. ASSUME NEW f \in File, Upload(v, f)
      PROVE  /\ OnlyVolume(v) /\ UNCHANGED <<host, entries, call, journal, told, case>>
             /\ vol'[v].engine = vol[v].engine /\ vol[v].engine = "on" /\ vol[v].drive # "gone"
             /\ vol'[v].drive = vol[v].drive
             /\ vol'[v].copied = vol[v].copied /\ vol'[v].kept = vol[v].kept
             /\ vol'[v].dirty = vol[v].dirty \ {f}
  <2> DEFINE d == [vol[v] EXCEPT !.dirty = @ \ {f}]
  <2>1. /\ d \in Volume /\ d.target = vol[v].target /\ d.drive = vol[v].drive /\ d.engine = vol[v].engine
        /\ d.dirty = vol[v].dirty \ {f} /\ d.copied = vol[v].copied /\ d.kept = vol[v].kept
    BY FieldFacts DEF Volume
  <2>2. vol' = [vol EXCEPT ![v] = d]
    BY <1>4 DEF Upload, TypeOK
  <2> HIDE DEF d
  <2> QED
    BY <1>4, <2>1, <2>2, VolumeFacts DEF Upload, OnlyVol
<1> QED
  BY <1>1, <1>2, <1>3, <1>4 DEF Program

------------------------------------------------------------------------------
(* Each part of the invariant is kept by every step. *)

LEMMA TypeStep ==
    ASSUME TypeOK, ShapeInv, HolderInv, [Next]_vars PROVE TypeOK'
<1> USE DEF OnlyOf, Moves, Turns, OnlyVolume
<1>1. ASSUME NEW p \in Process, Serve(p) PROVE TypeOK'
  BY <1>1, ServeEffect DEF TypeOK
<1>2. ASSUME NEW p \in Process, MountFails(p) PROVE TypeOK'
  BY <1>2, MountFailsEffect DEF TypeOK
<1>3. ASSUME NEW p \in Process, Settle(p) PROVE TypeOK'
  <2>1. PICK v \in Mount : entries' = Marked({v}, IF vol[v].engine = "on" THEN "mounted" ELSE "failed")
    BY <1>3, SettleEffect
  <2>2. \E state \in State : entries' = Marked({v}, state)
    BY <2>1 DEF State
  <2>3. entries' \subseteq Entries /\ \A e, f \in entries' : e.target = f.target \/ e.id = f.id => e = f
    BY <2>2, MarkedFacts
  <2> QED
    BY ZenonT(40), <1>3, SettleEffect, <2>3 DEF TypeOK
<1>4. ASSUME NEW p \in Process, PruneFailed(p) PROVE TypeOK'
  BY <1>4, PruneEffect DEF TypeOK
<1>5. ASSUME NEW p \in Process, DriveGone(p) PROVE TypeOK'
  BY <1>5, DriveGoneEffect DEF TypeOK
<1>6. ASSUME NEW p \in Process, Drain(p) PROVE TypeOK'
  BY <1>6, DrainEffect DEF TypeOK
<1>7. ASSUME NEW p \in Process, Save(p) PROVE TypeOK'
  BY <1>7, SaveEffect DEF TypeOK
<1>8. ASSUME NEW p \in Process, Free(p) PROVE TypeOK'
  BY <1>8, FreeEffect DEF TypeOK
<1>9. ASSUME NEW p \in Process, Retain(p) PROVE TypeOK'
  BY <1>9, RetainEffect DEF TypeOK
<1>10. ASSUME NEW p \in Process, NextLost(p) PROVE TypeOK'
  BY <1>10, NextLostEffect DEF TypeOK
<1>11. ASSUME NEW p \in Process, ListMounts(p) PROVE TypeOK'
  BY <1>11, ListEffect DEF TypeOK
<1>12. ASSUME NEW p \in Process, WriteJournal(p) \/ WriteFails(p) PROVE TypeOK'
  BY <1>12, WriteEffect DEF TypeOK
<1>13. ASSUME NEW p \in Thread, NEW v \in case.mounts, NEW t \in case.targets, MountBegin(p, v, t) PROVE TypeOK'
  <2>0. p \in Process /\ v \in Mount /\ t \in Target /\ vol[v] = Fresh
    BY <1>13, MountBeginEffect
  <2>1. \A e \in entries : e.id # v
    BY <2>0, Facts, EntryFacts DEF HolderInv, Fresh
  <2> DEFINE n == [id |-> v, target |-> t, state |-> "starting"]
  <2>2. n \in Entries /\ n.id = v /\ n.target = t
    BY <2>0 DEF Entries, State
  <2>3. entries' = {e \in entries : e.target # t} \cup {n}
    BY <1>13, MountBeginEffect
  <2> HIDE DEF n
  <2>4. entries' \subseteq Entries /\ \A e, f \in entries' : e.target = f.target \/ e.id = f.id => e = f
    BY <2>1, <2>2, <2>3 DEF TypeOK
  <2> QED
    BY <1>13, MountBeginEffect, <2>4 DEF TypeOK
<1>14. ASSUME NEW p \in Thread, NEW t \in case.targets, NEW force \in BOOLEAN, UnmountBegin(p, t, force) PROVE TypeOK'
  <2>1. entries' \subseteq Entries /\ \A e, f \in entries' : e.target = f.target \/ e.id = f.id => e = f
    <3>1. CASE entries' = {e \in entries : e.target # t}
      BY <3>1 DEF TypeOK
    <3>2. CASE \E e \in entries : entries' = Marked({e.id}, "stopping")
      BY <3>2, EntryFacts, MarkedFacts DEF State
    <3> QED
      BY <1>14, UnmountEffect, <3>1, <3>2
  <2> QED
    BY <1>14, UnmountEffect, <2>1 DEF TypeOK
<1>15. ASSUME NEW p \in Thread, NEW t \in case.targets, Dismiss(p, t) PROVE TypeOK'
  BY <1>15, DismissEffect DEF TypeOK
<1>16. ASSUME NEW p \in Process, (p \in Thread /\ List(p)) \/ (p = Monitor /\ Tick) PROVE TypeOK'
  BY <1>16, CheckEffect, MarkedFacts DEF TypeOK, State
<1>17. ASSUME NEW p \in Thread, Shutdown(p) PROVE TypeOK'
  BY <1>17, ShutdownEffect DEF TypeOK
<1>18. CASE Decide
  BY <1>18, DecideEffect DEF TypeOK
<1>19. CASE RequestShutdown
  BY <1>19, RequestShutdownEffect DEF TypeOK
<1>20. CASE StopAll
  BY <1>20, StopAllEffect DEF TypeOK
<1>21. CASE StopNext
  <2>1. entries' \subseteq Entries /\ \A e, f \in entries' : e.target = f.target \/ e.id = f.id => e = f
    <3>1. ASSUME NEW t, entries' = {e \in entries : e.target # t}
          PROVE  entries' \subseteq Entries /\ \A e, f \in entries' : e.target = f.target \/ e.id = f.id => e = f
      BY <3>1 DEF TypeOK
    <3>2. CASE \E e \in entries : entries' = Marked({e.id}, "stopping")
      BY <3>2, EntryFacts, MarkedFacts DEF State
    <3>3. CASE UNCHANGED entries
      BY <3>3 DEF TypeOK
    <3> QED
      BY <1>21, StopNextEffect, <3>1, <3>2, <3>3
  <2> QED
    BY <1>21, StopNextEffect, <2>1 DEF TypeOK
<1>22. CASE Clear
  BY <1>22, ClearEffect DEF TypeOK
<1>23. CASE EraseJournal
  BY <1>23, EraseEffect DEF TypeOK
<1>24. CASE Exit
  BY <1>24, DiesEffect DEF TypeOK, Exit
<1>25. CASE Start
  BY <1>25, StartEffect DEF TypeOK
<1>26. CASE Crash
  BY <1>26, CrashEffect, DiesEffect DEF TypeOK
<1>27. ASSUME NEW k \in Client, ReadJournal(k) PROVE TypeOK'
  BY <1>27, ReadEffect DEF TypeOK
<1>28. ASSUME NEW k \in Client, TakeJournal(k) PROVE TypeOK'
  BY <1>28, TakeEffect DEF TypeOK
<1>29. ASSUME NEW v \in Mount, Program(v) PROVE TypeOK'
  BY <1>29, ProgramEffect DEF TypeOK
<1>30. CASE UNCHANGED vars
  BY <1>30 DEF vars, TypeOK
<1> QED
  BY <1>1, <1>2, <1>3, <1>4, <1>5, <1>6, <1>7, <1>8, <1>9, <1>10, <1>11, <1>12, <1>13, <1>14, <1>15,
     <1>16, <1>17, <1>18, <1>19, <1>20, <1>21, <1>22, <1>23, <1>24, <1>25, <1>26, <1>27, <1>28,
     <1>29, <1>30, Facts
  DEF Next, ProcessStep, MonitorStep, Request

LEMMA ShapeStep ==
    ASSUME TypeOK, ShapeInv, [Next]_vars PROVE ShapeInv'
<1> USE FieldFacts, IdleFacts DEF OnlyOf, Moves, Keeps, Turns, OnlyVolume, Hands, Unmounting, ShapeInv, Shape
<1>1. ASSUME NEW p \in Process, Serve(p) PROVE ShapeInv'
  BY <1>1, ServeEffect
<1>2. ASSUME NEW p \in Process, MountFails(p) PROVE ShapeInv'
  BY <1>2, MountFailsEffect
<1>3. ASSUME NEW p \in Process, Settle(p) PROVE ShapeInv'
  <2>1. PICK v \in Mount :
           /\ v = call[p].id
           /\ OnlyOf(p) /\ call'[p].todo = call[p].todo /\ call'[p].then = call[p].then
           /\ IF vol[v].engine = "on" /\ ~\E e \in entries : e.id = v
              THEN call'[p].at = "drive" /\ call'[p].next = "prune" /\ call'[p].id = v
              ELSE call'[p].at = "prune" /\ call'[p].id = NONE
    BY ONLY ZenonT(40), TypeOK, ShapeInv, <1>3, SettleEffect
  <2>2. call[p].at = "settle"
    BY <1>3, SettleEffect
  <2>3. Shape(p)'
    BY <2>1, <2>2, Facts
  <2> QED
    BY <2>1, <2>3
<1>4. ASSUME NEW p \in Process, PruneFailed(p) PROVE ShapeInv'
  BY <1>4, PruneEffect
<1>5. ASSUME NEW p \in Process, DriveGone(p) PROVE ShapeInv'
  BY <1>5, DriveGoneEffect
<1>6. ASSUME NEW p \in Process, Drain(p) PROVE ShapeInv'
  BY <1>6, DrainEffect
<1>7. ASSUME NEW p \in Process, Save(p) PROVE ShapeInv'
  BY <1>7, SaveEffect
<1>8. ASSUME NEW p \in Process, Free(p) PROVE ShapeInv'
  BY <1>8, FreeEffect, Facts
<1>9. ASSUME NEW p \in Process, Retain(p) PROVE ShapeInv'
  BY <1>9, RetainEffect, Facts
<1>10. ASSUME NEW p \in Process, NextLost(p) PROVE ShapeInv'
  BY <1>10, NextLostEffect, Facts
<1>11. ASSUME NEW p \in Process, ListMounts(p) PROVE ShapeInv'
  BY <1>11, ListEffect
<1>12. ASSUME NEW p \in Process, WriteJournal(p) \/ WriteFails(p) PROVE ShapeInv'
  BY <1>12, WriteEffect
<1>13. ASSUME NEW p \in Thread, NEW v \in case.mounts, NEW t \in case.targets, MountBegin(p, v, t) PROVE ShapeInv'
  BY <1>13, MountBeginEffect
<1>14. ASSUME NEW p \in Thread, NEW t \in case.targets, NEW force \in BOOLEAN, UnmountBegin(p, t, force) PROVE ShapeInv'
  <2>1. CASE call'[p].at = "idle" /\ call'[p].id = NONE
    BY <1>14, <2>1, UnmountEffect, Facts
  <2>2. ASSUME NEW e \in entries, call'[p].at = "drive", call'[p].id = e.id, call'[p].next = "retain"
        PROVE  ShapeInv'
    BY <1>14, <2>2, UnmountEffect, EntryFacts
  <2>3. \/ /\ \E e \in entries : e.target = t /\ e.state = "failed"
           /\ entries' = {e \in entries : e.target # t}
           /\ call'[p].at = "idle" /\ call'[p].id = NONE
        \/ \E e \in entries :
              /\ e.target = t /\ e.state = "mounted"
              /\ entries' = Marked({e.id}, "stopping")
              /\ call'[p].at = "drive" /\ call'[p].id = e.id /\ call'[p].next = "retain"
    BY ONLY TypeOK, <1>14, UnmountEffect
  <2> QED
    BY <2>1, <2>2, <2>3
<1>15. ASSUME NEW p \in Thread, NEW t \in case.targets, Dismiss(p, t) PROVE ShapeInv'
  BY <1>15, DismissEffect
<1>16. ASSUME NEW p \in Process, (p \in Thread /\ List(p)) \/ (p = Monitor /\ Tick) PROVE ShapeInv'
  BY <1>16, CheckEffect, Asking, Facts
<1>17. ASSUME NEW p \in Thread, Shutdown(p) PROVE ShapeInv'
  BY <1>17, ShutdownEffect
<1>18. CASE Decide
  BY <1>18, DecideEffect
<1>19. CASE RequestShutdown
  BY <1>19, RequestShutdownEffect
<1>20. CASE StopAll
  BY <1>20, StopAllEffect
<1>21. CASE StopNext
  <2>0. /\ OnlyOf(Monitor) /\ Monitor \in Process /\ call[Monitor].at = "next" /\ call[Monitor].then = "next"
        /\ call'[Monitor].then = "next" /\ call'[Monitor].todo = {} /\ call[Monitor].id = NONE
    BY <1>21, StopNextEffect, Facts
  <2>1. CASE call'[Monitor].at = "next" /\ call'[Monitor].id = NONE
    BY <2>0, <2>1, Facts
  <2>2. ASSUME NEW e \in entries, call'[Monitor].at = "drive", call'[Monitor].id = e.id, call'[Monitor].next = "retain"
        PROVE  ShapeInv'
    BY <2>0, <2>2, EntryFacts
  <2> QED
    BY ZenonT(40), <1>21, <2>0, <2>1, <2>2, StopNextEffect
<1>22. CASE Clear
  BY <1>22, ClearEffect
<1>23. CASE EraseJournal
  BY <1>23, EraseEffect, Facts
<1>24. CASE Exit
  BY <1>24, DiesEffect, Facts DEF Exit
<1>25. CASE Start
  BY <1>25, StartEffect, Facts
<1>26. CASE Crash
  BY <1>26, CrashEffect, DiesEffect, Facts
<1>27. ASSUME NEW k \in Client, ReadJournal(k) PROVE ShapeInv'
  BY <1>27, ReadEffect
<1>28. ASSUME NEW k \in Client, TakeJournal(k) PROVE ShapeInv'
  BY <1>28, TakeEffect
<1>29. ASSUME NEW v \in Mount, Program(v) PROVE ShapeInv'
  BY <1>29, ProgramEffect
<1>30. CASE UNCHANGED vars
  BY <1>30 DEF vars, ShapeInv, Shape
<1> QED
  BY <1>1, <1>2, <1>3, <1>4, <1>5, <1>6, <1>7, <1>8, <1>9, <1>10, <1>11, <1>12, <1>13, <1>14, <1>15,
     <1>16, <1>17, <1>18, <1>19, <1>20, <1>21, <1>22, <1>23, <1>24, <1>25, <1>26, <1>27, <1>28,
     <1>29, <1>30, Facts
  DEF Next, ProcessStep, MonitorStep, Request

\* A process at work means that the supervisor runs.
LEMMA Active ==
    ASSUME TypeOK, HostInv, NEW p \in Process, call[p].at # "idle"
    PROVE  host.at # "off" /\ host.ended = "running"
BY IdleFacts DEF HostInv

\* A step that neither empties nor fills the registry and is not the supervisor's
\* teardown keeps HostInv.
LEMMA HostKept ==
    ASSUME TypeOK, HostInv, NEW p \in Process, host.at # "off", OnlyOf(p), UNCHANGED host,
           entries = {} => entries' = {},
           call'[p].pass = 2 => call[p].pass = 2,
           call'[p].then = "next" => call[p].then = "next",
           call'[p].at \notin {"erase", "exit", "stop_all"}
    PROVE  HostInv'
BY Facts DEF HostInv, OnlyOf, Cleared, TearingDown

LEMMA HostStep ==
    ASSUME TypeOK, ShapeInv, HostInv, [Next]_vars PROVE HostInv'
<1>1. ASSUME NEW p \in Process, Serve(p) PROVE HostInv'
  BY <1>1, ServeEffect, Active, HostKept DEF Moves, Keeps, Turns
<1>2. ASSUME NEW p \in Process, MountFails(p) PROVE HostInv'
  BY <1>2, MountFailsEffect, Active, HostKept DEF Moves, Keeps, Turns
<1>3. ASSUME NEW p \in Process, Settle(p) PROVE HostInv'
  <2>1. \E v \in Mount, state \in State : entries' = Marked({v}, state)
    BY <1>3, SettleEffect DEF State
  <2>2. entries = {} => entries' = {}
    BY <2>1, MarkedFacts DEF Marks
  <2>3. /\ OnlyOf(p) /\ call'[p].at \in {"drive", "prune"} /\ call[p].at = "settle" /\ UNCHANGED host
        /\ call'[p].then = call[p].then /\ call'[p].pass = call[p].pass
    BY <1>3, SettleEffect
  <2> QED
    BY <2>2, <2>3, Active, HostKept
<1>4. ASSUME NEW p \in Process, PruneFailed(p) PROVE HostInv'
  BY <1>4, PruneEffect, Active, HostKept DEF Moves, Keeps, Turns
<1>5. ASSUME NEW p \in Process, DriveGone(p) PROVE HostInv'
  BY <1>5, DriveGoneEffect, Active, HostKept DEF Moves, Keeps, Turns
<1>6. ASSUME NEW p \in Process, Drain(p) PROVE HostInv'
  BY <1>6, DrainEffect, Active, HostKept DEF Moves, Keeps, Turns
<1>7. ASSUME NEW p \in Process, Save(p) PROVE HostInv'
  BY <1>7, SaveEffect, Active, HostKept DEF Moves, Keeps, Turns
<1>8. ASSUME NEW p \in Process, Free(p) PROVE HostInv'
  BY <1>8, FreeEffect, Active, HostKept, FieldFacts DEF Moves, Keeps, Turns
<1>9. ASSUME NEW p \in Process, Retain(p) PROVE HostInv'
  BY <1>9, RetainEffect, Active, HostKept DEF Moves, Keeps, Turns
<1>10. ASSUME NEW p \in Process, NextLost(p) PROVE HostInv'
  <2>1. CASE call[p].todo = {} /\ Moves(p, IF entries = {} THEN call[p].then ELSE "list")
    BY <1>10, <2>1, NextLostEffect, FieldFacts, Active, HostKept DEF Moves, Keeps
  <2>2. CASE \E v \in call[p].todo :
               /\ Turns(p, "drive", v, call[p].todo \ {v}, call[p].stops) /\ call'[p].next = "lost"
               /\ call'[p].then = call[p].then /\ call'[p].pass = call[p].pass
    BY <1>10, <2>2, NextLostEffect, Active, HostKept DEF Turns
  <2> QED
    BY <1>10, <2>1, <2>2, NextLostEffect
<1>11. ASSUME NEW p \in Process, ListMounts(p) PROVE HostInv'
  BY <1>11, ListEffect, Active, HostKept DEF Moves, Keeps, Turns
<1>12. ASSUME NEW p \in Process, WriteJournal(p) \/ WriteFails(p) PROVE HostInv'
  BY <1>12, WriteEffect, Active, HostKept, FieldFacts DEF Moves, Keeps, Turns
<1>13. ASSUME NEW p \in Thread, NEW v \in case.mounts, NEW t \in case.targets, MountBegin(p, v, t) PROVE HostInv'
  <2>1. p \in Process /\ p # Monitor /\ OnlyOf(p) /\ UNCHANGED host /\ host.at = "on" /\ ~host.shutdown
    BY <1>13, MountBeginEffect, Facts DEF Turns
  <2> QED
    BY <2>1, Facts DEF HostInv, OnlyOf, Cleared, TearingDown
<1>14. ASSUME NEW p \in Thread, NEW t \in case.targets, NEW force \in BOOLEAN, UnmountBegin(p, t, force) PROVE HostInv'
  <2>1. entries = {} => entries' = {}
    BY <1>14, UnmountEffect
  <2>2. /\ p \in Process /\ host.at = "on" /\ OnlyOf(p) /\ UNCHANGED host /\ call'[p].at \in {"idle", "drive"}
        /\ call'[p].then = "idle" /\ call'[p].pass = 1
    BY ZenonT(40), <1>14, UnmountEffect
  <2> QED
    BY <2>1, <2>2, HostKept
<1>15. ASSUME NEW p \in Thread, NEW t \in case.targets, Dismiss(p, t) PROVE HostInv'
  BY <1>15, Facts, IdleFacts, Active, DismissEffect DEF HostInv, OnlyVolume, OnlyOf, Moves, Keeps,
       Turns, Cleared, TearingDown
<1>16. ASSUME NEW p \in Process, (p \in Thread /\ List(p)) \/ (p = Monitor /\ Tick) PROVE HostInv'
  <2>1. Lost \subseteq Mount /\ entries' = Marked(Lost, "failed")
    BY <1>16, CheckEffect
  <2>2. entries = {} => entries' = {}
    BY <2>1, MarkedFacts DEF Marks, State
  <2>3. /\ host.at # "off" /\ OnlyOf(p) /\ UNCHANGED host /\ call'[p].at = "lost"
        /\ call'[p].then # "next" /\ call'[p].pass = 1
    BY <1>16, CheckEffect, Active DEF Turns
  <2> QED
    BY <2>2, <2>3, HostKept
<1>17. ASSUME NEW p \in Thread, Shutdown(p) PROVE HostInv'
  BY <1>17, Facts, IdleFacts, Active, ShutdownEffect DEF HostInv, OnlyVolume, OnlyOf, Moves, Keeps,
       Turns, Cleared, TearingDown
<1>18. CASE Decide
  BY <1>18, Facts, IdleFacts, Active, DecideEffect DEF HostInv, OnlyVolume, OnlyOf, Moves, Keeps,
       Turns, Cleared, TearingDown
<1>19. CASE RequestShutdown
  BY <1>19, Facts, IdleFacts, Active, RequestShutdownEffect DEF HostInv, OnlyVolume, OnlyOf, Moves,
       Keeps, Turns, Cleared, TearingDown
<1>20. CASE StopAll
  BY <1>20, Facts, IdleFacts, Active, StopAllEffect DEF HostInv, OnlyVolume, OnlyOf, Moves, Keeps,
       Turns, Cleared, TearingDown
<1>21. CASE StopNext
  <2>1. /\ call[Monitor].at = "next" /\ call[Monitor].then = "next" /\ Monitor \in Process /\ OnlyOf(Monitor)
        /\ UNCHANGED host /\ call'[Monitor].then = "next" /\ call'[Monitor].pass = call[Monitor].pass
    BY <1>21, StopNextEffect, Facts DEF ShapeInv, Shape
  <2>2. call'[Monitor].at \in {"next", "drive"}
    BY <1>21, <2>1, StopNextEffect
  <2>3. entries = {} => entries' = {}
    BY <1>21, StopNextEffect
  <2> QED
    BY <2>1, <2>2, <2>3, Active, HostKept
<1>22. CASE Clear
  BY <1>22, Facts, IdleFacts, Active, ClearEffect, Facts DEF HostInv, OnlyVolume, OnlyOf, Moves,
       Keeps, Turns, Cleared, TearingDown, ShapeInv, Shape
<1>23. CASE EraseJournal
  BY <1>23, Facts, IdleFacts, Active, EraseEffect DEF HostInv, OnlyVolume, OnlyOf, Moves, Keeps,
       Turns, Cleared, TearingDown
<1>24. CASE Exit
  BY <1>24, Facts, IdleFacts, Active, DiesEffect DEF HostInv, OnlyVolume, OnlyOf, Moves, Keeps,
       Turns, Cleared, TearingDown, Exit
<1>25. CASE Start
  BY <1>25, Facts, IdleFacts, Active, StartEffect DEF HostInv, OnlyVolume, OnlyOf, Moves, Keeps,
       Turns, Cleared, TearingDown
<1>26. CASE Crash
  BY <1>26, Facts, IdleFacts, Active, CrashEffect, DiesEffect DEF HostInv, OnlyVolume, OnlyOf, Moves,
       Keeps, Turns, Cleared, TearingDown
<1>27. ASSUME NEW k \in Client, ReadJournal(k) PROVE HostInv'
  BY <1>27, Facts, IdleFacts, Active, ReadEffect DEF HostInv, OnlyVolume, OnlyOf, Moves, Keeps,
       Turns, Cleared, TearingDown
<1>28. ASSUME NEW k \in Client, TakeJournal(k) PROVE HostInv'
  BY <1>28, Facts, IdleFacts, Active, TakeEffect DEF HostInv, OnlyVolume, OnlyOf, Moves, Keeps,
       Turns, Cleared, TearingDown
<1>29. ASSUME NEW v \in Mount, Program(v) PROVE HostInv'
  BY <1>29, Facts, IdleFacts, Active, ProgramEffect DEF HostInv, OnlyVolume, OnlyOf, Moves, Keeps,
       Turns, Cleared, TearingDown
<1>30. CASE UNCHANGED vars
  BY <1>30 DEF vars, HostInv, Cleared, TearingDown
<1> QED
  BY <1>1, <1>2, <1>3, <1>4, <1>5, <1>6, <1>7, <1>8, <1>9, <1>10, <1>11, <1>12, <1>13, <1>14, <1>15,
     <1>16, <1>17, <1>18, <1>19, <1>20, <1>21, <1>22, <1>23, <1>24, <1>25, <1>26, <1>27, <1>28,
     <1>29, <1>30, Facts
  DEF Next, ProcessStep, MonitorStep, Request

LEMMA TearStep ==
    ASSUME TypeOK, ShapeInv, HostInv, HolderInv, TearInv, [Next]_vars PROVE TearInv'
<1> USE Facts, IdleFacts DEF OnlyOf, Moves, Keeps, Turns, TearInv, TearingDown
<1>1. ASSUME NEW p \in Process, Serve(p) PROVE TearInv'
  BY <1>1, ServeEffect
<1>2. ASSUME NEW p \in Process, MountFails(p) PROVE TearInv'
  BY <1>2, MountFailsEffect
<1>3. ASSUME NEW p \in Process, Settle(p) PROVE TearInv'
  <2>1. UNCHANGED case /\ ("slips_in" \in case.events \/ ~TearingDown) /\ OnlyOf(p) /\ call'[p].then = call[p].then
    BY <1>3, SettleEffect
  <2> QED
    BY <2>1
<1>4. ASSUME NEW p \in Process, PruneFailed(p) PROVE TearInv'
  BY <1>4, PruneEffect
<1>5. ASSUME NEW p \in Process, DriveGone(p) PROVE TearInv'
  BY <1>5, DriveGoneEffect
<1>6. ASSUME NEW p \in Process, Drain(p) PROVE TearInv'
  BY <1>6, DrainEffect
<1>7. ASSUME NEW p \in Process, Save(p) PROVE TearInv'
  BY <1>7, SaveEffect
<1>8. ASSUME NEW p \in Process, Free(p) PROVE TearInv'
  BY <1>8, FreeEffect
<1>9. ASSUME NEW p \in Process, Retain(p) PROVE TearInv'
  BY <1>9, RetainEffect
<1>10. ASSUME NEW p \in Process, NextLost(p) PROVE TearInv'
  BY <1>10, NextLostEffect
<1>11. ASSUME NEW p \in Process, ListMounts(p) PROVE TearInv'
  BY <1>11, ListEffect
<1>12. ASSUME NEW p \in Process, WriteJournal(p) \/ WriteFails(p) PROVE TearInv'
  BY <1>12, WriteEffect
<1>13. ASSUME NEW p \in Thread, NEW v \in case.mounts, NEW t \in case.targets, MountBegin(p, v, t) PROVE TearInv'
  BY <1>13, MountBeginEffect DEF HostInv
<1>14. ASSUME NEW p \in Thread, NEW t \in case.targets, NEW force \in BOOLEAN, UnmountBegin(p, t, force) PROVE TearInv'
  <2>1. p \in Process /\ p # Monitor /\ OnlyOf(p) /\ UNCHANGED case
    BY <1>14, UnmountEffect
  <2>2. \A e \in entries' : e.state = "mounted" => \E f \in entries : f.id = e.id /\ f.state = "mounted"
    <3>1. CASE entries' = {e \in entries : e.target # t}
      BY <3>1
    <3>2. ASSUME NEW e \in entries, entries' = Marked({e.id}, "stopping")
          PROVE  \A a \in entries' : a.state = "mounted" => \E f \in entries : f.id = a.id /\ f.state = "mounted"
      <4>1. \A a \in entries' : \E f \in entries :
               a.id = f.id /\ a.target = f.target /\ a.state = IF f.id = e.id THEN "stopping" ELSE f.state
        BY ONLY TypeOK, <3>2, e \in entries, MarkedOne
      <4> QED
        BY <4>1
    <3> QED
      BY ONLY TypeOK, <1>14, <3>1, <3>2, UnmountEffect
  <2> QED
    BY <2>1, <2>2
<1>15. ASSUME NEW p \in Thread, NEW t \in case.targets, Dismiss(p, t) PROVE TearInv'
  BY <1>15, DismissEffect
<1>16. ASSUME NEW p \in Process, (p \in Thread /\ List(p)) \/ (p = Monitor /\ Tick) PROVE TearInv'
  <2>1. Lost \subseteq Mount /\ entries' = Marked(Lost, "failed") /\ UNCHANGED case
    BY <1>16, CheckEffect
  <2>2. \A e \in entries' : e.state = "mounted" => \E f \in entries : f.id = e.id /\ f.state = "mounted"
    BY <2>1, MarkedFacts DEF Marks, State
  <2> QED
    BY <1>16, <2>1, <2>2, CheckEffect
<1>17. ASSUME NEW p \in Thread, Shutdown(p) PROVE TearInv'
  BY <1>17, ShutdownEffect
<1>18. CASE Decide
  BY <1>18, DecideEffect
<1>19. CASE RequestShutdown
  BY <1>19, RequestShutdownEffect
<1>20. CASE StopAll
  BY <1>20, StopAllEffect DEF InState
<1>21. CASE StopNext
  <2>1. /\ OnlyOf(Monitor) /\ UNCHANGED <<case, vol>> /\ call'[Monitor].then = call[Monitor].then
    BY <1>21, StopNextEffect
  <2>2. PICK v \in call[Monitor].stops :
           LET t == vol[v].target IN
           /\ v \in Mount /\ call'[Monitor].stops = call[Monitor].stops \ {v}
           /\ \/ entries' = {e \in entries : e.target # t}
              \/ \E e \in entries : e.target = t /\ e.state = "mounted" /\ entries' = Marked({e.id}, "stopping")
              \/ /\ UNCHANGED entries
                 /\ \A e \in entries : e.target = t => e.state \in {"starting", "stopping"}
    BY ONLY TypeOK, <1>21, StopNextEffect
  <2>3. \A e \in entries : e.id = v => e.target = vol[v].target
    BY DEF HolderInv
  <2>4. \A a \in entries' : a.state = "mounted" => \E f \in entries : f.id = a.id /\ f.state = "mounted" /\ f.id # v
    <3>1. CASE entries' = {e \in entries : e.target # vol[v].target}
      BY <3>1, <2>3
    <3>2. ASSUME NEW e \in entries, e.target = vol[v].target, entries' = Marked({e.id}, "stopping")
          PROVE  \A a \in entries' : a.state = "mounted" => \E f \in entries : f.id = a.id /\ f.state = "mounted" /\ f.id # v
      <4>1. \A f \in entries : f.id = v => f.id = e.id
        BY <2>3, <3>2, EntryFacts
      <4> QED
        <5>1. \A a \in entries' : \E f \in entries :
                 a.id = f.id /\ a.target = f.target /\ a.state = IF f.id = e.id THEN "stopping" ELSE f.state
          BY ONLY TypeOK, <3>2, e \in entries, MarkedOne
        <5> QED
          BY <4>1, <5>1
    <3>3. CASE UNCHANGED entries /\ \A e \in entries : e.target = vol[v].target => e.state \in {"starting", "stopping"}
      BY <3>3, <2>3
    <3> QED
      BY <2>2, <3>1, <3>2, <3>3
  <2> QED
    BY <2>1, <2>2, <2>4
<1>22. CASE Clear
  BY <1>22, ClearEffect
<1>23. CASE EraseJournal
  BY <1>23, EraseEffect
<1>24. CASE Exit
  BY <1>24, DiesEffect DEF Exit
<1>25. CASE Start
  BY <1>25, StartEffect
<1>26. CASE Crash
  BY <1>26, CrashEffect, DiesEffect
<1>27. ASSUME NEW k \in Client, ReadJournal(k) PROVE TearInv'
  BY <1>27, ReadEffect
<1>28. ASSUME NEW k \in Client, TakeJournal(k) PROVE TearInv'
  BY <1>28, TakeEffect
<1>29. ASSUME NEW v \in Mount, Program(v) PROVE TearInv'
  BY <1>29, ProgramEffect
<1>30. CASE UNCHANGED vars
  BY <1>30 DEF vars
<1> QED
  BY <1>1, <1>2, <1>3, <1>4, <1>5, <1>6, <1>7, <1>8, <1>9, <1>10, <1>11, <1>12, <1>13, <1>14, <1>15,
     <1>16, <1>17, <1>18, <1>19, <1>20, <1>21, <1>22, <1>23, <1>24, <1>25, <1>26, <1>27, <1>28,
     <1>29, <1>30, Facts
  DEF Next, ProcessStep, MonitorStep, Request

\* What another process has in hand is as it was.
LEMMA Elsewhere ==
    ASSUME TypeOK, HandInv, NEW p \in Process, NEW v \in Mount, Holds(p, v), OnlyVolume(v)
    PROVE  \A q \in Process, w \in Mount : q # p /\ Holds(q, w) => vol'[w] = vol[w]
BY DEF HandInv, OnlyVolume

LEMMA HeldElsewhere ==
    ASSUME TypeOK, HeldInv, NEW p \in Process, OnlyOf(p), Held(p)',
           \A q \in Process, w \in Mount : q # p /\ Holds(q, w) => vol'[w] = vol[w]
    PROVE  HeldInv'
<1> SUFFICES ASSUME NEW q \in Process, q # p PROVE Held(q)'
  BY DEF HeldInv
<1>1. call'[q] = call[q] /\ Held(q) /\ call[q].todo \subseteq Mount
  BY FieldFacts DEF OnlyOf, HeldInv
<1>2. \A w \in Mount : Holds(q, w) => vol'[w] = vol[w]
  OBVIOUS
<1> QED
  BY <1>1, <1>2 DEF Held, Holds, Serving

\* Programs, uploads and the driver change only a volume that serves.
LEMMA ProgramServes ==
    ASSUME TypeOK, VolInv, NEW v \in Mount, Program(v)
    PROVE  Serving(v) /\ Serving(v)'
<1>1. VolOf(v) /\ vol'[v].engine = vol[v].engine
  BY ProgramEffect DEF VolInv
<1>2. \/ vol[v].drive = "up" /\ vol'[v].drive \in {"up", "lost"}
      \/ vol[v].engine = "on" /\ vol[v].drive # "gone" /\ vol'[v].drive = vol[v].drive
  BY ProgramEffect
<1>3. vol[v].drive \in {"none", "up", "lost", "gone"}
  BY FieldFacts
<1> QED
  BY <1>1, <1>2, <1>3 DEF VolOf, Serving

LEMMA HeldStep ==
    ASSUME TypeOK, ShapeInv, HostInv, HandInv, HolderInv, HeldInv, VolInv, [Next]_vars PROVE HeldInv'
<1>1. ASSUME NEW p \in Process, Serve(p) PROVE HeldInv'
  <2>1. PICK v \in Mount : v = call[p].id /\ OnlyVolume(v)
    BY <1>1, ServeEffect
  <2>2. OnlyOf(p) /\ Holds(p, v)
    BY <1>1, <2>1, ServeEffect DEF Moves, Holds
  <2>3. Held(p)'
    BY <1>1, <2>1, ServeEffect DEF HeldInv, Held, ShapeInv, Shape, Hands, Unmounting, Moves, Keeps,
         Serving, OnlyVolume
  <2> QED
    BY <2>1, <2>2, <2>3, Elsewhere, HeldElsewhere
<1>2. ASSUME NEW p \in Process, MountFails(p) PROVE HeldInv'
  <2>1. PICK v \in Mount : v = call[p].id /\ OnlyVolume(v)
    BY <1>2, MountFailsEffect
  <2>2. OnlyOf(p) /\ Holds(p, v)
    BY <1>2, <2>1, MountFailsEffect DEF Moves, Holds
  <2>3. Held(p)'
    BY <1>2, <2>1, MountFailsEffect DEF HeldInv, Held, ShapeInv, Shape, Hands, Unmounting, Moves,
         Keeps, Serving, OnlyVolume
  <2> QED
    BY <2>1, <2>2, <2>3, Elsewhere, HeldElsewhere
<1>3. ASSUME NEW p \in Process, Settle(p) PROVE HeldInv'
  <2>1. PICK v \in Mount :
           /\ v = call[p].id /\ UNCHANGED vol /\ OnlyOf(p) /\ call'[p].todo = call[p].todo
           /\ \/ vol[v].engine = "on" /\ call'[p].at = "drive" /\ call'[p].id = v
              \/ call'[p].at = "prune" /\ call'[p].id = NONE
    BY <1>3, SettleEffect
  <2>2. call[p].todo = {} /\ NONE \notin Mount /\ (vol[v].engine = "on" => Serving(v))
    BY <1>3, <2>1, SettleEffect, Facts DEF ShapeInv, Shape, Unmounting, HeldInv, Held
  <2>3. Held(p)'
    BY <2>1, <2>2 DEF Held, Serving
  <2> QED
    BY <2>1, <2>3, HeldElsewhere
<1>4. ASSUME NEW p \in Process, PruneFailed(p) PROVE HeldInv'
  BY <1>4, PruneEffect DEF HeldInv, Held, HandInv, Holds, OnlyOf, OnlyVolume, Moves, Keeps, Turns,
       Serving, Untouched
<1>5. ASSUME NEW p \in Process, DriveGone(p) PROVE HeldInv'
  <2>1. PICK v \in Mount :
           /\ v = call[p].id /\ OnlyVolume(v)
           /\ vol'[v].drive = "gone" /\ vol'[v].engine = vol[v].engine
    BY <1>5, DriveGoneEffect
  <2>2. /\ OnlyOf(p) /\ call[p].at = "drive" /\ call'[p].at = "drain"
        /\ call'[p].id = v /\ call'[p].todo = call[p].todo
    BY <1>5, <2>1, DriveGoneEffect DEF Moves, Keeps
  <2>3. Holds(p, v) /\ Held(p)
    BY <2>1 DEF Holds, HeldInv
  <2>4. \A w \in call[p].todo : w # v /\ vol'[w] = vol[w] /\ Serving(w)
    BY <2>1, <2>3, FieldFacts DEF ShapeInv, Shape, Held, OnlyVolume
  <2>5. Held(p)'
    BY <2>1, <2>2, <2>3, <2>4 DEF Held, Serving
  <2> QED
    BY <2>1, <2>2, <2>3, <2>5, Elsewhere, HeldElsewhere
<1>6. ASSUME NEW p \in Process, Drain(p) PROVE HeldInv'
  <2>1. PICK v \in Mount :
           /\ v = call[p].id /\ OnlyVolume(v)
           /\ vol'[v].drive = vol[v].drive /\ vol'[v].engine = vol[v].engine
    BY <1>6, DrainEffect
  <2>2. /\ OnlyOf(p) /\ call[p].at = "drain" /\ call'[p].at = "save"
        /\ call'[p].id = v /\ call'[p].todo = call[p].todo
    BY <1>6, <2>1, DrainEffect DEF Moves, Keeps
  <2>3. Holds(p, v) /\ Held(p)
    BY <2>1 DEF Holds, HeldInv
  <2>4. \A w \in call[p].todo : w # v /\ vol'[w] = vol[w] /\ Serving(w)
    BY <2>1, <2>3, FieldFacts DEF ShapeInv, Shape, Held, OnlyVolume
  <2>5. Held(p)'
    BY <2>1, <2>2, <2>3, <2>4 DEF Held, Serving
  <2> QED
    BY <2>1, <2>2, <2>3, <2>5, Elsewhere, HeldElsewhere
<1>7. ASSUME NEW p \in Process, Save(p) PROVE HeldInv'
  <2>1. PICK v \in Mount :
           /\ v = call[p].id /\ OnlyVolume(v)
           /\ vol'[v].drive = vol[v].drive /\ vol'[v].engine = vol[v].engine
           /\ vol'[v].dirty = vol[v].dirty /\ (vol'[v].kept <=> vol'[v].copied # vol[v].dirty)
    BY <1>7, SaveEffect
  <2>2. /\ OnlyOf(p) /\ call[p].at = "save" /\ call'[p].at = "free"
        /\ call'[p].id = v /\ call'[p].todo = call[p].todo
    BY <1>7, <2>1, SaveEffect DEF Moves, Keeps
  <2>3. Holds(p, v) /\ Held(p)
    BY <2>1 DEF Holds, HeldInv
  <2>4. \A w \in call[p].todo : w # v /\ vol'[w] = vol[w] /\ Serving(w)
    BY <2>1, <2>3, FieldFacts DEF ShapeInv, Shape, Held, OnlyVolume
  <2>5. Held(p)'
    BY <2>1, <2>2, <2>3, <2>4 DEF Held, Serving
  <2> QED
    BY <2>1, <2>2, <2>3, <2>5, Elsewhere, HeldElsewhere
<1>8. ASSUME NEW p \in Process, Free(p) PROVE HeldInv'
  <2>1. PICK v \in Mount :
           /\ v = call[p].id /\ OnlyVolume(v) /\ vol'[v].engine = "off"
           /\ OnlyOf(p) /\ call'[p].todo = call[p].todo /\ call'[p].at = call[p].next
           /\ call'[p].id = IF call[p].next = "retain" THEN v ELSE NONE
    BY <1>8, FreeEffect
  <2>2. Holds(p, v)
    BY <2>1 DEF Holds
  <2>3. call[p].next \in {"idle", "retain", "lost", "prune"} /\ NONE \notin Mount /\ v \notin call[p].todo
    BY <2>1, Facts, FieldFacts DEF ShapeInv, Shape
  <2>4. \A w \in call[p].todo : w # v /\ vol'[w] = vol[w] /\ Serving(w)
    BY <2>1, <2>3, FieldFacts DEF HeldInv, Held, OnlyVolume
  <2>5. Held(p)'
    BY <2>1, <2>3, <2>4 DEF Held, Serving
  <2> QED
    BY <2>1, <2>2, <2>5, Elsewhere, HeldElsewhere
<1>9. ASSUME NEW p \in Process, Retain(p) PROVE HeldInv'
  BY SMTT(30), <1>9, RetainEffect DEF HeldInv, Held, HandInv, Holds, OnlyOf, OnlyVolume, Moves, Keeps, Turns,
       Serving, Untouched
<1>10. ASSUME NEW p \in Process, NextLost(p) PROVE HeldInv'
  <2>1. UNCHANGED vol /\ call[p].at = "lost"
    BY <1>10, NextLostEffect
  <2>2. CASE \E v \in call[p].todo : Turns(p, "drive", v, call[p].todo \ {v}, call[p].stops)
    <3>1. PICK v \in call[p].todo : Turns(p, "drive", v, call[p].todo \ {v}, call[p].stops)
      BY <2>2
    <3> QED
      BY <2>1, <3>1, HeldElsewhere DEF Turns, HeldInv, Held, Serving
  <2>3. CASE call[p].todo = {} /\ Moves(p, IF entries = {} THEN call[p].then ELSE "list")
    <3>1. OnlyOf(p) /\ call'[p].todo = {} /\ call'[p].id \notin Mount
      BY <2>1, <2>3 DEF Moves, Keeps, ShapeInv, Shape, Hands, Unmounting
    <3> QED
      BY <2>1, <3>1, HeldElsewhere DEF Held
  <2> QED
    BY <1>10, <2>2, <2>3, NextLostEffect
<1>11. ASSUME NEW p \in Process, ListMounts(p) PROVE HeldInv'
  BY <1>11, ListEffect DEF HeldInv, Held, HandInv, Holds, OnlyOf, OnlyVolume, Moves, Keeps, Turns,
       Serving, Untouched
<1>12. ASSUME NEW p \in Process, WriteJournal(p) \/ WriteFails(p) PROVE HeldInv'
  <2>1. UNCHANGED vol /\ OnlyOf(p) /\ call'[p].todo = {} /\ call'[p].id \notin Mount
    BY <1>12, WriteEffect DEF Moves, Keeps, ShapeInv, Shape, Hands, Unmounting
  <2> QED
    BY <2>1, HeldElsewhere DEF Held
<1>13. ASSUME NEW p \in Thread, NEW v \in case.mounts, NEW t \in case.targets, MountBegin(p, v, t) PROVE HeldInv'
  <2>1. /\ p \in Process /\ v \in Mount /\ vol[v].target = NONE /\ OnlyOf(p)
        /\ call'[p].at = "build" /\ call'[p].id = v /\ call'[p].todo = {} /\ vol'[v].engine = "none"
        /\ \A w \in Mount : w # v => vol'[w] = vol[w]
    BY <1>13, MountBeginEffect DEF Turns, Fresh
  <2>2. \A q \in Process : ~Holds(q, v)
    BY <2>1, Facts DEF HandInv
  <2>3. Held(p)'
    BY <2>1 DEF Held
  <2> QED
    BY <2>1, <2>2, <2>3, HeldElsewhere
<1>14. ASSUME NEW p \in Thread, NEW t \in case.targets, NEW force \in BOOLEAN, UnmountBegin(p, t, force) PROVE HeldInv'
  <2>1. /\ p \in Process /\ OnlyOf(p) /\ UNCHANGED vol /\ call'[p].todo = {}
        /\ \/ call'[p].id = NONE
           \/ \E e \in entries : e.state = "mounted" /\ call'[p].at = "drive" /\ call'[p].id = e.id
    BY ONLY TypeOK, <1>14, UnmountTakes
  <2>2. Held(p)'
    BY <2>1, Facts DEF Held, HolderInv, Serving
  <2> QED
    BY <2>1, <2>2, HeldElsewhere
<1>15. ASSUME NEW p \in Thread, NEW t \in case.targets, Dismiss(p, t) PROVE HeldInv'
  BY <1>15, DismissEffect DEF HeldInv, Held, HandInv, Holds, OnlyOf, OnlyVolume, Moves, Keeps, Turns,
       Serving, Untouched
<1>16. ASSUME NEW p \in Process, (p \in Thread /\ List(p)) \/ (p = Monitor /\ Tick) PROVE HeldInv'
  <2>1. /\ OnlyOf(p) /\ UNCHANGED vol /\ call'[p].todo = Lost /\ call'[p].id = NONE
        /\ \A v \in Lost : \E e \in entries : e.id = v /\ e.state = "mounted"
    BY <1>16, CheckEffect DEF Turns
  <2>2. Held(p)'
    BY <2>1, Facts DEF Held, HolderInv, Serving
  <2> QED
    BY <2>1, <2>2, HeldElsewhere
<1>17. ASSUME NEW p \in Thread, Shutdown(p) PROVE HeldInv'
  BY <1>17, ShutdownEffect DEF HeldInv, Held, HandInv, Holds, OnlyOf, OnlyVolume, Moves, Keeps,
       Turns, Serving, Untouched
<1>18. CASE Decide
  BY <1>18, DecideEffect DEF HeldInv, Held, HandInv, Holds, OnlyOf, OnlyVolume, Moves, Keeps, Turns,
       Serving, Untouched
<1>19. CASE RequestShutdown
  BY <1>19, RequestShutdownEffect DEF HeldInv, Held, HandInv, Holds, OnlyOf, OnlyVolume, Moves,
       Keeps, Turns, Serving, Untouched
<1>20. CASE StopAll
  BY <1>20, StopAllEffect DEF HeldInv, Held, HandInv, Holds, OnlyOf, OnlyVolume, Moves, Keeps, Turns,
       Serving, Untouched
<1>21. CASE StopNext
  <2>1. Monitor \in Process /\ call[Monitor].at = "next" /\ call[Monitor].todo = {} /\ call[Monitor].id \notin Mount
    BY <1>21, StopNextEffect, Facts DEF ShapeInv, Shape, Hands, Unmounting
  <2>2. /\ OnlyOf(Monitor) /\ UNCHANGED vol /\ call'[Monitor].todo = {}
        /\ \/ call'[Monitor].id \notin Mount
           \/ \E e \in entries : e.state = "mounted" /\ call'[Monitor].at = "drive" /\ call'[Monitor].id = e.id
    BY ONLY TypeOK, <1>21, <2>1, StopNextEffect
  <2>3. Held(Monitor)'
    BY <2>2 DEF Held, HolderInv, Serving
  <2> QED
    BY <2>1, <2>2, <2>3, HeldElsewhere
<1>22. CASE Clear
  <2>1. Monitor \in Process /\ call[Monitor].todo = {} /\ call[Monitor].id \notin Mount
    BY <1>22, ClearEffect, Facts DEF ShapeInv, Shape, Hands, Unmounting
  <2>2. /\ OnlyOf(Monitor) /\ call'[Monitor].todo = {} /\ call'[Monitor].id \notin Mount
        /\ \A v \in Mount : vol'[v] = vol[v] \/ \E e \in entries : e.id = v /\ e.state = "mounted"
    BY <1>22, <2>1, ClearEffect DEF Turns
  <2>3. \A q \in Process, w \in Mount : Holds(q, w) => vol'[w] = vol[w]
    BY <2>2 DEF HandInv
  <2> QED
    BY <2>1, <2>2, <2>3, HeldElsewhere DEF Held
<1>23. CASE EraseJournal
  BY SMTT(30), <1>23, EraseEffect DEF HeldInv, Held, HandInv, Holds, OnlyOf, OnlyVolume, Moves, Keeps, Turns,
       Serving, Untouched
<1>24. CASE Exit
  <2>1. \A p \in Process : call'[p] = Idle
    BY <1>24, DiesEffect DEF Exit
  <2> QED
    BY <2>1, IdleFacts, Facts DEF HeldInv, Held
<1>25. CASE Start
  BY SMTT(30), <1>25, StartEffect DEF HeldInv, Held, HandInv, Holds, OnlyOf, OnlyVolume, Moves, Keeps, Turns,
       Serving, Untouched
<1>26. CASE Crash
  <2>1. \A p \in Process : call'[p] = Idle
    BY <1>26, CrashEffect, DiesEffect
  <2> QED
    BY <2>1, IdleFacts, Facts DEF HeldInv, Held
<1>27. ASSUME NEW k \in Client, ReadJournal(k) PROVE HeldInv'
  BY <1>27, ReadEffect DEF HeldInv, Held, HandInv, Holds, OnlyOf, OnlyVolume, Moves, Keeps, Turns,
       Serving, Untouched
<1>28. ASSUME NEW k \in Client, TakeJournal(k) PROVE HeldInv'
  BY <1>28, TakeEffect DEF HeldInv, Held, HandInv, Holds, OnlyOf, OnlyVolume, Moves, Keeps, Turns,
       Serving, Untouched
<1>29. ASSUME NEW v \in Mount, Program(v) PROVE HeldInv'
  <2>1. Serving(v) /\ Serving(v)' /\ UNCHANGED call /\ OnlyVolume(v)
    BY <1>29, ProgramServes, ProgramEffect
  <2> SUFFICES ASSUME NEW q \in Process PROVE Held(q)'
    BY DEF HeldInv
  <2>2. Held(q) /\ call[q].todo \subseteq Mount
    BY FieldFacts DEF HeldInv
  <2>3. \A w \in Mount : w # v => vol'[w] = vol[w]
    BY <2>1 DEF OnlyVolume
  <2>4. \A w \in call'[q].todo : Serving(w)'
    BY <2>1, <2>2, <2>3 DEF Held, Serving
  <2>5. CASE call[q].id = v
    BY <2>1, <2>2, <2>4, <2>5 DEF Held, Serving
  <2>6. CASE call[q].id # v
    BY <2>1, <2>2, <2>3, <2>4, <2>6 DEF Held, Serving
  <2> QED
    BY <2>5, <2>6
<1>30. CASE UNCHANGED vars
  BY <1>30 DEF vars, HeldInv, Held, Serving
<1> QED
  BY <1>1, <1>2, <1>3, <1>4, <1>5, <1>6, <1>7, <1>8, <1>9, <1>10, <1>11, <1>12, <1>13, <1>14, <1>15,
     <1>16, <1>17, <1>18, <1>19, <1>20, <1>21, <1>22, <1>23, <1>24, <1>25, <1>26, <1>27, <1>28,
     <1>29, <1>30, Facts
  DEF Next, ProcessStep, MonitorStep, Request

LEMMA VolStep ==
    ASSUME TypeOK, ShapeInv, HostInv, HandInv, HolderInv, HeldInv, VolInv, [Next]_vars PROVE VolInv'
<1>1. ASSUME NEW p \in Process, Serve(p) PROVE VolInv'
  BY <1>1, ServeEffect DEF VolInv, VolOf, HeldInv, Held, HandInv, Holds, OnlyOf, OnlyVolume, Moves,
       Keeps, Turns, Serving, Untouched
<1>2. ASSUME NEW p \in Process, MountFails(p) PROVE VolInv'
  BY <1>2, MountFailsEffect DEF VolInv, VolOf, HeldInv, Held, HandInv, Holds, OnlyOf, OnlyVolume,
       Moves, Keeps, Turns, Serving, Untouched
<1>3. ASSUME NEW p \in Process, Settle(p) PROVE VolInv'
  <2>1. call[p].at = "settle" /\ UNCHANGED vol /\ OnlyOf(p)
    BY <1>3, SettleEffect
  <2>2. \A v \in Mount, q \in Process : call[q].at = "free" /\ call[q].id = v => call'[q].at = "free" /\ call'[q].id = v
    BY <2>1 DEF OnlyOf
  <2> QED
    BY <2>1, <2>2 DEF VolInv, VolOf, Untouched
<1>4. ASSUME NEW p \in Process, PruneFailed(p) PROVE VolInv'
  BY <1>4, PruneEffect DEF VolInv, VolOf, HeldInv, Held, HandInv, Holds, OnlyOf, OnlyVolume, Moves,
       Keeps, Turns, Serving, Untouched
<1>5. ASSUME NEW p \in Process, DriveGone(p) PROVE VolInv'
  BY <1>5, DriveGoneEffect DEF VolInv, VolOf, HeldInv, Held, HandInv, Holds, OnlyOf, OnlyVolume,
       Moves, Keeps, Turns, Serving, Untouched
<1>6. ASSUME NEW p \in Process, Drain(p) PROVE VolInv'
  BY <1>6, DrainEffect DEF VolInv, VolOf, HeldInv, Held, HandInv, Holds, OnlyOf, OnlyVolume, Moves,
       Keeps, Turns, Serving, Untouched
<1>7. ASSUME NEW p \in Process, Save(p) PROVE VolInv'
  BY <1>7, SaveEffect DEF VolInv, VolOf, HeldInv, Held, HandInv, Holds, OnlyOf, OnlyVolume, Moves,
       Keeps, Turns, Serving, Untouched
<1>8. ASSUME NEW p \in Process, Free(p) PROVE VolInv'
  BY <1>8, FreeEffect DEF VolInv, VolOf, HeldInv, Held, HandInv, Holds, OnlyOf, OnlyVolume, Moves,
       Keeps, Turns, Serving, Untouched
<1>9. ASSUME NEW p \in Process, Retain(p) PROVE VolInv'
  BY <1>9, RetainEffect DEF VolInv, VolOf, HeldInv, Held, HandInv, Holds, OnlyOf, OnlyVolume, Moves,
       Keeps, Turns, Serving, Untouched
<1>10. ASSUME NEW p \in Process, NextLost(p) PROVE VolInv'
  BY <1>10, NextLostEffect DEF VolInv, VolOf, HeldInv, Held, HandInv, Holds, OnlyOf, OnlyVolume,
       Moves, Keeps, Turns, Serving, Untouched
<1>11. ASSUME NEW p \in Process, ListMounts(p) PROVE VolInv'
  BY <1>11, ListEffect DEF VolInv, VolOf, HeldInv, Held, HandInv, Holds, OnlyOf, OnlyVolume, Moves,
       Keeps, Turns, Serving, Untouched
<1>12. ASSUME NEW p \in Process, WriteJournal(p) \/ WriteFails(p) PROVE VolInv'
  BY <1>12, WriteEffect DEF VolInv, VolOf, HeldInv, Held, HandInv, Holds, OnlyOf, OnlyVolume, Moves,
       Keeps, Turns, Serving, Untouched
<1>13. ASSUME NEW p \in Thread, NEW v \in case.mounts, NEW t \in case.targets, MountBegin(p, v, t) PROVE VolInv'
  BY <1>13, MountBeginEffect DEF VolInv, VolOf, HeldInv, Held, HandInv, Holds, OnlyOf, OnlyVolume,
       Moves, Keeps, Turns, Serving, Untouched
<1>14. ASSUME NEW p \in Thread, NEW t \in case.targets, NEW force \in BOOLEAN, UnmountBegin(p, t, force) PROVE VolInv'
  BY <1>14, UnmountEffect DEF VolInv, VolOf, HeldInv, Held, HandInv, Holds, OnlyOf, OnlyVolume,
       Moves, Keeps, Turns, Serving, Untouched
<1>15. ASSUME NEW p \in Thread, NEW t \in case.targets, Dismiss(p, t) PROVE VolInv'
  BY <1>15, DismissEffect DEF VolInv, VolOf, HeldInv, Held, HandInv, Holds, OnlyOf, OnlyVolume,
       Moves, Keeps, Turns, Serving, Untouched
<1>16. ASSUME NEW p \in Process, (p \in Thread /\ List(p)) \/ (p = Monitor /\ Tick) PROVE VolInv'
  BY <1>16, CheckEffect DEF VolInv, VolOf, HeldInv, Held, HandInv, Holds, OnlyOf, OnlyVolume, Moves,
       Keeps, Turns, Serving, Untouched
<1>17. ASSUME NEW p \in Thread, Shutdown(p) PROVE VolInv'
  BY <1>17, ShutdownEffect DEF VolInv, VolOf, HeldInv, Held, HandInv, Holds, OnlyOf, OnlyVolume,
       Moves, Keeps, Turns, Serving, Untouched
<1>18. CASE Decide
  BY <1>18, DecideEffect DEF VolInv, VolOf, HeldInv, Held, HandInv, Holds, OnlyOf, OnlyVolume, Moves,
       Keeps, Turns, Serving, Untouched
<1>19. CASE RequestShutdown
  BY <1>19, RequestShutdownEffect DEF VolInv, VolOf, HeldInv, Held, HandInv, Holds, OnlyOf,
       OnlyVolume, Moves, Keeps, Turns, Serving, Untouched
<1>20. CASE StopAll
  BY <1>20, StopAllEffect DEF VolInv, VolOf, HeldInv, Held, HandInv, Holds, OnlyOf, OnlyVolume,
       Moves, Keeps, Turns, Serving, Untouched
<1>21. CASE StopNext
  BY <1>21, StopNextEffect DEF VolInv, VolOf, HeldInv, Held, HandInv, Holds, OnlyOf, OnlyVolume,
       Moves, Keeps, Turns, Serving, Untouched
<1>22. CASE Clear
  BY <1>22, ClearEffect DEF VolInv, VolOf, HeldInv, Held, HandInv, Holds, OnlyOf, OnlyVolume, Moves,
       Keeps, Turns, Serving, Untouched
<1>23. CASE EraseJournal
  BY <1>23, EraseEffect DEF VolInv, VolOf, HeldInv, Held, HandInv, Holds, OnlyOf, OnlyVolume, Moves,
       Keeps, Turns, Serving, Untouched
<1>24. CASE Exit
  BY <1>24, DiesEffect DEF VolInv, VolOf, HeldInv, Held, HandInv, Holds, OnlyOf, OnlyVolume, Moves,
       Keeps, Turns, Serving, Untouched, Exit
<1>25. CASE Start
  <2>1. UNCHANGED vol /\ host.at = "off"
    BY <1>25, StartEffect
  <2>2. \A q \in Process : call[q].at # "free"
    BY <2>1, IdleFacts DEF HostInv
  <2> QED
    BY <2>1, <2>2 DEF VolInv, VolOf, Untouched
<1>26. CASE Crash
  BY <1>26, CrashEffect, DiesEffect DEF VolInv, VolOf, HeldInv, Held, HandInv, Holds, OnlyOf,
       OnlyVolume, Moves, Keeps, Turns, Serving, Untouched
<1>27. ASSUME NEW k \in Client, ReadJournal(k) PROVE VolInv'
  BY <1>27, ReadEffect DEF VolInv, VolOf, HeldInv, Held, HandInv, Holds, OnlyOf, OnlyVolume, Moves,
       Keeps, Turns, Serving, Untouched
<1>28. ASSUME NEW k \in Client, TakeJournal(k) PROVE VolInv'
  BY <1>28, TakeEffect DEF VolInv, VolOf, HeldInv, Held, HandInv, Holds, OnlyOf, OnlyVolume, Moves,
       Keeps, Turns, Serving, Untouched
<1>29. ASSUME NEW v \in Mount, Program(v) PROVE VolInv'
  BY <1>29, ProgramEffect DEF VolInv, VolOf, HeldInv, Held, HandInv, Holds, OnlyOf, OnlyVolume,
       Moves, Keeps, Turns, Serving, Untouched
<1>30. CASE UNCHANGED vars
  BY <1>30 DEF vars, VolInv, VolOf, Untouched
<1> QED
  BY <1>1, <1>2, <1>3, <1>4, <1>5, <1>6, <1>7, <1>8, <1>9, <1>10, <1>11, <1>12, <1>13, <1>14, <1>15,
     <1>16, <1>17, <1>18, <1>19, <1>20, <1>21, <1>22, <1>23, <1>24, <1>25, <1>26, <1>27, <1>28,
     <1>29, <1>30, Facts
  DEF Next, ProcessStep, MonitorStep, Request

\* A step of p that takes no handle from the registry: what p holds after it, it held
\* before, and the records of mounts that are still in hand stay as they are or fail.
LEMMA HandFrame ==
    ASSUME TypeOK, HandInv, NEW p \in Process, OnlyOf(p), host.shutdown => host'.shutdown,
           \A w \in Mount : vol'[w].target = vol[w].target,
           \A w \in Mount : Holds(p, w)' =>
              /\ Holds(p, w) /\ (Starts(p)' <=> Starts(p)) /\ (Stops(p)' <=> Stops(p)),
           \A e \in entries' : (\E q \in Process : Holds(q, e.id)') =>
              \E f \in entries : f.id = e.id /\ (e.state = f.state \/ e.state = "failed"),
           \/ entries' = {} /\ host'.shutdown
           \/ \A f \in entries : f.state # "failed" /\ (\E q \in Process : Holds(q, f.id)') =>
                 \E e \in entries' : e.id = f.id /\ e.state # "failed",
           entries = {} => entries' = {}
    PROVE  HandInv'
<1> SUFFICES ASSUME NEW q \in Process, NEW v \in Mount, Holds(q, v)'
             PROVE  /\ \A r \in Process : Holds(r, v)' => q = r
                    /\ vol'[v].target \in Target
                    /\ \A e \in entries' : e.id = v =>
                          /\ e.state # "mounted"
                          /\ e.state = "starting" => Starts(q)'
                          /\ e.state = "stopping" => Stops(q)'
                    /\ Starts(q)' \/ Stops(q)' =>
                          \/ \E e \in entries' : e.id = v /\ e.state # "failed"
                          \/ entries' = {} /\ host'.shutdown
  BY DEF HandInv
<1>1. \A r \in Process : Holds(r, v)' => Holds(r, v) /\ (Starts(r)' <=> Starts(r)) /\ (Stops(r)' <=> Stops(r))
  BY DEF OnlyOf, Holds, Starts, Stops
<1>2. /\ \A r \in Process : Holds(r, v) => q = r
      /\ vol[v].target \in Target
      /\ \A e \in entries : e.id = v =>
            /\ e.state # "mounted"
            /\ e.state = "starting" => Starts(q)
            /\ e.state = "stopping" => Stops(q)
      /\ Starts(q) \/ Stops(q) =>
            \/ \E e \in entries : e.id = v /\ e.state # "failed"
            \/ entries = {} /\ host.shutdown
  BY <1>1 DEF HandInv
<1>3. \A e \in entries' : e.id = v =>
         /\ e.state # "mounted"
         /\ e.state = "starting" => Starts(q)'
         /\ e.state = "stopping" => Stops(q)'
  BY <1>1, <1>2
<1>4. Starts(q)' \/ Stops(q)' =>
         \/ \E e \in entries' : e.id = v /\ e.state # "failed"
         \/ entries' = {} /\ host'.shutdown
  BY <1>1, <1>2
<1> QED
  BY <1>1, <1>2, <1>3, <1>4

\* The same when the registry does not change.
LEMMA HandKept ==
    ASSUME TypeOK, HandInv, NEW p \in Process, OnlyOf(p), host.shutdown => host'.shutdown, UNCHANGED entries,
           \A w \in Mount : vol'[w].target = vol[w].target,
           \A w \in Mount : Holds(p, w)' =>
              /\ Holds(p, w) /\ (Starts(p)' <=> Starts(p)) /\ (Stops(p)' <=> Stops(p))
    PROVE  HandInv'
BY HandFrame

\* The same when p has nothing in hand and only failed records go.
LEMMA HandEmpty ==
    ASSUME TypeOK, HandInv, NEW p \in Process, OnlyOf(p), UNCHANGED <<host, vol>>,
           call'[p] = call[p] \/ (call'[p].id \notin Mount /\ call'[p].todo = {}),
           NEW t, \E f \in entries : f.target = t /\ f.state = "failed",
           entries' = {e \in entries : e.target # t}
    PROVE  HandInv'
<1>1. \A f \in entries : f.target = t => f.state = "failed"
  BY EntryFacts
<1>2. \A w \in Mount : Holds(p, w)' =>
         /\ Holds(p, w) /\ (Starts(p)' <=> Starts(p)) /\ (Stops(p)' <=> Stops(p))
  BY DEF Holds, Starts, Stops
<1>3. \A e \in entries : e.state # "failed" => e \in entries'
  BY <1>1
<1> QED
  BY <1>2, <1>3, HandFrame

\* A step of p that takes the handles of mounted entries, and marks them.
LEMMA HandTakes ==
    ASSUME TypeOK, HandInv, HolderInv, NEW p \in Process, OnlyOf(p), UNCHANGED <<host, vol>>,
           NEW ids \in SUBSET Mount, NEW state \in {"stopping", "failed"}, entries' = Marked(ids, state),
           \A w \in ids : \E e \in entries : e.id = w /\ e.state = "mounted",
           \A w \in Mount : Holds(p, w)' => w \in ids,
           ~Starts(p)', Stops(p)' <=> state = "stopping"
    PROVE  HandInv'
<1>1. Marks(ids, state)
  BY MarkedFacts DEF State
<1>2. \A w \in ids : /\ \A q \in Process : ~Holds(q, w)
                     /\ vol[w].target \in Target
                     /\ \A e \in entries : e.id = w => e.state = "mounted"
  BY EntryFacts DEF HandInv, HolderInv
<1>3. \A q \in Process : q # p => /\ \A w \in Mount : Holds(q, w)' <=> Holds(q, w)
                                  /\ (Starts(q)' <=> Starts(q)) /\ (Stops(q)' <=> Stops(q))
  BY DEF OnlyOf, Holds, Starts, Stops
<1> SUFFICES ASSUME NEW q \in Process, NEW v \in Mount, Holds(q, v)'
             PROVE  /\ \A r \in Process : Holds(r, v)' => q = r
                    /\ vol'[v].target \in Target
                    /\ \A e \in entries' : e.id = v =>
                          /\ e.state # "mounted"
                          /\ e.state = "starting" => Starts(q)'
                          /\ e.state = "stopping" => Stops(q)'
                    /\ Starts(q)' \/ Stops(q)' =>
                          \/ \E e \in entries' : e.id = v /\ e.state # "failed"
                          \/ entries' = {} /\ host'.shutdown
  BY DEF HandInv
<1>4. CASE q = p
  <2>1. v \in ids
    BY <1>4
  <2>2. \A r \in Process : Holds(r, v)' => q = r
    BY <1>2, <1>3, <1>4, <2>1
  <2>3. \A e \in entries' : e.id = v => e.state = state
    BY <1>1, <2>1 DEF Marks
  <2>4. \E e \in entries' : e.id = v /\ e.state = state
    BY <1>1, <2>1 DEF Marks
  <2> QED
    BY <1>2, <1>4, <2>1, <2>2, <2>3, <2>4
<1>5. CASE q # p
  <2>1. Holds(q, v) /\ v \notin ids
    BY <1>2, <1>3, <1>5
  <2>2. \A r \in Process : Holds(r, v)' => q = r
    BY <1>3, <1>5, <2>1 DEF HandInv
  <2>3. \A e \in entries' : e.id = v => \E f \in entries : f.id = v /\ f.state = e.state
    BY <1>1, <2>1 DEF Marks
  <2>4. \A f \in entries : f.id = v => \E e \in entries' : e.id = v /\ f.state = e.state
    BY <1>1, <2>1 DEF Marks
  <2>5. entries = {} => entries' = {}
    BY <1>1 DEF Marks
  <2>6. /\ vol[v].target \in Target
        /\ \A e \in entries : e.id = v =>
              /\ e.state # "mounted"
              /\ e.state = "starting" => Starts(q)
              /\ e.state = "stopping" => Stops(q)
        /\ Starts(q) \/ Stops(q) =>
              \/ \E e \in entries : e.id = v /\ e.state # "failed"
              \/ entries = {} /\ host.shutdown
    BY <2>1 DEF HandInv
  <2> QED
    BY <1>3, <1>5, <2>2, <2>3, <2>4, <2>5, <2>6
<1> QED
  BY <1>4, <1>5

LEMMA HandStep ==
    ASSUME TypeOK, ShapeInv, HostInv, HandInv, HolderInv, HeldInv, VolInv, [Next]_vars PROVE HandInv'
<1>1. ASSUME NEW p \in Process, Serve(p) PROVE HandInv'
  <2>1. /\ OnlyOf(p) /\ UNCHANGED <<host, entries>>
        /\ \A w \in Mount : vol'[w].target = vol[w].target
    BY <1>1, ServeEffect DEF Moves, OnlyVolume
  <2>2. \A w \in Mount : Holds(p, w)' =>
           /\ Holds(p, w) /\ (Starts(p)' <=> Starts(p)) /\ (Stops(p)' <=> Stops(p))
    BY <1>1, ServeEffect DEF Moves, Keeps, Holds, Starts, Stops, Unmounting
  <2> QED
    BY <2>1, <2>2, HandKept
<1>2. ASSUME NEW p \in Process, MountFails(p) PROVE HandInv'
  <2>1. /\ OnlyOf(p) /\ UNCHANGED <<host, entries>>
        /\ \A w \in Mount : vol'[w].target = vol[w].target
    BY <1>2, MountFailsEffect DEF Moves, OnlyVolume
  <2>2. \A w \in Mount : Holds(p, w)' =>
           /\ Holds(p, w) /\ (Starts(p)' <=> Starts(p)) /\ (Stops(p)' <=> Stops(p))
    BY <1>2, MountFailsEffect DEF Moves, Keeps, Holds, Starts, Stops, Unmounting
  <2> QED
    BY <2>1, <2>2, HandKept
<1>3. ASSUME NEW p \in Process, Settle(p) PROVE HandInv'
  <2>1. PICK v \in Mount :
           /\ v = call[p].id
           /\ entries' = Marked({v}, IF vol[v].engine = "on" THEN "mounted" ELSE "failed")
           /\ OnlyOf(p) /\ call'[p].todo = call[p].todo
           /\ IF vol[v].engine = "on" /\ ~\E e \in entries : e.id = v
              THEN call'[p].at = "drive" /\ call'[p].next = "prune" /\ call'[p].id = v
              ELSE call'[p].at = "prune" /\ call'[p].id = NONE
    BY <1>3, SettleEffect
  <2>2. call[p].at = "settle" /\ UNCHANGED <<host, vol>> /\ NONE \notin Mount /\ call[p].todo = {}
    BY <1>3, SettleEffect, Facts DEF ShapeInv, Shape, Unmounting
  <2>3. \E state \in {"mounted", "failed"} : Marks({v}, state)
    <3>1. \E state \in {"mounted", "failed"} : entries' = Marked({v}, state)
      BY <2>1
    <3> QED
      BY <3>1, MarkedFacts DEF State
  <2>4. Holds(p, v) /\ \A q \in Process : q # p => ~Holds(q, v) /\ ~Holds(q, v)'
    BY <2>1 DEF OnlyOf, Holds, HandInv
  <2>5. \A w \in Mount : Holds(p, w)' => w = v /\ ~\E e \in entries : e.id = v
    BY <2>1, <2>2 DEF Holds
  <2>6. \A e \in entries' : (\E q \in Process : Holds(q, e.id)') =>
           \E f \in entries : f.id = e.id /\ e.state = f.state
    <3>1. \A e \in entries' : e.id \in Mount /\ e.id = v => ~\E q \in Process : Holds(q, v)'
      BY <2>3, <2>4, <2>5 DEF Marks
    <3> QED
      BY <2>3, <3>1, EntryFacts DEF Marks
  <2>7. \A f \in entries : f.state # "failed" /\ (\E q \in Process : Holds(q, f.id)') =>
           \E e \in entries' : e.id = f.id /\ e.state # "failed"
    <3>1. \A f \in entries : f.id = v => ~\E q \in Process : Holds(q, v)'
      BY <2>4, <2>5
    <3> QED
      BY <2>3, <3>1 DEF Marks
  <2>8. entries = {} => entries' = {}
    BY <2>3 DEF Marks
  <2> SUFFICES ASSUME NEW q \in Process, NEW w \in Mount, Holds(q, w)'
               PROVE  /\ \A r \in Process : Holds(r, w)' => q = r
                      /\ vol'[w].target \in Target
                      /\ \A e \in entries' : e.id = w =>
                            /\ e.state # "mounted"
                            /\ e.state = "starting" => Starts(q)'
                            /\ e.state = "stopping" => Stops(q)'
                      /\ Starts(q)' \/ Stops(q)' =>
                            \/ \E e \in entries' : e.id = w /\ e.state # "failed"
                            \/ entries' = {} /\ host'.shutdown
    BY DEF HandInv
  <2>9. CASE q = p
    <3>1. Holds(p, w)'
      BY <2>9
    <3>2. w = v /\ ~\E e \in entries : e.id = v
      BY <2>5, <3>1
    <3>3. call'[p].at = "drive" /\ call'[p].next = "prune"
      BY <2>1, <2>2, <3>1 DEF Holds
    <3>4. ~\E e \in entries' : e.id = v
      BY <2>3, <3>2 DEF Marks
    <3>5. ~Starts(p)' /\ ~Stops(p)'
      BY <3>3 DEF Starts, Stops
    <3>6. vol[v].target \in Target
      BY <2>4 DEF HandInv
    <3> QED
      BY <2>2, <2>4, <2>9, <3>2, <3>4, <3>5, <3>6
  <2>10. CASE q # p
    <3>1. Holds(q, w) /\ w # v /\ (Starts(q)' <=> Starts(q)) /\ (Stops(q)' <=> Stops(q))
      BY <2>1, <2>4, <2>10 DEF OnlyOf, Holds, Starts, Stops
    <3>2. \A r \in Process : Holds(r, w)' => Holds(r, w)
      BY <2>1, <2>5, <3>1 DEF OnlyOf, Holds
    <3>3. /\ \A r \in Process : Holds(r, w) => q = r
          /\ vol[w].target \in Target
          /\ \A e \in entries : e.id = w =>
                /\ e.state # "mounted"
                /\ e.state = "starting" => Starts(q)
                /\ e.state = "stopping" => Stops(q)
          /\ Starts(q) \/ Stops(q) =>
                \/ \E e \in entries : e.id = w /\ e.state # "failed"
                \/ entries = {} /\ host.shutdown
      BY <3>1 DEF HandInv
    <3> QED
      BY <2>2, <2>6, <2>7, <2>8, <3>1, <3>2, <3>3
  <2> QED
    BY <2>9, <2>10
<1>4. ASSUME NEW p \in Process, PruneFailed(p) PROVE HandInv'
  <2>1. /\ UNCHANGED <<host, vol>> /\ OnlyOf(p) /\ (\A w \in Mount : ~Holds(p, w)')
        /\ entries' \subseteq entries /\ \A e \in entries : e.state # "failed" => e \in entries'
    BY <1>4, PruneEffect DEF Moves, Keeps, ShapeInv, Shape, Hands, Unmounting, Holds
  <2> QED
    BY <2>1, HandFrame
<1>5. ASSUME NEW p \in Process, DriveGone(p) PROVE HandInv'
  <2>1. /\ OnlyOf(p) /\ UNCHANGED <<host, entries>>
        /\ \A w \in Mount : vol'[w].target = vol[w].target
    BY <1>5, DriveGoneEffect DEF Moves, OnlyVolume
  <2>2. \A w \in Mount : Holds(p, w)' =>
           /\ Holds(p, w) /\ (Starts(p)' <=> Starts(p)) /\ (Stops(p)' <=> Stops(p))
    BY <1>5, DriveGoneEffect DEF Moves, Keeps, Holds, Starts, Stops, Unmounting
  <2> QED
    BY <2>1, <2>2, HandKept
<1>6. ASSUME NEW p \in Process, Drain(p) PROVE HandInv'
  <2>1. /\ OnlyOf(p) /\ UNCHANGED <<host, entries>>
        /\ \A w \in Mount : vol'[w].target = vol[w].target
    BY <1>6, DrainEffect DEF Moves, OnlyVolume
  <2>2. \A w \in Mount : Holds(p, w)' =>
           /\ Holds(p, w) /\ (Starts(p)' <=> Starts(p)) /\ (Stops(p)' <=> Stops(p))
    BY <1>6, DrainEffect DEF Moves, Keeps, Holds, Starts, Stops, Unmounting
  <2> QED
    BY <2>1, <2>2, HandKept
<1>7. ASSUME NEW p \in Process, Save(p) PROVE HandInv'
  <2>1. /\ OnlyOf(p) /\ UNCHANGED <<host, entries>>
        /\ \A w \in Mount : vol'[w].target = vol[w].target
    BY <1>7, SaveEffect DEF Moves, OnlyVolume
  <2>2. \A w \in Mount : Holds(p, w)' =>
           /\ Holds(p, w) /\ (Starts(p)' <=> Starts(p)) /\ (Stops(p)' <=> Stops(p))
    BY <1>7, SaveEffect DEF Moves, Keeps, Holds, Starts, Stops, Unmounting
  <2> QED
    BY <2>1, <2>2, HandKept
<1>8. ASSUME NEW p \in Process, Free(p) PROVE HandInv'
  <2>1. PICK v \in Mount :
           /\ v = call[p].id /\ OnlyVolume(v)
           /\ OnlyOf(p) /\ call'[p].todo = call[p].todo
           /\ call'[p].at = call[p].next /\ call'[p].next = call[p].next
           /\ call'[p].id = IF call[p].next = "retain" THEN v ELSE NONE
    BY <1>8, FreeEffect
  <2>2. call[p].at = "free" /\ UNCHANGED <<host, entries>> /\ NONE \notin Mount
        /\ call[p].next \in {"idle", "retain", "lost", "prune"}
    BY <1>8, FreeEffect, Facts, FieldFacts
  <2>3. \A w \in Mount : vol'[w].target = vol[w].target
    BY <2>1 DEF OnlyVolume
  <2>4. \A w \in Mount : Holds(p, w)' =>
           /\ Holds(p, w) /\ (Starts(p)' <=> Starts(p)) /\ (Stops(p)' <=> Stops(p))
    BY <2>1, <2>2 DEF Holds, Starts, Stops, Unmounting
  <2> QED
    BY <2>1, <2>2, <2>3, <2>4, HandKept
<1>9. ASSUME NEW p \in Process, Retain(p) PROVE HandInv'
  <2>1. PICK v \in Mount : v = call[p].id /\ entries' = {e \in entries : e.target # vol[v].target}
    BY <1>9, RetainEffect
  <2>2. /\ call[p].at = "retain" /\ UNCHANGED <<host, vol>> /\ OnlyOf(p) /\ call'[p].id = NONE
        /\ call'[p].todo = {} /\ NONE \notin Mount /\ call[p].next = "retain"
    BY <1>9, RetainEffect, Facts DEF Turns, ShapeInv, Shape, Unmounting
  <2>3. Holds(p, v) /\ Stops(p)
    BY <2>1, <2>2 DEF Holds, Stops
  <2>4. (\E e \in entries : e.id = v /\ e.state # "failed") \/ entries = {}
    BY <2>3 DEF HandInv
  <2>5. \A f \in entries : f.target = vol[v].target => f.id = v
    BY <2>4, EntryFacts DEF HolderInv
  <2>6. \A w \in Mount : ~Holds(p, w)'
    BY <2>2 DEF Holds
  <2>7. \A q \in Process : ~Holds(q, v)'
    BY <2>2, <2>3, <2>6 DEF HandInv, OnlyOf, Holds
  <2>8. \A f \in entries : (\E q \in Process : Holds(q, f.id)') => f \in entries'
    BY <2>1, <2>5, <2>7
  <2> QED
    BY <2>1, <2>2, <2>6, <2>8, HandFrame
<1>10. ASSUME NEW p \in Process, NextLost(p) PROVE HandInv'
  <2>1. UNCHANGED <<host, entries, vol>> /\ call[p].at = "lost" /\ NONE \notin Mount
    BY <1>10, NextLostEffect, Facts
  <2>2. CASE \E v \in call[p].todo : Turns(p, "drive", v, call[p].todo \ {v}, call[p].stops) /\ call'[p].next = "lost"
    <3>1. \A w \in Mount : Holds(p, w)' => Holds(p, w)
      BY <2>2 DEF Turns, Holds
    <3>2. OnlyOf(p) /\ ~Starts(p) /\ ~Stops(p) /\ ~Starts(p)' /\ ~Stops(p)'
      BY <2>1, <2>2 DEF Turns, Starts, Stops, Unmounting
    <3> QED
      BY <2>1, <3>1, <3>2, HandKept
  <2>3. CASE call[p].todo = {} /\ Moves(p, IF entries = {} THEN call[p].then ELSE "list")
    <3>1. OnlyOf(p) /\ \A w \in Mount : ~Holds(p, w)'
      BY <2>1, <2>3 DEF Moves, Keeps, ShapeInv, Shape, Hands, Unmounting, Holds
    <3> QED
      BY <2>1, <3>1, HandKept
  <2> QED
    BY <1>10, <2>2, <2>3, NextLostEffect
<1>11. ASSUME NEW p \in Process, ListMounts(p) PROVE HandInv'
  <2>1. UNCHANGED <<host, entries, vol>> /\ OnlyOf(p) /\ \A w \in Mount : ~Holds(p, w)'
    BY <1>11, ListEffect DEF Moves, Keeps, ShapeInv, Shape, Hands, Unmounting, Holds
  <2> QED
    BY <2>1, HandKept
<1>12. ASSUME NEW p \in Process, WriteJournal(p) \/ WriteFails(p) PROVE HandInv'
  <2>1. UNCHANGED <<host, entries, vol>> /\ OnlyOf(p) /\ \A w \in Mount : ~Holds(p, w)'
    BY <1>12, WriteEffect DEF Moves, Keeps, ShapeInv, Shape, Hands, Unmounting, Holds
  <2> QED
    BY <2>1, HandKept
<1>13. ASSUME NEW p \in Thread, NEW v \in case.mounts, NEW t \in case.targets, MountBegin(p, v, t) PROVE HandInv'
  <2>1. /\ p \in Process /\ v \in Mount /\ t \in Target /\ vol[v].target = NONE /\ OnlyOf(p) /\ ~host.shutdown
        /\ call'[p].at = "build" /\ call'[p].id = v /\ call'[p].todo = {} /\ vol'[v].target = t
        /\ \A w \in Mount : w # v => vol'[w] = vol[w]
    BY <1>13, MountBeginEffect DEF Turns, Fresh
  <2>2. /\ \A e \in entries : e.target = t => e.state = "failed"
        /\ \A e \in entries' : e \in entries \/ (e.id = v /\ e.state = "starting")
        /\ \A e \in entries : e.target # t => e \in entries'
        /\ \E e \in entries' : e.id = v /\ e.state = "starting"
    BY <1>13, MountBeginEffect
  <2>3. (\A q \in Process : ~Holds(q, v)) /\ \A e \in entries : e.id # v
    BY <2>1, Facts, EntryFacts DEF HandInv, HolderInv
  <2> SUFFICES ASSUME NEW q \in Process, NEW w \in Mount, Holds(q, w)'
               PROVE  /\ \A r \in Process : Holds(r, w)' => q = r
                      /\ vol'[w].target \in Target
                      /\ \A e \in entries' : e.id = w =>
                            /\ e.state # "mounted"
                            /\ e.state = "starting" => Starts(q)'
                            /\ e.state = "stopping" => Stops(q)'
                      /\ Starts(q)' \/ Stops(q)' =>
                            \/ \E e \in entries' : e.id = w /\ e.state # "failed"
                            \/ entries' = {} /\ host'.shutdown
    BY DEF HandInv
  <2>4. CASE q = p
    <3>1. w = v /\ Starts(p)'
      BY <2>1, <2>4 DEF Holds, Starts
    <3>2. \A r \in Process : Holds(r, w)' => q = r
      BY <2>1, <2>3, <2>4, <3>1 DEF OnlyOf, Holds
    <3> QED
      BY <2>1, <2>2, <2>3, <2>4, <3>1, <3>2
  <2>5. CASE q # p
    <3>1. Holds(q, w) /\ w # v /\ (Starts(q)' <=> Starts(q)) /\ (Stops(q)' <=> Stops(q))
      BY <2>1, <2>3, <2>5 DEF OnlyOf, Holds, Starts, Stops
    <3>2. \A r \in Process : Holds(r, w)' => Holds(r, w)
      BY <2>1, <3>1 DEF OnlyOf, Holds
    <3>3. /\ \A r \in Process : Holds(r, w) => q = r
          /\ vol[w].target \in Target
          /\ \A e \in entries : e.id = w =>
                /\ e.state # "mounted"
                /\ e.state = "starting" => Starts(q)
                /\ e.state = "stopping" => Stops(q)
          /\ Starts(q) \/ Stops(q) =>
                \/ \E e \in entries : e.id = w /\ e.state # "failed"
                \/ entries = {} /\ host.shutdown
      BY <3>1 DEF HandInv
    <3> QED
      BY <2>1, <2>2, <3>1, <3>2, <3>3
  <2> QED
    BY <2>4, <2>5
<1>14. ASSUME NEW p \in Thread, NEW t \in case.targets, NEW force \in BOOLEAN, UnmountBegin(p, t, force) PROVE HandInv'
  <2>1. p \in Process /\ OnlyOf(p) /\ UNCHANGED <<host, vol>> /\ call'[p].todo = {} /\ NONE \notin Mount
    BY <1>14, UnmountEffect, Facts
  <2>2. \/ /\ \E e \in entries : e.target = t /\ e.state = "failed"
           /\ entries' = {e \in entries : e.target # t}
           /\ call'[p].id = NONE
        \/ \E e \in entries :
              /\ e.target = t /\ e.state = "mounted"
              /\ entries' = Marked({e.id}, "stopping")
              /\ call'[p].at = "drive" /\ call'[p].id = e.id /\ call'[p].next = "retain"
    BY ONLY TypeOK, <1>14, UnmountEffect
  <2>3. CASE /\ \E e \in entries : e.target = t /\ e.state = "failed"
             /\ entries' = {e \in entries : e.target # t}
             /\ call'[p].id = NONE
    BY <2>1, <2>3, HandEmpty
  <2>4. ASSUME NEW e \in entries, e.state = "mounted", entries' = Marked({e.id}, "stopping"),
               call'[p].at = "drive", call'[p].id = e.id, call'[p].next = "retain"
        PROVE  HandInv'
    <3>1. {e.id} \in SUBSET Mount /\ (\A w \in Mount : Holds(p, w)' => w \in {e.id}) /\ ~Starts(p)' /\ Stops(p)'
      BY <2>1, <2>4, EntryFacts DEF Holds, Starts, Stops, Unmounting
    <3> QED
      BY <2>1, <2>4, <3>1, HandTakes
  <2> QED
    BY <2>2, <2>3, <2>4
<1>15. ASSUME NEW p \in Thread, NEW t \in case.targets, Dismiss(p, t) PROVE HandInv'
  <2>1. p \in Process /\ UNCHANGED <<host, vol, call>> /\ OnlyOf(p)
    BY <1>15, DismissEffect, Facts DEF OnlyOf, TypeOK
  <2>2. (\E e \in entries : e.target = t /\ e.state = "failed") /\ entries' = {e \in entries : e.target # t}
    BY <1>15, DismissEffect
  <2> QED
    BY <2>1, <2>2, HandEmpty
<1>16. ASSUME NEW p \in Process, (p \in Thread /\ List(p)) \/ (p = Monitor /\ Tick) PROVE HandInv'
  <2>1. /\ OnlyOf(p) /\ UNCHANGED <<host, vol>> /\ call'[p].at = "lost" /\ call'[p].todo = Lost /\ call'[p].id = NONE
        /\ Lost \in SUBSET Mount /\ entries' = Marked(Lost, "failed") /\ NONE \notin Mount
        /\ \A v \in Lost : \E e \in entries : e.id = v /\ e.state = "mounted"
    BY <1>16, CheckEffect, Facts DEF Turns
  <2>2. (\A w \in Mount : Holds(p, w)' => w \in Lost) /\ ~Starts(p)' /\ ~Stops(p)'
    BY <2>1 DEF Holds, Starts, Stops, Unmounting
  <2> HIDE DEF Lost
  <2> QED
    BY <2>1, <2>2, HandTakes
<1>17. ASSUME NEW p \in Thread, Shutdown(p) PROVE HandInv'
  <2>1. UNCHANGED <<entries, vol, call>> /\ host'.shutdown
    BY <1>17, ShutdownEffect
  <2> QED
    BY <2>1 DEF HandInv, Holds, Starts, Stops
<1>18. CASE Decide
  <2>1. /\ Monitor \in Process /\ OnlyOf(Monitor) /\ UNCHANGED <<entries, vol>> /\ (host.shutdown => host'.shutdown)
        /\ \A w \in Mount : ~Holds(Monitor, w)'
    BY <1>18, DecideEffect, Facts DEF Moves, Keeps, Turns, ShapeInv, Shape, Hands, Unmounting, Holds
  <2> QED
    BY <2>1, HandKept
<1>19. CASE RequestShutdown
  <2>1. /\ Monitor \in Process /\ OnlyOf(Monitor) /\ UNCHANGED <<entries, vol>> /\ (host.shutdown => host'.shutdown)
        /\ \A w \in Mount : ~Holds(Monitor, w)'
    BY <1>19, RequestShutdownEffect, Facts DEF Moves, Keeps, Turns, ShapeInv, Shape, Hands, Unmounting, Holds
  <2> QED
    BY <2>1, HandKept
<1>20. CASE StopAll
  <2>1. /\ Monitor \in Process /\ OnlyOf(Monitor) /\ UNCHANGED <<entries, vol>> /\ (host.shutdown => host'.shutdown)
        /\ \A w \in Mount : ~Holds(Monitor, w)'
    BY <1>20, StopAllEffect, Facts DEF Moves, Keeps, Turns, ShapeInv, Shape, Hands, Unmounting, Holds
  <2> QED
    BY <2>1, HandKept
<1>21. CASE StopNext
  <2>1. /\ Monitor \in Process /\ call[Monitor].at = "next" /\ call[Monitor].todo = {} /\ call[Monitor].id \notin Mount
        /\ OnlyOf(Monitor) /\ UNCHANGED <<host, vol>> /\ call'[Monitor].todo = {}
    BY <1>21, StopNextEffect, Facts DEF ShapeInv, Shape, Hands, Unmounting
  <2>2. PICK v \in call[Monitor].stops :
           LET t == vol[v].target IN
           \/ /\ \E e \in entries : e.target = t /\ e.state = "failed"
              /\ entries' = {e \in entries : e.target # t}
              /\ call'[Monitor].id = call[Monitor].id
           \/ \E e \in entries :
                 /\ e.state = "mounted"
                 /\ entries' = Marked({e.id}, "stopping")
                 /\ call'[Monitor].at = "drive" /\ call'[Monitor].id = e.id
                 /\ call'[Monitor].next = "retain"
           \/ UNCHANGED entries /\ call'[Monitor].id = call[Monitor].id
    BY ONLY TypeOK, <1>21, StopNextEffect
  <2>3. CASE /\ \E e \in entries : e.target = vol[v].target /\ e.state = "failed"
             /\ entries' = {e \in entries : e.target # vol[v].target}
             /\ call'[Monitor].id = call[Monitor].id
    BY <2>1, <2>3, HandEmpty
  <2>4. ASSUME NEW e \in entries, e.state = "mounted", entries' = Marked({e.id}, "stopping"),
               call'[Monitor].at = "drive", call'[Monitor].id = e.id, call'[Monitor].next = "retain"
        PROVE  HandInv'
    <3>1. /\ {e.id} \in SUBSET Mount /\ ~Starts(Monitor)' /\ Stops(Monitor)'
          /\ \A w \in Mount : Holds(Monitor, w)' => w \in {e.id}
      BY <2>1, <2>4, EntryFacts DEF Holds, Starts, Stops, Unmounting
    <3> QED
      BY <2>1, <2>4, <3>1, HandTakes
  <2>5. CASE UNCHANGED entries /\ call'[Monitor].id = call[Monitor].id
    <3>1. \A w \in Mount : ~Holds(Monitor, w)'
      BY <2>1, <2>5 DEF Holds
    <3> QED
      BY <2>1, <2>5, <3>1, HandKept
  <2> QED
    BY <2>2, <2>3, <2>4, <2>5
<1>22. CASE Clear
  <2>1. /\ Monitor \in Process /\ call[Monitor].at = "next" /\ call[Monitor].then = "next"
        /\ OnlyOf(Monitor) /\ UNCHANGED host /\ entries' = {}
        /\ \A w \in Mount : ~Holds(Monitor, w)'
    BY <1>22, ClearEffect, Facts DEF Turns, ShapeInv, Shape, Hands, Unmounting, Holds
  <2>2. host.shutdown
    BY <2>1 DEF HostInv, TearingDown
  <2>3. \A w \in Mount : vol'[w].target = vol[w].target
    BY <1>22, ClearEffect
  <2> QED
    BY <2>1, <2>2, <2>3, HandFrame
<1>23. CASE EraseJournal
  <2>1. /\ Monitor \in Process /\ OnlyOf(Monitor) /\ UNCHANGED <<entries, vol>> /\ (host.shutdown => host'.shutdown)
        /\ \A w \in Mount : ~Holds(Monitor, w)'
    BY <1>23, EraseEffect, Facts DEF Moves, Keeps, Turns, ShapeInv, Shape, Hands, Unmounting, Holds
  <2> QED
    BY <2>1, HandKept
<1>24. CASE Exit
  <2>1. \A p \in Process : call'[p] = Idle
    BY <1>24, DiesEffect DEF Exit
  <2> QED
    BY <2>1, IdleFacts, Facts DEF HandInv, Holds
<1>25. CASE Start
  <2>1. host.at = "off" /\ OnlyOf(Monitor) /\ call'[Monitor].id = NONE /\ call'[Monitor].todo = {}
    BY <1>25, StartEffect DEF Turns
  <2>2. \A q \in Process, w \in Mount : ~Holds(q, w)'
    BY <2>1, IdleFacts, Facts DEF HostInv, OnlyOf, Holds
  <2> QED
    BY <2>2 DEF HandInv
<1>26. CASE Crash
  <2>1. \A p \in Process : call'[p] = Idle
    BY <1>26, CrashEffect, DiesEffect
  <2> QED
    BY <2>1, IdleFacts, Facts DEF HandInv, Holds
<1>27. ASSUME NEW k \in Client, ReadJournal(k) PROVE HandInv'
  BY <1>27, ReadEffect DEF HandInv, Holds, Starts, Stops
<1>28. ASSUME NEW k \in Client, TakeJournal(k) PROVE HandInv'
  BY <1>28, TakeEffect DEF HandInv, Holds, Starts, Stops
<1>29. ASSUME NEW v \in Mount, Program(v) PROVE HandInv'
  <2>1. UNCHANGED <<host, entries, call>> /\ OnlyVolume(v)
    BY <1>29, ProgramEffect
  <2>2. \A w \in Mount : vol'[w].target = vol[w].target
    BY <2>1 DEF OnlyVolume
  <2> QED
    BY <2>1, <2>2 DEF HandInv, Holds, Starts, Stops
<1>30. CASE UNCHANGED vars
  BY <1>30 DEF vars, HandInv, Holds, Starts, Stops
<1> QED
  BY <1>1, <1>2, <1>3, <1>4, <1>5, <1>6, <1>7, <1>8, <1>9, <1>10, <1>11, <1>12, <1>13, <1>14, <1>15,
     <1>16, <1>17, <1>18, <1>19, <1>20, <1>21, <1>22, <1>23, <1>24, <1>25, <1>26, <1>27, <1>28,
     <1>29, <1>30, Facts
  DEF Next, ProcessStep, MonitorStep, Request

\* A step of p at the volume it has in hand.
LEMMA HolderVolume ==
    ASSUME TypeOK, HandInv, HolderInv, NEW p \in Process, NEW v \in Mount, Holds(p, v), OnlyOf(p), OnlyVolume(v),
           UNCHANGED entries, \A w \in Mount : Holds(p, w) => Holds(p, w)'
    PROVE  HolderInv'
<1>1. \A e \in entries : e.id = v => e.state # "mounted"
  BY DEF HandInv
<1>2. \A q \in Process, w \in Mount : Holds(q, w) => Holds(q, w)'
  BY DEF OnlyOf, Holds
<1>3. \A w \in Mount : vol'[w].target = vol[w].target /\ (w # v => vol'[w] = vol[w])
  BY DEF OnlyVolume
<1>4. ASSUME NEW w \in Mount, vol'[w].engine = "on"
      PROVE  (\E q \in Process : Holds(q, w)') \/ \E e \in entries' : e.id = w /\ e.state = "mounted"
  BY <1>2, <1>3, <1>4 DEF HolderInv
<1>5. ASSUME NEW e \in entries'
      PROVE  /\ vol'[e.id].target = e.target
             /\ e.state \in {"starting", "stopping"} => \E q \in Process : Holds(q, e.id)'
             /\ e.state = "mounted" => Serving(e.id)'
  BY <1>1, <1>2, <1>3, EntryFacts DEF HolderInv, Serving
<1> QED
  BY <1>4, <1>5 DEF HolderInv

\* A step that takes no mounted entry away and lets go of no running volume.
LEMMA HolderKept ==
    ASSUME TypeOK, HolderInv, NEW p \in Process, OnlyOf(p), UNCHANGED vol,
           entries' \subseteq entries,
           \A e \in entries : e.state = "mounted" => e \in entries',
           \A w \in Mount : Holds(p, w) =>
              Holds(p, w)' \/ (vol[w].engine # "on" /\ \A e \in entries' : e.id # w)
    PROVE  HolderInv'
<1>1. \A q \in Process, w \in Mount : Holds(q, w) =>
         Holds(q, w)' \/ (vol[w].engine # "on" /\ \A e \in entries' : e.id # w)
  BY DEF OnlyOf, Holds
<1>2. ASSUME NEW w \in Mount, vol'[w].engine = "on"
      PROVE  (\E q \in Process : Holds(q, w)') \/ \E e \in entries' : e.id = w /\ e.state = "mounted"
  BY <1>1, <1>2 DEF HolderInv
<1>3. ASSUME NEW e \in entries'
      PROVE  /\ vol'[e.id].target = e.target
             /\ e.state \in {"starting", "stopping"} => \E q \in Process : Holds(q, e.id)'
             /\ e.state = "mounted" => Serving(e.id)'
  BY <1>1, <1>3, EntryFacts DEF HolderInv, Serving
<1> QED
  BY <1>2, <1>3 DEF HolderInv

\* The same when the registry does not change, and when only failed records go.
LEMMA HolderSame ==
    ASSUME TypeOK, HolderInv, NEW p \in Process, OnlyOf(p), UNCHANGED <<entries, vol>>,
           \A w \in Mount : Holds(p, w) => Holds(p, w)'
    PROVE  HolderInv'
BY HolderKept
LEMMA HolderEmpty ==
    ASSUME TypeOK, HolderInv, NEW p \in Process, OnlyOf(p), UNCHANGED vol,
           \A w \in Mount : Holds(p, w) => Holds(p, w)',
           NEW t, \E f \in entries : f.target = t /\ f.state = "failed",
           entries' = {e \in entries : e.target # t}
    PROVE  HolderInv'
<1>1. \A f \in entries : f.target = t => f.state = "failed"
  BY EntryFacts
<1> QED
  BY <1>1, HolderKept

\* A step of p that takes the handles of entries and marks them.
LEMMA HolderTakes ==
    ASSUME TypeOK, HolderInv, NEW p \in Process, OnlyOf(p), UNCHANGED vol,
           NEW ids \in SUBSET Mount, NEW state \in {"stopping", "failed"}, entries' = Marked(ids, state),
           \A w \in Mount : Holds(p, w) => Holds(p, w)',
           \A w \in ids : Holds(p, w)'
    PROVE  HolderInv'
<1>1. Marks(ids, state)
  BY MarkedFacts DEF State
<1>2. \A q \in Process, w \in Mount : Holds(q, w) => Holds(q, w)'
  BY DEF OnlyOf, Holds
<1>3. ASSUME NEW w \in Mount, vol'[w].engine = "on"
      PROVE  (\E q \in Process : Holds(q, w)') \/ \E e \in entries' : e.id = w /\ e.state = "mounted"
  BY <1>1, <1>2, <1>3 DEF HolderInv, Marks
<1>4. ASSUME NEW e \in entries'
      PROVE  /\ vol'[e.id].target = e.target
             /\ e.state \in {"starting", "stopping"} => \E q \in Process : Holds(q, e.id)'
             /\ e.state = "mounted" => Serving(e.id)'
  <2>1. PICK f \in entries : e.id = f.id /\ e.target = f.target /\ e.state = IF f.id \in ids THEN state ELSE f.state
    BY <1>1 DEF Marks
  <2>2. /\ vol[f.id].target = f.target
        /\ f.state \in {"starting", "stopping"} => \E q \in Process : Holds(q, f.id)
        /\ f.state = "mounted" => Serving(f.id)
    BY DEF HolderInv
  <2> QED
    BY <1>2, <2>1, <2>2, EntryFacts DEF Serving
<1> QED
  BY <1>3, <1>4 DEF HolderInv

LEMMA HolderStep ==
    ASSUME TypeOK, ShapeInv, HostInv, HandInv, HolderInv, HeldInv, VolInv, [Next]_vars PROVE HolderInv'
<1>1. ASSUME NEW p \in Process, Serve(p) PROVE HolderInv'
  <2>1. PICK v \in Mount : v = call[p].id /\ OnlyVolume(v)
    BY <1>1, ServeEffect
  <2>2. /\ Holds(p, v) /\ OnlyOf(p) /\ UNCHANGED entries
        /\ \A w \in Mount : Holds(p, w) => Holds(p, w)'
    BY <1>1, <2>1, ServeEffect DEF Moves, Keeps, Holds
  <2> QED
    BY <2>1, <2>2, HolderVolume
<1>2. ASSUME NEW p \in Process, MountFails(p) PROVE HolderInv'
  <2>1. PICK v \in Mount : v = call[p].id /\ OnlyVolume(v)
    BY <1>2, MountFailsEffect
  <2>2. /\ Holds(p, v) /\ OnlyOf(p) /\ UNCHANGED entries
        /\ \A w \in Mount : Holds(p, w) => Holds(p, w)'
    BY <1>2, <2>1, MountFailsEffect DEF Moves, Keeps, Holds
  <2> QED
    BY <2>1, <2>2, HolderVolume
<1>3. ASSUME NEW p \in Process, Settle(p) PROVE HolderInv'
  <2>1. PICK v \in Mount :
           /\ v = call[p].id
           /\ entries' = Marked({v}, IF vol[v].engine = "on" THEN "mounted" ELSE "failed")
           /\ OnlyOf(p) /\ call'[p].todo = call[p].todo
           /\ IF vol[v].engine = "on" /\ ~\E e \in entries : e.id = v
              THEN call'[p].at = "drive" /\ call'[p].next = "prune" /\ call'[p].id = v
              ELSE call'[p].at = "prune" /\ call'[p].id = NONE
    BY <1>3, SettleEffect
  <2>2. /\ call[p].at = "settle" /\ UNCHANGED vol
        /\ vol[v].engine = "on" => Serving(v)
    BY <1>3, <2>1, SettleEffect DEF HeldInv, Held
  <2>3. \E state \in {"mounted", "failed"} : Marks({v}, state) /\ (state = "mounted" <=> vol[v].engine = "on")
    <3>1. \E state \in {"mounted", "failed"} :
             entries' = Marked({v}, state) /\ (state = "mounted" <=> vol[v].engine = "on")
      BY <2>1
    <3> QED
      BY <3>1, MarkedFacts DEF State
  <2>4. PICK state \in {"mounted", "failed"} : Marks({v}, state) /\ (state = "mounted" <=> vol[v].engine = "on")
    BY <2>3
  <2>5. \A q \in Process, w \in Mount : w # v /\ Holds(q, w) => Holds(q, w)'
    BY <2>1 DEF OnlyOf, Holds
  <2>6. ASSUME NEW w \in Mount, vol'[w].engine = "on"
        PROVE  (\E q \in Process : Holds(q, w)') \/ \E e \in entries' : e.id = w /\ e.state = "mounted"
    <3>1. CASE w # v
      <4>1. (\E q \in Process : Holds(q, w)) \/ \E e \in entries : e.id = w /\ e.state = "mounted"
        BY <2>2, <2>6 DEF HolderInv
      <4> QED
        BY <2>4, <2>5, <3>1, <4>1 DEF Marks
    <3>2. CASE w = v /\ \E e \in entries : e.id = v
      BY <2>2, <2>4, <2>6, <3>2 DEF Marks
    <3>3. CASE w = v /\ ~\E e \in entries : e.id = v
      BY <2>1, <2>2, <2>6, <3>3 DEF Holds
    <3> QED
      BY <3>1, <3>2, <3>3
  <2>7. ASSUME NEW e \in entries'
        PROVE  /\ vol'[e.id].target = e.target
               /\ e.state \in {"starting", "stopping"} => \E q \in Process : Holds(q, e.id)'
               /\ e.state = "mounted" => Serving(e.id)'
    <3>1. PICK f \in entries : e.id = f.id /\ e.target = f.target /\ e.state = IF f.id \in {v} THEN state ELSE f.state
      BY <2>4 DEF Marks
    <3>2. /\ vol[f.id].target = f.target
          /\ f.state \in {"starting", "stopping"} => \E q \in Process : Holds(q, f.id)
          /\ f.state = "mounted" => Serving(f.id)
      BY DEF HolderInv
    <3> QED
      BY <2>2, <2>4, <2>5, <3>1, <3>2, EntryFacts DEF Serving
  <2> QED
    BY <2>6, <2>7 DEF HolderInv
<1>4. ASSUME NEW p \in Process, PruneFailed(p) PROVE HolderInv'
  <2>1. /\ UNCHANGED vol /\ OnlyOf(p) /\ (\A w \in Mount : Holds(p, w) => Holds(p, w)')
        /\ entries' \subseteq entries /\ \A e \in entries : e.state # "failed" => e \in entries'
    BY <1>4, PruneEffect DEF Moves, Keeps, Holds
  <2> QED
    BY <2>1, HolderKept
<1>5. ASSUME NEW p \in Process, DriveGone(p) PROVE HolderInv'
  <2>1. PICK v \in Mount : v = call[p].id /\ OnlyVolume(v)
    BY <1>5, DriveGoneEffect
  <2>2. /\ Holds(p, v) /\ OnlyOf(p) /\ UNCHANGED entries
        /\ \A w \in Mount : Holds(p, w) => Holds(p, w)'
    BY <1>5, <2>1, DriveGoneEffect DEF Moves, Keeps, Holds
  <2> QED
    BY <2>1, <2>2, HolderVolume
<1>6. ASSUME NEW p \in Process, Drain(p) PROVE HolderInv'
  <2>1. PICK v \in Mount : v = call[p].id /\ OnlyVolume(v)
    BY <1>6, DrainEffect
  <2>2. /\ Holds(p, v) /\ OnlyOf(p) /\ UNCHANGED entries
        /\ \A w \in Mount : Holds(p, w) => Holds(p, w)'
    BY <1>6, <2>1, DrainEffect DEF Moves, Keeps, Holds
  <2> QED
    BY <2>1, <2>2, HolderVolume
<1>7. ASSUME NEW p \in Process, Save(p) PROVE HolderInv'
  <2>1. PICK v \in Mount : v = call[p].id /\ OnlyVolume(v)
    BY <1>7, SaveEffect
  <2>2. /\ Holds(p, v) /\ OnlyOf(p) /\ UNCHANGED entries
        /\ \A w \in Mount : Holds(p, w) => Holds(p, w)'
    BY <1>7, <2>1, SaveEffect DEF Moves, Keeps, Holds
  <2> QED
    BY <2>1, <2>2, HolderVolume
<1>8. ASSUME NEW p \in Process, Free(p) PROVE HolderInv'
  <2>1. PICK v \in Mount :
           /\ v = call[p].id /\ OnlyVolume(v) /\ vol'[v].engine = "off"
           /\ OnlyOf(p) /\ call'[p].todo = call[p].todo
           /\ call'[p].id = IF call[p].next = "retain" THEN v ELSE NONE
    BY <1>8, FreeEffect
  <2>2. call[p].at = "free" /\ UNCHANGED entries /\ Holds(p, v)
    BY <1>8, <2>1, FreeEffect DEF Holds
  <2>3. /\ \A e \in entries : e.id = v => e.state # "mounted"
        /\ \A e \in entries : e.id = v /\ e.state \in {"starting", "stopping"} => call[p].next = "retain"
    BY <2>2 DEF HandInv, Starts, Stops
  <2>4. \A q \in Process, w \in Mount : Holds(q, w) => Holds(q, w)' \/ (w = v /\ call[p].next # "retain")
    BY <2>1, <2>2 DEF OnlyOf, Holds, HandInv
  <2>5. \A w \in Mount : vol'[w].target = vol[w].target /\ (w # v => vol'[w] = vol[w])
    BY <2>1 DEF OnlyVolume
  <2>6. ASSUME NEW w \in Mount, vol'[w].engine = "on"
        PROVE  (\E q \in Process : Holds(q, w)') \/ \E e \in entries' : e.id = w /\ e.state = "mounted"
    BY <2>1, <2>2, <2>4, <2>5, <2>6 DEF HolderInv
  <2>7. ASSUME NEW e \in entries'
        PROVE  /\ vol'[e.id].target = e.target
               /\ e.state \in {"starting", "stopping"} => \E q \in Process : Holds(q, e.id)'
               /\ e.state = "mounted" => Serving(e.id)'
    BY <2>2, <2>3, <2>4, <2>5, EntryFacts DEF HolderInv, Serving
  <2> QED
    BY <2>6, <2>7 DEF HolderInv
<1>9. ASSUME NEW p \in Process, Retain(p) PROVE HolderInv'
  <2>1. PICK v \in Mount : v = call[p].id /\ entries' = {e \in entries : e.target # vol[v].target}
    BY <1>9, RetainEffect
  <2>2. /\ call[p].at = "retain" /\ UNCHANGED vol /\ OnlyOf(p) /\ call[p].todo = {} /\ call[p].next = "retain"
        /\ vol[v].engine = "off"
    BY <1>9, <2>1, RetainEffect DEF Turns, ShapeInv, Shape, Unmounting, HeldInv, Held
  <2>3. Holds(p, v) /\ Stops(p)
    BY <2>1, <2>2 DEF Holds, Stops
  <2>4. \A e \in entries : e.id = v => e.state # "mounted" /\ e.target = vol[v].target
    BY <2>3 DEF HandInv, HolderInv
  <2>5. (\E e \in entries : e.id = v) \/ entries = {}
    BY <2>3 DEF HandInv
  <2>6. \A f \in entries : f.target = vol[v].target => f.id = v
    BY <2>4, <2>5, EntryFacts
  <2>7. \A w \in Mount : Holds(p, w) => w = v
    BY <2>1, <2>2 DEF Holds
  <2> QED
    BY <2>1, <2>2, <2>4, <2>6, <2>7, HolderKept
<1>10. ASSUME NEW p \in Process, NextLost(p) PROVE HolderInv'
  <2>1. UNCHANGED <<entries, vol>> /\ call[p].at = "lost"
    BY <1>10, NextLostEffect
  <2>2. CASE \E v \in call[p].todo : Turns(p, "drive", v, call[p].todo \ {v}, call[p].stops)
    <3>1. call[p].id \notin Mount
      BY <2>1 DEF ShapeInv, Shape, Hands, Unmounting
    <3>2. OnlyOf(p) /\ \A w \in Mount : Holds(p, w) => Holds(p, w)'
      BY <2>2, <3>1 DEF Turns, Holds
    <3> QED
      BY <2>1, <3>2, HolderSame
  <2>3. CASE call[p].todo = {} /\ Moves(p, IF entries = {} THEN call[p].then ELSE "list")
    BY <2>1, <2>3, HolderSame DEF Moves, Keeps, Holds
  <2> QED
    BY <1>10, <2>2, <2>3, NextLostEffect
<1>11. ASSUME NEW p \in Process, ListMounts(p) PROVE HolderInv'
  <2>1. UNCHANGED <<entries, vol>> /\ OnlyOf(p) /\ \A w \in Mount : Holds(p, w) => Holds(p, w)'
    BY <1>11, ListEffect DEF Moves, Keeps, Holds
  <2> QED
    BY <2>1, HolderSame
<1>12. ASSUME NEW p \in Process, WriteJournal(p) \/ WriteFails(p) PROVE HolderInv'
  <2>1. UNCHANGED <<entries, vol>> /\ OnlyOf(p) /\ \A w \in Mount : Holds(p, w) => Holds(p, w)'
    BY <1>12, WriteEffect DEF Moves, Keeps, Holds
  <2> QED
    BY <2>1, HolderSame
<1>13. ASSUME NEW p \in Thread, NEW v \in case.mounts, NEW t \in case.targets, MountBegin(p, v, t) PROVE HolderInv'
  <2>1. /\ p \in Process /\ v \in Mount /\ t \in Target /\ vol[v] = Fresh /\ OnlyOf(p) /\ call[p].at = "idle"
        /\ call'[p].at = "build" /\ call'[p].id = v /\ call'[p].todo = {}
        /\ vol'[v].target = t /\ vol'[v].engine = "none"
        /\ \A w \in Mount : w # v => vol'[w] = vol[w]
    BY <1>13, MountBeginEffect DEF Turns
  <2>2. /\ \A e \in entries : e.target = t => e.state = "failed"
        /\ \A e \in entries' : e \in entries \/ (e.id = v /\ e.target = t /\ e.state = "starting")
        /\ \A e \in entries : e.target # t => e \in entries'
    BY <1>13, MountBeginEffect
  <2>3. \A e \in entries : e.id # v
    BY <2>1, Facts, EntryFacts DEF HolderInv, Fresh
  <2>4. (\A q \in Process, w \in Mount : Holds(q, w) => Holds(q, w)') /\ Holds(p, v)'
    BY <2>1, Asking, Facts DEF OnlyOf, Holds
  <2>5. ASSUME NEW w \in Mount, vol'[w].engine = "on"
        PROVE  (\E q \in Process : Holds(q, w)') \/ \E e \in entries' : e.id = w /\ e.state = "mounted"
    <3>1. w # v /\ vol[w].engine = "on"
      BY <2>1, <2>5
    <3>2. (\E q \in Process : Holds(q, w)) \/ \E e \in entries : e.id = w /\ e.state = "mounted"
      BY <3>1 DEF HolderInv
    <3> QED
      BY <2>2, <2>4, <3>2
  <2>6. ASSUME NEW e \in entries'
        PROVE  /\ vol'[e.id].target = e.target
               /\ e.state \in {"starting", "stopping"} => \E q \in Process : Holds(q, e.id)'
               /\ e.state = "mounted" => Serving(e.id)'
    BY <2>1, <2>2, <2>3, <2>4, EntryFacts DEF HolderInv, Serving
  <2> QED
    BY <2>5, <2>6 DEF HolderInv
<1>14. ASSUME NEW p \in Thread, NEW t \in case.targets, NEW force \in BOOLEAN, UnmountBegin(p, t, force) PROVE HolderInv'
  <2>1. p \in Process /\ OnlyOf(p) /\ UNCHANGED vol /\ call[p].at = "idle" /\ call'[p].todo = {}
    BY <1>14, UnmountEffect, Facts
  <2>2. \/ /\ \E e \in entries : e.target = t /\ e.state = "failed"
           /\ entries' = {e \in entries : e.target # t}
           /\ call'[p].id = NONE
        \/ \E e \in entries :
              /\ e.target = t /\ e.state = "mounted"
              /\ entries' = Marked({e.id}, "stopping")
              /\ call'[p].at = "drive" /\ call'[p].id = e.id /\ call'[p].next = "retain"
    BY ONLY TypeOK, <1>14, UnmountEffect
  <2>3. \A w \in Mount : ~Holds(p, w)
    BY <2>1, Asking, Facts DEF Holds
  <2>4. CASE /\ \E e \in entries : e.target = t /\ e.state = "failed"
             /\ entries' = {e \in entries : e.target # t}
             /\ call'[p].id = NONE
    BY <2>1, <2>3, <2>4, HolderEmpty
  <2>5. ASSUME NEW e \in entries, entries' = Marked({e.id}, "stopping"), call'[p].id = e.id
        PROVE  HolderInv'
    <3>1. {e.id} \in SUBSET Mount /\ \A w \in {e.id} : Holds(p, w)'
      BY <2>5, EntryFacts DEF Holds
    <3> QED
      BY <2>1, <2>3, <2>5, <3>1, HolderTakes
  <2> QED
    BY <2>2, <2>4, <2>5
<1>15. ASSUME NEW p \in Thread, NEW t \in case.targets, Dismiss(p, t) PROVE HolderInv'
  <2>1. p \in Process /\ UNCHANGED <<vol, call>> /\ OnlyOf(p) /\ \A w \in Mount : Holds(p, w) => Holds(p, w)'
    BY <1>15, DismissEffect, Facts DEF OnlyOf, TypeOK, Holds
  <2>2. (\E e \in entries : e.target = t /\ e.state = "failed") /\ entries' = {e \in entries : e.target # t}
    BY <1>15, DismissEffect
  <2> QED
    BY <2>1, <2>2, HolderEmpty
<1>16. ASSUME NEW p \in Process, (p \in Thread /\ List(p)) \/ (p = Monitor /\ Tick) PROVE HolderInv'
  <2>1. /\ OnlyOf(p) /\ UNCHANGED vol /\ call[p].at \in {"idle", "sleep"} /\ call'[p].todo = Lost
        /\ Lost \in SUBSET Mount /\ entries' = Marked(Lost, "failed")
    BY <1>16, CheckEffect DEF Turns
  <2>2. (\A w \in Mount : ~Holds(p, w)) /\ \A w \in Lost : Holds(p, w)'
    BY <2>1, Asking, Facts DEF Holds
  <2> QED
    BY <2>1, <2>2, HolderTakes
<1>17. ASSUME NEW p \in Thread, Shutdown(p) PROVE HolderInv'
  <2>1. UNCHANGED <<entries, vol, call>>
    BY <1>17, ShutdownEffect
  <2> QED
    BY <2>1 DEF HolderInv, Holds, Serving
<1>18. CASE Decide
  <2>1. /\ Monitor \in Process /\ OnlyOf(Monitor) /\ UNCHANGED <<entries, vol>>
        /\ \A w \in Mount : ~Holds(Monitor, w)
    BY <1>18, DecideEffect, Facts DEF Moves, Keeps, Turns, ShapeInv, Shape, Hands, Unmounting, Holds
  <2> QED
    BY <2>1, HolderSame
<1>19. CASE RequestShutdown
  <2>1. /\ Monitor \in Process /\ OnlyOf(Monitor) /\ UNCHANGED <<entries, vol>>
        /\ \A w \in Mount : ~Holds(Monitor, w)
    BY <1>19, RequestShutdownEffect, Facts DEF Moves, Keeps, Turns, ShapeInv, Shape, Hands, Unmounting, Holds
  <2> QED
    BY <2>1, HolderSame
<1>20. CASE StopAll
  <2>1. /\ Monitor \in Process /\ OnlyOf(Monitor) /\ UNCHANGED <<entries, vol>>
        /\ \A w \in Mount : ~Holds(Monitor, w)
    BY <1>20, StopAllEffect, Facts DEF Moves, Keeps, Turns, ShapeInv, Shape, Hands, Unmounting, Holds
  <2> QED
    BY <2>1, HolderSame
<1>21. CASE StopNext
  <2>1. /\ Monitor \in Process /\ OnlyOf(Monitor) /\ UNCHANGED vol
        /\ \A w \in Mount : ~Holds(Monitor, w)
    BY <1>21, StopNextEffect, Facts DEF ShapeInv, Shape, Hands, Unmounting, Holds
  <2>2. PICK v \in call[Monitor].stops :
           LET t == vol[v].target IN
           \/ /\ \E e \in entries : e.target = t /\ e.state = "failed"
              /\ entries' = {e \in entries : e.target # t}
           \/ \E e \in entries : entries' = Marked({e.id}, "stopping") /\ call'[Monitor].id = e.id
           \/ UNCHANGED entries
    BY ONLY TypeOK, <1>21, StopNextEffect
  <2>3. CASE /\ \E e \in entries : e.target = vol[v].target /\ e.state = "failed"
             /\ entries' = {e \in entries : e.target # vol[v].target}
    BY <2>1, <2>3, HolderEmpty
  <2>4. ASSUME NEW e \in entries, entries' = Marked({e.id}, "stopping"), call'[Monitor].id = e.id
        PROVE  HolderInv'
    <3>1. {e.id} \in SUBSET Mount /\ \A w \in {e.id} : Holds(Monitor, w)'
      BY <2>4, EntryFacts DEF Holds
    <3> QED
      BY <2>1, <2>4, <3>1, HolderTakes
  <2>5. CASE UNCHANGED entries
    BY <2>1, <2>5, HolderSame
  <2> QED
    BY <2>2, <2>3, <2>4, <2>5
<1>22. CASE Clear
  <2>1. /\ Monitor \in Process /\ OnlyOf(Monitor) /\ entries' = {} /\ \A w \in Mount : ~Holds(Monitor, w)
    BY <1>22, ClearEffect, Facts DEF Turns, ShapeInv, Shape, Hands, Unmounting, Holds
  <2>2. \A w \in Mount : \/ vol'[w] = vol[w] /\ \A e \in entries : e.id = w => e.state # "mounted"
                         \/ vol'[w].engine = "off"
    BY <1>22, ClearEffect
  <2>3. \A q \in Process, w \in Mount : Holds(q, w) => Holds(q, w)'
    BY <2>1 DEF OnlyOf, Holds
  <2> QED
    BY <2>1, <2>2, <2>3 DEF HolderInv
<1>23. CASE EraseJournal
  <2>1. /\ Monitor \in Process /\ OnlyOf(Monitor) /\ UNCHANGED <<entries, vol>>
        /\ \A w \in Mount : ~Holds(Monitor, w)
    BY <1>23, EraseEffect, Facts DEF Moves, Keeps, Turns, ShapeInv, Shape, Hands, Unmounting, Holds
  <2> QED
    BY <2>1, HolderSame
<1>24. CASE Exit
  <2>1. entries' = {} /\ \A v \in Mount : vol'[v].engine # "on"
    BY <1>24, DiesEffect DEF Exit
  <2> QED
    BY <2>1 DEF HolderInv
<1>25. CASE Start
  <2>1. /\ host.at = "off" /\ Monitor \in Process /\ OnlyOf(Monitor) /\ UNCHANGED <<entries, vol>>
    BY <1>25, StartEffect, Facts DEF Turns
  <2>2. \A w \in Mount : ~Holds(Monitor, w)
    BY <2>1, IdleFacts, Facts DEF HostInv, Holds
  <2> QED
    BY <2>1, <2>2, HolderSame
<1>26. CASE Crash
  <2>1. entries' = {} /\ \A v \in Mount : vol'[v].engine # "on"
    BY <1>26, CrashEffect, DiesEffect
  <2> QED
    BY <2>1 DEF HolderInv
<1>27. ASSUME NEW k \in Client, ReadJournal(k) PROVE HolderInv'
  BY <1>27, ReadEffect DEF HolderInv, Holds, Serving
<1>28. ASSUME NEW k \in Client, TakeJournal(k) PROVE HolderInv'
  BY <1>28, TakeEffect DEF HolderInv, Holds, Serving
<1>29. ASSUME NEW v \in Mount, Program(v) PROVE HolderInv'
  <2>1. UNCHANGED <<entries, call>> /\ OnlyVolume(v) /\ Serving(v)' /\ vol'[v].engine = vol[v].engine
    BY <1>29, ProgramEffect, ProgramServes
  <2>2. \A w \in Mount : vol'[w].target = vol[w].target /\ vol'[w].engine = vol[w].engine
    BY <2>1 DEF OnlyVolume
  <2>3. \A w \in Mount : Serving(w) => Serving(w)'
    BY <2>1 DEF OnlyVolume, Serving
  <2> QED
    BY <2>1, <2>2, <2>3, EntryFacts DEF HolderInv, Holds
<1>30. CASE UNCHANGED vars
  BY <1>30 DEF vars, HolderInv, Holds, Serving
<1> QED
  BY <1>1, <1>2, <1>3, <1>4, <1>5, <1>6, <1>7, <1>8, <1>9, <1>10, <1>11, <1>12, <1>13, <1>14, <1>15,
     <1>16, <1>17, <1>18, <1>19, <1>20, <1>21, <1>22, <1>23, <1>24, <1>25, <1>26, <1>27, <1>28,
     <1>29, <1>30, Facts
  DEF Next, ProcessStep, MonitorStep, Request

\* A volume in hand, in a thread's unmount or in mount(), that changes alone.
LEMMA KeptElsewhere ==
    ASSUME KeptInv, NEW v \in Mount, OnlyVolume(v), UNCHANGED case,
           vol'[v].engine = "off" => vol'[v].dirty \subseteq vol'[v].copied \/ vol'[v].kept
    PROVE  KeptInv'
BY DEF KeptInv, NothingDiscarded, OnlyVolume

\* unmount_all has emptied its list, so entries.clear() finds nothing mounted.
LEMMA ClearFindsNone ==
    ASSUME TypeOK, ShapeInv, TearInv, Clear, "slips_in" \notin case.events
    PROVE  UNCHANGED vol
<1>1. call[Monitor].then = "next" /\ call[Monitor].stops = {}
  BY ClearEffect, Facts DEF ShapeInv, Shape
<1>2. \A e \in entries : e.state # "mounted"
  BY <1>1 DEF TearInv, TearingDown
<1>3. vol' \in [Mount -> Volume] /\ \A v \in Mount : vol'[v] = vol[v]
  BY <1>2, ClearEffect
<1> QED
  BY <1>3 DEF TypeOK

LEMMA KeptStep ==
    ASSUME TypeOK, ShapeInv, HeldInv, VolInv, TearInv, KeptInv, [Next]_vars PROVE KeptInv'
<1>1. ASSUME NEW p \in Process, Serve(p) PROVE KeptInv'
  <2>1. PICK v \in Mount : v = call[p].id /\ OnlyVolume(v) /\ vol'[v].engine = "on" /\ UNCHANGED case
    BY <1>1, ServeEffect
  <2> QED
    BY <2>1, KeptElsewhere
<1>2. ASSUME NEW p \in Process, MountFails(p) PROVE KeptInv'
  <2>1. PICK v \in Mount :
           /\ v = call[p].id /\ OnlyVolume(v) /\ UNCHANGED case /\ call[p].at = "build"
           /\ vol'[v].dirty = vol[v].dirty
    BY <1>2, MountFailsEffect
  <2>2. vol[v].dirty = {}
    BY <2>1 DEF HeldInv, Held, VolInv, VolOf
  <2> QED
    BY <2>1, <2>2, KeptElsewhere
<1>3. ASSUME NEW p \in Process, Settle(p) PROVE KeptInv'
  BY <1>3, SettleEffect DEF KeptInv, NothingDiscarded
<1>4. ASSUME NEW p \in Process, PruneFailed(p) PROVE KeptInv'
  BY <1>4, PruneEffect DEF KeptInv, NothingDiscarded
<1>5. ASSUME NEW p \in Process, DriveGone(p) PROVE KeptInv'
  <2>1. PICK v \in Mount : v = call[p].id /\ OnlyVolume(v) /\ vol'[v].engine = "on" /\ UNCHANGED case
    BY <1>5, DriveGoneEffect DEF HeldInv, Held, Serving
  <2> QED
    BY <2>1, KeptElsewhere
<1>6. ASSUME NEW p \in Process, Drain(p) PROVE KeptInv'
  <2>1. PICK v \in Mount : v = call[p].id /\ OnlyVolume(v) /\ vol'[v].engine = "on" /\ UNCHANGED case
    BY <1>6, DrainEffect DEF HeldInv, Held
  <2> QED
    BY <2>1, KeptElsewhere
<1>7. ASSUME NEW p \in Process, Save(p) PROVE KeptInv'
  <2>1. PICK v \in Mount : v = call[p].id /\ OnlyVolume(v) /\ vol'[v].engine = "on" /\ UNCHANGED case
    BY <1>7, SaveEffect DEF HeldInv, Held
  <2> QED
    BY <2>1, KeptElsewhere
<1>8. ASSUME NEW p \in Process, Free(p) PROVE KeptInv'
  <2>1. PICK v \in Mount :
           /\ v = call[p].id /\ OnlyVolume(v) /\ UNCHANGED case /\ call[p].at = "free"
           /\ vol'[v].dirty = vol[v].dirty /\ vol'[v].copied = vol[v].copied /\ vol'[v].kept = vol[v].kept
    BY <1>8, FreeEffect
  <2>2. vol[v].dirty \subseteq vol[v].copied \/ vol[v].kept
    BY <2>1 DEF HeldInv, Held
  <2> QED
    BY <2>1, <2>2, KeptElsewhere
<1>9. ASSUME NEW p \in Process, Retain(p) PROVE KeptInv'
  BY <1>9, RetainEffect DEF KeptInv, NothingDiscarded
<1>10. ASSUME NEW p \in Process, NextLost(p) PROVE KeptInv'
  BY <1>10, NextLostEffect DEF KeptInv, NothingDiscarded
<1>11. ASSUME NEW p \in Process, ListMounts(p) PROVE KeptInv'
  BY <1>11, ListEffect DEF KeptInv, NothingDiscarded
<1>12. ASSUME NEW p \in Process, WriteJournal(p) \/ WriteFails(p) PROVE KeptInv'
  BY <1>12, WriteEffect DEF KeptInv, NothingDiscarded
<1>13. ASSUME NEW p \in Thread, NEW v \in case.mounts, NEW t \in case.targets, MountBegin(p, v, t) PROVE KeptInv'
  <2>1. /\ vol'[v].engine = "none" /\ UNCHANGED case /\ \A w \in Mount : w # v => vol'[w] = vol[w]
    BY <1>13, MountBeginEffect
  <2> QED
    BY <2>1 DEF KeptInv, NothingDiscarded
<1>14. ASSUME NEW p \in Thread, NEW t \in case.targets, NEW force \in BOOLEAN, UnmountBegin(p, t, force) PROVE KeptInv'
  BY <1>14, UnmountEffect DEF KeptInv, NothingDiscarded
<1>15. ASSUME NEW p \in Thread, NEW t \in case.targets, Dismiss(p, t) PROVE KeptInv'
  BY <1>15, DismissEffect DEF KeptInv, NothingDiscarded
<1>16. ASSUME NEW p \in Process, (p \in Thread /\ List(p)) \/ (p = Monitor /\ Tick) PROVE KeptInv'
  BY <1>16, CheckEffect DEF KeptInv, NothingDiscarded
<1>17. ASSUME NEW p \in Thread, Shutdown(p) PROVE KeptInv'
  BY <1>17, ShutdownEffect DEF KeptInv, NothingDiscarded
<1>18. CASE Decide
  BY <1>18, DecideEffect DEF KeptInv, NothingDiscarded
<1>19. CASE RequestShutdown
  BY <1>19, RequestShutdownEffect DEF KeptInv, NothingDiscarded
<1>20. CASE StopAll
  BY <1>20, StopAllEffect DEF KeptInv, NothingDiscarded
<1>21. CASE StopNext
  BY <1>21, StopNextEffect DEF KeptInv, NothingDiscarded
<1>22. CASE Clear
  <2>1. UNCHANGED case
    BY <1>22, ClearEffect
  <2> QED
    BY <1>22, <2>1, ClearFindsNone DEF KeptInv, NothingDiscarded
<1>23. CASE EraseJournal
  BY <1>23, EraseEffect DEF KeptInv, NothingDiscarded
<1>24. CASE Exit
  <2>1. UNCHANGED case /\ \A v \in Mount : vol'[v] = vol[v] \/ vol'[v].engine \in {"left", "killed"}
    BY <1>24, DiesEffect DEF Exit
  <2> QED
    BY <2>1 DEF KeptInv, NothingDiscarded
<1>25. CASE Start
  BY <1>25, StartEffect DEF KeptInv, NothingDiscarded
<1>26. CASE Crash
  <2>1. UNCHANGED case /\ \A v \in Mount : vol'[v] = vol[v] \/ vol'[v].engine \in {"left", "killed"}
    BY <1>26, CrashEffect, DiesEffect
  <2> QED
    BY <2>1 DEF KeptInv, NothingDiscarded
<1>27. ASSUME NEW k \in Client, ReadJournal(k) PROVE KeptInv'
  BY <1>27, ReadEffect DEF KeptInv, NothingDiscarded
<1>28. ASSUME NEW k \in Client, TakeJournal(k) PROVE KeptInv'
  BY <1>28, TakeEffect DEF KeptInv, NothingDiscarded
<1>29. ASSUME NEW v \in Mount, Program(v) PROVE KeptInv'
  <2>1. OnlyVolume(v) /\ UNCHANGED case /\ vol'[v].engine = "on"
    BY <1>29, ProgramEffect, ProgramServes DEF Serving
  <2> QED
    BY <2>1, KeptElsewhere
<1>30. CASE UNCHANGED vars
  BY <1>30 DEF vars, KeptInv, NothingDiscarded
<1> QED
  BY <1>1, <1>2, <1>3, <1>4, <1>5, <1>6, <1>7, <1>8, <1>9, <1>10, <1>11, <1>12, <1>13, <1>14, <1>15,
     <1>16, <1>17, <1>18, <1>19, <1>20, <1>21, <1>22, <1>23, <1>24, <1>25, <1>26, <1>27, <1>28,
     <1>29, <1>30, Facts
  DEF Next, ProcessStep, MonitorStep, Request

\* The supervisor that waits for its threads leaves no engine behind.
LEMMA ExitFindsNone ==
    ASSUME TypeOK, ShapeInv, HostInv, HolderInv, Exit, "impatient" \notin case.events
    PROVE  \A v \in Mount : vol[v].engine # "on"
<1>1. call[Monitor].at = "exit" /\ ~\E p \in Thread, v \in Mount : Holds(p, v) /\ vol[v].engine = "on"
  BY DEF Exit, Happens
<1>2. entries = {}
  BY <1>1 DEF HostInv, Cleared
<1>3. \A v \in Mount : ~Holds(Monitor, v)
  BY <1>1, Facts DEF ShapeInv, Shape, Holds, Hands, Unmounting
<1> QED
  BY <1>1, <1>2, <1>3 DEF HolderInv, Process

LEMMA ExitElsewhere ==
    ASSUME ExitInv, NEW v \in Mount, OnlyVolume(v), UNCHANGED case, vol'[v].engine # "left"
    PROVE  ExitInv'
BY DEF ExitInv, ExitIsSafe, OnlyVolume

LEMMA ExitStep ==
    ASSUME TypeOK, ShapeInv, HostInv, HolderInv, HeldInv, VolInv, ExitInv, [Next]_vars PROVE ExitInv'
<1>1. ASSUME NEW p \in Process, Serve(p) PROVE ExitInv'
  <2>1. PICK v \in Mount : v = call[p].id /\ OnlyVolume(v) /\ vol'[v].engine # "left" /\ UNCHANGED case
    BY <1>1, ServeEffect
  <2> QED
    BY <2>1, ExitElsewhere
<1>2. ASSUME NEW p \in Process, MountFails(p) PROVE ExitInv'
  <2>1. PICK v \in Mount : v = call[p].id /\ OnlyVolume(v) /\ vol'[v].engine # "left" /\ UNCHANGED case
    BY <1>2, MountFailsEffect
  <2> QED
    BY <2>1, ExitElsewhere
<1>3. ASSUME NEW p \in Process, Settle(p) PROVE ExitInv'
  BY <1>3, SettleEffect DEF ExitInv, ExitIsSafe
<1>4. ASSUME NEW p \in Process, PruneFailed(p) PROVE ExitInv'
  BY <1>4, PruneEffect DEF ExitInv, ExitIsSafe
<1>5. ASSUME NEW p \in Process, DriveGone(p) PROVE ExitInv'
  <2>1. PICK v \in Mount : v = call[p].id /\ OnlyVolume(v) /\ vol'[v].engine # "left" /\ UNCHANGED case
    BY <1>5, DriveGoneEffect DEF HeldInv, Held, Serving
  <2> QED
    BY <2>1, ExitElsewhere
<1>6. ASSUME NEW p \in Process, Drain(p) PROVE ExitInv'
  <2>1. PICK v \in Mount : v = call[p].id /\ OnlyVolume(v) /\ vol'[v].engine # "left" /\ UNCHANGED case
    BY <1>6, DrainEffect DEF HeldInv, Held
  <2> QED
    BY <2>1, ExitElsewhere
<1>7. ASSUME NEW p \in Process, Save(p) PROVE ExitInv'
  <2>1. PICK v \in Mount : v = call[p].id /\ OnlyVolume(v) /\ vol'[v].engine # "left" /\ UNCHANGED case
    BY <1>7, SaveEffect DEF HeldInv, Held
  <2> QED
    BY <2>1, ExitElsewhere
<1>8. ASSUME NEW p \in Process, Free(p) PROVE ExitInv'
  <2>1. PICK v \in Mount : v = call[p].id /\ OnlyVolume(v) /\ vol'[v].engine # "left" /\ UNCHANGED case
    BY <1>8, FreeEffect
  <2> QED
    BY <2>1, ExitElsewhere
<1>9. ASSUME NEW p \in Process, Retain(p) PROVE ExitInv'
  BY <1>9, RetainEffect DEF ExitInv, ExitIsSafe
<1>10. ASSUME NEW p \in Process, NextLost(p) PROVE ExitInv'
  BY <1>10, NextLostEffect DEF ExitInv, ExitIsSafe
<1>11. ASSUME NEW p \in Process, ListMounts(p) PROVE ExitInv'
  BY <1>11, ListEffect DEF ExitInv, ExitIsSafe
<1>12. ASSUME NEW p \in Process, WriteJournal(p) \/ WriteFails(p) PROVE ExitInv'
  BY <1>12, WriteEffect DEF ExitInv, ExitIsSafe
<1>13. ASSUME NEW p \in Thread, NEW v \in case.mounts, NEW t \in case.targets, MountBegin(p, v, t) PROVE ExitInv'
  <2>1. /\ vol'[v].engine = "none" /\ UNCHANGED case /\ \A w \in Mount : w # v => vol'[w] = vol[w]
    BY <1>13, MountBeginEffect
  <2> QED
    BY <2>1 DEF ExitInv, ExitIsSafe
<1>14. ASSUME NEW p \in Thread, NEW t \in case.targets, NEW force \in BOOLEAN, UnmountBegin(p, t, force) PROVE ExitInv'
  BY <1>14, UnmountEffect DEF ExitInv, ExitIsSafe
<1>15. ASSUME NEW p \in Thread, NEW t \in case.targets, Dismiss(p, t) PROVE ExitInv'
  BY <1>15, DismissEffect DEF ExitInv, ExitIsSafe
<1>16. ASSUME NEW p \in Process, (p \in Thread /\ List(p)) \/ (p = Monitor /\ Tick) PROVE ExitInv'
  BY <1>16, CheckEffect DEF ExitInv, ExitIsSafe
<1>17. ASSUME NEW p \in Thread, Shutdown(p) PROVE ExitInv'
  BY <1>17, ShutdownEffect DEF ExitInv, ExitIsSafe
<1>18. CASE Decide
  BY <1>18, DecideEffect DEF ExitInv, ExitIsSafe
<1>19. CASE RequestShutdown
  BY <1>19, RequestShutdownEffect DEF ExitInv, ExitIsSafe
<1>20. CASE StopAll
  BY <1>20, StopAllEffect DEF ExitInv, ExitIsSafe
<1>21. CASE StopNext
  BY <1>21, StopNextEffect DEF ExitInv, ExitIsSafe
<1>22. CASE Clear
  <2>1. UNCHANGED case /\ \A v \in Mount : vol'[v] = vol[v] \/ vol'[v].engine = "off"
    BY <1>22, ClearEffect
  <2> QED
    BY <2>1 DEF ExitInv, ExitIsSafe
<1>23. CASE EraseJournal
  BY <1>23, EraseEffect DEF ExitInv, ExitIsSafe
<1>24. CASE Exit
  <2>1. UNCHANGED case /\ \A v \in Mount : vol[v].engine # "on" => vol'[v] = vol[v]
    BY <1>24, DiesEffect DEF Exit
  <2>2. "impatient" \notin case.events => \A v \in Mount : vol'[v] = vol[v]
    BY <1>24, <2>1, ExitFindsNone
  <2> QED
    BY <2>1, <2>2 DEF ExitInv, ExitIsSafe
<1>25. CASE Start
  BY <1>25, StartEffect DEF ExitInv, ExitIsSafe
<1>26. CASE Crash
  <2>1. UNCHANGED case /\ \A v \in Mount : vol'[v] = vol[v] \/ vol'[v].engine = "killed"
    BY <1>26, CrashEffect, DiesEffect
  <2> QED
    BY <2>1 DEF ExitInv, ExitIsSafe
<1>27. ASSUME NEW k \in Client, ReadJournal(k) PROVE ExitInv'
  BY <1>27, ReadEffect DEF ExitInv, ExitIsSafe
<1>28. ASSUME NEW k \in Client, TakeJournal(k) PROVE ExitInv'
  BY <1>28, TakeEffect DEF ExitInv, ExitIsSafe
<1>29. ASSUME NEW v \in Mount, Program(v) PROVE ExitInv'
  <2>1. OnlyVolume(v) /\ UNCHANGED case /\ vol'[v].engine = "on"
    BY <1>29, ProgramEffect, ProgramServes DEF Serving
  <2> QED
    BY <2>1, ExitElsewhere
<1>30. CASE UNCHANGED vars
  BY <1>30 DEF vars, ExitInv, ExitIsSafe
<1> QED
  BY <1>1, <1>2, <1>3, <1>4, <1>5, <1>6, <1>7, <1>8, <1>9, <1>10, <1>11, <1>12, <1>13, <1>14, <1>15,
     <1>16, <1>17, <1>18, <1>19, <1>20, <1>21, <1>22, <1>23, <1>24, <1>25, <1>26, <1>27, <1>28,
     <1>29, <1>30, Facts
  DEF Next, ProcessStep, MonitorStep, Request

LEMMA JournalStep ==
    ASSUME TypeOK, ShapeInv, HostInv, JournalInv, [Next]_vars PROVE JournalInv'
<1>1. ASSUME NEW p \in Process, Serve(p) PROVE JournalInv'
  BY <1>1, ServeEffect DEF JournalInv
<1>2. ASSUME NEW p \in Process, MountFails(p) PROVE JournalInv'
  BY <1>2, MountFailsEffect DEF JournalInv
<1>3. ASSUME NEW p \in Process, Settle(p) PROVE JournalInv'
  BY <1>3, SettleEffect DEF JournalInv
<1>4. ASSUME NEW p \in Process, PruneFailed(p) PROVE JournalInv'
  BY <1>4, PruneEffect DEF JournalInv
<1>5. ASSUME NEW p \in Process, DriveGone(p) PROVE JournalInv'
  BY <1>5, DriveGoneEffect DEF JournalInv
<1>6. ASSUME NEW p \in Process, Drain(p) PROVE JournalInv'
  BY <1>6, DrainEffect DEF JournalInv
<1>7. ASSUME NEW p \in Process, Save(p) PROVE JournalInv'
  BY <1>7, SaveEffect DEF JournalInv
<1>8. ASSUME NEW p \in Process, Free(p) PROVE JournalInv'
  BY <1>8, FreeEffect DEF JournalInv
<1>9. ASSUME NEW p \in Process, Retain(p) PROVE JournalInv'
  BY <1>9, RetainEffect DEF JournalInv
<1>10. ASSUME NEW p \in Process, NextLost(p) PROVE JournalInv'
  BY <1>10, NextLostEffect DEF JournalInv
<1>11. ASSUME NEW p \in Process, ListMounts(p) PROVE JournalInv'
  BY <1>11, ListEffect DEF JournalInv
<1>12. ASSUME NEW p \in Process, WriteJournal(p) \/ WriteFails(p) PROVE JournalInv'
  <2>1. host.at # "off" /\ UNCHANGED <<host, told, case>> /\ NONE \notin Notices
    BY <1>12, WriteEffect, Active, Facts
  <2>2. \/ UNCHANGED journal
        \/ \E new \in Notices :
              /\ journal'.file = IF journal.written = new THEN journal.file ELSE new
              /\ journal'.written = new /\ journal'.read = journal.read /\ new.pid = host.pid
    BY ONLY TypeOK, <1>12, WriteEffect
  <2>3. CASE UNCHANGED journal
    BY <2>1, <2>3 DEF JournalInv
  <2>4. ASSUME NEW new \in Notices,
               journal'.file = IF journal.written = new THEN journal.file ELSE new,
               journal'.written = new, journal'.read = journal.read, new.pid = host.pid
        PROVE  JournalInv'
    <3>1. SUFFICES ASSUME "start_first" \notin case.events PROVE JournalInv'
      BY <2>1 DEF JournalInv
    <3>2. journal'.file = new /\ new # NONE
      BY <2>1, <2>4, <3>1 DEF JournalInv
    <3>3. host.pid \in Nat /\ (\A pid \in told.said : pid # host.pid)
      BY <2>1, <3>1 DEF JournalInv, TypeOK
    <3>4. (\A k \in Client : journal.read[k] = NONE) /\ \A pid \in told.owed : pid \in told.said
      BY <2>1, <3>1 DEF JournalInv
    <3> QED
      BY <2>1, <2>4, <3>1, <3>2, <3>3, <3>4 DEF JournalInv
  <2> QED
    BY <2>2, <2>3, <2>4
<1>13. ASSUME NEW p \in Thread, NEW v \in case.mounts, NEW t \in case.targets, MountBegin(p, v, t) PROVE JournalInv'
  BY <1>13, MountBeginEffect DEF JournalInv
<1>14. ASSUME NEW p \in Thread, NEW t \in case.targets, NEW force \in BOOLEAN, UnmountBegin(p, t, force) PROVE JournalInv'
  BY <1>14, UnmountEffect DEF JournalInv
<1>15. ASSUME NEW p \in Thread, NEW t \in case.targets, Dismiss(p, t) PROVE JournalInv'
  BY <1>15, DismissEffect DEF JournalInv
<1>16. ASSUME NEW p \in Process, (p \in Thread /\ List(p)) \/ (p = Monitor /\ Tick) PROVE JournalInv'
  BY <1>16, CheckEffect DEF JournalInv
<1>17. ASSUME NEW p \in Thread, Shutdown(p) PROVE JournalInv'
  BY <1>17, ShutdownEffect DEF JournalInv
<1>18. CASE Decide
  BY <1>18, DecideEffect DEF JournalInv
<1>19. CASE RequestShutdown
  BY <1>19, RequestShutdownEffect DEF JournalInv
<1>20. CASE StopAll
  BY <1>20, StopAllEffect DEF JournalInv
<1>21. CASE StopNext
  BY <1>21, StopNextEffect DEF JournalInv
<1>22. CASE Clear
  BY <1>22, ClearEffect DEF JournalInv
<1>23. CASE EraseJournal
  <2>1. /\ host.at # "off" /\ host'.at = "final" /\ host'.pid = host.pid /\ UNCHANGED <<told, case>>
        /\ journal'.file = NONE /\ journal'.written = NONE /\ journal'.read = journal.read
    BY <1>23, EraseEffect, Active, Facts
  <2> QED
    BY <2>1 DEF JournalInv
<1>24. CASE Exit
  <2>1. /\ host.at # "off" /\ host'.at = "off" /\ host'.pid = host.pid /\ UNCHANGED <<told, case>>
        /\ journal'.file = journal.file /\ journal'.written = NONE /\ journal'.read = journal.read
    BY <1>24, DiesEffect, Active, Facts DEF Exit
  <2> QED
    BY <2>1 DEF JournalInv
<1>25. CASE Start
  <2>1. /\ host.at = "off" /\ host'.at = "on" /\ host'.pid = host.pid + 1 /\ UNCHANGED <<told, case>> /\ host.pid \in Nat
        /\ \/ "start_first" \in case.events
           \/ journal.file = NONE /\ \A k \in Client : journal.read[k] = NONE
        /\ journal'.file = journal.file /\ journal'.written = NONE /\ journal'.read = journal.read
    BY <1>25, StartEffect DEF TypeOK
  <2>2. SUFFICES ASSUME "start_first" \notin case.events PROVE JournalInv'
    BY <2>1 DEF JournalInv
  <2>3. \A pid \in told.said : pid \in Nat /\ pid <= host.pid
    BY <2>2 DEF JournalInv, TypeOK
  <2>4. \A pid \in told'.said : pid <= host'.pid /\ pid < host'.pid
    BY <2>1, <2>3
  <2> QED
    BY <2>1, <2>2, <2>4 DEF JournalInv
<1>26. CASE Crash
  <2>1. /\ host.at # "off" /\ host'.at = "off" /\ host'.pid = host.pid /\ UNCHANGED case
        /\ journal'.file = journal.file /\ journal'.written = NONE /\ journal'.read = journal.read
        /\ told'.said = told.said /\ told'.again = told.again
        /\ told'.owed = IF Listed # {} /\ journal.written = [pid |-> host.pid, mounts |-> Listed]
                        THEN told.owed \cup {host.pid} ELSE told.owed
    BY <1>26, CrashEffect, DiesEffect
  <2>2. [pid |-> host.pid, mounts |-> Listed] \in Notices /\ NONE \notin Notices
    BY Facts DEF TypeOK, Notices
  <2>3. \A pid \in told'.owed :
           pid \in told.owed \/ (pid = host.pid /\ Listed # {} /\ journal.written = [pid |-> host.pid, mounts |-> Listed])
    BY <2>1
  <2>4. ASSUME "start_first" \notin case.events, NEW pid \in told'.owed
        PROVE  \/ pid \in told'.said
               \/ /\ host'.at = "off" /\ journal'.file # NONE
                  /\ journal'.file.pid = pid /\ journal'.file.mounts # {}
    <3>1. CASE pid \in told.owed
      BY <2>1, <2>4, <3>1 DEF JournalInv
    <3>2. CASE pid = host.pid /\ Listed # {} /\ journal.written = [pid |-> host.pid, mounts |-> Listed]
      <4>1. journal.file = [pid |-> host.pid, mounts |-> Listed]
        BY <2>2, <2>4, <3>2 DEF JournalInv
      <4> QED
        BY <2>1, <2>2, <3>2, <4>1
    <3> QED
      BY <2>3, <3>1, <3>2
  <2> QED
    BY <2>1, <2>4 DEF JournalInv
<1>27. ASSUME NEW k \in Client, ReadJournal(k) PROVE JournalInv'
  BY <1>27, ReadEffect DEF JournalInv
<1>28. ASSUME NEW k \in Client, TakeJournal(k) PROVE JournalInv'
  <2>1. /\ journal.read[k] # NONE /\ UNCHANGED <<host, case>> /\ journal'.file = NONE /\ journal'.written = journal.written
        /\ journal'.read[k] = NONE /\ (\A j \in Client : j # k => journal'.read[j] = journal.read[j])
        /\ told'.owed = told.owed /\ told'.said = told.said \cup Reported(k)
        /\ told'.again = told.again \cup (told.said \cap Reported(k))
        /\ Reported(k) = IF journal.file # NONE /\ journal.read[k].mounts # {} THEN {journal.read[k].pid} ELSE {}
    BY <1>28, TakeEffect
  <2>2. host.pid \in Nat /\ NONE \notin Notices /\ journal.file \in Notices \cup {NONE}
    BY Facts DEF TypeOK
  <2>3. SUFFICES ASSUME "start_first" \notin case.events PROVE JournalInv'
    BY <2>1 DEF JournalInv
  <2>4. host.at = "off" /\ (journal.file = NONE \/ journal.read[k] = journal.file)
    BY <2>1, <2>3 DEF JournalInv
  <2>5. \A pid \in Reported(k) : pid = journal.file.pid /\ pid \notin told.said /\ pid <= host.pid
    BY <2>1, <2>3, <2>4 DEF JournalInv
  <2> QED
    BY <2>1, <2>2, <2>3, <2>4, <2>5 DEF JournalInv
<1>29. ASSUME NEW v \in Mount, Program(v) PROVE JournalInv'
  BY <1>29, ProgramEffect DEF JournalInv
<1>30. CASE UNCHANGED vars
  BY <1>30 DEF vars, JournalInv
<1> QED
  BY <1>1, <1>2, <1>3, <1>4, <1>5, <1>6, <1>7, <1>8, <1>9, <1>10, <1>11, <1>12, <1>13, <1>14, <1>15,
     <1>16, <1>17, <1>18, <1>19, <1>20, <1>21, <1>22, <1>23, <1>24, <1>25, <1>26, <1>27, <1>28,
     <1>29, <1>30, Facts
  DEF Next, ProcessStep, MonitorStep, Request

------------------------------------------------------------------------------
(* The theorems. *)

IInv ==
    /\ TypeOK /\ ShapeInv /\ HostInv /\ HandInv /\ HolderInv /\ HeldInv /\ VolInv
    /\ TearInv /\ KeptInv /\ ExitInv /\ JournalInv

LEMMA InitIInv ==
    ASSUME Init PROVE IInv
<1>1. TypeOK
  <2>1. Idle \in Calls
    BY DEF Idle, Calls, Steps
  <2>2. Fresh \in Volume
    BY DEF Fresh, Volume
  <2> QED
    BY <2>1, <2>2 DEF Init, TypeOK
<1>2. \A p \in Process : call[p] = Idle
  BY DEF Init
<1>3. \A v \in Mount : /\ vol[v].target = NONE /\ vol[v].drive = "none" /\ vol[v].engine = "none" /\ vol[v].dirty = {}
                       /\ vol[v].copied = {} /\ ~vol[v].kept
  BY DEF Init, Fresh
<1>4. entries = {} /\ host.at = "off" /\ (\A k \in Client : journal.read[k] = NONE) /\ journal.file = NONE
      /\ journal.written = NONE /\ told.owed = {} /\ told.said = {} /\ told.again = {}
  BY DEF Init
<1>5. ShapeInv /\ HostInv
  BY <1>1, <1>2, <1>3, <1>4, IdleFacts, Facts DEF ShapeInv, Shape, Hands, Unmounting, HostInv,
       TearingDown, Cleared
<1>6. HandInv /\ HolderInv /\ HeldInv
  BY <1>1, <1>2, <1>3, <1>4, IdleFacts, Facts DEF HandInv, HolderInv, HeldInv, Held, Holds
<1>7. VolInv /\ TearInv /\ KeptInv /\ ExitInv
  BY <1>3, <1>4 DEF VolInv, VolOf, Untouched, TearInv, KeptInv, NothingDiscarded, ExitInv, ExitIsSafe
<1>8. JournalInv
  BY <1>4 DEF JournalInv
<1> QED
  BY <1>1, <1>5, <1>6, <1>7, <1>8 DEF IInv

LEMMA StepIInv ==
    ASSUME IInv, [Next]_vars PROVE IInv'
<1> USE DEF IInv
<1>1. TypeOK' /\ ShapeInv' /\ HostInv'
  BY TypeStep, ShapeStep, HostStep
<1>2. HandInv' /\ HolderInv' /\ HeldInv' /\ VolInv'
  BY HandStep, HolderStep, HeldStep, VolStep
<1>3. TearInv' /\ KeptInv' /\ ExitInv' /\ JournalInv'
  BY TearStep, KeptStep, ExitStep, JournalStep
<1> QED
  BY <1>1, <1>2, <1>3

LEMMA Inductive == Spec => []IInv
<1>1. Init => IInv
  BY InitIInv
<1>2. IInv /\ [Next]_vars => IInv'
  BY StepIInv
<1> QED
  BY <1>1, <1>2, PTL DEF Spec

\* The registry and the volumes tell one story (registry.rs): a running engine has
\* exactly one holder, and every entry that is not failed a thread or a volume behind it.
THEOREM RegistryIsSound == Spec => []RegistrySound
<1>1. ASSUME IInv PROVE RegistrySound
  <2> USE <1>1 DEF IInv
  <2>1. ASSUME NEW v \in Mount, vol[v].engine = "on"
        PROVE  Holders(v) # {} /\ \A a, b \in Holders(v) : a = b
    <3>1. Holders(v) # {}
      BY <2>1 DEF HolderInv, Holders, InState
    <3>2. \A e, f \in entries : e.id = v /\ f.id = v => e = f
      BY EntryFacts
    <3>3. \A p, q \in Process : Holds(p, v) /\ Holds(q, v) => p = q
      BY DEF HandInv
    <3>4. \A p \in Process, e \in entries : Holds(p, v) /\ e.id = v => e.state # "mounted"
      BY DEF HandInv
    <3> QED
      BY <3>1, <3>2, <3>3, <3>4 DEF Holders, InState
  <2>2. EntryIsLive
    BY DEF EntryIsLive, HolderInv, Serving
  <2> QED
    BY <2>1, <2>2 DEF RegistrySound, OneHolder
<1> QED
  BY <1>1, Inductive, PTL

\* While no mount slips into unmount_all, a staging folder is deleted only when each
\* file in it was uploaded or copied (mounter.rs, host.rs).
THEOREM NothingIsDiscarded ==
    ASSUME \A c \in Case : "slips_in" \notin c.events PROVE Spec => []NothingDiscarded
<1>1. IInv => NothingDiscarded
  BY DEF IInv, TypeOK, KeptInv
<1> QED
  BY <1>1, Inductive, PTL

\* A supervisor that waits for its unmounts, and whose next one lets a client read the
\* journal, loses no file by its end and no drive by a crash without a report (host.rs).
THEOREM NoLossIsSilent ==
    ASSUME \A c \in Case : "impatient" \notin c.events /\ "start_first" \notin c.events
    PROVE  Spec => []NoSilentLoss
<1>1. IInv => NoSilentLoss
  BY DEF IInv, TypeOK, ExitInv, JournalInv, NoSilentLoss, LossReported
<1> QED
  BY <1>1, Inductive, PTL


------------------------------------------------------------------------------
(* The supervisor implements Volumes. *)

\* What Volumes sees of a volume.
Letter(v) == CASE vol[v].drive = "up" -> vol[v].target
               [] vol[v].drive = "lost" -> "gone"
               [] OTHER -> vol[v].drive
Saved(v) == IF vol[v].kept THEN vol[v].dirty ELSE vol[v].copied
Running == {v \in Mount : vol[v].engine = "on"}
LettersAreLetters == {"none", "gone"} \cap Target = {}

\* A step at one volume, seen from Volumes.
SameLetters == \A w \in Mount : Letter(w)' = Letter(w)
SameFiles == \A w \in Mount : vol'[w].dirty = vol[w].dirty
SameSaved == \A w \in Mount : Saved(w)' = Saved(w)

LEMMA Stutters ==
    ASSUME SameLetters, SameFiles, SameSaved, Running' = Running, host'.ended = host.ended
    PROVE  UNCHANGED V!vvars
BY DEF V!vvars, SameLetters, SameFiles, SameSaved, Running, Letter, Saved

LEMMA Attaches ==
    ASSUME NEW v \in Mount, NEW t \in Target, host.ended = "running", UNCHANGED host,
           Letter(v) = "none", \A w \in Mount : Letter(w) # t,
           Letter(v)' = t, \A w \in Mount : w # v => Letter(w)' = Letter(w),
           Running' = Running \cup {v}, SameFiles, SameSaved
    PROVE  V!Attach(v, t)
BY ZenonT(40) DEF V!Attach, SameFiles, SameSaved, Running, Letter, Saved

LEMMA Detaches ==
    ASSUME NEW v \in Mount, v \in Running, Letter(v) \in Target, Letter(v)' = "gone",
           \A w \in Mount : w # v => Letter(w)' = Letter(w),
           Running' = Running, SameFiles, SameSaved, UNCHANGED host
    PROVE  V!Detach(v)
BY DEF V!Detach, SameFiles, SameSaved, Running, Letter, Saved

LEMMA Accepts ==
    ASSUME NEW v \in Mount, NEW f \in File, v \in Running, Letter(v) \in Target,
           vol'[v].dirty = vol[v].dirty \cup {f}, \A w \in Mount : w # v => vol'[w].dirty = vol[w].dirty,
           SameLetters, SameSaved, Running' = Running, UNCHANGED host
    PROVE  V!Accept(v, f)
BY DEF V!Accept, SameLetters, SameSaved, Running, Letter, Saved

LEMMA Sends ==
    ASSUME NEW v \in Mount, NEW files, files \subseteq vol[v].dirty, v \in Running,
           vol'[v].dirty = vol[v].dirty \ files, \A w \in Mount : w # v => vol'[w].dirty = vol[w].dirty,
           SameLetters, SameSaved, Running' = Running, UNCHANGED host
    PROVE  V!Send(v, files)
BY DEF V!Send, SameLetters, SameSaved, Running, Letter, Saved

LEMMA KeepsFiles ==
    ASSUME NEW v \in Mount, NEW files, files \subseteq vol[v].dirty, v \in Running, Letter(v) = "gone",
           Saved(v)' = Saved(v) \cup files, \A w \in Mount : w # v => Saved(w)' = Saved(w),
           SameLetters, SameFiles, Running' = Running, UNCHANGED host
    PROVE  V!Keep(v, files)
BY DEF V!Keep, SameLetters, SameFiles, Running, Letter, Saved

LEMMA GivesUp ==
    ASSUME NEW v \in Mount, v \in Running, Letter(v) = "gone", vol[v].dirty \subseteq Saved(v),
           Running' = Running \ {v}, SameLetters, SameFiles, SameSaved, UNCHANGED host
    PROVE  V!GiveUp(v)
BY DEF V!GiveUp, SameLetters, SameFiles, SameSaved, Running, Letter, Saved

LEMMA IsKilled ==
    ASSUME host.ended = "running", host'.ended = "killed", Running' = {}, SameFiles, SameSaved,
           \A w \in Mount : Letter(w)' = IF w \in Running THEN "gone" ELSE Letter(w)
    PROVE  V!Killed
BY DEF V!Killed, SameFiles, SameSaved, Running, Letter, Saved

LEMMA Ends ==
    ASSUME host.ended = "running", host'.ended = "clean", Running = {}, UNCHANGED vol
    PROVE  V!End
BY DEF V!End, Running

LEMMA StartsAgain ==
    ASSUME host.ended # "running", host'.ended = "running", UNCHANGED vol
    PROVE  V!Again
BY DEF V!Again

LEMMA NoVolume ==
    ASSUME UNCHANGED vol, host'.ended = host.ended PROVE UNCHANGED V!vvars
BY Stutters DEF SameLetters, SameFiles, SameSaved, Running, Letter, Saved

\* What a step at one volume leaves alone.
LEMMA OneVolume ==
    ASSUME TypeOK, NEW v \in Mount, OnlyVolume(v)
    PROVE  /\ \A w \in Mount : w # v => /\ Letter(w)' = Letter(w) /\ Saved(w)' = Saved(w)
                                        /\ vol'[w].dirty = vol[w].dirty
           /\ Running' = IF vol'[v].engine = "on" THEN Running \cup {v} ELSE Running \ {v}
           /\ vol'[v].drive = vol[v].drive => Letter(v)' = Letter(v)
           /\ vol'[v].dirty = vol[v].dirty /\ vol'[v].copied = vol[v].copied /\ vol'[v].kept = vol[v].kept =>
                 Saved(v)' = Saved(v)
BY DEF OnlyVolume, Letter, Saved, Running

\* Until it is saved, nothing of a running volume is copied or kept.
LEMMA RunsUntouched ==
    ASSUME TypeOK, HandInv, HeldInv, VolInv, NEW v \in Mount, vol[v].engine = "on",
           Serving(v) \/ \E p \in Process : call[p].id = v /\ call[p].at # "free"
    PROVE  Untouched(v)
<1>1. Untouched(v) \/ \E p \in Process : call[p].at = "free" /\ call[p].id = v
  BY DEF VolInv, VolOf
<1>2. ASSUME NEW p \in Process, call[p].at = "free", call[p].id = v PROVE Untouched(v)
  <2>1. vol[v].drive = "gone"
    BY <1>2 DEF HeldInv, Held
  <2>2. \A q \in Process : call[q].id = v => q = p
    BY <1>2 DEF HandInv, Holds
  <2> QED
    BY <1>2, <2>1, <2>2 DEF Serving
<1> QED
  BY <1>1, <1>2

\* Each step is one of Volumes, or none.
LEMMA RefinesStep ==
    ASSUME IInv, LettersAreLetters, "slips_in" \notin case.events, "impatient" \notin case.events, [Next]_vars
    PROVE  V!VNext \/ UNCHANGED V!vvars
<1>0. /\ TypeOK /\ ShapeInv /\ HostInv /\ HandInv /\ HolderInv /\ HeldInv /\ VolInv /\ TearInv
      /\ \A v \in Mount : vol[v].engine = "on" <=> v \in Running
  BY DEF IInv, Running
<1>1. ASSUME NEW p \in Process, Serve(p) PROVE V!VNext \/ UNCHANGED V!vvars
  <2>1. PICK v \in Mount :
           /\ v = call[p].id /\ OnlyVolume(v) /\ LetterFree(vol[v].target)
           /\ vol'[v].drive = "up" /\ vol'[v].engine = "on" /\ vol'[v].dirty = vol[v].dirty
           /\ vol'[v].copied = vol[v].copied /\ vol'[v].kept = vol[v].kept
    BY <1>0, <1>1, ServeEffect
  <2>2. /\ call[p].at = "build" /\ UNCHANGED host /\ vol[v].engine = "none"
    BY <1>0, <1>1, <2>1, ServeEffect DEF HeldInv, Held, Serving
  <2>3. /\ vol[v].drive = "none" /\ vol[v].target \in Target /\ host.ended = "running"
    BY <1>0, <2>1, <2>2, Active DEF VolInv, VolOf, HandInv, Holds
  <2>4. Letter(v) = "none" /\ Letter(v)' = vol[v].target
    BY <2>1, <2>3 DEF Letter, OnlyVolume
  <2>5. \A w \in Mount : Letter(w) # vol[v].target
    BY <1>0, <2>1, <2>3, FieldFacts DEF Letter, LetterFree, LettersAreLetters
  <2>6. Running' = Running \cup {v} /\ SameFiles /\ SameSaved /\ \A w \in Mount : w # v => Letter(w)' = Letter(w)
    BY <1>0, <2>1, OneVolume DEF SameFiles, SameSaved
  <2>7. PICK t \in Target : t = vol[v].target
    BY <2>3
  <2>8. V!Attach(v, t)
    BY <2>2, <2>3, <2>4, <2>5, <2>6, <2>7, Attaches
  <2> QED
    BY <2>8 DEF V!VNext
<1>2. ASSUME NEW p \in Process, MountFails(p) PROVE V!VNext \/ UNCHANGED V!vvars
  <2>1. PICK v \in Mount :
           /\ v = call[p].id /\ OnlyVolume(v)
           /\ vol'[v].drive = vol[v].drive /\ vol'[v].engine = "off" /\ vol'[v].dirty = vol[v].dirty
           /\ vol'[v].copied = vol[v].copied /\ vol'[v].kept = vol[v].kept
    BY <1>0, <1>2, MountFailsEffect
  <2>2. /\ call[p].at = "build" /\ UNCHANGED host /\ vol[v].engine = "none"
    BY <1>0, <1>2, <2>1, MountFailsEffect DEF HeldInv, Held, Serving
  <2>3. SameLetters /\ SameFiles /\ SameSaved /\ Running' = Running
    BY ZenonT(40), <1>0, <2>1, <2>2, OneVolume DEF SameLetters, SameFiles, SameSaved
  <2> QED
    BY <2>2, <2>3, Stutters
<1>3. ASSUME NEW p \in Process, Settle(p) PROVE V!VNext \/ UNCHANGED V!vvars
  <2>1. UNCHANGED vol /\ host'.ended = host.ended
    BY <1>0, <1>3, SettleEffect
  <2> QED
    BY <2>1, NoVolume
<1>4. ASSUME NEW p \in Process, PruneFailed(p) PROVE V!VNext \/ UNCHANGED V!vvars
  <2>1. UNCHANGED vol /\ host'.ended = host.ended
    BY <1>0, <1>4, PruneEffect
  <2> QED
    BY <2>1, NoVolume
<1>5. ASSUME NEW p \in Process, DriveGone(p) PROVE V!VNext \/ UNCHANGED V!vvars
  <2>1. PICK v \in Mount :
           /\ v = call[p].id /\ OnlyVolume(v)
           /\ vol'[v].drive = "gone" /\ vol'[v].engine = vol[v].engine /\ vol'[v].dirty = vol[v].dirty
           /\ vol'[v].copied = vol[v].copied /\ vol'[v].kept = vol[v].kept
    BY <1>0, <1>5, DriveGoneEffect
  <2>2. /\ call[p].at = "drive" /\ UNCHANGED host /\ vol[v].engine = "on"
    BY <1>0, <1>5, <2>1, DriveGoneEffect DEF HeldInv, Held, Serving
  <2>3. /\ vol[v].drive \in {"up", "lost"} /\ vol[v].target \in Target /\ v \in Running
    BY <1>0, <2>1, <2>2 DEF HeldInv, Held, Serving, HandInv, Holds
  <2>4. /\ Running' = Running /\ SameFiles /\ SameSaved /\ Letter(v)' = "gone"
        /\ \A w \in Mount : w # v => Letter(w)' = Letter(w)
    <3>1. Letter(v)' = "gone"
      BY <2>1 DEF Letter
    <3> QED
      BY ZenonT(40), <1>0, <2>1, <2>2, <2>3, <3>1, OneVolume DEF SameFiles, SameSaved
  <2>5. CASE vol[v].drive = "up"
    <3>1. Letter(v) \in Target
      BY <2>3, <2>5 DEF Letter
    <3>2. V!Detach(v)
      BY <2>2, <2>3, <2>4, <3>1, Detaches
    <3> QED
      BY <3>2 DEF V!VNext
  <2>6. CASE vol[v].drive = "lost"
    <3>1. SameLetters
      BY <2>4, <2>6 DEF SameLetters, Letter
    <3> QED
      BY <2>2, <2>4, <3>1, Stutters
  <2> QED
    BY <2>3, <2>5, <2>6
<1>6. ASSUME NEW p \in Process, Drain(p) PROVE V!VNext \/ UNCHANGED V!vvars
  <2>1. PICK v \in Mount :
           /\ v = call[p].id /\ OnlyVolume(v)
           /\ vol'[v].drive = vol[v].drive /\ vol'[v].engine = vol[v].engine
           /\ \E sent \in SUBSET vol[v].dirty : vol'[v].dirty = vol[v].dirty \ sent
           /\ vol'[v].copied = vol[v].copied /\ vol'[v].kept = vol[v].kept
    BY <1>0, <1>6, DrainEffect
  <2>2. /\ call[p].at = "drain" /\ UNCHANGED host /\ vol[v].engine = "on"
    BY <1>0, <1>6, <2>1, DrainEffect DEF HeldInv, Held, Serving
  <2>3. PICK sent \in SUBSET vol[v].dirty : vol'[v].dirty = vol[v].dirty \ sent
    BY <2>1
  <2>4. Untouched(v) /\ v \in Running /\ sent \in SUBSET File
    BY <1>0, <2>1, <2>2, RunsUntouched, FieldFacts
  <2>5. /\ SameLetters /\ Running' = Running /\ SameSaved
        /\ \A w \in Mount : w # v => vol'[w].dirty = vol[w].dirty
    <3>1. Saved(v)' = Saved(v)
      BY <2>1, <2>4 DEF Saved, Untouched
    <3>2. \A w \in Mount : w # v => /\ Letter(w)' = Letter(w) /\ Saved(w)' = Saved(w)
                                    /\ vol'[w].dirty = vol[w].dirty
      BY <1>0, <2>1, OneVolume
    <3>3. Running' = Running /\ Letter(v)' = Letter(v)
      BY <1>0, <2>1, <2>2, <2>4, OneVolume
    <3> QED
      BY <3>1, <3>2, <3>3 DEF SameLetters, SameSaved
  <2>6. V!Send(v, sent)
    BY <2>2, <2>3, <2>4, <2>5, Sends
  <2> QED
    BY <2>4, <2>6 DEF V!VNext
<1>7. ASSUME NEW p \in Process, Save(p) PROVE V!VNext \/ UNCHANGED V!vvars
  <2>1. PICK v \in Mount :
           /\ v = call[p].id /\ OnlyVolume(v)
           /\ vol'[v].drive = vol[v].drive /\ vol'[v].engine = vol[v].engine
           /\ vol'[v].dirty = vol[v].dirty /\ (vol'[v].kept <=> vol'[v].copied # vol[v].dirty)
    BY <1>0, <1>7, SaveEffect
  <2>2. /\ call[p].at = "save" /\ UNCHANGED host /\ vol[v].engine = "on"
    BY <1>0, <1>7, <2>1, SaveEffect DEF HeldInv, Held, Serving
  <2>3. Untouched(v) /\ v \in Running /\ vol[v].dirty \in SUBSET File /\ vol[v].drive = "gone"
    BY <1>0, <2>1, <2>2, RunsUntouched, FieldFacts DEF HeldInv, Held
  <2>4. /\ SameLetters /\ Running' = Running /\ SameFiles
        /\ \A w \in Mount : w # v => Saved(w)' = Saved(w)
    BY <1>0, <2>1, <2>2, <2>3, OneVolume DEF SameLetters, SameFiles
  <2>5. Letter(v) = "gone" /\ Saved(v)' = Saved(v) \cup vol[v].dirty
    BY <2>1, <2>3 DEF Letter, Saved, Untouched
  <2>6. PICK files \in SUBSET File : files = vol[v].dirty
    BY <2>3
  <2>7. V!Keep(v, files)
    BY <2>2, <2>3, <2>4, <2>5, <2>6, KeepsFiles
  <2> QED
    BY <2>7 DEF V!VNext
<1>8. ASSUME NEW p \in Process, Free(p) PROVE V!VNext \/ UNCHANGED V!vvars
  <2>1. PICK v \in Mount :
           /\ v = call[p].id /\ OnlyVolume(v)
           /\ vol'[v].drive = vol[v].drive /\ vol'[v].engine = "off" /\ vol'[v].dirty = vol[v].dirty
           /\ vol'[v].copied = vol[v].copied /\ vol'[v].kept = vol[v].kept
    BY <1>0, <1>8, FreeEffect
  <2>2. /\ call[p].at = "free" /\ UNCHANGED host /\ vol[v].engine = "on"
    BY <1>0, <1>8, <2>1, FreeEffect DEF HeldInv, Held, Serving
  <2>3. v \in Running /\ Letter(v) = "gone" /\ vol[v].dirty \subseteq Saved(v)
    BY <1>0, <2>1, <2>2 DEF HeldInv, Held, Letter, Saved
  <2>4. SameLetters /\ Running' = Running \ {v} /\ SameFiles /\ SameSaved
    BY <1>0, <2>1, OneVolume DEF SameLetters, SameFiles, SameSaved
  <2>5. V!GiveUp(v)
    BY <2>2, <2>3, <2>4, GivesUp
  <2> QED
    BY <2>5 DEF V!VNext
<1>9. ASSUME NEW p \in Process, Retain(p) PROVE V!VNext \/ UNCHANGED V!vvars
  <2>1. UNCHANGED vol /\ host'.ended = host.ended
    BY <1>0, <1>9, RetainEffect
  <2> QED
    BY <2>1, NoVolume
<1>10. ASSUME NEW p \in Process, NextLost(p) PROVE V!VNext \/ UNCHANGED V!vvars
  <2>1. UNCHANGED vol /\ host'.ended = host.ended
    BY <1>0, <1>10, NextLostEffect
  <2> QED
    BY <2>1, NoVolume
<1>11. ASSUME NEW p \in Process, ListMounts(p) PROVE V!VNext \/ UNCHANGED V!vvars
  <2>1. UNCHANGED vol /\ host'.ended = host.ended
    BY <1>0, <1>11, ListEffect
  <2> QED
    BY <2>1, NoVolume
<1>12. ASSUME NEW p \in Process, WriteJournal(p) \/ WriteFails(p) PROVE V!VNext \/ UNCHANGED V!vvars
  <2>1. UNCHANGED vol /\ host'.ended = host.ended
    BY <1>0, <1>12, WriteEffect
  <2> QED
    BY <2>1, NoVolume
<1>13. ASSUME NEW p \in Thread, NEW v \in case.mounts, NEW t \in case.targets, MountBegin(p, v, t) PROVE V!VNext \/ UNCHANGED V!vvars
  <2>1. /\ v \in Mount /\ vol[v] = Fresh /\ UNCHANGED host /\ \A w \in Mount : w # v => vol'[w] = vol[w]
        /\ vol'[v].drive = "none" /\ vol'[v].engine = "none" /\ vol'[v].dirty = {}
        /\ vol'[v].copied = {} /\ ~vol'[v].kept
    BY <1>0, <1>13, MountBeginEffect
  <2>2. vol[v].drive = "none" /\ vol[v].engine = "none" /\ vol[v].dirty = {} /\ vol[v].copied = {} /\ ~vol[v].kept
    BY <2>1 DEF Fresh
  <2>3. SameLetters /\ SameFiles /\ SameSaved /\ Running' = Running
    BY <2>1, <2>2 DEF SameLetters, SameFiles, SameSaved, Running, Letter, Saved
  <2> QED
    BY <2>1, <2>3, Stutters
<1>14. ASSUME NEW p \in Thread, NEW t \in case.targets, NEW force \in BOOLEAN, UnmountBegin(p, t, force) PROVE V!VNext \/ UNCHANGED V!vvars
  <2>1. UNCHANGED vol /\ host'.ended = host.ended
    BY <1>0, <1>14, UnmountEffect
  <2> QED
    BY <2>1, NoVolume
<1>15. ASSUME NEW p \in Thread, NEW t \in case.targets, Dismiss(p, t) PROVE V!VNext \/ UNCHANGED V!vvars
  <2>1. UNCHANGED vol /\ host'.ended = host.ended
    BY <1>0, <1>15, DismissEffect
  <2> QED
    BY <2>1, NoVolume
<1>16. ASSUME NEW p \in Process, (p \in Thread /\ List(p)) \/ (p = Monitor /\ Tick) PROVE V!VNext \/ UNCHANGED V!vvars
  <2>1. UNCHANGED vol /\ host'.ended = host.ended
    BY <1>0, <1>16, CheckEffect
  <2> QED
    BY <2>1, NoVolume
<1>17. ASSUME NEW p \in Thread, Shutdown(p) PROVE V!VNext \/ UNCHANGED V!vvars
  <2>1. UNCHANGED vol /\ host'.ended = host.ended
    BY <1>0, <1>17, ShutdownEffect
  <2> QED
    BY <2>1, NoVolume
<1>18. CASE Decide
  <2>1. UNCHANGED vol /\ host'.ended = host.ended
    BY <1>0, <1>18, DecideEffect
  <2> QED
    BY <2>1, NoVolume
<1>19. CASE RequestShutdown
  <2>1. UNCHANGED vol /\ host'.ended = host.ended
    BY <1>0, <1>19, RequestShutdownEffect
  <2> QED
    BY <2>1, NoVolume
<1>20. CASE StopAll
  <2>1. UNCHANGED vol /\ host'.ended = host.ended
    BY <1>0, <1>20, StopAllEffect
  <2> QED
    BY <2>1, NoVolume
<1>21. CASE StopNext
  <2>1. UNCHANGED vol /\ host'.ended = host.ended
    BY <1>0, <1>21, StopNextEffect
  <2> QED
    BY <2>1, NoVolume
<1>22. CASE Clear
  <2>1. UNCHANGED vol /\ host'.ended = host.ended
    BY <1>0, <1>22, ClearEffect, ClearFindsNone
  <2> QED
    BY <2>1, NoVolume
<1>23. CASE EraseJournal
  <2>1. UNCHANGED vol /\ host'.ended = host.ended
    BY <1>0, <1>23, EraseEffect
  <2> QED
    BY <2>1, NoVolume
<1>24. CASE Exit
  <2>1. host.ended = "running" /\ host'.ended = "clean"
    BY <1>0, <1>24, DiesEffect, Active, Facts DEF Exit
  <2>2. \A v \in Mount : vol[v].engine # "on"
    BY <1>0, <1>24, ExitFindsNone
  <2>3. vol' \in [Mount -> Volume] /\ \A v \in Mount : vol'[v] = vol[v]
    BY <1>0, <1>24, <2>2, DiesEffect DEF Exit
  <2>4. UNCHANGED vol
    BY <1>0, <2>3 DEF TypeOK
  <2>5. Running = {}
    BY <2>2 DEF Running
  <2>6. V!End
    BY <2>1, <2>4, <2>5, Ends
  <2> QED
    BY <2>6 DEF V!VNext
<1>25. CASE Start
  <2>1. UNCHANGED vol /\ host'.ended = "running"
    BY <1>0, <1>25, StartEffect
  <2>2. CASE host.ended = "running"
    BY <2>1, <2>2, NoVolume
  <2>3. CASE host.ended # "running"
    BY <2>1, <2>3, StartsAgain DEF V!VNext
  <2> QED
    BY <2>2, <2>3
<1>26. CASE Crash
  <2>1. /\ host.ended = "running" /\ host'.ended = "killed"
        /\ \A v \in Mount :
              \/ vol[v].engine # "on" /\ vol'[v] = vol[v]
              \/ /\ vol[v].engine = "on" /\ vol'[v].engine = "killed" /\ vol'[v].drive = "gone"
                 /\ vol'[v].target = vol[v].target /\ vol'[v].dirty = vol[v].dirty
                 /\ vol'[v].copied = vol[v].copied /\ vol'[v].kept = vol[v].kept
    BY <1>0, <1>26, CrashEffect, DiesEffect DEF HostInv
  <2>2. Running' = {} /\ SameFiles /\ SameSaved
    BY <2>1 DEF Running, SameFiles, SameSaved, Saved
  <2>3. \A w \in Mount : Letter(w)' = IF w \in Running THEN "gone" ELSE Letter(w)
    BY <2>1 DEF Running, Letter
  <2>4. V!Killed
    BY <2>1, <2>2, <2>3, IsKilled
  <2> QED
    BY <2>4 DEF V!VNext
<1>27. ASSUME NEW k \in Client, ReadJournal(k) PROVE V!VNext \/ UNCHANGED V!vvars
  <2>1. UNCHANGED vol /\ host'.ended = host.ended
    BY <1>0, <1>27, ReadEffect
  <2> QED
    BY <2>1, NoVolume
<1>28. ASSUME NEW k \in Client, TakeJournal(k) PROVE V!VNext \/ UNCHANGED V!vvars
  <2>1. UNCHANGED vol /\ host'.ended = host.ended
    BY <1>0, <1>28, TakeEffect
  <2> QED
    BY <2>1, NoVolume
<1>29. ASSUME NEW v \in Mount, Program(v) PROVE V!VNext \/ UNCHANGED V!vvars
  <2>1. Serving(v) /\ Serving(v)' /\ OnlyVolume(v) /\ UNCHANGED host
    BY <1>0, <1>29, ProgramServes, ProgramEffect
  <2>2. Untouched(v) /\ v \in Running /\ vol'[v].copied = vol[v].copied /\ vol'[v].kept = vol[v].kept
    BY <1>0, <1>29, <2>1, RunsUntouched, ProgramEffect DEF Serving
  <2>3. /\ Running' = Running /\ SameSaved
        /\ \A w \in Mount : w # v => Letter(w)' = Letter(w) /\ vol'[w].dirty = vol[w].dirty
    <3>1. Saved(v)' = Saved(v)
      BY <2>2 DEF Saved, Untouched
    <3> QED
      BY <1>0, <2>1, <2>2, <3>1, OneVolume DEF SameSaved, Serving
  <2>4. vol[v].target \in Target
    <3>1. (\E p \in Process : Holds(p, v)) \/ \E e \in entries : e.id = v
      BY <1>0, <2>1 DEF HolderInv, Serving
    <3> QED
      BY <1>0, <3>1, EntryFacts DEF HandInv, HolderInv
  <2>5. \/ vol[v].drive = "up" /\ vol'[v].drive \in {"up", "lost"} /\ vol'[v].dirty = vol[v].dirty
        \/ /\ vol[v].drive = "up" /\ vol'[v].drive = "up"
           /\ \E f \in File : vol'[v].dirty = vol[v].dirty \cup {f}
        \/ /\ vol[v].engine = "on" /\ vol[v].drive # "gone" /\ vol'[v].drive = vol[v].drive
           /\ \E f \in File : vol'[v].dirty = vol[v].dirty \ {f}
    BY ONLY <1>0, v \in Mount, <1>29, ProgramEffect
  <2>6. CASE vol[v].drive = "up" /\ vol'[v].drive \in {"up", "lost"} /\ vol'[v].dirty = vol[v].dirty
    <3>1. SameFiles
      BY <2>3, <2>6 DEF SameFiles
    <3>2. CASE vol'[v].drive = "up"
      <4>1. SameLetters
        BY <2>1, <2>3, <2>6, <3>2 DEF SameLetters, Letter, OnlyVolume
      <4> QED
        BY <2>1, <2>3, <3>1, <4>1, Stutters
    <3>3. CASE vol'[v].drive = "lost"
      <4>1. Letter(v) \in Target /\ Letter(v)' = "gone"
        BY <2>4, <2>6, <3>3 DEF Letter
      <4>2. V!Detach(v)
        BY <2>1, <2>2, <2>3, <3>1, <4>1, Detaches
      <4> QED
        BY <4>2 DEF V!VNext
    <3> QED
      BY <2>6, <3>2, <3>3
  <2>7. ASSUME vol[v].drive = "up", vol'[v].drive = "up", NEW f \in File, vol'[v].dirty = vol[v].dirty \cup {f}
        PROVE  V!VNext
    <3>1. SameLetters /\ Letter(v) \in Target
      BY <2>1, <2>3, <2>4, <2>7 DEF SameLetters, Letter, OnlyVolume
    <3>2. V!Accept(v, f)
      BY <2>1, <2>2, <2>3, <2>7, <3>1, Accepts
    <3> QED
      BY <3>2 DEF V!VNext
  <2>8. ASSUME vol'[v].drive = vol[v].drive, NEW f \in File, vol'[v].dirty = vol[v].dirty \ {f}
        PROVE  V!VNext
    <3>1. SameLetters
      BY <2>1, <2>3, <2>8 DEF SameLetters, Letter, OnlyVolume
    <3>2. {f} \cap vol[v].dirty \in SUBSET File /\ vol'[v].dirty = vol[v].dirty \ ({f} \cap vol[v].dirty)
      BY <2>8
    <3>3. PICK sent \in SUBSET File : sent = {f} \cap vol[v].dirty
      BY <3>2
    <3>4. sent \subseteq vol[v].dirty /\ vol'[v].dirty = vol[v].dirty \ sent
      BY <3>2, <3>3
    <3>5. \A w \in Mount : w # v => vol'[w].dirty = vol[w].dirty
      BY <2>3
    <3>6. V!Send(v, sent)
      BY <2>1, <2>2, <2>3, <3>1, <3>4, <3>5, Sends
    <3> QED
      BY <3>6 DEF V!VNext
  <2> QED
    BY <2>5, <2>6, <2>7, <2>8
<1>30. CASE UNCHANGED vars
  <2>1. UNCHANGED vol /\ host'.ended = host.ended
    BY <1>30 DEF vars
  <2> QED
    BY <2>1, NoVolume
<1> QED
  BY <1>1, <1>2, <1>3, <1>4, <1>5, <1>6, <1>7, <1>8, <1>9, <1>10, <1>11, <1>12, <1>13, <1>14, <1>15,
     <1>16, <1>17, <1>18, <1>19, <1>20, <1>21, <1>22, <1>23, <1>24, <1>25, <1>26, <1>27, <1>28,
     <1>29, <1>30, <1>0, Facts
  DEF Next, ProcessStep, MonitorStep, Request

\* The supervisor of Windows keeps the promises of Volumes: step by step each of its
\* runs is one of Volumes, if no mount slips into unmount_all and the process waits for
\* its unmounts (registry.rs, mounter.rs, host.rs).
THEOREM SupervisorImplementsVolumes ==
    ASSUME LettersAreLetters, \A c \in Case : "slips_in" \notin c.events /\ "impatient" \notin c.events
    PROVE  Spec => ImplementsVolumes
<1>1. ASSUME Init PROVE V!VInit
  <2>1. \A v \in Mount : /\ vol[v].drive = "none" /\ vol[v].engine = "none" /\ vol[v].dirty = {}
                         /\ vol[v].copied = {} /\ ~vol[v].kept
    BY <1>1 DEF Init, Fresh
  <2>2. host.ended = "running"
    BY <1>1 DEF Init
  <2> QED
    BY <2>1, <2>2 DEF V!VInit
<1>2. ASSUME IInv, [Next]_vars PROVE [V!VNext]_(V!vvars)
  <2>1. "slips_in" \notin case.events /\ "impatient" \notin case.events
    BY <1>2 DEF IInv, TypeOK
  <2> QED
    BY <1>2, <2>1, RefinesStep
<1> QED
  BY <1>1, <1>2, Inductive, PTL DEF Spec, ImplementsVolumes, V!VSpec

\* The promises of Volumes are kept by each of its steps.
Promises == V!OneDrivePerLetter /\ V!EndedIsOver

\* A step of Volumes keeps the letters apart and the end final.
LEMMA PromiseStep ==
    ASSUME LettersAreLetters, Promises, [V!VNext]_(V!vvars) PROVE Promises'
<1>0. V!OneDrivePerLetter /\ V!EndedIsOver
  BY DEF Promises
<1>1. ASSUME NEW v \in Mount, V!Detach(v) PROVE Promises'
  <2>1. \A w \in Mount : Letter(w)' = IF w = v THEN "gone" ELSE Letter(w)
    BY <1>1 DEF V!Detach, Letter
  <2>2. V!OneDrivePerLetter'
    <3>1. \A u, w \in Mount : Letter(u) = Letter(w) /\ Letter(u) \in Target => u = w
      BY <1>0 DEF V!OneDrivePerLetter, Letter
    <3>2. \A u, w \in Mount : Letter(u)' = Letter(w)' /\ Letter(u)' \in Target => u = w
      BY <2>1, <3>1 DEF LettersAreLetters
    <3> QED BY <3>2 DEF V!OneDrivePerLetter, Letter
  <2>3. V!EndedIsOver'
    BY <1>0, <1>1 DEF V!Detach, V!EndedIsOver
  <2> QED BY <2>2, <2>3 DEF Promises
<1>2. ASSUME NEW v \in Mount, V!GiveUp(v) PROVE Promises'
  BY <1>0, <1>2 DEF V!GiveUp, Promises, V!OneDrivePerLetter, V!EndedIsOver
<1>3. ASSUME NEW v \in Mount, NEW t \in Target, V!Attach(v, t) PROVE Promises'
  <2>1. \A w \in Mount : Letter(w)' = IF w = v THEN t ELSE Letter(w)
    BY <1>3 DEF V!Attach, Letter
  <2>2. V!OneDrivePerLetter'
    <3>1. \A u, w \in Mount : Letter(u) = Letter(w) /\ Letter(u) \in Target => u = w
      BY <1>0 DEF V!OneDrivePerLetter, Letter
    <3>0. \A w \in Mount : Letter(w) # t
      BY <1>3 DEF V!Attach, Letter
    <3>2. \A u, w \in Mount : Letter(u)' = Letter(w)' /\ Letter(u)' \in Target => u = w
      BY <2>1, <3>0, <3>1 DEF LettersAreLetters
    <3> QED BY <3>2 DEF V!OneDrivePerLetter, Letter
  <2>3. V!EndedIsOver'
    BY <1>0, <1>3 DEF V!Attach, V!EndedIsOver
  <2> QED BY <2>2, <2>3 DEF Promises
<1>4. ASSUME NEW v \in Mount, NEW f \in File, V!Accept(v, f) PROVE Promises'
  <2>1. V!OneDrivePerLetter'
    BY <1>0, <1>4 DEF LettersAreLetters, V!Accept, V!OneDrivePerLetter
  <2>2. V!EndedIsOver'
    BY <1>0, <1>4 DEF V!Accept, V!EndedIsOver
  <2> QED BY <2>1, <2>2 DEF Promises
<1>5. ASSUME NEW v \in Mount, NEW files \in SUBSET File, V!Send(v, files) \/ V!Keep(v, files) PROVE Promises'
  <2>1. V!OneDrivePerLetter'
    BY <1>0, <1>5 DEF LettersAreLetters, V!Send, V!Keep, V!OneDrivePerLetter
  <2>2. V!EndedIsOver'
    BY <1>0, <1>5 DEF V!Send, V!Keep, V!EndedIsOver
  <2> QED BY <2>1, <2>2 DEF Promises
<1>6. CASE V!End
  BY <1>0, <1>6 DEF V!End, Promises, V!OneDrivePerLetter, V!EndedIsOver
<1>7. CASE V!Killed
  <2>1. V!EndedIsOver'
    BY <1>0, <1>7 DEF V!Killed, V!EndedIsOver
  <2>2. V!OneDrivePerLetter'
    BY <1>0, <1>7 DEF LettersAreLetters, V!Killed, V!OneDrivePerLetter
  <2> QED BY <2>1, <2>2 DEF Promises
<1>8. CASE V!Again
  BY <1>0, <1>8 DEF V!Again, Promises, V!OneDrivePerLetter, V!EndedIsOver
<1>9. CASE UNCHANGED V!vvars
  BY <1>0, <1>9 DEF V!vvars, Promises, V!OneDrivePerLetter, V!EndedIsOver
<1> QED BY <1>1, <1>2, <1>3, <1>4, <1>5, <1>6, <1>7, <1>8, <1>9 DEF V!VNext

\* What follows from it: no two drives of the mount host ever share a letter, and a host
\* that ended by itself left no volume behind (registry.rs, host.rs).
THEOREM PromisesKept ==
    ASSUME LettersAreLetters, \A c \in Case : "slips_in" \notin c.events /\ "impatient" \notin c.events
    PROVE  Spec => [](V!OneDrivePerLetter /\ V!EndedIsOver)
<1>1. V!VInit => Promises
  BY DEF LettersAreLetters, V!VInit, Promises, V!OneDrivePerLetter, V!EndedIsOver
<1>2. Promises /\ [V!VNext]_(V!vvars) => Promises'
  BY PromiseStep
<1>3. Promises => V!OneDrivePerLetter /\ V!EndedIsOver
  BY DEF Promises
<1> QED BY <1>1, <1>2, <1>3, SupervisorImplementsVolumes, PTL DEF ImplementsVolumes, V!VSpec
=============================================================================
