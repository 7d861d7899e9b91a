------------------------------ MODULE PlanCache ------------------------------
(***************************************************************************)
(* CachedXetClient (cached_xet_client.rs): the cache of reconstruction     *)
(* plans in front of the CAS server, with one request under way per key.   *)
(* A key is a content and a byte range, or NoRange for the plan of the     *)
(* whole file, from which ranges are derived.                              *)
(***************************************************************************)
EXTENDS Orders, FiniteSets, SequencesExt

CONSTANTS Caller,      \* tasks that need a plan
          Terms,       \* content -> lengths of its terms, in order
          MaxPlans     \* MAX_CACHE_ENTRIES

VARIABLES plans,       \* cached plans, the last accessed last
          inflight,    \* keys with a request under way
          caller       \* what each caller does
planvars == <<plans, inflight, caller>>

NoRange == <<>>
\* cur_offset: where term n begins; behind the last term, the size.
TermStart(h, n) ==
    LET start[k \in 1..Len(Terms[h]) + 1] == IF k = 1 THEN 0 ELSE start[k - 1] + Terms[h][k - 1]
    IN  start[n]
FileSize(h) == TermStart(h, Len(Terms[h]) + 1)

\* Which terms a plan has, and the bytes of the first one to skip.
AllTerms(h) == [n \in 1..Len(Terms[h]) |-> n]
FullPlan(h) == [terms |-> AllTerms(h), skip |-> 0]
PlanOf(h, ts, from) ==
    [terms |-> ts, skip |-> IF ts # <<>> /\ from > TermStart(h, ts[1]) THEN from - TermStart(h, ts[1]) ELSE 0]
\* Mutant: a term that ends where the range begins is taken too.
DeriveTouching(h, r) ==
    PlanOf(h, Only(AllTerms(h), {n \in 1..Len(Terms[h]) : TermStart(h, n + 1) >= r[1] /\ TermStart(h, n) < r[2]}), r[1])
\* derive_range_response: the terms that overlap the range.
Derive(h, r) ==
    PlanOf(h, Only(AllTerms(h), {n \in 1..Len(Terms[h]) : TermStart(h, n + 1) > r[1] /\ TermStart(h, n) < r[2]}), r[1])

\* age of a plan: it is used for CACHE_TTL, and later its URLs expire.
Ages == {"fresh", "old", "expired"}
NotAsking == [pc |-> "idle", key |-> <<>>, plan |-> [terms |-> <<>>, skip |-> 0], age |-> "fresh"]
PlanInit ==
    /\ plans = <<>> /\ inflight = {}
    /\ caller = [c \in Caller |-> NotAsking]

Keys == {p.key : p \in ToSet(plans)}
Plan(key) == CHOOSE p \in ToSet(plans) : p.key = key
Valid(key) == key \in Keys /\ Plan(key).age = "fresh"
WithoutKey(s, key) == Only(s, {p \in ToSet(s) : p.key # key})
Answer(c, key, plan, age) == caller' = [caller EXCEPT ![c] = [pc |-> "answered", key |-> key, plan |-> plan, age |-> age]]
CallerAt(c, pc) == caller' = [caller EXCEPT ![c].pc = pc]

\* get_reconstruction: the plan of this range, or the whole file's; what has
\* passed its time is dropped on the way.
PlanStart(c, key) ==
    /\ caller[c].pc = "idle"
    /\ caller' = [caller EXCEPT ![c].pc = "check", ![c].key = key]
    /\ UNCHANGED <<plans, inflight>>
PlanCheck(c) ==
    LET key == caller[c].key
        full == <<key[1], NoRange>>
        use == IF Valid(key) THEN key ELSE full
        seen == IF Valid(key) THEN plans ELSE WithoutKey(plans, key)
        derived == Derive(key[1], key[2])
    IN  /\ caller[c].pc = "check"
        /\ IF Valid(use)
           THEN /\ plans' = Append(WithoutKey(seen, use), Plan(use))
                /\ IF use = key THEN Answer(c, key, Plan(key).plan, Plan(key).age)
                   ELSE IF derived.terms = <<>> /\ (Terms[key[1]] # <<>> \/ key[2][1] > 0)
                   THEN CallerAt(c, "nothing")
                   ELSE Answer(c, key, derived, Plan(use).age)
           ELSE plans' = WithoutKey(seen, full) /\ CallerAt(c, "join")
        /\ UNCHANGED inflight
\* One caller asks the server, the others of the same key wait for it.
PlanJoin(c) ==
    /\ caller[c].pc = "join"
    /\ IF caller[c].key \in inflight THEN CallerAt(c, "wait") /\ UNCHANGED inflight
       ELSE CallerAt(c, "lead") /\ inflight' = inflight \cup {caller[c].key}
    /\ UNCHANGED plans

\* Room for one more: range plans go first, then the least recently used.
Purged(key) == IF key[2] = NoRange
               THEN Only(plans, {p \in ToSet(plans) : p.key[1] # key[1] \/ p.key[2] = NoRange}) ELSE plans
FullOnes(s) == Only(s, {p \in ToSet(s) : p.key[2] = NoRange})
WithRoom(s) == IF Len(s) < MaxPlans THEN s
               ELSE IF Len(FullOnes(s)) < MaxPlans THEN FullOnes(s) ELSE Tail(FullOnes(s))
\* The server's answer; only a plan is remembered.  The waiters look again.
Woken(c, key, mine) == [x \in Caller |->
    IF x = c THEN mine
    ELSE IF caller[x].pc = "wait" /\ caller[x].key = key THEN [caller[x] EXCEPT !.pc = "check"] ELSE caller[x]]
PlanAnswered(c) ==
    LET key == caller[c].key
        plan == IF key[2] = NoRange THEN FullPlan(key[1]) ELSE Derive(key[1], key[2])
        entry == [key |-> key, plan |-> plan, age |-> "fresh"]
    IN  /\ caller[c].pc = "lead"
        /\ plans' = Append(WithoutKey(WithRoom(Purged(key)), key), entry)
        /\ inflight' = inflight \ {key}
        /\ caller' = Woken(c, key, [pc |-> "answered", key |-> key, plan |-> plan, age |-> "fresh"])
PlanFails(c) ==
    /\ caller[c].pc = "lead"
    /\ inflight' = inflight \ {caller[c].key}
    /\ caller' = Woken(c, caller[c].key, [caller[c] EXCEPT !.pc = "nothing"])
    /\ UNCHANGED plans
\* The reader gives up (read_fetch_timeout) and drops the call where it is.
PlanDropped(c) ==
    /\ caller[c].pc \in {"lead", "wait"}
    /\ CallerAt(c, "nothing")
    /\ UNCHANGED <<plans, inflight>>
PlanDone(c) ==
    /\ caller[c].pc \in {"answered", "nothing"}
    /\ caller' = [caller EXCEPT ![c] = NotAsking]
    /\ UNCHANGED <<plans, inflight>>
PlanAges(n) ==
    /\ n \in DOMAIN plans /\ plans[n].age # "expired"
    /\ plans' = [plans EXCEPT ![n].age = IF @ = "fresh" THEN "old" ELSE "expired"]
    /\ UNCHANGED <<inflight, caller>>

PlanStep(c) == PlanCheck(c) \/ PlanJoin(c) \/ PlanAnswered(c)

-----------------------------------------------------------------------------
(* Properties.                                                             *)

\* A plan gives exactly the bytes asked for: after the bytes to skip its
\* terms begin at the range, they reach its end, and no term is for nothing.
PlanCovers == \A c \in Caller : caller[c].pc = "answered" /\ caller[c].key[2] # NoRange =>
    LET h == caller[c].key[1]
        r == caller[c].key[2]
        ts == caller[c].plan.terms
        end(n) == TermStart(h, n + 1)
    IN  /\ ts # <<>> /\ \A k \in 1..Len(ts) - 1 : ts[k + 1] = ts[k] + 1
        /\ TermStart(h, ts[1]) + caller[c].plan.skip = r[1] /\ r[1] < end(ts[1])
        /\ end(Last(ts)) >= r[2] \/ end(Last(ts)) = FileSize(h)
        /\ TermStart(h, Last(ts)) < r[2]

\* The cache stays within its bound and has one plan per key.
PlansBounded == Len(plans) <= MaxPlans /\ IsInjective([n \in DOMAIN plans |-> plans[n].key])

\* One caller at most asks the server for a key, and its key is in flight.
OneLeader == \A c, d \in Caller : caller[c].pc = "lead" =>
    /\ caller[c].key \in inflight
    /\ caller[d].pc = "lead" /\ caller[d].key = caller[c].key => c = d

\* Who waits for the plan of another caller goes on.
WaitersWake == \A c \in Caller : caller[c].pc = "wait" ~> caller[c].pc # "wait"
=============================================================================
