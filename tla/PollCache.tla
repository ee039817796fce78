----------------------------- MODULE PollCache -----------------------------
(***************************************************************************)
(* The cache of polls of one instance: internal/poll/cache.go, filled by    *)
(* Warm before the instance is ready (main.go) and by the handlers that     *)
(* call Get, over the tables (internal/poll/store.go).                      *)
(*                                                                         *)
(* A flight is a call of singleflight: the load of one poll that all its    *)
(* callers share, run by its leader with the context of the leader.         *)
(***************************************************************************)
EXTENDS Clock, FiniteSets, Functions

CONSTANTS
    Polls,          \* uuids of polls
    Fakes,          \* uuids of no poll, which requests ask for as well
    PollEnd,        \* ends_at of the polls
    Getters,        \* requests that call Get, over and over
    Nobody, Nothing,
    NegativeTTL,    \* negativeTTL
    MaxNegative,    \* maxNegative
    LoadLimit,      \* longest a load takes
    CacheEnd        \* bound: end of time

ASSUME CacheAssumption ==
    /\ PollEnd \in Nat /\ Nobody \notin Getters
    /\ NegativeTTL \in Nat /\ LoadLimit \in Nat /\ CacheEnd \in Nat /\ MaxNegative \in Nat \ {0}

VARIABLES
    created,            \* when the poll of each uuid was created
    phase,              \* how far main.go is
    warming,            \* the polls that Warm has read and not yet put
    warmed,             \* history: all that it has read
    byID, missedAt,     \* the fields of Cache
    flight, leader, since,          \* the load of each poll, who runs it, when it began
    at, want, began,    \* each request: its state, its poll, when it asked
    gone                \* the leaders whose client has hung up

loads == <<flight, leader, since>>
getters == <<at, want, began, gone>>
cacheVars == <<created, phase, warming, warmed, byID, missedAt, loads, getters>>

Never == CacheEnd + 1
Landed == {"loaded", "absent"}
Flights == {"none", "reading", "found", "missing"} \cup Landed

Ids == Polls \cup Fakes

Exists(p) == created[p] # Never

CacheInit ==
    /\ created = [p \in Ids |-> Never]
    /\ phase = "starting" /\ warming = {} /\ warmed = {}
    /\ byID = {} /\ missedAt = <<>>
    /\ flight = [p \in Ids |-> "none"] /\ leader = [p \in Ids |-> Nobody]
    /\ since = [p \in Ids |-> 0]
    /\ at = [g \in Getters |-> "idle"] /\ want = [g \in Getters |-> Nothing]
    /\ began = [g \in Getters |-> 0] /\ gone = {}

-----------------------------------------------------------------------------
(* The tables, and the start of the process.                               *)

\* handleCreatePoll, on any instance: the caches do not hear of it.
Create(p) ==
    /\ ~Exists(p)
    /\ created' = [created EXCEPT ![p] = now]
    /\ UNCHANGED <<now, phase, warming, warmed, byID, missedAt, loads, getters>>

\* Warm: Active, then one Put after the other.
WarmRead ==
    /\ phase = "starting"
    /\ phase' = "warming"
    /\ warming' = {p \in Polls : Exists(p) /\ now < PollEnd}
    /\ warmed' = warming'
    /\ UNCHANGED <<now, created, byID, missedAt, loads, getters>>

WarmPut ==
    /\ phase = "warming"
    /\ \E p \in warming : byID' = byID \cup {p} /\ warming' = warming \ {p}
    /\ UNCHANGED <<now, created, phase, warmed, missedAt, loads, getters>>

\* Mutant: the instance serves while Warm is at work.
ReadyEarly ==
    /\ phase = "warming"
    /\ phase' = "ready" /\ warming' = {}
    /\ UNCHANGED <<now, created, warmed, byID, missedAt, loads, getters>>

\* MarkReady: nginx sends requests from now on.
Ready ==
    /\ phase = "warming" /\ warming = {}
    /\ phase' = "ready"
    /\ UNCHANGED <<now, created, warming, warmed, byID, missedAt, loads, getters>>

\* The process is restarted: its memory and its requests are gone.
Restart ==
    /\ phase = "ready"
    /\ phase' = "starting" /\ warming' = {} /\ warmed' = {}
    /\ byID' = {} /\ missedAt' = <<>>
    /\ flight' = [p \in Ids |-> "none"] /\ leader' = [p \in Ids |-> Nobody]
    /\ since' = [p \in Ids |-> 0]
    /\ at' = [g \in Getters |-> "idle"] /\ want' = [g \in Getters |-> Nothing]
    /\ began' = [g \in Getters |-> 0] /\ gone' = {}
    /\ UNCHANGED <<now, created>>

-----------------------------------------------------------------------------
(* Get.                                                                    *)

\* The calls of the requests gs end with the result x; what was asked is kept for a miss.
Return(gs, x) ==
    /\ at' = [g \in Getters |-> IF g \notin gs THEN at[g]
                               ELSE IF x = "absent" THEN "absent" ELSE "idle"]
    /\ want' = [g \in Getters |-> IF g \in gs /\ x # "absent" THEN Nothing ELSE want[g]]
    /\ began' = [g \in Getters |-> IF g \in gs /\ x # "absent" THEN 0 ELSE began[g]]
    /\ gone' = gone \ gs

Asks(g, p, x) ==
    /\ at' = [at EXCEPT ![g] = x]
    /\ want' = [want EXCEPT ![g] = p] /\ began' = [began EXCEPT ![g] = now]
    /\ UNCHANGED gone

Missed(p) == p \in DOMAIN missedAt /\ now - missedAt[p] < NegativeTTL

\* lookup, under the lock.
Ask(g, p) ==
    /\ phase = "ready" /\ at[g] \in {"idle", "absent"}
    /\ IF p \in byID THEN Return({g}, "loaded")
       ELSE IF Missed(p) THEN Asks(g, p, "absent") ELSE Asks(g, p, "join")
    /\ UNCHANGED <<now, created, phase, warming, warmed, byID, missedAt, loads>>

\* singleflight: the first one runs the load, the others wait for it.
Join(g) ==
    /\ at[g] = "join"
    /\ at' = [at EXCEPT ![g] = "wait"]
    /\ LET p == want[g] IN
        IF flight[p] = "none"
            THEN /\ flight' = [flight EXCEPT ![p] = "reading"]
                 /\ leader' = [leader EXCEPT ![p] = g] /\ since' = [since EXCEPT ![p] = now]
            ELSE UNCHANGED loads
    /\ UNCHANGED <<now, created, phase, warming, warmed, byID, missedAt,
                   want, began, gone>>

\* The voter whose request runs a load goes away: the context of the load is cancelled.
HangUp(g) ==
    /\ \E p \in Ids : leader[p] = g /\ flight[p] = "reading"
    /\ gone' = gone \cup {g}
    /\ UNCHANGED <<now, created, phase, warming, warmed, byID, missedAt, loads, at, want, began>>

Becomes(p, x) == flight' = [flight EXCEPT ![p] = x] /\ UNCHANGED <<leader, since>>

\* store.go Get, two queries: the poll and its options were committed together.
ReadPoll(p) ==
    /\ flight[p] = "reading" /\ leader[p] \notin gone
    /\ Becomes(p, IF Exists(p) THEN "found" ELSE "missing")
    /\ UNCHANGED <<now, created, phase, warming, warmed, byID, missedAt, getters>>

Put(p) ==
    /\ flight[p] = "found"
    /\ byID' = byID \cup {p}
    /\ missedAt' = Restrict(missedAt, DOMAIN missedAt \ {p})
    /\ Becomes(p, "loaded")
    /\ UNCHANGED <<now, created, phase, warming, warmed, getters>>

\* Mutant: the limit is exceeded before the map is emptied.
RememberOneMore(p) ==
    /\ flight[p] = "missing"
    /\ missedAt' = [q \in {p} \cup (IF Cardinality(DOMAIN missedAt) > MaxNegative
                                       THEN {} ELSE DOMAIN missedAt)
                        |-> IF q = p THEN now ELSE missedAt[q]]
    /\ Becomes(p, "absent")
    /\ UNCHANGED <<now, created, phase, warming, warmed, byID, getters>>

\* rememberMiss: at its limit the map is emptied.
Remember(p) ==
    /\ flight[p] = "missing"
    /\ missedAt' = [q \in {p} \cup (IF Cardinality(DOMAIN missedAt) >= MaxNegative
                                       THEN {} ELSE DOMAIN missedAt)
                        |-> IF q = p THEN now ELSE missedAt[q]]
    /\ Becomes(p, "absent")
    /\ UNCHANGED <<now, created, phase, warming, warmed, byID, getters>>

Callers(p) == {g \in Getters : at[g] = "wait" /\ want[g] = p}

\* The flight of p ends with the result x: all its callers return, the next one starts anew.
Lands(p, x) ==
    /\ Return(Callers(p), x)
    /\ flight' = [flight EXCEPT ![p] = "none"] /\ leader' = [leader EXCEPT ![p] = Nobody]
    /\ since' = [since EXCEPT ![p] = 0]
    /\ UNCHANGED <<now, created, phase, warming, warmed, byID, missedAt>>

Land(p) == flight[p] \in Landed /\ Lands(p, flight[p])

\* Mutant: a leader whose client has gone leaves its callers waiting.
LoadFailsUnlessGone(p) ==
    /\ flight[p] = "reading" /\ leader[p] \notin gone
    /\ Lands(p, "failed")

\* Mutant: whatever error the load had, there is no such poll.
LoadFailsAbsent(p) == flight[p] = "reading" /\ Lands(p, "absent")

\* Postgres does not answer, or the leader's context is cancelled.
LoadFails(p) == flight[p] = "reading" /\ Lands(p, "failed")

-----------------------------------------------------------------------------
\* No load, and no request that is about to join one, outlives the limit.
CacheTick ==
    /\ Passes(CacheEnd)
    /\ \A p \in Ids : flight[p] # "none" => now < since[p] + LoadLimit
    /\ \A g \in Getters : at[g] = "join" => now < began[g] + LoadLimit
    /\ UNCHANGED cacheVars

Load(p) ==
    ReadPoll(p) \/ LoadFails(p) \/ Put(p) \/ Remember(p) \/ Land(p)

CacheNext ==
    \/ \E p \in Polls : Create(p)
    \/ \E p \in Ids : Load(p)
    \/ WarmRead \/ WarmPut \/ Ready \/ Restart
    \/ \E g \in Getters : Join(g) \/ HangUp(g) \/ \E p \in Ids : Ask(g, p)
    \/ CacheTick

CacheSpec == (CacheInit /\ now = 0) /\ [][CacheNext]_<<now, cacheVars>>

\* The goroutines of a load and of a request are scheduled.
CacheFairness ==
    /\ \A p \in Ids : WF_<<now, cacheVars>>(Load(p))
    /\ \A g \in Getters : WF_<<now, cacheVars>>(Join(g))

-----------------------------------------------------------------------------
\* cache.go maxNegative: uuids that nobody has created do not grow the memory.
MissesBounded == Cardinality(DOMAIN missedAt) <= MaxNegative

CacheTypeOK ==
    /\ created \in [Ids -> 0..Never]
    /\ phase \in {"starting", "warming", "ready"}
    /\ warming \subseteq warmed /\ warmed \subseteq Polls /\ byID \subseteq Polls
    /\ flight \in [Ids -> Flights] /\ leader \in [Ids -> Getters \cup {Nobody}]
    /\ at \in [Getters -> {"idle", "join", "wait", "absent"}]
    /\ want \in [Getters -> Ids \cup {Nothing}] /\ gone \subseteq Getters
    /\ MissesBounded

\* cache.go negativeTTL ("the poll may have been created a second ago"): no request that
\* comes later than the negative TTL, and the time of one load, after the creation of a
\* poll is told that the poll does not exist: whatever loads fail, whoever hangs up, and
\* whichever flight it joins.
CreatedIsFound ==
    \A g \in Getters :
        at[g] = "absent" => began[g] <= created[want[g]] + LoadLimit + NegativeTTL

\* cache.go Warm, main.go MarkReady: a poll that the warm-up has read is never loaded by a
\* request.
WarmedIsHit == \A p \in warmed : flight[p] = "none"

\* cache.go Get: every caller gets its answer, also when the leader of its flight, whose
\* context the load uses, has hung up, and when the load fails.
GetEnds == \A g \in Getters : at[g] \in {"join", "wait"} ~> at[g] \notin {"join", "wait"}
=============================================================================
