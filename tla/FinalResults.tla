---------------------------- MODULE FinalResults ----------------------------
(***************************************************************************)
(* When a result is final: the caching phases of handlePublicResults        *)
(* (internal/httpapi/poll.go) against the time that the last votes take     *)
(* from the handlers through Redis and the snapshots to Postgres.           *)
(*                                                                         *)
(* One counter of one poll, which Redis does not lose; the steps within a   *)
(* flush, a refresh or a transaction are those of Batcher and Results.      *)
(* Nothing here has to be on time: the history says what was.  The unit of  *)
(* time is one in which an instance that is on time refreshes and saves.    *)
(***************************************************************************)
EXTENDS Clock, FiniteSets

CONSTANTS
    Ballots,        \* votes of the poll
    Servers,        \* instances
    EndsAt,         \* of the poll
    Grace,          \* cfg.VoteGracePeriod
    Settle,         \* resultsSettle
    SettleWindow,   \* resultsSettleWindow
    FlushLimit,     \* a vote that takes no longer from its check to Redis is on time
    ResultsEnd      \* bound: end of time

\* resultsSettle: "the last batches arrive meanwhile"; resultsSettleWindow: "not less than
\* what the public endpoint uses".
ASSUME FinalAssumption ==
    /\ {EndsAt, Grace, Settle, SettleWindow, ResultsEnd} \subseteq Nat
    /\ FlushLimit \in Nat /\ FlushLimit + 2 <= Settle
    /\ IsFiniteSet(Ballots)
    /\ Grace + Settle <= SettleWindow

VARIABLES
    ballot, cast,       \* where each vote is, and when it was checked
    row,                \* the stored count
    snap,               \* the snapshot of each instance, NoSnapshot if it has none
    cached,             \* the instances that have the poll in their cache
    refreshed, saved,   \* the instances that have done so in this unit of time
    delayed,            \* history: some vote took longer than FlushLimit
    prompt              \* history: the instances that ran on, always on time

finalVars == <<ballot, cast, row, snap, cached, refreshed, saved, delayed, prompt>>

NoSnapshot == -1
Higher(m, n) == IF m < n THEN n ELSE m

FinalInit ==
    /\ ballot = [v \in Ballots |-> "none"] /\ cast = [v \in Ballots |-> 0]
    /\ row = 0 /\ snap = [i \in Servers |-> NoSnapshot] /\ cached = Servers
    /\ refreshed = {} /\ saved = {}
    /\ delayed = FALSE /\ prompt = Servers

\* model.go StateAt and AcceptsVoteAt.
ClosedAt(t) == t >= EndsAt
AcceptsVoteAt(t) == t < EndsAt + Grace

Accepted == Cardinality({v \in Ballots : ballot[v] # "none"})
InRedis == Cardinality({v \in Ballots : ballot[v] = "counted"})

-----------------------------------------------------------------------------
\* handleVote takes the vote, later a flush counts it in Redis.
Cast(v) ==
    /\ ballot[v] = "none" /\ AcceptsVoteAt(now)
    /\ ballot' = [ballot EXCEPT ![v] = "accepted"] /\ cast' = [cast EXCEPT ![v] = now]
    /\ UNCHANGED <<now, row, snap, cached, refreshed, saved, delayed, prompt>>

Flushed(v) ==
    /\ ballot[v] = "accepted"
    /\ ballot' = [ballot EXCEPT ![v] = "counted"] /\ cast' = [cast EXCEPT ![v] = 0]
    /\ UNCHANGED <<now, row, snap, cached, refreshed, saved, delayed, prompt>>

\* cache.go TrackedIDs, with the time that Refresh asks for.
TrackedBy(i) == i \in cached /\ EndsAt > now - SettleWindow

RefreshOf(i) ==
    /\ snap' = [snap EXCEPT ![i] = IF TrackedBy(i) THEN InRedis ELSE NoSnapshot]
    /\ refreshed' = refreshed \cup {i}
    /\ UNCHANGED <<now, ballot, cast, row, cached, saved, delayed, prompt>>

\* Mutant: the last writer wins.
PersistOver(i) ==
    /\ row' = IF snap[i] = NoSnapshot THEN row ELSE snap[i]
    /\ saved' = saved \cup {i}
    /\ UNCHANGED <<now, ballot, cast, snap, cached, refreshed, delayed, prompt>>

PersistOf(i) ==
    /\ row' = Higher(row, snap[i])
    /\ saved' = saved \cup {i}
    /\ UNCHANGED <<now, ballot, cast, snap, cached, refreshed, delayed, prompt>>

\* A restart: Warm loads a poll only before its end, later a request does.
RestartOf(i) ==
    /\ snap' = [snap EXCEPT ![i] = NoSnapshot]
    /\ cached' = IF ClosedAt(now) THEN cached \ {i} ELSE cached \cup {i}
    /\ prompt' = prompt \ {i}
    /\ UNCHANGED <<now, ballot, cast, row, refreshed, saved, delayed>>

AskOf(i) ==
    /\ cached' = cached \cup {i}
    /\ UNCHANGED <<now, ballot, cast, row, snap, refreshed, saved, delayed, prompt>>

FinalTick ==
    /\ Passes(ResultsEnd)
    /\ delayed' = (delayed \/ \E v \in Ballots :
                                ballot[v] = "accepted" /\ now' > cast[v] + FlushLimit)
    /\ prompt' = prompt \cap refreshed \cap saved
    /\ refreshed' = {} /\ saved' = {}
    /\ UNCHANGED <<ballot, cast, row, snap, cached>>

FinalNext ==
    \/ \E v \in Ballots : Cast(v) \/ Flushed(v)
    \/ \E i \in Servers : RefreshOf(i) \/ PersistOf(i) \/ RestartOf(i) \/ AskOf(i)
    \/ FinalTick

FinalSpec == (FinalInit /\ now = 0) /\ [][FinalNext]_<<now, finalVars>>

-----------------------------------------------------------------------------
(* The public result.                                                      *)

\* Mutant: the result is final as soon as no vote is taken any more.
PhaseUnsettled(t) ==
    IF ~ClosedAt(t) THEN "425" ELSE IF t < EndsAt + Grace THEN "max-age=5" ELSE "immutable"

\* The status or Cache-Control of the answer.
Phase(t) ==
    IF ~ClosedAt(t) THEN "425"
    ELSE IF t < EndsAt + Grace + Settle THEN "max-age=5" ELSE "immutable"

\* resultsOf, whether Postgres answers or not: a failed read is logged, and the snapshot, or
\* nothing, is the result.
ResultsOf(i, answers) == Higher(IF answers THEN row ELSE 0, snap[i])

FinalTypeOK ==
    /\ ballot \in [Ballots -> {"none", "accepted", "counted"}]
    /\ cast \in [Ballots -> 0..ResultsEnd]
    /\ row \in 0..Cardinality(Ballots) /\ snap \in [Servers -> NoSnapshot..Cardinality(Ballots)]
    /\ cached \subseteq Servers /\ prompt \subseteq Servers /\ delayed \in BOOLEAN
    /\ refreshed \subseteq Servers /\ saved \subseteq Servers

\* poll.go resultsSettle: every answer that is declared immutable, by whichever instance,
\* restarted or not, is the count of all accepted votes, provided that they reached Redis in
\* time and that Postgres answers, if one instance, no matter which, kept refreshing and saving
\* in time.  When Postgres does not answer, an instance that did so itself still has the count
\* in its snapshot, for as long as it tracks the poll; and no answer is ever above the count.
ImmutableIsFinal ==
    Phase(now) = "immutable" =>
        \A i \in Servers, answers \in BOOLEAN :
            /\ ResultsOf(i, answers) <= Accepted
            /\ ~delayed /\ (IF answers THEN prompt # {} ELSE i \in prompt /\ TrackedBy(i)) =>
                   ResultsOf(i, answers) = Accepted

\* poll.go resultsSettle ("after that the number never changes"): with every vote in time and
\* every instance on time, all answers that are declared immutable are the same.
ImmutableIsOne ==
    Phase(now) = "immutable" /\ ~delayed /\ prompt = Servers =>
        \A i, j \in Servers, one, other \in BOOLEAN : ResultsOf(i, one) = ResultsOf(j, other)
=============================================================================
