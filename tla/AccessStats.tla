---------------------------- MODULE AccessStats ----------------------------
(***************************************************************************)
(* The access statistics of one route: internal/httpapi/logstats.go with    *)
(* accessLog of middleware.go, RunStats and FlushStats of router.go, and    *)
(* the shutdown of main.go.                                                 *)
(*                                                                         *)
(* There is no lock: one action is one access of an atomic counter.  A      *)
(* counter is the set of the requests that it counts, latSum the set of     *)
(* those whose latency it adds up.                                          *)
(***************************************************************************)
EXTENDS Integers, Sequences, FiniteSets

CONSTANTS
    Served,         \* requests to the route
    Latency,        \* how long each takes
    Status,         \* with which status it ends
    Tracked,        \* trackedStatuses
    MaxTicks        \* bound: ticks of the summary

ASSUME StatsAssumption ==
    /\ Latency \in [Served -> Nat] /\ MaxTicks \in Nat /\ Tracked \in Seq(Nat)
    /\ \A i, j \in DOMAIN Tracked : Tracked[i] = Tracked[j] => i = j

VARIABLES
    counts, latSum, latMax,     \* the fields of routeStats
    record, cur,                \* where each request is in record; the maximum it has loaded
    flush, index, held,         \* where each Flush is; its counter; what it has swapped out
    ticks,                      \* ticks of Run so far
    lines,                      \* the lines written
    mixed,                      \* history: the requests that a Flush has overlapped
    life                        \* the shutdown of main.go

statsVars == <<counts, latSum, latMax, record, cur, flush, index, held, ticks, lines, mixed,
               life>>

Flushers == {"Run", "FlushStats"}       \* two goroutines that call Flush
Nothing0 == [total |-> {}, sum |-> {}, max |-> 0]

\* The counter of a status: the last one for whatever is not tracked.
Counters == 1..(Len(Tracked) + 1)
CounterOf(r) ==
    CHOOSE i \in Counters :
        IF \E j \in DOMAIN Tracked : Tracked[j] = Status[r]
            THEN i <= Len(Tracked) /\ Tracked[i] = Status[r] ELSE i = Len(Tracked) + 1

StatsInit ==
    /\ counts = [i \in Counters |-> {}] /\ latSum = {} /\ latMax = 0
    /\ record = [r \in Served |-> "idle"] /\ cur = [r \in Served |-> 0]
    /\ flush = [f \in Flushers |-> "idle"] /\ index = [f \in Flushers |-> 1]
    /\ held = [f \in Flushers |-> Nothing0]
    /\ ticks = 0 /\ lines = {} /\ mixed = {} /\ life = "serving"

Recording == {r \in Served : record[r] \notin {"idle", "done"}}
Flushing == \E f \in Flushers : flush[f] # "idle"
Alive == life \notin {"ended", "cut"}

\* What is in the counters, or swapped out and not yet written.
Unwritten ==
    (UNION {counts[i] : i \in Counters}) \cup latSum
        \cup (UNION {held[f].total \cup held[f].sum : f \in Flushers})

-----------------------------------------------------------------------------
(* record, at the end of accessLog.                                        *)

Step(r, x) == record' = [record EXCEPT ![r] = x]
Overlap(r) == mixed' = IF Flushing THEN mixed \cup {r} ELSE mixed

RecordCount(r) ==
    /\ record[r] = "idle" /\ life \in {"serving", "hurried", "overtime"}
    /\ counts' = [counts EXCEPT ![CounterOf(r)] = @ \cup {r}]
    /\ Step(r, "sum") /\ Overlap(r)
    /\ UNCHANGED <<latSum, latMax, cur, flush, index, held, ticks, lines, life>>

RecordSum(r) ==
    /\ record[r] = "sum" /\ Alive
    /\ latSum' = latSum \cup {r}
    /\ Step(r, "load") /\ Overlap(r)
    /\ UNCHANGED <<counts, latMax, cur, flush, index, held, ticks, lines, life>>

RecordLoad(r) ==
    /\ record[r] = "load" /\ Alive
    /\ cur' = [cur EXCEPT ![r] = IF Latency[r] <= latMax THEN 0 ELSE latMax]
    /\ Step(r, IF Latency[r] <= latMax THEN "done" ELSE "swap") /\ Overlap(r)
    /\ UNCHANGED <<counts, latSum, latMax, flush, index, held, ticks, lines, life>>

\* Mutant: the maximum is stored whatever it is by now.
RecordStore(r) ==
    /\ record[r] = "swap" /\ Alive
    /\ latMax' = Latency[r]
    /\ Step(r, "done") /\ cur' = [cur EXCEPT ![r] = 0] /\ Overlap(r)
    /\ UNCHANGED <<counts, latSum, flush, index, held, ticks, lines, life>>

\* CompareAndSwap: the loser loads again.
RecordSwap(r) ==
    /\ record[r] = "swap" /\ Alive
    /\ latMax' = IF latMax = cur[r] THEN Latency[r] ELSE latMax
    /\ Step(r, IF latMax = cur[r] THEN "done" ELSE "load")
    /\ cur' = [cur EXCEPT ![r] = 0] /\ Overlap(r)
    /\ UNCHANGED <<counts, latSum, flush, index, held, ticks, lines, life>>

-----------------------------------------------------------------------------
(* Flush.                                                                  *)

Goes(f, x) == flush' = [flush EXCEPT ![f] = x]

\* A Flush begins: it overlaps the requests that are recording, and what another one splits.
Begin(f) ==
    /\ flush[f] = "idle"
    /\ Goes(f, "counts") /\ index' = [index EXCEPT ![f] = 1]
    /\ mixed' = mixed \cup Recording \cup (IF Flushing THEN Unwritten ELSE {})
    /\ UNCHANGED <<counts, latSum, latMax, record, cur, held, lines, life>>

Tick == Alive /\ ticks < MaxTicks /\ ticks' = ticks + 1 /\ Begin("Run")

NextCounter(f) ==
    IF index[f] < Len(Tracked) + 1
        THEN index' = [index EXCEPT ![f] = @ + 1] /\ UNCHANGED flush
        ELSE Goes(f, "sum") /\ UNCHANGED index

\* Mutant: a counter is loaded, and stored as 0 only when all have been loaded.
LoadCount(f) ==
    /\ flush[f] = "counts" /\ Alive
    /\ held' = [held EXCEPT ![f].total = @ \cup counts[index[f]]]
    /\ counts' = IF index[f] < Len(Tracked) + 1 THEN counts ELSE [i \in Counters |-> {}]
    /\ NextCounter(f)
    /\ UNCHANGED <<latSum, latMax, record, cur, ticks, lines, mixed, life>>

SwapCount(f) ==
    /\ flush[f] = "counts" /\ Alive
    /\ held' = [held EXCEPT ![f].total = @ \cup counts[index[f]]]
    /\ counts' = [counts EXCEPT ![index[f]] = {}]
    /\ NextCounter(f)
    /\ UNCHANGED <<latSum, latMax, record, cur, ticks, lines, mixed, life>>

SwapSum(f) ==
    /\ flush[f] = "sum" /\ Alive
    /\ held' = [held EXCEPT ![f].sum = latSum] /\ latSum' = {}
    /\ Goes(f, "max")
    /\ UNCHANGED <<counts, latMax, record, cur, index, ticks, lines, mixed, life>>

SwapMax(f) ==
    /\ flush[f] = "max" /\ Alive
    /\ held' = [held EXCEPT ![f].max = latMax] /\ latMax' = 0
    /\ Goes(f, "write")
    /\ UNCHANGED <<counts, latSum, record, cur, index, ticks, lines, mixed, life>>

\* An interval without requests writes nothing, whatever its sum is.
Write(f) ==
    /\ flush[f] = "write" /\ Alive
    /\ lines' = IF held[f].total = {} THEN lines ELSE lines \cup {held[f]}
    /\ held' = [held EXCEPT ![f] = Nothing0]
    /\ Goes(f, "idle")
    /\ life' = IF f # "FlushStats" THEN life ELSE IF life = "drained" THEN "flushed" ELSE "overtime"
    /\ UNCHANGED <<counts, latSum, latMax, record, cur, index, ticks, mixed>>

-----------------------------------------------------------------------------
(* The shutdown.                                                           *)

\* Shutdown returns when all requests are done, or at its timeout.
ShutdownReturns ==
    /\ life = "serving"
    /\ life' = IF Recording = {} THEN "drained" ELSE "hurried"
    /\ UNCHANGED <<counts, latSum, latMax, record, cur, flush, index, held, ticks, lines, mixed>>

FlushStats ==
    /\ life \in {"drained", "hurried"} /\ ticks' = ticks /\ Begin("FlushStats")

\* Mutant: the process ends without the last summary.
ExitUnflushed ==
    /\ life \in {"drained", "hurried"}
    /\ life' = IF life = "drained" THEN "ended" ELSE "cut"
    /\ UNCHANGED <<counts, latSum, latMax, record, cur, flush, index, held, ticks, lines, mixed>>

\* main returns: the goroutine of Run ends wherever it is.
Exit ==
    /\ life \in {"flushed", "overtime"}
    /\ life' = IF life = "flushed" THEN "ended" ELSE "cut"
    /\ UNCHANGED <<counts, latSum, latMax, record, cur, flush, index, held, ticks, lines, mixed>>

StatsNext ==
    \/ \E r \in Served : RecordCount(r) \/ RecordSum(r) \/ RecordLoad(r) \/ RecordSwap(r)
    \/ \E f \in Flushers : SwapCount(f) \/ SwapSum(f) \/ SwapMax(f) \/ Write(f)
    \/ Tick \/ ShutdownReturns \/ FlushStats \/ Exit

StatsSpec == StatsInit /\ [][StatsNext]_statsVars

-----------------------------------------------------------------------------
StatsTypeOK ==
    /\ counts \in [Counters -> SUBSET Served] /\ latSum \subseteq Served /\ latMax \in Nat
    /\ record \in [Served -> {"idle", "sum", "load", "swap", "done"}] /\ cur \in [Served -> Nat]
    /\ flush \in [Flushers -> {"idle", "counts", "sum", "max", "write"}]
    /\ index \in [Flushers -> Counters] /\ ticks \in 0..MaxTicks
    /\ mixed \subseteq Served
    /\ life \in {"serving", "drained", "hurried", "flushed", "overtime", "ended", "cut"}

\* logstats.go flushRoute: a request that has been counted is in one line, or on its way to
\* one, and not in two: whatever Flush of the ticker and of the shutdown run while it counts.
CountedOnce ==
    \A r \in Served :
        record[r] # "idle" =>
            Cardinality({i \in Counters : r \in counts[i]})
                + Cardinality({f \in Flushers : r \in held[f].total})
                + Cardinality({l \in lines : r \in l.total}) = 1

\* logstats.go record, flushRoute: the average of a line is over the latencies of the very
\* requests that the line counts, and its maximum is not below any of them, but for the
\* requests that a Flush has overlapped.
LinesAgree ==
    \A l \in lines :
        /\ l.total \ mixed = l.sum \ mixed
        /\ \A r \in l.total \ mixed : Latency[r] <= l.max

\* main.go ("the last interval is almost surely not over, and the most interesting"): when
\* the requests were drained in time, the process does not end before all of them are in a
\* line, but for what a Flush of the ticker holds at that moment.
LastIntervalWritten ==
    life = "ended" =>
        \A r \in Served :
            record[r] # "idle" => r \in held["Run"].total \/ \E l \in lines : r \in l.total
=============================================================================
