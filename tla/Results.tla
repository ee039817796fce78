------------------------------ MODULE Results ------------------------------
(***************************************************************************)
(* The counts of one poll on their way from Redis to Postgres and to the    *)
(* reader: internal/results (Snapshotter, RedisSource, Persister), SaveResults *)
(* and Results of internal/poll/store.go, resultsOf of internal/httpapi,    *)
(* the stop of an instance and the reset of a run (Makefile).              *)
(*                                                                         *)
(* Every instance reads all shards of Redis into a snapshot and writes its  *)
(* snapshot to Postgres, with no leader and no lock but those of the rows.  *)
(* The increments themselves come from Batcher; here a Redis counter just   *)
(* grows.  One action is the read of one shard, one SQL statement from its  *)
(* start to the row lock, or one commit.                                   *)
(***************************************************************************)
EXTENDS Naturals, Functions

CONSTANTS
    Instances,
    NumShards,     \* COUNTER_SHARDS
    NumOptions,
    MaxCount,      \* bound: for every cell, the value of its counter in one shard
    MaxFaults,     \* bound: failed calls, losses of Redis, stops and crashes of instances
    MaxResets      \* bound: runs of make reset

Shards == 1..NumShards
Options == 1..NumOptions
VotersCell == NumOptions + 1
Cells == 1..VotersCell

ASSUME BoundsAssumption ==
    /\ NumShards \in Nat \ {0} /\ NumOptions \in Nat \ {0}
    /\ MaxCount \in [Cells -> Nat]
    /\ MaxFaults \in Nat /\ MaxResets \in Nat

VARIABLES
    \* Redis and Postgres
    redis,      \* shard -> cell -> count
    row,        \* poll_results and poll_totals: cell -> votes and generation
    generation, \* of the poll
    \* the instances
    life,       \* of the process
    cached,     \* the poll is in its Cache
    snap,       \* Snapshotter.current: the snapshot of the poll, Zero if there is none
    read,       \* the Refresh at work
    tx,         \* where Persister.Run is, and its transaction
    \* the outside
    past,       \* the poll ended longer ago than the settle window
    reset,      \* make reset is at work: the counters are cleared
    stale,      \* the instances it has not restarted yet
    faults,     \* so far
    \* history
    lost,       \* Redis has lost its counters
    peak,       \* the highest count of each cell since the start, or since make reset cleared it
    held        \* what an instance had in its snapshot when its readers were stopped

outside == <<past, reset, stale, faults>>
history == <<lost, peak, held>>
pg == <<row, generation>>
process == <<life, cached>>
vars == <<redis, pg, process, snap, read, tx, outside, history>>

Zero == [c \in Cells |-> 0]
NoRead == [next |-> 0, sum |-> Zero]
NoTx == [at |-> "idle", job |-> Zero, todo |-> {}, stmt |-> 0, gen |-> 0, written |-> Zero]

Larger(m, n) == IF m < n THEN n ELSE m
Total(c) == SumFunction([s \in Shards |-> redis[s][c]])
Alive(i) == life[i] # "down"

Init ==
    /\ redis = [s \in Shards |-> Zero]
    /\ row = [c \in Cells |-> [votes |-> 0, gen |-> 0]] /\ generation = 1
    /\ life = [i \in Instances |-> "up"] /\ cached = [i \in Instances |-> TRUE]
    /\ snap = [i \in Instances |-> Zero]
    /\ read = [i \in Instances |-> NoRead] /\ tx = [i \in Instances |-> NoTx]
    /\ past = FALSE /\ reset = FALSE /\ stale = {}
    /\ faults = 0
    /\ lost = FALSE /\ peak = Zero /\ held = [i \in Instances |-> Zero]

\* The counters have not gone down since the start.
Undisturbed == ~lost /\ ~reset /\ generation = 1

Fault == faults < MaxFaults /\ faults' = faults + 1
CallFails == Fault /\ UNCHANGED <<past, reset, stale>>

-----------------------------------------------------------------------------
(* Snapshotter.Refresh and RedisSource.Read.                               *)

\* TrackedIDs: the poll is in the cache and ended less than the settle window ago.
Tracked(i) == cached[i] /\ ~past

ReaderUnchanged == UNCHANGED <<redis, pg, process, tx, history>>

Begun(i) == read' = [read EXCEPT ![i].next = 1]

\* A poll that is not tracked is not in the next map.
Refresh(i) ==
    /\ life[i] = "up" /\ read[i].next = 0
    /\ IF Tracked(i) THEN Begun(i) /\ UNCHANGED snap
                     ELSE snap' = [snap EXCEPT ![i] = Zero] /\ UNCHANGED read
    /\ UNCHANGED outside /\ ReaderUnchanged

\* Redis executes HGETALL and GET of the next shard; others may increment in between.
Read(i) ==
    /\ read[i].next \in Shards
    /\ read' = [read EXCEPT ![i] =
                    [next |-> @.next + 1,
                     sum  |-> [c \in Cells |-> @.sum[c] + redis[@.next][c]]]]
    /\ UNCHANGED <<snap, outside>> /\ ReaderUnchanged

\* Mutant: the sums are added to those of the old snapshot.
PublishAdds(i) ==
    /\ read[i].next = NumShards + 1
    /\ snap' = [snap EXCEPT ![i] = [c \in Cells |-> @[c] + read[i].sum[c]]]
    /\ read' = [read EXCEPT ![i] = NoRead]
    /\ UNCHANGED outside /\ ReaderUnchanged

\* The new map is stored.
Publish(i) ==
    /\ read[i].next = NumShards + 1
    /\ snap' = [snap EXCEPT ![i] = read[i].sum]
    /\ read' = [read EXCEPT ![i] = NoRead]
    /\ UNCHANGED outside /\ ReaderUnchanged

\* A read that fails, or whose context is cancelled: the old snapshot stays.
ReadFails(i) ==
    /\ read[i].next # 0
    /\ read' = [read EXCEPT ![i] = NoRead]
    /\ IF life[i] = "up" THEN CallFails ELSE UNCHANGED outside
    /\ UNCHANGED snap /\ ReaderUnchanged

Reader(i) == Refresh(i) \/ Read(i) \/ Publish(i)

-----------------------------------------------------------------------------
(* Persister.Run, Persist and Store.SaveResults.                           *)

SaverUnchanged == UNCHANGED <<redis, generation, process, snap, read>>

Save(i, at) ==
    tx' = [tx EXCEPT ![i].at = at, ![i].job = snap[i],
                     ![i].todo = {c \in Options : snap[i][c] > 0} \cup {VotersCell}]

\* A tick: an empty snapshot is skipped.
Persist(i) ==
    /\ life[i] = "up" /\ tx[i].at = "idle" /\ snap[i] # Zero
    /\ Save(i, "save")
    /\ SaverUnchanged /\ UNCHANGED <<row, outside, history>>

\* Mutant: Run returns as soon as its context is done.
NoFinalPersist(i) ==
    /\ life[i] = "stopping" /\ tx[i].at = "idle"
    /\ tx' = [tx EXCEPT ![i].at = "returned"]
    /\ SaverUnchanged /\ UNCHANGED <<row, outside, history>>

\* After ctx.Done, with a context that is not cancelled.
FinalPersist(i) ==
    /\ life[i] = "stopping" /\ tx[i].at = "idle"
    /\ IF snap[i] = Zero THEN tx' = [tx EXCEPT ![i].at = "returned"] ELSE Save(i, "final")
    /\ SaverUnchanged /\ UNCHANGED <<row, outside, history>>

\* A statement starts, the options in the order of a Go map, the totals last.  Its subquery
\* reads the generation, before the row is locked.
Query(i, c) ==
    /\ c \in tx[i].todo /\ tx[i].stmt = 0
    /\ c = VotersCell => tx[i].todo = {c}
    /\ tx' = [tx EXCEPT ![i].stmt = c, ![i].gen = generation]
    /\ SaverUnchanged /\ UNCHANGED <<row, outside, history>>

\* i waits for a row that j has written and not committed.
Waits(i, j) == j # i /\ tx[i].stmt # 0 /\ tx[j].written[tx[i].stmt] # 0

\* The statement locks its row, and writes it for its own transaction.
Write(i, c) ==
    /\ tx[i].stmt = c
    /\ \A j \in Instances : ~Waits(i, j)
    /\ tx' = [tx EXCEPT ![i].written[c] = tx[i].gen, ![i].todo = @ \ {c},
                        ![i].stmt = 0, ![i].gen = 0]
    /\ SaverUnchanged /\ UNCHANGED <<row, outside, history>>

\* Mutant: the last writer wins.
UpsertOverwrites(r, n, g) == [votes |-> n, gen |-> Larger(r.gen, g)]

\* Mutant: the larger count wins whatever its generation.
UpsertGreatest(r, n, g) == [votes |-> Larger(r.votes, n), gen |-> Larger(r.gen, g)]

\* ON CONFLICT DO UPDATE; a row that does not exist has generation 0.
Upsert(r, n, g) ==
    [votes |-> IF g > r.gen THEN n ELSE Larger(r.votes, n), gen |-> Larger(r.gen, g)]

\* The transaction is over: Run goes on, or returns.
EndTx(i) ==
    tx' = [tx EXCEPT ![i] = [NoTx EXCEPT !.at = IF tx[i].at = "final" THEN "returned" ELSE "idle"]]

Commit(i) ==
    /\ tx[i].at \in {"save", "final"} /\ tx[i].todo = {}
    /\ row' = [c \in Cells |-> IF tx[i].written[c] = 0 THEN row[c]
                               ELSE Upsert(row[c], tx[i].job[c], tx[i].written[c])]
    /\ EndTx(i)
    /\ SaverUnchanged /\ UNCHANGED <<outside, history>>

\* Mutant: without the deferred Rollback the connection goes back with its locks.
RollbackForgotten(i) ==
    /\ tx' = [tx EXCEPT ![i] = [NoTx EXCEPT !.written = tx[i].written]]
    /\ held' = IF tx[i].at = "final" THEN [held EXCEPT ![i] = Zero] ELSE held
    /\ SaverUnchanged /\ UNCHANGED <<row, lost, peak>>

\* The error is logged and not returned: nothing was written, nothing is owed any more.
Rollback(i) ==
    /\ EndTx(i)
    /\ held' = IF tx[i].at = "final" THEN [held EXCEPT ![i] = Zero] ELSE held
    /\ SaverUnchanged /\ UNCHANGED <<row, lost, peak>>

\* Postgres cannot be reached, or the context of a tick's Persist is cancelled.
TxFails(i) ==
    /\ tx[i].at \in {"save", "final"}
    /\ Rollback(i)
    /\ IF tx[i].at = "save" /\ life[i] = "stopping" THEN UNCHANGED outside ELSE CallFails

\* Postgres picks i out of transactions that wait for each other in a cycle.
DeadlockVictim(i) ==
    /\ \E S \in SUBSET Instances :
        /\ i \in S
        /\ \A j \in S : (\E k \in S : Waits(j, k)) /\ (\E k \in S : Waits(k, j))
    /\ Rollback(i)
    /\ UNCHANGED outside

Persister(i) ==
    \/ Persist(i) \/ FinalPersist(i) \/ (\E c \in Cells : Query(i, c) \/ Write(i, c))
    \/ Commit(i) \/ DeadlockVictim(i)

-----------------------------------------------------------------------------
(* The process.                                                            *)

ProcessUnchanged == UNCHANGED <<redis, pg, past, reset, lost, peak>>

\* An instance is stopped by a fault, or restarted by make reset.
Stopped(i) == IF i \in stale THEN UNCHANGED faults ELSE Fault

\* The final Flush is over, the context of the readers is cancelled.
StopReaders(i) ==
    /\ life[i] = "up"
    /\ Stopped(i)
    /\ life' = [life EXCEPT ![i] = "stopping"]
    /\ held' = [held EXCEPT ![i] = IF Undisturbed THEN snap[i] ELSE Zero]
    /\ UNCHANGED <<cached, snap, read, tx, stale>> /\ ProcessUnchanged

\* The process is no more; Postgres rolls its transaction back.
Down(i) ==
    /\ life' = [life EXCEPT ![i] = "down"] /\ cached' = [cached EXCEPT ![i] = FALSE]
    /\ snap' = [snap EXCEPT ![i] = Zero]
    /\ read' = [read EXCEPT ![i] = NoRead] /\ tx' = [tx EXCEPT ![i] = NoTx]
    /\ UNCHANGED stale /\ ProcessUnchanged

Exit(i) ==
    /\ tx[i].at = "returned"
    /\ Down(i)
    /\ UNCHANGED <<faults, held>>

\* A crash, or an exit that no longer waits for the persister.
Kill(i) ==
    /\ Alive(i)
    /\ Stopped(i)
    /\ Down(i)
    /\ held' = [held EXCEPT ![i] = Zero]

\* Warm loads the poll unless it has ended.
Start(i) ==
    /\ life[i] = "down"
    /\ life' = [life EXCEPT ![i] = "up"]
    /\ \E b \in BOOLEAN : cached' = [cached EXCEPT ![i] = b]
    /\ stale' = stale \ {i}
    /\ held' = [held EXCEPT ![i] = Zero]
    /\ UNCHANGED <<snap, read, tx, faults>> /\ ProcessUnchanged

\* A request about the poll loads it into the cache.
Ask(i) ==
    /\ life[i] = "up"
    /\ ~cached[i] /\ cached' = [cached EXCEPT ![i] = TRUE]
    /\ UNCHANGED <<life, snap, read, tx, stale, faults, held>> /\ ProcessUnchanged

Process(i) == StopReaders(i) \/ Exit(i) \/ Kill(i) \/ Start(i) \/ Ask(i)

-----------------------------------------------------------------------------
(* Redis, the clock, and make reset.                                       *)

\* A batcher increments a counter of a shard; a stopping instance has made its last Flush.
Count(s, c) ==
    /\ \E i \in Instances : life[i] = "up"
    /\ redis[s][c] < MaxCount[c]
    /\ redis' = [redis EXCEPT ![s][c] = @ + 1]
    /\ peak' = [peak EXCEPT ![c] = Larger(@, Total(c) + 1)]
    /\ UNCHANGED <<pg, process, snap, read, tx, outside, lost, held>>

\* Redis crashes and comes back empty; the reads at work fail.
Lose ==
    /\ Fault
    /\ lost' = TRUE /\ held' = [i \in Instances |-> Zero]
    /\ redis' = [s \in Shards |-> Zero]
    /\ read' = [i \in Instances |-> NoRead]
    /\ UNCHANGED <<pg, process, snap, tx, past, reset, stale, peak>>

Pass ==
    /\ ~past /\ past' = TRUE
    /\ UNCHANGED <<redis, pg, process, snap, read, tx, reset, stale, faults, history>>

\* make reset: the counters are cleared, ...
FlushAll ==
    /\ ~reset /\ generation <= MaxResets
    /\ reset' = TRUE /\ stale' = Instances
    /\ redis' = [s \in Shards |-> Zero] /\ peak' = Zero /\ held' = [i \in Instances |-> Zero]
    /\ UNCHANGED <<pg, process, snap, read, tx, past, faults, lost>>

Raise ==
    /\ reset' = FALSE /\ stale' = {}
    /\ generation' = generation + 1
    /\ UNCHANGED <<redis, row, process, snap, read, tx, past, faults, history>>

\* Mutant: the generation is raised without waiting for the restarts.
BumpAtOnce == reset /\ Raise

\* ... the instances are restarted, and only then the generation is raised.
Bump == reset /\ stale = {} /\ Raise

Outside == (\E s \in Shards, c \in Cells : Count(s, c)) \/ Lose \/ Pass \/ FlushAll \/ Bump

Next ==
    \/ \E i \in Instances :
        Reader(i) \/ ReadFails(i) \/ Persister(i) \/ TxFails(i) \/ Process(i)
    \/ Outside

Spec == Init /\ [][Next]_vars

\* The goroutines of the snapshotter and of the persister are scheduled, their calls end,
\* and Postgres queues the transactions that wait for a row.
FairSpec ==
    Spec /\ \A i \in Instances :
        /\ WF_vars(Reader(i)) /\ WF_vars(Persister(i))
        /\ \A c \in Cells : SF_vars(Write(i, c))

-----------------------------------------------------------------------------
\* What Redis can count.
Counts == {n \in [Cells -> Nat] : \A c \in Cells : n[c] <= NumShards * MaxCount[c]}
Generations == 0..(MaxResets + 1)

TypeOK ==
    /\ redis \in [Shards -> [Cells -> Nat]]
    /\ \A s \in Shards, c \in Cells : redis[s][c] <= MaxCount[c]
    /\ row \in [Cells -> [votes : Nat, gen : Generations]] /\ [c \in Cells |-> row[c].votes] \in Counts
    /\ generation \in Generations \ {0}
    /\ life \in [Instances -> {"up", "stopping", "down"}]
    /\ cached \in [Instances -> BOOLEAN]
    /\ snap \in [Instances -> Counts]
    /\ read \in [Instances -> [next : 0..(NumShards + 1), sum : Counts]]
    /\ \A i \in Instances :
        /\ tx[i].at \in {"idle", "save", "final", "returned"}
        /\ tx[i].job \in Counts /\ tx[i].todo \subseteq Cells
        /\ tx[i].stmt \in tx[i].todo \cup {0} /\ tx[i].gen \in Generations
        /\ tx[i].written \in [Cells -> Generations]
    /\ {past, reset} \subseteq BOOLEAN /\ stale \subseteq Instances
    /\ faults \in 0..MaxFaults /\ lost \in BOOLEAN
    /\ peak \in Counts /\ held \in [Instances -> Counts]

\* Mutant: the snapshot is shown whenever there is one, as it is the newer of the two.
ShownSnapshotFirst(i, c, answers) ==
    IF snap[i] # Zero THEN snap[i][c] ELSE IF answers THEN row[c].votes ELSE 0

\* resultsOf: the larger one of the stored count and the snapshot; when Postgres does not
\* answer, that is logged and the snapshot, or nothing, is shown.
Shown(i, c, answers) == Larger(IF answers THEN row[c].votes ELSE 0, snap[i][c])

\* No stored count goes down within a generation, whatever snapshots of whatever age the
\* instances save in whatever order (store.go SaveResults: GREATEST).
StoredNeverRegresses ==
    [][\A c \in Cells : row'[c].votes >= row[c].votes \/ row'[c].gen > row[c].gen]_vars

\* Neither a stored nor a shown count is more than Redis has counted since the start, or since
\* make reset has cleared it: although the instances add up shards while they change, save
\* older snapshots after newer ones, and kept snapshots of before the reset and saved them
\* meanwhile (architecture.md 5.7, the order of the steps in the Makefile).
NothingInvented ==
    ~reset => \A c \in Cells :
        /\ row[c].gen = generation => row[c].votes <= peak[c]
        /\ \A i \in Instances : snap[i][c] <= peak[c]

\* The run that Redis counts for; what is stored of it: nothing while a reset is at work, and
\* nothing from rows of an older generation.
CurrentRun == IF reset THEN generation + 1 ELSE generation
StoredInRun == [c \in Cells |-> IF ~reset /\ row[c].gen = generation THEN row[c].votes ELSE 0]

Standing == INSTANCE Standings WITH run <- CurrentRun, counted <- peak, stored <- StoredInRun

\* The rows of all instances together, before, during and after a reset, implement the
\* standings of one run after another (store.go SaveResults, the Makefile's reset).
ImplementsStandings == Standing!Spec

\* While the counters do not go down, an instance that tracks the poll shows, whenever Postgres
\* answers it, no smaller count than it has shown before, and when Postgres does not answer, no
\* smaller one than it has shown without Postgres before: its failed reads of Redis and late
\* saves of other instances do not matter.  From an answer with Postgres to one without it the
\* count goes back only if others have saved what was not in the snapshot (admin.go resultsOf).
ShownNeverRegresses ==
    [][Undisturbed =>
           \A i \in Instances : life[i] = "up" /\ life'[i] = "up" /\ Tracked(i) =>
               \A c \in Cells, before, after \in BOOLEAN :
                   (before /\ row[c].votes > snap[i][c] => after) =>
                       Shown(i, c, after)' >= Shown(i, c, before)]_vars

\* After a planned stop Postgres has what the instance had in its snapshot, unless that
\* last transaction failed (persister.go Run).
PlannedStopStores ==
    \A i \in Instances, c \in Cells :
        life[i] = "down" => held[i][c] <= row[c].votes

\* What Redis has counted is stored in the end, as long as some instance runs and tracks
\* the poll, whoever else saves the same rows in another order.
EventuallyStored ==
    <>[](\E i \in Instances : life[i] = "up" /\ Tracked(i)) =>
        <>[](\A c \in Cells : row[c].votes >= Total(c))

\* main.go: the readers are stopped after the final Flush, since otherwise the last votes
\* would reach Redis and not Postgres.  So, with no fault, what is in Redis when the last
\* instance has stopped as planned is in Postgres.
LastFlushStored ==
    [][\A i \in Instances :
           Exit(i) /\ faults = 1 /\ Tracked(i) /\ Undisturbed =>
               \/ \E j \in Instances \ {i} : Alive(j)
               \/ \A c \in Cells : Total(c) <= row[c].votes]_vars
=============================================================================
