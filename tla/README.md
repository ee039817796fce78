# Formal model of vote-sys

TLA+ modules, TLC configurations and TLAPS proofs for the voting service in
`src/` (Go: `cmd/api`, `internal/...`). The service takes votes in short polls
at a high rate: each API instance keeps counters in memory, a flusher sends
them to Redis every 150 ms, a second pair of loops reads Redis back and writes
absolute values to Postgres. There is no record of a single vote anywhere, so
every question about correctness is about counters, and what cannot be
recounted cannot be repaired. That is what the model is for.

* `tlc -config X.cfg M` checks a run of the table below, `tlapm M.tla` checks
  the proofs of `M`.
* `PROJECT.json` lists components, runs, mutants (a plausible bug for each
  property, which the property must catch), the code lines each definition
  stands for, the hazards and the theorems.

## 1. Inventory

| component | state | operations | talks to |
|---|---|---|---|
| vote counters, batcher, sink (`internal/vote`) | `Counters` (one atomic per option and one for voters), `Batcher.polls` (atomic pointer to an immutable map), the delta in hand | `Lookup`, `Register`, `Add`, `Swap`, `Restore`, `Run`, `Flush`, `Push`, `classify` | called by `handleVote`; one pipeline of HINCRBY/INCRBY per poll and flush to Redis |
| circuit breaker (`internal/breaker`) | `state`, `stateSince`, `errs`, `windowStart`, all atomics without a lock | `Allow`, `Success`, `Failure` | called around the dedup call by every request |
| vote handler and dedup (`internal/httpapi/vote.go`, `internal/dedup`) | local variables of the handler and of the watchdog's goroutine; the key `dedup:{poll}:{voter}` in Redis | `handleVote`, `Check`, `withDeadline`, `SetNX`, `dedupTTL` | Redis SET NX EX, the breaker, the counters |
| poll model (`internal/poll/model.go`) | immutable | `StateAt`, `AcceptsVoteAt`, `ChoiceLimit`, `ValidateChoice`, `IndexOf` | pure functions |
| poll cache (`internal/poll/cache.go`) | `byID`, `missedAt` under an RWMutex, a singleflight group | `Get`, `Put`, `rememberMiss`, `TrackedIDs`, `Warm` | poll store; the snapshotter's tracker |
| poll store (`internal/poll/store.go`, `migrations`) | Postgres: `polls`, `poll_options`, `poll_results`, `poll_totals` | `Create`, `Get`, `Active`, `List`, `Results`, `SaveResults` | cache, admin handlers, persister |
| results (`internal/results`) | `Snapshotter.current`, an atomic pointer to an immutable map | `Read`, `Refresh`, `Get`, `All`, `Persist` | Redis (read), Postgres (write) |
| public and admin results (`internal/httpapi/poll.go`, `admin.go`) | none | `resultsOf`, the caching phases of `handlePublicResults` | snapshots, store |
| token (`internal/token`, `internal/httpapi/token.go`) | none (HMAC) | `Issue`, `Verify`, `handleToken` | cookies |
| access statistics (`internal/httpapi/logstats.go`, `accessLog` of `middleware.go`) | atomics per route: a counter per status, sum and maximum of the latencies | `record`, `Run`, `Flush`, `RunStats`, `FlushStats` | called at the end of every request; log only |
| load generator (`cmd/loadgen`) | `metrics` under a mutex, the channel of jobs | `schedule`, `fire`, `castOne`, `mint`, `record`, `verify` | the public and admin API |
| web page (`web/index.html`) | the browser's cookie, `chosen`, the button | mint, show, click, vote, retry | `handleToken`, `handleGetPoll`, `handleVote` |
| process life (`cmd/api/main.go`, `internal/platform/shutdown.go`) | contexts and done channels | warm-up, `GracefulShutdown` and its tasks | all of the above |
| Redis and Postgres clients (`internal/platform`) | connection pools | set-up; no retries, a dial timeout within the budget | |

What is hard in this code:

* **Interleaving without locks.** Handlers add to counters while `Flush` swaps
  them one by one and `Restore` puts them back; two handlers register a poll at
  once; the breaker's four atomics are read and written in several steps by all
  requests.
* **Unreliable delivery.** A pipeline may be executed in part, late, after
  later ones, or not at all, and the client learns of it by an error whose class
  decides between "throw away" and "send again".
* **Timeouts that do not stop the work.** The dedup watchdog answers at its
  deadline; the goroutine behind it may still set the key.
* **Time limits.** The dedup key must outlive every handler that read the clock
  before the end of the poll; the probe interval of the breaker.
* **Stops, crashes and restarts.** The final flush, the order of the shutdown
  tasks, a timeout of the whole shutdown; Redis, which keeps nothing on disk.
* **Clocks of several instances.** A token is issued by one and verified by all.
* **A shared load.** singleflight runs a load with the context of one of its callers.
* **Two stores of different age.** Snapshots, absolute values with GREATEST and
  a generation in Postgres, and answers that take the maximum of both.

`PROJECT.json` lists each of these at its line under "hazards".

What makes each part correct:

* *write path*: an increment that a handler made is never unaccounted for, is
  counted at most once unless it was sent again, ends up under its own poll and
  option, leaves memory in the end, and is out of memory after a planned stop;
* *breaker*: one probe at a time, nobody waits for a probe that does not exist,
  the store gets its interval of rest, the circuit closes when the store is back;
* *dedup*: one first vote per token, nobody is refused for a vote that nobody
  cast, every handler ends;
* *results*: values do not go back within a generation, a reset is not undone,
  what is called immutable does not change, the last votes reach Postgres;
* *cache*: what the warm-up has read is never loaded again, a miss does not outlive its
  term, and every caller gets its answer;
* *poll model*: what `Validate` accepts the tables store, every process sees the options at
  the same positions, what the page lets a viewer choose the server accepts, and one vote
  increments as many counters as it names options;
* *token and page*: a browser that keeps its cookie votes once, and no honest vote is refused;
* *statistics*: a request is in one line, with its own latency, and the last interval is written;
* *load generator*: every scheduled vote is accounted for, and a divergence means what it says.

## 2. Modules

| module | models | theorems |
|---|---|---|
| `Batcher` | `internal/vote`, the execution of pipelines by Redis, stop, kill, exit and restart of the process | |
| `VoteLedger` | abstract specification: the life of one increment | |
| `BatcherInv` | inductive invariant of `Batcher`, in named parts | |
| `BatcherProofs` | | types; invariance and the four safety properties; the refinement of `VoteLedger` |
| `Breaker` | `internal/breaker` and its caller `GuardedChecker.Check` | |
| `BreakerProofs` | | invariance and the three safety properties |
| `Dedup` | `handleVote` up to the increment, the watchdog, SET NX and key expiry | |
| `DedupProofs` | | invariance and the two safety properties |
| `Results` | `internal/results`, `SaveResults` and the generation, `resultsOf`, the stop of the readers, `make reset`, on several instances | |
| `Standings` | abstract specification: what is stored of a run, against what it has counted | |
| `ResultsProofs` | | types, invariance, the two safety invariants and the two action properties; the refinement of `Standings` |
| `FinalResults` | the caching phases of `handlePublicResults` against the way of the last votes to Postgres | |
| `PollModel` | `Validate`, `Create`, `Get`, the CHECKs, `ValidateChoice`, the choice on the page | |
| `PollCache` | `internal/poll/cache.go`, the warm-up, readiness and restart | |
| `PollProofs` | | types, invariance and the properties of `PollModel` (four) and of `PollCache` (three) |
| `Viewers` | `internal/token`, `handleToken`, `voterFrom`, the page's token and retries | |
| `AccessStats` | `record`, `Flush`, the shutdown's last summary | |
| `LoadGen` | one run of `cmd/loadgen` | |
| `EdgeProofs` | | types, invariance and the properties of `Viewers` (two), `FinalResults` (one), `AccessStats` (three) and `LoadGen` (two) |
| `Sums` | | what the community modules' `SumFunction` computes, for `ResultsProofs` and `EdgeProofs` |
| `Clock` | the time that `PollCache`, `Viewers` and `FinalResults` share | |
| `MCBatcher`, `MCBreaker`, `MCResults` | constants for TLC | |
| `MCService` | seven components together, one at a time: `PollModel`, `PollCache`, `Viewers`, `AccessStats`, `LoadGen`, `FinalResults`, `Dedup` | |
| `ServiceProofs` | | the run `service` as a whole: each component keeps its invariant and the types |

### Batcher

One action is one atomic access to shared memory, or one command executed by
Redis. A counter is represented by the *set of votes* whose increments it
holds: its `int64` is the size of the set, `Add` inserts, `Swap(0)` takes the
set, `Restore` unites. This loses nothing, as every vote adds 1 to a counter
once, and it makes "which increment is where" a question that can be asked. A
Redis counter that got an increment a second time records it in `twice`.

| code | TLA+ |
|---|---|
| `Server.counters`, `Batcher.Lookup` | `Lookup` |
| `Batcher.Register` (under the mutex, new map published) | `Register`, `Entry` |
| `Counters.Add` | `AddOption`, then `AddVoters` |
| `Run`'s select | `Tick`, `FinalFlush` |
| `Flush`: load of the map, range over it | `StartFlush`, `NextPoll`, `FlushDone` |
| `Counters.Swap`, `Delta.IsEmpty` | `SwapOption`, `SwapVoters` |
| `RedisSink.Push` and `classify` | `Send`, `Refused`, `Cancelled`, `DialTimeout`, `ReplyOk`, `NoReply`, `ReplyError`, `ServerClose` |
| `Counters.Restore` | `RestoreCell` |
| Redis | `Exec`, `Reject`, `LateExec`, `LateLost` |
| `stopBatcher`, end of the process, new process | `Stop`, `Exit`, `Kill`, `Restart` |

The order of the fields within a pipeline is kept, the EXPIRE commands in it
are not told apart from the others. What the client sees is separate from what
Redis does: after `NoReply` the rest of the pipeline is in `late` and may be
executed at any later time, also after the process has died. Waiting for a free
connection until the context ends is `DialTimeout` (`Timeout()` is true of both
errors). `gone` and `replayed` are history variables: what was given up, and what
was put back although it had been executed.

`VoteLedger` states what all of this is about for a single increment: made once,
pending, then counted or lost; never back from lost; counted again only after an
explicit replay. `Batcher` implements it under the mapping at the `INSTANCE`.

### Breaker

One action is one atomic load, store, swap or compare-and-swap, or one reading
of the clock. Each of several requests calls `Allow`, the guarded call, `Success` or
`Failure`, over and over. Time is a counter; no request lasts longer than
`Limit`. `probes` and `opened` are history variables.

### Dedup

Several attempts of one voter overlap; each handler reads the clock first (`born`),
and the key's life is computed from that reading. `SET NX` is a process of its
own (`cmd`) with four outcomes: executed and heard, executed and unheard, never
executed, never answered; it goes on after the deadline and after the death
of the instance. `RestartRedis` empties Redis. The breaker's verdict may be anything
here (`Bypass`). The checks that answer 400, 401 or 425 are one action (`Invalid`):
they end the handler before the key is taken.

### Results

One action is the read of one shard (HGETALL and GET: no property here tells the two
apart), the publication of the map, the start of an SQL statement, its row lock, or
a commit. Counts are per cell: one per option and one for the voters.

| code | TLA+ |
|---|---|
| `Snapshotter.Refresh`, `TrackedIDs` | `Refresh`, `ReadFails`, `Publish` |
| `RedisSource.Read` | `Read` |
| `Persister.Run`, `Persist` | `Persist`, `FinalPersist` |
| `SaveResults` | `Save`, then `Query` and `Write` for every statement, `Commit` or `Rollback` |
| `upsertResults`, `upsertTotals` | `Query` (the subquery reads the generation), `Upsert` |
| `stopReaders`, exit, crash, `Warm`, `Cache.Get` | `StopReaders`, `Exit`, `Kill`, `Start`, `Ask` |
| `make reset` | `FlushAll`, restarts, `Bump` |
| `resultsOf` | `Shown` |
| Redis, Postgres | `Count`, `Lose`; `Waits`, `DeadlockVictim` |

The statements of a transaction run in any order of the options (a Go map), totals
last; a row is locked until the end of the transaction, and Postgres rolls back a
transaction of a cycle of waits. `Persist` logs a failure and goes on, so nothing is
repeated but by the next tick; the last one is not repeated at all. Batchers appear only
as `Count`. `peak`, `held` and `lost` are history variables. While a reset is at work an
instance that it has not restarted yet may be stopped without using up `MaxFaults`.

`NothingInvented` bounds what is stored and shown by `peak`, the most that Redis has counted since the
start or since a reset has cleared it. `peak` is not what Redis counts now: after a loss the
rows are rightly above it.

`Standings` states what the rows are for: what is stored of a run only grows, and never beyond what has
been counted; a reset begins a new run with nothing counted and nothing stored. `Results` implements
it under the mapping at the `INSTANCE`: the run ends when the counters are cleared, and from there until the
generation is raised, as well as after that for rows of an older generation, nothing is stored.
Instances, snapshots, statements and transactions do not appear in it.

`ShownNeverRegresses` and `PlannedStopStores` are stated for counters that do not go
down. After a loss of Redis a shown count may go back to what was stored last, and a planned stop
within a second of the loss may find the new, smaller snapshot.

`Shown(i, c, answers)` is what instance `i` shows of a cell, and `answers` whether its read of Postgres
succeeds: a failed read is logged, and `resultsOf` goes on with the snapshot alone. Reads with and
without Postgres may follow each other in any order. `ShownNeverRegresses` compares every two of them
but one pair: an answer *with* Postgres that was above the snapshot, then one *without*. There the count does
go back (section 6).

### FinalResults

A composition at a coarser grain: one counter of one poll, and for each of its votes only
whether it has been taken (`Cast`) and whether it has arrived in Redis (`Flushed`). How it gets
there is `Batcher`, how a refresh and a transaction proceed is `Results`; here each is one
step (`RefreshOf`, `PersistOf`), as only its time matters. `TrackedBy` is `TrackedIDs`, `Phase` is the
choice of status and Cache-Control. Nothing is forced to be on time; `delayed` says that a vote took
more than `FlushLimit`, and `prompt` holds the instances that have run since the beginning and
refreshed and saved in every unit of time. Instances restart (`RestartOf`) and lose their
snapshot and perhaps the poll, until somebody asks for it (`AskOf`).

`ResultsOf(i, answers)` is the answer of `i`, again with and without Postgres. `ImmutableIsFinal` says of
every answer that is declared immutable that it is never above the accepted votes, and
that it is their count if all were in time and, with Postgres, some instance kept on time, or,
without it, the answering instance did so itself and still tracks the poll. `ImmutableIsOne` is what the
comment promises, that all these answers are the same; it does not hold (section 6).

### PollModel

A description (`CreateParams`) goes through `Valid`, `PollRow`, `OptionRows` and `Loaded`, that
is `Validate`, the two INSERTs with what they do to a value (an unlimited `max` becomes NULL,
a time is cut to microseconds), and `Get`. `Click` is the page's handler for an option: it takes
out the first place of a chosen option (`indexOf`, `splice`), whether there is another or not. The texts
stand for what is left of them after trimming and case folding.

### PollCache

| code | TLA+ |
|---|---|
| `lookup` | `Ask`, with the answer of the cache or of the negative cache, or on to `Join` |
| `singleflight.Do` | `Join` (the first caller leads), `Land` (all callers return) |
| `store.Get` within it | `ReadPoll`, `LoadFails` |
| `Put`, `rememberMiss` | `Put`, `Remember` |
| the leader's request is cancelled | `HangUp` |
| `Active` and the loop of `Warm`, `MarkReady` | `WarmRead`, `WarmPut`, `Ready` |

Between `Ask` and `Join` a caller has released the lock and not yet entered singleflight: another
load may end there. `Create` is an INSERT by any instance.

### Viewers

The pages of one browser share the cookie. A request carries the cookie of the moment it is
sent; its reply sets the cookie when it arrives (`Show`), or is lost (`MintLost`). A vote that the
page has given up may still arrive (`VoteLate`). Each request meets an instance of any skew. `raced`
says that two pages asked for a token at once.

### AccessStats

One action is one access of an atomic. A counter is the set of requests it counts, as in
`Batcher`. `Flush` runs in two goroutines, the ticker's (`Tick`) and the shutdown's (`FlushStats`);
the `Flush` that `Run` makes when it is told to stop is a `Tick` as well. `life` is the order of
`main.go`: `Shutdown` returns with all requests done (`drained`) or at its timeout (`hurried`),
then the summary, then the exit. `mixed` holds the requests that a `Flush` has overlapped.

### LoadGen

`fire` with its bounded channel, the workers with `castOne`, `metrics.record`, and `verify`. The
service is external: it answers a vote with any code, counts it when it answers 200, and a reply
may be lost either way.

## 3. Runs

| run | question | bounds | states |
|---|---|---|---|
| `batcher_safety` | Does any interleaving of handlers, flusher, Redis, failure, stop, crash and restart lose, repeat strand or misplace an increment? Is the ledger implemented? | 2 votes, 1 poll, 2 options, 1 retryable failure | ~7·10^5 |
| `batcher_live` | Does every increment leave memory? | 2 votes, 1 poll, 1 option, 1 failure | 2.7·10^5 |
| `batcher_double`, `batcher_unsent`, `batcher_sum` | claims of comments, see section 6 | as `batcher_safety` | |
| `breaker` | one probe, no orphaned half-open circuit, the interval kept; does the circuit close for good after an outage? | 2 requests, threshold 2, window 1, interval 3, request time 1, outage of 3, 10 instants | 9·10^4 |
| `breaker_open` | a claim of a comment, see section 6 | 2 requests | |
| `results_safety` | Do counts go back, is a count ever above what Redis has counted, also after a reset, does a planned stop lose its snapshot? Are the standings implemented? | 2 instances, 1 shard, 1 counter up to 2, 1 fault, 1 reset | 3.0·10^6 |
| `results_live` | Is everything counted stored in the end, with transactions that wait for each other? | 2 instances, 1 shard, 2 options up to 1 | 5.7·10^4 |
| `service` | the properties of `PollModel`, `PollCache`, `Viewers`, `AccessStats`, `LoadGen`, `FinalResults` and `Dedup` | below | 3.6·10^5 |
| `results_final` | a claim of a comment, see section 6 | 1 instance, 1 option and voters up to 1, 1 stop | |
| `final_immutable` | a claim of a comment, see section 6 | 1 vote, 2 instances, times as in `service` | |

Why the bounds are enough. Two votes are needed for any race on a counter or on
`Register`, and two suffice: every property speaks of one increment, and an
increment meets the rest of the system only through the single flusher; which others
share a counter with it does not matter. Two options make three counters,
so that a flush can be interrupted before, between and after them. One retryable
failure allows a failed flush, its `Restore` and the retry to overlap everything
else; failures that lose the batch (`NoReply`, `DialTimeout`) and restarts are
not bounded at all. The theorems drop all of these bounds. For the breaker,
two requests are a probe and a rival or a straggler, and the time goes past one full
interval after the outage; `BreakerProofs` drops the bound on requests. In all runs of `Batcher` there is one poll;
that votes of several polls are kept apart is proved (`NothingMisplaced`), not run. For
`Results`, two instances are a writer with an old snapshot and one with a new one, and
two options make a cycle of row locks; the safety properties speak of one cell, and a
counter up to 2 gives an old and a new nonzero value. `MaxCount` gives each cell its own
bound, so that one run spends its states on the ages of one count and the
other on the order of the rows. A single shard is read in one step; that the sum over several, read one
after the other while they grow, keeps all the properties is proved, for any number of them. One fault is a failed read, a failed
transaction, a loss of Redis, a stop or a crash, at any time; a reset restarts both
instances besides.

The run `service` starts one of seven components and leaves the others as they are: they share
no state, so their state spaces add up and do not multiply. Its bounds are

* `PollModel`: up to 3 options with 3 texts and 3 uuids, one option too many in a description,
  times that do and do not fit the precision of 2, every sequence of clicks and every request;
* `PollCache`: a poll and a uuid of none, 2 requests, of which one joins the flight of the other or
  comes between lookup and flight; a negative TTL and a load of 1 each, time up to 3; the negative
  cache holds 1 entry, so the second miss empties it;
* `Viewers`: 2 pages, instances with clocks 0 and 1 ahead, tolerance 1, a life of 3, a second of
  2 units (so the dropped fraction exists), 2 tokens, which is one more than a browser should get;
* `AccessStats`: 2 requests of different latency and status, one of the two statuses not tracked, a Flush
  of the ticker and one of the shutdown;
* `LoadGen`: 2 workers, 3 votes, a channel of 1 (a vote can lag), 3 seconds for a schedule
  of 1, so that replies come after the last bucket;
* `FinalResults`: 2 votes, 2 instances, an end at 1, grace 1, settle time 3, window 5 and
  time up to 7, which is past the end of the window;
* `Dedup`: 2 attempts of one voter, a poll of 1, a margin of 2, handlers of up to 2, 1 restart of Redis, time
  up to 4. That is past the expiry of the first key, so a second `SET NX` can succeed. Both
  invariants speak of a pair of attempts; `DedupProofs` has them for any number.

The proofs drop these bounds.

Symmetry is used over votes, requests and instances in safety runs only.
`CHECK_DEADLOCK FALSE` appears for `MCService` and `FinalResults`, where the load generator and all attempts
to vote end, the statistics stop with their process, and times stop as well.

### Fairness

* `WF(Flusher)`: `Run`'s goroutine is scheduled and its calls to Redis end (each
  has a deadline). `SF(FinalFlush)`: after a stop, `select` chooses between the
  ticker and `ctx.Done` at random, so it does not choose the ticker for ever.
  `WF(Late)`: an abandoned pipeline is executed or lost in the end. `WF(Exit)`: a
  process whose `Run` has returned exits. Handlers, failures, kills and restarts
  get no fairness.
* Breaker: `WF` of each request (it is scheduled, its call has a deadline, voters
  keep voting) and `SF(Tick)` (time goes on whenever the limit of the requests
  lets it). That a request ends within `Limit`, and `2 * Limit < ProbeInterval`, is an
  assumption: the guarded call has 50 ms, the interval is 3 s.
* Results: `WF` of each snapshotter and persister (goroutines on tickers, calls with
  deadlines) and `SF` of each `Write`: Postgres wakes the transaction that waits for a row
  when the row is released, and a newcomer overtakes it only by a race, not for ever. Without it
  two persisters can make each other the victim of a deadlock again and again.
* PollCache: `WF` of each load and of each caller that is about to join one: goroutines are
  scheduled, and a call to Postgres ends, at the latest when the client of the leader or nginx
  gives up and the context is cancelled.
* LoadGen: `WF` of the run as a whole; a request ends at the client's timeout of 10 s.
* Dedup: `WF` of each handler that has begun, whose deadline comes (`Proceed`); none for the store,
  which may never answer, and none for the voters, who need not come.

## 4. Proofs

`BatcherProofs` proves for every set of votes and polls, every number of options
and every number of failures that `Batcher!Spec` keeps `TypeOK`,
`NoVoteVanishes`, `CountedTwiceOnlyIfReplayed`, `CountedWhereCast` and
`FinalFlushDrains`. Assumptions: `NumOptions` is positive, `Choices` are
nonempty sets of options, `MaxFaults` is a natural number, `None` is not a
vote. The invariant `IInv` adds to the properties

* `HandlerInv`: handlers at work hold the published counters of their poll, and no
  two polls share counters (without it an increment could go to an orphan);
* `FlusherInv`: the flusher's variables agree with its place in the loop (the
  delta is empty outside, counters before `at` are taken or put back);
* `Placed`: an increment is only where its vote made it;
* `OnePlace`: it is pending in one place at most;
* `CountedOrReplayed`: a pending increment that Redis has counted was put back by
  `Restore`. This and `OnePlace` give the bound on double counts;
* `DrainInv`: during the final flush, what early votes still have in memory lies in
  polls and counters that the flush has yet to visit.

The first part of the module has the type step of each action and what each kind of update
does to a counter; the second has one lemma per action.

The third part proves the refinement, `Spec => ImplementsLedger`. `LedgerStays`, `LedgerMakes`,
`LedgerCounts`, `LedgerLoses` and `LedgerReplays` say what a step of the ledger is for every single
increment; each `<Action>Refines` shows that an action is one of them. The invariant is needed
everywhere: a handler makes an increment once (`Placed`: what is anywhere has been added),
a dropped or executed delta leaves nothing of it pending (`OnePlace`), and what `Restore` puts
back although Redis had it is counted (`CountedOrReplayed`).

`DedupProofs` proves `FirstOnce` and `RefusedForAnother` for every number of
attempts, voters and restarts and every length of the poll, from `Limit <= Margin`
(a handler ends within 5 s of `ReadTimeout` and the deadline; the margin is a
minute). A second `SET NX` succeeds only after the key has expired, so after
`Ends + Margin`; handlers that still wait read the clock before `Ends` and have
`Limit <= Margin` to go, so none waits by then.

`BreakerProofs` proves `OneProbe`, `HalfOpenHasProbe` and `ProbeKeepsInterval` for every set of
requests and every threshold, window and interval with `2 * Limit < ProbeInterval`. None of the
three is inductive: nothing but time keeps a second request from becoming the probe while the first
one is at work. `IInv` therefore dates what the requests hold: every clock reading that a request has
yet to store is at most `Limit` old, and so is a probe. A second probe would have to find the
circuit open since a full interval, that is since before the first one became the probe, and yet
the circuit was half-open in between and `Failure` has stamped it anew.

`ResultsProofs` proves, for every number of instances, options, shards, faults and resets,

* `StoredNeverRegresses`: only `Commit` changes a row, and what it writes comes from `Upsert`, which is
  monotone within a generation whatever the snapshot was. It needs no more of the state than `Numbers`,
  that rows, jobs and snapshots hold numbers;
* `NothingInvented`, `PlannedStopStores` and `ShownNeverRegresses`, from the invariant `IInv`;
* `TypeOK`, where every count is at most `NumShards * MaxCount`;
* `ImplementsStandings`, the refinement of `Standings`: an increment is a `Vote` (or nothing, where Redis counts
  again what it has lost), a commit is a `Store`, `FlushAll` is a `Reset`, and `Bump` and all else are
  nothing. That `Bump` is nothing needs `Dated` (no row has the new generation yet), and that a commit
  stores no more than was counted needs `Clean`.

A read adds up the shards one by one while they grow, so a sum at work is neither a total of the past
nor one of the present. `IInv` therefore speaks of `Ahead`, what the read will have added up
if nothing more is counted: its sum so far and the shards it has yet to read. A step of the read leaves
`Ahead` as it is, and an increment adds one to the total and one or nothing to `Ahead`. The parts are

* `Clean`: an instance that has started since the counters were cleared holds (in its snapshot, its
  read, its transaction) no more than was counted since, and so do the rows of the current generation
  unless a reset is at work. A reset lets instances with older counts write until they are restarted
  (`stale`); they write under the old generation, and `Bump` waits for `stale` to be empty.
  `NothingInvented` alone is not inductive: it does not know what a transaction is about to write;
* `Growing`: while the counters do not go down, `Ahead` is at least the snapshot, so the next
  snapshot is no smaller. With rows that do not go down this is `ShownNeverRegresses`;
* `Owed`: what an instance held when it was stopped is at most its snapshot, then its last
  transaction, then the rows. `Statements` says that a transaction loses no cell on the way (each
  is to be written, written, or zero), `Rest` what is left when it is over;
* `Dated`: nothing is of a later generation than the poll.

`Sums` has the lemmas on `SumFunction` that this needs: what a change of one value does to the
sum, monotonicity, sums of zeros and of constants. A fold is defined by recursion over the subsets of
a finite set, and the library's induction theorems take a predicate as a parameter, which the provers
cannot instantiate. `SubsetInduction` states induction for a *set* of subsets instead and
follows from `WFMin`, a minimal element of a nonempty set under strict inclusion; a lemma about sums is
then proved for the set of subsets for which it holds.

`EdgeProofs` proves `ImmutableIsFinal` from `FlushLimit + 2 <= Settle` (a vote's way to Redis, one
refresh and one save) and `Grace + Settle <= SettleWindow`, the relation that `poll.go` and
`snapshotter.go` state of their constants. If no vote is delayed, all are in Redis one `FlushLimit`
after the grace period; an instance that keeps on time has a full snapshot one unit later and has
stored it after another, while the window is still open; from then on the row is complete and every
answer with Postgres takes the maximum with it. `SnapshotComplete` serves the answers without Postgres: an
instance that is on time and tracks the poll holds the full count in its snapshot as well.

`PollProofs` proves `WarmedIsHit`, `MissesBounded` and `CreatedIsFound`. For the last, a load that
finds nothing began before the poll was created and lasts at most `LoadLimit`; a miss it leaves
lives `NegativeTTL` from there; a caller that is told of the miss asked within one of the two.

`EdgeProofs` proves `OneVotePerBrowser` and `HonestVoteCounts` for every number of pages and all
clocks within the tolerance. The second of a token is close to the time it was minted at, so while
`LifeLeft` holds every instance accepts it; hence no mint replaces the cookie, and every
vote of the browser carries the first token, unless two mints overlapped.

`EdgeProofs` proves `CountedOnce`, `LinesAgree` and `LastIntervalWritten` for every number of requests,
statuses and ticks. Each counted request is in one counter, one delta or one line. A
request that no `Flush` has overlapped has been recorded as a whole before the next one begins, and
is taken as a whole.

`EdgeProofs` proves `VotesAccounted` and `DivergenceExplained` for every number of votes, seconds,
buckets and refusals and every finite set of workers (main.go starts as many as its flag says).
`VotesPlaced` and `VotesCounted` follow one vote: a step of a worker takes it out
of one term of the sum (`Busy`, a cardinality) and puts it into another (a code or a bucket, a sum by
`Sums`). `VotesShown` says that the buckets add up to the codes until time has left the last bucket (what comes
later is in none, and time does not come back), and `RunIsOver` that after the last worker the service counts nothing more, so that what `verify` reads is
what was counted.

`PollProofs` proves `ValidIsStorable`, `LoadsAgree`, `VoteAddsUp` and `PageIsAccepted` for all
texts, ids, limits, times and numbers of options. The invariant `PollInv` says that a poll that exists was made
of a valid description and distinct ids (`Made`), and that the page has chosen distinct options of it, within
its limit (`Picked`). The rows sorted by position give back the options in their order, whatever ids
Postgres chose; as ids are distinct, the positions that a valid choice touches are as many as the
options it names.

The types of all components are proved as well. `ServiceProofs` joins them: the run `service` lets one
component run, which keeps its invariant, while the others stay where they began.

The assumptions of the theorems are those of the modules (`ASSUME`), which TLC evaluates in every run:
sizes are natural numbers, sets that are counted are finite, and the relations between limits that are
quoted above. None of the theorems assumes fairness.

Model-checked only:

* liveness (`EventuallySettled`, `Recovers`, `HandlerEnds`, `EventuallyStored`, `GetEnds`, `FireEnds`): it needs
  fairness, and with it ENABLED, of which TLAPS proves nothing here;
* the properties of the runs that expect a violation, which do not hold (section 6).

Every invariant and every action property of the passing runs, and the refinements of `VoteLedger` and
`Standings`, are stated by theorems.

## 5. Not modelled

* Configuration: a pure function of the environment that runs once. Its values are the CONSTANTS,
  its relations the assumptions.
* Cryptography: the MAC of a token is taken to be unforgeable, so a token is what was issued.
* Texts and numbers as text: percentages, JSON, log lines, parsing of uuids and counters.
* `List` and its pagination, the admin's page, list and get: they read and change nothing.
* Which requests get a log line of their own (policy, sampling): no state beyond the statistics.
* Of the load generator: the choice or creation of the poll, the offsets of the profile `tv`
  (another non-decreasing function in the place of `Offset`), percentiles, plots and CSV.
* The timer of the page, nginx and the compose file. The last two say which calls are cut, what is
  restarted and what is kept on disk; that is in the actions of the other modules.
* Pools of connections: set-up and warm-up are pure I/O; what a full pool does to a call is
  `DialTimeout`.
* The process as a whole. Each module has the part of the shutdown it needs (`Batcher` the final
  flush, `Results` the stop of the readers, `AccessStats` the drained server); that the tasks run in
  the order of `main.go` is assumed in each.

## 6. Where the code and its comments differ

* `batcher_double` (`NoDoubleCount`). `sink.go:28-29` and `batcher.go:120-123` say a
  vote counted twice is worse than a vote lost, so an ambiguous batch is thrown
  away. Yet `classify` returns io.EOF and error replies as they are, and a batch
  that Redis has executed in part is put back. Trace: two votes, Redis executes the
  first command, the server closes the connection, `Restore`, next flush.
* `batcher_unsent` (`UnsentDeltaIsKept`). `sink.go:84-85` says a failed dial is safe to
  repeat; a dial that *times out* is classified as "maybe applied" and the delta, of which
  nothing was sent, is thrown away.
* `batcher_sum` (`SumEqualsVoters`). `snapshotter.go:23-24` expects the sum of the options of
  a single-choice poll to equal the voters; a flush that swaps between the two
  increments of an `Add` sends one without the other, so the sums differ until the
  next flush, with no failure at all.
* `breaker_open` (`OpenForInterval`). `breaker.go:28,119` say an open circuit sends no
  requests for the whole interval; the `Success` of a request let through before it
  opened closes it at once.
* `results_final` (`LastFlushStored`). `main.go:226-227` stops the readers after the final
  flush so that the last votes reach Postgres and not only Redis. But the persister's last
  transfer saves the current snapshot, and the snapshotter stops without another `Refresh`.
  Trace: a vote is counted, `stopReaders`, the last transfer of an older snapshot,
  exit. Another running instance repairs this; a stop of the last one does not.
* `final_immutable` (`ImmutableIsOne`). `poll.go:153-154` says that after the settle time the number
  never changes ("Дальше цифра не меняется никогда"), and `poll.go:138` declares it immutable for an
  hour. `resultsOf` logs a failed read of Postgres (`admin.go:228-230`) and answers 200 with the snapshot
  alone. Trace: a vote is counted and stored in time, the window closes, the poll leaves
  `TrackedIDs` and the next refresh drops its snapshot; an instance whose read fails
  answers 0, immutable, another one 1.

Smaller ones, which no run of their own shows:

* `store.go:54-56` and `admin.go:268-270` expect every bad description to be refused by `Validate` and
  not by a CHECK, which answers 500. `Validate` compares times in nanoseconds: a poll shorter than
  a microsecond passes, and the CHECK refuses it. `ValidIsStorable` and `LoadsAgree` ask for times
  that the table can hold (`WholeTimes`).
* `poll.go:153-154` says that the number never changes after the settle time. `ImmutableIsFinal` says
  under which conditions it is the full count: votes reach Redis in time (a delta that was restored
  during a long outage arrives whenever it can), and an instance keeps refreshing and saving.
* `admin.go:204-212` takes the maximum so that the operator is not shown a result that goes back. When
  the read of Postgres fails (`admin.go:228-230`) the snapshot is shown alone, which is below an earlier answer
  if another instance has saved what this one has not read yet. `ShownNeverRegresses` excludes this pair of answers.
* `cache.go:32-34` promises at most one query per instance and poll. A caller between `lookup` and
  singleflight can start a second load after the first has ended; it is harmless.
* `flushRoute` writes nothing for an interval without counted requests, and drops the sum and the
  maximum it has swapped out; a request between its count and its sum loses its latency so.
* `verify` of the load generator takes any divergence for a fault of the service; replies that were lost
  after the vote was counted make one too, as `DivergenceExplained` bounds.
* `token.go` keeps the identity of a browser over reloads; two pages that open at once without a
  cookie get two identities, of which the browser keeps the later. `OneVotePerBrowser` excludes it
  (`raced`).

## 7. Plan

Done: all modules above with their runs; the proofs of all their safety properties and types, and of
the refinements of `VoteLedger` and `Standings`.

Next:

1. A composition of `Dedup` and `Batcher`, accepted votes against counted ones, and of the stops into
   one process with the order of `main.go`.
2. What to promise a voter whose neighbour goes away (`dedup/redis.go:63`): whether the cancellation of a
   request may open the circuit for everyone.
