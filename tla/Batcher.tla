------------------------------ MODULE Batcher ------------------------------
(***************************************************************************)
(* The write path of one API instance: internal/vote (counter.go,          *)
(* batcher.go, sink.go), from a vote that handleVote has accepted to the    *)
(* HINCRBY/INCRBY commands that Redis executes.                            *)
(*                                                                         *)
(* Handlers (one goroutine per request), the flusher (Batcher.Run) and      *)
(* Redis are concurrent; one action is one atomic access to shared memory   *)
(* (an atomic Add, a Swap(0), a pointer load, a section under the mutex) or *)
(* one command executed by Redis.                                          *)
(*                                                                         *)
(* A counter is represented by the SET of votes whose increments it holds,  *)
(* its Int64 value being the size of that set: Add is the insertion of the  *)
(* vote, Swap(0) takes the set, Restore puts it back.  A Redis counter that  *)
(* got the same increment more than once has the vote in twice as well.     *)
(***************************************************************************)
EXTENDS Naturals, FiniteSets

CONSTANTS
    Votes,       \* accepted votes, one request goroutine each
    Polls,       \* poll identifiers
    NumOptions,  \* options of a poll, indexed 1..NumOptions
    Choices,     \* the sets of options a validated vote may select
    MaxFaults,   \* bound: retryable failures of the connection to Redis
    None         \* no counters

Options == 1..NumOptions
VotersCell == NumOptions + 1
Cells == 1..VotersCell          \* in the order Swap, Push and Restore visit them

ASSUME NumOptionsAssumption == NumOptions \in Nat \ {0}
ASSUME ChoicesAssumption == Choices \subseteq (SUBSET Options) \ {{}}
ASSUME FaultsAssumption == MaxFaults \in Nat
ASSUME NoneAssumption == None \notin Votes

VARIABLES
    \* the handlers
    req,      \* what each vote asks for; chosen initially, never changed
    vpc,      \* where its goroutine is
    obj,      \* the Counters it obtained (named after the vote that allocated it)
    added,    \* the counters it has incremented so far
    \* the memory they share with the flusher
    polls,    \* Batcher.polls: poll -> its Counters
    mem,      \* Counters -> cell -> increments held
    \* the flusher
    run,      \* life of the process
    fpc,      \* where the flusher is
    final,    \* this Flush is the one Run makes after ctx.Done
    view,     \* the polls map Flush ranges over, less the polls already done
    cur, at,  \* the poll and the counter being handled
    delta,    \* Delta: cell -> increments taken by Swap
    early,    \* votes done when the final Flush started, less those it put back
    \* the connection and Redis
    pipe,     \* cells of the pipeline in flight that Redis has not answered
    nack,     \* cells whose command Redis answered with an error
    late,     \* pipelines given up by the client that Redis may still execute
    faults,
    redis,    \* poll -> cell -> increments counted in Redis
    twice,    \* poll -> cell -> increments counted more than once
    \* history
    replayed, \* increments put back although Redis had executed them
    gone      \* increments that their last holder lost

handlerVars == <<req, vpc, obj, added>>
flushVars == <<final, view, cur, at, delta, early>>
netVars == <<pipe, nack, late, faults>>
redisVars == <<redis, twice>>
histVars == <<replayed, gone>>
vars == <<handlerVars, polls, mem, run, fpc, flushVars, netVars, redisVars, histVars>>

Empty == [c \in Cells |-> {}]
Pipeline == [poll : Polls, todo : [Cells -> SUBSET Votes]]

Init ==
    /\ req \in [Votes -> [poll : Polls, choice : Choices]]
    /\ vpc = [v \in Votes |-> "idle"]
    /\ obj = [v \in Votes |-> None]
    /\ added = [v \in Votes |-> {}]
    /\ polls = [p \in Polls |-> None]
    /\ mem = [o \in Votes |-> Empty]
    /\ run = "running" /\ fpc = "idle" /\ final = FALSE
    /\ view = [p \in Polls |-> None]
    /\ cur \in Polls /\ at = 1 /\ delta = Empty /\ early = {}
    /\ pipe = {} /\ nack = {} /\ late = {} /\ faults = 0
    /\ redis = [p \in Polls |-> Empty] /\ twice = [p \in Polls |-> Empty]
    /\ replayed = Empty /\ gone = Empty

-----------------------------------------------------------------------------
(* Handlers: Server.counters and Counters.Add.                             *)

\* The fast path: one load of the pointer to the map.
Lookup(v) ==
    /\ run # "down" /\ vpc[v] = "idle"
    /\ LET o == polls[req[v].poll] IN
       /\ obj' = [obj EXCEPT ![v] = o]
       /\ vpc' = [vpc EXCEPT ![v] = IF o = None THEN "register" ELSE "add"]
    /\ UNCHANGED <<req, added, polls, mem, run, fpc, flushVars, netVars, redisVars, histVars>>

\* Mutant: no second look under the mutex.
EntryNoRecheck(v) == v

\* What Register finds when it looks again under the mutex, or else allocates.
Entry(v) == IF polls[req[v].poll] # None THEN polls[req[v].poll] ELSE v

\* The slow path: under the mutex, and only there, a new map is published.
Register(v) ==
    /\ vpc[v] = "register"
    /\ polls' = [polls EXCEPT ![req[v].poll] = Entry(v)]
    /\ obj' = [obj EXCEPT ![v] = Entry(v)]
    /\ vpc' = [vpc EXCEPT ![v] = "add"]
    /\ UNCHANGED <<req, added, mem, run, fpc, flushVars, netVars, redisVars, histVars>>

Increment(v, c) ==
    /\ mem' = [mem EXCEPT ![obj[v]][c] = @ \cup {v}]
    /\ added' = [added EXCEPT ![v] = @ \cup {c}]

AddOption(v, c) ==
    /\ vpc[v] = "add"
    /\ c \in req[v].choice \ added[v]
    /\ Increment(v, c)
    /\ UNCHANGED <<req, vpc, obj, polls, run, fpc, flushVars, netVars, redisVars, histVars>>

\* voters is incremented last; the 200 follows.
AddVoters(v) ==
    /\ vpc[v] = "add"
    /\ req[v].choice \subseteq added[v]
    /\ Increment(v, VotersCell)
    /\ vpc' = [vpc EXCEPT ![v] = "done"]
    /\ obj' = [obj EXCEPT ![v] = None]
    /\ UNCHANGED <<req, polls, run, fpc, flushVars, netVars, redisVars, histVars>>

Handler(v) ==
    \/ Lookup(v)
    \/ Register(v)
    \/ \E c \in Options : AddOption(v, c)
    \/ AddVoters(v)

-----------------------------------------------------------------------------
(* The flusher: Batcher.Run and Batcher.Flush.                             *)

\* Mutant: the map is loaded once, when Run starts, and not by each Flush.
LoadMapOnce == [p \in Polls |-> None]

\* One load of the pointer to the map; Flush ranges over what it finds there.
LoadMap == polls

StartFlush(m) ==
    /\ fpc = "idle"
    /\ view' = m
    /\ fpc' = "next"
    /\ UNCHANGED <<handlerVars, polls, mem, run, cur, at, delta, netVars, redisVars, histVars>>

\* select may still choose the ticker after the context is done.
Tick ==
    /\ run \in {"running", "stopping"}
    /\ StartFlush(LoadMap)
    /\ UNCHANGED <<final, early>>

LastFlush(m) ==
    /\ run = "stopping"
    /\ StartFlush(m)
    /\ final' = TRUE
    /\ early' = {v \in Votes : vpc[v] = "done"}

\* Mutant: Run returns on ctx.Done without a final Flush.
NoFinalFlush == LastFlush([p \in Polls |-> None])

FinalFlush == LastFlush(LoadMap)

NextPoll(p) ==
    /\ fpc = "next"
    /\ view[p] # None
    /\ cur' = p
    /\ fpc' = "swap"
    /\ UNCHANGED <<handlerVars, polls, mem, run, final, view, at, delta, early, netVars,
                   redisVars, histVars>>

\* The range over the map ends; after the final Flush, Run returns.
FlushDone ==
    /\ fpc = "next"
    /\ \A p \in Polls : view[p] = None
    /\ fpc' = "idle"
    /\ run' = IF final THEN "stopped" ELSE run
    /\ final' = FALSE
    /\ UNCHANGED <<handlerVars, polls, mem, view, cur, at, delta, early, netVars,
                   redisVars, histVars>>

\* This poll is finished with: the loop goes on to the next one.
PollDone ==
    /\ fpc' = "next"
    /\ view' = [view EXCEPT ![cur] = None]
    /\ at' = 1
    /\ delta' = Empty

\* Mutant: the counter is loaded and not reset.
LeftByLoad(S) == S

\* What Swap(0) leaves in a counter.
Left(S) == {}

\* Swap(0) of one counter; the options come first, in index order.
Take(c) ==
    /\ mem' = [mem EXCEPT ![view[cur]][c] = Left(@)]
    /\ UNCHANGED <<handlerVars, polls, run, final, cur, early, netVars, redisVars, histVars>>

SwapOption ==
    /\ fpc = "swap" /\ at < VotersCell
    /\ Take(at)
    /\ delta' = [delta EXCEPT ![at] = mem[view[cur]][at]]
    /\ at' = at + 1
    /\ UNCHANGED <<fpc, view>>

\* The last Swap(0), and the IsEmpty test that follows it.
SwapVoters ==
    /\ fpc = "swap" /\ at = VotersCell
    /\ Take(at)
    /\ LET d == [delta EXCEPT ![at] = mem[view[cur]][at]] IN
       IF d = Empty THEN PollDone
       ELSE delta' = d /\ fpc' = "push" /\ at' = 1 /\ view' = view

-----------------------------------------------------------------------------
(* RedisSink.Push and classify: what may become of one pipeline.           *)

\* Push returned nil, or ErrMaybeApplied: the delta is forgotten.
Forget ==
    /\ fpc \in {"push", "await"}
    /\ PollDone
    /\ pipe' = {} /\ nack' = {}
    /\ UNCHANGED <<handlerVars, polls, mem, run, final, cur, early, redisVars>>

\* Push returned another error: Restore follows.
GiveBack ==
    /\ fpc' = "restore"
    /\ early' = IF final THEN early \ UNION {delta[c] : c \in Cells} ELSE early
    /\ pipe' = {} /\ nack' = {}
    /\ UNCHANGED <<handlerVars, polls, mem, run, final, view, cur, at, delta, late, redisVars,
                   gone>>

Fault == faults < MaxFaults /\ faults' = faults + 1

\* The pipeline is written to a connection.  A Flush whose context is done gets none.
Send ==
    /\ fpc = "push"
    /\ run = "running" \/ final
    /\ fpc' = "await"
    /\ pipe' = {c \in Cells : delta[c] # {}}
    /\ UNCHANGED <<handlerVars, polls, mem, run, flushVars, nack, late, faults, redisVars,
                   histVars>>

\* No connection: dial refused, or no free connection in the pool in time.
Refused ==
    /\ fpc = "push"
    /\ Fault
    /\ GiveBack
    /\ UNCHANGED replayed

\* The tick's context was cancelled before a connection was obtained.
Cancelled ==
    /\ fpc = "push" /\ run = "stopping" /\ ~final
    /\ GiveBack
    /\ UNCHANGED <<faults, replayed>>

\* The dial timed out.  Timeout() is true of the error, so classify says "maybe applied".
DialTimeout ==
    /\ fpc = "push"
    /\ Forget
    /\ gone' = [c \in Cells |-> gone[c] \cup delta[c]]
    /\ UNCHANGED <<late, faults, replayed>>

ReplyOk ==
    /\ fpc = "await" /\ pipe = {} /\ nack = {}
    /\ Forget
    /\ UNCHANGED <<late, faults, histVars>>

\* What is left of the pipeline when its client is no longer there.
Abandoned == [poll |-> cur, todo |-> [c \in Cells |-> IF c \in pipe THEN delta[c] ELSE {}]]
AbandonPipe == late' = IF pipe = {} THEN late ELSE late \cup {Abandoned}

\* A timeout, or a broken connection, while the replies are awaited: ErrMaybeApplied.
NoReply ==
    /\ fpc = "await"
    /\ Forget
    /\ AbandonPipe
    /\ gone' = [c \in Cells |-> IF c \in nack THEN gone[c] \cup delta[c] ELSE gone[c]]
    /\ UNCHANGED <<faults, replayed>>

\* The increments that Redis has executed from the pipeline in flight.
Executed(c) == IF c \in pipe \cup nack THEN {} ELSE delta[c]
Replay == replayed' = [c \in Cells |-> replayed[c] \cup Executed(c)]

\* All replies are in and one is an error: classify returns it as it is.
ReplyError ==
    /\ fpc = "await" /\ pipe = {} /\ nack # {}
    /\ GiveBack
    /\ Replay
    /\ UNCHANGED faults

\* The peer closes the connection: io.EOF, no net.OpError, classify returns it as it is.
ServerClose ==
    /\ fpc = "await"
    /\ Fault
    /\ GiveBack
    /\ Replay

\* Mutant: Restore stores, and overwrites what was added since Swap.
PutBackByStore(S, d) == IF d = {} THEN S ELSE d

PutBack(S, d) == S \cup d

\* Mutant: the loop of Restore runs past the last counter.
RestoreEndOffByOne == VotersCell + 1

RestoreEnd == VotersCell

\* Counters.Restore, one atomic Add per counter.
RestoreCell ==
    /\ fpc = "restore"
    /\ mem' = [mem EXCEPT ![view[cur]][at] = PutBack(@, delta[at])]
    /\ IF at = RestoreEnd
       THEN PollDone
       ELSE /\ delta' = [delta EXCEPT ![at] = {}]
            /\ at' = at + 1
            /\ UNCHANGED <<fpc, view>>
    /\ UNCHANGED <<handlerVars, polls, run, final, cur, early, netVars, redisVars, histVars>>

Flusher ==
    \/ Tick \/ FinalFlush \/ (\E p \in Polls : NextPoll(p)) \/ FlushDone
    \/ SwapOption \/ SwapVoters
    \/ Send \/ Refused \/ Cancelled \/ DialTimeout
    \/ ReplyOk \/ NoReply \/ ReplyError \/ ServerClose
    \/ RestoreCell

-----------------------------------------------------------------------------
(* Redis executes the commands of a pipeline one by one, in their order.   *)

Count(p, c, s) ==
    /\ redis' = [redis EXCEPT ![p][c] = @ \cup s]
    /\ twice' = [twice EXCEPT ![p][c] = @ \cup (redis[p][c] \cap s)]

First(c, S) == c \in S /\ \A d \in S : c <= d

\* Mutant: the field is looked up by position among the commands of the pipeline.
FieldByPosition(c) == Cardinality({d \in Cells : d <= c /\ delta[d] # {}})

\* The field a command increments: optionIDs[i], or the voters key.
Field(c) == c

Exec(c) ==
    /\ fpc = "await" /\ First(c, pipe)
    /\ Count(cur, Field(c), delta[c])
    /\ pipe' = pipe \ {c}
    /\ UNCHANGED <<handlerVars, polls, mem, run, fpc, flushVars, nack, late, faults, histVars>>

\* OOM, WRONGTYPE, LOADING, READONLY: an error reply to one command.
Reject(c) ==
    /\ fpc = "await" /\ First(c, pipe)
    /\ Fault
    /\ pipe' = pipe \ {c}
    /\ nack' = nack \cup {c}
    /\ UNCHANGED <<handlerVars, polls, mem, run, fpc, flushVars, late, redisVars, histVars>>

Todo(l) == {c \in Cells : l.todo[c] # {}}

\* The head of an abandoned pipeline is off the wire.
LateStep(l, c) ==
    /\ l \in late /\ First(c, Todo(l))
    /\ late' = (late \ {l}) \cup
               (IF Todo(l) = {c} THEN {} ELSE {[l EXCEPT !.todo[c] = {}]})
    /\ UNCHANGED <<handlerVars, polls, mem, run, fpc, flushVars, pipe, nack, faults, replayed>>

LateExec(l, c) ==
    /\ LateStep(l, c)
    /\ Count(l.poll, c, l.todo[c])
    /\ UNCHANGED gone

\* It was rejected, or never reached Redis.
LateLost(l, c) ==
    /\ LateStep(l, c)
    /\ gone' = [gone EXCEPT ![c] = @ \cup l.todo[c]]
    /\ UNCHANGED redisVars

Late == \E l \in late, c \in Cells : LateExec(l, c) \/ LateLost(l, c)

Redis == (\E c \in Cells : Exec(c) \/ Reject(c)) \/ Late

-----------------------------------------------------------------------------
(* The process.                                                            *)

\* stopBatcher; handlers may be running still if Shutdown timed out.
Stop ==
    /\ run = "running"
    /\ run' = "stopping"
    /\ UNCHANGED <<handlerVars, polls, mem, fpc, flushVars, netVars, redisVars, histVars>>

\* The votes that the counters of the instance hold for one option, or for voters.
InCounters(c) == UNION {mem[o][c] : o \in Votes}

\* The process is no more: what only its memory held is gone.
Down ==
    /\ run' = "down"
    /\ vpc' = [v \in Votes |-> IF vpc[v] \in {"register", "add"} THEN "cut" ELSE vpc[v]]
    /\ obj' = [v \in Votes |-> None]
    /\ polls' = [p \in Polls |-> None] /\ view' = [p \in Polls |-> None]
    /\ mem' = [o \in Votes |-> Empty] /\ delta' = Empty
    /\ fpc' = "idle" /\ at' = 1 /\ final' = FALSE /\ early' = {}
    /\ pipe' = {} /\ nack' = {} /\ AbandonPipe
    /\ gone' = [c \in Cells |-> gone[c] \cup InCounters(c)
                   \cup (IF fpc = "await" /\ c \notin nack THEN {} ELSE delta[c])]
    /\ UNCHANGED <<req, added, cur, faults, redisVars, replayed>>

\* A crash, or an exit that no longer waits for the final Flush.
Kill == run \in {"running", "stopping"} /\ Down
Exit == run = "stopped" /\ Down

Restart ==
    /\ run = "down"
    /\ run' = "running"
    /\ UNCHANGED <<handlerVars, polls, mem, fpc, flushVars, netVars, redisVars, histVars>>

Next ==
    \/ \E v \in Votes : Handler(v)
    \/ Flusher
    \/ Redis
    \/ Stop \/ Kill \/ Exit \/ Restart

Spec == Init /\ [][Next]_vars

\* The goroutine of the flusher is scheduled, select chooses fairly between its two
\* ready cases, an abandoned pipeline leaves the wire, a stopped process exits.
Fairness ==
    /\ WF_vars(Flusher) /\ SF_vars(FinalFlush)
    /\ WF_vars(Late)
    /\ WF_vars(Exit)

FairSpec == Spec /\ Fairness

-----------------------------------------------------------------------------
TypeOK ==
    /\ req \in [Votes -> [poll : Polls, choice : Choices]]
    /\ vpc \in [Votes -> {"idle", "register", "add", "done", "cut"}]
    /\ obj \in [Votes -> Votes \cup {None}]
    /\ added \in [Votes -> SUBSET Cells]
    /\ polls \in [Polls -> Votes \cup {None}]
    /\ mem \in [Votes -> [Cells -> SUBSET Votes]]
    /\ run \in {"running", "stopping", "stopped", "down"}
    /\ fpc \in {"idle", "next", "swap", "push", "await", "restore"}
    /\ final \in BOOLEAN
    /\ view \in [Polls -> Votes \cup {None}]
    /\ cur \in Polls /\ at \in Cells
    /\ delta \in [Cells -> SUBSET Votes]
    /\ early \in SUBSET Votes
    /\ pipe \in SUBSET Cells /\ nack \in SUBSET Cells
    /\ late \in SUBSET Pipeline
    /\ faults \in 0..MaxFaults
    /\ redis \in [Polls -> [Cells -> SUBSET Votes]]
    /\ twice \in [Polls -> [Cells -> SUBSET Votes]]
    /\ replayed \in [Cells -> SUBSET Votes]
    /\ gone \in [Cells -> SUBSET Votes]

(***************************************************************************)
(* Where an increment <<v, c>> can be.                                     *)
(***************************************************************************)
InMemory(v, c) == \E o \in Votes : v \in mem[o][c]

\* Taken by Swap, and neither executed by Redis nor back in memory yet.
InHand(v, c) == v \in delta[c] /\ (fpc = "await" => c \in pipe \cup nack)

OnTheWire(v, c) == \E l \in late : v \in l.todo[c]
Counted(v, c) == v \in redis[req[v].poll][c]

Increments == Votes \X Cells
Pending == {i \in Increments : InMemory(i[1], i[2]) \/ InHand(i[1], i[2]) \/ OnTheWire(i[1], i[2])}
CountedSet == {i \in Increments : Counted(i[1], i[2])}
TwiceSet == {i \in Increments : i[1] \in twice[req[i[1]].poll][i[2]]}
GoneSet == {i \in Increments : i[1] \in gone[i[2]]}

Ledger == INSTANCE VoteLedger WITH
    pending <- Pending, counted <- CountedSet, again <- TwiceSet, lost <- GoneSet

(***************************************************************************)
(* Properties.                                                             *)
(***************************************************************************)

\* No increment a handler has made disappears: it is in the counters that the flusher
\* will visit, in the delta in hand, on its way to Redis, counted there under its own
\* poll and option, or was given up at a drop or a crash.  Two handlers that register the
\* same poll at once (batcher.go Register), an Add between two Swaps (counter.go Swap)
\* and an Add between Swap and Restore must all keep this true.
NoVoteVanishes ==
    \A v \in Votes : \A c \in added[v] :
        \/ polls[req[v].poll] # None /\ v \in mem[polls[req[v].poll]][c]
        \/ InHand(v, c)
        \/ OnTheWire(v, c)
        \/ Counted(v, c)
        \/ v \in gone[c]

\* Redis counts an increment more than once only if Restore put back a delta after Redis
\* had executed that increment (batcher.go Flush, sink.go classify); no other
\* interleaving of handlers, flusher, timeouts, late execution and crashes does it.
CountedTwiceOnlyIfReplayed ==
    \A p \in Polls, c \in Cells : twice[p][c] \subseteq replayed[c]

\* Redis counters of a poll hold only what votes of that poll chose: the counters, the
\* optionIDs and the key that Flush uses belong together.
CountedWhereCast ==
    \A p \in Polls, c \in Cells : \A v \in redis[p][c] :
        req[v].poll = p /\ (c \in req[v].choice \/ c = VotersCell)

\* When Run has returned, no vote acknowledged before its final Flush is left in memory
\* (batcher.go Run: that flush makes a planned restart lossless), unless that flush
\* itself had to put it back.
FinalFlushDrains ==
    run = "stopped" => \A v \in early, c \in Cells : ~InMemory(v, c)

\* The write path implements the ledger of increments.
ImplementsLedger == Ledger!Spec

\* Every increment leaves the instance: counted, or lost.  It is never stuck in memory.
EventuallySettled ==
    \A v \in Votes, c \in Cells : <<v, c>> \in Pending ~> <<v, c>> \notin Pending

(***************************************************************************)
(* Claims of comments and documents that the code does not keep.           *)
(***************************************************************************)

\* sink.go: a delta that may have been executed is never put back, as a vote counted twice
\* is worse than a vote lost.
NoDoubleCount == \A p \in Polls, c \in Cells : twice[p][c] = {}

\* sink.go, batcher.go: a delta of which no command was written is safe to send again and
\* goes back to the counters; a live instance does not lose it.
UnsentDeltaIsKept ==
    [][fpc = "push" /\ fpc' \notin {"push", "await"} /\ run' # "down" =>
           \A c \in Cells : \A v \in delta[c] : <<v, c>> \in Pending']_vars

\* snapshotter.go Sum: for a single-choice poll the sum of the options must equal voters
\* (here: in Redis, with no handler at work, no batch in hand or in flight, nothing lost).
SumEqualsVoters ==
    /\ fpc = "idle" /\ late = {} /\ gone = Empty /\ faults = 0
    /\ \A v \in Votes : vpc[v] \in {"idle", "done"}
    =>
        \A p \in Polls :
            Cardinality({i \in Votes \X Options : i[1] \in redis[p][i[2]]}) =
            Cardinality(redis[p][VotersCell])
=============================================================================
