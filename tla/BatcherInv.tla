----------------------------- MODULE BatcherInv -----------------------------
(***************************************************************************)
(* The inductive invariant of Batcher, in named parts.                     *)
(***************************************************************************)
EXTENDS Batcher

PollOf(v) == req[v].poll
Busy == fpc \in {"swap", "push", "await", "restore"}

\* No two polls share their counters.  Handlers hold the published counters of their poll;
\* nothing is added before that.
HandlerInv ==
    /\ \A p \in Polls : polls[p] # None => PollOf(polls[p]) = p
    /\ \A v \in Votes :
        /\ vpc[v] = "add" => obj[v] # None /\ obj[v] = polls[PollOf(v)]
        /\ vpc[v] \in {"idle", "register"} => added[v] = {}
        /\ vpc[v] = "add" => VotersCell \notin added[v]
        /\ added[v] \subseteq req[v].choice \cup {VotersCell}
        /\ run = "down" => vpc[v] \notin {"register", "add"}

\* The flusher's variables agree with its place in the loop.
FlusherInv ==
    /\ \A p \in Polls : view[p] \in {None, polls[p]}
    /\ Busy => view[cur] # None
    /\ ~Busy => delta = Empty
    /\ fpc = "idle" => \A p \in Polls : view[p] = None
    /\ fpc = "swap" => \A c \in Cells : at <= c => delta[c] = {}
    /\ fpc = "restore" => \A c \in Cells : c < at => delta[c] = {}
    /\ fpc \notin {"swap", "restore"} => at = 1
    /\ fpc # "await" => pipe = {} /\ nack = {}
    /\ pipe \cap nack = {}
    /\ final => run = "stopping" /\ fpc # "idle"
    /\ run \in {"stopped", "down"} => fpc = "idle"
    /\ run = "down" => \A p \in Polls : polls[p] = None

\* An increment is only where its vote made it.
MemPlaced == \A o \in Votes, c \in Cells : \A v \in mem[o][c] :
                 c \in added[v] /\ o = polls[PollOf(v)]
HandPlaced == \A c \in Cells : \A v \in delta[c] : c \in added[v] /\ cur = PollOf(v)
WirePlaced == \A l \in late, c \in Cells : \A v \in l.todo[c] :
                  c \in added[v] /\ l.poll = PollOf(v)
CountPlaced == \A p \in Polls, c \in Cells : \A v \in redis[p][c] :
                   c \in added[v] /\ p = PollOf(v)
GonePlaced == \A c \in Cells : \A v \in gone[c] : c \in added[v]

Placed == MemPlaced /\ HandPlaced /\ WirePlaced /\ CountPlaced /\ GonePlaced

\* An increment is pending in at most one place.
OnePlace ==
    \A v \in Votes, c \in Cells :
        /\ InMemory(v, c) => v \notin delta[c] /\ ~OnTheWire(v, c)
        /\ v \in delta[c] => ~OnTheWire(v, c)
        /\ \A l, m \in late : v \in l.todo[c] /\ v \in m.todo[c] => l = m

\* A pending increment that Redis has counted was put back by Restore.
CountedOrReplayed ==
    \A v \in Votes, c \in Cells :
        /\ Counted(v, c) /\ (InMemory(v, c) \/ InHand(v, c) \/ OnTheWire(v, c))
               => v \in replayed[c]
        /\ fpc = "await" /\ v \in delta[c] /\ c \notin pipe \cup nack => Counted(v, c)

\* The final Flush has still to visit what the early votes have in memory.
DrainInv ==
    /\ final \/ run = "stopped" => \A v \in early : vpc[v] = "done"
    /\ final /\ fpc = "restore" => \A c \in Cells : early \cap delta[c] = {}
    /\ final => \A v \in early, c \in Cells : InMemory(v, c) =>
                    /\ view[PollOf(v)] # None
                    /\ Busy /\ cur = PollOf(v) => fpc = "swap" /\ at <= c
    /\ FinalFlushDrains

IInv ==
    /\ TypeOK /\ HandlerInv /\ FlusherInv /\ Placed /\ NoVoteVanishes
    /\ OnePlace /\ CountedOrReplayed /\ CountedTwiceOnlyIfReplayed
    /\ DrainInv
=============================================================================
