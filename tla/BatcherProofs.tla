--------------------------- MODULE BatcherProofs ---------------------------
(***************************************************************************)
(* Proofs about Batcher, for every number of votes, polls and options and   *)
(* every number of connection failures.                                    *)
(*                                                                         *)
(* First the types.  The effect lemmas say what an update of a nested       *)
(* function, or of the set of abandoned pipelines, comes to pointwise;      *)
(* <Action>Type shows for one action that it keeps TypeOK, and TypeStep     *)
(* puts them together.                                                      *)
(*                                                                         *)
(* Then IInv, which is inductive: <Action>Step shows for one action that it *)
(* keeps every part of IInv but the types.  Step u of each proof is about   *)
(* the parts the action cannot disturb; the others have a step each, named  *)
(* after the part.                                                          *)
(*                                                                         *)
(* Last the refinement: <Action>Refines says which step of VoteLedger an    *)
(* action is.                                                               *)
(***************************************************************************)
EXTENDS BatcherInv, TLAPS

-----------------------------------------------------------------------------
\* The counters in the order of Swap: the options, and voters last.
LEMMA CellsFact ==
    /\ VotersCell \in Cells /\ Options \subseteq Cells /\ 1 \in Cells
    /\ Cells \subseteq Nat \ {0} /\ VotersCell \notin Options
    /\ \A c \in Cells : c <= VotersCell /\ (c # VotersCell => c + 1 \in Cells)
  BY NumOptionsAssumption DEF Cells, VotersCell, Options

\* The effect of an update two levels deep.
LEMMA Update2 ==
  ASSUME NEW A, NEW B, NEW S, NEW f \in [A -> [B -> S]],
         NEW a \in A, NEW b \in B, NEW e \in S,
         NEW g, g = [f EXCEPT ![a][b] = e]
  PROVE  /\ g \in [A -> [B -> S]]
         /\ \A x \in A, y \in B : g[x][y] = IF x = a /\ y = b THEN e ELSE f[x][y]
  OBVIOUS

\* Increment adds one vote to one counter.
LEMMA IncrementEffect ==
  ASSUME TypeOK, HandlerInv, NEW v \in Votes, NEW c \in Cells, vpc[v] = "add",
         mem' = [mem EXCEPT ![obj[v]][c] = mem[obj[v]][c] \cup {v}],
         added' = [added EXCEPT ![v] = added[v] \cup {c}]
  PROVE  /\ obj[v] \in Votes
         /\ mem' \in [Votes -> [Cells -> SUBSET Votes]]
         /\ \A o \in Votes, d \in Cells :
                mem'[o][d] = IF o = obj[v] /\ d = c THEN mem[o][d] \cup {v} ELSE mem[o][d]
         /\ added' \in [Votes -> SUBSET Cells]
         /\ \A w \in Votes : added'[w] = IF w = v THEN added[w] \cup {c} ELSE added[w]
<1>0. obj[v] \in Votes
  BY DEF TypeOK, HandlerInv
<1>1. mem \in [Votes -> [Cells -> SUBSET Votes]]
  BY DEF TypeOK
<1>2. mem[obj[v]][c] \cup {v} \in SUBSET Votes
  BY <1>0, <1>1
<1>4. /\ added' \in [Votes -> SUBSET Cells]
      /\ \A w \in Votes : added'[w] = IF w = v THEN added[w] \cup {c} ELSE added[w]
  BY DEF TypeOK
<1> QED
  BY <1>0, <1>1, <1>2, <1>4, Update2

\* Swap(0) empties one counter.
LEMMA TakeEffect ==
  ASSUME TypeOK, FlusherInv, fpc = "swap", Take(at)
  PROVE  /\ view[cur] \in Votes /\ at \in Cells
         /\ mem' \in [Votes -> [Cells -> SUBSET Votes]]
         /\ \A o \in Votes, d \in Cells :
                mem'[o][d] = IF o = view[cur] /\ d = at THEN {} ELSE mem[o][d]
<1>0. view[cur] \in Votes /\ at \in Cells
  BY DEF TypeOK, FlusherInv, Busy
<1>1. mem \in [Votes -> [Cells -> SUBSET Votes]]
  BY DEF TypeOK
<1>2. mem' = [mem EXCEPT ![view[cur]][at] = {}]
  BY <1>1 DEF Take, Left
<1> QED
  BY <1>0, <1>1, <1>2, Update2

\* Restore adds a counter of the delta to the counter in memory.
LEMMA RestoreEffect ==
  ASSUME TypeOK, FlusherInv, RestoreCell
  PROVE  /\ view[cur] \in Votes /\ at \in Cells
         /\ mem' \in [Votes -> [Cells -> SUBSET Votes]]
         /\ \A o \in Votes, d \in Cells :
                mem'[o][d] = IF o = view[cur] /\ d = at THEN mem[o][d] \cup delta[at]
                                                        ELSE mem[o][d]
<1>0. view[cur] \in Votes /\ at \in Cells
  BY DEF TypeOK, FlusherInv, Busy, RestoreCell
<1>1. mem \in [Votes -> [Cells -> SUBSET Votes]]
  BY DEF TypeOK
<1>2. mem[view[cur]][at] \cup delta[at] \in SUBSET Votes
  BY <1>0, <1>1 DEF TypeOK
<1>3. mem' = [mem EXCEPT ![view[cur]][at] = mem[view[cur]][at] \cup delta[at]]
  BY <1>1 DEF RestoreCell, PutBack
<1> QED
  BY <1>0, <1>1, <1>2, <1>3, Update2

\* A command adds its increments to one counter, and to twice those already there.
CountOutcome(p, c, s) ==
    /\ redis' \in [Polls -> [Cells -> SUBSET Votes]]
    /\ twice' \in [Polls -> [Cells -> SUBSET Votes]]
    /\ \A q \in Polls, d \in Cells :
           redis'[q][d] = IF q = p /\ d = c THEN redis[q][d] \cup s ELSE redis[q][d]
    /\ \A q \in Polls, d \in Cells :
           twice'[q][d] = IF q = p /\ d = c THEN twice[q][d] \cup (redis[q][d] \cap s)
                                            ELSE twice[q][d]

\* Count has that outcome.
LEMMA CountEffect ==
  ASSUME TypeOK, NEW p \in Polls, NEW c \in Cells, NEW s \in SUBSET Votes, Count(p, c, s)
  PROVE  CountOutcome(p, c, s)
<1>1. /\ redis \in [Polls -> [Cells -> SUBSET Votes]]
      /\ twice \in [Polls -> [Cells -> SUBSET Votes]]
  BY DEF TypeOK
<1>2. /\ redis[p][c] \cup s \in SUBSET Votes
      /\ twice[p][c] \cup (redis[p][c] \cap s) \in SUBSET Votes
  BY <1>1
<1>3. /\ redis' = [redis EXCEPT ![p][c] = redis[p][c] \cup s]
      /\ twice' = [twice EXCEPT ![p][c] = twice[p][c] \cup (redis[p][c] \cap s)]
  BY <1>1 DEF Count
<1>5. /\ redis' \in [Polls -> [Cells -> SUBSET Votes]]
      /\ \A q \in Polls, d \in Cells :
             redis'[q][d] = IF q = p /\ d = c THEN redis[p][c] \cup s ELSE redis[q][d]
  BY <1>1, <1>2, <1>3, Update2
<1>6. /\ twice' \in [Polls -> [Cells -> SUBSET Votes]]
      /\ \A q \in Polls, d \in Cells :
             twice'[q][d] = IF q = p /\ d = c THEN twice[p][c] \cup (redis[p][c] \cap s)
                                              ELSE twice[q][d]
  BY <1>1, <1>2, <1>3, Update2
<1> QED
  BY <1>5, <1>6 DEF CountOutcome

\* The pipeline a client leaves behind holds the commands Redis had not answered.
LEMMA AbandonEffect ==
  ASSUME TypeOK, AbandonPipe
  PROVE  /\ late' \in SUBSET Pipeline
         /\ late \subseteq late'
         /\ \A l \in late' \ late : /\ l = Abandoned
                                    /\ l.poll = cur
                                    /\ \A c \in Cells : l.todo[c] = IF c \in pipe THEN delta[c] ELSE {}
         /\ pipe # {} => Abandoned \in late'
         /\ Abandoned.poll = cur
         /\ \A c \in Cells : Abandoned.todo[c] = IF c \in pipe THEN delta[c] ELSE {}
<1>1. Abandoned \in Pipeline
  BY DEF TypeOK, Abandoned, Pipeline
<1>2. /\ Abandoned.poll = cur
      /\ \A c \in Cells : Abandoned.todo[c] = IF c \in pipe THEN delta[c] ELSE {}
  BY DEF Abandoned
<1> QED
  BY <1>1, <1>2 DEF TypeOK, AbandonPipe

\* What is left of an abandoned pipeline after its first command.
Rest(l, c) == [l EXCEPT !.todo[c] = {}]

\* What is left of the abandoned pipelines when the head of one is off the wire.
LEMMA LateEffect ==
  ASSUME TypeOK, NEW l \in late, NEW c \in Cells,
         late' = (late \ {l}) \cup (IF Todo(l) = {c} THEN {} ELSE {Rest(l, c)})
  PROVE  /\ late' \in SUBSET Pipeline
         /\ late' \subseteq (late \ {l}) \cup {Rest(l, c)}
         /\ late \ {l} \subseteq late'
         /\ (\E d \in Cells : Rest(l, c).todo[d] # {}) => Rest(l, c) \in late'
         /\ Rest(l, c).poll = l.poll
         /\ \A d \in Cells : Rest(l, c).todo[d] = IF d = c THEN {} ELSE l.todo[d]
         /\ l.poll \in Polls
         /\ \A d \in Cells : l.todo[d] \in SUBSET Votes
<1>1. l \in Pipeline
  BY DEF TypeOK
<1>2. l.poll \in Polls /\ l.todo \in [Cells -> SUBSET Votes]
  BY <1>1 DEF Pipeline
<1>3. /\ Rest(l, c) \in Pipeline
      /\ Rest(l, c).poll = l.poll
      /\ \A d \in Cells : Rest(l, c).todo[d] = IF d = c THEN {} ELSE l.todo[d]
  BY <1>1, <1>2 DEF Pipeline, Rest
<1>5. Todo(l) = {c} => \A d \in Cells : Rest(l, c).todo[d] = {}
  BY <1>3 DEF Todo
<1> QED
  BY <1>1, <1>2, <1>3, <1>5 DEF TypeOK

-----------------------------------------------------------------------------
(* Types.                                                                  *)

\* Types are kept when a handler loads the published map.
LEMMA LookupType ==
  ASSUME TypeOK, HandlerInv, FlusherInv, NEW v \in Votes, Lookup(v)
  PROVE  TypeOK'
<1> USE DEF vars, handlerVars, flushVars, netVars, redisVars, histVars
<1>1. obj' \in [Votes -> Votes \cup {None}]
  BY DEF TypeOK, Lookup
<1>2. vpc' \in [Votes -> {"idle", "register", "add", "done", "cut"}]
  BY DEF TypeOK, Lookup
<1> QED
  BY <1>1, <1>2 DEF TypeOK, Lookup

\* Types are kept when a handler publishes the counters of its poll.
LEMMA RegisterType ==
  ASSUME TypeOK, HandlerInv, FlusherInv, NEW v \in Votes, Register(v)
  PROVE  TypeOK'
<1> USE DEF vars, handlerVars, flushVars, netVars, redisVars, histVars
<1>1. polls' \in [Polls -> Votes \cup {None}]
  BY DEF TypeOK, Register, Entry
<1>2. obj' \in [Votes -> Votes \cup {None}]
  BY DEF TypeOK, Register, Entry
<1>3. vpc' \in [Votes -> {"idle", "register", "add", "done", "cut"}]
  BY DEF TypeOK, Register, Entry
<1> QED
  BY <1>1, <1>2, <1>3 DEF TypeOK, Register, Entry

\* Types are kept when a handler increments the counter of an option.
LEMMA AddOptionType ==
  ASSUME TypeOK, HandlerInv, FlusherInv, NEW v \in Votes, NEW c \in Options, AddOption(v, c)
  PROVE  TypeOK'
<1> USE DEF vars, handlerVars, flushVars, netVars, redisVars, histVars
<1>b. vpc[v] = "add" /\ c \in Cells /\ mem' = [mem EXCEPT ![obj[v]][c] = mem[obj[v]][c] \cup {v}] /\ added' = [added EXCEPT ![v] = added[v] \cup {c}]
  BY CellsFact DEF AddOption, Increment
<1>1. mem' \in [Votes -> [Cells -> SUBSET Votes]]
  BY <1>b, IncrementEffect
<1>2. added' \in [Votes -> SUBSET Cells]
  BY <1>b, IncrementEffect
<1> QED
  BY <1>1, <1>2 DEF TypeOK, AddOption, Increment

\* Types are kept when a handler increments the counter of voters.
LEMMA AddVotersType ==
  ASSUME TypeOK, HandlerInv, FlusherInv, NEW v \in Votes, AddVoters(v)
  PROVE  TypeOK'
<1> USE DEF vars, handlerVars, flushVars, netVars, redisVars, histVars
<1>b. vpc[v] = "add" /\ VotersCell \in Cells /\ mem' = [mem EXCEPT ![obj[v]][VotersCell] = mem[obj[v]][VotersCell] \cup {v}] /\ added' = [added EXCEPT ![v] = added[v] \cup {VotersCell}]
  BY CellsFact DEF AddVoters, Increment
<1>1. mem' \in [Votes -> [Cells -> SUBSET Votes]]
  BY <1>b, IncrementEffect
<1>2. added' \in [Votes -> SUBSET Cells]
  BY <1>b, IncrementEffect
<1>3. vpc' \in [Votes -> {"idle", "register", "add", "done", "cut"}]
  BY DEF TypeOK, AddVoters, Increment
<1>4. obj' \in [Votes -> Votes \cup {None}]
  BY DEF TypeOK, AddVoters, Increment
<1> QED
  BY <1>1, <1>2, <1>3, <1>4 DEF TypeOK, AddVoters, Increment

\* Types are kept when a Flush starts on a tick.
LEMMA TickType ==
  ASSUME TypeOK, HandlerInv, FlusherInv, Tick
  PROVE  TypeOK'
<1> USE DEF vars, handlerVars, flushVars, netVars, redisVars, histVars
<1>1. view' \in [Polls -> Votes \cup {None}]
  BY DEF TypeOK, Tick, StartFlush, LoadMap
<1>2. fpc' \in {"idle", "next", "swap", "push", "await", "restore"}
  BY DEF TypeOK, Tick, StartFlush, LoadMap
<1> QED
  BY <1>1, <1>2 DEF TypeOK, Tick, StartFlush, LoadMap

\* Types are kept when the last Flush starts.
LEMMA FinalFlushType ==
  ASSUME TypeOK, HandlerInv, FlusherInv, FinalFlush
  PROVE  TypeOK'
<1> USE DEF vars, handlerVars, flushVars, netVars, redisVars, histVars
<1>1. view' \in [Polls -> Votes \cup {None}]
  BY DEF TypeOK, FinalFlush, LastFlush, StartFlush, LoadMap
<1>2. fpc' \in {"idle", "next", "swap", "push", "await", "restore"}
  BY DEF TypeOK, FinalFlush, LastFlush, StartFlush, LoadMap
<1>3. final' \in BOOLEAN
  BY DEF TypeOK, FinalFlush, LastFlush, StartFlush, LoadMap
<1>4. early' \in SUBSET Votes
  BY DEF TypeOK, FinalFlush, LastFlush, StartFlush, LoadMap
<1> QED
  BY <1>1, <1>2, <1>3, <1>4 DEF TypeOK, FinalFlush, LastFlush, StartFlush, LoadMap

\* Types are kept when Flush goes on to a poll.
LEMMA NextPollType ==
  ASSUME TypeOK, HandlerInv, FlusherInv, NEW p \in Polls, NextPoll(p)
  PROVE  TypeOK'
<1> USE DEF vars, handlerVars, flushVars, netVars, redisVars, histVars
<1>1. cur' \in Polls
  BY DEF TypeOK, NextPoll
<1>2. fpc' \in {"idle", "next", "swap", "push", "await", "restore"}
  BY DEF TypeOK, NextPoll
<1> QED
  BY <1>1, <1>2 DEF TypeOK, NextPoll

\* Types are kept when Flush ends.
LEMMA FlushDoneType ==
  ASSUME TypeOK, HandlerInv, FlusherInv, FlushDone
  PROVE  TypeOK'
<1> USE DEF vars, handlerVars, flushVars, netVars, redisVars, histVars
<1>1. fpc' \in {"idle", "next", "swap", "push", "await", "restore"}
  BY DEF TypeOK, FlushDone
<1>2. run' \in {"running", "stopping", "stopped", "down"}
  BY DEF TypeOK, FlushDone
<1>3. final' \in BOOLEAN
  BY DEF TypeOK, FlushDone
<1> QED
  BY <1>1, <1>2, <1>3 DEF TypeOK, FlushDone

\* Types are kept when Swap takes the counter of an option.
LEMMA SwapOptionType ==
  ASSUME TypeOK, HandlerInv, FlusherInv, SwapOption
  PROVE  TypeOK'
<1> USE DEF vars, handlerVars, flushVars, netVars, redisVars, histVars
<1>b. fpc = "swap" /\ Take(at)
  BY DEF SwapOption
<1>1. mem' \in [Votes -> [Cells -> SUBSET Votes]]
  BY <1>b, TakeEffect DEF SwapOption, Take
<1>2. delta' \in [Cells -> SUBSET Votes]
  BY <1>b, TakeEffect DEF TypeOK, SwapOption, Take, Left
<1>3. at' \in Cells
  BY CellsFact DEF TypeOK, SwapOption, Take, Left
<1> QED
  BY <1>1, <1>2, <1>3 DEF TypeOK, SwapOption, Take, Left

\* Types are kept when Swap takes the counter of voters.
LEMMA SwapVotersType ==
  ASSUME TypeOK, HandlerInv, FlusherInv, SwapVoters
  PROVE  TypeOK'
<1> USE DEF vars, handlerVars, flushVars, netVars, redisVars, histVars
<1>b. fpc = "swap" /\ Take(at)
  BY DEF SwapVoters
<1>1. mem' \in [Votes -> [Cells -> SUBSET Votes]]
  BY <1>b, TakeEffect DEF SwapVoters, Take, PollDone
<1>2. delta' \in [Cells -> SUBSET Votes]
  <2> DEFINE D == [delta EXCEPT ![at] = mem[view[cur]][at]]
  <2>1. delta' = D
    BY DEF SwapVoters, PollDone
  <2>2. delta \in [Cells -> SUBSET Votes] /\ at \in Cells /\ mem[view[cur]][at] \in SUBSET Votes
    BY <1>b, TakeEffect DEF TypeOK
  <2> QED
    BY <2>1, <2>2
<1>3. at' \in Cells
  BY CellsFact DEF TypeOK, SwapVoters, Take, Left, PollDone
<1>4. fpc' \in {"idle", "next", "swap", "push", "await", "restore"}
  BY DEF TypeOK, SwapVoters, Take, Left, PollDone
<1>5. view' \in [Polls -> Votes \cup {None}]
  BY DEF TypeOK, SwapVoters, Take, Left, PollDone
<1> QED
  BY <1>1, <1>2, <1>3, <1>4, <1>5 DEF TypeOK, SwapVoters, Take, Left, PollDone

\* Types are kept when the pipeline is written.
LEMMA SendType ==
  ASSUME TypeOK, HandlerInv, FlusherInv, Send
  PROVE  TypeOK'
<1> USE DEF vars, handlerVars, flushVars, netVars, redisVars, histVars
<1>1. fpc' \in {"idle", "next", "swap", "push", "await", "restore"}
  BY DEF TypeOK, Send
<1>2. pipe' \in SUBSET Cells
  BY DEF TypeOK, Send
<1> QED
  BY <1>1, <1>2 DEF TypeOK, Send

\* Types are kept when no connection to Redis.
LEMMA RefusedType ==
  ASSUME TypeOK, HandlerInv, FlusherInv, Refused
  PROVE  TypeOK'
<1> USE DEF vars, handlerVars, flushVars, netVars, redisVars, histVars
<1>1. fpc' \in {"idle", "next", "swap", "push", "await", "restore"}
  BY DEF TypeOK, Refused, Fault, GiveBack
<1>2. early' \in SUBSET Votes
  BY DEF TypeOK, Refused, Fault, GiveBack
<1>3. pipe' \in SUBSET Cells
  BY DEF TypeOK, Refused, Fault, GiveBack
<1>4. nack' \in SUBSET Cells
  BY DEF TypeOK, Refused, Fault, GiveBack
<1>5. faults' \in 0..MaxFaults
  BY FaultsAssumption DEF TypeOK, Refused, Fault, GiveBack
<1> QED
  BY <1>1, <1>2, <1>3, <1>4, <1>5 DEF TypeOK, Refused, Fault, GiveBack

\* Types are kept when the context of the tick is done.
LEMMA CancelledType ==
  ASSUME TypeOK, HandlerInv, FlusherInv, Cancelled
  PROVE  TypeOK'
<1> USE DEF vars, handlerVars, flushVars, netVars, redisVars, histVars
<1>1. fpc' \in {"idle", "next", "swap", "push", "await", "restore"}
  BY DEF TypeOK, Cancelled, GiveBack
<1>2. early' \in SUBSET Votes
  BY DEF TypeOK, Cancelled, GiveBack
<1>3. pipe' \in SUBSET Cells
  BY DEF TypeOK, Cancelled, GiveBack
<1>4. nack' \in SUBSET Cells
  BY DEF TypeOK, Cancelled, GiveBack
<1> QED
  BY <1>1, <1>2, <1>3, <1>4 DEF TypeOK, Cancelled, GiveBack

\* Types are kept when the dial times out.
LEMMA DialTimeoutType ==
  ASSUME TypeOK, HandlerInv, FlusherInv, DialTimeout
  PROVE  TypeOK'
<1> USE DEF vars, handlerVars, flushVars, netVars, redisVars, histVars
<1>1. fpc' \in {"idle", "next", "swap", "push", "await", "restore"}
  BY DEF TypeOK, DialTimeout, Forget, PollDone
<1>2. view' \in [Polls -> Votes \cup {None}]
  BY DEF TypeOK, DialTimeout, Forget, PollDone
<1>3. at' \in Cells
  BY CellsFact DEF TypeOK, DialTimeout, Forget, PollDone
<1>4. delta' \in [Cells -> SUBSET Votes]
  BY DEF TypeOK, Empty, DialTimeout, Forget, PollDone
<1>5. pipe' \in SUBSET Cells
  BY DEF TypeOK, DialTimeout, Forget, PollDone
<1>6. nack' \in SUBSET Cells
  BY DEF TypeOK, DialTimeout, Forget, PollDone
<1>7. gone' \in [Cells -> SUBSET Votes]
  BY DEF TypeOK, DialTimeout, Forget, PollDone
<1> QED
  BY <1>1, <1>2, <1>3, <1>4, <1>5, <1>6, <1>7 DEF TypeOK, DialTimeout, Forget, PollDone

\* Types are kept when all replies are good.
LEMMA ReplyOkType ==
  ASSUME TypeOK, HandlerInv, FlusherInv, ReplyOk
  PROVE  TypeOK'
<1> USE DEF vars, handlerVars, flushVars, netVars, redisVars, histVars
<1>1. fpc' \in {"idle", "next", "swap", "push", "await", "restore"}
  BY DEF TypeOK, ReplyOk, Forget, PollDone
<1>2. view' \in [Polls -> Votes \cup {None}]
  BY DEF TypeOK, ReplyOk, Forget, PollDone
<1>3. at' \in Cells
  BY CellsFact DEF TypeOK, ReplyOk, Forget, PollDone
<1>4. delta' \in [Cells -> SUBSET Votes]
  BY DEF TypeOK, Empty, ReplyOk, Forget, PollDone
<1>5. pipe' \in SUBSET Cells
  BY DEF TypeOK, ReplyOk, Forget, PollDone
<1>6. nack' \in SUBSET Cells
  BY DEF TypeOK, ReplyOk, Forget, PollDone
<1> QED
  BY <1>1, <1>2, <1>3, <1>4, <1>5, <1>6 DEF TypeOK, ReplyOk, Forget, PollDone

\* Types are kept when the replies do not come.
LEMMA NoReplyType ==
  ASSUME TypeOK, HandlerInv, FlusherInv, NoReply
  PROVE  TypeOK'
<1> USE DEF vars, handlerVars, flushVars, netVars, redisVars, histVars
<1>b. AbandonPipe
  BY DEF NoReply
<1>1. fpc' \in {"idle", "next", "swap", "push", "await", "restore"}
  BY DEF TypeOK, NoReply, Forget, PollDone, AbandonPipe, Abandoned
<1>2. view' \in [Polls -> Votes \cup {None}]
  BY DEF TypeOK, NoReply, Forget, PollDone, AbandonPipe, Abandoned
<1>3. at' \in Cells
  BY CellsFact DEF TypeOK, NoReply, Forget, PollDone, AbandonPipe, Abandoned
<1>4. delta' \in [Cells -> SUBSET Votes]
  BY DEF TypeOK, Empty, NoReply, Forget, PollDone, AbandonPipe, Abandoned
<1>5. pipe' \in SUBSET Cells
  BY DEF TypeOK, NoReply, Forget, PollDone, AbandonPipe, Abandoned
<1>6. nack' \in SUBSET Cells
  BY DEF TypeOK, NoReply, Forget, PollDone, AbandonPipe, Abandoned
<1>7. late' \in SUBSET Pipeline
  BY <1>b, AbandonEffect
<1>8. gone' \in [Cells -> SUBSET Votes]
  BY DEF TypeOK, NoReply, Forget, PollDone, AbandonPipe, Abandoned
<1> QED
  BY <1>1, <1>2, <1>3, <1>4, <1>5, <1>6, <1>7, <1>8 DEF TypeOK, NoReply, Forget, PollDone,
     AbandonPipe, Abandoned

\* Types are kept when a reply is an error.
LEMMA ReplyErrorType ==
  ASSUME TypeOK, HandlerInv, FlusherInv, ReplyError
  PROVE  TypeOK'
<1> USE DEF vars, handlerVars, flushVars, netVars, redisVars, histVars
<1>1. fpc' \in {"idle", "next", "swap", "push", "await", "restore"}
  BY DEF TypeOK, ReplyError, GiveBack, Replay, Executed
<1>2. early' \in SUBSET Votes
  BY DEF TypeOK, ReplyError, GiveBack, Replay, Executed
<1>3. pipe' \in SUBSET Cells
  BY DEF TypeOK, ReplyError, GiveBack, Replay, Executed
<1>4. nack' \in SUBSET Cells
  BY DEF TypeOK, ReplyError, GiveBack, Replay, Executed
<1>5. replayed' \in [Cells -> SUBSET Votes]
  BY DEF TypeOK, ReplyError, GiveBack, Replay, Executed
<1> QED
  BY <1>1, <1>2, <1>3, <1>4, <1>5 DEF TypeOK, ReplyError, GiveBack, Replay, Executed

\* Types are kept when the peer closes the connection.
LEMMA ServerCloseType ==
  ASSUME TypeOK, HandlerInv, FlusherInv, ServerClose
  PROVE  TypeOK'
<1> USE DEF vars, handlerVars, flushVars, netVars, redisVars, histVars
<1>1. fpc' \in {"idle", "next", "swap", "push", "await", "restore"}
  BY DEF TypeOK, ServerClose, Fault, GiveBack, Replay, Executed
<1>2. early' \in SUBSET Votes
  BY DEF TypeOK, ServerClose, Fault, GiveBack, Replay, Executed
<1>3. pipe' \in SUBSET Cells
  BY DEF TypeOK, ServerClose, Fault, GiveBack, Replay, Executed
<1>4. nack' \in SUBSET Cells
  BY DEF TypeOK, ServerClose, Fault, GiveBack, Replay, Executed
<1>5. replayed' \in [Cells -> SUBSET Votes]
  BY DEF TypeOK, ServerClose, Fault, GiveBack, Replay, Executed
<1>6. faults' \in 0..MaxFaults
  BY FaultsAssumption DEF TypeOK, ServerClose, Fault, GiveBack, Replay, Executed
<1> QED
  BY <1>1, <1>2, <1>3, <1>4, <1>5, <1>6 DEF TypeOK, ServerClose, Fault, GiveBack, Replay,
     Executed

\* Types are kept when Restore puts one counter back.
LEMMA RestoreCellType ==
  ASSUME TypeOK, HandlerInv, FlusherInv, RestoreCell
  PROVE  TypeOK'
<1> USE DEF vars, handlerVars, flushVars, netVars, redisVars, histVars
<1>1. mem' \in [Votes -> [Cells -> SUBSET Votes]]
  BY RestoreEffect DEF RestoreCell, RestoreEnd, PollDone
<1>2. fpc' \in {"idle", "next", "swap", "push", "await", "restore"}
  BY DEF TypeOK, RestoreCell, PutBack, RestoreEnd, PollDone
<1>3. view' \in [Polls -> Votes \cup {None}]
  BY DEF TypeOK, RestoreCell, PutBack, RestoreEnd, PollDone
<1>4. at' \in Cells
  BY CellsFact DEF TypeOK, RestoreCell, PutBack, RestoreEnd, PollDone
<1>5. delta' \in [Cells -> SUBSET Votes]
  BY DEF TypeOK, Empty, RestoreCell, PutBack, RestoreEnd, PollDone
<1> QED
  BY <1>1, <1>2, <1>3, <1>4, <1>5 DEF TypeOK, RestoreCell, PutBack, RestoreEnd, PollDone

\* Types are kept when Redis executes a command.
LEMMA ExecType ==
  ASSUME TypeOK, HandlerInv, FlusherInv, NEW c \in Cells, Exec(c)
  PROVE  TypeOK'
<1> USE DEF vars, handlerVars, flushVars, netVars, redisVars, histVars
<1>b. cur \in Polls /\ delta[c] \in SUBSET Votes /\ Count(cur, c, delta[c])
  BY DEF Exec, Field, TypeOK
<1>o. CountOutcome(cur, c, delta[c])
  BY <1>b, CountEffect
<1>1. redis' \in [Polls -> [Cells -> SUBSET Votes]]
  BY <1>o DEF CountOutcome
<1>2. twice' \in [Polls -> [Cells -> SUBSET Votes]]
  BY <1>o DEF CountOutcome
<1>3. pipe' \in SUBSET Cells
  BY DEF TypeOK, Exec, Count, Field, First
<1> QED
  BY <1>1, <1>2, <1>3 DEF TypeOK, Exec, Count, Field, First

\* Types are kept when Redis rejects a command.
LEMMA RejectType ==
  ASSUME TypeOK, HandlerInv, FlusherInv, NEW c \in Cells, Reject(c)
  PROVE  TypeOK'
<1> USE DEF vars, handlerVars, flushVars, netVars, redisVars, histVars
<1>1. pipe' \in SUBSET Cells
  BY DEF TypeOK, Reject, Fault, First
<1>2. nack' \in SUBSET Cells
  BY DEF TypeOK, Reject, Fault, First
<1>3. faults' \in 0..MaxFaults
  BY FaultsAssumption DEF TypeOK, Reject, Fault, First
<1> QED
  BY <1>1, <1>2, <1>3 DEF TypeOK, Reject, Fault, First

\* Types are kept when Redis executes an abandoned command.
LEMMA LateExecType ==
  ASSUME TypeOK, HandlerInv, FlusherInv, NEW l \in late, NEW c \in Cells, LateExec(l, c)
  PROVE  TypeOK'
<1> USE DEF vars, handlerVars, flushVars, netVars, redisVars, histVars
<1>b. late' = (late \ {l}) \cup (IF Todo(l) = {c} THEN {} ELSE {Rest(l, c)})
  BY DEF LateExec, LateStep, Rest
<1>c. late' \in SUBSET Pipeline /\ l.poll \in Polls /\ l.todo[c] \in SUBSET Votes
  BY <1>b, LateEffect
<1>d. redis' \in [Polls -> [Cells -> SUBSET Votes]] /\ twice' \in [Polls -> [Cells -> SUBSET Votes]]
  <2>1. Count(l.poll, c, l.todo[c])
    BY DEF LateExec
  <2>2. CountOutcome(l.poll, c, l.todo[c])
    BY <1>c, <2>1, CountEffect
  <2> QED
    BY <2>2 DEF CountOutcome
<1>1. late' \in SUBSET Pipeline
  BY <1>c
<1>2. redis' \in [Polls -> [Cells -> SUBSET Votes]]
  BY <1>d
<1>3. twice' \in [Polls -> [Cells -> SUBSET Votes]]
  BY <1>d
<1> QED
  BY <1>1, <1>2, <1>3 DEF TypeOK, LateExec, LateStep, Todo, First, Count

\* Types are kept when an abandoned command is lost.
LEMMA LateLostType ==
  ASSUME TypeOK, HandlerInv, FlusherInv, NEW l \in late, NEW c \in Cells, LateLost(l, c)
  PROVE  TypeOK'
<1> USE DEF vars, handlerVars, flushVars, netVars, redisVars, histVars
<1>b. late' = (late \ {l}) \cup (IF Todo(l) = {c} THEN {} ELSE {Rest(l, c)})
  BY DEF LateLost, LateStep, Rest
<1>c. late' \in SUBSET Pipeline /\ l.poll \in Polls /\ l.todo[c] \in SUBSET Votes
  BY <1>b, LateEffect
<1>1. late' \in SUBSET Pipeline
  BY <1>c
<1>2. gone' \in [Cells -> SUBSET Votes]
  BY <1>c DEF TypeOK, LateLost
<1> QED
  BY <1>1, <1>2 DEF TypeOK, LateLost, LateStep, Todo, First

\* Types are kept when the flusher's context is cancelled.
LEMMA StopType ==
  ASSUME TypeOK, HandlerInv, FlusherInv, Stop
  PROVE  TypeOK'
<1> USE DEF vars, handlerVars, flushVars, netVars, redisVars, histVars
<1>1. run' \in {"running", "stopping", "stopped", "down"}
  BY DEF TypeOK, Stop
<1> QED
  BY <1>1 DEF TypeOK, Stop

\* Types are kept when the process ends.
LEMMA DownType ==
  ASSUME TypeOK, HandlerInv, FlusherInv, Down
  PROVE  TypeOK'
<1> USE DEF vars, handlerVars, flushVars, netVars, redisVars, histVars
<1>b. AbandonPipe
  BY DEF Down
<1>1. run' \in {"running", "stopping", "stopped", "down"}
  BY DEF TypeOK, Down, AbandonPipe, Abandoned
<1>2. vpc' \in [Votes -> {"idle", "register", "add", "done", "cut"}]
  BY DEF TypeOK, Down, AbandonPipe, Abandoned
<1>3. obj' \in [Votes -> Votes \cup {None}]
  BY DEF TypeOK, Down, AbandonPipe, Abandoned
<1>4. polls' \in [Polls -> Votes \cup {None}]
  BY DEF TypeOK, Down, AbandonPipe, Abandoned
<1>5. view' \in [Polls -> Votes \cup {None}]
  BY DEF TypeOK, Down, AbandonPipe, Abandoned
<1>6. mem' \in [Votes -> [Cells -> SUBSET Votes]]
  BY DEF TypeOK, Empty, Down, AbandonPipe, Abandoned
<1>7. delta' \in [Cells -> SUBSET Votes]
  BY DEF TypeOK, Empty, Down, AbandonPipe, Abandoned
<1>8. fpc' \in {"idle", "next", "swap", "push", "await", "restore"}
  BY DEF TypeOK, Down, AbandonPipe, Abandoned
<1>9. at' \in Cells
  BY CellsFact DEF TypeOK, Down, AbandonPipe, Abandoned
<1>10. final' \in BOOLEAN
  BY DEF TypeOK, Down, AbandonPipe, Abandoned
<1>11. early' \in SUBSET Votes
  BY DEF TypeOK, Down, AbandonPipe, Abandoned
<1>12. pipe' \in SUBSET Cells
  BY DEF TypeOK, Down, AbandonPipe, Abandoned
<1>13. nack' \in SUBSET Cells
  BY DEF TypeOK, Down, AbandonPipe, Abandoned
<1>14. late' \in SUBSET Pipeline
  BY <1>b, AbandonEffect
<1>15. gone' \in [Cells -> SUBSET Votes]
  BY DEF TypeOK, Down, InCounters
<1> QED
  BY <1>1, <1>2, <1>3, <1>4, <1>5, <1>6, <1>7, <1>8, <1>9, <1>10, <1>11, <1>12, <1>13, <1>14,
     <1>15 DEF TypeOK, Down, AbandonPipe, Abandoned

\* Types are kept when the process starts again.
LEMMA RestartType ==
  ASSUME TypeOK, HandlerInv, FlusherInv, Restart
  PROVE  TypeOK'
<1> USE DEF vars, handlerVars, flushVars, netVars, redisVars, histVars
<1>1. run' \in {"running", "stopping", "stopped", "down"}
  BY DEF TypeOK, Restart
<1> QED
  BY <1>1 DEF TypeOK, Restart

\* Every step keeps the types.
LEMMA TypeStep ==
  ASSUME TypeOK, HandlerInv, FlusherInv, [Next]_vars
  PROVE  TypeOK'
<1>1. ASSUME NEW v \in Votes, Handler(v) PROVE TypeOK'
  BY <1>1, LookupType, RegisterType, AddOptionType, AddVotersType DEF Handler
<1>2. ASSUME Flusher PROVE TypeOK'
  BY <1>2, TickType, FinalFlushType, NextPollType, FlushDoneType, SwapOptionType,
     SwapVotersType, SendType, RefusedType, CancelledType, DialTimeoutType, ReplyOkType,
     NoReplyType, ReplyErrorType, ServerCloseType, RestoreCellType DEF Flusher
<1>3. ASSUME Redis PROVE TypeOK'
  BY <1>3, ExecType, RejectType, LateExecType, LateLostType DEF Redis, Late
<1>4. ASSUME Kill \/ Exit PROVE TypeOK'
  BY <1>4, DownType DEF Kill, Exit
<1>5. CASE UNCHANGED vars
  BY <1>5 DEF TypeOK, vars, handlerVars, flushVars, netVars, redisVars, histVars
<1> QED
  BY <1>1, <1>2, <1>3, <1>4, <1>5, StopType, RestartType DEF Next

-----------------------------------------------------------------------------
(* The inductive invariant, action by action.                              *)

\* IInv is kept when a handler loads the published map.
LEMMA LookupStep ==
  ASSUME IInv, TypeOK', NEW v \in Votes, Lookup(v)
  PROVE  IInv'
<1> USE DEF vars, handlerVars, flushVars, netVars, redisVars, histVars
<1>a. TypeOK /\ HandlerInv /\ FlusherInv /\ Placed /\ NoVoteVanishes /\ OnePlace /\
      CountedOrReplayed /\ CountedTwiceOnlyIfReplayed /\ DrainInv
  BY DEF IInv
<1>u. FlusherInv' /\ Placed' /\ NoVoteVanishes' /\ OnePlace' /\ CountedOrReplayed' /\
      CountedTwiceOnlyIfReplayed'
  BY <1>a DEF FlusherInv, Busy, Placed, MemPlaced, HandPlaced, WirePlaced, CountPlaced,
     GonePlaced, PollOf, NoVoteVanishes, InHand, OnTheWire, Counted, OnePlace, InMemory,
     CountedOrReplayed, CountedTwiceOnlyIfReplayed, Lookup
<1>HandlerInv. HandlerInv'
  BY <1>a DEF TypeOK, HandlerInv, PollOf, Lookup
<1>DrainInv. DrainInv'
  BY <1>a DEF DrainInv, FinalFlushDrains, InMemory, Busy, PollOf, Lookup
<1> QED
  BY <1>a, <1>u, <1>HandlerInv, <1>DrainInv DEF IInv

\* IInv is kept when a handler publishes the counters of its poll.
LEMMA RegisterStep ==
  ASSUME IInv, TypeOK', NEW v \in Votes, Register(v)
  PROVE  IInv'
<1> USE DEF vars, handlerVars, flushVars, netVars, redisVars, histVars
<1>a. TypeOK /\ HandlerInv /\ FlusherInv /\ Placed /\ NoVoteVanishes /\ OnePlace /\
      CountedOrReplayed /\ CountedTwiceOnlyIfReplayed /\ DrainInv
  BY DEF IInv
<1>u. OnePlace' /\ CountedOrReplayed' /\ CountedTwiceOnlyIfReplayed'
  BY <1>a DEF OnePlace, InMemory, OnTheWire, CountedOrReplayed, Counted, InHand,
     CountedTwiceOnlyIfReplayed, Register, Entry
<1>HandlerInv. HandlerInv'
  BY <1>a, NoneAssumption DEF TypeOK, HandlerInv, PollOf, Register, Entry
<1>FlusherInv. FlusherInv'
  BY <1>a DEF HandlerInv, FlusherInv, Busy, Register, Entry
<1>Placed. Placed'
  BY <1>a, NoneAssumption DEF Placed, MemPlaced, HandPlaced, WirePlaced, CountPlaced,
     GonePlaced, PollOf, Register, Entry
<1>NoVoteVanishes. NoVoteVanishes'
  BY <1>a DEF NoVoteVanishes, InHand, OnTheWire, Counted, Register, Entry
<1>DrainInv. DrainInv'
  BY <1>a DEF DrainInv, FinalFlushDrains, InMemory, Busy, PollOf, Register, Entry
<1> QED
  BY <1>a, <1>u, <1>HandlerInv, <1>FlusherInv, <1>Placed, <1>NoVoteVanishes, <1>DrainInv
     DEF IInv

\* IInv is kept when a handler increments the counter of an option.
LEMMA AddOptionStep ==
  ASSUME IInv, TypeOK', NEW v \in Votes, NEW c \in Options, AddOption(v, c)
  PROVE  IInv'
<1> USE DEF vars, handlerVars, flushVars, netVars, redisVars, histVars
<1>a. TypeOK /\ HandlerInv /\ FlusherInv /\ Placed /\ NoVoteVanishes /\ OnePlace /\
      CountedOrReplayed /\ CountedTwiceOnlyIfReplayed /\ DrainInv
  BY DEF IInv
<1>b. /\ vpc[v] = "add"
      /\ c \in Cells
      /\ mem' = [mem EXCEPT ![obj[v]][c] = mem[obj[v]][c] \cup {v}]
      /\ added' = [added EXCEPT ![v] = added[v] \cup {c}]
  BY <1>a, CellsFact DEF AddOption, Increment
<1>c.
  /\ obj[v] \in Votes
  /\ mem' \in [Votes -> [Cells -> SUBSET Votes]]
  /\ \A o \in Votes, d \in Cells :
         mem'[o][d] = IF o = obj[v] /\ d = c THEN mem[o][d] \cup {v} ELSE mem[o][d]
  /\ added' \in [Votes -> SUBSET Cells]
  /\ \A w \in Votes : added'[w] = IF w = v THEN added[w] \cup {c} ELSE added[w]
  BY <1>a, <1>b, IncrementEffect
<1>u. FlusherInv' /\ CountedTwiceOnlyIfReplayed'
  BY <1>a DEF FlusherInv, Busy, CountedTwiceOnlyIfReplayed, AddOption
<1>HandlerInv. HandlerInv'
  BY <1>a, <1>b, <1>c, CellsFact DEF HandlerInv, PollOf, AddOption
<1>Placed. Placed'
  BY <1>a, <1>b, <1>c DEF HandlerInv, Placed, MemPlaced, HandPlaced, WirePlaced, CountPlaced,
     GonePlaced, PollOf, AddOption
<1>NoVoteVanishes. NoVoteVanishes'
  BY <1>a, <1>b, <1>c DEF HandlerInv, NoVoteVanishes, InHand, OnTheWire, Counted, PollOf,
     AddOption
<1>OnePlace. OnePlace'
  BY <1>a, <1>b, <1>c DEF Placed, HandPlaced, WirePlaced, OnePlace, InMemory, OnTheWire,
     AddOption
<1>CountedOrReplayed. CountedOrReplayed'
  <2> SUFFICES ASSUME NEW w \in Votes, NEW d \in Cells
               PROVE  /\ Counted(w, d)' /\ (InMemory(w, d)' \/ InHand(w, d)' \/ OnTheWire(w, d)') => w \in replayed'[d]
                      /\ fpc' = "await" /\ w \in delta'[d] /\ d \notin pipe' \cup nack' => Counted(w, d)'
    BY DEF CountedOrReplayed
  <2>1. CASE w = v /\ d = c
    BY <1>a, <1>b, <1>c, <2>1, CellsFact DEF Placed, CountPlaced, Counted, TypeOK,
       CountedOrReplayed, AddOption
  <2>2. CASE ~(w = v /\ d = c)
    <3>1. InMemory(w, d)' => InMemory(w, d)
      BY <1>a, <1>b, <1>c, <2>2 DEF InMemory
    <3> QED
      BY <1>a, <1>b, <1>c, <3>1 DEF CountedOrReplayed, Counted, InHand, OnTheWire, AddOption
  <2> QED
    BY <2>1, <2>2
<1>DrainInv. DrainInv'
  BY <1>a, <1>b, <1>c DEF DrainInv, FinalFlushDrains, InMemory, Busy, PollOf, AddOption
<1> QED
  BY <1>a, <1>u, <1>HandlerInv, <1>Placed, <1>NoVoteVanishes, <1>OnePlace, <1>CountedOrReplayed,
     <1>DrainInv DEF IInv

\* IInv is kept when a handler increments the counter of voters.
LEMMA AddVotersStep ==
  ASSUME IInv, TypeOK', NEW v \in Votes, AddVoters(v)
  PROVE  IInv'
<1> USE DEF vars, handlerVars, flushVars, netVars, redisVars, histVars
<1>a. TypeOK /\ HandlerInv /\ FlusherInv /\ Placed /\ NoVoteVanishes /\ OnePlace /\
      CountedOrReplayed /\ CountedTwiceOnlyIfReplayed /\ DrainInv
  BY DEF IInv
<1>b. /\ vpc[v] = "add"
      /\ VotersCell \in Cells
      /\ mem' = [mem EXCEPT ![obj[v]][VotersCell] = mem[obj[v]][VotersCell] \cup {v}]
      /\ added' = [added EXCEPT ![v] = added[v] \cup {VotersCell}]
  BY <1>a, CellsFact DEF AddVoters, Increment
<1>c.
  /\ obj[v] \in Votes
  /\ mem' \in [Votes -> [Cells -> SUBSET Votes]]
  /\ \A o \in Votes, d \in Cells :
         mem'[o][d] = IF o = obj[v] /\ d = VotersCell THEN mem[o][d] \cup {v} ELSE mem[o][d]
  /\ added' \in [Votes -> SUBSET Cells]
  /\ \A w \in Votes : added'[w] = IF w = v THEN added[w] \cup {VotersCell} ELSE added[w]
  BY <1>a, <1>b, IncrementEffect
<1>u. FlusherInv' /\ CountedTwiceOnlyIfReplayed'
  BY <1>a DEF FlusherInv, Busy, CountedTwiceOnlyIfReplayed, AddVoters
<1>HandlerInv. HandlerInv'
  BY <1>a, <1>b, <1>c DEF TypeOK, HandlerInv, PollOf, AddVoters
<1>Placed. Placed'
  BY <1>a, <1>b, <1>c DEF HandlerInv, Placed, MemPlaced, HandPlaced, WirePlaced, CountPlaced,
     GonePlaced, PollOf, AddVoters
<1>NoVoteVanishes. NoVoteVanishes'
  BY <1>a, <1>b, <1>c DEF HandlerInv, NoVoteVanishes, InHand, OnTheWire, Counted, PollOf,
     AddVoters
<1>OnePlace. OnePlace'
  BY <1>a, <1>b, <1>c DEF HandlerInv, Placed, HandPlaced, WirePlaced, OnePlace, InMemory,
     OnTheWire, AddVoters
<1>CountedOrReplayed. CountedOrReplayed'
  <2> SUFFICES ASSUME NEW w \in Votes, NEW d \in Cells
               PROVE  /\ Counted(w, d)' /\ (InMemory(w, d)' \/ InHand(w, d)' \/ OnTheWire(w, d)') => w \in replayed'[d]
                      /\ fpc' = "await" /\ w \in delta'[d] /\ d \notin pipe' \cup nack' => Counted(w, d)'
    BY DEF CountedOrReplayed
  <2>1. CASE w = v /\ d = VotersCell
    BY <1>a, <1>b, <1>c, <2>1, CellsFact DEF HandlerInv, Placed, CountPlaced, Counted, TypeOK,
       CountedOrReplayed, AddVoters
  <2>2. CASE ~(w = v /\ d = VotersCell)
    <3>1. InMemory(w, d)' => InMemory(w, d)
      BY <1>a, <1>b, <1>c, <2>2 DEF InMemory
    <3> QED
      BY <1>a, <1>b, <1>c, <3>1 DEF CountedOrReplayed, Counted, InHand, OnTheWire, AddVoters
  <2> QED
    BY <2>1, <2>2
<1>DrainInv. DrainInv'
  BY <1>a, <1>b, <1>c DEF DrainInv, FinalFlushDrains, InMemory, Busy, PollOf, AddVoters
<1> QED
  BY <1>a, <1>u, <1>HandlerInv, <1>Placed, <1>NoVoteVanishes, <1>OnePlace, <1>CountedOrReplayed,
     <1>DrainInv DEF IInv

\* IInv is kept when a Flush starts on a tick.
LEMMA TickStep ==
  ASSUME IInv, TypeOK', Tick
  PROVE  IInv'
<1> USE DEF vars, handlerVars, flushVars, netVars, redisVars, histVars
<1>a. TypeOK /\ HandlerInv /\ FlusherInv /\ Placed /\ NoVoteVanishes /\ OnePlace /\
      CountedOrReplayed /\ CountedTwiceOnlyIfReplayed /\ DrainInv
  BY DEF IInv
<1>u. HandlerInv' /\ Placed' /\ OnePlace' /\ CountedTwiceOnlyIfReplayed'
  BY <1>a DEF HandlerInv, PollOf, Placed, MemPlaced, HandPlaced, WirePlaced, CountPlaced,
     GonePlaced, OnePlace, InMemory, OnTheWire, CountedTwiceOnlyIfReplayed, Tick, StartFlush,
     LoadMap
<1>FlusherInv. FlusherInv'
  BY <1>a DEF FlusherInv, Busy, Tick, StartFlush, LoadMap
<1>NoVoteVanishes. NoVoteVanishes'
  BY <1>a DEF NoVoteVanishes, InHand, OnTheWire, Counted, Tick, StartFlush, LoadMap
<1>CountedOrReplayed. CountedOrReplayed'
  BY <1>a DEF CountedOrReplayed, InMemory, InHand, OnTheWire, Counted, Tick, StartFlush, LoadMap
<1>DrainInv. DrainInv'
  BY <1>a, NoneAssumption DEF Placed, MemPlaced, DrainInv, FinalFlushDrains, InMemory, Busy,
     PollOf, Tick, StartFlush, LoadMap
<1> QED
  BY <1>a, <1>u, <1>FlusherInv, <1>NoVoteVanishes, <1>CountedOrReplayed, <1>DrainInv DEF IInv

\* IInv is kept when the last Flush starts.
LEMMA FinalFlushStep ==
  ASSUME IInv, TypeOK', FinalFlush
  PROVE  IInv'
<1> USE DEF vars, handlerVars, flushVars, netVars, redisVars, histVars
<1>a. TypeOK /\ HandlerInv /\ FlusherInv /\ Placed /\ NoVoteVanishes /\ OnePlace /\
      CountedOrReplayed /\ CountedTwiceOnlyIfReplayed /\ DrainInv
  BY DEF IInv
<1>u. HandlerInv' /\ Placed' /\ OnePlace' /\ CountedTwiceOnlyIfReplayed'
  BY <1>a DEF HandlerInv, PollOf, Placed, MemPlaced, HandPlaced, WirePlaced, CountPlaced,
     GonePlaced, OnePlace, InMemory, OnTheWire, CountedTwiceOnlyIfReplayed, FinalFlush,
     LastFlush, StartFlush, LoadMap
<1>FlusherInv. FlusherInv'
  BY <1>a DEF FlusherInv, Busy, FinalFlush, LastFlush, StartFlush, LoadMap
<1>NoVoteVanishes. NoVoteVanishes'
  BY <1>a DEF NoVoteVanishes, InHand, OnTheWire, Counted, FinalFlush, LastFlush, StartFlush,
     LoadMap
<1>CountedOrReplayed. CountedOrReplayed'
  BY <1>a DEF CountedOrReplayed, InMemory, InHand, OnTheWire, Counted, FinalFlush, LastFlush,
     StartFlush, LoadMap
<1>DrainInv. DrainInv'
  BY <1>a, NoneAssumption DEF Placed, MemPlaced, DrainInv, FinalFlushDrains, InMemory, Busy,
     PollOf, FinalFlush, LastFlush, StartFlush, LoadMap
<1> QED
  BY <1>a, <1>u, <1>FlusherInv, <1>NoVoteVanishes, <1>CountedOrReplayed, <1>DrainInv DEF IInv

\* IInv is kept when Flush goes on to a poll.
LEMMA NextPollStep ==
  ASSUME IInv, TypeOK', NEW p \in Polls, NextPoll(p)
  PROVE  IInv'
<1> USE DEF vars, handlerVars, flushVars, netVars, redisVars, histVars
<1>a. TypeOK /\ HandlerInv /\ FlusherInv /\ Placed /\ NoVoteVanishes /\ OnePlace /\
      CountedOrReplayed /\ CountedTwiceOnlyIfReplayed /\ DrainInv
  BY DEF IInv
<1>u. HandlerInv' /\ OnePlace' /\ CountedTwiceOnlyIfReplayed'
  BY <1>a DEF HandlerInv, PollOf, OnePlace, InMemory, OnTheWire, CountedTwiceOnlyIfReplayed,
     NextPoll
<1>FlusherInv. FlusherInv'
  BY <1>a DEF FlusherInv, Busy, Empty, NextPoll
<1>Placed. Placed'
  BY <1>a DEF HandlerInv, FlusherInv, Placed, MemPlaced, HandPlaced, WirePlaced, CountPlaced,
     GonePlaced, Busy, PollOf, Empty, NextPoll
<1>NoVoteVanishes. NoVoteVanishes'
  BY <1>a DEF NoVoteVanishes, InHand, OnTheWire, Counted, NextPoll
<1>CountedOrReplayed. CountedOrReplayed'
  BY <1>a DEF CountedOrReplayed, InMemory, InHand, OnTheWire, Counted, NextPoll
<1>DrainInv. DrainInv'
  BY <1>a, CellsFact DEF FlusherInv, DrainInv, FinalFlushDrains, InMemory, Busy, PollOf,
     NextPoll
<1> QED
  BY <1>a, <1>u, <1>FlusherInv, <1>Placed, <1>NoVoteVanishes, <1>CountedOrReplayed, <1>DrainInv
     DEF IInv

\* IInv is kept when Flush ends.
LEMMA FlushDoneStep ==
  ASSUME IInv, TypeOK', FlushDone
  PROVE  IInv'
<1> USE DEF vars, handlerVars, flushVars, netVars, redisVars, histVars
<1>a. TypeOK /\ HandlerInv /\ FlusherInv /\ Placed /\ NoVoteVanishes /\ OnePlace /\
      CountedOrReplayed /\ CountedTwiceOnlyIfReplayed /\ DrainInv
  BY DEF IInv
<1>u. Placed' /\ OnePlace' /\ CountedTwiceOnlyIfReplayed'
  BY <1>a DEF Placed, MemPlaced, HandPlaced, WirePlaced, CountPlaced, GonePlaced, PollOf,
     OnePlace, InMemory, OnTheWire, CountedTwiceOnlyIfReplayed, FlushDone
<1>HandlerInv. HandlerInv'
  BY <1>a DEF HandlerInv, PollOf, FlushDone
<1>FlusherInv. FlusherInv'
  BY <1>a DEF FlusherInv, Busy, FlushDone
<1>NoVoteVanishes. NoVoteVanishes'
  BY <1>a DEF NoVoteVanishes, InHand, OnTheWire, Counted, FlushDone
<1>CountedOrReplayed. CountedOrReplayed'
  BY <1>a DEF CountedOrReplayed, InMemory, InHand, OnTheWire, Counted, FlushDone
<1>DrainInv. DrainInv'
  BY <1>a DEF TypeOK, Placed, MemPlaced, DrainInv, FinalFlushDrains, InMemory, Busy, PollOf,
     FlushDone
<1> QED
  BY <1>a, <1>u, <1>HandlerInv, <1>FlusherInv, <1>NoVoteVanishes, <1>CountedOrReplayed,
     <1>DrainInv DEF IInv

\* IInv is kept when Swap takes the counter of an option.
LEMMA SwapOptionStep ==
  ASSUME IInv, TypeOK', SwapOption
  PROVE  IInv'
<1> USE DEF vars, handlerVars, flushVars, netVars, redisVars, histVars
<1>a. TypeOK /\ HandlerInv /\ FlusherInv /\ Placed /\ NoVoteVanishes /\ OnePlace /\
      CountedOrReplayed /\ CountedTwiceOnlyIfReplayed /\ DrainInv
  BY DEF IInv
<1>b. fpc = "swap" /\ Take(at)
  BY <1>a DEF SwapOption
<1>c.
  /\ view[cur] \in Votes /\ at \in Cells
  /\ mem' \in [Votes -> [Cells -> SUBSET Votes]]
  /\ \A o \in Votes, d \in Cells :
         mem'[o][d] = IF o = view[cur] /\ d = at THEN {} ELSE mem[o][d]
  BY <1>a, <1>b, TakeEffect
<1>e. fpc = "swap" /\ delta[at] = {}
  BY <1>a, <1>b, <1>c, CellsFact DEF FlusherInv
<1>d. /\ delta' \in [Cells -> SUBSET Votes]
      /\ \A d \in Cells : delta'[d] = IF d = at THEN mem[view[cur]][at] ELSE delta[d]
  BY <1>a, <1>c DEF TypeOK, SwapOption, Take
<1>v. view[cur] = polls[cur] /\ cur \in Polls
  BY <1>a, <1>c, NoneAssumption DEF TypeOK, FlusherInv
<1>p. \A w \in mem[view[cur]][at] : w \in Votes /\ at \in added[w] /\ cur = PollOf(w) /\ InMemory(w, at)
  <2> SUFFICES ASSUME NEW w \in mem[view[cur]][at]
               PROVE  w \in Votes /\ at \in added[w] /\ cur = PollOf(w) /\ InMemory(w, at)
    OBVIOUS
  <2>1. w \in Votes
    BY <1>a, <1>c DEF TypeOK
  <2>2. at \in added[w] /\ view[cur] = polls[PollOf(w)]
    BY <1>a, <1>c, <2>1 DEF Placed, MemPlaced
  <2>3. PollOf(w) \in Polls
    BY <1>a, <2>1 DEF TypeOK, PollOf
  <2>4. cur = PollOf(w)
    <3>1. \A p \in Polls : polls[p] # None => PollOf(polls[p]) = p
      BY <1>a DEF HandlerInv
    <3>2. polls[cur] = polls[PollOf(w)] /\ polls[cur] # None
      BY <1>c, <1>v, <2>2, NoneAssumption
    <3>3. PollOf(polls[cur]) = cur /\ PollOf(polls[PollOf(w)]) = PollOf(w)
      BY <1>v, <2>3, <3>1, <3>2
    <3> QED
      BY <3>2, <3>3
  <2>5. InMemory(w, at)
    BY <1>c DEF InMemory
  <2> QED
    BY <2>1, <2>2, <2>4, <2>5
<1>m. \A w \in Votes, d \in Cells : InMemory(w, d)' <=> InMemory(w, d) /\ ~(d = at /\ w \in mem[view[cur]][at])
  <2> SUFFICES ASSUME NEW w \in Votes, NEW d \in Cells
               PROVE  InMemory(w, d)' <=> InMemory(w, d) /\ ~(d = at /\ w \in mem[view[cur]][at])
    OBVIOUS
  <2>1. \A o \in Votes : w \in mem[o][d] => o = polls[PollOf(w)]
    BY <1>a DEF Placed, MemPlaced
  <2> QED
    BY <1>c, <1>v, <2>1 DEF InMemory
<1>w. \A w \in Votes, d \in Cells : OnTheWire(w, d)' <=> OnTheWire(w, d)
  BY DEF OnTheWire, SwapOption, Take
<1>h. \A w \in Votes, d \in Cells : InHand(w, d)' <=> InHand(w, d) \/ (d = at /\ w \in mem[view[cur]][at])
  <2>1. fpc' # "await"
    BY DEF SwapOption, Take
  <2> QED
    BY <1>d, <1>e, <2>1 DEF InHand
<1>k. \A w \in Votes, d \in Cells : Counted(w, d)' <=> Counted(w, d)
  BY DEF Counted, SwapOption, Take
<1>u. HandlerInv' /\ CountedTwiceOnlyIfReplayed'
  BY <1>a DEF HandlerInv, PollOf, CountedTwiceOnlyIfReplayed, SwapOption, Take
<1>FlusherInv. FlusherInv'
  BY <1>a, <1>b, <1>c, CellsFact DEF FlusherInv, Busy, SwapOption, Take
<1>Placed. Placed'
  <2>1. MemPlaced'
    BY <1>a, <1>d, <1>p, <1>c, <1>v DEF Placed, MemPlaced, PollOf, SwapOption, Take
  <2>2. HandPlaced'
    BY <1>a, <1>d, <1>p, <1>c, <1>v DEF Placed, HandPlaced, PollOf, SwapOption, Take
  <2>3. WirePlaced'
    BY <1>a DEF Placed, WirePlaced, PollOf, SwapOption, Take
  <2>4. CountPlaced'
    BY <1>a DEF Placed, CountPlaced, PollOf, SwapOption, Take
  <2>5. GonePlaced'
    BY <1>a DEF Placed, GonePlaced, SwapOption, Take
  <2> QED
    BY <2>1, <2>2, <2>3, <2>4, <2>5 DEF Placed
<1>NoVoteVanishes. NoVoteVanishes'
  <2> SUFFICES ASSUME NEW w \in Votes, NEW d \in added'[w]
               PROVE  \/ polls'[PollOf(w)'] # None /\ w \in mem'[polls'[PollOf(w)']][d]
                      \/ InHand(w, d)' \/ OnTheWire(w, d)' \/ Counted(w, d)' \/ w \in gone'[d]
    BY DEF NoVoteVanishes, PollOf
  <2>1. d \in Cells /\ d \in added[w] /\ PollOf(w)' = PollOf(w) /\ PollOf(w) \in Polls
    BY <1>a DEF TypeOK, PollOf, SwapOption, Take
  <2>2. \/ polls[PollOf(w)] # None /\ w \in mem[polls[PollOf(w)]][d]
        \/ InHand(w, d) \/ OnTheWire(w, d) \/ Counted(w, d) \/ w \in gone[d]
    BY <1>a, <2>1 DEF NoVoteVanishes, PollOf
  <2>3. polls' = polls /\ gone' = gone
    BY DEF SwapOption, Take
  <2>4. polls[PollOf(w)] # None => polls[PollOf(w)] \in Votes
    BY <1>a, <2>1 DEF TypeOK
  <2> QED
    BY <1>c, <1>h, <1>w, <1>k, <2>1, <2>2, <2>3, <2>4
<1>OnePlace. OnePlace'
  <2> SUFFICES ASSUME NEW w \in Votes, NEW d \in Cells
               PROVE  /\ InMemory(w, d)' => w \notin delta'[d] /\ ~OnTheWire(w, d)'
                      /\ w \in delta'[d] => ~OnTheWire(w, d)'
                      /\ \A k, m \in late' : w \in k.todo[d] /\ w \in m.todo[d] => k = m
    BY DEF OnePlace
  <2>1. /\ InMemory(w, d) => w \notin delta[d] /\ ~OnTheWire(w, d)
        /\ w \in delta[d] => ~OnTheWire(w, d)
        /\ \A k, m \in late : w \in k.todo[d] /\ w \in m.todo[d] => k = m
    BY <1>a DEF OnePlace
  <2>2. /\ InMemory(w, d)' => w \notin delta'[d] /\ ~OnTheWire(w, d)'
        /\ w \in delta'[d] => ~OnTheWire(w, d)'
    BY <1>m, <1>w, <1>d, <1>p, <2>1
  <2>3. \A k, m \in late' : w \in k.todo[d] /\ w \in m.todo[d] => k = m
    BY <2>1 DEF SwapOption, Take
  <2> QED
    BY <2>2, <2>3
<1>CountedOrReplayed. CountedOrReplayed'
  <2> SUFFICES ASSUME NEW w \in Votes, NEW d \in Cells
               PROVE  /\ Counted(w, d)' /\ (InMemory(w, d)' \/ InHand(w, d)' \/ OnTheWire(w, d)') => w \in replayed'[d]
                      /\ fpc' = "await" /\ w \in delta'[d] /\ d \notin pipe' \cup nack' => Counted(w, d)'
    BY DEF CountedOrReplayed
  <2>1. /\ Counted(w, d) /\ (InMemory(w, d) \/ InHand(w, d) \/ OnTheWire(w, d)) => w \in replayed[d]
        /\ fpc = "await" /\ w \in delta[d] /\ d \notin pipe \cup nack => Counted(w, d)
    BY <1>a DEF CountedOrReplayed
  <2>2. replayed' = replayed
    BY DEF SwapOption, Take
  <2> QED
    BY <1>m, <1>h, <1>w, <1>k, <1>p, <1>d, <1>e, <2>1, <2>2 DEF SwapOption, Take
<1>DrainInv. DrainInv'
  <2>1. \A w \in early, d \in Cells : final /\ InMemory(w, d)' =>
            /\ view[PollOf(w)] # None
            /\ cur = PollOf(w) => at <= d /\ d # at
    <3> SUFFICES ASSUME NEW w \in early, NEW d \in Cells, final, InMemory(w, d)'
                 PROVE  view[PollOf(w)] # None /\ (cur = PollOf(w) => at <= d /\ d # at)
      OBVIOUS
    <3>1. w \in Votes /\ InMemory(w, d) /\ ~(d = at /\ w \in mem[view[cur]][at])
      BY <1>a, <1>m DEF TypeOK
    <3>2. view[PollOf(w)] # None /\ (cur = PollOf(w) => at <= d)
      BY <1>a, <1>e, <3>1 DEF DrainInv, Busy
    <3>3. cur = PollOf(w) => (d = at => w \in mem[view[cur]][at])
      BY <1>a, <1>v, <3>1 DEF Placed, MemPlaced, InMemory
    <3> QED
      BY <3>1, <3>2, <3>3
  <2>2. final => run = "stopping"
    BY <1>a DEF FlusherInv
  <2> QED
    BY <1>a, <1>c, <1>e, <2>1, <2>2 DEF TypeOK, DrainInv, FinalFlushDrains, FlusherInv, PollOf,
       SwapOption, Take
<1> QED
  BY <1>a, <1>u, <1>FlusherInv, <1>Placed, <1>NoVoteVanishes, <1>OnePlace, <1>CountedOrReplayed,
     <1>DrainInv DEF IInv

\* IInv is kept when Swap takes the counter of voters.
LEMMA SwapVotersStep ==
  ASSUME IInv, TypeOK', SwapVoters
  PROVE  IInv'
<1> USE DEF vars, handlerVars, flushVars, netVars, redisVars, histVars
<1>a. TypeOK /\ HandlerInv /\ FlusherInv /\ Placed /\ NoVoteVanishes /\ OnePlace /\
      CountedOrReplayed /\ CountedTwiceOnlyIfReplayed /\ DrainInv
  BY DEF IInv
<1>b. fpc = "swap" /\ Take(at)
  BY <1>a DEF SwapVoters
<1>c.
  /\ view[cur] \in Votes /\ at \in Cells
  /\ mem' \in [Votes -> [Cells -> SUBSET Votes]]
  /\ \A o \in Votes, d \in Cells :
         mem'[o][d] = IF o = view[cur] /\ d = at THEN {} ELSE mem[o][d]
  BY <1>a, <1>b, TakeEffect
<1>e. fpc = "swap" /\ delta[at] = {}
  BY <1>a, <1>b, <1>c, CellsFact DEF FlusherInv
<1>d. /\ delta' \in [Cells -> SUBSET Votes]
      /\ \A d \in Cells : delta'[d] = IF d = at THEN mem[view[cur]][at] ELSE delta[d]
  <2> DEFINE D == [delta EXCEPT ![at] = mem[view[cur]][at]]
  <2>1. delta' = D
    BY DEF SwapVoters, Take, PollDone
  <2>2. delta \in [Cells -> SUBSET Votes] /\ mem[view[cur]][at] \in SUBSET Votes
    BY <1>a, <1>c DEF TypeOK
  <2> QED
    BY <1>c, <2>1, <2>2
<1>v. view[cur] = polls[cur] /\ cur \in Polls
  BY <1>a, <1>c, NoneAssumption DEF TypeOK, FlusherInv
<1>p. \A w \in mem[view[cur]][at] : w \in Votes /\ at \in added[w] /\ cur = PollOf(w) /\ InMemory(w, at)
  <2> SUFFICES ASSUME NEW w \in mem[view[cur]][at]
               PROVE  w \in Votes /\ at \in added[w] /\ cur = PollOf(w) /\ InMemory(w, at)
    OBVIOUS
  <2>1. w \in Votes
    BY <1>a, <1>c DEF TypeOK
  <2>2. at \in added[w] /\ view[cur] = polls[PollOf(w)]
    BY <1>a, <1>c, <2>1 DEF Placed, MemPlaced
  <2>3. PollOf(w) \in Polls
    BY <1>a, <2>1 DEF TypeOK, PollOf
  <2>4. cur = PollOf(w)
    <3>1. \A p \in Polls : polls[p] # None => PollOf(polls[p]) = p
      BY <1>a DEF HandlerInv
    <3>2. polls[cur] = polls[PollOf(w)] /\ polls[cur] # None
      BY <1>c, <1>v, <2>2, NoneAssumption
    <3>3. PollOf(polls[cur]) = cur /\ PollOf(polls[PollOf(w)]) = PollOf(w)
      BY <1>v, <2>3, <3>1, <3>2
    <3> QED
      BY <3>2, <3>3
  <2>5. InMemory(w, at)
    BY <1>c DEF InMemory
  <2> QED
    BY <2>1, <2>2, <2>4, <2>5
<1>m. \A w \in Votes, d \in Cells : InMemory(w, d)' <=> InMemory(w, d) /\ ~(d = at /\ w \in mem[view[cur]][at])
  <2> SUFFICES ASSUME NEW w \in Votes, NEW d \in Cells
               PROVE  InMemory(w, d)' <=> InMemory(w, d) /\ ~(d = at /\ w \in mem[view[cur]][at])
    OBVIOUS
  <2>1. \A o \in Votes : w \in mem[o][d] => o = polls[PollOf(w)]
    BY <1>a DEF Placed, MemPlaced
  <2> QED
    BY <1>c, <1>v, <2>1 DEF InMemory
<1>w. \A w \in Votes, d \in Cells : OnTheWire(w, d)' <=> OnTheWire(w, d)
  BY DEF OnTheWire, SwapVoters, Take, PollDone
<1>h. \A w \in Votes, d \in Cells : InHand(w, d)' <=> InHand(w, d) \/ (d = at /\ w \in mem[view[cur]][at])
  <2>1. fpc' # "await"
    BY DEF SwapVoters, Take, PollDone
  <2> QED
    BY <1>d, <1>e, <2>1 DEF InHand
<1>k. \A w \in Votes, d \in Cells : Counted(w, d)' <=> Counted(w, d)
  BY DEF Counted, SwapVoters, Take, PollDone
<1>u. HandlerInv' /\ CountedTwiceOnlyIfReplayed'
  BY <1>a DEF HandlerInv, PollOf, CountedTwiceOnlyIfReplayed, SwapVoters, Take, PollDone
<1>FlusherInv. FlusherInv'
  <2>1. \A p \in Polls : view'[p] \in {None, polls'[p]}
    <3>1. \A p \in Polls : view'[p] \in {None, view[p]}
      BY <1>a DEF TypeOK, SwapVoters, Take, PollDone
    <3> QED
      BY <1>a, <3>1 DEF FlusherInv, SwapVoters, Take, PollDone
  <2>2. \/ fpc' = "next" /\ delta' = Empty /\ at' = 1
        \/ fpc' = "push" /\ view' = view /\ at' = 1
    BY DEF SwapVoters, Take, PollDone
  <2> QED
    BY <1>a, <1>e, <2>1, <2>2 DEF FlusherInv, Busy, SwapVoters, Take, PollDone
<1>Placed. Placed'
  <2>1. MemPlaced'
    BY <1>a, <1>d, <1>p, <1>c, <1>v DEF Placed, MemPlaced, PollOf, SwapVoters, Take, PollDone
  <2>2. HandPlaced'
    BY <1>a, <1>d, <1>p, <1>c, <1>v DEF Placed, HandPlaced, PollOf, SwapVoters, Take, PollDone
  <2>3. WirePlaced'
    BY <1>a DEF Placed, WirePlaced, PollOf, SwapVoters, Take, PollDone
  <2>4. CountPlaced'
    BY <1>a DEF Placed, CountPlaced, PollOf, SwapVoters, Take, PollDone
  <2>5. GonePlaced'
    BY <1>a DEF Placed, GonePlaced, SwapVoters, Take, PollDone
  <2> QED
    BY <2>1, <2>2, <2>3, <2>4, <2>5 DEF Placed
<1>NoVoteVanishes. NoVoteVanishes'
  <2> SUFFICES ASSUME NEW w \in Votes, NEW d \in added'[w]
               PROVE  \/ polls'[PollOf(w)'] # None /\ w \in mem'[polls'[PollOf(w)']][d]
                      \/ InHand(w, d)' \/ OnTheWire(w, d)' \/ Counted(w, d)' \/ w \in gone'[d]
    BY DEF NoVoteVanishes, PollOf
  <2>1. d \in Cells /\ d \in added[w] /\ PollOf(w)' = PollOf(w) /\ PollOf(w) \in Polls
    BY <1>a DEF TypeOK, PollOf, SwapVoters, Take, PollDone
  <2>2. \/ polls[PollOf(w)] # None /\ w \in mem[polls[PollOf(w)]][d]
        \/ InHand(w, d) \/ OnTheWire(w, d) \/ Counted(w, d) \/ w \in gone[d]
    BY <1>a, <2>1 DEF NoVoteVanishes, PollOf
  <2>3. polls' = polls /\ gone' = gone
    BY DEF SwapVoters, Take, PollDone
  <2>4. polls[PollOf(w)] # None => polls[PollOf(w)] \in Votes
    BY <1>a, <2>1 DEF TypeOK
  <2> QED
    BY <1>c, <1>h, <1>w, <1>k, <2>1, <2>2, <2>3, <2>4
<1>OnePlace. OnePlace'
  <2> SUFFICES ASSUME NEW w \in Votes, NEW d \in Cells
               PROVE  /\ InMemory(w, d)' => w \notin delta'[d] /\ ~OnTheWire(w, d)'
                      /\ w \in delta'[d] => ~OnTheWire(w, d)'
                      /\ \A k, m \in late' : w \in k.todo[d] /\ w \in m.todo[d] => k = m
    BY DEF OnePlace
  <2>1. /\ InMemory(w, d) => w \notin delta[d] /\ ~OnTheWire(w, d)
        /\ w \in delta[d] => ~OnTheWire(w, d)
        /\ \A k, m \in late : w \in k.todo[d] /\ w \in m.todo[d] => k = m
    BY <1>a DEF OnePlace
  <2>2. /\ InMemory(w, d)' => w \notin delta'[d] /\ ~OnTheWire(w, d)'
        /\ w \in delta'[d] => ~OnTheWire(w, d)'
    BY <1>m, <1>w, <1>d, <1>p, <2>1
  <2>3. \A k, m \in late' : w \in k.todo[d] /\ w \in m.todo[d] => k = m
    BY <2>1 DEF SwapVoters, Take, PollDone
  <2> QED
    BY <2>2, <2>3
<1>CountedOrReplayed. CountedOrReplayed'
  <2> SUFFICES ASSUME NEW w \in Votes, NEW d \in Cells
               PROVE  /\ Counted(w, d)' /\ (InMemory(w, d)' \/ InHand(w, d)' \/ OnTheWire(w, d)') => w \in replayed'[d]
                      /\ fpc' = "await" /\ w \in delta'[d] /\ d \notin pipe' \cup nack' => Counted(w, d)'
    BY DEF CountedOrReplayed
  <2>1. /\ Counted(w, d) /\ (InMemory(w, d) \/ InHand(w, d) \/ OnTheWire(w, d)) => w \in replayed[d]
        /\ fpc = "await" /\ w \in delta[d] /\ d \notin pipe \cup nack => Counted(w, d)
    BY <1>a DEF CountedOrReplayed
  <2>2. replayed' = replayed
    BY DEF SwapVoters, Take, PollDone
  <2> QED
    BY <1>m, <1>h, <1>w, <1>k, <1>p, <1>d, <1>e, <2>1, <2>2 DEF SwapVoters, Take, PollDone
<1>DrainInv. DrainInv'
  <2>1. \A w \in early, d \in Cells : final /\ InMemory(w, d)' =>
            /\ view[PollOf(w)] # None
            /\ cur = PollOf(w) => at <= d /\ d # at
    <3> SUFFICES ASSUME NEW w \in early, NEW d \in Cells, final, InMemory(w, d)'
                 PROVE  view[PollOf(w)] # None /\ (cur = PollOf(w) => at <= d /\ d # at)
      OBVIOUS
    <3>1. w \in Votes /\ InMemory(w, d) /\ ~(d = at /\ w \in mem[view[cur]][at])
      BY <1>a, <1>m DEF TypeOK
    <3>2. view[PollOf(w)] # None /\ (cur = PollOf(w) => at <= d)
      BY <1>a, <1>e, <3>1 DEF DrainInv, Busy
    <3>3. cur = PollOf(w) => (d = at => w \in mem[view[cur]][at])
      BY <1>a, <1>v, <3>1 DEF Placed, MemPlaced, InMemory
    <3> QED
      BY <3>1, <3>2, <3>3
  <2>2. final => run = "stopping"
    BY <1>a DEF FlusherInv
  <2> QED
    BY <1>a, <1>c, <1>e, <2>1, <2>2, CellsFact DEF TypeOK, DrainInv, FinalFlushDrains,
       FlusherInv, PollOf, SwapVoters, Take, PollDone
<1> QED
  BY <1>a, <1>u, <1>FlusherInv, <1>Placed, <1>NoVoteVanishes, <1>OnePlace, <1>CountedOrReplayed,
     <1>DrainInv DEF IInv

\* IInv is kept when the pipeline is written.
LEMMA SendStep ==
  ASSUME IInv, TypeOK', Send
  PROVE  IInv'
<1> USE DEF vars, handlerVars, flushVars, netVars, redisVars, histVars
<1>a. TypeOK /\ HandlerInv /\ FlusherInv /\ Placed /\ NoVoteVanishes /\ OnePlace /\
      CountedOrReplayed /\ CountedTwiceOnlyIfReplayed /\ DrainInv
  BY DEF IInv
<1>u. HandlerInv' /\ Placed' /\ OnePlace' /\ CountedTwiceOnlyIfReplayed'
  BY <1>a DEF HandlerInv, PollOf, Placed, MemPlaced, HandPlaced, WirePlaced, CountPlaced,
     GonePlaced, OnePlace, InMemory, OnTheWire, CountedTwiceOnlyIfReplayed, Send
<1>FlusherInv. FlusherInv'
  BY <1>a DEF FlusherInv, Busy, Send
<1>NoVoteVanishes. NoVoteVanishes'
  BY <1>a DEF TypeOK, NoVoteVanishes, InHand, OnTheWire, Counted, Send
<1>CountedOrReplayed. CountedOrReplayed'
  BY <1>a DEF CountedOrReplayed, InMemory, InHand, OnTheWire, Counted, Send
<1>DrainInv. DrainInv'
  BY <1>a DEF DrainInv, FinalFlushDrains, InMemory, Busy, PollOf, Send
<1> QED
  BY <1>a, <1>u, <1>FlusherInv, <1>NoVoteVanishes, <1>CountedOrReplayed, <1>DrainInv DEF IInv

\* IInv is kept when no connection to Redis.
LEMMA RefusedStep ==
  ASSUME IInv, TypeOK', Refused
  PROVE  IInv'
<1> USE DEF vars, handlerVars, flushVars, netVars, redisVars, histVars
<1>a. TypeOK /\ HandlerInv /\ FlusherInv /\ Placed /\ NoVoteVanishes /\ OnePlace /\
      CountedOrReplayed /\ CountedTwiceOnlyIfReplayed /\ DrainInv
  BY DEF IInv
<1>u. HandlerInv' /\ Placed' /\ OnePlace' /\ CountedTwiceOnlyIfReplayed'
  BY <1>a DEF HandlerInv, PollOf, Placed, MemPlaced, HandPlaced, WirePlaced, CountPlaced,
     GonePlaced, OnePlace, InMemory, OnTheWire, CountedTwiceOnlyIfReplayed, Refused, Fault,
     GiveBack
<1>FlusherInv. FlusherInv'
  BY <1>a, CellsFact DEF FlusherInv, Busy, Refused, Fault, GiveBack
<1>NoVoteVanishes. NoVoteVanishes'
  BY <1>a DEF NoVoteVanishes, InHand, OnTheWire, Counted, Refused, Fault, GiveBack
<1>CountedOrReplayed. CountedOrReplayed'
  BY <1>a DEF CountedOrReplayed, InMemory, InHand, OnTheWire, Counted, Refused, Fault, GiveBack
<1>DrainInv. DrainInv'
  BY <1>a DEF DrainInv, FinalFlushDrains, InMemory, Busy, PollOf, Refused, Fault, GiveBack
<1> QED
  BY <1>a, <1>u, <1>FlusherInv, <1>NoVoteVanishes, <1>CountedOrReplayed, <1>DrainInv DEF IInv

\* IInv is kept when the context of the tick is done.
LEMMA CancelledStep ==
  ASSUME IInv, TypeOK', Cancelled
  PROVE  IInv'
<1> USE DEF vars, handlerVars, flushVars, netVars, redisVars, histVars
<1>a. TypeOK /\ HandlerInv /\ FlusherInv /\ Placed /\ NoVoteVanishes /\ OnePlace /\
      CountedOrReplayed /\ CountedTwiceOnlyIfReplayed /\ DrainInv
  BY DEF IInv
<1>u. HandlerInv' /\ Placed' /\ OnePlace' /\ CountedTwiceOnlyIfReplayed'
  BY <1>a DEF HandlerInv, PollOf, Placed, MemPlaced, HandPlaced, WirePlaced, CountPlaced,
     GonePlaced, OnePlace, InMemory, OnTheWire, CountedTwiceOnlyIfReplayed, Cancelled, GiveBack
<1>FlusherInv. FlusherInv'
  BY <1>a, CellsFact DEF FlusherInv, Busy, Cancelled, GiveBack
<1>NoVoteVanishes. NoVoteVanishes'
  BY <1>a DEF NoVoteVanishes, InHand, OnTheWire, Counted, Cancelled, GiveBack
<1>CountedOrReplayed. CountedOrReplayed'
  BY <1>a DEF CountedOrReplayed, InMemory, InHand, OnTheWire, Counted, Cancelled, GiveBack
<1>DrainInv. DrainInv'
  BY <1>a DEF DrainInv, FinalFlushDrains, InMemory, Busy, PollOf, Cancelled, GiveBack
<1> QED
  BY <1>a, <1>u, <1>FlusherInv, <1>NoVoteVanishes, <1>CountedOrReplayed, <1>DrainInv DEF IInv

\* IInv is kept when the dial times out.
LEMMA DialTimeoutStep ==
  ASSUME IInv, TypeOK', DialTimeout
  PROVE  IInv'
<1> USE DEF vars, handlerVars, flushVars, netVars, redisVars, histVars
<1>a. TypeOK /\ HandlerInv /\ FlusherInv /\ Placed /\ NoVoteVanishes /\ OnePlace /\
      CountedOrReplayed /\ CountedTwiceOnlyIfReplayed /\ DrainInv
  BY DEF IInv
<1>u. HandlerInv' /\ CountedTwiceOnlyIfReplayed'
  BY <1>a DEF HandlerInv, PollOf, CountedTwiceOnlyIfReplayed, DialTimeout, Forget, PollDone
<1>FlusherInv. FlusherInv'
  BY <1>a DEF FlusherInv, Busy, DialTimeout, Forget, PollDone
<1>Placed. Placed'
  BY <1>a DEF Placed, MemPlaced, HandPlaced, WirePlaced, CountPlaced, GonePlaced, PollOf, Empty,
     DialTimeout, Forget, PollDone
<1>NoVoteVanishes. NoVoteVanishes'
  BY <1>a DEF TypeOK, NoVoteVanishes, InHand, OnTheWire, Counted, DialTimeout, Forget, PollDone
<1>OnePlace. OnePlace'
  BY <1>a DEF OnePlace, InMemory, OnTheWire, Empty, DialTimeout, Forget, PollDone
<1>CountedOrReplayed. CountedOrReplayed'
  BY <1>a DEF CountedOrReplayed, InMemory, InHand, OnTheWire, Counted, Empty, DialTimeout,
     Forget, PollDone
<1>DrainInv. DrainInv'
  BY <1>a DEF DrainInv, FinalFlushDrains, InMemory, Busy, PollOf, DialTimeout, Forget, PollDone
<1> QED
  BY <1>a, <1>u, <1>FlusherInv, <1>Placed, <1>NoVoteVanishes, <1>OnePlace, <1>CountedOrReplayed,
     <1>DrainInv DEF IInv

\* IInv is kept when all replies are good.
LEMMA ReplyOkStep ==
  ASSUME IInv, TypeOK', ReplyOk
  PROVE  IInv'
<1> USE DEF vars, handlerVars, flushVars, netVars, redisVars, histVars
<1>a. TypeOK /\ HandlerInv /\ FlusherInv /\ Placed /\ NoVoteVanishes /\ OnePlace /\
      CountedOrReplayed /\ CountedTwiceOnlyIfReplayed /\ DrainInv
  BY DEF IInv
<1>u. HandlerInv' /\ CountedTwiceOnlyIfReplayed'
  BY <1>a DEF HandlerInv, PollOf, CountedTwiceOnlyIfReplayed, ReplyOk, Forget, PollDone
<1>FlusherInv. FlusherInv'
  BY <1>a DEF FlusherInv, Busy, ReplyOk, Forget, PollDone
<1>Placed. Placed'
  BY <1>a DEF Placed, MemPlaced, HandPlaced, WirePlaced, CountPlaced, GonePlaced, PollOf, Empty,
     ReplyOk, Forget, PollDone
<1>NoVoteVanishes. NoVoteVanishes'
  BY <1>a DEF NoVoteVanishes, InHand, OnTheWire, Counted, ReplyOk, Forget, PollDone
<1>OnePlace. OnePlace'
  BY <1>a DEF OnePlace, InMemory, OnTheWire, Empty, ReplyOk, Forget, PollDone
<1>CountedOrReplayed. CountedOrReplayed'
  BY <1>a DEF CountedOrReplayed, InMemory, InHand, OnTheWire, Counted, Empty, ReplyOk, Forget,
     PollDone
<1>DrainInv. DrainInv'
  BY <1>a DEF DrainInv, FinalFlushDrains, InMemory, Busy, PollOf, ReplyOk, Forget, PollDone
<1> QED
  BY <1>a, <1>u, <1>FlusherInv, <1>Placed, <1>NoVoteVanishes, <1>OnePlace, <1>CountedOrReplayed,
     <1>DrainInv DEF IInv

\* IInv is kept when the replies do not come.
LEMMA NoReplyStep ==
  ASSUME IInv, TypeOK', NoReply
  PROVE  IInv'
<1> USE DEF vars, handlerVars, flushVars, netVars, redisVars, histVars
<1>a. TypeOK /\ HandlerInv /\ FlusherInv /\ Placed /\ NoVoteVanishes /\ OnePlace /\
      CountedOrReplayed /\ CountedTwiceOnlyIfReplayed /\ DrainInv
  BY DEF IInv
<1>b. AbandonPipe
  BY <1>a DEF NoReply
<1>c.
  /\ late' \in SUBSET Pipeline
  /\ late \subseteq late'
  /\ \A l \in late' \ late : /\ l = Abandoned
                             /\ l.poll = cur
                             /\ \A c \in Cells : l.todo[c] = IF c \in pipe THEN delta[c] ELSE {}
  /\ pipe # {} => Abandoned \in late'
  /\ Abandoned.poll = cur
  /\ \A c \in Cells : Abandoned.todo[c] = IF c \in pipe THEN delta[c] ELSE {}
  BY <1>a, <1>b, AbandonEffect
<1>d. /\ fpc = "await" /\ fpc' = "next"
      /\ \A d \in Cells : delta'[d] = {}
      /\ \A d \in Cells : gone'[d] = IF d \in nack THEN gone[d] \cup delta[d] ELSE gone[d]
  BY DEF Empty, NoReply, Forget, PollDone
<1>p. \A d \in Cells : \A w \in delta[d] : w \in Votes /\ d \in added[w] /\ cur = PollOf(w)
  BY <1>a DEF TypeOK, Placed, HandPlaced
<1>m. \A w \in Votes, d \in Cells : InMemory(w, d)' <=> InMemory(w, d)
  BY DEF InMemory, NoReply, Forget, PollDone
<1>w. \A w \in Votes, d \in Cells : OnTheWire(w, d)' <=> OnTheWire(w, d) \/ (d \in pipe /\ w \in delta[d])
  <2> SUFFICES ASSUME NEW w \in Votes, NEW d \in Cells
               PROVE  OnTheWire(w, d)' <=> OnTheWire(w, d) \/ (d \in pipe /\ w \in delta[d])
    OBVIOUS
  <2>1. OnTheWire(w, d)' => OnTheWire(w, d) \/ (d \in pipe /\ w \in delta[d])
    BY <1>c DEF OnTheWire
  <2>2. OnTheWire(w, d) \/ (d \in pipe /\ w \in delta[d]) => OnTheWire(w, d)'
    BY <1>c DEF OnTheWire
  <2> QED
    BY <2>1, <2>2
<1>h. \A w \in Votes, d \in Cells : ~InHand(w, d)'
  BY <1>d DEF InHand
<1>k. \A w \in Votes, d \in Cells : Counted(w, d)' <=> Counted(w, d)
  BY DEF Counted, NoReply, Forget, PollDone
<1>u. HandlerInv' /\ CountedTwiceOnlyIfReplayed'
  BY <1>a DEF HandlerInv, PollOf, CountedTwiceOnlyIfReplayed, NoReply, Forget, PollDone
<1>FlusherInv. FlusherInv'
  BY <1>a, <1>b, <1>c DEF FlusherInv, Busy, NoReply, Forget, PollDone
<1>Placed. Placed'
  <2>1. MemPlaced'
    BY <1>a DEF Placed, MemPlaced, PollOf, NoReply, Forget, PollDone
  <2>2. HandPlaced'
    BY <1>a, <1>d, <1>p DEF HandPlaced, NoReply, Forget, PollDone
  <2>3. WirePlaced'
    <3> SUFFICES ASSUME NEW k \in late', NEW d \in Cells, NEW w \in k.todo[d]
                 PROVE  d \in added'[w] /\ k.poll = PollOf(w)'
      BY DEF WirePlaced
    <3>1. added' = added /\ PollOf(w)' = PollOf(w)
      BY DEF PollOf, NoReply, Forget, PollDone
    <3>2. CASE k \in late
      BY <1>a, <3>1, <3>2 DEF Placed, WirePlaced
    <3>3. CASE k \notin late
      <4>1. k.poll = cur /\ w \in delta[d]
        BY <1>c, <3>3
      <4> QED
        BY <1>p, <3>1, <4>1
    <3> QED
      BY <3>2, <3>3
  <2>4. CountPlaced'
    BY <1>a DEF Placed, CountPlaced, PollOf, NoReply, Forget, PollDone
  <2>5. GonePlaced'
    BY <1>a, <1>d, <1>p DEF TypeOK, Placed, GonePlaced, NoReply, Forget, PollDone
  <2> QED
    BY <2>1, <2>2, <2>3, <2>4, <2>5 DEF Placed
<1>NoVoteVanishes. NoVoteVanishes'
  <2> SUFFICES ASSUME NEW w \in Votes, NEW d \in added'[w]
               PROVE  \/ polls'[PollOf(w)'] # None /\ w \in mem'[polls'[PollOf(w)']][d]
                      \/ InHand(w, d)' \/ OnTheWire(w, d)' \/ Counted(w, d)' \/ w \in gone'[d]
    BY DEF NoVoteVanishes, PollOf
  <2>1. d \in Cells /\ d \in added[w] /\ PollOf(w)' = PollOf(w) /\ PollOf(w) \in Polls
    BY <1>a DEF TypeOK, PollOf, NoReply, Forget, PollDone
  <2>2. \/ polls[PollOf(w)] # None /\ w \in mem[polls[PollOf(w)]][d]
        \/ InHand(w, d) \/ OnTheWire(w, d) \/ Counted(w, d) \/ w \in gone[d]
    BY <1>a, <2>1 DEF NoVoteVanishes, PollOf
  <2>3. polls' = polls /\ mem' = mem
    BY DEF NoReply, Forget, PollDone
  <2>4. InHand(w, d) => OnTheWire(w, d)' \/ w \in gone'[d]
    BY <1>d, <1>w, <2>1 DEF InHand
  <2> QED
    BY <1>d, <1>w, <1>k, <2>1, <2>2, <2>3, <2>4
<1>OnePlace. OnePlace'
  <2> SUFFICES ASSUME NEW w \in Votes, NEW d \in Cells
               PROVE  /\ InMemory(w, d)' => w \notin delta'[d] /\ ~OnTheWire(w, d)'
                      /\ w \in delta'[d] => ~OnTheWire(w, d)'
                      /\ \A k, m \in late' : w \in k.todo[d] /\ w \in m.todo[d] => k = m
    BY DEF OnePlace
  <2>1. /\ InMemory(w, d) => w \notin delta[d] /\ ~OnTheWire(w, d)
        /\ w \in delta[d] => ~OnTheWire(w, d)
        /\ \A k, m \in late : w \in k.todo[d] /\ w \in m.todo[d] => k = m
    BY <1>a DEF OnePlace
  <2>2. /\ InMemory(w, d)' => w \notin delta'[d] /\ ~OnTheWire(w, d)'
        /\ w \in delta'[d] => ~OnTheWire(w, d)'
    BY <1>m, <1>w, <1>d, <1>p, <2>1
  <2>3. \A k, m \in late' : w \in k.todo[d] /\ w \in m.todo[d] => k = m
    BY <1>c, <2>1 DEF OnTheWire, NoReply, Forget, PollDone
  <2> QED
    BY <2>2, <2>3
<1>CountedOrReplayed. CountedOrReplayed'
  <2> SUFFICES ASSUME NEW w \in Votes, NEW d \in Cells
               PROVE  /\ Counted(w, d)' /\ (InMemory(w, d)' \/ InHand(w, d)' \/ OnTheWire(w, d)') => w \in replayed'[d]
                      /\ fpc' = "await" /\ w \in delta'[d] /\ d \notin pipe' \cup nack' => Counted(w, d)'
    BY DEF CountedOrReplayed
  <2>1. /\ Counted(w, d) /\ (InMemory(w, d) \/ InHand(w, d) \/ OnTheWire(w, d)) => w \in replayed[d]
        /\ fpc = "await" /\ w \in delta[d] /\ d \notin pipe \cup nack => Counted(w, d)
    BY <1>a DEF CountedOrReplayed
  <2>2. replayed' = replayed
    BY DEF NoReply, Forget, PollDone
  <2>3. d \in pipe /\ w \in delta[d] => InHand(w, d)
    BY DEF InHand
  <2> QED
    BY <1>m, <1>h, <1>w, <1>k, <1>d, <2>1, <2>2, <2>3
<1>DrainInv. DrainInv'
  BY <1>a, <1>b, <1>c DEF DrainInv, FinalFlushDrains, InMemory, Busy, PollOf, NoReply, Forget,
     PollDone
<1> QED
  BY <1>a, <1>u, <1>FlusherInv, <1>Placed, <1>NoVoteVanishes, <1>OnePlace, <1>CountedOrReplayed,
     <1>DrainInv DEF IInv

\* IInv is kept when a reply is an error.
LEMMA ReplyErrorStep ==
  ASSUME IInv, TypeOK', ReplyError
  PROVE  IInv'
<1> USE DEF vars, handlerVars, flushVars, netVars, redisVars, histVars
<1>a. TypeOK /\ HandlerInv /\ FlusherInv /\ Placed /\ NoVoteVanishes /\ OnePlace /\
      CountedOrReplayed /\ CountedTwiceOnlyIfReplayed /\ DrainInv
  BY DEF IInv
<1>u. HandlerInv' /\ Placed' /\ OnePlace'
  BY <1>a DEF HandlerInv, PollOf, Placed, MemPlaced, HandPlaced, WirePlaced, CountPlaced,
     GonePlaced, OnePlace, InMemory, OnTheWire, ReplyError, GiveBack, Replay, Executed
<1>FlusherInv. FlusherInv'
  BY <1>a, CellsFact DEF FlusherInv, Busy, ReplyError, GiveBack, Replay, Executed
<1>NoVoteVanishes. NoVoteVanishes'
  BY <1>a DEF NoVoteVanishes, InHand, OnTheWire, Counted, ReplyError, GiveBack, Replay, Executed
<1>CountedOrReplayed. CountedOrReplayed'
  BY <1>a DEF CountedOrReplayed, InMemory, InHand, OnTheWire, Counted, ReplyError, GiveBack,
     Replay, Executed
<1>CountedTwiceOnlyIfReplayed. CountedTwiceOnlyIfReplayed'
  BY <1>a DEF CountedTwiceOnlyIfReplayed, ReplyError, GiveBack, Replay, Executed
<1>DrainInv. DrainInv'
  BY <1>a DEF DrainInv, FinalFlushDrains, InMemory, Busy, PollOf, ReplyError, GiveBack, Replay,
     Executed
<1> QED
  BY <1>a, <1>u, <1>FlusherInv, <1>NoVoteVanishes, <1>CountedOrReplayed,
     <1>CountedTwiceOnlyIfReplayed, <1>DrainInv DEF IInv

\* IInv is kept when the peer closes the connection.
LEMMA ServerCloseStep ==
  ASSUME IInv, TypeOK', ServerClose
  PROVE  IInv'
<1> USE DEF vars, handlerVars, flushVars, netVars, redisVars, histVars
<1>a. TypeOK /\ HandlerInv /\ FlusherInv /\ Placed /\ NoVoteVanishes /\ OnePlace /\
      CountedOrReplayed /\ CountedTwiceOnlyIfReplayed /\ DrainInv
  BY DEF IInv
<1>u. HandlerInv' /\ Placed' /\ OnePlace'
  BY <1>a DEF HandlerInv, PollOf, Placed, MemPlaced, HandPlaced, WirePlaced, CountPlaced,
     GonePlaced, OnePlace, InMemory, OnTheWire, ServerClose, Fault, GiveBack, Replay, Executed
<1>FlusherInv. FlusherInv'
  BY <1>a, CellsFact DEF FlusherInv, Busy, ServerClose, Fault, GiveBack, Replay, Executed
<1>NoVoteVanishes. NoVoteVanishes'
  BY <1>a DEF NoVoteVanishes, InHand, OnTheWire, Counted, ServerClose, Fault, GiveBack, Replay,
     Executed
<1>CountedOrReplayed. CountedOrReplayed'
  BY <1>a DEF CountedOrReplayed, InMemory, InHand, OnTheWire, Counted, ServerClose, Fault,
     GiveBack, Replay, Executed
<1>CountedTwiceOnlyIfReplayed. CountedTwiceOnlyIfReplayed'
  BY <1>a DEF CountedTwiceOnlyIfReplayed, ServerClose, Fault, GiveBack, Replay, Executed
<1>DrainInv. DrainInv'
  BY <1>a DEF DrainInv, FinalFlushDrains, InMemory, Busy, PollOf, ServerClose, Fault, GiveBack,
     Replay, Executed
<1> QED
  BY <1>a, <1>u, <1>FlusherInv, <1>NoVoteVanishes, <1>CountedOrReplayed,
     <1>CountedTwiceOnlyIfReplayed, <1>DrainInv DEF IInv

\* IInv is kept when Restore puts one counter back.
LEMMA RestoreCellStep ==
  ASSUME IInv, TypeOK', RestoreCell
  PROVE  IInv'
<1> USE DEF vars, handlerVars, flushVars, netVars, redisVars, histVars
<1>a. TypeOK /\ HandlerInv /\ FlusherInv /\ Placed /\ NoVoteVanishes /\ OnePlace /\
      CountedOrReplayed /\ CountedTwiceOnlyIfReplayed /\ DrainInv
  BY DEF IInv
<1>c.
  /\ view[cur] \in Votes /\ at \in Cells
  /\ mem' \in [Votes -> [Cells -> SUBSET Votes]]
  /\ \A o \in Votes, d \in Cells :
         mem'[o][d] = IF o = view[cur] /\ d = at THEN mem[o][d] \cup delta[at]
                                                 ELSE mem[o][d]
  BY <1>a, RestoreEffect
<1>e. fpc = "restore" /\ \A d \in Cells : d < at => delta[d] = {}
  BY <1>a, <1>c DEF FlusherInv, RestoreCell, RestoreEnd, PollDone
<1>d. /\ delta' \in [Cells -> SUBSET Votes]
      /\ \A d \in Cells : delta'[d] = IF d = at THEN {} ELSE delta[d]
  <2>1. CASE at = VotersCell
    <3>1. \A d \in Cells : d # at => delta[d] = {}
      BY <1>e, <2>1, CellsFact
    <3> QED
      BY <2>1, <3>1 DEF Empty, RestoreCell, RestoreEnd, PollDone
  <2>2. CASE at # VotersCell
    BY <1>a, <1>c, <2>2 DEF TypeOK, RestoreCell, RestoreEnd, PollDone
  <2> QED
    BY <2>1, <2>2
<1>v. view[cur] = polls[cur] /\ cur \in Polls
  BY <1>a, <1>c, NoneAssumption DEF TypeOK, FlusherInv
<1>p. \A w \in delta[at] : w \in Votes /\ at \in added[w] /\ cur = PollOf(w)
  BY <1>a, <1>c DEF TypeOK, Placed, HandPlaced
<1>m. \A w \in Votes, d \in Cells : InMemory(w, d)' <=> InMemory(w, d) \/ (d = at /\ w \in delta[at])
  BY <1>c DEF InMemory
<1>w. \A w \in Votes, d \in Cells : OnTheWire(w, d)' <=> OnTheWire(w, d)
  BY DEF OnTheWire, RestoreCell, RestoreEnd, PollDone
<1>h. \A w \in Votes, d \in Cells : InHand(w, d)' <=> InHand(w, d) /\ ~(d = at /\ w \in delta[at])
  <2>1. fpc' # "await"
    BY <1>e DEF RestoreCell, RestoreEnd, PollDone
  <2> QED
    BY <1>d, <1>e, <2>1 DEF InHand
<1>k. \A w \in Votes, d \in Cells : Counted(w, d)' <=> Counted(w, d)
  BY DEF Counted, RestoreCell, RestoreEnd, PollDone
<1>u. HandlerInv' /\ CountedTwiceOnlyIfReplayed'
  BY <1>a DEF HandlerInv, PollOf, CountedTwiceOnlyIfReplayed, RestoreCell, RestoreEnd, PollDone
<1>FlusherInv. FlusherInv'
  <2>1. \A p \in Polls : view'[p] \in {None, polls'[p]}
    <3>1. \A p \in Polls : view'[p] \in {None, view[p]}
      BY <1>a DEF TypeOK, RestoreCell, RestoreEnd, PollDone
    <3> QED
      BY <1>a, <3>1 DEF FlusherInv, RestoreCell, RestoreEnd, PollDone
  <2>2. \A c \in Cells : c < at' /\ fpc' = "restore" => delta'[c] = {}
    BY <1>e, <1>d, <1>c, CellsFact DEF RestoreCell, RestoreEnd, PollDone
  <2>3. Busy' => view'[cur'] # None
    BY <1>a, <1>e DEF FlusherInv, Busy, RestoreCell, RestoreEnd, PollDone
  <2> QED
    BY <1>a, <1>e, <2>1, <2>2, <2>3 DEF FlusherInv, Busy, RestoreCell, RestoreEnd, PollDone
<1>Placed. Placed'
  <2>1. MemPlaced'
    <3> SUFFICES ASSUME NEW o \in Votes, NEW d \in Cells, NEW w \in mem'[o][d]
                 PROVE  d \in added'[w] /\ o = polls'[PollOf(w)']
      BY DEF MemPlaced
    <3>1. added' = added /\ PollOf(w)' = PollOf(w) /\ polls' = polls
      BY DEF PollOf, RestoreCell, RestoreEnd, PollDone
    <3>2. w \in mem[o][d] \/ (o = view[cur] /\ d = at /\ w \in delta[at])
      BY <1>c
    <3> QED
      BY <1>a, <1>p, <1>v, <3>1, <3>2 DEF Placed, MemPlaced
  <2>2. HandPlaced'
    BY <1>a, <1>d, <1>p, <1>c, <1>v DEF Placed, HandPlaced, PollOf, RestoreCell, RestoreEnd,
       PollDone
  <2>3. WirePlaced'
    BY <1>a DEF Placed, WirePlaced, PollOf, RestoreCell, RestoreEnd, PollDone
  <2>4. CountPlaced'
    BY <1>a DEF Placed, CountPlaced, PollOf, RestoreCell, RestoreEnd, PollDone
  <2>5. GonePlaced'
    BY <1>a DEF Placed, GonePlaced, RestoreCell, RestoreEnd, PollDone
  <2> QED
    BY <2>1, <2>2, <2>3, <2>4, <2>5 DEF Placed
<1>NoVoteVanishes. NoVoteVanishes'
  <2> SUFFICES ASSUME NEW w \in Votes, NEW d \in added'[w]
               PROVE  \/ polls'[PollOf(w)'] # None /\ w \in mem'[polls'[PollOf(w)']][d]
                      \/ InHand(w, d)' \/ OnTheWire(w, d)' \/ Counted(w, d)' \/ w \in gone'[d]
    BY DEF NoVoteVanishes, PollOf
  <2>1. d \in Cells /\ d \in added[w] /\ PollOf(w)' = PollOf(w) /\ PollOf(w) \in Polls
    BY <1>a DEF TypeOK, PollOf, RestoreCell, RestoreEnd, PollDone
  <2>2. \/ polls[PollOf(w)] # None /\ w \in mem[polls[PollOf(w)]][d]
        \/ InHand(w, d) \/ OnTheWire(w, d) \/ Counted(w, d) \/ w \in gone[d]
    BY <1>a, <2>1 DEF NoVoteVanishes, PollOf
  <2>3. polls' = polls /\ gone' = gone
    BY DEF RestoreCell, RestoreEnd, PollDone
  <2>4. polls[PollOf(w)] # None => polls[PollOf(w)] \in Votes
    BY <1>a, <2>1 DEF TypeOK
  <2>5. CASE d = at /\ w \in delta[at]
    <3>1. polls[PollOf(w)] = view[cur] /\ view[cur] # None
      BY <1>c, <1>v, <1>p, <2>5, NoneAssumption
    <3>2. w \in mem'[view[cur]][d]
      BY <1>c, <2>1, <2>5
    <3> QED
      BY <2>1, <2>3, <3>1, <3>2
  <2>6. CASE ~(d = at /\ w \in delta[at])
    <3>1. CASE polls[PollOf(w)] # None /\ w \in mem[polls[PollOf(w)]][d]
      BY <1>c, <2>1, <2>3, <2>4, <3>1
    <3>2. CASE ~(polls[PollOf(w)] # None /\ w \in mem[polls[PollOf(w)]][d])
      BY <1>h, <1>w, <1>k, <2>1, <2>2, <2>3, <2>6, <3>2
    <3> QED
      BY <3>1, <3>2
  <2> QED
    BY <2>5, <2>6
<1>OnePlace. OnePlace'
  <2> SUFFICES ASSUME NEW w \in Votes, NEW d \in Cells
               PROVE  /\ InMemory(w, d)' => w \notin delta'[d] /\ ~OnTheWire(w, d)'
                      /\ w \in delta'[d] => ~OnTheWire(w, d)'
                      /\ \A k, m \in late' : w \in k.todo[d] /\ w \in m.todo[d] => k = m
    BY DEF OnePlace
  <2>1. /\ InMemory(w, d) => w \notin delta[d] /\ ~OnTheWire(w, d)
        /\ w \in delta[d] => ~OnTheWire(w, d)
        /\ \A k, m \in late : w \in k.todo[d] /\ w \in m.todo[d] => k = m
    BY <1>a DEF OnePlace
  <2>2. /\ InMemory(w, d)' => w \notin delta'[d] /\ ~OnTheWire(w, d)'
        /\ w \in delta'[d] => ~OnTheWire(w, d)'
    BY <1>m, <1>w, <1>d, <1>p, <2>1
  <2>3. \A k, m \in late' : w \in k.todo[d] /\ w \in m.todo[d] => k = m
    BY <2>1 DEF RestoreCell, RestoreEnd, PollDone
  <2> QED
    BY <2>2, <2>3
<1>CountedOrReplayed. CountedOrReplayed'
  <2> SUFFICES ASSUME NEW w \in Votes, NEW d \in Cells
               PROVE  /\ Counted(w, d)' /\ (InMemory(w, d)' \/ InHand(w, d)' \/ OnTheWire(w, d)') => w \in replayed'[d]
                      /\ fpc' = "await" /\ w \in delta'[d] /\ d \notin pipe' \cup nack' => Counted(w, d)'
    BY DEF CountedOrReplayed
  <2>1. /\ Counted(w, d) /\ (InMemory(w, d) \/ InHand(w, d) \/ OnTheWire(w, d)) => w \in replayed[d]
        /\ fpc = "await" /\ w \in delta[d] /\ d \notin pipe \cup nack => Counted(w, d)
    BY <1>a DEF CountedOrReplayed
  <2>2. replayed' = replayed
    BY DEF RestoreCell, RestoreEnd, PollDone
  <2> QED
    BY <1>m, <1>h, <1>w, <1>k, <1>p, <1>d, <1>e, <2>1, <2>2 DEF InHand, RestoreCell, RestoreEnd,
       PollDone
<1>DrainInv. DrainInv'
  <2>1. final => \A w \in early : w \notin delta[at]
    BY <1>a, <1>c, <1>e DEF DrainInv
  <2>2. \A w \in early, d \in Cells : final => (InMemory(w, d)' <=> InMemory(w, d))
    BY <1>a, <1>m, <2>1 DEF TypeOK
  <2>3. final => run = "stopping"
    BY <1>a DEF FlusherInv
  <2>4. \A c \in Cells : delta'[c] \subseteq delta[c]
    BY <1>d
  <2>5. fpc' \in {"restore", "next"} /\ \A p \in Polls : p # cur => view'[p] = view[p]
    BY <1>a, <1>e DEF TypeOK, RestoreCell, RestoreEnd, PollDone
  <2> QED
    BY <1>a, <1>e, <2>1, <2>2, <2>3, <2>4, <2>5 DEF TypeOK, DrainInv, FinalFlushDrains,
       FlusherInv, Busy, PollOf, RestoreCell, RestoreEnd, PollDone
<1> QED
  BY <1>a, <1>u, <1>FlusherInv, <1>Placed, <1>NoVoteVanishes, <1>OnePlace, <1>CountedOrReplayed,
     <1>DrainInv DEF IInv

\* IInv is kept when Redis executes a command.
LEMMA ExecStep ==
  ASSUME IInv, TypeOK', NEW c \in Cells, Exec(c)
  PROVE  IInv'
<1> USE DEF vars, handlerVars, flushVars, netVars, redisVars, histVars
<1>a. TypeOK /\ HandlerInv /\ FlusherInv /\ Placed /\ NoVoteVanishes /\ OnePlace /\
      CountedOrReplayed /\ CountedTwiceOnlyIfReplayed /\ DrainInv
  BY DEF IInv
<1>b. /\ cur \in Polls
      /\ delta[c] \in SUBSET Votes
      /\ redis' = [redis EXCEPT ![cur][c] = redis[cur][c] \cup delta[c]]
      /\ twice' = [twice EXCEPT ![cur][c] = twice[cur][c] \cup (redis[cur][c] \cap delta[c])]
  BY <1>a DEF Exec, Field, TypeOK, Count
<1>c.
  /\ redis' \in [Polls -> [Cells -> SUBSET Votes]]
  /\ twice' \in [Polls -> [Cells -> SUBSET Votes]]
  /\ \A q \in Polls, d \in Cells :
         redis'[q][d] = IF q = cur /\ d = c THEN redis[q][d] \cup delta[c] ELSE redis[q][d]
  /\ \A q \in Polls, d \in Cells :
         twice'[q][d] = IF q = cur /\ d = c THEN twice[q][d] \cup (redis[q][d] \cap delta[c])
                                          ELSE twice[q][d]
  <2>1. TypeOK
    BY <1>a
  <2>2. Count(cur, c, delta[c])
    BY DEF Exec, Field
  <2>3. CountOutcome(cur, c, delta[c])
    BY <2>1, <2>2, <1>b, CountEffect
  <2> QED
    BY <2>3 DEF CountOutcome
<1>u. HandlerInv' /\ OnePlace' /\ DrainInv'
  BY <1>a DEF HandlerInv, PollOf, OnePlace, InMemory, OnTheWire, DrainInv, Busy,
     FinalFlushDrains, Exec, Field, First
<1>FlusherInv. FlusherInv'
  BY <1>a, <1>b, <1>c DEF FlusherInv, Busy, Exec, Field, First
<1>Placed. Placed'
  <2>1. MemPlaced'
    BY <1>a DEF Placed, MemPlaced, PollOf, Exec, Field, First
  <2>2. HandPlaced'
    BY <1>a DEF Placed, HandPlaced, PollOf, Exec, Field, First
  <2>3. WirePlaced'
    BY <1>a DEF Placed, WirePlaced, PollOf, Exec, Field, First
  <2>4. CountPlaced'
    <3> SUFFICES ASSUME NEW p \in Polls, NEW d \in Cells, NEW w \in redis'[p][d]
                 PROVE  d \in added'[w] /\ p = PollOf(w)'
      BY DEF CountPlaced
    <3>1. added' = added /\ PollOf(w)' = PollOf(w)
      BY DEF PollOf, Exec, Field, First
    <3>2. w \in redis[p][d] \/ (p = cur /\ d = c /\ w \in delta[c])
      BY <1>c
    <3> QED
      BY <1>a, <3>1, <3>2 DEF Placed, CountPlaced, HandPlaced
  <2>5. GonePlaced'
    BY <1>a DEF Placed, GonePlaced, Exec, Field, First
  <2> QED
    BY <2>1, <2>2, <2>3, <2>4, <2>5 DEF Placed
<1>NoVoteVanishes. NoVoteVanishes'
  BY <1>a, <1>b, <1>c, CellsFact, NoneAssumption DEF Placed, HandPlaced, NoVoteVanishes, InHand,
     OnTheWire, Counted, Busy, PollOf, Empty, Exec, Field, First
<1>CountedOrReplayed. CountedOrReplayed'
  <2> SUFFICES ASSUME NEW w \in Votes, NEW d \in Cells
               PROVE  /\ Counted(w, d)' /\ (InMemory(w, d)' \/ InHand(w, d)' \/ OnTheWire(w, d)') => w \in replayed'[d]
                      /\ fpc' = "await" /\ w \in delta'[d] /\ d \notin pipe' \cup nack' => Counted(w, d)'
    BY DEF CountedOrReplayed
  <2>1. /\ Counted(w, d) /\ (InMemory(w, d) \/ InHand(w, d) \/ OnTheWire(w, d)) => w \in replayed[d]
        /\ fpc = "await" /\ w \in delta[d] /\ d \notin pipe \cup nack => Counted(w, d)
    BY <1>a DEF CountedOrReplayed
  <2>2. Counted(w, d)' <=> Counted(w, d) \/ (d = c /\ w \in delta[c])
    <3>1. PollOf(w) \in Polls /\ req' = req
      BY <1>a DEF TypeOK, PollOf, Exec, Field, First
    <3>2. w \in delta[c] => cur = PollOf(w)
      BY <1>a DEF Placed, HandPlaced
    <3> QED
      BY <1>c, <3>1, <3>2 DEF Counted, PollOf
  <2>3. (InMemory(w, d)' <=> InMemory(w, d)) /\ (OnTheWire(w, d)' <=> OnTheWire(w, d))
    BY DEF InMemory, OnTheWire, Exec, Field, First
  <2>4. w \in delta[d] => ~InMemory(w, d) /\ ~OnTheWire(w, d)
    BY <1>a DEF OnePlace
  <2> QED
    BY <1>a, <2>1, <2>2, <2>3, <2>4 DEF FlusherInv, InHand, Exec, Field, First
<1>CountedTwiceOnlyIfReplayed. CountedTwiceOnlyIfReplayed'
  BY <1>a, <1>b, <1>c, CellsFact, NoneAssumption DEF Placed, CountPlaced, CountedOrReplayed,
     CountedTwiceOnlyIfReplayed, InMemory, InHand, OnTheWire, Counted, Busy, PollOf, Empty,
     Exec, Field, First
<1> QED
  BY <1>a, <1>u, <1>FlusherInv, <1>Placed, <1>NoVoteVanishes, <1>CountedOrReplayed,
     <1>CountedTwiceOnlyIfReplayed DEF IInv

\* IInv is kept when Redis rejects a command.
LEMMA RejectStep ==
  ASSUME IInv, TypeOK', NEW c \in Cells, Reject(c)
  PROVE  IInv'
<1> USE DEF vars, handlerVars, flushVars, netVars, redisVars, histVars
<1>a. TypeOK /\ HandlerInv /\ FlusherInv /\ Placed /\ NoVoteVanishes /\ OnePlace /\
      CountedOrReplayed /\ CountedTwiceOnlyIfReplayed /\ DrainInv
  BY DEF IInv
<1>u. HandlerInv' /\ Placed' /\ OnePlace' /\ CountedTwiceOnlyIfReplayed' /\ DrainInv'
  BY <1>a DEF HandlerInv, PollOf, Placed, MemPlaced, HandPlaced, WirePlaced, CountPlaced,
     GonePlaced, OnePlace, InMemory, OnTheWire, CountedTwiceOnlyIfReplayed, DrainInv, Busy,
     FinalFlushDrains, Reject, Fault, First
<1>FlusherInv. FlusherInv'
  BY <1>a DEF FlusherInv, Busy, Reject, Fault, First
<1>NoVoteVanishes. NoVoteVanishes'
  BY <1>a DEF NoVoteVanishes, InHand, OnTheWire, Counted, Reject, Fault, First
<1>CountedOrReplayed. CountedOrReplayed'
  BY <1>a DEF CountedOrReplayed, InMemory, InHand, OnTheWire, Counted, Reject, Fault, First
<1> QED
  BY <1>a, <1>u, <1>FlusherInv, <1>NoVoteVanishes, <1>CountedOrReplayed DEF IInv

\* IInv is kept when Redis executes an abandoned command.
LEMMA LateExecStep ==
  ASSUME IInv, TypeOK', NEW l \in late, NEW c \in Cells, LateExec(l, c)
  PROVE  IInv'
<1> USE DEF vars, handlerVars, flushVars, netVars, redisVars, histVars
<1>a. TypeOK /\ HandlerInv /\ FlusherInv /\ Placed /\ NoVoteVanishes /\ OnePlace /\
      CountedOrReplayed /\ CountedTwiceOnlyIfReplayed /\ DrainInv
  BY DEF IInv
<1>b. late' = (late \ {l}) \cup (IF Todo(l) = {c} THEN {} ELSE {Rest(l, c)})
  BY <1>a DEF LateExec, LateStep, Rest
<1>c0.
  /\ late' \in SUBSET Pipeline
  /\ late' \subseteq (late \ {l}) \cup {Rest(l, c)}
  /\ late \ {l} \subseteq late'
  /\ (\E d \in Cells : Rest(l, c).todo[d] # {}) => Rest(l, c) \in late'
  /\ Rest(l, c).poll = l.poll
  /\ \A d \in Cells : Rest(l, c).todo[d] = IF d = c THEN {} ELSE l.todo[d]
  /\ l.poll \in Polls
  /\ \A d \in Cells : l.todo[d] \in SUBSET Votes
  BY <1>a, <1>b, LateEffect
<1>c.
  /\ redis' \in [Polls -> [Cells -> SUBSET Votes]]
  /\ twice' \in [Polls -> [Cells -> SUBSET Votes]]
  /\ \A q \in Polls, d \in Cells :
         redis'[q][d] = IF q = l.poll /\ d = c THEN redis[q][d] \cup l.todo[c] ELSE redis[q][d]
  /\ \A q \in Polls, d \in Cells :
         twice'[q][d] = IF q = l.poll /\ d = c THEN twice[q][d] \cup (redis[q][d] \cap l.todo[c])
                                          ELSE twice[q][d]
  <2>1. Count(l.poll, c, l.todo[c])
    BY DEF LateExec
  <2>2. TypeOK
    BY <1>a
  <2>3. CountOutcome(l.poll, c, l.todo[c])
    BY <1>c0, <2>1, <2>2, CountEffect
  <2> QED
    BY <2>3 DEF CountOutcome
<1>o. \A w \in l.todo[c] : OnTheWire(w, c) /\ w \in Votes /\ c \in added[w] /\ l.poll = PollOf(w)
  BY <1>a, <1>c0 DEF OnTheWire, Placed, WirePlaced
<1>w. \A w \in Votes, d \in Cells : OnTheWire(w, d)' <=> OnTheWire(w, d) /\ ~(d = c /\ w \in l.todo[c])
  <2> SUFFICES ASSUME NEW w \in Votes, NEW d \in Cells
               PROVE  OnTheWire(w, d)' <=> OnTheWire(w, d) /\ ~(d = c /\ w \in l.todo[c])
    OBVIOUS
  <2>1. \A k \in late : w \in k.todo[d] /\ w \in l.todo[d] => k = l
    BY <1>a DEF OnePlace
  <2>2. OnTheWire(w, d)' => OnTheWire(w, d) /\ ~(d = c /\ w \in l.todo[c])
    BY <1>c0, <2>1 DEF OnTheWire
  <2>3. OnTheWire(w, d) /\ ~(d = c /\ w \in l.todo[c]) => OnTheWire(w, d)'
    BY <1>c0, <2>1 DEF OnTheWire
  <2> QED
    BY <2>2, <2>3
<1>m. \A w \in Votes, d \in Cells : InMemory(w, d)' <=> InMemory(w, d)
  BY DEF InMemory, LateExec, LateStep, Todo, First
<1>h. \A w \in Votes, d \in Cells : InHand(w, d)' <=> InHand(w, d)
  BY DEF InHand, LateExec, LateStep, Todo, First
<1>k. \A w \in Votes, d \in Cells : Counted(w, d)' <=> Counted(w, d) \/ (d = c /\ w \in l.todo[c])
  <2> SUFFICES ASSUME NEW w \in Votes, NEW d \in Cells
               PROVE  Counted(w, d)' <=> Counted(w, d) \/ (d = c /\ w \in l.todo[c])
    OBVIOUS
  <2>1. PollOf(w) \in Polls /\ req' = req
    BY <1>a DEF TypeOK, PollOf, LateExec, LateStep, Todo, First
  <2> QED
    BY <1>c, <1>o, <2>1 DEF Counted, PollOf
<1>u. HandlerInv' /\ FlusherInv' /\ DrainInv'
  BY <1>a DEF HandlerInv, PollOf, FlusherInv, Busy, DrainInv, InMemory, FinalFlushDrains,
     LateExec, LateStep, Todo, First
<1>Placed. Placed'
  <2>1. MemPlaced'
    BY <1>a DEF Placed, MemPlaced, PollOf, LateExec, LateStep, Todo, First
  <2>2. HandPlaced'
    BY <1>a DEF Placed, HandPlaced, PollOf, LateExec, LateStep, Todo, First
  <2>3. WirePlaced'
    <3> SUFFICES ASSUME NEW k \in late', NEW d \in Cells, NEW w \in k.todo[d]
                 PROVE  d \in added'[w] /\ k.poll = PollOf(w)'
      BY DEF WirePlaced
    <3>1. added' = added /\ PollOf(w)' = PollOf(w)
      BY DEF PollOf, LateExec, LateStep, Todo, First
    <3>2. PICK m \in late : k.poll = m.poll /\ w \in m.todo[d]
      BY <1>c0
    <3> QED
      BY <1>a, <3>1, <3>2 DEF Placed, WirePlaced
  <2>4. CountPlaced'
    <3> SUFFICES ASSUME NEW p \in Polls, NEW d \in Cells, NEW w \in redis'[p][d]
                 PROVE  d \in added'[w] /\ p = PollOf(w)'
      BY DEF CountPlaced
    <3>1. added' = added /\ PollOf(w)' = PollOf(w)
      BY DEF PollOf, LateExec, LateStep, Todo, First
    <3>2. w \in redis[p][d] \/ (p = l.poll /\ d = c /\ w \in l.todo[c])
      BY <1>c
    <3> QED
      BY <1>a, <1>o, <3>1, <3>2 DEF Placed, CountPlaced
  <2>5. GonePlaced'
    BY <1>a DEF Placed, GonePlaced, LateExec, LateStep, Todo, First
  <2> QED
    BY <2>1, <2>2, <2>3, <2>4, <2>5 DEF Placed
<1>NoVoteVanishes. NoVoteVanishes'
  <2> SUFFICES ASSUME NEW w \in Votes, NEW d \in added'[w]
               PROVE  \/ polls'[PollOf(w)'] # None /\ w \in mem'[polls'[PollOf(w)']][d]
                      \/ InHand(w, d)' \/ OnTheWire(w, d)' \/ Counted(w, d)' \/ w \in gone'[d]
    BY DEF NoVoteVanishes, PollOf
  <2>1. d \in Cells /\ d \in added[w] /\ PollOf(w)' = PollOf(w) /\ PollOf(w) \in Polls
    BY <1>a DEF TypeOK, PollOf, LateExec, LateStep, Todo, First
  <2>2. \/ polls[PollOf(w)] # None /\ w \in mem[polls[PollOf(w)]][d]
        \/ InHand(w, d) \/ OnTheWire(w, d) \/ Counted(w, d) \/ w \in gone[d]
    BY <1>a, <2>1 DEF NoVoteVanishes, PollOf
  <2>3. polls' = polls /\ mem' = mem /\ gone' = gone
    BY DEF LateExec, LateStep, Todo, First
  <2> QED
    BY <1>h, <1>w, <1>k, <2>1, <2>2, <2>3
<1>OnePlace. OnePlace'
  <2> SUFFICES ASSUME NEW w \in Votes, NEW d \in Cells
               PROVE  /\ InMemory(w, d)' => w \notin delta'[d] /\ ~OnTheWire(w, d)'
                      /\ w \in delta'[d] => ~OnTheWire(w, d)'
                      /\ \A k, m \in late' : w \in k.todo[d] /\ w \in m.todo[d] => k = m
    BY DEF OnePlace
  <2>1. /\ InMemory(w, d) => w \notin delta[d] /\ ~OnTheWire(w, d)
        /\ w \in delta[d] => ~OnTheWire(w, d)
        /\ \A k, m \in late : w \in k.todo[d] /\ w \in m.todo[d] => k = m
    BY <1>a DEF OnePlace
  <2>2. /\ InMemory(w, d)' => w \notin delta'[d] /\ ~OnTheWire(w, d)'
        /\ w \in delta'[d] => ~OnTheWire(w, d)'
    BY <1>m, <1>w, <1>o, <2>1 DEF LateExec, LateStep, Todo, First
  <2>3. \A k, m \in late' : w \in k.todo[d] /\ w \in m.todo[d] => k = m
    BY <1>c0, <2>1 DEF LateExec, LateStep, Todo, First
  <2> QED
    BY <2>2, <2>3
<1>CountedOrReplayed. CountedOrReplayed'
  <2> SUFFICES ASSUME NEW w \in Votes, NEW d \in Cells
               PROVE  /\ Counted(w, d)' /\ (InMemory(w, d)' \/ InHand(w, d)' \/ OnTheWire(w, d)') => w \in replayed'[d]
                      /\ fpc' = "await" /\ w \in delta'[d] /\ d \notin pipe' \cup nack' => Counted(w, d)'
    BY DEF CountedOrReplayed
  <2>1. /\ Counted(w, d) /\ (InMemory(w, d) \/ InHand(w, d) \/ OnTheWire(w, d)) => w \in replayed[d]
        /\ fpc = "await" /\ w \in delta[d] /\ d \notin pipe \cup nack => Counted(w, d)
    BY <1>a DEF CountedOrReplayed
  <2>2. replayed' = replayed
    BY DEF LateExec, LateStep, Todo, First
  <2>3. d = c /\ w \in l.todo[c] => ~InMemory(w, d) /\ ~InHand(w, d)
    BY <1>a, <1>o DEF OnePlace, InHand
  <2> QED
    BY <1>m, <1>h, <1>w, <1>k, <2>1, <2>2, <2>3 DEF LateExec, LateStep, Todo, First
<1>CountedTwiceOnlyIfReplayed. CountedTwiceOnlyIfReplayed'
  <2> SUFFICES ASSUME NEW q \in Polls, NEW d \in Cells, NEW w \in twice'[q][d]
               PROVE  w \in replayed[d]
    BY DEF CountedTwiceOnlyIfReplayed, LateExec, LateStep, Todo, First
  <2>1. CASE w \in twice[q][d]
    BY <1>a, <2>1 DEF CountedTwiceOnlyIfReplayed
  <2>2. CASE w \notin twice[q][d]
    <3>1. q = l.poll /\ d = c /\ w \in redis[q][d] /\ w \in l.todo[c]
      BY <1>c, <2>2
    <3>2. w \in Votes /\ Counted(w, d) /\ OnTheWire(w, d)
      BY <1>o, <3>1 DEF Counted, PollOf
    <3> QED
      BY <1>a, <3>2 DEF CountedOrReplayed
  <2> QED
    BY <2>1, <2>2
<1> QED
  BY <1>a, <1>u, <1>Placed, <1>NoVoteVanishes, <1>OnePlace, <1>CountedOrReplayed,
     <1>CountedTwiceOnlyIfReplayed DEF IInv

\* IInv is kept when an abandoned command is lost.
LEMMA LateLostStep ==
  ASSUME IInv, TypeOK', NEW l \in late, NEW c \in Cells, LateLost(l, c)
  PROVE  IInv'
<1> USE DEF vars, handlerVars, flushVars, netVars, redisVars, histVars
<1>a. TypeOK /\ HandlerInv /\ FlusherInv /\ Placed /\ NoVoteVanishes /\ OnePlace /\
      CountedOrReplayed /\ CountedTwiceOnlyIfReplayed /\ DrainInv
  BY DEF IInv
<1>b. late' = (late \ {l}) \cup (IF Todo(l) = {c} THEN {} ELSE {Rest(l, c)})
  BY <1>a DEF LateLost, LateStep, Rest
<1>c.
  /\ late' \in SUBSET Pipeline
  /\ late' \subseteq (late \ {l}) \cup {Rest(l, c)}
  /\ late \ {l} \subseteq late'
  /\ (\E d \in Cells : Rest(l, c).todo[d] # {}) => Rest(l, c) \in late'
  /\ Rest(l, c).poll = l.poll
  /\ \A d \in Cells : Rest(l, c).todo[d] = IF d = c THEN {} ELSE l.todo[d]
  /\ l.poll \in Polls
  /\ \A d \in Cells : l.todo[d] \in SUBSET Votes
  BY <1>a, <1>b, LateEffect
<1>o. \A w \in l.todo[c] : OnTheWire(w, c) /\ w \in Votes /\ c \in added[w] /\ l.poll = PollOf(w)
  BY <1>a, <1>c DEF OnTheWire, Placed, WirePlaced
<1>w. \A w \in Votes, d \in Cells : OnTheWire(w, d)' <=> OnTheWire(w, d) /\ ~(d = c /\ w \in l.todo[c])
  <2> SUFFICES ASSUME NEW w \in Votes, NEW d \in Cells
               PROVE  OnTheWire(w, d)' <=> OnTheWire(w, d) /\ ~(d = c /\ w \in l.todo[c])
    OBVIOUS
  <2>1. \A k \in late : w \in k.todo[d] /\ w \in l.todo[d] => k = l
    BY <1>a DEF OnePlace
  <2>2. OnTheWire(w, d)' => OnTheWire(w, d) /\ ~(d = c /\ w \in l.todo[c])
    BY <1>c, <2>1 DEF OnTheWire
  <2>3. OnTheWire(w, d) /\ ~(d = c /\ w \in l.todo[c]) => OnTheWire(w, d)'
    BY <1>c, <2>1 DEF OnTheWire
  <2> QED
    BY <2>2, <2>3
<1>m. \A w \in Votes, d \in Cells : InMemory(w, d)' <=> InMemory(w, d)
  BY DEF InMemory, LateLost, LateStep, Todo, First
<1>h. \A w \in Votes, d \in Cells : InHand(w, d)' <=> InHand(w, d)
  BY DEF InHand, LateLost, LateStep, Todo, First
<1>g. \A d \in Cells : gone'[d] = IF d = c THEN gone[d] \cup l.todo[c] ELSE gone[d]
  BY <1>a DEF TypeOK, LateLost, LateStep, Todo, First
<1>k. \A w \in Votes, d \in Cells : Counted(w, d)' <=> Counted(w, d)
  BY DEF Counted, LateLost, LateStep, Todo, First
<1>u. HandlerInv' /\ FlusherInv' /\ CountedTwiceOnlyIfReplayed' /\ DrainInv'
  BY <1>a DEF HandlerInv, PollOf, FlusherInv, Busy, CountedTwiceOnlyIfReplayed, DrainInv,
     InMemory, FinalFlushDrains, LateLost, LateStep, Todo, First
<1>Placed. Placed'
  <2>1. MemPlaced'
    BY <1>a DEF Placed, MemPlaced, PollOf, LateLost, LateStep, Todo, First
  <2>2. HandPlaced'
    BY <1>a DEF Placed, HandPlaced, PollOf, LateLost, LateStep, Todo, First
  <2>3. WirePlaced'
    <3> SUFFICES ASSUME NEW k \in late', NEW d \in Cells, NEW w \in k.todo[d]
                 PROVE  d \in added'[w] /\ k.poll = PollOf(w)'
      BY DEF WirePlaced
    <3>1. added' = added /\ PollOf(w)' = PollOf(w)
      BY DEF PollOf, LateLost, LateStep, Todo, First
    <3>2. PICK m \in late : k.poll = m.poll /\ w \in m.todo[d]
      BY <1>c
    <3> QED
      BY <1>a, <3>1, <3>2 DEF Placed, WirePlaced
  <2>4. CountPlaced'
    BY <1>a DEF Placed, CountPlaced, PollOf, LateLost, LateStep, Todo, First
  <2>5. GonePlaced'
    BY <1>a, <1>g, <1>o DEF TypeOK, Placed, GonePlaced, LateLost, LateStep, Todo, First
  <2> QED
    BY <2>1, <2>2, <2>3, <2>4, <2>5 DEF Placed
<1>NoVoteVanishes. NoVoteVanishes'
  <2> SUFFICES ASSUME NEW w \in Votes, NEW d \in added'[w]
               PROVE  \/ polls'[PollOf(w)'] # None /\ w \in mem'[polls'[PollOf(w)']][d]
                      \/ InHand(w, d)' \/ OnTheWire(w, d)' \/ Counted(w, d)' \/ w \in gone'[d]
    BY DEF NoVoteVanishes, PollOf
  <2>1. d \in Cells /\ d \in added[w] /\ PollOf(w)' = PollOf(w) /\ PollOf(w) \in Polls
    BY <1>a DEF TypeOK, PollOf, LateLost, LateStep, Todo, First
  <2>2. \/ polls[PollOf(w)] # None /\ w \in mem[polls[PollOf(w)]][d]
        \/ InHand(w, d) \/ OnTheWire(w, d) \/ Counted(w, d) \/ w \in gone[d]
    BY <1>a, <2>1 DEF NoVoteVanishes, PollOf
  <2>3. polls' = polls /\ mem' = mem
    BY DEF LateLost, LateStep, Todo, First
  <2> QED
    BY <1>h, <1>w, <1>k, <1>g, <2>1, <2>2, <2>3
<1>OnePlace. OnePlace'
  <2> SUFFICES ASSUME NEW w \in Votes, NEW d \in Cells
               PROVE  /\ InMemory(w, d)' => w \notin delta'[d] /\ ~OnTheWire(w, d)'
                      /\ w \in delta'[d] => ~OnTheWire(w, d)'
                      /\ \A k, m \in late' : w \in k.todo[d] /\ w \in m.todo[d] => k = m
    BY DEF OnePlace
  <2>1. /\ InMemory(w, d) => w \notin delta[d] /\ ~OnTheWire(w, d)
        /\ w \in delta[d] => ~OnTheWire(w, d)
        /\ \A k, m \in late : w \in k.todo[d] /\ w \in m.todo[d] => k = m
    BY <1>a DEF OnePlace
  <2>2. /\ InMemory(w, d)' => w \notin delta'[d] /\ ~OnTheWire(w, d)'
        /\ w \in delta'[d] => ~OnTheWire(w, d)'
    BY <1>m, <1>w, <1>o, <2>1 DEF LateLost, LateStep, Todo, First
  <2>3. \A k, m \in late' : w \in k.todo[d] /\ w \in m.todo[d] => k = m
    BY <1>c, <2>1 DEF LateLost, LateStep, Todo, First
  <2> QED
    BY <2>2, <2>3
<1>CountedOrReplayed. CountedOrReplayed'
  <2> SUFFICES ASSUME NEW w \in Votes, NEW d \in Cells
               PROVE  /\ Counted(w, d)' /\ (InMemory(w, d)' \/ InHand(w, d)' \/ OnTheWire(w, d)') => w \in replayed'[d]
                      /\ fpc' = "await" /\ w \in delta'[d] /\ d \notin pipe' \cup nack' => Counted(w, d)'
    BY DEF CountedOrReplayed
  <2>1. /\ Counted(w, d) /\ (InMemory(w, d) \/ InHand(w, d) \/ OnTheWire(w, d)) => w \in replayed[d]
        /\ fpc = "await" /\ w \in delta[d] /\ d \notin pipe \cup nack => Counted(w, d)
    BY <1>a DEF CountedOrReplayed
  <2>2. replayed' = replayed
    BY DEF LateLost, LateStep, Todo, First
  <2>3. d = c /\ w \in l.todo[c] => ~InMemory(w, d) /\ ~InHand(w, d)
    BY <1>a, <1>o DEF OnePlace, InHand
  <2> QED
    BY <1>m, <1>h, <1>w, <1>k, <2>1, <2>2, <2>3 DEF LateLost, LateStep, Todo, First
<1> QED
  BY <1>a, <1>u, <1>Placed, <1>NoVoteVanishes, <1>OnePlace, <1>CountedOrReplayed DEF IInv

\* IInv is kept when the flusher's context is cancelled.
LEMMA StopStep ==
  ASSUME IInv, TypeOK', Stop
  PROVE  IInv'
<1> USE DEF vars, handlerVars, flushVars, netVars, redisVars, histVars
<1>a. TypeOK /\ HandlerInv /\ FlusherInv /\ Placed /\ NoVoteVanishes /\ OnePlace /\
      CountedOrReplayed /\ CountedTwiceOnlyIfReplayed /\ DrainInv
  BY DEF IInv
<1>u. Placed' /\ NoVoteVanishes' /\ OnePlace' /\ CountedOrReplayed' /\
      CountedTwiceOnlyIfReplayed'
  BY <1>a DEF Placed, MemPlaced, HandPlaced, WirePlaced, CountPlaced, GonePlaced, PollOf,
     NoVoteVanishes, InHand, OnTheWire, Counted, OnePlace, InMemory, CountedOrReplayed,
     CountedTwiceOnlyIfReplayed, Stop
<1>HandlerInv. HandlerInv'
  BY <1>a DEF HandlerInv, PollOf, Stop
<1>FlusherInv. FlusherInv'
  BY <1>a DEF FlusherInv, Busy, Stop
<1>DrainInv. DrainInv'
  BY <1>a DEF DrainInv, FinalFlushDrains, InMemory, Busy, PollOf, Stop
<1> QED
  BY <1>a, <1>u, <1>HandlerInv, <1>FlusherInv, <1>DrainInv DEF IInv

\* IInv is kept when the process ends.
LEMMA DownStep ==
  ASSUME IInv, TypeOK', Down
  PROVE  IInv'
<1> USE DEF vars, handlerVars, flushVars, netVars, redisVars, histVars
<1>a. TypeOK /\ HandlerInv /\ FlusherInv /\ Placed /\ NoVoteVanishes /\ OnePlace /\
      CountedOrReplayed /\ CountedTwiceOnlyIfReplayed /\ DrainInv
  BY DEF IInv
<1>b. AbandonPipe
  BY <1>a DEF Down
<1>c.
  /\ late' \in SUBSET Pipeline
  /\ late \subseteq late'
  /\ \A l \in late' \ late : /\ l = Abandoned
                             /\ l.poll = cur
                             /\ \A c \in Cells : l.todo[c] = IF c \in pipe THEN delta[c] ELSE {}
  /\ pipe # {} => Abandoned \in late'
  /\ Abandoned.poll = cur
  /\ \A c \in Cells : Abandoned.todo[c] = IF c \in pipe THEN delta[c] ELSE {}
  BY <1>a, <1>b, AbandonEffect
<1>d. /\ \A d \in Cells : delta'[d] = {}
      /\ \A o \in Votes, d \in Cells : mem'[o][d] = {}
  BY DEF Empty, Down
<1>p. \A d \in Cells : \A w \in delta[d] : w \in Votes /\ d \in added[w] /\ cur = PollOf(w)
  BY <1>a DEF TypeOK, Placed, HandPlaced
<1>g. \A w \in Votes, d \in Cells : w \in gone'[d] <=> (w \in gone[d] \/ InMemory(w, d) \/ (w \in delta[d] /\ ~(fpc = "await" /\ d \notin nack)))
  <2> SUFFICES ASSUME NEW w \in Votes, NEW d \in Cells
               PROVE  w \in gone'[d] <=> (w \in gone[d] \/ InMemory(w, d) \/ (w \in delta[d] /\ ~(fpc = "await" /\ d \notin nack)))
    OBVIOUS
  <2>1. gone'[d] = gone[d] \cup InCounters(d)
                   \cup (IF fpc = "await" /\ d \notin nack THEN {} ELSE delta[d])
    BY DEF Down
  <2>2. w \in InCounters(d) <=> InMemory(w, d)
    BY DEF InMemory, InCounters
  <2> QED
    BY <2>1, <2>2
<1>m. \A w \in Votes, d \in Cells : ~InMemory(w, d)'
  BY <1>d DEF InMemory
<1>w. \A w \in Votes, d \in Cells : OnTheWire(w, d)' <=> OnTheWire(w, d) \/ (d \in pipe /\ w \in delta[d])
  <2> SUFFICES ASSUME NEW w \in Votes, NEW d \in Cells
               PROVE  OnTheWire(w, d)' <=> OnTheWire(w, d) \/ (d \in pipe /\ w \in delta[d])
    OBVIOUS
  <2>1. OnTheWire(w, d)' => OnTheWire(w, d) \/ (d \in pipe /\ w \in delta[d])
    BY <1>c DEF OnTheWire
  <2>2. OnTheWire(w, d) \/ (d \in pipe /\ w \in delta[d]) => OnTheWire(w, d)'
    BY <1>c DEF OnTheWire
  <2> QED
    BY <2>1, <2>2
<1>h. \A w \in Votes, d \in Cells : ~InHand(w, d)'
  BY <1>d DEF InHand
<1>k. \A w \in Votes, d \in Cells : Counted(w, d)' <=> Counted(w, d)
  BY DEF Counted, Down
<1>u. CountedTwiceOnlyIfReplayed'
  BY <1>a DEF CountedTwiceOnlyIfReplayed, Down
<1>HandlerInv. HandlerInv'
  BY <1>a, <1>b, <1>c DEF HandlerInv, PollOf, Down
<1>FlusherInv. FlusherInv'
  BY <1>a, <1>b, <1>c DEF FlusherInv, Busy, Down
<1>Placed. Placed'
  <2>1. MemPlaced'
    BY <1>a, <1>d, <1>p DEF MemPlaced, Down
  <2>2. HandPlaced'
    BY <1>a, <1>d, <1>p DEF HandPlaced, Down
  <2>3. WirePlaced'
    <3> SUFFICES ASSUME NEW k \in late', NEW d \in Cells, NEW w \in k.todo[d]
                 PROVE  d \in added'[w] /\ k.poll = PollOf(w)'
      BY DEF WirePlaced
    <3>1. added' = added /\ PollOf(w)' = PollOf(w)
      BY DEF PollOf, Down
    <3>2. CASE k \in late
      BY <1>a, <3>1, <3>2 DEF Placed, WirePlaced
    <3>3. CASE k \notin late
      <4>1. k.poll = cur /\ w \in delta[d]
        BY <1>c, <3>3
      <4> QED
        BY <1>p, <3>1, <4>1
    <3> QED
      BY <3>2, <3>3
  <2>4. CountPlaced'
    BY <1>a DEF Placed, CountPlaced, PollOf, Down
  <2>5. GonePlaced'
    BY <1>a, <1>g, <1>p DEF TypeOK, Placed, MemPlaced, GonePlaced, InMemory, Down
  <2> QED
    BY <2>1, <2>2, <2>3, <2>4, <2>5 DEF Placed
<1>NoVoteVanishes. NoVoteVanishes'
  <2> SUFFICES ASSUME NEW w \in Votes, NEW d \in added'[w]
               PROVE  \/ polls'[PollOf(w)'] # None /\ w \in mem'[polls'[PollOf(w)']][d]
                      \/ InHand(w, d)' \/ OnTheWire(w, d)' \/ Counted(w, d)' \/ w \in gone'[d]
    BY DEF NoVoteVanishes, PollOf
  <2>1. d \in Cells /\ d \in added[w] /\ PollOf(w)' = PollOf(w) /\ PollOf(w) \in Polls
    BY <1>a DEF TypeOK, PollOf, Down
  <2>2. \/ polls[PollOf(w)] # None /\ w \in mem[polls[PollOf(w)]][d]
        \/ InHand(w, d) \/ OnTheWire(w, d) \/ Counted(w, d) \/ w \in gone[d]
    BY <1>a, <2>1 DEF NoVoteVanishes, PollOf
  <2>3. polls[PollOf(w)] # None /\ w \in mem[polls[PollOf(w)]][d] => w \in gone'[d]
    <3>1. polls[PollOf(w)] # None => polls[PollOf(w)] \in Votes
      BY <1>a, <2>1 DEF TypeOK
    <3> QED
      BY <1>g, <2>1, <3>1 DEF InMemory
  <2>4. InHand(w, d) => OnTheWire(w, d)' \/ w \in gone'[d]
    BY <1>g, <1>w, <2>1 DEF InHand
  <2> QED
    BY <1>g, <1>w, <1>k, <2>1, <2>2, <2>3, <2>4
<1>OnePlace. OnePlace'
  <2> SUFFICES ASSUME NEW w \in Votes, NEW d \in Cells
               PROVE  /\ InMemory(w, d)' => w \notin delta'[d] /\ ~OnTheWire(w, d)'
                      /\ w \in delta'[d] => ~OnTheWire(w, d)'
                      /\ \A k, m \in late' : w \in k.todo[d] /\ w \in m.todo[d] => k = m
    BY DEF OnePlace
  <2>1. /\ InMemory(w, d) => w \notin delta[d] /\ ~OnTheWire(w, d)
        /\ w \in delta[d] => ~OnTheWire(w, d)
        /\ \A k, m \in late : w \in k.todo[d] /\ w \in m.todo[d] => k = m
    BY <1>a DEF OnePlace
  <2>2. /\ InMemory(w, d)' => w \notin delta'[d] /\ ~OnTheWire(w, d)'
        /\ w \in delta'[d] => ~OnTheWire(w, d)'
    BY <1>m, <1>w, <1>d, <1>p, <2>1
  <2>3. \A k, m \in late' : w \in k.todo[d] /\ w \in m.todo[d] => k = m
    BY <1>c, <2>1 DEF OnTheWire, Down
  <2> QED
    BY <2>2, <2>3
<1>CountedOrReplayed. CountedOrReplayed'
  <2> SUFFICES ASSUME NEW w \in Votes, NEW d \in Cells
               PROVE  /\ Counted(w, d)' /\ (InMemory(w, d)' \/ InHand(w, d)' \/ OnTheWire(w, d)') => w \in replayed'[d]
                      /\ fpc' = "await" /\ w \in delta'[d] /\ d \notin pipe' \cup nack' => Counted(w, d)'
    BY DEF CountedOrReplayed
  <2>1. /\ Counted(w, d) /\ (InMemory(w, d) \/ InHand(w, d) \/ OnTheWire(w, d)) => w \in replayed[d]
        /\ fpc = "await" /\ w \in delta[d] /\ d \notin pipe \cup nack => Counted(w, d)
    BY <1>a DEF CountedOrReplayed
  <2>2. replayed' = replayed
    BY DEF Down
  <2>3. d \in pipe /\ w \in delta[d] => InHand(w, d)
    BY DEF InHand
  <2> QED
    BY <1>m, <1>h, <1>w, <1>k, <1>d, <2>1, <2>2, <2>3
<1>DrainInv. DrainInv'
  BY <1>a, <1>b, <1>c DEF DrainInv, FinalFlushDrains, InMemory, Busy, PollOf, Down
<1> QED
  BY <1>a, <1>u, <1>HandlerInv, <1>FlusherInv, <1>Placed, <1>NoVoteVanishes, <1>OnePlace,
     <1>CountedOrReplayed, <1>DrainInv DEF IInv

\* IInv is kept when the process starts again.
LEMMA RestartStep ==
  ASSUME IInv, TypeOK', Restart
  PROVE  IInv'
<1> USE DEF vars, handlerVars, flushVars, netVars, redisVars, histVars
<1>a. TypeOK /\ HandlerInv /\ FlusherInv /\ Placed /\ NoVoteVanishes /\ OnePlace /\
      CountedOrReplayed /\ CountedTwiceOnlyIfReplayed /\ DrainInv
  BY DEF IInv
<1>u. Placed' /\ NoVoteVanishes' /\ OnePlace' /\ CountedOrReplayed' /\
      CountedTwiceOnlyIfReplayed'
  BY <1>a DEF Placed, MemPlaced, HandPlaced, WirePlaced, CountPlaced, GonePlaced, PollOf,
     NoVoteVanishes, InHand, OnTheWire, Counted, OnePlace, InMemory, CountedOrReplayed,
     CountedTwiceOnlyIfReplayed, Restart
<1>HandlerInv. HandlerInv'
  BY <1>a DEF HandlerInv, PollOf, Restart
<1>FlusherInv. FlusherInv'
  BY <1>a DEF FlusherInv, Busy, Restart
<1>DrainInv. DrainInv'
  BY <1>a DEF DrainInv, FinalFlushDrains, InMemory, Busy, PollOf, Restart
<1> QED
  BY <1>a, <1>u, <1>HandlerInv, <1>FlusherInv, <1>DrainInv DEF IInv

-----------------------------------------------------------------------------
(* The theorems.                                                           *)

\* The initial states satisfy the invariant.
LEMMA InitIInv ==
  ASSUME Init
  PROVE  IInv
<1>1. TypeOK
  <2>1. Empty \in [Cells -> SUBSET Votes] /\ 1 \in Cells /\ 0 \in 0..MaxFaults
    BY CellsFact, FaultsAssumption DEF Empty
  <2>2. /\ req \in [Votes -> [poll : Polls, choice : Choices]]
        /\ vpc \in [Votes -> {"idle", "register", "add", "done", "cut"}]
        /\ obj \in [Votes -> Votes \cup {None}]
        /\ added \in [Votes -> SUBSET Cells]
        /\ polls \in [Polls -> Votes \cup {None}]
        /\ view \in [Polls -> Votes \cup {None}]
    BY DEF Init
  <2>3. /\ mem \in [Votes -> [Cells -> SUBSET Votes]]
        /\ delta \in [Cells -> SUBSET Votes]
        /\ redis \in [Polls -> [Cells -> SUBSET Votes]]
        /\ twice \in [Polls -> [Cells -> SUBSET Votes]]
        /\ replayed \in [Cells -> SUBSET Votes]
        /\ gone \in [Cells -> SUBSET Votes]
    BY <2>1 DEF Init
  <2> QED
    BY <2>1, <2>2, <2>3 DEF Init, TypeOK
<1>2. /\ \A o \in Votes, c \in Cells : mem[o][c] = {}
      /\ \A p \in Polls, c \in Cells : redis[p][c] = {} /\ twice[p][c] = {}
      /\ \A c \in Cells : delta[c] = {} /\ gone[c] = {}
      /\ \A v \in Votes : added[v] = {}
      /\ late = {}
  BY DEF Init, Empty
<1>3. HandlerInv /\ FlusherInv
  BY <1>2 DEF Init, HandlerInv, FlusherInv, Busy
<1>4. Placed
  BY <1>2 DEF Placed, MemPlaced, HandPlaced, WirePlaced, CountPlaced, GonePlaced
<1>5. NoVoteVanishes /\ OnePlace /\ CountedTwiceOnlyIfReplayed
  BY <1>2 DEF NoVoteVanishes, OnePlace, CountedTwiceOnlyIfReplayed, OnTheWire
<1>6. CountedOrReplayed
  BY <1>2 DEF CountedOrReplayed, InMemory, InHand, OnTheWire
<1>7. DrainInv
  BY DEF Init, DrainInv, FinalFlushDrains
<1> QED
  BY <1>1, <1>3, <1>4, <1>5, <1>6, <1>7 DEF IInv

\* Every step, stuttering included, keeps the invariant.
LEMMA NextIInv ==
  ASSUME IInv, [Next]_vars
  PROVE  IInv'
<1>0. TypeOK'
  BY TypeStep DEF IInv
<1>1. ASSUME NEW v \in Votes, Handler(v)
      PROVE  IInv'
  BY <1>0, <1>1, LookupStep, RegisterStep, AddOptionStep, AddVotersStep DEF Handler
<1>2. ASSUME Flusher
      PROVE  IInv'
  BY <1>0, <1>2, TickStep, FinalFlushStep, NextPollStep, FlushDoneStep, SwapOptionStep,
     SwapVotersStep, SendStep, RefusedStep, CancelledStep, DialTimeoutStep, ReplyOkStep,
     NoReplyStep, ReplyErrorStep, ServerCloseStep, RestoreCellStep DEF Flusher
<1>3. ASSUME Redis
      PROVE  IInv'
  BY <1>0, <1>3, ExecStep, RejectStep, LateExecStep, LateLostStep DEF Redis, Late
<1>4. ASSUME Kill \/ Exit
      PROVE  IInv'
  BY <1>0, <1>4, DownStep DEF Kill, Exit
<1>5. CASE UNCHANGED vars
  BY <1>5 DEF IInv, TypeOK, HandlerInv, FlusherInv, Placed, MemPlaced, HandPlaced, WirePlaced,
     CountPlaced, GonePlaced, NoVoteVanishes, OnePlace, CountedOrReplayed,
     CountedTwiceOnlyIfReplayed, DrainInv, FinalFlushDrains, InMemory, InHand, OnTheWire,
     Counted, Busy, PollOf, vars, handlerVars, flushVars, netVars, redisVars, histVars
<1> QED
  BY <1>0, <1>1, <1>2, <1>3, <1>4, <1>5, StopStep, RestartStep DEF Next

\* IInv holds in every reachable state.
THEOREM Invariance == Spec => []IInv
<1>1. Init => IInv
  BY InitIInv
<1>2. IInv /\ [Next]_vars => IInv'
  BY NextIInv
<1> QED
  BY <1>1, <1>2, PTL DEF Spec

\* Every variable keeps its type.
THEOREM Typing == Spec => []TypeOK
<1>1. IInv => TypeOK
  BY DEF IInv
<1> QED
  BY <1>1, Invariance, PTL

\* No increment of an accepted vote disappears: it is in the published counters of its
\* poll, in the flusher's hand, on the wire, counted in Redis, or knowingly given up.
THEOREM NothingVanishes == Spec => []NoVoteVanishes
<1>1. IInv => NoVoteVanishes
  BY DEF IInv
<1> QED
  BY <1>1, Invariance, PTL

\* A double count can only come from a delta that was put back after Redis executed it.
THEOREM DoubleCountNeedsReplay == Spec => []CountedTwiceOnlyIfReplayed
<1>1. IInv => CountedTwiceOnlyIfReplayed
  BY DEF IInv
<1> QED
  BY <1>1, Invariance, PTL

\* Redis counts a vote under its own poll and under the options it selected only.
THEOREM NothingMisplaced == Spec => []CountedWhereCast
<1>1. IInv => CountedWhereCast
  <2> SUFFICES ASSUME IInv, NEW p \in Polls, NEW c \in Cells, NEW v \in redis[p][c]
               PROVE  req[v].poll = p /\ (c \in req[v].choice \/ c = VotersCell)
    BY DEF CountedWhereCast
  <2>1. v \in Votes
    BY DEF IInv, TypeOK
  <2>2. c \in added[v] /\ p = PollOf(v)
    BY DEF IInv, Placed, CountPlaced
  <2> QED
    BY <2>1, <2>2 DEF IInv, HandlerInv, PollOf
<1> QED
  BY <1>1, Invariance, PTL

\* After the final Flush no vote acknowledged before it is left in memory, unless that very
\* flush had to put it back.
THEOREM PlannedStopDrains == Spec => []FinalFlushDrains
<1>1. IInv => FinalFlushDrains
  BY DEF IInv, DrainInv
<1> QED
  BY <1>1, Invariance, PTL

-----------------------------------------------------------------------------
(* Batcher implements VoteLedger.                                          *)

\* Where one increment is, in the words of the ledger.
Live(v, c) == InMemory(v, c) \/ InHand(v, c) \/ OnTheWire(v, c)
Again(v, c) == v \in twice[PollOf(v)][c]
Lost(v, c) == v \in gone[c]

\* Said of every single increment: it stays what it is, and so does the ledger.
LEMMA LedgerStays ==
  ASSUME \A v \in Votes, c \in Cells :
           /\ Live(v, c)' <=> Live(v, c)
           /\ Counted(v, c)' <=> Counted(v, c)
           /\ Again(v, c)' <=> Again(v, c)
           /\ Lost(v, c)' <=> Lost(v, c)
  PROVE  UNCHANGED Ledger!ledger
<1>1. \A i \in Increments : i[1] \in Votes /\ i[2] \in Cells
  BY DEF Increments
<1>2. Pending' = Pending
  BY <1>1 DEF Pending, Live, Increments
<1>3. CountedSet' = CountedSet
  BY <1>1 DEF CountedSet, Increments
<1>4. TwiceSet' = TwiceSet
  BY <1>1 DEF TwiceSet, Again, PollOf, Increments
<1>5. GoneSet' = GoneSet
  BY <1>1 DEF GoneSet, Lost, Increments
<1> QED
  BY <1>2, <1>3, <1>4, <1>5 DEF Ledger!ledger

\* One increment, of which there was no trace, becomes live: Make.
LEMMA LedgerMakes ==
  ASSUME NEW w \in Votes, NEW d \in Cells,
         ~Live(w, d) /\ ~Counted(w, d) /\ ~Lost(w, d),
         \A v \in Votes, c \in Cells :
           /\ Live(v, c)' <=> Live(v, c) \/ (v = w /\ c = d)
           /\ Counted(v, c)' <=> Counted(v, c)
           /\ Again(v, c)' <=> Again(v, c)
           /\ Lost(v, c)' <=> Lost(v, c)
  PROVE  Ledger!Next
<1>1. \A i \in Increments : i[1] \in Votes /\ i[2] \in Cells /\ i = <<i[1], i[2]>>
  BY DEF Increments
<1>2. Pending' = Pending \cup {<<w, d>>}
  BY <1>1 DEF Pending, Live, Increments
<1>3. CountedSet' = CountedSet
  BY <1>1 DEF CountedSet, Increments
<1>4. TwiceSet' = TwiceSet
  BY <1>1 DEF TwiceSet, Again, PollOf, Increments
<1>5. GoneSet' = GoneSet
  BY <1>1 DEF GoneSet, Lost, Increments
<1>6. <<w, d>> \in Increments \ (Pending \cup CountedSet \cup GoneSet)
  BY DEF Pending, CountedSet, GoneSet, Live, Lost, Increments
<1> QED
  BY <1>2, <1>3, <1>4, <1>5, <1>6 DEF Ledger!Next, Ledger!Make

\* The live increments of S become counted, those that were counted before again: Count.
LEMMA LedgerCounts ==
  ASSUME NEW S \in SUBSET Increments,
         \A v \in Votes, c \in Cells :
           /\ <<v, c>> \in S => Live(v, c)
           /\ Live(v, c)' <=> Live(v, c) /\ <<v, c>> \notin S
           /\ Counted(v, c)' <=> Counted(v, c) \/ <<v, c>> \in S
           /\ Again(v, c)' <=> Again(v, c) \/ (<<v, c>> \in S /\ Counted(v, c))
           /\ Lost(v, c)' <=> Lost(v, c)
  PROVE  Ledger!Next
<1>1. \A i \in Increments : i[1] \in Votes /\ i[2] \in Cells /\ i = <<i[1], i[2]>>
  BY DEF Increments
<1>2. Pending' = Pending \ S /\ S \in SUBSET Pending
  BY <1>1 DEF Pending, Live, Increments
<1>3. CountedSet' = CountedSet \cup S
  BY <1>1 DEF CountedSet, Increments
<1>4. TwiceSet' = TwiceSet \cup (S \cap CountedSet)
  BY <1>1 DEF TwiceSet, CountedSet, Again, PollOf, Increments
<1>5. GoneSet' = GoneSet
  BY <1>1 DEF GoneSet, Lost, Increments
<1> QED
  BY <1>2, <1>3, <1>4, <1>5 DEF Ledger!Next, Ledger!Count

\* The live increments of S become lost: Lose.
LEMMA LedgerLoses ==
  ASSUME NEW S \in SUBSET Increments,
         \A v \in Votes, c \in Cells :
           /\ <<v, c>> \in S => Live(v, c)
           /\ Live(v, c)' <=> Live(v, c) /\ <<v, c>> \notin S
           /\ Counted(v, c)' <=> Counted(v, c)
           /\ Again(v, c)' <=> Again(v, c)
           /\ Lost(v, c)' <=> Lost(v, c) \/ <<v, c>> \in S
  PROVE  Ledger!Next
<1>1. \A i \in Increments : i[1] \in Votes /\ i[2] \in Cells /\ i = <<i[1], i[2]>>
  BY DEF Increments
<1>2. Pending' = Pending \ S /\ S \in SUBSET Pending
  BY <1>1 DEF Pending, Live, Increments
<1>3. CountedSet' = CountedSet
  BY <1>1 DEF CountedSet, Increments
<1>4. TwiceSet' = TwiceSet
  BY <1>1 DEF TwiceSet, Again, PollOf, Increments
<1>5. GoneSet' = GoneSet \cup S
  BY <1>1 DEF GoneSet, Lost, Increments
<1> QED
  BY <1>2, <1>3, <1>4, <1>5 DEF Ledger!Next, Ledger!Lose

\* The counted increments of S become live: Replay.
LEMMA LedgerReplays ==
  ASSUME NEW S \in SUBSET Increments,
         \A v \in Votes, c \in Cells :
           /\ <<v, c>> \in S => Counted(v, c)
           /\ Live(v, c)' <=> Live(v, c) \/ <<v, c>> \in S
           /\ Counted(v, c)' <=> Counted(v, c)
           /\ Again(v, c)' <=> Again(v, c)
           /\ Lost(v, c)' <=> Lost(v, c)
  PROVE  Ledger!Next
<1>1. \A i \in Increments : i[1] \in Votes /\ i[2] \in Cells /\ i = <<i[1], i[2]>>
  BY DEF Increments
<1>2. Pending' = Pending \cup S
  BY <1>1 DEF Pending, Live, Increments
<1>3. CountedSet' = CountedSet /\ S \in SUBSET CountedSet
  BY <1>1 DEF CountedSet, Increments
<1>4. TwiceSet' = TwiceSet
  BY <1>1 DEF TwiceSet, Again, PollOf, Increments
<1>5. GoneSet' = GoneSet
  BY <1>1 DEF GoneSet, Lost, Increments
<1> QED
  BY <1>2, <1>3, <1>4, <1>5 DEF Ledger!Next, Ledger!Replay

\* Steps that move no increment.
LEMMA QuietRefines ==
  ASSUME IInv,
         \/ \E v \in Votes : Lookup(v) \/ Register(v)
         \/ Tick \/ FinalFlush \/ (\E p \in Polls : NextPoll(p)) \/ FlushDone
         \/ Stop \/ Restart
         \/ UNCHANGED vars
  PROVE  UNCHANGED Ledger!ledger
<1> USE DEF vars, handlerVars, flushVars, netVars, redisVars, histVars
<1>1. mem' = mem /\ delta' = delta /\ late' = late /\ redis' = redis /\ twice' = twice
      /\ gone' = gone /\ req' = req /\ pipe' = pipe /\ nack' = nack
  BY DEF Lookup, Register, Tick, FinalFlush, LastFlush, StartFlush, NextPoll, FlushDone, Stop,
         Restart
<1>2. fpc' = "await" <=> fpc = "await"
  BY DEF Lookup, Register, Tick, FinalFlush, LastFlush, StartFlush, NextPoll, FlushDone, Stop,
         Restart
<1> QED
  BY <1>1, <1>2, LedgerStays DEF Live, Again, Lost, InMemory, InHand, OnTheWire, Counted, PollOf

\* An increment is made: before it, there is no trace of it.
LEMMA AddRefines ==
  ASSUME IInv, NEW v \in Votes, (\E c \in Options : AddOption(v, c)) \/ AddVoters(v)
  PROVE  Ledger!Next
<1> USE DEF vars, handlerVars, flushVars, netVars, redisVars, histVars
<1>1. PICK d \in Cells : vpc[v] = "add" /\ d \notin added[v] /\ Increment(v, d)
  BY CellsFact DEF AddOption, AddVoters, IInv, HandlerInv
<1>2. /\ delta' = delta /\ late' = late /\ redis' = redis /\ twice' = twice
      /\ gone' = gone /\ req' = req /\ pipe' = pipe /\ nack' = nack /\ fpc' = fpc
  BY DEF AddOption, AddVoters
<1>3. /\ obj[v] \in Votes
      /\ \A o \in Votes, c \in Cells :
             mem'[o][c] = IF o = obj[v] /\ c = d THEN mem[o][c] \cup {v} ELSE mem[o][c]
  BY <1>1, IncrementEffect DEF Increment, IInv
<1>4. ~Live(v, d) /\ ~Counted(v, d) /\ ~Lost(v, d)
  <2>1. ~InMemory(v, d)
    BY <1>1 DEF InMemory, IInv, Placed, MemPlaced
  <2>2. ~InHand(v, d)
    BY <1>1 DEF InHand, IInv, Placed, HandPlaced
  <2>3. ~OnTheWire(v, d)
    BY <1>1 DEF OnTheWire, IInv, Placed, WirePlaced
  <2>4. ~Counted(v, d)
    <3>1. req[v].poll \in Polls
      BY DEF IInv, TypeOK
    <3> QED
      BY <1>1, <3>1 DEF Counted, IInv, Placed, CountPlaced
  <2>5. ~Lost(v, d)
    BY <1>1 DEF Lost, IInv, Placed, GonePlaced
  <2> QED
    BY <2>1, <2>2, <2>3, <2>4, <2>5 DEF Live
<1>5. \A w \in Votes, c \in Cells : InMemory(w, c)' <=> InMemory(w, c) \/ (w = v /\ c = d)
  <2> SUFFICES ASSUME NEW w \in Votes, NEW c \in Cells
               PROVE  InMemory(w, c)' <=> InMemory(w, c) \/ (w = v /\ c = d)
    OBVIOUS
  <2>1. InMemory(w, c) \/ (w = v /\ c = d) => InMemory(w, c)'
    BY <1>3 DEF InMemory
  <2>2. ASSUME NEW o \in Votes, w \in mem'[o][c]
        PROVE  InMemory(w, c) \/ (w = v /\ c = d)
    <3>1. CASE o = obj[v] /\ c = d
      <4>1. mem'[o][c] = mem[o][c] \cup {v}
        BY <1>3, <3>1
      <4> QED
        BY <2>2, <3>1, <4>1 DEF InMemory
    <3>2. CASE ~(o = obj[v] /\ c = d)
      <4>1. mem'[o][c] = mem[o][c]
        BY <1>3, <3>2
      <4> QED
        BY <2>2, <4>1 DEF InMemory
    <3> QED
      BY <3>1, <3>2
  <2> QED
    BY <2>1, <2>2 DEF InMemory
<1>6. \A w \in Votes, c \in Cells :
        /\ InHand(w, c)' <=> InHand(w, c)
        /\ OnTheWire(w, c)' <=> OnTheWire(w, c)
        /\ Counted(w, c)' <=> Counted(w, c)
        /\ Again(w, c)' <=> Again(w, c)
        /\ Lost(w, c)' <=> Lost(w, c)
  BY <1>2 DEF InHand, OnTheWire, Counted, Again, PollOf, Lost
<1> QED
  BY <1>4, <1>5, <1>6, LedgerMakes DEF Live

\* Swap(0) takes increments from memory into the hand.
LEMMA SwapRefines ==
  ASSUME IInv, SwapOption \/ SwapVoters
  PROVE  UNCHANGED Ledger!ledger
<1> USE DEF vars, handlerVars, flushVars, netVars, redisVars, histVars
<1>1. /\ fpc = "swap" /\ Take(at) /\ fpc' # "await"
      /\ late' = late /\ redis' = redis /\ twice' = twice /\ gone' = gone /\ req' = req
  BY DEF SwapOption, SwapVoters, Take, PollDone
<1>2. /\ view[cur] \in Votes /\ at \in Cells
      /\ \A o \in Votes, c \in Cells :
             mem'[o][c] = IF o = view[cur] /\ c = at THEN {} ELSE mem[o][c]
  BY <1>1, TakeEffect DEF IInv
<1>3. delta[at] = {}
  BY <1>1, <1>2, CellsFact DEF IInv, FlusherInv
<1>4. \A c \in Cells :
        delta'[c] = IF c = at THEN mem[view[cur]][c] ELSE delta[c]
  <2>1. delta \in [Cells -> SUBSET Votes]
    BY DEF IInv, TypeOK
  <2> DEFINE d == [delta EXCEPT ![at] = mem[view[cur]][at]]
  <2>2. \A c \in Cells : d[c] = IF c = at THEN mem[view[cur]][c] ELSE delta[c]
    BY <1>2, <2>1
  <2>3. delta' = d
    BY DEF SwapOption, SwapVoters, PollDone
  <2> QED
    BY <2>2, <2>3
<1>5. \A v \in Votes, c \in Cells :
        (InMemory(v, c) \/ InHand(v, c))' <=> InMemory(v, c) \/ InHand(v, c)
  <2>1. \A v \in Votes, c \in Cells : InHand(v, c) <=> v \in delta[c]
    BY <1>1 DEF InHand
  <2>2. \A v \in Votes, c \in Cells : InHand(v, c)' <=> v \in delta'[c]
    BY <1>1 DEF InHand
  <2>3. \A v \in Votes, c \in Cells :
          InMemory(v, c) <=> InMemory(v, c)' \/ (c = at /\ v \in mem[view[cur]][c])
    BY <1>2 DEF InMemory
  <2> QED
    BY <1>3, <1>4, <2>1, <2>2, <2>3
<1>6. \A v \in Votes, c \in Cells :
        /\ OnTheWire(v, c)' <=> OnTheWire(v, c)
        /\ Counted(v, c)' <=> Counted(v, c)
        /\ Again(v, c)' <=> Again(v, c)
        /\ Lost(v, c)' <=> Lost(v, c)
  BY <1>1 DEF OnTheWire, Counted, Again, PollOf, Lost
<1> QED
  BY <1>5, <1>6, LedgerStays DEF Live

\* The hand stays as it is; what may change is whether it waits for Redis.
LEMMA HandRefines ==
  ASSUME IInv, Send \/ Refused \/ Cancelled \/ \E c \in Cells : Reject(c)
  PROVE  UNCHANGED Ledger!ledger
<1> USE DEF vars, handlerVars, flushVars, netVars, redisVars, histVars
<1>1. /\ mem' = mem /\ delta' = delta /\ late' = late /\ redis' = redis /\ twice' = twice
      /\ gone' = gone /\ req' = req
  BY DEF Send, Refused, Cancelled, Reject, GiveBack
<1>2. \A v \in Votes, c \in Cells : InHand(v, c)' <=> InHand(v, c)
  <2>1. CASE Send
    BY <1>1, <2>1 DEF Send, InHand, IInv, FlusherInv
  <2>2. CASE Refused \/ Cancelled
    BY <1>1, <2>2 DEF Refused, Cancelled, GiveBack, InHand
  <2>3. ASSUME NEW d \in Cells, Reject(d)
        PROVE  \A v \in Votes, c \in Cells : InHand(v, c)' <=> InHand(v, c)
    BY <1>1, <2>3 DEF Reject, First, InHand
  <2> QED
    BY <2>1, <2>2, <2>3
<1> QED
  BY <1>1, <1>2, LedgerStays DEF Live, InMemory, OnTheWire, Counted, Again, PollOf, Lost

\* All commands were answered well: nothing in the hand is pending any more.
LEMMA ReplyOkRefines ==
  ASSUME IInv, ReplyOk
  PROVE  UNCHANGED Ledger!ledger
<1> USE DEF vars, handlerVars, flushVars, netVars, redisVars, histVars
<1>1. /\ mem' = mem /\ late' = late /\ redis' = redis /\ twice' = twice /\ gone' = gone
      /\ req' = req /\ delta' = Empty
  BY DEF ReplyOk, Forget, PollDone
<1>2. \A v \in Votes, c \in Cells : ~InHand(v, c) /\ ~InHand(v, c)'
  BY <1>1 DEF InHand, ReplyOk, Empty
<1> QED
  BY <1>1, <1>2, LedgerStays DEF Live, InMemory, OnTheWire, Counted, Again, PollOf, Lost

\* Restore brings the hand back to memory.
LEMMA RestoreRefines ==
  ASSUME IInv, RestoreCell
  PROVE  UNCHANGED Ledger!ledger
<1> USE DEF vars, handlerVars, flushVars, netVars, redisVars, histVars
<1>1. /\ fpc = "restore" /\ fpc' # "await"
      /\ late' = late /\ redis' = redis /\ twice' = twice /\ gone' = gone /\ req' = req
  BY DEF RestoreCell, PollDone
<1>2. /\ view[cur] \in Votes /\ at \in Cells
      /\ \A o \in Votes, c \in Cells :
             mem'[o][c] = IF o = view[cur] /\ c = at THEN mem[o][c] \cup delta[at]
                                                     ELSE mem[o][c]
  BY RestoreEffect DEF IInv
<1>3. \A c \in Cells : delta'[c] = IF c = at THEN {} ELSE delta[c]
  <2>1. CASE at = RestoreEnd
    <3>1. \A c \in Cells : c # at => delta[c] = {}
      BY <1>1, <1>2, <2>1, CellsFact DEF RestoreEnd, IInv, FlusherInv
    <3>2. delta' = Empty
      BY <2>1 DEF RestoreCell, PollDone
    <3> QED
      BY <3>1, <3>2 DEF Empty
  <2>2. CASE at # RestoreEnd
    BY <1>2, <2>2 DEF RestoreCell, IInv, TypeOK
  <2> QED
    BY <2>1, <2>2
<1>4. \A v \in Votes, c \in Cells :
        (InMemory(v, c) \/ InHand(v, c))' <=> InMemory(v, c) \/ InHand(v, c)
  <2>1. \A v \in Votes, c \in Cells : InHand(v, c) <=> v \in delta[c]
    BY <1>1 DEF InHand
  <2>2. \A v \in Votes, c \in Cells : InHand(v, c)' <=> v \in delta'[c]
    BY <1>1 DEF InHand
  <2>3. \A v \in Votes, c \in Cells :
          InMemory(v, c)' <=> InMemory(v, c) \/ (c = at /\ v \in delta[c])
    BY <1>2 DEF InMemory
  <2> QED
    BY <1>3, <2>1, <2>2, <2>3
<1>5. \A v \in Votes, c \in Cells :
        /\ OnTheWire(v, c)' <=> OnTheWire(v, c)
        /\ Counted(v, c)' <=> Counted(v, c)
        /\ Again(v, c)' <=> Again(v, c)
        /\ Lost(v, c)' <=> Lost(v, c)
  BY <1>1 DEF OnTheWire, Counted, Again, PollOf, Lost
<1> QED
  BY <1>4, <1>5, LedgerStays DEF Live

\* What the hand holds, as increments.
InDelta == {i \in Increments : i[1] \in delta[i[2]]}

\* The dial times out: what is in the hand is given up.
LEMMA DialTimeoutRefines ==
  ASSUME IInv, DialTimeout
  PROVE  Ledger!Next
<1> USE DEF vars, handlerVars, flushVars, netVars, redisVars, histVars
<1>1. /\ mem' = mem /\ late' = late /\ redis' = redis /\ twice' = twice /\ req' = req
      /\ delta' = Empty /\ fpc = "push" /\ fpc' = "next"
      /\ gone' = [c \in Cells |-> gone[c] \cup delta[c]]
  BY DEF DialTimeout, Forget, PollDone
<1>2. \A v \in Votes, c \in Cells : <<v, c>> \in InDelta <=> v \in delta[c]
  BY DEF InDelta, Increments
<1>3. \A v \in Votes, c \in Cells :
        /\ InHand(v, c) <=> v \in delta[c]
        /\ ~InHand(v, c)'
        /\ v \in delta[c] => ~InMemory(v, c) /\ ~OnTheWire(v, c)
  BY <1>1 DEF InHand, Empty, IInv, OnePlace
<1>4. \A v \in Votes, c \in Cells :
        /\ InMemory(v, c)' <=> InMemory(v, c)
        /\ OnTheWire(v, c)' <=> OnTheWire(v, c)
        /\ Counted(v, c)' <=> Counted(v, c)
        /\ Again(v, c)' <=> Again(v, c)
        /\ Lost(v, c)' <=> Lost(v, c) \/ v \in delta[c]
  BY <1>1 DEF InMemory, OnTheWire, Counted, Again, PollOf, Lost
<1>5. InDelta \in SUBSET Increments
  BY DEF InDelta
<1> QED
  BY <1>2, <1>3, <1>4, <1>5, LedgerLoses DEF Live

\* What an abandoned pipeline adds to the wire.
LEMMA AbandonPutsOnWire ==
  ASSUME IInv, AbandonPipe
  PROVE  \A v \in Votes, c \in Cells :
           OnTheWire(v, c)' <=> OnTheWire(v, c) \/ (c \in pipe /\ v \in delta[c])
<1>1. /\ late \subseteq late'
      /\ \A l \in late' \ late, c \in Cells : l.todo[c] = IF c \in pipe THEN delta[c] ELSE {}
      /\ pipe # {} => Abandoned \in late'
      /\ \A c \in Cells : Abandoned.todo[c] = IF c \in pipe THEN delta[c] ELSE {}
  BY AbandonEffect DEF IInv
<1> SUFFICES ASSUME NEW v \in Votes, NEW c \in Cells
             PROVE  OnTheWire(v, c)' <=> OnTheWire(v, c) \/ (c \in pipe /\ v \in delta[c])
  OBVIOUS
<1>2. OnTheWire(v, c) => OnTheWire(v, c)'
  BY <1>1 DEF OnTheWire
<1>3. c \in pipe /\ v \in delta[c] => OnTheWire(v, c)'
  BY <1>1 DEF OnTheWire
<1>4. OnTheWire(v, c)' => OnTheWire(v, c) \/ (c \in pipe /\ v \in delta[c])
  BY <1>1 DEF OnTheWire
<1> QED
  BY <1>2, <1>3, <1>4

\* No answer: what was rejected is given up, what was not answered is on the wire.
LEMMA NoReplyRefines ==
  ASSUME IInv, NoReply
  PROVE  Ledger!Next
<1> USE DEF vars, handlerVars, flushVars, netVars, redisVars, histVars
<1>1. /\ mem' = mem /\ redis' = redis /\ twice' = twice /\ req' = req
      /\ delta' = Empty /\ fpc = "await" /\ fpc' = "next" /\ AbandonPipe
      /\ gone' = [c \in Cells |-> IF c \in nack THEN gone[c] \cup delta[c] ELSE gone[c]]
  BY DEF NoReply, Forget, PollDone
<1> DEFINE S == {i \in InDelta : i[2] \in nack}
<1>2. \A v \in Votes, c \in Cells : <<v, c>> \in S <=> v \in delta[c] /\ c \in nack
  BY DEF InDelta, Increments
<1>3. \A v \in Votes, c \in Cells :
        /\ InHand(v, c) <=> v \in delta[c] /\ (c \in pipe \/ c \in nack)
        /\ ~(c \in pipe /\ c \in nack)
        /\ ~InHand(v, c)'
        /\ v \in delta[c] => ~InMemory(v, c) /\ ~OnTheWire(v, c)
  BY <1>1 DEF InHand, Empty, IInv, OnePlace, FlusherInv
<1>4. \A v \in Votes, c \in Cells :
        /\ InMemory(v, c)' <=> InMemory(v, c)
        /\ Counted(v, c)' <=> Counted(v, c)
        /\ Again(v, c)' <=> Again(v, c)
        /\ Lost(v, c)' <=> Lost(v, c) \/ (v \in delta[c] /\ c \in nack)
  BY <1>1 DEF InMemory, Counted, Again, PollOf, Lost
<1>5. S \in SUBSET Increments
  BY DEF InDelta
<1> HIDE DEF S
<1> QED
  BY <1>1, <1>2, <1>3, <1>4, <1>5, AbandonPutsOnWire, LedgerLoses DEF Live

\* An error that classify returns as it is: what Redis has executed is pending again.
LEMMA GiveBackRefines ==
  ASSUME IInv, ReplyError \/ ServerClose
  PROVE  Ledger!Next
<1> USE DEF vars, handlerVars, flushVars, netVars, redisVars, histVars
<1>1. /\ mem' = mem /\ delta' = delta /\ late' = late /\ redis' = redis /\ twice' = twice
      /\ gone' = gone /\ req' = req /\ fpc = "await" /\ fpc' = "restore"
  BY DEF ReplyError, ServerClose, GiveBack
<1> DEFINE S == {i \in InDelta : i[2] \notin pipe \cup nack}
<1>2. \A v \in Votes, c \in Cells : <<v, c>> \in S <=> v \in delta[c] /\ c \notin pipe \cup nack
  BY DEF InDelta, Increments
<1>3. \A v \in Votes, c \in Cells :
        /\ InHand(v, c) <=> v \in delta[c] /\ c \in pipe \cup nack
        /\ InHand(v, c)' <=> v \in delta[c]
        /\ v \in delta[c] /\ c \notin pipe \cup nack => Counted(v, c)
  BY <1>1 DEF InHand, IInv, CountedOrReplayed
<1>4. \A v \in Votes, c \in Cells :
        /\ InMemory(v, c)' <=> InMemory(v, c)
        /\ OnTheWire(v, c)' <=> OnTheWire(v, c)
        /\ Counted(v, c)' <=> Counted(v, c)
        /\ Again(v, c)' <=> Again(v, c)
        /\ Lost(v, c)' <=> Lost(v, c)
  BY <1>1 DEF InMemory, OnTheWire, Counted, Again, PollOf, Lost
<1>5. S \in SUBSET Increments
  BY DEF InDelta
<1> HIDE DEF S
<1> QED
  BY <1>2, <1>3, <1>4, <1>5, LedgerReplays DEF Live

\* Redis executes a command of the pipeline in flight.
LEMMA ExecRefines ==
  ASSUME IInv, NEW d \in Cells, Exec(d)
  PROVE  Ledger!Next
<1> USE DEF vars, handlerVars, flushVars, netVars, redisVars, histVars
<1>1. /\ mem' = mem /\ delta' = delta /\ late' = late /\ gone' = gone /\ req' = req
      /\ nack' = nack /\ fpc = "await" /\ fpc' = fpc /\ d \in pipe /\ pipe' = pipe \ {d}
  BY DEF Exec, First
<1>2. /\ redis' \in [Polls -> [Cells -> SUBSET Votes]]
      /\ twice' \in [Polls -> [Cells -> SUBSET Votes]]
      /\ \A q \in Polls, c \in Cells :
            redis'[q][c] = IF q = cur /\ c = d THEN redis[q][c] \cup delta[d] ELSE redis[q][c]
      /\ \A q \in Polls, c \in Cells :
            twice'[q][c] = IF q = cur /\ c = d
                           THEN twice[q][c] \cup (redis[q][c] \cap delta[d]) ELSE twice[q][c]
  <2>1. cur \in Polls /\ delta[d] \in SUBSET Votes
    BY DEF IInv, TypeOK
  <2>2. Count(cur, d, delta[d])
    BY DEF Exec, Field
  <2>3. TypeOK
    BY DEF IInv
  <2>4. CountOutcome(cur, d, delta[d])
    BY <2>1, <2>2, <2>3, CountEffect
  <2> QED
    BY <2>4 DEF CountOutcome
<1> DEFINE S == {i \in InDelta : i[2] = d}
<1>3. \A v \in Votes, c \in Cells : <<v, c>> \in S <=> v \in delta[c] /\ c = d
  BY DEF InDelta, Increments
<1>4. \A v \in Votes, c \in Cells :
        /\ InHand(v, c) <=> v \in delta[c] /\ c \in pipe \cup nack
        /\ InHand(v, c)' <=> v \in delta[c] /\ c \in (pipe \ {d}) \cup nack
        /\ d \notin nack
        /\ v \in delta[c] => ~InMemory(v, c) /\ ~OnTheWire(v, c)
  BY <1>1 DEF InHand, IInv, OnePlace, FlusherInv
<1>5. \A v \in Votes : PollOf(v) \in Polls /\ (v \in delta[d] => PollOf(v) = cur)
  BY DEF IInv, TypeOK, Placed, HandPlaced, PollOf
<1>6. \A v \in Votes, c \in Cells :
        /\ Counted(v, c)' <=> Counted(v, c) \/ (v \in delta[c] /\ c = d)
        /\ Again(v, c)' <=> Again(v, c) \/ (v \in delta[c] /\ c = d /\ Counted(v, c))
  BY <1>1, <1>2, <1>5 DEF Counted, Again, PollOf
<1>7. \A v \in Votes, c \in Cells :
        /\ InMemory(v, c)' <=> InMemory(v, c)
        /\ OnTheWire(v, c)' <=> OnTheWire(v, c)
        /\ Lost(v, c)' <=> Lost(v, c)
  BY <1>1 DEF InMemory, OnTheWire, Lost
<1>8. S \in SUBSET Increments
  BY DEF InDelta
<1> HIDE DEF S
<1> QED
  BY <1>1, <1>3, <1>4, <1>6, <1>7, <1>8, LedgerCounts DEF Live

\* What an abandoned pipeline still carries, as increments.
Carried(l) == {i \in Increments : i[1] \in l.todo[i[2]]}

\* The head of an abandoned pipeline leaves the wire, and nothing else does.
LEMMA LateStepTakesHead ==
  ASSUME IInv, NEW l \in late, NEW d \in Cells, LateStep(l, d)
  PROVE  /\ \A v \in Votes, c \in Cells :
               /\ OnTheWire(v, c)' <=> OnTheWire(v, c) /\ ~(c = d /\ v \in l.todo[d])
               /\ v \in l.todo[c] => OnTheWire(v, c) /\ ~InMemory(v, c) /\ v \notin delta[c]
         /\ l.poll \in Polls /\ l.todo[d] \in SUBSET Votes
<1>1. /\ late' \subseteq (late \ {l}) \cup {Rest(l, d)}
      /\ late \ {l} \subseteq late'
      /\ (\E c \in Cells : Rest(l, d).todo[c] # {}) => Rest(l, d) \in late'
      /\ \A c \in Cells : Rest(l, d).todo[c] = IF c = d THEN {} ELSE l.todo[c]
      /\ l.poll \in Polls /\ l.todo[d] \in SUBSET Votes
  <2>1. late' = (late \ {l}) \cup (IF Todo(l) = {d} THEN {} ELSE {Rest(l, d)})
    BY DEF LateStep, Rest
  <2>2. TypeOK
    BY DEF IInv
  <2> QED
    BY ONLY <2>1, <2>2, l \in late, d \in Cells, LateEffect
<1>2. OnePlace
  BY DEF IInv
<1> SUFFICES ASSUME NEW v \in Votes, NEW c \in Cells
             PROVE  /\ OnTheWire(v, c)' <=> OnTheWire(v, c) /\ ~(c = d /\ v \in l.todo[d])
                    /\ v \in l.todo[c] =>
                           OnTheWire(v, c) /\ ~InMemory(v, c) /\ v \notin delta[c]
  BY <1>1
<1>3. v \in l.todo[c] => OnTheWire(v, c) /\ ~InMemory(v, c) /\ v \notin delta[c]
  BY <1>2 DEF OnePlace, OnTheWire
<1>4. OnTheWire(v, c)' => OnTheWire(v, c) /\ ~(c = d /\ v \in l.todo[d])
  <2>1. ASSUME NEW m \in late', v \in m.todo[c]
        PROVE  OnTheWire(v, c) /\ ~(c = d /\ v \in l.todo[d])
    <3>1. CASE m = Rest(l, d)
      BY <1>1, <2>1, <3>1 DEF OnTheWire
    <3>2. CASE m # Rest(l, d)
      <4>1. m \in late /\ m # l
        BY <1>1, <3>2
      <4> QED
        BY <1>2, <2>1, <4>1 DEF OnePlace, OnTheWire
    <3> QED
      BY <3>1, <3>2
  <2> QED
    BY <2>1 DEF OnTheWire
<1>5. OnTheWire(v, c) /\ ~(c = d /\ v \in l.todo[d]) => OnTheWire(v, c)'
  <2>1. ASSUME NEW m \in late, v \in m.todo[c], ~(c = d /\ v \in l.todo[d])
        PROVE  OnTheWire(v, c)'
    <3>1. CASE m = l
      BY <1>1, <2>1, <3>1 DEF OnTheWire
    <3>2. CASE m # l
      BY <1>1, <2>1, <3>2 DEF OnTheWire
    <3> QED
      BY <3>1, <3>2
  <2> QED
    BY <2>1 DEF OnTheWire
<1> QED
  BY <1>3, <1>4, <1>5

\* Redis executes, rejects or never sees a command that its client no longer waits for.
LEMMA LateRefines ==
  ASSUME IInv, Late
  PROVE  Ledger!Next
<1> USE DEF vars, handlerVars, flushVars, netVars, redisVars, histVars
<1>1. PICK l \in late, d \in Cells : LateExec(l, d) \/ LateLost(l, d)
  BY DEF Late
<1>2. LateStep(l, d)
  BY <1>1 DEF LateExec, LateLost
<1>3. /\ mem' = mem /\ delta' = delta /\ req' = req /\ pipe' = pipe /\ nack' = nack /\ fpc' = fpc
  BY <1>2 DEF LateStep
<1>4. /\ \A v \in Votes, c \in Cells :
            /\ OnTheWire(v, c)' <=> OnTheWire(v, c) /\ ~(c = d /\ v \in l.todo[d])
            /\ v \in l.todo[c] => OnTheWire(v, c) /\ ~InMemory(v, c) /\ v \notin delta[c]
      /\ l.poll \in Polls /\ l.todo[d] \in SUBSET Votes
  BY <1>2, LateStepTakesHead
<1> DEFINE S == {i \in Carried(l) : i[2] = d}
<1>5. \A v \in Votes, c \in Cells : <<v, c>> \in S <=> v \in l.todo[d] /\ c = d
  BY DEF Carried, Increments
<1>6. S \in SUBSET Increments
  BY DEF Carried
<1>7. \A v \in Votes, c \in Cells :
        /\ <<v, c>> \in S => Live(v, c)
        /\ Live(v, c)' <=> Live(v, c) /\ <<v, c>> \notin S
  <2>1. \A v \in Votes, c \in Cells :
          /\ InMemory(v, c)' <=> InMemory(v, c)
          /\ InHand(v, c)' <=> InHand(v, c)
          /\ InHand(v, c) => v \in delta[c]
    BY <1>3 DEF InMemory, InHand
  <2> QED
    BY <1>4, <1>5, <2>1 DEF Live
<1>8. CASE LateExec(l, d)
  <2>1. /\ \A q \in Polls, c \in Cells :
              redis'[q][c] = IF q = l.poll /\ c = d THEN redis[q][c] \cup l.todo[d]
                                                    ELSE redis[q][c]
        /\ \A q \in Polls, c \in Cells :
              twice'[q][c] = IF q = l.poll /\ c = d
                             THEN twice[q][c] \cup (redis[q][c] \cap l.todo[d]) ELSE twice[q][c]
    <3>1. TypeOK
      BY DEF IInv
    <3>2. Count(l.poll, d, l.todo[d])
      BY <1>8 DEF LateExec
    <3>3. CountOutcome(l.poll, d, l.todo[d])
      BY <1>4, <3>1, <3>2, CountEffect
    <3> QED
      BY <3>3 DEF CountOutcome
  <2>2. \A v \in Votes : PollOf(v) \in Polls /\ (v \in l.todo[d] => PollOf(v) = l.poll)
    BY DEF IInv, TypeOK, Placed, WirePlaced, PollOf
  <2>3. \A v \in Votes, c \in Cells :
          /\ Counted(v, c)' <=> Counted(v, c) \/ <<v, c>> \in S
          /\ Again(v, c)' <=> Again(v, c) \/ (<<v, c>> \in S /\ Counted(v, c))
    <3> SUFFICES ASSUME NEW v \in Votes, NEW c \in Cells
                 PROVE  /\ Counted(v, c)' <=> Counted(v, c) \/ <<v, c>> \in S
                        /\ Again(v, c)' <=>
                               Again(v, c) \/ (<<v, c>> \in S /\ Counted(v, c))
      OBVIOUS
    <3> DEFINE q == req[v].poll
    <3>1. q \in Polls /\ (v \in l.todo[d] => q = l.poll)
      BY <2>2 DEF PollOf
    <3>2. <<v, c>> \in S <=> v \in l.todo[d] /\ c = d
      BY <1>5
    <3>3. /\ Counted(v, c) <=> v \in redis[q][c]
          /\ Counted(v, c)' <=> v \in redis'[q][c]
          /\ Again(v, c) <=> v \in twice[q][c]
          /\ Again(v, c)' <=> v \in twice'[q][c]
      BY <1>3 DEF Counted, Again, PollOf
    <3> HIDE DEF q, S
    <3> QED
      BY <2>1, <3>1, <3>2, <3>3
  <2>4. \A v \in Votes, c \in Cells : Lost(v, c)' <=> Lost(v, c)
    BY <1>8 DEF LateExec, Lost
  <2> HIDE DEF S
  <2> QED
    BY <1>6, <1>7, <2>3, <2>4, LedgerCounts
<1>9. CASE LateLost(l, d)
  <2>1. \A v \in Votes, c \in Cells : Lost(v, c)' <=> Lost(v, c) \/ <<v, c>> \in S
    <3>1. gone' = [gone EXCEPT ![d] = gone[d] \cup l.todo[d]]
      BY <1>9 DEF LateLost, IInv, TypeOK
    <3>2. \A c \in Cells : gone'[c] = IF c = d THEN gone[c] \cup l.todo[d] ELSE gone[c]
      BY <3>1 DEF IInv, TypeOK
    <3> QED
      BY <1>5, <3>2 DEF Lost
  <2>2. \A v \in Votes, c \in Cells :
          /\ Counted(v, c)' <=> Counted(v, c)
          /\ Again(v, c)' <=> Again(v, c)
    BY <1>3, <1>9 DEF LateLost, Counted, Again, PollOf
  <2> HIDE DEF S
  <2> QED
    BY <1>6, <1>7, <2>1, <2>2, LedgerLoses
<1> QED
  BY <1>1, <1>8, <1>9

\* The process dies: what only its memory held is given up, what Redis has not answered is
\* on the wire.
LEMMA DownRefines ==
  ASSUME IInv, Down
  PROVE  Ledger!Next
<1> USE DEF vars, handlerVars, flushVars, netVars, redisVars, histVars
<1>1. /\ redis' = redis /\ twice' = twice /\ req' = req /\ AbandonPipe /\ fpc' = "idle"
      /\ mem' = [o \in Votes |-> Empty] /\ delta' = Empty
      /\ gone' = [c \in Cells |-> gone[c] \cup InCounters(c)
                     \cup (IF fpc = "await" /\ c \notin nack THEN {} ELSE delta[c])]
  BY DEF Down
<1> DEFINE Dies(v, c) == InMemory(v, c) \/ (v \in delta[c] /\ ~(fpc = "await" /\ c \notin nack))
           S == {i \in Increments : Dies(i[1], i[2])}
<1>2. \A v \in Votes, c \in Cells : <<v, c>> \in S <=> Dies(v, c)
  BY DEF Increments
<1>3. \A v \in Votes, c \in Cells :
        /\ InHand(v, c) <=> v \in delta[c] /\ (fpc = "await" => c \in pipe \/ c \in nack)
        /\ c \in pipe => c \notin nack /\ fpc = "await"
        /\ ~InHand(v, c)' /\ ~InMemory(v, c)'
        /\ v \in delta[c] => ~InMemory(v, c) /\ ~OnTheWire(v, c)
        /\ InMemory(v, c) => ~OnTheWire(v, c)
  BY <1>1 DEF InHand, InMemory, Empty, IInv, OnePlace, FlusherInv
<1>4. \A v \in Votes, c \in Cells :
        /\ Counted(v, c)' <=> Counted(v, c)
        /\ Again(v, c)' <=> Again(v, c)
  BY <1>1 DEF Counted, Again, PollOf
<1>5. \A v \in Votes, c \in Cells : Lost(v, c)' <=> Lost(v, c) \/ Dies(v, c)
  <2>1. \A v \in Votes, c \in Cells : v \in InCounters(c) <=> InMemory(v, c)
    BY DEF InCounters, InMemory
  <2> QED
    BY <1>1, <2>1 DEF Lost
<1>6. \A v \in Votes, c \in Cells :
        OnTheWire(v, c)' <=> OnTheWire(v, c) \/ (c \in pipe /\ v \in delta[c])
  BY <1>1, AbandonPutsOnWire
<1>7. \A v \in Votes, c \in Cells :
        /\ Dies(v, c) => Live(v, c)
        /\ Live(v, c)' <=> Live(v, c) /\ ~Dies(v, c)
  BY <1>3, <1>6 DEF Live
<1>8. S \in SUBSET Increments
  OBVIOUS
<1> HIDE DEF S, Dies
<1> QED
  BY <1>2, <1>4, <1>5, <1>7, <1>8, LedgerLoses

\* The write path implements the ledger: every increment is made once, is pending until it is
\* counted or lost, does not come back, and is counted again only after a replay.
THEOREM LedgerIsImplemented == Spec => ImplementsLedger
<1>1. Init => Ledger!Init
  <2> SUFFICES ASSUME Init PROVE Ledger!Init
    OBVIOUS
  <2>1. \A v \in Votes : req[v].poll \in Polls
    BY DEF Init
  <2>2. \A v \in Votes, c \in Cells :
          /\ ~InMemory(v, c) /\ ~InHand(v, c) /\ ~OnTheWire(v, c)
          /\ ~Counted(v, c) /\ v \notin twice[req[v].poll][c] /\ v \notin gone[c]
    BY <2>1 DEF Init, Empty, InMemory, InHand, OnTheWire, Counted
  <2>3. \A i \in Increments : i[1] \in Votes /\ i[2] \in Cells
    BY DEF Increments
  <2> QED
    BY <2>2, <2>3 DEF Ledger!Init, Pending, CountedSet, TwiceSet, GoneSet
<1>2. IInv /\ [Next]_vars => [Ledger!Next]_Ledger!ledger
  <2> SUFFICES ASSUME IInv, [Next]_vars PROVE [Ledger!Next]_Ledger!ledger
    OBVIOUS
  <2>1. ASSUME NEW v \in Votes, Handler(v)
        PROVE  [Ledger!Next]_Ledger!ledger
    BY <2>1, QuietRefines, AddRefines DEF Handler
  <2>2. ASSUME Flusher
        PROVE  [Ledger!Next]_Ledger!ledger
    BY <2>2, QuietRefines, SwapRefines, HandRefines, DialTimeoutRefines, ReplyOkRefines,
       NoReplyRefines, GiveBackRefines, RestoreRefines DEF Flusher
  <2>3. ASSUME Redis
        PROVE  [Ledger!Next]_Ledger!ledger
    BY <2>3, ExecRefines, HandRefines, LateRefines DEF Redis
  <2>4. ASSUME Kill \/ Exit
        PROVE  [Ledger!Next]_Ledger!ledger
    BY <2>4, DownRefines DEF Kill, Exit
  <2> QED
    BY <2>1, <2>2, <2>3, <2>4, QuietRefines DEF Next
<1> QED
  BY <1>1, <1>2, Invariance, PTL DEF Spec, ImplementsLedger, Ledger!Spec
=============================================================================
