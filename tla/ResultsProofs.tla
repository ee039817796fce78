--------------------------- MODULE ResultsProofs ---------------------------
(***************************************************************************)
(* What is proved of Results, for any number of instances, shards and       *)
(* options, faults and resets: the types, that no stored count goes back,    *)
(* that no count is invented, that no shown count goes back, and that a      *)
(* planned stop stores.                                                     *)
(*                                                                         *)
(* The reader adds up shards while they change, so the invariants speak of  *)
(* Ahead: what the read at work will have added up if nothing more is       *)
(* counted.  No shard is left to it that was counted twice, so Ahead is at  *)
(* most the total (Clean); and what it missed came after the snapshot       *)
(* before, so Ahead is at least that snapshot (Growing).                    *)
(***************************************************************************)
EXTENDS Results, Sums, TLAPS

Tally == [Cells -> Nat]
Counters == [Shards -> Tally]
Progress == [next : 0..(NumShards + 1), sum : Tally]

\* The votes in the counters r of all shards, and in those from shard n on.
TotalOf(r, c) == SumFunction([s \in Shards |-> r[s][c]])
LeftOf(r, c, n) == SumFunction([s \in Shards |-> IF s < n THEN 0 ELSE r[s][c]])

\* q is r after an increment of cell c in shard s.
Incremented(q, r, s, c) == q = [r EXCEPT ![s][c] = @ + 1]

\* What the read t will have added up at its end, if nothing is counted any more.
Ahead(r, t, c) == IF t.next = 0 THEN TotalOf(r, c) ELSE t.sum[c] + LeftOf(r, c, t.next)

LEMMA Limits0 == NumShards \in Nat \ {0} /\ IsFiniteSet(Shards) /\ Shards \subseteq Nat
BY BoundsAssumption, FS_Interval DEF Shards

LEMMA SumOverShards ==
  ASSUME NEW f, f = [s \in Shards |-> f[s]]
  PROVE  SumFunction(f) = SumFunctionOnSet(f, Shards)
<1>1. DOMAIN f = Shards
  OBVIOUS
<1> QED
  BY <1>1 DEF SumFunction

\* What is left to read is nothing after the last shard, and all before the first.
LEMMA LeftIsNat ==
  ASSUME NEW r \in Counters, NEW c \in Cells, NEW n \in Nat
  PROVE  TotalOf(r, c) \in Nat /\ LeftOf(r, c, n) \in Nat
<1> DEFINE f == [s \in Shards |-> r[s][c]]
           g == [s \in Shards |-> IF s < n THEN 0 ELSE r[s][c]]
<1>1. \A s \in Shards : f[s] \in Nat /\ g[s] \in Nat
  BY DEF Counters, Tally
<1>2. SumFunctionOnSet(f, Shards) \in Nat /\ SumFunctionOnSet(g, Shards) \in Nat
  <2> HIDE DEF f, g
  <2> QED BY <1>1, Limits0, SumIsNat
<1> QED
  BY <1>2, SumOverShards DEF TotalOf, LeftOf

LEMMA LeftToRead ==
  ASSUME NEW r \in Counters, NEW c \in Cells
  PROVE  /\ LeftOf(r, c, 1) = TotalOf(r, c)
         /\ LeftOf(r, c, NumShards + 1) = 0
         /\ \A n \in Shards : LeftOf(r, c, n) = r[n][c] + LeftOf(r, c, n + 1)
<1>1. [s \in Shards |-> IF s < 1 THEN 0 ELSE r[s][c]] = [s \in Shards |-> r[s][c]]
  BY DEF Shards
<1>2. LeftOf(r, c, NumShards + 1) = 0
  <2> DEFINE f == [s \in Shards |-> IF s < NumShards + 1 THEN 0 ELSE r[s][c]]
  <2>1. \A s \in Shards : f[s] = 0
    BY Limits0 DEF Shards
  <2>2. SumFunctionOnSet(f, Shards) = 0
    <3> HIDE DEF f
    <3> QED BY <2>1, Limits0, SumOfZeros
  <2> QED
    BY <2>2, SumOverShards DEF LeftOf
<1>3. ASSUME NEW n \in Shards
      PROVE  LeftOf(r, c, n) = r[n][c] + LeftOf(r, c, n + 1)
  <2> DEFINE f == [s \in Shards |-> IF s < n + 1 THEN 0 ELSE r[s][c]]
             h == [s \in Shards |-> IF s < n THEN 0 ELSE r[s][c]]
  <2>1. \A s \in Shards : f[s] \in Nat /\ h[s] \in Nat
    BY DEF Counters, Tally
  <2>2. \A s \in Shards \ {n} : f[s] = h[s]
    BY Limits0
  <2>3. f[n] = 0 /\ h[n] = r[n][c]
    BY Limits0
  <2>4. SumFunctionOnSet(h, Shards) = SumFunctionOnSet(f, Shards) - f[n] + h[n]
    <3> HIDE DEF f, h
    <3>1. AgreeBut(f, h, Shards, n)
      BY <2>1, <2>2 DEF AgreeBut
    <3> QED
      BY <3>1, Limits0, SumChangesByOne
  <2>5. LeftOf(r, c, n) = LeftOf(r, c, n + 1) - 0 + r[n][c]
    BY <2>3, <2>4, SumOverShards DEF LeftOf
  <2>6. LeftOf(r, c, n + 1) \in Nat /\ r[n][c] \in Nat
    BY LeftIsNat, Limits0 DEF Counters, Tally
  <2> QED
    BY <2>5, <2>6
<1> QED
  BY <1>1, <1>2, <1>3 DEF LeftOf, TotalOf

\* An increment of one shard adds one to the total, and to what is left if it comes in time.
LEMMA LeftWhenCounted ==
  ASSUME NEW r \in Counters, NEW s \in Shards, NEW c \in Cells, NEW d \in Cells, NEW n \in Nat,
         NEW q, Incremented(q, r, s, c)
  PROVE  /\ q \in Counters
         /\ TotalOf(q, d) = TotalOf(r, d) + (IF d = c THEN 1 ELSE 0)
         /\ LeftOf(q, d, n) = LeftOf(r, d, n) + (IF d = c /\ ~(s < n) THEN 1 ELSE 0)
<1>1. q \in Counters
  BY DEF Incremented, Counters, Tally
<1>2. \A x \in Shards : q[x][d] = r[x][d] + (IF x = s /\ d = c THEN 1 ELSE 0)
  BY DEF Incremented, Counters, Tally
<1>3. TotalOf(q, d) = TotalOf(r, d) + (IF d = c THEN 1 ELSE 0)
  <2> DEFINE f == [x \in Shards |-> r[x][d]]
             h == [x \in Shards |-> q[x][d]]
  <2>1. \A x \in Shards : f[x] \in Nat /\ h[x] \in Nat
    BY <1>1 DEF Counters, Tally
  <2>2. \A x \in Shards \ {s} : f[x] = h[x]
    BY <1>2, <2>1
  <2>3. h[s] = f[s] + (IF d = c THEN 1 ELSE 0)
    BY <1>2
  <2>4. SumFunctionOnSet(h, Shards) = SumFunctionOnSet(f, Shards) - f[s] + h[s]
    <3> HIDE DEF f, h
    <3>1. AgreeBut(f, h, Shards, s)
      BY <2>1, <2>2 DEF AgreeBut
    <3> QED
      BY <3>1, Limits0, SumChangesByOne
  <2>5. TotalOf(q, d) = TotalOf(r, d) - f[s] + h[s]
    BY <2>4, SumOverShards DEF TotalOf
  <2>6. TotalOf(r, d) \in Nat /\ f[s] \in Nat
    BY <2>1, LeftIsNat
  <2> HIDE DEF f, h
  <2> QED
    BY <2>3, <2>5, <2>6
<1>4. LeftOf(q, d, n) = LeftOf(r, d, n) + (IF d = c /\ ~(s < n) THEN 1 ELSE 0)
  <2> DEFINE f == [x \in Shards |-> IF x < n THEN 0 ELSE r[x][d]]
             h == [x \in Shards |-> IF x < n THEN 0 ELSE q[x][d]]
  <2>1. \A x \in Shards : f[x] \in Nat /\ h[x] \in Nat
    BY <1>1 DEF Counters, Tally
  <2>2. \A x \in Shards \ {s} : f[x] = h[x]
    BY <1>2, <1>1 DEF Counters, Tally
  <2>3. h[s] = f[s] + (IF d = c /\ ~(s < n) THEN 1 ELSE 0)
    BY <1>2
  <2>4. SumFunctionOnSet(h, Shards) = SumFunctionOnSet(f, Shards) - f[s] + h[s]
    <3> HIDE DEF f, h
    <3>1. AgreeBut(f, h, Shards, s)
      BY <2>1, <2>2 DEF AgreeBut
    <3> QED
      BY <3>1, Limits0, SumChangesByOne
  <2>5. LeftOf(q, d, n) = LeftOf(r, d, n) - f[s] + h[s]
    BY <2>4, SumOverShards DEF LeftOf
  <2>6. LeftOf(r, d, n) \in Nat /\ f[s] \in Nat
    BY <2>1, LeftIsNat
  <2> HIDE DEF f, h
  <2> QED
    BY <2>3, <2>5, <2>6
<1> QED
  BY <1>1, <1>3, <1>4

\* When the counters are cleared, all totals are zero.
LEMMA TotalOfNothing ==
  ASSUME NEW c \in Cells
  PROVE  TotalOf([s \in Shards |-> Zero], c) = 0
<1> DEFINE f == [s \in Shards |-> [t \in Shards |-> Zero][s][c]]
<1>1. \A s \in Shards : f[s] = 0
  BY DEF Zero
<1>2. SumFunctionOnSet(f, Shards) = 0
  <2> HIDE DEF f
  <2> QED BY <1>1, Limits0, SumOfZeros
<1> QED
  BY <1>2, SumOverShards DEF TotalOf

\* Begin, read the next shard, end, begin anew: what the read will have added up stays the same.
LEMMA AheadOfRead ==
  ASSUME NEW r \in Counters, NEW t \in Progress, NEW c \in Cells
  PROVE  /\ Ahead(r, t, c) \in Nat
         /\ Ahead(r, NoRead, c) = TotalOf(r, c)
         /\ t.next = 0 /\ t.sum = Zero => Ahead(r, [t EXCEPT !.next = 1], c) = Ahead(r, t, c)
         /\ t.next \in Shards =>
              Ahead(r, [next |-> t.next + 1,
                        sum |-> [d \in Cells |-> t.sum[d] + r[t.next][d]]], c) = Ahead(r, t, c)
         /\ t.next = NumShards + 1 => Ahead(r, t, c) = t.sum[c]
<1>1. t.next \in Nat /\ t.sum[c] \in Nat /\ TotalOf(r, c) \in Nat /\ LeftOf(r, c, t.next) \in Nat
  <2>1. t.next \in Nat /\ t.sum[c] \in Nat
    BY Limits0 DEF Progress, Tally
  <2> QED BY <2>1, LeftIsNat
<1>2. Ahead(r, t, c) \in Nat
  BY <1>1 DEF Ahead
<1>3. Ahead(r, NoRead, c) = TotalOf(r, c)
  BY DEF Ahead, NoRead
<1>4. ASSUME t.next = 0, t.sum = Zero
      PROVE  Ahead(r, [t EXCEPT !.next = 1], c) = Ahead(r, t, c)
  <2>1. [t EXCEPT !.next = 1].next = 1 /\ [t EXCEPT !.next = 1].sum[c] = 0
    BY <1>4 DEF Progress, Zero
  <2> QED
    BY <1>1, <1>4, <2>1, LeftToRead DEF Ahead
<1>5. ASSUME t.next \in Shards
      PROVE  Ahead(r, [next |-> t.next + 1,
                       sum |-> [d \in Cells |-> t.sum[d] + r[t.next][d]]], c) = Ahead(r, t, c)
  <2> DEFINE n == t.next
             u == [next |-> n + 1, sum |-> [d \in Cells |-> t.sum[d] + r[n][d]]]
  <2>1. u.next = n + 1 /\ u.sum[c] = t.sum[c] + r[n][c]
    OBVIOUS
  <2>2. n # 0 /\ n + 1 # 0 /\ r[n][c] \in Nat
    BY <1>5 DEF Shards, Counters, Tally
  <2>3. LeftOf(r, c, n) = r[n][c] + LeftOf(r, c, n + 1)
    BY <1>5, LeftToRead
  <2>4. LeftOf(r, c, n + 1) \in Nat
    BY <1>1, LeftIsNat
  <2>5. Ahead(r, u, c) = t.sum[c] + r[n][c] + LeftOf(r, c, n + 1)
    <3> HIDE DEF u
    <3> QED BY <2>1, <2>2 DEF Ahead
  <2>6. Ahead(r, t, c) = t.sum[c] + LeftOf(r, c, n)
    BY <2>2 DEF Ahead
  <2> HIDE DEF u, n
  <2>7. Ahead(r, u, c) = Ahead(r, t, c)
    BY <1>1, <2>2, <2>3, <2>4, <2>5, <2>6
  <2> QED
    BY <2>7 DEF u, n
<1>6. ASSUME t.next = NumShards + 1
      PROVE  Ahead(r, t, c) = t.sum[c]
  <2>1. NumShards + 1 # 0
    BY Limits0
  <2> QED
    BY <1>1, <1>6, <2>1, LeftToRead DEF Ahead
<1> QED
  BY <1>2, <1>3, <1>4, <1>5, <1>6

\* An increment that comes behind a read is in the total only, any other one in both.
LEMMA AheadWhenCounted ==
  ASSUME NEW r \in Counters, NEW t \in Progress, NEW s \in Shards, NEW c \in Cells, NEW d \in Cells,
         NEW q, Incremented(q, r, s, c)
  PROVE  /\ TotalOf(q, d) >= TotalOf(r, d)
         /\ Ahead(q, t, d) >= Ahead(r, t, d)
         /\ Ahead(q, t, d) - Ahead(r, t, d) <= TotalOf(q, d) - TotalOf(r, d)
<1>1. t.next \in Nat /\ t.sum[d] \in Nat
  BY Limits0 DEF Progress, Tally
<1>2. TotalOf(r, d) \in Nat /\ LeftOf(r, d, t.next) \in Nat
  BY <1>1, LeftIsNat
<1>3. /\ TotalOf(q, d) = TotalOf(r, d) + (IF d = c THEN 1 ELSE 0)
      /\ LeftOf(q, d, t.next) = LeftOf(r, d, t.next) + (IF d = c /\ ~(s < t.next) THEN 1 ELSE 0)
  BY <1>1, LeftWhenCounted
<1> QED
  BY <1>1, <1>2, <1>3 DEF Ahead

Row == [votes : Nat, gen : Nat]
Transaction ==
    [at : {"idle", "save", "final", "returned"}, job : Tally, todo : SUBSET Cells,
     stmt : Nat, gen : Nat, written : Tally]

\* The counts and generations that travel from Redis to the rows are natural numbers.
Numbers ==
    /\ redis \in [Shards -> Tally]
    /\ row \in [Cells -> Row] /\ generation \in Nat
    /\ snap \in [Instances -> Tally]
    /\ read \in [Instances -> [next : Nat, sum : Tally]]
    /\ tx \in [Instances -> Transaction]

-----------------------------------------------------------------------------
\* The numbers of shards and options are natural numbers.
LEMMA Limits ==
  /\ Zero \in Tally /\ VotersCell \in Cells /\ Cells \subseteq Nat /\ Shards \subseteq Nat
  /\ Options \subseteq Cells
  /\ NoRead \in [next : Nat, sum : Tally] /\ NoTx \in Transaction
BY BoundsAssumption
DEF Zero, Tally, VotersCell, Cells, Shards, Options, NoRead, NoTx, Transaction

\* The conflict clause of the two statements never goes back.
LEMMA UpsertIsUp ==
  ASSUME NEW r \in Row, NEW n \in Nat, NEW g \in Nat
  PROVE  /\ Upsert(r, n, g) \in Row
         /\ Upsert(r, n, g).votes >= r.votes \/ Upsert(r, n, g).gen > r.gen
BY DEF Upsert, Larger, Row

\* All is zero at first.
LEMMA InitNumbers == Init => Numbers
<1>1. [votes |-> 0, gen |-> 0] \in Row
  BY DEF Row
<1> QED
  BY <1>1, Limits DEF Init, Numbers

\* The snapshotter adds up natural numbers.
LEMMA ReaderNumbers ==
  ASSUME Numbers, NEW i \in Instances, Reader(i) \/ ReadFails(i)
  PROVE  Numbers'
<1>1. redis' = redis /\ row' = row /\ generation' = generation /\ tx' = tx
  BY DEF Reader, Refresh, Read, Publish, ReadFails, ReaderUnchanged, pg
<1>2. CASE Refresh(i)
  BY <1>1, <1>2, Limits DEF Refresh, Begun, Numbers
<1>3. CASE Read(i)
  <2>1. read[i].next \in Shards /\ snap' = snap
    BY <1>3 DEF Read
  <2> DEFINE r == [next |-> read[i].next + 1,
                   sum  |-> [c \in Cells |-> read[i].sum[c] + redis[read[i].next][c]]]
  <2>2. read' = [read EXCEPT ![i] = r]
    BY <1>3 DEF Read
  <2>3. r \in [next : Nat, sum : Tally]
    BY <2>1 DEF Numbers, Tally
  <2> HIDE DEF r
  <2> QED
    BY <1>1, <2>1, <2>2, <2>3 DEF Numbers
<1>4. CASE Publish(i)
  BY <1>1, <1>4, Limits DEF Publish, Numbers
<1>5. CASE ReadFails(i)
  BY <1>1, <1>5, Limits DEF ReadFails, Numbers
<1> QED
  BY <1>2, <1>3, <1>4, <1>5 DEF Reader

\* A transaction takes over the numbers of the snapshot and of the poll.
LEMMA SaverNumbers ==
  ASSUME Numbers, NEW i \in Instances,
         \/ Persist(i) \/ FinalPersist(i)
         \/ \E c \in Cells : Query(i, c) \/ Write(i, c)
         \/ Rollback(i)
  PROVE  Numbers'
<1>1. redis' = redis /\ row' = row /\ generation' = generation /\ snap' = snap /\ read' = read
  BY DEF Persist, FinalPersist, Query, Write, Rollback, SaverUnchanged
<1>2. tx[i] \in Transaction /\ snap[i] \in Tally
  BY DEF Numbers
<1>3. PICK t : t \in Transaction /\ tx' = [tx EXCEPT ![i] = t]
  <2>1. CASE Persist(i) \/ FinalPersist(i)
    <3>1. CASE tx' = [tx EXCEPT ![i].at = "returned"]
      BY <1>2, <3>1 DEF Transaction
    <3>2. CASE \E at \in {"save", "final"} : Save(i, at)
      <4>1. {c \in Options : snap[i][c] > 0} \cup {VotersCell} \in SUBSET Cells
        BY Limits
      <4> DEFINE S == {c \in Options : snap[i][c] > 0} \cup {VotersCell}
      <4>2. PICK at \in {"save", "final"} :
              tx' = [tx EXCEPT ![i].at = at, ![i].job = snap[i], ![i].todo = S]
        BY <3>2 DEF Save
      <4> DEFINE t == [tx[i] EXCEPT !.at = at, !.job = snap[i], !.todo = S]
      <4>3. tx' = [tx EXCEPT ![i] = t]
        BY <4>2
      <4> HIDE DEF S
      <4>4. t \in Transaction
        BY <1>2, <4>1 DEF S, Transaction
      <4> QED
        BY <4>3, <4>4
    <3> QED
      BY <2>1, <3>1, <3>2 DEF Persist, FinalPersist
  <2>2. ASSUME NEW c \in Cells, Query(i, c)
        PROVE  \E t \in Transaction : tx' = [tx EXCEPT ![i] = t]
    BY <1>2, <2>2, Limits DEF Query, Transaction, Numbers
  <2>3. ASSUME NEW c \in Cells, Write(i, c)
        PROVE  \E t \in Transaction : tx' = [tx EXCEPT ![i] = t]
    <3> DEFINE w == [tx[i].written EXCEPT ![c] = tx[i].gen]
               t == [tx[i] EXCEPT !.written = w, !.todo = tx[i].todo \ {c}, !.stmt = 0, !.gen = 0]
    <3>1. tx' = [tx EXCEPT ![i] = t]
      BY <2>3 DEF Write
    <3>2. w \in Tally
      BY <1>2 DEF Transaction, Tally
    <3> HIDE DEF w
    <3>3. t \in Transaction
      BY <1>2, <3>2 DEF Transaction
    <3> QED
      BY <3>1, <3>3
  <2>4. CASE Rollback(i)
    BY <2>4, Limits DEF Rollback, EndTx, Transaction
  <2> QED
    BY <2>1, <2>2, <2>3, <2>4
<1> QED
  BY <1>1, <1>3 DEF Numbers

\* A commit writes natural numbers, and no row goes back.
LEMMA CommitIsUp ==
  ASSUME Numbers, NEW i \in Instances, Commit(i)
  PROVE  /\ Numbers'
         /\ \A c \in Cells : row'[c].votes >= row[c].votes \/ row'[c].gen > row[c].gen
<1>1. /\ redis' = redis /\ generation' = generation /\ snap' = snap /\ read' = read
      /\ row' = [c \in Cells |-> IF tx[i].written[c] = 0 THEN row[c]
                                 ELSE Upsert(row[c], tx[i].job[c], tx[i].written[c])]
  BY DEF Commit, SaverUnchanged
<1>2. \A c \in Cells :
        row[c] \in Row /\ tx[i].job[c] \in Nat /\ tx[i].written[c] \in Nat
  BY DEF Numbers, Transaction, Tally
<1>3. ASSUME NEW c \in Cells
      PROVE  row'[c] \in Row /\ (row'[c].votes >= row[c].votes \/ row'[c].gen > row[c].gen)
  <2>1. CASE tx[i].written[c] = 0
    BY <1>1, <1>2, <2>1 DEF Row
  <2>2. CASE tx[i].written[c] # 0
    BY <1>1, <1>2, <2>2, UpsertIsUp
  <2> QED
    BY <2>1, <2>2
<1>4. row' \in [Cells -> Row]
  BY <1>1, <1>3
<1>5. tx' \in [Instances -> Transaction]
  BY Limits DEF Commit, EndTx, Numbers, Transaction
<1> QED
  BY <1>1, <1>3, <1>4, <1>5 DEF Numbers

\* No commit makes a row older.
LEMMA CommitRaises ==
  ASSUME Numbers, NEW i \in Instances, Commit(i), NEW c \in Cells
  PROVE  row'[c].gen >= row[c].gen
<1>1. row'[c] = IF tx[i].written[c] = 0 THEN row[c]
                ELSE Upsert(row[c], tx[i].job[c], tx[i].written[c])
  BY DEF Commit
<1>2. row[c] \in Row /\ tx[i].written[c] \in Nat
  BY DEF Numbers, Transaction, Tally
<1> QED
  BY <1>1, <1>2 DEF Upsert, Larger, Row

\* The process and what is outside of it put nothing but zeros and increments.
LEMMA OtherNumbers ==
  ASSUME Numbers, Outside \/ \E i \in Instances : Process(i)
  PROVE  Numbers' /\ row' = row
<1>1. row' = row
  BY DEF Outside, Count, Lose, Pass, FlushAll, Bump, Raise, pg, Process, StopReaders, Exit, Kill,
         Down, Start, Ask, ProcessUnchanged
<1>2. CASE \E s \in Shards, c \in Cells : Count(s, c)
  BY <1>1, <1>2 DEF Count, pg, Numbers, Tally
<1>3. CASE Lose \/ Pass \/ FlushAll \/ Bump
  BY <1>1, <1>3, Limits DEF Lose, Pass, FlushAll, Bump, Raise, pg, Numbers
<1>4. ASSUME NEW i \in Instances, Process(i)
      PROVE  Numbers'
  <2>1. CASE StopReaders(i) \/ Start(i) \/ Ask(i)
    BY <1>1, <2>1 DEF StopReaders, Start, Ask, ProcessUnchanged, pg, Numbers
  <2>2. CASE Exit(i) \/ Kill(i)
    BY <1>1, <2>2, Limits DEF Exit, Kill, Down, ProcessUnchanged, pg, Numbers
  <2> QED
    BY <1>4, <2>1, <2>2 DEF Process
<1> QED
  BY <1>1, <1>2, <1>3, <1>4 DEF Outside

\* Every step keeps the numbers, and only a commit writes the rows.
LEMMA NextNumbers ==
  ASSUME Numbers, [Next]_vars
  PROVE  /\ Numbers'
         /\ \/ row' = row
            \/ \A c \in Cells : row'[c].votes >= row[c].votes \/ row'[c].gen > row[c].gen
<1>1. CASE UNCHANGED vars
  BY <1>1 DEF vars, pg, Numbers
<1>2. ASSUME NEW i \in Instances, Reader(i) \/ ReadFails(i)
      PROVE  Numbers' /\ row' = row
  BY <1>2, ReaderNumbers DEF Reader, Refresh, Read, Publish, ReadFails, ReaderUnchanged, pg
<1>3. ASSUME NEW i \in Instances, Persister(i) \/ TxFails(i), ~Commit(i)
      PROVE  Numbers' /\ row' = row
  BY <1>3, SaverNumbers
  DEF Persister, TxFails, DeadlockVictim, Persist, FinalPersist, Query, Write, Rollback
<1> QED
  BY <1>1, <1>2, <1>3, CommitIsUp, OtherNumbers DEF Next, Persister

\* The counts on their way from Redis to Postgres are natural numbers in every state.
THEOREM Invariance == Spec => []Numbers
BY InitNumbers, NextNumbers, PTL DEF Spec

\* No stored count goes down within a generation (store.go SaveResults: GREATEST).
THEOREM StoredCountsNeverRegress == Spec => StoredNeverRegresses
<1> DEFINE Up == \A c \in Cells : row'[c].votes >= row[c].votes \/ row'[c].gen > row[c].gen
<1>1. ASSUME Numbers, [Next]_vars
      PROVE  [Up]_vars
  <2>1. CASE row' = row
    BY <1>1, <2>1 DEF Numbers, Row
  <2>2. CASE row' # row
    BY <1>1, <2>2, NextNumbers
  <2> QED
    BY <2>1, <2>2
<1> QED
  BY <1>1, Invariance, PTL DEF Spec, StoredNeverRegresses

-----------------------------------------------------------------------------
(* The invariant.                                                          *)

Typed ==
    /\ Numbers
    /\ generation # 0
    /\ life \in [Instances -> {"up", "stopping", "down"}]
    /\ read \in [Instances -> Progress]
    /\ stale \in SUBSET Instances
    /\ peak \in Tally /\ held \in [Instances -> Tally]

\* What is left when a transaction is over, a read has ended, a process is no more.
Rest ==
    \A i \in Instances :
        /\ tx[i].at \in {"idle", "returned"} => tx[i] = [NoTx EXCEPT !.at = tx[i].at]
        /\ tx[i].at \in {"final", "returned"} => life[i] = "stopping"
        /\ life[i] = "down" => snap[i] = Zero /\ read[i] = NoRead /\ tx[i] = NoTx
        /\ read[i].next = 0 => read[i].sum = Zero

\* A cell of a transaction is still to be written, or written, or nothing.
Statements ==
    \A i \in Instances :
        /\ tx[i].stmt \in tx[i].todo \cup {0}
        /\ tx[i].stmt # 0 => tx[i].gen # 0
        /\ tx[i].at \in {"save", "final"} =>
             \A c \in Cells : c \in tx[i].todo \/ tx[i].written[c] # 0 \/ tx[i].job[c] = 0

\* No generation is ahead of that of the poll, and a row that does not exist is zero.
Dated ==
    /\ \A c \in Cells : row[c].gen <= generation /\ (row[c].gen = 0 => row[c].votes = 0)
    /\ \A i \in Instances :
        tx[i].gen <= generation /\ \A c \in Cells : tx[i].written[c] <= generation

\* What an instance holds that has started since the counters were cleared has been counted
\* since then, and so have the rows of a generation that is not being ended.
Clean ==
    /\ ~reset => stale = {}
    /\ \A c \in Cells : TotalOf(redis, c) <= peak[c]
    /\ \A i \in Instances \ stale, c \in Cells :
        /\ snap[i][c] <= peak[c] /\ tx[i].job[c] <= peak[c]
        /\ Ahead(redis, read[i], c) <= TotalOf(redis, c)
    /\ ~reset => \A c \in Cells : row[c].gen = generation => row[c].votes <= peak[c]

\* While the counters do not go down, the next snapshot is not below the one before.
Growing ==
    Undisturbed => \A i \in Instances, c \in Cells : snap[i][c] <= Ahead(redis, read[i], c)

\* Where that is which a stopped instance has to store.
Owed ==
    \A i \in Instances :
        /\ held[i] # Zero => Undisturbed
        /\ life[i] = "up" => held[i] = Zero
        /\ \A c \in Cells :
            /\ life[i] = "stopping" /\ tx[i].at \in {"idle", "save"} => held[i][c] <= snap[i][c]
            /\ life[i] = "stopping" /\ tx[i].at = "final" => held[i][c] <= tx[i].job[c]
            /\ life[i] = "stopping" /\ tx[i].at = "returned" => held[i][c] <= row[c].votes
            /\ life[i] = "down" => held[i][c] <= row[c].votes

IInv == Typed /\ Rest /\ Statements /\ Dated /\ Clean /\ Growing /\ Owed

\* What is known of the values for nothing.
Nothing ==
    /\ Zero \in Tally /\ \A c \in Cells : Zero[c] = 0
    /\ NoRead \in Progress /\ NoRead.next = 0 /\ NoRead.sum = Zero
    /\ NoTx \in Transaction /\ NoTx = [NoTx EXCEPT !.at = "idle"]
    /\ NoTx.at = "idle" /\ NoTx.stmt = 0 /\ NoTx.gen = 0 /\ NoTx.todo = {}
    /\ NoTx.job = Zero /\ NoTx.written = Zero

LEMMA NothingYet == Nothing
<1>1. Zero \in Tally /\ \A c \in Cells : Zero[c] = 0
  BY DEF Zero, Tally
<1>2. NoRead \in Progress /\ NoRead.next = 0 /\ NoRead.sum = Zero
  BY <1>1, Limits0 DEF NoRead, Progress
<1>3. NoTx = [NoTx EXCEPT !.at = "idle"]
  BY DEF NoTx
<1>4. /\ NoTx.at = "idle" /\ NoTx.stmt = 0 /\ NoTx.gen = 0 /\ NoTx.todo = {}
      /\ NoTx.job = Zero /\ NoTx.written = Zero
  BY DEF NoTx
<1> QED
  BY <1>1, <1>2, <1>3, <1>4, Limits DEF Nothing

\* All is zero at first.
LEMMA InitIInv == Init => IInv
<1> SUFFICES ASSUME Init PROVE IInv
  OBVIOUS
<1> USE DEF Init
<1>0. Nothing
  BY NothingYet
<1>1. Typed
  BY <1>0, InitNumbers DEF Nothing, Typed
<1>2. Rest /\ Statements
  BY <1>0 DEF Nothing, Rest, Statements
<1>3. Dated
  BY <1>0 DEF Nothing, Dated
<1>4. redis \in Counters /\ \A c \in Cells : TotalOf(redis, c) = 0 /\ Ahead(redis, NoRead, c) = 0
  BY <1>0, TotalOfNothing DEF Nothing, Ahead, Counters
<1>5. Clean
  BY <1>0, <1>4 DEF Nothing, Clean
<1>6. Growing
  BY <1>0, <1>4 DEF Nothing, Growing
<1>7. Owed
  BY <1>0 DEF Nothing, Owed
<1> QED
  BY <1>1, <1>2, <1>3, <1>5, <1>6, <1>7 DEF IInv

\* The read u and the snapshot n take the place of those of i, and nothing else changes.
ReaderTurns(i, u, n) ==
    /\ read' = [read EXCEPT ![i] = u] /\ snap' = [snap EXCEPT ![i] = n]
    /\ UNCHANGED <<redis, row, generation, life, tx, reset, stale, lost, peak, held>>

\* Either the read goes on, or it ends or fails, or its sum is the new snapshot, or the poll
\* is not tracked any more.
LEMMA ReaderStep ==
  ASSUME IInv, NEW i \in Instances, Reader(i) \/ ReadFails(i)
  PROVE  /\ life[i] # "down"
         /\ \E u \in Progress, n \in Tally :
              /\ ReaderTurns(i, u, n)
              /\ u.next = 0 => u.sum = Zero
              /\ \A c \in Cells :
                  \/ /\ n[c] = snap[i][c]
                     /\ Ahead(redis, u, c) \in {Ahead(redis, read[i], c), TotalOf(redis, c)}
                  \/ n[c] = Ahead(redis, read[i], c) /\ Ahead(redis, u, c) = TotalOf(redis, c)
                  \/ /\ life[i] = "up" /\ ~Tracked(i) /\ n[c] = 0
                     /\ Ahead(redis, u, c) = Ahead(redis, read[i], c)
<1> USE DEF IInv
<1>1. /\ UNCHANGED <<redis, row, generation, life, tx, reset, stale, lost, peak, held>>
  BY DEF Reader, Refresh, Read, Publish, ReadFails, ReaderUnchanged, pg, process, history, outside,
         CallFails
<1>2. /\ redis \in Counters /\ read \in [Instances -> Progress] /\ snap \in [Instances -> Tally]
      /\ read[i] \in Progress /\ snap[i] \in Tally
  BY DEF Typed, Numbers, Counters
<1>3. life[i] \in {"up", "stopping", "down"} /\ (life[i] = "down" => read[i].next = 0)
  BY NothingYet DEF Typed, Rest, Nothing
<1>4. read[i].next = 0 => read[i].sum = Zero
  BY DEF Rest
<1>5. Zero \in Tally /\ NoRead \in Progress /\ NoRead.sum = Zero /\ \A c \in Cells : Zero[c] = 0
  BY NothingYet DEF Nothing
<1>6. snap = [snap EXCEPT ![i] = snap[i]] /\ read = [read EXCEPT ![i] = read[i]]
  BY <1>2
<1> DEFINE Cell(u, n, c) ==
      \/ /\ n[c] = snap[i][c]
         /\ Ahead(redis, u, c) \in {Ahead(redis, read[i], c), TotalOf(redis, c)}
      \/ n[c] = Ahead(redis, read[i], c) /\ Ahead(redis, u, c) = TotalOf(redis, c)
      \/ /\ life[i] = "up" /\ ~Tracked(i) /\ n[c] = 0
         /\ Ahead(redis, u, c) = Ahead(redis, read[i], c)
    Step(u, n) == ReaderTurns(i, u, n) /\ (u.next = 0 => u.sum = Zero) /\ \A c \in Cells : Cell(u, n, c)
<1>7. CASE Refresh(i) /\ Tracked(i)
  <2> DEFINE u == [read[i] EXCEPT !.next = 1]
  <2>1. life[i] = "up" /\ read[i].next = 0
    BY <1>7 DEF Refresh
  <2>2. u \in Progress /\ u.next = 1
    BY <1>2, Limits0 DEF Progress
  <2>3. ReaderTurns(i, u, snap[i])
    BY <1>1, <1>6, <1>7 DEF Refresh, Begun, ReaderTurns
  <2>4. \A c \in Cells : Ahead(redis, u, c) = Ahead(redis, read[i], c)
    BY <1>2, <1>4, <2>1, AheadOfRead
  <2>5. Step(u, snap[i])
    <3> HIDE DEF u
    <3> QED BY <2>2, <2>3, <2>4
  <2> QED
    BY <1>2, <2>1, <2>2, <2>5
<1>8. CASE Refresh(i) /\ ~Tracked(i)
  <2>1. life[i] = "up"
    BY <1>8 DEF Refresh
  <2>2. ReaderTurns(i, read[i], Zero)
    BY <1>1, <1>6, <1>8 DEF Refresh, ReaderTurns
  <2>3. Step(read[i], Zero)
    BY <1>4, <1>5, <1>8, <2>1, <2>2
  <2> QED
    BY <1>2, <1>5, <2>1, <2>3
<1>9. CASE Read(i)
  <2> DEFINE u == [next |-> read[i].next + 1,
                   sum  |-> [d \in Cells |-> read[i].sum[d] + redis[read[i].next][d]]]
  <2>1. read[i].next \in Shards /\ read[i].next # 0
    BY <1>9 DEF Read, Shards
  <2>2. u \in Progress /\ u.next # 0
    <3>1. u.next \in 0..(NumShards + 1) /\ u.next # 0
      BY <2>1, Limits0 DEF Shards
    <3>2. u.sum \in Tally
      BY <1>2, <2>1 DEF Progress, Counters, Tally
    <3> QED
      BY <3>1, <3>2 DEF Progress
  <2>3. ReaderTurns(i, u, snap[i])
    BY <1>1, <1>6, <1>9 DEF Read, ReaderTurns
  <2>4. \A c \in Cells : Ahead(redis, u, c) = Ahead(redis, read[i], c)
    BY <1>2, <2>1, AheadOfRead
  <2>5. Step(u, snap[i])
    <3> HIDE DEF u
    <3> QED BY <2>2, <2>3, <2>4
  <2> QED
    BY <1>2, <1>3, <2>1, <2>2, <2>5
<1>10. CASE Publish(i)
  <2>1. read[i].next = NumShards + 1 /\ read[i].next # 0
    BY <1>10, Limits0 DEF Publish
  <2>2. ReaderTurns(i, NoRead, read[i].sum)
    BY <1>1, <1>10 DEF Publish, ReaderTurns
  <2>3. \A c \in Cells : /\ Ahead(redis, NoRead, c) = TotalOf(redis, c)
                         /\ read[i].sum[c] = Ahead(redis, read[i], c)
    BY <1>2, <2>1, AheadOfRead
  <2>4. Step(NoRead, read[i].sum)
    BY <1>5, <2>2, <2>3
  <2>5. read[i].sum \in Tally
    BY <1>2 DEF Progress
  <2> QED
    BY <1>3, <1>5, <2>1, <2>4, <2>5
<1>11. CASE ReadFails(i)
  <2>1. read[i].next # 0
    BY <1>11 DEF ReadFails
  <2>2. ReaderTurns(i, NoRead, snap[i])
    BY <1>1, <1>6, <1>11 DEF ReadFails, ReaderTurns
  <2>3. \A c \in Cells : Ahead(redis, NoRead, c) = TotalOf(redis, c)
    BY <1>2, AheadOfRead
  <2>4. Step(NoRead, snap[i])
    BY <1>5, <2>2, <2>3
  <2> QED
    BY <1>2, <1>3, <1>5, <2>1, <2>4
<1> QED
  BY <1>7, <1>8, <1>9, <1>10, <1>11 DEF Reader

\* The snapshotter keeps the invariant.
LEMMA ReaderSafe ==
  ASSUME IInv, NEW i \in Instances, Reader(i) \/ ReadFails(i)
  PROVE  IInv'
<1>1. life[i] # "down"
  BY ReaderStep
<1>2. PICK u \in Progress, n \in Tally :
        /\ ReaderTurns(i, u, n)
        /\ u.next = 0 => u.sum = Zero
        /\ \A c \in Cells :
            \/ /\ n[c] = snap[i][c]
               /\ Ahead(redis, u, c) \in {Ahead(redis, read[i], c), TotalOf(redis, c)}
            \/ n[c] = Ahead(redis, read[i], c) /\ Ahead(redis, u, c) = TotalOf(redis, c)
            \/ /\ life[i] = "up" /\ ~Tracked(i) /\ n[c] = 0
               /\ Ahead(redis, u, c) = Ahead(redis, read[i], c)
  BY ReaderStep
<1>3. /\ read' = [read EXCEPT ![i] = u] /\ snap' = [snap EXCEPT ![i] = n]
      /\ UNCHANGED <<redis, row, generation, life, tx, reset, stale, lost, peak, held>>
  BY <1>2 DEF ReaderTurns
<1>4. /\ read \in [Instances -> Progress] /\ snap \in [Instances -> Tally]
      /\ redis \in Counters /\ peak \in Tally /\ held \in [Instances -> Tally]
  BY DEF IInv, Typed, Numbers, Counters
<1>5. /\ \A j \in Instances : read'[j] = (IF j = i THEN u ELSE read[j])
      /\ \A j \in Instances : snap'[j] = (IF j = i THEN n ELSE snap[j])
  BY <1>3, <1>4
<1>6. \A c \in Cells :
        /\ snap[i][c] \in Nat /\ n[c] \in Nat /\ peak[c] \in Nat /\ TotalOf(redis, c) \in Nat
        /\ Ahead(redis, read[i], c) \in Nat /\ Ahead(redis, u, c) \in Nat
  BY <1>4, AheadOfRead, LeftIsNat DEF Tally
<1>7. Typed'
  BY <1>3, <1>4, ReaderNumbers DEF IInv, Typed
<1>8. Rest'
  BY <1>1, <1>2, <1>3, <1>5 DEF IInv, Rest
<1>9. Statements' /\ Dated'
  BY <1>3 DEF IInv, Statements, Dated
<1>10. Clean'
  <2>1. ASSUME i \notin stale, NEW c \in Cells
        PROVE  n[c] <= peak[c] /\ Ahead(redis, u, c) <= TotalOf(redis, c)
    <3>1. /\ snap[i][c] <= peak[c] /\ TotalOf(redis, c) <= peak[c]
          /\ Ahead(redis, read[i], c) <= TotalOf(redis, c)
      BY <2>1 DEF IInv, Clean
    <3> QED
      BY <1>2, <1>6, <3>1
  <2> QED
    BY <1>3, <1>5, <2>1 DEF IInv, Clean
<1>11. Growing'
  <2>1. ASSUME Undisturbed, NEW c \in Cells
        PROVE  n[c] <= Ahead(redis, u, c)
    <3>1. i \notin stale
      BY <2>1 DEF IInv, Clean, Undisturbed
    <3>2. /\ snap[i][c] <= Ahead(redis, read[i], c)
          /\ Ahead(redis, read[i], c) <= TotalOf(redis, c)
      BY <2>1, <3>1 DEF IInv, Growing, Clean
    <3> QED
      BY <1>2, <1>6, <3>2
  <2>2. Undisturbed' <=> Undisturbed
    BY <1>3 DEF Undisturbed
  <2> QED
    BY <1>3, <1>5, <2>1, <2>2 DEF IInv, Growing
<1>12. Owed'
  <2>1. ASSUME NEW c \in Cells, life[i] = "stopping", held[i][c] <= snap[i][c]
        PROVE  held[i][c] <= n[c]
    <3>1. CASE Undisturbed
      BY <1>2, <1>4, <1>6, <2>1, <3>1 DEF IInv, Growing, Tally
    <3>2. CASE ~Undisturbed
      BY <1>6, <3>2, NothingYet DEF IInv, Owed, Nothing
    <3> QED
      BY <3>1, <3>2
  <2>2. Undisturbed' <=> Undisturbed
    BY <1>3 DEF Undisturbed
  <2> QED
    BY <1>3, <1>5, <2>1, <2>2 DEF IInv, Owed
<1> QED
  BY <1>7, <1>8, <1>9, <1>10, <1>11, <1>12 DEF IInv

\* The transaction t takes the place of that of i, and h the place of what i owes.
TxTurns(i, t, h) ==
    /\ tx' = [tx EXCEPT ![i] = t] /\ held' = [held EXCEPT ![i] = h]
    /\ UNCHANGED <<redis, row, generation, life, snap, read, reset, stale, lost, peak>>

\* t says of itself what the invariant says of a transaction of i.
TxFits(i, t, h) ==
    /\ life[i] # "down"
    /\ t.at \in {"idle", "returned"} => t = [NoTx EXCEPT !.at = t.at]
    /\ t.at \in {"final", "returned"} => life[i] = "stopping"
    /\ t.stmt \in t.todo \cup {0}
    /\ t.stmt # 0 => t.gen # 0
    /\ t.at \in {"save", "final"} => \A c \in Cells : c \in t.todo \/ t.written[c] # 0 \/ t.job[c] = 0
    /\ t.gen <= generation /\ \A c \in Cells : t.written[c] <= generation
    /\ t.job \in {tx[i].job, snap[i], Zero}
    /\ h \in {held[i], Zero}
    /\ life[i] = "stopping" =>
        \A c \in Cells : /\ t.at \in {"idle", "save"} => h[c] <= snap[i][c]
                         /\ t.at = "final" => h[c] <= t.job[c]
                         /\ t.at = "returned" => h[c] <= row[c].votes

\* A step of a transaction that does not commit keeps the invariant.
LEMMA TxSafe ==
  ASSUME IInv, NEW i \in Instances, NEW t \in Transaction, NEW h \in Tally,
         TxTurns(i, t, h), TxFits(i, t, h)
  PROVE  IInv'
<1>1. /\ tx \in [Instances -> Transaction] /\ held \in [Instances -> Tally]
      /\ snap \in [Instances -> Tally] /\ peak \in Tally
  BY DEF IInv, Typed, Numbers
<1>2. /\ \A j \in Instances : tx'[j] = (IF j = i THEN t ELSE tx[j])
      /\ \A j \in Instances : held'[j] = (IF j = i THEN h ELSE held[j])
  BY <1>1 DEF TxTurns
<1>3. UNCHANGED <<redis, row, generation, life, snap, read, reset, stale, lost, peak>>
  BY DEF TxTurns
<1>4. Typed'
  BY <1>1, <1>3 DEF TxTurns, IInv, Typed, Numbers
<1>5. Rest'
  BY <1>2, <1>3 DEF TxFits, IInv, Rest
<1>6. Statements'
  BY <1>2 DEF TxFits, IInv, Statements
<1>7. Dated'
  BY <1>2, <1>3 DEF TxFits, IInv, Dated
<1>8. Clean'
  <2>1. ASSUME i \notin stale, NEW c \in Cells
        PROVE  t.job[c] <= peak[c]
    <3>1. tx[i].job[c] <= peak[c] /\ snap[i][c] <= peak[c]
      BY <2>1 DEF IInv, Clean
    <3>2. Zero[c] <= peak[c]
      BY <1>1, NothingYet DEF Nothing, Tally
    <3> QED
      BY <3>1, <3>2 DEF TxFits
  <2> QED
    BY <1>2, <1>3, <2>1 DEF IInv, Clean
<1>9. Growing'
  <2>1. Undisturbed' <=> Undisturbed
    BY <1>3 DEF Undisturbed
  <2> QED
    BY <1>3, <2>1 DEF IInv, Growing
<1>10. Owed'
  <2>1. Undisturbed' <=> Undisturbed
    BY <1>3 DEF Undisturbed
  <2> QED
    BY <1>2, <1>3, <2>1 DEF TxFits, IInv, Owed
<1> QED
  BY <1>4, <1>5, <1>6, <1>7, <1>8, <1>9, <1>10 DEF IInv

\* What is known of an instance and of its transaction.
LEMMA KnownOf ==
  ASSUME IInv, NEW i \in Instances
  PROVE  /\ tx[i] \in Transaction /\ snap[i] \in Tally /\ held[i] \in Tally
         /\ held = [held EXCEPT ![i] = held[i]]
         /\ generation \in Nat \ {0} /\ row \in [Cells -> Row]
         /\ life[i] \in {"up", "stopping", "down"}
         /\ tx[i].at \in {"idle", "returned"} => tx[i].todo = {} /\ tx[i].stmt = 0
         /\ life[i] = "down" => tx[i].at = "idle"
BY NothingYet DEF IInv, Typed, Numbers, Rest, Nothing, Transaction

\* A transaction begins with the snapshot.
LEMMA SaveSafe ==
  ASSUME IInv, NEW i \in Instances, NEW at \in {"save", "final"}, Save(i, at),
         tx[i].at = "idle", life[i] = IF at = "save" THEN "up" ELSE "stopping",
         SaverUnchanged, UNCHANGED <<row, outside, history>>
  PROVE  IInv'
<1> DEFINE S == {c \in Options : snap[i][c] > 0} \cup {VotersCell}
           t == [NoTx EXCEPT !.at = at, !.job = snap[i], !.todo = S]
<1>1. tx[i] = NoTx
  BY NothingYet DEF IInv, Rest, Nothing
<1>2. t = [tx[i] EXCEPT !.at = at, !.job = snap[i], !.todo = S]
  BY <1>1
<1>3. S \in SUBSET Cells /\ \A c \in Cells : c \in S \/ snap[i][c] = 0
  <2>1. \A c \in Cells : c \in Options \/ c = VotersCell
    BY BoundsAssumption DEF Cells, Options, VotersCell
  <2>2. \A c \in Cells : snap[i][c] \in Nat
    BY KnownOf DEF Tally
  <2>3. S \in SUBSET Cells
    BY Limits
  <2>4. ASSUME NEW c \in Cells, c \notin S
        PROVE  snap[i][c] = 0
    BY <2>1, <2>2, <2>4
  <2> QED
    BY <2>3, <2>4
<1>4. /\ t \in Transaction
      /\ t.at = at /\ t.job = snap[i] /\ t.todo = S /\ t.stmt = 0 /\ t.gen = 0 /\ t.written = Zero
  <2> HIDE DEF S
  <2>1. NoTx \in Transaction
    BY Limits
  <2>2. t \in Transaction
    BY <1>3, <2>1, KnownOf DEF Transaction
  <2> QED
    BY <2>2 DEF NoTx
<1>5. TxTurns(i, t, held[i])
  <2>1. tx' = [tx EXCEPT ![i] = t]
    BY <1>2 DEF Save
  <2> HIDE DEF t
  <2> QED
    BY <2>1, KnownOf DEF TxTurns, SaverUnchanged, process, outside, history
<1> HIDE DEF t, S
<1>6. \A c \in Cells : t.written[c] <= generation
  BY <1>4, KnownOf, NothingYet DEF Nothing
<1>7. TxFits(i, t, held[i])
  BY <1>3, <1>4, <1>6, KnownOf DEF TxFits, IInv, Owed
<1> QED
  BY <1>4, <1>5, <1>7, KnownOf, TxSafe

\* An empty snapshot is not saved, and nothing is owed then.
LEMMA PersistSafe ==
  ASSUME IInv, NEW i \in Instances, Persist(i) \/ FinalPersist(i)
  PROVE  IInv'
<1>1. CASE Persist(i)
  BY <1>1, SaveSafe DEF Persist
<1>2. CASE FinalPersist(i) /\ snap[i] # Zero
  BY <1>2, SaveSafe DEF FinalPersist
<1>3. CASE FinalPersist(i) /\ snap[i] = Zero
  <2> DEFINE t == [NoTx EXCEPT !.at = "returned"]
  <2>1. /\ life[i] = "stopping" /\ tx[i] = NoTx /\ tx[i].at = "idle"
    BY <1>3, NothingYet DEF FinalPersist, IInv, Rest, Nothing
  <2>2. TxTurns(i, t, held[i])
    <3>1. tx' = [tx EXCEPT ![i] = t]
      BY <1>3, <2>1 DEF FinalPersist
    <3> HIDE DEF t
    <3> QED
      BY <1>3, <3>1, KnownOf DEF FinalPersist, TxTurns, SaverUnchanged, process, outside, history
  <2>3. /\ t \in Transaction /\ t.at = "returned" /\ t.job = Zero /\ t.todo = {} /\ t.stmt = 0
        /\ t.gen = 0 /\ t.written = Zero
    BY Limits DEF NoTx, Transaction
  <2>4. \A c \in Cells : held[i][c] <= row[c].votes
    <3>1. \A c \in Cells : held[i][c] <= 0
      BY <1>3, <2>1, NothingYet DEF Nothing, IInv, Owed
    <3> QED
      BY <3>1, KnownOf DEF Row, Tally
  <2>5. \A c \in Cells : Zero[c] <= generation
    BY KnownOf, NothingYet DEF Nothing
  <2>6. t = [NoTx EXCEPT !.at = t.at]
    OBVIOUS
  <2> HIDE DEF t
  <2>7. TxFits(i, t, held[i])
    BY <2>1, <2>3, <2>4, <2>5, <2>6, KnownOf DEF TxFits
  <2> QED
    BY <2>2, <2>3, <2>7, KnownOf, TxSafe
<1> QED
  BY <1>1, <1>2, <1>3

\* A statement remembers the generation of the poll, and writes it.
LEMMA StatementSafe ==
  ASSUME IInv, NEW i \in Instances, NEW c \in Cells, Query(i, c) \/ Write(i, c)
  PROVE  IInv'
<1>1. /\ tx[i].at \in {"save", "final"} /\ life[i] # "down" /\ c # 0
  BY KnownOf, Limits DEF Query, Write, Transaction, Cells
<1>2. PICK t \in Transaction :
        /\ tx' = [tx EXCEPT ![i] = t]
        /\ t.at = tx[i].at /\ t.job = tx[i].job
        /\ t.stmt \in t.todo \cup {0} /\ (t.stmt # 0 => t.gen # 0)
        /\ \A d \in Cells : d \in t.todo \/ t.written[d] # 0 \/ t.job[d] = 0
        /\ t.gen <= generation /\ \A d \in Cells : t.written[d] <= generation
  <2>1. CASE Query(i, c)
    <3> DEFINE t == [tx[i] EXCEPT !.stmt = c, !.gen = generation]
    <3>1. tx' = [tx EXCEPT ![i] = t] /\ c \in tx[i].todo
      BY <2>1 DEF Query
    <3>2. /\ t \in Transaction
          /\ t.at = tx[i].at /\ t.job = tx[i].job /\ t.todo = tx[i].todo /\ t.stmt = c
          /\ t.gen = generation /\ t.written = tx[i].written
      BY KnownOf, Limits DEF Transaction
    <3> HIDE DEF t
    <3>3. t.stmt \in t.todo /\ t.gen # 0 /\ t.gen <= generation
      BY <3>1, <3>2, KnownOf
    <3>4. \A d \in Cells : d \in t.todo \/ t.written[d] # 0 \/ t.job[d] = 0
      BY <1>1, <3>2 DEF IInv, Statements
    <3>5. \A d \in Cells : t.written[d] <= generation
      BY <3>2 DEF IInv, Dated
    <3> QED
      BY <3>1, <3>2, <3>3, <3>4, <3>5
  <2>2. CASE Write(i, c)
    <3> DEFINE w == [tx[i].written EXCEPT ![c] = tx[i].gen]
               t == [tx[i] EXCEPT !.written = w, !.todo = tx[i].todo \ {c}, !.stmt = 0, !.gen = 0]
    <3>1. tx' = [tx EXCEPT ![i] = t] /\ tx[i].stmt = c
      BY <2>2 DEF Write
    <3>2. /\ w \in Tally /\ \A d \in Cells : w[d] = IF d = c THEN tx[i].gen ELSE tx[i].written[d]
      BY KnownOf DEF Transaction, Tally
    <3>3. /\ t \in Transaction
          /\ t.at = tx[i].at /\ t.job = tx[i].job /\ t.todo = tx[i].todo \ {c} /\ t.stmt = 0
          /\ t.gen = 0 /\ t.written = w
      <4> HIDE DEF w
      <4> QED BY <3>2, KnownOf DEF Transaction
    <3> HIDE DEF t, w
    <3>4. tx[i].gen # 0 /\ tx[i].gen <= generation /\ 0 <= generation
      BY <1>1, <3>1, KnownOf DEF IInv, Statements, Dated
    <3>5. \A d \in Cells : d \in t.todo \/ t.written[d] # 0 \/ t.job[d] = 0
      BY <1>1, <3>2, <3>3, <3>4 DEF IInv, Statements
    <3>6. \A d \in Cells : t.written[d] <= generation
      BY <3>2, <3>3, <3>4 DEF IInv, Dated
    <3> QED
      BY <3>1, <3>3, <3>4, <3>5, <3>6
  <2> QED
    BY <2>1, <2>2
<1>3. TxTurns(i, t, held[i])
  BY <1>2, KnownOf DEF Query, Write, TxTurns, SaverUnchanged, process, outside, history
<1>4. TxFits(i, t, held[i])
  BY <1>1, <1>2 DEF TxFits, IInv, Rest, Owed
<1> QED
  BY <1>2, <1>3, <1>4, KnownOf, TxSafe

\* A transaction that fails has stored nothing, and nothing is owed of a last one.
LEMMA RollbackSafe ==
  ASSUME IInv, NEW i \in Instances, TxFails(i) \/ DeadlockVictim(i)
  PROVE  IInv'
<1>1. /\ Rollback(i) /\ UNCHANGED <<past, reset, stale>>
  BY DEF TxFails, DeadlockVictim, CallFails, outside
<1>2. tx[i].at \in {"save", "final"}
  <2>1. CASE TxFails(i)
    BY <2>1 DEF TxFails
  <2>2. CASE DeadlockVictim(i)
    <3>1. tx[i].stmt # 0
      BY <2>2 DEF DeadlockVictim, Waits
    <3> QED
      BY <3>1, KnownOf DEF Transaction
  <2> QED
    BY <2>1, <2>2
<1>3. PICK at \in {"idle", "returned"} : at = IF tx[i].at = "final" THEN "returned" ELSE "idle"
  OBVIOUS
<1>4. PICK h \in {held[i], Zero} : h = IF tx[i].at = "final" THEN Zero ELSE held[i]
  OBVIOUS
<1> DEFINE t == [NoTx EXCEPT !.at = at]
<1>5. TxTurns(i, t, h)
  <2>1. tx' = [tx EXCEPT ![i] = t]
    BY <1>1, <1>3 DEF Rollback, EndTx
  <2>2. held' = [held EXCEPT ![i] = h]
    BY <1>1, <1>4, KnownOf DEF Rollback
  <2> HIDE DEF t
  <2> QED
    BY <1>1, <2>1, <2>2 DEF Rollback, TxTurns, SaverUnchanged, process
<1>6. /\ t \in Transaction /\ t.at = at /\ t.job = Zero /\ t.todo = {} /\ t.stmt = 0
      /\ t.gen = 0 /\ t.written = Zero
  BY Limits DEF NoTx, Transaction
<1>7. t = [NoTx EXCEPT !.at = t.at]
  OBVIOUS
<1> HIDE DEF t
<1>8. life[i] # "down" /\ (tx[i].at = "final" => life[i] = "stopping")
  BY <1>2, KnownOf DEF IInv, Rest
<1>9. \A c \in Cells : Zero[c] = 0 /\ 0 <= generation /\ 0 <= row[c].votes
  BY KnownOf, NothingYet DEF Nothing, Row
<1>10. life[i] = "stopping" =>
         \A c \in Cells : /\ t.at = "idle" => h[c] <= snap[i][c]
                          /\ t.at = "returned" => h[c] <= row[c].votes
  BY <1>2, <1>3, <1>4, <1>6, <1>9 DEF IInv, Owed
<1>11. TxFits(i, t, h)
  <2>1. /\ t.at \notin {"save", "final"} /\ (t.at = "returned" => life[i] = "stopping")
    BY <1>3, <1>6, <1>8
  <2>2. t.gen <= generation /\ \A c \in Cells : t.written[c] <= generation
    BY <1>6, <1>9, KnownOf
  <2> QED
    BY <1>4, <1>6, <1>7, <1>8, <1>10, <2>1, <2>2 DEF TxFits
<1> QED
  BY <1>4, <1>5, <1>6, <1>11, KnownOf, NothingYet, TxSafe DEF Nothing

\* What is written of n votes counted in generation g to the row r.
LEMMA UpsertBounds ==
  ASSUME NEW r \in Row, NEW n \in Nat, NEW g \in Nat, g # 0
  PROVE  LET u == Upsert(r, n, g)
         IN  /\ u \in Row /\ u.votes >= n /\ u.gen # 0
             /\ \/ u.gen = g /\ u.gen > r.gen /\ u.votes = n
                \/ u.gen = r.gen /\ u.votes \in {r.votes, n} /\ u.votes >= r.votes
BY DEF Upsert, Larger, Row

\* A commit puts the counts of its transaction in the rows, and they are not lost any more.
LEMMA CommitSafe ==
  ASSUME IInv, NEW i \in Instances, Commit(i)
  PROVE  IInv'
<1>1. /\ UNCHANGED <<redis, generation, life, snap, read, reset, stale, lost, peak, held>>
      /\ tx[i].at \in {"save", "final"} /\ tx[i].todo = {}
      /\ row' = [c \in Cells |-> IF tx[i].written[c] = 0 THEN row[c]
                                 ELSE Upsert(row[c], tx[i].job[c], tx[i].written[c])]
  BY DEF Commit, SaverUnchanged, process, outside, history
<1>2. PICK at \in {"idle", "returned"} : at = IF tx[i].at = "final" THEN "returned" ELSE "idle"
  OBVIOUS
<1> DEFINE t == [NoTx EXCEPT !.at = at]
<1>3. tx' = [tx EXCEPT ![i] = t]
  BY <1>2 DEF Commit, EndTx
<1>4. /\ t \in Transaction /\ t.at = at /\ t.job = Zero /\ t.todo = {} /\ t.stmt = 0
      /\ t.gen = 0 /\ t.written = Zero /\ t = [NoTx EXCEPT !.at = t.at]
  BY Limits DEF NoTx, Transaction
<1> HIDE DEF t
<1>5. /\ tx \in [Instances -> Transaction] /\ held \in [Instances -> Tally] /\ peak \in Tally
      /\ row \in [Cells -> Row] /\ generation \in Nat \ {0}
  BY DEF IInv, Typed, Numbers
<1>6. \A j \in Instances : tx'[j] = (IF j = i THEN t ELSE tx[j])
  BY <1>3, <1>5
<1>7. \A c \in Cells : Zero[c] = 0
  BY NothingYet DEF Nothing
<1>8. ASSUME NEW c \in Cells
      PROVE  /\ row[c] \in Row /\ tx[i].job[c] \in Nat /\ tx[i].written[c] \in Nat
             /\ tx[i].written[c] <= generation /\ row[c].gen <= generation
             /\ row[c].gen = 0 => row[c].votes = 0
             /\ tx[i].written[c] # 0 \/ tx[i].job[c] = 0
  <2>1. row[c] \in Row /\ tx[i].job[c] \in Nat /\ tx[i].written[c] \in Nat
    BY <1>5 DEF Transaction, Tally
  <2> QED
    BY <1>1, <2>1 DEF IInv, Statements, Dated
<1>9. ASSUME NEW c \in Cells
      PROVE  /\ row'[c] \in Row /\ row'[c].gen <= generation /\ row'[c].votes >= tx[i].job[c]
             /\ row'[c].gen = 0 => row'[c].votes = 0
             /\ \/ row'[c].gen > row[c].gen /\ row'[c].votes = tx[i].job[c]
                \/ /\ row'[c].gen = row[c].gen /\ row'[c].votes \in {row[c].votes, tx[i].job[c]}
                   /\ row'[c].votes >= row[c].votes
  <2>1. CASE tx[i].written[c] = 0
    <3>1. row'[c] = row[c]
      BY <1>1, <2>1
    <3> QED
      BY <1>8, <2>1, <3>1 DEF Row
  <2>2. CASE tx[i].written[c] # 0
    <3>1. row'[c] = Upsert(row[c], tx[i].job[c], tx[i].written[c])
      BY <1>1, <2>2
    <3> QED
      BY <1>8, <2>2, <3>1, UpsertBounds
  <2> QED
    BY <2>1, <2>2
<1>10. Typed'
  BY <1>1, CommitIsUp DEF IInv, Typed
<1>11. Rest'
  <2>1. at = "returned" => life[i] = "stopping"
    BY <1>2 DEF IInv, Rest
  <2>2. life[i] # "down"
    BY <1>1, KnownOf
  <2> QED
    BY <1>1, <1>4, <1>6, <2>1, <2>2 DEF IInv, Rest
<1>12. Statements'
  BY <1>2, <1>4, <1>6 DEF IInv, Statements
<1>13. Dated'
  BY <1>1, <1>4, <1>5, <1>6, <1>7, <1>9 DEF IInv, Dated
<1>14. Clean'
  <2>1. ASSUME ~reset, NEW c \in Cells, row'[c].gen = generation
        PROVE  row'[c].votes <= peak[c]
    <3>1. tx[i].job[c] <= peak[c]
      BY <2>1 DEF IInv, Clean
    <3>2. row[c].gen = generation => row[c].votes <= peak[c]
      BY <2>1 DEF IInv, Clean
    <3> QED
      BY <1>9, <2>1, <3>1, <3>2
  <2>2. \A c \in Cells : Zero[c] <= peak[c]
    BY <1>5, <1>7 DEF Tally
  <2> QED
    BY <1>1, <1>4, <1>6, <2>1, <2>2 DEF IInv, Clean
<1>15. Growing'
  <2>1. Undisturbed' <=> Undisturbed
    BY <1>1 DEF Undisturbed
  <2> QED
    BY <1>1, <2>1 DEF IInv, Growing
<1>16. Owed'
  <2>1. Undisturbed' <=> Undisturbed
    BY <1>1 DEF Undisturbed
  <2>2. ASSUME NEW j \in Instances, NEW c \in Cells, held[j][c] <= row[c].votes
        PROVE  held[j][c] <= row'[c].votes
    <3>1. held[j][c] \in Nat
      BY <1>5 DEF Tally
    <3>2. CASE held[j] = Zero
      BY <1>7, <1>9, <3>2 DEF Row
    <3>3. CASE held[j] # Zero
      <4>1. generation = 1
        BY <3>3 DEF IInv, Owed, Undisturbed
      <4>2. row'[c].votes >= row[c].votes
        BY <1>8, <1>9, <4>1 DEF Row
      <4> QED
        BY <1>8, <1>9, <2>2, <3>1, <4>2 DEF Row
    <3> QED
      BY <3>2, <3>3
  <2>3. ASSUME NEW c \in Cells, life[i] = "stopping"
        PROVE  /\ at = "idle" => held[i][c] <= snap[i][c]
               /\ at = "returned" => held[i][c] <= row'[c].votes
    <3>1. at = "idle" => held[i][c] <= snap[i][c]
      BY <1>1, <1>2, <2>3 DEF IInv, Owed
    <3>2. ASSUME at = "returned"
          PROVE  held[i][c] <= row'[c].votes
      <4>1. held[i][c] <= tx[i].job[c]
        BY <1>1, <1>2, <2>3, <3>2 DEF IInv, Owed
      <4>2. held[i][c] \in Nat
        BY <1>5 DEF Tally
      <4> QED
        BY <1>8, <1>9, <4>1, <4>2 DEF Row
    <3> QED
      BY <3>1, <3>2
  <2> QED
    BY <1>1, <1>2, <1>4, <1>6, <2>1, <2>2, <2>3 DEF IInv, Owed
<1> QED
  BY <1>10, <1>11, <1>12, <1>13, <1>14, <1>15, <1>16 DEF IInv

\* Statements, commits and failures of a persister keep the invariant.
LEMMA PersisterSafe ==
  ASSUME IInv, NEW i \in Instances, Persister(i) \/ TxFails(i)
  PROVE  IInv'
BY PersistSafe, StatementSafe, CommitSafe, RollbackSafe DEF Persister

\* Nothing is less than what any read will have added up, and no more than any peak.
LEMMA NothingHeld ==
  ASSUME IInv, NEW c \in Cells
  PROVE  /\ Zero[c] <= peak[c] /\ Zero[c] <= row[c].votes /\ Zero[c] <= generation
         /\ Zero[c] <= Ahead(redis, NoRead, c) /\ Ahead(redis, NoRead, c) <= TotalOf(redis, c)
<1>1. /\ redis \in Counters /\ peak \in Tally /\ row \in [Cells -> Row] /\ generation \in Nat
  BY DEF IInv, Typed, Numbers, Counters
<1>2. TotalOf(redis, c) \in Nat
  BY <1>1, LeftIsNat, 0 \in Nat
<1>3. Ahead(redis, NoRead, c) = TotalOf(redis, c)
  BY <1>1, NothingYet, AheadOfRead DEF Nothing
<1>4. peak[c] \in Nat /\ row[c].votes \in Nat /\ Zero[c] = 0
  BY <1>1, NothingYet DEF Nothing, Tally, Row
<1> QED
  BY <1>1, <1>2, <1>3, <1>4

\* The process of i is as it was, has been asked to stop, or has been started.
LEMMA LifeSafe ==
  ASSUME IInv, NEW i \in Instances, StopReaders(i) \/ Start(i) \/ Ask(i)
  PROVE  IInv'
<1>1. UNCHANGED <<redis, row, generation, snap, read, tx, reset, lost, peak>>
  BY DEF StopReaders, Start, Ask, ProcessUnchanged, pg
<1>2. /\ life \in [Instances -> {"up", "stopping", "down"}] /\ held \in [Instances -> Tally]
      /\ snap \in [Instances -> Tally] /\ peak \in Tally /\ redis \in Counters
  BY DEF IInv, Typed, Numbers, Counters
<1>3. Undisturbed' <=> Undisturbed
  BY <1>1 DEF Undisturbed
<1>4. Nothing
  BY NothingYet
<1>5. Statements' /\ Dated' /\ Growing'
  BY <1>1, <1>3 DEF IInv, Statements, Dated, Growing
<1>6. CASE StopReaders(i)
  <2>1. PICK h \in {snap[i], Zero} : h = IF Undisturbed THEN snap[i] ELSE Zero
    OBVIOUS
  <2>2. /\ life[i] = "up" /\ life' = [life EXCEPT ![i] = "stopping"] /\ stale' = stale
        /\ held' = [held EXCEPT ![i] = h]
    BY <1>6, <2>1 DEF StopReaders
  <2>3. \A j \in Instances : /\ life'[j] = (IF j = i THEN "stopping" ELSE life[j])
                             /\ held'[j] = (IF j = i THEN h ELSE held[j])
    BY <1>2, <2>2
  <2>4. Typed'
    BY <1>1, <1>2, <1>4, <2>2 DEF IInv, Typed, Numbers, Nothing
  <2>5. Rest' /\ Clean'
    BY <1>1, <2>2, <2>3 DEF IInv, Rest, Clean
  <2>6. tx[i].at \notin {"final", "returned"}
    BY <2>2 DEF IInv, Rest
  <2>7. \A c \in Cells : h[c] <= snap[i][c]
    BY <1>2, <1>4, <2>1 DEF Nothing, Tally
  <2>8. h # Zero => Undisturbed
    BY <2>1
  <2>9. Owed'
    BY <1>1, <1>3, <2>3, <2>6, <2>7, <2>8 DEF IInv, Owed
  <2> QED
    BY <1>5, <2>4, <2>5, <2>9 DEF IInv
<1>7. CASE Start(i)
  <2>1. /\ life[i] = "down" /\ life' = [life EXCEPT ![i] = "up"] /\ stale' = stale \ {i}
        /\ held' = [held EXCEPT ![i] = Zero]
    BY <1>7 DEF Start
  <2>2. \A j \in Instances : /\ life'[j] = (IF j = i THEN "up" ELSE life[j])
                             /\ held'[j] = (IF j = i THEN Zero ELSE held[j])
    BY <1>2, <2>1
  <2>3. Typed'
    BY <1>1, <1>2, <1>4, <2>1 DEF IInv, Typed, Numbers, Nothing
  <2>4. snap[i] = Zero /\ read[i] = NoRead /\ tx[i] = NoTx
    BY <2>1 DEF IInv, Rest
  <2>5. Rest'
    BY <1>1, <1>4, <2>2, <2>4 DEF IInv, Rest, Nothing
  <2>6. \A c \in Cells :
          /\ snap[i][c] <= peak[c] /\ tx[i].job[c] <= peak[c]
          /\ Ahead(redis, read[i], c) <= TotalOf(redis, c)
    BY <1>4, <2>4, NothingHeld DEF Nothing
  <2>7. Clean'
    BY <1>1, <2>1, <2>6 DEF IInv, Clean
  <2>8. Owed'
    BY <1>1, <1>3, <2>2 DEF IInv, Owed
  <2> QED
    BY <1>5, <2>3, <2>5, <2>7, <2>8 DEF IInv
<1>8. CASE Ask(i)
  BY <1>1, <1>3, <1>5, <1>8 DEF Ask, IInv, Typed, Numbers, Rest, Clean, Owed
<1> QED
  BY <1>6, <1>7, <1>8

\* A process that has exited has stored what it owed, a killed one owes nothing.
LEMMA DownSafe ==
  ASSUME IInv, NEW i \in Instances, Exit(i) \/ Kill(i)
  PROVE  IInv'
<1>1. /\ UNCHANGED <<redis, row, generation, reset, lost, peak, stale>>
      /\ life' = [life EXCEPT ![i] = "down"] /\ snap' = [snap EXCEPT ![i] = Zero]
      /\ read' = [read EXCEPT ![i] = NoRead] /\ tx' = [tx EXCEPT ![i] = NoTx]
  BY DEF Exit, Kill, Down, ProcessUnchanged, pg
<1>2. PICK h \in {held[i], Zero} : held' = [held EXCEPT ![i] = h]
                                   /\ \A c \in Cells : h[c] <= row[c].votes
  <2>1. CASE Exit(i)
    <3>1. life[i] = "stopping" /\ tx[i].at = "returned"
      BY <2>1 DEF Exit, IInv, Rest
    <3>2. held' = [held EXCEPT ![i] = held[i]]
      BY <2>1, KnownOf DEF Exit
    <3> QED
      BY <3>1, <3>2 DEF IInv, Owed
  <2>2. CASE Kill(i)
    <3>1. \A c \in Cells : Zero[c] <= row[c].votes
      BY KnownOf, NothingYet DEF Nothing, Row
    <3> QED
      BY <2>2, <3>1 DEF Kill
  <2> QED
    BY <2>1, <2>2
<1>3. /\ life \in [Instances -> {"up", "stopping", "down"}] /\ held \in [Instances -> Tally]
      /\ snap \in [Instances -> Tally] /\ peak \in Tally /\ redis \in Counters
      /\ read \in [Instances -> Progress] /\ tx \in [Instances -> Transaction]
      /\ row \in [Cells -> Row] /\ generation \in Nat
  BY DEF IInv, Typed, Numbers, Counters
<1>4. Nothing
  BY NothingYet
<1>5. \A j \in Instances :
        /\ life'[j] = (IF j = i THEN "down" ELSE life[j])
        /\ snap'[j] = (IF j = i THEN Zero ELSE snap[j])
        /\ read'[j] = (IF j = i THEN NoRead ELSE read[j])
        /\ tx'[j] = (IF j = i THEN NoTx ELSE tx[j])
        /\ held'[j] = (IF j = i THEN h ELSE held[j])
  BY <1>1, <1>2, <1>3
<1>6. Undisturbed' <=> Undisturbed
  BY <1>1 DEF Undisturbed
<1>7. Typed'
  <2>1. h \in Tally
    BY <1>2, <1>3, <1>4 DEF Nothing
  <2>2. held' \in [Instances -> Tally]
    BY <1>2, <1>3, <2>1
  <2> QED
    BY <1>1, <1>3, <1>4, <2>2, OtherNumbers DEF Process, IInv, Typed, Nothing
<1>8. Rest'
  BY <1>4, <1>5 DEF IInv, Rest, Nothing
<1>9. Statements'
  BY <1>4, <1>5 DEF IInv, Statements, Nothing
<1>10. Dated'
  <2>1. 0 <= generation
    BY <1>3
  <2> QED
    BY <1>1, <1>4, <1>5, <2>1, NothingHeld DEF IInv, Dated, Nothing
<1>11. Clean'
  BY <1>1, <1>4, <1>5, NothingHeld DEF IInv, Clean, Nothing
<1>12. Growing'
  BY <1>1, <1>5, <1>6, NothingHeld DEF IInv, Growing
<1>13. Owed'
  BY <1>1, <1>2, <1>5, <1>6 DEF IInv, Owed
<1> QED
  BY <1>7, <1>8, <1>9, <1>10, <1>11, <1>12, <1>13 DEF IInv

\* What Redis has counted once more is in its totals and in the peaks.
LEMMA CountSafe ==
  ASSUME IInv, NEW s \in Shards, NEW c \in Cells, Count(s, c)
  PROVE  IInv'
<1>1. /\ redis' = [redis EXCEPT ![s][c] = @ + 1]
      /\ peak' = [peak EXCEPT ![c] = Larger(@, Total(c) + 1)]
      /\ UNCHANGED <<row, generation, life, snap, read, tx, reset, stale, lost, held>>
  BY DEF Count, pg, process, outside
<1>2. /\ redis \in Counters /\ read \in [Instances -> Progress] /\ peak \in Tally
      /\ snap \in [Instances -> Tally] /\ tx \in [Instances -> Transaction]
      /\ row \in [Cells -> Row]
  BY DEF IInv, Typed, Numbers, Counters
<1>3. Incremented(redis', redis, s, c)
  BY <1>1 DEF Incremented
<1>4. ASSUME NEW d \in Cells
      PROVE  /\ peak'[d] \in Nat /\ peak[d] <= peak'[d] /\ peak[d] \in Nat
             /\ TotalOf(redis', d) <= peak'[d] /\ TotalOf(redis', d) \in Nat
  <2>1. TotalOf(redis', d) = TotalOf(redis, d) + (IF d = c THEN 1 ELSE 0)
    BY <1>2, <1>3, LeftWhenCounted, 0 \in Nat
  <2>2. TotalOf(redis, d) \in Nat /\ TotalOf(redis, d) <= peak[d] /\ peak[d] \in Nat
    BY <1>2, LeftIsNat, 0 \in Nat DEF Tally, IInv, Clean
  <2>3. peak'[d] = IF d = c THEN Larger(peak[d], TotalOf(redis, d) + 1) ELSE peak[d]
    BY <1>1, <1>2 DEF Tally, Total, TotalOf
  <2> QED
    BY <2>1, <2>2, <2>3 DEF Larger
<1>5. ASSUME NEW i \in Instances, NEW d \in Cells
      PROVE  /\ Ahead(redis, read[i], d) \in Nat /\ Ahead(redis', read[i], d) \in Int
             /\ Ahead(redis', read[i], d) >= Ahead(redis, read[i], d)
             /\ Ahead(redis, read[i], d) <= TotalOf(redis, d)
                  => Ahead(redis', read[i], d) <= TotalOf(redis', d)
             /\ snap[i][d] \in Nat /\ tx[i].job[d] \in Nat
  <2>1. read[i] \in Progress /\ redis' \in Counters
    BY <1>2, <1>3, LeftWhenCounted, 0 \in Nat
  <2>2. /\ Ahead(redis', read[i], d) >= Ahead(redis, read[i], d)
        /\ Ahead(redis', read[i], d) - Ahead(redis, read[i], d) <= TotalOf(redis', d) - TotalOf(redis, d)
    BY <1>2, <1>3, <2>1, AheadWhenCounted
  <2>3. /\ Ahead(redis, read[i], d) \in Nat /\ Ahead(redis', read[i], d) \in Nat
        /\ TotalOf(redis, d) \in Nat /\ TotalOf(redis', d) \in Nat
    BY <1>2, <2>1, AheadOfRead, LeftIsNat, 0 \in Nat
  <2>4. snap[i][d] \in Nat /\ tx[i].job[d] \in Nat
    BY <1>2 DEF Tally, Transaction
  <2> QED
    BY <2>2, <2>3, <2>4
<1>6. Typed'
  <2>1. Numbers'
    BY OtherNumbers DEF Outside, IInv, Typed
  <2>2. peak' \in Tally
    BY <1>1, <1>2, <1>4 DEF Tally
  <2> QED
    BY <1>1, <2>1, <2>2 DEF IInv, Typed
<1>7. Rest' /\ Statements' /\ Dated'
  BY <1>1 DEF IInv, Rest, Statements, Dated
<1>8. Undisturbed' <=> Undisturbed
  BY <1>1 DEF Undisturbed
<1>9. Clean'
  <2>1. ASSUME NEW i \in Instances \ stale, NEW d \in Cells
        PROVE  /\ snap[i][d] <= peak'[d] /\ tx[i].job[d] <= peak'[d]
               /\ Ahead(redis', read[i], d) <= TotalOf(redis', d)
    <3>1. /\ snap[i][d] <= peak[d] /\ tx[i].job[d] <= peak[d]
          /\ Ahead(redis, read[i], d) <= TotalOf(redis, d)
      BY DEF IInv, Clean
    <3> QED
      BY <1>4, <1>5, <3>1
  <2>2. ASSUME ~reset, NEW d \in Cells, row[d].gen = generation
        PROVE  row[d].votes <= peak'[d]
    <3>1. row[d].votes <= peak[d] /\ row[d].votes \in Nat
      BY <1>2, <2>2 DEF IInv, Clean, Row
    <3> QED
      BY <1>4, <3>1
  <2> QED
    BY <1>1, <1>4, <2>1, <2>2 DEF IInv, Clean
<1>10. Growing'
  <2>1. ASSUME Undisturbed, NEW i \in Instances, NEW d \in Cells
        PROVE  snap[i][d] <= Ahead(redis', read[i], d)
    <3>1. snap[i][d] <= Ahead(redis, read[i], d)
      BY <2>1 DEF IInv, Growing
    <3> QED
      BY <1>5, <3>1
  <2> QED
    BY <1>1, <1>8, <2>1 DEF Growing
<1>11. Owed'
  BY <1>1, <1>8 DEF IInv, Owed
<1> QED
  BY <1>6, <1>7, <1>9, <1>10, <1>11 DEF IInv

\* A loss of Redis disturbs the counts, and leaves nothing to be stored by those that stop.
LEMMA LoseSafe ==
  ASSUME IInv, Lose
  PROVE  IInv'
<1>1. /\ UNCHANGED <<row, generation, life, snap, tx, reset, stale, peak>>
      /\ lost' = TRUE /\ held' = [i \in Instances |-> Zero]
      /\ redis' = [s \in Shards |-> Zero] /\ read' = [i \in Instances |-> NoRead]
  BY DEF Lose, pg, process
<1>2. /\ Nothing /\ peak \in Tally /\ row \in [Cells -> Row]
  BY NothingYet DEF IInv, Typed, Numbers
<1>3. Typed'
  BY <1>1, <1>2, OtherNumbers DEF Outside, IInv, Typed, Nothing
<1>4. Rest' /\ Statements' /\ Dated'
  BY <1>1, <1>2 DEF IInv, Rest, Statements, Dated, Nothing
<1>5. \A c \in Cells : TotalOf(redis', c) = 0 /\ Ahead(redis', NoRead, c) = 0 /\ 0 <= peak[c]
  BY <1>1, <1>2, TotalOfNothing DEF Nothing, Ahead, Tally
<1>6. Clean'
  BY <1>1, <1>5 DEF IInv, Clean
<1>7. Growing'
  BY <1>1 DEF Growing, Undisturbed
<1>8. Owed'
  <2>1. \A i \in Instances : held'[i] = Zero
    BY <1>1
  <2>2. \A i \in Instances, c \in Cells :
          0 <= snap[i][c] /\ 0 <= tx[i].job[c] /\ 0 <= row[c].votes /\ Zero[c] = 0
    BY <1>2 DEF IInv, Typed, Numbers, Transaction, Tally, Row, Nothing
  <2> QED
    BY <1>1, <2>1, <2>2 DEF Owed
<1> QED
  BY <1>3, <1>4, <1>6, <1>7, <1>8 DEF IInv

\* After make reset has cleared the counters every instance is stale.
LEMMA FlushAllSafe ==
  ASSUME IInv, FlushAll
  PROVE  IInv'
<1>1. /\ UNCHANGED <<row, generation, life, snap, read, tx, lost>>
      /\ reset' = TRUE /\ stale' = Instances /\ held' = [i \in Instances |-> Zero]
      /\ redis' = [s \in Shards |-> Zero] /\ peak' = Zero
  BY DEF FlushAll, pg, process
<1>2. Nothing /\ row \in [Cells -> Row]
  BY NothingYet DEF IInv, Typed, Numbers
<1>3. Typed'
  BY <1>1, <1>2, OtherNumbers DEF Outside, IInv, Typed, Nothing
<1>4. Rest' /\ Statements' /\ Dated'
  BY <1>1 DEF IInv, Rest, Statements, Dated
<1>5. Clean'
  BY <1>1, <1>2, TotalOfNothing DEF Clean, Nothing
<1>6. Growing'
  BY <1>1 DEF Growing, Undisturbed
<1>7. Owed'
  <2>1. \A i \in Instances : held'[i] = Zero
    BY <1>1
  <2>2. \A i \in Instances, c \in Cells :
          0 <= snap[i][c] /\ 0 <= tx[i].job[c] /\ 0 <= row[c].votes /\ Zero[c] = 0
    BY <1>2 DEF IInv, Typed, Numbers, Transaction, Tally, Row, Nothing
  <2> QED
    BY <1>1, <2>1, <2>2 DEF Owed
<1> QED
  BY <1>3, <1>4, <1>5, <1>6, <1>7 DEF IInv

\* No row is of the new generation, and no instance holds what the old one has counted.
LEMMA BumpSafe ==
  ASSUME IInv, Bump
  PROVE  IInv'
<1>1. /\ UNCHANGED <<redis, row, life, snap, read, tx, lost, peak, held>>
      /\ reset /\ stale = {} /\ reset' = FALSE /\ stale' = {} /\ generation' = generation + 1
  BY DEF Bump, Raise, process, history
<1>2. /\ generation \in Nat \ {0} /\ row \in [Cells -> Row] /\ tx \in [Instances -> Transaction]
  BY DEF IInv, Typed, Numbers
<1>3. Typed'
  BY <1>1, <1>2, OtherNumbers DEF Outside, IInv, Typed
<1>4. Rest' /\ Statements'
  BY <1>1 DEF IInv, Rest, Statements
<1>5. Dated'
  <2>1. \A n \in Nat : n <= generation => n <= generation'
    BY <1>1, <1>2
  <2>2. /\ \A c \in Cells : row[c].gen \in Nat
        /\ \A i \in Instances : tx[i].gen \in Nat /\ \A c \in Cells : tx[i].written[c] \in Nat
    BY <1>2 DEF Row, Transaction, Tally
  <2> QED
    BY <1>1, <2>1, <2>2 DEF IInv, Dated
<1>6. \A c \in Cells : row[c].gen # generation'
  BY <1>1, <1>2 DEF IInv, Dated, Row
<1>7. Clean'
  BY <1>1, <1>6 DEF IInv, Clean
<1>8. ~Undisturbed'
  BY <1>1, <1>2 DEF Undisturbed
<1>9. \A i \in Instances : held[i] = Zero
  BY <1>1 DEF IInv, Owed, Undisturbed
<1>10. Growing' /\ Owed'
  BY <1>1, <1>8, <1>9 DEF IInv, Growing, Owed
<1> QED
  BY <1>3, <1>4, <1>5, <1>7, <1>10 DEF IInv

\* Every step keeps the invariant.
LEMMA NextIInv ==
  ASSUME IInv, [Next]_vars
  PROVE  IInv'
<1>1. CASE UNCHANGED vars
  <2>1. UNCHANGED <<redis, row, generation, life, snap, read, tx, reset, stale, lost, peak, held>>
    BY <1>1 DEF vars, pg, process, outside, history
  <2> QED
    BY <2>1 DEF IInv, Typed, Numbers, Rest, Statements, Dated, Clean, Growing, Undisturbed, Owed
<1>2. CASE Pass
  <2>1. UNCHANGED <<redis, row, generation, life, snap, read, tx, reset, stale, lost, peak, held>>
    BY <1>2 DEF Pass, pg, process, history
  <2> QED
    BY <2>1 DEF IInv, Typed, Numbers, Rest, Statements, Dated, Clean, Growing, Undisturbed, Owed
<1>3. CASE Outside /\ ~Pass
  BY <1>3, CountSafe, LoseSafe, FlushAllSafe, BumpSafe DEF Outside
<1>4. ASSUME NEW i \in Instances,
             Reader(i) \/ ReadFails(i) \/ Persister(i) \/ TxFails(i) \/ Process(i)
      PROVE  IInv'
  BY <1>4, ReaderSafe, PersisterSafe, LifeSafe, DownSafe DEF Process
<1> QED
  BY <1>1, <1>2, <1>3, <1>4 DEF Next

\* The inductive invariant of the way of the counts.
THEOREM InductiveInvariance == Spec => []IInv
BY InitIInv, NextIInv, PTL DEF Spec

\* After a planned stop Postgres has what the instance had in its snapshot (persister.go Run).
THEOREM PlannedStopsStore == Spec => []PlannedStopStores
<1>1. IInv => PlannedStopStores
  BY DEF IInv, Owed, PlannedStopStores
<1> QED
  BY <1>1, InductiveInvariance, PTL

\* Neither a stored nor a shown count is more than Redis has counted (architecture.md 5.7).
THEOREM NothingIsInvented == Spec => []NothingInvented
<1>1. IInv => NothingInvented
  BY DEF IInv, Clean, NothingInvented
<1> QED
  BY <1>1, InductiveInvariance, PTL

\* What is seen of the standings, and the steps that change it.
SameStandings == UNCHANGED <<row, generation, reset, peak>>

LEMMA StandingsSteps ==
  ASSUME [Next]_vars
  PROVE  \/ SameStandings
         \/ \E s \in Shards, c \in Cells : Count(s, c)
         \/ \E i \in Instances : Commit(i)
         \/ FlushAll \/ Bump
<1>1. CASE UNCHANGED vars \/ Lose \/ Pass
  BY <1>1 DEF SameStandings, vars, pg, outside, history, Lose, Pass
<1>2. ASSUME NEW i \in Instances, Reader(i) \/ ReadFails(i)
      PROVE  SameStandings
  BY <1>2 DEF SameStandings, Reader, Refresh, Read, Publish, ReadFails, ReaderUnchanged, pg,
              outside, history, CallFails
<1>3. ASSUME NEW i \in Instances, Persister(i) \/ TxFails(i), ~Commit(i)
      PROVE  SameStandings
  BY <1>3 DEF SameStandings, Persister, TxFails, DeadlockVictim, Persist, FinalPersist, Query, Write,
              Rollback, SaverUnchanged, pg, outside, history, CallFails
<1>4. ASSUME NEW i \in Instances, Process(i)
      PROVE  SameStandings
  BY <1>4 DEF SameStandings, Process, StopReaders, Exit, Kill, Down, Start, Ask, ProcessUnchanged, pg
<1> QED
  BY <1>1, <1>2, <1>3, <1>4 DEF Next, Outside, Persister

\* While the counters do not go down, neither the rows nor the snapshots of those who read do.
LEMMA CountsOnlyGrow ==
  ASSUME IInv, Next, NEW i \in Instances, NEW c \in Cells,
         life[i] = "up", life'[i] = "up", Tracked(i), Undisturbed
  PROVE  row'[c].votes >= row[c].votes /\ snap'[i][c] >= snap[i][c]
<1>1. /\ row \in [Cells -> Row] /\ row' \in [Cells -> Row] /\ generation' \in Nat
      /\ snap \in [Instances -> Tally] /\ snap' \in [Instances -> Tally]
  BY NextIInv DEF IInv, Typed, Numbers
<1>2. row'[c].votes >= row[c].votes
  <2>1. CASE row' = row
    BY <1>1, <2>1 DEF Row
  <2>2. ASSUME NEW j \in Instances, Commit(j)
        PROVE  row'[c].votes >= row[c].votes
    <3>1. generation' = 1
      BY <2>2 DEF Commit, SaverUnchanged, Undisturbed
    <3>2. row'[c].gen <= 1 /\ (row[c].gen = 0 => row[c].votes = 0)
      BY <3>1, NextIInv DEF IInv, Dated
    <3>3. row'[c].votes >= row[c].votes \/ row'[c].gen > row[c].gen
      BY <2>2, CommitIsUp DEF IInv, Typed
    <3>4. /\ row[c].gen \in Nat /\ row[c].votes \in Nat
          /\ row'[c].gen \in Nat /\ row'[c].votes \in Nat
      BY <1>1 DEF Row
    <3> QED
      BY <3>2, <3>3, <3>4
  <2>3. row' = row \/ \E j \in Instances : Commit(j)
    BY StandingsSteps DEF SameStandings, Count, FlushAll, Bump, Raise, pg
  <2> QED
    BY <2>1, <2>2, <2>3
<1>3. snap'[i][c] >= snap[i][c]
  <2>1. CASE snap'[i] = snap[i]
    BY <1>1, <2>1 DEF Tally
  <2>2. CASE Reader(i) \/ ReadFails(i)
    <3>1. PICK u \in Progress, n \in Tally :
            /\ ReaderTurns(i, u, n)
            /\ n[c] = snap[i][c] \/ n[c] = Ahead(redis, read[i], c)
      BY <2>2, ReaderStep
    <3>2. snap'[i] = n
      BY <1>1, <3>1 DEF ReaderTurns
    <3>3. snap[i][c] <= Ahead(redis, read[i], c)
      BY DEF IInv, Growing
    <3> QED
      BY <1>1, <3>1, <3>2, <3>3 DEF Tally
  <2>3. ASSUME NEW j \in Instances, Reader(j) \/ ReadFails(j) \/ Exit(j) \/ Kill(j), j # i
        PROVE  snap'[i] = snap[i]
    BY <1>1, <2>3 DEF Reader, Refresh, Read, Publish, ReadFails, Exit, Kill, Down
  <2>4. ~Exit(i) /\ ~Kill(i)
    BY DEF Exit, Kill, Down, IInv, Typed
  <2>5. \/ snap' = snap
        \/ \E j \in Instances : Reader(j) \/ ReadFails(j) \/ Exit(j) \/ Kill(j)
    <3>1. CASE Outside
      BY <3>1 DEF Outside, Count, Lose, Pass, FlushAll, Bump, Raise
    <3>2. ASSUME NEW j \in Instances, Persister(j) \/ TxFails(j)
          PROVE  snap' = snap
      BY <3>2 DEF Persister, Persist, FinalPersist, Query, Write, Commit, DeadlockVictim, TxFails,
                  Rollback, SaverUnchanged
    <3>3. ASSUME NEW j \in Instances, Process(j), ~Exit(j), ~Kill(j)
          PROVE  snap' = snap
      BY <3>3 DEF Process, StopReaders, Start, Ask
    <3> QED
      BY <3>1, <3>2, <3>3 DEF Next
  <2> QED
    BY <2>1, <2>2, <2>3, <2>4, <2>5
<1> QED
  BY <1>2, <1>3

\* No reader of an instance that tracks the poll sees a count go down from any answer to one with
\* Postgres, nor to one without Postgres unless what was stored had been above the snapshot
\* (admin.go resultsOf, its failed read included).
THEOREM ShownCountsNeverRegress == Spec => ShownNeverRegresses
<1> DEFINE Up == Undisturbed =>
                   \A i \in Instances : life[i] = "up" /\ life'[i] = "up" /\ Tracked(i) =>
                       \A c \in Cells, before, after \in BOOLEAN :
                           (before /\ row[c].votes > snap[i][c] => after) =>
                               Shown(i, c, after)' >= Shown(i, c, before)
<1>1. ASSUME IInv, [Next]_vars
      PROVE  [Up]_vars
  <2>1. ASSUME Next, NEW i \in Instances, NEW c \in Cells,
               NEW before \in BOOLEAN, NEW after \in BOOLEAN,
               before /\ row[c].votes > snap[i][c] => after,
               life[i] = "up", life'[i] = "up", Tracked(i), Undisturbed
        PROVE  Shown(i, c, after)' >= Shown(i, c, before)
    <3>1. row'[c].votes >= row[c].votes /\ snap'[i][c] >= snap[i][c]
      BY <1>1, <2>1, CountsOnlyGrow
    <3>2. /\ row[c].votes \in Nat /\ row'[c].votes \in Nat
          /\ snap[i][c] \in Nat /\ snap'[i][c] \in Nat
      BY <1>1, NextIInv DEF IInv, Typed, Numbers, Row, Tally
    <3>3. CASE before => after
      BY <3>1, <3>2, <3>3 DEF Shown, Larger
    <3>4. CASE before /\ ~after
      BY <2>1, <3>1, <3>2, <3>4 DEF Shown, Larger
    <3> QED
      BY <3>3, <3>4
  <2> QED
    BY <1>1, <2>1
<1> QED
  BY <1>1, InductiveInvariance, PTL DEF Spec, ShownNeverRegresses

-----------------------------------------------------------------------------
(* The standings.                                                          *)

\* Before the first vote nothing is stored.
LEMMA StandingsInit == Init => Standing!Init
BY DEF Init, Standing!Init, Standing!Nil, CurrentRun, StoredInRun, Zero

\* An increment is a vote, unless Redis counts again what it has lost.
LEMMA CountIsVote ==
  ASSUME IInv, NEW s \in Shards, NEW c \in Cells, Count(s, c)
  PROVE  [Standing!Next]_(Standing!standings)
<1>1. /\ peak' = [peak EXCEPT ![c] = Larger(@, Total(c) + 1)]
      /\ UNCHANGED <<row, generation, reset>>
  BY DEF Count, pg, outside
<1>2. CurrentRun' = CurrentRun /\ StoredInRun' = StoredInRun
  BY <1>1 DEF CurrentRun, StoredInRun
<1>3. /\ peak \in Tally /\ TotalOf(redis, c) \in Nat /\ TotalOf(redis, c) <= peak[c]
  BY LeftIsNat, 0 \in Nat DEF IInv, Typed, Numbers, Counters, Clean
<1>4. Larger(peak[c], Total(c) + 1) \in {peak[c], peak[c] + 1}
  BY <1>3 DEF Larger, Total, TotalOf, Tally
<1>5. peak' = peak \/ peak' = [peak EXCEPT ![c] = @ + 1]
  BY <1>1, <1>3, <1>4 DEF Tally
<1> QED
  BY <1>2, <1>5 DEF Standing!Next, Standing!Vote, Standing!standings

\* A commit raises the stored counts of the run, to nothing that was not counted.
LEMMA CommitIsStore ==
  ASSUME IInv, NEW i \in Instances, Commit(i)
  PROVE  Standing!Store
<1>1. UNCHANGED <<generation, reset, peak>>
  BY DEF Commit, SaverUnchanged, outside, history
<1>2. /\ IInv' /\ peak \in Tally /\ generation \in Nat
      /\ row \in [Cells -> Row] /\ row' \in [Cells -> Row]
  BY CommitSafe DEF IInv, Typed, Numbers
<1>3. ASSUME NEW c \in Cells
      PROVE  /\ StoredInRun'[c] \in Nat /\ StoredInRun[c] <= StoredInRun'[c]
             /\ StoredInRun'[c] <= peak[c]
  <2>1. /\ peak[c] \in Nat /\ row[c].votes \in Nat /\ row'[c].votes \in Nat
        /\ row[c].gen \in Nat /\ row'[c].gen \in Nat
    BY <1>2 DEF Tally, Row
  <2>2. /\ StoredInRun[c] = IF ~reset /\ row[c].gen = generation THEN row[c].votes ELSE 0
        /\ StoredInRun'[c] = IF ~reset /\ row'[c].gen = generation THEN row'[c].votes ELSE 0
    BY <1>1 DEF StoredInRun
  <2>3. row'[c].gen <= generation
    BY <1>1, <1>2 DEF IInv, Dated
  <2>4. /\ row'[c].votes >= row[c].votes \/ row'[c].gen > row[c].gen
        /\ row'[c].gen >= row[c].gen
    BY <2>1, CommitIsUp, CommitRaises DEF IInv, Typed
  <2>5. ~reset /\ row'[c].gen = generation => row'[c].votes <= peak[c]
    BY <1>1, <1>2 DEF IInv, Clean
  <2>6. CASE ~reset /\ row[c].gen = generation
    BY <1>2, <2>1, <2>2, <2>3, <2>4, <2>5, <2>6
  <2>7. CASE reset \/ row[c].gen # generation
    BY <2>1, <2>2, <2>5, <2>7
  <2> QED
    BY <2>6, <2>7
<1>4. StoredInRun' \in [Cells -> Nat]
  BY <1>3 DEF StoredInRun
<1>5. CurrentRun' = CurrentRun
  BY <1>1 DEF CurrentRun
<1> QED
  BY <1>1, <1>3, <1>4, <1>5 DEF Standing!Store, Standing!Between

\* make reset ends the run as soon as it has cleared the counters; the new generation is that
\* of the run that has begun then, and no row has it yet.
LEMMA ResetIsReset ==
  ASSUME IInv
  PROVE  /\ FlushAll => Standing!Reset
         /\ Bump => UNCHANGED (Standing!standings)
<1>1. ASSUME FlushAll
      PROVE  Standing!Reset
  <2>1. ~reset /\ reset' /\ generation' = generation /\ peak' = Zero
    BY <1>1 DEF FlushAll, pg
  <2> QED
    BY <2>1 DEF Standing!Reset, Standing!Nil, CurrentRun, StoredInRun, Zero
<1>2. ASSUME Bump
      PROVE  UNCHANGED (Standing!standings)
  <2>1. reset /\ ~reset' /\ generation' = generation + 1 /\ row' = row /\ peak' = peak
    BY <1>2 DEF Bump, Raise, history
  <2>2. generation \in Nat /\ row \in [Cells -> Row]
    BY DEF IInv, Typed, Numbers
  <2>3. \A c \in Cells : row[c].gen # generation + 1
    BY <2>2 DEF IInv, Dated, Row
  <2> QED
    BY <2>1, <2>3 DEF Standing!standings, CurrentRun, StoredInRun
<1> QED
  BY <1>1, <1>2

\* The rows implement the standings: whatever instances, failures and resets there are, what is
\* stored of a run only grows, up to what it has counted (store.go SaveResults).
THEOREM StandingsAreImplemented == Spec => ImplementsStandings
<1>1. ASSUME IInv, [Next]_vars
      PROVE  [Standing!Next]_(Standing!standings)
  <2>1. CASE SameStandings
    BY <2>1 DEF SameStandings, Standing!standings, CurrentRun, StoredInRun
  <2>2. CASE FlushAll \/ Bump
    BY <1>1, <2>2, ResetIsReset DEF Standing!Next
  <2>3. ASSUME NEW i \in Instances, Commit(i)
        PROVE  Standing!Next
    BY <1>1, <2>3, CommitIsStore DEF Standing!Next
  <2> QED
    BY <1>1, <2>1, <2>2, <2>3, StandingsSteps, CountIsVote
<1> QED
  BY <1>1, StandingsInit, InductiveInvariance, PTL DEF Spec, ImplementsStandings, Standing!Spec

-----------------------------------------------------------------------------
\* All that the shards can count: the bound of every count on its way.
Full == [s \in Shards |-> MaxCount]
Cap(c) == NumShards * MaxCount[c]

Flags ==
    /\ cached \in [Instances -> BOOLEAN]
    /\ past \in BOOLEAN /\ reset \in BOOLEAN /\ lost \in BOOLEAN

\* The bounds of faults and resets.
Budget ==
    /\ faults \in 0..MaxFaults
    /\ generation <= MaxResets + 1 /\ (reset => generation <= MaxResets)

\* No count is above what the shards can count, and neither is what a read will have added up
\* if all shards that it has not read are full.
Small ==
    /\ \A s \in Shards, c \in Cells : redis[s][c] <= MaxCount[c]
    /\ \A c \in Cells : peak[c] <= Cap(c) /\ row[c].votes <= Cap(c)
    /\ \A i \in Instances, c \in Cells :
        /\ snap[i][c] <= Cap(c) /\ tx[i].job[c] <= Cap(c) /\ held[i][c] <= Cap(c)
        /\ Ahead(Full, read[i], c) <= Cap(c)

\* The sum over the shards is their number times the bound of one.
LEMMA CapIsFull ==
  ASSUME NEW c \in Cells
  PROVE  /\ Full \in Counters /\ MaxCount[c] \in Nat /\ Cap(c) \in Nat
         /\ TotalOf(Full, c) = Cap(c) /\ Ahead(Full, NoRead, c) = Cap(c) /\ Zero[c] <= Cap(c)
<1>1. MaxCount \in Tally /\ MaxCount[c] \in Nat
  BY BoundsAssumption DEF Tally
<1>2. Full \in Counters /\ \A s \in Shards : Full[s][c] = MaxCount[c]
  BY <1>1 DEF Full, Counters
<1>3. Cap(c) \in Nat
  BY <1>1, Limits0 DEF Cap
<1>4. TotalOf(Full, c) = Cap(c)
  <2> DEFINE f == [s \in Shards |-> Full[s][c]]
  <2>1. \A s \in Shards : f[s] = MaxCount[c]
    BY <1>2
  <2>2. Cardinality(Shards) = NumShards
    BY Limits0, FS_Interval DEF Shards
  <2>3. SumFunctionOnSet(f, Shards) = Cardinality(Shards) * MaxCount[c]
    <3> HIDE DEF f
    <3> QED BY <1>1, <2>1, Limits0, SumOfConstant
  <2> QED
    BY <2>2, <2>3, SumOverShards DEF TotalOf, Cap
<1>5. Ahead(Full, NoRead, c) = TotalOf(Full, c)
  BY <1>2, NothingYet, AheadOfRead DEF Nothing
<1>6. Zero[c] = 0
  BY NothingYet DEF Nothing
<1> QED
  BY <1>1, <1>2, <1>3, <1>4, <1>5, <1>6

\* What has been counted at most is no more than what the shards can count.
LEMMA TotalIsSmall ==
  ASSUME NEW r \in Counters, NEW c \in Cells, \A s \in Shards : r[s][c] <= MaxCount[c]
  PROVE  TotalOf(r, c) <= Cap(c)
<1> DEFINE f == [s \in Shards |-> r[s][c]]
           h == [s \in Shards |-> Full[s][c]]
<1>1. \A s \in Shards : f[s] \in Nat /\ h[s] \in Nat /\ f[s] <= h[s]
  BY CapIsFull DEF Counters, Tally, Full
<1>2. SumFunctionOnSet(f, Shards) <= SumFunctionOnSet(h, Shards)
  <2> HIDE DEF f, h
  <2> QED BY <1>1, Limits0, SumIsMonotone
<1>3. TotalOf(r, c) <= TotalOf(Full, c)
  BY <1>2, SumOverShards DEF TotalOf
<1> QED
  BY <1>3, CapIsFull

LEMMA InitBounded == Init => Flags /\ Budget /\ Small
<1> SUFFICES ASSUME Init PROVE Flags /\ Budget /\ Small
  OBVIOUS
<1>1. Flags /\ Budget
  <2>1. Flags
    BY Zenon DEF Init, Flags
  <2>2. Budget
    BY BoundsAssumption DEF Init, Budget
  <2> QED
    BY <2>1, <2>2
<1>2. ASSUME NEW c \in Cells
      PROVE  MaxCount[c] \in Nat /\ Cap(c) \in Nat /\ Zero[c] = 0 /\ Ahead(Full, NoRead, c) <= Cap(c)
  BY CapIsFull, NothingYet DEF Nothing
<1>3. Small
  BY <1>2, NothingYet DEF Init, Small, Nothing
<1> QED
  BY <1>1, <1>3

\* A flag is set, reset or left alone.
LEMMA NextFlags ==
  ASSUME Flags, [Next]_vars
  PROVE  Flags'
<1> DEFINE Same == UNCHANGED <<cached, past, reset, lost>>
<1>1. CASE UNCHANGED vars
  BY <1>1, Zenon DEF vars, process, outside, history, Flags
<1>2. ASSUME NEW i \in Instances, Reader(i) \/ ReadFails(i)
      PROVE  Same
  BY <1>2, Zenon DEF Reader, Refresh, Read, Publish, ReadFails, ReaderUnchanged, process, outside,
     history, CallFails
<1>3. ASSUME NEW i \in Instances, Persister(i) \/ TxFails(i)
      PROVE  Same
  BY <1>3, Zenon DEF Persister, Persist, FinalPersist, Query, Write, Commit, DeadlockVictim, TxFails,
     Rollback, SaverUnchanged, process, outside, history, CallFails
<1>4. ASSUME NEW i \in Instances, Process(i)
      PROVE  /\ UNCHANGED <<past, reset, lost>>
             /\ cached' = cached \/ \E b \in BOOLEAN : cached' = [cached EXCEPT ![i] = b]
  BY <1>4, Zenon DEF Process, StopReaders, Exit, Kill, Down, Start, Ask, ProcessUnchanged
<1>5. CASE Outside
  BY <1>5, Zenon DEF Outside, Count, Lose, Pass, FlushAll, Bump, Raise, process, outside, history, Flags
<1>6. Same => Flags'
  BY Zenon DEF Flags
<1>7. ASSUME NEW i \in Instances, Process(i)
      PROVE  Flags'
  <2>1. cached' \in [Instances -> BOOLEAN]
    BY <1>4, <1>7 DEF Flags
  <2> QED
    BY <1>4, <1>7, <2>1, Zenon DEF Flags
<1> QED
  BY <1>1, <1>2, <1>3, <1>5, <1>6, <1>7, Zenon DEF Next

\* Faults and resets are counted up to their bounds.
LEMMA NextBudget ==
  ASSUME IInv, Budget, [Next]_vars
  PROVE  Budget'
<1>1. MaxFaults \in Nat /\ MaxResets \in Nat /\ generation \in Nat
  BY BoundsAssumption DEF IInv, Typed, Numbers
<1> DEFINE Spent == faults' \in {faults, faults + 1} /\ (faults' = faults \/ faults < MaxFaults)
<1>2. UNCHANGED <<generation, reset>> /\ Spent => Budget'
  BY <1>1 DEF Budget
<1>3. CASE UNCHANGED vars
  BY <1>3, <1>2 DEF vars, pg, outside
<1>4. ASSUME NEW i \in Instances, Reader(i) \/ ReadFails(i)
      PROVE  UNCHANGED <<generation, reset>> /\ Spent
  BY <1>4 DEF Reader, Refresh, Read, Publish, ReadFails, ReaderUnchanged, pg, outside, CallFails, Fault
<1>5. ASSUME NEW i \in Instances, Persister(i) \/ TxFails(i)
      PROVE  UNCHANGED <<generation, reset>> /\ Spent
  BY <1>5 DEF Persister, Persist, FinalPersist, Query, Write, Commit, DeadlockVictim, TxFails,
     Rollback, SaverUnchanged, outside, CallFails, Fault
<1>6. ASSUME NEW i \in Instances, Process(i)
      PROVE  UNCHANGED <<generation, reset>> /\ Spent
  BY <1>6 DEF Process, StopReaders, Exit, Kill, Down, Start, Ask, Stopped, ProcessUnchanged, pg, Fault
<1>7. CASE Bump
  BY <1>1, <1>7 DEF Bump, Raise, Budget
<1>8. CASE FlushAll
  BY <1>1, <1>8 DEF FlushAll, pg, Budget
<1>9. CASE Outside /\ ~Bump /\ ~FlushAll
  <2>1. UNCHANGED <<generation, reset>> /\ Spent
    BY <1>9 DEF Outside, Count, Lose, Pass, pg, outside, Fault
  <2> QED
    BY <1>2, <2>1
<1> HIDE DEF Spent
<1> QED
  BY <1>2, <1>3, <1>4, <1>5, <1>6, <1>7, <1>8, <1>9 DEF Next

\* A sum that grows by what a shard has counted is no more than if that shard were full.
LEMMA ReadIsSmall ==
  ASSUME NEW t \in Progress, NEW c \in Cells, t.next \in Shards, Ahead(Full, t, c) <= Cap(c),
         NEW n \in Nat, n <= MaxCount[c], NEW u \in Progress,
         u.next = t.next + 1, u.sum[c] = t.sum[c] + n
  PROVE  Ahead(Full, u, c) <= Cap(c)
<1>1. /\ Full \in Counters /\ Cap(c) \in Nat /\ MaxCount[c] \in Nat /\ Full[t.next][c] = MaxCount[c]
  BY CapIsFull DEF Full
<1>2. t.next \in Nat /\ t.next # 0 /\ u.next # 0 /\ t.next + 1 \in Nat /\ t.sum[c] \in Nat
  BY DEF Shards, Progress, Tally
<1>3. LeftOf(Full, c, t.next) = MaxCount[c] + LeftOf(Full, c, t.next + 1)
  BY <1>1, LeftToRead
<1>4. LeftOf(Full, c, t.next + 1) \in Nat /\ LeftOf(Full, c, t.next) \in Nat
  BY <1>1, <1>2, LeftIsNat
<1>5. Ahead(Full, t, c) = t.sum[c] + LeftOf(Full, c, t.next)
  BY <1>2 DEF Ahead
<1>6. Ahead(Full, u, c) = t.sum[c] + n + LeftOf(Full, c, t.next + 1)
  BY <1>2 DEF Ahead
<1> QED
  BY <1>1, <1>2, <1>3, <1>4, <1>5, <1>6

\* The snapshotter adds up no more than what the shards can count.
LEMMA ReaderSmall ==
  ASSUME IInv, Small, NEW i \in Instances, Reader(i) \/ ReadFails(i)
  PROVE  Small'
<1>1. UNCHANGED <<redis, row, tx, peak, held>>
  BY DEF Reader, Refresh, Read, Publish, ReadFails, ReaderUnchanged, pg, history
<1>2. /\ redis \in Counters /\ read \in [Instances -> Progress] /\ snap \in [Instances -> Tally]
      /\ read[i] \in Progress
  BY DEF IInv, Typed, Numbers, Counters
<1>3. \A c \in Cells : /\ Full \in Counters /\ Ahead(Full, NoRead, c) <= Cap(c) /\ Zero[c] <= Cap(c)
  BY CapIsFull
<1>4. Shards # {} /\ Cells # {}
  BY Limits0, Limits DEF Shards
<1>5. PICK u, n :
        /\ read' = [read EXCEPT ![i] = u] /\ snap' = [snap EXCEPT ![i] = n]
        /\ \A c \in Cells : n[c] <= Cap(c) /\ Ahead(Full, u, c) <= Cap(c)
  <2>1. /\ snap = [snap EXCEPT ![i] = snap[i]] /\ read = [read EXCEPT ![i] = read[i]]
        /\ \A c \in Cells : snap[i][c] <= Cap(c) /\ Ahead(Full, read[i], c) <= Cap(c)
    BY <1>2 DEF Small
  <2>2. CASE Refresh(i) /\ Tracked(i)
    <3> DEFINE u == [read[i] EXCEPT !.next = 1]
    <3>1. \A c \in Cells : Ahead(Full, u, c) = Ahead(Full, read[i], c)
      BY <1>2, <1>3, <2>2, AheadOfRead DEF Refresh, IInv, Rest
    <3>2. read' = [read EXCEPT ![i] = u] /\ snap' = [snap EXCEPT ![i] = snap[i]]
      BY <2>1, <2>2 DEF Refresh, Begun
    <3> HIDE DEF u
    <3> QED
      BY <2>1, <3>1, <3>2
  <2>3. CASE Refresh(i) /\ ~Tracked(i)
    <3>1. read' = [read EXCEPT ![i] = read[i]] /\ snap' = [snap EXCEPT ![i] = Zero]
      BY <2>1, <2>3 DEF Refresh
    <3> QED
      BY <1>3, <2>1, <3>1
  <2>4. CASE Read(i)
    <3> DEFINE u == [next |-> read[i].next + 1,
                     sum  |-> [d \in Cells |-> read[i].sum[d] + redis[read[i].next][d]]]
    <3>1. read[i].next \in Shards
      BY <2>4 DEF Read
    <3>2. u \in Progress
      <4>1. u.next \in 0..(NumShards + 1)
        BY <3>1, Limits0 DEF Shards
      <4>2. u.sum \in Tally
        BY <1>2, <3>1 DEF Progress, Counters, Tally
      <4> QED
        BY <4>1, <4>2 DEF Progress
    <3>3. \A c \in Cells : /\ u.next = read[i].next + 1
                           /\ u.sum[c] = read[i].sum[c] + redis[read[i].next][c]
      OBVIOUS
    <3>4. read' = [read EXCEPT ![i] = u] /\ snap' = [snap EXCEPT ![i] = snap[i]]
      BY <2>1, <2>4 DEF Read
    <3> HIDE DEF u
    <3>5. \A c \in Cells : redis[read[i].next][c] \in Nat /\ redis[read[i].next][c] <= MaxCount[c]
      BY <1>2, <3>1 DEF Small, Counters, Tally
    <3>6. \A c \in Cells : Ahead(Full, u, c) <= Cap(c)
      BY <1>2, <2>1, <3>1, <3>2, <3>3, <3>5, ReadIsSmall
    <3> QED
      BY <2>1, <3>4, <3>6
  <2>5. CASE Publish(i)
    <3>1. read[i].next = NumShards + 1
      BY <2>5 DEF Publish
    <3>2. \A c \in Cells : read[i].sum[c] = Ahead(Full, read[i], c)
      BY <1>2, <1>3, <3>1, AheadOfRead
    <3>3. read' = [read EXCEPT ![i] = NoRead] /\ snap' = [snap EXCEPT ![i] = read[i].sum]
      BY <2>5 DEF Publish
    <3>4. \A c \in Cells : read[i].sum[c] <= Cap(c)
      BY <2>1, <3>2
    <3> QED
      BY <1>3, <3>3, <3>4
  <2>6. CASE ReadFails(i)
    <3>1. read' = [read EXCEPT ![i] = NoRead] /\ snap' = [snap EXCEPT ![i] = snap[i]]
      BY <2>1, <2>6 DEF ReadFails
    <3> QED
      BY <1>3, <2>1, <3>1
  <2> QED
    BY <2>2, <2>3, <2>4, <2>5, <2>6 DEF Reader
<1>6. \A j \in Instances : /\ read'[j] = (IF j = i THEN u ELSE read[j])
                           /\ snap'[j] = (IF j = i THEN n ELSE snap[j])
  BY <1>2, <1>5
<1> QED
  BY <1>1, <1>5, <1>6 DEF Small

\* A transaction takes over the snapshot, and a row the count of the transaction.
LEMMA PersisterSmall ==
  ASSUME IInv, Small, NEW i \in Instances, Persister(i) \/ TxFails(i)
  PROVE  Small'
<1>1. UNCHANGED <<redis, snap, read, peak>>
  BY DEF Persister, Persist, FinalPersist, Query, Write, Commit, DeadlockVictim, TxFails, Rollback,
         SaverUnchanged, history
<1>2. /\ tx \in [Instances -> Transaction] /\ held \in [Instances -> Tally] /\ row \in [Cells -> Row]
  BY DEF IInv, Typed, Numbers
<1>3. \A c \in Cells : Zero[c] <= Cap(c) /\ NoTx.job = Zero
  BY CapIsFull DEF NoTx
<1>4. ASSUME NEW j \in Instances
      PROVE  tx'[j].job \in {tx[j].job, snap[j], Zero} /\ held'[j] \in {held[j], Zero}
  <2>1. CASE Persist(i) \/ FinalPersist(i)
    BY <1>2, <2>1 DEF Persist, FinalPersist, Save, history, Transaction
  <2>2. CASE \E c \in Cells : Query(i, c) \/ Write(i, c)
    BY <1>2, <2>2 DEF Query, Write, history, Transaction
  <2>3. ASSUME EndTx(i)
        PROVE  tx'[j].job \in {tx[j].job, Zero}
    BY <1>2, <2>3 DEF EndTx, NoTx
  <2>4. CASE Commit(i)
    BY <2>3, <2>4 DEF Commit, history
  <2>5. CASE Rollback(i)
    BY <1>2, <2>3, <2>5 DEF Rollback
  <2> QED
    BY <2>1, <2>2, <2>4, <2>5 DEF Persister, DeadlockVictim, TxFails
<1>5. ASSUME NEW c \in Cells
      PROVE  row'[c].votes <= Cap(c)
  <2>1. row[c].votes <= Cap(c) /\ tx[i].job[c] <= Cap(c)
    BY DEF Small
  <2>2. CASE row' = row
    BY <2>1, <2>2
  <2>3. CASE Commit(i)
    <3>1. row'[c] = IF tx[i].written[c] = 0 THEN row[c]
                    ELSE Upsert(row[c], tx[i].job[c], tx[i].written[c])
      BY <2>3 DEF Commit
    <3>2. row[c] \in Row /\ tx[i].job[c] \in Nat /\ tx[i].written[c] \in Nat
      BY <1>2 DEF Transaction, Tally
    <3>3. row'[c].votes \in {row[c].votes, tx[i].job[c]}
      BY <3>1, <3>2, UpsertBounds
    <3> QED
      BY <2>1, <3>3
  <2>4. row' = row \/ Commit(i)
    BY DEF Persister, Persist, FinalPersist, Query, Write, DeadlockVictim, TxFails, Rollback
  <2> QED
    BY <2>2, <2>3, <2>4
<1> QED
  BY <1>1, <1>3, <1>4, <1>5 DEF Small

\* A process that stops or starts holds its snapshot or nothing.
LEMMA ProcessSmall ==
  ASSUME IInv, Small, NEW i \in Instances, Process(i)
  PROVE  Small'
<1>1. UNCHANGED <<redis, row, peak>>
  BY DEF Process, StopReaders, Exit, Kill, Down, Start, Ask, ProcessUnchanged, pg
<1>2. /\ tx \in [Instances -> Transaction] /\ held \in [Instances -> Tally]
      /\ snap \in [Instances -> Tally] /\ read \in [Instances -> Progress]
  BY DEF IInv, Typed, Numbers
<1>3. \A c \in Cells : /\ Zero[c] <= Cap(c) /\ NoTx.job = Zero /\ Ahead(Full, NoRead, c) <= Cap(c)
  BY CapIsFull DEF NoTx
<1>4. ASSUME NEW j \in Instances
      PROVE  /\ tx'[j].job \in {tx[j].job, Zero} /\ held'[j] \in {held[j], snap[j], Zero}
             /\ snap'[j] \in {snap[j], Zero} /\ read'[j] \in {read[j], NoRead}
  <2>1. CASE StopReaders(i)
    BY <1>2, <2>1 DEF StopReaders
  <2>2. CASE Start(i) \/ Ask(i)
    BY <1>2, <2>2 DEF Start, Ask
  <2>3. CASE Exit(i) \/ Kill(i)
    BY <1>2, <2>3 DEF Exit, Kill, Down, NoTx
  <2> QED
    BY <2>1, <2>2, <2>3 DEF Process
<1> QED
  BY <1>1, <1>3, <1>4 DEF Small

\* The counters stay below their bounds, and so do their peaks.
LEMMA OutsideSmall ==
  ASSUME IInv, Small, Outside
  PROVE  Small'
<1>1. UNCHANGED <<row, snap, tx>>
  BY DEF Outside, Count, Lose, Pass, FlushAll, Bump, Raise, pg
<1>2. \A c \in Cells : Zero[c] <= Cap(c) /\ Zero[c] = 0 /\ Ahead(Full, NoRead, c) <= Cap(c)
                       /\ MaxCount[c] \in Nat
  BY CapIsFull, NothingYet DEF Nothing
<1>3. CASE Pass \/ Bump
  BY <1>1, <1>3 DEF Pass, Bump, Raise, history, Small
<1>4. CASE Lose
  <2>1. /\ redis' = [s \in Shards |-> Zero] /\ read' = [i \in Instances |-> NoRead]
        /\ held' = [i \in Instances |-> Zero] /\ peak' = peak
    BY <1>4 DEF Lose
  <2> QED
    BY <1>1, <1>2, <2>1 DEF Small
<1>5. CASE FlushAll
  <2>1. /\ redis' = [s \in Shards |-> Zero] /\ read' = read
        /\ held' = [i \in Instances |-> Zero] /\ peak' = Zero
    BY <1>5 DEF FlushAll
  <2> QED
    BY <1>1, <1>2, <2>1 DEF Small
<1>6. ASSUME NEW s \in Shards, NEW c \in Cells, Count(s, c)
      PROVE  Small'
  <2>1. /\ redis[s][c] < MaxCount[c] /\ redis' = [redis EXCEPT ![s][c] = @ + 1]
        /\ peak' = [peak EXCEPT ![c] = Larger(@, Total(c) + 1)]
        /\ read' = read /\ held' = held
    BY <1>6 DEF Count
  <2>2. redis \in Counters /\ peak \in Tally
    BY DEF IInv, Typed, Numbers, Counters
  <2>3. Incremented(redis', redis, s, c)
    BY <2>1 DEF Incremented
  <2>4. redis' \in Counters /\ TotalOf(redis', c) = TotalOf(redis, c) + 1
    BY <2>2, <2>3, LeftWhenCounted, 0 \in Nat
  <2>5. \A x \in Shards, d \in Cells : redis'[x][d] <= MaxCount[d]
    BY <1>2, <2>1, <2>2 DEF Small, Counters, Tally
  <2>6. TotalOf(redis', c) <= Cap(c)
    BY <2>4, <2>5, TotalIsSmall
  <2>7. peak'[c] = Larger(peak[c], TotalOf(redis', c)) /\ \A d \in Cells \ {c} : peak'[d] = peak[d]
    BY <2>1, <2>2, <2>4 DEF Tally, Total, TotalOf
  <2>8. \A d \in Cells : peak'[d] <= Cap(d)
    BY <2>6, <2>7 DEF Small, Larger
  <2> QED
    BY <1>1, <2>1, <2>5, <2>8 DEF Small
<1> QED
  BY <1>3, <1>4, <1>5, <1>6 DEF Outside

\* Every step keeps the bounds.
LEMMA NextSmall ==
  ASSUME IInv, Small, [Next]_vars
  PROVE  Small'
<1>1. CASE UNCHANGED vars
  BY <1>1 DEF vars, pg, history, Small
<1> QED
  BY <1>1, ReaderSmall, PersisterSmall, ProcessSmall, OutsideSmall DEF Next

\* The type invariant, for any number of shards, options and instances.
THEOREM TypeCorrectness == Spec => []TypeOK
<1>1. ASSUME IInv, Flags, Budget, Small
      PROVE  TypeOK
  <2>1. /\ redis \in [Shards -> [Cells -> Nat]] /\ row \in [Cells -> Row] /\ generation \in Nat \ {0}
        /\ life \in [Instances -> {"up", "stopping", "down"}]
        /\ snap \in [Instances -> Tally] /\ read \in [Instances -> Progress]
        /\ tx \in [Instances -> Transaction] /\ stale \subseteq Instances
        /\ peak \in Tally /\ held \in [Instances -> Tally]
    BY <1>1 DEF IInv, Typed, Numbers, Tally
  <2>2. ASSUME NEW n \in Tally, \A c \in Cells : n[c] <= Cap(c)
        PROVE  n \in Counts
    BY <2>2 DEF Counts, Tally, Cap
  <2>3. MaxResets + 1 \in Nat /\ \A g \in Nat : g <= generation => g \in Generations
    BY <1>1, <2>1, BoundsAssumption DEF Budget, Generations
  <2>4. generation \in Generations \ {0}
    BY <2>1, <2>3
  <2>5. /\ row \in [Cells -> [votes : Nat, gen : Generations]]
        /\ [c \in Cells |-> row[c].votes] \in Counts
    <3>1. \A c \in Cells : row[c] \in [votes : Nat, gen : Generations]
      BY <1>1, <2>1, <2>3 DEF IInv, Dated, Row
    <3>2. [c \in Cells |-> row[c].votes] \in Tally
      BY <2>1 DEF Row, Tally
    <3>3. [c \in Cells |-> row[c].votes] \in Counts
      BY <1>1, <2>2, <3>2 DEF Small
    <3> QED
      BY <2>1, <3>1, <3>3
  <2>6. snap \in [Instances -> Counts] /\ held \in [Instances -> Counts] /\ peak \in Counts
    BY <1>1, <2>1, <2>2 DEF Small
  <2>7. ASSUME NEW i \in Instances
        PROVE  read[i] \in [next : 0..(NumShards + 1), sum : Counts]
    <3>1. read[i] \in Progress
      BY <2>1
    <3>2. ASSUME NEW c \in Cells
          PROVE  read[i].sum[c] <= Cap(c)
      <4>1. /\ read[i].sum[c] \in Nat /\ read[i].next \in Nat /\ Cap(c) \in Nat /\ Full \in Counters
        BY <3>1, CapIsFull DEF Progress, Tally
      <4>2. LeftOf(Full, c, read[i].next) \in Nat
        BY <4>1, LeftIsNat
      <4>3. Ahead(Full, read[i], c) <= Cap(c)
        BY <1>1 DEF Small
      <4>4. read[i].next = 0 => read[i].sum[c] = 0
        BY <1>1, NothingYet DEF IInv, Rest, Nothing
      <4> QED
        BY <4>1, <4>2, <4>3, <4>4 DEF Ahead
    <3>3. read[i].sum \in Counts
      BY <2>2, <3>1, <3>2 DEF Progress
    <3> QED
      BY <3>1, <3>3 DEF Progress
  <2>8. ASSUME NEW i \in Instances
        PROVE  /\ tx[i].at \in {"idle", "save", "final", "returned"}
               /\ tx[i].job \in Counts /\ tx[i].todo \subseteq Cells
               /\ tx[i].stmt \in tx[i].todo \cup {0} /\ tx[i].gen \in Generations
               /\ tx[i].written \in [Cells -> Generations]
    <3>1. tx[i] \in Transaction
      BY <2>1
    <3>2. tx[i].job \in Counts
      BY <1>1, <2>2, <3>1 DEF Small, Transaction
    <3>3. tx[i].stmt \in tx[i].todo \cup {0}
      BY <1>1 DEF IInv, Statements
    <3>4. tx[i].gen \in Generations /\ \A c \in Cells : tx[i].written[c] \in Generations
      BY <1>1, <2>3, <3>1 DEF IInv, Dated, Transaction, Tally
    <3>5. tx[i].written \in [Cells -> Generations]
      BY <3>1, <3>4 DEF Transaction, Tally
    <3> QED
      BY <3>1, <3>2, <3>3, <3>4, <3>5 DEF Transaction
  <2>9. read \in [Instances -> [next : 0..(NumShards + 1), sum : Counts]]
    BY <2>1, <2>7
  <2>10. /\ cached \in [Instances -> BOOLEAN] /\ {past, reset} \subseteq BOOLEAN /\ lost \in BOOLEAN
    BY <1>1, Zenon DEF Flags
  <2>11. faults \in 0..MaxFaults /\ \A s \in Shards, c \in Cells : redis[s][c] <= MaxCount[c]
    BY <1>1 DEF Budget, Small
  <2> QED
    BY <2>1, <2>4, <2>5, <2>6, <2>8, <2>9, <2>10, <2>11, Zenon DEF TypeOK
<1>2. Spec => [](Flags /\ Budget /\ Small)
  BY InitBounded, NextFlags, NextBudget, NextSmall, InductiveInvariance, PTL DEF Spec
<1> QED
  BY <1>1, <1>2, InductiveInvariance, PTL
=============================================================================
