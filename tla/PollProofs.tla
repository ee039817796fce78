----------------------------- MODULE PollProofs -----------------------------
(***************************************************************************)
(* Proofs about polls, for any polls and requests, and all values of the    *)
(* limits: ValidIsStorable, LoadsAgree, VoteAddsUp and PageIsAccepted of    *)
(* PollModel, WarmedIsHit, MissesBounded and CreatedIsFound of PollCache.   *)
(*                                                                         *)
(* The model: the options of the rows, read by position, are the options;   *)
(* so a copy of the poll says what its description says, and the positions  *)
(* that an accepted vote touches are as many as the options it names.  The  *)
(* page never holds an option twice, nor more than the limit.               *)
(*                                                                         *)
(* The cache: a request joins a load only if its poll is not cached, and    *)
(* what has been warmed is cached before the first request comes.  A miss   *)
(* is known at most LoadLimit after its load began, and the load began      *)
(* before the creation: so both a caller of that load and a request that    *)
(* reads the remembered miss asked in time.                                *)
(***************************************************************************)
EXTENDS PollModel, PollCache, FiniteSetTheorems, SequenceTheorems, TLAPS

\* The poll is as Validate lets it pass, and every option has an id of its own.
Made ==
    /\ desc \in Descriptions /\ Valid(desc)
    /\ ids \in Seq(OptionIds) /\ Len(ids) = Len(desc.texts) /\ Distinct(ids)

\* The page has chosen options of the poll, none of them twice and not too many.
Picked ==
    /\ chosen \in Seq(OptionIds) /\ Distinct(chosen)
    /\ \A i \in DOMAIN chosen : \E j \in DOMAIN ids : ids[j] = chosen[i]
    /\ Len(chosen) <= PageLimit

PollInv ==
    IF desc = NoPoll THEN ids \in SeqsUpTo(OptionIds, MaxOptions) /\ chosen = <<>> ELSE Made /\ Picked

-----------------------------------------------------------------------------
\* The functions on 1..k are the sequences.
LEMMA SeqsUpToAreSeqs ==
  ASSUME NEW S, NEW n \in Nat
  PROVE  /\ \A s \in SeqsUpTo(S, n) : s \in Seq(S) /\ Len(s) \in 0..n /\ DOMAIN s = 1..Len(s)
         /\ \A s \in Seq(S) : Len(s) <= n => s \in SeqsUpTo(S, n)
<1>1. ASSUME NEW s \in SeqsUpTo(S, n)
      PROVE  s \in Seq(S) /\ Len(s) \in 0..n /\ DOMAIN s = 1..Len(s)
  <2>1. PICK k \in 0..n : s \in [1..k -> S]
    BY DEF SeqsUpTo
  <2>2. s \in Seq(S)
    BY <2>1, SeqDef
  <2>3. DOMAIN s = 1..Len(s) /\ DOMAIN s = 1..k /\ Len(s) \in Nat
    BY <2>1, <2>2, LenProperties
  <2>4. Len(s) = k
    BY <2>1, <2>3
  <2> QED
    BY <2>1, <2>2, <2>3, <2>4
<1>2. ASSUME NEW s \in Seq(S), Len(s) <= n
      PROVE  s \in SeqsUpTo(S, n)
  <2>1. Len(s) \in 0..n /\ s \in [1..Len(s) -> S]
    BY <1>2, LenProperties
  <2> QED
    BY <2>1 DEF SeqsUpTo
<1> QED
  BY <1>1, <1>2

\* A numbered set without repetitions has as many members as there are numbers.
LEMMA NumberedSize ==
  ASSUME NEW n \in Nat, NEW f, DOMAIN f = 1..n,
         \A i, j \in 1..n : f[i] = f[j] => i = j, f = [i \in 1..n |-> f[i]]
  PROVE  Cardinality({f[i] : i \in 1..n}) = n
<1> DEFINE T == {f[i] : i \in 1..n}
<1>1. f \in [1..n -> T]
  OBVIOUS
<1>2. f \in Injection(1..n, T)
  BY <1>1 DEF Injection, IsInjective
<1>3. f \in Surjection(1..n, T)
  BY <1>1 DEF Surjection
<1>4. ExistsBijection(1..n, T)
  BY <1>2, <1>3 DEF ExistsBijection, Bijection
<1> HIDE DEF T
<1>5. Cardinality(T) = n
  BY <1>4, FS_CountingElements
<1> QED
  BY <1>5 DEF T

\* No two positions hold the same.
LEMMA DistinctMeans ==
  ASSUME NEW S, NEW s \in Seq(S)
  PROVE  Distinct(s) <=> \A i, j \in 1..Len(s) : s[i] = s[j] => i = j
<1>1. DOMAIN s = 1..Len(s) /\ Len(s) \in Nat
  BY LenProperties
<1>2. ASSUME Distinct(s), NEW i \in 1..Len(s), NEW j \in 1..Len(s), s[i] = s[j]
      PROVE  i = j
  <2>1. ~(i < j) /\ ~(j < i)
    BY <1>1, <1>2 DEF Distinct
  <2> QED
    BY <1>1, <2>1
<1>3. ASSUME \A i, j \in 1..Len(s) : s[i] = s[j] => i = j
      PROVE  Distinct(s)
  BY <1>1, <1>3 DEF Distinct
<1> QED
  BY <1>2, <1>3

\* The rows of the options, read by position, are the options.
LEMMA RowsAreRead ==
  ASSUME NEW S, NEW s \in Seq(S)
  PROVE  InOrder(OptionRows(s)) = s
<1> DEFINE f == [i \in 1..Len(s) |-> [id |-> s[i], position |-> i - 1]]
           R == OptionRows(s)
<1>1. DOMAIN s = 1..Len(s) /\ Len(s) \in Nat /\ s = [i \in 1..Len(s) |-> s[i]]
  BY LenProperties
<1>2. R = {f[i] : i \in 1..Len(s)}
  BY <1>1 DEF OptionRows
<1>3. \A i, j \in 1..Len(s) : f[i] = f[j] => i = j
  <2>1. \A i \in 1..Len(s) : f[i].position = i - 1
    OBVIOUS
  <2> HIDE DEF f
  <2>2. ASSUME NEW i \in 1..Len(s), NEW j \in 1..Len(s), f[i] = f[j]
        PROVE  i = j
    <3>1. i - 1 = j - 1
      BY <2>1, <2>2
    <3> QED
      BY <1>1, <3>1
  <2> QED
    BY <2>2
<1>4. Cardinality(R) = Len(s)
  <2>1. DOMAIN f = 1..Len(s) /\ f = [i \in 1..Len(s) |-> f[i]]
    OBVIOUS
  <2> HIDE DEF f, R
  <2> QED
    BY <1>1, <1>2, <1>3, <2>1, NumberedSize
<1>5. ASSUME NEW i \in 1..Len(s)
      PROVE  (CHOOSE r \in R : r.position = i - 1).id = s[i]
  <2>1. f[i] \in R /\ f[i].position = i - 1
    BY <1>2
  <2> DEFINE t == CHOOSE r \in R : r.position = i - 1
  <2>2. t \in R /\ t.position = i - 1
    <3> HIDE DEF R, f
    <3> QED BY <2>1
  <2> HIDE DEF t
  <2>3. PICK k \in 1..Len(s) : t = f[k]
    BY <1>2, <2>2
  <2>4. f[k].position = k - 1 /\ f[k].id = s[k]
    OBVIOUS
  <2>5. k = i
    <3> HIDE DEF f, R
    <3> QED BY <1>1, <2>2, <2>3, <2>4
  <2>6. t.id = s[i]
    <3> HIDE DEF f, R
    <3> QED BY <2>3, <2>4, <2>5
  <2> QED
    BY <2>6 DEF t
<1> HIDE DEF R, f
<1>6. InOrder(R) = [i \in 1..Len(s) |-> s[i]]
  BY <1>4, <1>5 DEF InOrder
<1> QED
  BY <1>1, <1>6 DEF R

\* What is loaded is what was created; only the times have lost what timestamptz does not hold.
LEMMA LoadedIsCreated ==
  ASSUME Made
  PROVE  /\ desc.kind \in {"single", "multiple"} /\ desc.max \in Nat
         /\ Poll = [kind |-> desc.kind, max |-> desc.max, starts |-> Kept(desc.starts),
                    ends |-> Kept(desc.ends), options |-> ids]
<1>1. InOrder(OptionRows(ids)) = ids
  BY RowsAreRead DEF Made
<1>2. /\ desc.kind \in {"single", "multiple"} /\ desc.max \in Nat
      /\ desc.kind = "single" => desc.max = 0
  BY DEF Made, Valid
<1>3. PollRow(desc).max = IF desc.kind = "multiple" /\ desc.max > 0 THEN desc.max ELSE -1
  BY DEF PollRow, Null
<1>4. (IF PollRow(desc).max = Null THEN 0 ELSE PollRow(desc).max) = desc.max
  BY <1>2, <1>3 DEF Null
<1>5. PollRow(desc).kind = desc.kind /\ PollRow(desc).starts = Kept(desc.starts)
      /\ PollRow(desc).ends = Kept(desc.ends)
  BY DEF PollRow
<1> QED
  BY <1>1, <1>2, <1>4, <1>5 DEF Poll, Loaded

\* The limit is that of the description, and at least one option may be chosen.
LEMMA LimitIsPositive ==
  Made => PageLimit \in 1..Len(ids) /\ Len(ids) \in Nat /\ (Poll.kind = "single" => PageLimit = 1)
<1> SUFFICES ASSUME Made PROVE PageLimit \in 1..Len(ids) /\ Len(ids) \in Nat
                               /\ (Poll.kind = "single" => PageLimit = 1)
  OBVIOUS
<1>1. Len(ids) \in 2..MaxOptions /\ Len(ids) \in Nat
  BY PollAssumption DEF Made, Valid
<1>2. /\ Poll.kind \in {"single", "multiple"} /\ Poll.max \in Nat /\ Poll.options = ids
  BY LoadedIsCreated
<1> QED
  BY <1>1, <1>2 DEF PageLimit, ChoiceLimit

\* The position of an option of the poll.
LEMMA IndexIsPosition ==
  ASSUME NEW p, NEW n \in Nat, DOMAIN p.options = 1..n, NEW o
  PROVE  /\ (IndexOf(p, o) # 0 <=> \E i \in 1..n : p.options[i] = o)
         /\ (IndexOf(p, o) # 0 => IndexOf(p, o) \in 1..n /\ p.options[IndexOf(p, o)] = o)
<1>1. CASE \E i \in 1..n : p.options[i] = o
  <2>1. IndexOf(p, o) \in 1..n /\ p.options[IndexOf(p, o)] = o
    BY <1>1 DEF IndexOf
  <2> QED
    BY <1>1, <2>1
<1>2. CASE ~ \E i \in 1..n : p.options[i] = o
  BY <1>2 DEF IndexOf
<1> QED
  BY <1>1, <1>2

-----------------------------------------------------------------------------
\* Before the poll is created nothing can be chosen.
LEMMA PollInitInv == PollInit => PollInv
<1>1. ASSUME PollInit
      PROVE  ids \in SeqsUpTo(OptionIds, MaxOptions)
  <2>1. ids \in Seq(OptionIds) /\ Len(ids) = 0
    BY <1>1, EmptySeq DEF PollInit
  <2>2. 0 <= MaxOptions /\ MaxOptions \in Nat
    BY PollAssumption
  <2> QED
    BY <2>1, <2>2, SeqsUpToAreSeqs
<1> QED
  BY <1>1 DEF PollInit, PollInv

\* The poll is created, and nothing is chosen yet.
LEMMA CreatePollKeeps ==
  ASSUME PollInv, CreatePoll
  PROVE  PollInv'
<1>1. desc = NoPoll /\ chosen = <<>> /\ chosen' = <<>>
  BY DEF PollInv, CreatePoll
<1>2. PICK d \in Descriptions : Valid(d) /\ desc' = d /\ ids' \in [DOMAIN d.texts -> OptionIds] /\ Distinct(ids')
  BY DEF CreatePoll
<1>3. d.texts \in Seq(Texts \cup {Blank}) /\ Len(d.texts) \in 2..MaxOptions
      /\ DOMAIN d.texts = 1..Len(d.texts) /\ Len(d.texts) \in Nat
  <2>1. d.texts \in SeqsUpTo(Texts \cup {Blank}, MaxOptions + 1)
    BY DEF Descriptions
  <2>2. Len(d.texts) \in 2..MaxOptions
    BY <1>2 DEF Valid
  <2> QED
    BY <2>1, <2>2, SeqsUpToAreSeqs, PollAssumption
<1>4. ids' \in Seq(OptionIds) /\ Len(ids') = Len(d.texts)
  <2>1. ids' \in [1..Len(d.texts) -> OptionIds]
    BY <1>2, <1>3
  <2>2. ids' \in Seq(OptionIds)
    BY <1>3, <2>1, SeqDef
  <2>3. Len(ids') \in Nat /\ 1..Len(ids') = 1..Len(d.texts)
    BY <2>1, <2>2, LenProperties
  <2> QED
    BY <1>3, <2>2, <2>3
<1>5. Made'
  BY <1>2, <1>4 DEF Made
<1>6. Picked'
  <2>1. <<>> \in Seq(OptionIds) /\ Len(<<>>) = 0 /\ DOMAIN <<>> = {}
    BY EmptySeq, LenProperties
  <2>2. PageLimit' \in Nat /\ PageLimit' >= 1
    <3>1. (Made => PageLimit \in 1..Len(ids) /\ Len(ids) \in Nat)'
      BY LimitIsPositive, PTL
    <3> QED
      BY <1>5, <3>1
  <2>3. Distinct(<<>>)
    BY <2>1 DEF Distinct
  <2> QED
    BY <1>1, <2>1, <2>2, <2>3 DEF Picked
<1>7. ids' \in SeqsUpTo(OptionIds, MaxOptions)
  BY <1>3, <1>4, SeqsUpToAreSeqs, PollAssumption
<1> QED
  BY <1>1, <1>5, <1>6, <1>7 DEF PollInv

\* splice: what is left, without the place i.
LEMMA SpliceKeeps ==
  ASSUME NEW S, NEW s \in Seq(S), Distinct(s), NEW i \in 1..Len(s)
  PROVE  /\ RemoveAt(s, i) \in Seq(S) /\ Distinct(RemoveAt(s, i))
         /\ Len(RemoveAt(s, i)) = Len(s) - 1
         /\ \A k \in DOMAIN RemoveAt(s, i) : \E j \in DOMAIN s : s[j] = RemoveAt(s, i)[k]
<1> DEFINE t == RemoveAt(s, i)
           place(k) == IF k < i THEN k ELSE k + 1
<1>1. DOMAIN s = 1..Len(s) /\ Len(s) \in Nat /\ i \in Nat /\ 1 <= i /\ i <= Len(s)
  BY LenProperties
<1> DEFINE head == SubSeq(s, 1, i - 1)
           tail == SubSeq(s, i + 1, Len(s))
<1>2. /\ head \in Seq(S) /\ Len(head) = i - 1
      /\ \A k \in 1..(i - 1) : head[k] = s[k]
  <2>1. \A k \in 1..(i - 1) : s[k] \in S
    BY <1>1
  <2>2. /\ SubSeq(s, 1, i - 1) \in Seq(S)
        /\ Len(SubSeq(s, 1, i - 1)) = IF 1 <= i - 1 THEN (i - 1) - 1 + 1 ELSE 0
        /\ \A k \in 1..((i - 1) - 1 + 1) : SubSeq(s, 1, i - 1)[k] = s[1 + k - 1]
    BY <1>1, <2>1, i - 1 \in Int, SubSeqProperties
  <2> QED
    BY <1>1, <2>2
<1>3. /\ tail \in Seq(S) /\ Len(tail) = Len(s) - i
      /\ \A k \in 1..(Len(s) - i) : tail[k] = s[i + k]
  <2> DEFINE m == i + 1
             n == Len(s)
  <2>1. m \in Int /\ n \in Int /\ \A k \in m..n : s[k] \in S
    BY <1>1
  <2>2. tail = SubSeq(s, m, n)
    OBVIOUS
  <2>3. m \in Nat /\ n \in Nat /\ i \in Nat /\ m = i + 1 /\ i <= n /\ n = Len(s)
    BY <1>1
  <2> HIDE DEF m, n, tail
  <2>4. /\ tail \in Seq(S) /\ Len(tail) = (IF m <= n THEN n - m + 1 ELSE 0)
        /\ \A k \in 1..(n - m + 1) : tail[k] = s[m + k - 1]
    BY <2>1, <2>2, SubSeqProperties
  <2>5. n - m + 1 = n - i /\ (IF m <= n THEN n - m + 1 ELSE 0) = n - i
    BY <2>3
  <2>6. ASSUME NEW k \in 1..(n - i)
        PROVE  tail[k] = s[i + k]
    <3>1. m + k - 1 = i + k
      BY <2>3
    <3>2. tail[k] = s[m + k - 1]
      BY <2>4, <2>5
    <3> QED
      BY <3>1, <3>2
  <2> QED
    BY <2>3, <2>4, <2>5, <2>6
<1>4. t = head \o tail
  BY DEF RemoveAt
<1> HIDE DEF t, head, tail
<1>5. t \in Seq(S) /\ Len(t) = Len(s) - 1
  <2>1. t \in Seq(S) /\ Len(t) = Len(head) + Len(tail)
    BY <1>2, <1>3, <1>4, ConcatProperties
  <2> QED
    BY <1>1, <1>2, <1>3, <2>1
<1>6. DOMAIN t = 1..(Len(s) - 1)
  BY <1>5, LenProperties
<1>7. ASSUME NEW k \in 1..(Len(s) - 1)
      PROVE  t[k] = s[place(k)] /\ place(k) \in 1..Len(s)
  <2>1. CASE k < i
    <3>1. k \in 1..Len(head) /\ t[k] = head[k]
      BY <1>1, <1>2, <1>3, <1>4, <2>1
    <3> QED
      BY <1>1, <1>2, <2>1, <3>1
  <2>2. CASE ~(k < i)
    <3>1. t[k] = tail[k - (i - 1)]
      BY <1>1, <1>2, <1>3, <1>4, <2>2
    <3>2. k - (i - 1) \in 1..(Len(s) - i) /\ i + (k - (i - 1)) = k + 1
      BY <1>1, <2>2
    <3> QED
      BY <1>1, <1>3, <2>2, <3>1, <3>2
  <2> QED
    BY <2>1, <2>2
<1>8. \A k, j \in 1..(Len(s) - 1) : place(k) = place(j) => k = j
  BY <1>1
<1> HIDE DEF place
<1>9. Distinct(t)
  <2>1. ASSUME NEW k \in 1..Len(t), NEW j \in 1..Len(t), t[k] = t[j]
        PROVE  k = j
    <3>1. k \in 1..(Len(s) - 1) /\ j \in 1..(Len(s) - 1)
      BY <1>5
    <3>2. /\ s[place(k)] = s[place(j)]
          /\ place(k) \in 1..Len(s) /\ place(j) \in 1..Len(s)
      BY <1>7, <2>1, <3>1
    <3>3. place(k) = place(j)
      BY <3>2, DistinctMeans
    <3> QED
      BY <1>8, <3>1, <3>3
  <2> QED
    BY <1>5, <2>1, DistinctMeans
<1>10. \A k \in DOMAIN t : \E j \in DOMAIN s : s[j] = t[k]
  BY <1>1, <1>6, <1>7
<1> QED
  BY <1>5, <1>9, <1>10 DEF t

\* The first place of o is the only one.
LEMMA FirstIsOnly ==
  ASSUME NEW S, NEW s \in Seq(S), Distinct(s), NEW i \in 1..Len(s)
  PROVE  RemoveFirst(s, s[i]) = RemoveAt(s, i)
<1> DEFINE I == {j \in 1..Len(s) : s[j] = s[i]}
<1>1. I = {i}
  BY DistinctMeans
<1>2. Min({i}) = i
  BY DEF Min
<1>3. SelectInSeq(s, LAMBDA v : v = s[i]) = i
  BY <1>1, <1>2 DEF SelectInSeq
<1> QED
  BY <1>3 DEF RemoveFirst

\* A click takes an option back, replaces the choice, or adds to it below the limit.
LEMMA ClickKeeps ==
  ASSUME PollInv, NEW o \in OptionIds, Click(o)
  PROVE  PollInv'
<1>1. /\ desc # NoPoll /\ Made /\ Picked
      /\ UNCHANGED <<desc, ids>> /\ \E i \in DOMAIN ids : ids[i] = o
  BY DEF PollInv, Click
<1>2. Made' /\ PageLimit' = PageLimit
  BY <1>1 DEF Made, PageLimit, Poll
<1>3. /\ chosen \in Seq(OptionIds) /\ Distinct(chosen) /\ Len(chosen) \in Nat
      /\ DOMAIN chosen = 1..Len(chosen) /\ Len(chosen) <= PageLimit
  BY <1>1, LenProperties DEF Picked
<1>4. PageLimit \in Nat /\ PageLimit >= 1
  BY <1>1, LimitIsPositive
<1>5. CASE \E i \in DOMAIN chosen : chosen[i] = o
  <2>1. PICK i \in 1..Len(chosen) : chosen[i] = o
    BY <1>3, <1>5
  <2>2. chosen' = RemoveAt(chosen, i)
    <3>1. chosen' = RemoveFirst(chosen, chosen[i])
      BY <1>5, <2>1 DEF Click
    <3> QED
      BY <1>3, <3>1, FirstIsOnly
  <2>3. /\ chosen' \in Seq(OptionIds) /\ Distinct(chosen') /\ Len(chosen') = Len(chosen) - 1
        /\ \A k \in DOMAIN chosen' : \E j \in DOMAIN chosen : chosen[j] = chosen'[k]
    BY <1>3, <2>2, SpliceKeeps
  <2> QED
    BY <1>1, <1>2, <1>3, <1>4, <2>3 DEF Picked, PollInv
<1>6. CASE /\ ~ \E i \in DOMAIN chosen : chosen[i] = o
           /\ Poll.kind # "multiple"
  <2>1. chosen' = <<o>>
    BY <1>6 DEF Click
  <2>2. chosen' \in Seq(OptionIds) /\ Len(chosen') = 1 /\ DOMAIN chosen' = 1..1 /\ chosen'[1] = o
    BY <2>1
  <2>3. Distinct(chosen')
    BY <2>2 DEF Distinct
  <2> QED
    BY <1>1, <1>2, <1>4, <2>2, <2>3 DEF Picked, PollInv
<1>7. CASE /\ ~ \E i \in DOMAIN chosen : chosen[i] = o
           /\ Poll.kind = "multiple" /\ Len(chosen) >= PageLimit
  <2>1. chosen' = chosen
    BY <1>7 DEF Click
  <2> QED
    BY <1>1, <1>2, <2>1 DEF Picked, PollInv
<1>8. CASE /\ ~ \E i \in DOMAIN chosen : chosen[i] = o
           /\ Poll.kind = "multiple" /\ ~(Len(chosen) >= PageLimit)
  <2>1. chosen' = Append(chosen, o)
    BY <1>8 DEF Click
  <2>2. /\ chosen' \in Seq(OptionIds) /\ Len(chosen') = Len(chosen) + 1
        /\ DOMAIN chosen' = 1..(Len(chosen) + 1)
        /\ \A i \in 1..Len(chosen) : chosen'[i] = chosen[i]
        /\ chosen'[Len(chosen) + 1] = o
    BY <1>3, <2>1, AppendProperties, LenProperties
  <2>3. Distinct(chosen')
    <3>1. ASSUME NEW i \in 1..Len(chosen'), NEW j \in 1..Len(chosen'), chosen'[i] = chosen'[j]
          PROVE  i = j
      <4>1. i \in 1..Len(chosen) \/ i = Len(chosen) + 1
        BY <1>3, <2>2
      <4>2. j \in 1..Len(chosen) \/ j = Len(chosen) + 1
        BY <1>3, <2>2
      <4>3. \A k, l \in 1..Len(chosen) : chosen[k] = chosen[l] => k = l
        BY <1>3, DistinctMeans
      <4> QED
        BY <1>3, <1>8, <2>2, <3>1, <4>1, <4>2, <4>3
    <3> QED
      BY <2>2, <3>1, DistinctMeans
  <2>4. Len(chosen') <= PageLimit
    BY <1>3, <1>4, <1>8, <2>2
  <2>5. \A i \in DOMAIN chosen' : \E j \in DOMAIN ids : ids[j] = chosen'[i]
    <3>1. ASSUME NEW i \in 1..(Len(chosen) + 1)
          PROVE  \E j \in DOMAIN ids : ids[j] = chosen'[i]
      <4>1. i \in 1..Len(chosen) \/ i = Len(chosen) + 1
        BY <1>3
      <4> QED
        BY <1>1, <1>3, <2>2, <4>1 DEF Picked
    <3> QED
      BY <2>2, <3>1
  <2> QED
    BY <1>1, <1>2, <2>2, <2>3, <2>4, <2>5 DEF Picked, PollInv
<1> QED
  BY <1>5, <1>6, <1>7, <1>8

\* Every step keeps the invariant.
LEMMA PollNextInv ==
  ASSUME PollInv, [PollNext]_pollVars
  PROVE  PollInv'
<1>1. CASE UNCHANGED pollVars
  BY <1>1 DEF pollVars, PollInv, Made, Picked, PageLimit, Poll
<1> QED
  BY <1>1, CreatePollKeeps, ClickKeeps DEF PollNext

\* The inductive invariant holds in every state.
THEOREM PollInvariance == PollSpec => []PollInv
BY PollInitInv, PollNextInv, PTL DEF PollSpec

-----------------------------------------------------------------------------
\* The schema accepts what Validate accepts, for times that the table can hold (store.go
\* CreateParams.Validate, Create; the CHECKs of the migrations).
THEOREM WhatIsValidIsStorable == PollSpec => []ValidIsStorable
<1>1. PollInv => ValidIsStorable
  <2>1. ASSUME Made, WholeTimes
        PROVE  Checks(PollRow(desc))
    <3>1. /\ desc.kind \in {"single", "multiple"} /\ desc.ends > desc.starts
          /\ desc.kind = "single" => desc.max = 0
      BY <2>1 DEF Made, Valid
    <3>2. PollRow(desc).ends = desc.ends /\ PollRow(desc).starts = desc.starts
      BY <2>1 DEF PollRow, WholeTimes
    <3>3. desc.max \in Nat
      BY <2>1, LoadedIsCreated
    <3> QED
      BY <3>1, <3>2, <3>3 DEF Checks, PollRow, Null
  <2> QED
    BY <2>1 DEF PollInv, ValidIsStorable
<1> QED
  BY <1>1, PollInvariance, PTL

\* A poll that is loaded is the poll that was created, its options at the same positions
\* (store.go Create, Get, scanPolls).
THEOREM EveryLoadAgrees == PollSpec => []LoadsAgree
<1>1. PollInv => LoadsAgree
  BY LoadedIsCreated DEF PollInv, LoadsAgree, WholeTimes, Created
<1> QED
  BY <1>1, PollInvariance, PTL

\* What is in the poll that is shown.
LEMMA OptionsOfPoll ==
  ASSUME Made
  PROVE  Poll.options = ids /\ DOMAIN Poll.options = 1..Len(ids) /\ Len(ids) \in Nat
BY LoadedIsCreated, LenProperties DEF Made

\* An accepted vote, whatever the request, adds one to as many counters of its poll as it names
\* options, and to exactly one if the poll is single (model.go ValidateChoice, vote.go handleVote).
THEOREM VotesAddUp == PollSpec => []VoteAddsUp
<1>1. ASSUME Made, NEW req \in SeqsUpTo(OptionIds, MaxOptions), ValidateChoice(Poll, req)
      PROVE  /\ Touched(Poll, req) \subseteq DOMAIN ids
             /\ Cardinality(Touched(Poll, req)) = Len(req)
             /\ Len(req) >= 1 /\ (Poll.kind = "single" => Len(req) = 1)
  <2>1. /\ req \in Seq(OptionIds) /\ DOMAIN req = 1..Len(req) /\ Len(req) \in Nat
    BY SeqsUpToAreSeqs, PollAssumption
  <2>2. /\ req # <<>> /\ Len(req) <= PageLimit /\ Distinct(req)
        /\ \A i \in 1..Len(req) : IndexOf(Poll, req[i]) # 0
    BY <1>1, <2>1 DEF ValidateChoice, PageLimit
  <2>3. Len(req) >= 1 /\ (Poll.kind = "single" => Len(req) = 1)
    <3>1. Len(req) # 0
      BY <2>1, <2>2, EmptySeq
    <3>2. Made
      BY <1>1
    <3> QED
      BY <2>1, <2>2, <3>1, <3>2, LimitIsPositive
  <2>4. \A i \in 1..Len(req) : /\ IndexOf(Poll, req[i]) \in 1..Len(ids)
                               /\ ids[IndexOf(Poll, req[i])] = req[i]
    BY <1>1, <2>2, OptionsOfPoll, IndexIsPosition
  <2> DEFINE f == [i \in 1..Len(req) |-> IndexOf(Poll, req[i])]
  <2>5. Touched(Poll, req) = {f[i] : i \in 1..Len(req)}
    BY <2>1 DEF Touched
  <2>6. \A i, j \in 1..Len(req) : f[i] = f[j] => i = j
    BY <2>1, <2>2, <2>4, DistinctMeans
  <2>7. Cardinality({f[i] : i \in 1..Len(req)}) = Len(req)
    <3>1. DOMAIN f = 1..Len(req) /\ f = [i \in 1..Len(req) |-> f[i]]
      OBVIOUS
    <3> HIDE DEF f
    <3> QED
      BY <2>1, <2>6, <3>1, NumberedSize
  <2>8. Touched(Poll, req) \subseteq DOMAIN ids
    BY <1>1, <2>1, <2>4, OptionsOfPoll DEF Touched
  <2> QED
    BY <2>3, <2>5, <2>7, <2>8
<1>2. PollInv => VoteAddsUp
  BY <1>1 DEF PollInv, VoteAddsUp
<1> QED
  BY <1>2, PollInvariance, PTL

\* Whatever a viewer clicks together, in any order, passes ValidateChoice (index.html, model.go).
THEOREM ThePageIsAccepted == PollSpec => []PageIsAccepted
<1>1. PollInv => PageIsAccepted
  <2>1. ASSUME Made, Picked, chosen # <<>>
        PROVE  ValidateChoice(Poll, chosen)
    <3>1. DOMAIN chosen = 1..Len(chosen) /\ DOMAIN ids = 1..Len(ids)
      BY <2>1, LenProperties DEF Picked, Made
    <3>2. \A i \in DOMAIN chosen : IndexOf(Poll, chosen[i]) # 0
      <4>1. /\ Poll.options = ids /\ DOMAIN Poll.options = 1..Len(ids) /\ Len(ids) \in Nat
        BY <2>1, OptionsOfPoll
      <4>2. \A o : (\E j \in 1..Len(ids) : ids[j] = o) => IndexOf(Poll, o) # 0
        BY <4>1, IndexIsPosition
      <4> QED
        BY <2>1, <3>1, <4>2 DEF Picked
    <3> QED
      BY <2>1, <3>2 DEF ValidateChoice, Picked, PageLimit
  <2> QED
    BY <2>1 DEF PollInv, PageIsAccepted
<1> QED
  BY <1>1, PollInvariance, PTL

\* The invariant bounds what the types bound.
LEMMA PollInvTypes == PollInv => PollTypeOK
<1>1. MaxOptions \in Nat /\ 0 <= MaxOptions
  BY PollAssumption
<1>2. <<>> \in SeqsUpTo(OptionIds, MaxOptions)
  BY <1>1, EmptySeq, SeqsUpToAreSeqs
<1>3. ASSUME Made, Picked
      PROVE  desc \in Descriptions /\ ids \in SeqsUpTo(OptionIds, MaxOptions)
             /\ chosen \in SeqsUpTo(OptionIds, MaxOptions)
  <2>1. /\ Len(ids) \in 2..MaxOptions /\ Len(ids) \in Nat /\ ids \in Seq(OptionIds)
        /\ chosen \in Seq(OptionIds) /\ Len(chosen) \in Nat /\ Len(chosen) <= PageLimit
    BY <1>3, LenProperties DEF Made, Valid, Picked
  <2>2. PageLimit \in 1..Len(ids)
    BY <1>3, LimitIsPositive
  <2>3. Len(ids) <= MaxOptions /\ Len(chosen) <= MaxOptions
    BY <1>1, <2>1, <2>2
  <2> QED
    BY <1>1, <1>3, <2>1, <2>3, SeqsUpToAreSeqs DEF Made
<1> QED
  BY <1>2, <1>3 DEF PollInv, PollTypeOK

\* The types of the poll, its options and the page's choice.
THEOREM PollTypes == PollSpec => []PollTypeOK
BY PollInvTypes, PollInvariance, PTL

-----------------------------------------------------------------------------
(* The cache.                                                              *)

Waiting == {"join", "wait"}

CacheTypes ==
    /\ now \in 0..CacheEnd /\ created \in [Ids -> 0..Never]
    /\ phase \in {"starting", "warming", "ready"} /\ warmed \subseteq Ids
    /\ flight \in [Ids -> Flights] /\ leader \in [Ids -> Getters \cup {Nobody}]
    /\ since \in [Ids -> 0..CacheEnd] /\ began \in [Getters -> 0..CacheEnd]
    /\ at \in [Getters -> {"idle", "join", "wait", "absent"}]
    /\ want \in [Getters -> Ids \cup {Nothing}]
    /\ \A g \in Getters : at[g] # "idle" => want[g] \in Ids

\* Nothing is dated in the future.
Past ==
    /\ \A p \in Ids : since[p] <= now
    /\ \A g \in Getters : began[g] <= now

\* How far the start of the process is.
Stages ==
    /\ phase = "starting" => warmed = {}
    /\ phase = "ready" => warming = {}
    /\ phase # "ready" => flight = [p \in Ids |-> "none"] /\ at = [g \in Getters |-> "idle"]
    /\ warmed \subseteq byID \cup warming

\* No load, nor a request that is to join one, is for a poll that has been warmed.
Cold ==
    /\ WarmedIsHit
    /\ \A g \in Getters : at[g] \in Waiting => want[g] \notin warmed

\* The remembered misses.
Bounded == IsFiniteSet(DOMAIN missedAt) /\ MissesBounded

\* A load is short, and one that found no poll began before the creation.
InTime ==
    \A p \in Ids :
        /\ flight[p] # "none" => now <= since[p] + LoadLimit
        /\ flight[p] \in {"missing", "absent"} => since[p] <= created[p]

Remembered ==
    \A p \in DOMAIN missedAt :
        p \in Ids /\ missedAt[p] \in 0..now /\ missedAt[p] <= created[p] + LoadLimit

CacheInv ==
    /\ CacheTypes /\ Past /\ Stages /\ Cold /\ Bounded /\ InTime /\ Remembered /\ CreatedIsFound

-----------------------------------------------------------------------------
\* The limits of the cache are natural numbers.
LEMMA CacheLimits ==
  /\ PollEnd \in Nat /\ NegativeTTL \in Nat /\ LoadLimit \in Nat /\ CacheEnd \in Nat
  /\ MaxNegative \in Nat /\ MaxNegative >= 1 /\ Never \in Nat /\ Never = CacheEnd + 1
  /\ Nobody \notin Getters
BY CacheAssumption DEF Never

\* The invariant holds at first.
LEMMA CacheInitInv ==
  ASSUME CacheInit, now = 0
  PROVE  CacheInv
<1>1. DOMAIN missedAt = {}
  BY DEF CacheInit
<1>2. CacheTypes
  BY CacheLimits DEF CacheInit, CacheTypes, Flights
<1>3. Past /\ InTime
  BY CacheLimits DEF CacheInit, Past, InTime
<1>4. Stages /\ Cold /\ CreatedIsFound
  BY DEF CacheInit, Stages, Cold, WarmedIsHit, Waiting, CreatedIsFound
<1>5. Bounded
  BY <1>1, CacheLimits, FS_EmptySet DEF Bounded, MissesBounded
<1>6. Remembered
  BY <1>1 DEF Remembered
<1> QED
  BY <1>2, <1>3, <1>4, <1>5, <1>6 DEF CacheInv

-----------------------------------------------------------------------------
(* What the parts of the invariant depend on.                              *)

\* A poll is created: nothing so far is dated later.
LEMMA CreateKeeps ==
  ASSUME CacheInv, NEW p \in Polls, Create(p)
  PROVE  CacheInv'
<1>1. /\ now' = now /\ phase' = phase /\ warming' = warming /\ warmed' = warmed /\ byID' = byID
      /\ missedAt' = missedAt /\ flight' = flight /\ leader' = leader /\ since' = since
      /\ at' = at /\ want' = want /\ began' = began
  BY DEF Create, loads, getters
<1>2. created \in [Ids -> 0..Never] /\ now \in 0..CacheEnd /\ p \in Ids
  BY DEF CacheInv, CacheTypes, Ids
<1>3. created' \in [Ids -> 0..Never] /\ \A q \in Ids : created'[q] = created[q] \/ created'[q] = now
  BY <1>2, CacheLimits DEF Create
<1>4. CacheTypes' /\ Past' /\ Stages' /\ Cold' /\ Bounded'
  BY <1>1, <1>3
  DEF CacheInv, CacheTypes, Past, Stages, Cold, WarmedIsHit, Bounded, MissesBounded, Never
<1>5. InTime'
  BY <1>1, <1>2, <1>3 DEF CacheInv, CacheTypes, Past, InTime
<1>6. Remembered'
  <2>1. ASSUME NEW q \in DOMAIN missedAt
        PROVE  missedAt[q] <= created'[q] + LoadLimit
    BY <1>2, <1>3, CacheLimits DEF CacheInv, Remembered
  <2> QED
    BY <1>1, <2>1 DEF CacheInv, Remembered
<1>7. CreatedIsFound'
  <2>1. ASSUME NEW g \in Getters, at[g] = "absent"
        PROVE  began[g] <= created'[want[g]] + LoadLimit + NegativeTTL
    <3>1. want[g] \in Ids /\ began[g] \in Nat /\ began[g] <= now
      BY <2>1, CacheLimits DEF CacheInv, CacheTypes, Past
    <3>2. began[g] <= created[want[g]] + LoadLimit + NegativeTTL
      BY <2>1 DEF CacheInv, CreatedIsFound
    <3> QED
      BY <1>2, <1>3, <3>1, <3>2, CacheLimits
  <2> QED
    BY <1>1, <2>1 DEF CreatedIsFound
<1> QED
  BY <1>4, <1>5, <1>6, <1>7 DEF CacheInv

\* The start of the process keeps the invariant.
LEMMA StartKeeps ==
  ASSUME CacheInv, WarmRead \/ WarmPut \/ Ready \/ Restart
  PROVE  CacheInv'
<1>1. CASE WarmRead
  <2>1. /\ now' = now /\ created' = created /\ byID' = byID /\ missedAt' = missedAt
        /\ flight' = flight /\ leader' = leader /\ since' = since
        /\ at' = at /\ want' = want /\ began' = began
        /\ phase = "starting" /\ phase' = "warming" /\ warmed' = warming' /\ warmed' \subseteq Ids
    BY <1>1 DEF WarmRead, loads, getters, Ids
  <2>2. flight = [p \in Ids |-> "none"] /\ at = [g \in Getters |-> "idle"]
    BY <2>1 DEF CacheInv, Stages
  <2>3. CacheTypes' /\ Past' /\ Bounded' /\ InTime' /\ Remembered' /\ CreatedIsFound'
    BY <2>1
    DEF CacheInv, CacheTypes, Past, Bounded, MissesBounded, InTime, Remembered, CreatedIsFound, Never
  <2>4. Stages' /\ Cold'
    BY <2>1, <2>2 DEF Stages, Cold, WarmedIsHit, Waiting
  <2> QED
    BY <2>3, <2>4 DEF CacheInv
<1>2. CASE WarmPut \/ Ready
  <2>1. /\ now' = now /\ created' = created /\ missedAt' = missedAt /\ warmed' = warmed
        /\ flight' = flight /\ leader' = leader /\ since' = since
        /\ at' = at /\ want' = want /\ began' = began
        /\ phase = "warming" /\ phase' \in {"warming", "ready"}
        /\ phase' = "ready" => warming' = {}
        /\ byID \cup warming = byID' \cup warming'
    BY <1>2 DEF WarmPut, Ready, loads, getters
  <2>2. CacheTypes' /\ Past' /\ Bounded' /\ InTime' /\ Remembered' /\ CreatedIsFound' /\ Cold'
    BY <2>1
    DEF CacheInv, CacheTypes, Past, Bounded, MissesBounded, InTime, Remembered, CreatedIsFound, Cold,
        WarmedIsHit, Never
  <2>3. Stages'
    BY <2>1 DEF CacheInv, Stages
  <2> QED
    BY <2>2, <2>3 DEF CacheInv
<1>3. CASE Restart
  <2>1. /\ now' = now /\ created' = created /\ warmed' = {} /\ warming' = {} /\ phase' = "starting"
        /\ flight' = [p \in Ids |-> "none"] /\ at' = [g \in Getters |-> "idle"]
        /\ leader' = [p \in Ids |-> Nobody] /\ want' = [g \in Getters |-> Nothing]
        /\ since' = [p \in Ids |-> 0] /\ began' = [g \in Getters |-> 0]
        /\ DOMAIN missedAt' = {}
    BY <1>3 DEF Restart
  <2>2. CacheTypes'
    BY <2>1, CacheLimits DEF CacheInv, CacheTypes, Flights, Never
  <2>3. Past' /\ InTime'
    BY <2>1 DEF CacheInv, CacheTypes, Past, InTime
  <2>4. Stages' /\ Cold' /\ CreatedIsFound' /\ Remembered'
    BY <2>1 DEF Stages, Cold, WarmedIsHit, Waiting, CreatedIsFound, Remembered
  <2>5. Bounded'
    BY <2>1, CacheLimits, FS_EmptySet DEF Bounded, MissesBounded
  <2> QED
    BY <2>2, <2>3, <2>4, <2>5 DEF CacheInv
<1> QED
  BY <1>1, <1>2, <1>3

-----------------------------------------------------------------------------
\* What a request that is answered at once, or told of a miss, may see.
LEMMA AskKeeps ==
  ASSUME CacheInv, NEW g \in Getters, NEW p \in Ids, Ask(g, p)
  PROVE  CacheInv'
<1>1. /\ now' = now /\ created' = created /\ phase' = phase /\ warming' = warming
      /\ warmed' = warmed /\ byID' = byID /\ missedAt' = missedAt
      /\ flight' = flight /\ leader' = leader /\ since' = since
      /\ phase = "ready"
  BY DEF Ask, loads
<1>2. \A h \in Getters \ {g} : at'[h] = at[h] /\ want'[h] = want[h] /\ began'[h] = began[h]
  BY DEF Ask, Asks, Return, CacheInv, CacheTypes
<1>3. /\ at' \in [Getters -> {"idle", "join", "wait", "absent"}]
      /\ want' \in [Getters -> Ids \cup {Nothing}] /\ began' \in [Getters -> 0..CacheEnd]
  BY CacheLimits DEF Ask, Asks, Return, CacheInv, CacheTypes
<1>4. \/ at'[g] = "idle"
      \/ at'[g] = "absent" /\ want'[g] = p /\ began'[g] = now /\ Missed(p)
      \/ at'[g] = "join" /\ want'[g] = p /\ began'[g] = now /\ p \notin byID
  BY DEF Ask, Asks, Return, CacheInv, CacheTypes
<1>5. began'[g] \in {0, now}
  BY DEF Ask, Asks, Return, CacheInv, CacheTypes
<1>6. CacheTypes'
  BY <1>1, <1>2, <1>3, <1>4 DEF CacheInv, CacheTypes, Never
<1>7. Past'
  BY <1>1, <1>2, <1>5 DEF CacheInv, CacheTypes, Past
<1>8. Stages' /\ Bounded' /\ InTime' /\ Remembered'
  BY <1>1 DEF CacheInv, Stages, Bounded, MissesBounded, InTime, Remembered
<1>9. Cold'
  BY <1>1, <1>2, <1>4 DEF CacheInv, Stages, Cold, WarmedIsHit, Waiting
<1>10. CreatedIsFound'
  <2>1. Missed(p) => now <= created[p] + LoadLimit + NegativeTTL
    BY CacheLimits DEF Missed, CacheInv, CacheTypes, Remembered
  <2> QED
    BY <1>1, <1>2, <1>4, <2>1 DEF CacheInv, CreatedIsFound
<1> QED
  BY <1>6, <1>7, <1>8, <1>9, <1>10 DEF CacheInv

\* A load begins now, for a poll that has not been warmed.
LEMMA JoinKeeps ==
  ASSUME CacheInv, NEW g \in Getters, Join(g)
  PROVE  CacheInv'
<1>1. /\ now' = now /\ created' = created /\ phase' = phase /\ warming' = warming
      /\ warmed' = warmed /\ byID' = byID /\ missedAt' = missedAt
      /\ want' = want /\ began' = began /\ at' = [at EXCEPT ![g] = "wait"] /\ at[g] = "join"
  BY DEF Join
<1>2. want[g] \in Ids /\ want[g] \notin warmed /\ phase = "ready"
  BY <1>1 DEF CacheInv, CacheTypes, Cold, Waiting, Stages
<1>3. /\ flight' \in [Ids -> Flights] /\ leader' \in [Ids -> Getters \cup {Nobody}]
      /\ since' \in [Ids -> 0..CacheEnd]
  BY <1>1, <1>2 DEF Join, loads, CacheInv, CacheTypes, Flights
<1>4. \A p \in Ids : \/ flight'[p] = flight[p] /\ since'[p] = since[p]
                     \/ flight'[p] = "reading" /\ since'[p] = now /\ p = want[g]
  BY <1>2 DEF Join, loads, CacheInv, CacheTypes
<1>5. \A h \in Getters : at'[h] = at[h] \/ (at'[h] = "wait" /\ h = g)
  BY <1>1 DEF CacheInv, CacheTypes
<1>6. at' \in [Getters -> {"idle", "join", "wait", "absent"}]
  BY <1>1 DEF CacheInv, CacheTypes
<1>7. CacheTypes'
  BY <1>1, <1>2, <1>3, <1>5, <1>6 DEF CacheInv, CacheTypes, Never
<1>8. Past' /\ InTime'
  BY <1>1, <1>4, CacheLimits DEF CacheInv, CacheTypes, Past, InTime
<1>9. Stages' /\ Bounded' /\ Remembered' /\ CreatedIsFound'
  BY <1>1, <1>2, <1>5
  DEF CacheInv, Stages, Bounded, MissesBounded, Remembered, CreatedIsFound
<1>10. Cold'
  <2>1. WarmedIsHit'
    <3>1. ASSUME NEW p \in warmed
          PROVE  flight'[p] = "none"
      <4>1. p \in Ids /\ p # want[g] /\ flight[p] = "none"
        BY <1>2 DEF CacheInv, CacheTypes, Cold, WarmedIsHit
      <4> QED
        BY <1>4, <4>1
    <3> QED
      BY <1>1, <3>1 DEF WarmedIsHit
  <2>2. \A h \in Getters : at'[h] \in Waiting => want'[h] \notin warmed'
    BY <1>1, <1>2, <1>5 DEF CacheInv, Cold, Waiting
  <2> QED
    BY <2>1, <2>2 DEF Cold
<1> QED
  BY <1>7, <1>8, <1>9, <1>10 DEF CacheInv

-----------------------------------------------------------------------------
\* A load that reads: what it does not find is not created yet.
LEMMA ReadKeeps ==
  ASSUME CacheInv, NEW p \in Ids, ReadPoll(p)
  PROVE  CacheInv'
<1>1. /\ now' = now /\ created' = created /\ phase' = phase /\ warming' = warming
      /\ warmed' = warmed /\ byID' = byID /\ missedAt' = missedAt
      /\ leader' = leader /\ since' = since /\ at' = at /\ want' = want /\ began' = began
      /\ flight[p] = "reading"
      /\ flight' = [flight EXCEPT ![p] = IF Exists(p) THEN "found" ELSE "missing"]
  BY DEF ReadPoll, Becomes, getters
<1>2. phase = "ready" /\ p \notin warmed
  BY <1>1 DEF CacheInv, Stages, Cold, WarmedIsHit
<1>3. flight' \in [Ids -> Flights] /\ \A q \in Ids : q # p => flight'[q] = flight[q]
  BY <1>1 DEF CacheInv, CacheTypes, Flights
<1>4. flight'[p] = "found" \/ (flight'[p] = "missing" /\ created[p] = Never)
  BY <1>1 DEF CacheInv, CacheTypes, Exists
<1>5. CacheTypes' /\ Past' /\ Stages' /\ Bounded' /\ Remembered' /\ CreatedIsFound'
  BY <1>1, <1>2, <1>3
  DEF CacheInv, CacheTypes, Past, Stages, Bounded, MissesBounded, Remembered, CreatedIsFound, Never
<1>6. Cold'
  BY <1>1, <1>2, <1>3 DEF CacheInv, Cold, WarmedIsHit
<1>7. InTime'
  BY <1>1, <1>3, <1>4, CacheLimits DEF CacheInv, CacheTypes, InTime
<1> QED
  BY <1>5, <1>6, <1>7 DEF CacheInv

\* A load that caches the poll, or remembers the miss at the time at which it is known.
LEMMA PutKeeps ==
  ASSUME CacheInv, NEW p \in Ids, Put(p) \/ Remember(p)
  PROVE  CacheInv'
<1>1. /\ now' = now /\ created' = created /\ phase' = phase /\ warming' = warming
      /\ warmed' = warmed /\ leader' = leader /\ since' = since
      /\ at' = at /\ want' = want /\ began' = began
      /\ byID \subseteq byID'
      /\ flight[p] \in {"found", "missing"}
      /\ flight' = [flight EXCEPT ![p] = IF flight[p] = "found" THEN "loaded" ELSE "absent"]
  BY DEF Put, Remember, Becomes, getters
<1>2. phase = "ready" /\ p \notin warmed
  BY <1>1 DEF CacheInv, Stages, Cold, WarmedIsHit
<1>3. flight' \in [Ids -> Flights] /\ \A q \in Ids : q # p => flight'[q] = flight[q]
  BY <1>1 DEF CacheInv, CacheTypes, Flights, Landed
<1>4. flight'[p] = "loaded" \/ (flight'[p] = "absent" /\ flight[p] = "missing")
  BY <1>1 DEF CacheInv, CacheTypes
<1>5. CacheTypes' /\ Past' /\ CreatedIsFound'
  BY <1>1, <1>3 DEF CacheInv, CacheTypes, Past, CreatedIsFound, Never
<1>6. Stages'
  BY <1>1, <1>2 DEF CacheInv, Stages
<1>7. Cold'
  BY <1>1, <1>2, <1>3 DEF CacheInv, Cold, WarmedIsHit
<1>8. InTime'
  BY <1>1, <1>3, <1>4 DEF CacheInv, CacheTypes, InTime
<1>9. Bounded' /\ Remembered'
  <2>1. CASE Put(p)
    <3>1. missedAt' = [q \in DOMAIN missedAt \ {p} |-> missedAt[q]]
      BY <2>1 DEF Put, Restrict
    <3>2. DOMAIN missedAt' \subseteq DOMAIN missedAt
      BY <3>1
    <3>3. IsFiniteSet(DOMAIN missedAt') /\ Cardinality(DOMAIN missedAt') <= Cardinality(DOMAIN missedAt)
      BY <3>2, FS_Subset DEF CacheInv, Bounded
    <3>4. Bounded'
      BY <1>1, <3>3, CacheLimits, FS_CardinalityType DEF CacheInv, Bounded, MissesBounded
    <3>5. Remembered'
      BY <1>1, <3>1 DEF CacheInv, Remembered
    <3> QED
      BY <3>4, <3>5
  <2>2. CASE Remember(p)
    <3> DEFINE D == IF Cardinality(DOMAIN missedAt) >= MaxNegative THEN {} ELSE DOMAIN missedAt
    <3>1. missedAt' = [q \in {p} \cup D |-> IF q = p THEN now ELSE missedAt[q]]
      BY <2>2 DEF Remember
    <3>2. IsFiniteSet(D) /\ Cardinality(D) \in Nat /\ Cardinality(D) + 1 <= MaxNegative
      <4>1. CASE Cardinality(DOMAIN missedAt) >= MaxNegative
        BY <4>1, CacheLimits, FS_EmptySet
      <4>2. CASE ~(Cardinality(DOMAIN missedAt) >= MaxNegative)
        BY <4>2, CacheLimits, FS_CardinalityType DEF CacheInv, Bounded
      <4> QED
        BY <4>1, <4>2
    <3>3. DOMAIN missedAt' = D \cup {p}
      BY <3>1
    <3> HIDE DEF D
    <3>4. /\ IsFiniteSet(D \cup {p})
          /\ Cardinality(D \cup {p}) = IF p \in D THEN Cardinality(D) ELSE Cardinality(D) + 1
      BY <3>2, FS_AddElement
    <3>5. Bounded'
      BY <3>2, <3>3, <3>4, CacheLimits DEF Bounded, MissesBounded
    <3>6. D \subseteq DOMAIN missedAt
      BY DEF D
    <3>7. now \in 0..now /\ now <= created[p] + LoadLimit
      <4>1. flight[p] = "missing"
        BY <2>2 DEF Remember
      <4>2. now <= since[p] + LoadLimit /\ since[p] <= created[p]
        BY <4>1 DEF CacheInv, InTime
      <4> QED
        BY <4>2, CacheLimits DEF CacheInv, CacheTypes
    <3>8. Remembered'
      BY <1>1, <3>1, <3>3, <3>6, <3>7 DEF CacheInv, Remembered
    <3> QED
      BY <3>5, <3>8
  <2> QED
    BY <2>1, <2>2
<1> QED
  BY <1>5, <1>6, <1>7, <1>8, <1>9 DEF CacheInv

\* The flight of p ends: whoever is told of the miss asked before the load was over.
LEMMA LandsKeeps ==
  ASSUME CacheInv, NEW p \in Ids, NEW x \in Landed \cup {"failed"}, Lands(p, x),
         (flight[p] = "reading" /\ x = "failed") \/ flight[p] = x
  PROVE  CacheInv'
<1>1. /\ now' = now /\ created' = created /\ phase' = phase /\ warming' = warming
      /\ warmed' = warmed /\ byID' = byID /\ missedAt' = missedAt
      /\ flight' = [flight EXCEPT ![p] = "none"] /\ leader' = [leader EXCEPT ![p] = Nobody]
      /\ since' = [since EXCEPT ![p] = 0]
  BY DEF Lands
<1>2. phase = "ready" /\ flight[p] # "none"
  <2>1. flight[p] # "none"
    BY DEF Landed
  <2> QED
    BY <2>1 DEF CacheInv, Stages
<1>3. /\ at' \in [Getters -> {"idle", "join", "wait", "absent"}]
      /\ want' \in [Getters -> Ids \cup {Nothing}] /\ began' \in [Getters -> 0..CacheEnd]
  BY CacheLimits DEF Lands, Return, CacheInv, CacheTypes
<1>4. \A g \in Getters :
        \/ at'[g] = at[g] /\ want'[g] = want[g] /\ began'[g] = began[g]
        \/ at'[g] = "idle" /\ began'[g] = 0
        \/ /\ x = "absent" /\ at[g] = "wait" /\ want[g] = p
           /\ at'[g] = "absent" /\ want'[g] = p /\ began'[g] = began[g]
  BY DEF Lands, Return, Callers
<1>5. /\ flight' \in [Ids -> Flights] /\ leader' \in [Ids -> Getters \cup {Nobody}]
      /\ since' \in [Ids -> 0..CacheEnd]
  BY <1>1, CacheLimits DEF CacheInv, CacheTypes, Flights
<1>6. CacheTypes'
  BY <1>1, <1>3, <1>4, <1>5 DEF CacheInv, CacheTypes, Never
<1>7. \A q \in Ids : \/ flight'[q] = flight[q] /\ since'[q] = since[q]
                     \/ flight'[q] = "none" /\ since'[q] = 0
  BY <1>1 DEF CacheInv, CacheTypes
<1>8. Past'
  BY <1>1, <1>4, <1>7 DEF CacheInv, CacheTypes, Past
<1>9. Stages' /\ Bounded' /\ Remembered'
  BY <1>1, <1>2 DEF CacheInv, Stages, Bounded, MissesBounded, Remembered
<1>10. InTime'
  BY <1>1, <1>7 DEF CacheInv, InTime
<1>11. Cold'
  BY <1>1, <1>4, <1>7 DEF CacheInv, Cold, WarmedIsHit, Waiting
<1>12. CreatedIsFound'
  <2>1. x = "absent" => now <= created[p] + LoadLimit + NegativeTTL
    BY CacheLimits DEF CacheInv, CacheTypes, InTime
  <2>2. \A g \in Getters : began[g] \in Nat /\ began[g] <= now
    BY CacheLimits DEF CacheInv, CacheTypes, Past
  <2>3. created[p] \in Nat /\ now \in Nat
    BY CacheLimits DEF CacheInv, CacheTypes
  <2> QED
    BY <1>1, <1>4, <2>1, <2>2, <2>3, CacheLimits DEF CacheInv, CreatedIsFound
<1> QED
  BY <1>6, <1>8, <1>9, <1>10, <1>11, <1>12 DEF CacheInv

\* A leader that hangs up, and time that goes on while no load is overdue, keep the invariant.
LEMMA CacheTickKeeps ==
  ASSUME CacheInv, CacheTick \/ \E g \in Getters : HangUp(g)
  PROVE  CacheInv'
<1>1. /\ created' = created /\ phase' = phase /\ warming' = warming
      /\ warmed' = warmed /\ byID' = byID /\ missedAt' = missedAt
      /\ flight' = flight /\ leader' = leader /\ since' = since
      /\ at' = at /\ want' = want /\ began' = began
  BY DEF CacheTick, HangUp, cacheVars, loads, getters
<1>2. \/ now' = now
      \/ /\ now < CacheEnd /\ now' = now + 1
         /\ \A p \in Ids : flight[p] # "none" => now < since[p] + LoadLimit
  BY DEF CacheTick, HangUp, Passes
<1>3. CacheTypes'
  BY <1>1, <1>2, CacheLimits DEF CacheInv, CacheTypes, Never
<1>4. Past' /\ InTime'
  BY <1>1, <1>2, CacheLimits DEF CacheInv, CacheTypes, Past, InTime
<1>5. Stages' /\ Cold' /\ Bounded' /\ CreatedIsFound'
  BY <1>1 DEF CacheInv, Stages, Cold, WarmedIsHit, Bounded, MissesBounded, CreatedIsFound
<1>6. Remembered'
  BY <1>1, <1>2 DEF CacheInv, CacheTypes, Remembered
<1> QED
  BY <1>3, <1>4, <1>5, <1>6 DEF CacheInv

\* Every step keeps the invariant.
LEMMA CacheNextInv ==
  ASSUME CacheInv, [CacheNext]_<<now, cacheVars>>
  PROVE  CacheInv'
<1>1. CASE UNCHANGED <<now, cacheVars>>
  BY <1>1
  DEF cacheVars, loads, getters, CacheInv, CacheTypes, Past, Stages, Cold, WarmedIsHit, Bounded,
      MissesBounded, InTime, Remembered, CreatedIsFound, Never
<1>2. ASSUME NEW p \in Ids, Load(p)
      PROVE  CacheInv'
  <2>1. CASE LoadFails(p)
    BY <2>1, LandsKeeps DEF LoadFails
  <2>2. CASE Land(p)
    BY <2>2, LandsKeeps DEF Land
  <2> QED
    BY <1>2, <2>1, <2>2, ReadKeeps, PutKeeps DEF Load
<1> QED
  BY <1>1, <1>2, CreateKeeps, StartKeeps, AskKeeps, JoinKeeps, CacheTickKeeps DEF CacheNext

\* The inductive invariant holds in every state.
THEOREM CacheInvariance == CacheSpec => []CacheInv
BY CacheInitInv, CacheNextInv, PTL DEF CacheSpec

\* What the warm-up has read is never loaded by a request (cache.go Warm, main.go MarkReady).
THEOREM WarmedPollsAreHits == CacheSpec => []WarmedIsHit
<1>1. CacheInv => WarmedIsHit
  BY DEF CacheInv, Cold
<1> QED
  BY <1>1, CacheInvariance, PTL

\* The negative cache never exceeds its limit (cache.go rememberMiss).
THEOREM MissesAreBounded == CacheSpec => []MissesBounded
<1>1. CacheInv => MissesBounded
  BY DEF CacheInv, Bounded
<1> QED
  BY <1>1, CacheInvariance, PTL

\* Whoever asks later than the negative TTL and the time of one load after the creation of a
\* poll is not told that there is no such poll (cache.go Get, lookup, rememberMiss).
THEOREM CreatedPollsAreFound == CacheSpec => []CreatedIsFound
<1>1. CacheInv => CreatedIsFound
  BY DEF CacheInv
<1> QED
  BY <1>1, CacheInvariance, PTL

\* No poll is found for a uuid that nobody has created.
Foreign ==
    \A p \in Ids \ Polls : created[p] = Never /\ flight[p] \notin {"found", "loaded"}

CacheTyped == CacheTypeOK /\ Foreign

\* The types are kept, which the invariant does not need.
LEMMA CacheTypesKeep ==
  ASSUME CacheInv, CacheTyped, [CacheNext]_<<now, cacheVars>>
  PROVE  CacheTyped'
<1>1. CacheInv'
  BY CacheNextInv
<1>2. /\ created' \in [Ids -> 0..Never] /\ phase' \in {"starting", "warming", "ready"}
      /\ flight' \in [Ids -> Flights] /\ leader' \in [Ids -> Getters \cup {Nobody}]
      /\ at' \in [Getters -> {"idle", "join", "wait", "absent"}]
      /\ want' \in [Getters -> Ids \cup {Nothing}] /\ MissesBounded'
  BY <1>1 DEF CacheInv, CacheTypes, Bounded
<1>3. /\ created \in [Ids -> 0..Never] /\ flight \in [Ids -> Flights] /\ Polls \subseteq Ids
      /\ warming \subseteq warmed /\ warmed \subseteq Polls /\ byID \subseteq Polls
      /\ gone \subseteq Getters
  BY DEF CacheTyped, CacheTypeOK, Ids
<1>4. /\ warming' \subseteq warmed' /\ warmed' \subseteq Polls /\ byID' \subseteq Polls
      /\ gone' \subseteq Getters /\ Foreign'
  <2>1. ASSUME NEW p \in Polls, Create(p)
        PROVE  Foreign' /\ UNCHANGED <<warming, warmed, byID, gone>>
    BY <1>3, <2>1 DEF Create, CacheTyped, Foreign, loads, getters, Never
  <2>2. ASSUME NEW p \in Ids, Load(p)
        PROVE  byID' \subseteq Polls /\ gone' \subseteq gone /\ Foreign' /\ UNCHANGED <<warming, warmed>>
    <3>1. CASE ReadPoll(p)
      BY <1>3, <3>1 DEF ReadPoll, Becomes, Exists, CacheTyped, Foreign, getters, Never
    <3>2. CASE Put(p)
      <4>1. p \in Polls
        BY <2>2, <3>2 DEF Put, CacheTyped, Foreign
      <4> QED
        BY <1>3, <3>2, <4>1 DEF Put, Becomes, CacheTyped, Foreign, getters, Never
    <3>3. CASE Remember(p)
      BY <1>3, <3>3 DEF Remember, Becomes, CacheTyped, Foreign, getters, Never
    <3>4. CASE LoadFails(p) \/ Land(p)
      BY <1>3, <3>4 DEF LoadFails, Land, Lands, Return, CacheTyped, Foreign, Never
    <3> QED
      BY <2>2, <3>1, <3>2, <3>3, <3>4 DEF Load
  <2>3. CASE WarmRead \/ WarmPut \/ Ready \/ Restart
    BY <1>3, <2>3 DEF WarmRead, WarmPut, Ready, Restart, CacheTyped, Foreign, loads, getters, Never
  <2>4. ASSUME NEW g \in Getters, Join(g) \/ HangUp(g) \/ \E p \in Ids : Ask(g, p)
        PROVE  gone' \subseteq Getters /\ Foreign' /\ UNCHANGED <<warming, warmed, byID>>
    <3>1. want[g] \in Ids \/ at[g] = "idle"
      BY DEF CacheInv, CacheTypes
    <3>2. CASE Join(g)
      BY <1>3, <3>1, <3>2 DEF Join, CacheTyped, Foreign, loads, Never
    <3>3. CASE HangUp(g) \/ \E p \in Ids : Ask(g, p)
      BY <1>3, <3>3 DEF HangUp, Ask, Asks, Return, CacheTyped, Foreign, loads, Never
    <3> QED
      BY <2>4, <3>2, <3>3
  <2>5. CASE CacheTick \/ UNCHANGED <<now, cacheVars>>
    BY <1>3, <2>5 DEF CacheTick, cacheVars, loads, getters, CacheTyped, Foreign, Never
  <2> QED
    BY <1>3, <2>1, <2>2, <2>3, <2>4, <2>5 DEF CacheNext
<1> QED
  BY <1>2, <1>4 DEF CacheTyped, CacheTypeOK

\* At first there are no polls.
LEMMA CacheInitTyped == CacheInit => CacheTyped
<1> SUFFICES ASSUME CacheInit PROVE CacheTyped
  OBVIOUS
<1>1. DOMAIN missedAt = {}
  BY DEF CacheInit
<1>2. MissesBounded
  BY <1>1, CacheLimits, FS_EmptySet DEF MissesBounded
<1> QED
  BY <1>2, CacheLimits DEF CacheInit, CacheTyped, CacheTypeOK, Foreign, Never, Flights, Ids

\* The types of the cache: byID holds only polls that exist, the negative cache keeps its limit.
THEOREM CacheTypesHold == CacheSpec => []CacheTypeOK
<1>1. CacheSpec => [](CacheInv /\ CacheTyped)
  BY CacheInitInv, CacheInitTyped, CacheNextInv, CacheTypesKeep, PTL DEF CacheSpec
<1>2. CacheTyped => CacheTypeOK
  BY DEF CacheTyped
<1> QED
  BY <1>1, <1>2, PTL
=============================================================================
