-------------------------------- MODULE Sums --------------------------------
(***************************************************************************)
(* What SumFunctionOnSet and SumFunction of the community modules compute:  *)
(* the sum over the empty set is zero, and a change of one of the values    *)
(* changes the sum by as much.  Results adds up shards, LoadGen the answers *)
(* it has recorded.                                                        *)
(*                                                                         *)
(* The induction is over the subsets of a finite set.  It is stated for a   *)
(* set P of subsets and not for a predicate, so that it can be cited.       *)
(***************************************************************************)
EXTENDS Integers, FiniteSets, Functions, FiniteSetTheorems, TLAPS

\* The element that the fold takes out next.
Pick(s) == CHOOSE x \in s : TRUE
Less(s) == s \ {Pick(s)}

\* The function that the fold defines recursively over the subsets of S.
Folded(g, f, S) ==
    g = [s \in SUBSET S |-> IF s = {} THEN 0 ELSE f[Pick(s)] + g[s \ {Pick(s)}]]

\* Natural numbers on S, the same but for those of c.
AgreeBut(f, h, S, c) ==
    /\ \A x \in S : f[x] \in Nat /\ h[x] \in Nat
    /\ \A x \in S \ {c} : f[x] = h[x]

-----------------------------------------------------------------------------
\* Induction over the subsets of a finite set: P holds of a set if it holds of all smaller ones.
LEMMA SubsetInduction ==
  ASSUME NEW S, IsFiniteSet(S), NEW P,
         \A T \in SUBSET S : (\A U \in SUBSET T : U # T => U \in P) => T \in P
  PROVE  SUBSET S \subseteq P
<1> DEFINE D == (SUBSET S) \ P
<1>1. SUFFICES ASSUME D # {} PROVE FALSE
  OBVIOUS
<1>2. D \subseteq FiniteSubsetsOf(S)
  BY FS_Subset DEF FiniteSubsetsOf
<1>3. PICK t \in D : \A u \in D : ~(<<u, t>> \in StrictSubsetOrdering(S))
  <2> HIDE DEF D
  <2> QED BY <1>1, <1>2, FS_StrictSubsetOrderingWellFounded, WFMin
<1> QED
  BY <1>3 DEF StrictSubsetOrdering

\* What is left after an element has been taken out is a smaller set.
LEMMA LessIsSmaller ==
  ASSUME NEW s, s # {}
  PROVE  Pick(s) \in s /\ Less(s) \in SUBSET s /\ Less(s) # s
BY DEF Pick, Less

\* Two such functions agree where both are defined.
LEMMA FoldIsUnique ==
  ASSUME NEW f, NEW S, IsFiniteSet(S), NEW T \in SUBSET S, NEW g, NEW h,
         Folded(g, f, S), Folded(h, f, T)
  PROVE  \A s \in SUBSET T : g[s] = h[s]
<1> DEFINE P == {s \in SUBSET T : g[s] = h[s]}
<1>1. ASSUME NEW t \in SUBSET T, \A u \in SUBSET t : u # t => u \in P
      PROVE  t \in P
  <2>1. /\ g[t] = IF t = {} THEN 0 ELSE f[Pick(t)] + g[Less(t)]
        /\ h[t] = IF t = {} THEN 0 ELSE f[Pick(t)] + h[Less(t)]
    BY DEF Folded, Less
  <2>2. t # {} => g[Less(t)] = h[Less(t)]
    BY <1>1, LessIsSmaller
  <2> QED
    BY <2>1, <2>2
<1>2. SUBSET T \subseteq P
  <2>1. IsFiniteSet(T)
    BY FS_Subset
  <2> HIDE DEF P
  <2> QED BY <1>1, <2>1, SubsetInduction
<1> QED
  BY <1>2

\* There is such a function, since it can be put together from those of the smaller sets.
LEMMA FoldExists ==
  ASSUME NEW f, NEW S, IsFiniteSet(S)
  PROVE  \E g : Folded(g, f, S)
<1> DEFINE P == {T \in SUBSET S : \E g : Folded(g, f, T)}
<1>1. ASSUME NEW t \in SUBSET S, \A u \in SUBSET t : u # t => u \in P
      PROVE  t \in P
  <2> DEFINE G(u) == CHOOSE g : Folded(g, f, u)
             h == [s \in SUBSET t |-> IF s = {} THEN 0 ELSE f[Pick(s)] + G(Less(s))[Less(s)]]
  <2>1. ASSUME NEW u \in SUBSET t, u # t
        PROVE  Folded(G(u), f, u)
    <3>1. \E g : Folded(g, f, u)
      BY <1>1, <2>1
    <3> QED
      BY <3>1
  <2>2. ASSUME NEW s \in SUBSET t, s # {}
        PROVE  h[Less(s)] = G(Less(s))[Less(s)]
    <3> DEFINE u == Less(s)
    <3>1. u \in SUBSET t /\ u # t /\ IsFiniteSet(u)
      BY <2>2, LessIsSmaller, FS_Subset
    <3>2. Folded(G(u), f, u)
      BY <2>1, <3>1
    <3>3. CASE u = {}
      <4> HIDE DEF G
      <4> QED BY <3>1, <3>2, <3>3 DEF Folded
    <3>4. CASE u # {}
      <4> DEFINE v == Less(u)
      <4>1. v \in SUBSET u /\ v \in SUBSET t /\ v # t
        BY <3>1, <3>4, LessIsSmaller
      <4>2. Folded(G(v), f, v)
        BY <2>1, <4>1
      <4> HIDE DEF G, v, u
      <4>3. G(u)[v] = G(v)[v]
        BY <3>1, <3>2, <4>1, <4>2, FoldIsUnique
      <4>4. G(u)[u] = f[Pick(u)] + G(u)[v]
        BY <3>2, <3>4 DEF Folded, v, Less
      <4>5. h[u] = f[Pick(u)] + G(v)[v]
        BY <3>1, <3>4 DEF v
      <4> QED
        BY <4>3, <4>4, <4>5 DEF u
    <3> QED
      BY <3>3, <3>4
  <2> DEFINE k == [s \in SUBSET t |-> IF s = {} THEN 0 ELSE f[Pick(s)] + h[Less(s)]]
  <2>3. h = k
    <3>1. ASSUME NEW s \in SUBSET t
          PROVE  h[s] = k[s]
      <4> HIDE DEF G
      <4>1. CASE s = {}
        BY <4>1
      <4>2. CASE s # {}
        BY <2>2, <4>2
      <4> QED
        BY <4>1, <4>2
    <3> HIDE DEF G
    <3> QED
      BY <3>1
  <2>4. Folded(h, f, t)
    <3> HIDE DEF h
    <3> QED BY <2>3 DEF Folded, Less
  <2> HIDE DEF h
  <2> QED
    BY <2>4
<1>2. SUBSET S \subseteq P
  <2> HIDE DEF P
  <2> QED BY <1>1, SubsetInduction
<1> QED
  BY <1>2

\* A sum over a set that is not empty is one of the values and the sum over the rest.
LEMMA SumStep ==
  ASSUME NEW f, NEW S, IsFiniteSet(S)
  PROVE  SumFunctionOnSet(f, S) =
            IF S = {} THEN 0 ELSE f[Pick(S)] + SumFunctionOnSet(f, Less(S))
<1>1. ASSUME NEW U \in SUBSET S
      PROVE  \E g : Folded(g, f, U) /\ SumFunctionOnSet(f, U) = g[U]
  <2>1. \E g : Folded(g, f, U)
    BY FoldExists, FS_Subset
  <2> QED
    BY <2>1 DEF SumFunctionOnSet, FoldFunctionOnSet, MapThenFoldSet, Folded, Pick
<1>2. PICK g : Folded(g, f, S) /\ SumFunctionOnSet(f, S) = g[S]
  BY <1>1
<1>3. g[S] = IF S = {} THEN 0 ELSE f[Pick(S)] + g[Less(S)]
  BY <1>2 DEF Folded, Less
<1>4. CASE S = {}
  BY <1>2, <1>3, <1>4
<1>5. CASE S # {}
  <2>1. Less(S) \in SUBSET S
    BY <1>5, LessIsSmaller
  <2>2. PICK h : Folded(h, f, Less(S)) /\ SumFunctionOnSet(f, Less(S)) = h[Less(S)]
    BY <1>1, <2>1
  <2>3. g[Less(S)] = h[Less(S)]
    BY <1>2, <2>1, <2>2, FoldIsUnique
  <2> QED
    BY <1>2, <1>3, <1>5, <2>2, <2>3
<1> QED
  BY <1>4, <1>5

-----------------------------------------------------------------------------
\* A sum of natural numbers is one.
LEMMA SumIsNat ==
  ASSUME NEW f, NEW S, IsFiniteSet(S), \A x \in S : f[x] \in Nat
  PROVE  SumFunctionOnSet(f, S) \in Nat
<1> DEFINE P == {T \in SUBSET S : SumFunctionOnSet(f, T) \in Nat}
<1>1. ASSUME NEW t \in SUBSET S, \A u \in SUBSET t : u # t => u \in P
      PROVE  t \in P
  <2>1. IsFiniteSet(t)
    BY FS_Subset
  <2>2. CASE t = {}
    <3>1. SumFunctionOnSet(f, t) = 0
      BY <2>1, <2>2, SumStep
    <3> QED BY <3>1
  <2>3. CASE t # {}
    <3>1. f[Pick(t)] \in Nat /\ SumFunctionOnSet(f, Less(t)) \in Nat
      BY <1>1, <2>3, LessIsSmaller
    <3>2. SumFunctionOnSet(f, t) = f[Pick(t)] + SumFunctionOnSet(f, Less(t))
      BY <2>1, <2>3, SumStep
    <3> QED BY <3>1, <3>2
  <2> QED
    BY <2>2, <2>3
<1>2. SUBSET S \subseteq P
  <2> HIDE DEF P
  <2> QED BY <1>1, SubsetInduction
<1> QED
  BY <1>2

\* A sum of zeros is zero.
LEMMA SumOfZeros ==
  ASSUME NEW f, NEW S, IsFiniteSet(S), \A x \in S : f[x] = 0
  PROVE  SumFunctionOnSet(f, S) = 0
<1> DEFINE P == {T \in SUBSET S : SumFunctionOnSet(f, T) = 0}
<1>1. ASSUME NEW t \in SUBSET S, \A u \in SUBSET t : u # t => u \in P
      PROVE  t \in P
  <2>1. IsFiniteSet(t)
    BY FS_Subset
  <2>2. t # {} => f[Pick(t)] = 0 /\ SumFunctionOnSet(f, Less(t)) = 0
    BY <1>1, LessIsSmaller
  <2> QED
    BY <2>1, <2>2, SumStep
<1>2. SUBSET S \subseteq P
  <2> HIDE DEF P
  <2> QED BY <1>1, SubsetInduction
<1> QED
  BY <1>2

\* When one value changes, the sum changes by as much.
LEMMA SumChangesByOne ==
  ASSUME NEW f, NEW h, NEW S, IsFiniteSet(S), NEW c \in S,
         AgreeBut(f, h, S, c)
  PROVE  SumFunctionOnSet(h, S) = SumFunctionOnSet(f, S) - f[c] + h[c]
<1> DEFINE F(T) == SumFunctionOnSet(f, T)
           H(T) == SumFunctionOnSet(h, T)
           Claim(T) == H(T) = F(T) + (IF c \in T THEN h[c] - f[c] ELSE 0)
           P == {T \in SUBSET S : Claim(T)}
<1> USE DEF AgreeBut
<1>1. ASSUME NEW T \in SUBSET S
      PROVE  IsFiniteSet(T) /\ F(T) \in Nat /\ H(T) \in Nat
  <2>1. IsFiniteSet(T)
    BY FS_Subset
  <2> QED
    BY <2>1, SumIsNat
<1>2. ASSUME NEW t \in SUBSET S, \A u \in SUBSET t : u # t => u \in P
      PROVE  t \in P
  <2>1. CASE t = {}
    <3>1. F(t) = 0 /\ H(t) = 0
      BY <1>1, <2>1, SumStep
    <3> HIDE DEF F, H
    <3> QED BY <2>1, <3>1
  <2>2. CASE t # {}
    <3> DEFINE x == Pick(t)
               u == Less(t)
    <3>1. x \in t /\ x \in S /\ u \in SUBSET S /\ u \in SUBSET t /\ u # t
      BY <2>2, LessIsSmaller
    <3>2. Claim(u)
      BY <1>2, <3>1
    <3>3. F(t) = f[x] + F(u) /\ H(t) = h[x] + H(u)
      BY <1>1, <2>2, SumStep
    <3>4. F(u) \in Nat /\ H(u) \in Nat /\ f[x] \in Nat /\ h[x] \in Nat /\ h[c] \in Nat /\ f[c] \in Nat
      BY <1>1, <3>1
    <3>5. c \in u <=> c \in t /\ c # x
      BY DEF Less
    <3>6. x # c => f[x] = h[x]
      BY <3>1
    <3> HIDE DEF x, u, F, H
    <3>7. CASE x = c
      BY <3>1, <3>2, <3>3, <3>4, <3>5, <3>7
    <3>8. CASE x # c
      BY <3>1, <3>2, <3>3, <3>4, <3>5, <3>6, <3>8
    <3> QED
      BY <3>7, <3>8
  <2> QED
    BY <2>1, <2>2
<1>3. SUBSET S \subseteq P
  <2> HIDE DEF P
  <2> QED BY <1>2, SubsetInduction
<1> QED
  BY <1>1, <1>3

\* Larger values have a larger sum.
LEMMA SumIsMonotone ==
  ASSUME NEW f, NEW h, NEW S, IsFiniteSet(S),
         \A x \in S : f[x] \in Nat /\ h[x] \in Nat /\ f[x] <= h[x]
  PROVE  SumFunctionOnSet(f, S) <= SumFunctionOnSet(h, S)
<1> DEFINE F(T) == SumFunctionOnSet(f, T)
           H(T) == SumFunctionOnSet(h, T)
           P == {T \in SUBSET S : F(T) <= H(T)}
<1>1. ASSUME NEW t \in SUBSET S, \A u \in SUBSET t : u # t => u \in P
      PROVE  t \in P
  <2>1. IsFiniteSet(t)
    BY FS_Subset
  <2>2. CASE t = {}
    BY <2>1, <2>2, SumStep
  <2>3. CASE t # {}
    <3> DEFINE x == Pick(t)
               u == Less(t)
    <3>1. x \in S /\ u \in SUBSET S /\ u \in SUBSET t /\ u # t /\ IsFiniteSet(u)
      BY <2>1, <2>3, LessIsSmaller, FS_Subset
    <3>2. F(u) <= H(u)
      BY <1>1, <3>1
    <3>3. F(t) = f[x] + F(u) /\ H(t) = h[x] + H(u)
      BY <2>1, <2>3, SumStep
    <3>4. F(u) \in Nat /\ H(u) \in Nat /\ f[x] \in Nat /\ h[x] \in Nat /\ f[x] <= h[x]
      BY <3>1, SumIsNat
    <3> HIDE DEF x, u, F, H
    <3> QED
      BY <3>2, <3>3, <3>4
  <2> QED
    BY <2>2, <2>3
<1>2. SUBSET S \subseteq P
  <2> HIDE DEF P
  <2> QED BY <1>1, SubsetInduction
<1> QED
  BY <1>2

\* The sum of equal values is their number times the value.
LEMMA SumOfConstant ==
  ASSUME NEW f, NEW S, IsFiniteSet(S), NEW k \in Nat, \A x \in S : f[x] = k
  PROVE  SumFunctionOnSet(f, S) = Cardinality(S) * k
<1> DEFINE P == {T \in SUBSET S : SumFunctionOnSet(f, T) = Cardinality(T) * k}
<1>1. ASSUME NEW t \in SUBSET S, \A u \in SUBSET t : u # t => u \in P
      PROVE  t \in P
  <2>1. IsFiniteSet(t)
    BY FS_Subset
  <2>2. CASE t = {}
    BY <2>1, <2>2, SumStep, FS_EmptySet
  <2>3. CASE t # {}
    <3>1. Pick(t) \in t /\ Less(t) \in SUBSET t /\ Less(t) # t
      BY <2>3, LessIsSmaller
    <3>2. Cardinality(t) = Cardinality(Less(t)) + 1 /\ Cardinality(Less(t)) \in Nat
      <4>1. Less(t) = t \ {Pick(t)}
        BY DEF Less
      <4>2. /\ IsFiniteSet(Less(t)) /\ Cardinality(Less(t)) = Cardinality(t) - 1
            /\ Cardinality(t) \in Nat
        BY <2>1, <3>1, <4>1, FS_RemoveElement, FS_CardinalityType
      <4> QED
        BY <4>2, FS_CardinalityType
    <3>3. SumFunctionOnSet(f, Less(t)) = Cardinality(Less(t)) * k
      BY <1>1, <3>1
    <3>4. SumFunctionOnSet(f, t) = k + SumFunctionOnSet(f, Less(t))
      BY <2>1, <2>3, <3>1, SumStep
    <3> QED
      BY <3>2, <3>3, <3>4
  <2> QED
    BY <2>2, <2>3
<1> HIDE DEF P
<1>2. SUBSET S \subseteq P
  BY <1>1, SubsetInduction
<1> QED
  BY <1>2 DEF P
=============================================================================
