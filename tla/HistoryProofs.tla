-------------------------- MODULE HistoryProofs --------------------------
(***************************************************************************)
(* Theorems about History for any limits, window, number of messages and   *)
(* of calls.  They rest on what the folds of repairToolPairing, of         *)
(* trimToCacheLimit and of the filters make of any sequence of messages.   *)
(***************************************************************************)
EXTENDS History, FiniteSetTheorems, SequenceTheorems, WellFoundedInduction, TLAPS

(***************************************************************************)
(* Induction, and the functions folds are made of.                         *)
(***************************************************************************)
LEMMA Least ==
  ASSUME NEW T, T \subseteq Nat, T # {}
  PROVE  \E n \in T : \A m \in T : n <= m
<1> DEFINE R == OpToRel(<, Nat)
<1>1. IsWellFoundedOn(R, Nat)
  BY NatLessThanWellFounded
<1>2. \A n, m \in Nat : m < n => <<m, n>> \in R
  BY DEF OpToRel
<1> HIDE DEF R
<1>3. PICK n \in T : \A m \in T : ~ (<<m, n>> \in R)
  BY <1>1, WFMin
<1>4. ASSUME NEW m \in T PROVE n <= m
  <2>1. n \in Nat /\ m \in Nat
    OBVIOUS
  <2>2. ~ (m < n)
    BY <1>2, <1>3, <2>1
  <2> QED BY <2>1, <2>2
<1> QED BY <1>4

LEMMA Induction ==
  ASSUME NEW T, T \subseteq Nat, 0 \in T, \A n \in T : n + 1 \in T
  PROVE  \A n \in Nat : n \in T
<1> DEFINE Out == Nat \ T
<1>1. CASE Out # {}
  <2>1. PICK n \in Out : \A m \in Out : n <= m
    BY <1>1, Least
  <2>2. n # 0 /\ n - 1 \in Nat /\ n - 1 \notin Out
    BY <2>1
  <2> QED BY <2>1, <2>2
<1> QED BY <1>1

LEMMA MaxIs ==
  ASSUME NEW n \in Nat, NEW S \in SUBSET (1..n), S # {}
  PROVE  Max(S) \in S /\ \A y \in S : Max(S) >= y
<1> DEFINE T == {n - y : y \in S}
<1>1. T \subseteq Nat /\ T # {}
  <2>1. \A y \in S : n - y \in Nat
    OBVIOUS
  <2> QED BY <2>1
<1>2. PICK t \in T : \A u \in T : t <= u
  <2> HIDE DEF T
  <2> QED BY <1>1, Least
<1>3. PICK x \in S : t = n - x
  OBVIOUS
<1>4. \A y \in S : x >= y
  <2> TAKE y \in S
  <2>1. n - y \in T
    OBVIOUS
  <2>2. t <= n - y
    BY <1>2, <2>1
  <2> QED BY <1>3, <2>2
<1> QED BY <1>4 DEF Max

\* F from left to right over s, as a function of the set of positions done.
Folds(g, F, base, s, n) ==
  \A S \in SUBSET (1..n) :
    g[S] = IF S = {} THEN base ELSE F[<<g[S \ {Max(S)}], s[Max(S)]>>]

LEMMA FoldExists ==
  ASSUME NEW X, NEW M, NEW F \in [X \X M -> X], NEW n \in Nat, NEW s \in [1..n -> M], NEW base \in X
  PROVE  \E g \in [SUBSET (1..n) -> X] : Folds(g, F, base, s, n)
<1> DEFINE Good(g, k) ==
      \A S \in SUBSET (1..k) :
        g[S] = IF S = {} THEN base ELSE F[<<g[S \ {Max(S)}], s[Max(S)]>>]
    T == {k \in Nat : k <= n => \E g \in [SUBSET (1..k) -> X] : Good(g, k)}
<1>1. 0 \in T
  <2> DEFINE g == [S \in SUBSET (1..0) |-> base]
  <2>1. 1..0 = {}
    OBVIOUS
  <2>2. g \in [SUBSET (1..0) -> X]
    OBVIOUS
  <2>3. Good(g, 0)
    BY <2>1
  <2> QED BY <2>2, <2>3
<1>2. ASSUME NEW k \in T, k + 1 <= n PROVE \E g \in [SUBSET (1..(k+1)) -> X] : Good(g, k + 1)
  <2>1. k \in Nat /\ k <= n
    BY <1>2
  <2>2. PICK f \in [SUBSET (1..k) -> X] : Good(f, k)
    BY <1>2, <2>1
  <2> DEFINE g == [S \in SUBSET (1..(k+1)) |->
                     IF S = {} THEN base ELSE F[<<f[S \ {Max(S)}], s[Max(S)]>>]]
  <2>3. ASSUME NEW S \in SUBSET (1..(k+1)), S # {}
        PROVE  S \ {Max(S)} \in SUBSET (1..k) /\ Max(S) \in 1..n
    <3>0. k + 1 \in Nat /\ S \in SUBSET (1..(k+1)) /\ S # {}
      BY <2>1, <2>3
    <3>1. Max(S) \in S /\ \A y \in S : Max(S) >= y
      BY <3>0, MaxIs
    <3>2. \A y \in S \ {Max(S)} : y \in 1..k
      <4> TAKE y \in S \ {Max(S)}
      <4>1. y \in 1..(k+1) /\ Max(S) \in 1..(k+1) /\ Max(S) >= y /\ y # Max(S)
        BY <3>0, <3>1
      <4> QED BY <2>1, <4>1
    <3>3. Max(S) \in 1..n
      <4>1. Max(S) \in 1..(k+1)
        BY <3>0, <3>1
      <4> HIDE DEF T
      <4> QED BY <1>2, <2>1, <4>1
    <3> QED BY <3>2, <3>3
  <2>4. g \in [SUBSET (1..(k+1)) -> X]
    <3>1. ASSUME NEW S \in SUBSET (1..(k+1)), S # {}
          PROVE  F[<<f[S \ {Max(S)}], s[Max(S)]>>] \in X
      <4>1. f[S \ {Max(S)}] \in X /\ s[Max(S)] \in M
        BY <2>3, <3>1
      <4> QED BY <4>1
    <3> QED BY <3>1
  <2>5. \A S \in SUBSET (1..k) : S \in SUBSET (1..(k+1)) /\ g[S] = f[S]
    <3> TAKE S \in SUBSET (1..k)
    <3>1. S \in SUBSET (1..(k+1))
      BY <2>1
    <3>2. f[S] = IF S = {} THEN base ELSE F[<<f[S \ {Max(S)}], s[Max(S)]>>]
      BY <2>2
    <3> QED BY <3>1, <3>2
  <2>6. Good(g, k + 1)
    <3> SUFFICES ASSUME NEW S \in SUBSET (1..(k+1))
                 PROVE  g[S] = IF S = {} THEN base ELSE F[<<g[S \ {Max(S)}], s[Max(S)]>>]
      OBVIOUS
    <3>1. CASE S = {}
      BY <3>1
    <3>2. CASE S # {}
      <4>1. g[S \ {Max(S)}] = f[S \ {Max(S)}]
        BY <2>3, <2>5, <3>2
      <4>2. g[S] = F[<<f[S \ {Max(S)}], s[Max(S)]>>]
        BY <3>2
      <4> HIDE DEF g
      <4> QED BY <3>2, <4>1, <4>2
    <3> QED BY <3>1, <3>2
  <2> HIDE DEF g, Good
  <2> QED BY <2>4, <2>6
<1>3. n \in T
  <2>1. ASSUME NEW k \in T PROVE k + 1 \in T
    <3>1. k + 1 \in Nat
      OBVIOUS
    <3>2. k + 1 <= n => \E g \in [SUBSET (1..(k+1)) -> X] : Good(g, k + 1)
      <4> HIDE DEF Good, T
      <4> QED BY <1>2
    <3> HIDE DEF Good
    <3> QED BY <3>1, <3>2
  <2>2. T \subseteq Nat
    OBVIOUS
  <2> HIDE DEF T
  <2> QED BY <1>1, <2>1, <2>2, Induction
<1>4. PICK g \in [SUBSET (1..n) -> X] : Good(g, n)
  <2>1. n <= n => \E g \in [SUBSET (1..n) -> X] : Good(g, n)
    <3> HIDE DEF Good
    <3> QED BY <1>3
  <2>2. n <= n
    OBVIOUS
  <2> HIDE DEF Good
  <2> QED BY <2>1, <2>2
<1> QED BY <1>4 DEF Folds

(***************************************************************************)
(* The placeholders of a set of calls: one for each.                       *)
(***************************************************************************)
LEMMA IdsFinite ==
  ASSUME NEW calls \in SUBSET Ids
  PROVE  IsFiniteSet(calls) /\ Cardinality(calls) \in Nat
<1>1. MaxIds \in Int /\ 1 \in Int
  BY HistoryAssumption
<1>2. IsFiniteSet(Ids)
  BY <1>1, FS_Interval DEF Ids
<1> QED BY <1>2, FS_Subset, FS_CardinalityType

LEMMA NthCalls ==
  ASSUME NEW calls \in SUBSET Ids
  PROVE  /\ \A k \in 1..Cardinality(calls) : NthCall(calls, k) \in calls
         /\ \A k, l \in 1..Cardinality(calls) : NthCall(calls, k) = NthCall(calls, l) => k = l
         /\ \A c \in calls : \E k \in 1..Cardinality(calls) : NthCall(calls, k) = c
<1> DEFINE n == Cardinality(calls)
           upto(c) == {d \in calls : d <= c}
           rank == [c \in calls |-> Cardinality(upto(c))]
<1>1. IsFiniteSet(calls) /\ n \in Nat /\ \A c \in calls : c \in Nat
  BY IdsFinite, HistoryAssumption DEF Ids
<1>2. ASSUME NEW c \in calls
      PROVE  IsFiniteSet(upto(c)) /\ Cardinality(upto(c)) \in 1..n
  <2>1. upto(c) \in SUBSET calls /\ c \in upto(c)
    BY <1>1
  <2> HIDE DEF upto
  <2>2. IsFiniteSet(upto(c)) /\ Cardinality(upto(c)) <= n
    BY <1>1, <2>1, FS_Subset
  <2>3. Cardinality(upto(c)) \in Nat /\ Cardinality(upto(c)) # 0
    BY <2>1, <2>2, FS_CardinalityType, FS_EmptySet
  <2> QED BY <1>1, <2>2, <2>3
<1>3. ASSUME NEW c \in calls, NEW e \in calls, c < e
      PROVE  Cardinality(upto(c)) # Cardinality(upto(e))
  <2>1. upto(c) \in SUBSET upto(e) /\ e \in upto(e) /\ e \notin upto(c)
    BY <1>1, <1>3
  <2>2. IsFiniteSet(upto(e))
    BY <1>2
  <2> HIDE DEF upto
  <2> QED BY <2>1, <2>2, FS_Subset
<1>4. \A c, e \in calls : Cardinality(upto(c)) = Cardinality(upto(e)) => c = e
  <2> HIDE DEF upto
  <2> TAKE c, e \in calls
  <2> HAVE Cardinality(upto(c)) = Cardinality(upto(e))
  <2>1. c < e \/ e < c \/ c = e
    BY <1>1
  <2> QED BY <1>3, <2>1
<1>5. \A k \in 1..n : \E c \in calls : Cardinality(upto(c)) = k
  <2>1. rank \in [calls -> 1..n] /\ \A c, e \in calls : rank[c] = rank[e] => c = e
    <3> HIDE DEF upto
    <3> QED BY <1>2, <1>4
  <2>2. IsFiniteSet(1..n) /\ Cardinality(1..n) = n
    BY <1>1, FS_Interval
  <2>3. rank \in Injection(calls, 1..n)
    <3> HIDE DEF rank
    <3> QED BY <2>1 DEF Injection, IsInjective
  <2>4. rank \in Surjection(calls, 1..n)
    <3> HIDE DEF rank
    <3> QED BY <2>2, <2>3, FS_Injection
  <2>5. \A k \in 1..n : \E c \in calls : rank[c] = k
    <3> HIDE DEF rank
    <3> QED BY <2>4 DEF Surjection
  <2> HIDE DEF upto
  <2> QED BY <2>5
<1>6. ASSUME NEW k \in 1..n
      PROVE  NthCall(calls, k) \in calls /\ Cardinality(upto(NthCall(calls, k))) = k
  BY <1>5 DEF NthCall
<1>7. ASSUME NEW c \in calls PROVE \E k \in 1..n : NthCall(calls, k) = c
  <2> DEFINE k == Cardinality(upto(c))
  <2>1. k \in 1..n
    BY <1>2
  <2>2. NthCall(calls, k) \in calls /\ Cardinality(upto(NthCall(calls, k))) = k
    <3> HIDE DEF k, upto
    <3> QED BY <1>6, <2>1
  <2>3. NthCall(calls, k) = c
    <3> HIDE DEF upto
    <3> QED BY <1>4, <2>2
  <2> QED BY <2>1, <2>3
<1> HIDE DEF upto
<1> QED BY <1>6, <1>7

\* Summaries have no identity of their own.
Kept == {m \in Messages : (m.role = "summary" /\ m.id = 0) \/ (m.role # "summary" /\ m.id \in Ids)}

LEMMA StubsAre ==
  ASSUME NEW calls \in SUBSET Ids
  PROVE  /\ Stubs(calls) \in Seq(Kept) /\ Len(Stubs(calls)) = Cardinality(calls)
         /\ \A k \in 1..Cardinality(calls) :
              /\ Stubs(calls)[k] = Message("stub", NthCall(calls, k), {})
              /\ Stubs(calls)[k].role = "stub" /\ Stubs(calls)[k].id = NthCall(calls, k)
<1>1. Cardinality(calls) \in Nat
  BY IdsFinite
<1>2. \A k \in 1..Cardinality(calls) : Message("stub", NthCall(calls, k), {}) \in Kept
  <2> TAKE k \in 1..Cardinality(calls)
  <2>1. NthCall(calls, k) \in Ids
    BY NthCalls
  <2> QED BY <2>1, HistoryAssumption DEF Message, Kept, Messages, Roles, Ids
<1> QED BY <1>1, <1>2 DEF Stubs, Message

(***************************************************************************)
(* The folds, step by step.                                                *)
(***************************************************************************)
LEMMA Beginnings ==
  ASSUME NEW k \in Nat \ {0}
  PROVE  Max(1..k) = k /\ (1..k) \ {k} = 1..(k-1) /\ 1..k # {}
<1>0. k \in Nat /\ k >= 1
  OBVIOUS
<1>1. k \in 1..k /\ \A y \in 1..k : k >= y
  BY <1>0
<1>2. \A x \in 1..k : (\A y \in 1..k : x >= y) => x = k
  BY <1>0, <1>1
<1>3. Max(1..k) = k
  BY <1>1, <1>2 DEF Max
<1>4. (1..k) \ {k} = 1..(k-1)
  BY <1>0
<1> QED BY <1>1, <1>3, <1>4

LEMMA Joins ==
  ASSUME NEW S, NEW s \in Seq(S), NEW t \in Seq(S)
  PROVE  /\ s \o t \in Seq(S) /\ Len(s \o t) = Len(s) + Len(t)
         /\ Len(s) \in Nat /\ Len(t) \in Nat
         /\ \A i \in 1..Len(s) : (s \o t)[i] = s[i]
         /\ \A i \in 1..Len(t) : (s \o t)[Len(s) + i] = t[i]
OBVIOUS

LEMMA Appends ==
  ASSUME NEW S, NEW s \in Seq(S), NEW m \in S
  PROVE  /\ Append(s, m) \in Seq(S) /\ Len(Append(s, m)) = Len(s) + 1 /\ Len(s) \in Nat
         /\ \A i \in 1..Len(s) : Append(s, m)[i] = s[i]
         /\ Append(s, m)[Len(s) + 1] = m
OBVIOUS

Repairing == [out : Seq(Kept), pending : SUBSET Ids]
NoRepair  == [out |-> <<>>, pending |-> {}]

LEMMA RepairStepTyped ==
  ASSUME NEW acc \in Repairing, NEW m \in Kept
  PROVE  RepairStep(acc, m) \in Repairing
<1>1. acc.out \in Seq(Kept) /\ acc.pending \in SUBSET Ids /\ m.refs \in SUBSET Ids
  BY DEF Repairing, Kept, Messages
<1>2. acc.out \o Stubs(acc.pending) \in Seq(Kept)
  BY <1>1, StubsAre, Joins
<1>3. /\ Append(acc.out, m) \in Seq(Kept)
      /\ Append(acc.out \o Stubs(acc.pending), m) \in Seq(Kept)
  BY <1>1, <1>2, Appends
<1> QED BY <1>1, <1>3 DEF RepairStep, Repairing

LEMMA RepairFold ==
  ASSUME NEW s \in Seq(Kept)
  PROVE  \E h : /\ h[0] = NoRepair
                /\ \A k \in 1..Len(s) : h[k] = RepairStep(h[k-1], s[k])
                /\ FoldLeft(RepairStep, NoRepair, s) = h[Len(s)]
<1> DEFINE n == Len(s)
           G(f) == [S \in SUBSET (1..n) |->
                      IF S = {} THEN NoRepair ELSE RepairStep(f[S \ {Max(S)}], s[Max(S)])]
           F == [p \in Repairing \X Kept |-> RepairStep(p[1], p[2])]
           iter == CHOOSE f : f = G(f)
<1>1. n \in Nat /\ s \in [1..n -> Kept] /\ DOMAIN s = 1..n /\ NoRepair \in Repairing
  BY DEF NoRepair, Repairing
<1>2. F \in [Repairing \X Kept -> Repairing]
  BY RepairStepTyped
<1>3. \A acc \in Repairing, m \in Kept : F[<<acc, m>>] = RepairStep(acc, m)
  OBVIOUS
<1>4. \E f : f = G(f)
  <2>1. PICK g \in [SUBSET (1..n) -> Repairing] : Folds(g, F, NoRepair, s, n)
    <3> HIDE DEF F, n, G, iter
    <3> QED BY <1>1, <1>2, FoldExists
  <2>2. ASSUME NEW S \in SUBSET (1..n), S # {}
        PROVE  F[<<g[S \ {Max(S)}], s[Max(S)]>>] = RepairStep(g[S \ {Max(S)}], s[Max(S)])
    <3>1. Max(S) \in 1..n
      <4> HIDE DEF n
      <4> QED BY <1>1, <2>2, MaxIs
    <3>2. g[S \ {Max(S)}] \in Repairing /\ s[Max(S)] \in Kept
      BY <1>1, <3>1
    <3> QED BY <1>3, <3>2
  <2>3. g = G(g)
    <3> HIDE DEF F
    <3> QED BY <2>1, <2>2 DEF Folds
  <2> QED BY <2>3
<1>5. iter = G(iter)
  <2> HIDE DEF G
  <2> QED BY <1>4
<1>6. FoldLeft(RepairStep, NoRepair, s) = iter[1..n]
  BY <1>1 DEF FoldLeft, MapThenFoldSet
<1> DEFINE h == [k \in 0..n |-> iter[1..k]]
<1>7. h[0] = NoRepair
  <2>1. 1..0 = {} /\ 0 \in 0..n
    BY <1>1
  <2>2. iter[{}] = NoRepair
    <3> HIDE DEF iter
    <3> QED BY <1>5
  <2> HIDE DEF iter
  <2> QED BY <2>1, <2>2
<1>8. ASSUME NEW k \in 1..n PROVE h[k] = RepairStep(h[k-1], s[k])
  <2>0. k \in Nat \ {0} /\ 1..k \in SUBSET (1..n) /\ k \in 0..n /\ k - 1 \in 0..n
    BY <1>1
  <2>1. 1..k # {} /\ Max(1..k) = k /\ (1..k) \ {k} = 1..(k-1)
    BY <2>0, Beginnings
  <2>2. iter[1..k] = RepairStep(iter[1..(k-1)], s[k])
    <3> HIDE DEF iter
    <3> QED BY <1>5, <2>0, <2>1
  <2> HIDE DEF iter
  <2> QED BY <2>0, <2>2
<1>9. FoldLeft(RepairStep, NoRepair, s) = h[n]
  <2> HIDE DEF iter
  <2> QED BY <1>1, <1>6
<1> HIDE DEF h
<1> QED BY <1>7, <1>8, <1>9

Trimming == [out : Seq(Kept), toDrop : Nat, tail : BOOLEAN]

LEMMA TrimStepTyped ==
  ASSUME NEW acc \in Trimming, NEW m \in Kept
  PROVE  TrimStep(acc, m) \in Trimming
<1>1. acc.out \in Seq(Kept) /\ acc.toDrop \in Nat /\ acc.tail \in BOOLEAN
  BY DEF Trimming
<1>2. Append(acc.out, m) \in Seq(Kept)
  BY <1>1, Appends
<1>3. (IF acc.toDrop = 0 THEN 0 ELSE acc.toDrop - 1) \in Nat
  BY <1>1
<1>4. ((acc.tail /\ Result(m)) \/ m.refs # {}) \in BOOLEAN
  OBVIOUS
<1>5. CASE ~Protected(m) /\ ((acc.tail /\ Result(m)) \/ acc.toDrop > 0)
  BY <1>1, <1>3, <1>4, <1>5 DEF TrimStep, Trimming
<1>6. CASE ~(~Protected(m) /\ ((acc.tail /\ Result(m)) \/ acc.toDrop > 0))
  BY <1>1, <1>2, <1>6 DEF TrimStep, Trimming
<1> QED BY <1>5, <1>6

LEMMA TrimFold ==
  ASSUME NEW s \in Seq(Kept), NEW start \in Trimming
  PROVE  \E h : /\ h[0] = start
                /\ \A k \in 1..Len(s) : h[k] = TrimStep(h[k-1], s[k])
                /\ FoldLeft(TrimStep, start, s) = h[Len(s)]
<1> DEFINE n == Len(s)
           G(f) == [S \in SUBSET (1..n) |->
                      IF S = {} THEN start ELSE TrimStep(f[S \ {Max(S)}], s[Max(S)])]
           F == [p \in Trimming \X Kept |-> TrimStep(p[1], p[2])]
           iter == CHOOSE f : f = G(f)
<1>1. n \in Nat /\ s \in [1..n -> Kept] /\ DOMAIN s = 1..n
  OBVIOUS
<1>2. F \in [Trimming \X Kept -> Trimming]
  BY TrimStepTyped
<1>3. \A acc \in Trimming, m \in Kept : F[<<acc, m>>] = TrimStep(acc, m)
  OBVIOUS
<1>4. \E f : f = G(f)
  <2>1. PICK g \in [SUBSET (1..n) -> Trimming] : Folds(g, F, start, s, n)
    <3> HIDE DEF F, n, G, iter
    <3> QED BY <1>1, <1>2, FoldExists
  <2>2. ASSUME NEW S \in SUBSET (1..n), S # {}
        PROVE  F[<<g[S \ {Max(S)}], s[Max(S)]>>] = TrimStep(g[S \ {Max(S)}], s[Max(S)])
    <3>1. Max(S) \in 1..n
      <4> HIDE DEF n
      <4> QED BY <1>1, <2>2, MaxIs
    <3>2. g[S \ {Max(S)}] \in Trimming /\ s[Max(S)] \in Kept
      BY <1>1, <3>1
    <3> QED BY <1>3, <3>2
  <2>3. g = G(g)
    <3> HIDE DEF F
    <3> QED BY <2>1, <2>2 DEF Folds
  <2> QED BY <2>3
<1>5. iter = G(iter)
  <2> HIDE DEF G
  <2> QED BY <1>4
<1>6. FoldLeft(TrimStep, start, s) = iter[1..n]
  BY <1>1 DEF FoldLeft, MapThenFoldSet
<1> DEFINE h == [k \in 0..n |-> iter[1..k]]
<1>7. h[0] = start
  <2>1. 1..0 = {} /\ 0 \in 0..n
    BY <1>1
  <2>2. iter[{}] = start
    <3> HIDE DEF iter
    <3> QED BY <1>5
  <2> HIDE DEF iter
  <2> QED BY <2>1, <2>2
<1>8. ASSUME NEW k \in 1..n PROVE h[k] = TrimStep(h[k-1], s[k])
  <2>0. k \in Nat \ {0} /\ 1..k \in SUBSET (1..n) /\ k \in 0..n /\ k - 1 \in 0..n
    BY <1>1
  <2>1. 1..k # {} /\ Max(1..k) = k /\ (1..k) \ {k} = 1..(k-1)
    BY <2>0, Beginnings
  <2>2. iter[1..k] = TrimStep(iter[1..(k-1)], s[k])
    <3> HIDE DEF iter
    <3> QED BY <1>5, <2>0, <2>1
  <2> HIDE DEF iter
  <2> QED BY <2>0, <2>2
<1>9. FoldLeft(TrimStep, start, s) = h[n]
  <2> HIDE DEF iter
  <2> QED BY <1>1, <1>6
<1> HIDE DEF h
<1> QED BY <1>7, <1>8, <1>9

OnlyStep(roles, out, m) == IF m.role \in roles THEN Append(out, m) ELSE out

LEMMA OnlyStepTyped ==
  ASSUME NEW roles, NEW out \in Seq(Kept), NEW m \in Kept
  PROVE  OnlyStep(roles, out, m) \in Seq(Kept)
BY Appends DEF OnlyStep

LEMMA OnlyFold ==
  ASSUME NEW s \in Seq(Kept), NEW roles
  PROVE  \E h : /\ h[0] = <<>>
                /\ \A k \in 1..Len(s) : h[k] = OnlyStep(roles, h[k-1], s[k])
                /\ Only(s, roles) = h[Len(s)]
<1> DEFINE n == Len(s)
           G(f) == [S \in SUBSET (1..n) |->
                      IF S = {} THEN <<>> ELSE OnlyStep(roles, f[S \ {Max(S)}], s[Max(S)])]
           F == [p \in Seq(Kept) \X Kept |-> OnlyStep(roles, p[1], p[2])]
           iter == CHOOSE f : f = G(f)
<1>1. n \in Nat /\ s \in [1..n -> Kept] /\ DOMAIN s = 1..n /\ <<>> \in Seq(Kept)
  OBVIOUS
<1>2. F \in [Seq(Kept) \X Kept -> Seq(Kept)]
  BY OnlyStepTyped
<1>3. \A acc \in Seq(Kept), m \in Kept : F[<<acc, m>>] = OnlyStep(roles, acc, m)
  OBVIOUS
<1>4. \E f : f = G(f)
  <2>1. PICK g \in [SUBSET (1..n) -> Seq(Kept)] : Folds(g, F, <<>>, s, n)
    <3> HIDE DEF F, n, G, iter
    <3> QED BY <1>1, <1>2, FoldExists
  <2>2. ASSUME NEW S \in SUBSET (1..n), S # {}
        PROVE  F[<<g[S \ {Max(S)}], s[Max(S)]>>] = OnlyStep(roles, g[S \ {Max(S)}], s[Max(S)])
    <3>1. Max(S) \in 1..n
      <4> HIDE DEF n
      <4> QED BY <1>1, <2>2, MaxIs
    <3>2. g[S \ {Max(S)}] \in Seq(Kept) /\ s[Max(S)] \in Kept
      BY <1>1, <3>1
    <3> QED BY <1>3, <3>2
  <2>3. g = G(g)
    <3> HIDE DEF F
    <3> QED BY <2>1, <2>2 DEF Folds
  <2> QED BY <2>3
<1>5. iter = G(iter)
  <2> HIDE DEF G
  <2> QED BY <1>4
<1>6. Only(s, roles) = iter[1..n]
  BY <1>1 DEF Only, OnlyStep, FoldLeft, MapThenFoldSet
<1> DEFINE h == [k \in 0..n |-> iter[1..k]]
<1>7. h[0] = <<>>
  <2>1. 1..0 = {} /\ 0 \in 0..n
    BY <1>1
  <2>2. iter[{}] = <<>>
    <3> HIDE DEF iter
    <3> QED BY <1>5
  <2> HIDE DEF iter
  <2> QED BY <2>1, <2>2
<1>8. ASSUME NEW k \in 1..n PROVE h[k] = OnlyStep(roles, h[k-1], s[k])
  <2>0. k \in Nat \ {0} /\ 1..k \in SUBSET (1..n) /\ k \in 0..n /\ k - 1 \in 0..n
    BY <1>1
  <2>1. 1..k # {} /\ Max(1..k) = k /\ (1..k) \ {k} = 1..(k-1)
    BY <2>0, Beginnings
  <2>2. iter[1..k] = OnlyStep(roles, iter[1..(k-1)], s[k])
    <3> HIDE DEF iter
    <3> QED BY <1>5, <2>0, <2>1
  <2> HIDE DEF iter
  <2> QED BY <2>0, <2>2
<1>9. Only(s, roles) = h[n]
  <2> HIDE DEF iter
  <2> QED BY <1>1, <1>6
<1> HIDE DEF h
<1> QED BY <1>7, <1>8, <1>9

\* What holds at the start of a fold and after each of its steps holds at its end.
LEMMA Along ==
  ASSUME NEW n \in Nat, NEW h, NEW X, h[0] \in X,
         \A k \in 1..n : h[k-1] \in X => h[k] \in X
  PROVE  h[n] \in X
<1> DEFINE T == {k \in Nat : k <= n => h[k] \in X}
<1>1. 0 \in T
  OBVIOUS
<1>2. ASSUME NEW k \in T PROVE k + 1 \in T
  <2>1. CASE k + 1 <= n
    <3>1. k + 1 \in 1..n /\ (k + 1) - 1 = k /\ k <= n
      BY <2>1
    <3>2. h[k] \in X
      BY <3>1
    <3> QED BY <3>1, <3>2
  <2>2. CASE ~ (k + 1 <= n)
    BY <2>2
  <2> QED BY <2>1, <2>2
<1>3. n \in T
  <2>1. T \subseteq Nat
    OBVIOUS
  <2> HIDE DEF T
  <2> QED BY <1>1, <1>2, <2>1, Induction
<1> QED BY <1>3

LEMMA RepairTyped ==
  ASSUME NEW s \in Seq(Kept), NEW flushTail \in BOOLEAN
  PROVE  Repair(s, flushTail) \in Seq(Kept)
<1>1. PICK h : /\ h[0] = NoRepair
               /\ \A k \in 1..Len(s) : h[k] = RepairStep(h[k-1], s[k])
               /\ FoldLeft(RepairStep, NoRepair, s) = h[Len(s)]
  BY RepairFold
<1>2. NoRepair \in Repairing /\ Len(s) \in Nat
  BY DEF NoRepair, Repairing
<1>3. \A k \in 1..Len(s) : h[k-1] \in Repairing => h[k] \in Repairing
  BY <1>1, RepairStepTyped
<1>4. h[Len(s)] \in Repairing
  BY <1>1, <1>2, <1>3, Along
<1> DEFINE end == FoldLeft(RepairStep, NoRepair, s)
<1>5. end.out \in Seq(Kept) /\ end.pending \in SUBSET Ids
  BY <1>1, <1>4 DEF Repairing
<1>6. Repair(s, flushTail) = end.out \o (IF flushTail THEN Stubs(end.pending) ELSE <<>>)
  BY DEF Repair, NoRepair
<1> HIDE DEF end
<1>7. (IF flushTail THEN Stubs(end.pending) ELSE <<>>) \in Seq(Kept)
  BY <1>5, StubsAre
<1> QED BY <1>5, <1>6, <1>7, Joins

LEMMA TrimTyped ==
  ASSUME NEW s \in Seq(Kept)
  PROVE  Trim(s) \in Seq(Kept)
<1> DEFINE start == [out |-> <<>>, toDrop |-> Len(s) - LowWater, tail |-> FALSE]
<1>1. CASE Len(s) <= MaxMessages
  BY <1>1 DEF Trim
<1>2. CASE ~ (Len(s) <= MaxMessages)
  <2>1. Len(s) - LowWater \in Nat /\ Len(s) \in Nat
    BY <1>2, HistoryAssumption
  <2>2. start \in Trimming
    BY <2>1 DEF Trimming
  <2>3. Trim(s) = FoldLeft(TrimStep, start, s).out
    BY <1>2 DEF Trim
  <2> HIDE DEF start
  <2>4. PICK h : /\ h[0] = start
                 /\ \A k \in 1..Len(s) : h[k] = TrimStep(h[k-1], s[k])
                 /\ FoldLeft(TrimStep, start, s) = h[Len(s)]
    BY <2>2, TrimFold
  <2>5. \A k \in 1..Len(s) : h[k-1] \in Trimming => h[k] \in Trimming
    BY <2>4, TrimStepTyped
  <2>6. h[Len(s)] \in Trimming
    BY <2>1, <2>2, <2>4, <2>5, Along
  <2> QED BY <2>3, <2>4, <2>6 DEF Trimming
<1> QED BY <1>1, <1>2

LEMMA OnlyTyped ==
  ASSUME NEW s \in Seq(Kept), NEW roles
  PROVE  /\ Only(s, roles) \in Seq(Kept)
         /\ \A i \in 1..Len(Only(s, roles)) : Only(s, roles)[i].role \in roles
<1> DEFINE X == {out \in Seq(Kept) : \A i \in 1..Len(out) : out[i].role \in roles}
<1>1. PICK h : /\ h[0] = <<>>
               /\ \A k \in 1..Len(s) : h[k] = OnlyStep(roles, h[k-1], s[k])
               /\ Only(s, roles) = h[Len(s)]
  BY OnlyFold
<1>2. <<>> \in X /\ Len(s) \in Nat
  OBVIOUS
<1>3. ASSUME NEW k \in 1..Len(s), h[k-1] \in X PROVE h[k] \in X
  <2>1. s[k] \in Kept /\ h[k-1] \in Seq(Kept) /\ h[k] = OnlyStep(roles, h[k-1], s[k])
    BY <1>1, <1>3
  <2>2. CASE s[k].role \in roles
    <3>1. h[k] = Append(h[k-1], s[k])
      BY <2>1, <2>2 DEF OnlyStep
    <3>2. \A i \in 1..Len(h[k]) : h[k][i].role \in roles
      BY <1>3, <2>1, <2>2, <3>1
    <3>3. h[k] \in Seq(Kept)
      BY <2>1, <3>1, Appends
    <3> QED BY <3>2, <3>3
  <2>3. CASE s[k].role \notin roles
    BY <1>3, <2>1, <2>3 DEF OnlyStep
  <2> QED BY <2>2, <2>3
<1> HIDE DEF X
<1>4. h[Len(s)] \in X
  BY <1>1, <1>2, <1>3, Along
<1> QED BY <1>1, <1>4 DEF X

(***************************************************************************)
(* Pairing.  Behind the last message that is no result, the calls that     *)
(* still wait for theirs are `pending`: repairToolPairing keeps that true  *)
(* of what it has built so far.                                            *)
(***************************************************************************)
LastAt(msgs, i) ==
  /\ i \in DOMAIN msgs /\ ~Result(msgs[i])
  /\ \A k \in i+1..Len(msgs) : Result(msgs[k])

NoAnswer(msgs, i, c) == \A j \in DOMAIN msgs : ~ (Follows(msgs, i, j) /\ msgs[j].id = c)

OneAnswer(msgs, i, c) ==
  \E j \in DOMAIN msgs : \A k \in DOMAIN msgs : (Follows(msgs, i, k) /\ msgs[k].id = c) <=> k = j

ResultsFollow(msgs) ==
  \A j \in DOMAIN msgs : Result(msgs[j]) => \E i \in DOMAIN msgs : Follows(msgs, i, j)

CallsAnswered(msgs, pending) ==
  \A i \in DOMAIN msgs : msgs[i].role = "assistant" =>
    \A c \in msgs[i].refs :
      IF c \in pending /\ LastAt(msgs, i) THEN NoAnswer(msgs, i, c) ELSE OneAnswer(msgs, i, c)

PendingAtEnd(msgs, pending) ==
  pending # {} =>
    \E i \in DOMAIN msgs : LastAt(msgs, i) /\ msgs[i].role = "assistant" /\ pending \subseteq msgs[i].refs

Paired(msgs, pending) ==
  ResultsFollow(msgs) /\ CallsAnswered(msgs, pending) /\ PendingAtEnd(msgs, pending)

\* Results of pending calls, each at most once.
AnswersOf(t, pending) ==
  /\ \A q \in 1..Len(t) : Result(t[q]) /\ t[q].id \in pending
  /\ \A q, r \in 1..Len(t) : t[q].id = t[r].id => q = r

LEMMA JoinedFollow ==
  ASSUME NEW msgs \in Seq(Kept), NEW t \in Seq(Kept), NEW pending, AnswersOf(t, pending)
  PROVE  /\ \A i, j \in 1..Len(msgs) : Follows(msgs \o t, i, j) <=> Follows(msgs, i, j)
         /\ \A i \in 1..Len(msgs), q \in 1..Len(t) :
              Follows(msgs \o t, i, Len(msgs) + q) <=>
                LastAt(msgs, i) /\ msgs[i].role = "assistant" /\ t[q].id \in msgs[i].refs
         /\ \A i \in 1..Len(msgs) : LastAt(msgs \o t, i) <=> LastAt(msgs, i)
<1> DEFINE new == msgs \o t
           l == Len(msgs)
<1>1. /\ l \in Nat /\ Len(t) \in Nat /\ Len(new) = l + Len(t)
      /\ \A i \in 1..l : new[i] = msgs[i]
      /\ \A q \in 1..Len(t) : new[l + q] = t[q]
      /\ DOMAIN new = 1..(l + Len(t)) /\ DOMAIN msgs = 1..l
  BY Joins
<1> HIDE DEF new, l
<1>2. \A i, j \in 1..l : Follows(new, i, j) <=> Follows(msgs, i, j)
  <2> TAKE i, j \in 1..l
  <2>1. \A k \in i+1..j : k \in 1..l
    BY <1>1
  <2> QED BY <1>1, <2>1 DEF Follows, Answers
<1>3. \A q \in 1..Len(t) : Result(new[l + q])
  BY <1>1 DEF AnswersOf
<1>4. ASSUME NEW i \in 1..l, NEW q \in 1..Len(t)
      PROVE  Follows(new, i, l + q) <=>
               LastAt(msgs, i) /\ msgs[i].role = "assistant" /\ t[q].id \in msgs[i].refs
  <2>1. i < l + q /\ l + q \in i+1..l+q
    BY <1>1
  <2>2. ASSUME \A k \in i+1..(l + q) : Result(new[k])
        PROVE  \A k \in i+1..l : Result(msgs[k])
    <3> TAKE k \in i+1..l
    <3>1. k \in i+1..(l + q) /\ k \in 1..l
      BY <1>1
    <3> QED BY <1>1, <2>2, <3>1
  <2>3. ASSUME \A k \in i+1..l : Result(msgs[k]) 
        PROVE  \A k \in i+1..(l + q) : Result(new[k])
    <3> TAKE k \in i+1..(l + q)
    <3>1. CASE k <= l
      <4>1. k \in i+1..l /\ k \in 1..l
        BY <1>1, <3>1
      <4> QED BY <1>1, <2>3, <4>1
    <3>2. CASE ~ (k <= l)
      <4>1. k - l \in 1..Len(t) /\ l + (k - l) = k
        BY <1>1, <3>2
      <4> QED BY <1>3, <4>1
    <3> QED BY <3>1, <3>2
  <2>4. msgs[i].role = "assistant" => ~Result(msgs[i])
    BY DEF Result
  <2> QED BY <1>1, <1>3, <2>1, <2>2, <2>3, <2>4 DEF Follows, Answers, LastAt, l
<1>5. ASSUME NEW i \in 1..l
      PROVE  LastAt(new, i) <=> LastAt(msgs, i)
  <2>1. ASSUME \A k \in i+1..(l + Len(t)) : Result(new[k])
        PROVE  \A k \in i+1..l : Result(msgs[k])
    <3> TAKE k \in i+1..l
    <3>1. k \in i+1..(l + Len(t)) /\ k \in 1..l
      BY <1>1
    <3> QED BY <1>1, <2>1, <3>1
  <2>2. ASSUME \A k \in i+1..l : Result(msgs[k]) 
        PROVE  \A k \in i+1..(l + Len(t)) : Result(new[k])
    <3> TAKE k \in i+1..(l + Len(t))
    <3>1. CASE k <= l
      <4>1. k \in i+1..l /\ k \in 1..l
        BY <1>1, <3>1
      <4> QED BY <1>1, <2>2, <4>1
    <3>2. CASE ~ (k <= l)
      <4>1. k - l \in 1..Len(t) /\ l + (k - l) = k
        BY <1>1, <3>2
      <4> QED BY <1>3, <4>1
    <3> QED BY <3>1, <3>2
  <2>3. i \in DOMAIN new /\ i \in DOMAIN msgs
    BY <1>1
  <2> QED BY <1>1, <2>1, <2>2, <2>3 DEF LastAt, l
<1> QED BY <1>2, <1>4, <1>5 DEF new, l

LEMMA LastUnique ==
  ASSUME NEW msgs \in Seq(Kept), NEW i \in 1..Len(msgs), NEW j \in 1..Len(msgs), LastAt(msgs, i), LastAt(msgs, j)
  PROVE  i = j
<1>1. i < j \/ j < i \/ i = j
  OBVIOUS
<1>2. i < j => j \in i+1..Len(msgs)
  OBVIOUS
<1>3. j < i => i \in j+1..Len(msgs)
  OBVIOUS
<1> QED BY <1>1, <1>2, <1>3 DEF LastAt

LEMMA JoinAnswers ==
  ASSUME NEW msgs \in Seq(Kept), NEW t \in Seq(Kept), NEW pending \in SUBSET Ids,
         Paired(msgs, pending), AnswersOf(t, pending)
  PROVE  Paired(msgs \o t, pending \ {t[q].id : q \in 1..Len(t)})
<1> DEFINE new == msgs \o t
           l == Len(msgs)
           answered == {t[q].id : q \in 1..Len(t)}
<1>1. /\ l \in Nat /\ Len(t) \in Nat /\ Len(new) = l + Len(t)
      /\ \A i \in 1..l : new[i] = msgs[i]
      /\ \A q \in 1..Len(t) : new[l + q] = t[q]
      /\ DOMAIN new = 1..(l + Len(t)) /\ DOMAIN msgs = 1..l
  BY Joins
<1>2. /\ \A i, j \in 1..l : Follows(new, i, j) <=> Follows(msgs, i, j)
      /\ \A i \in 1..l, q \in 1..Len(t) :
           Follows(new, i, l + q) <=>
             LastAt(msgs, i) /\ msgs[i].role = "assistant" /\ t[q].id \in msgs[i].refs
      /\ \A i \in 1..l : LastAt(new, i) <=> LastAt(msgs, i)
  BY JoinedFollow
<1>3. \A q \in 1..Len(t) : t[q].id \in answered /\ t[q].id \in pending /\ Result(t[q])
  BY DEF AnswersOf
<1>4. \A c \in answered : \E q \in 1..Len(t) : t[q].id = c
  OBVIOUS
<1>5. \A k \in DOMAIN new : k \in 1..l \/ \E q \in 1..Len(t) : k = l + q
  <2> HIDE DEF new, l
  <2> TAKE k \in DOMAIN new
  <2>1. CASE k <= l
    BY <1>1, <2>1
  <2>2. CASE ~ (k <= l)
    <3>1. k - l \in 1..Len(t) /\ k = l + (k - l)
      BY <1>1, <2>2
    <3> QED BY <3>1
  <2> QED BY <2>1, <2>2
<1>6. (1..l) \subseteq DOMAIN new /\ \A q \in 1..Len(t) : l + q \in DOMAIN new /\ l + q \notin 1..l
  <2> HIDE DEF new, l
  <2> QED BY <1>1
<1>7. \A q, r \in 1..Len(t) : t[q].id = t[r].id => q = r
  BY DEF AnswersOf
<1>8. PendingAtEnd(msgs, pending) /\ ResultsFollow(msgs) /\ CallsAnswered(msgs, pending)
  BY DEF Paired
<1>9. \A i, j \in 1..l : LastAt(msgs, i) /\ LastAt(msgs, j) => i = j
  BY LastUnique
<1> HIDE DEF new, l, answered
<1>10. ResultsFollow(new)
  <2> SUFFICES ASSUME NEW j \in DOMAIN new, Result(new[j])
               PROVE  \E i \in DOMAIN new : Follows(new, i, j)
    BY DEF ResultsFollow
  <2>1. CASE j \in 1..l
    <3>1. PICK i \in 1..l : Follows(msgs, i, j)
      BY <1>1, <1>8, <2>1 DEF ResultsFollow
    <3> QED BY <1>2, <1>6, <2>1, <3>1
  <2>2. ASSUME NEW q \in 1..Len(t), j = l + q PROVE \E i \in DOMAIN new : Follows(new, i, j)
    <3>1. PICK i \in 1..l : LastAt(msgs, i) /\ msgs[i].role = "assistant" /\ pending \subseteq msgs[i].refs
      BY <1>1, <1>3, <1>8 DEF PendingAtEnd
    <3>2. Follows(new, i, l + q)
      BY <1>2, <1>3, <3>1
    <3> QED BY <1>6, <2>2, <3>2
  <2> QED BY <1>5, <2>1, <2>2
<1>11. ASSUME NEW i \in DOMAIN new, new[i].role = "assistant", NEW c \in new[i].refs
       PROVE  IF c \in pending \ answered /\ LastAt(new, i) THEN NoAnswer(new, i, c) ELSE OneAnswer(new, i, c)
  <2>1. i \in 1..l
    <3>1. ASSUME NEW q \in 1..Len(t), i = l + q PROVE FALSE
      BY <1>1, <1>3, <1>11, <3>1 DEF Result
    <3> QED BY <1>5, <3>1
  <2>2. /\ msgs[i].role = "assistant" /\ c \in msgs[i].refs
        /\ IF c \in pending /\ LastAt(msgs, i) THEN NoAnswer(msgs, i, c) ELSE OneAnswer(msgs, i, c)
    BY <1>1, <1>8, <1>11, <2>1 DEF CallsAnswered
  <2>3. \A k \in 1..l : (Follows(new, i, k) /\ new[k].id = c) <=> (Follows(msgs, i, k) /\ msgs[k].id = c)
    BY <1>1, <1>2, <2>1
  <2>4. \A q \in 1..Len(t) :
          (Follows(new, i, l + q) /\ new[l + q].id = c) <=> (LastAt(msgs, i) /\ t[q].id = c)
    BY <1>1, <1>2, <2>1, <2>2
  <2>5. CASE c \in pending /\ LastAt(msgs, i) /\ c \notin answered
    <3>1. NoAnswer(msgs, i, c) /\ LastAt(new, i)
      BY <1>2, <2>1, <2>2, <2>5
    <3>2. \A q \in 1..Len(t) : t[q].id # c
      BY <1>3, <2>5
    <3>3. NoAnswer(new, i, c)
      BY <1>1, <1>5, <2>3, <2>4, <3>1, <3>2 DEF NoAnswer
    <3> QED BY <2>5, <3>1, <3>3
  <2>6. CASE c \in pending /\ LastAt(msgs, i) /\ c \in answered
    <3>1. NoAnswer(msgs, i, c)
      BY <2>2, <2>6
    <3>2. PICK q \in 1..Len(t) : t[q].id = c
      BY <1>4, <2>6
    <3>3. \A k \in DOMAIN new : (Follows(new, i, k) /\ new[k].id = c) <=> k = l + q
      <4> TAKE k \in DOMAIN new
      <4>1. CASE k \in 1..l
        BY <1>1, <1>6, <2>3, <3>1, <4>1 DEF NoAnswer
      <4>2. ASSUME NEW r \in 1..Len(t), k = l + r
            PROVE  (Follows(new, i, k) /\ new[k].id = c) <=> k = l + q
        <5>1. k = l + q <=> r = q
          BY <1>1, <4>2
        <5>2. t[r].id = c <=> r = q
          BY <1>7, <3>2
        <5> QED BY <2>4, <2>6, <4>2, <5>1, <5>2
      <4> QED BY <1>5, <4>1, <4>2
    <3>4. OneAnswer(new, i, c)
      BY <1>6, <3>3 DEF OneAnswer
    <3> QED BY <2>6, <3>4
  <2>7. CASE ~ (c \in pending /\ LastAt(msgs, i))
    <3>1. OneAnswer(msgs, i, c) /\ ~ (c \in pending \ answered /\ LastAt(new, i))
      BY <1>2, <2>1, <2>2, <2>7
    <3>2. \A q \in 1..Len(t) : ~ (Follows(new, i, l + q) /\ new[l + q].id = c)
      BY <1>3, <2>4, <2>7
    <3>3. PICK j \in DOMAIN msgs :
            \A k \in DOMAIN msgs : (Follows(msgs, i, k) /\ msgs[k].id = c) <=> k = j
      BY <3>1 DEF OneAnswer
    <3>4. \A k \in DOMAIN new : (Follows(new, i, k) /\ new[k].id = c) <=> k = j
      <4> TAKE k \in DOMAIN new
      <4>1. j \in 1..l
        BY <1>1
      <4>2. CASE k \in 1..l
        BY <1>1, <2>3, <3>3, <4>2
      <4>3. ASSUME NEW q \in 1..Len(t), k = l + q
            PROVE  (Follows(new, i, k) /\ new[k].id = c) <=> k = j
        BY <1>6, <3>2, <4>1, <4>3
      <4> QED BY <1>5, <4>2, <4>3
    <3>5. OneAnswer(new, i, c)
      BY <1>1, <1>6, <3>4 DEF OneAnswer
    <3> QED BY <3>1, <3>5
  <2> QED BY <2>5, <2>6, <2>7
<1>12. CallsAnswered(new, pending \ answered)
  BY <1>11 DEF CallsAnswered
<1>13. PendingAtEnd(new, pending \ answered)
  <2> SUFFICES ASSUME pending \ answered # {}
               PROVE  \E i \in DOMAIN new :
                        LastAt(new, i) /\ new[i].role = "assistant" /\ pending \ answered \subseteq new[i].refs
    BY DEF PendingAtEnd
  <2>1. PICK i \in 1..l : LastAt(msgs, i) /\ msgs[i].role = "assistant" /\ pending \subseteq msgs[i].refs
    BY <1>1, <1>8 DEF PendingAtEnd
  <2>2. i \in DOMAIN new
    BY <1>6
  <2>3. LastAt(new, i)
    BY <1>2, <2>1
  <2>4. new[i] = msgs[i]
    BY <1>1
  <2> QED BY <2>1, <2>2, <2>3, <2>4
<1> QED BY <1>10, <1>12, <1>13 DEF Paired, new, answered

LEMMA AppendOther ==
  ASSUME NEW msgs \in Seq(Kept), NEW m \in Kept, Paired(msgs, {}), ~Result(m)
  PROVE  Paired(Append(msgs, m), IF m.role = "assistant" THEN m.refs ELSE {})
<1> DEFINE new == Append(msgs, m)
           l == Len(msgs)
           pending == IF m.role = "assistant" THEN m.refs ELSE {}
<1>1. /\ l \in Nat /\ Len(new) = l + 1
      /\ \A i \in 1..l : new[i] = msgs[i]
      /\ new[l + 1] = m
      /\ DOMAIN new = 1..(l + 1) /\ DOMAIN msgs = 1..l
  BY Appends
<1>2. ResultsFollow(msgs) /\ CallsAnswered(msgs, {})
  BY DEF Paired
<1> HIDE DEF new, l
<1>3. /\ \A k \in DOMAIN new : k \in 1..l \/ k = l + 1
      /\ l + 1 \in DOMAIN new /\ \A i \in 1..l : i \in DOMAIN new /\ i # l + 1
  BY <1>1
<1>4. \A i, j \in 1..l : Follows(new, i, j) <=> Follows(msgs, i, j)
  <2> TAKE i, j \in 1..l
  <2>1. \A k \in i+1..j : k \in 1..l
    BY <1>1
  <2> QED BY <1>1, <2>1 DEF Follows, Answers
<1>5. \A i \in DOMAIN new : ~Follows(new, i, l + 1)
  BY <1>1 DEF Follows, Answers
<1>6. \A i \in 1..l : ~LastAt(new, i)
  <2> TAKE i \in 1..l
  <2>1. l + 1 \in i+1..Len(new)
    BY <1>1
  <2> QED BY <1>1, <2>1 DEF LastAt
<1>7. LastAt(new, l + 1)
  <2>1. \A k \in (l+1)+1..Len(new) : FALSE
    BY <1>1
  <2> QED BY <1>1, <1>3, <2>1 DEF LastAt
<1>8. \A j \in DOMAIN new : ~Follows(new, l + 1, j)
  <2> TAKE j \in DOMAIN new
  <2>1. ~ (l + 1 < j)
    BY <1>1
  <2> QED BY <2>1 DEF Follows, Answers
<1>9. ResultsFollow(new)
  <2> SUFFICES ASSUME NEW j \in DOMAIN new, Result(new[j])
               PROVE  \E i \in DOMAIN new : Follows(new, i, j)
    BY DEF ResultsFollow
  <2>1. j \in 1..l
    BY <1>1, <1>3
  <2>2. PICK i \in 1..l : Follows(msgs, i, j)
    BY <1>1, <1>2, <2>1 DEF ResultsFollow
  <2> QED BY <1>3, <1>4, <2>1, <2>2
<1>10. ASSUME NEW i \in DOMAIN new, new[i].role = "assistant", NEW c \in new[i].refs
       PROVE  IF c \in pending /\ LastAt(new, i) THEN NoAnswer(new, i, c) ELSE OneAnswer(new, i, c)
  <2>1. CASE i \in 1..l
    <3>1. OneAnswer(msgs, i, c)
      BY <1>1, <1>2, <1>10, <2>1 DEF CallsAnswered
    <3>2. PICK j \in DOMAIN msgs :
            \A k \in DOMAIN msgs : (Follows(msgs, i, k) /\ msgs[k].id = c) <=> k = j
      BY <3>1 DEF OneAnswer
    <3>3. \A k \in DOMAIN new : (Follows(new, i, k) /\ new[k].id = c) <=> k = j
      BY <1>1, <1>3, <1>4, <1>5, <2>1, <3>2
    <3>4. OneAnswer(new, i, c)
      BY <1>1, <1>3, <3>3 DEF OneAnswer
    <3> QED BY <1>6, <2>1, <3>4
  <2>2. CASE i = l + 1
    <3>1. NoAnswer(new, i, c)
      BY <1>8, <2>2 DEF NoAnswer
    <3>2. c \in pending /\ LastAt(new, i)
      BY <1>1, <1>7, <1>10, <2>2
    <3> QED BY <3>1, <3>2
  <2> QED BY <1>3, <2>1, <2>2
<1>11. PendingAtEnd(new, pending)
  BY <1>1, <1>3, <1>7 DEF PendingAtEnd
<1>12. CallsAnswered(new, pending)
  BY <1>10 DEF CallsAnswered
<1> QED BY <1>9, <1>11, <1>12 DEF Paired, new

LEMMA StubsAnswer ==
  ASSUME NEW msgs \in Seq(Kept), NEW pending \in SUBSET Ids, Paired(msgs, pending)
  PROVE  msgs \o Stubs(pending) \in Seq(Kept) /\ Paired(msgs \o Stubs(pending), {})
<1> DEFINE t == Stubs(pending)
<1>1. /\ t \in Seq(Kept) /\ Len(t) = Cardinality(pending)
      /\ \A k \in 1..Len(t) : t[k].role = "stub" /\ t[k].id = NthCall(pending, k)
  BY StubsAre
<1>2. /\ \A k \in 1..Len(t) : NthCall(pending, k) \in pending
      /\ \A k, l \in 1..Len(t) : NthCall(pending, k) = NthCall(pending, l) => k = l
      /\ \A c \in pending : \E k \in 1..Len(t) : NthCall(pending, k) = c
  BY <1>1, NthCalls
<1> HIDE DEF t
<1>3. AnswersOf(t, pending)
  BY <1>1, <1>2 DEF AnswersOf, Result
<1>4. pending \ {t[q].id : q \in 1..Len(t)} = {}
  BY <1>1, <1>2
<1>5. Paired(msgs \o t, {})
  BY <1>1, <1>3, <1>4, JoinAnswers
<1> QED BY <1>1, <1>5, Joins DEF t

\* The first part of repairToolPairing: whatever it reads, it keeps what it
\* has built paired.
LEMMA RepairStepPaired ==
  ASSUME NEW acc \in Repairing, NEW m \in Kept, Paired(acc.out, acc.pending)
  PROVE  Paired(RepairStep(acc, m).out, RepairStep(acc, m).pending)
<1>1. acc.out \in Seq(Kept) /\ acc.pending \in SUBSET Ids
  BY DEF Repairing
<1>2. CASE Result(m) /\ m.id \in acc.pending
  <2> DEFINE t == <<m>>
  <2>1. t \in Seq(Kept) /\ Len(t) = 1 /\ t[1] = m
    OBVIOUS
  <2>2. \A q \in 1..Len(t) : q = 1
    BY <2>1
  <2>3. AnswersOf(t, acc.pending)
    BY <1>2, <2>1, <2>2 DEF AnswersOf
  <2>4. {t[q].id : q \in 1..Len(t)} = {m.id}
    BY <2>1, <2>2
  <2>5. acc.out \o t = Append(acc.out, m)
    BY <1>1
  <2> HIDE DEF t
  <2>6. Paired(acc.out \o t, acc.pending \ {t[q].id : q \in 1..Len(t)})
    BY <1>1, <2>1, <2>3, JoinAnswers
  <2>7. Paired(Append(acc.out, m), acc.pending \ {m.id})
    BY <2>4, <2>5, <2>6
  <2>8. RepairStep(acc, m) = [out |-> Append(acc.out, m), pending |-> acc.pending \ {m.id}]
    BY <1>2 DEF RepairStep
  <2> QED BY <2>7, <2>8
<1>3. CASE Result(m) /\ m.id \notin acc.pending
  BY <1>3 DEF RepairStep
<1>4. CASE ~Result(m)
  <2> DEFINE closed == acc.out \o Stubs(acc.pending)
             pending == IF m.role = "assistant" THEN m.refs ELSE {}
  <2>1. closed \in Seq(Kept) /\ Paired(closed, {})
    BY <1>1, StubsAnswer
  <2>2. RepairStep(acc, m) = [out |-> Append(closed, m), pending |-> pending]
    BY <1>4 DEF RepairStep
  <2> HIDE DEF closed
  <2>3. Paired(Append(closed, m), pending)
    BY <1>4, <2>1, AppendOther
  <2> HIDE DEF pending
  <2> QED BY <2>2, <2>3
<1> QED BY <1>2, <1>3, <1>4

LEMMA PairedIsWell ==
  ASSUME NEW msgs \in Seq(Kept), Paired(msgs, {})
  PROVE  WellPaired(msgs)
<1>1. ASSUME NEW i \in DOMAIN msgs, msgs[i].role = "assistant", NEW c \in msgs[i].refs
      PROVE  Cardinality({j \in DOMAIN msgs : Follows(msgs, i, j) /\ msgs[j].id = c}) = 1
  <2>1. OneAnswer(msgs, i, c)
    BY <1>1 DEF Paired, CallsAnswered
  <2>2. PICK j \in DOMAIN msgs :
          \A k \in DOMAIN msgs : (Follows(msgs, i, k) /\ msgs[k].id = c) <=> k = j
    BY <2>1 DEF OneAnswer
  <2>3. {k \in DOMAIN msgs : Follows(msgs, i, k) /\ msgs[k].id = c} = {j}
    BY <2>2
  <2> QED BY <2>3, FS_Singleton
<1>2. \A j \in DOMAIN msgs : Result(msgs[j]) => \E i \in DOMAIN msgs : Follows(msgs, i, j)
  BY DEF Paired, ResultsFollow
<1> QED BY <1>1, <1>2 DEF WellPaired

LEMMA RepairedWellPaired ==
  ASSUME NEW s \in Seq(Kept)
  PROVE  WellPaired(Repair(s, TRUE))
<1> DEFINE X == {acc \in Repairing : Paired(acc.out, acc.pending)}
           end == FoldLeft(RepairStep, NoRepair, s)
<1>1. PICK h : /\ h[0] = NoRepair
               /\ \A k \in 1..Len(s) : h[k] = RepairStep(h[k-1], s[k])
               /\ end = h[Len(s)]
  BY RepairFold
<1>2. NoRepair \in X
  <2>1. Paired(<<>>, {})
    BY DEF Paired, ResultsFollow, CallsAnswered, PendingAtEnd
  <2>2. NoRepair \in Repairing /\ NoRepair.out = <<>> /\ NoRepair.pending = {}
    BY DEF NoRepair, Repairing
  <2> QED BY <2>1, <2>2
<1>3. ASSUME NEW k \in 1..Len(s), h[k-1] \in X PROVE h[k] \in X
  <2>1. s[k] \in Kept /\ h[k] = RepairStep(h[k-1], s[k])
    BY <1>1
  <2> QED BY <1>3, <2>1, RepairStepTyped, RepairStepPaired
<1>4. Len(s) \in Nat
  OBVIOUS
<1> HIDE DEF X, end
<1>5. end \in X
  BY <1>1, <1>2, <1>3, <1>4, Along
<1>6. end \in Repairing /\ Paired(end.out, end.pending)
  BY <1>5 DEF X
<1>7. end.out \in Seq(Kept) /\ end.pending \in SUBSET Ids
  BY <1>6 DEF Repairing
<1>8. Repair(s, TRUE) = end.out \o Stubs(end.pending)
  BY DEF Repair, NoRepair, end
<1> QED BY <1>6, <1>7, <1>8, StubsAnswer, PairedIsWell

(***************************************************************************)
(* What the session holds, and what is cut out of it.                      *)
(***************************************************************************)
LEMMA SubSeqTyped ==
  ASSUME NEW s \in Seq(Kept), NEW m \in Nat \ {0}, NEW n \in Nat, n <= Len(s)
  PROVE  SubSeq(s, m, n) \in Seq(Kept) /\ (m > n => SubSeq(s, m, n) = <<>>)
<1>1. m \in Int /\ n \in Int /\ (m > n => n < m)
  OBVIOUS
<1>2. \A i \in m..n : s[i] \in Kept
  <2> TAKE i \in m..n
  <2>1. i \in 1..Len(s)
    OBVIOUS
  <2> QED BY <2>1
<1> QED BY <1>1, <1>2, SubSeqProperties, SubSeqEmpty

LEMMA SliceTyped ==
  ASSUME NEW msgs \in Seq(Kept), NEW from \in Nat \ {0}, NEW to \in Nat
  PROVE  Slice(msgs, from, to) \in Seq(Kept) /\ (from > Len(msgs) => Slice(msgs, from, to) = <<>>)
<1> DEFINE end == IF to < Len(msgs) THEN to ELSE Len(msgs)
<1>1. Len(msgs) \in Nat /\ end \in Nat /\ end <= Len(msgs)
  OBVIOUS
<1>2. from > Len(msgs) => from > end
  BY <1>1
<1>3. Slice(msgs, from, to) = SubSeq(msgs, from, end)
  BY DEF Slice
<1> HIDE DEF end
<1> QED BY <1>1, <1>2, <1>3, SubSeqTyped

LEMMA OnlyEmpty ==
  ASSUME NEW roles
  PROVE  Only(<<>>, roles) = <<>>
<1>1. <<>> \in Seq(Kept) /\ Len(<<>>) = 0
  OBVIOUS
<1>2. PICK h : h[0] = <<>> /\ Only(<<>>, roles) = h[Len(<<>>)]
  BY <1>1, OnlyFold
<1> QED BY <1>1, <1>2

LEMMA RemovableTyped ==
  ASSUME NEW msgs \in Seq(Kept), NEW from \in Nat \ {0}, NEW to \in Nat
  PROVE  /\ Removable(msgs, from, to) \in Seq(Kept)
         /\ IdsOf(Removable(msgs, from, to)) \subseteq Ids
         /\ Removable(msgs, from, to) # <<>> => from <= Len(msgs)
<1> DEFINE s == Slice(msgs, from, to)
           t == Only(s, Compressibles)
<1>1. s \in Seq(Kept) /\ (from > Len(msgs) => s = <<>>)
  BY SliceTyped
<1> HIDE DEF s
<1>2. t \in Seq(Kept) /\ \A i \in 1..Len(t) : t[i].role \in Compressibles
  BY <1>1, OnlyTyped
<1>3. s = <<>> => t = <<>>
  BY OnlyEmpty
<1>4. Removable(msgs, from, to) = t
  BY DEF Removable, s
<1> HIDE DEF t
<1>5. IdsOf(t) \subseteq Ids
  <2>1. \A i \in 1..Len(t) : t[i].id \in Ids
    <3> TAKE i \in 1..Len(t)
    <3>1. t[i] \in Kept /\ t[i].role \in Compressibles
      BY <1>2
    <3> QED BY <3>1 DEF Kept, Compressibles
  <2>2. DOMAIN t = 1..Len(t)
    BY <1>2
  <2> QED BY <2>1, <2>2 DEF IdsOf, Range
<1>6. from > Len(msgs) \/ from <= Len(msgs)
  OBVIOUS
<1> QED BY <1>1, <1>2, <1>3, <1>4, <1>5, <1>6

LEMMA RemainingTyped ==
  ASSUME NEW msgs \in Seq(Kept), NEW from \in Nat \ {0}, NEW to \in Nat, from <= Len(msgs)
  PROVE  Remaining(msgs, from, to) \in Seq(Kept)
<1> DEFINE a == SubSeq(msgs, 1, from - 1)
           b == Only(Slice(msgs, from, to), Roles \ Compressibles)
           c == SubSeq(msgs, to + 1, Len(msgs))
<1>1. /\ from - 1 \in Nat /\ from - 1 <= Len(msgs) /\ 1 \in Nat \ {0}
      /\ to + 1 \in Nat \ {0} /\ Len(msgs) \in Nat /\ Len(msgs) <= Len(msgs)
  OBVIOUS
<1>2. a \in Seq(Kept)
  BY <1>1, SubSeqTyped
<1>3. c \in Seq(Kept)
  BY <1>1, SubSeqTyped
<1>4. b \in Seq(Kept)
  BY SliceTyped, OnlyTyped
<1>5. Remaining(msgs, from, to) = a \o b \o c
  BY DEF Remaining
<1> HIDE DEF a, b, c
<1> QED BY <1>2, <1>3, <1>4, <1>5, Joins

LEMMA IdsBounded ==
  ASSUME NEW s \in Seq(Kept)
  PROVE  IdsOf(s) \subseteq 0..MaxIds /\ Carried(s) \subseteq Ids /\ Known(s) \subseteq 0..MaxIds
<1>1. \A m \in Range(s) : m \in Kept /\ m.id \in 0..MaxIds /\ m.refs \subseteq Ids
  BY DEF Range, Kept, Messages
<1>2. Ids \subseteq 0..MaxIds
  BY HistoryAssumption DEF Ids
<1>3. IdsOf(s) \subseteq 0..MaxIds
  BY <1>1 DEF IdsOf
<1>4. Carried(s) \subseteq Ids
  BY <1>1 DEF Carried
<1>5. {m.id : m \in {n \in Range(s) : n.role # "stub"}} \subseteq 0..MaxIds
  BY <1>1
<1> QED BY <1>2, <1>3, <1>4, <1>5 DEF Known

LEMMA ViewTyped ==
  ASSUME NEW s \in Seq(Kept)
  PROVE  View(s) \in Seq(Kept)
<1>1. Only(s, {"prompt"}) \in Seq(Kept) /\ Only(s, Roles \ {"prompt"}) \in Seq(Kept)
  BY OnlyTyped
<1> QED BY <1>1, Joins DEF View

(***************************************************************************)
(* Ranges chosen for a compaction begin in the history.                    *)
(***************************************************************************)
RangeOK(r) == r[1] \in Nat \ {0} /\ r[2] \in Nat

LEMMA AlignTyped ==
  ASSUME NEW msgs, NEW from \in Nat \ {0}, NEW to \in Nat
  PROVE  RangeOK(Align(msgs, from, to))
<1> DEFINE S == {k \in 1..from : k = 1 \/ ~Result(msgs[k])}
           end == IF to < Len(msgs) /\ Result(msgs[to + 1]) /\ msgs[to].role = "assistant" /\ msgs[to].refs # {}
                  THEN to + 1 ELSE to
<1>1. from \in Nat /\ S \in SUBSET (1..from) /\ S # {}
  <2>1. 1 \in S
    OBVIOUS
  <2> QED BY <2>1
<1>2. end \in Nat
  OBVIOUS
<1>3. Align(msgs, from, to) = <<Max(S), end>>
  BY DEF Align
<1> HIDE DEF S, end
<1>4. Max(S) \in Nat \ {0}
  <2>1. Max(S) \in S
    BY <1>1, MaxIs
  <2>2. \A x \in S : x \in 1..from
    BY <1>1
  <2>3. Max(S) \in 1..from
    BY <2>1, <2>2
  <2> QED BY <2>3
<1> QED BY <1>2, <1>3, <1>4 DEF RangeOK

LEMMA PlannedTyped ==
  ASSUME NEW msgs \in Seq(Kept), NEW r \in Planned(msgs)
  PROVE  RangeOK(r)
<1> DEFINE half   == Len(msgs) \div 2
           kept   == IF Window < half THEN Window ELSE half
           window == IF kept = 0 THEN 1 ELSE kept
           old    == {i \in DOMAIN msgs : Compressible(msgs[i]) /\ i + window <= Len(msgs)}
<1>1. Planned(msgs) = {Align(msgs, Min(old), to) : to \in {i \in old : i > Min(old)}}
  BY DEF Planned
<1>2. old \subseteq Nat \ {0}
  BY DEF old
<1> HIDE DEF old
<1>3. PICK to \in old : to > Min(old) /\ r = Align(msgs, Min(old), to)
  BY <1>1
<1>4. \E n \in old : \A m \in old : n <= m
  <2>1. old \subseteq Nat /\ old # {}
    BY <1>2
  <2> QED BY <2>1, Least
<1>5. Min(old) \in old
  BY <1>4 DEF Min
<1> QED BY <1>2, <1>3, <1>5, AlignTyped

LEMMA AskedTyped ==
  ASSUME NEW msgs \in Seq(Kept), NEW r \in Asked(msgs)
  PROVE  RangeOK(r)
<1>1. PICK from \in DOMAIN msgs, to \in DOMAIN msgs : r = Align(msgs, from, to)
  BY DEF Asked
<1>2. from \in Nat \ {0} /\ to \in Nat
  OBVIOUS
<1> QED BY <1>1, <1>2, AlignTyped

(***************************************************************************)
(* The inductive invariant: a history of messages that have an identity,   *)
(* and plans that begin in a history.                                      *)
(***************************************************************************)
Plans == {p \in [from : Nat, to : Nat, input : SUBSET Ids, carried : SUBSET Ids] : p = NoPlan \/ p.from # 0}

ChatOK == chat \in Seq(Kept) /\ excused \subseteq 0..MaxIds
TaskOK == running \in BOOLEAN /\ open \subseteq Ids /\ (open # {} => running)
PlanOK == plan \in [By -> Plans]
CountsOK == next \in 1..MaxIds+1 /\ loads \in 0..MaxLoads /\ summaries \in 0..MaxSummaries /\ stale \in BOOLEAN

HInv == ChatOK /\ TaskOK /\ PlanOK /\ CountsOK

LEMMA InvTyped == HInv => TypeOK
<1> SUFFICES ASSUME HInv PROVE TypeOK
  OBVIOUS
<1>1. \A m \in Range(chat) : m \in Messages
  BY DEF HInv, ChatOK, Range, Kept
<1>2. \A by \in By : /\ plan[by].from \in Nat /\ plan[by].to \in Nat
                     /\ plan[by].input \subseteq Ids /\ plan[by].carried \subseteq Ids
  BY DEF HInv, PlanOK, Plans
<1> QED BY <1>1, <1>2 DEF HInv, ChatOK, TaskOK, CountsOK, TypeOK

LEMMA NoPlanIs == NoPlan \in Plans
BY DEF NoPlan, Plans

LEMMA InitInv == Init => HInv
<1> SUFFICES ASSUME Init PROVE HInv
  OBVIOUS
<1>1. ChatOK
  BY DEF Init, ChatOK
<1>2. TaskOK
  BY DEF Init, TaskOK
<1>3. PlanOK
  BY NoPlanIs DEF Init, PlanOK
<1>4. CountsOK
  <2>1. 1 \in 1..MaxIds+1 /\ 0 \in 0..MaxLoads /\ 0 \in 0..MaxSummaries
    BY HistoryAssumption
  <2> QED BY <2>1 DEF Init, CountsOK
<1> QED BY <1>1, <1>2, <1>3, <1>4 DEF HInv

LEMMA MessageTyped ==
  ASSUME NEW role \in Roles \ {"summary"}, NEW id \in Ids, NEW refs \in SUBSET Ids
  PROVE  Message(role, id, refs) \in Kept /\ Message(role, id, refs).id = id
BY HistoryAssumption DEF Message, Kept, Messages, Ids

LEMMA AppendedTyped ==
  ASSUME NEW m \in Kept, m.id \in 0..MaxIds, ChatOK, AppendMessage(m)
  PROVE  ChatOK'
<1>1. chat' \in Seq(Kept)
  BY Appends, TrimTyped DEF ChatOK, AppendMessage
<1>2. IdsOf(chat) \subseteq 0..MaxIds
  BY IdsBounded DEF ChatOK
<1>3. excused' \subseteq 0..MaxIds
  BY <1>2 DEF ChatOK, AppendMessage
<1> QED BY <1>1, <1>3 DEF ChatOK

\* The next identity, of a message that any of them writes.
LEMMA NextTyped ==
  ASSUME HInv, next <= MaxIds, NEW role \in Roles \ {"summary"}
  PROVE  /\ Message(role, next, {}) \in Kept /\ Message(role, next, {}).id \in 0..MaxIds
         /\ next + 1 \in 1..MaxIds+1
<1>1. next \in Ids /\ next \in 0..MaxIds /\ next + 1 \in 1..MaxIds+1
  BY HistoryAssumption DEF HInv, CountsOK, Ids
<1> QED BY <1>1, MessageTyped

LEMMA PromptInv == HInv /\ Prompt => HInv'
<1> SUFFICES ASSUME HInv, Prompt PROVE HInv'
  OBVIOUS
<1>1. ChatOK'
  BY NextTyped, AppendedTyped DEF HInv, Prompt, Roles
<1>2. TaskOK'
  BY DEF HInv, Prompt, TaskOK
<1>3. PlanOK'
  BY DEF HInv, Prompt, PlanOK
<1>4. CountsOK'
  BY NextTyped DEF HInv, Prompt, CountsOK, bounds, Roles
<1> QED BY <1>1, <1>2, <1>3, <1>4 DEF HInv

LEMMA CallToolsInv == ASSUME NEW calls \in 1..MaxCalls, HInv, CallTools(calls) PROVE HInv'
<1>1. /\ next \in Ids /\ next \in 0..MaxIds /\ calls \in Nat /\ next \in Nat
      /\ next + calls + 1 \in 1..MaxIds+1 /\ open' \in SUBSET Ids
  BY HistoryAssumption DEF HInv, CountsOK, Ids, CallTools
<1>2. Message("assistant", next, open') \in Kept /\ Message("assistant", next, open').id \in 0..MaxIds
  BY <1>1, MessageTyped DEF Roles
<1>3. ChatOK'
  BY <1>2, AppendedTyped DEF HInv, CallTools
<1>4. TaskOK'
  BY <1>1 DEF HInv, CallTools, TaskOK
<1>5. PlanOK'
  BY DEF HInv, CallTools, PlanOK
<1>6. CountsOK'
  BY <1>1 DEF HInv, CallTools, CountsOK, bounds
<1> QED BY <1>3, <1>4, <1>5, <1>6 DEF HInv

LEMMA ToolResultInv == ASSUME NEW c \in open, HInv, ToolResult(c) PROVE HInv'
<1>1. c \in Ids /\ c \in 0..MaxIds
  BY HistoryAssumption DEF HInv, TaskOK, Ids
<1>2. Message("tool", c, {}) \in Kept /\ Message("tool", c, {}).id \in 0..MaxIds
  BY <1>1, MessageTyped DEF Roles
<1>3. ChatOK'
  BY <1>2, AppendedTyped DEF HInv, ToolResult
<1>4. TaskOK'
  BY DEF HInv, ToolResult, TaskOK
<1>5. PlanOK' /\ CountsOK'
  BY DEF HInv, ToolResult, PlanOK, CountsOK, bounds
<1> QED BY <1>3, <1>4, <1>5 DEF HInv

LEMMA ReplyInv == HInv /\ Reply => HInv'
<1> SUFFICES ASSUME HInv, Reply PROVE HInv'
  OBVIOUS
<1>1. ChatOK'
  BY NextTyped, AppendedTyped DEF HInv, Reply, Roles
<1>2. TaskOK' /\ PlanOK'
  BY DEF HInv, Reply, TaskOK, PlanOK
<1>3. CountsOK'
  BY NextTyped DEF HInv, Reply, CountsOK, bounds, Roles
<1> QED BY <1>1, <1>2, <1>3 DEF HInv

LEMMA EndRunInv == HInv /\ EndRun => HInv'
<1> SUFFICES ASSUME HInv, EndRun PROVE HInv'
  OBVIOUS
<1>1. ChatOK' /\ TaskOK' /\ CountsOK'
  BY DEF HInv, EndRun, ChatOK, TaskOK, CountsOK, bounds
<1>2. PlanOK'
  BY NoPlanIs DEF HInv, EndRun, PlanOK
<1> QED BY <1>1, <1>2 DEF HInv

LEMMA WriteBackInv == HInv /\ WriteBack => HInv'
<1> SUFFICES ASSUME HInv, WriteBack PROVE HInv'
  OBVIOUS
<1>1. ChatOK'
  BY NextTyped, AppendedTyped DEF HInv, WriteBack, Roles
<1>2. TaskOK' /\ PlanOK'
  BY DEF HInv, WriteBack, TaskOK, PlanOK
<1>3. CountsOK'
  BY NextTyped DEF HInv, WriteBack, CountsOK, bounds, Roles
<1> QED BY <1>1, <1>2, <1>3 DEF HInv

LEMMA MergeInv == HInv /\ Merge => HInv'
<1> SUFFICES ASSUME HInv, Merge PROVE HInv'
  OBVIOUS
<1>1. ChatOK'
  BY NextTyped, AppendedTyped DEF HInv, Merge, Roles
<1>2. TaskOK' /\ PlanOK'
  BY DEF HInv, Merge, TaskOK, PlanOK
<1>3. CountsOK'
  BY NextTyped DEF HInv, Merge, CountsOK, bounds, Roles
<1> QED BY <1>1, <1>2, <1>3 DEF HInv

LEMMA LoadAgentInv == HInv /\ LoadAgent => HInv'
<1> SUFFICES ASSUME HInv, LoadAgent PROVE HInv'
  OBVIOUS
<1>1. Message("prompt", next, {}) \in Kept /\ next + 1 \in 1..MaxIds+1
  BY NextTyped DEF LoadAgent, Roles
<1>2. ChatOK'
  BY <1>1, Appends DEF HInv, ChatOK, LoadAgent
<1>3. TaskOK' /\ PlanOK'
  BY DEF HInv, LoadAgent, TaskOK, PlanOK
<1>4. CountsOK'
  BY <1>1 DEF HInv, LoadAgent, CountsOK, bounds
<1> QED BY <1>2, <1>3, <1>4 DEF HInv

LEMMA UnloadAgentInv == HInv /\ UnloadAgent => HInv'
<1> SUFFICES ASSUME HInv, UnloadAgent PROVE HInv'
  OBVIOUS
<1>1. chat' \in Seq(Kept)
  BY OnlyTyped DEF HInv, ChatOK, UnloadAgent
<1>2. ChatOK'
  BY <1>1, IdsBounded DEF HInv, ChatOK, UnloadAgent
<1>3. TaskOK' /\ PlanOK' /\ CountsOK'
  BY DEF HInv, UnloadAgent, TaskOK, PlanOK, CountsOK, bounds
<1> QED BY <1>2, <1>3 DEF HInv

LEMMA TruncateInv == ASSUME NEW k \in DOMAIN chat, HInv, Truncate(k) PROVE HInv'
<1>1. k - 1 \in Nat /\ k - 1 <= Len(chat) /\ 1 \in Nat \ {0} /\ chat \in Seq(Kept)
  BY DEF HInv, ChatOK
<1>2. chat' \in Seq(Kept)
  BY <1>1, SubSeqTyped DEF Truncate
<1>3. Known(chat) \subseteq 0..MaxIds
  BY <1>1, IdsBounded
<1>4. ChatOK'
  BY <1>2, <1>3 DEF HInv, ChatOK, Truncate
<1>5. TaskOK' /\ PlanOK' /\ CountsOK'
  BY DEF HInv, Truncate, TaskOK, PlanOK, CountsOK, bounds
<1> QED BY <1>4, <1>5 DEF HInv

LEMMA LoadInv == HInv /\ Load => HInv'
<1> SUFFICES ASSUME HInv, Load PROVE HInv'
  OBVIOUS
<1>1. ChatOK'
  BY RepairTyped DEF HInv, ChatOK, Load
<1>2. TaskOK' /\ PlanOK'
  BY DEF HInv, Load, TaskOK, PlanOK
<1>3. CountsOK'
  BY HistoryAssumption DEF HInv, Load, CountsOK
<1> QED BY <1>1, <1>2, <1>3 DEF HInv

LEMMA RestartInv == HInv /\ Restart => HInv'
<1> SUFFICES ASSUME HInv, Restart PROVE HInv'
  OBVIOUS
<1> DEFINE back == Repair(chat, FALSE)
           note == Message("user", next, {})
<1>1. back \in Seq(Kept)
  BY RepairTyped DEF HInv, ChatOK
<1>2. note \in Kept /\ next \in 0..MaxIds /\ next + 1 \in 1..MaxIds+1
  BY NextTyped, HistoryAssumption DEF Restart, Roles, HInv, CountsOK
<1>3. IF running
      THEN /\ chat' = Trim(Append(back, note))
           /\ excused' = excused \union ((IdsOf(back) \union {next}) \ IdsOf(chat'))
           /\ next' = next + 1
      ELSE chat' = back /\ excused' = excused /\ next' = next
  BY DEF Restart
<1> HIDE DEF back, note
<1>4. chat' \in Seq(Kept)
  BY <1>1, <1>2, <1>3, Appends, TrimTyped
<1>5. IdsOf(back) \subseteq 0..MaxIds
  BY <1>1, IdsBounded
<1>6. ChatOK'
  BY <1>2, <1>3, <1>4, <1>5 DEF HInv, ChatOK
<1>7. TaskOK'
  BY DEF HInv, Restart, TaskOK
<1>8. PlanOK'
  BY NoPlanIs DEF Restart, PlanOK
<1>9. CountsOK'
  BY <1>2, <1>3, HistoryAssumption DEF HInv, Restart, CountsOK
<1> QED BY <1>6, <1>7, <1>8, <1>9 DEF HInv

LEMMA StartCompactionInv ==
  ASSUME NEW by \in By, NEW ranges, \A r \in ranges : RangeOK(r), HInv, StartCompaction(by, ranges)
  PROVE  HInv'
<1>1. PICK r \in ranges :
        plan' = [plan EXCEPT ![by] =
          [from |-> r[1], to |-> r[2], input |-> IdsOf(Removable(chat, r[1], r[2])), carried |-> Carried(chat)]]
  BY DEF StartCompaction
<1>2. r[1] \in Nat \ {0} /\ r[2] \in Nat
  BY DEF RangeOK
<1>3. IdsOf(Removable(chat, r[1], r[2])) \subseteq Ids /\ Carried(chat) \subseteq Ids
  BY <1>2, RemovableTyped, IdsBounded DEF HInv, ChatOK
<1>4. [from |-> r[1], to |-> r[2], input |-> IdsOf(Removable(chat, r[1], r[2])), carried |-> Carried(chat)]
        \in Plans
  BY <1>2, <1>3 DEF Plans
<1>5. PlanOK'
  BY <1>1, <1>4 DEF HInv, PlanOK
<1>6. ChatOK' /\ TaskOK'
  BY DEF HInv, StartCompaction, ChatOK, TaskOK
<1>7. CountsOK'
  BY HistoryAssumption DEF HInv, StartCompaction, CountsOK
<1> QED BY <1>5, <1>6, <1>7 DEF HInv

LEMMA FinishCompactionInv ==
  ASSUME NEW by \in By, NEW ok \in BOOLEAN, HInv, FinishCompaction(by, ok)
  PROVE  HInv'
<1> DEFINE p       == plan[by]
           gone    == Removable(chat, p.from, p.to)
           summary == Message("summary", 0, p.input \union IF ok THEN p.carried ELSE {})
           rest    == Only(Remaining(chat, p.from, p.to), Roles \ {"summary"})
           fixed   == Repair(<<summary>> \o rest, FALSE)
<1>1. /\ plan' = [plan EXCEPT ![by] = NoPlan]
      /\ IF gone = <<>> THEN UNCHANGED <<chat, excused, stale>>
         ELSE /\ chat' = Trim(fixed)
              /\ excused' = excused \union (IdsOf(fixed) \ IdsOf(chat'))
              /\ stale' = (stale \/ IdsOf(gone) # p.input \/ Carried(chat) # p.carried)
      /\ UNCHANGED <<running, open, next, bounds>>
  BY DEF FinishCompaction
<1>2. /\ p \in Plans /\ p.from \in Nat \ {0} /\ p.to \in Nat
      /\ p.input \subseteq Ids /\ p.carried \subseteq Ids /\ chat \in Seq(Kept)
  BY DEF HInv, ChatOK, PlanOK, Plans, FinishCompaction
<1>3. gone # <<>> => p.from <= Len(chat)
  BY <1>2, RemovableTyped
<1>4. summary \in Kept
  BY <1>2, HistoryAssumption DEF Message, Kept, Messages, Roles
<1>5. ASSUME gone # <<>> PROVE fixed \in Seq(Kept)
  <2>1. rest \in Seq(Kept)
    BY <1>2, <1>3, <1>5, RemainingTyped, OnlyTyped
  <2>2. <<summary>> \in Seq(Kept)
    BY <1>4
  <2> HIDE DEF summary, rest
  <2> QED BY <2>1, <2>2, Joins, RepairTyped
<1> HIDE DEF p, gone, fixed
<1>6. ChatOK'
  <2>1. CASE gone = <<>>
    BY <1>1, <2>1 DEF HInv, ChatOK
  <2>2. CASE gone # <<>>
    <3>1. chat' \in Seq(Kept)
      BY <1>1, <1>5, <2>2, TrimTyped
    <3>2. IdsOf(fixed) \subseteq 0..MaxIds
      BY <1>5, <2>2, IdsBounded
    <3> QED BY <1>1, <2>2, <3>1, <3>2 DEF HInv, ChatOK
  <2> QED BY <2>1, <2>2
<1>7. TaskOK'
  BY <1>1 DEF HInv, TaskOK
<1>8. PlanOK'
  BY <1>1, NoPlanIs DEF HInv, PlanOK
<1>9. CountsOK'
  BY <1>1 DEF HInv, CountsOK, bounds
<1> QED BY <1>6, <1>7, <1>8, <1>9 DEF HInv

LEMMA NextInv == HInv /\ [Next]_vars => HInv'
<1> SUFFICES ASSUME HInv, [Next]_vars PROVE HInv'
  OBVIOUS
<1>1. CASE Prompt \/ Reply \/ EndRun
  BY <1>1, PromptInv, ReplyInv, EndRunInv
<1>2. CASE \E calls \in 1..MaxCalls : CallTools(calls)
  BY <1>2, CallToolsInv
<1>3. CASE \E c \in open : ToolResult(c)
  BY <1>3, ToolResultInv
<1>4. CASE WriteBack \/ Merge \/ LoadAgent \/ UnloadAgent
  BY <1>4, WriteBackInv, MergeInv, LoadAgentInv, UnloadAgentInv
<1>5. CASE \E k \in DOMAIN chat : Truncate(k)
  BY <1>5, TruncateInv
<1>6. CASE Load \/ Restart
  BY <1>6, LoadInv, RestartInv
<1>7. CASE TaskCompacts
  <2>1. "task" \in By /\ StartCompaction("task", Planned(chat))
    BY <1>7 DEF By, TaskCompacts
  <2>2. \A r \in Planned(chat) : RangeOK(r)
    BY PlannedTyped DEF HInv, ChatOK
  <2> QED BY <2>1, <2>2, StartCompactionInv
<1>8. CASE UserCompacts
  <2>1. "user" \in By /\ StartCompaction("user", Asked(chat))
    BY <1>8 DEF By, UserCompacts
  <2>2. \A r \in Asked(chat) : RangeOK(r)
    BY AskedTyped DEF HInv, ChatOK
  <2> QED BY <2>1, <2>2, StartCompactionInv
<1>9. CASE \E by \in By, ok \in BOOLEAN : FinishCompaction(by, ok)
  BY <1>9, FinishCompactionInv
<1>10. CASE UNCHANGED vars
  BY <1>10 DEF HInv, ChatOK, TaskOK, PlanOK, CountsOK, vars, bounds
<1> QED BY <1>1, <1>2, <1>3, <1>4, <1>5, <1>6, <1>7, <1>8, <1>9, <1>10 DEF Next

\* The invariant holds of every history the code can build.
THEOREM Invariance == Spec => []HInv
<1>1. Init => HInv
  BY InitInv
<1>2. HInv /\ [Next]_vars => HInv'
  BY NextInv
<1> QED BY <1>1, <1>2, PTL DEF Spec

\* Whoever writes to the session, whatever is trimmed, compacted or read back,
\* its history, its round and its plans stay what the code takes them for.
THEOREM TypeCorrect == Spec => []TypeOK
<1>1. HInv => TypeOK
  BY InvTyped
<1> QED BY <1>1, Invariance, PTL

\* What the provider is sent is well paired, however long the history, however
\* many calls a message has, and wherever trimming and compacting cut it:
\* repairToolPairing gives every call one result and drops every other.
THEOREM SentAlwaysPaired == Spec => []SentWellPaired
<1>1. HInv => SentWellPaired
  <2> SUFFICES ASSUME HInv PROVE SentWellPaired
    OBVIOUS
  <2>1. View(chat) \in Seq(Kept)
    BY ViewTyped DEF HInv, ChatOK
  <2> QED BY <2>1, RepairedWellPaired DEF SentWellPaired, Sent
<1> QED BY <1>1, Invariance, PTL

(***************************************************************************)
(* Trimming makes room: at each step as much has been dropped as the count *)
(* says, and as long as more is to go, only protected messages were kept.  *)
(***************************************************************************)
LEMMA TrimRoom ==
  ASSUME NEW s \in Seq(Kept), Len(s) > MaxMessages
  PROVE  Len(Trim(s)) <= LowWater \/ \A m \in Range(Trim(s)) : Protected(m)
<1> DEFINE drops == Len(s) - LowWater
           start == [out |-> <<>>, toDrop |-> drops, tail |-> FALSE]
           Room(k, acc) == /\ Len(acc.out) + drops <= k + acc.toDrop
                           /\ acc.toDrop > 0 => \A i \in 1..Len(acc.out) : Protected(acc.out[i])
           X == {p \in Nat \X Trimming : Room(p[1], p[2])}
<1>1. drops \in Nat /\ Len(s) \in Nat /\ LowWater \in Nat
  BY HistoryAssumption
<1>2. start \in Trimming
  BY <1>1 DEF Trimming
<1>3. Trim(s) = FoldLeft(TrimStep, start, s).out
  BY HistoryAssumption DEF Trim
<1>4. Room(0, start)
  BY <1>1
<1> HIDE DEF start
<1>5. PICK h : /\ h[0] = start
               /\ \A k \in 1..Len(s) : h[k] = TrimStep(h[k-1], s[k])
               /\ FoldLeft(TrimStep, start, s) = h[Len(s)]
  BY <1>2, TrimFold
<1>6. ASSUME NEW k \in Nat, NEW acc \in Trimming, Room(k, acc), NEW m \in Kept
      PROVE  Room(k + 1, TrimStep(acc, m))
  <2>1. acc.out \in Seq(Kept) /\ acc.toDrop \in Nat /\ Len(acc.out) \in Nat
    BY DEF Trimming
  <2>2. CASE ~Protected(m) /\ ((acc.tail /\ Result(m)) \/ acc.toDrop > 0)
    <3>1. /\ TrimStep(acc, m).out = acc.out
          /\ TrimStep(acc, m).toDrop = IF acc.toDrop = 0 THEN 0 ELSE acc.toDrop - 1
      BY <2>2 DEF TrimStep
    <3> DEFINE rest == TrimStep(acc, m).toDrop
    <3>2. rest >= acc.toDrop - 1 /\ (rest > 0 => acc.toDrop > 0) /\ rest \in Nat
      BY <2>1, <3>1
    <3> HIDE DEF rest
    <3>3. Len(acc.out) + drops <= k + acc.toDrop
      BY <1>6
    <3>4. Len(acc.out) + drops <= (k + 1) + rest
      <4>1. drops \in Nat
        BY <1>1
      <4> HIDE DEF drops, X, Room
      <4> QED BY <2>1, <3>2, <3>3, <4>1
    <3> QED BY <1>6, <3>1, <3>2, <3>4 DEF rest
  <2>3. CASE ~(~Protected(m) /\ ((acc.tail /\ Result(m)) \/ acc.toDrop > 0))
    <3>1. TrimStep(acc, m).out = Append(acc.out, m) /\ TrimStep(acc, m).toDrop = acc.toDrop
      BY <2>3 DEF TrimStep, Trimming
    <3>2. /\ Len(Append(acc.out, m)) = Len(acc.out) + 1
          /\ \A i \in 1..Len(acc.out) : Append(acc.out, m)[i] = acc.out[i]
          /\ Append(acc.out, m)[Len(acc.out) + 1] = m
      BY <2>1, Appends
    <3>3. acc.toDrop > 0 => Protected(m)
      BY <2>3
    <3>4. acc.toDrop > 0 => \A i \in 1..Len(acc.out)+1 : Protected(Append(acc.out, m)[i])
      <4> SUFFICES ASSUME acc.toDrop > 0, NEW i \in 1..Len(acc.out)+1
                   PROVE  Protected(Append(acc.out, m)[i])
        OBVIOUS
      <4>1. CASE i \in 1..Len(acc.out)
        <5>1. Protected(acc.out[i])
          BY <1>6, <4>1
        <5> QED BY <3>2, <4>1, <5>1
      <4>2. CASE i = Len(acc.out) + 1
        BY <3>2, <3>3, <4>2
      <4>3. i \in 1..Len(acc.out) \/ i = Len(acc.out) + 1
        BY <2>1
      <4> QED BY <4>1, <4>2, <4>3
    <3>5. Len(acc.out) + 1 + drops <= k + 1 + acc.toDrop
      BY <1>1, <1>6, <2>1
    <3> QED BY <3>1, <3>2, <3>4, <3>5
  <2> QED BY <2>2, <2>3
<1> HIDE DEF Room, drops
<1> DEFINE g == [k \in 0..Len(s) |-> <<k, h[k]>>]
<1>7. g[0] \in X
  BY <1>1, <1>2, <1>4, <1>5
<1>8. ASSUME NEW k \in 1..Len(s), g[k-1] \in X PROVE g[k] \in X
  <2>1. k - 1 \in 0..Len(s) /\ k \in 0..Len(s) /\ k - 1 \in Nat /\ (k - 1) + 1 = k /\ s[k] \in Kept
    BY <1>1
  <2>2. h[k-1] \in Trimming /\ Room(k - 1, h[k-1])
    BY <1>8, <2>1
  <2>3. h[k] \in Trimming /\ Room(k, h[k])
    BY <1>5, <1>6, <2>1, <2>2, TrimStepTyped
  <2> QED BY <2>1, <2>3
<1>9. g[Len(s)] \in X
  <2> HIDE DEF X, g
  <2> QED BY <1>1, <1>7, <1>8, Along
<1> DEFINE end == h[Len(s)]
<1>10. end \in Trimming /\ Room(Len(s), end)
  <2>1. Len(s) \in 0..Len(s)
    BY <1>1
  <2> QED BY <1>9, <2>1
<1>11. Trim(s) = end.out
  BY <1>3, <1>5
<1> HIDE DEF end
<1>12. end.out \in Seq(Kept) /\ end.toDrop \in Nat /\ Len(end.out) \in Nat
  BY <1>10 DEF Trimming
<1>13. CASE end.toDrop > 0
  <2>1. \A i \in 1..Len(end.out) : Protected(end.out[i])
    BY <1>10, <1>13 DEF Room
  <2> QED BY <1>11, <1>12, <2>1 DEF Range
<1>14. CASE end.toDrop = 0
  BY <1>1, <1>10, <1>11, <1>12, <1>14 DEF Room, drops
<1> QED BY <1>12, <1>13, <1>14

LEMMA AppendRoom ==
  ASSUME NEW m \in Kept, ChatOK, AppendMessage(m), Len(chat) >= MaxMessages
  PROVE  Len(chat') <= LowWater \/ \A n \in Range(chat') : Protected(n)
<1>1. Append(chat, m) \in Seq(Kept) /\ Len(Append(chat, m)) > MaxMessages
  BY Appends, HistoryAssumption DEF ChatOK
<1> QED BY <1>1, TrimRoom DEF AppendMessage

\* A message appended to a full history makes room down to the low water
\* mark, or takes all that trimming may take (trimToCacheLimit); only the
\* prompt of an agent is appended without it.
THEOREM TrimsToLowWater == Spec => TrimMakesRoom
<1> DEFINE A == Len(chat) >= MaxMessages /\ next' # next /\ loads' = loads =>
                  \/ \E m \in Range(chat') \ Range(chat) : m.role = "prompt"
                  \/ Len(chat') <= LowWater
                  \/ \A m \in Range(chat') : Protected(m)
<1>1. HInv /\ [Next]_vars => [A]_vars
  <2> SUFFICES ASSUME HInv, Next, Len(chat) >= MaxMessages, next' # next, loads' = loads
               PROVE  \/ \E m \in Range(chat') \ Range(chat) : m.role = "prompt"
                      \/ Len(chat') <= LowWater
                      \/ \A m \in Range(chat') : Protected(m)
    BY DEF vars
  <2>0. ChatOK /\ CountsOK
    BY DEF HInv
  <2>1. CASE Prompt
    BY <2>0, <2>1, NextTyped, AppendRoom DEF Prompt, Roles
  <2>2. CASE \E calls \in 1..MaxCalls : CallTools(calls)
    <3>1. PICK calls \in 1..MaxCalls : CallTools(calls)
      BY <2>2
    <3>2. next \in Ids /\ open' \in SUBSET Ids
      BY <2>0, <3>1, HistoryAssumption DEF CountsOK, Ids, CallTools
    <3>3. Message("assistant", next, open') \in Kept
      BY <3>2, MessageTyped DEF Roles
    <3> QED BY <2>0, <3>1, <3>3, AppendRoom DEF CallTools
  <2>3. CASE Reply
    BY <2>0, <2>3, NextTyped, AppendRoom DEF Reply, Roles
  <2>4. CASE WriteBack
    BY <2>0, <2>4, NextTyped, AppendRoom DEF WriteBack, Roles
  <2>5. CASE Merge
    BY <2>0, <2>5, NextTyped, AppendRoom DEF Merge, Roles
  <2>6. CASE LoadAgent
    <3> DEFINE m == Message("prompt", next, {})
    <3>1. m \in Kept /\ m.role = "prompt"
      BY <2>6, NextTyped DEF LoadAgent, Roles, Message
    <3>2. chat' = Append(chat, m) /\ m \notin Range(chat)
      BY <2>6, <3>1 DEF LoadAgent
    <3> HIDE DEF m
    <3>3. chat'[Len(chat) + 1] = m /\ Len(chat) + 1 \in DOMAIN chat'
      BY <2>0, <3>1, <3>2, Appends DEF ChatOK
    <3>4. m \in Range(chat')
      BY <3>3 DEF Range
    <3> QED BY <3>1, <3>2, <3>4
  <2>7. CASE \E c \in open : ToolResult(c)
    BY <2>7 DEF ToolResult
  <2>8. CASE EndRun \/ UnloadAgent \/ \E k \in DOMAIN chat : Truncate(k)
    BY <2>8 DEF EndRun, UnloadAgent, Truncate
  <2>9. CASE Load \/ Restart
    <3>1. loads \in Nat
      BY <2>0, HistoryAssumption DEF CountsOK
    <3>2. loads' = loads + 1
      BY <2>9 DEF Load, Restart
    <3> QED BY <3>1, <3>2
  <2>10. CASE TaskCompacts \/ UserCompacts
    BY <2>10 DEF TaskCompacts, UserCompacts, StartCompaction
  <2>11. CASE \E by \in By, ok \in BOOLEAN : FinishCompaction(by, ok)
    BY <2>11 DEF FinishCompaction
  <2> QED BY <2>1, <2>2, <2>3, <2>4, <2>5, <2>6, <2>7, <2>8, <2>9, <2>10, <2>11 DEF Next
<1> HIDE DEF A
<1>2. Spec => [][A]_vars
  BY <1>1, Invariance, PTL DEF Spec
<1> QED BY <1>2 DEF A, TrimMakesRoom

=============================================================================
