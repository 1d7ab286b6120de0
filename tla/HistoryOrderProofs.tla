------------------------ MODULE HistoryOrderProofs ------------------------
(***************************************************************************)
(* What a step of History may never do: lose the message of an open round, *)
(* part a result from its assistant message, lose on reading back or take  *)
(* with a compaction what it did not read.  All four rest on the order in  *)
(* which messages were written, which every fold and cut keeps.            *)
(***************************************************************************)
EXTENDS HistoryProofs

(***************************************************************************)
(* What is true of any two messages of a history, the first standing       *)
(* before the second: identities are given once, a call belongs to one     *)
(* message, results come after their calls and placeholders before the     *)
(* results they stand for.                                                 *)
(***************************************************************************)
Real(m) == m.role \notin {"stub", "summary"}

\* n, not being a result, has no identity that m uses for a call.
Apart(m, n) ==
  ~Result(n) /\ n.role # "summary" =>
    (m.role = "assistant" => n.id \notin m.refs) /\ (m.role = "stub" => n.id # m.id)

Before(m, n) ==
  /\ Real(m) /\ Real(n) => m.id # n.id
  /\ m.role = "assistant" /\ n.role = "assistant" => m.refs \intersect n.refs = {}
  /\ Result(m) /\ n.role = "assistant" => m.id \notin n.refs
  /\ m.role = "tool" /\ n.role = "stub" => m.id # n.id
  /\ Apart(m, n) /\ Apart(n, m)

Ordered(msgs) ==
  /\ \A i \in DOMAIN msgs : Apart(msgs[i], msgs[i])
  /\ \A i, j \in DOMAIN msgs : i < j => Before(msgs[i], msgs[j])

\* The messages of out are those of s at these positions, or placeholders too.
From(out, s, places) == \A p \in DOMAIN out : \E j \in places : out[p] = s[j]
Drawn(out, s, places) == \A p \in DOMAIN out : out[p].role = "stub" \/ \E j \in places : out[p] = s[j]

LEMMA Upto ==
  ASSUME NEW n \in Nat, NEW T, 0 \in T, \A k \in 1..n : k - 1 \in T => k \in T
  PROVE  n \in T
<1> DEFINE h == [k \in 0..n |-> k]
<1>1. h[0] = 0 /\ h[n] = n /\ \A k \in 1..n : h[k] = k /\ h[k-1] = k - 1
  OBVIOUS
<1>2. h[0] \in T /\ \A k \in 1..n : h[k-1] \in T => h[k] \in T
  BY <1>1
<1> HIDE DEF h
<1>3. h[n] \in T
  BY <1>2, Along
<1> QED BY <1>1, <1>3

LEMMA JoinedAt ==
  ASSUME NEW s \in Seq(Kept), NEW t \in Seq(Kept)
  PROVE  /\ DOMAIN s = 1..Len(s) /\ DOMAIN t = 1..Len(t) /\ Len(s) \in Nat /\ Len(t) \in Nat
         /\ \A p \in DOMAIN s : p \in DOMAIN (s \o t) /\ (s \o t)[p] = s[p]
         /\ \A q \in DOMAIN t : Len(s) + q \in DOMAIN (s \o t) /\ (s \o t)[Len(s) + q] = t[q]
         /\ \A p \in DOMAIN (s \o t) : p \in DOMAIN s \/ \E q \in DOMAIN t : p = Len(s) + q
<1> DEFINE new == s \o t
           l == Len(s)
<1>1. /\ l \in Nat /\ Len(t) \in Nat /\ Len(new) = l + Len(t) /\ DOMAIN new = 1..(l + Len(t))
      /\ DOMAIN s = 1..l /\ DOMAIN t = 1..Len(t)
      /\ \A i \in 1..l : new[i] = s[i]
      /\ \A i \in 1..Len(t) : new[l + i] = t[i]
  BY Joins
<1> HIDE DEF new, l
<1>2. \A p \in DOMAIN s : p \in DOMAIN new /\ new[p] = s[p]
  BY <1>1
<1>3. \A q \in DOMAIN t : l + q \in DOMAIN new /\ new[l + q] = t[q]
  BY <1>1
<1>4. \A p \in DOMAIN new : p \in DOMAIN s \/ \E q \in DOMAIN t : p = l + q
  <2> TAKE p \in DOMAIN new
  <2>1. CASE p <= l
    BY <1>1, <2>1
  <2>2. CASE ~ (p <= l)
    <3>1. p - l \in DOMAIN t /\ p = l + (p - l)
      BY <1>1, <2>2
    <3> QED BY <3>1
  <2> QED BY <2>1, <2>2
<1> QED BY <1>1, <1>2, <1>3, <1>4 DEF new, l

LEMMA OrderedJoin ==
  ASSUME NEW s \in Seq(Kept), NEW t \in Seq(Kept), Ordered(s), Ordered(t),
         \A p \in DOMAIN s, q \in DOMAIN t : Before(s[p], t[q])
  PROVE  Ordered(s \o t)
<1> DEFINE new == s \o t
           l == Len(s)
<1>1. /\ DOMAIN s = 1..l /\ DOMAIN t = 1..Len(t) /\ l \in Nat /\ Len(t) \in Nat
      /\ \A p \in DOMAIN s : p \in DOMAIN new /\ new[p] = s[p]
      /\ \A q \in DOMAIN t : l + q \in DOMAIN new /\ new[l + q] = t[q]
      /\ \A p \in DOMAIN new : p \in DOMAIN s \/ \E q \in DOMAIN t : p = l + q
  BY JoinedAt
<1> HIDE DEF new, l
<1>2. \A i \in DOMAIN new : Apart(new[i], new[i])
  <2> TAKE i \in DOMAIN new
  <2>1. CASE i \in DOMAIN s
    BY <1>1, <2>1 DEF Ordered
  <2>2. ASSUME NEW q \in DOMAIN t, i = l + q PROVE Apart(new[i], new[i])
    BY <1>1, <2>2 DEF Ordered
  <2> QED BY <1>1, <2>1, <2>2
<1>3. ASSUME NEW i \in DOMAIN new, NEW j \in DOMAIN new, i < j PROVE Before(new[i], new[j])
  <2>1. CASE i \in DOMAIN s /\ j \in DOMAIN s
    BY <1>1, <1>3, <2>1 DEF Ordered
  <2>2. ASSUME NEW r \in DOMAIN t, j = l + r, i \in DOMAIN s PROVE Before(new[i], new[j])
    BY <1>1, <2>2
  <2>3. ASSUME NEW q \in DOMAIN t, i = l + q PROVE Before(new[i], new[j])
    <3>1. j \notin DOMAIN s
      BY <1>1, <1>3, <2>3
    <3>2. PICK r \in DOMAIN t : j = l + r
      BY <1>1, <3>1
    <3>3. q < r
      BY <1>1, <1>3, <2>3, <3>2
    <3>4. Before(t[q], t[r])
      BY <3>3 DEF Ordered
    <3> QED BY <1>1, <2>3, <3>2, <3>4
  <2> QED BY <1>1, <2>1, <2>2, <2>3
<1> QED BY <1>2, <1>3 DEF Ordered, new

LEMMA OrderedAppend ==
  ASSUME NEW s \in Seq(Kept), NEW m \in Kept, Ordered(s), Apart(m, m),
         \A p \in DOMAIN s : Before(s[p], m)
  PROVE  Ordered(Append(s, m))
<1> DEFINE t == <<m>>
<1>1. t \in Seq(Kept) /\ DOMAIN t = {1} /\ t[1] = m /\ s \o t = Append(s, m)
  OBVIOUS
<1> HIDE DEF t
<1>2. Ordered(t)
  BY <1>1 DEF Ordered
<1>3. \A p \in DOMAIN s, q \in DOMAIN t : Before(s[p], t[q])
  BY <1>1
<1>4. Ordered(s \o t)
  BY <1>1, <1>2, <1>3, OrderedJoin
<1> QED BY <1>1, <1>4

\* What is drawn from the beginning of an ordered history, in order, is ordered.
LEMMA OrderedNext ==
  ASSUME NEW s \in Seq(Kept), Ordered(s), NEW n \in DOMAIN s,
         NEW out \in Seq(Kept), Ordered(out), From(out, s, 1..(n-1))
  PROVE  Ordered(Append(out, s[n])) /\ From(Append(out, s[n]), s, 1..n)
<1>1. DOMAIN s = 1..Len(s) /\ Len(s) \in Nat /\ DOMAIN out = 1..Len(out) /\ Len(out) \in Nat
  OBVIOUS
<1>2. s[n] \in Kept /\ Apart(s[n], s[n])
  BY DEF Ordered
<1>3. \A p \in DOMAIN out : Before(out[p], s[n])
  <2> TAKE p \in DOMAIN out
  <2>1. PICK j \in 1..(n-1) : out[p] = s[j]
    BY DEF From
  <2>2. j \in DOMAIN s /\ j < n
    BY <1>1
  <2> QED BY <2>1, <2>2 DEF Ordered
<1>4. From(Append(out, s[n]), s, 1..n)
  <2>1. /\ DOMAIN Append(out, s[n]) = 1..(Len(out) + 1)
        /\ \A p \in DOMAIN out : Append(out, s[n])[p] = out[p]
        /\ Append(out, s[n])[Len(out) + 1] = s[n]
    BY <1>1, <1>2, Appends
  <2>2. 1..(n-1) \subseteq 1..n /\ n \in 1..n
    BY <1>1
  <2> SUFFICES ASSUME NEW p \in 1..(Len(out) + 1) PROVE \E j \in 1..n : Append(out, s[n])[p] = s[j]
    BY <2>1 DEF From
  <2>3. CASE p \in DOMAIN out
    BY <2>1, <2>2, <2>3 DEF From
  <2>4. CASE p = Len(out) + 1
    BY <2>1, <2>2, <2>4
  <2> QED BY <1>1, <2>3, <2>4
<1> QED BY <1>2, <1>3, <1>4, OrderedAppend

LEMMA FromMore ==
  ASSUME NEW out, NEW s, NEW P, NEW Q, P \subseteq Q, From(out, s, P)
  PROVE  From(out, s, Q)
BY DEF From

LEMMA EmptyOrdered == Ordered(<<>>) /\ \A s, P : From(<<>>, s, P)
BY DEF Ordered, From

(***************************************************************************)
(* The folds keep the order, and most of the messages.                     *)
(***************************************************************************)
LEMMA Throughout ==
  ASSUME NEW n \in Nat, NEW T, 0 \in T, \A k \in 1..n : k - 1 \in T => k \in T
  PROVE  \A k \in 0..n : k \in T
<1> TAKE m \in 0..n
<1>1. m \in Nat /\ \A k \in 1..m : k \in 1..n
  OBVIOUS
<1>2. \A k \in 1..m : k - 1 \in T => k \in T
  BY <1>1
<1> QED BY <1>1, <1>2, Upto

LEMMA RangeJoin ==
  ASSUME NEW s \in Seq(Kept), NEW t \in Seq(Kept)
  PROVE  Range(s \o t) = Range(s) \union Range(t)
<1> DEFINE new == s \o t
           l == Len(s)
<1>1. /\ \A p \in DOMAIN s : p \in DOMAIN new /\ new[p] = s[p]
      /\ \A q \in DOMAIN t : l + q \in DOMAIN new /\ new[l + q] = t[q]
      /\ \A p \in DOMAIN new : p \in DOMAIN s \/ \E q \in DOMAIN t : p = l + q
  BY JoinedAt
<1> HIDE DEF new, l
<1>2. Range(new) = Range(s) \union Range(t)
  BY <1>1 DEF Range
<1> QED BY <1>2 DEF new

LEMMA RangeAppend ==
  ASSUME NEW s \in Seq(Kept), NEW m \in Kept
  PROVE  Range(Append(s, m)) = Range(s) \union {m}
<1> DEFINE t == <<m>>
<1>1. t \in Seq(Kept) /\ s \o t = Append(s, m) /\ Range(t) = {m}
  BY DEF Range
<1> HIDE DEF t
<1> QED BY <1>1, RangeJoin

LEMMA SubSeqAt ==
  ASSUME NEW s \in Seq(Kept), NEW m \in Nat \ {0}, NEW n \in Nat, n <= Len(s)
  PROVE  /\ SubSeq(s, m, n) \in Seq(Kept)
         /\ Len(SubSeq(s, m, n)) = IF m <= n THEN n - m + 1 ELSE 0
         /\ \A i \in 1..(n - m + 1) : SubSeq(s, m, n)[i] = s[m + i - 1]
         /\ \A j \in m..n : j - m + 1 \in DOMAIN SubSeq(s, m, n) /\ SubSeq(s, m, n)[j - m + 1] = s[j]
         /\ DOMAIN SubSeq(s, m, n) = 1..(n - m + 1)
<1>1. m \in Int /\ n \in Int /\ SubSeq(s, m, n) \in Seq(Kept)
  BY SubSeqTyped
<1>2. \A i \in m..n : s[i] \in Kept
  <2> TAKE i \in m..n
  <2>1. i \in 1..Len(s)
    OBVIOUS
  <2> QED BY <2>1
<1> DEFINE t == SubSeq(s, m, n)
<1>3. /\ Len(t) = IF m <= n THEN n - m + 1 ELSE 0
      /\ \A i \in 1..(n - m + 1) : t[i] = s[m + i - 1]
  BY <1>1, <1>2, SubSeqProperties
<1>4. t \in Seq(Kept)
  BY <1>1
<1> HIDE DEF t
<1>5. DOMAIN t = 1..(n - m + 1)
  <2>1. DOMAIN t = 1..Len(t)
    BY <1>4
  <2>2. CASE m <= n
    BY <1>3, <2>1, <2>2
  <2>3. CASE ~ (m <= n)
    <3>1. 1..(n - m + 1) = {} /\ 1..0 = {}
      BY <2>3
    <3> QED BY <1>3, <2>1, <2>3, <3>1
  <2> QED BY <2>2, <2>3
<1>6. \A j \in m..n : j - m + 1 \in DOMAIN t /\ t[j - m + 1] = s[j]
  <2> TAKE j \in m..n
  <2>1. j - m + 1 \in 1..(n - m + 1) /\ m + (j - m + 1) - 1 = j
    OBVIOUS
  <2> QED BY <1>3, <1>5, <2>1
<1> QED BY <1>3, <1>4, <1>5, <1>6 DEF t

LEMMA SubSeqOrdered ==
  ASSUME NEW s \in Seq(Kept), Ordered(s), NEW m \in Nat \ {0}, NEW n \in Nat, n <= Len(s)
  PROVE  Ordered(SubSeq(s, m, n)) /\ From(SubSeq(s, m, n), s, m..n)
<1> DEFINE t == SubSeq(s, m, n)
<1>1. DOMAIN t = 1..(n - m + 1) /\ \A i \in 1..(n - m + 1) : t[i] = s[m + i - 1]
  BY SubSeqAt
<1>2. \A i \in 1..(n - m + 1) : m + i - 1 \in m..n /\ m + i - 1 \in DOMAIN s
  OBVIOUS
<1> HIDE DEF t
<1>3. From(t, s, m..n)
  BY <1>1, <1>2 DEF From
<1>4. \A i \in DOMAIN t : Apart(t[i], t[i])
  BY <1>1, <1>2 DEF Ordered
<1>5. \A i, j \in DOMAIN t : i < j => Before(t[i], t[j])
  <2> SUFFICES ASSUME NEW i \in DOMAIN t, NEW j \in DOMAIN t, i < j PROVE Before(t[i], t[j])
    OBVIOUS
  <2>1. m + i - 1 < m + j - 1
    BY <1>1
  <2> QED BY <1>1, <1>2, <2>1 DEF Ordered
<1> QED BY <1>3, <1>4, <1>5 DEF Ordered, t

LEMMA OnlyOrdered ==
  ASSUME NEW s \in Seq(Kept), NEW roles, Ordered(s)
  PROVE  Ordered(Only(s, roles)) /\ From(Only(s, roles), s, DOMAIN s)
<1>1. PICK h : /\ h[0] = <<>>
               /\ \A k \in 1..Len(s) : h[k] = OnlyStep(roles, h[k-1], s[k])
               /\ Only(s, roles) = h[Len(s)]
  BY OnlyFold
<1> DEFINE T == {k \in 0..Len(s) : h[k] \in Seq(Kept) /\ Ordered(h[k]) /\ From(h[k], s, 1..k)}
<1>2. Len(s) \in Nat /\ DOMAIN s = 1..Len(s) /\ <<>> \in Seq(Kept)
  OBVIOUS
<1>3. 0 \in T
  <2>1. h[0] = <<>> /\ 0 \in 0..Len(s)
    BY <1>1, <1>2
  <2>2. h[0] \in Seq(Kept)
    BY <1>2, <2>1
  <2>3. Ordered(h[0]) /\ From(h[0], s, 1..0)
    BY <2>1, EmptyOrdered
  <2> QED BY <2>1, <2>2, <2>3
<1>4. ASSUME NEW k \in 1..Len(s), k - 1 \in T PROVE k \in T
  <2>1. /\ h[k-1] \in Seq(Kept) /\ Ordered(h[k-1]) /\ From(h[k-1], s, 1..(k-1))
        /\ k \in DOMAIN s /\ k \in 0..Len(s) /\ s[k] \in Kept /\ h[k] = OnlyStep(roles, h[k-1], s[k])
    BY <1>1, <1>2, <1>4
  <2>2. h[k] \in Seq(Kept)
    BY <2>1, OnlyStepTyped
  <2>3. CASE s[k].role \in roles
    <3>1. h[k] = Append(h[k-1], s[k])
      BY <2>1, <2>3 DEF OnlyStep
    <3>2. Ordered(h[k]) /\ From(h[k], s, 1..k)
      BY <2>1, <3>1, OrderedNext
    <3> QED BY <2>1, <2>2, <3>2
  <2>4. CASE s[k].role \notin roles
    <3>1. h[k] = h[k-1]
      BY <2>1, <2>4 DEF OnlyStep
    <3>2. 1..(k-1) \subseteq 1..k
      BY <1>2
    <3>3. From(h[k], s, 1..k)
      BY <2>1, <3>1, <3>2, FromMore
    <3> QED BY <2>1, <2>2, <3>1, <3>3
  <2> QED BY <2>3, <2>4
<1>5. Len(s) \in T
  <2> HIDE DEF T
  <2> QED BY <1>2, <1>3, <1>4, Upto
<1> QED BY <1>1, <1>2, <1>5

LEMMA OnlyAll ==
  ASSUME NEW s \in Seq(Kept), NEW roles, NEW j \in DOMAIN s, s[j].role \in roles
  PROVE  s[j] \in Range(Only(s, roles))
<1>1. PICK h : /\ h[0] = <<>>
               /\ \A k \in 1..Len(s) : h[k] = OnlyStep(roles, h[k-1], s[k])
               /\ Only(s, roles) = h[Len(s)]
  BY OnlyFold
<1> DEFINE T == {k \in 0..Len(s) : h[k] \in Seq(Kept) /\ (k >= j => s[j] \in Range(h[k]))}
<1>2. Len(s) \in Nat /\ DOMAIN s = 1..Len(s) /\ j >= 1 /\ j <= Len(s) /\ j \in Nat /\ <<>> \in Seq(Kept)
  OBVIOUS
<1>3. 0 \in T
  <2>1. h[0] = <<>> /\ 0 \in 0..Len(s) /\ ~ (0 >= j)
    BY <1>1, <1>2
  <2>2. h[0] \in Seq(Kept)
    BY <1>2, <2>1
  <2> QED BY <2>1, <2>2
<1>4. ASSUME NEW k \in 1..Len(s), k - 1 \in T PROVE k \in T
  <2>1. /\ h[k-1] \in Seq(Kept) /\ (k - 1 >= j => s[j] \in Range(h[k-1]))
        /\ k \in DOMAIN s /\ k \in 0..Len(s) /\ s[k] \in Kept /\ h[k] = OnlyStep(roles, h[k-1], s[k])
    BY <1>1, <1>2, <1>4
  <2>2. h[k] \in Seq(Kept)
    BY <2>1, OnlyStepTyped
  <2>3. Range(h[k]) = IF s[k].role \in roles THEN Range(h[k-1]) \union {s[k]} ELSE Range(h[k-1])
    BY <2>1, RangeAppend DEF OnlyStep
  <2>4. k >= j => k - 1 >= j \/ k = j
    BY <1>2
  <2>5. k >= j => s[j] \in Range(h[k])
    <3> HIDE DEF T
    <3> QED BY <2>1, <2>3, <2>4
  <2> QED BY <2>1, <2>2, <2>5
<1>5. Len(s) \in T
  <2> HIDE DEF T
  <2> QED BY <1>2, <1>3, <1>4, Upto
<1> QED BY <1>1, <1>2, <1>5

\* The run of trimToCacheLimit over a history that is too long.
LEMMA TrimRun ==
  ASSUME NEW s \in Seq(Kept), Len(s) > MaxMessages
  PROVE  \E h : /\ h[0].out = <<>>
                /\ \A k \in 1..Len(s) : h[k] = TrimStep(h[k-1], s[k])
                /\ \A k \in 0..Len(s) : h[k] \in Trimming
                /\ Trim(s) = h[Len(s)].out
<1> DEFINE start == [out |-> <<>>, toDrop |-> Len(s) - LowWater, tail |-> FALSE]
<1>1. Len(s) - LowWater \in Nat /\ Len(s) \in Nat
  BY HistoryAssumption
<1>2. start \in Trimming /\ start.out = <<>>
  BY <1>1 DEF Trimming
<1>3. Trim(s) = FoldLeft(TrimStep, start, s).out
  BY HistoryAssumption DEF Trim
<1> HIDE DEF start
<1>4. PICK h : /\ h[0] = start
               /\ \A k \in 1..Len(s) : h[k] = TrimStep(h[k-1], s[k])
               /\ FoldLeft(TrimStep, start, s) = h[Len(s)]
  BY <1>2, TrimFold
<1> DEFINE T == {k \in 0..Len(s) : h[k] \in Trimming}
<1>5. 0 \in T
  BY <1>1, <1>2, <1>4
<1>6. ASSUME NEW k \in 1..Len(s), k - 1 \in T PROVE k \in T
  BY <1>4, <1>6, TrimStepTyped
<1>7. \A k \in 0..Len(s) : k \in T
  <2> HIDE DEF T
  <2> QED BY <1>1, <1>5, <1>6, Throughout
<1>8. \A k \in 0..Len(s) : h[k] \in Trimming
  BY <1>7
<1> QED BY <1>2, <1>3, <1>4, <1>8

LEMMA TrimSteps ==
  ASSUME NEW acc \in Trimming, NEW m \in Kept
  PROVE  \/ /\ ~Protected(m)
            /\ TrimStep(acc, m).out = acc.out
         \/ /\ TrimStep(acc, m).out = Append(acc.out, m)
            /\ TrimStep(acc, m).toDrop = acc.toDrop
            /\ TrimStep(acc, m).tail = FALSE
            /\ ~Protected(m) => acc.toDrop = 0
<1>1. acc.toDrop \in Nat
  BY DEF Trimming
<1>2. CASE ~Protected(m) /\ ((acc.tail /\ Result(m)) \/ acc.toDrop > 0)
  BY <1>2 DEF TrimStep
<1>3. CASE ~(~Protected(m) /\ ((acc.tail /\ Result(m)) \/ acc.toDrop > 0))
  <2>1. TrimStep(acc, m).out = Append(acc.out, m) /\ TrimStep(acc, m).toDrop = acc.toDrop /\ TrimStep(acc, m).tail = FALSE
    BY <1>3 DEF TrimStep, Trimming
  <2> QED BY <1>1, <1>3, <2>1
<1> QED BY <1>2, <1>3

LEMMA TrimOrdered ==
  ASSUME NEW s \in Seq(Kept), Ordered(s)
  PROVE  Ordered(Trim(s)) /\ From(Trim(s), s, DOMAIN s)
<1>1. CASE Len(s) <= MaxMessages
  <2>1. Trim(s) = s
    BY <1>1 DEF Trim
  <2> QED BY <2>1 DEF From
<1>2. CASE Len(s) > MaxMessages
  <2>1. PICK h : /\ h[0].out = <<>>
                 /\ \A k \in 1..Len(s) : h[k] = TrimStep(h[k-1], s[k])
                 /\ \A k \in 0..Len(s) : h[k] \in Trimming
                 /\ Trim(s) = h[Len(s)].out
    BY <1>2, TrimRun
  <2> DEFINE T == {k \in 0..Len(s) : Ordered(h[k].out) /\ From(h[k].out, s, 1..k)}
  <2>2. Len(s) \in Nat /\ DOMAIN s = 1..Len(s)
    OBVIOUS
  <2>3. 0 \in T
    BY <2>1, <2>2, EmptyOrdered
  <2>4. ASSUME NEW k \in 1..Len(s), k - 1 \in T PROVE k \in T
    <3>1. /\ h[k-1] \in Trimming /\ h[k-1].out \in Seq(Kept)
          /\ Ordered(h[k-1].out) /\ From(h[k-1].out, s, 1..(k-1))
          /\ k \in DOMAIN s /\ k \in 0..Len(s) /\ s[k] \in Kept /\ h[k] = TrimStep(h[k-1], s[k])
      BY <2>1, <2>2, <2>4 DEF Trimming
    <3>2. CASE h[k].out = Append(h[k-1].out, s[k])
      <4>1. Ordered(h[k].out) /\ From(h[k].out, s, 1..k)
        BY <3>1, <3>2, OrderedNext
      <4> QED BY <3>1, <4>1
    <3>3. CASE h[k].out = h[k-1].out
      <4>1. 1..(k-1) \subseteq 1..k
        BY <2>2
      <4>2. From(h[k].out, s, 1..k)
        BY <3>1, <3>3, <4>1, FromMore
      <4> QED BY <3>1, <3>3, <4>2
    <3> QED BY <3>1, <3>2, <3>3, TrimSteps
  <2>5. Len(s) \in T
    <3> HIDE DEF T
    <3> QED BY <2>2, <2>3, <2>4, Upto
  <2> QED BY <2>1, <2>2, <2>5
<1>3. Len(s) <= MaxMessages \/ Len(s) > MaxMessages
  BY HistoryAssumption
<1> QED BY <1>1, <1>2, <1>3

LEMMA TrimAll ==
  ASSUME NEW s \in Seq(Kept), NEW j \in DOMAIN s, Protected(s[j])
  PROVE  s[j] \in Range(Trim(s))
<1>1. CASE Len(s) <= MaxMessages
  <2>1. Trim(s) = s
    BY <1>1 DEF Trim
  <2> QED BY <2>1 DEF Range
<1>2. CASE Len(s) > MaxMessages
  <2>1. PICK h : /\ h[0].out = <<>>
                 /\ \A k \in 1..Len(s) : h[k] = TrimStep(h[k-1], s[k])
                 /\ \A k \in 0..Len(s) : h[k] \in Trimming
                 /\ Trim(s) = h[Len(s)].out
    BY <1>2, TrimRun
  <2> DEFINE T == {k \in 0..Len(s) : k >= j => s[j] \in Range(h[k].out)}
  <2>2. Len(s) \in Nat /\ DOMAIN s = 1..Len(s) /\ j >= 1 /\ j <= Len(s) /\ j \in Nat
    OBVIOUS
  <2>3. 0 \in T
    BY <2>2
  <2>4. ASSUME NEW k \in 1..Len(s), k - 1 \in T PROVE k \in T
    <3>1. /\ h[k-1] \in Trimming /\ h[k-1].out \in Seq(Kept) /\ (k - 1 >= j => s[j] \in Range(h[k-1].out))
          /\ k \in DOMAIN s /\ k \in 0..Len(s) /\ s[k] \in Kept /\ h[k] = TrimStep(h[k-1], s[k])
      BY <2>1, <2>2, <2>4 DEF Trimming
    <3>2. k >= j => k - 1 >= j \/ k = j
      BY <2>2
    <3>3. \/ ~Protected(s[k]) /\ Range(h[k].out) = Range(h[k-1].out)
          \/ Range(h[k].out) = Range(h[k-1].out) \union {s[k]}
      <4>1. (~Protected(s[k]) /\ h[k].out = h[k-1].out) \/ h[k].out = Append(h[k-1].out, s[k])
        BY <3>1, TrimSteps
      <4>2. Range(Append(h[k-1].out, s[k])) = Range(h[k-1].out) \union {s[k]}
        BY <3>1, RangeAppend
      <4> QED BY <4>1, <4>2
    <3>4. k >= j => s[j] \in Range(h[k].out)
      <4> HIDE DEF T
      <4> QED BY <3>1, <3>2, <3>3
    <3> QED BY <3>1, <3>4
  <2>5. Len(s) \in T
    <3> HIDE DEF T
    <3> QED BY <2>2, <2>3, <2>4, Upto
  <2> QED BY <2>1, <2>2, <2>5
<1>3. Len(s) <= MaxMessages \/ Len(s) > MaxMessages
  BY HistoryAssumption
<1> QED BY <1>1, <1>2, <1>3

(***************************************************************************)
(* The run of repairToolPairing: paired, in order, and nothing lost but    *)
(* results.                                                                *)
(***************************************************************************)
LEMMA RepairRun ==
  ASSUME NEW s \in Seq(Kept)
  PROVE  \E h : /\ h[0] = NoRepair
                /\ \A k \in 1..Len(s) : h[k] = RepairStep(h[k-1], s[k])
                /\ \A k \in 0..Len(s) : h[k] \in Repairing /\ Paired(h[k].out, h[k].pending)
                /\ Repair(s, FALSE) = h[Len(s)].out
<1> DEFINE end == FoldLeft(RepairStep, NoRepair, s)
<1>1. PICK h : /\ h[0] = NoRepair
               /\ \A k \in 1..Len(s) : h[k] = RepairStep(h[k-1], s[k])
               /\ end = h[Len(s)]
  BY RepairFold
<1> DEFINE T == {k \in 0..Len(s) : h[k] \in Repairing /\ Paired(h[k].out, h[k].pending)}
<1>2. Len(s) \in Nat
  OBVIOUS
<1>3. 0 \in T
  <2>1. Paired(<<>>, {})
    BY DEF Paired, ResultsFollow, CallsAnswered, PendingAtEnd
  <2>2. NoRepair \in Repairing /\ NoRepair.out = <<>> /\ NoRepair.pending = {}
    BY DEF NoRepair, Repairing
  <2>3. 0 \in 0..Len(s) /\ h[0] \in Repairing /\ h[0].out = <<>> /\ h[0].pending = {}
    BY <1>1, <1>2, <2>2
  <2> QED BY <2>1, <2>3
<1>4. ASSUME NEW k \in 1..Len(s), k - 1 \in T PROVE k \in T
  <2>1. s[k] \in Kept /\ h[k] = RepairStep(h[k-1], s[k]) /\ k \in 0..Len(s)
    BY <1>1
  <2> QED BY <1>4, <2>1, RepairStepTyped, RepairStepPaired
<1>5. \A k \in 0..Len(s) : k \in T
  <2> HIDE DEF T
  <2> QED BY <1>2, <1>3, <1>4, Throughout
<1>6. \A k \in 0..Len(s) : h[k] \in Repairing /\ Paired(h[k].out, h[k].pending)
  BY <1>5
<1>7. Repair(s, FALSE) = end.out
  <2>1. Repair(s, FALSE) = end.out \o <<>>
    BY DEF Repair, NoRepair
  <2>2. end \in Repairing
    BY <1>1, <1>2, <1>6
  <2>3. end.out \in Seq(Kept)
    BY <2>2 DEF Repairing
  <2> HIDE DEF end
  <2>4. end.out \o <<>> = end.out
    BY <2>3
  <2> QED BY <2>1, <2>4
<1> HIDE DEF end, T
<1> QED BY <1>1, <1>6, <1>7

LEMMA RepairFollows ==
  ASSUME NEW s \in Seq(Kept)
  PROVE  \E pending \in SUBSET Ids : Paired(Repair(s, FALSE), pending)
<1>1. PICK h : /\ \A k \in 0..Len(s) : h[k] \in Repairing /\ Paired(h[k].out, h[k].pending)
               /\ Repair(s, FALSE) = h[Len(s)].out
  BY RepairRun
<1>2. Len(s) \in 0..Len(s)
  OBVIOUS
<1>3. h[Len(s)].pending \in SUBSET Ids
  BY <1>1, <1>2 DEF Repairing
<1> QED BY <1>1, <1>2, <1>3

LEMMA StubsOrdered ==
  ASSUME NEW calls \in SUBSET Ids
  PROVE  /\ Stubs(calls) \in Seq(Kept) /\ Ordered(Stubs(calls))
         /\ \A q \in DOMAIN Stubs(calls) : Stubs(calls)[q].role = "stub" /\ Stubs(calls)[q].id \in calls
<1> DEFINE t == Stubs(calls)
<1>1. /\ t \in Seq(Kept) /\ Len(t) = Cardinality(calls)
      /\ \A k \in 1..Cardinality(calls) : t[k].role = "stub" /\ t[k].id = NthCall(calls, k)
  BY StubsAre
<1>2. \A k \in 1..Cardinality(calls) : NthCall(calls, k) \in calls
  BY NthCalls
<1> HIDE DEF t
<1>3. \A q \in DOMAIN t : t[q].role = "stub" /\ t[q].id \in calls
  BY <1>1, <1>2
<1>4. Ordered(t)
  BY <1>3 DEF Ordered, Before, Apart, Real, Result
<1> QED BY <1>1, <1>3, <1>4 DEF t

\* A placeholder of a pending call may be put behind what there is.
LEMMA PendingStub ==
  ASSUME NEW out \in Seq(Kept), NEW pending \in SUBSET Ids, Paired(out, pending), Ordered(out),
         NEW p \in DOMAIN out, NEW m \in Kept, m.role = "stub", m.id \in pending
  PROVE  Before(out[p], m)
<1>1. PICK i \in DOMAIN out : LastAt(out, i) /\ out[i].role = "assistant" /\ m.id \in out[i].refs
  BY DEF Paired, PendingAtEnd
<1>2. Result(m) /\ ~Real(m)
  BY DEF Result, Real
<1>3. ASSUME out[p].role = "tool", out[p].id = m.id PROVE FALSE
  <2>1. PICK j \in DOMAIN out : Follows(out, j, p)
    BY <1>3 DEF Paired, ResultsFollow, Result
  <2>2. out[j].role = "assistant" /\ m.id \in out[j].refs
    BY <1>3, <2>1 DEF Follows, Answers
  <2>3. i < j \/ j < i \/ i = j
    OBVIOUS
  <2>4. i = j
    BY <1>1, <2>2, <2>3 DEF Ordered, Before
  <2>5. NoAnswer(out, i, m.id)
    BY <1>1 DEF Paired, CallsAnswered
  <2> QED BY <1>3, <2>1, <2>4, <2>5 DEF NoAnswer
<1>4. ASSUME ~Result(out[p]), out[p].role # "summary" PROVE out[p].id # m.id
  <2>1. p <= i
    <3>1. CASE p > i
      <4>1. p \in i+1..Len(out)
        BY <3>1
      <4> QED BY <1>1, <1>4, <4>1 DEF LastAt
    <3>2. p > i \/ p <= i
      OBVIOUS
    <3> QED BY <3>1, <3>2
  <2>2. Apart(out[i], out[p])
    <3>1. CASE p = i
      BY <3>1 DEF Ordered
    <3>2. CASE p < i
      BY <3>2 DEF Ordered, Before
    <3>3. p = i \/ p < i
      BY <2>1
    <3> QED BY <3>1, <3>2, <3>3
  <2> QED BY <1>1, <1>4, <2>2 DEF Apart
<1> QED BY <1>2, <1>3, <1>4 DEF Before, Apart

\* The next message may be put behind what was drawn from those before it.
LEMMA DrawnNext ==
  ASSUME NEW s \in Seq(Kept), Ordered(s), NEW n \in DOMAIN s, NEW out \in Seq(Kept),
         ResultsFollow(out), Drawn(out, s, 1..(n-1)), NEW p \in DOMAIN out
  PROVE  Before(out[p], s[n])
<1>1. \A j \in 1..(n-1) : j \in DOMAIN s /\ j < n
  <2>1. DOMAIN s = 1..Len(s) /\ Len(s) \in Nat
    OBVIOUS
  <2> QED BY <2>1
<1>2. CASE \E j \in 1..(n-1) : out[p] = s[j]
  BY <1>1, <1>2 DEF Ordered
<1>3. CASE out[p].role = "stub"
  <2>1. PICK i \in DOMAIN out : Follows(out, i, p)
    BY <1>3 DEF ResultsFollow, Result
  <2>2. out[i].role = "assistant" /\ out[p].id \in out[i].refs
    BY <2>1 DEF Follows, Answers
  <2>3. PICK j \in 1..(n-1) : out[i] = s[j]
    BY <2>2 DEF Drawn
  <2>4. Before(out[i], s[n])
    BY <1>1, <2>3 DEF Ordered
  <2> QED BY <1>3, <2>2, <2>4 DEF Before, Apart, Real, Result
<1> QED BY <1>2, <1>3 DEF Drawn

LEMMA DrawnAppend ==
  ASSUME NEW s \in Seq(Kept), NEW n \in DOMAIN s, NEW out \in Seq(Kept), Drawn(out, s, 1..(n-1))
  PROVE  Drawn(Append(out, s[n]), s, 1..n)
<1>1. DOMAIN s = 1..Len(s) /\ Len(s) \in Nat /\ DOMAIN out = 1..Len(out) /\ Len(out) \in Nat /\ s[n] \in Kept
  OBVIOUS
<1>2. /\ DOMAIN Append(out, s[n]) = 1..(Len(out) + 1)
      /\ \A p \in DOMAIN out : Append(out, s[n])[p] = out[p]
      /\ Append(out, s[n])[Len(out) + 1] = s[n]
  BY <1>1, Appends
<1>3. 1..(n-1) \subseteq 1..n /\ n \in 1..n
  BY <1>1
<1> SUFFICES ASSUME NEW p \in 1..(Len(out) + 1)
             PROVE  Append(out, s[n])[p].role = "stub" \/ \E j \in 1..n : Append(out, s[n])[p] = s[j]
  BY <1>2 DEF Drawn
<1>4. CASE p \in DOMAIN out
  <2>1. out[p].role = "stub" \/ \E j \in 1..(n-1) : out[p] = s[j]
    BY <1>4 DEF Drawn
  <2> QED BY <1>2, <1>3, <1>4, <2>1
<1>5. CASE p = Len(out) + 1
  BY <1>2, <1>3, <1>5
<1> QED BY <1>1, <1>4, <1>5

LEMMA DrawnStubs ==
  ASSUME NEW s, NEW places, NEW out \in Seq(Kept), Drawn(out, s, places), NEW calls \in SUBSET Ids
  PROVE  Drawn(out \o Stubs(calls), s, places)
<1> DEFINE t == Stubs(calls)
           new == out \o t
<1>1. t \in Seq(Kept) /\ \A q \in DOMAIN t : t[q].role = "stub"
  BY StubsOrdered
<1> HIDE DEF t
<1>2. /\ \A p \in DOMAIN out : p \in DOMAIN new /\ new[p] = out[p]
      /\ \A q \in DOMAIN t : Len(out) + q \in DOMAIN new /\ new[Len(out) + q] = t[q]
      /\ \A p \in DOMAIN new : p \in DOMAIN out \/ \E q \in DOMAIN t : p = Len(out) + q
  BY <1>1, JoinedAt
<1> HIDE DEF new
<1>3. Drawn(new, s, places)
  BY <1>1, <1>2 DEF Drawn
<1> QED BY <1>3 DEF new, t

\* Repairing only adds behind what there is.
LEMMA RepairSteps ==
  ASSUME NEW acc \in Repairing, NEW m \in Kept
  PROVE  \/ Result(m) /\ m.id \in acc.pending /\ RepairStep(acc, m).out = Append(acc.out, m)
         \/ Result(m) /\ m.id \notin acc.pending /\ RepairStep(acc, m).out = acc.out
         \/ /\ ~Result(m) /\ acc.out \o Stubs(acc.pending) \in Seq(Kept)
            /\ RepairStep(acc, m).out = Append(acc.out \o Stubs(acc.pending), m)
<1>1. acc.out \in Seq(Kept) /\ acc.pending \in SUBSET Ids
  BY DEF Repairing
<1>2. acc.out \o Stubs(acc.pending) \in Seq(Kept)
  BY <1>1, StubsAre, Joins
<1> QED BY <1>2 DEF RepairStep

LEMMA RepairOrdered ==
  ASSUME NEW s \in Seq(Kept), Ordered(s)
  PROVE  Ordered(Repair(s, FALSE)) /\ Drawn(Repair(s, FALSE), s, DOMAIN s)
<1>1. PICK h : /\ h[0] = NoRepair
               /\ \A k \in 1..Len(s) : h[k] = RepairStep(h[k-1], s[k])
               /\ \A k \in 0..Len(s) : h[k] \in Repairing /\ Paired(h[k].out, h[k].pending)
               /\ Repair(s, FALSE) = h[Len(s)].out
  BY RepairRun
<1> DEFINE T == {k \in 0..Len(s) : Ordered(h[k].out) /\ Drawn(h[k].out, s, 1..k)}
<1>2. Len(s) \in Nat /\ DOMAIN s = 1..Len(s)
  OBVIOUS
<1>3. 0 \in T
  <2>1. h[0].out = <<>> /\ 0 \in 0..Len(s)
    BY <1>1, <1>2 DEF NoRepair
  <2>2. Drawn(<<>>, s, 1..0)
    BY DEF Drawn
  <2> QED BY <2>1, <2>2, EmptyOrdered
<1>4. ASSUME NEW k \in 1..Len(s), k - 1 \in T PROVE k \in T
  <2> DEFINE acc == h[k-1]
             m == s[k]
  <2>1. /\ k \in DOMAIN s /\ k \in 0..Len(s) /\ k - 1 \in 0..Len(s) /\ m \in Kept
        /\ h[k] = RepairStep(acc, m)
    BY <1>1, <1>2
  <2>2. /\ acc \in Repairing /\ acc.out \in Seq(Kept) /\ acc.pending \in SUBSET Ids
        /\ Paired(acc.out, acc.pending)
        /\ Ordered(acc.out) /\ Drawn(acc.out, s, 1..(k-1))
    BY <1>1, <1>4, <2>1 DEF Repairing
  <2>3. Apart(m, m)
    BY <2>1 DEF Ordered
  <2> HIDE DEF acc
  <2>4. CASE Result(m) /\ m.id \in acc.pending
    <3>1. h[k].out = Append(acc.out, m)
      BY <2>1, <2>4 DEF RepairStep
    <3>2. \A p \in DOMAIN acc.out : Before(acc.out[p], m)
      BY <2>1, <2>2, DrawnNext DEF Paired
    <3>3. Ordered(Append(acc.out, m))
      BY <2>1, <2>2, <2>3, <3>2, OrderedAppend
    <3>4. Drawn(Append(acc.out, m), s, 1..k)
      BY <2>1, <2>2, DrawnAppend
    <3> QED BY <2>1, <3>1, <3>3, <3>4
  <2>5. CASE Result(m) /\ m.id \notin acc.pending
    <3>1. h[k].out = acc.out
      BY <2>1, <2>5 DEF RepairStep
    <3>2. 1..(k-1) \subseteq 1..k
      BY <1>2
    <3>3. Drawn(acc.out, s, 1..k)
      BY <2>2, <3>2 DEF Drawn
    <3> QED BY <2>1, <2>2, <3>1, <3>3
  <2>6. CASE ~Result(m)
    <3> DEFINE closed == acc.out \o Stubs(acc.pending)
    <3>1. h[k].out = Append(closed, m)
      BY <2>1, <2>2, <2>6, RepairSteps
    <3>2. closed \in Seq(Kept) /\ ResultsFollow(closed)
      BY <2>2, StubsAnswer DEF Paired
    <3>3. Drawn(closed, s, 1..(k-1))
      BY <2>2, DrawnStubs
    <3>4. Ordered(closed)
      <4> DEFINE t == Stubs(acc.pending)
      <4>1. t \in Seq(Kept) /\ Ordered(t) /\ \A q \in DOMAIN t : t[q].role = "stub" /\ t[q].id \in acc.pending
        BY <2>2, StubsOrdered
      <4> HIDE DEF t
      <4>2. \A p \in DOMAIN acc.out, q \in DOMAIN t : Before(acc.out[p], t[q])
        BY <2>2, <4>1, PendingStub
      <4>3. Ordered(acc.out \o t)
        BY <2>2, <4>1, <4>2, OrderedJoin
      <4> QED BY <4>3 DEF t
    <3> HIDE DEF closed
    <3>5. \A p \in DOMAIN closed : Before(closed[p], m)
      BY <2>1, <3>2, <3>3, DrawnNext
    <3>6. Ordered(Append(closed, m))
      BY <2>1, <2>3, <3>2, <3>4, <3>5, OrderedAppend
    <3>7. Drawn(Append(closed, m), s, 1..k)
      BY <2>1, <3>2, <3>3, DrawnAppend
    <3> QED BY <2>1, <3>1, <3>6, <3>7
  <2> QED BY <2>4, <2>5, <2>6
<1>5. Len(s) \in T
  <2> HIDE DEF T
  <2> QED BY <1>2, <1>3, <1>4, Upto
<1> QED BY <1>1, <1>2, <1>5

LEMMA RepairAll ==
  ASSUME NEW s \in Seq(Kept), NEW j \in DOMAIN s, ~Result(s[j])
  PROVE  s[j] \in Range(Repair(s, FALSE))
<1>1. PICK h : /\ \A k \in 1..Len(s) : h[k] = RepairStep(h[k-1], s[k])
               /\ \A k \in 0..Len(s) : h[k] \in Repairing /\ Paired(h[k].out, h[k].pending)
               /\ Repair(s, FALSE) = h[Len(s)].out
  BY RepairRun
<1> DEFINE T == {k \in 0..Len(s) : k >= j => s[j] \in Range(h[k].out)}
<1>2. Len(s) \in Nat /\ DOMAIN s = 1..Len(s) /\ j >= 1 /\ j <= Len(s) /\ j \in Nat
  OBVIOUS
<1>3. 0 \in T
  BY <1>2
<1>4. ASSUME NEW k \in 1..Len(s), k - 1 \in T PROVE k \in T
  <2> DEFINE closed == h[k-1].out \o Stubs(h[k-1].pending)
  <2>1. /\ k \in DOMAIN s /\ k \in 0..Len(s) /\ k - 1 \in 0..Len(s) /\ s[k] \in Kept
        /\ h[k] = RepairStep(h[k-1], s[k])
    BY <1>1, <1>2
  <2>2. /\ h[k-1] \in Repairing /\ h[k-1].out \in Seq(Kept) /\ h[k-1].pending \in SUBSET Ids
        /\ (k - 1 >= j => s[j] \in Range(h[k-1].out))
    BY <1>1, <1>4, <2>1 DEF Repairing
  <2>3. Range(closed) = Range(h[k-1].out) \union Range(Stubs(h[k-1].pending)) /\ closed \in Seq(Kept)
    BY <2>2, StubsAre, RangeJoin, Joins
  <2>4. (Result(s[k]) /\ h[k].out = h[k-1].out) \/ h[k].out = Append(h[k-1].out, s[k]) \/ h[k].out = Append(closed, s[k])
    BY <2>1, <2>2, RepairSteps
  <2> HIDE DEF closed
  <2>5. /\ Range(Append(h[k-1].out, s[k])) = Range(h[k-1].out) \union {s[k]}
        /\ Range(Append(closed, s[k])) = Range(closed) \union {s[k]}
    BY <2>1, <2>2, <2>3, RangeAppend
  <2>6. k >= j => k - 1 >= j \/ k = j
    BY <1>2
  <2>7. k >= j => s[j] \in Range(h[k].out)
    <3> HIDE DEF T
    <3> QED BY <2>2, <2>3, <2>4, <2>5, <2>6
  <2> QED BY <2>1, <2>7
<1>5. Len(s) \in T
  <2> HIDE DEF T
  <2> QED BY <1>2, <1>3, <1>4, Upto
<1> QED BY <1>1, <1>2, <1>5

\* In a repaired history a result has its identity for itself.
LEMMA ResultsUnique ==
  ASSUME NEW out \in Seq(Kept), NEW pending, Paired(out, pending), Ordered(out),
         NEW p \in DOMAIN out, NEW q \in DOMAIN out, Result(out[p]), Result(out[q]), out[p].id = out[q].id
  PROVE  p = q
<1> DEFINE c == out[p].id
<1>1. PICK i \in DOMAIN out : Follows(out, i, p)
  BY DEF Paired, ResultsFollow
<1>2. PICK j \in DOMAIN out : Follows(out, j, q)
  BY DEF Paired, ResultsFollow
<1>3. /\ out[i].role = "assistant" /\ c \in out[i].refs
      /\ out[j].role = "assistant" /\ c \in out[j].refs
  BY <1>1, <1>2 DEF Follows, Answers
<1>4. i < j \/ j < i \/ i = j
  OBVIOUS
<1>5. i = j
  BY <1>3, <1>4 DEF Ordered, Before
<1>6. NoAnswer(out, i, c) \/ OneAnswer(out, i, c)
  BY <1>3 DEF Paired, CallsAnswered
<1>7. ~NoAnswer(out, i, c)
  BY <1>1 DEF NoAnswer
<1>8. OneAnswer(out, i, c)
  BY <1>6, <1>7
<1> QED BY <1>1, <1>2, <1>5, <1>8 DEF OneAnswer

(***************************************************************************)
(* A result and the assistant message it is attached to.                   *)
(***************************************************************************)
At(msgs, i, k) ==
  /\ i \in DOMAIN msgs /\ k \in DOMAIN msgs
  /\ msgs[k].role = "tool" /\ Follows(msgs, i, k)
  /\ \A h \in i+1..k-1 : msgs[h].id # msgs[k].id

HasPair(out, a, t) == \E p, q \in DOMAIN out : At(out, p, q) /\ out[p] = a /\ out[q] = t

\* a is in out, and behind it only results of other calls than c.
Waits(out, a, c) ==
  \E p \in DOMAIN out : out[p] = a /\ \A h \in p+1..Len(out) : Result(out[h]) /\ out[h].id # c

LEMMA AttachedIs ==
  ASSUME NEW msgs \in Seq(Kept)
  PROVE  \A c : c \in Attached(msgs) <=> \E i, k \in DOMAIN msgs : At(msgs, i, k) /\ msgs[k].id = c
BY DEF Attached, At

\* What lies between the two moves with them.
LEMMA AtShift ==
  ASSUME NEW s \in Seq(Kept), NEW t \in Seq(Kept), NEW i, NEW k, At(s, i, k), NEW d \in Int,
         \A h \in i..k : h + d \in DOMAIN t /\ t[h + d] = s[h]
  PROVE  HasPair(t, s[i], s[k])
<1>1. /\ i \in Nat /\ k \in Nat /\ i < k
      /\ s[k].role = "tool" /\ s[i].role = "assistant" /\ Result(s[k]) /\ s[k].id \in s[i].refs
      /\ \A h \in i+1..k : Result(s[h])
      /\ \A h \in i+1..k-1 : s[h].id # s[k].id
  BY DEF At, Follows, Answers
<1>0. i \in Nat /\ k \in Nat /\ i < k
  BY <1>1
<1>2. i \in i..k /\ k \in i..k
  BY <1>0
<1>3. i + d \in DOMAIN t /\ k + d \in DOMAIN t /\ t[i + d] = s[i] /\ t[k + d] = s[k]
  BY <1>2
<1>4. \A g \in (i+d)+1..(k+d) : Result(t[g])
  <2> TAKE g \in (i+d)+1..(k+d)
  <2>1. g - d \in i+1..k /\ g - d \in i..k /\ (g - d) + d = g
    BY <1>0
  <2> QED BY <1>1, <2>1
<1>5. \A g \in (i+d)+1..(k+d)-1 : t[g].id # s[k].id
  <2> TAKE g \in (i+d)+1..(k+d)-1
  <2>1. g - d \in i+1..k-1 /\ g - d \in i..k /\ (g - d) + d = g
    BY <1>0
  <2> QED BY <1>1, <2>1
<1>6. i + d < k + d
  BY <1>1
<1>7. At(t, i + d, k + d)
  BY <1>1, <1>3, <1>4, <1>5, <1>6 DEF At, Follows, Answers
<1> QED BY <1>3, <1>7 DEF HasPair

LEMMA PairJoinLeft ==
  ASSUME NEW s \in Seq(Kept), NEW x \in Seq(Kept), NEW a, NEW t, HasPair(s, a, t)
  PROVE  HasPair(s \o x, a, t)
<1>1. PICK i \in DOMAIN s, k \in DOMAIN s : At(s, i, k) /\ s[i] = a /\ s[k] = t
  BY DEF HasPair
<1>2. s \o x \in Seq(Kept) /\ \A p \in DOMAIN s : p \in DOMAIN (s \o x) /\ (s \o x)[p] = s[p]
  BY JoinedAt, Joins
<1> DEFINE new == s \o x
<1> HIDE DEF new
<1>3. \A h \in i..k : h + 0 \in DOMAIN new /\ new[h + 0] = s[h]
  <2> TAKE h \in i..k
  <2>1. h \in DOMAIN s /\ h + 0 = h
    OBVIOUS
  <2> QED BY <1>2, <2>1 DEF new
<1>4. new \in Seq(Kept) /\ 0 \in Int
  BY <1>2 DEF new
<1>5. HasPair(new, s[i], s[k])
  BY <1>1, <1>3, <1>4, AtShift
<1> QED BY <1>1, <1>5 DEF new

LEMMA PairJoinRight ==
  ASSUME NEW s \in Seq(Kept), NEW x \in Seq(Kept), NEW a, NEW t, HasPair(s, a, t)
  PROVE  HasPair(x \o s, a, t)
<1>1. PICK i \in DOMAIN s, k \in DOMAIN s : At(s, i, k) /\ s[i] = a /\ s[k] = t
  BY DEF HasPair
<1> DEFINE new == x \o s
           d == Len(x)
<1>2. new \in Seq(Kept) /\ d \in Int /\ \A q \in DOMAIN s : d + q \in DOMAIN new /\ new[d + q] = s[q]
  BY JoinedAt, Joins
<1> HIDE DEF new, d
<1>3. \A h \in i..k : h + d \in DOMAIN new /\ new[h + d] = s[h]
  <2> TAKE h \in i..k
  <2>1. h \in DOMAIN s /\ h + d = d + h
    BY <1>2
  <2> QED BY <1>2, <2>1
<1>5. HasPair(new, s[i], s[k])
  BY <1>1, <1>2, <1>3, AtShift
<1> QED BY <1>1, <1>5 DEF new

LEMMA PairAppend ==
  ASSUME NEW s \in Seq(Kept), NEW m \in Kept, NEW a, NEW t, HasPair(s, a, t)
  PROVE  HasPair(Append(s, m), a, t)
<1> DEFINE x == <<m>>
<1>1. x \in Seq(Kept) /\ s \o x = Append(s, m)
  OBVIOUS
<1> HIDE DEF x
<1> QED BY <1>1, PairJoinLeft

LEMMA WaitsStart ==
  ASSUME NEW s \in Seq(Kept), NEW a \in Kept, NEW c
  PROVE  Waits(Append(s, a), a, c)
<1> DEFINE new == Append(s, a)
           p == Len(s) + 1
<1>1. p \in DOMAIN new /\ new[p] = a /\ Len(new) = p /\ p \in Nat
  BY Appends
<1> HIDE DEF new, p
<1>2. \A h \in p+1..Len(new) : FALSE
  BY <1>1
<1>3. Waits(new, a, c)
  BY <1>1, <1>2 DEF Waits
<1> QED BY <1>3 DEF new

LEMMA WaitsOn ==
  ASSUME NEW s \in Seq(Kept), NEW a, NEW c, Waits(s, a, c), NEW m \in Kept, Result(m), m.id # c
  PROVE  Waits(Append(s, m), a, c)
<1> DEFINE new == Append(s, m)
<1>1. PICK p \in DOMAIN s : s[p] = a /\ \A h \in p+1..Len(s) : Result(s[h]) /\ s[h].id # c
  BY DEF Waits
<1>2. /\ DOMAIN new = 1..(Len(s) + 1) /\ Len(new) = Len(s) + 1 /\ DOMAIN s = 1..Len(s) /\ Len(s) \in Nat
      /\ \A h \in 1..Len(s) : new[h] = s[h]
      /\ new[Len(s) + 1] = m
  BY Appends
<1> HIDE DEF new
<1>3. p \in DOMAIN new /\ new[p] = a
  BY <1>1, <1>2
<1>4. \A h \in p+1..Len(new) : Result(new[h]) /\ new[h].id # c
  <2> TAKE h \in p+1..Len(new)
  <2>1. CASE h = Len(s) + 1
    BY <1>2, <2>1
  <2>2. CASE h # Len(s) + 1
    <3>1. h \in p+1..Len(s) /\ h \in 1..Len(s)
      BY <1>2, <2>2
    <3> QED BY <1>1, <1>2, <3>1
  <2> QED BY <2>1, <2>2
<1>5. Waits(new, a, c)
  BY <1>3, <1>4 DEF Waits
<1> QED BY <1>5 DEF new

LEMMA PairCloses ==
  ASSUME NEW s \in Seq(Kept), NEW a, NEW t \in Kept, Waits(s, a, t.id),
         a.role = "assistant", t.role = "tool", t.id \in a.refs
  PROVE  HasPair(Append(s, t), a, t)
<1> DEFINE new == Append(s, t)
           q == Len(s) + 1
<1>1. PICK p \in DOMAIN s : s[p] = a /\ \A h \in p+1..Len(s) : Result(s[h]) /\ s[h].id # t.id
  BY DEF Waits
<1>2. /\ DOMAIN new = 1..q /\ DOMAIN s = 1..Len(s) /\ Len(s) \in Nat /\ q = Len(s) + 1
      /\ \A h \in 1..Len(s) : new[h] = s[h]
      /\ new[q] = t
  BY Appends
<1> HIDE DEF new, q
<1>3. p \in DOMAIN new /\ q \in DOMAIN new /\ new[p] = a /\ p < q /\ Result(t)
  BY <1>1, <1>2 DEF Result
<1>4. \A h \in p+1..q-1 : Result(new[h]) /\ new[h].id # t.id
  <2> TAKE h \in p+1..q-1
  <2>1. h \in p+1..Len(s) /\ h \in 1..Len(s)
    BY <1>2
  <2> QED BY <1>1, <1>2, <2>1
<1>5. \A h \in p+1..q : Result(new[h])
  <2> TAKE h \in p+1..q
  <2>1. h = q \/ h \in p+1..q-1
    BY <1>2
  <2> QED BY <1>2, <1>3, <1>4, <2>1
<1>6. At(new, p, q)
  BY <1>2, <1>3, <1>4, <1>5 DEF At, Follows, Answers
<1>7. HasPair(new, a, t)
  BY <1>2, <1>3, <1>6 DEF HasPair
<1> QED BY <1>7 DEF new

\* A pass over s that keeps an assistant message, and behind it at most results up to
\* one of its own, which it keeps too.
LEMMA Tracked ==
  ASSUME NEW s \in Seq(Kept), NEW i, NEW k, At(s, i, k), NEW o,
         \A j \in 0..Len(s) : o[j] \in Seq(Kept),
         \E x \in Seq(Kept) : o[i] = Append(x, s[i]),
         \A j \in i+1..k-1 : o[j] = o[j-1] \/ o[j] = Append(o[j-1], s[j]),
         o[k] = Append(o[k-1], s[k]),
         \A j \in k+1..Len(s) : \E x \in Seq(Kept) : o[j] = o[j-1] \o x
  PROVE  HasPair(o[Len(s)], s[i], s[k])
<1> DEFINE c == s[k].id
           T == {j \in 0..Len(s) : /\ i <= j /\ j < k => Waits(o[j], s[i], c)
                                   /\ k <= j => HasPair(o[j], s[i], s[k])}
<1>1. /\ i \in Nat /\ k \in Nat /\ i < k /\ 1 <= i /\ k <= Len(s) /\ Len(s) \in Nat
      /\ s[k].role = "tool" /\ s[i].role = "assistant" /\ c \in s[i].refs
      /\ \A h \in i+1..k-1 : Result(s[h]) /\ s[h].id # c
      /\ \A h \in 1..Len(s) : s[h] \in Kept
  <2>1. /\ i \in DOMAIN s /\ k \in DOMAIN s /\ i < k
        /\ s[k].role = "tool" /\ s[i].role = "assistant" /\ c \in s[i].refs
        /\ \A h \in i+1..k : Result(s[h])
        /\ \A h \in i+1..k-1 : s[h].id # c
    BY DEF At, Follows, Answers
  <2>2. /\ Len(s) \in Nat /\ DOMAIN s = 1..Len(s) /\ \A h \in 1..Len(s) : s[h] \in Kept
    OBVIOUS
  <2>3. i \in Nat /\ k \in Nat /\ 1 <= i /\ k <= Len(s)
    <3> HIDE DEF c
    <3> QED BY <2>1, <2>2
  <2>4. \A h \in i+1..k-1 : Result(s[h])
    <3>1. \A h \in i+1..k-1 : h \in i+1..k
      BY <2>3
    <3> QED BY <3>1, <2>1
  <2> QED BY <2>1, <2>2, <2>3, <2>4
<1>2. 0 \in T
  BY <1>1
<1>3. ASSUME NEW j \in 1..Len(s), j - 1 \in T PROVE j \in T
  <2>0. j \in 0..Len(s) /\ j - 1 \in 0..Len(s)
    OBVIOUS
  <2>1. /\ j \in 0..Len(s) /\ j - 1 \in 0..Len(s) /\ s[j] \in Kept
        /\ o[j] \in Seq(Kept) /\ o[j-1] \in Seq(Kept)
    BY <2>0
  <2>2. CASE j < i
    BY <1>1, <2>1, <2>2
  <2>3. CASE j = i
    <3>1. Waits(o[j], s[i], c)
      BY <1>1, <2>1, <2>3, WaitsStart
    <3> QED BY <1>1, <2>1, <2>3, <3>1
  <2>4. CASE i < j /\ j < k
    <3>1. j \in i+1..k-1 /\ Waits(o[j-1], s[i], c)
      BY <1>1, <1>3, <2>1, <2>4
    <3>2. Result(s[j]) /\ s[j].id # c
      BY <1>1, <3>1
    <3>3. Waits(o[j], s[i], c)
      BY <2>1, <3>1, <3>2, WaitsOn
    <3> QED BY <1>1, <2>1, <2>4, <3>3
  <2>5. CASE j = k
    <3>1. Waits(o[k-1], s[i], c) /\ s[k] \in Kept /\ o[k-1] \in Seq(Kept)
      BY <1>1, <1>3, <2>1, <2>5
    <3>2. HasPair(o[k], s[i], s[k])
      BY <1>1, <3>1, PairCloses
    <3>3. ~ (j < k)
      <4>1. k \in Nat
        BY <1>1
      <4> QED BY <2>5, <4>1
    <3>4. HasPair(o[j], s[i], s[k])
      BY <2>5, <3>2
    <3> QED BY <2>0, <3>3, <3>4
  <2>6. CASE k < j
    <3>1. j \in k+1..Len(s) /\ HasPair(o[j-1], s[i], s[k])
      BY <1>1, <1>3, <2>1, <2>6
    <3>2. PICK x \in Seq(Kept) : o[j] = o[j-1] \o x
      BY <3>1
    <3>3. HasPair(o[j], s[i], s[k])
      BY <2>1, <3>1, <3>2, PairJoinLeft
    <3> QED BY <1>1, <2>1, <2>6, <3>3
  <2>7. j < i \/ j = i \/ (i < j /\ j < k) \/ j = k \/ k < j
    BY <1>1
  <2> QED BY <2>2, <2>3, <2>4, <2>5, <2>6, <2>7
<1>4. Len(s) \in T
  <2> HIDE DEF T
  <2> QED BY <1>1, <1>2, <1>3, Upto
<1> QED BY <1>1, <1>4

(***************************************************************************)
(* Filters, trimming and repairing do not part the two.                    *)
(***************************************************************************)
LEMMA NotPresent ==
  ASSUME NEW s \in Seq(Kept), Ordered(s), NEW k \in DOMAIN s, s[k].role = "tool",
         NEW out \in Seq(Kept), Drawn(out, s, (DOMAIN s) \ {k})
  PROVE  s[k].id \notin Present(out)
<1> SUFFICES ASSUME s[k].id \in Present(out) PROVE FALSE
  OBVIOUS
<1>1. PICK p \in DOMAIN out : out[p].role # "stub" /\ out[p].id = s[k].id
  BY DEF Present, Range
<1>2. PICK j \in (DOMAIN s) \ {k} : out[p] = s[j]
  BY <1>1 DEF Drawn
<1>3. j < k \/ k < j
  OBVIOUS
<1>4. s[k] \in Kept /\ s[j] \in Kept
  OBVIOUS
<1>5. s[k].id \in Ids /\ Real(s[k])
  BY <1>4 DEF Kept, Real
<1>6. Real(s[j])
  <2>1. 0 \notin Ids
    BY HistoryAssumption DEF Ids
  <2> QED BY <1>1, <1>2, <1>4, <1>5, <2>1 DEF Kept, Real
<1> QED BY <1>1, <1>2, <1>3, <1>5, <1>6 DEF Ordered, Before

LEMMA OnlyKeeps ==
  ASSUME NEW s \in Seq(Kept), NEW roles, {"assistant", "tool", "stub"} \subseteq roles,
         NEW i, NEW k, At(s, i, k)
  PROVE  HasPair(Only(s, roles), s[i], s[k])
<1>1. PICK h : /\ h[0] = <<>>
               /\ \A j \in 1..Len(s) : h[j] = OnlyStep(roles, h[j-1], s[j])
               /\ Only(s, roles) = h[Len(s)]
  BY OnlyFold
<1>2. /\ i \in 1..Len(s) /\ k \in 1..Len(s) /\ Len(s) \in Nat /\ i < k
      /\ s[k].role = "tool" /\ s[i].role = "assistant" /\ \A j \in i+1..k : Result(s[j])
  BY DEF At, Follows, Answers
<1> DEFINE T == {j \in 0..Len(s) : h[j] \in Seq(Kept)}
<1>3. \A j \in 0..Len(s) : h[j] \in Seq(Kept)
  <2>1. 0 \in T
    <3>1. <<>> \in Seq(Kept) /\ 0 \in 0..Len(s)
      BY <1>2
    <3> QED BY <1>1, <3>1
  <2>2. ASSUME NEW j \in 1..Len(s), j - 1 \in T PROVE j \in T
    <3>1. s[j] \in Kept /\ j \in 0..Len(s) /\ h[j-1] \in Seq(Kept) /\ h[j] = OnlyStep(roles, h[j-1], s[j])
      BY <1>1, <1>2, <2>2
    <3> QED BY <3>1, OnlyStepTyped
  <2>3. \A j \in 0..Len(s) : j \in T
    <3> HIDE DEF T
    <3> QED BY <1>2, <2>1, <2>2, Throughout
  <2> QED BY <2>3
<1>4. \A j \in i+1..k : j \in 1..Len(s) /\ s[j].role \in roles
  <2> TAKE j \in i+1..k
  <2>1. j \in 1..Len(s)
    BY <1>2
  <2>2. Result(s[j])
    BY <1>2
  <2> QED BY <2>1, <2>2 DEF Result
<1>5. \E x \in Seq(Kept) : h[i] = Append(x, s[i])
  <2>1. i - 1 \in 0..Len(s)
    BY <1>2
  <2>2. h[i] = Append(h[i-1], s[i])
    BY <1>1, <1>2 DEF OnlyStep
  <2> QED BY <1>3, <2>1, <2>2
<1>6. \A j \in i+1..k : h[j] = Append(h[j-1], s[j])
  BY <1>1, <1>4 DEF OnlyStep
<1>7. \A j \in i+1..k-1 : h[j] = h[j-1] \/ h[j] = Append(h[j-1], s[j])
  <2> TAKE j \in i+1..k-1
  <2>1. j \in i+1..k
    BY <1>2
  <2> QED BY <1>6, <2>1
<1>8. h[k] = Append(h[k-1], s[k])
  <2>1. k \in i+1..k
    BY <1>2
  <2> QED BY <1>6, <2>1
<1>9. \A j \in k+1..Len(s) : \E x \in Seq(Kept) : h[j] = h[j-1] \o x
  <2> TAKE j \in k+1..Len(s)
  <2>1. j \in 1..Len(s) /\ j - 1 \in 0..Len(s)
    BY <1>2
  <2>2. s[j] \in Kept /\ h[j-1] \in Seq(Kept) /\ h[j] = OnlyStep(roles, h[j-1], s[j])
    BY <1>1, <1>3, <2>1
  <2>3. /\ <<s[j]>> \in Seq(Kept) /\ h[j-1] \o <<s[j]>> = Append(h[j-1], s[j])
        /\ <<>> \in Seq(Kept) /\ h[j-1] \o <<>> = h[j-1]
    BY <2>2
  <2> QED BY <2>2, <2>3 DEF OnlyStep
<1>10. HasPair(h[Len(s)], s[i], s[k])
  BY <1>3, <1>5, <1>7, <1>8, <1>9, Tracked
<1> QED BY <1>1, <1>10

\* Repairing keeps every result that is attached.
LEMMA RepairKeeps ==
  ASSUME NEW s \in Seq(Kept), NEW i, NEW k, At(s, i, k)
  PROVE  HasPair(Repair(s, FALSE), s[i], s[k])
<1>1. PICK h : /\ \A j \in 1..Len(s) : h[j] = RepairStep(h[j-1], s[j])
               /\ \A j \in 0..Len(s) : h[j] \in Repairing /\ Paired(h[j].out, h[j].pending)
               /\ Repair(s, FALSE) = h[Len(s)].out
  BY RepairRun
<1> DEFINE c == s[k].id
           o == [j \in 0..Len(s) |-> h[j].out]
<1>2. /\ i \in 1..Len(s) /\ k \in 1..Len(s) /\ Len(s) \in Nat /\ i < k
      /\ s[k].role = "tool" /\ s[i].role = "assistant" /\ c \in s[i].refs
      /\ \A j \in i+1..k : Result(s[j])
      /\ \A j \in i+1..k-1 : s[j].id # c
  BY DEF At, Follows, Answers
<1>3. \A j \in 0..Len(s) : o[j] = h[j].out /\ o[j] \in Seq(Kept) /\ h[j].pending \in SUBSET Ids
  BY <1>1 DEF Repairing
<1>4. ASSUME NEW j \in 1..Len(s)
      PROVE  /\ j \in 0..Len(s) /\ j - 1 \in 0..Len(s) /\ s[j] \in Kept
             /\ h[j] = RepairStep(h[j-1], s[j]) /\ h[j-1] \in Repairing
  BY <1>1, <1>2
<1>5. ~Result(s[i]) /\ h[i].pending = s[i].refs
  <2>1. ~Result(s[i])
    BY <1>2 DEF Result
  <2>2. h[i] = RepairStep(h[i-1], s[i])
    BY <1>2, <1>4
  <2> QED BY <1>2, <2>1, <2>2 DEF RepairStep
<1>6. \A j \in i..k-1 : c \in h[j].pending
  <2> DEFINE T == {j \in 0..(k-1) : i <= j => c \in h[j].pending}
  <2>1. k - 1 \in Nat /\ 0 \in T
    BY <1>2
  <2>2. ASSUME NEW j \in 1..(k-1), j - 1 \in T PROVE j \in T
    <3>1. j \in 0..(k-1) /\ j \in 1..Len(s)
      BY <1>2
    <3>2. CASE j = i
      BY <1>2, <1>5, <3>1, <3>2
    <3>3. CASE i < j
      <4>1. j \in i+1..k-1 /\ j \in i+1..k /\ i <= j - 1
        BY <1>2, <3>3
      <4>2. c \in h[j-1].pending
        BY <2>2, <4>1
      <4>3. Result(s[j]) /\ s[j].id # c
        BY <1>2, <4>1
      <4>4. h[j] = RepairStep(h[j-1], s[j])
        BY <1>4, <3>1
      <4>5. c \in h[j].pending
        BY <4>2, <4>3, <4>4 DEF RepairStep
      <4> QED BY <3>1, <4>5
    <3>4. CASE j < i
      BY <1>2, <3>1, <3>4
    <3> QED BY <1>2, <3>2, <3>3, <3>4
  <2>3. \A j \in 0..(k-1) : j \in T
    <3> HIDE DEF T
    <3> QED BY <2>1, <2>2, Throughout
  <2> TAKE j \in i..k-1
  <2>4. j \in 0..(k-1) /\ i <= j
    BY <1>2
  <2> QED BY <2>3, <2>4
<1>7. \E x \in Seq(Kept) : o[i] = Append(x, s[i])
  <2>1. i \in 0..Len(s) /\ i - 1 \in 0..Len(s) /\ s[i] \in Kept
        /\ h[i] = RepairStep(h[i-1], s[i]) /\ h[i-1] \in Repairing
    BY <1>2, <1>4
  <2> QED BY <1>3, <1>5, <2>1, RepairSteps
<1>8. \A j \in i+1..k-1 : o[j] = o[j-1] \/ o[j] = Append(o[j-1], s[j])
  <2> TAKE j \in i+1..k-1
  <2>1. j \in 1..Len(s) /\ j \in i+1..k
    BY <1>2
  <2>2. Result(s[j])
    BY <1>2, <2>1
  <2>3. /\ j \in 0..Len(s) /\ j - 1 \in 0..Len(s) /\ s[j] \in Kept
        /\ h[j] = RepairStep(h[j-1], s[j]) /\ h[j-1] \in Repairing
    BY <1>4, <2>1
  <2>4. o[j] = h[j].out /\ o[j-1] = h[j-1].out
    BY <1>3, <2>3
  <2> HIDE DEF o
  <2> QED BY <2>2, <2>3, <2>4, RepairSteps
<1>9. o[k] = Append(o[k-1], s[k])
  <2>1. k - 1 \in i..k-1 /\ k \in i+1..k
    BY <1>2
  <2>2. Result(s[k]) /\ s[k].id \in h[k-1].pending
    BY <1>2, <1>6, <2>1
  <2>3. /\ k \in 0..Len(s) /\ k - 1 \in 0..Len(s) /\ s[k] \in Kept
        /\ h[k] = RepairStep(h[k-1], s[k]) /\ h[k-1] \in Repairing
    BY <1>2, <1>4
  <2>4. o[k] = h[k].out /\ o[k-1] = h[k-1].out
    BY <1>3, <2>3
  <2> HIDE DEF o
  <2> QED BY <2>2, <2>3, <2>4, RepairSteps
<1>10. \A j \in k+1..Len(s) : \E x \in Seq(Kept) : o[j] = o[j-1] \o x
  <2> TAKE j \in k+1..Len(s)
  <2>1. j \in 1..Len(s)
    BY <1>2
  <2>2. /\ j \in 0..Len(s) /\ j - 1 \in 0..Len(s) /\ s[j] \in Kept
        /\ h[j] = RepairStep(h[j-1], s[j]) /\ h[j-1] \in Repairing
    BY <1>4, <2>1
  <2>3. o[j] = h[j].out /\ o[j-1] = h[j-1].out /\ o[j-1] \in Seq(Kept) /\ h[j-1].pending \in SUBSET Ids
    BY <1>3, <2>2
  <2> DEFINE a == o[j-1]
             t == Stubs(h[j-1].pending)
             m == s[j]
  <2>4. t \in Seq(Kept) /\ a \in Seq(Kept) /\ m \in Kept
    BY <2>2, <2>3, StubsAre
  <2>5. o[j] = a \/ o[j] = Append(a, m) \/ o[j] = Append(a \o t, m)
    <3> HIDE DEF o
    <3> QED BY <2>2, <2>3, RepairSteps
  <2> HIDE DEF a, t, m
  <2>6. /\ <<>> \in Seq(Kept) /\ a \o <<>> = a
        /\ <<m>> \in Seq(Kept) /\ a \o <<m>> = Append(a, m)
        /\ Append(t, m) \in Seq(Kept) /\ a \o Append(t, m) = Append(a \o t, m)
    BY <2>4
  <2>7. \E x \in Seq(Kept) : o[j] = a \o x
    BY <2>5, <2>6
  <2> QED BY <2>7 DEF a
<1>11. \A j \in 0..Len(s) : o[j] \in Seq(Kept)
  BY <1>3
<1>12. o[Len(s)] = Repair(s, FALSE)
  <2>1. Len(s) \in 0..Len(s)
    BY <1>2
  <2>2. o[Len(s)] = h[Len(s)].out
    BY <1>3, <2>1
  <2> HIDE DEF o
  <2> QED BY <1>1, <2>2
<1> HIDE DEF o
<1>13. HasPair(o[Len(s)], s[i], s[k])
  BY <1>7, <1>8, <1>9, <1>10, <1>11, Tracked
<1> QED BY <1>12, <1>13

\* With a message that goes, the results right behind it go too.
LEMMA TrimTakes ==
  ASSUME NEW acc \in Trimming, NEW m \in Kept, ~Protected(m)
  PROVE  /\ acc.toDrop > 0 /\ m.refs # {} => TrimStep(acc, m).tail = TRUE
         /\ acc.tail = TRUE /\ Result(m) =>
              TrimStep(acc, m).tail = TRUE /\ TrimStep(acc, m).out = acc.out
<1> DEFINE drops == (acc.tail /\ Result(m)) \/ acc.toDrop > 0
           left == IF acc.toDrop = 0 THEN 0 ELSE acc.toDrop - 1
           more == (acc.tail /\ Result(m)) \/ m.refs # {}
<1>1. drops => TrimStep(acc, m) = [out |-> acc.out, toDrop |-> left, tail |-> more]
  BY Zenon DEF TrimStep
<1> HIDE DEF left
<1>2. drops => TrimStep(acc, m).tail = more /\ TrimStep(acc, m).out = acc.out
  <2> HIDE DEF drops, more
  <2> QED BY <1>1
<1> QED BY <1>2, Zenon

\* Trimming takes both or leaves both.
LEMMA TrimKeeps ==
  ASSUME NEW s \in Seq(Kept), Ordered(s), NEW i, NEW k, At(s, i, k)
  PROVE  HasPair(Trim(s), s[i], s[k]) \/ s[k].id \notin Present(Trim(s))
<1>1. CASE Len(s) <= MaxMessages
  <2>1. Trim(s) = s
    BY <1>1 DEF Trim
  <2>2. i \in DOMAIN s /\ k \in DOMAIN s
    BY DEF At
  <2> QED BY <2>1, <2>2 DEF HasPair
<1>2. CASE Len(s) > MaxMessages
  <2>1. PICK h : /\ h[0].out = <<>>
                 /\ \A j \in 1..Len(s) : h[j] = TrimStep(h[j-1], s[j])
                 /\ \A j \in 0..Len(s) : h[j] \in Trimming
                 /\ Trim(s) = h[Len(s)].out
    BY <1>2, TrimRun
  <2> DEFINE o == [j \in 0..Len(s) |-> h[j].out]
  <2>2. /\ i \in 1..Len(s) /\ k \in 1..Len(s) /\ Len(s) \in Nat /\ i < k /\ DOMAIN s = 1..Len(s)
        /\ s[k].role = "tool" /\ s[i].role = "assistant" /\ s[k].id \in s[i].refs
        /\ \A j \in i+1..k : Result(s[j])
    BY DEF At, Follows, Answers
  <2>3. \A j \in 0..Len(s) : o[j] = h[j].out /\ o[j] \in Seq(Kept) /\ h[j].toDrop \in Nat
    BY <2>1 DEF Trimming
  <2>4. ASSUME NEW j \in 1..Len(s)
        PROVE  /\ j \in 0..Len(s) /\ j - 1 \in 0..Len(s) /\ s[j] \in Kept
               /\ h[j] = TrimStep(h[j-1], s[j]) /\ h[j-1] \in Trimming
    BY <2>1, <2>2
  <2>5. /\ ~Protected(s[i]) /\ ~Result(s[i]) /\ s[i].refs # {}
        /\ \A j \in i+1..k : ~Protected(s[j])
    BY <2>2 DEF Protected, Result
  <2>6. o[Len(s)] = Trim(s)
    <3>1. Len(s) \in 0..Len(s)
      BY <2>2
    <3>2. o[Len(s)] = h[Len(s)].out
      BY <2>3, <3>1
    <3> HIDE DEF o
    <3> QED BY <2>1, <3>2
  <2>7. i - 1 \in 0..Len(s) /\ h[i] = TrimStep(h[i-1], s[i]) /\ h[i-1] \in Trimming /\ s[i] \in Kept /\ i \in 0..Len(s)
    BY <2>2, <2>4
  <2> HIDE DEF o
  <2>8. CASE h[i-1].toDrop = 0
    <3>1. h[i].out = Append(h[i-1].out, s[i]) /\ h[i].toDrop = 0 /\ h[i].tail = FALSE
      BY <2>5, <2>7, <2>8 DEF TrimStep, Trimming
    <3> DEFINE T == {j \in 0..k : i <= j => h[j].toDrop = 0 /\ h[j].tail = FALSE}
    <3>2. k \in Nat /\ 0 \in T
      BY <2>2
    <3>3. ASSUME NEW j \in 1..k, j - 1 \in T PROVE j \in T
      <4>1. j \in 0..k /\ j \in 1..Len(s)
        BY <2>2
      <4>2. CASE j = i
        BY <3>1, <4>1, <4>2
      <4>3. CASE i < j
        <5>1. j \in i+1..k /\ i <= j - 1
          BY <2>2, <4>3
        <5>2. h[j-1].toDrop = 0 /\ h[j-1].tail = FALSE /\ h[j] = TrimStep(h[j-1], s[j]) /\ h[j-1] \in Trimming
          BY <2>4, <3>3, <4>1, <5>1
        <5>3. h[j].toDrop = 0 /\ h[j].tail = FALSE
          BY <5>2 DEF TrimStep, Trimming
        <5> QED BY <4>1, <5>3
      <4>4. CASE j < i
        BY <2>2, <4>1, <4>4
      <4>5. j < i \/ j = i \/ i < j
        BY <2>2
      <4> QED BY <4>2, <4>3, <4>4, <4>5
    <3>4. \A j \in 0..k : j \in T
      <4> HIDE DEF T
      <4> QED BY <3>2, <3>3, Throughout
    <3>5. \A j \in i+1..k : o[j] = Append(o[j-1], s[j])
      <4> TAKE j \in i+1..k
      <4>1. j \in 1..Len(s) /\ j - 1 \in 0..k /\ i <= j - 1
        BY <2>2
      <4>2. h[j-1].toDrop = 0 /\ h[j-1].tail = FALSE
        BY <3>4, <4>1
      <4>3. /\ j \in 0..Len(s) /\ j - 1 \in 0..Len(s)
            /\ h[j] = TrimStep(h[j-1], s[j]) /\ h[j-1] \in Trimming
        BY <2>4, <4>1
      <4>4. h[j].out = Append(h[j-1].out, s[j])
        BY <4>2, <4>3 DEF TrimStep, Trimming
      <4> QED BY <2>3, <4>3, <4>4
    <3>6. \E x \in Seq(Kept) : o[i] = Append(x, s[i])
      BY <2>3, <2>7, <3>1
    <3>7. \A j \in i+1..k-1 : o[j] = o[j-1] \/ o[j] = Append(o[j-1], s[j])
      <4> TAKE j \in i+1..k-1
      <4>1. j \in i+1..k
        BY <2>2
      <4> QED BY <3>5, <4>1
    <3>8. o[k] = Append(o[k-1], s[k])
      <4>1. k \in i+1..k
        BY <2>2
      <4> QED BY <3>5, <4>1
    <3>9. \A j \in k+1..Len(s) : \E x \in Seq(Kept) : o[j] = o[j-1] \o x
      <4> TAKE j \in k+1..Len(s)
      <4>1. j \in 1..Len(s)
        BY <2>2
      <4>2. /\ j \in 0..Len(s) /\ j - 1 \in 0..Len(s) /\ s[j] \in Kept
            /\ h[j] = TrimStep(h[j-1], s[j]) /\ h[j-1] \in Trimming
        BY <2>4, <4>1
      <4>3. o[j] = h[j].out /\ o[j-1] = h[j-1].out /\ o[j-1] \in Seq(Kept)
        BY <2>3, <4>2
      <4> DEFINE a == o[j-1]
                 m == s[j]
      <4>4. o[j] = a \/ o[j] = Append(a, m)
        BY <4>2, <4>3, TrimSteps
      <4>5. a \in Seq(Kept) /\ m \in Kept
        BY <4>2, <4>3
      <4> HIDE DEF a, m
      <4>6. <<>> \in Seq(Kept) /\ a \o <<>> = a /\ <<m>> \in Seq(Kept) /\ a \o <<m>> = Append(a, m)
        BY <4>5
      <4>7. \E x \in Seq(Kept) : o[j] = a \o x
        BY <4>4, <4>6
      <4> QED BY <4>7 DEF a
    <3>10. \A j \in 0..Len(s) : o[j] \in Seq(Kept)
      BY <2>3
    <3>11. HasPair(o[Len(s)], s[i], s[k])
      BY <3>6, <3>7, <3>8, <3>9, <3>10, Tracked
    <3> QED BY <2>6, <3>11
  <2>9. CASE h[i-1].toDrop > 0
    <3>1. h[i].tail = TRUE
      BY <2>5, <2>7, <2>9, TrimTakes
    <3> DEFINE T == {j \in 0..k : i <= j => h[j].tail = TRUE}
    <3>2. k \in Nat /\ 0 \in T
      BY <2>2
    <3>3. ASSUME NEW j \in 1..k, j - 1 \in T PROVE j \in T
      <4>1. j \in 0..k /\ j \in 1..Len(s)
        BY <2>2
      <4>2. CASE j = i
        BY <3>1, <4>1, <4>2
      <4>3. CASE i < j
        <5>1. j \in i+1..k /\ i <= j - 1
          BY <2>2, <4>3
        <5>2. /\ h[j-1].tail = TRUE /\ h[j] = TrimStep(h[j-1], s[j]) /\ h[j-1] \in Trimming
              /\ s[j] \in Kept /\ Result(s[j]) /\ ~Protected(s[j])
          BY <2>2, <2>4, <2>5, <3>3, <4>1, <5>1
        <5>4. h[j].tail = TRUE
          BY <5>2, TrimTakes
        <5> QED BY <4>1, <5>4
      <4>4. CASE j < i
        BY <2>2, <4>1, <4>4
      <4>5. j < i \/ j = i \/ i < j
        BY <2>2
      <4> QED BY <4>2, <4>3, <4>4, <4>5
    <3>4. \A j \in 0..k : j \in T
      <4> HIDE DEF T
      <4> QED BY <3>2, <3>3, Throughout
    <3>5. h[k].out = h[k-1].out
      <4>1. k - 1 \in 0..k /\ i <= k - 1 /\ k \in i+1..k
        BY <2>2
      <4>2. h[k-1].tail = TRUE
        BY <3>4, <4>1
      <4>3. h[k] = TrimStep(h[k-1], s[k]) /\ Result(s[k]) /\ ~Protected(s[k])
        BY <2>2, <2>4, <2>5, <4>1
      <4> QED BY <4>2, <4>3 DEF TrimStep
    <3> DEFINE P(j) == (1..j) \ {k}
               U == {j \in 0..Len(s) : Drawn(h[j].out, s, P(j))}
    <3>6. 0 \in U
      <4>1. 0 \in 0..Len(s)
        BY <2>2
      <4>2. Drawn(<<>>, s, P(0))
        BY DEF Drawn
      <4> QED BY <2>1, <4>1, <4>2
    <3>7. ASSUME NEW j \in 1..Len(s), j - 1 \in U PROVE j \in U
      <4>1. /\ j \in 0..Len(s) /\ j - 1 \in 0..Len(s) /\ s[j] \in Kept
            /\ h[j] = TrimStep(h[j-1], s[j]) /\ h[j-1] \in Trimming /\ h[j-1].out \in Seq(Kept)
        BY <2>3, <2>4
      <4>2. Drawn(h[j-1].out, s, P(j-1)) /\ P(j-1) \subseteq P(j)
        BY <2>2, <3>7
      <4>3. Drawn(h[j-1].out, s, P(j))
        BY <4>2 DEF Drawn
      <4>4. CASE h[j].out = h[j-1].out
        BY <4>1, <4>3, <4>4
      <4>5. CASE h[j].out = Append(h[j-1].out, s[j]) /\ j # k
        <5>1. j \in P(j)
          BY <2>2, <4>5
        <5> DEFINE new == Append(h[j-1].out, s[j])
                   a == h[j-1].out
        <5>2. /\ DOMAIN new = 1..(Len(a) + 1) /\ DOMAIN a = 1..Len(a) /\ Len(a) \in Nat
              /\ \A p \in 1..Len(a) : new[p] = a[p]
              /\ new[Len(a) + 1] = s[j]
          BY <4>1, Appends
        <5>3. Drawn(a, s, P(j))
          BY <4>3
        <5> HIDE DEF new, a, P
        <5>4. ASSUME NEW p \in DOMAIN new PROVE new[p].role = "stub" \/ \E q \in P(j) : new[p] = s[q]
          <6>1. CASE p \in DOMAIN a
            BY <5>2, <5>3, <6>1 DEF Drawn
          <6>2. CASE p = Len(a) + 1
            BY <5>1, <5>2, <6>2
          <6> QED BY <5>2, <6>1, <6>2
        <5>5. Drawn(new, s, P(j))
          BY <5>4 DEF Drawn
        <5> QED BY <4>1, <4>5, <5>5 DEF new
      <4>6. h[j].out = h[j-1].out \/ (h[j].out = Append(h[j-1].out, s[j]) /\ j # k)
        <5>1. CASE j = k
          BY <3>5, <5>1
        <5>2. CASE j # k
          BY <4>1, <5>2, TrimSteps
        <5> QED BY <5>1, <5>2
      <4> QED BY <4>4, <4>5, <4>6
    <3>8. Len(s) \in U
      <4> HIDE DEF U
      <4> QED BY <2>2, <3>6, <3>7, Upto
    <3>9. Drawn(Trim(s), s, (DOMAIN s) \ {k})
      BY <2>1, <2>2, <3>8
    <3>10. s[k].id \notin Present(Trim(s))
      BY <2>2, <3>9, TrimTyped, NotPresent
    <3> QED BY <3>10
  <2>10. h[i-1].toDrop = 0 \/ h[i-1].toDrop > 0
    BY <2>3, <2>7
  <2> QED BY <2>8, <2>9, <2>10
<1>3. Len(s) <= MaxMessages \/ Len(s) > MaxMessages
  BY HistoryAssumption
<1> QED BY <1>1, <1>2, <1>3

(***************************************************************************)
(* The invariant: the history is ordered, every identity it holds is       *)
(* below the next one, and the results of the open calls are not there yet.*)
(***************************************************************************)
Below(m, n) == m.id < n /\ (m.role = "assistant" => \A c \in m.refs : c < n)
Past(msgs, n) == \A p \in DOMAIN msgs : Below(msgs[p], n)

OrderOK == Ordered(chat) /\ Past(chat, next)
OpenOK == open \intersect Present(chat) = {} /\ \A c \in open : c < next
OInv == HInv /\ OrderOK /\ OpenOK

LEMMA KeptIs ==
  ASSUME NEW m \in Kept
  PROVE  /\ m.id \in Nat /\ m.refs \subseteq Nat
         /\ (m.role = "summary" <=> m.id = 0) /\ (m.role # "summary" <=> m.id \in Ids)
<1>1. Ids \subseteq Nat /\ 0 \notin Ids /\ 0..MaxIds \subseteq Nat
  BY HistoryAssumption DEF Ids
<1> QED BY <1>1 DEF Kept, Messages

LEMMA PastMore ==
  ASSUME NEW s \in Seq(Kept), NEW m \in Nat, NEW n \in Nat, m <= n, Past(s, m)
  PROVE  Past(s, n)
<1> SUFFICES ASSUME NEW p \in DOMAIN s PROVE Below(s[p], n)
  BY DEF Past
<1>1. s[p] \in Kept
  OBVIOUS
<1>2. s[p].id \in Nat /\ s[p].refs \subseteq Nat
  BY <1>1, KeptIs
<1>3. Below(s[p], m)
  BY DEF Past
<1>4. s[p].id < n
  BY <1>2, <1>3 DEF Below
<1>5. \A c \in s[p].refs : c < m => c < n
  <2> TAKE c \in s[p].refs
  <2>1. c \in Nat
    BY <1>2
  <2> QED BY <2>1
<1> QED BY <1>3, <1>4, <1>5 DEF Below

LEMMA FromDrawn ==
  ASSUME NEW out, NEW s, NEW places, From(out, s, places)
  PROVE  Drawn(out, s, places)
BY DEF From, Drawn

LEMMA DrawnPresent ==
  ASSUME NEW s, NEW out, Drawn(out, s, DOMAIN s)
  PROVE  Present(out) \subseteq Present(s)
<1> SUFFICES ASSUME NEW p \in DOMAIN out, out[p].role # "stub" PROVE out[p].id \in Present(s)
  BY DEF Present, Range
<1>1. PICK j \in DOMAIN s : out[p] = s[j]
  BY DEF Drawn
<1> QED BY <1>1 DEF Present, Range

LEMMA FromPast ==
  ASSUME NEW s, NEW out, From(out, s, DOMAIN s), NEW n, Past(s, n)
  PROVE  Past(out, n)
BY DEF From, Past

LEMMA DrawnPast ==
  ASSUME NEW s, NEW out \in Seq(Kept), Drawn(out, s, DOMAIN s), ResultsFollow(out), NEW n, Past(s, n)
  PROVE  Past(out, n)
<1> SUFFICES ASSUME NEW p \in DOMAIN out PROVE Below(out[p], n)
  BY DEF Past
<1>1. CASE \E j \in DOMAIN s : out[p] = s[j]
  BY <1>1 DEF Past
<1>2. CASE out[p].role = "stub"
  <2>1. PICK i \in DOMAIN out : Follows(out, i, p)
    BY <1>2 DEF ResultsFollow, Result
  <2>2. out[i].role = "assistant" /\ out[p].id \in out[i].refs
    BY <2>1 DEF Follows, Answers
  <2>3. PICK j \in DOMAIN s : out[i] = s[j]
    BY <2>2 DEF Drawn
  <2>4. Below(out[i], n)
    BY <2>3 DEF Past
  <2> QED BY <1>2, <2>2, <2>4 DEF Below
<1> QED BY <1>1, <1>2 DEF Drawn

LEMMA AppendPast ==
  ASSUME NEW s \in Seq(Kept), NEW m \in Kept, NEW n, Past(s, n), Below(m, n)
  PROVE  Past(Append(s, m), n)
<1> DEFINE new == Append(s, m)
<1>1. /\ DOMAIN new = 1..(Len(s) + 1) /\ DOMAIN s = 1..Len(s) /\ Len(s) \in Nat
      /\ \A p \in 1..Len(s) : new[p] = s[p]
      /\ new[Len(s) + 1] = m
  BY Appends
<1> HIDE DEF new
<1>2. \A p \in DOMAIN new : p \in DOMAIN s \/ p = Len(s) + 1
  BY <1>1
<1>3. Past(new, n)
  BY <1>1, <1>2 DEF Past
<1> QED BY <1>3 DEF new

LEMMA PresentAppend ==
  ASSUME NEW s \in Seq(Kept), NEW m \in Kept
  PROVE  Present(Append(s, m)) \subseteq Present(s) \union {m.id}
BY RangeAppend DEF Present

\* A message with a new identity may be put at the end.
LEMMA FreshOrdered ==
  ASSUME NEW s \in Seq(Kept), Ordered(s), NEW m \in Kept, m.id \in Nat, Past(s, m.id),
         m.role \in {"user", "report", "prompt", "assistant"}, \A c \in m.refs : c > m.id
  PROVE  Ordered(Append(s, m))
<1>1. ~Result(m) /\ m.role # "stub" /\ m.refs \subseteq Nat
  BY KeptIs DEF Result
<1>2. m.id \notin m.refs
  BY <1>1
<1>3. Apart(m, m)
  BY <1>1, <1>2 DEF Apart
<1>4. \A p \in DOMAIN s : Before(s[p], m)
  <2> TAKE p \in DOMAIN s
  <2>1. s[p] \in Kept
    OBVIOUS
  <2>2. s[p].id \in Nat /\ s[p].refs \subseteq Nat /\ Below(s[p], m.id)
    BY <2>1, KeptIs DEF Past
  <2>3. s[p].id # m.id /\ s[p].id \notin m.refs
    BY <1>1, <2>2 DEF Below
  <2>4. s[p].role = "assistant" => m.id \notin s[p].refs /\ s[p].refs \intersect m.refs = {}
    <3> SUFFICES ASSUME s[p].role = "assistant", NEW c \in s[p].refs PROVE c # m.id /\ c \notin m.refs
      OBVIOUS
    <3>1. c \in Nat /\ c < m.id
      BY <2>2 DEF Below
    <3> QED BY <1>1, <3>1
  <2> QED BY <1>1, <2>3, <2>4 DEF Before, Apart
<1> QED BY <1>3, <1>4, OrderedAppend

\* So may a result that is not there.
LEMMA ResultOrdered ==
  ASSUME NEW s \in Seq(Kept), Ordered(s), NEW m \in Kept, m.role = "tool", m.id \notin Present(s)
  PROVE  Ordered(Append(s, m))
<1>1. Result(m) /\ m.role # "stub"
  BY DEF Result
<1>2. Apart(m, m)
  BY <1>1 DEF Apart
<1>3. \A p \in DOMAIN s : Before(s[p], m)
  <2> TAKE p \in DOMAIN s
  <2>1. Real(s[p]) => s[p].id # m.id
    BY DEF Real, Present, Range
  <2> QED BY <1>1, <2>1 DEF Before, Apart
<1> QED BY <1>2, <1>3, OrderedAppend

(***************************************************************************)
(* What a compaction leaves is ordered, and of the messages of its range   *)
(* only those that are not compressible.                                   *)
(***************************************************************************)
LEMMA FromJoin ==
  ASSUME NEW s \in Seq(Kept), Ordered(s), NEW P \in SUBSET DOMAIN s, NEW Q \in SUBSET DOMAIN s,
         \A p \in P, q \in Q : p < q,
         NEW a \in Seq(Kept), NEW b \in Seq(Kept), Ordered(a), Ordered(b), From(a, s, P), From(b, s, Q)
  PROVE  Ordered(a \o b) /\ From(a \o b, s, P \union Q)
<1> DEFINE new == a \o b
           l == Len(a)
<1>1. \A p \in DOMAIN a, q \in DOMAIN b : Before(a[p], b[q])
  <2> TAKE p \in DOMAIN a, q \in DOMAIN b
  <2>1. PICK i \in P : a[p] = s[i]
    BY DEF From
  <2>2. PICK j \in Q : b[q] = s[j]
    BY DEF From
  <2>3. i < j /\ i \in DOMAIN s /\ j \in DOMAIN s
    OBVIOUS
  <2> QED BY <2>1, <2>2, <2>3 DEF Ordered
<1>2. Ordered(new)
  BY <1>1, OrderedJoin
<1>3. /\ \A p \in DOMAIN a : p \in DOMAIN new /\ new[p] = a[p]
      /\ \A q \in DOMAIN b : l + q \in DOMAIN new /\ new[l + q] = b[q]
      /\ \A p \in DOMAIN new : p \in DOMAIN a \/ \E q \in DOMAIN b : p = l + q
  BY JoinedAt
<1> HIDE DEF new, l
<1>4. From(new, s, P \union Q)
  BY <1>3 DEF From
<1> QED BY <1>2, <1>4 DEF new

LEMMA FromFrom ==
  ASSUME NEW out, NEW t, NEW s, NEW P, From(out, t, DOMAIN t), From(t, s, P)
  PROVE  From(out, s, P)
BY DEF From

\* The roles that were asked for, and nothing else.
LEMMA OnlyFrom ==
  ASSUME NEW s \in Seq(Kept), NEW P, NEW t \in Seq(Kept), Ordered(t), From(t, s, P), NEW roles
  PROVE  /\ Only(t, roles) \in Seq(Kept) /\ Ordered(Only(t, roles))
         /\ From(Only(t, roles), s, {j \in P : s[j].role \in roles})
<1> DEFINE out == Only(t, roles)
<1>1. out \in Seq(Kept) /\ \A i \in 1..Len(out) : out[i].role \in roles
  BY OnlyTyped
<1>2. Ordered(out) /\ From(out, t, DOMAIN t)
  BY OnlyOrdered
<1>3. DOMAIN out = 1..Len(out)
  BY <1>1
<1> HIDE DEF out
<1>4. From(out, s, P)
  BY <1>2, FromFrom
<1>5. From(out, s, {j \in P : s[j].role \in roles})
  BY <1>1, <1>3, <1>4 DEF From
<1> QED BY <1>1, <1>2, <1>5 DEF out

Top(s, to) == IF to < Len(s) THEN to ELSE Len(s)
Left(s, from, to) == {j \in DOMAIN s : j < from \/ to < j \/ ~Compressible(s[j])}

\* The three parts of what is left: before the range, of it, and behind it.
Ahead(s, from) == SubSeq(s, 1, from - 1)
Middle(s, from, to) == Only(Slice(s, from, to), Roles \ Compressibles)
Behind(s, to) == SubSeq(s, to + 1, Len(s))

LEMMA RangeIs ==
  ASSUME NEW s \in Seq(Kept), NEW from \in Nat \ {0}, NEW to \in Nat, Removable(s, from, to) # <<>>
  PROVE  from <= Len(s) /\ from <= to
<1>1. from <= Len(s)
  BY RemovableTyped
<1>2. ASSUME to < from PROVE Slice(s, from, to) = <<>>
  <2>1. to < Len(s) /\ from > to
    BY <1>1, <1>2
  <2>2. to <= Len(s)
    BY <2>1
  <2>3. SubSeq(s, from, to) = <<>>
    BY <2>1, <2>2, SubSeqTyped
  <2> QED BY <2>1, <2>3 DEF Slice
<1>3. ~ (to < from)
  BY <1>2, OnlyEmpty DEF Removable
<1> QED BY <1>1, <1>3

LEMMA SliceOrdered ==
  ASSUME NEW s \in Seq(Kept), Ordered(s), NEW from \in Nat \ {0}, NEW to \in Nat
  PROVE  /\ Slice(s, from, to) \in Seq(Kept) /\ Ordered(Slice(s, from, to))
         /\ From(Slice(s, from, to), s, from..Top(s, to))
         /\ \A j \in from..Top(s, to) : s[j] \in Range(Slice(s, from, to))
<1>1. Len(s) \in Nat /\ Top(s, to) \in Nat /\ Top(s, to) <= Len(s)
  BY DEF Top
<1>2. Slice(s, from, to) = SubSeq(s, from, Top(s, to))
  BY DEF Slice, Top
<1> DEFINE t == SubSeq(s, from, Top(s, to))
           n == Top(s, to)
<1>3. /\ t \in Seq(Kept) /\ Ordered(t) /\ From(t, s, from..n)
      /\ \A j \in from..n : j - from + 1 \in DOMAIN t /\ t[j - from + 1] = s[j]
  BY <1>1, SubSeqAt, SubSeqOrdered
<1> HIDE DEF t, n
<1>4. \A j \in from..n : s[j] \in Range(t)
  BY <1>3 DEF Range
<1> QED BY <1>2, <1>3, <1>4 DEF t, n

LEMMA PartsOrdered ==
  ASSUME NEW s \in Seq(Kept), Ordered(s), NEW from \in Nat \ {0}, NEW to \in Nat,
         from <= Len(s), from <= to
  PROVE  /\ Ahead(s, from) \in Seq(Kept) /\ Ordered(Ahead(s, from)) /\ From(Ahead(s, from), s, 1..(from-1))
         /\ Middle(s, from, to) \in Seq(Kept) /\ Ordered(Middle(s, from, to))
         /\ From(Middle(s, from, to), s, {j \in from..Top(s, to) : ~Compressible(s[j])})
         /\ Behind(s, to) \in Seq(Kept) /\ Ordered(Behind(s, to)) /\ From(Behind(s, to), s, (to+1)..Len(s))
<1>1. /\ from - 1 \in Nat /\ from - 1 <= Len(s) /\ 1 \in Nat \ {0}
      /\ to + 1 \in Nat \ {0} /\ Len(s) \in Nat /\ Len(s) <= Len(s)
  OBVIOUS
<1>2. Ahead(s, from) \in Seq(Kept) /\ Ordered(Ahead(s, from)) /\ From(Ahead(s, from), s, 1..(from-1))
  BY <1>1, SubSeqAt, SubSeqOrdered DEF Ahead
<1>3. Behind(s, to) \in Seq(Kept) /\ Ordered(Behind(s, to)) /\ From(Behind(s, to), s, (to+1)..Len(s))
  BY <1>1, SubSeqAt, SubSeqOrdered DEF Behind
<1> DEFINE t == Slice(s, from, to)
           P == from..Top(s, to)
           roles == Roles \ Compressibles
<1>4. t \in Seq(Kept) /\ Ordered(t) /\ From(t, s, P)
  BY SliceOrdered
<1>5. Middle(s, from, to) = Only(t, roles)
  BY DEF Middle
<1> HIDE DEF t, P, roles
<1>6. /\ Only(t, roles) \in Seq(Kept) /\ Ordered(Only(t, roles))
      /\ From(Only(t, roles), s, {j \in P : s[j].role \in roles})
  BY <1>4, OnlyFrom
<1>7. {j \in P : s[j].role \in roles} \subseteq {j \in P : ~Compressible(s[j])}
  BY DEF roles, Compressible
<1>8. From(Only(t, roles), s, {j \in P : ~Compressible(s[j])})
  BY <1>6, <1>7, FromMore
<1> QED BY <1>2, <1>3, <1>5, <1>6, <1>8 DEF P

LEMMA RemainingOrdered ==
  ASSUME NEW s \in Seq(Kept), Ordered(s), NEW from \in Nat \ {0}, NEW to \in Nat,
         from <= Len(s), from <= to
  PROVE  /\ Remaining(s, from, to) = (Ahead(s, from) \o Middle(s, from, to)) \o Behind(s, to)
         /\ Remaining(s, from, to) \in Seq(Kept)
         /\ Ordered(Remaining(s, from, to)) /\ From(Remaining(s, from, to), s, Left(s, from, to))
<1> DEFINE a == Ahead(s, from)
           b == Middle(s, from, to)
           c == Behind(s, to)
           A == 1..(from-1)
           B == {j \in from..Top(s, to) : ~Compressible(s[j])}
           C == (to+1)..Len(s)
<1>1. /\ a \in Seq(Kept) /\ Ordered(a) /\ From(a, s, A)
      /\ b \in Seq(Kept) /\ Ordered(b) /\ From(b, s, B)
      /\ c \in Seq(Kept) /\ Ordered(c) /\ From(c, s, C)
  BY PartsOrdered
<1>2. Remaining(s, from, to) = (a \o b) \o c
  BY DEF Remaining, Ahead, Middle, Behind
<1>3. Len(s) \in Nat /\ DOMAIN s = 1..Len(s) /\ Top(s, to) \in Nat /\ Top(s, to) <= Len(s) /\ Top(s, to) <= to
  BY DEF Top
<1>4. A \in SUBSET DOMAIN s /\ B \in SUBSET DOMAIN s /\ C \in SUBSET DOMAIN s
  BY <1>3
<1>5. /\ \A p \in A, q \in B : p < q
      /\ \A p \in A \union B, q \in C : p < q
  BY <1>3
<1>6. (A \union B) \union C \subseteq Left(s, from, to)
  BY <1>3, <1>4 DEF Left
<1> HIDE DEF a, b, c, A, B, C
<1>7. a \o b \in Seq(Kept) /\ Ordered(a \o b) /\ From(a \o b, s, A \union B)
  BY <1>1, <1>4, <1>5, FromJoin, Joins
<1> DEFINE d == a \o b
<1>8. d \o c \in Seq(Kept) /\ Ordered(d \o c) /\ From(d \o c, s, (A \union B) \union C)
  <2> HIDE DEF d
  <2>1. d \in Seq(Kept) /\ Ordered(d) /\ From(d, s, A \union B) /\ A \union B \in SUBSET DOMAIN s
    BY <1>4, <1>7 DEF d
  <2> QED BY <1>1, <1>4, <1>5, <2>1, FromJoin, Joins
<1>9. From(d \o c, s, Left(s, from, to))
  BY <1>6, <1>8, FromMore
<1> QED BY <1>2, <1>8, <1>9 DEF a, b, c

\* A summary may be put in front of what is not one.
LEMMA SummaryFirst ==
  ASSUME NEW m \in Kept, m.role = "summary", NEW t \in Seq(Kept), Ordered(t),
         \A p \in DOMAIN t : t[p].role # "summary"
  PROVE  <<m>> \o t \in Seq(Kept) /\ Ordered(<<m>> \o t)
<1> DEFINE s == <<m>>
<1>1. s \in Seq(Kept) /\ DOMAIN s = {1} /\ s[1] = m
  OBVIOUS
<1> HIDE DEF s
<1>2. Ordered(s)
  BY <1>1 DEF Ordered, Apart
<1>3. \A p \in DOMAIN s, q \in DOMAIN t : Before(s[p], t[q])
  BY <1>1 DEF Before, Apart, Real, Result
<1>4. s \o t \in Seq(Kept) /\ Ordered(s \o t)
  BY <1>1, <1>2, <1>3, OrderedJoin, Joins
<1> QED BY <1>4 DEF s

\* What is left, without older summaries, behind the new one; then repaired.
Rest(s, from, to) == Only(Remaining(s, from, to), Roles \ {"summary"})
Fixed(s, from, to, summary) == Repair(<<summary>> \o Rest(s, from, to), FALSE)

LEMMA RestOrdered ==
  ASSUME NEW s \in Seq(Kept), Ordered(s), NEW from \in Nat \ {0}, NEW to \in Nat,
         from <= Len(s), from <= to, NEW summary \in Kept, summary.role = "summary"
  PROVE  /\ Rest(s, from, to) \in Seq(Kept) /\ Ordered(Rest(s, from, to))
         /\ From(Rest(s, from, to), s, Left(s, from, to))
         /\ <<summary>> \o Rest(s, from, to) \in Seq(Kept)
         /\ Ordered(<<summary>> \o Rest(s, from, to))
<1> DEFINE t == Remaining(s, from, to)
           roles == Roles \ {"summary"}
           P == Left(s, from, to)
           out == Only(t, roles)
<1>1. t \in Seq(Kept) /\ Ordered(t) /\ From(t, s, P)
  BY RemainingOrdered
<1>2. "summary" \notin roles
  OBVIOUS
<1>3. Rest(s, from, to) = out
  BY DEF Rest
<1> HIDE DEF t, P, roles
<1>4. out \in Seq(Kept) /\ Ordered(out) /\ From(out, s, {j \in P : s[j].role \in roles})
  BY <1>1, OnlyFrom
<1>5. From(out, s, P)
  BY <1>4, FromMore
<1>6. \A i \in 1..Len(out) : out[i].role \in roles
  BY <1>1, OnlyTyped
<1> HIDE DEF out
<1>7. \A i \in DOMAIN out : out[i].role # "summary"
  BY <1>2, <1>4, <1>6
<1>8. <<summary>> \o out \in Seq(Kept) /\ Ordered(<<summary>> \o out)
  BY <1>4, <1>7, SummaryFirst
<1> QED BY <1>3, <1>4, <1>5, <1>8 DEF P

LEMMA FixedOrdered ==
  ASSUME NEW s \in Seq(Kept), Ordered(s), NEW from \in Nat \ {0}, NEW to \in Nat,
         from <= Len(s), from <= to, NEW summary \in Kept, summary.role = "summary"
  PROVE  /\ Fixed(s, from, to, summary) \in Seq(Kept) /\ Ordered(Fixed(s, from, to, summary))
         /\ \E pending \in SUBSET Ids : Paired(Fixed(s, from, to, summary), pending)
         /\ \A p \in DOMAIN Fixed(s, from, to, summary) :
              LET m == Fixed(s, from, to, summary)[p] IN
              m = summary \/ m.role = "stub" \/ \E j \in Left(s, from, to) : m = s[j]
<1> DEFINE r == Rest(s, from, to)
           f == <<summary>>
           t == f \o r
           out == Repair(t, FALSE)
<1>1. r \in Seq(Kept) /\ From(r, s, Left(s, from, to)) /\ t \in Seq(Kept) /\ Ordered(t)
  BY RestOrdered
<1>2. out = Fixed(s, from, to, summary)
  BY DEF Fixed
<1>3. f \in Seq(Kept) /\ DOMAIN f = {1} /\ f[1] = summary
  OBVIOUS
<1> HIDE DEF r, f
<1>4. /\ \A p \in DOMAIN f : p \in DOMAIN t /\ t[p] = f[p]
      /\ \A q \in DOMAIN r : Len(f) + q \in DOMAIN t /\ t[Len(f) + q] = r[q]
      /\ \A p \in DOMAIN t : p \in DOMAIN f \/ \E q \in DOMAIN r : p = Len(f) + q
  BY <1>1, <1>3, JoinedAt
<1>5. \A p \in DOMAIN t : t[p] = summary \/ \E j \in Left(s, from, to) : t[p] = s[j]
  <2> HIDE DEF t
  <2> TAKE p \in DOMAIN t
  <2>1. CASE p \in DOMAIN f
    <3>1. p = 1
      BY <1>3, <2>1
    <3> QED BY <1>3, <1>4, <2>1, <3>1
  <2>2. ASSUME NEW q \in DOMAIN r, p = Len(f) + q
        PROVE  \E j \in Left(s, from, to) : t[p] = s[j]
    <3>1. t[p] = r[q]
      BY <1>4, <2>2
    <3> QED BY <1>1, <3>1 DEF From
  <2> QED BY <1>4, <2>1, <2>2
<1> HIDE DEF t
<1>6. out \in Seq(Kept) /\ Ordered(out) /\ Drawn(out, t, DOMAIN t)
  BY <1>1, RepairOrdered, RepairTyped
<1>7. \E pending \in SUBSET Ids : Paired(out, pending)
  BY <1>1, RepairFollows
<1> HIDE DEF out
<1>8. \A p \in DOMAIN out : out[p] = summary \/ out[p].role = "stub" \/ \E j \in Left(s, from, to) : out[p] = s[j]
  BY <1>5, <1>6 DEF Drawn
<1> QED BY <1>2, <1>6, <1>7, <1>8

(***************************************************************************)
(* Every action keeps the order.                                           *)
(***************************************************************************)
LEMMA AppendedInOrder ==
  ASSUME OInv, HInv', NEW m \in Kept, AppendMessage(m), Ordered(Append(chat, m)),
         Below(m, next'), next <= next',
         open' \intersect (Present(chat) \union {m.id}) = {}, \A c \in open' : c < next'
  PROVE  OInv'
<1> DEFINE t == Append(chat, m)
<1>1. chat \in Seq(Kept) /\ next \in Nat /\ next' \in Nat /\ Past(chat, next)
  BY DEF OInv, HInv, ChatOK, CountsOK, OrderOK
<1>2. t \in Seq(Kept) /\ Ordered(t) /\ chat' = Trim(t)
  BY <1>1, Appends DEF AppendMessage
<1>3. Past(t, next')
  BY <1>1, PastMore, AppendPast
<1>4. Present(t) \subseteq Present(chat) \union {m.id}
  BY <1>1, PresentAppend
<1> HIDE DEF t
<1>5. Ordered(chat') /\ From(chat', t, DOMAIN t)
  BY <1>2, TrimOrdered
<1>6. Past(chat', next')
  BY <1>3, <1>5, FromPast
<1>7. Present(chat') \subseteq Present(t)
  BY <1>5, FromDrawn, DrawnPresent
<1>8. open' \intersect Present(chat') = {}
  BY <1>4, <1>7
<1>9. OrderOK' /\ OpenOK'
  BY <1>5, <1>6, <1>8 DEF OrderOK, OpenOK
<1> QED BY <1>9 DEF OInv

\* A message of another than the round, with the next identity.
LEMMA WrittenInOrder ==
  ASSUME OInv, HInv', NEW role \in {"user", "report", "assistant"}, next <= MaxIds,
         AppendMessage(Message(role, next, {})), next' = next + 1, open' = open
  PROVE  OInv'
<1> DEFINE m == Message(role, next, {})
<1>1. chat \in Seq(Kept) /\ next \in Nat /\ Ordered(chat) /\ Past(chat, next)
  BY DEF OInv, HInv, ChatOK, CountsOK, OrderOK
<1>2. m \in Kept
  BY NextTyped DEF OInv, Roles
<1>3. m.id = next /\ m.role = role /\ m.refs = {}
  BY DEF Message
<1> HIDE DEF m
<1>4. Ordered(Append(chat, m))
  BY <1>1, <1>2, <1>3, FreshOrdered
<1>5. Below(m, next') /\ next <= next'
  BY <1>1, <1>3 DEF Below
<1>6. open' \intersect (Present(chat) \union {m.id}) = {} /\ \A c \in open' : c < next'
  <2>1. \A c \in open : c \in Nat /\ c < next
    BY HistoryAssumption DEF OInv, OpenOK, HInv, TaskOK, Ids
  <2>2. \A c \in open : c # next /\ c < next + 1
    BY <1>1, <2>1
  <2> QED BY <1>3, <2>2 DEF OInv, OpenOK
<1>7. AppendMessage(m)
  BY DEF m
<1> QED BY <1>2, <1>4, <1>5, <1>6, <1>7, AppendedInOrder

\* The message of a round opens it with new identities.
LEMMA CallsOrdered ==
  ASSUME NEW calls \in 1..MaxCalls, OInv, CallTools(calls)
  PROVE  /\ AppendMessage(Message("assistant", next, open'))
         /\ Message("assistant", next, open') \in Kept
         /\ Ordered(Append(chat, Message("assistant", next, open')))
<1> DEFINE m == Message("assistant", next, open')
<1>1. chat \in Seq(Kept) /\ next \in Nat /\ next <= MaxIds /\ Ordered(chat) /\ Past(chat, next) /\ calls \in Nat
  BY HistoryAssumption DEF OInv, HInv, ChatOK, CountsOK, OrderOK, CallTools
<1>2. open' = next + 1 .. next + calls /\ next + calls <= MaxIds
  BY DEF CallTools
<1>3. m \in Kept
  <2>1. next \in Ids /\ open' \in SUBSET Ids
    BY <1>1, <1>2, HistoryAssumption DEF Ids, OInv, HInv, CountsOK
  <2> QED BY <2>1, MessageTyped DEF Roles
<1>4. m.id = next /\ m.role = "assistant" /\ m.refs = open'
  BY DEF Message
<1>5. AppendMessage(m)
  BY DEF CallTools
<1> HIDE DEF m
<1>6. \A c \in open' : c > next
  BY <1>1, <1>2
<1>7. Ordered(Append(chat, m))
  BY <1>1, <1>3, <1>4, <1>6, FreshOrdered
<1> QED BY <1>3, <1>5, <1>7 DEF m

LEMMA CallToolsInOrder == ASSUME NEW calls \in 1..MaxCalls, OInv, HInv', CallTools(calls) PROVE OInv'
<1> DEFINE m == Message("assistant", next, open')
<1>1. chat \in Seq(Kept) /\ next \in Nat /\ Past(chat, next) /\ calls \in Nat
  BY HistoryAssumption DEF OInv, HInv, ChatOK, CountsOK, OrderOK
<1>2. open' = next + 1 .. next + calls /\ next' = next + calls + 1
  BY DEF CallTools
<1>3. m \in Kept /\ AppendMessage(m) /\ Ordered(Append(chat, m))
  BY CallsOrdered
<1>4. m.id = next /\ m.role = "assistant" /\ m.refs = open'
  BY DEF Message
<1> HIDE DEF m
<1>6. \A c \in open' : c \in Nat /\ c > next /\ c < next'
  BY <1>1, <1>2
<1>8. Below(m, next') /\ next <= next'
  BY <1>1, <1>2, <1>4, <1>6 DEF Below
<1>9. \A c \in open' : c \notin Present(chat)
  <2> SUFFICES ASSUME NEW p \in DOMAIN chat PROVE chat[p].id \notin open'
    BY DEF Present, Range
  <2>1. chat[p] \in Kept
    BY <1>1
  <2>2. chat[p].id \in Nat /\ chat[p].id < next
    BY <1>1, <2>1, KeptIs DEF Past, Below
  <2> QED BY <1>1, <1>2, <2>2
<1>10. open' \intersect (Present(chat) \union {m.id}) = {}
  <2>1. \A c \in open' : c # next
    BY <1>1, <1>6
  <2> QED BY <1>4, <1>9, <2>1
<1> QED BY <1>3, <1>6, <1>8, <1>10, AppendedInOrder

LEMMA ToolResultInOrder == ASSUME NEW c \in open, OInv, HInv', ToolResult(c) PROVE OInv'
<1> DEFINE m == Message("tool", c, {})
<1>1. chat \in Seq(Kept) /\ next \in Nat /\ Ordered(chat) /\ c \in Ids /\ c < next /\ c \notin Present(chat)
  BY DEF OInv, HInv, ChatOK, CountsOK, OrderOK, OpenOK, TaskOK
<1>2. m \in Kept
  BY <1>1, MessageTyped DEF Roles
<1>3. m.id = c /\ m.role = "tool" /\ m.refs = {}
  BY DEF Message
<1>4. AppendMessage(m) /\ open' = open \ {c} /\ next' = next
  BY DEF ToolResult
<1> HIDE DEF m
<1>5. Ordered(Append(chat, m))
  BY <1>1, <1>2, <1>3, ResultOrdered
<1>6. Below(m, next') /\ next <= next'
  BY <1>1, <1>3, <1>4 DEF Below
<1>7. open' \intersect (Present(chat) \union {m.id}) = {} /\ \A d \in open' : d < next'
  BY <1>3, <1>4 DEF OInv, OpenOK
<1> QED BY <1>2, <1>4, <1>5, <1>6, <1>7, AppendedInOrder

LEMMA LoadAgentInOrder == OInv /\ HInv' /\ LoadAgent => OInv'
<1> SUFFICES ASSUME OInv, HInv', LoadAgent PROVE OInv'
  OBVIOUS
<1> DEFINE m == Message("prompt", next, {})
<1>1. chat \in Seq(Kept) /\ next \in Nat /\ next <= MaxIds /\ Ordered(chat) /\ Past(chat, next)
  BY DEF OInv, HInv, ChatOK, CountsOK, OrderOK, LoadAgent
<1>2. m \in Kept
  BY <1>1, NextTyped DEF OInv, Roles
<1>3. m.id = next /\ m.role = "prompt" /\ m.refs = {}
  BY DEF Message
<1>4. chat' = Append(chat, m) /\ next' = next + 1 /\ open' = open
  BY DEF LoadAgent
<1> HIDE DEF m
<1>5. Ordered(chat')
  BY <1>1, <1>2, <1>3, <1>4, FreshOrdered
<1>6. Past(chat', next')
  <2>1. Below(m, next') /\ next <= next' /\ next' \in Nat
    BY <1>1, <1>3, <1>4 DEF Below
  <2>2. Past(chat, next')
    BY <1>1, <2>1, PastMore
  <2> QED BY <1>1, <1>2, <1>4, <2>1, <2>2, AppendPast
<1>7. OpenOK'
  <2>1. \A c \in open : c \in Nat /\ c < next
    BY HistoryAssumption DEF OInv, OpenOK, HInv, TaskOK, Ids
  <2>2. \A c \in open : c # next /\ c < next + 1
    BY <1>1, <2>1
  <2>3. Present(chat') \subseteq Present(chat) \union {next}
    BY <1>1, <1>2, <1>3, <1>4, PresentAppend
  <2>4. open \intersect Present(chat) = {}
    BY DEF OInv, OpenOK
  <2> QED BY <1>4, <2>2, <2>3, <2>4 DEF OpenOK
<1> QED BY <1>5, <1>6, <1>7 DEF OInv, OrderOK

\* Whatever is drawn from the history, and put in order, is as good.
LEMMA DrawnInOrder ==
  ASSUME OInv, HInv', open' \subseteq open, next' = next, Ordered(chat'), Past(chat', next),
         Present(chat') \subseteq Present(chat)
  PROVE  OInv'
<1>1. OpenOK'
  BY DEF OInv, OpenOK
<1> QED BY <1>1 DEF OInv, OrderOK

LEMMA UnloadAgentInOrder == OInv /\ HInv' /\ UnloadAgent => OInv'
<1> SUFFICES ASSUME OInv, HInv', UnloadAgent PROVE OInv'
  OBVIOUS
<1>1. chat \in Seq(Kept) /\ Ordered(chat) /\ Past(chat, next)
  BY DEF OInv, HInv, ChatOK, OrderOK
<1>2. chat' = Only(chat, Roles \ {"prompt"}) /\ open' = open /\ next' = next
  BY DEF UnloadAgent
<1>3. Ordered(chat') /\ From(chat', chat, DOMAIN chat)
  BY <1>1, <1>2, OnlyOrdered
<1> QED BY <1>1, <1>2, <1>3, FromPast, FromDrawn, DrawnPresent, DrawnInOrder

LEMMA TruncateInOrder == ASSUME NEW k \in DOMAIN chat, OInv, HInv', Truncate(k) PROVE OInv'
<1>1. chat \in Seq(Kept) /\ Ordered(chat) /\ Past(chat, next)
  BY DEF OInv, HInv, ChatOK, OrderOK
<1>2. chat' = SubSeq(chat, 1, k - 1) /\ open' = open /\ next' = next
  BY DEF Truncate
<1>3. k - 1 \in Nat /\ k - 1 <= Len(chat) /\ 1 \in Nat \ {0} /\ 1..(k-1) \subseteq DOMAIN chat
  BY <1>1
<1>4. Ordered(chat') /\ From(chat', chat, DOMAIN chat)
  BY <1>1, <1>2, <1>3, SubSeqOrdered, FromMore
<1> QED BY <1>1, <1>2, <1>4, FromPast, FromDrawn, DrawnPresent, DrawnInOrder

\* A history read back is ordered, and holds no new identity.
LEMMA RepairInOrder ==
  ASSUME NEW s \in Seq(Kept), Ordered(s), NEW n, Past(s, n)
  PROVE  /\ Repair(s, FALSE) \in Seq(Kept) /\ Ordered(Repair(s, FALSE)) /\ Past(Repair(s, FALSE), n)
         /\ Present(Repair(s, FALSE)) \subseteq Present(s)
<1> DEFINE out == Repair(s, FALSE)
<1>1. out \in Seq(Kept) /\ Ordered(out) /\ Drawn(out, s, DOMAIN s)
  BY RepairOrdered, RepairTyped
<1>2. ResultsFollow(out)
  BY RepairFollows DEF Paired
<1> HIDE DEF out
<1>3. Past(out, n) /\ Present(out) \subseteq Present(s)
  BY <1>1, <1>2, DrawnPast, DrawnPresent
<1> QED BY <1>1, <1>3 DEF out

LEMMA LoadInOrder == OInv /\ HInv' /\ Load => OInv'
<1> SUFFICES ASSUME OInv, HInv', Load PROVE OInv'
  OBVIOUS
<1>1. chat \in Seq(Kept) /\ Ordered(chat) /\ Past(chat, next)
  BY DEF OInv, HInv, ChatOK, OrderOK
<1>2. chat' = Repair(chat, FALSE) /\ open' = open /\ next' = next
  BY DEF Load
<1> QED BY <1>1, <1>2, RepairInOrder, DrawnInOrder

LEMMA RestartInOrder == OInv /\ HInv' /\ Restart => OInv'
<1> SUFFICES ASSUME OInv, HInv', Restart PROVE OInv'
  OBVIOUS
<1> DEFINE back == Repair(chat, FALSE)
           m == Message("user", next, {})
           t == Append(back, m)
<1>1. chat \in Seq(Kept) /\ next \in Nat /\ next <= MaxIds /\ Ordered(chat) /\ Past(chat, next) /\ open' = {}
  BY DEF OInv, HInv, ChatOK, CountsOK, OrderOK, Restart
<1>2. back \in Seq(Kept) /\ Ordered(back) /\ Past(back, next) /\ Present(back) \subseteq Present(chat)
  BY <1>1, RepairInOrder
<1>3. (chat' = Trim(t) /\ next' = next + 1) \/ (chat' = back /\ next' = next)
  BY DEF Restart
<1>4. m \in Kept /\ m.id = next /\ m.role = "user" /\ m.refs = {}
  BY <1>1, NextTyped DEF OInv, Roles, Message
<1> HIDE DEF back, m
<1>5. CASE chat' = back /\ next' = next
  BY <1>1, <1>2, <1>5, DrawnInOrder
<1>6. CASE chat' = Trim(t) /\ next' = next + 1
  <2>1. t \in Seq(Kept) /\ Ordered(t)
    BY <1>1, <1>2, <1>4, FreshOrdered, Appends
  <2>2. Past(t, next')
    <3>1. Below(m, next') /\ next <= next' /\ next' \in Nat
      BY <1>1, <1>4, <1>6 DEF Below
    <3>2. Past(back, next')
      BY <1>1, <1>2, <3>1, PastMore
    <3> QED BY <1>2, <1>4, <3>1, <3>2, AppendPast
  <2> HIDE DEF t
  <2>3. Ordered(chat') /\ From(chat', t, DOMAIN t)
    BY <1>6, <2>1, TrimOrdered
  <2>4. Past(chat', next')
    BY <2>2, <2>3, FromPast
  <2>5. OpenOK'
    BY <1>1 DEF OpenOK
  <2> QED BY <2>3, <2>4, <2>5 DEF OInv, OrderOK
<1> QED BY <1>3, <1>5, <1>6

\* A compaction in its own words.
LEMMA Finished ==
  ASSUME HInv, NEW by \in By, NEW ok \in BOOLEAN, FinishCompaction(by, ok),
         Removable(chat, plan[by].from, plan[by].to) # <<>>
  PROVE  /\ plan[by].from \in Nat \ {0} /\ plan[by].to \in Nat
         /\ plan[by].from <= Len(chat) /\ plan[by].from <= plan[by].to
         /\ \E summary \in Kept :
              /\ summary.role = "summary"
              /\ chat' = Trim(Fixed(chat, plan[by].from, plan[by].to, summary))
              /\ excused' = excused \union (IdsOf(Fixed(chat, plan[by].from, plan[by].to, summary)) \ IdsOf(chat'))
         /\ stale' = (stale \/ IdsOf(Removable(chat, plan[by].from, plan[by].to)) # plan[by].input
                            \/ Carried(chat) # plan[by].carried)
<1> DEFINE p       == plan[by]
           summary == Message("summary", 0, p.input \union IF ok THEN p.carried ELSE {})
<1>1. /\ p.from \in Nat \ {0} /\ p.to \in Nat
      /\ p.input \subseteq Ids /\ p.carried \subseteq Ids /\ chat \in Seq(Kept)
  BY DEF HInv, ChatOK, PlanOK, Plans, FinishCompaction
<1>2. p.from <= Len(chat) /\ p.from <= p.to
  BY <1>1, RangeIs
<1>3. summary \in Kept /\ summary.role = "summary"
  BY <1>1, HistoryAssumption DEF Message, Kept, Messages, Roles
<1>4. /\ chat' = Trim(Fixed(chat, p.from, p.to, summary))
      /\ excused' = excused \union (IdsOf(Fixed(chat, p.from, p.to, summary)) \ IdsOf(chat'))
      /\ stale' = (stale \/ IdsOf(Removable(chat, p.from, p.to)) # p.input \/ Carried(chat) # p.carried)
  BY DEF FinishCompaction, Fixed, Rest
<1> HIDE DEF summary
<1> QED BY <1>1, <1>2, <1>3, <1>4

LEMMA FinishCompactionInOrder ==
  ASSUME NEW by \in By, NEW ok \in BOOLEAN, OInv, HInv', FinishCompaction(by, ok)
  PROVE  OInv'
<1>1. chat \in Seq(Kept) /\ next \in Nat /\ Ordered(chat) /\ Past(chat, next) /\ HInv
  BY DEF OInv, HInv, ChatOK, CountsOK, OrderOK
<1>2. open' = open /\ next' = next
  BY DEF FinishCompaction
<1>3. CASE Removable(chat, plan[by].from, plan[by].to) = <<>>
  <2>1. chat' = chat
    BY <1>3 DEF FinishCompaction
  <2> QED BY <1>1, <1>2, <2>1, DrawnInOrder
<1>4. CASE Removable(chat, plan[by].from, plan[by].to) # <<>>
  <2> DEFINE from == plan[by].from
             to == plan[by].to
  <2>1. /\ from \in Nat \ {0} /\ to \in Nat /\ from <= Len(chat) /\ from <= to
        /\ \E summary \in Kept : summary.role = "summary" /\ chat' = Trim(Fixed(chat, from, to, summary))
    BY <1>1, <1>4, Finished
  <2> HIDE DEF from, to
  <2>2. PICK summary \in Kept : summary.role = "summary" /\ chat' = Trim(Fixed(chat, from, to, summary))
    BY <2>1
  <2> DEFINE t == Fixed(chat, from, to, summary)
  <2>3. /\ t \in Seq(Kept) /\ Ordered(t) /\ \E pending \in SUBSET Ids : Paired(t, pending)
        /\ \A p \in DOMAIN t : t[p] = summary \/ t[p].role = "stub" \/ \E j \in Left(chat, from, to) : t[p] = chat[j]
    BY <1>1, <2>1, <2>2, FixedOrdered
  <2>4. chat' = Trim(t)
    BY <2>2
  <2> HIDE DEF t
  <2>5. summary.id = 0 /\ Past(chat, next) /\ 0 < next
    BY <2>2, KeptIs DEF OInv, OrderOK, HInv, CountsOK
  <2>6. Left(chat, from, to) \subseteq DOMAIN chat
    BY DEF Left
  <2>7. Past(t, next)
    <3> SUFFICES ASSUME NEW p \in DOMAIN t PROVE Below(t[p], next)
      BY DEF Past
    <3>1. CASE t[p] = summary
      BY <2>2, <2>5, <3>1 DEF Below
    <3>2. ASSUME NEW q \in DOMAIN t, NEW j \in Left(chat, from, to), t[q] = chat[j] PROVE Below(t[q], next)
      BY <2>5, <2>6, <3>2 DEF Past
    <3>3. CASE t[p].role = "stub"
      <4>1. PICK i \in DOMAIN t : Follows(t, i, p)
        BY <2>3, <3>3 DEF Paired, ResultsFollow, Result
      <4>2. t[i].role = "assistant" /\ t[p].id \in t[i].refs
        BY <4>1 DEF Follows, Answers
      <4>3. Below(t[i], next)
        BY <2>2, <2>3, <3>2, <4>2
      <4> QED BY <3>3, <4>2, <4>3 DEF Below
    <3> QED BY <2>3, <3>1, <3>2, <3>3
  <2>8. Present(t) \subseteq Present(chat) \union {0}
    <3> SUFFICES ASSUME NEW p \in DOMAIN t, t[p].role # "stub" PROVE t[p].id \in Present(chat) \union {0}
      BY DEF Present, Range
    <3>1. CASE t[p] = summary
      BY <2>5, <3>1
    <3>2. ASSUME NEW j \in Left(chat, from, to), t[p] = chat[j] PROVE t[p].id \in Present(chat)
      BY <2>6, <3>2 DEF Present, Range
    <3> QED BY <2>3, <3>1, <3>2
  <2>9. Ordered(chat') /\ From(chat', t, DOMAIN t)
    BY <2>3, <2>4, TrimOrdered
  <2>10. Past(chat', next) /\ Present(chat') \subseteq Present(t)
    BY <2>7, <2>9, FromPast, FromDrawn, DrawnPresent
  <2>11. OpenOK'
    <3>1. 0 \notin open
      BY HistoryAssumption DEF OInv, HInv, TaskOK, Ids
    <3> QED BY <1>2, <2>8, <2>10, <3>1 DEF OInv, OpenOK
  <2> QED BY <1>2, <2>9, <2>10, <2>11 DEF OInv, OrderOK
<1> QED BY <1>3, <1>4

LEMMA InitInOrder == Init => OInv
<1> SUFFICES ASSUME Init PROVE OInv
  OBVIOUS
<1>1. chat = <<>> /\ open = {}
  BY DEF Init
<1>2. OrderOK
  BY <1>1, EmptyOrdered DEF OrderOK, Past
<1>3. OpenOK
  BY <1>1 DEF OpenOK
<1> QED BY <1>2, <1>3, InitInv DEF OInv

LEMMA NextInOrder == OInv /\ [Next]_vars => OInv'
<1> SUFFICES ASSUME OInv, [Next]_vars PROVE OInv'
  OBVIOUS
<1>1. HInv'
  BY NextInv DEF OInv
<1>2. ASSUME UNCHANGED chat, open' \subseteq open, next' = next PROVE OInv'
  <2>1. Ordered(chat') /\ Past(chat', next) /\ Present(chat') \subseteq Present(chat)
    BY <1>2 DEF OInv, OrderOK
  <2> QED BY <1>1, <1>2, <2>1, DrawnInOrder
<1>3. CASE Prompt \/ Reply \/ WriteBack \/ Merge
  BY <1>1, <1>3, WrittenInOrder DEF Prompt, Reply, WriteBack, Merge
<1>4. CASE \E calls \in 1..MaxCalls : CallTools(calls)
  BY <1>1, <1>4, CallToolsInOrder
<1>5. CASE \E c \in open : ToolResult(c)
  BY <1>1, <1>5, ToolResultInOrder
<1>6. CASE LoadAgent \/ UnloadAgent
  BY <1>1, <1>6, LoadAgentInOrder, UnloadAgentInOrder
<1>7. CASE \E k \in DOMAIN chat : Truncate(k)
  BY <1>1, <1>7, TruncateInOrder
<1>8. CASE Load \/ Restart
  BY <1>1, <1>8, LoadInOrder, RestartInOrder
<1>9. CASE EndRun \/ TaskCompacts \/ UserCompacts
  BY <1>2, <1>9 DEF EndRun, TaskCompacts, UserCompacts, StartCompaction
<1>10. CASE \E by \in By, ok \in BOOLEAN : FinishCompaction(by, ok)
  BY <1>1, <1>10, FinishCompactionInOrder
<1>11. CASE UNCHANGED vars
  BY <1>2, <1>11 DEF vars
<1> QED BY <1>3, <1>4, <1>5, <1>6, <1>7, <1>8, <1>9, <1>10, <1>11 DEF Next

\* The history of a session is in the order in which it was written, whoever
\* wrote, trimmed, repaired, compacted or cut it.
THEOREM OrderInvariance == Spec => []OInv
<1>1. Init => OInv
  BY InitInOrder
<1>2. OInv /\ [Next]_vars => OInv'
  BY NextInOrder
<1> QED BY <1>1, <1>2, PTL DEF Spec

(***************************************************************************)
(* Attached results, through one step.                                     *)
(***************************************************************************)
\* Results and their assistant messages stay together, whatever comes between s and out,
\* or the results go.
Retains(s, out) == \A i, k \in DOMAIN s : At(s, i, k) => HasPair(out, s[i], s[k])
Keeps(s, out) ==
  \A i, k \in DOMAIN s : At(s, i, k) => HasPair(out, s[i], s[k]) \/ s[k].id \notin Present(out)

LEMMA KeepsMeans ==
  ASSUME NEW s \in Seq(Kept), NEW out \in Seq(Kept), Keeps(s, out)
  PROVE  Attached(s) \intersect Present(out) \subseteq Attached(out)
<1> SUFFICES ASSUME NEW c \in Attached(s), c \in Present(out) PROVE c \in Attached(out)
  OBVIOUS
<1>1. PICK i \in DOMAIN s, k \in DOMAIN s : At(s, i, k) /\ s[k].id = c
  BY AttachedIs
<1>2. HasPair(out, s[i], s[k])
  BY <1>1 DEF Keeps
<1>3. PICK p \in DOMAIN out, q \in DOMAIN out : At(out, p, q) /\ out[q] = s[k]
  BY <1>2 DEF HasPair
<1> QED BY <1>1, <1>3, AttachedIs

LEMMA KeepsThen ==
  ASSUME NEW s, NEW t, NEW u,
         \/ Retains(s, t)
         \/ Keeps(s, t) /\ Present(u) \subseteq Present(t),
         Keeps(t, u)
  PROVE  Keeps(s, u)
<1> SUFFICES ASSUME NEW i \in DOMAIN s, NEW k \in DOMAIN s, At(s, i, k)
             PROVE  HasPair(u, s[i], s[k]) \/ s[k].id \notin Present(u)
  BY DEF Keeps
<1>1. CASE HasPair(t, s[i], s[k])
  <2>1. PICK p \in DOMAIN t, q \in DOMAIN t : At(t, p, q) /\ t[p] = s[i] /\ t[q] = s[k]
    BY <1>1 DEF HasPair
  <2>2. HasPair(u, t[p], t[q]) \/ t[q].id \notin Present(u)
    BY <2>1 DEF Keeps
  <2> QED BY <2>1, <2>2
<1>2. CASE ~HasPair(t, s[i], s[k])
  BY <1>2 DEF Retains, Keeps
<1> QED BY <1>1, <1>2

LEMMA AppendRetains ==
  ASSUME NEW s \in Seq(Kept), NEW m \in Kept
  PROVE  Retains(s, Append(s, m))
<1> SUFFICES ASSUME NEW i \in DOMAIN s, NEW k \in DOMAIN s, At(s, i, k)
             PROVE  HasPair(Append(s, m), s[i], s[k])
  BY DEF Retains
<1>1. HasPair(s, s[i], s[k])
  BY DEF HasPair
<1> QED BY <1>1, PairAppend

LEMMA TrimKeepsAll ==
  ASSUME NEW s \in Seq(Kept), Ordered(s)
  PROVE  Keeps(s, Trim(s)) /\ Present(Trim(s)) \subseteq Present(s)
<1>1. Keeps(s, Trim(s))
  BY TrimKeeps DEF Keeps
<1>2. From(Trim(s), s, DOMAIN s)
  BY TrimOrdered
<1> QED BY <1>1, <1>2, FromDrawn, DrawnPresent

\* appendMessage: pushed and trimmed.
LEMMA AppendTrimKeeps ==
  ASSUME NEW s \in Seq(Kept), NEW m \in Kept, Ordered(Append(s, m))
  PROVE  Keeps(s, Trim(Append(s, m)))
<1>1. Append(s, m) \in Seq(Kept)
  OBVIOUS
<1> QED BY <1>1, AppendRetains, TrimKeepsAll, KeepsThen

LEMMA RepairRetains ==
  ASSUME NEW s \in Seq(Kept)
  PROVE  Retains(s, Repair(s, FALSE))
BY RepairKeeps DEF Retains

LEMMA OnlyRetains ==
  ASSUME NEW s \in Seq(Kept), NEW roles, {"assistant", "tool", "stub"} \subseteq roles
  PROVE  Retains(s, Only(s, roles))
BY OnlyKeeps DEF Retains

LEMMA CutKeeps ==
  ASSUME NEW s \in Seq(Kept), Ordered(s), NEW n \in Nat, n <= Len(s)
  PROVE  Keeps(s, SubSeq(s, 1, n))
<1> DEFINE t == SubSeq(s, 1, n)
<1>1. /\ t \in Seq(Kept) /\ \A j \in 1..n : j \in DOMAIN t /\ t[j] = s[j]
      /\ From(t, s, 1..n)
  <2>1. 1 \in Nat \ {0}
    OBVIOUS
  <2>2. /\ t \in Seq(Kept) /\ \A j \in 1..n : j - 1 + 1 \in DOMAIN t /\ t[j - 1 + 1] = s[j]
        /\ From(t, s, 1..n)
    BY <2>1, SubSeqAt, SubSeqOrdered
  <2>3. \A j \in 1..n : j - 1 + 1 = j
    OBVIOUS
  <2> QED BY <2>2, <2>3
<1> HIDE DEF t
<1> SUFFICES ASSUME NEW i \in DOMAIN s, NEW k \in DOMAIN s, At(s, i, k)
             PROVE  HasPair(t, s[i], s[k]) \/ s[k].id \notin Present(t)
  BY DEF Keeps, t
<1>2. CASE k <= n
  <2>1. \A h \in i..k : h + 0 \in DOMAIN t /\ t[h + 0] = s[h]
    <3> TAKE h \in i..k
    <3>1. h \in 1..n /\ h + 0 = h
      BY <1>2
    <3> QED BY <1>1, <3>1
  <2>2. 0 \in Int
    OBVIOUS
  <2> QED BY <1>1, <2>1, <2>2, AtShift
<1>3. CASE ~ (k <= n)
  <2>1. 1..n \subseteq (DOMAIN s) \ {k}
    BY <1>3
  <2>2. Drawn(t, s, (DOMAIN s) \ {k})
    BY <1>1, <2>1, FromMore, FromDrawn
  <2>3. s[k].role = "tool"
    BY DEF At
  <2> QED BY <1>1, <2>2, <2>3, NotPresent
<1> QED BY <1>2, <1>3

(***************************************************************************)
(* A compaction leaves both, with nothing between them that was not there, *)
(* or the result is gone: taken, or dropped as an orphan (OneTaken).       *)
(***************************************************************************)
LEMMA BothLeft ==
  ASSUME NEW s \in Seq(Kept), Ordered(s), NEW from \in Nat \ {0}, NEW to \in Nat,
         from <= Len(s), from <= to, NEW i, NEW k, At(s, i, k),
         i \in Left(s, from, to), k \in Left(s, from, to)
  PROVE  HasPair(Remaining(s, from, to), s[i], s[k])
<1> DEFINE a == Ahead(s, from)
           b == Middle(s, from, to)
           c == Behind(s, to)
           w == to - from + 1
<1>1. /\ i \in Nat /\ k \in Nat /\ 1 <= i /\ i < k /\ k <= Len(s) /\ Len(s) \in Nat
      /\ s[k].role = "tool" /\ s[i].role = "assistant" /\ s[k].id \in s[i].refs
      /\ \A h \in i+1..k : Result(s[h])
      /\ \A h \in i+1..k-1 : s[h].id # s[k].id
  BY DEF At, Follows, Answers
<1>2. /\ a \in Seq(Kept) /\ b \in Seq(Kept) /\ c \in Seq(Kept)
      /\ From(b, s, {j \in from..Top(s, to) : ~Compressible(s[j])})
      /\ Remaining(s, from, to) = (a \o b) \o c
  BY PartsOrdered, RemainingOrdered
<1>3. /\ Len(a) = from - 1
      /\ \A j \in 1..(from-1) : j \in DOMAIN a /\ a[j] = s[j]
  <2>1. from - 1 \in Nat /\ 1 \in Nat \ {0} /\ from - 1 <= Len(s)
    OBVIOUS
  <2>2. /\ Len(a) = IF 1 <= from - 1 THEN (from - 1) - 1 + 1 ELSE 0
        /\ \A j \in 1..(from-1) : j - 1 + 1 \in DOMAIN a /\ a[j - 1 + 1] = s[j]
    <3>1. 1 \in Nat \ {0} /\ a = SubSeq(s, 1, from - 1)
      BY DEF Ahead
    <3> HIDE DEF a
    <3> QED BY <2>1, <3>1, SubSeqAt
  <2>3. (IF 1 <= from - 1 THEN (from - 1) - 1 + 1 ELSE 0) = from - 1
    BY <2>1
  <2>4. \A j \in 1..(from-1) : j \in DOMAIN a /\ a[j] = s[j]
    <3> HIDE DEF a
    <3> TAKE j \in 1..(from-1)
    <3>1. j - 1 + 1 = j
      OBVIOUS
    <3> QED BY <2>2, <3>1
  <2>5. Len(a) = from - 1
    <3> HIDE DEF a
    <3> QED BY <2>2, <2>3
  <2> QED BY <2>4, <2>5
<1>4. \A j \in to+1..Len(s) : j - to \in DOMAIN c /\ c[j - to] = s[j]
  <2>1. to + 1 \in Nat \ {0} /\ Len(s) \in Nat /\ Len(s) <= Len(s)
    OBVIOUS
  <2>2. \A j \in to+1..Len(s) : j - (to + 1) + 1 \in DOMAIN c /\ c[j - (to + 1) + 1] = s[j]
    BY <2>1, SubSeqAt DEF Behind
  <2> HIDE DEF c
  <2> TAKE j \in to+1..Len(s)
  <2>3. j - (to + 1) + 1 = j - to
    OBVIOUS
  <2> QED BY <2>2, <2>3
<1>5. (i < from \/ to < i) /\ (k < from \/ to < k)
  <2>1. Compressible(s[i]) /\ Compressible(s[k])
    BY <1>1 DEF Compressible, Compressibles
  <2> QED BY <2>1 DEF Left
<1> HIDE DEF a, b, c
<1>6. CASE k < from
  <2>1. \A h \in i..k : h + 0 \in DOMAIN a /\ a[h + 0] = s[h]
    <3> TAKE h \in i..k
    <3>1. h \in 1..(from-1) /\ h + 0 = h
      BY <1>1, <1>6
    <3> QED BY <1>3, <3>1
  <2>2. HasPair(a, s[i], s[k])
    <3>1. 0 \in Int
      OBVIOUS
    <3> QED BY <1>2, <2>1, <3>1, AtShift
  <2>3. HasPair(a \o b, s[i], s[k]) /\ a \o b \in Seq(Kept)
    BY <1>2, <2>2, PairJoinLeft, Joins
  <2> QED BY <1>2, <2>3, PairJoinLeft
<1>7. CASE to < i
  <2>1. \A h \in i..k : h + (-to) \in DOMAIN c /\ c[h + (-to)] = s[h]
    <3> TAKE h \in i..k
    <3>1. h \in to+1..Len(s) /\ h + (-to) = h - to
      BY <1>1, <1>7
    <3> QED BY <1>4, <3>1
  <2>2. -to \in Int
    OBVIOUS
  <2>3. HasPair(c, s[i], s[k])
    BY <1>2, <2>1, <2>2, AtShift
  <2>4. a \o b \in Seq(Kept)
    BY <1>2, Joins
  <2> QED BY <1>2, <2>3, <2>4, PairJoinRight
<1>8. CASE i < from /\ to < k
  <2>1. Top(s, to) = to
    BY <1>1, <1>8 DEF Top
  <2>2. {j \in from..Top(s, to) : ~Compressible(s[j])} = {}
    <3> SUFFICES ASSUME NEW j \in from..to PROVE Compressible(s[j])
      BY <2>1
    <3>1. j \in i+1..k
      BY <1>1, <1>8
    <3> QED BY <1>1, <3>1 DEF Compressible, Compressibles, Result
  <2>3. b = <<>>
    <3>1. DOMAIN b = {}
      BY <1>2, <2>2 DEF From
    <3> QED BY <1>2, <3>1
  <2>4. a \o b = a
    BY <1>2, <2>3
  <2> DEFINE new == a \o c
             l == Len(a)
  <2>5. new \in Seq(Kept) /\ Remaining(s, from, to) = new
    BY <1>2, <2>4, Joins
  <2>6. /\ \A p \in DOMAIN a : p \in DOMAIN new /\ new[p] = a[p]
        /\ \A q \in DOMAIN c : l + q \in DOMAIN new /\ new[l + q] = c[q]
    BY <1>2, JoinedAt
  <2> HIDE DEF new
  <2>7. \A j \in 1..(from-1) : j \in DOMAIN new /\ new[j] = s[j]
    BY <1>3, <2>6
  <2>8. \A j \in to+1..Len(s) : j - w \in DOMAIN new /\ new[j - w] = s[j]
    <3> TAKE j \in to+1..Len(s)
    <3>1. l + (j - to) = j - w
      BY <1>3
    <3> QED BY <1>4, <2>6, <3>1
  <2>9. i \in 1..(from-1) /\ k \in to+1..Len(s)
    BY <1>1, <1>8
  <2>10. i < k - w
    BY <1>1, <1>8
  <2>11. ASSUME NEW g \in i+1..k-w
         PROVE  \E h \in i+1..k : new[g] = s[h] /\ (h = k => g = k - w)
    <3>1. CASE g < from
      <4>1. g \in 1..(from-1) /\ g \in i+1..k /\ g # k
        BY <1>1, <1>8, <3>1
      <4> QED BY <2>7, <4>1
    <3>2. CASE ~ (g < from)
      <4>1. g + w \in to+1..Len(s) /\ g + w \in i+1..k /\ (g + w) - w = g
        BY <1>1, <1>8, <3>2
      <4>2. new[g] = s[g + w]
        BY <2>8, <4>1
      <4>3. g + w = k => g = k - w
        OBVIOUS
      <4> QED BY <4>1, <4>2, <4>3
    <3> QED BY <3>1, <3>2
  <2>12. new[i] = s[i] /\ new[k-w] = s[k] /\ i \in DOMAIN new /\ k - w \in DOMAIN new
    BY <2>7, <2>8, <2>9
  <2>13. \A g \in i+1..k-w : Result(new[g])
    BY <1>1, <2>11
  <2>14. \A g \in i+1..(k-w)-1 : new[g].id # s[k].id
    <3> TAKE g \in i+1..(k-w)-1
    <3>1. g \in i+1..k-w /\ g # k - w
      BY <1>1
    <3>2. PICK h \in i+1..k : new[g] = s[h] /\ h # k
      BY <2>11, <3>1
    <3>3. h \in i+1..k-1
      BY <1>1, <3>2
    <3> QED BY <1>1, <3>2, <3>3
  <2> HIDE DEF w
  <2>15. At(new, i, k - w)
    BY <1>1, <2>10, <2>12, <2>13, <2>14 DEF At, Follows, Answers, Result
  <2>16. HasPair(new, s[i], s[k])
    BY <2>12, <2>15 DEF HasPair
  <2> QED BY <2>5, <2>16
<1> QED BY <1>1, <1>5, <1>6, <1>7, <1>8

LEMMA OneTaken ==
  ASSUME NEW s \in Seq(Kept), Ordered(s), NEW from \in Nat \ {0}, NEW to \in Nat,
         from <= Len(s), from <= to, NEW summary \in Kept, summary.role = "summary",
         NEW i, NEW k, At(s, i, k), i \notin Left(s, from, to) \/ k \notin Left(s, from, to)
  PROVE  s[k].id \notin Present(Fixed(s, from, to, summary))
<1> DEFINE t == Fixed(s, from, to, summary)
           c == s[k].id
<1>1. /\ i \in DOMAIN s /\ k \in DOMAIN s /\ s[k].role = "tool" /\ s[i].role = "assistant"
      /\ c \in s[i].refs
  BY DEF At, Follows, Answers
<1>2. /\ t \in Seq(Kept) /\ Ordered(t) /\ \E pending \in SUBSET Ids : Paired(t, pending)
      /\ \A p \in DOMAIN t : t[p] = summary \/ t[p].role = "stub" \/ \E j \in Left(s, from, to) : t[p] = s[j]
  <2>1. /\ Fixed(s, from, to, summary) \in Seq(Kept) /\ Ordered(Fixed(s, from, to, summary))
        /\ \E pending \in SUBSET Ids : Paired(Fixed(s, from, to, summary), pending)
        /\ \A p \in DOMAIN Fixed(s, from, to, summary) :
             LET m == Fixed(s, from, to, summary)[p] IN
             m = summary \/ m.role = "stub" \/ \E j \in Left(s, from, to) : m = s[j]
    BY FixedOrdered
  <2> QED BY <2>1
<1> HIDE DEF t
<1>3. Left(s, from, to) \subseteq DOMAIN s
  BY DEF Left
<1> SUFFICES ASSUME NEW p \in DOMAIN t, t[p].role # "stub", t[p].id = c PROVE FALSE
  BY DEF Present, Range, t
<1>4. s[k] \in Kept /\ c # 0 /\ summary.id = 0
  <2>1. s[k] \in Kept
    BY <1>1
  <2> QED BY <1>1, <2>1, KeptIs
<1>5. PICK j \in Left(s, from, to) : t[p] = s[j]
  BY <1>2, <1>4
<1>6. Real(s[j]) /\ Real(s[k])
  <2>1. s[j] \in Kept
    BY <1>3
  <2>2. s[j].role # "summary"
    BY <1>4, <1>5, <2>1, KeptIs
  <2> QED BY <1>1, <1>5, <2>2 DEF Real
<1>7. j = k
  <2>1. j < k \/ k < j \/ j = k
    BY <1>1, <1>3
  <2> QED BY <1>1, <1>3, <1>5, <1>6, <2>1 DEF Ordered, Before
<1>8. PICK q \in DOMAIN t : Follows(t, q, p)
  BY <1>1, <1>2, <1>5, <1>7 DEF Paired, ResultsFollow, Result
<1>9. t[q].role = "assistant" /\ c \in t[q].refs
  BY <1>8 DEF Follows, Answers
<1>10. PICK g \in Left(s, from, to) : t[q] = s[g]
  BY <1>2, <1>9
<1>11. g = i
  <2>1. g < i \/ i < g \/ g = i
    BY <1>1, <1>3
  <2> QED BY <1>1, <1>3, <1>9, <1>10, <2>1 DEF Ordered, Before
<1> QED BY <1>7, <1>11

LEMMA BothFixed ==
  ASSUME NEW s \in Seq(Kept), Ordered(s), NEW from \in Nat \ {0}, NEW to \in Nat,
         from <= Len(s), from <= to, NEW summary \in Kept, summary.role = "summary",
         NEW i, NEW k, At(s, i, k), i \in Left(s, from, to), k \in Left(s, from, to)
  PROVE  HasPair(Fixed(s, from, to, summary), s[i], s[k])
<1> DEFINE r == Remaining(s, from, to)
           roles == Roles \ {"summary"}
           f == <<summary>>
           o == Only(r, roles)
           t == f \o o
<1>1. r \in Seq(Kept) /\ HasPair(r, s[i], s[k])
  BY BothLeft, RemainingOrdered
<1>2. {"assistant", "tool", "stub"} \subseteq roles /\ f \in Seq(Kept)
  BY DEF Roles
<1>3. Fixed(s, from, to, summary) = Repair(t, FALSE)
  BY DEF Fixed, Rest
<1>4. t \in Seq(Kept) /\ o \in Seq(Kept)
  BY RestOrdered DEF Rest
<1> HIDE DEF r, roles, f
<1>5. PICK p \in DOMAIN r, q \in DOMAIN r : At(r, p, q) /\ r[p] = s[i] /\ r[q] = s[k]
  BY <1>1 DEF HasPair
<1>6. HasPair(o, s[i], s[k])
  BY <1>1, <1>2, <1>5, OnlyKeeps
<1> HIDE DEF o
<1>7. HasPair(t, s[i], s[k])
  BY <1>2, <1>4, <1>6, PairJoinRight
<1> HIDE DEF t
<1>8. PICK v \in DOMAIN t, w \in DOMAIN t : At(t, v, w) /\ t[v] = s[i] /\ t[w] = s[k]
  BY <1>7 DEF HasPair
<1>9. HasPair(Repair(t, FALSE), t[v], t[w])
  BY <1>4, <1>8, RepairKeeps
<1> QED BY <1>3, <1>8, <1>9

LEMMA FixedKeeps ==
  ASSUME NEW s \in Seq(Kept), Ordered(s), NEW from \in Nat \ {0}, NEW to \in Nat,
         from <= Len(s), from <= to, NEW summary \in Kept, summary.role = "summary"
  PROVE  Keeps(s, Fixed(s, from, to, summary))
BY OneTaken, BothFixed DEF Keeps

LEMMA StepKeeps ==
  ASSUME OInv, [Next]_vars
  PROVE  Keeps(chat, chat')
<1>1. chat \in Seq(Kept) /\ chat' \in Seq(Kept) /\ Ordered(chat) /\ Past(chat, next) /\ next \in Nat /\ HInv
  BY NextInv DEF OInv, HInv, ChatOK, OrderOK, CountsOK
<1>2. ASSUME chat' = chat PROVE Keeps(chat, chat')
  BY <1>2 DEF Keeps, HasPair
<1>3. ASSUME NEW m \in Kept, AppendMessage(m), Ordered(Append(chat, m)) PROVE Keeps(chat, chat')
  BY <1>1, <1>3, AppendTrimKeeps DEF AppendMessage
<1>4. ASSUME NEW role \in {"user", "report", "assistant"}, next <= MaxIds,
             AppendMessage(Message(role, next, {}))
      PROVE  Keeps(chat, chat')
  <2> DEFINE m == Message(role, next, {})
  <2>1. m \in Kept
    BY <1>1, <1>4, NextTyped DEF Roles
  <2>2. m.id = next /\ m.role = role /\ m.refs = {} /\ AppendMessage(m)
    BY <1>4 DEF Message
  <2> HIDE DEF m
  <2>3. Ordered(Append(chat, m))
    BY <1>1, <2>1, <2>2, FreshOrdered
  <2> QED BY <1>3, <2>1, <2>2, <2>3
<1>5. CASE Prompt \/ Reply \/ WriteBack \/ Merge
  BY <1>4, <1>5 DEF Prompt, Reply, WriteBack, Merge
<1>6. ASSUME NEW calls \in 1..MaxCalls, CallTools(calls) PROVE Keeps(chat, chat')
  BY <1>3, <1>6, CallsOrdered DEF OInv
<1>7. ASSUME NEW c \in open, ToolResult(c) PROVE Keeps(chat, chat')
  <2> DEFINE m == Message("tool", c, {})
  <2>1. c \in Ids /\ c \notin Present(chat)
    BY DEF OInv, HInv, TaskOK, OpenOK
  <2>2. m \in Kept /\ m.id = c /\ m.role = "tool"
    BY <2>1, MessageTyped DEF Roles, Message
  <2>3. AppendMessage(m)
    BY <1>7 DEF ToolResult
  <2> HIDE DEF m
  <2>4. Ordered(Append(chat, m))
    BY <1>1, <2>1, <2>2, ResultOrdered
  <2> QED BY <1>3, <2>2, <2>3, <2>4
<1>8. CASE LoadAgent
  <2>1. Message("prompt", next, {}) \in Kept
    BY <1>1, <1>8, NextTyped DEF LoadAgent, Roles
  <2>2. Retains(chat, chat')
    BY <1>1, <1>8, <2>1, AppendRetains DEF LoadAgent
  <2> QED BY <2>2 DEF Retains, Keeps
<1>9. CASE UnloadAgent
  <2>1. {"assistant", "tool", "stub"} \subseteq Roles \ {"prompt"}
    BY DEF Roles
  <2>2. Retains(chat, chat')
    BY <1>1, <1>9, <2>1, OnlyRetains DEF UnloadAgent
  <2> QED BY <2>2 DEF Retains, Keeps
<1>10. ASSUME NEW k \in DOMAIN chat, Truncate(k) PROVE Keeps(chat, chat')
  <2>1. k - 1 \in Nat /\ k - 1 <= Len(chat)
    BY <1>1
  <2> QED BY <1>1, <1>10, <2>1, CutKeeps DEF Truncate
<1>11. CASE Load
  <2>1. Retains(chat, chat')
    BY <1>1, <1>11, RepairRetains DEF Load
  <2> QED BY <2>1 DEF Retains, Keeps
<1>12. CASE Restart
  <2> DEFINE back == Repair(chat, FALSE)
             m == Message("user", next, {})
  <2>1. back \in Seq(Kept) /\ Ordered(back) /\ Past(back, next) /\ Retains(chat, back)
    BY <1>1, RepairInOrder, RepairRetains
  <2>2. m \in Kept /\ m.id = next /\ m.role = "user" /\ m.refs = {}
    BY <1>1, <1>12, NextTyped DEF Restart, Roles, Message
  <2>3. chat' = Trim(Append(back, m)) \/ chat' = back
    BY <1>12 DEF Restart
  <2> HIDE DEF back, m
  <2>4. Ordered(Append(back, m))
    BY <1>1, <2>1, <2>2, FreshOrdered
  <2>5. Keeps(back, Trim(Append(back, m)))
    BY <2>1, <2>2, <2>4, AppendTrimKeeps
  <2>6. Keeps(chat, Trim(Append(back, m))) /\ Keeps(chat, back)
    BY <2>1, <2>5, KeepsThen DEF Retains, Keeps
  <2> QED BY <2>3, <2>6
<1>13. CASE EndRun \/ TaskCompacts \/ UserCompacts
  BY <1>2, <1>13 DEF EndRun, TaskCompacts, UserCompacts, StartCompaction
<1>14. ASSUME NEW by \in By, NEW ok \in BOOLEAN, FinishCompaction(by, ok) PROVE Keeps(chat, chat')
  <2>1. CASE Removable(chat, plan[by].from, plan[by].to) = <<>>
    BY <1>2, <1>14, <2>1 DEF FinishCompaction
  <2>2. CASE Removable(chat, plan[by].from, plan[by].to) # <<>>
    <3> DEFINE from == plan[by].from
               to == plan[by].to
    <3>1. /\ from \in Nat \ {0} /\ to \in Nat /\ from <= Len(chat) /\ from <= to
          /\ \E summary \in Kept : summary.role = "summary" /\ chat' = Trim(Fixed(chat, from, to, summary))
      BY <1>1, <1>14, <2>2, Finished
    <3> HIDE DEF from, to
    <3>2. PICK summary \in Kept : summary.role = "summary" /\ chat' = Trim(Fixed(chat, from, to, summary))
      BY <3>1
    <3> DEFINE t == Fixed(chat, from, to, summary)
    <3>3. t \in Seq(Kept) /\ Ordered(t) /\ Keeps(chat, t)
      BY <1>1, <3>1, <3>2, FixedOrdered, FixedKeeps
    <3>4. chat' = Trim(t)
      BY <3>2
    <3> HIDE DEF t
    <3> QED BY <3>3, <3>4, TrimKeepsAll, KeepsThen
  <2> QED BY <2>1, <2>2
<1>15. CASE UNCHANGED vars
  BY <1>2, <1>15 DEF vars
<1> QED BY <1>5, <1>6, <1>7, <1>8, <1>9, <1>10, <1>11, <1>12, <1>13, <1>14, <1>15 DEF Next

\* A result behind its assistant message stays there or goes: trimming counts
\* in whole groups, a compaction that takes one of the two takes the other as
\* an orphan, and nothing is ever written between them.
THEOREM ResultsStayAttached == Spec => StaysAttached
<1>1. OInv /\ [Next]_vars => Attached(chat) \intersect Present(chat') \subseteq Attached(chat')
  <2> SUFFICES ASSUME OInv, [Next]_vars PROVE Attached(chat) \intersect Present(chat') \subseteq Attached(chat')
    OBVIOUS
  <2>1. chat \in Seq(Kept) /\ chat' \in Seq(Kept)
    BY NextInv DEF OInv, HInv, ChatOK
  <2> QED BY <2>1, StepKeeps, KeepsMeans
<1> QED BY <1>1, OrderInvariance, PTL DEF Spec, StaysAttached

(***************************************************************************)
(* Messages found by their identity.                                       *)
(***************************************************************************)
LEMMA SameMessage ==
  ASSUME NEW s \in Seq(Kept), Ordered(s), NEW i \in DOMAIN s, NEW j \in DOMAIN s,
         ~Result(s[i]), s[i].role # "summary", s[j].id = s[i].id
  PROVE  j = i
<1>1. s[i] \in Kept /\ s[j] \in Kept
  OBVIOUS
<1>2. s[j].role # "summary" /\ Real(s[i])
  BY <1>1, KeptIs DEF Real, Result
<1>3. ASSUME i < j \/ j < i PROVE FALSE
  <2>1. Apart(s[j], s[i]) /\ (Real(s[i]) /\ Real(s[j]) => s[i].id # s[j].id)
    BY <1>3 DEF Ordered, Before
  <2>2. ~Real(s[j])
    BY <1>2, <2>1
  <2>3. s[j].role = "stub"
    BY <1>2, <2>2 DEF Real
  <2> QED BY <2>1, <2>3 DEF Apart
<1>4. i < j \/ j < i \/ j = i
  OBVIOUS
<1> QED BY <1>3, <1>4

\* In a repaired history whatever is not a placeholder has its identity for itself.
LEMMA SameRepaired ==
  ASSUME NEW out \in Seq(Kept), NEW pending, Paired(out, pending), Ordered(out),
         NEW p \in DOMAIN out, NEW q \in DOMAIN out, Real(out[p]), out[q].id = out[p].id
  PROVE  q = p
<1>1. out[p] \in Kept /\ out[q] \in Kept
  OBVIOUS
<1>2. out[p].role # "summary" /\ out[q].role # "summary"
  BY <1>1, KeptIs DEF Real
<1>3. CASE ~Result(out[p])
  BY <1>2, <1>3, SameMessage
<1>4. CASE ~Result(out[q])
  BY <1>2, <1>4, SameMessage
<1>5. CASE Result(out[p]) /\ Result(out[q])
  BY <1>5, ResultsUnique
<1> QED BY <1>3, <1>4, <1>5

LEMMA SameResult ==
  ASSUME NEW s \in Seq(Kept), Ordered(s), NEW i, NEW k, At(s, i, k),
         NEW j \in DOMAIN s, Result(s[j]), s[j].id = s[k].id
  PROVE  j = k
<1>1. /\ i \in DOMAIN s /\ k \in DOMAIN s /\ i < k
      /\ s[k].role = "tool" /\ s[i].role = "assistant" /\ s[k].id \in s[i].refs
      /\ \A h \in i+1..k-1 : s[h].id # s[k].id
  BY DEF At, Follows, Answers
<1>2. CASE s[j].role = "tool"
  <2>1. Real(s[j]) /\ Real(s[k])
    BY <1>1, <1>2 DEF Real
  <2>2. j < k \/ k < j \/ j = k
    BY <1>1
  <2> QED BY <1>1, <2>1, <2>2 DEF Ordered, Before
<1>3. CASE s[j].role = "stub"
  <2>1. CASE k < j
    BY <1>1, <1>3, <2>1 DEF Ordered, Before
  <2>2. CASE i < j /\ j < k
    <3>1. j \in i+1..k-1
      BY <1>1, <2>2
    <3> QED BY <1>1, <3>1
  <2>3. CASE j < i
    BY <1>1, <2>3 DEF Ordered, Before
  <2>4. j # i
    BY <1>1, <1>3
  <2>5. k < j \/ (i < j /\ j < k) \/ j < i \/ j = i \/ j = k
    BY <1>1
  <2> QED BY <2>1, <2>2, <2>3, <2>4, <2>5
<1> QED BY <1>2, <1>3 DEF Result

\* What has its identity for itself is found after trimming, or its identity is gone.
LEMMA TrimLeaves ==
  ASSUME NEW s \in Seq(Kept), Ordered(s), NEW j \in DOMAIN s,
         \A i \in DOMAIN s : s[i].id = s[j].id => s[i] = s[j]
  PROVE  s[j] \in Range(Trim(s)) \/ s[j].id \notin IdsOf(Trim(s))
<1> DEFINE out == Trim(s)
<1>1. From(out, s, DOMAIN s)
  BY TrimOrdered
<1> HIDE DEF out
<1> SUFFICES ASSUME s[j].id \in IdsOf(out) PROVE s[j] \in Range(out)
  BY DEF out
<1>2. PICK p \in DOMAIN out : out[p].id = s[j].id
  BY DEF IdsOf, Range
<1>3. out[p] = s[j]
  BY <1>1, <1>2 DEF From
<1> QED BY <1>3 DEF Range

\* What reading back keeps, and that nothing else has its identity then.
LEMMA RepairLeaves ==
  ASSUME NEW s \in Seq(Kept), Ordered(s), NEW j \in DOMAIN s, ~Result(s[j]) \/ s[j].id \in Attached(s)
  PROVE  /\ s[j].role # "stub"
         /\ \E p \in DOMAIN Repair(s, FALSE) :
              /\ Repair(s, FALSE)[p] = s[j]
              /\ s[j].role # "summary" =>
                   \A q \in DOMAIN Repair(s, FALSE) :
                     Repair(s, FALSE)[q].id = s[j].id => Repair(s, FALSE)[q] = s[j]
<1> DEFINE out == Repair(s, FALSE)
<1>1. out \in Seq(Kept) /\ Ordered(out) /\ \E pending \in SUBSET Ids : Paired(out, pending)
  BY RepairOrdered, RepairTyped, RepairFollows
<1>2. s[j].role # "stub" /\ s[j] \in Range(out)
  <2>1. CASE ~Result(s[j])
    BY <2>1, RepairAll DEF Result
  <2>2. CASE Result(s[j])
    <3>1. PICK i \in DOMAIN s, k \in DOMAIN s : At(s, i, k) /\ s[k].id = s[j].id
      BY <2>2, AttachedIs
    <3>2. j = k
      BY <2>2, <3>1, SameResult
    <3>3. HasPair(out, s[i], s[k])
      BY <3>1, RepairKeeps
    <3>4. s[k].role = "tool"
      BY <3>1 DEF At
    <3> HIDE DEF out
    <3> QED BY <3>2, <3>3, <3>4 DEF HasPair, Range
  <2> QED BY <2>1, <2>2
<1> HIDE DEF out
<1>3. PICK p \in DOMAIN out : out[p] = s[j]
  BY <1>2 DEF Range
<1>4. s[j].role # "summary" => \A q \in DOMAIN out : out[q].id = s[j].id => out[q] = s[j]
  <2> SUFFICES ASSUME s[j].role # "summary", NEW q \in DOMAIN out, out[q].id = s[j].id PROVE out[q] = s[j]
    OBVIOUS
  <2>1. Real(out[p])
    BY <1>2, <1>3 DEF Real
  <2>2. q = p
    BY <1>1, <1>3, <2>1, SameRepaired
  <2> QED BY <1>3, <2>2
<1> QED BY <1>2, <1>3, <1>4 DEF out

LEMMA LoadLeaves ==
  ASSUME OInv, [Next]_vars, loads' # loads, NEW m \in Range(chat),
         m.role \notin {"tool", "stub"} \/ m.id \in Attached(chat)
  PROVE  m \in Range(chat') \/ m.id \in excused'
<1> DEFINE back == Repair(chat, FALSE)
           note == Message("user", next, {})
           t == Append(back, note)
<1>1. chat \in Seq(Kept) /\ Ordered(chat) /\ Past(chat, next) /\ next \in Nat /\ HInv
  BY DEF OInv, HInv, ChatOK, OrderOK, CountsOK
<1>2. PICK j \in DOMAIN chat : m = chat[j]
  BY DEF Range
<1>3. back \in Seq(Kept) /\ Ordered(back) /\ Past(back, next)
  BY <1>1, RepairInOrder
<1>4. /\ m.role # "stub"
      /\ \E p \in DOMAIN back :
           /\ back[p] = m
           /\ m.role # "summary" => \A q \in DOMAIN back : back[q].id = m.id => back[q] = m
  BY <1>1, <1>2, RepairLeaves DEF Result
<1>5. Load \/ Restart
  BY DEF Next, vars, bounds, Prompt, Reply, EndRun, CallTools, ToolResult, WriteBack, Merge, LoadAgent,
         UnloadAgent, Truncate, TaskCompacts, UserCompacts, StartCompaction, FinishCompaction
<1>6. \/ chat' = back
      \/ /\ chat' = Trim(t) /\ next <= MaxIds
         /\ excused' = excused \union ((IdsOf(back) \union {next}) \ IdsOf(chat'))
  BY <1>5 DEF Load, Restart
<1> HIDE DEF back
<1>7. PICK p \in DOMAIN back :
        /\ back[p] = m
        /\ m.role # "summary" => \A q \in DOMAIN back : back[q].id = m.id => back[q] = m
  BY <1>4
<1>8. CASE chat' = back
  BY <1>7, <1>8 DEF Range
<1>9. CASE /\ chat' = Trim(t) /\ next <= MaxIds
           /\ excused' = excused \union ((IdsOf(back) \union {next}) \ IdsOf(chat'))
  <2>1. note \in Kept /\ note.id = next /\ note.role = "user" /\ note.refs = {}
    BY <1>1, <1>9, NextTyped DEF Roles, Message
  <2> HIDE DEF note
  <2>2. t \in Seq(Kept) /\ Ordered(t)
    BY <1>1, <1>3, <2>1, FreshOrdered
  <2>3. /\ DOMAIN t = 1..(Len(back) + 1) /\ DOMAIN back = 1..Len(back) /\ Len(back) \in Nat
        /\ \A q \in 1..Len(back) : t[q] = back[q]
        /\ t[Len(back) + 1] = note
    BY <1>3, <2>1, Appends
  <2> HIDE DEF t
  <2>4. p \in DOMAIN t /\ t[p] = m
    BY <1>7, <2>3
  <2>5. CASE m.role = "summary"
    <3>1. Protected(t[p])
      BY <2>4, <2>5 DEF Protected
    <3> QED BY <1>9, <2>2, <2>4, <3>1, TrimAll
  <2>6. CASE m.role # "summary"
    <3>1. m.id # next
      <4>1. Below(m, next) /\ m \in Kept
        BY <1>3, <1>7 DEF Past
      <4> QED BY <1>1, <4>1, KeptIs DEF Below
    <3>2. \A q \in DOMAIN t : t[q].id = t[p].id => t[q] = t[p]
      <4> SUFFICES ASSUME NEW q \in DOMAIN t, t[q].id = m.id PROVE t[q] = m
        BY <2>4
      <4>1. q \in DOMAIN back
        <5>1. q # Len(back) + 1
          BY <2>1, <2>3, <3>1
        <5> QED BY <2>3, <5>1
      <4> QED BY <1>7, <2>3, <2>6, <4>1
    <3>3. m \in Range(chat') \/ m.id \notin IdsOf(chat')
      BY <1>9, <2>2, <2>4, <3>2, TrimLeaves
    <3>4. m.id \in IdsOf(back)
      BY <1>7 DEF IdsOf, Range
    <3> QED BY <1>9, <3>3, <3>4
  <2> QED BY <2>5, <2>6
<1> QED BY <1>6, <1>8, <1>9

\* Reading a session back loses no message but results that were parted from
\* their assistant message: repairToolPairing drops nothing else, and the note
\* of an interrupted run trims as every message does.
THEOREM LoadsLoseNothing == Spec => LoadKeepsAttached
<1>1. OInv /\ [Next]_vars =>
        (loads' # loads =>
          \A m \in Range(chat) :
            m.role \notin {"tool", "stub"} \/ m.id \in Attached(chat) => m \in Range(chat') \/ m.id \in excused')
  BY LoadLeaves
<1> QED BY <1>1, OrderInvariance, PTL DEF Spec, LoadKeepsAttached

(***************************************************************************)
(* What a compaction takes and leaves, message by message.                 *)
(***************************************************************************)
LEMMA TakenRead ==
  ASSUME NEW s \in Seq(Kept), Ordered(s), NEW from \in Nat \ {0}, NEW to \in Nat,
         NEW j \in DOMAIN s, j \notin Left(s, from, to)
  PROVE  s[j].id \in IdsOf(Removable(s, from, to))
<1> DEFINE t == Slice(s, from, to)
           out == Only(t, Compressibles)
<1>1. Compressible(s[j]) /\ j \in from..Top(s, to)
  BY DEF Left, Top
<1>2. t \in Seq(Kept) /\ s[j] \in Range(t)
  BY <1>1, SliceOrdered
<1>3. out = Removable(s, from, to)
  BY DEF Removable
<1> HIDE DEF t
<1>4. PICK p \in DOMAIN t : t[p] = s[j]
  BY <1>2 DEF Range
<1>5. t[p] \in Range(out)
  BY <1>1, <1>2, <1>4, OnlyAll DEF Compressible
<1> HIDE DEF out
<1> QED BY <1>3, <1>4, <1>5 DEF IdsOf

LEMMA LeftStays ==
  ASSUME NEW s \in Seq(Kept), Ordered(s), NEW from \in Nat \ {0}, NEW to \in Nat,
         from <= Len(s), from <= to, NEW summary \in Kept, summary.role = "summary",
         NEW j \in Left(s, from, to), ~Result(s[j]), s[j].role # "summary"
  PROVE  s[j] \in Range(Fixed(s, from, to, summary))
<1> DEFINE a == Ahead(s, from)
           b == Middle(s, from, to)
           c == Behind(s, to)
           r == Remaining(s, from, to)
           o == Only(r, Roles \ {"summary"})
           f == <<summary>>
           t == f \o o
<1>1. j \in DOMAIN s /\ s[j] \in Kept /\ Len(s) \in Nat /\ j \in 1..Len(s)
  BY DEF Left
<1>2. /\ a \in Seq(Kept) /\ b \in Seq(Kept) /\ c \in Seq(Kept)
      /\ r \in Seq(Kept) /\ r = (a \o b) \o c
  BY PartsOrdered, RemainingOrdered
<1>3. ASSUME j < from PROVE s[j] \in Range(a)
  <2>1. 1 \in Nat \ {0} /\ from - 1 \in Nat /\ from - 1 <= Len(s) /\ j \in 1..(from-1)
    BY <1>1, <1>3
  <2>2. j - 1 + 1 \in DOMAIN a /\ a[j - 1 + 1] = s[j]
    BY <2>1, SubSeqAt DEF Ahead
  <2> HIDE DEF a
  <2> QED BY <2>2 DEF Range
<1>4. ASSUME to < j PROVE s[j] \in Range(c)
  <2>1. to + 1 \in Nat \ {0} /\ Len(s) \in Nat /\ Len(s) <= Len(s) /\ j \in to+1..Len(s)
    BY <1>1, <1>4
  <2>2. j - (to + 1) + 1 \in DOMAIN c /\ c[j - (to + 1) + 1] = s[j]
    BY <2>1, SubSeqAt DEF Behind
  <2> HIDE DEF c
  <2> QED BY <2>2 DEF Range
<1>5. ASSUME ~ (j < from) /\ ~ (to < j) PROVE s[j] \in Range(b)
  <2> DEFINE u == Slice(s, from, to)
  <2>1. ~Compressible(s[j]) /\ j \in from..Top(s, to)
    BY <1>1, <1>5 DEF Left, Top
  <2>2. u \in Seq(Kept) /\ s[j] \in Range(u)
    BY <2>1, SliceOrdered
  <2>3. b = Only(u, Roles \ Compressibles)
    BY DEF Middle
  <2>4. s[j].role \in Roles \ Compressibles
    BY <1>1, <2>1 DEF Kept, Messages, Compressible
  <2> HIDE DEF u, b
  <2>5. PICK p \in DOMAIN u : u[p] = s[j]
    BY <2>2 DEF Range
  <2>6. u[p] \in Range(b)
    BY <2>2, <2>3, <2>4, <2>5, OnlyAll
  <2> QED BY <2>5, <2>6
<1>6. s[j] \in Range(a) \/ s[j] \in Range(b) \/ s[j] \in Range(c)
  BY <1>3, <1>4, <1>5
<1> HIDE DEF a, b, c
<1>7. s[j] \in Range((a \o b) \o c)
  <2>1. Range(a \o b) = Range(a) \union Range(b) /\ a \o b \in Seq(Kept)
    BY <1>2, RangeJoin, Joins
  <2>2. Range((a \o b) \o c) = Range(a \o b) \union Range(c)
    BY <1>2, <2>1, RangeJoin
  <2> QED BY <1>6, <2>1, <2>2
<1>8. Fixed(s, from, to, summary) = Repair(t, FALSE) /\ t \in Seq(Kept) /\ o \in Seq(Kept) /\ f \in Seq(Kept)
  <2>1. o = Rest(s, from, to)
    BY DEF Rest
  <2>2. o \in Seq(Kept) /\ t \in Seq(Kept)
    BY <2>1, RestOrdered
  <2>3. Fixed(s, from, to, summary) = Repair(t, FALSE)
    BY <2>1 DEF Fixed
  <2>4. f \in Seq(Kept)
    OBVIOUS
  <2> QED BY <2>2, <2>3, <2>4
<1>9. s[j].role \in Roles \ {"summary"}
  BY <1>1 DEF Kept, Messages
<1> HIDE DEF r
<1>10. PICK q \in DOMAIN r : r[q] = s[j]
  BY <1>2, <1>7 DEF Range
<1>11. r[q] \in Range(o)
  BY <1>2, <1>9, <1>10, OnlyAll
<1> HIDE DEF o, f
<1>12. s[j] \in Range(t)
  BY <1>8, <1>10, <1>11, RangeJoin
<1> HIDE DEF t
<1>13. PICK v \in DOMAIN t : t[v] = s[j]
  BY <1>12 DEF Range
<1>14. t[v] \in Range(Repair(t, FALSE))
  BY <1>8, <1>13, RepairAll
<1> QED BY <1>8, <1>13, <1>14

LEMMA SummaryStays ==
  ASSUME NEW s \in Seq(Kept), Ordered(s), NEW from \in Nat \ {0}, NEW to \in Nat,
         from <= Len(s), from <= to, NEW summary \in Kept, summary.role = "summary"
  PROVE  summary \in Range(Trim(Fixed(s, from, to, summary)))
<1> DEFINE o == Rest(s, from, to)
           f == <<summary>>
           t == f \o o
           out == Fixed(s, from, to, summary)
<1>1. out = Repair(t, FALSE) /\ t \in Seq(Kept) /\ o \in Seq(Kept) /\ f \in Seq(Kept) /\ summary \in Range(f)
  BY RestOrdered DEF Fixed, Range
<1>2. out \in Seq(Kept)
  BY FixedOrdered
<1> HIDE DEF o, f, out
<1>3. summary \in Range(t)
  BY <1>1, RangeJoin
<1> HIDE DEF t
<1>4. PICK v \in DOMAIN t : t[v] = summary
  BY <1>3 DEF Range
<1>5. ~Result(t[v])
  BY <1>4 DEF Result
<1>6. summary \in Range(out)
  BY <1>1, <1>4, <1>5, RepairAll
<1>7. PICK w \in DOMAIN out : out[w] = summary
  BY <1>6 DEF Range
<1>8. Protected(out[w])
  BY <1>7 DEF Protected
<1>9. out[w] \in Range(Trim(out))
  BY <1>2, <1>8, TrimAll
<1> QED BY <1>7, <1>9 DEF out

\* After a compaction what was left is there, or was trimmed.
LEMMA FixedLeaves ==
  ASSUME NEW s \in Seq(Kept), Ordered(s), NEW from \in Nat \ {0}, NEW to \in Nat,
         from <= Len(s), from <= to, NEW summary \in Kept, summary.role = "summary",
         NEW m \in Range(Fixed(s, from, to, summary)), Real(m)
  PROVE  \/ m \in Range(Trim(Fixed(s, from, to, summary)))
         \/ m.id \in IdsOf(Fixed(s, from, to, summary)) \ IdsOf(Trim(Fixed(s, from, to, summary)))
<1> DEFINE t == Fixed(s, from, to, summary)
<1>1. t \in Seq(Kept) /\ Ordered(t) /\ \E pending \in SUBSET Ids : Paired(t, pending)
  BY FixedOrdered
<1>2. m \in Range(t)
  OBVIOUS
<1> HIDE DEF t
<1>3. PICK p \in DOMAIN t : t[p] = m
  BY <1>2 DEF Range
<1>4. \A q \in DOMAIN t : t[q].id = t[p].id => t[q] = t[p]
  BY <1>1, <1>3, SameRepaired
<1>5. t[p] \in Range(Trim(t)) \/ t[p].id \notin IdsOf(Trim(t))
  BY <1>1, <1>4, TrimLeaves
<1> QED BY <1>2, <1>3, <1>5 DEF IdsOf, t


\* A compaction takes the messages it read, and of the others only results
\* whose assistant message it read.
LEMMA FinishTakes ==
  ASSUME OInv, NEW by \in By, NEW ok \in BOOLEAN, FinishCompaction(by, ok), ~stale', NEW m \in Range(chat)
  PROVE  \/ m.id \in Known(chat') \union excused' \union plan[by].input
         \/ m.role = "stub"
         \/ m.role = "tool" /\ (m.id \notin Attached(chat)
              \/ \E a \in Range(chat) : m.id \in a.refs /\ a.id \in plan[by].input)
<1>1. chat \in Seq(Kept) /\ Ordered(chat) /\ HInv
  BY DEF OInv, HInv, ChatOK, OrderOK
<1>2. PICK j \in DOMAIN chat : m = chat[j]
  BY DEF Range
<1>3. m \in Kept
  BY <1>1, <1>2
<1> SUFFICES ASSUME m.role # "stub"
             PROVE  \/ m.id \in Known(chat') \union excused' \union plan[by].input
                    \/ m.role = "tool" /\ (m.id \notin Attached(chat)
                         \/ \E a \in Range(chat) : m.id \in a.refs /\ a.id \in plan[by].input)
  OBVIOUS
<1>4. CASE Removable(chat, plan[by].from, plan[by].to) = <<>>
  <2>1. chat' = chat
    BY <1>4 DEF FinishCompaction
  <2> QED BY <2>1 DEF Known
<1>5. CASE Removable(chat, plan[by].from, plan[by].to) # <<>>
  <2> DEFINE from == plan[by].from
             to == plan[by].to
             input == plan[by].input
  <2>1. /\ from \in Nat \ {0} /\ to \in Nat /\ from <= Len(chat) /\ from <= to
        /\ \E summary \in Kept :
             /\ summary.role = "summary" /\ chat' = Trim(Fixed(chat, from, to, summary))
             /\ excused' = excused \union (IdsOf(Fixed(chat, from, to, summary)) \ IdsOf(chat'))
        /\ IdsOf(Removable(chat, from, to)) = input
    BY <1>1, <1>5, Finished
  <2> HIDE DEF from, to, input
  <2>2. PICK summary \in Kept :
             /\ summary.role = "summary" /\ chat' = Trim(Fixed(chat, from, to, summary))
             /\ excused' = excused \union (IdsOf(Fixed(chat, from, to, summary)) \ IdsOf(chat'))
    BY <2>1
  <2>3. ASSUME m \in Range(Fixed(chat, from, to, summary)), Real(m)
        PROVE  m.id \in Known(chat') \union excused'
    <3>1. \/ m \in Range(chat')
          \/ m.id \in IdsOf(Fixed(chat, from, to, summary)) \ IdsOf(chat')
      BY <1>1, <2>1, <2>2, <2>3, FixedLeaves
    <3> QED BY <2>2, <2>3, <3>1 DEF Known
  <2>4. CASE m.role = "summary"
    <3>1. summary \in Range(chat')
      BY <1>1, <2>1, <2>2, SummaryStays
    <3>2. summary.id = m.id /\ summary.role # "stub"
      BY <1>3, <2>2, <2>4, KeptIs
    <3> QED BY <3>1, <3>2 DEF Known
  <2>5. CASE j \notin Left(chat, from, to)
    BY <1>1, <1>2, <2>1, <2>5, TakenRead DEF input
  <2>6. CASE m.role # "summary" /\ j \in Left(chat, from, to) /\ ~Result(m)
    BY <1>1, <1>2, <2>1, <2>2, <2>3, <2>6, LeftStays DEF Real
  <2>7. CASE j \in Left(chat, from, to) /\ Result(m)
    <3>1. m.role = "tool" /\ Real(m)
      BY <2>7 DEF Result, Real
    <3> SUFFICES ASSUME m.id \in Attached(chat)
                 PROVE  \/ m.id \in Known(chat') \union excused'
                        \/ \E a \in Range(chat) : m.id \in a.refs /\ a.id \in input
      BY <3>1 DEF input
    <3>2. PICK i \in DOMAIN chat, k \in DOMAIN chat : At(chat, i, k) /\ chat[k].id = m.id
      BY <1>1, AttachedIs
    <3>3. j = k
      BY <1>1, <1>2, <2>7, <3>2, SameResult
    <3>4. CASE i \in Left(chat, from, to)
      <4>1. HasPair(Fixed(chat, from, to, summary), chat[i], chat[k])
        BY <1>1, <2>1, <2>2, <2>7, <3>2, <3>3, <3>4, BothFixed
      <4>2. m \in Range(Fixed(chat, from, to, summary))
        BY <1>2, <3>3, <4>1 DEF HasPair, Range
      <4> QED BY <2>3, <3>1, <4>2
    <3>5. CASE i \notin Left(chat, from, to)
      <4>1. chat[i].id \in input
        BY <1>1, <2>1, <3>5, TakenRead
      <4>2. m.id \in chat[i].refs /\ chat[i] \in Range(chat)
        BY <3>2 DEF At, Follows, Answers, Range
      <4> QED BY <4>1, <4>2
    <3> QED BY <3>4, <3>5
  <2> QED BY <2>4, <2>5, <2>6, <2>7
<1> QED BY <1>4, <1>5

LEMMA StepTakes ==
  ASSUME OInv, [Next]_vars, NEW by \in By, plan[by] # NoPlan, plan'[by] = NoPlan, loads' = loads, ~stale',
         NEW m \in Range(chat)
  PROVE  \/ m.id \in Known(chat') \union excused' \union plan[by].input
         \/ m.role = "stub"
         \/ m.role = "tool" /\ (m.id \notin Attached(chat)
              \/ \E a \in Range(chat) : m.id \in a.refs /\ a.id \in plan[by].input)
<1>1. CASE chat' = chat
  BY <1>1 DEF Known
<1>2. loads \in Nat /\ plan \in [By -> Plans]
  BY HistoryAssumption DEF OInv, HInv, CountsOK, PlanOK
<1>3. ASSUME NEW other \in By, NEW ranges, StartCompaction(other, ranges) PROVE FALSE
  <2>1. plan[other] = NoPlan /\ other # by
    BY <1>3 DEF StartCompaction
  <2>2. plan'[by] = plan[by]
    BY <1>2, <1>3, <2>1 DEF StartCompaction
  <2> QED BY <2>2
<1>4. EndRun \/ \E other \in By, ok \in BOOLEAN : FinishCompaction(other, ok)
  <2>1. plan' # plan
    OBVIOUS
  <2>2. ~Load /\ ~Restart
    <3>1. Load \/ Restart => loads' = loads + 1
      BY DEF Load, Restart
    <3>2. loads' # loads + 1
      BY <1>2
    <3> QED BY <3>1, <3>2
  <2>3. ~TaskCompacts /\ ~UserCompacts
    BY <1>3 DEF TaskCompacts, UserCompacts, By
  <2> QED BY <2>1, <2>2, <2>3
       DEF Next, vars, Prompt, Reply, CallTools, ToolResult, WriteBack, Merge, LoadAgent, UnloadAgent, Truncate
<1>5. CASE EndRun
  BY <1>1, <1>5 DEF EndRun
<1>6. ASSUME NEW other \in By, NEW ok \in BOOLEAN, FinishCompaction(other, ok) PROVE other = by
  <2>1. plan' = [plan EXCEPT ![other] = NoPlan]
    BY <1>6 DEF FinishCompaction
  <2> QED BY <1>2, <2>1
<1>7. CASE \E other \in By, ok \in BOOLEAN : FinishCompaction(other, ok)
  BY <1>6, <1>7, FinishTakes
<1> QED BY <1>4, <1>5, <1>7

\* A compaction of the history it was planned for takes nothing it did not
\* read, but results of calls it read: those become orphans and are dropped.
THEOREM CompactionsTakeWhatTheyRead == Spec => CompactionTakesWhatItRead
<1>1. OInv /\ [Next]_vars =>
        \A by \in By :
          plan[by] # NoPlan /\ plan'[by] = NoPlan /\ loads' = loads /\ ~stale' =>
            \A m \in Range(chat) :
              \/ m.id \in Known(chat') \union excused' \union plan[by].input
              \/ m.role = "stub"
              \/ m.role = "tool" /\ (m.id \notin Attached(chat)
                   \/ \E a \in Range(chat) : m.id \in a.refs /\ a.id \in plan[by].input)
  BY StepTakes
<1> QED BY <1>1, OrderInvariance, PTL DEF Spec, CompactionTakesWhatItRead

(***************************************************************************)
(* The assistant message of an open round.                                 *)
(***************************************************************************)
\* The calls of the open round are those of the message at i, with nothing but results behind
\* it, and no compaction has it in its summary.
Round(i) ==
  /\ chat[i].role = "assistant" /\ open \subseteq chat[i].refs
  /\ \A j \in i+1..Len(chat) : Result(chat[j])
  /\ \A by \in By : chat[i].id \notin plan[by].input

LEMMA AppendLeaves ==
  ASSUME OInv, NEW m \in Kept, Ordered(Append(chat, m)), AppendMessage(m),
         NEW i \in DOMAIN chat, chat[i].role = "assistant"
  PROVE  chat[i] \in Range(chat') \/ chat[i].id \in excused'
<1> DEFINE t == Append(chat, m)
<1>1. chat \in Seq(Kept)
  BY DEF OInv, HInv, ChatOK
<1>2. t \in Seq(Kept) /\ Ordered(t) /\ i \in DOMAIN t /\ t[i] = chat[i]
  BY <1>1, Appends
<1>3. chat' = Trim(t) /\ excused' = excused \union ((IdsOf(chat) \union {m.id}) \ IdsOf(chat'))
  BY DEF AppendMessage
<1> HIDE DEF t
<1>4. ~Result(t[i]) /\ t[i].role # "summary"
  BY <1>2 DEF Result
<1>5. \A j \in DOMAIN t : t[j].id = t[i].id => t[j] = t[i]
  BY <1>2, <1>4, SameMessage
<1>6. t[i] \in Range(Trim(t)) \/ t[i].id \notin IdsOf(Trim(t))
  BY <1>2, <1>5, TrimLeaves
<1>7. chat[i].id \in IdsOf(chat)
  BY DEF IdsOf, Range
<1> QED BY <1>2, <1>3, <1>6, <1>7

LEMMA RoundStays ==
  ASSUME OInv, [Next]_vars, open # {}, open' # {}, ~stale', NEW i \in DOMAIN chat, Round(i)
  PROVE  chat[i] \in Range(chat') \/ chat[i].id \in excused'
<1>1. chat \in Seq(Kept) /\ Ordered(chat) /\ Past(chat, next) /\ next \in Nat /\ HInv /\ running
  BY DEF OInv, HInv, ChatOK, OrderOK, CountsOK, TaskOK
<1>2. chat[i].role = "assistant" /\ ~Result(chat[i]) /\ chat[i] \in Kept
  BY <1>1 DEF Round, Result
<1>3. CASE chat' = chat
  BY <1>3 DEF Range
<1>4. ASSUME NEW role \in {"user", "report", "assistant"}, next <= MaxIds,
             AppendMessage(Message(role, next, {}))
      PROVE  chat[i] \in Range(chat') \/ chat[i].id \in excused'
  <2> DEFINE m == Message(role, next, {})
  <2>1. m \in Kept
    BY <1>1, <1>4, NextTyped DEF Roles
  <2>2. m.id = next /\ m.role = role /\ m.refs = {} /\ AppendMessage(m)
    BY <1>4 DEF Message
  <2> HIDE DEF m
  <2>3. Ordered(Append(chat, m))
    BY <1>1, <2>1, <2>2, FreshOrdered
  <2> QED BY <1>2, <2>1, <2>2, <2>3, AppendLeaves
<1>5. CASE WriteBack \/ Reply
  BY <1>4, <1>5 DEF WriteBack, Reply
<1>6. ~Prompt /\ ~Merge /\ ~(\E k \in DOMAIN chat : Truncate(k)) /\ ~UserCompacts
  BY <1>1 DEF Prompt, Merge, Truncate, UserCompacts
<1>7. ~EndRun /\ ~Restart /\ ~(\E calls \in 1..MaxCalls : CallTools(calls))
  BY DEF EndRun, Restart, CallTools
<1>8. ASSUME NEW c \in open, ToolResult(c) PROVE chat[i] \in Range(chat') \/ chat[i].id \in excused'
  <2> DEFINE m == Message("tool", c, {})
  <2>1. c \in Ids /\ c \notin Present(chat)
    BY DEF OInv, HInv, TaskOK, OpenOK
  <2>2. m \in Kept /\ m.id = c /\ m.role = "tool"
    BY <2>1, MessageTyped DEF Roles, Message
  <2>3. AppendMessage(m)
    BY <1>8 DEF ToolResult
  <2> HIDE DEF m
  <2>4. Ordered(Append(chat, m))
    BY <1>1, <2>1, <2>2, ResultOrdered
  <2> QED BY <1>2, <2>2, <2>3, <2>4, AppendLeaves
<1>9. CASE LoadAgent
  <2>1. Message("prompt", next, {}) \in Kept /\ chat' = Append(chat, Message("prompt", next, {}))
    BY <1>1, <1>9, NextTyped DEF LoadAgent, Roles
  <2>2. Range(chat) \subseteq Range(chat')
    BY <1>1, <2>1, RangeAppend
  <2> QED BY <2>2 DEF Range
<1>10. CASE UnloadAgent
  <2>1. "assistant" \in Roles \ {"prompt"}
    BY DEF Roles
  <2> QED BY <1>1, <1>2, <1>10, <2>1, OnlyAll DEF UnloadAgent
<1>11. CASE Load
  BY <1>1, <1>2, <1>11, RepairAll DEF Load
<1>12. CASE TaskCompacts
  BY <1>3, <1>12 DEF TaskCompacts, StartCompaction
<1>13. ASSUME NEW by \in By, NEW ok \in BOOLEAN, FinishCompaction(by, ok)
       PROVE  chat[i] \in Range(chat') \/ chat[i].id \in excused'
  <2>1. CASE Removable(chat, plan[by].from, plan[by].to) = <<>>
    <3>1. chat' = chat
      BY <1>13, <2>1 DEF FinishCompaction
    <3> QED BY <1>3, <3>1
  <2>2. CASE Removable(chat, plan[by].from, plan[by].to) # <<>>
    <3> DEFINE from == plan[by].from
               to == plan[by].to
    <3>1. /\ from \in Nat \ {0} /\ to \in Nat /\ from <= Len(chat) /\ from <= to
          /\ \E summary \in Kept :
               /\ summary.role = "summary" /\ chat' = Trim(Fixed(chat, from, to, summary))
               /\ excused' = excused \union (IdsOf(Fixed(chat, from, to, summary)) \ IdsOf(chat'))
          /\ IdsOf(Removable(chat, from, to)) = plan[by].input
      BY <1>1, <1>13, <2>2, Finished
    <3> HIDE DEF from, to
    <3>2. PICK summary \in Kept :
               /\ summary.role = "summary" /\ chat' = Trim(Fixed(chat, from, to, summary))
               /\ excused' = excused \union (IdsOf(Fixed(chat, from, to, summary)) \ IdsOf(chat'))
      BY <3>1
    <3>3. chat[i].id \notin plan[by].input
      BY DEF Round
    <3>4. i \in Left(chat, from, to)
      BY <1>1, <3>1, <3>3, TakenRead
    <3>5. chat[i] \in Range(Fixed(chat, from, to, summary)) /\ Real(chat[i])
      BY <1>1, <1>2, <3>1, <3>2, <3>4, LeftStays DEF Real
    <3>6. \/ chat[i] \in Range(chat')
          \/ chat[i].id \in IdsOf(Fixed(chat, from, to, summary)) \ IdsOf(chat')
      BY <1>1, <3>1, <3>2, <3>5, FixedLeaves
    <3> QED BY <3>2, <3>6
  <2> QED BY <2>1, <2>2
<1>14. CASE UNCHANGED vars
  BY <1>3, <1>14 DEF vars
<1> QED BY <1>5, <1>6, <1>7, <1>8, <1>9, <1>10, <1>11, <1>12, <1>13, <1>14 DEF Next

\* planCompactRange leaves the last message, unless it is a result.
LEMMA PlannedEnd ==
  ASSUME NEW msgs \in Seq(Kept), NEW r \in Planned(msgs)
  PROVE  r[2] < Len(msgs) \/ (r[2] = Len(msgs) /\ Result(msgs[Len(msgs)]))
<1> DEFINE half   == Len(msgs) \div 2
           kept   == IF Window < half THEN Window ELSE half
           window == IF kept = 0 THEN 1 ELSE kept
           old    == {i \in DOMAIN msgs : Compressible(msgs[i]) /\ i + window <= Len(msgs)}
           first  == Min(old)
<1>1. Planned(msgs) = {Align(msgs, first, to) : to \in {i \in old : i > first}}
  BY DEF Planned
<1>2. window \in Nat \ {0}
  <2>1. half \in Nat
    OBVIOUS
  <2> HIDE DEF half
  <2>2. kept \in Nat
    BY <2>1, HistoryAssumption
  <2> HIDE DEF kept
  <2> QED BY <2>2
<1> HIDE DEF window, first
<1>3. \A i \in old : i \in Nat /\ i < Len(msgs)
  BY <1>2
<1> HIDE DEF old
<1>4. PICK to \in old : r = Align(msgs, first, to)
  BY <1>1
<1>5. to \in Nat /\ to < Len(msgs) /\ Len(msgs) \in Nat
  BY <1>3
<1>6. \/ r[2] = to
      \/ r[2] = to + 1 /\ Result(msgs[to + 1])
  BY <1>4 DEF Align
<1>7. CASE r[2] = to
  BY <1>5, <1>7
<1>8. CASE r[2] = to + 1 /\ Result(msgs[to + 1])
  <2>1. to + 1 < Len(msgs) \/ to + 1 = Len(msgs)
    BY <1>5
  <2> QED BY <1>8, <2>1
<1> QED BY <1>6, <1>7, <1>8

LEMMA LastNotPlanned ==
  ASSUME NEW msgs \in Seq(Kept), Ordered(msgs), NEW r \in Planned(msgs),
         NEW i \in DOMAIN msgs, i = Len(msgs), msgs[i].role = "assistant"
  PROVE  msgs[i].id \notin IdsOf(Removable(msgs, r[1], r[2]))
<1> DEFINE t == Slice(msgs, r[1], r[2])
           out == Only(t, Compressibles)
<1>1. r[1] \in Nat \ {0} /\ r[2] \in Nat
  BY PlannedTyped DEF RangeOK
<1>2. r[2] < Len(msgs)
  BY PlannedEnd DEF Result
<1>3. t \in Seq(Kept) /\ Ordered(t) /\ From(t, msgs, r[1]..Top(msgs, r[2]))
  BY <1>1, SliceOrdered
<1>4. out = Removable(msgs, r[1], r[2])
  BY DEF Removable
<1> HIDE DEF t
<1>5. From(out, t, DOMAIN t)
  BY <1>3, OnlyOrdered
<1> HIDE DEF out
<1> SUFFICES ASSUME NEW p \in DOMAIN out, out[p].id = msgs[i].id PROVE FALSE
  BY <1>4 DEF IdsOf, Range
<1>6. PICK j \in r[1]..Top(msgs, r[2]) : out[p] = msgs[j]
  <2>1. From(out, msgs, r[1]..Top(msgs, r[2]))
    BY <1>3, <1>5, FromFrom
  <2> QED BY <2>1 DEF From
<1>7. j \in DOMAIN msgs /\ j < i
  BY <1>1, <1>2 DEF Top
<1>8. ~Result(msgs[i]) /\ msgs[i].role # "summary"
  BY DEF Result
<1>9. j = i
  BY <1>6, <1>7, <1>8, SameMessage
<1> QED BY <1>7, <1>9

LEMMA RoundNotPlanned ==
  ASSUME OInv, [Next]_vars, open # {}, NEW i \in DOMAIN chat, Round(i), i = Len(chat), NEW by \in By
  PROVE  chat[i].id \notin plan'[by].input
<1>1. chat \in Seq(Kept) /\ Ordered(chat) /\ plan \in [By -> Plans] /\ running
  BY DEF OInv, HInv, ChatOK, OrderOK, PlanOK, TaskOK
<1>2. chat[i].id \notin plan[by].input /\ NoPlan.input = {} /\ chat[i].role = "assistant"
  BY DEF Round, NoPlan
<1>3. CASE plan'[by] = plan[by] \/ plan'[by] = NoPlan
  BY <1>2, <1>3
<1>4. CASE TaskCompacts
  <2>1. PICK r \in Planned(chat) :
          plan' = [plan EXCEPT !["task"] =
            [from |-> r[1], to |-> r[2], input |-> IdsOf(Removable(chat, r[1], r[2])), carried |-> Carried(chat)]]
    BY <1>4 DEF TaskCompacts, StartCompaction
  <2>2. chat[i].id \notin IdsOf(Removable(chat, r[1], r[2]))
    BY <1>1, <1>2, LastNotPlanned
  <2>3. CASE by = "task"
    <3>1. plan'[by].input = IdsOf(Removable(chat, r[1], r[2]))
      BY <1>1, <2>1, <2>3
    <3> QED BY <2>2, <3>1
  <2>4. CASE by # "task"
    <3>1. plan'[by] = plan[by]
      BY <1>1, <2>1, <2>4
    <3> QED BY <1>3, <3>1
  <2> QED BY <2>3, <2>4
<1>5. ~UserCompacts
  BY <1>1 DEF UserCompacts
<1>6. CASE EndRun \/ Restart \/ \E other \in By, ok \in BOOLEAN : FinishCompaction(other, ok)
  <2>1. \/ \E other \in By : plan' = [plan EXCEPT ![other] = NoPlan]
        \/ plan' = [other \in By |-> NoPlan]
    BY <1>6 DEF EndRun, Restart, FinishCompaction, By
  <2>2. plan'[by] = plan[by] \/ plan'[by] = NoPlan
    BY <1>1, <2>1
  <2> QED BY <1>3, <2>2
<1>7. CASE plan' = plan
  BY <1>3, <1>7
<1> QED BY <1>4, <1>5, <1>6, <1>7
     DEF Next, vars, Prompt, Reply, CallTools, ToolResult, WriteBack, Merge, LoadAgent, UnloadAgent, Truncate, Load

\* The assistant message of a round whose results are still to come stays in
\* the history: no compaction that starts while it is the last message chooses it, and only
\* trimming, or a compaction of another history than it was planned for, takes it away.
THEOREM RoundIsKept == Spec => RoundKept
<1>1. OInv /\ [Next]_vars =>
        (open # {} /\ open' # {} /\ ~stale' =>
          \A i \in DOMAIN chat :
            /\ chat[i].role = "assistant" /\ open \subseteq chat[i].refs
            /\ \A j \in i+1..Len(chat) : Result(chat[j])
            /\ \A by \in By : chat[i].id \notin plan[by].input
            => /\ chat[i] \in Range(chat') \/ chat[i].id \in excused'
               /\ i = Len(chat) => \A by \in By : chat[i].id \notin plan'[by].input)
  BY RoundStays, RoundNotPlanned DEF Round
<1> QED BY <1>1, OrderInvariance, PTL DEF Spec, RoundKept

=============================================================================
