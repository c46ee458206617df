----------------------------- MODULE CollectorProofs -----------------------------
(***************************************************************************)
(* Theorems about Collector: the spliced lists keep the promise of         *)
(* EventStore, for every number of events and every bound of the queues.   *)
(***************************************************************************)
EXTENDS Collector, FiniteSetTheorems, SequenceTheorems, TLAPS

--------------------------------------------------------------------------------
(***************************************************************************)
(* Facts about natural numbers and sequences.                              *)
(***************************************************************************)

\* A non-empty set of natural numbers has a least element.
LEMMA LeastNatural ==
    ASSUME NEW T, T \subseteq Nat, T # {}
    PROVE  \E m \in T : \A n \in T : m <= n
  <1> DEFINE Less == {ss \in Nat \X Nat : ss[1] < ss[2]}
  <1>1. IsWellFoundedOn(Less, Nat)
    BY NatLessThanWellFounded, Zenon DEF OpToRel
  <1>2. PICK m \in T : \A n \in T : ~(<<n, m>> \in Less)
    <2> HIDE DEF Less
    <2> QED
      BY <1>1, WFMin
  <1>3. \A n \in T : n < m => <<n, m>> \in Less
    OBVIOUS
  <1> HIDE DEF Less
  <1>4. \A n \in T : ~(n < m)
    BY <1>2, <1>3
  <1>5. ASSUME NEW n \in T PROVE m <= n
    <2>1. n \in Nat /\ m \in Nat /\ ~(n < m)
      BY <1>4
    <2> QED
      BY <2>1
  <1> QED
    BY <1>5

\* No element comes twice.
Once(s) == \A i, j \in DOMAIN s : s[i] = s[j] => i = j

\* Something new at the end.
LEMMA AppendOnce ==
    ASSUME NEW S, NEW s \in Seq(S), NEW e \in S
    PROVE  /\ Append(s, e) \in Seq(S)
           /\ Range(Append(s, e)) = Range(s) \cup {e}
           /\ Once(s) /\ e \notin Range(s) => Once(Append(s, e))
  <1>1. /\ Append(s, e) \in Seq(S)
        /\ DOMAIN Append(s, e) = 1..(Len(s) + 1) /\ DOMAIN s = 1..Len(s)
        /\ Append(s, e)[Len(s) + 1] = e
        /\ \A i \in 1..Len(s) : Append(s, e)[i] = s[i]
    BY AppendProperties
  <1>2. \A i : i \in 1..(Len(s) + 1) <=> i \in 1..Len(s) \/ i = Len(s) + 1
    OBVIOUS
  <1> DEFINE t == Append(s, e)
  <1> HIDE DEF t
  <1>3. Range(t) = Range(s) \cup {e}
    BY <1>1, <1>2, Zenon DEF Range, t
  <1>4. Once(s) /\ e \notin Range(s) => Once(t)
    BY <1>1, <1>2, Zenon DEF Range, Once, t
  <1> QED
    BY <1>1, <1>3, <1>4 DEF t

\* A list without its first n elements.
LEMMA Dropped ==
    ASSUME NEW S, NEW s \in Seq(S), NEW n \in 0..Len(s)
    PROVE  /\ SubSeq(s, n + 1, Len(s)) \in Seq(S)
           /\ Len(SubSeq(s, n + 1, Len(s))) = Len(s) - n
           /\ \A j \in 1..(Len(s) - n) : SubSeq(s, n + 1, Len(s))[j] = s[n + j]
  OBVIOUS

\* t is s with e put in after the first n elements.
PutAfter(s, e, n, t) ==
    /\ Len(t) = Len(s) + 1
    /\ \A j \in 1..n : t[j] = s[j]
    /\ t[n + 1] = e
    /\ \A j \in (n + 1)..Len(s) : t[j + 1] = s[j]

\* An element put in between a beginning and the rest of a list comes after the beginning.
LEMMA PutShape ==
    ASSUME NEW S, NEW s \in Seq(S), NEW e \in S, NEW n \in 0..Len(s)
    PROVE  /\ SubSeq(s, 1, n) \o <<e>> \o SubSeq(s, n + 1, Len(s)) \in Seq(S)
           /\ PutAfter(s, e, n, SubSeq(s, 1, n) \o <<e>> \o SubSeq(s, n + 1, Len(s)))
  <1> DEFINE a == SubSeq(s, 1, n)
             c == SubSeq(s, n + 1, Len(s))
  <1>0. Len(s) \in Nat /\ n \in Nat /\ n <= Len(s)
    OBVIOUS
  <1>1. a \in Seq(S) /\ Len(a) = n /\ \A j \in 1..n : a[j] = s[j]
    OBVIOUS
  <1>2. c \in Seq(S) /\ Len(c) = Len(s) - n /\ \A j \in 1..(Len(s) - n) : c[j] = s[n + j]
    BY Dropped
  <1> HIDE DEF a, c
  <1> DEFINE b == a \o <<e>>
  <1>3. b \in Seq(S) /\ Len(b) = n + 1 /\ b[n + 1] = e /\ \A j \in 1..n : b[j] = s[j]
    BY <1>0, <1>1
  <1> HIDE DEF b
  <1> DEFINE d == b \o c
  <1>4. /\ d \in Seq(S)
        /\ Len(d) = Len(b) + Len(c)
        /\ \A i \in 1..(Len(b) + Len(c)) : d[i] = IF i <= Len(b) THEN b[i] ELSE c[i - Len(b)]
    BY <1>2, <1>3, ConcatProperties
  <1> HIDE DEF d
  <1>5. Len(b) + Len(c) = Len(s) + 1
    BY <1>0, <1>2, <1>3
  <1>6. \A i \in 1..(n + 1) : d[i] = b[i]
    <2> SUFFICES ASSUME NEW i \in 1..(n + 1) PROVE d[i] = b[i]
      OBVIOUS
    <2>1. i \in 1..(Len(b) + Len(c)) /\ i <= Len(b)
      BY <1>0, <1>3, <1>5
    <2> QED
      BY <1>4, <2>1
  <1>7. \A j \in (n + 1)..Len(s) : d[j + 1] = s[j]
    <2> SUFFICES ASSUME NEW j \in (n + 1)..Len(s) PROVE d[j + 1] = s[j]
      OBVIOUS
    <2>1. /\ j + 1 \in 1..(Len(b) + Len(c)) /\ ~(j + 1 <= Len(b))
          /\ (j + 1) - Len(b) = j - n /\ j - n \in 1..(Len(s) - n) /\ n + (j - n) = j
      BY <1>0, <1>3, <1>5
    <2>2. d[j + 1] = c[(j + 1) - Len(b)]
      BY <1>4, <2>1
    <2> QED
      BY <1>2, <2>1, <2>2
  <1>8. \A j \in 1..n : j \in 1..(n + 1)
    BY <1>0
  <1>9. n + 1 \in 1..(n + 1)
    BY <1>0
  <1>10. PutAfter(s, e, n, d)
    BY <1>3, <1>4, <1>5, <1>6, <1>7, <1>8, <1>9 DEF PutAfter
  <1> QED
    BY <1>4, <1>10 DEF a, b, c, d

\* Where the elements of t come from.
LEMMA PutSource ==
    ASSUME NEW S, NEW s \in Seq(S), NEW e, NEW n \in 0..Len(s), NEW t, PutAfter(s, e, n, t),
           NEW k \in 1..Len(t)
    PROVE  \/ k \in 1..n /\ k \in 1..Len(s) /\ t[k] = s[k]
           \/ k = n + 1 /\ t[k] = e
           \/ k > n + 1 /\ k - 1 \in (n + 1)..Len(s) /\ k - 1 \in 1..Len(s) /\ t[k] = s[k - 1]
  <1>1. Len(s) \in Nat /\ n \in Nat /\ n <= Len(s) /\ Len(t) = Len(s) + 1
    BY DEF PutAfter
  <1>2. CASE k > n + 1
    <2>1. k - 1 \in (n + 1)..Len(s) /\ k - 1 \in 1..Len(s) /\ (k - 1) + 1 = k
      BY <1>1, <1>2
    <2> QED
      BY <1>2, <2>1 DEF PutAfter
  <1>3. CASE k <= n
    BY <1>1, <1>3 DEF PutAfter
  <1>4. CASE k = n + 1
    BY <1>4 DEF PutAfter
  <1> QED
    BY <1>1, <1>2, <1>3, <1>4

\* Putting an element in adds it, and repeats none if it is new.
LEMMA PutOnce ==
    ASSUME NEW S, NEW s \in Seq(S), NEW e \in S, NEW n \in 0..Len(s),
           NEW t \in Seq(S), PutAfter(s, e, n, t)
    PROVE  /\ Range(t) = Range(s) \cup {e}
           /\ Once(s) /\ e \notin Range(s) => Once(t)
  <1> DEFINE From(k) == IF k <= n THEN k ELSE k - 1
  <1>1. /\ DOMAIN t = 1..(Len(s) + 1) /\ DOMAIN s = 1..Len(s)
        /\ t[n + 1] = e
    BY DEF PutAfter
  <1>2. \A k \in 1..(Len(s) + 1) : k # n + 1 => From(k) \in 1..Len(s) /\ t[k] = s[From(k)]
    <2> SUFFICES ASSUME NEW k \in 1..(Len(s) + 1), k # n + 1
                 PROVE  From(k) \in 1..Len(s) /\ t[k] = s[From(k)]
      OBVIOUS
    <2>1. CASE k <= n
      BY <2>1 DEF PutAfter
    <2>2. CASE k > n + 1
      <3>1. k - 1 \in (n + 1)..Len(s) /\ (k - 1) + 1 = k /\ From(k) = k - 1
        BY <2>2
      <3> QED
        BY <3>1 DEF PutAfter
    <2> QED
      BY <2>1, <2>2
  <1>3. \A k \in 1..Len(s) : \E m \in 1..(Len(s) + 1) : t[m] = s[k]
    <2> SUFFICES ASSUME NEW k \in 1..Len(s) PROVE \E m \in 1..(Len(s) + 1) : t[m] = s[k]
      OBVIOUS
    <2>1. CASE k <= n
      BY <2>1 DEF PutAfter
    <2>2. CASE k > n
      BY <2>2 DEF PutAfter
    <2> QED
      BY <2>1, <2>2
  <1>4. Range(t) = Range(s) \cup {e}
    <2>1. \A x \in Range(t) : x \in Range(s) \cup {e}
      BY <1>1, <1>2 DEF Range
    <2>2. \A x \in Range(s) : x \in Range(t)
      BY <1>1, <1>3 DEF Range
    <2>3. e \in Range(t)
      BY <1>1 DEF Range
    <2> QED
      BY <2>1, <2>2, <2>3
  <1>5. ASSUME Once(s), e \notin Range(s),
               NEW i \in 1..(Len(s) + 1), NEW j \in 1..(Len(s) + 1), t[i] = t[j]
        PROVE  i = j
    <2>1. \A k \in 1..Len(s) : s[k] # e
      BY <1>5, <1>1 DEF Range
    <2>2. CASE i = n + 1 \/ j = n + 1
      BY <1>1, <1>2, <1>5, <2>1, <2>2
    <2>3. CASE i # n + 1 /\ j # n + 1
      <3>1. From(i) = From(j)
        BY <1>1, <1>2, <1>5, <2>3 DEF Once
      <3> QED
        BY <2>3, <3>1
    <2> QED
      BY <2>2, <2>3
  <1> QED
    BY <1>1, <1>4, <1>5 DEF Once

\* What popping the first element of a list leaves.
LEMMA TailOnce ==
    ASSUME NEW S, NEW s \in Seq(S), s # <<>>
    PROVE  /\ Head(s) \in S /\ Head(s) = s[1] /\ Tail(s) \in Seq(S)
           /\ Range(s) = Range(Tail(s)) \cup {Head(s)}
           /\ Once(s) => Once(Tail(s)) /\ Head(s) \notin Range(Tail(s))
  <1>1. /\ Head(s) = s[1] /\ Head(s) \in S
        /\ Tail(s) \in Seq(S) /\ Len(Tail(s)) = Len(s) - 1 /\ Len(s) \in Nat \ {0}
        /\ \A i \in 1..(Len(s) - 1) : Tail(s)[i] = s[i + 1]
    OBVIOUS
  <1> DEFINE t == Tail(s)
  <1>2. DOMAIN t = 1..(Len(s) - 1) /\ DOMAIN s = 1..Len(s)
    BY <1>1
  <1> HIDE DEF t
  <1>3. \A i \in 1..(Len(s) - 1) : i + 1 \in 1..Len(s) /\ t[i] = s[i + 1]
    BY <1>1 DEF t
  <1>4. \A i \in 1..Len(s) : i # 1 => i - 1 \in 1..(Len(s) - 1) /\ s[i] = t[i - 1]
    <2> SUFFICES ASSUME NEW i \in 1..Len(s), i # 1
                 PROVE  i - 1 \in 1..(Len(s) - 1) /\ s[i] = t[i - 1]
      OBVIOUS
    <2>1. i - 1 \in 1..(Len(s) - 1) /\ (i - 1) + 1 = i
      BY <1>1
    <2> QED
      BY <1>3, <2>1
  <1>5. Range(s) = Range(t) \cup {s[1]}
    <2>1. \A x \in Range(s) : x \in Range(t) \cup {s[1]}
      BY <1>2, <1>4 DEF Range
    <2>2. \A x \in Range(t) : x \in Range(s)
      BY <1>2, <1>3 DEF Range
    <2>3. s[1] \in Range(s)
      BY <1>1, <1>2 DEF Range
    <2> QED
      BY <2>1, <2>2, <2>3
  <1>6. ASSUME Once(s) PROVE Once(t) /\ s[1] \notin Range(t)
    <2>1. ASSUME NEW i \in 1..(Len(s) - 1), NEW j \in 1..(Len(s) - 1), t[i] = t[j]
          PROVE  i = j
      <3>1. i + 1 = j + 1
        BY <1>2, <1>3, <1>6, <2>1 DEF Once
      <3> QED
        BY <3>1
    <2>2. ASSUME NEW i \in 1..(Len(s) - 1), t[i] = s[1] PROVE FALSE
      <3>1. i + 1 = 1
        BY <1>1, <1>2, <1>3, <1>6, <2>2 DEF Once
      <3> QED
        BY <3>1
    <2> QED
      BY <1>2, <2>1, <2>2 DEF Once, Range
  <1> QED
    BY <1>1, <1>5, <1>6 DEF t

\* A list in which nothing comes twice is no longer than what it is made of.
LEMMA OnceLength ==
    ASSUME NEW S, IsFiniteSet(S), NEW s \in Seq(S), Once(s)
    PROVE  Len(s) <= Cardinality(S) /\ Cardinality(S) \in Nat
  <1>1. Cardinality(S) \in Nat
    BY FS_CardinalityType
  <1>2. s \in [1..Len(s) -> S] /\ Len(s) \in Nat /\ DOMAIN s = 1..Len(s)
    OBVIOUS
  <1>3. s \in Injection(1..Len(s), S)
    BY <1>2 DEF Injection, IsInjective, Once
  <1>4. Cardinality(1..Len(s)) <= Cardinality(S)
    BY <1>3, FS_Injection
  <1>5. Cardinality(1..Len(s)) = IF 1 > Len(s) THEN 0 ELSE Len(s) - 1 + 1
    BY <1>2, FS_Interval
  <1> QED
    BY <1>1, <1>2, <1>4, <1>5

\* What comes first is related to what comes later.
InOrder(s, R) == \A i, j \in DOMAIN s : i < j => <<s[i], s[j]>> \in R

\* An element put in after all that it follows and before all that follow it keeps the order.
LEMMA PutInOrder ==
    ASSUME NEW S, NEW R, NEW s \in Seq(S), NEW e \in S, InOrder(s, R),
           NEW n \in 0..Len(s), NEW t \in Seq(S), PutAfter(s, e, n, t),
           \A j \in 1..n : <<s[j], e>> \in R,
           \A j \in (n + 1)..Len(s) : <<e, s[j]>> \in R
    PROVE  InOrder(t, R)
  <1>1. DOMAIN t = 1..Len(t) /\ DOMAIN s = 1..Len(s) /\ n \in Nat /\ Len(s) \in Nat
    OBVIOUS
  <1> SUFFICES ASSUME NEW i \in 1..Len(t), NEW j \in 1..Len(t), i < j
               PROVE  <<t[i], t[j]>> \in R
    BY <1>1, Zenon DEF InOrder
  <1>2. /\ \/ i \in 1..n /\ i \in 1..Len(s) /\ t[i] = s[i]
           \/ i = n + 1 /\ t[i] = e
           \/ i > n + 1 /\ i - 1 \in (n + 1)..Len(s) /\ i - 1 \in 1..Len(s) /\ t[i] = s[i - 1]
        /\ \/ j \in 1..n /\ j \in 1..Len(s) /\ t[j] = s[j]
           \/ j = n + 1 /\ t[j] = e
           \/ j > n + 1 /\ j - 1 \in (n + 1)..Len(s) /\ j - 1 \in 1..Len(s) /\ t[j] = s[j - 1]
    BY PutSource
  <1>3. i \in Nat /\ j \in Nat
    OBVIOUS
  <1>4. \A p, q \in 1..Len(s) : p < q => <<s[p], s[q]>> \in R
    BY <1>1, Zenon DEF InOrder
  <1>5. CASE i \in 1..n /\ i \in 1..Len(s) /\ t[i] = s[i]
    <2>1. CASE j \in 1..n /\ j \in 1..Len(s) /\ t[j] = s[j]
      BY <1>4, <1>5, <2>1
    <2>2. CASE j = n + 1 /\ t[j] = e
      BY <1>5, <2>2
    <2>3. CASE j > n + 1 /\ j - 1 \in 1..Len(s) /\ t[j] = s[j - 1]
      <3>1. i < j - 1
        BY <1>1, <1>3, <1>5, <2>3
      <3> QED
        BY <1>4, <1>5, <2>3, <3>1
    <2> QED
      BY <1>2, <2>1, <2>2, <2>3
  <1>6. CASE i = n + 1 /\ t[i] = e
    <2>1. j > n + 1
      BY <1>6
    <2>2. j - 1 \in (n + 1)..Len(s) /\ t[j] = s[j - 1]
      BY <1>1, <1>2, <1>3, <2>1
    <2> QED
      BY <1>6, <2>2
  <1>7. CASE i > n + 1 /\ i - 1 \in 1..Len(s) /\ t[i] = s[i - 1]
    <2>1. j > n + 1
      BY <1>1, <1>3, <1>7
    <2>2. j - 1 \in 1..Len(s) /\ t[j] = s[j - 1] /\ i - 1 < j - 1
      BY <1>1, <1>2, <1>3, <2>1
    <2> QED
      BY <1>4, <1>7, <2>2
  <1> QED
    BY <1>2, <1>5, <1>6, <1>7

\* The rest of a list in order is in order, and follows its first element.
LEMMA TailInOrder ==
    ASSUME NEW S, NEW R, NEW s \in Seq(S), s # <<>>, InOrder(s, R)
    PROVE  /\ InOrder(Tail(s), R)
           /\ \A x \in Range(Tail(s)) : <<Head(s), x>> \in R
  <1> DEFINE t == Tail(s)
             n == Len(s)
  <1>1. n \in Nat \ {0} /\ t \in Seq(S) /\ Len(t) = n - 1 /\ Head(s) = s[1]
    OBVIOUS
  <1>2. \A i \in 1..(n - 1) : t[i] = s[i + 1]
    OBVIOUS
  <1>3. DOMAIN s = 1..n /\ DOMAIN t = 1..(n - 1)
    BY <1>1
  <1> HIDE DEF t, n
  <1>4. \A i, j \in 1..n : i < j => <<s[i], s[j]>> \in R
    BY <1>3, Zenon DEF InOrder
  <1>5. ASSUME NEW i \in 1..(n - 1), NEW j \in 1..(n - 1), i < j PROVE <<t[i], t[j]>> \in R
    <2>1. i + 1 \in 1..n /\ j + 1 \in 1..n /\ i + 1 < j + 1
      BY <1>1, <1>5
    <2> QED
      BY <1>2, <1>4, <2>1
  <1>6. ASSUME NEW i \in 1..(n - 1) PROVE <<Head(s), t[i]>> \in R
    <2>1. 1 \in 1..n /\ i + 1 \in 1..n /\ 1 < i + 1
      BY <1>1
    <2> QED
      BY <1>1, <1>2, <1>4, <2>1
  <1>7. InOrder(t, R)
    BY <1>3, <1>5, Zenon DEF InOrder
  <1>8. \A x \in Range(t) : <<Head(s), x>> \in R
    BY <1>3, <1>6, Zenon DEF Range
  <1> QED
    BY <1>7, <1>8 DEF t

\* The keys of a list in ascending order.
Ascending(key, s) == \A i, j \in DOMAIN s : i < j => key[s[i]] <= key[s[j]]

\* An element put in after those whose keys are not above its own keeps the keys ascending.
LEMMA PutAscending ==
    ASSUME NEW S, NEW key \in [S -> Int], NEW s \in Seq(S), NEW e \in S, Ascending(key, s),
           NEW n \in 0..Len(s), NEW t \in Seq(S), PutAfter(s, e, n, t),
           \A j \in 1..n : key[s[j]] <= key[e],
           \A j \in (n + 1)..Len(s) : key[e] < key[s[j]]
    PROVE  Ascending(key, t)
  <1> DEFINE R == {pair \in S \X S : key[pair[1]] <= key[pair[2]]}
  <1>0. \A k \in 1..Len(s) : s[k] \in S /\ key[s[k]] \in Int
    OBVIOUS
  <1>1. \A x, y \in S : <<x, y>> \in R <=> key[x] <= key[y]
    OBVIOUS
  <1>2. \A i \in DOMAIN s : s[i] \in S
    OBVIOUS
  <1>3. \A i \in DOMAIN t : t[i] \in S
    OBVIOUS
  <1> HIDE DEF R
  <1>4. InOrder(s, R)
    BY <1>1, <1>2, Zenon DEF Ascending, InOrder
  <1>5. \A j \in 1..n : <<s[j], e>> \in R
    BY <1>0, <1>1
  <1>6. \A j \in (n + 1)..Len(s) : <<e, s[j]>> \in R
    BY <1>0, <1>1
  <1>7. InOrder(t, R)
    BY <1>4, <1>5, <1>6, PutInOrder
  <1> QED
    BY <1>1, <1>3, <1>7, Zenon DEF Ascending, InOrder

\* The keys of the rest of the list are ascending.
LEMMA TailAscending ==
    ASSUME NEW S, NEW key, NEW s \in Seq(S), s # <<>>, Ascending(key, s)
    PROVE  Ascending(key, Tail(s))
  <1> DEFINE R == {pair \in S \X S : key[pair[1]] <= key[pair[2]]}
  <1>1. \A x, y \in S : <<x, y>> \in R <=> key[x] <= key[y]
    OBVIOUS
  <1>2. /\ \A i \in DOMAIN s : s[i] \in S
        /\ \A i \in DOMAIN Tail(s) : Tail(s)[i] \in S
    OBVIOUS
  <1> HIDE DEF R
  <1>3. InOrder(s, R)
    BY <1>1, <1>2, Zenon DEF Ascending, InOrder
  <1>4. InOrder(Tail(s), R)
    BY <1>3, TailInOrder
  <1> QED
    BY <1>1, <1>2, <1>4, Zenon DEF Ascending, InOrder

--------------------------------------------------------------------------------
\* A pointer leads through the elements of s, one after the other, to NULL.
Links(n, p, s) ==
    /\ p = IF s = <<>> THEN NULL ELSE s[1]
    /\ \A i \in 1..Len(s) : n[s[i]] = IF i = Len(s) THEN NULL ELSE s[i + 1]

IsList(n, p, s) == s \in Seq(Events) /\ Once(s) /\ Links(n, p, s)

\* Following the pointers gives the list.
LEMMA ChainIs ==
    ASSUME NEW n, NEW p, NEW s, IsList(n, p, s)
    PROVE  Chain(n, p) = s
  <1> DEFINE N == Cardinality(Events)
             Walk(f) == [k \in 0..N |->
                            IF k = 0 THEN p
                            ELSE IF f[k - 1] \in Events THEN n[f[k - 1]] ELSE f[k - 1]]
             links == CHOOSE f : f = Walk(f)
             g == [k \in 0..N |-> IF k < Len(s) THEN s[k + 1] ELSE NULL]
             length == Cardinality({k \in 0..(N - 1) : links[k] \in Events})
  <1>1. s \in Seq(Events) /\ Len(s) \in Nat /\ N \in Nat /\ Len(s) <= N /\ NULL \notin Events
    BY EventAssumption, PointerAssumption, OnceLength DEF IsList
  <1>2. Chain(n, p) = [k \in 1..length |-> links[k - 1]]
    BY DEF Chain
  <1>3. \A k \in 0..N : g[k] = IF k < Len(s) THEN s[k + 1] ELSE NULL
    OBVIOUS
  <1>4. ASSUME NEW k \in 0..N
        PROVE  g[k] = IF k = 0 THEN p ELSE IF g[k - 1] \in Events THEN n[g[k - 1]] ELSE g[k - 1]
    <2>1. CASE k = 0
      BY <1>1, <1>3, <2>1 DEF IsList, Links
    <2>2. CASE k # 0 /\ k <= Len(s)
      <3>1. k - 1 \in 0..N /\ k - 1 < Len(s) /\ (k - 1) + 1 = k /\ k \in 1..Len(s)
        BY <1>1, <2>2
      <3>2. g[k - 1] = s[k] /\ s[k] \in Events
        BY <1>1, <1>3, <3>1
      <3>3. n[s[k]] = IF k = Len(s) THEN NULL ELSE s[k + 1]
        BY <3>1 DEF IsList, Links
      <3> QED
        BY <1>1, <1>3, <2>2, <3>2, <3>3
    <2>3. CASE k # 0 /\ k > Len(s)
      <3>1. k - 1 \in 0..N /\ ~(k - 1 < Len(s)) /\ ~(k < Len(s))
        BY <1>1, <2>3
      <3>2. g[k - 1] = NULL /\ g[k] = NULL
        BY <1>3, <3>1
      <3> QED
        BY <1>1, <2>3, <3>2
    <2> QED
      BY <1>1, <2>1, <2>2, <2>3
  <1>5. g = Walk(g)
    <2> DEFINE h == Walk(g)
    <2>1. h = [k \in 0..N |-> h[k]] /\ g = [k \in 0..N |-> g[k]]
      OBVIOUS
    <2>2. \A k \in 0..N : h[k] = g[k]
      BY <1>4
    <2> HIDE DEF g, h
    <2>3. h = g
      BY <2>1, <2>2
    <2> QED
      BY <2>3 DEF h
  <1>6. links = Walk(links)
    <2> HIDE DEF g, Walk
    <2> QED
      BY <1>5
  <1>7. \A k \in 0..N : links[k] = IF k = 0 THEN p
                                   ELSE IF links[k - 1] \in Events THEN n[links[k - 1]]
                                   ELSE links[k - 1]
    <2> DEFINE l == links
    <2> HIDE DEF l
    <2>1. l = Walk(l)
      BY <1>6 DEF l
    <2>2. \A k \in 0..N : l[k] = Walk(l)[k]
      BY <2>1
    <2>3. \A k \in 0..N : l[k] = IF k = 0 THEN p
                                 ELSE IF l[k - 1] \in Events THEN n[l[k - 1]] ELSE l[k - 1]
      BY <2>2
    <2> QED
      BY <2>3 DEF l
  <1> HIDE DEF links, g
  <1>8. \A k \in 0..N : links[k] = g[k]
    <2> DEFINE Wrong == {k \in 0..N : links[k] # g[k]}
    <2> SUFFICES ASSUME Wrong # {} PROVE FALSE
      OBVIOUS
    <2>1. PICK k \in Wrong : \A i \in Wrong : k <= i
      <3>1. Wrong \subseteq Nat
        OBVIOUS
      <3> HIDE DEF Wrong
      <3> QED
        BY <3>1, LeastNatural
    <2>2. k # 0
      BY <1>4, <1>7, <2>1
    <2>3. k - 1 \in 0..N /\ k - 1 \notin Wrong
      BY <1>1, <2>1, <2>2
    <2>4. links[k - 1] = g[k - 1]
      BY <2>3
    <2> QED
      BY <1>4, <1>7, <2>1, <2>2, <2>4
  <1>9. length = Len(s)
    <2>1. \A k \in 0..(N - 1) : links[k] \in Events <=> k < Len(s)
      <3> SUFFICES ASSUME NEW k \in 0..(N - 1) PROVE links[k] \in Events <=> k < Len(s)
        OBVIOUS
      <3>1. k \in 0..N /\ (k < Len(s) => k + 1 \in 1..Len(s))
        BY <1>1
      <3>2. links[k] = IF k < Len(s) THEN s[k + 1] ELSE NULL
        BY <1>3, <1>8, <3>1
      <3> QED
        BY <1>1, <3>1, <3>2
    <2>2. {k \in 0..(N - 1) : links[k] \in Events} = 0..(Len(s) - 1)
      BY <1>1, <2>1
    <2>3. Cardinality(0..(Len(s) - 1)) = Len(s)
      <3>1. Len(s) - 1 \in Int
        BY <1>1
      <3>2. Cardinality(0..(Len(s) - 1)) = IF 0 > Len(s) - 1 THEN 0 ELSE Len(s) - 1 - 0 + 1
        BY <3>1, FS_Interval
      <3> QED
        BY <1>1, <3>2
    <2> QED
      BY <2>2, <2>3
  <1> HIDE DEF length
  <1>10. \A k \in 1..Len(s) : links[k - 1] = s[k]
    <2> SUFFICES ASSUME NEW k \in 1..Len(s) PROVE links[k - 1] = s[k]
      OBVIOUS
    <2>1. k - 1 \in 0..N /\ k - 1 < Len(s) /\ (k - 1) + 1 = k
      BY <1>1
    <2> QED
      BY <1>3, <1>8, <2>1
  <1>11. s = [k \in 1..Len(s) |-> s[k]]
    BY <1>1
  <1> QED
    BY <1>2, <1>9, <1>10, <1>11

\* A list does not change when no element of it does.
LEMMA ListFrame ==
    ASSUME NEW n, NEW m, NEW p, NEW s, IsList(n, p, s), \A x \in Elements(s) : m[x] = n[x]
    PROVE  IsList(m, p, s)
  <1>1. \A i \in 1..Len(s) : s[i] \in Elements(s)
    BY DEF IsList, Elements
  <1> QED
    BY <1>1 DEF IsList, Links

\* A pointer is NULL just when the list is empty, and else names the first element.
LEMMA ListFirst ==
    ASSUME NEW n, NEW p, NEW s, IsList(n, p, s)
    PROVE  /\ p = NULL <=> s = <<>>
           /\ s # <<>> => p \in Events /\ p = s[1] /\ p = Head(s) /\ p \in Elements(s)
  BY PointerAssumption DEF IsList, Links, Elements

\* The rest of the list begins at the next pointer of its first element.
LEMMA ListTail ==
    ASSUME NEW n, NEW p, NEW s, IsList(n, p, s), s # <<>>
    PROVE  /\ IsList(n, n[p], Tail(s))
           /\ Elements(s) = Elements(Tail(s)) \cup {p} /\ p \notin Elements(Tail(s))
           /\ Tail(s) # <<>> => Tail(s)[Len(Tail(s))] = s[Len(s)]
  <1> DEFINE t == Tail(s)
  <1>1. /\ s \in Seq(Events) /\ Once(s) /\ Len(s) \in Nat \ {0} /\ p = s[1] /\ p = Head(s)
        /\ \A i \in 1..Len(s) : n[s[i]] = IF i = Len(s) THEN NULL ELSE s[i + 1]
    BY DEF IsList, Links
  <1>2. /\ t \in Seq(Events) /\ Once(t)
        /\ Range(s) = Range(t) \cup {p} /\ p \notin Range(t)
    BY <1>1, TailOnce
  <1>3. /\ Len(t) = Len(s) - 1 /\ t \in Seq(Events)
        /\ \A i \in 1..(Len(s) - 1) : t[i] = s[i + 1]
    BY <1>1
  <1> HIDE DEF t
  <1>4. n[p] = IF t = <<>> THEN NULL ELSE t[1]
    <2>0. Len(s) \in Nat \ {0}
      BY <1>1
    <2>4. 1 \in 1..Len(s)
      BY <2>0
    <2>1. n[s[1]] = IF 1 = Len(s) THEN NULL ELSE s[1 + 1]
      BY <1>1, <2>4, Zenon
    <2>2. CASE Len(s) = 1
      <3>1. Len(t) = 0
        BY <1>3, <2>2
      <3>2. t = <<>>
        BY <1>3, <3>1
      <3> QED
        BY <1>1, <2>1, <2>2, <3>2
    <2>3. CASE Len(s) # 1
      <3>3. Len(t) = Len(s) - 1
        BY <1>3
      <3>1. 1 \in 1..(Len(s) - 1) /\ Len(t) # 0
        BY <2>0, <2>3, <3>3
      <3>2. t[1] = s[1 + 1] /\ t # <<>>
        BY <1>3, <3>1
      <3> QED
        BY <1>1, <2>1, <2>3, <3>2
    <2> QED
      BY <2>2, <2>3
  <1>5. ASSUME NEW i \in 1..Len(t)
        PROVE  n[t[i]] = IF i = Len(t) THEN NULL ELSE t[i + 1]
    <2>1. i \in 1..(Len(s) - 1) /\ i + 1 \in 1..Len(s) /\ (i + 1 = Len(s) <=> i = Len(t))
          /\ (i # Len(t) => i + 1 \in 1..(Len(s) - 1))
      BY <1>1, <1>3
    <2>2. t[i] = s[i + 1] /\ (i # Len(t) => t[i + 1] = s[(i + 1) + 1])
      BY <1>3, <2>1
    <2> QED
      BY <1>1, <2>1, <2>2
  <1>6. t # <<>> => t[Len(t)] = s[Len(s)]
    <2>1. t # <<>> => Len(t) \in 1..(Len(s) - 1) /\ Len(t) + 1 = Len(s)
      BY <1>1, <1>3
    <2> QED
      BY <1>3, <2>1
  <1>7. IsList(n, n[p], t)
    BY <1>2, <1>4, <1>5 DEF IsList, Links
  <1> QED
    BY <1>2, <1>6, <1>7 DEF t, Elements, Range

\* An element linked in behind the first k.
LEMMA ListPut ==
    ASSUME NEW n, NEW m, NEW p, NEW s, IsList(n, p, s), NEW e \in Events, e \notin Elements(s),
           NEW k \in 0..Len(s), NEW t \in Seq(Events), PutAfter(s, e, k, t),
           m[e] = IF k = Len(s) THEN NULL ELSE s[k + 1],
           k # 0 => m[s[k]] = e,
           \A j \in 1..Len(s) : j # k => m[s[j]] = n[s[j]]
    PROVE  /\ IsList(m, IF k = 0 THEN e ELSE p, t)
           /\ Elements(t) = Elements(s) \cup {e}
           /\ t # <<>> /\ t[Len(t)] = IF k = Len(s) THEN e ELSE s[Len(s)]
  <1>1. /\ s \in Seq(Events) /\ Once(s) /\ Len(s) \in Nat /\ k \in Nat /\ k <= Len(s)
        /\ \A i \in 1..Len(s) : n[s[i]] = IF i = Len(s) THEN NULL ELSE s[i + 1]
    BY DEF IsList, Links
  <1>2. Range(t) = Range(s) \cup {e} /\ Once(t)
    <2>1. e \notin Range(s)
      BY DEF Elements, Range
    <2> QED
      BY <1>1, <2>1, PutOnce
  <1>3. /\ Len(t) = Len(s) + 1 /\ t[k + 1] = e
        /\ \A j \in 1..k : t[j] = s[j]
        /\ \A j \in (k + 1)..Len(s) : t[j + 1] = s[j]
    BY DEF PutAfter
  <1>4. ASSUME NEW i \in 1..Len(t)
        PROVE  m[t[i]] = IF i = Len(t) THEN NULL ELSE t[i + 1]
    <2>1. CASE i < k
      <3>1. i \in 1..k /\ i + 1 \in 1..k /\ i \in 1..Len(s) /\ i # k /\ i # Len(s) /\ i # Len(t)
        BY <1>1, <1>3, <2>1
      <3> QED
        BY <1>1, <1>3, <3>1
    <2>2. CASE i = k
      <3>1. i \in 1..k /\ i # 0 /\ i # Len(t)
        BY <1>1, <1>3, <2>2
      <3> QED
        BY <1>3, <2>2, <3>1
    <2>3. CASE i = k + 1
      <3>1. CASE k = Len(s)
        BY <1>3, <2>3, <3>1
      <3>2. CASE k # Len(s)
        <4>1. k + 1 \in (k + 1)..Len(s) /\ i # Len(t)
          BY <1>1, <1>3, <2>3, <3>2
        <4>2. t[(k + 1) + 1] = s[k + 1]
          BY <1>3, <4>1
        <4> QED
          BY <1>3, <2>3, <3>2, <4>1, <4>2
      <3> QED
        BY <3>1, <3>2
    <2>4. CASE i > k + 1
      <3> DEFINE j == i - 1
      <3>1. j \in (k + 1)..Len(s) /\ j \in 1..Len(s) /\ j # k /\ j + 1 = i
        BY <1>1, <1>3, <2>4
      <3>5. Len(t) = Len(s) + 1 /\ Len(s) \in Nat /\ k \in Nat /\ i \in Nat
        BY <1>1, <1>3
      <3>4. (j = Len(s) => i = Len(t)) /\ (j # Len(s) => i # Len(t) /\ i \in (k + 1)..Len(s))
        BY <3>1, <3>5
      <3> HIDE DEF j
      <3>2. t[i] = s[j] /\ m[s[j]] = n[s[j]]
        BY <1>3, <3>1
      <3>3. j # Len(s) => t[i + 1] = s[j + 1]
        BY <1>3, <3>1, <3>4
      <3> QED
        BY <1>1, <3>1, <3>2, <3>3, <3>4
    <2> QED
      BY <1>1, <1>3, <2>1, <2>2, <2>3, <2>4
  <1>5. t # <<>> /\ t[1] = IF k = 0 THEN e ELSE s[1]
    <2>1. k # 0 => 1 \in 1..k
      BY <1>1
    <2>2. t # <<>>
      BY <1>1, <1>3
    <2> QED
      BY <1>3, <2>1, <2>2
  <1>6. k # 0 => p = s[1]
    BY <1>1 DEF IsList, Links
  <1>7. t[Len(t)] = IF k = Len(s) THEN e ELSE s[Len(s)]
    <2>1. k # Len(s) => Len(s) \in (k + 1)..Len(s)
      BY <1>1
    <2> QED
      BY <1>3, <2>1
  <1>8. IsList(m, IF k = 0 THEN e ELSE p, t)
    BY <1>2, <1>4, <1>5, <1>6 DEF IsList, Links
  <1> QED
    BY <1>2, <1>5, <1>7, <1>8 DEF Elements, Range

--------------------------------------------------------------------------------
\* After recycleAll has appended the list, and until clear(), sortedEvents.first
\* still points into what is the collector's now.
Owned == ~(ppc \in {"push", "pop", "clear"} /\ caller = "clear")

\* The pointers make up two lists, S of the buffer and W of the collector.
Shape(S, W) ==
    /\ next \in [Events -> Events \cup {NULL}]
    /\ at \in [Events -> Positions]
    /\ heap \subseteq Events
    /\ eventQueue \in Seq(Events)
    /\ objectQueue \in Seq(Events)
    /\ sortedEvents \in [first : Events \cup {NULL}, last : Pointers]
    /\ waitingList \in [first : Events \cup {NULL}, last : Pointers]
    /\ ppc \in {"idle", "flush", "push", "pop", "clear"}
    /\ caller \in {"idle", "clear"}
    /\ S \in Seq(Events)
    /\ IsList(next, waitingList.first, W)
    /\ Owned => IsList(next, sortedEvents.first, S)
    /\ ~Owned => S = <<>>

\* No event is in two of the four places, or twice in one, except the one that has
\* been pushed and not yet popped; and none waits but in the loop of recycleAll.
Apart(S, W) ==
    /\ Once(eventQueue) /\ Once(objectQueue)
    /\ Elements(eventQueue) \cup Elements(S) \cup Elements(W) \cup Elements(objectQueue)
          \subseteq heap
    /\ Elements(eventQueue) \cap (Elements(S) \cup Elements(W) \cup Elements(objectQueue)) = {}
    /\ Elements(S) \cap (Elements(W) \cup Elements(objectQueue)) = {}
    /\ \A x \in Elements(W) \cap Elements(objectQueue) : ppc = "pop" /\ x = waitingList.first
    /\ ppc = "pop" => waitingList.first \in Elements(objectQueue)
    /\ ppc = "clear" => caller = "clear"
    /\ waitingList.first # NULL => caller = "clear" /\ ppc \in {"push", "pop"}
    /\ \A x \in Elements(eventQueue) : next[x] = NULL

\* The last pointers, which stay behind when a list runs empty.
Ends(S, W) ==
    /\ Ascending(at, S)
    /\ S # <<>> => sortedEvents.last = S[Len(S)]
    /\ (W # <<>> => waitingList.last = W[Len(W)])

Sound(S, W) == Shape(S, W) /\ Apart(S, W) /\ Ends(S, W)

\* The inductive invariant: the first undefined step leaves no more than the lists.
CInv ==
    /\ \E S, W \in Seq(Events) : Shape(S, W) /\ (fault = "none" => Sound(S, W))
    /\ OnlyFlushRaces

\* The variables of EventStore, in terms of the two lists.
LEMMA Mapped ==
    ASSUME NEW S, NEW W, Shape(S, W)
    PROVE  /\ Held = S /\ Waiting = Elements(W) /\ Chain(next, waitingList.first) = W
           /\ Owned => Chain(next, sortedEvents.first) = S
  BY ChainIs DEF Shape, Held, Waiting, Owned

LEMMA MappedNext ==
    ASSUME NEW S, NEW W, Shape(S, W)'
    PROVE  Held' = S /\ Waiting' = Elements(W)
  BY ChainIs DEF Shape, Held, Waiting, Owned

\* The initial states satisfy the invariant and are initial states of EventStore.
LEMMA InitStep ==
    ASSUME Init
    PROVE  CInv /\ Store!Init
  <1>0. /\ IsList(next, NULL, <<>>)
        /\ EmptyList \in [first : Events \cup {NULL}, last : Pointers] /\ EmptyList.first = NULL
    BY DEF IsList, Links, Once, EmptyList, Pointers
  <1>1. Shape(<<>>, <<>>)
    <2>1. /\ next \in [Events -> Events \cup {NULL}] /\ at \in [Events -> Positions]
          /\ heap \subseteq Events /\ eventQueue \in Seq(Events) /\ objectQueue \in Seq(Events)
      BY DEF Init
    <2>2. /\ sortedEvents \in [first : Events \cup {NULL}, last : Pointers]
          /\ waitingList \in [first : Events \cup {NULL}, last : Pointers]
          /\ sortedEvents.first = NULL /\ waitingList.first = NULL
      BY <1>0, Zenon DEF Init
    <2>3. Owned /\ ppc = "idle" /\ caller = "idle"
      BY DEF Init, Owned
    <2>4. IsList(next, waitingList.first, <<>>) /\ IsList(next, sortedEvents.first, <<>>)
      BY <1>0, <2>2
    <2>5. <<>> \in Seq(Events)
      OBVIOUS
    <2> QED
      BY <2>1, <2>2, <2>3, <2>4, <2>5 DEF Shape
  <1>2. Sound(<<>>, <<>>)
    <2>1. waitingList.first = NULL /\ ppc = "idle"
      BY <1>0, Zenon DEF Init
    <2> QED
      BY <1>1, <2>1 DEF Init, Sound, Apart, Ends, Elements, Once, Ascending
  <1>3. Held = <<>> /\ Waiting = {}
    BY <1>1, Mapped DEF Elements
  <1>4. CInv
    <2>1. <<>> \in Seq(Events) /\ fault = "none"
      BY DEF Init
    <2>2. OnlyFlushRaces
      BY <1>0, <2>1 DEF Init, OnlyFlushRaces
    <2> QED
      BY <1>1, <1>2, <2>1, <2>2 DEF CInv
  <1>5. Store!Init
    BY <1>3 DEF Store!Init, Init
  <1> QED
    BY <1>4, <1>5

--------------------------------------------------------------------------------
\* What a push adds to a queue, and what a pop takes from it.
LEMMA Pushed ==
    ASSUME NEW q \in Seq(Events), NEW e \in Events
    PROVE  /\ Append(q, e) \in Seq(Events)
           /\ Elements(Append(q, e)) = Elements(q) \cup {e}
           /\ Once(q) /\ e \notin Elements(q) => Once(Append(q, e))
  BY AppendOnce DEF Elements, Range

LEMMA Popped ==
    ASSUME NEW q \in Seq(Events), q # <<>>
    PROVE  /\ Head(q) \in Events /\ Tail(q) \in Seq(Events)
           /\ Elements(q) = Elements(Tail(q)) \cup {Head(q)}
           /\ Once(q) => Once(Tail(q)) /\ Head(q) \notin Elements(Tail(q))
  BY TailOnce DEF Elements, Range

\* e has come to the queue, and nothing else has changed.
Placed(W, e) ==
    /\ next' = next /\ waitingList' = waitingList
    /\ objectQueue' \in Seq(Events) /\ Once(objectQueue')
    /\ Elements(objectQueue') = Elements(objectQueue) \cup {e}
    /\ Elements(W) \cap Elements(objectQueue') = {}

\* ObjectCollector::recycle puts an element in exactly one place.
LEMMA Recycled ==
    ASSUME NEW S \in Seq(Events), NEW W \in Seq(Events), Sound(S, W), ppc # "pop",
           NEW e \in heap, e \notin Elements(W), e \notin Elements(objectQueue), Recycle(e)
    PROVE  Placed(W, e)
  <1>1. /\ e \in Events /\ objectQueue \in Seq(Events) /\ Once(objectQueue)
        /\ Elements(W) \cap Elements(objectQueue) = {}
    BY DEF Sound, Shape, Apart
  <1>2. objectQueue' = Append(objectQueue, e) /\ next' = next /\ waitingList' = waitingList
    BY DEF Recycle
  <1>3. /\ objectQueue' \in Seq(Events) /\ Once(objectQueue')
        /\ Elements(objectQueue') = Elements(objectQueue) \cup {e}
    BY <1>1, <1>2, Pushed
  <1> QED
    BY <1>1, <1>2, <1>3 DEF Placed

\* s with e behind its first k elements.
PutIn(s, e, k) == SubSeq(s, 1, k) \o <<e>> \o SubSeq(s, k + 1, Len(s))

\* EventList::insert links e in behind everything that is not later.
LEMMA Inserted ==
    ASSUME NEW S, NEW W, Sound(S, W), Owned,
           NEW e \in heap, e \notin Elements(S), next[e] = NULL, Insert(e)
    PROVE  \E k \in 0..Len(S) :
              /\ PutIn(S, e, k) \in Seq(Events) /\ PutAfter(S, e, k, PutIn(S, e, k))
              /\ \A j \in 1..k : at[S[j]] <= at[e]
              /\ \A j \in (k + 1)..Len(S) : at[S[j]] > at[e]
              /\ IsList(next', sortedEvents'.first, PutIn(S, e, k))
              /\ Elements(PutIn(S, e, k)) = Elements(S) \cup {e}
              /\ PutIn(S, e, k) # <<>>
              /\ sortedEvents'.last = PutIn(S, e, k)[Len(PutIn(S, e, k))]
              /\ sortedEvents' \in [first : Events \cup {NULL}, last : Pointers]
              /\ next' \in [Events -> Events \cup {NULL}]
              /\ \A x \in Events : x \notin Elements(S) /\ x # e => next'[x] = next[x]
  <1> DEFINE last == sortedEvents.last
             first == sortedEvents.first
  <1>0. /\ S \in Seq(Events) /\ Once(S) /\ e \in Events /\ at \in [Events -> Int]
        /\ next \in [Events -> Events \cup {NULL}] /\ DOMAIN S = 1..Len(S)
        /\ sortedEvents \in [first : Events \cup {NULL}, last : Pointers]
        /\ IsList(next, first, S)
        /\ Chain(next, first) = S
    <2>1. Shape(S, W) /\ Positions \subseteq Int
      BY EventAssumption DEF Sound
    <2>2. Chain(next, first) = S
      BY <2>1, Mapped
    <2>3. at \in [Events -> Int]
      BY <2>1 DEF Shape
    <2>4. IsList(next, first, S) /\ heap \subseteq Events
      BY <2>1 DEF Shape
    <2> QED
      BY <2>1, <2>2, <2>3, <2>4 DEF Shape, IsList
  <1>1. Ascending(at, S) /\ (S # <<>> => last = S[Len(S)]) /\ Len(S) \in Nat
    BY <1>0 DEF Sound, Ends
  <1>2. \A j \in 1..Len(S) : S[j] \in Events /\ at[S[j]] \in Int /\ S[j] \in Elements(S) /\ S[j] # e
    BY <1>0 DEF Elements
  <1>3. (first = NULL <=> S = <<>>) /\ (S # <<>> => first = S[1] /\ first \in Events)
    BY <1>0, ListFirst
  <1>4. at[e] \in Int
    BY <1>0
  <1>5. \A i, j \in 1..Len(S) : i < j => at[S[i]] <= at[S[j]]
    BY <1>0, <1>1, Zenon DEF Ascending
  \* What is left to show in every branch of the code.
  <1>6. ASSUME NEW k \in 0..Len(S),
               \A j \in 1..k : at[S[j]] <= at[e],
               \A j \in (k + 1)..Len(S) : at[S[j]] > at[e],
               next' \in [Events -> Events \cup {NULL}],
               next'[e] = IF k = Len(S) THEN NULL ELSE S[k + 1],
               k # 0 => next'[S[k]] = e,
               \A x \in Events : x # e /\ (k # 0 => x # S[k]) => next'[x] = next[x],
               sortedEvents' \in [first : Events \cup {NULL}, last : Pointers],
               sortedEvents'.first = IF k = 0 THEN e ELSE first,
               sortedEvents'.last = IF k = Len(S) THEN e ELSE last
        PROVE  /\ PutIn(S, e, k) \in Seq(Events) /\ PutAfter(S, e, k, PutIn(S, e, k))
               /\ IsList(next', sortedEvents'.first, PutIn(S, e, k))
               /\ Elements(PutIn(S, e, k)) = Elements(S) \cup {e}
               /\ PutIn(S, e, k) # <<>>
               /\ sortedEvents'.last = PutIn(S, e, k)[Len(PutIn(S, e, k))]
               /\ \A x \in Events : x \notin Elements(S) /\ x # e => next'[x] = next[x]
    <2> DEFINE t == PutIn(S, e, k)
    <2>1. t \in Seq(Events) /\ PutAfter(S, e, k, t)
      BY <1>0, PutShape DEF PutIn
    <2> HIDE DEF t
    <2>2. k # 0 => k \in 1..Len(S)
      BY <1>1
    <2>3. \A j \in 1..Len(S) : j # k => next'[S[j]] = next[S[j]]
      <3> SUFFICES ASSUME NEW j \in 1..Len(S), j # k PROVE next'[S[j]] = next[S[j]]
        OBVIOUS
      <3>1. k # 0 => S[j] # S[k]
        BY <1>0, <2>2, Zenon DEF Once
      <3> QED
        BY <1>2, <1>6, <3>1
    <2>4. /\ IsList(next', IF k = 0 THEN e ELSE first, t)
          /\ Elements(t) = Elements(S) \cup {e}
          /\ t # <<>> /\ t[Len(t)] = IF k = Len(S) THEN e ELSE S[Len(S)]
      <3>1. /\ next'[e] = IF k = Len(S) THEN NULL ELSE S[k + 1]
            /\ k # 0 => next'[S[k]] = e
        BY <1>6
      <3>2. e \in Events /\ IsList(next, first, S)
        BY <1>0
      <3> HIDE DEF first
      <3> QED
        BY <2>1, <2>3, <3>1, <3>2, ListPut
    <2>5. k # Len(S) => S # <<>>
      BY <1>1
    <2>6. \A x \in Events : x \notin Elements(S) /\ x # e => next'[x] = next[x]
      BY <1>2, <1>6, <2>2
    <2> QED
      BY <1>1, <1>6, <2>1, <2>4, <2>5, <2>6 DEF t
  <1>7. CASE first = NULL
    <2>1. /\ S = <<>> /\ next' = next
          /\ sortedEvents' = [first |-> e, last |-> e]
      BY <1>3, <1>7 DEF Insert
    <2>2. 0 \in 0..Len(S) /\ 0 = Len(S)
      BY <2>1
    <2>3. /\ \A j \in 1..0 : at[S[j]] <= at[e]
          /\ \A j \in (0 + 1)..Len(S) : at[S[j]] > at[e]
      BY <2>2
    <2>4. /\ sortedEvents' \in [first : Events \cup {NULL}, last : Pointers]
          /\ sortedEvents'.first = e /\ sortedEvents'.last = e
      BY <1>0, <2>1 DEF Pointers
    <2> DEFINE k == 0
    <2>5. /\ k \in 0..Len(S) /\ k = Len(S) /\ k = 0
          /\ \A j \in 1..k : at[S[j]] <= at[e]
          /\ \A j \in (k + 1)..Len(S) : at[S[j]] > at[e]
      BY <2>2, <2>3
    <2> HIDE DEF k
    <2> QED
      BY <1>0, <1>6, <2>1, <2>4, <2>5
  <1>8. CASE first # NULL /\ at[last] <= at[e]
    <2>1. /\ next' = [next EXCEPT ![last] = e]
          /\ sortedEvents' = [sortedEvents EXCEPT !.last = e]
          /\ S # <<>>
      BY <1>3, <1>8 DEF Insert
    <2> DEFINE k == Len(S)
    <2>2. k \in 0..Len(S) /\ k # 0 /\ k \in 1..Len(S) /\ last = S[k]
      BY <1>0, <1>1, <2>1
    <2>3. /\ \A j \in 1..k : at[S[j]] <= at[e]
          /\ \A j \in (k + 1)..Len(S) : at[S[j]] > at[e]
      <3>1. ASSUME NEW j \in 1..k PROVE at[S[j]] <= at[e]
        <4>1. at[S[j]] <= at[S[k]]
          <5>1. CASE j = k
            BY <1>2, <2>2, <5>1
          <5>2. CASE j < k
            BY <1>5, <2>2, <5>2
          <5> QED
            BY <1>1, <5>1, <5>2
        <4> QED
          BY <1>2, <1>4, <1>8, <2>2, <4>1
      <3> QED
        BY <1>1, <3>1
    <2>4. /\ sortedEvents' \in [first : Events \cup {NULL}, last : Pointers]
          /\ sortedEvents'.first = first /\ sortedEvents'.last = e
      BY <1>0, <2>1 DEF Pointers
    <2>5. /\ next' \in [Events -> Events \cup {NULL}] /\ next'[S[k]] = e
          /\ \A x \in Events : x # S[k] => next'[x] = next[x]
      BY <1>0, <1>2, <2>1, <2>2
    <2>6. next'[e] = NULL
      BY <1>0, <1>2, <2>2, <2>5
    <2>7. k = Len(S)
      OBVIOUS
    <2> HIDE DEF k
    <2> QED
      BY <1>6, <2>2, <2>3, <2>4, <2>5, <2>6, <2>7
  <1>9. CASE first # NULL /\ ~(at[last] <= at[e]) /\ at[e] < at[first]
    <2>1. /\ next' = [next EXCEPT ![e] = first]
          /\ sortedEvents' = [sortedEvents EXCEPT !.first = e]
          /\ S # <<>> /\ first = S[1] /\ first \in Events
      BY <1>3, <1>9 DEF Insert
    <2>2. 0 # Len(S) /\ 1 \in 1..Len(S)
      BY <1>1, <2>1
    <2>3. ASSUME NEW j \in 1..Len(S) PROVE at[S[j]] > at[e]
      <3>1. at[S[1]] <= at[S[j]]
        <4>1. CASE j = 1
          BY <1>2, <2>2, <4>1
        <4>2. CASE j # 1
          <5>1. 1 < j
            BY <4>2
          <5> QED
            BY <1>5, <2>2, <5>1
        <4> QED
          BY <4>1, <4>2
      <3> QED
        BY <1>2, <1>4, <1>9, <2>1, <2>2, <3>1
    <2>4. /\ sortedEvents' \in [first : Events \cup {NULL}, last : Pointers]
          /\ sortedEvents'.first = e /\ sortedEvents'.last = last
      BY <1>0, <2>1
    <2>5. /\ next' \in [Events -> Events \cup {NULL}] /\ next'[e] = S[1]
          /\ \A x \in Events : x # e => next'[x] = next[x]
      BY <1>0, <2>1
    <2> DEFINE k == 0
    <2>6. /\ k \in 0..Len(S) /\ k # Len(S) /\ k = 0 /\ S[k + 1] = S[1]
          /\ \A j \in 1..k : at[S[j]] <= at[e]
          /\ \A j \in (k + 1)..Len(S) : at[S[j]] > at[e]
      BY <1>1, <2>2, <2>3
    <2> HIDE DEF k
    <2> QED
      BY <1>6, <2>4, <2>5, <2>6
  <1>10. CASE first # NULL /\ ~(at[last] <= at[e]) /\ ~(at[e] < at[first])
    <2>0. /\ next' = [next EXCEPT ![e] = next[Before(e)], ![Before(e)] = e]
          /\ sortedEvents' = sortedEvents
          /\ S # <<>> /\ first = S[1] /\ first \in Events /\ last = S[Len(S)]
      BY <1>1, <1>3, <1>10 DEF Insert
    <2> DEFINE Stop == {i \in 1..(Len(S) - 1) : at[S[i + 1]] > at[e]}
               Walk(i) == /\ at[S[i + 1]] > at[e]
                          /\ \A j \in 1..(i - 1) : at[S[j + 1]] <= at[e]
    <2>1. Len(S) - 1 \in Stop
      <3>1. Len(S) \in 1..Len(S) /\ 1 \in 1..Len(S)
        BY <1>1, <2>0
      <3>2. at[S[Len(S)]] > at[e] /\ at[S[1]] <= at[e]
        BY <1>2, <1>4, <1>10, <2>0, <3>1
      <3>3. Len(S) # 1
        BY <1>2, <1>4, <3>1, <3>2
      <3> DEFINE l == Len(S) - 1
      <3>4. l \in Nat /\ l # 0 /\ l + 1 = Len(S)
        BY <3>1, <3>3
      <3>5. \A i : i \in Stop <=> i \in 1..l /\ at[S[i + 1]] > at[e]
        OBVIOUS
      <3> HIDE DEF l, Stop
      <3>6. l \in 1..l
        BY <3>4
      <3>7. l \in Stop
        BY <3>2, <3>4, <3>5, <3>6
      <3> QED
        BY <3>7 DEF l
    <2>2. PICK m \in Stop : \A i \in Stop : m <= i
      <3>1. Stop \subseteq Nat
        OBVIOUS
      <3>2. Stop # {}
        BY <2>1
      <3> HIDE DEF Stop
      <3> QED
        BY <3>1, <3>2, LeastNatural
    <2>3. m \in 1..(Len(S) - 1) /\ Walk(m)
      <3>1. m \in 1..(Len(S) - 1) /\ at[S[m + 1]] > at[e]
        BY <2>2
      <3>2. ASSUME NEW j \in 1..(m - 1) PROVE at[S[j + 1]] <= at[e]
        <4>1. j \in 1..(Len(S) - 1) /\ j + 1 \in 1..Len(S) /\ ~(m <= j)
          BY <1>1, <3>1
        <4>2. ~(at[S[j + 1]] > at[e])
          BY <2>2, <4>1
        <4> QED
          BY <1>2, <1>4, <4>1, <4>2
      <3> QED
        BY <3>1, <3>2
    <2>4. /\ Before(e) \in Elements(S)
          /\ \E i \in 1..(Len(S) - 1) : S[i] = Before(e) /\ Walk(i)
      <3> DEFINE P(x) == \E i \in 1..(Len(S) - 1) : S[i] = x /\ Walk(i)
      <3>1. S[m] \in Elements(S) /\ P(S[m])
        <4>1. m \in 1..Len(S)
          BY <1>1, <2>3
        <4> QED
          BY <1>2, <2>3, <4>1
      <3>2. Before(e) = CHOOSE x \in Elements(S) : P(x)
        BY <1>0 DEF Before
      <3> HIDE DEF P
      <3>3. Before(e) \in Elements(S) /\ P(Before(e))
        BY <3>1, <3>2
      <3> QED
        BY <3>3 DEF P
    <2>5. PICK k \in 1..(Len(S) - 1) : S[k] = Before(e) /\ Walk(k)
      BY <2>4
    <2>6. k \in 1..Len(S) /\ k \in 0..Len(S) /\ k # 0 /\ k # Len(S) /\ k + 1 \in 1..Len(S)
      BY <1>1, <2>5
    <2>7. ASSUME NEW j \in 1..k PROVE at[S[j]] <= at[e]
      <3>1. CASE j = 1
        <4>1. 1 \in 1..Len(S)
          BY <2>6
        <4>2. at[S[1]] \in Int /\ ~(at[e] < at[S[1]])
          BY <1>2, <1>10, <2>0, <4>1
        <4> QED
          BY <1>4, <3>1, <4>2
      <3>2. CASE j > 1
        <4>1. j - 1 \in 1..(k - 1) /\ (j - 1) + 1 = j
          BY <2>5, <3>2
        <4>2. at[S[(j - 1) + 1]] <= at[e]
          BY <2>5, <4>1
        <4> QED
          BY <4>1, <4>2
      <3> QED
        BY <3>1, <3>2
    <2>8. ASSUME NEW j \in (k + 1)..Len(S) PROVE at[S[j]] > at[e]
      <3>1. j \in 1..Len(S) /\ (j = k + 1 \/ k + 1 < j)
        BY <2>6
      <3>2. at[S[k + 1]] <= at[S[j]]
        BY <1>2, <1>5, <2>6, <3>1
      <3> QED
        BY <1>2, <1>4, <2>5, <2>6, <3>1, <3>2
    <2>9. next[S[k]] = S[k + 1] /\ S[k] # e /\ S[k] \in Events /\ S[k + 1] \in Events
      BY <1>0, <1>2, <2>6 DEF IsList, Links
    <2>10. /\ next' \in [Events -> Events \cup {NULL}] /\ next'[S[k]] = e /\ next'[e] = S[k + 1]
           /\ \A x \in Events : x # e /\ x # S[k] => next'[x] = next[x]
      <3>1. next' = [next EXCEPT ![e] = S[k + 1], ![S[k]] = e]
        BY <2>0, <2>5, <2>9
      <3> QED
        BY <1>0, <2>9, <3>1
    <2>11. k \in 0..Len(S) /\ (\A j \in 1..k : at[S[j]] <= at[e])
           /\ (\A j \in (k + 1)..Len(S) : at[S[j]] > at[e])
      BY <2>6, <2>7, <2>8
    <2>12. /\ sortedEvents' \in [first : Events \cup {NULL}, last : Pointers]
           /\ sortedEvents'.first = first /\ sortedEvents'.last = last
      BY <1>0, <2>0
    <2> QED
      BY <1>6, <2>6, <2>10, <2>11, <2>12
  <1> QED
    BY <1>7, <1>8, <1>9, <1>10

--------------------------------------------------------------------------------
(***************************************************************************)
(* Every action keeps the invariant and is a step of EventStore or none.   *)
(***************************************************************************)
Refines == CInv' /\ [Store!Next]_(Store!vars)

LEMMA Keeps ==
    ASSUME NEW S \in Seq(Events), NEW W \in Seq(Events), fault' = "none",
           Shape(S, W)', Apart(S, W)', Ends(S, W)'
    PROVE  CInv'
  BY DEF CInv, Sound, Apart, OnlyFlushRaces

\* A new event is scheduled.
LEMMA AddEventStep ==
    ASSUME NEW S \in Seq(Events), NEW W \in Seq(Events), Sound(S, W),
           NEW e \in Events, NEW p \in Positions, AddEvent(e, p)
    PROVE  Refines
  <1>0. Shape(S, W) /\ Apart(S, W) /\ Ends(S, W)
    BY DEF Sound
  <1>1. /\ e \notin heap /\ heap' = heap \cup {e} /\ next' = [next EXCEPT ![e] = NULL]
        /\ at' = [at EXCEPT ![e] = p] /\ eventQueue' = Append(eventQueue, e)
        /\ UNCHANGED <<objectQueue, sortedEvents, waitingList, ppc, caller>>
        /\ fault = "none" /\ fault' = "none"
    BY DEF AddEvent
  <1>3. /\ next' \in [Events -> Events \cup {NULL}] /\ next'[e] = NULL
        /\ at' \in [Events -> Positions]
        /\ \A x \in Events : x # e => next'[x] = next[x] /\ at'[x] = at[x]
    BY <1>0, <1>1 DEF Shape
  <1>4. /\ eventQueue \in Seq(Events) /\ objectQueue \in Seq(Events)
        /\ Elements(eventQueue) \cup Elements(S) \cup Elements(W) \cup Elements(objectQueue)
              \subseteq heap
        /\ heap \subseteq Events
    BY <1>0 DEF Shape, Apart
  <1>5. /\ eventQueue' \in Seq(Events) /\ Elements(eventQueue') = Elements(eventQueue) \cup {e}
        /\ Once(eventQueue')
    BY <1>0, <1>1, <1>4, Pushed DEF Apart
  <1>6. IsList(next', waitingList'.first, W)
    <2>1. \A x \in Elements(W) : next'[x] = next[x]
      BY <1>1, <1>3, <1>4
    <2> QED
      BY <1>0, <1>1, <2>1, ListFrame DEF Shape
  <1>7. Owned' <=> Owned
    BY <1>1 DEF Owned
  <1>8. Owned => IsList(next', sortedEvents'.first, S)
    <2>1. \A x \in Elements(S) : next'[x] = next[x]
      BY <1>1, <1>3, <1>4
    <2> QED
      BY <1>0, <1>1, <2>1, ListFrame DEF Shape
  <1>9. Shape(S, W)'
    BY <1>0, <1>1, <1>3, <1>4, <1>5, <1>6, <1>7, <1>8 DEF Shape
  <1>10. Apart(S, W)'
    <2>1. \A x \in Elements(eventQueue') : next'[x] = NULL
      BY <1>0, <1>1, <1>3, <1>4, <1>5 DEF Apart
    <2> QED
      BY <1>0, <1>1, <1>4, <1>5, <2>1 DEF Apart
  <1>11. Ends(S, W)'
    <2>1. \A i \in DOMAIN S : S[i] \in Elements(S) /\ at'[S[i]] = at[S[i]]
      <3>1. \A i \in DOMAIN S : S[i] \in Elements(S)
        BY DEF Elements
      <3> QED
        BY <1>1, <1>3, <1>4, <3>1
    <2>2. Ascending(at', S)
      BY <1>0, <2>1 DEF Ends, Ascending
    <2>3. (W # <<>> => waitingList.last = W[Len(W)])'
      BY <1>0, <1>1, Zenon DEF Ends
    <2> QED
      BY <1>0, <1>1, <2>2, <2>3 DEF Ends
  <1>12. CInv'
    BY <1>1, <1>9, <1>10, <1>11, Keeps
  <1>13. /\ Held = S /\ Waiting = Elements(W) /\ Held' = S /\ Waiting' = Elements(W)
    BY <1>0, <1>9, Mapped, MappedNext
  <1>14. (Elements(objectQueue') \cup Waiting') \cap heap' = (Elements(objectQueue) \cup Waiting) \cap heap
    BY <1>1, <1>4, <1>13
  <1>15. Store!Schedule(e, p)
    <2>1. e \in Store!Free
      BY <1>1, <1>4, <1>13 DEF Store!Free, Store!Elements, Elements
    <2> QED
      BY <1>1, <1>13, <1>14, <2>1 DEF Store!Schedule
  <1>16. Store!Next
    BY <1>15 DEF Store!Next
  <1> QED
    BY <1>12, <1>16 DEF Refines

\* The script thread deletes an event, perhaps too early.
LEMMA FreeStep ==
    ASSUME NEW S \in Seq(Events), NEW W \in Seq(Events), Sound(S, W), Free
    PROVE  Refines
  <1> DEFINE e == Head(objectQueue)
  <1>0. Shape(S, W) /\ Apart(S, W) /\ Ends(S, W)
    BY DEF Sound
  <1>1. /\ fault = "none" /\ objectQueue # <<>> /\ heap' = heap \ {e}
        /\ fault' = IF ppc = "pop" /\ waitingList.first = e THEN "read" ELSE "none"
        /\ objectQueue' = Tail(objectQueue)
        /\ UNCHANGED <<sortedEvents, waitingList, next, at, eventQueue, ppc, caller>>
    BY DEF Free, listVars
  <1>3. /\ e \in Events /\ objectQueue' \in Seq(Events)
        /\ Elements(objectQueue) = Elements(objectQueue') \cup {e}
        /\ Once(objectQueue') /\ e \notin Elements(objectQueue')
    BY <1>0, <1>1, Popped DEF Shape, Apart
  <1> HIDE DEF e
  <1>4. Owned' <=> Owned
    BY <1>1 DEF Owned
  <1>5. Shape(S, W)'
    BY <1>0, <1>1, <1>3, <1>4 DEF Shape
  <1>6. CInv'
    <2>1. CASE ppc = "pop" /\ waitingList.first = e
      <3>1. OnlyFlushRaces'
        BY <1>0, <1>1, <1>3, <2>1, PointerAssumption DEF Apart, OnlyFlushRaces
      <3>2. fault' # "none"
        BY <1>1, <2>1
      <3> QED
        BY <1>5, <3>1, <3>2 DEF CInv
    <2>2. CASE ~(ppc = "pop" /\ waitingList.first = e)
      <3>1. e \notin Elements(W) /\ e \notin Elements(S) /\ e \notin Elements(eventQueue)
        BY <1>0, <1>3, <2>2 DEF Apart
      <3>2. Apart(S, W)'
        <4>1. \A x \in Elements(W) \cap Elements(objectQueue') : ppc = "pop" /\ x = waitingList.first
          BY <1>0, <1>3 DEF Apart
        <4>2. ppc = "pop" => waitingList.first \in Elements(objectQueue')
          BY <1>0, <1>3, <2>2 DEF Apart
        <4>3. Elements(eventQueue) \cup Elements(S) \cup Elements(W) \cup Elements(objectQueue')
                 \subseteq heap'
          BY <1>0, <1>1, <1>3, <3>1 DEF Apart
        <4>4. /\ Elements(eventQueue) \cap (Elements(S) \cup Elements(W) \cup Elements(objectQueue')) = {}
              /\ Elements(S) \cap (Elements(W) \cup Elements(objectQueue')) = {}
          BY <1>0, <1>3 DEF Apart
        <4>5. /\ Once(eventQueue) /\ ppc = "clear" => caller = "clear"
              /\ \A x \in Elements(eventQueue) : next[x] = NULL
          BY <1>0 DEF Apart
        <4> QED
          BY <1>0, <1>1, <1>3, <4>1, <4>2, <4>3, <4>4, <4>5 DEF Apart
      <3>3. Ends(S, W)'
        <4>1. (W # <<>> => waitingList.last = W[Len(W)])'
          BY <1>0, <1>1, Zenon DEF Ends
        <4> QED
          BY <1>0, <1>1, <4>1 DEF Ends
      <3>4. fault' = "none"
        BY <1>1, <2>2
      <3> QED
        BY <1>5, <3>2, <3>3, <3>4, Keeps
    <2> QED
      BY <2>1, <2>2
  <1>7. /\ Held = S /\ Waiting = Elements(W) /\ Held' = S /\ Waiting' = Elements(W)
    BY <1>0, <1>5, Mapped, MappedNext
  <1>8. /\ e \in (Elements(objectQueue) \cup Waiting) \cap heap
        /\ (Elements(objectQueue') \cup Waiting') \cap heap'
              = ((Elements(objectQueue) \cup Waiting) \cap heap) \ {e}
    BY <1>0, <1>1, <1>3, <1>7 DEF Apart
  <1>9. Store!Delete(e)
    BY <1>1, <1>7, <1>8 DEF Store!Delete
  <1>10. Store!Next
    BY <1>3, <1>9 DEF Store!Next
  <1> QED
    BY <1>6, <1>10 DEF Refines

\* Steps that only move the process thread on.
LEMMA ControlStep ==
    ASSUME NEW S \in Seq(Events), NEW W \in Seq(Events), Sound(S, W),
           BeginFlush \/ BeginUpdate \/ EndPush
    PROVE  Refines
  <1>0. Shape(S, W) /\ Apart(S, W) /\ Ends(S, W)
    BY DEF Sound
  <1>1. /\ fault' = "none"
        /\ UNCHANGED <<sortedEvents, waitingList, next, at, heap, eventQueue, objectQueue>>
    BY DEF BeginFlush, BeginUpdate, EndPush, listVars
  <1>3. /\ ppc # "pop" /\ ppc' \in {"idle", "flush", "push", "clear"}
        /\ caller' \in {"idle", "clear"} /\ (Owned' <=> Owned)
        /\ ppc' = "clear" => caller' = "clear"
        /\ waitingList.first = NULL
    <2>1. CASE BeginFlush
      BY <1>0, <2>1 DEF BeginFlush, Shape, Apart, Owned
    <2>2. CASE BeginUpdate
      BY <1>0, <2>2 DEF BeginUpdate, Shape, Apart, Owned
    <2>3. CASE EndPush
      <3>1. /\ ppc = "push" /\ ppc' = caller /\ caller' = caller /\ caller \in {"idle", "clear"}
            /\ waitingList.first = NULL
        BY <1>0, <2>3 DEF EndPush, Shape
      <3> QED
        BY <3>1 DEF Owned
    <2> QED
      BY <2>1, <2>2, <2>3
  <1>4. Shape(S, W)'
    BY <1>0, <1>1, <1>3 DEF Shape
  <1>5. Apart(S, W)'
    BY <1>0, <1>1, <1>3 DEF Apart
  <1>6. Ends(S, W)'
    <2>1. (W # <<>> => waitingList.last = W[Len(W)])'
      BY <1>0, <1>1, Zenon DEF Ends
    <2> QED
      BY <1>0, <1>1, <2>1 DEF Ends
  <1>7. CInv'
    BY <1>1, <1>4, <1>5, <1>6, Keeps
  <1>8. /\ Held = S /\ Waiting = Elements(W) /\ Held' = S /\ Waiting' = Elements(W)
    BY <1>0, <1>4, Mapped, MappedNext
  <1>9. UNCHANGED Store!vars
    BY <1>1, <1>8 DEF Store!vars
  <1> QED
    BY <1>7, <1>9 DEF Refines

\* clear() forgets what has been given away.
LEMMA ClearStep ==
    ASSUME NEW S \in Seq(Events), NEW W \in Seq(Events), Sound(S, W), Clear
    PROVE  Refines
  <1>0. Shape(S, W) /\ Apart(S, W) /\ Ends(S, W)
    BY DEF Sound
  <1>1. /\ fault' = "none" /\ ppc = "clear" /\ ppc' = "idle" /\ caller' = caller
        /\ sortedEvents' = [sortedEvents EXCEPT !.first = NULL]
        /\ UNCHANGED <<waitingList, next, at, heap, eventQueue, objectQueue>>
    BY DEF Clear
  <1>3. S = <<>> /\ Owned'
    BY <1>0, <1>1 DEF Apart, Shape, Owned
  <1>4. /\ sortedEvents' \in [first : Events \cup {NULL}, last : Pointers]
        /\ sortedEvents'.first = NULL
    BY <1>0, <1>1 DEF Shape
  <1>5. IsList(next, NULL, S)
    BY <1>3 DEF IsList, Links, Once
  <1>6. Shape(S, W)'
    BY <1>0, <1>1, <1>3, <1>4, <1>5 DEF Shape
  <1>7. Apart(S, W)'
    BY <1>0, <1>1 DEF Apart
  <1>8. Ends(S, W)'
    <2>1. (W # <<>> => waitingList.last = W[Len(W)])'
      BY <1>0, <1>1, Zenon DEF Ends
    <2> QED
      BY <1>0, <1>1, <1>3, <2>1 DEF Ends
  <1>9. CInv'
    BY <1>1, <1>6, <1>7, <1>8, Keeps
  <1>10. /\ Held = S /\ Waiting = Elements(W) /\ Held' = S /\ Waiting' = Elements(W)
    BY <1>0, <1>6, Mapped, MappedNext
  <1>11. UNCHANGED Store!vars
    BY <1>1, <1>10 DEF Store!vars
  <1> QED
    BY <1>9, <1>11 DEF Refines

\* The first waiting element is pushed, and from then on the script thread's.
LEMMA PushFirstStep ==
    ASSUME NEW S \in Seq(Events), NEW W \in Seq(Events), Sound(S, W), PushFirst
    PROVE  Refines
  <1> DEFINE e == waitingList.first
  <1>0. Shape(S, W) /\ Apart(S, W) /\ Ends(S, W)
    BY DEF Sound
  <1>1. /\ fault' = "none" /\ ppc = "push" /\ ppc' = "pop" /\ caller' = caller /\ e # NULL
        /\ objectQueue' = Append(objectQueue, e)
        /\ UNCHANGED <<sortedEvents, waitingList, next, at, heap, eventQueue>>
    BY DEF PushFirst, listVars
  <1>3. e \in Events /\ e \in Elements(W) /\ IsList(next, e, W)
    <2>1. IsList(next, e, W)
      BY <1>0 DEF Shape
    <2> QED
      BY <1>1, <2>1, ListFirst
  <1>4. /\ objectQueue' \in Seq(Events) /\ Once(objectQueue')
        /\ Elements(objectQueue') = Elements(objectQueue) \cup {e}
    <2>1. e \notin Elements(objectQueue)
      BY <1>0, <1>1, <1>3 DEF Apart
    <2> QED
      BY <1>0, <1>1, <1>3, <2>1, Pushed DEF Shape, Apart
  <1>5. Owned' <=> Owned
    BY <1>1 DEF Owned
  <1>6. Shape(S, W)'
    BY <1>0, <1>1, <1>4, <1>5 DEF Shape
  <1>7. Apart(S, W)'
    BY <1>0, <1>1, <1>3, <1>4 DEF Apart
  <1>8. Ends(S, W)'
    <2>1. (W # <<>> => waitingList.last = W[Len(W)])'
      BY <1>0, <1>1, Zenon DEF Ends
    <2> QED
      BY <1>0, <1>1, <2>1 DEF Ends
  <1>9. CInv'
    BY <1>1, <1>6, <1>7, <1>8, Keeps
  <1>10. /\ Held = S /\ Waiting = Elements(W) /\ Held' = S /\ Waiting' = Elements(W)
    BY <1>0, <1>6, Mapped, MappedNext
  <1>11. Elements(objectQueue') \cup Elements(W) = Elements(objectQueue) \cup Elements(W)
    BY <1>3, <1>4
  <1>12. UNCHANGED Store!vars
    BY <1>1, <1>10, <1>11 DEF Store!vars
  <1> QED
    BY <1>9, <1>12 DEF Refines

\* It leaves the list, as long as it has not been deleted.
LEMMA PopFirstStep ==
    ASSUME NEW S \in Seq(Events), NEW W \in Seq(Events), Sound(S, W), PopFirst
    PROVE  Refines
  <1> DEFINE e == waitingList.first
  <1>0. Shape(S, W) /\ Apart(S, W) /\ Ends(S, W)
    BY DEF Sound
  <1>1. /\ fault' = "none" /\ ppc = "pop" /\ ppc' = "push" /\ caller' = caller
        /\ waitingList' = [waitingList EXCEPT !.first = next[e]]
        /\ UNCHANGED <<sortedEvents, next, at, heap, eventQueue, objectQueue>>
    BY DEF PopFirst
  <1>3. e \in Events /\ e \in Elements(objectQueue)
    BY <1>0, <1>1 DEF Apart, Shape, Elements
  <1>4. IsList(next, e, W) /\ W # <<>>
    <2>1. IsList(next, e, W)
      BY <1>0 DEF Shape
    <2> QED
      BY <1>3, <2>1, ListFirst, PointerAssumption
  <1> DEFINE T == Tail(W)
  <1>5. /\ IsList(next, next[e], T)
        /\ Elements(W) = Elements(T) \cup {e} /\ e \notin Elements(T)
        /\ T # <<>> => T[Len(T)] = W[Len(W)]
    BY <1>4, ListTail
  <1> HIDE DEF T
  <1>6. /\ waitingList' \in [first : Events \cup {NULL}, last : Pointers]
        /\ waitingList'.first = next[e] /\ waitingList'.last = waitingList.last
    BY <1>0, <1>1, <1>3 DEF Shape
  <1>7. Owned' <=> Owned
    BY <1>1 DEF Owned
  <1>8. T \in Seq(Events)
    BY <1>5 DEF IsList
  <1>9. Shape(S, T)'
    BY <1>0, <1>1, <1>5, <1>6, <1>7, <1>8 DEF Shape
  <1>10. Apart(S, T)'
    <2>1. caller = "clear"
      BY <1>0, <1>3, PointerAssumption DEF Apart
    <2> QED
      BY <1>0, <1>1, <1>5, <2>1 DEF Apart
  <1>11. Ends(S, T)'
    <2>1. (T # <<>> => waitingList'.last = T[Len(T)])
      BY <1>0, <1>4, <1>5, <1>6, Zenon DEF Ends
    <2>2. (T # <<>> => waitingList.last = T[Len(T)])'
      BY <2>1, Zenon
    <2> QED
      BY <1>0, <1>1, <2>2 DEF Ends
  <1>12. CInv'
    BY <1>1, <1>8, <1>9, <1>10, <1>11, Keeps
  <1>13. /\ Held = S /\ Waiting = Elements(W) /\ Held' = S /\ Waiting' = Elements(T)
    BY <1>0, <1>9, Mapped, MappedNext
  <1>14. Elements(objectQueue) \cup Elements(T) = Elements(objectQueue) \cup Elements(W)
    BY <1>3, <1>5
  <1>15. UNCHANGED Store!vars
    BY <1>1, <1>13, <1>14 DEF Store!vars
  <1> QED
    BY <1>12, <1>15 DEF Refines

\* An event leaves the list or the queue and goes to its one new place.
LEMMA TakeFirstStep ==
    ASSUME NEW S \in Seq(Events), NEW W \in Seq(Events), Sound(S, W), TakeFirst
    PROVE  Refines
  <1> DEFINE T == Tail(S)
  <1>a. PICK e : e = sortedEvents.first
    OBVIOUS
  <1>0. Shape(S, W) /\ Apart(S, W) /\ Ends(S, W)
    BY DEF Sound
  <1>1. /\ fault' = "none" /\ ppc = "idle" /\ ppc' = ppc /\ caller' = caller /\ e # NULL
        /\ sortedEvents' = [sortedEvents EXCEPT !.first = next[e]]
        /\ Recycle(e)
        /\ UNCHANGED <<at, heap, eventQueue>>
    BY <1>a DEF TakeFirst
  <1>2. Owned /\ Owned'
    BY <1>1 DEF Owned
  <1>3. IsList(next, e, S) /\ S # <<>> /\ e \in Events /\ e = Head(S)
    <2>1. IsList(next, e, S)
      BY <1>0, <1>2, <1>a DEF Shape
    <2> QED
      BY <1>1, <2>1, ListFirst
  <1>4. /\ IsList(next, next[e], T)
        /\ Elements(S) = Elements(T) \cup {e} /\ e \notin Elements(T)
        /\ T # <<>> => T[Len(T)] = S[Len(S)]
    BY <1>3, ListTail
  <1>5. T \in Seq(Events) /\ Ascending(at, T)
    BY <1>0, <1>3, TailAscending DEF Ends
  <1>6. /\ sortedEvents' \in [first : Events \cup {NULL}, last : Pointers]
        /\ sortedEvents'.first = next[e] /\ sortedEvents'.last = sortedEvents.last
    BY <1>0, <1>1, <1>3 DEF Shape
  <1> HIDE DEF T
  <1>7. e \in heap /\ e \notin Elements(W) /\ e \notin Elements(objectQueue)
    BY <1>0, <1>4 DEF Apart
  <1>8. Placed(W, e)
    <2>1. ppc # "pop"
      BY <1>1
    <2> QED
      BY <1>1, <1>7, <2>1, Recycled
  <1>9. IsList(next', sortedEvents'.first, T)
    <2>1. \A x \in Elements(T) : next'[x] = next[x]
      BY <1>4, <1>5, <1>8 DEF Elements, Placed
    <2> QED
      BY <1>4, <1>6, <2>1, ListFrame
  <1>10. Shape(T, W)'
    BY <1>0, <1>1, <1>2, <1>5, <1>6, <1>8, <1>9 DEF Shape, Placed
  <1>11. Apart(T, W)'
    <2>1. \A x \in Elements(eventQueue) : x \in Events /\ x # e
      BY <1>0, <1>4 DEF Apart, Shape
    <2>2. \A x \in Elements(eventQueue) : next'[x] = NULL
      BY <1>0, <1>8, <2>1 DEF Apart, Placed
    <2>3. Elements(eventQueue) \cup Elements(T) \cup Elements(W) \cup Elements(objectQueue')
             \subseteq heap
      BY <1>0, <1>4, <1>7, <1>8 DEF Apart, Placed
    <2>4. /\ Elements(eventQueue) \cap (Elements(T) \cup Elements(W) \cup Elements(objectQueue')) = {}
          /\ Elements(T) \cap (Elements(W) \cup Elements(objectQueue')) = {}
      BY <1>0, <1>4, <1>8 DEF Apart, Placed
    <2> QED
      BY <1>0, <1>1, <1>8, <2>2, <2>3, <2>4 DEF Apart, Placed
  <1>12. Ends(T, W)'
    <2>1. (W # <<>> => waitingList.last = W[Len(W)])'
      BY <1>0, <1>8 DEF Ends, Placed
    <2>2. T # <<>> => sortedEvents'.last = T[Len(T)]
      BY <1>0, <1>3, <1>4, <1>6 DEF Ends
    <2> QED
      BY <1>1, <1>5, <2>1, <2>2 DEF Ends
  <1>13. CInv'
    BY <1>1, <1>5, <1>10, <1>11, <1>12, Keeps
  <1>14. /\ Held = S /\ Waiting = Elements(W) /\ Held' = T /\ Waiting' = Elements(W)
    BY <1>0, <1>10, Mapped, MappedNext
  <1>15. (Elements(objectQueue') \cup Waiting') \cap heap'
            = ((Elements(objectQueue) \cup Waiting) \cap heap) \cup {e}
    BY <1>1, <1>7, <1>8, <1>14 DEF Placed
  <1>16. Store!Return
    BY <1>1, <1>3, <1>14, <1>15 DEF Store!Return, T
  <1>17. Store!Next
    BY <1>16 DEF Store!Next
  <1> QED
    BY <1>13, <1>17 DEF Refines

LEMMA FlushQueueStep ==
    ASSUME NEW S \in Seq(Events), NEW W \in Seq(Events), Sound(S, W), FlushQueue
    PROVE  Refines
  <1>a. PICK e : e = Head(eventQueue)
    OBVIOUS
  <1>0. Shape(S, W) /\ Apart(S, W) /\ Ends(S, W)
    BY DEF Sound
  <1>1. /\ fault' = "none" /\ ppc = "flush" /\ ppc' = ppc /\ caller' = caller
        /\ eventQueue # <<>> /\ eventQueue' = Tail(eventQueue)
        /\ Recycle(e)
        /\ UNCHANGED <<at, heap, sortedEvents>>
    BY <1>a DEF FlushQueue
  <1>2. Owned /\ Owned'
    BY <1>1 DEF Owned
  <1>3. /\ e \in Events /\ eventQueue' \in Seq(Events)
        /\ Elements(eventQueue) = Elements(eventQueue') \cup {e}
        /\ Once(eventQueue') /\ e \notin Elements(eventQueue')
    BY <1>0, <1>1, <1>a, Popped DEF Shape, Apart
  <1>4. e \in heap /\ e \notin Elements(W) /\ e \notin Elements(objectQueue) /\ e \notin Elements(S)
    BY <1>0, <1>3 DEF Apart
  <1>5. Placed(W, e)
    <2>1. ppc # "pop"
      BY <1>1
    <2> QED
      BY <1>1, <1>4, <2>1, Recycled
  <1>6. IsList(next', sortedEvents'.first, S)
    <2>1. \A x \in Elements(S) : next'[x] = next[x]
      BY <1>4, <1>5 DEF Elements, Placed
    <2> QED
      BY <1>0, <1>1, <1>2, <2>1, ListFrame DEF Shape
  <1>7. Shape(S, W)'
    BY <1>0, <1>1, <1>2, <1>3, <1>5, <1>6 DEF Shape, Placed
  <1>8. Apart(S, W)'
    <2>1. \A x \in Elements(eventQueue') : x \in Events /\ x # e
      BY <1>0, <1>3 DEF Apart, Shape
    <2>2. \A x \in Elements(eventQueue') : next'[x] = NULL
      BY <1>0, <1>3, <1>5, <2>1 DEF Apart, Placed
    <2>3. Elements(eventQueue') \cup Elements(S) \cup Elements(W) \cup Elements(objectQueue')
             \subseteq heap
      BY <1>0, <1>3, <1>4, <1>5 DEF Apart, Placed
    <2>4. /\ Elements(eventQueue') \cap (Elements(S) \cup Elements(W) \cup Elements(objectQueue')) = {}
          /\ Elements(S) \cap (Elements(W) \cup Elements(objectQueue')) = {}
      BY <1>0, <1>3, <1>4, <1>5 DEF Apart, Placed
    <2> QED
      BY <1>0, <1>1, <1>3, <1>5, <2>2, <2>3, <2>4 DEF Apart, Placed
  <1>9. Ends(S, W)'
    <2>1. (W # <<>> => waitingList.last = W[Len(W)])'
      BY <1>0, <1>5 DEF Ends, Placed
    <2> QED
      BY <1>0, <1>1, <2>1 DEF Ends
  <1>10. CInv'
    BY <1>1, <1>7, <1>8, <1>9, Keeps
  <1>11. /\ Held = S /\ Waiting = Elements(W) /\ Held' = S /\ Waiting' = Elements(W)
    BY <1>0, <1>7, Mapped, MappedNext
  <1>12. (Elements(objectQueue') \cup Waiting') \cap heap'
            = ((Elements(objectQueue) \cup Waiting) \cap heap) \cup {e}
    BY <1>1, <1>4, <1>5, <1>11 DEF Placed
  <1>13. Store!ReturnQueued
    BY <1>1, <1>11, <1>12, <1>a DEF Store!ReturnQueued
  <1>14. Store!Next
    BY <1>13 DEF Store!Next
  <1> QED
    BY <1>10, <1>14 DEF Refines

\* The whole list becomes the waiting one, which is empty.
LEMMA AddAllStep ==
    ASSUME NEW S \in Seq(Events), NEW W \in Seq(Events), Sound(S, W), AddAll
    PROVE  Refines
  <1>0. Shape(S, W) /\ Apart(S, W) /\ Ends(S, W)
    BY DEF Sound
  <1>1. /\ fault' = "none" /\ ppc = "flush" /\ ppc' = "push" /\ caller' = "clear"
        /\ eventQueue = <<>>
        /\ UNCHANGED <<at, heap, eventQueue, objectQueue, sortedEvents>>
    BY DEF AddAll
  <1>2. Owned /\ ~Owned' /\ Elements(eventQueue) = {}
    BY <1>1 DEF Owned, Elements
  <1>3. IsList(next, sortedEvents.first, S) /\ IsList(next, waitingList.first, W)
    BY <1>0, <1>2 DEF Shape
  <1>4. Elements(S) \cap Elements(W) = {}
    BY <1>0 DEF Apart
  <1>5. S # <<>> => sortedEvents.last = S[Len(S)]
    BY <1>0 DEF Ends
  <1>6. waitingList.first = NULL /\ W = <<>> /\ Elements(W) = {}
    <2>1. waitingList.first = NULL
      BY <1>0, <1>1 DEF Apart
    <2>2. W = <<>>
      BY <1>3, <2>1, ListFirst
    <2> QED
      BY <2>1, <2>2 DEF Elements
  <1>7. /\ waitingList' = sortedEvents /\ next' = next
        /\ waitingList' \in [first : Events \cup {NULL}, last : Pointers]
        /\ next' \in [Events -> Events \cup {NULL}]
        /\ IsList(next', waitingList'.first, S)
    BY <1>0, <1>3, <1>6 DEF AddAll, Shape
  <1>8. <<>> \in Seq(Events) /\ Elements(<<>>) = {}
    BY DEF Elements
  <1>9. Shape(<<>>, S)'
    BY <1>0, <1>1, <1>2, <1>7, <1>8 DEF Shape
  <1>10. Apart(<<>>, S)'
    BY <1>0, <1>1, <1>2, <1>6, <1>7, <1>8 DEF Apart
  <1>11. Ends(<<>>, S)'
    <2>1. (S # <<>> => waitingList.last = S[Len(S)])'
      BY <1>5, <1>7
    <2>2. Ascending(at', <<>>)
      BY DEF Ascending
    <2> QED
      BY <2>1, <2>2 DEF Ends
  <1>12. CInv'
    BY <1>1, <1>8, <1>9, <1>10, <1>11, Keeps
  <1>13. /\ Held = S /\ Waiting = Elements(W) /\ Held' = <<>> /\ Waiting' = Elements(S)
    BY <1>0, <1>9, Mapped, MappedNext
  <1>14. (Elements(objectQueue') \cup Waiting') \cap heap'
            = ((Elements(objectQueue) \cup Waiting) \cap heap) \cup Elements(S)
    BY <1>0, <1>1, <1>6, <1>13 DEF Apart
  <1>15. CASE S = <<>>
    <2>1. UNCHANGED Store!vars
      BY <1>1, <1>8, <1>13, <1>14, <1>15 DEF Store!vars
    <2> QED
      BY <1>12, <2>1 DEF Refines
  <1>16. CASE S # <<>>
    <2>1. Store!ReturnAll
      BY <1>1, <1>13, <1>14, <1>16 DEF Store!ReturnAll, Store!Elements, Elements
    <2>2. Store!Next
      BY <2>1 DEF Store!Next
    <2> QED
      BY <1>12, <2>2 DEF Refines
  <1> QED
    BY <1>15, <1>16

\* An event comes in and is linked in where it belongs.
LEMMA UpdateOneStep ==
    ASSUME NEW S \in Seq(Events), NEW W \in Seq(Events), Sound(S, W), UpdateOne
    PROVE  Refines
  <1>a. PICK e : e = Head(eventQueue)
    OBVIOUS
  <1>0. Shape(S, W) /\ Apart(S, W) /\ Ends(S, W) /\ Positions \subseteq Int
    BY EventAssumption DEF Sound
  <1>1. /\ fault' = "none" /\ ppc = "idle" /\ ppc' = ppc /\ caller' = caller
        /\ eventQueue # <<>> /\ eventQueue' = Tail(eventQueue)
        /\ Insert(e)
        /\ UNCHANGED <<at, heap, objectQueue, waitingList>>
    BY <1>a DEF UpdateOne
  <1>3. Owned /\ Owned'
    BY <1>1 DEF Owned
  <1>4. /\ e \in Events /\ eventQueue' \in Seq(Events)
        /\ Elements(eventQueue) = Elements(eventQueue') \cup {e}
        /\ Once(eventQueue') /\ e \notin Elements(eventQueue')
    BY <1>0, <1>1, <1>a, Popped DEF Shape, Apart
  <1>5. /\ e \in heap /\ e \notin Elements(W) /\ e \notin Elements(objectQueue)
        /\ e \notin Elements(S) /\ next[e] = NULL
    BY <1>0, <1>4 DEF Apart
  <1>6. PICK k \in 0..Len(S) :
           /\ PutIn(S, e, k) \in Seq(Events) /\ PutAfter(S, e, k, PutIn(S, e, k))
           /\ \A j \in 1..k : at[S[j]] <= at[e]
           /\ \A j \in (k + 1)..Len(S) : at[S[j]] > at[e]
           /\ IsList(next', sortedEvents'.first, PutIn(S, e, k))
           /\ Elements(PutIn(S, e, k)) = Elements(S) \cup {e}
           /\ PutIn(S, e, k) # <<>>
           /\ sortedEvents'.last = PutIn(S, e, k)[Len(PutIn(S, e, k))]
           /\ sortedEvents' \in [first : Events \cup {NULL}, last : Pointers]
           /\ next' \in [Events -> Events \cup {NULL}]
           /\ \A x \in Events : x \notin Elements(S) /\ x # e => next'[x] = next[x]
    BY <1>1, <1>3, <1>5, Inserted
  <1>b. PICK t : t = PutIn(S, e, k)
    OBVIOUS
  <1>7. Ascending(at, t)
    <2>1. at \in [Events -> Int] /\ Ascending(at, S)
      BY <1>0 DEF Shape, Ends
    <2>2. \A j \in (k + 1)..Len(S) : at[e] < at[S[j]]
      <3> SUFFICES ASSUME NEW j \in (k + 1)..Len(S) PROVE at[e] < at[S[j]]
        OBVIOUS
      <3>1. S[j] \in Events
        OBVIOUS
      <3> QED
        BY <1>4, <1>6, <2>1, <3>1
    <2>3. t \in Seq(Events) /\ PutAfter(S, e, k, t)
      BY <1>6, <1>b
    <2> QED
      BY <1>4, <1>6, <2>1, <2>2, <2>3, PutAscending
  <1>8. t = SubSeq(S, 1, k) \o <<e>> \o SubSeq(S, k + 1, Len(S))
    BY <1>b DEF PutIn
  <1>9. /\ t \in Seq(Events) /\ IsList(next', sortedEvents'.first, t)
        /\ Elements(t) = Elements(S) \cup {e} /\ sortedEvents'.last = t[Len(t)]
    BY <1>6, <1>b
  <1>10. IsList(next', waitingList'.first, W)
    <2>1. \A x \in Elements(W) : x \in Events /\ x \notin Elements(S) /\ x # e
      <3>1. \A x \in Elements(W) : x \in Events
        BY DEF Elements
      <3> QED
        BY <1>0, <1>5, <3>1 DEF Apart
    <2>2. \A x \in Elements(W) : next'[x] = next[x]
      BY <1>6, <2>1
    <2> QED
      BY <1>0, <1>1, <2>2, ListFrame DEF Shape
  <1>11. Shape(t, W)'
    BY <1>0, <1>1, <1>3, <1>4, <1>6, <1>9, <1>10 DEF Shape
  <1>12. Apart(t, W)'
    <2>1. \A x \in Elements(eventQueue') : x \in Events /\ x \notin Elements(S) /\ x # e
      BY <1>0, <1>4 DEF Apart, Shape
    <2>2. \A x \in Elements(eventQueue') : next'[x] = NULL
      BY <1>0, <1>4, <1>6, <2>1 DEF Apart
    <2>3. Elements(eventQueue') \cup Elements(t) \cup Elements(W) \cup Elements(objectQueue)
             \subseteq heap
      BY <1>0, <1>4, <1>5, <1>9 DEF Apart
    <2>4. /\ Elements(eventQueue') \cap (Elements(t) \cup Elements(W) \cup Elements(objectQueue)) = {}
          /\ Elements(t) \cap (Elements(W) \cup Elements(objectQueue)) = {}
      BY <1>0, <1>4, <1>5, <1>9 DEF Apart
    <2> QED
      BY <1>0, <1>1, <1>4, <2>2, <2>3, <2>4 DEF Apart
  <1>13. Ends(t, W)'
    <2>1. (W # <<>> => waitingList.last = W[Len(W)])'
      BY <1>0, <1>1, Zenon DEF Ends
    <2> QED
      BY <1>1, <1>7, <1>9, <2>1 DEF Ends
  <1>14. CInv'
    BY <1>1, <1>9, <1>11, <1>12, <1>13, Keeps
  <1>15. /\ Held = S /\ Waiting = Elements(W) /\ Held' = t /\ Waiting' = Elements(W)
    BY <1>0, <1>11, Mapped, MappedNext
  <1>16. Store!Keep
    <2>1. /\ \A j \in 1..k : at[Held[j]] <= at[Head(eventQueue)]
          /\ \A j \in (k + 1)..Len(Held) : at[Held[j]] > at[Head(eventQueue)]
          /\ k \in 0..Len(Held)
      BY <1>6, <1>15, <1>a
    <2>2. Held' = SubSeq(Held, 1, k) \o <<Head(eventQueue)>> \o SubSeq(Held, k + 1, Len(Held))
      BY <1>8, <1>15, <1>a
    <2> QED
      BY <1>1, <1>15, <2>1, <2>2 DEF Store!Keep
  <1>17. Store!Next
    BY <1>16 DEF Store!Next
  <1> QED
    BY <1>14, <1>17 DEF Refines

\* Nothing changes: the program waits, or is past its first undefined step.
LEMMA StandStep ==
    ASSUME CInv, UNCHANGED vars
    PROVE  Refines
  <1>1. PICK S \in Seq(Events), W \in Seq(Events) :
           Shape(S, W) /\ (fault = "none" => Sound(S, W))
    BY DEF CInv
  <1>2. /\ UNCHANGED <<next, at, heap, eventQueue, objectQueue, sortedEvents, waitingList>>
        /\ ppc' = ppc /\ caller' = caller /\ fault' = fault
    BY DEF vars
  <1>4. Shape(S, W)'
    BY <1>1, <1>2 DEF Shape, Owned
  <1>5. fault = "none" => Sound(S, W)'
    <2> SUFFICES ASSUME fault = "none" PROVE Sound(S, W)'
      OBVIOUS
    <2>1. Apart(S, W) /\ Ends(S, W)
      BY <1>1 DEF Sound
    <2>2. Apart(S, W)'
      BY <1>2, <2>1 DEF Apart
    <2>3. (W # <<>> => waitingList.last = W[Len(W)])'
      BY <1>2, <2>1, Zenon DEF Ends
    <2>4. Ends(S, W)'
      BY <1>2, <2>1, <2>3 DEF Ends
    <2> QED
      BY <1>4, <2>2, <2>4 DEF Sound
  <1>6. OnlyFlushRaces'
    BY <1>2 DEF CInv, OnlyFlushRaces
  <1>7. CInv'
    BY <1>2, <1>4, <1>5, <1>6 DEF CInv
  <1>8. Held = S /\ Waiting = Elements(W) /\ Held' = S /\ Waiting' = Elements(W)
    BY <1>1, <1>4, Mapped, MappedNext
  <1>9. UNCHANGED Store!vars
    BY <1>2, <1>8 DEF Store!vars
  <1> QED
    BY <1>7, <1>9 DEF Refines

LEMMA NextStep ==
    ASSUME CInv, [Next]_vars
    PROVE  Refines
  <1>1. CASE UNCHANGED vars
    BY <1>1, StandStep
  <1>2. CASE Next
    <2>1. CASE Down
      BY <2>1, StandStep DEF Down
    <2>2. CASE ~Down /\ fault # "none"
      BY <1>2, <2>2 DEF Next, AddEvent, Free, ProcessThread, Flush, Drain, UpdateOne,
         TakeFirst, BeginFlush, FlushQueue, AddAll, Clear, BeginUpdate, EndPush,
         PushFirst, PopFirst
    <2>3. CASE fault = "none"
      <3>1. PICK S \in Seq(Events), W \in Seq(Events) : Sound(S, W)
        BY <2>3 DEF CInv
      <3>2. CASE \E e \in Events, p \in Positions : AddEvent(e, p)
        BY <3>1, <3>2, AddEventStep
      <3>3. CASE Free
        BY <3>1, <3>3, FreeStep
      <3>4. CASE UpdateOne
        BY <3>1, <3>4, UpdateOneStep
      <3>5. CASE TakeFirst
        BY <3>1, <3>5, TakeFirstStep
      <3>6. CASE BeginFlush \/ BeginUpdate \/ EndPush
        BY <3>1, <3>6, ControlStep
      <3>7. CASE FlushQueue
        BY <3>1, <3>7, FlushQueueStep
      <3>8. CASE AddAll
        BY <3>1, <3>8, AddAllStep
      <3>10. CASE Clear
        BY <3>1, <3>10, ClearStep
      <3>11. CASE PushFirst
        BY <3>1, <3>11, PushFirstStep
      <3>12. CASE PopFirst
        BY <3>1, <3>12, PopFirstStep
      <3>13. ~Down
        BY <2>3 DEF Down
      <3> QED
        BY <1>2, <3>2, <3>3, <3>4, <3>5, <3>6, <3>7, <3>8, <3>10, <3>11, <3>12, <3>13
           DEF Next, ProcessThread, Flush, Drain
    <2> QED
      BY <2>1, <2>2, <2>3
  <1> QED
    BY <1>1, <1>2

--------------------------------------------------------------------------------
\* List, EventList and ObjectCollector keep EventStore's promise: whatever they do
\* to the links, seen from outside an event is queued, kept in its place, returned
\* and deleted, once each and in this order.
THEOREM StoreImplemented == Spec => Implements
  <1>1. Init => CInv /\ Store!Init
    BY InitStep
  <1>2. CInv /\ [Next]_vars => CInv' /\ [Store!Next]_(Store!vars)
    BY NextStep DEF Refines
  <1> QED
    BY <1>1, <1>2, PTL DEF Spec, Implements, Store!Spec

\* Both lists end where their last pointers point to, the buffer's until recycleAll has
\* taken it over and the collector's always.
THEOREM LastsKept == Spec => []LastIsLast
  <1>1. Init => CInv
    BY InitStep
  <1>2. CInv /\ [Next]_vars => CInv'
    BY NextStep DEF Refines
  <1>3. CInv => LastIsLast
    <2> SUFFICES ASSUME CInv, fault = "none" PROVE LastIsLast
      BY DEF LastIsLast
    <2>1. PICK S \in Seq(Events), W \in Seq(Events) : Sound(S, W)
      BY DEF CInv
    <2>2. Shape(S, W) /\ Ends(S, W)
      BY <2>1 DEF Sound
    <2>3. ASSUME NEW p, NEW l, NEW s \in Seq(Events), IsList(next, p, s), p # NULL,
                 s # <<>> => l = s[Len(s)]
          PROVE  l = LastOf(Chain(next, p)) /\ next[l] = NULL
      <3>1. s # <<>> /\ Chain(next, p) = s
        BY <2>3, ChainIs, ListFirst
      <3>2. Len(s) \in 1..Len(s)
        BY <3>1
      <3>3. next[s[Len(s)]] = NULL
        BY <2>3, <3>2 DEF IsList, Links
      <3> QED
        BY <2>3, <3>1, <3>3 DEF LastOf
    <2>4. ppc \in {"idle", "flush"} => EndsAtLast(sortedEvents)
      <3> SUFFICES ASSUME ppc \in {"idle", "flush"}, sortedEvents.first # NULL
                   PROVE  /\ sortedEvents.last = LastOf(Chain(next, sortedEvents.first))
                          /\ next[sortedEvents.last] = NULL
        BY DEF EndsAtLast
      <3>1. IsList(next, sortedEvents.first, S) /\ (S # <<>> => sortedEvents.last = S[Len(S)])
        BY <2>2 DEF Shape, Ends, Owned
      <3> QED
        BY <2>3, <3>1
    <2>5. EndsAtLast(waitingList)
      <3> SUFFICES ASSUME waitingList.first # NULL
                   PROVE  /\ waitingList.last = LastOf(Chain(next, waitingList.first))
                          /\ next[waitingList.last] = NULL
        BY DEF EndsAtLast
      <3>1. IsList(next, waitingList.first, W) /\ (W # <<>> => waitingList.last = W[Len(W)])
        BY <2>2 DEF Shape, Ends
      <3> QED
        BY <2>3, <3>1
    <2> QED
      BY <2>4, <2>5 DEF LastIsLast
  <1> QED
    BY <1>1, <1>2, <1>3, PTL DEF Spec

\* Elements wait in the loop of recycleAll and nowhere else, so that only there the next
\* pointer of one that the script thread has deleted can be read.
THEOREM OtherLoopsSafe == Spec => []OnlyFlushRaces
  <1>1. Init => CInv
    BY InitStep
  <1>2. CInv /\ [Next]_vars => CInv'
    BY NextStep DEF Refines
  <1>3. CInv => OnlyFlushRaces
    BY DEF CInv
  <1> QED
    BY <1>1, <1>2, <1>3, PTL DEF Spec

================================================================================
