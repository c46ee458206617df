--------------------------- MODULE EventBufferProofs ---------------------------
(***************************************************************************)
(* Theorems about EventBuffer: the list stays sorted and every event has   *)
(* one place, for every number of events, queue size, grace and period.    *)
(***************************************************************************)
EXTENDS EventBuffer, FiniteSetTheorems, SequenceTheorems, TLAPS

--------------------------------------------------------------------------------
(***************************************************************************)
(* Facts about natural numbers and sequences.                              *)
(***************************************************************************)

\* A non-empty set of natural numbers has a least element.
LEMMA LeastNatural ==
    ASSUME NEW T, T \subseteq Nat, T # {}
    PROVE  \E m \in T : \A n \in T : m <= n
  <1> DEFINE Less == {ss \in Nat \X Nat : ss[1] < ss[2]}
  <1>1. IsWellFoundedOn(Less, Nat)
    BY NatLessThanWellFounded, Zenon DEF OpToRel
  <1>2. PICK m \in T : \A n \in T : ~(<<n, m>> \in Less)
    <2> HIDE DEF Less
    <2> QED
      BY <1>1, WFMin
  <1>3. \A n \in T : n < m => <<n, m>> \in Less
    OBVIOUS
  <1> HIDE DEF Less
  <1>4. \A n \in T : ~(n < m)
    BY <1>2, <1>3
  <1>5. ASSUME NEW n \in T PROVE m <= n
    <2>1. n \in Nat /\ m \in Nat /\ ~(n < m)
      BY <1>4
    <2> QED
      BY <2>1
  <1> QED
    BY <1>5

\* No element comes twice.
Once(s) == \A i, j \in DOMAIN s : s[i] = s[j] => i = j

\* Something new at the end.
LEMMA AppendOnce ==
    ASSUME NEW S, NEW s \in Seq(S), NEW e \in S
    PROVE  /\ Append(s, e) \in Seq(S)
           /\ Range(Append(s, e)) = Range(s) \cup {e}
           /\ Once(s) /\ e \notin Range(s) => Once(Append(s, e))
  <1>1. /\ Append(s, e) \in Seq(S)
        /\ DOMAIN Append(s, e) = 1..(Len(s) + 1) /\ DOMAIN s = 1..Len(s)
        /\ Append(s, e)[Len(s) + 1] = e
        /\ \A i \in 1..Len(s) : Append(s, e)[i] = s[i]
    BY AppendProperties
  <1>2. \A i : i \in 1..(Len(s) + 1) <=> i \in 1..Len(s) \/ i = Len(s) + 1
    OBVIOUS
  <1> DEFINE t == Append(s, e)
  <1> HIDE DEF t
  <1>3. Range(t) = Range(s) \cup {e}
    BY <1>1, <1>2, Zenon DEF Range, t
  <1>4. Once(s) /\ e \notin Range(s) => Once(t)
    BY <1>1, <1>2, Zenon DEF Range, Once, t
  <1> QED
    BY <1>1, <1>3, <1>4 DEF t

\* A list without its first n elements.
LEMMA Dropped ==
    ASSUME NEW S, NEW s \in Seq(S), NEW n \in 0..Len(s)
    PROVE  /\ SubSeq(s, n + 1, Len(s)) \in Seq(S)
           /\ Len(SubSeq(s, n + 1, Len(s))) = Len(s) - n
           /\ \A j \in 1..(Len(s) - n) : SubSeq(s, n + 1, Len(s))[j] = s[n + j]
  OBVIOUS

\* t is s with e put in after the first n elements.
PutAfter(s, e, n, t) ==
    /\ Len(t) = Len(s) + 1
    /\ \A j \in 1..n : t[j] = s[j]
    /\ t[n + 1] = e
    /\ \A j \in (n + 1)..Len(s) : t[j + 1] = s[j]

\* An element put in between a beginning and the rest of a list comes after the beginning.
LEMMA PutShape ==
    ASSUME NEW S, NEW s \in Seq(S), NEW e \in S, NEW n \in 0..Len(s)
    PROVE  /\ SubSeq(s, 1, n) \o <<e>> \o SubSeq(s, n + 1, Len(s)) \in Seq(S)
           /\ PutAfter(s, e, n, SubSeq(s, 1, n) \o <<e>> \o SubSeq(s, n + 1, Len(s)))
  <1> DEFINE a == SubSeq(s, 1, n)
             c == SubSeq(s, n + 1, Len(s))
  <1>0. Len(s) \in Nat /\ n \in Nat /\ n <= Len(s)
    OBVIOUS
  <1>1. a \in Seq(S) /\ Len(a) = n /\ \A j \in 1..n : a[j] = s[j]
    OBVIOUS
  <1>2. c \in Seq(S) /\ Len(c) = Len(s) - n /\ \A j \in 1..(Len(s) - n) : c[j] = s[n + j]
    BY Dropped
  <1> HIDE DEF a, c
  <1> DEFINE b == a \o <<e>>
  <1>3. b \in Seq(S) /\ Len(b) = n + 1 /\ b[n + 1] = e /\ \A j \in 1..n : b[j] = s[j]
    BY <1>0, <1>1
  <1> HIDE DEF b
  <1> DEFINE d == b \o c
  <1>4. /\ d \in Seq(S)
        /\ Len(d) = Len(b) + Len(c)
        /\ \A i \in 1..(Len(b) + Len(c)) : d[i] = IF i <= Len(b) THEN b[i] ELSE c[i - Len(b)]
    BY <1>2, <1>3, ConcatProperties
  <1> HIDE DEF d
  <1>5. Len(b) + Len(c) = Len(s) + 1
    BY <1>0, <1>2, <1>3
  <1>6. \A i \in 1..(n + 1) : d[i] = b[i]
    <2> SUFFICES ASSUME NEW i \in 1..(n + 1) PROVE d[i] = b[i]
      OBVIOUS
    <2>1. i \in 1..(Len(b) + Len(c)) /\ i <= Len(b)
      BY <1>0, <1>3, <1>5
    <2> QED
      BY <1>4, <2>1
  <1>7. \A j \in (n + 1)..Len(s) : d[j + 1] = s[j]
    <2> SUFFICES ASSUME NEW j \in (n + 1)..Len(s) PROVE d[j + 1] = s[j]
      OBVIOUS
    <2>1. /\ j + 1 \in 1..(Len(b) + Len(c)) /\ ~(j + 1 <= Len(b))
          /\ (j + 1) - Len(b) = j - n /\ j - n \in 1..(Len(s) - n) /\ n + (j - n) = j
      BY <1>0, <1>3, <1>5
    <2>2. d[j + 1] = c[(j + 1) - Len(b)]
      BY <1>4, <2>1
    <2> QED
      BY <1>2, <2>1, <2>2
  <1>8. \A j \in 1..n : j \in 1..(n + 1)
    BY <1>0
  <1>9. n + 1 \in 1..(n + 1)
    BY <1>0
  <1>10. PutAfter(s, e, n, d)
    BY <1>3, <1>4, <1>5, <1>6, <1>7, <1>8, <1>9 DEF PutAfter
  <1> QED
    BY <1>4, <1>10 DEF a, b, c, d

\* Where the elements of t come from.
LEMMA PutSource ==
    ASSUME NEW S, NEW s \in Seq(S), NEW e, NEW n \in 0..Len(s), NEW t, PutAfter(s, e, n, t),
           NEW k \in 1..Len(t)
    PROVE  \/ k \in 1..n /\ k \in 1..Len(s) /\ t[k] = s[k]
           \/ k = n + 1 /\ t[k] = e
           \/ k > n + 1 /\ k - 1 \in (n + 1)..Len(s) /\ k - 1 \in 1..Len(s) /\ t[k] = s[k - 1]
  <1>1. Len(s) \in Nat /\ n \in Nat /\ n <= Len(s) /\ Len(t) = Len(s) + 1
    BY DEF PutAfter
  <1>2. CASE k > n + 1
    <2>1. k - 1 \in (n + 1)..Len(s) /\ k - 1 \in 1..Len(s) /\ (k - 1) + 1 = k
      BY <1>1, <1>2
    <2> QED
      BY <1>2, <2>1 DEF PutAfter
  <1>3. CASE k <= n
    BY <1>1, <1>3 DEF PutAfter
  <1>4. CASE k = n + 1
    BY <1>4 DEF PutAfter
  <1> QED
    BY <1>1, <1>2, <1>3, <1>4

\* Putting an element in adds it, and repeats none if it is new.
LEMMA PutOnce ==
    ASSUME NEW S, NEW s \in Seq(S), NEW e \in S, NEW n \in 0..Len(s),
           NEW t \in Seq(S), PutAfter(s, e, n, t)
    PROVE  /\ Range(t) = Range(s) \cup {e}
           /\ Once(s) /\ e \notin Range(s) => Once(t)
  <1> DEFINE From(k) == IF k <= n THEN k ELSE k - 1
  <1>1. /\ DOMAIN t = 1..(Len(s) + 1) /\ DOMAIN s = 1..Len(s)
        /\ t[n + 1] = e
    BY DEF PutAfter
  <1>2. \A k \in 1..(Len(s) + 1) : k # n + 1 => From(k) \in 1..Len(s) /\ t[k] = s[From(k)]
    <2> SUFFICES ASSUME NEW k \in 1..(Len(s) + 1), k # n + 1
                 PROVE  From(k) \in 1..Len(s) /\ t[k] = s[From(k)]
      OBVIOUS
    <2>1. CASE k <= n
      BY <2>1 DEF PutAfter
    <2>2. CASE k > n + 1
      <3>1. k - 1 \in (n + 1)..Len(s) /\ (k - 1) + 1 = k /\ From(k) = k - 1
        BY <2>2
      <3> QED
        BY <3>1 DEF PutAfter
    <2> QED
      BY <2>1, <2>2
  <1>3. \A k \in 1..Len(s) : \E m \in 1..(Len(s) + 1) : t[m] = s[k]
    <2> SUFFICES ASSUME NEW k \in 1..Len(s) PROVE \E m \in 1..(Len(s) + 1) : t[m] = s[k]
      OBVIOUS
    <2>1. CASE k <= n
      BY <2>1 DEF PutAfter
    <2>2. CASE k > n
      BY <2>2 DEF PutAfter
    <2> QED
      BY <2>1, <2>2
  <1>4. Range(t) = Range(s) \cup {e}
    <2>1. \A x \in Range(t) : x \in Range(s) \cup {e}
      BY <1>1, <1>2 DEF Range
    <2>2. \A x \in Range(s) : x \in Range(t)
      BY <1>1, <1>3 DEF Range
    <2>3. e \in Range(t)
      BY <1>1 DEF Range
    <2> QED
      BY <2>1, <2>2, <2>3
  <1>5. ASSUME Once(s), e \notin Range(s),
               NEW i \in 1..(Len(s) + 1), NEW j \in 1..(Len(s) + 1), t[i] = t[j]
        PROVE  i = j
    <2>1. \A k \in 1..Len(s) : s[k] # e
      BY <1>5, <1>1 DEF Range
    <2>2. CASE i = n + 1 \/ j = n + 1
      BY <1>1, <1>2, <1>5, <2>1, <2>2
    <2>3. CASE i # n + 1 /\ j # n + 1
      <3>1. From(i) = From(j)
        BY <1>1, <1>2, <1>5, <2>3 DEF Once
      <3> QED
        BY <2>3, <3>1
    <2> QED
      BY <2>2, <2>3
  <1> QED
    BY <1>1, <1>4, <1>5 DEF Once

\* What popping the first element of a list leaves.
LEMMA TailOnce ==
    ASSUME NEW S, NEW s \in Seq(S), s # <<>>
    PROVE  /\ Head(s) \in S /\ Head(s) = s[1] /\ Tail(s) \in Seq(S)
           /\ Range(s) = Range(Tail(s)) \cup {Head(s)}
           /\ Once(s) => Once(Tail(s)) /\ Head(s) \notin Range(Tail(s))
  <1>1. /\ Head(s) = s[1] /\ Head(s) \in S
        /\ Tail(s) \in Seq(S) /\ Len(Tail(s)) = Len(s) - 1 /\ Len(s) \in Nat \ {0}
        /\ \A i \in 1..(Len(s) - 1) : Tail(s)[i] = s[i + 1]
    OBVIOUS
  <1> DEFINE t == Tail(s)
  <1>2. DOMAIN t = 1..(Len(s) - 1) /\ DOMAIN s = 1..Len(s)
    BY <1>1
  <1> HIDE DEF t
  <1>3. \A i \in 1..(Len(s) - 1) : i + 1 \in 1..Len(s) /\ t[i] = s[i + 1]
    BY <1>1 DEF t
  <1>4. \A i \in 1..Len(s) : i # 1 => i - 1 \in 1..(Len(s) - 1) /\ s[i] = t[i - 1]
    <2> SUFFICES ASSUME NEW i \in 1..Len(s), i # 1
                 PROVE  i - 1 \in 1..(Len(s) - 1) /\ s[i] = t[i - 1]
      OBVIOUS
    <2>1. i - 1 \in 1..(Len(s) - 1) /\ (i - 1) + 1 = i
      BY <1>1
    <2> QED
      BY <1>3, <2>1
  <1>5. Range(s) = Range(t) \cup {s[1]}
    <2>1. \A x \in Range(s) : x \in Range(t) \cup {s[1]}
      BY <1>2, <1>4 DEF Range
    <2>2. \A x \in Range(t) : x \in Range(s)
      BY <1>2, <1>3 DEF Range
    <2>3. s[1] \in Range(s)
      BY <1>1, <1>2 DEF Range
    <2> QED
      BY <2>1, <2>2, <2>3
  <1>6. ASSUME Once(s) PROVE Once(t) /\ s[1] \notin Range(t)
    <2>1. ASSUME NEW i \in 1..(Len(s) - 1), NEW j \in 1..(Len(s) - 1), t[i] = t[j]
          PROVE  i = j
      <3>1. i + 1 = j + 1
        BY <1>2, <1>3, <1>6, <2>1 DEF Once
      <3> QED
        BY <3>1
    <2>2. ASSUME NEW i \in 1..(Len(s) - 1), t[i] = s[1] PROVE FALSE
      <3>1. i + 1 = 1
        BY <1>1, <1>2, <1>3, <1>6, <2>2 DEF Once
      <3> QED
        BY <3>1
    <2> QED
      BY <1>2, <2>1, <2>2 DEF Once, Range
  <1> QED
    BY <1>1, <1>5, <1>6 DEF t

\* What comes first is related to what comes later.
InOrder(s, R) == \A i, j \in DOMAIN s : i < j => <<s[i], s[j]>> \in R

\* An element put in after all that it follows and before all that follow it keeps the order.
LEMMA PutInOrder ==
    ASSUME NEW S, NEW R, NEW s \in Seq(S), NEW e \in S, InOrder(s, R),
           NEW n \in 0..Len(s), NEW t \in Seq(S), PutAfter(s, e, n, t),
           \A j \in 1..n : <<s[j], e>> \in R,
           \A j \in (n + 1)..Len(s) : <<e, s[j]>> \in R
    PROVE  InOrder(t, R)
  <1>1. DOMAIN t = 1..Len(t) /\ DOMAIN s = 1..Len(s) /\ n \in Nat /\ Len(s) \in Nat
    OBVIOUS
  <1> SUFFICES ASSUME NEW i \in 1..Len(t), NEW j \in 1..Len(t), i < j
               PROVE  <<t[i], t[j]>> \in R
    BY <1>1, Zenon DEF InOrder
  <1>2. /\ \/ i \in 1..n /\ i \in 1..Len(s) /\ t[i] = s[i]
           \/ i = n + 1 /\ t[i] = e
           \/ i > n + 1 /\ i - 1 \in (n + 1)..Len(s) /\ i - 1 \in 1..Len(s) /\ t[i] = s[i - 1]
        /\ \/ j \in 1..n /\ j \in 1..Len(s) /\ t[j] = s[j]
           \/ j = n + 1 /\ t[j] = e
           \/ j > n + 1 /\ j - 1 \in (n + 1)..Len(s) /\ j - 1 \in 1..Len(s) /\ t[j] = s[j - 1]
    BY PutSource
  <1>3. i \in Nat /\ j \in Nat
    OBVIOUS
  <1>4. \A p, q \in 1..Len(s) : p < q => <<s[p], s[q]>> \in R
    BY <1>1, Zenon DEF InOrder
  <1>5. CASE i \in 1..n /\ i \in 1..Len(s) /\ t[i] = s[i]
    <2>1. CASE j \in 1..n /\ j \in 1..Len(s) /\ t[j] = s[j]
      BY <1>4, <1>5, <2>1
    <2>2. CASE j = n + 1 /\ t[j] = e
      BY <1>5, <2>2
    <2>3. CASE j > n + 1 /\ j - 1 \in 1..Len(s) /\ t[j] = s[j - 1]
      <3>1. i < j - 1
        BY <1>1, <1>3, <1>5, <2>3
      <3> QED
        BY <1>4, <1>5, <2>3, <3>1
    <2> QED
      BY <1>2, <2>1, <2>2, <2>3
  <1>6. CASE i = n + 1 /\ t[i] = e
    <2>1. j > n + 1
      BY <1>6
    <2>2. j - 1 \in (n + 1)..Len(s) /\ t[j] = s[j - 1]
      BY <1>1, <1>2, <1>3, <2>1
    <2> QED
      BY <1>6, <2>2
  <1>7. CASE i > n + 1 /\ i - 1 \in 1..Len(s) /\ t[i] = s[i - 1]
    <2>1. j > n + 1
      BY <1>1, <1>3, <1>7
    <2>2. j - 1 \in 1..Len(s) /\ t[j] = s[j - 1] /\ i - 1 < j - 1
      BY <1>1, <1>2, <1>3, <2>1
    <2> QED
      BY <1>4, <1>7, <2>2
  <1> QED
    BY <1>2, <1>5, <1>6, <1>7

\* So does one at the end that follows every other.
LEMMA AppendInOrder ==
    ASSUME NEW S, NEW R, NEW s \in Seq(S), NEW e \in S, InOrder(s, R),
           \A x \in Range(s) : <<x, e>> \in R
    PROVE  InOrder(Append(s, e), R)
  <1> DEFINE n == Len(s)
             t == Append(s, e)
  <1>1. n \in Nat /\ t \in Seq(S) /\ Len(t) = n + 1
    OBVIOUS
  <1>2. PutAfter(s, e, n, t)
    BY AppendProperties DEF PutAfter
  <1>3. \A j \in 1..n : <<s[j], e>> \in R
    BY DEF Range
  <1> HIDE DEF t
  <1>4. n \in 0..Len(s) /\ \A j \in (n + 1)..Len(s) : <<e, s[j]>> \in R
    BY <1>1
  <1> HIDE DEF n
  <1>5. InOrder(t, R)
    BY <1>1, <1>2, <1>3, <1>4, PutInOrder
  <1> QED
    BY <1>5 DEF t

\* The rest of a list in order is in order, and follows its first element.
LEMMA TailInOrder ==
    ASSUME NEW S, NEW R, NEW s \in Seq(S), s # <<>>, InOrder(s, R)
    PROVE  /\ InOrder(Tail(s), R)
           /\ \A x \in Range(Tail(s)) : <<Head(s), x>> \in R
  <1> DEFINE t == Tail(s)
             n == Len(s)
  <1>1. n \in Nat \ {0} /\ t \in Seq(S) /\ Len(t) = n - 1 /\ Head(s) = s[1]
    OBVIOUS
  <1>2. \A i \in 1..(n - 1) : t[i] = s[i + 1]
    OBVIOUS
  <1>3. DOMAIN s = 1..n /\ DOMAIN t = 1..(n - 1)
    BY <1>1
  <1> HIDE DEF t, n
  <1>4. \A i, j \in 1..n : i < j => <<s[i], s[j]>> \in R
    BY <1>3, Zenon DEF InOrder
  <1>5. ASSUME NEW i \in 1..(n - 1), NEW j \in 1..(n - 1), i < j PROVE <<t[i], t[j]>> \in R
    <2>1. i + 1 \in 1..n /\ j + 1 \in 1..n /\ i + 1 < j + 1
      BY <1>1, <1>5
    <2> QED
      BY <1>2, <1>4, <2>1
  <1>6. ASSUME NEW i \in 1..(n - 1) PROVE <<Head(s), t[i]>> \in R
    <2>1. 1 \in 1..n /\ i + 1 \in 1..n /\ 1 < i + 1
      BY <1>1
    <2> QED
      BY <1>1, <1>2, <1>4, <2>1
  <1>7. InOrder(t, R)
    BY <1>3, <1>5, Zenon DEF InOrder
  <1>8. \A x \in Range(t) : <<Head(s), x>> \in R
    BY <1>3, <1>6, Zenon DEF Range
  <1> QED
    BY <1>7, <1>8 DEF t

\* The keys of a list in ascending order.
Ascending(key, s) == \A i, j \in DOMAIN s : i < j => key[s[i]] <= key[s[j]]

\* An element put in after those whose keys are not above its own keeps the keys ascending.
LEMMA PutAscending ==
    ASSUME NEW S, NEW key \in [S -> Int], NEW s \in Seq(S), NEW e \in S, Ascending(key, s),
           NEW n \in 0..Len(s), NEW t \in Seq(S), PutAfter(s, e, n, t),
           \A j \in 1..n : key[s[j]] <= key[e],
           \A j \in (n + 1)..Len(s) : key[e] < key[s[j]]
    PROVE  Ascending(key, t)
  <1> DEFINE R == {pair \in S \X S : key[pair[1]] <= key[pair[2]]}
  <1>0. \A k \in 1..Len(s) : s[k] \in S /\ key[s[k]] \in Int
    OBVIOUS
  <1>1. \A x, y \in S : <<x, y>> \in R <=> key[x] <= key[y]
    OBVIOUS
  <1>2. \A i \in DOMAIN s : s[i] \in S
    OBVIOUS
  <1>3. \A i \in DOMAIN t : t[i] \in S
    OBVIOUS
  <1> HIDE DEF R
  <1>4. InOrder(s, R)
    BY <1>1, <1>2, Zenon DEF Ascending, InOrder
  <1>5. \A j \in 1..n : <<s[j], e>> \in R
    BY <1>0, <1>1
  <1>6. \A j \in (n + 1)..Len(s) : <<e, s[j]>> \in R
    BY <1>0, <1>1
  <1>7. InOrder(t, R)
    BY <1>4, <1>5, <1>6, PutInOrder
  <1> QED
    BY <1>1, <1>3, <1>7, Zenon DEF Ascending, InOrder

\* The keys of the rest of the list are ascending.
LEMMA TailAscending ==
    ASSUME NEW S, NEW key, NEW s \in Seq(S), s # <<>>, Ascending(key, s)
    PROVE  Ascending(key, Tail(s))
  <1> DEFINE R == {pair \in S \X S : key[pair[1]] <= key[pair[2]]}
  <1>1. \A x, y \in S : <<x, y>> \in R <=> key[x] <= key[y]
    OBVIOUS
  <1>2. /\ \A i \in DOMAIN s : s[i] \in S
        /\ \A i \in DOMAIN Tail(s) : Tail(s)[i] \in S
    OBVIOUS
  <1> HIDE DEF R
  <1>3. InOrder(s, R)
    BY <1>1, <1>2, Zenon DEF Ascending, InOrder
  <1>4. InOrder(Tail(s), R)
    BY <1>3, TailInOrder
  <1> QED
    BY <1>1, <1>2, <1>4, Zenon DEF Ascending, InOrder

--------------------------------------------------------------------------------
Ordered(s) == \A i, j \in DOMAIN s : i < j => at[s[i]] <= at[s[j]]

\* EventList::insert puts the event after everything that is not later, and its
\* walk ends before the end of the list.
LEMMA InsertShape ==
    ASSUME at \in [Events -> Int], NEW s \in Seq(Events), NEW e \in Events, Ordered(s)
    PROVE  \E n \in 0..Len(s) :
              /\ Insert(s, e) \in Seq(Events) /\ PutAfter(s, e, n, Insert(s, e))
              /\ \A j \in 1..n : at[s[j]] <= at[e]
              /\ \A j \in (n + 1)..Len(s) : at[e] < at[s[j]]
  <1>0. \A j \in 1..Len(s) : s[j] \in Events /\ at[s[j]] \in Int
    OBVIOUS
  <1>1. CASE s = <<>> \/ at[s[Len(s)]] <= at[e]
    <2>1. Insert(s, e) = Append(s, e)
      BY <1>1 DEF Insert
    <2>2. \A j \in 1..Len(s) : at[s[j]] <= at[e]
      BY <1>0, <1>1 DEF Ordered
    <2>3. /\ Append(s, e) \in Seq(Events)
          /\ Len(Append(s, e)) = Len(s) + 1
          /\ Append(s, e)[Len(s) + 1] = e
          /\ \A j \in 1..Len(s) : Append(s, e)[j] = s[j]
      BY AppendProperties
    <2>4. Insert(s, e) \in Seq(Events) /\ PutAfter(s, e, Len(s), Insert(s, e))
      BY <2>1, <2>3 DEF PutAfter
    <2> QED
      BY <2>2, <2>4
  <1>2. CASE s # <<>> /\ at[e] < at[s[Len(s)]] /\ at[e] < at[Head(s)]
    <2>1. Insert(s, e) = <<e>> \o s
      BY <1>0, <1>2 DEF Insert
    <2>2. \A j \in 1..Len(s) : at[e] < at[s[j]]
      BY <1>0, <1>2 DEF Ordered
    <2>3. Insert(s, e) \in Seq(Events) /\ PutAfter(s, e, 0, Insert(s, e))
      BY <2>1 DEF PutAfter
    <2> QED
      BY <2>2, <2>3
  <1>3. CASE s # <<>> /\ at[e] < at[s[Len(s)]] /\ at[Head(s)] <= at[e]
    <2> DEFINE Stop == {i \in 1..(Len(s) - 1) : at[s[i + 1]] > at[e]}
               Walk(i) == /\ at[s[i + 1]] > at[e]
                          /\ \A j \in 1..(i - 1) : at[s[j + 1]] <= at[e]
               n == Passed(s, e)
    <2>1. Len(s) - 1 \in Stop
      BY <1>0, <1>3
    <2>2. PICK m \in Stop : \A i \in Stop : m <= i
      <3>1. Stop \subseteq Nat
        OBVIOUS
      <3>2. Stop # {}
        BY <2>1
      <3> HIDE DEF Stop
      <3> QED
        BY <3>1, <3>2, LeastNatural
    <2>3. Walk(m)
      BY <1>0, <2>2
    <2>4. n \in 1..(Len(s) - 1) /\ Walk(n)
      BY <2>2, <2>3 DEF Passed
    <2>5. Insert(s, e) = SubSeq(s, 1, n) \o <<e>> \o SubSeq(s, n + 1, Len(s))
      <3>1. ~(s = <<>> \/ at[s[Len(s)]] <= at[e])
        BY <1>0, <1>3
      <3>2. Head(s) \in Events
        BY <1>3
      <3>3. ~(at[e] < at[Head(s)])
        BY <1>3, <3>2
      <3> QED
        BY <3>1, <3>3 DEF Insert
    <2> HIDE DEF n
    <2>6. Insert(s, e) \in Seq(Events) /\ PutAfter(s, e, n, Insert(s, e))
      <3>1. n \in 0..Len(s)
        BY <2>4
      <3> QED
        BY <2>5, <3>1, PutShape
    <2>7. \A j \in 1..n : at[s[j]] <= at[e]
      <3> SUFFICES ASSUME NEW j \in 1..n PROVE at[s[j]] <= at[e]
        OBVIOUS
      <3>1. CASE j = 1
        BY <1>3, <3>1
      <3>2. CASE j > 1
        <4>1. j - 1 \in 1..(n - 1)
          BY <2>4, <3>2
        <4>2. at[s[(j - 1) + 1]] <= at[e]
          BY <2>4, <4>1
        <4> QED
          BY <4>2
      <3> QED
        BY <3>1, <3>2
    <2>8. \A j \in (n + 1)..Len(s) : at[e] < at[s[j]]
      <3> SUFFICES ASSUME NEW j \in (n + 1)..Len(s) PROVE at[e] < at[s[j]]
        OBVIOUS
      <3>1. at[s[n + 1]] <= at[s[j]]
        BY <1>0, <2>4 DEF Ordered
      <3> QED
        BY <1>0, <2>4, <3>1
    <2>9. n \in 0..Len(s)
      BY <2>4
    <2> QED
      BY <2>6, <2>7, <2>8, <2>9
  <1> QED
    BY <1>0, <1>1, <1>2, <1>3

\* Putting an event between the earlier and the later ones keeps the order.
LEMMA PutOrdered ==
    ASSUME at \in [Events -> Int], NEW s \in Seq(Events), NEW e \in Events, Ordered(s),
           NEW n \in 0..Len(s), NEW t \in Seq(Events), PutAfter(s, e, n, t),
           \A j \in 1..n : at[s[j]] <= at[e],
           \A j \in (n + 1)..Len(s) : at[e] < at[s[j]]
    PROVE  Ordered(t)
  <1>1. Ascending(at, t)
    BY PutAscending DEF Ordered, Ascending
  <1> QED
    BY <1>1 DEF Ordered, Ascending

\* Putting an event in adds it to the elements, and repeats none if it is new.
LEMMA PutElements ==
    ASSUME NEW s \in Seq(Events), NEW e \in Events, NEW n \in 0..Len(s),
           NEW t \in Seq(Events), PutAfter(s, e, n, t)
    PROVE  /\ Elements(t) = Elements(s) \cup {e}
           /\ NoDuplicates(s) /\ e \notin Elements(s) => NoDuplicates(t)
  <1>1. Range(t) = Range(s) \cup {e} /\ (Once(s) /\ e \notin Range(s) => Once(t))
    BY PutOnce
  <1> QED
    BY <1>1, Zenon DEF Elements, Range, NoDuplicates, Once

\* What popping the first element of a sequence leaves.
LEMMA TailFacts ==
    ASSUME NEW s \in Seq(Events), s # <<>>
    PROVE  /\ Head(s) \in Events /\ Tail(s) \in Seq(Events)
           /\ Elements(s) = Elements(Tail(s)) \cup {Head(s)}
           /\ NoDuplicates(s) => NoDuplicates(Tail(s)) /\ Head(s) \notin Elements(Tail(s))
           /\ Ordered(s) => Ordered(Tail(s))
  <1>1. /\ Head(s) \in Events /\ Tail(s) \in Seq(Events)
        /\ Range(s) = Range(Tail(s)) \cup {Head(s)}
        /\ Once(s) => Once(Tail(s)) /\ Head(s) \notin Range(Tail(s))
    BY TailOnce
  <1>4. ASSUME Ordered(s) PROVE Ordered(Tail(s))
    <2>1. Ascending(at, Tail(s))
      BY <1>4, TailAscending DEF Ordered, Ascending
    <2> QED
      BY <2>1 DEF Ordered, Ascending
  <1> QED
    BY <1>1, <1>4, Zenon DEF Elements, Range, NoDuplicates, Once

\* What pushing to the end of the queue adds.
LEMMA AppendFacts ==
    ASSUME NEW s \in Seq(Events), NEW e \in Events
    PROVE  /\ Append(s, e) \in Seq(Events)
           /\ Elements(Append(s, e)) = Elements(s) \cup {e}
           /\ NoDuplicates(s) /\ e \notin Elements(s) => NoDuplicates(Append(s, e))
  BY AppendOnce DEF Elements, Range, NoDuplicates, Once

--------------------------------------------------------------------------------
BufferTypes ==
    /\ eventQueue \in Seq(Events)
    /\ sortedEvents \in Seq(Events)
    /\ at \in [Events -> Positions]
    /\ heap \subseteq Events
    /\ objectQueue \subseteq Events

\* The inductive invariant: each part needs the others, since a new event may be
\* given a position only because it is in no list yet.
IInv == BufferTypes /\ Sorted /\ OnePlace

\* The initial states satisfy the invariant.
LEMMA InitIInv == Init => IInv
  <1> SUFFICES ASSUME Init PROVE IInv
    OBVIOUS
  <1>1. BufferTypes
    BY TimeAssumption DEF Init, BufferTypes, Positions
  <1>2. Sorted
    BY DEF Init, Sorted
  <1>3. OnePlace
    BY DEF Init, OnePlace, NoDuplicates, Elements
  <1> QED
    BY <1>1, <1>2, <1>3 DEF IInv

\* Giving a position to an event that is not in the list leaves the list sorted.
LEMMA RepositionFree ==
    ASSUME BufferTypes, Sorted, NEW e \in Events, NEW p \in Positions,
           e \notin Elements(sortedEvents), at' = [at EXCEPT ![e] = p],
           sortedEvents' = sortedEvents
    PROVE  at' \in [Events -> Positions] /\ Sorted'
  <1>1. \A i \in DOMAIN sortedEvents : sortedEvents[i] # e /\ sortedEvents[i] \in Events
    BY DEF Elements, BufferTypes
  <1>2. \A i \in DOMAIN sortedEvents : at'[sortedEvents[i]] = at[sortedEvents[i]]
    BY <1>1 DEF BufferTypes
  <1> QED
    BY <1>2 DEF Sorted, BufferTypes

\* Every step preserves the invariant.
LEMMA IInvStep == IInv /\ [Next]_vars => IInv'
  <1> SUFFICES ASSUME IInv, [Next]_vars PROVE IInv'
    OBVIOUS
  <1> USE DEF IInv
  <1>0. at \in [Events -> Int]
    BY TimeAssumption DEF BufferTypes, Positions
  <1>1. ASSUME NEW e \in Events, NEW p \in Positions, AddEvent(e, p) PROVE IInv'
    <2>1. e \notin Elements(eventQueue) /\ e \notin Elements(sortedEvents) /\ e \notin objectQueue
      BY <1>1 DEF AddEvent, OnePlace
    <2>2. at' \in [Events -> Positions] /\ Sorted'
      BY <1>1, <2>1, RepositionFree DEF AddEvent
    <2>3. /\ eventQueue' \in Seq(Events)
          /\ Elements(eventQueue') = Elements(eventQueue) \cup {e}
          /\ NoDuplicates(eventQueue')
      BY <1>1, <2>1, AppendFacts DEF AddEvent, BufferTypes, OnePlace
    <2>4. BufferTypes'
      BY <1>1, <2>2, <2>3 DEF BufferTypes, AddEvent
    <2>5. OnePlace'
      BY <1>1, <2>1, <2>3 DEF OnePlace, AddEvent
    <2> QED
      BY <2>2, <2>4, <2>5
  <1>2. ASSUME NEW e \in Events, Free(e) PROVE IInv'
    <2>1. e \notin Elements(eventQueue) /\ e \notin Elements(sortedEvents)
      BY <1>2 DEF Free, OnePlace
    <2>2. at' \in [Events -> Positions] /\ Sorted'
      <3>1. 0 \in Positions
        BY TimeAssumption DEF Positions
      <3> QED
        BY <1>2, <2>1, <3>1, RepositionFree DEF Free
    <2>3. BufferTypes'
      BY <1>2, <2>2 DEF BufferTypes, Free
    <2>4. OnePlace'
      BY <1>2, <2>1 DEF OnePlace, Free
    <2> QED
      BY <2>2, <2>3, <2>4
  <1>3. CASE UpdateOne
    <2> DEFINE e == Head(eventQueue)
               t == Insert(sortedEvents, e)
    <2>1. /\ e \in Events /\ eventQueue' \in Seq(Events)
          /\ Elements(eventQueue) = Elements(eventQueue') \cup {e}
          /\ NoDuplicates(eventQueue') /\ e \notin Elements(eventQueue')
      BY <1>3, TailFacts DEF UpdateOne, BufferTypes, OnePlace
    <2>2. e \notin Elements(sortedEvents)
      BY <2>1 DEF OnePlace
    <2>3. Ordered(sortedEvents) /\ sortedEvents \in Seq(Events)
      BY DEF Sorted, Ordered, BufferTypes
    <2> HIDE DEF e
    <2>4. PICK n \in 0..Len(sortedEvents) :
                 /\ t \in Seq(Events) /\ PutAfter(sortedEvents, e, n, t)
                 /\ \A j \in 1..n : at[sortedEvents[j]] <= at[e]
                 /\ \A j \in (n + 1)..Len(sortedEvents) : at[e] < at[sortedEvents[j]]
      BY <1>0, <2>1, <2>3, InsertShape
    <2> HIDE DEF t
    <2>5. Ordered(t)
      BY <1>0, <2>1, <2>3, <2>4, PutOrdered
    <2>6. /\ Elements(t) = Elements(sortedEvents) \cup {e}
          /\ NoDuplicates(sortedEvents) /\ e \notin Elements(sortedEvents) => NoDuplicates(t)
      BY <2>1, <2>3, <2>4, PutElements
    <2>7. sortedEvents' = t /\ t \in Seq(Events) /\ at' = at /\ heap' = heap
          /\ objectQueue' = objectQueue
      BY <1>3, <2>4 DEF UpdateOne, PutAfter, t, e
    <2>8. BufferTypes'
      BY <2>1, <2>7 DEF BufferTypes
    <2>9. Sorted'
      BY <2>5, <2>7 DEF Sorted, Ordered
    <2>10. OnePlace'
      BY <2>1, <2>2, <2>6, <2>7 DEF OnePlace
    <2> QED
      BY <2>8, <2>9, <2>10
  <1>4. ASSUME sortedEvents # <<>>, PopFirst PROVE IInv'
    <2>1. /\ First \in Events /\ sortedEvents' \in Seq(Events)
          /\ Elements(sortedEvents) = Elements(sortedEvents') \cup {First}
          /\ NoDuplicates(sortedEvents') /\ First \notin Elements(sortedEvents')
      BY <1>4, TailFacts DEF PopFirst, First, BufferTypes, OnePlace
    <2>2. Ordered(sortedEvents')
      BY <1>4, TailFacts DEF PopFirst, BufferTypes, Sorted, Ordered
    <2>3. BufferTypes'
      BY <1>4, <2>1 DEF BufferTypes, PopFirst
    <2>4. Sorted'
      BY <1>4, <2>2 DEF Sorted, Ordered, PopFirst
    <2>5. OnePlace'
      BY <1>4, <2>1 DEF OnePlace, PopFirst
    <2> QED
      BY <2>3, <2>4, <2>5
  <1>5. CASE PassThrough \/ DropLate \/ Deliver
    BY <1>4, <1>5 DEF PassThrough, DropLate, Deliver
  <1>6. CASE FlushQueue
    <2> DEFINE e == Head(eventQueue)
    <2>1. /\ e \in Events /\ eventQueue' \in Seq(Events)
          /\ Elements(eventQueue) = Elements(eventQueue') \cup {e}
          /\ NoDuplicates(eventQueue') /\ e \notin Elements(eventQueue')
      BY <1>6, TailFacts DEF FlushQueue, BufferTypes, OnePlace
    <2>2. objectQueue' = objectQueue \cup {e} /\ UNCHANGED <<sortedEvents, at, heap>>
      BY <1>6 DEF FlushQueue
    <2> HIDE DEF e
    <2>3. BufferTypes' /\ Sorted'
      BY <2>1, <2>2 DEF BufferTypes, Sorted
    <2>4. OnePlace'
      BY <2>1, <2>2 DEF OnePlace
    <2> QED
      BY <2>3, <2>4
  <1>7. CASE FlushList
    <2>1. /\ sortedEvents' = <<>> /\ UNCHANGED <<eventQueue, at, heap>>
          /\ objectQueue' = objectQueue \cup Elements(sortedEvents)
      BY <1>7 DEF FlushList
    <2>2. Elements(<<>>) = {} /\ NoDuplicates(<<>>)
      BY DEF Elements, NoDuplicates
    <2>3. Elements(sortedEvents) \subseteq Events
      BY DEF BufferTypes, Elements
    <2>4. BufferTypes' /\ Sorted'
      BY <2>1, <2>3 DEF BufferTypes, Sorted
    <2>5. OnePlace'
      BY <2>1, <2>2 DEF OnePlace
    <2> QED
      BY <2>4, <2>5
  <1>8. ASSUME UNCHANGED bufferVars PROVE IInv'
    BY <1>8 DEF bufferVars, BufferTypes, Sorted, OnePlace
  <1>9. CASE ProcessBegin \/ UpdateDone \/ NoEvent
    BY <1>8, <1>9 DEF ProcessBegin, UpdateDone, NoEvent
  <1>10. CASE Jack
    BY <1>8, <1>10 DEF Jack, Relocate
  <1>11. CASE UNCHANGED vars
    BY <1>8, <1>11 DEF vars
  <1> QED
    BY <1>1, <1>2, <1>3, <1>5, <1>6, <1>7, <1>9, <1>10, <1>11
       DEF Next, ScriptThread, ProcessThread

\* The invariant holds in every reachable state.
THEOREM Invariance == Spec => []IInv
  <1> QED
    BY InitIInv, IInvStep, PTL DEF Spec

\* EventList::insert keeps the list ordered by position, for any number of events,
\* any queue size and any interleaving of addEvent with the process thread.
THEOREM ListSorted == Spec => []Sorted
  <1>1. IInv => Sorted
    BY DEF IInv
  <1> QED
    BY <1>1, Invariance, PTL

\* Every allocated event is in exactly one of the queue, the list and the collector,
\* so none is lost, recycled twice or used after free.
THEOREM EventsHaveOnePlace == Spec => []OnePlace
  <1>1. IInv => OnePlace
    BY DEF IInv
  <1> QED
    BY <1>1, Invariance, PTL

--------------------------------------------------------------------------------
(***************************************************************************)
(* Events at the same position.  Whatever is in the list or further ahead  *)
(* in the queue was scheduled earlier, and insert looks for the last place *)
(* among equals.                                                           *)
(***************************************************************************)
StableInv ==
    /\ InOrder(eventQueue, agenda)
    /\ \A x \in Elements(sortedEvents), y \in Elements(eventQueue) : <<x, y>> \in agenda
    /\ Stable

\* The pairs that may come one before the other in the list.
Allowed(now, places) ==
    {pair \in Events \X Events : places[pair[1]] = places[pair[2]] => pair \in now}

LEMMA StableMeans ==
    ASSUME BufferTypes PROVE Stable <=> InOrder(sortedEvents, Allowed(agenda, at))
  <1>1. \A i \in DOMAIN sortedEvents : sortedEvents[i] \in Events
    BY DEF BufferTypes
  <1>2. \A x, y \in Events : <<x, y>> \in Allowed(agenda, at) <=> (at[x] = at[y] => <<x, y>> \in agenda)
    BY DEF Allowed
  <1> QED
    BY <1>1, <1>2, Zenon DEF Stable, InOrder

LEMMA InitStable == Init => StableInv
  BY DEF Init, StableInv, Stable, InOrder, Elements

LEMMA StableStep == IInv /\ StableInv /\ [Next]_vars => StableInv'
  <1> SUFFICES ASSUME IInv, StableInv, [Next]_vars PROVE StableInv'
    OBVIOUS
  <1>0. /\ BufferTypes /\ Sorted /\ OnePlace
        /\ eventQueue \in Seq(Events) /\ sortedEvents \in Seq(Events)
        /\ at \in [Events -> Int]
    BY TimeAssumption DEF IInv, BufferTypes, Positions
  <1>1. ASSUME NEW e \in Events, NEW p \in Positions, AddEvent(e, p) PROVE StableInv'
    <2>1. /\ agenda \subseteq agenda' /\ \A x \in heap : <<x, e>> \in agenda'
          /\ sortedEvents' = sortedEvents /\ eventQueue' = Append(eventQueue, e)
          /\ at' = [at EXCEPT ![e] = p] /\ e \notin heap
      BY <1>1 DEF AddEvent
    <2>2. Elements(eventQueue) \subseteq heap /\ Elements(sortedEvents) \subseteq heap
      BY <1>0 DEF OnePlace
    <2>3. InOrder(eventQueue, agenda')
      BY <2>1 DEF StableInv, InOrder
    <2>4. InOrder(eventQueue', agenda')
      BY <1>0, <2>1, <2>2, <2>3, AppendInOrder DEF Range, Elements
    <2>5. Elements(eventQueue') = Elements(eventQueue) \cup {e}
      BY <1>0, <2>1, AppendFacts
    <2>6. \A x \in Elements(sortedEvents), y \in Elements(eventQueue') : <<x, y>> \in agenda'
      BY <2>1, <2>2, <2>5 DEF StableInv
    <2>7. \A i \in DOMAIN sortedEvents : sortedEvents[i] # e /\ sortedEvents[i] \in Events
      BY <1>0, <2>1, <2>2 DEF Elements
    <2>8. \A i \in DOMAIN sortedEvents : at'[sortedEvents[i]] = at[sortedEvents[i]]
      BY <1>0, <2>1, <2>7
    <2>9. Stable'
      BY <2>1, <2>8 DEF StableInv, Stable
    <2> QED
      BY <2>1, <2>4, <2>6, <2>9 DEF StableInv
  <1>2. ASSUME NEW e \in Events, Free(e) PROVE StableInv'
    <2>1. /\ \A x, y : x # e /\ y # e /\ <<x, y>> \in agenda => <<x, y>> \in agenda'
          /\ UNCHANGED <<sortedEvents, eventQueue>>
          /\ at' = [at EXCEPT ![e] = 0] /\ e \in objectQueue
      BY <1>2 DEF Free
    <2>2. e \notin Elements(eventQueue) /\ e \notin Elements(sortedEvents)
      BY <1>0, <2>1 DEF OnePlace
    <2>3. /\ \A i \in DOMAIN sortedEvents : sortedEvents[i] # e /\ sortedEvents[i] \in Events
          /\ \A i \in DOMAIN eventQueue : eventQueue[i] # e
      BY <1>0, <2>2 DEF Elements
    <2>4. \A i \in DOMAIN sortedEvents : at'[sortedEvents[i]] = at[sortedEvents[i]]
      BY <1>0, <2>1, <2>3
    <2>5. InOrder(eventQueue', agenda')
      BY <2>1, <2>3 DEF StableInv, InOrder
    <2>6. \A x \in Elements(sortedEvents'), y \in Elements(eventQueue') : <<x, y>> \in agenda'
      BY <2>1, <2>2 DEF StableInv
    <2>7. Stable'
      BY <2>1, <2>3, <2>4 DEF StableInv, Stable
    <2> QED
      BY <2>5, <2>6, <2>7 DEF StableInv
  <1>3. CASE UpdateOne
    <2> DEFINE e == Head(eventQueue)
               t == Insert(sortedEvents, e)
               R == Allowed(agenda, at)
    <2>1. eventQueue # <<>> /\ e \in Elements(eventQueue) /\ e \in Events
      BY <1>0, <1>3, TailFacts DEF UpdateOne
    <2>2. /\ InOrder(Tail(eventQueue), agenda)
          /\ \A y \in Elements(Tail(eventQueue)) : <<e, y>> \in agenda
          /\ Elements(Tail(eventQueue)) \subseteq Elements(eventQueue)
      BY <1>0, <2>1, TailInOrder, TailFacts DEF StableInv, Range, Elements
    <2>3. Ordered(sortedEvents)
      BY <1>0 DEF Sorted, Ordered
    <2>4. /\ sortedEvents' = t /\ eventQueue' = Tail(eventQueue) /\ UNCHANGED <<agenda, at>>
      BY <1>3 DEF UpdateOne
    <2>5. \A x \in Elements(sortedEvents) : <<x, e>> \in agenda
      BY <2>1 DEF StableInv
    <2> HIDE DEF e
    <2>6. PICK n \in 0..Len(sortedEvents) :
                 /\ t \in Seq(Events) /\ PutAfter(sortedEvents, e, n, t)
                 /\ \A j \in 1..n : at[sortedEvents[j]] <= at[e]
                 /\ \A j \in (n + 1)..Len(sortedEvents) : at[e] < at[sortedEvents[j]]
      BY <1>0, <2>1, <2>3, InsertShape
    <2> HIDE DEF t
    <2>7. \A j \in 1..Len(sortedEvents) : /\ sortedEvents[j] \in Elements(sortedEvents)
                                          /\ sortedEvents[j] \in Events /\ at[sortedEvents[j]] \in Int
      BY <1>0 DEF Elements
    <2>8. \A x, y \in Events : <<x, y>> \in R <=> (at[x] = at[y] => <<x, y>> \in agenda)
      BY DEF Allowed
    <2>9. InOrder(sortedEvents, R)
      BY <1>0, StableMeans DEF StableInv
    <2> HIDE DEF R
    <2>10. \A j \in 1..n : <<sortedEvents[j], e>> \in R
      BY <2>1, <2>5, <2>7, <2>8
    <2>11. \A j \in (n + 1)..Len(sortedEvents) : <<e, sortedEvents[j]>> \in R
      BY <1>0, <2>1, <2>6, <2>7, <2>8
    <2>12. InOrder(t, R)
      BY <1>0, <2>1, <2>6, <2>9, <2>10, <2>11, PutInOrder
    <2>13. \A i \in DOMAIN t : t[i] \in Events
      BY <2>6
    <2>14. Stable'
      BY <2>4, <2>8, <2>12, <2>13, Zenon DEF Stable, InOrder
    <2>15. Elements(t) = Elements(sortedEvents) \cup {e}
      BY <1>0, <2>1, <2>6, PutElements
    <2>16. \A x \in Elements(sortedEvents'), y \in Elements(eventQueue') : <<x, y>> \in agenda'
      BY <2>2, <2>4, <2>15 DEF StableInv
    <2> QED
      BY <2>2, <2>4, <2>14, <2>16 DEF StableInv
  <1>4. ASSUME sortedEvents # <<>>, sortedEvents' = Tail(sortedEvents), UNCHANGED <<eventQueue, at, agenda>>
        PROVE  StableInv'
    <2>1. InOrder(Tail(sortedEvents), Allowed(agenda, at))
      BY <1>0, <1>4, StableMeans, TailInOrder DEF StableInv
    <2>2. Tail(sortedEvents) \in Seq(Events) /\ Elements(Tail(sortedEvents)) \subseteq Elements(sortedEvents)
      BY <1>0, <1>4, TailFacts
    <2>3. \A i \in DOMAIN sortedEvents' : sortedEvents'[i] \in Events
      BY <1>4, <2>2
    <2>4. \A x, y \in Events : <<x, y>> \in Allowed(agenda, at) <=> (at[x] = at[y] => <<x, y>> \in agenda)
      BY DEF Allowed
    <2>5. Stable'
      BY <1>4, <2>1, <2>3, <2>4, Zenon DEF Stable, InOrder
    <2> QED
      BY <1>4, <2>2, <2>5 DEF StableInv
  <1>5. CASE PassThrough \/ DropLate \/ Deliver
    <2>1. sortedEvents # <<>> /\ sortedEvents' = Tail(sortedEvents) /\ UNCHANGED <<eventQueue, at, agenda>>
      BY <1>5 DEF PassThrough, DropLate, Deliver, PopFirst
    <2> QED
      BY <1>4, <2>1
  <1>6. CASE FlushQueue
    <2>1. /\ eventQueue # <<>> /\ eventQueue' = Tail(eventQueue) /\ UNCHANGED <<sortedEvents, at, agenda>>
      BY <1>6 DEF FlushQueue
    <2>2. InOrder(Tail(eventQueue), agenda) /\ Elements(Tail(eventQueue)) \subseteq Elements(eventQueue)
      BY <1>0, <2>1, TailInOrder, TailFacts DEF StableInv
    <2> QED
      BY <2>1, <2>2 DEF StableInv, Stable
  <1>7. CASE FlushList
    <2>1. eventQueue' = eventQueue /\ sortedEvents' = <<>> /\ agenda' = agenda
      BY <1>7 DEF FlushList
    <2> QED
      BY <2>1 DEF StableInv, Stable, Elements
  <1>8. CASE ProcessBegin \/ UpdateDone \/ NoEvent \/ Jack \/ UNCHANGED vars
    <2>1. UNCHANGED <<eventQueue, sortedEvents, at, agenda>>
      BY <1>8 DEF ProcessBegin, UpdateDone, NoEvent, Jack, Relocate, vars, bufferVars, historyVars
    <2> QED
      BY <2>1 DEF StableInv, Stable
  <1> QED
    BY <1>1, <1>2, <1>3, <1>5, <1>6, <1>7, <1>8, Zenon DEF Next, ScriptThread, ProcessThread

\* Events at the same position keep the order in which they were scheduled.
THEOREM ListStable == Spec => []Stable
  <1>1. StableInv => Stable
    BY DEF StableInv
  <1> QED
    BY InitIInv, IInvStep, InitStable, StableStep, <1>1, PTL DEF Spec

--------------------------------------------------------------------------------
(***************************************************************************)
(* Time.  As long as no period has ended with a backlog, an event that was *)
(* scheduled on time is not late yet; one that came in after update() had  *)
(* emptied the queue has a whole period more.  And while a period fetches  *)
(* nothing after its first event, what is left in the list is not before   *)
(* what has been written.                                                  *)
(***************************************************************************)
OnTime ==
    /\ ontime \subseteq Elements(eventQueue) \cup Elements(sortedEvents)
    /\ \A e \in ontime : at[e] >= frame - Grace
    /\ ppc = "select" /\ ~backlog =>
          \A e \in ontime \cap Elements(eventQueue) : at[e] >= frame + Period - Grace

Ahead == \A e \in Elements(sortedEvents) : lastWritten <= 0 \/ lastWritten <= at[e] - frame

TimeInv ==
    /\ frame \in Nat /\ lastWritten \in Int /\ lastWritten >= -1
    /\ ~overloaded => OnTime
    /\ ppc \in {"update", "select"} /\ ~tookMore => Ahead
    /\ TimelyEventsPlay /\ WrittenInOrder

LEMMA InitTime == Init => TimeInv
  <1> SUFFICES ASSUME Init PROVE TimeInv
    OBVIOUS
  <1>1. frame = 1 /\ lastWritten = -1 /\ ontime = {} /\ ppc = "idle" /\ ~missed /\ ~disordered
    BY DEF Init
  <1> QED
    BY <1>1 DEF TimeInv, OnTime, TimelyEventsPlay, WrittenInOrder

\* Nothing in the list comes before its first event.
LEMMA FirstIsFirst ==
    ASSUME IInv, sortedEvents # <<>>
    PROVE  /\ First \in Events /\ at[First] \in Int /\ First \in Elements(sortedEvents)
           /\ \A e \in Elements(sortedEvents) : at[First] <= at[e] /\ at[e] \in Int
  <1>1. /\ sortedEvents \in Seq(Events) /\ at \in [Events -> Int] /\ Sorted
    BY TimeAssumption DEF IInv, BufferTypes, Positions
  <1>2. Len(sortedEvents) \in Nat \ {0} /\ DOMAIN sortedEvents = 1..Len(sortedEvents) /\ First = sortedEvents[1]
    BY <1>1 DEF First
  <1>3. \A i \in 1..Len(sortedEvents) : sortedEvents[i] \in Events /\ at[sortedEvents[i]] \in Int
    BY <1>1
  <1>4. \A i \in 1..Len(sortedEvents) : at[sortedEvents[1]] <= at[sortedEvents[i]]
    <2> SUFFICES ASSUME NEW i \in 1..Len(sortedEvents) PROVE at[sortedEvents[1]] <= at[sortedEvents[i]]
      OBVIOUS
    <2>1. i = 1 \/ 1 < i
      BY <1>2
    <2> QED
      BY <1>1, <1>2, <1>3, <2>1 DEF Sorted
  <1> QED
    BY <1>2, <1>3, <1>4 DEF Elements

\* What a pop leaves behind.
LEMMA Popping ==
    ASSUME IInv, TimeInv, sortedEvents # <<>>, PopFirst, frame' = frame, overloaded' = overloaded,
           ppc' = "select" => ppc = "select" /\ backlog' = backlog
    PROVE  /\ ~overloaded' => OnTime'
           /\ Elements(sortedEvents') \subseteq Elements(sortedEvents)
  <1>1. sortedEvents \in Seq(Events)
    BY DEF IInv, BufferTypes
  <1>2. Elements(sortedEvents) = Elements(Tail(sortedEvents)) \cup {First}
    BY <1>1, TailFacts DEF First
  <1>3. /\ sortedEvents' = Tail(sortedEvents) /\ eventQueue' = eventQueue /\ at' = at
        /\ ontime' = ontime \ {First}
    BY DEF PopFirst
  <1>4. ASSUME ~overloaded PROVE OnTime'
    <2>1. OnTime
      BY <1>4 DEF TimeInv
    <2>2. (ontime \subseteq Elements(eventQueue) \cup Elements(sortedEvents))'
      BY <1>2, <1>3, <2>1 DEF OnTime
    <2>3. (\A e \in ontime : at[e] >= frame - Grace)'
      BY <1>3, <2>1 DEF OnTime
    <2>4. ASSUME ppc' = "select", ~backlog'
          PROVE  (\A e \in ontime \cap Elements(eventQueue) : at[e] >= frame + Period - Grace)'
      <3>1. ppc = "select" /\ ~backlog
        BY <2>4
      <3> QED
        BY <1>3, <2>1, <3>1 DEF OnTime
    <2> QED
      BY <2>2, <2>3, <2>4 DEF OnTime
  <1> QED
    BY <1>2, <1>3, <1>4

LEMMA TimeStep == IInv /\ TimeInv /\ [Next]_vars => TimeInv'
  <1> SUFFICES ASSUME IInv, TimeInv, [Next]_vars PROVE TimeInv'
    OBVIOUS
  <1>0. /\ eventQueue \in Seq(Events) /\ sortedEvents \in Seq(Events) /\ OnePlace
        /\ at \in [Events -> Nat] /\ frame \in Nat /\ lastWritten \in Int /\ lastWritten >= -1
        /\ Grace \in Nat /\ Period \in Nat \ {0} /\ MaxFrame \in Nat
    BY TimeAssumption DEF IInv, BufferTypes, Positions, TimeInv
  <1>1. ASSUME NEW e \in Events, NEW p \in Positions, AddEvent(e, p) PROVE TimeInv'
    <2>1. /\ e \notin heap /\ at' = [at EXCEPT ![e] = p] /\ eventQueue' = Append(eventQueue, e)
          /\ ontime' = IF p >= NextChance THEN ontime \cup {e} ELSE ontime \ {e}
          /\ UNCHANGED <<sortedEvents, frame, lastWritten, ppc, overloaded, backlog, tookMore, missed, disordered>>
      BY <1>1 DEF AddEvent, threadVars
    <2>2. e \notin Elements(eventQueue) /\ e \notin Elements(sortedEvents)
      BY <1>0, <2>1 DEF OnePlace
    <2>3. Elements(eventQueue') = Elements(eventQueue) \cup {e}
      BY <1>0, <2>1, AppendFacts
    <2>4. /\ \A x \in Elements(sortedEvents) \cup Elements(eventQueue) : x \in Events /\ x # e
          /\ \A x \in Events : x # e => at'[x] = at[x]
          /\ at'[e] = p /\ p \in Nat
      BY <1>0, <2>1, <2>2 DEF Elements, Positions
    <2>5. ASSUME ~overloaded PROVE OnTime'
      <3>1. OnTime
        BY <2>5 DEF TimeInv
      <3>2. (ontime \subseteq Elements(eventQueue) \cup Elements(sortedEvents))'
        BY <2>1, <2>3, <3>1 DEF OnTime
      <3>3. e \in ontime' => /\ p >= frame - Grace
                             /\ ppc = "select" => p >= frame + Period - Grace
        <4>1. e \in ontime' => p >= NextChance
          BY <2>1
        <4> QED
          BY <1>0, <2>4, <4>1 DEF NextChance
      <3>4. \A x \in ontime' : x # e => x \in ontime /\ x \in Elements(sortedEvents) \cup Elements(eventQueue)
        BY <2>1, <3>1 DEF OnTime
      <3>5. (\A x \in ontime : at[x] >= frame - Grace)'
        BY <2>1, <2>4, <3>1, <3>3, <3>4 DEF OnTime
      <3>6. ASSUME ppc = "select", ~backlog
            PROVE  \A x \in ontime' \cap Elements(eventQueue') : at'[x] >= frame + Period - Grace
        BY <2>3, <2>4, <3>1, <3>3, <3>4, <3>6 DEF OnTime
      <3> QED
        BY <2>1, <3>2, <3>5, <3>6 DEF OnTime
    <2>6. Ahead => Ahead'
      BY <2>1, <2>4 DEF Ahead
    <2> QED
      BY <2>1, <2>5, <2>6 DEF TimeInv, TimelyEventsPlay, WrittenInOrder
  <1>2. ASSUME NEW e \in Events, Free(e) PROVE TimeInv'
    <2>1. /\ e \in objectQueue /\ at' = [at EXCEPT ![e] = 0]
          /\ UNCHANGED <<eventQueue, sortedEvents, ontime, frame, lastWritten, ppc, overloaded, backlog,
                         tookMore, missed, disordered>>
      BY <1>2 DEF Free, threadVars
    <2>2. /\ \A x \in Elements(sortedEvents) \cup Elements(eventQueue) : x \in Events /\ x # e
          /\ \A x \in Events : x # e => at'[x] = at[x]
      BY <1>0, <2>1 DEF OnePlace, Elements
    <2>3. OnTime => OnTime'
      BY <2>1, <2>2 DEF OnTime
    <2>4. Ahead => Ahead'
      BY <2>1, <2>2 DEF Ahead
    <2> QED
      BY <2>1, <2>3, <2>4 DEF TimeInv, TimelyEventsPlay, WrittenInOrder
  <1>3. CASE ProcessBegin
    <2>1. /\ UNCHANGED <<eventQueue, sortedEvents, at, ontime, frame, overloaded, missed>>
          /\ ppc' = "update" /\ lastWritten' = -1 /\ ~disordered'
      BY <1>3 DEF ProcessBegin, bufferVars
    <2>2. OnTime => OnTime'
      BY <2>1 DEF OnTime
    <2>3. Ahead'
      BY <2>1 DEF Ahead
    <2> QED
      BY <1>0, <2>1, <2>2, <2>3 DEF TimeInv, TimelyEventsPlay, WrittenInOrder
  <1>4. CASE UpdateOne
    <2> DEFINE e == Head(eventQueue)
               t == Insert(sortedEvents, e)
    <2>1. /\ ppc = "update" /\ eventQueue # <<>> /\ sortedEvents' = t /\ eventQueue' = Tail(eventQueue)
          /\ UNCHANGED <<at, ppc, frame, lastWritten, ontime, backlog, overloaded, missed, disordered>>
      BY <1>4 DEF UpdateOne
    <2>2. tookMore' <=> (tookMore \/ lastWritten >= 0)
      BY <1>4, Zenon DEF UpdateOne
    <2>3. e \in Events /\ Elements(eventQueue) = Elements(Tail(eventQueue)) \cup {e}
      BY <1>0, <2>1, TailFacts
    <2>4. Ordered(sortedEvents) /\ at \in [Events -> Int]
      BY <1>0 DEF IInv, Sorted, Ordered
    <2> HIDE DEF e
    <2>5. PICK n \in 0..Len(sortedEvents) : t \in Seq(Events) /\ PutAfter(sortedEvents, e, n, t)
      BY <1>0, <2>3, <2>4, InsertShape
    <2> HIDE DEF t
    <2>6. Elements(t) = Elements(sortedEvents) \cup {e}
      BY <1>0, <2>3, <2>5, PutElements
    <2>7. OnTime => OnTime'
      BY <2>1, <2>3, <2>6 DEF OnTime
    <2>8. ~tookMore' => Ahead'
      BY <1>0, <2>1, <2>2 DEF Ahead
    <2>9. WrittenInOrder'
      BY <2>1, <2>2 DEF TimeInv, WrittenInOrder
    <2> QED
      BY <2>1, <2>7, <2>8, <2>9 DEF TimeInv, TimelyEventsPlay
  <1>5. CASE UpdateDone
    <2>1. /\ UNCHANGED <<eventQueue, sortedEvents, at, ontime, frame, lastWritten, overloaded, tookMore,
                         missed, disordered>>
          /\ ppc = "update" /\ ppc' = "select"
      BY <1>5 DEF UpdateDone, bufferVars
    <2>2. ~backlog' => Elements(eventQueue) = {}
      <3>1. backlog' <=> eventQueue # <<>>
        BY <1>5, Zenon DEF UpdateDone
      <3> QED
        BY <3>1 DEF Elements
    <2>3. OnTime => OnTime'
      BY <2>1, <2>2 DEF OnTime
    <2>4. Ahead => Ahead'
      BY <2>1 DEF Ahead
    <2> QED
      BY <2>1, <2>3, <2>4 DEF TimeInv, TimelyEventsPlay, WrittenInOrder
  <1>6. CASE PassThrough
    <2>1. /\ sortedEvents # <<>> /\ PopFirst /\ ppc = "select" /\ ppc' = "update"
          /\ UNCHANGED <<at, frame, lastWritten, overloaded, tookMore, missed, disordered>>
      BY <1>6 DEF PassThrough, PopFirst
    <2>2. (~overloaded' => OnTime') /\ Elements(sortedEvents') \subseteq Elements(sortedEvents)
      BY <2>1, Popping
    <2>3. Ahead => Ahead'
      BY <2>1, <2>2 DEF Ahead
    <2> QED
      BY <2>1, <2>2, <2>3 DEF TimeInv, TimelyEventsPlay, WrittenInOrder
  <1>7. CASE DropLate
    <2>1. /\ sortedEvents # <<>> /\ PopFirst /\ ppc = "select" /\ Offset(First) < -Grace
          /\ UNCHANGED <<at, frame, lastWritten, ppc, backlog, overloaded, tookMore, disordered>>
      BY <1>7 DEF DropLate, PopFirst, threadVars
    <2>2. (~overloaded' => OnTime') /\ Elements(sortedEvents') \subseteq Elements(sortedEvents)
      BY <2>1, Popping
    <2>3. Ahead => Ahead'
      BY <2>1, <2>2 DEF Ahead
    <2>4. missed' <=> (missed \/ First \in ontime)
      BY <1>7, Zenon DEF DropLate
    <2>5. First \in ontime => overloaded
      <3>1. at[First] \in Int
        BY <2>1, FirstIsFirst
      <3> QED
        BY <1>0, <2>1, <3>1 DEF TimeInv, OnTime, Offset
    <2> QED
      BY <2>1, <2>2, <2>3, <2>4, <2>5 DEF TimeInv, TimelyEventsPlay, WrittenInOrder
  <1>8. CASE Deliver
    <2>1. /\ sortedEvents # <<>> /\ PopFirst /\ ppc = "select" /\ ppc' = "update"
          /\ lastWritten' = IF Offset(First) >= 0 THEN Offset(First) ELSE 0
          /\ UNCHANGED <<at, frame, overloaded, tookMore, missed>>
      BY <1>8 DEF Deliver, PopFirst
    <2>2. (~overloaded' => OnTime') /\ Elements(sortedEvents') \subseteq Elements(sortedEvents)
      BY <2>1, Popping
    <2>3. disordered' <=> (disordered \/ lastWritten' < lastWritten)
      BY <1>8, Zenon DEF Deliver
    <2>4. /\ at[First] \in Int /\ First \in Elements(sortedEvents)
          /\ \A e \in Elements(sortedEvents) : at[First] <= at[e] /\ at[e] \in Int
      BY <2>1, FirstIsFirst
    <2>5. lastWritten' \in Int /\ lastWritten' >= 0
      BY <1>0, <2>1, <2>4 DEF Offset
    <2>6. Ahead'
      BY <1>0, <2>1, <2>2, <2>4 DEF Ahead, Offset
    <2>7. ~tookMore => ~(lastWritten' < lastWritten)
      <3>1. ~tookMore => lastWritten <= 0 \/ lastWritten <= Offset(First)
        BY <2>1, <2>4 DEF TimeInv, Ahead, Offset
      <3>2. Offset(First) \in Int
        BY <1>0, <2>4 DEF Offset
      <3> QED
        BY <1>0, <2>1, <3>1, <3>2
    <2>8. WrittenInOrder'
      BY <2>1, <2>3, <2>7 DEF TimeInv, WrittenInOrder
    <2> QED
      BY <1>0, <2>1, <2>2, <2>5, <2>6, <2>8 DEF TimeInv, TimelyEventsPlay
  <1>9. CASE NoEvent
    <2>1. /\ UNCHANGED <<eventQueue, sortedEvents, at, ontime, rolling, lastWritten, tookMore, missed, disordered>>
          /\ ppc = "select" /\ ppc' = "idle"
          /\ frame' = IF rolling /\ frame + Period <= MaxFrame THEN frame + Period ELSE frame
          /\ sortedEvents = <<>> \/ ~rolling \/ Offset(First) >= Period
      BY <1>9 DEF NoEvent, bufferVars
    <2>2. overloaded' <=> (overloaded \/ backlog)
      BY <1>9, Zenon DEF NoEvent
    <2>3. frame' \in Nat /\ (frame' = frame \/ (rolling /\ frame' = frame + Period))
      BY <1>0, <2>1
    <2>4. ASSUME ~overloaded' PROVE OnTime'
      <3>1. OnTime /\ ~backlog
        BY <2>2, <2>4 DEF TimeInv
      <3>2. ASSUME NEW e \in ontime PROVE at[e] >= frame' - Grace
        <4>1. CASE frame' = frame
          BY <3>1, <3>2, <4>1 DEF OnTime
        <4>2. CASE rolling /\ frame' = frame + Period /\ e \in Elements(eventQueue)
          <5>1. \A x \in ontime \cap Elements(eventQueue) : at[x] >= frame + Period - Grace
            BY <2>1, <3>1, Zenon DEF OnTime
          <5>2. at[e] >= frame + Period - Grace
            BY <3>2, <4>2, <5>1
          <5>3. at[e] \in Nat
            BY <1>0, <4>2 DEF Elements
          <5> QED
            BY <1>0, <4>2, <5>2, <5>3
        <4>3. CASE rolling /\ frame' = frame + Period /\ e \in Elements(sortedEvents)
          <5>1. sortedEvents # <<>>
            BY <4>3 DEF Elements
          <5>2. at[First] \in Int /\ at[First] <= at[e] /\ at[e] \in Int
            BY <4>3, <5>1, FirstIsFirst
          <5>3. at[First] - frame >= Period
            BY <2>1, <4>3, <5>1 DEF Offset
          <5> QED
            BY <1>0, <4>3, <5>2, <5>3
        <4> QED
          BY <2>3, <3>1, <4>1, <4>2, <4>3 DEF OnTime
      <3> QED
        BY <2>1, <3>1, <3>2 DEF OnTime
    <2> QED
      BY <1>0, <2>1, <2>2, <2>3, <2>4 DEF TimeInv, TimelyEventsPlay, WrittenInOrder
  <1>10. CASE FlushQueue
    <2>1. /\ eventQueue # <<>> /\ eventQueue' = Tail(eventQueue) /\ ontime' = ontime \ {Head(eventQueue)}
          /\ ppc = "flush"
          /\ UNCHANGED <<sortedEvents, at, frame, lastWritten, ppc, overloaded, tookMore, missed, disordered>>
      BY <1>10 DEF FlushQueue, threadVars
    <2>2. Elements(eventQueue) = Elements(Tail(eventQueue)) \cup {Head(eventQueue)}
      BY <1>0, <2>1, TailFacts
    <2>3. OnTime => OnTime'
      BY <2>1, <2>2 DEF OnTime
    <2> QED
      BY <2>1, <2>3 DEF TimeInv, TimelyEventsPlay, WrittenInOrder
  <1>11. CASE FlushList
    <2>1. /\ ontime' = ontime \ Elements(sortedEvents) /\ ppc' = "idle"
          /\ UNCHANGED <<eventQueue, at, frame, lastWritten, overloaded, tookMore, missed, disordered>>
      BY <1>11 DEF FlushList
    <2>2. OnTime => OnTime'
      BY <2>1 DEF OnTime
    <2> QED
      BY <2>1, <2>2 DEF TimeInv, TimelyEventsPlay, WrittenInOrder
  <1>12. CASE Jack
    <2>1. PICK f \in 1..MaxFrame, r \in BOOLEAN : Relocate(f, r)
      BY <1>12 DEF Jack
    <2>2. /\ frame' = f /\ ppc' \in {"flush", "idle"} /\ ontime' = IF f > frame THEN {} ELSE ontime
          /\ UNCHANGED <<eventQueue, sortedEvents, at, lastWritten, overloaded, tookMore, missed, disordered>>
      BY <2>1 DEF Relocate, bufferVars
    <2>3. f \in Nat /\ \A e \in Elements(eventQueue) \cup Elements(sortedEvents) : e \in Events /\ at[e] \in Nat
      BY <1>0 DEF Elements
    <2>4. OnTime => OnTime'
      <3>1. CASE f > frame
        BY <2>2, <3>1 DEF OnTime
      <3>2. CASE f <= frame
        <4>1. ontime' = ontime
          BY <1>0, <2>2, <2>3, <3>2
        <4>2. OnTime => \A e \in ontime : at[e] >= f - Grace
          BY <1>0, <2>3, <3>2 DEF OnTime
        <4> QED
          BY <2>2, <4>1, <4>2 DEF OnTime
      <3> QED
        BY <1>0, <2>3, <3>1, <3>2
    <2> QED
      BY <2>2, <2>3, <2>4 DEF TimeInv, TimelyEventsPlay, WrittenInOrder
  <1>13. CASE UNCHANGED vars
    <2>1. UNCHANGED <<eventQueue, sortedEvents, at, ontime, frame, lastWritten, ppc, backlog, overloaded,
                      tookMore, missed, disordered>>
      BY <1>13 DEF vars, bufferVars, threadVars, historyVars
    <2> QED
      BY <2>1 DEF TimeInv, OnTime, Ahead, TimelyEventsPlay, WrittenInOrder
  <1> QED
    BY <1>1, <1>2, <1>3, <1>4, <1>5, <1>6, <1>7, <1>8, <1>9, <1>10, <1>11, <1>12, <1>13, Zenon
       DEF Next, ScriptThread, ProcessThread

\* An event that the script schedules in time is played, unless a period has ended
\* with more events queued than one update() takes.
THEOREM TimelyPlay == Spec => []TimelyEventsPlay
  <1>1. TimeInv => TimelyEventsPlay
    BY DEF TimeInv
  <1> QED
    BY InitIInv, IInvStep, InitTime, TimeStep, <1>1, PTL DEF Spec

\* The offsets written in a period do not decrease, unless an event arrived after the
\* first one had been written.
THEOREM OrderWritten == Spec => []WrittenInOrder
  <1>1. TimeInv => WrittenInOrder
    BY DEF TimeInv
  <1> QED
    BY InitIInv, IInvStep, InitTime, TimeStep, <1>1, PTL DEF Spec
================================================================================
