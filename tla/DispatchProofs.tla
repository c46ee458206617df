----------------------------- MODULE DispatchProofs -----------------------------
(***************************************************************************)
(* Proofs about Dispatch and the allocator it uses, for every size of the  *)
(* pool, of the ring and of the closures, and every set of closures.       *)
(*                                                                         *)
(* The first four parts are about Tlsf alone: size classes, free lists,    *)
(* headers, and the two calls.  The last part is about the three threads.  *)
(***************************************************************************)
EXTENDS Dispatch, FiniteSetTheorems, SequenceTheorems, TLAPS

--------------------------------------------------------------------------------
(***************************************************************************)
(* Facts about natural numbers and sequences.                              *)
(***************************************************************************)

\* A non-empty set of natural numbers has a least element.
LEMMA LeastNatural ==
    ASSUME NEW T, T \subseteq Nat, T # {}
    PROVE  \E m \in T : \A n \in T : m <= n
  <1> DEFINE Less == {ss \in Nat \X Nat : ss[1] < ss[2]}
  <1>1. IsWellFoundedOn(Less, Nat)
    BY NatLessThanWellFounded, Zenon DEF OpToRel
  <1>2. PICK m \in T : \A n \in T : ~(<<n, m>> \in Less)
    <2> HIDE DEF Less
    <2> QED
      BY <1>1, WFMin
  <1>3. \A n \in T : n < m => <<n, m>> \in Less
    OBVIOUS
  <1> HIDE DEF Less
  <1>4. \A n \in T : ~(n < m)
    BY <1>2, <1>3
  <1>5. ASSUME NEW n \in T PROVE m <= n
    <2>1. n \in Nat /\ m \in Nat /\ ~(n < m)
      BY <1>4
    <2> QED
      BY <2>1
  <1> QED
    BY <1>5

\* Induction, for a set of natural numbers.
LEMMA Induction ==
    ASSUME NEW S, 0 \in S, \A n \in Nat : n \in S => n + 1 \in S
    PROVE  Nat \subseteq S
  <1> DEFINE Missing == Nat \ S
  <1> SUFFICES ASSUME Missing # {} PROVE FALSE
    OBVIOUS
  <1>1. PICK m \in Missing : \A n \in Missing : m <= n
    <2>1. Missing \subseteq Nat
      OBVIOUS
    <2> HIDE DEF Missing
    <2> QED
      BY <2>1, LeastNatural
  <1>2. m \in Nat /\ m # 0 /\ m \notin S
    BY <1>1
  <1>3. m - 1 \in Nat /\ (m - 1) + 1 = m /\ ~(m <= m - 1)
    BY <1>2
  <1>4. m - 1 \in S
    BY <1>1, <1>3
  <1> QED
    BY <1>2, <1>3, <1>4

\* No element comes twice.
Once(s) == \A i, j \in DOMAIN s : s[i] = s[j] => i = j

\* Something new at the end.
LEMMA AppendOnce ==
    ASSUME NEW S, NEW s \in Seq(S), NEW e \in S
    PROVE  /\ Append(s, e) \in Seq(S)
           /\ Range(Append(s, e)) = Range(s) \cup {e}
           /\ Once(s) /\ e \notin Range(s) => Once(Append(s, e))
  <1>1. /\ Append(s, e) \in Seq(S)
        /\ DOMAIN Append(s, e) = 1..(Len(s) + 1) /\ DOMAIN s = 1..Len(s)
        /\ Append(s, e)[Len(s) + 1] = e
        /\ \A i \in 1..Len(s) : Append(s, e)[i] = s[i]
    BY AppendProperties
  <1>2. \A i : i \in 1..(Len(s) + 1) <=> i \in 1..Len(s) \/ i = Len(s) + 1
    OBVIOUS
  <1> DEFINE t == Append(s, e)
  <1> HIDE DEF t
  <1>3. Range(t) = Range(s) \cup {e}
    BY <1>1, <1>2, Zenon DEF Range, t
  <1>4. Once(s) /\ e \notin Range(s) => Once(t)
    BY <1>1, <1>2, Zenon DEF Range, Once, t
  <1> QED
    BY <1>1, <1>3, <1>4 DEF t

\* Two lists that share nothing, one behind the other.
LEMMA ConcatOnce ==
    ASSUME NEW S, NEW s \in Seq(S), NEW t \in Seq(S)
    PROVE  /\ s \o t \in Seq(S)
           /\ Range(s \o t) = Range(s) \cup Range(t)
           /\ Once(s) /\ Once(t) /\ Range(s) \cap Range(t) = {} => Once(s \o t)
  <1> DEFINE u == s \o t
  <1>1. /\ u \in Seq(S) /\ Len(u) = Len(s) + Len(t)
        /\ \A i \in 1..(Len(s) + Len(t)) : u[i] = IF i <= Len(s) THEN s[i] ELSE t[i - Len(s)]
    BY ConcatProperties
  <1>2. DOMAIN s = 1..Len(s) /\ DOMAIN t = 1..Len(t) /\ Len(s) \in Nat /\ Len(t) \in Nat
    OBVIOUS
  <1> HIDE DEF u
  <1>3. DOMAIN u = 1..(Len(s) + Len(t))
    BY <1>1, <1>2
  <1>4. \A i \in DOMAIN s : i \in DOMAIN u /\ u[i] = s[i]
    BY <1>1, <1>2, <1>3
  <1>5. \A i \in DOMAIN t : i + Len(s) \in DOMAIN u /\ u[i + Len(s)] = t[i]
    <2> SUFFICES ASSUME NEW i \in 1..Len(t) PROVE i + Len(s) \in DOMAIN u /\ u[i + Len(s)] = t[i]
      BY <1>2
    <2>1. i + Len(s) \in 1..(Len(s) + Len(t)) /\ ~(i + Len(s) <= Len(s)) /\ (i + Len(s)) - Len(s) = i
      BY <1>2
    <2> QED
      BY <1>1, <1>3, <2>1
  <1>6. \A i \in DOMAIN u : \/ i \in DOMAIN s /\ u[i] = s[i]
                            \/ i - Len(s) \in DOMAIN t /\ u[i] = t[i - Len(s)]
    <2> SUFFICES ASSUME NEW i \in 1..(Len(s) + Len(t))
                 PROVE  \/ i \in 1..Len(s) /\ u[i] = s[i]
                        \/ i - Len(s) \in 1..Len(t) /\ u[i] = t[i - Len(s)]
      BY <1>2, <1>3
    <2>1. u[i] = IF i <= Len(s) THEN s[i] ELSE t[i - Len(s)]
      BY <1>1
    <2>2. (i <= Len(s) => i \in 1..Len(s)) /\ (~(i <= Len(s)) => i - Len(s) \in 1..Len(t))
      BY <1>2
    <2> QED
      BY <2>1, <2>2
  <1>7. Range(u) = Range(s) \cup Range(t)
    BY <1>4, <1>5, <1>6 DEF Range
  <1>8. ASSUME Once(s), Once(t), Range(s) \cap Range(t) = {} PROVE Once(u)
    <2> SUFFICES ASSUME NEW i \in DOMAIN u, NEW j \in DOMAIN u, u[i] = u[j] PROVE i = j
      BY DEF Once
    <2>1. CASE i \in DOMAIN s /\ j \in DOMAIN s /\ s[i] = s[j]
      BY <1>8, <2>1 DEF Once
    <2>2. CASE i - Len(s) \in DOMAIN t /\ j - Len(s) \in DOMAIN t /\ t[i - Len(s)] = t[j - Len(s)]
      <3>1. i - Len(s) = j - Len(s)
        BY <1>8, <2>2, Zenon DEF Once
      <3> QED
        BY <1>2, <1>3, <3>1
    <2>3. ASSUME NEW k \in DOMAIN s, NEW l \in DOMAIN t PROVE s[k] # t[l]
      BY <1>8 DEF Range
    <2> QED
      BY <1>6, <2>1, <2>2, <2>3
  <1> QED
    BY <1>1, <1>7, <1>8 DEF u

\* How often something is in a list in which nothing comes twice.
LEMMA CountOnce ==
    ASSUME NEW S, NEW s \in Seq(S), Once(s), NEW e
    PROVE  Cardinality({i \in DOMAIN s : s[i] = e}) = IF e \in Range(s) THEN 1 ELSE 0
  <1>1. CASE e \in Range(s)
    <2>1. PICK i \in DOMAIN s : s[i] = e
      BY <1>1 DEF Range
    <2>2. {j \in DOMAIN s : s[j] = e} = {i}
      BY <2>1 DEF Once
    <2> QED
      BY <1>1, <2>2, FS_Singleton
  <1>2. CASE e \notin Range(s)
    <2>1. {j \in DOMAIN s : s[j] = e} = {}
      BY <1>2 DEF Range
    <2> QED
      BY <1>2, <2>1, FS_EmptySet
  <1> QED
    BY <1>1, <1>2

\* A list without its first n elements.
LEMMA Dropped ==
    ASSUME NEW S, NEW s \in Seq(S), NEW n \in 0..Len(s)
    PROVE  /\ SubSeq(s, n + 1, Len(s)) \in Seq(S)
           /\ Len(SubSeq(s, n + 1, Len(s))) = Len(s) - n
           /\ \A j \in 1..(Len(s) - n) : SubSeq(s, n + 1, Len(s))[j] = s[n + j]
  OBVIOUS

\* What popping the first element of a list leaves.
LEMMA TailOnce ==
    ASSUME NEW S, NEW s \in Seq(S), s # <<>>
    PROVE  /\ Head(s) \in S /\ Head(s) = s[1] /\ Tail(s) \in Seq(S)
           /\ Range(s) = Range(Tail(s)) \cup {Head(s)}
           /\ Once(s) => Once(Tail(s)) /\ Head(s) \notin Range(Tail(s))
  <1>1. /\ Head(s) = s[1] /\ Head(s) \in S
        /\ Tail(s) \in Seq(S) /\ Len(Tail(s)) = Len(s) - 1 /\ Len(s) \in Nat \ {0}
        /\ \A i \in 1..(Len(s) - 1) : Tail(s)[i] = s[i + 1]
    OBVIOUS
  <1> DEFINE t == Tail(s)
  <1>2. DOMAIN t = 1..(Len(s) - 1) /\ DOMAIN s = 1..Len(s)
    BY <1>1
  <1> HIDE DEF t
  <1>3. \A i \in 1..(Len(s) - 1) : i + 1 \in 1..Len(s) /\ t[i] = s[i + 1]
    BY <1>1 DEF t
  <1>4. \A i \in 1..Len(s) : i # 1 => i - 1 \in 1..(Len(s) - 1) /\ s[i] = t[i - 1]
    <2> SUFFICES ASSUME NEW i \in 1..Len(s), i # 1
                 PROVE  i - 1 \in 1..(Len(s) - 1) /\ s[i] = t[i - 1]
      OBVIOUS
    <2>1. i - 1 \in 1..(Len(s) - 1) /\ (i - 1) + 1 = i
      BY <1>1
    <2> QED
      BY <1>3, <2>1
  <1>5. Range(s) = Range(t) \cup {s[1]}
    <2>1. \A x \in Range(s) : x \in Range(t) \cup {s[1]}
      BY <1>2, <1>4 DEF Range
    <2>2. \A x \in Range(t) : x \in Range(s)
      BY <1>2, <1>3 DEF Range
    <2>3. s[1] \in Range(s)
      BY <1>1, <1>2 DEF Range
    <2> QED
      BY <2>1, <2>2, <2>3
  <1>6. ASSUME Once(s) PROVE Once(t) /\ s[1] \notin Range(t)
    <2>1. ASSUME NEW i \in 1..(Len(s) - 1), NEW j \in 1..(Len(s) - 1), t[i] = t[j]
          PROVE  i = j
      <3>1. i + 1 = j + 1
        BY <1>2, <1>3, <1>6, <2>1 DEF Once
      <3> QED
        BY <3>1
    <2>2. ASSUME NEW i \in 1..(Len(s) - 1), t[i] = s[1] PROVE FALSE
      <3>1. i + 1 = 1
        BY <1>1, <1>2, <1>3, <1>6, <2>2 DEF Once
      <3> QED
        BY <3>1
    <2> QED
      BY <1>2, <2>1, <2>2 DEF Once, Range
  <1> QED
    BY <1>1, <1>5, <1>6 DEF t

--------------------------------------------------------------------------------
(***************************************************************************)
(* Powers of two and size classes.                                         *)
(***************************************************************************)
\* f is Bit up to n.
Bits(f, n) == f \in [0..n -> Nat] /\ f[0] = 1 /\ \A k \in 1..n : f[k] = 2 * f[k - 1]

\* There is such a function, up to every n.
LEMMA BitsExist ==
    ASSUME NEW n \in Nat
    PROVE  \E f : Bits(f, n)
  <1> DEFINE S == {m \in Nat : \E f : Bits(f, m)}
  <1>1. 0 \in S
    <2> DEFINE f == [k \in 0..0 |-> 1]
    <2>1. Bits(f, 0)
      BY DEF Bits
    <2> QED
      BY <2>1
  <1>2. ASSUME NEW m \in Nat, m \in S PROVE m + 1 \in S
    <2>1. PICK f : Bits(f, m)
      BY <1>2
    <2> DEFINE g == [k \in 0..(m + 1) |-> IF k = m + 1 THEN 2 * f[m] ELSE f[k]]
    <2>2. /\ f \in [0..m -> Nat] /\ f[0] = 1
          /\ \A k \in 1..m : f[k] = 2 * f[k - 1]
      BY <2>1 DEF Bits
    <2>3. \A k \in 0..(m + 1) : g[k] = IF k = m + 1 THEN 2 * f[m] ELSE f[k]
      OBVIOUS
    <2>4. \A k \in 0..(m + 1) : g[k] \in Nat
      <3> SUFFICES ASSUME NEW k \in 0..(m + 1) PROVE g[k] \in Nat
        OBVIOUS
      <3>1. m \in 0..m /\ (k # m + 1 => k \in 0..m)
        OBVIOUS
      <3>2. f[m] \in Nat /\ (k # m + 1 => f[k] \in Nat)
        BY <2>2, <3>1
      <3> QED
        BY <2>3, <3>2
    <2>5. g \in [0..(m + 1) -> Nat]
      BY <2>4
    <2>6. g[0] = 1
      BY <2>2, <2>3
    <2> HIDE DEF g
    <2>7. ASSUME NEW k \in 1..(m + 1) PROVE g[k] = 2 * g[k - 1]
      <3>1. k - 1 \in 0..(m + 1) /\ k - 1 # m + 1 /\ k \in 0..(m + 1) /\ (k # m + 1 => k \in 1..m)
            /\ (k = m + 1 => k - 1 = m)
        OBVIOUS
      <3>2. g[k - 1] = f[k - 1]
        BY <2>3, <3>1
      <3> QED
        BY <2>2, <2>3, <3>1, <3>2
    <2>8. Bits(g, m + 1)
      BY <2>5, <2>6, <2>7 DEF Bits
    <2> QED
      BY <2>8
  <1> HIDE DEF S
  <1>3. Nat \subseteq S
    BY <1>1, <1>2, Induction
  <1> QED
    BY <1>3 DEF S

\* Two of them agree as far as both go.
LEMMA BitsAgree ==
    ASSUME NEW n \in Nat, NEW m \in Nat, NEW f, NEW g, Bits(f, n), Bits(g, m),
           NEW k \in Nat, k <= n, k <= m
    PROVE  f[k] = g[k]
  <1> DEFINE S == {i \in Nat : i <= n /\ i <= m => f[i] = g[i]}
  <1>1. 0 \in S
    BY DEF Bits
  <1>2. ASSUME NEW i \in Nat, i \in S PROVE i + 1 \in S
    <2> SUFFICES ASSUME i + 1 <= n, i + 1 <= m PROVE f[i + 1] = g[i + 1]
      OBVIOUS
    <2>1. i + 1 \in 1..n /\ i + 1 \in 1..m /\ (i + 1) - 1 = i /\ f[i] = g[i]
      BY <1>2
    <2> QED
      BY <2>1 DEF Bits
  <1> HIDE DEF S
  <1>3. Nat \subseteq S
    BY <1>1, <1>2, Induction
  <1> QED
    BY <1>3 DEF S

\* What the recursive definition says.
LEMMA BitValue ==
    /\ Bit[0] = 1
    /\ \A k \in Nat : Bit[k] \in Nat /\ Bit[k + 1] = 2 * Bit[k]
  <1> DEFINE Some(n) == CHOOSE f : Bits(f, n)
             g == [n \in Nat |-> Some(n)[n]]
             Walk(f) == [k \in Nat |-> IF k = 0 THEN 1 ELSE 2 * f[k - 1]]
             bit == CHOOSE f : f = Walk(f)
  <1>1. \A n \in Nat : Bits(Some(n), n)
    BY BitsExist
  <1>2. \A n \in Nat : g[n] = Some(n)[n]
    OBVIOUS
  <1> HIDE DEF Some
  <1>3. ASSUME NEW n \in Nat PROVE g[n] = IF n = 0 THEN 1 ELSE 2 * g[n - 1]
    <2>1. CASE n = 0
      BY <1>1, <1>2, <2>1 DEF Bits
    <2>2. CASE n # 0
      <3>1. n - 1 \in Nat /\ n - 1 <= n /\ n - 1 <= n - 1 /\ n \in 1..n
        BY <2>2
      <3>2. Some(n)[n] = 2 * Some(n)[n - 1]
        BY <1>1, <3>1 DEF Bits
      <3>3. Some(n)[n - 1] = Some(n - 1)[n - 1]
        BY <1>1, <3>1, BitsAgree
      <3> QED
        BY <1>2, <2>2, <3>1, <3>2, <3>3
    <2> QED
      BY <2>1, <2>2
  <1>4. g = Walk(g)
    <2> DEFINE h == Walk(g)
    <2>1. h = [k \in Nat |-> h[k]] /\ g = [k \in Nat |-> g[k]]
      OBVIOUS
    <2>2. \A k \in Nat : h[k] = g[k]
      BY <1>3
    <2> HIDE DEF g, h
    <2>3. h = g
      BY <2>1, <2>2
    <2> QED
      BY <2>3 DEF h
  <1>5. bit = Walk(bit)
    <2> HIDE DEF g, Walk
    <2> QED
      BY <1>4
  <1>6. Bit = bit
    BY DEF Bit
  <1> HIDE DEF bit
  <1>7. \A k \in Nat : bit[k] = IF k = 0 THEN 1 ELSE 2 * bit[k - 1]
    <2>1. \A k \in Nat : bit[k] = Walk(bit)[k]
      BY <1>5
    <2> QED
      BY <2>1
  <1>8. ASSUME NEW k \in Nat PROVE bit[k + 1] = 2 * bit[k]
    <2>1. k + 1 \in Nat /\ k + 1 # 0 /\ (k + 1) - 1 = k
      OBVIOUS
    <2> QED
      BY <1>7, <2>1
  <1>9. \A k \in Nat : bit[k] \in Nat
    <2> DEFINE S == {k \in Nat : bit[k] \in Nat}
    <2>1. 0 \in S /\ \A k \in Nat : k \in S => k + 1 \in S
      BY <1>7, <1>8
    <2> HIDE DEF S
    <2>2. Nat \subseteq S
      BY <2>1, Induction
    <2> QED
      BY <2>2 DEF S
  <1> QED
    BY <1>6, <1>7, <1>8, <1>9

\* Bit grows, and turns sums into products.
LEMMA BitGrows ==
    ASSUME NEW i \in Nat, NEW j \in Nat
    PROVE  /\ Bit[i] \in Nat /\ i < Bit[i]
           /\ Bit[i] <= Bit[i + j]
           /\ Bit[i + j] = Bit[i] * Bit[j]
  <1> DEFINE S == {k \in Nat : k < Bit[k]}
             T == {k \in Nat : Bit[i] <= Bit[i + k] /\ Bit[i + k] = Bit[i] * Bit[k]}
  <1>1. 0 \in S /\ \A k \in Nat : k \in S => k + 1 \in S
    BY BitValue
  <1>2. 0 \in T
    BY BitValue
  <1>3. ASSUME NEW k \in Nat, k \in T PROVE k + 1 \in T
    <2>1. i + (k + 1) = (i + k) + 1 /\ i + k \in Nat /\ k + 1 \in Nat
      OBVIOUS
    <2>2. /\ Bit[i + (k + 1)] = 2 * Bit[i + k] /\ Bit[k + 1] = 2 * Bit[k]
          /\ Bit[i] \in Nat /\ Bit[k] \in Nat /\ Bit[i + k] \in Nat
      BY <2>1, BitValue
    <2>3. Bit[i] <= Bit[i + k] /\ Bit[i + k] = Bit[i] * Bit[k]
      BY <1>3
    <2>4. Bit[i] <= Bit[i + (k + 1)] /\ Bit[i + (k + 1)] = Bit[i] * Bit[k + 1]
      <3>1. 2 * (Bit[i] * Bit[k]) = Bit[i] * (2 * Bit[k])
        BY <2>2
      <3> QED
        BY <2>2, <2>3, <3>1
    <2> QED
      BY <2>1, <2>4
  <1> HIDE DEF S, T
  <1>4. Nat \subseteq S /\ Nat \subseteq T
    <2>1. Nat \subseteq S
      BY <1>1, Induction
    <2>2. Nat \subseteq T
      BY <1>2, <1>3, Induction
    <2> QED
      BY <2>1, <2>2
  <1> QED
    BY <1>4, BitValue DEF S, T

\* A higher bit is a larger number.
LEMMA BitOrder ==
    ASSUME NEW i \in Nat, NEW j \in Nat, i <= j
    PROVE  Bit[i] <= Bit[j]
  <1>1. j - i \in Nat /\ i + (j - i) = j
    OBVIOUS
  <1> QED
    BY <1>1, BitGrows

\* tlsf_fls finds the highest bit.
LEMMA FlsValue ==
    ASSUME NEW n \in Nat \ {0}
    PROVE  /\ Fls(n) \in Nat
           /\ Bit[Fls(n)] <= n /\ n < Bit[Fls(n) + 1] /\ n < 2 * Bit[Fls(n)]
  <1> DEFINE S == {k \in Nat : n < Bit[k + 1]}
             P(k) == Bit[k] <= n /\ n < Bit[k + 1]
  <1>1. n \in S
    <2>1. n < Bit[n] /\ Bit[n] \in Nat /\ Bit[n + 1] = 2 * Bit[n]
      BY BitGrows, BitValue
    <2> QED
      BY <2>1
  <1>2. PICK k \in S : \A i \in S : k <= i
    <2>1. S \subseteq Nat
      OBVIOUS
    <2> HIDE DEF S
    <2> QED
      BY <1>1, <2>1, LeastNatural
  <1>3. Bit[k] <= n
    <2>1. CASE k = 0
      BY <2>1, BitValue
    <2>2. CASE k # 0
      <3>1. k - 1 \in Nat /\ (k - 1) + 1 = k /\ ~(k <= k - 1)
        BY <1>2, <2>2
      <3>2. ~(n < Bit[k])
        BY <1>2, <3>1
      <3> QED
        BY <1>2, <3>2, BitValue
    <2> QED
      BY <2>1, <2>2
  <1>4. k \in 0..n
    <2>1. k < Bit[k] /\ Bit[k] \in Nat
      BY <1>2, BitGrows
    <2> QED
      BY <1>2, <1>3, <2>1
  <1>5. \E i \in 0..n : P(i)
    BY <1>2, <1>3, <1>4
  <1>6. Fls(n) = CHOOSE i \in 0..n : P(i)
    BY DEF Fls
  <1> HIDE DEF P
  <1>7. Fls(n) \in 0..n /\ P(Fls(n))
    BY <1>5, <1>6
  <1> QED
    BY <1>7, BitValue DEF P

\* A larger number has no lower highest bit.
LEMMA FlsOrder ==
    ASSUME NEW n \in Nat \ {0}, NEW m \in Nat, n <= m
    PROVE  Fls(n) <= Fls(m)
  <1>1. /\ Fls(n) \in Nat /\ Bit[Fls(n)] <= n
        /\ Fls(m) \in Nat /\ m < Bit[Fls(m) + 1]
    BY FlsValue
  <1> SUFFICES ASSUME Fls(m) + 1 <= Fls(n) PROVE FALSE
    BY <1>1
  <1>2. Bit[Fls(m) + 1] <= Bit[Fls(n)]
    BY <1>1, BitOrder
  <1>3. Bit[Fls(m) + 1] \in Nat /\ Bit[Fls(n)] \in Nat
    BY <1>1, BitValue
  <1> QED
    BY <1>1, <1>2, <1>3

\* A number that is at least 1 << k has bit k or a higher one.
LEMMA FlsOfBit ==
    ASSUME NEW k \in Nat, NEW n \in Nat, Bit[k] <= n
    PROVE  n # 0 /\ k <= Fls(n)
  <1>1. k < Bit[k] /\ Bit[k] \in Nat
    BY BitGrows
  <1>2. n # 0 /\ Fls(n) \in Nat /\ n < Bit[Fls(n) + 1]
    BY <1>1, FlsValue
  <1> SUFFICES ASSUME Fls(n) + 1 <= k PROVE FALSE
    BY <1>2
  <1>3. Bit[Fls(n) + 1] <= Bit[k] /\ Bit[Fls(n) + 1] \in Nat
    BY <1>2, BitOrder, BitValue
  <1> QED
    BY <1>1, <1>2, <1>3

\* The smallest size of a class.
Floor(c) == IF c.fl = 0 THEN c.sl ELSE Bit[c.fl - 1] * (SmallBlockSize + c.sl)

\* A class is a pair of numbers, and no size is below the floor of its class.
LEMMA ClassOf ==
    ASSUME NEW size \in Nat
    PROVE  /\ MappingInsert(size).fl \in Nat /\ MappingInsert(size).sl \in Nat
           /\ MappingInsert(size) = [fl |-> MappingInsert(size).fl, sl |-> MappingInsert(size).sl]
           /\ MappingInsert(size).fl # 0 => MappingInsert(size).sl < SmallBlockSize
           /\ Floor(MappingInsert(size)) \in Nat /\ Floor(MappingInsert(size)) <= size
  <1>0. SlLog2 \in Nat /\ SmallBlockSize \in Nat /\ SmallBlockSize = Bit[SlLog2]
    BY PoolAssumption, BitValue DEF SmallBlockSize
  <1>1. CASE size < SmallBlockSize
    <2>1. MappingInsert(size) = [fl |-> 0, sl |-> size]
      BY <1>1 DEF MappingInsert
    <2> QED
      BY <2>1 DEF Floor
  <1>2. CASE ~(size < SmallBlockSize)
    <2> DEFINE k == Fls(size)
               j == k - SlLog2
               q == size \div Bit[j]
    <2>1. size # 0 /\ SlLog2 <= k
      BY <1>0, <1>2, FlsOfBit
    <2>2. k \in Nat /\ Bit[k] <= size /\ size < 2 * Bit[k]
      BY <2>1, FlsValue
    <2> HIDE DEF k
    <2>3. j \in Nat /\ k = j + SlLog2 /\ j + 1 # 0 /\ (j + 1) - 1 = j
      BY <1>0, <2>1, <2>2
    <2> HIDE DEF j
    <2>4. Bit[j] \in Nat /\ j < Bit[j] /\ Bit[k] = Bit[j] * SmallBlockSize
      BY <1>0, <2>3, BitGrows
    <2>5. Bit[j] \in Nat \ {0}
      BY <2>3, <2>4
    <2>6. q \in Nat /\ Bit[j] * q <= size
      BY <2>5
    <2>7. SmallBlockSize <= q /\ q < 2 * SmallBlockSize
      <3> DEFINE b == Bit[j]
                 s == SmallBlockSize
      <3>1. b \in Nat \ {0} /\ s \in Nat /\ size \in Nat /\ b * s <= size /\ size < 2 * (b * s)
        BY <1>0, <2>2, <2>4, <2>5
      <3>2. q = size \div b
        OBVIOUS
      <3> HIDE DEF b, s, q
      <3>3. b * q <= size /\ size < b * q + b /\ q \in Nat
        BY <3>1, <3>2
      <3>4. b * s < b * (q + 1) /\ b * q < b * (2 * s)
        BY <3>1, <3>3
      <3>5. s < q + 1 /\ q < 2 * s
        BY <3>1, <3>3, <3>4
      <3> QED
        BY <3>1, <3>3, <3>5 DEF s
    <2> HIDE DEF q
    <2>8. MappingInsert(size) = [fl |-> j + 1, sl |-> q - SmallBlockSize]
      BY <1>2 DEF MappingInsert, k, j, q
    <2>9. q - SmallBlockSize \in Nat /\ SmallBlockSize + (q - SmallBlockSize) = q
          /\ q - SmallBlockSize < SmallBlockSize
      BY <1>0, <2>6, <2>7
    <2>10. Floor(MappingInsert(size)) = Bit[j] * q
      BY <2>3, <2>8, <2>9 DEF Floor
    <2>11. Bit[j] * q \in Nat
      BY <2>4, <2>6
    <2> QED
      BY <2>3, <2>6, <2>8, <2>9, <2>10, <2>11
  <1> QED
    BY <1>1, <1>2

\* The order of classes in which search_suitable_block looks for a block.
NotBelow(d, c) == d.fl > c.fl \/ (d.fl = c.fl /\ d.sl >= c.sl)

\* mapping_search rounds up: the floor of the class it finds is not below the size.
LEMMA SearchRoundsUp ==
    ASSUME NEW size \in Nat, ~(size < SmallBlockSize)
    PROVE  MappingSearch(size).fl # 0 /\ size <= Floor(MappingSearch(size))
  <1> DEFINE k == Fls(size)
             i == k - SlLog2
             m == size + Bit[i] - 1
             l == Fls(m)
             j == l - SlLog2
             q == m \div Bit[j]
  <1>0. SlLog2 \in Nat /\ SmallBlockSize \in Nat /\ SmallBlockSize = Bit[SlLog2]
    BY PoolAssumption, BitValue DEF SmallBlockSize
  <1>1. size # 0 /\ SlLog2 <= k
    BY <1>0, FlsOfBit
  <1>2. k \in Nat /\ Bit[k] \in Nat /\ size < 2 * Bit[k]
    BY <1>1, FlsValue, BitValue
  <1> HIDE DEF k
  <1>3. i \in Nat /\ i < Bit[i] /\ Bit[i] \in Nat /\ k = i + SlLog2
    <2>1. i \in Nat /\ k = i + SlLog2
      BY <1>0, <1>1, <1>2
    <2> HIDE DEF i
    <2> QED
      BY <2>1, BitGrows
  <1> HIDE DEF i
  <1>4. m \in Nat /\ size <= m /\ ~(m < SmallBlockSize) /\ m = size + Bit[i] - 1
    BY <1>0, <1>3
  <1>5. MappingSearch(size) = MappingInsert(m)
    BY DEF MappingSearch, m, i, k
  <1> HIDE DEF m
  <1>6. m # 0 /\ SlLog2 <= l
    BY <1>0, <1>4, FlsOfBit
  <1>7. l \in Nat /\ Bit[l] <= m /\ Bit[l] \in Nat /\ k <= l
    <2>1. k <= l
      BY <1>1, <1>4, <1>6, FlsOrder DEF k
    <2> QED
      BY <1>4, <1>6, <2>1, FlsValue, BitValue
  <1> HIDE DEF l
  <1>8. j \in Nat /\ l = j + SlLog2 /\ j + 1 # 0 /\ (j + 1) - 1 = j
    BY <1>0, <1>6, <1>7
  <1>9. MappingInsert(m) = [fl |-> j + 1, sl |-> q - SmallBlockSize]
    BY <1>4 DEF MappingInsert, j, l, q
  <1> HIDE DEF j
  <1>10. Bit[j] \in Nat \ {0} /\ Bit[l] = Bit[j] * SmallBlockSize
    <2>1. Bit[j] \in Nat /\ j < Bit[j] /\ Bit[j + SlLog2] = Bit[j] * Bit[SlLog2]
      BY <1>0, <1>8, BitGrows
    <2> QED
      BY <1>0, <1>8, <2>1
  <1>11. q \in Nat /\ Bit[j] * q <= m /\ m < Bit[j] * q + Bit[j]
    BY <1>4, <1>10
  <1> HIDE DEF q
  <1>12. Floor(MappingInsert(m)) = Bit[j] * q
    <2>1. SmallBlockSize + (q - SmallBlockSize) = q
      BY <1>0, <1>11
    <2> QED
      BY <1>8, <1>9, <2>1 DEF Floor
  <1>13. size <= Bit[j] * q
    <2>1. CASE l = k
      <3>1. j = i
        BY <1>0, <1>3, <1>8, <2>1
      <3>2. Bit[j] * q \in Nat
        BY <1>10, <1>11
      <3> QED
        BY <1>3, <1>4, <1>11, <3>1, <3>2
    <2>2. CASE l # k
      <3>1. k + 1 <= l
        BY <1>2, <1>7, <2>2
      <3>2. 2 * Bit[k] <= Bit[l]
        BY <1>2, <1>7, <3>1, BitOrder, BitValue
      <3>3. Bit[j] * SmallBlockSize <= Bit[j] * q
        <4> DEFINE b == Bit[j]
                   s == SmallBlockSize
        <4>1. b \in Nat \ {0} /\ s \in Nat /\ b * s <= m /\ m < b * q + b /\ q \in Nat
          BY <1>0, <1>7, <1>10, <1>11
        <4> HIDE DEF b, s
        <4>2. b * s < b * (q + 1)
          BY <1>4, <4>1
        <4>3. s < q + 1
          BY <4>1, <4>2
        <4>4. b * s <= b * q
          BY <4>1, <4>3
        <4> QED
          BY <4>4 DEF b, s
      <3>4. Bit[j] * q \in Nat
        BY <1>10, <1>11
      <3> QED
        BY <1>2, <1>7, <1>10, <3>2, <3>3, <3>4
    <2> QED
      BY <2>1, <2>2
  <1> QED
    BY <1>5, <1>8, <1>9, <1>12, <1>13

\* A block of a class that is not below the one searched for is large enough.
LEMMA ClassFits ==
    ASSUME NEW size \in Nat, NEW z \in Nat,
           NotBelow(MappingInsert(z), MappingSearch(size))
    PROVE  size <= z
  <1> DEFINE c == MappingSearch(size)
             d == MappingInsert(z)
  <1>0. SlLog2 \in Nat /\ SmallBlockSize \in Nat
    BY PoolAssumption, BitValue DEF SmallBlockSize
  <1>1. /\ d.fl \in Nat /\ d.sl \in Nat /\ Floor(d) \in Nat /\ Floor(d) <= z
        /\ Floor(d) = IF d.fl = 0 THEN d.sl ELSE Bit[d.fl - 1] * (SmallBlockSize + d.sl)
    BY ClassOf DEF Floor
  <1>2. CASE size < SmallBlockSize
    <2>1. c = [fl |-> 0, sl |-> size]
      BY <1>2 DEF MappingSearch, MappingInsert
    <2>2. CASE d.fl = 0
      BY <1>1, <2>1, <2>2 DEF NotBelow
    <2>3. CASE d.fl # 0
      <3> DEFINE b == Bit[d.fl - 1]
                 s == SmallBlockSize + d.sl
      <3>1. b \in Nat \ {0}
        <4>1. d.fl - 1 \in Nat
          BY <1>1, <2>3
        <4>2. Bit[d.fl - 1] \in Nat /\ d.fl - 1 < Bit[d.fl - 1]
          BY <4>1, BitGrows DEF d
        <4> HIDE DEF d
        <4> QED
          BY <4>1, <4>2
      <3>2. s \in Nat /\ size < s
        BY <1>0, <1>1, <1>2
      <3>3. Floor(d) = b * s
        BY <1>1, <2>3
      <3> HIDE DEF b, s, d
      <3>4. s <= b * s
        BY <3>1, <3>2
      <3> QED
        BY <1>1, <3>2, <3>3, <3>4
    <2> QED
      BY <2>2, <2>3
  <1>3. CASE ~(size < SmallBlockSize)
    <2>1. c.fl # 0 /\ size <= Floor(c)
      BY <1>3, SearchRoundsUp
    <2>2. c.fl \in Nat /\ c.sl \in Nat /\ c.sl < SmallBlockSize
          /\ Floor(c) = Bit[c.fl - 1] * (SmallBlockSize + c.sl)
      <3> DEFINE m == size + Bit[Fls(size) - SlLog2] - 1
      <3>1. c = MappingInsert(m)
        BY <1>3 DEF MappingSearch
      <3>2. m \in Nat
        <4>1. size # 0 /\ SlLog2 <= Fls(size) /\ Fls(size) \in Nat
          BY <1>0, <1>3, FlsOfBit, FlsValue DEF SmallBlockSize
        <4>2. Fls(size) - SlLog2 \in Nat
          BY <1>0, <4>1
        <4>3. Bit[Fls(size) - SlLog2] \in Nat
          BY <4>2, BitValue
        <4> QED
          BY <4>1, <4>3
      <3> HIDE DEF m
      <3> QED
        BY <2>1, <3>1, <3>2, ClassOf DEF Floor
    <2> HIDE DEF c, d
    <2>3. Floor(c) <= Floor(d)
      <3> DEFINE b == Bit[c.fl - 1]
                 e == Bit[d.fl - 1]
                 s == SmallBlockSize
                 x == c.sl
                 y == d.sl
      <3>1. d.fl # 0 /\ d.fl - 1 \in Nat /\ c.fl - 1 \in Nat
        BY <1>1, <2>1, <2>2 DEF NotBelow, c, d
      <3>2. /\ b \in Nat /\ e \in Nat /\ s \in Nat /\ x \in Nat /\ y \in Nat /\ x < s
            /\ Floor(c) = b * (s + x) /\ Floor(d) = e * (s + y)
        BY <1>0, <1>1, <2>2, <3>1, BitValue
      <3>3. (d.fl = c.fl /\ y >= x) \/ d.fl > c.fl
        BY DEF NotBelow, c, d
      <3>4. CASE d.fl = c.fl /\ y >= x
        <4>1. e = b /\ y >= x
          BY <3>4
        <4> HIDE DEF b, e, s, x, y
        <4>2. b * (s + x) <= b * (s + y)
          BY <3>2, <4>1
        <4> QED
          BY <3>2, <4>1, <4>2
      <3>5. CASE d.fl > c.fl
        <4>1. c.fl <= d.fl - 1 /\ (c.fl - 1) + 1 = c.fl
          BY <1>1, <2>2, <3>5 DEF d
        <4>2. Bit[c.fl] <= e /\ Bit[c.fl] = 2 * b
          BY <2>2, <3>1, <4>1, BitOrder, BitValue
        <4>3. 2 * b <= e
          BY <4>2
        <4> HIDE DEF b, e, s, x, y
        <4>4. b * (s + x) <= b * (2 * s)
          BY <3>2
        <4>5. (2 * b) * s <= e * s /\ e * s <= e * (s + y) /\ b * (2 * s) = (2 * b) * s
          BY <3>2, <4>3
        <4>6. b * (s + x) <= e * (s + y)
          BY <3>2, <4>4, <4>5
        <4> QED
          BY <3>2, <4>6
      <3> QED
        BY <3>3, <3>4, <3>5
    <2>4. Floor(c) \in Nat
      <3>1. c.fl - 1 \in Nat
        BY <2>1, <2>2
      <3>2. Bit[c.fl - 1] \in Nat
        BY <3>1, BitValue
      <3> QED
        BY <1>0, <2>2, <3>2
    <2> QED
      BY <1>1, <2>1, <2>3, <2>4 DEF d
  <1> QED
    BY <1>2, <1>3

(***************************************************************************)
(* Free lists: those of pool hold the blocks of F, each in its class.      *)
(***************************************************************************)

\* tlsf_ffs finds the lowest bit.
LEMMA LeastOf ==
    ASSUME NEW S \in SUBSET Nat, S # {}
    PROVE  Least(S) \in S /\ \A y \in S : Least(S) <= y
  <1>1. \E x \in S : \A y \in S : x <= y
    BY LeastNatural
  <1> QED
    BY <1>1 DEF Least

\* Unlinking an element of a list leaves the others, once each.
LEMMA Deleted ==
    ASSUME NEW S, NEW s \in Seq(S), Once(s), NEW e
    PROVE  Delete(s, e) \in Seq(S) /\ Once(Delete(s, e)) /\ Range(Delete(s, e)) = Range(s) \ {e}
  <1>1. CASE ~ \E i \in DOMAIN s : s[i] = e
    <2>1. Delete(s, e) = s
      BY <1>1 DEF Delete
    <2>2. e \notin Range(s)
      BY <1>1 DEF Range
    <2> QED
      BY <2>1, <2>2
  <1>2. CASE \E i \in DOMAIN s : s[i] = e
    <2> DEFINE k == CHOOSE i \in DOMAIN s : s[i] = e
    <2>1. k \in DOMAIN s /\ s[k] = e
      BY <1>2
    <2>2. Delete(s, e) = SubSeq(s, 1, k - 1) \o SubSeq(s, k + 1, Len(s))
      BY <1>2 DEF Delete, RemoveAt
    <2> HIDE DEF k
    <2> DEFINE a == SubSeq(s, 1, k - 1)
               c == SubSeq(s, k + 1, Len(s))
    <2>3. DOMAIN s = 1..Len(s) /\ Len(s) \in Nat /\ k \in 1..Len(s)
      BY <2>1
    <2>4. a \in Seq(S) /\ Len(a) = k - 1 /\ \A j \in 1..(k - 1) : a[j] = s[j]
      BY <2>3
    <2>5. c \in Seq(S) /\ Len(c) = Len(s) - k /\ \A j \in 1..(Len(s) - k) : c[j] = s[k + j]
      <3>1. k \in 0..Len(s)
        BY <2>3
      <3> QED
        BY <3>1, Dropped
    <2>15. Delete(s, e) = a \o c
      BY <2>2
    <2> HIDE DEF a, c
    <2>6. DOMAIN a = 1..(k - 1) /\ DOMAIN c = 1..(Len(s) - k)
      BY <2>4, <2>5
    <2>7. Once(a)
      <3> SUFFICES ASSUME NEW i \in 1..(k - 1), NEW j \in 1..(k - 1), a[i] = a[j] PROVE i = j
        BY <2>6 DEF Once
      <3>1. i \in DOMAIN s /\ j \in DOMAIN s /\ s[i] = s[j]
        BY <2>3, <2>4
      <3> QED
        BY <3>1 DEF Once
    <2>8. Once(c)
      <3> SUFFICES ASSUME NEW i \in 1..(Len(s) - k), NEW j \in 1..(Len(s) - k), c[i] = c[j] PROVE i = j
        BY <2>6 DEF Once
      <3>1. k + i \in DOMAIN s /\ k + j \in DOMAIN s
        BY <2>3
      <3>2. s[k + i] = s[k + j]
        BY <2>5
      <3>3. k + i = k + j
        BY <3>1, <3>2 DEF Once
      <3> QED
        BY <2>3, <3>3
    <2>9. \A x \in Range(a) : \E j \in DOMAIN s : j < k /\ s[j] = x
      <3> SUFFICES ASSUME NEW j \in 1..(k - 1) PROVE j \in DOMAIN s /\ j < k /\ s[j] = a[j]
        BY <2>6 DEF Range
      <3> QED
        BY <2>3, <2>4
    <2>10. \A x \in Range(c) : \E j \in DOMAIN s : j > k /\ s[j] = x
      <3> SUFFICES ASSUME NEW i \in 1..(Len(s) - k) PROVE k + i \in DOMAIN s /\ k + i > k /\ s[k + i] = c[i]
        BY <2>6 DEF Range
      <3> QED
        BY <2>3, <2>5
    <2>11. Range(a) \cap Range(c) = {}
      <3> SUFFICES ASSUME NEW i \in DOMAIN s, NEW j \in DOMAIN s, i < k, j > k, s[i] = s[j] PROVE FALSE
        BY <2>9, <2>10
      <3> QED
        BY <2>3 DEF Once
    <2>12. e \notin Range(a) /\ e \notin Range(c)
      BY <2>1, <2>3, <2>9, <2>10 DEF Once
    <2>13. \A i \in DOMAIN s : i # k => s[i] \in Range(a) \cup Range(c)
      <3> SUFFICES ASSUME NEW i \in 1..Len(s), i # k PROVE s[i] \in Range(a) \cup Range(c)
        BY <2>3
      <3>1. CASE i < k
        <4>1. i \in 1..(k - 1)
          BY <2>3, <3>1
        <4> QED
          BY <2>4, <2>6, <4>1 DEF Range
      <3>2. CASE i > k
        <4>1. i - k \in 1..(Len(s) - k) /\ k + (i - k) = i
          BY <2>3, <3>2
        <4>2. c[i - k] = s[i]
          BY <2>5, <4>1
        <4> QED
          BY <2>6, <4>1, <4>2 DEF Range
      <3> QED
        BY <2>3, <3>1, <3>2
    <2>14. Range(a) \cup Range(c) = Range(s) \ {e}
      <3>1. Range(s) = {s[i] : i \in DOMAIN s}
        BY DEF Range
      <3>2. \A x \in Range(a) \cup Range(c) : x \in Range(s)
        BY <2>9, <2>10, <3>1
      <3>3. \A x \in Range(s) \ {e} : x \in Range(a) \cup Range(c)
        BY <2>1, <2>13, <3>1
      <3> QED
        BY <2>12, <3>2, <3>3
    <2> QED
      BY <2>4, <2>5, <2>7, <2>8, <2>11, <2>14, <2>15, ConcatOnce
  <1> QED
    BY <1>1, <1>2

\* What tlsf_check compares: both levels of bitmaps say which lists have blocks, and
\* the list of each class holds the blocks of F that belong to the class, once each.
Lists(tlsf, F) ==
    /\ F \subseteq Nat
    /\ \A b \in F : tlsf.header[b].size \in 0..PoolWords
    /\ tlsf.blocks \in [Classes -> Seq(Nat)]
    /\ tlsf.slBitmap \subseteq Classes
    /\ tlsf.flBitmap = {c.fl : c \in tlsf.slBitmap}
    /\ \A c \in Classes :
          /\ c \in tlsf.slBitmap <=> tlsf.blocks[c] # <<>>
          /\ Once(tlsf.blocks[c])
          /\ Range(tlsf.blocks[c]) = {b \in F : MappingInsert(tlsf.header[b].size) = c}

\* The size of every block that fits into the pool has a list.
LEMMA ClassListed ==
    ASSUME NEW size \in 0..PoolWords PROVE MappingInsert(size) \in Classes
  <1>1. size \in 0..(2 * PoolWords)
    BY PoolAssumption
  <1> QED
    BY <1>1 DEF Classes

\* The lists only look at the sizes in the headers.
LEMMA ListsWithHeader ==
    ASSUME NEW tlsf, NEW F, Lists(tlsf, F), NEW h, \A b \in F : h[b].size = tlsf.header[b].size
    PROVE  Lists(WithHeader(tlsf, h), F)
  <1> DEFINE p == WithHeader(tlsf, h)
  <1>1. /\ p.header = h /\ p.blocks = tlsf.blocks
        /\ p.slBitmap = tlsf.slBitmap /\ p.flBitmap = tlsf.flBitmap
    BY DEF WithHeader
  <1> HIDE DEF p
  <1>2. \A c : {b \in F : MappingInsert(p.header[b].size) = c}
               = {b \in F : MappingInsert(tlsf.header[b].size) = c}
    BY <1>1
  <1>3. Lists(p, F)
    BY <1>1, <1>2 DEF Lists
  <1> QED
    BY <1>3 DEF p

\* remove_free_block takes b out of its list, and clears the bits of a list that is empty then.
LEMMA ListsRemove ==
    ASSUME NEW tlsf, NEW F, Lists(tlsf, F), NEW b \in F, NEW c, c = MappingInsert(tlsf.header[b].size)
    PROVE  /\ Lists(RemoveFreeBlock(tlsf, b, c), F \ {b})
           /\ RemoveFreeBlock(tlsf, b, c).header = tlsf.header
  <1> DEFINE p == RemoveFreeBlock(tlsf, b, c)
             left == Delete(tlsf.blocks[c], b)
             bits == IF left = <<>> THEN tlsf.slBitmap \ {c} ELSE tlsf.slBitmap
  <1>1. /\ p.header = tlsf.header
        /\ p.blocks = [tlsf.blocks EXCEPT ![c] = left]
        /\ p.slBitmap = bits
        /\ p.flBitmap = IF \E s \in bits : s.fl = c.fl THEN tlsf.flBitmap ELSE tlsf.flBitmap \ {c.fl}
    BY DEF RemoveFreeBlock
  <1>2. c \in Classes
    BY ClassListed DEF Lists
  <1>3. tlsf.blocks[c] \in Seq(Nat) /\ Once(tlsf.blocks[c])
        /\ Range(tlsf.blocks[c]) = {x \in F : MappingInsert(tlsf.header[x].size) = c}
    BY <1>2 DEF Lists
  <1>4. left \in Seq(Nat) /\ Once(left) /\ Range(left) = Range(tlsf.blocks[c]) \ {b}
    BY <1>3, Deleted
  <1>5. c \in tlsf.slBitmap
    <2>1. b \in Range(tlsf.blocks[c])
      BY <1>3
    <2>2. tlsf.blocks[c] # <<>>
      BY <2>1 DEF Range
    <2> QED
      BY <1>2, <2>2 DEF Lists
  <1> HIDE DEF left
  <1>6. p.flBitmap = {s.fl : s \in p.slBitmap}
    <2>1. tlsf.flBitmap = {s.fl : s \in tlsf.slBitmap}
      BY DEF Lists
    <2>2. CASE left = <<>>
      <3>1. bits = tlsf.slBitmap \ {c}
        BY <2>2
      <3> HIDE DEF bits
      <3>2. CASE \E s \in bits : s.fl = c.fl
        BY <1>1, <1>5, <2>1, <3>1, <3>2
      <3>3. CASE ~ \E s \in bits : s.fl = c.fl
        BY <1>1, <1>5, <2>1, <3>1, <3>3
      <3> QED
        BY <3>2, <3>3
    <2>3. CASE left # <<>>
      <3>1. bits = tlsf.slBitmap
        BY <2>3
      <3>2. \E s \in bits : s.fl = c.fl
        BY <1>5, <3>1
      <3> QED
        BY <1>1, <2>1, <3>1, <3>2
    <2> QED
      BY <2>2, <2>3
  <1>7. p.blocks \in [Classes -> Seq(Nat)] /\ p.slBitmap \subseteq Classes
    BY <1>1, <1>2, <1>4 DEF Lists
  <1>8. \A d \in Classes : p.blocks[d] = IF d = c THEN left ELSE tlsf.blocks[d]
    BY <1>1, <1>2 DEF Lists
  <1> HIDE DEF p
  <1>9. ASSUME NEW d \in Classes
        PROVE  /\ d \in p.slBitmap <=> p.blocks[d] # <<>>
               /\ Once(p.blocks[d])
               /\ Range(p.blocks[d]) = {x \in F \ {b} : MappingInsert(p.header[x].size) = d}
    <2>1. /\ d \in tlsf.slBitmap <=> tlsf.blocks[d] # <<>>
          /\ Once(tlsf.blocks[d])
          /\ Range(tlsf.blocks[d]) = {x \in F : MappingInsert(tlsf.header[x].size) = d}
      BY DEF Lists
    <2>2. CASE d = c
      <3>1. p.blocks[d] = left
        BY <1>8, <2>2
      <3>2. Range(left) = {x \in F \ {b} : MappingInsert(p.header[x].size) = d}
        BY <1>1, <1>3, <1>4, <2>2
      <3>3. d \in p.slBitmap <=> left # <<>>
        BY <1>1, <1>5, <2>2
      <3> QED
        BY <1>4, <3>1, <3>2, <3>3
    <2>3. CASE d # c
      <3>1. p.blocks[d] = tlsf.blocks[d]
        BY <1>8, <2>3
      <3>2. d \in p.slBitmap <=> d \in tlsf.slBitmap
        BY <1>1, <2>3
      <3>3. {x \in F \ {b} : MappingInsert(p.header[x].size) = d} = {x \in F : MappingInsert(tlsf.header[x].size) = d}
        BY <1>1, <2>3
      <3> QED
        BY <2>1, <3>1, <3>2, <3>3
    <2> QED
      BY <2>2, <2>3
  <1>10. Lists(p, F \ {b})
    BY <1>1, <1>6, <1>7, <1>9 DEF Lists
  <1> QED
    BY <1>1, <1>10 DEF p

\* block_insert puts b into the list of its class, and sets the bits.
LEMMA ListsInsert ==
    ASSUME NEW tlsf, NEW F, Lists(tlsf, F), NEW b \in Nat, b \notin F, tlsf.header[b].size \in 0..PoolWords
    PROVE  /\ Lists(BlockInsert(tlsf, b), F \cup {b})
           /\ BlockInsert(tlsf, b).header = tlsf.header
  <1> DEFINE p == BlockInsert(tlsf, b)
             c == MappingInsert(tlsf.header[b].size)
             more == <<b>> \o tlsf.blocks[c]
  <1>1. /\ p.header = tlsf.header
        /\ p.blocks = [tlsf.blocks EXCEPT ![c] = more]
        /\ p.slBitmap = tlsf.slBitmap \cup {c}
        /\ p.flBitmap = tlsf.flBitmap \cup {c.fl}
    BY DEF BlockInsert, InsertFreeBlock
  <1>2. c \in Classes
    BY ClassListed
  <1>3. tlsf.blocks[c] \in Seq(Nat) /\ Once(tlsf.blocks[c])
        /\ Range(tlsf.blocks[c]) = {x \in F : MappingInsert(tlsf.header[x].size) = c}
    BY <1>2 DEF Lists
  <1>4. more \in Seq(Nat) /\ Once(more) /\ Range(more) = Range(tlsf.blocks[c]) \cup {b} /\ more # <<>>
    <2> DEFINE s == <<b>>
               t == tlsf.blocks[c]
    <2>1. s \in Seq(Nat) /\ Once(s) /\ Range(s) = {b}
      BY DEF Once, Range
    <2>2. b \notin Range(t) /\ t \in Seq(Nat) /\ Once(t)
      BY <1>3
    <2> HIDE DEF s, t
    <2>3. s \o t \in Seq(Nat) /\ Once(s \o t) /\ Range(s \o t) = Range(t) \cup {b}
      BY <2>1, <2>2, ConcatOnce
    <2>4. s \o t # <<>>
      <3>1. b \in Range(s \o t)
        BY <2>3
      <3> QED
        BY <3>1 DEF Range
    <2> QED
      BY <2>3, <2>4 DEF s, t
  <1> HIDE DEF more
  <1>6. p.flBitmap = {s.fl : s \in p.slBitmap}
    BY <1>1 DEF Lists
  <1>7. p.blocks \in [Classes -> Seq(Nat)] /\ p.slBitmap \subseteq Classes
    BY <1>1, <1>2, <1>4 DEF Lists
  <1>8. \A d \in Classes : p.blocks[d] = IF d = c THEN more ELSE tlsf.blocks[d]
    BY <1>1, <1>2 DEF Lists
  <1> HIDE DEF p
  <1>9. ASSUME NEW d \in Classes
        PROVE  /\ d \in p.slBitmap <=> p.blocks[d] # <<>>
               /\ Once(p.blocks[d])
               /\ Range(p.blocks[d]) = {x \in F \cup {b} : MappingInsert(p.header[x].size) = d}
    <2>1. /\ d \in tlsf.slBitmap <=> tlsf.blocks[d] # <<>>
          /\ Once(tlsf.blocks[d])
          /\ Range(tlsf.blocks[d]) = {x \in F : MappingInsert(tlsf.header[x].size) = d}
      BY DEF Lists
    <2>2. CASE d = c
      <3>1. p.blocks[d] = more
        BY <1>8, <2>2
      <3>2. Range(more) = {x \in F \cup {b} : MappingInsert(p.header[x].size) = d}
        BY <1>1, <1>3, <1>4, <2>2
      <3> QED
        BY <1>1, <1>4, <2>2, <3>1, <3>2
    <2>3. CASE d # c
      <3>1. p.blocks[d] = tlsf.blocks[d]
        BY <1>8, <2>3
      <3>2. {x \in F \cup {b} : MappingInsert(p.header[x].size) = d} = {x \in F : MappingInsert(tlsf.header[x].size) = d}
        BY <1>1, <2>3
      <3> QED
        BY <1>1, <2>1, <2>3, <3>1, <3>2
    <2> QED
      BY <2>2, <2>3
  <1>10. F \cup {b} \subseteq Nat /\ \A x \in F \cup {b} : p.header[x].size \in 0..PoolWords
    BY <1>1 DEF Lists
  <1>11. Lists(p, F \cup {b})
    BY <1>6, <1>7, <1>9, <1>10 DEF Lists
  <1> QED
    BY <1>1, <1>11 DEF p

\* search_suitable_block finds a list that has blocks and is not below the class.
LEMMA Suitable ==
    ASSUME NEW tlsf, NEW F, Lists(tlsf, F), NEW c, c.fl \in Nat, SearchSuitable(tlsf, c) # NoClass
    PROVE  SearchSuitable(tlsf, c) \in tlsf.slBitmap /\ NotBelow(SearchSuitable(tlsf, c), c)
  <1> DEFINE d == SearchSuitable(tlsf, c)
             here == {s \in tlsf.slBitmap : s.fl = c.fl /\ s.sl >= c.sl}
             above == {f \in tlsf.flBitmap : f > c.fl}
  <1>1. \A s \in tlsf.slBitmap : s.fl \in Nat /\ s.sl \in Nat /\ s = [fl |-> s.fl, sl |-> s.sl]
    <2> SUFFICES ASSUME NEW s \in tlsf.slBitmap PROVE s.fl \in Nat /\ s.sl \in Nat /\ s = [fl |-> s.fl, sl |-> s.sl]
      OBVIOUS
    <2>1. PICK n \in 0..(2 * PoolWords) : s = MappingInsert(n)
      BY DEF Lists, Classes
    <2>2. n \in Nat
      BY PoolAssumption
    <2> QED
      BY <2>1, <2>2, ClassOf
  <1>2. CASE here # {}
    <2> DEFINE S == {s.sl : s \in here}
    <2>1. d = [fl |-> c.fl, sl |-> Least(S)]
      BY <1>2 DEF SearchSuitable
    <2>2. S \in SUBSET Nat /\ S # {}
      BY <1>1, <1>2
    <2>3. Least(S) \in S
      BY <2>2, LeastOf
    <2>4. PICK s \in here : Least(S) = s.sl
      BY <2>3
    <2>5. s \in tlsf.slBitmap /\ s.fl = c.fl /\ s.sl >= c.sl
      BY <2>4
    <2>6. d = s
      BY <1>1, <2>1, <2>4, <2>5
    <2> QED
      BY <2>5, <2>6 DEF NotBelow
  <1>3. CASE here = {}
    <2>1. above # {}
      BY <1>3 DEF SearchSuitable
    <2> DEFINE f == Least(above)
               S == {s.sl : s \in {x \in tlsf.slBitmap : x.fl = f}}
    <2>2. d = [fl |-> f, sl |-> Least(S)]
      BY <1>3, <2>1 DEF SearchSuitable
    <2>3. above \in SUBSET Nat
      BY <1>1 DEF Lists
    <2>4. f \in above
      BY <2>1, <2>3, LeastOf
    <2> HIDE DEF f
    <2>5. f > c.fl /\ \E x \in tlsf.slBitmap : x.fl = f
      BY <2>4 DEF Lists
    <2>6. S \in SUBSET Nat /\ S # {}
      BY <1>1, <2>5
    <2>7. Least(S) \in S
      BY <2>6, LeastOf
    <2>8. PICK s \in tlsf.slBitmap : s.fl = f /\ Least(S) = s.sl
      BY <2>7
    <2>9. d = s
      BY <1>1, <2>2, <2>8
    <2> QED
      BY <2>5, <2>8, <2>9 DEF NotBelow
  <1> QED
    BY <1>2, <1>3

(***************************************************************************)
(* Headers.                                                                *)
(***************************************************************************)

\* What a header holds: see block_header_t.
HeaderType == [size : Nat, free : BOOLEAN, prevFree : BOOLEAN, prevPhys : Int]

\* Where the block of size zero at the end of the pool is.
Sentinel == PoolWords + 1

\* The blocks of h lie one behind the other.
Chained(h) ==
    /\ DOMAIN h \subseteq 0..Sentinel /\ 0 \in DOMAIN h /\ Sentinel \in DOMAIN h
    /\ h \in [DOMAIN h -> HeaderType]
    /\ h[Sentinel].size = 0
    /\ \A b \in DOMAIN h \ {Sentinel} : h[b].size >= BlockSizeMin /\ BlockNext(h, b) \in DOMAIN h
    /\ \A a, b \in DOMAIN h : a < b => BlockNext(h, a) <= b
    /\ \A b \in DOMAIN h \ {0} : \E a \in DOMAIN h \ {Sentinel} : BlockNext(h, a) = b

\* Every block knows whether and where the one before it is free.
Tagged(h) ==
    /\ ~h[0].prevFree /\ ~h[Sentinel].free
    /\ \A b \in DOMAIN h \ {Sentinel} :
          /\ h[BlockNext(h, b)].prevFree <=> h[b].free
          /\ h[BlockNext(h, b)].prevPhys = IF h[b].free THEN b ELSE NoBlock

\* g is h but for the tags of b and of the block behind it.
Retagged(h, g, b, free) ==
    /\ DOMAIN g = DOMAIN h
    /\ g \in [DOMAIN h -> HeaderType]
    /\ \A x \in DOMAIN h :
          /\ g[x].size = h[x].size
          /\ g[x].free <=> IF x = b THEN free ELSE h[x].free
          /\ g[x].prevFree <=> IF x = BlockNext(h, b) THEN free ELSE h[x].prevFree
          /\ g[x].prevPhys = IF x = BlockNext(h, b) THEN IF free THEN b ELSE NoBlock ELSE h[x].prevPhys

\* block_mark_as_free writes the tags of b and of the block behind it only.
LEMMA MarkedFree ==
    ASSUME NEW h, NEW b \in DOMAIN h, DOMAIN h \subseteq Int, h \in [DOMAIN h -> HeaderType],
           BlockNext(h, b) \in DOMAIN h, BlockNext(h, b) # b
    PROVE  Retagged(h, BlockMarkAsFree(h, b), b, TRUE)
  <1> DEFINE n == BlockNext(h, b)
             e == [h EXCEPT ![n].prevPhys = b]
             f == [e EXCEPT ![n].prevFree = TRUE]
             g == [f EXCEPT ![b].free = TRUE]
  <1>1. BlockMarkAsFree(h, b) = g
    BY DEF BlockMarkAsFree, BlockLinkNext
  <1>2. n \in DOMAIN h /\ b \in DOMAIN h /\ n # b /\ b \in Int
    OBVIOUS
  <1>9. \A x \in DOMAIN h : h[x] \in HeaderType
    OBVIOUS
  <1> HIDE DEF n
  <1>3. /\ DOMAIN e = DOMAIN h
        /\ \A x \in DOMAIN h :
              /\ e[x] \in HeaderType
              /\ e[x].size = h[x].size
              /\ e[x].free = h[x].free
              /\ e[x].prevFree = h[x].prevFree
              /\ e[x].prevPhys = IF x = n THEN b ELSE h[x].prevPhys
    BY <1>2, <1>9 DEF HeaderType
  <1> HIDE DEF e
  <1>4. /\ DOMAIN f = DOMAIN h
        /\ \A x \in DOMAIN h :
              /\ f[x] \in HeaderType
              /\ f[x].size = h[x].size
              /\ f[x].free = h[x].free
              /\ f[x].prevFree = IF x = n THEN TRUE ELSE h[x].prevFree
              /\ f[x].prevPhys = IF x = n THEN b ELSE h[x].prevPhys
    BY <1>2, <1>3 DEF HeaderType
  <1> HIDE DEF f
  <1>5. /\ DOMAIN g = DOMAIN h
        /\ \A x \in DOMAIN h :
              /\ g[x] \in HeaderType
              /\ g[x].size = h[x].size
              /\ g[x].free = IF x = b THEN TRUE ELSE h[x].free
              /\ g[x].prevFree = IF x = n THEN TRUE ELSE h[x].prevFree
              /\ g[x].prevPhys = IF x = n THEN b ELSE h[x].prevPhys
    BY <1>2, <1>4 DEF HeaderType
  <1>6. g = [x \in DOMAIN h |-> g[x]]
    BY <1>4
  <1> HIDE DEF g
  <1>7. g \in [DOMAIN h -> HeaderType]
    BY <1>5, <1>6
  <1> QED
    BY <1>1, <1>5, <1>7 DEF Retagged, n

\* So does block_mark_as_used.
LEMMA MarkedUsed ==
    ASSUME NEW h, NEW b \in DOMAIN h, DOMAIN h \subseteq Int, h \in [DOMAIN h -> HeaderType],
           BlockNext(h, b) \in DOMAIN h, BlockNext(h, b) # b
    PROVE  Retagged(h, BlockMarkAsUsed(h, b), b, FALSE)
  <1> DEFINE n == BlockNext(h, b)
             e == [h EXCEPT ![n].prevFree = FALSE]
             f == [e EXCEPT ![n].prevPhys = NoBlock]
             g == [f EXCEPT ![b].free = FALSE]
  <1>1. BlockMarkAsUsed(h, b) = g
    BY DEF BlockMarkAsUsed
  <1>2. n \in DOMAIN h /\ b \in DOMAIN h /\ n # b /\ b \in Int /\ NoBlock \in Int
    BY DEF NoBlock
  <1>9. \A x \in DOMAIN h : h[x] \in HeaderType
    OBVIOUS
  <1> HIDE DEF n
  <1>3. /\ DOMAIN e = DOMAIN h
        /\ \A x \in DOMAIN h :
              /\ e[x] \in HeaderType
              /\ e[x].size = h[x].size
              /\ e[x].free = h[x].free
              /\ e[x].prevFree = IF x = n THEN FALSE ELSE h[x].prevFree
              /\ e[x].prevPhys = h[x].prevPhys
    BY <1>2, <1>9 DEF HeaderType
  <1> HIDE DEF e
  <1>4. /\ DOMAIN f = DOMAIN h
        /\ \A x \in DOMAIN h :
              /\ f[x] \in HeaderType
              /\ f[x].size = h[x].size
              /\ f[x].free = h[x].free
              /\ f[x].prevFree = IF x = n THEN FALSE ELSE h[x].prevFree
              /\ f[x].prevPhys = IF x = n THEN NoBlock ELSE h[x].prevPhys
    BY <1>2, <1>3 DEF HeaderType
  <1> HIDE DEF f
  <1>5. /\ DOMAIN g = DOMAIN h
        /\ \A x \in DOMAIN h :
              /\ g[x] \in HeaderType
              /\ g[x].size = h[x].size
              /\ g[x].free = IF x = b THEN FALSE ELSE h[x].free
              /\ g[x].prevFree = IF x = n THEN FALSE ELSE h[x].prevFree
              /\ g[x].prevPhys = IF x = n THEN NoBlock ELSE h[x].prevPhys
    BY <1>2, <1>4 DEF HeaderType
  <1>6. g = [x \in DOMAIN h |-> g[x]]
    BY <1>4
  <1> HIDE DEF g
  <1>7. g \in [DOMAIN h -> HeaderType]
    BY <1>5, <1>6
  <1> QED
    BY <1>1, <1>5, <1>7 DEF Retagged, n

\* Where the next block is.
LEMMA NextBlock ==
    ASSUME NEW h, Chained(h), NEW b \in DOMAIN h \ {Sentinel}
    PROVE  /\ b \in Nat /\ h[b].size \in Nat /\ h[b].size >= 3 /\ h[b].size <= PoolWords
           /\ BlockNext(h, b) \in DOMAIN h /\ BlockNext(h, b) = b + 1 + h[b].size
           /\ BlockNext(h, b) # 0
           /\ \A a \in DOMAIN h \ {b, Sentinel} : BlockNext(h, a) # BlockNext(h, b)
  <1>1. DOMAIN h \subseteq Nat /\ \A x \in DOMAIN h : h[x].size \in Nat
    BY PoolAssumption DEF Chained, Sentinel, HeaderType
  <1>2. BlockNext(h, b) = b + 1 + h[b].size /\ BlockNext(h, b) \in DOMAIN h /\ h[b].size >= 3
    BY DEF BlockNext, Chained, BlockSizeMin
  <1>3. BlockNext(h, b) <= PoolWords + 1
    BY <1>2, PoolAssumption DEF Chained, Sentinel
  <1>4. ASSUME NEW a \in DOMAIN h \ {b, Sentinel} PROVE BlockNext(h, a) # BlockNext(h, b)
    <2>1. BlockNext(h, a) = a + 1 + h[a].size
      BY DEF BlockNext
    <2>2. a < b \/ b < a
      BY <1>1
    <2>3. (a < b => BlockNext(h, a) <= b) /\ (b < a => BlockNext(h, b) <= a)
      BY DEF Chained
    <2> QED
      BY <1>1, <1>2, <2>1, <2>2, <2>3
  <1> QED
    BY <1>1, <1>2, <1>3, <1>4, PoolAssumption

\* When both are written as those two do it, the tags of all blocks still fit.
LEMMA RetaggedSound ==
    ASSUME NEW h, NEW g, NEW free \in BOOLEAN, Chained(h), Tagged(h), NEW b \in DOMAIN h \ {Sentinel},
           Retagged(h, g, b, free)
    PROVE  Chained(g) /\ Tagged(g)
  <1> DEFINE n == BlockNext(h, b)
  <1>1. /\ n \in DOMAIN h /\ n # 0 /\ n # b
        /\ \A a \in DOMAIN h \ {b, Sentinel} : BlockNext(h, a) # n
    BY NextBlock
  <1>2. \A x \in DOMAIN h : BlockNext(g, x) = BlockNext(h, x)
    BY DEF BlockNext, Retagged
  <1>3. DOMAIN g = DOMAIN h /\ g \in [DOMAIN h -> HeaderType] /\ \A x \in DOMAIN h : g[x].size = h[x].size
    BY DEF Retagged
  <1>4. Chained(g)
    BY <1>2, <1>3 DEF Chained
  <1>5. ~g[0].prevFree /\ ~g[Sentinel].free
    BY <1>1 DEF Retagged, Chained, Tagged
  <1>6. ASSUME NEW x \in DOMAIN h \ {Sentinel}
        PROVE  /\ g[BlockNext(g, x)].prevFree <=> g[x].free
               /\ g[BlockNext(g, x)].prevPhys = IF g[x].free THEN x ELSE NoBlock
    <2>1. BlockNext(h, x) \in DOMAIN h /\ BlockNext(g, x) = BlockNext(h, x)
      BY <1>2, NextBlock
    <2>2. CASE x = b
      BY <2>1, <2>2 DEF Retagged
    <2>3. CASE x # b
      <3>1. BlockNext(h, x) # n
        BY <1>1, <2>3
      <3>2. /\ h[BlockNext(h, x)].prevFree <=> h[x].free
            /\ h[BlockNext(h, x)].prevPhys = IF h[x].free THEN x ELSE NoBlock
        BY DEF Tagged
      <3> QED
        BY <2>1, <2>3, <3>1, <3>2 DEF Retagged
    <2> QED
      BY <2>2, <2>3
  <1> QED
    BY <1>3, <1>4, <1>5, <1>6 DEF Tagged

\* Two free neighbours become one block.
LEMMA Absorbed ==
    ASSUME NEW h, Chained(h), Tagged(h), NEW a \in DOMAIN h \ {Sentinel}, NEW b \in DOMAIN h \ {Sentinel},
           b = BlockNext(h, a), h[a].free, h[b].free
    PROVE  /\ Chained(BlockAbsorb(h, a, b)) /\ Tagged(BlockAbsorb(h, a, b))
           /\ DOMAIN BlockAbsorb(h, a, b) = DOMAIN h \ {b}
           /\ \A x \in DOMAIN h \ {b} :
                 /\ x # a => BlockAbsorb(h, a, b)[x].size = h[x].size
                 /\ BlockAbsorb(h, a, b)[x].free <=> h[x].free
                 /\ BlockAbsorb(h, a, b)[x].prevFree <=> h[x].prevFree
           /\ BlockNext(BlockAbsorb(h, a, b), a) = BlockNext(h, b)
  <1> DEFINE D == DOMAIN h \ {b}
             m == BlockNext(h, b)
             size == h[a].size + h[b].size + 1
             big == [h[a] EXCEPT !.size = size]
             j == [x \in D |-> IF x = a THEN big ELSE h[x]]
             g == BlockAbsorb(h, a, b)
  <1>1. /\ a \in Nat /\ b \in Nat /\ m \in DOMAIN h /\ b = a + 1 + h[a].size /\ m = b + 1 + h[b].size
        /\ h[a].size \in Nat /\ h[b].size \in Nat /\ h[a].size >= 3 /\ h[b].size >= 3
    BY NextBlock
  <1>2. a \in D /\ m \in D /\ a # b /\ m # a /\ m # b /\ size \in Nat
    BY <1>1
  <1>3. \A x \in DOMAIN h : h[x] \in HeaderType
    BY DEF Chained
  <1>4. /\ big \in HeaderType /\ big.size = size /\ big.free = h[a].free
        /\ big.prevFree = h[a].prevFree /\ big.prevPhys = h[a].prevPhys
    BY <1>2, <1>3 DEF HeaderType
  <1>5. BlockNext(j, a) = m
    <2>1. j[a] = big
      BY <1>2
    <2> HIDE DEF j, big
    <2> QED
      BY <1>1, <1>4, <2>1 DEF BlockNext
  <1>6. g = [j EXCEPT ![m].prevPhys = a]
    BY <1>5 DEF BlockAbsorb, BlockLinkNext
  <1>7. /\ DOMAIN j = D
        /\ \A x \in D : j[x] = IF x = a THEN big ELSE h[x]
    OBVIOUS
  <1>20. h \in [DOMAIN h -> HeaderType]
    BY DEF Chained
  <1> HIDE DEF big, j, size, m
  <1>8. /\ DOMAIN g = D
        /\ \A x \in D :
              /\ g[x] \in HeaderType
              /\ g[x].size = IF x = a THEN size ELSE h[x].size
              /\ g[x].free = h[x].free
              /\ g[x].prevFree = h[x].prevFree
              /\ g[x].prevPhys = IF x = m THEN a ELSE h[x].prevPhys
    <2>1. DOMAIN g = D /\ g = [x \in D |-> g[x]]
      BY <1>6, <1>7
    <2>2. \A x \in D : x # m => g[x] = j[x]
      BY <1>6, <1>7
    <2>3. g[m] = [h[m] EXCEPT !.prevPhys = a]
      BY <1>2, <1>6, <1>7
    <2>4. /\ g[m] \in HeaderType /\ g[m].size = h[m].size /\ g[m].free = h[m].free
          /\ g[m].prevFree = h[m].prevFree /\ g[m].prevPhys = a
      BY <1>1, <1>2, <1>3, <2>3 DEF HeaderType
    <2> HIDE DEF g, D
    <2>5. \A x \in D : x \in DOMAIN h
      BY DEF D
    <2> QED
      <3>1. \A x \in D : x = m \/ (x = a /\ x # m) \/ (x # a /\ x # m)
        OBVIOUS
      <3>2. /\ m \in DOMAIN h /\ h[m].prevPhys = h[m].prevPhys /\ m # a
        BY <1>1, <1>2
      <3>3. ASSUME NEW x \in D, x = a
            PROVE  /\ g[x] \in HeaderType /\ g[x].size = size /\ g[x].free = h[x].free
                   /\ g[x].prevFree = h[x].prevFree /\ g[x].prevPhys = h[x].prevPhys
        <4>1. g[a] = big
          BY <1>2, <1>7, <2>2, <3>2
        <4> QED
          BY <1>4, <3>3, <4>1
      <3>4. ASSUME NEW x \in D, x # a, x # m
            PROVE  g[x] = h[x] /\ g[x] \in HeaderType
        BY <1>3, <1>7, <2>2, <2>5, <3>4
      <3> QED
        BY <2>1, <2>4, <3>2, <3>3, <3>4
  <1>9. g = [x \in D |-> g[x]]
    BY <1>6, <1>7
  <1> HIDE DEF g
  <1>10. g \in [D -> HeaderType]
    BY <1>8, <1>9
  <1>11. \A x \in D : BlockNext(g, x) = IF x = a THEN m ELSE BlockNext(h, x)
    BY <1>1, <1>8 DEF BlockNext, size
  <1>12. \A x \in D \ {Sentinel} : x # a => BlockNext(h, x) # b /\ BlockNext(h, x) # m /\ BlockNext(h, x) \in D
    <2> SUFFICES ASSUME NEW x \in D \ {Sentinel}, x # a PROVE BlockNext(h, x) # b /\ BlockNext(h, x) # m /\ BlockNext(h, x) \in D
      OBVIOUS
    <2>1. BlockNext(h, x) # BlockNext(h, a)
      BY NextBlock
    <2>2. BlockNext(h, x) # BlockNext(h, b)
      BY NextBlock
    <2>3. BlockNext(h, x) \in DOMAIN h
      BY NextBlock
    <2> QED
      BY <2>1, <2>2, <2>3 DEF m
  <1>13. Chained(g)
    <2>1. D \subseteq 0..Sentinel /\ 0 \in D /\ Sentinel \in D
      BY <1>1 DEF Chained
    <2>2. g[Sentinel].size = 0
      BY <1>8, <2>1 DEF Chained
    <2>3. ASSUME NEW x \in D \ {Sentinel} PROVE g[x].size >= BlockSizeMin /\ BlockNext(g, x) \in D
      <3>1. CASE x = a
        BY <1>1, <1>2, <1>8, <1>11, <3>1 DEF size, BlockSizeMin
      <3>2. CASE x # a
        BY <1>8, <1>11, <1>12, <3>2 DEF Chained
      <3> QED
        BY <3>1, <3>2
    <2>4. ASSUME NEW x \in D, NEW y \in D, x < y PROVE BlockNext(g, x) <= y
      <3>1. BlockNext(h, x) <= y
        BY <2>4 DEF Chained
      <3>2. CASE x = a
        <4>1. b <= y /\ y # b /\ y \in Nat
          <5>1. y # b /\ y \in 0..Sentinel
            BY <2>1
          <5>2. b <= y
            BY <3>1, <3>2
          <5> QED
            BY <5>1, <5>2, PoolAssumption DEF Sentinel
        <4>2. b < y
          BY <1>1, <4>1
        <4>3. m <= y
          BY <4>2 DEF Chained, m
        <4> QED
          BY <1>11, <3>2, <4>3
      <3>3. CASE x # a
        BY <1>11, <3>1, <3>3
      <3> QED
        BY <3>2, <3>3
    <2>5. ASSUME NEW y \in D \ {0} PROVE \E x \in D \ {Sentinel} : BlockNext(g, x) = y
      <3>1. PICK x \in DOMAIN h \ {Sentinel} : BlockNext(h, x) = y
        BY DEF Chained
      <3>2. CASE x = b
        BY <1>2, <1>11, <3>1, <3>2 DEF m
      <3>3. CASE x # b
        <4>1. x # a
          BY <3>1
        <4> QED
          BY <1>11, <3>1, <3>3, <4>1
      <3> QED
        BY <3>2, <3>3
    <2> HIDE DEF D
    <2> QED
      BY <1>8, <1>10, <2>1, <2>2, <2>3, <2>4, <2>5 DEF Chained
  <1>14. Tagged(g)
    <2>1. ~g[0].prevFree /\ ~g[Sentinel].free
      <3>1. 0 \in D /\ Sentinel \in D
        BY <1>1 DEF Chained
      <3> QED
        BY <1>8, <3>1 DEF Tagged
    <2>2. ASSUME NEW x \in D \ {Sentinel}
          PROVE  /\ g[BlockNext(g, x)].prevFree <=> g[x].free
                 /\ g[BlockNext(g, x)].prevPhys = IF g[x].free THEN x ELSE NoBlock
      <3>1. CASE x = a
        <4>1. BlockNext(g, x) = m
          BY <1>11, <3>1
        <4>2. h[m].prevFree
          BY DEF Tagged, m
        <4> QED
          BY <1>2, <1>8, <3>1, <4>1, <4>2
      <3>2. CASE x # a
        <4>1. BlockNext(g, x) = BlockNext(h, x) /\ BlockNext(h, x) \in D /\ BlockNext(h, x) # m
          BY <1>11, <1>12, <3>2
        <4>2. /\ h[BlockNext(h, x)].prevFree <=> h[x].free
              /\ h[BlockNext(h, x)].prevPhys = IF h[x].free THEN x ELSE NoBlock
          BY DEF Tagged
        <4> QED
          BY <1>8, <4>1, <4>2
      <3> QED
        BY <3>1, <3>2
    <2> QED
      BY <1>8, <2>1, <2>2 DEF Tagged
  <1> QED
    BY <1>2, <1>8, <1>11, <1>13, <1>14 DEF g, m

\* What block_trim_free does to the headers.
Cut(h, b, size) ==
    LET split == BlockSplit(h, b, size)
    IN  [BlockLinkNext(split, b) EXCEPT ![BlockNext(split, b)].prevFree = TRUE]

\* block_split: b keeps size words, and the words behind them are a free block.
LEMMA SplitSound ==
    ASSUME NEW h, Chained(h), Tagged(h), NEW b \in DOMAIN h \ {Sentinel}, h[b].free,
           NEW size \in Nat, size >= BlockSizeMin, h[b].size >= HeaderWords + size
    PROVE  /\ Chained(Cut(h, b, size)) /\ Tagged(Cut(h, b, size))
           /\ BlockNext(BlockSplit(h, b, size), b) = b + 1 + size
           /\ b + 1 + size \notin DOMAIN h
           /\ DOMAIN Cut(h, b, size) = DOMAIN h \cup {b + 1 + size}
           /\ \A x \in DOMAIN h :
                 /\ x # b => Cut(h, b, size)[x].size = h[x].size
                 /\ Cut(h, b, size)[x].free <=> h[x].free
           /\ Cut(h, b, size)[b + 1 + size].free
           /\ BlockNext(Cut(h, b, size), b) = b + 1 + size
           /\ BlockNext(Cut(h, b, size), b + 1 + size) = BlockNext(h, b)
  <1> DEFINE rest == b + 1 + size
             D == DOMAIN h \cup {rest}
             m == BlockNext(h, b)
             fresh == [size |-> h[b].size - size - 1, free |-> FALSE,
                       prevFree |-> FALSE, prevPhys |-> NoBlock]
             first == [h[b] EXCEPT !.size = size]
             cut == [x \in D |-> IF x = rest THEN fresh ELSE IF x = b THEN first ELSE h[x]]
             split == BlockSplit(h, b, size)
             link == [split EXCEPT ![rest].prevPhys = b]
             g == [link EXCEPT ![rest].prevFree = TRUE]
  <1>1. /\ b \in Nat /\ m \in DOMAIN h /\ m = b + 1 + h[b].size /\ h[b].size \in Nat
        /\ rest \in Nat /\ rest > b /\ rest < m /\ size >= 3 /\ h[b].size >= 4 + size
    BY NextBlock DEF BlockSizeMin, HeaderWords
  <1>2. rest \notin DOMAIN h
    <2> SUFFICES ASSUME rest \in DOMAIN h PROVE FALSE
      OBVIOUS
    <2>1. m <= rest
      BY <1>1 DEF Chained
    <2> QED
      BY <1>1, <2>1
  <1>3. \A x \in DOMAIN h : h[x] \in HeaderType /\ x \in Nat
    BY PoolAssumption DEF Chained, Sentinel
  <1>4. /\ first \in HeaderType /\ first.size = size /\ first.free = h[b].free
        /\ first.prevFree = h[b].prevFree /\ first.prevPhys = h[b].prevPhys
    BY <1>3 DEF HeaderType
  <1>5. /\ fresh \in HeaderType /\ fresh.size = h[b].size - size - 1 /\ ~fresh.free /\ ~fresh.prevFree
    BY <1>1 DEF HeaderType, NoBlock
  <1>6. split = BlockMarkAsFree(cut, rest)
    BY DEF BlockSplit
  <1>7. /\ DOMAIN cut = D
        /\ \A x \in D : cut[x] = IF x = rest THEN fresh ELSE IF x = b THEN first ELSE h[x]
    OBVIOUS
  <1>8. m \in D /\ b \in D /\ rest \in D /\ b # rest /\ m # rest /\ m # b /\ D \subseteq Int
    BY <1>1, <1>3
  <1>9. cut = [x \in D |-> cut[x]]
    OBVIOUS
  <1> HIDE DEF fresh, first, cut, m
  <1>10. \A x \in D : cut[x] \in HeaderType
    BY <1>3, <1>4, <1>5, <1>7
  <1>11. cut \in [DOMAIN cut -> HeaderType]
    BY <1>7, <1>9, <1>10
  <1>12. BlockNext(cut, rest) = m
    <2>1. cut[rest] = fresh
      BY <1>7
    <2> QED
      BY <1>1, <1>5, <2>1 DEF BlockNext
  <1>13. Retagged(cut, split, rest, TRUE)
    <2>1. rest \in DOMAIN cut /\ DOMAIN cut \subseteq Int /\ BlockNext(cut, rest) \in DOMAIN cut
          /\ BlockNext(cut, rest) # rest
      BY <1>7, <1>8, <1>12
    <2> HIDE DEF rest
    <2> QED
      BY <1>6, <1>11, <2>1, MarkedFree
  <1> HIDE DEF split
  <1>14. /\ DOMAIN split = D
         /\ \A x \in D :
               /\ split[x] \in HeaderType
               /\ split[x].size = cut[x].size
               /\ split[x].free <=> x = rest \/ cut[x].free
               /\ split[x].prevFree <=> x = m \/ cut[x].prevFree
               /\ split[x].prevPhys = IF x = m THEN rest ELSE cut[x].prevPhys
    BY <1>7, <1>12, <1>13 DEF Retagged
  <1>15. BlockNext(split, b) = rest
    <2>1. split[b].size = size
      BY <1>4, <1>7, <1>8, <1>14
    <2> QED
      BY <2>1 DEF BlockNext
  <1>16. Cut(h, b, size) = g
    BY <1>15 DEF Cut, BlockLinkNext, split
  <1>17. /\ DOMAIN link = D
         /\ \A x \in D :
               /\ link[x] \in HeaderType
               /\ link[x].size = split[x].size
               /\ link[x].free = split[x].free
               /\ link[x].prevFree = split[x].prevFree
               /\ link[x].prevPhys = IF x = rest THEN b ELSE split[x].prevPhys
    BY <1>8, <1>14 DEF HeaderType
  <1> HIDE DEF link
  <1>18. /\ DOMAIN g = D
         /\ \A x \in D :
               /\ g[x] \in HeaderType
               /\ g[x].size = split[x].size
               /\ g[x].free = split[x].free
               /\ g[x].prevFree = IF x = rest THEN TRUE ELSE split[x].prevFree
               /\ g[x].prevPhys = IF x = rest THEN b ELSE split[x].prevPhys
    <2>1. \A x \in D : link[x] \in HeaderType
      BY <1>17
    <2>2. DOMAIN link = D /\ rest \in D
      BY <1>8, <1>17
    <2> HIDE DEF rest, D
    <2>3. /\ DOMAIN g = D
          /\ \A x \in D :
                /\ g[x] \in HeaderType
                /\ g[x].size = link[x].size
                /\ g[x].free = link[x].free
                /\ g[x].prevFree = IF x = rest THEN TRUE ELSE link[x].prevFree
                /\ g[x].prevPhys = link[x].prevPhys
      BY <2>1, <2>2 DEF HeaderType
    <2> HIDE DEF g
    <2> QED
      BY <1>17, <2>3
  <1>19. g = [x \in D |-> g[x]]
    BY <1>17
  <1> HIDE DEF g
  <1>20. g \in [D -> HeaderType]
    BY <1>18, <1>19
  <1>21. \A x \in DOMAIN h :
            /\ g[x].size = IF x = b THEN size ELSE h[x].size
            /\ g[x].free <=> h[x].free
            /\ g[x].prevFree <=> x = m \/ h[x].prevFree
            /\ g[x].prevPhys = IF x = m THEN rest ELSE h[x].prevPhys
    <2> SUFFICES ASSUME NEW x \in DOMAIN h
                 PROVE /\ g[x].size = IF x = b THEN size ELSE h[x].size
                       /\ g[x].free <=> h[x].free
                       /\ g[x].prevFree <=> x = m \/ h[x].prevFree
                       /\ g[x].prevPhys = IF x = m THEN rest ELSE h[x].prevPhys
      OBVIOUS
    <2>1. x \in D /\ x # rest /\ cut[x] = IF x = b THEN first ELSE h[x]
      BY <1>2, <1>7
    <2> HIDE DEF rest, D
    <2>2. /\ cut[x].size = IF x = b THEN size ELSE h[x].size
          /\ cut[x].free = h[x].free /\ cut[x].prevFree = h[x].prevFree /\ cut[x].prevPhys = h[x].prevPhys
      BY <1>4, <2>1
    <2>3. /\ g[x].size = cut[x].size
          /\ g[x].free <=> cut[x].free
          /\ g[x].prevFree <=> x = m \/ cut[x].prevFree
          /\ g[x].prevPhys = IF x = m THEN rest ELSE cut[x].prevPhys
      BY <1>14, <1>18, <2>1
    <2> QED
      BY <2>2, <2>3
  <1>22. /\ g[rest].size = h[b].size - size - 1 /\ g[rest].free /\ g[rest].prevFree /\ g[rest].prevPhys = b
    <2>1. rest \in D /\ cut[rest] = fresh
      BY <1>7
    <2> HIDE DEF rest, D
    <2> QED
      BY <1>5, <1>14, <1>18, <2>1
  <1>23. /\ BlockNext(g, b) = rest /\ BlockNext(g, rest) = m
         /\ \A x \in DOMAIN h \ {b} : BlockNext(g, x) = BlockNext(h, x)
    BY <1>1, <1>21, <1>22 DEF BlockNext
  <1>24. \A x \in DOMAIN h \ {b, Sentinel} : BlockNext(h, x) \in DOMAIN h /\ BlockNext(h, x) # m
    BY NextBlock DEF m
  <1>25. rest # Sentinel /\ Sentinel \in DOMAIN h /\ 0 \in DOMAIN h /\ rest # 0 /\ m <= Sentinel /\ Sentinel \in Nat /\ m # 0
    BY <1>1, <1>2, PoolAssumption DEF Chained, Sentinel
  <1> HIDE DEF rest
  <1>26. Chained(g)
    <2>1. D \subseteq 0..Sentinel
      BY <1>1, <1>25 DEF Chained
    <2>2. g[Sentinel].size = 0
      BY <1>21, <1>25 DEF Chained
    <2>3. ASSUME NEW x \in D \ {Sentinel} PROVE g[x].size >= BlockSizeMin /\ BlockNext(g, x) \in D
      <3>1. CASE x = rest
        BY <1>1, <1>8, <1>22, <1>23, <3>1 DEF BlockSizeMin
      <3>2. CASE x = b
        BY <1>1, <1>8, <1>21, <1>23, <3>2 DEF BlockSizeMin
      <3>3. CASE x # rest /\ x # b
        BY <1>21, <1>23, <1>24, <3>3 DEF Chained
      <3> QED
        BY <3>1, <3>2, <3>3
    <2>4. ASSUME NEW x \in D, NEW y \in D, x < y PROVE BlockNext(g, x) <= y
      <3>1. CASE x \in DOMAIN h /\ y \in DOMAIN h /\ x # b
        BY <1>23, <2>4, <3>1 DEF Chained
      <3>2. CASE x = b /\ y # rest
        <4>1. m <= y
          BY <1>1, <2>4, <3>2 DEF Chained, m
        <4> QED
          BY <1>1, <1>3, <1>23, <3>2, <4>1
      <3>3. CASE x = b /\ y = rest
        BY <1>1, <1>23, <3>3
      <3>4. CASE x = rest
        <4>1. y \in DOMAIN h /\ y \in Nat /\ b < y
          BY <1>1, <1>3, <2>4, <3>4
        <4>2. m <= y
          BY <1>1, <4>1 DEF Chained, m
        <4> QED
          BY <1>23, <3>4, <4>2
      <3>5. CASE x \in DOMAIN h /\ x # b /\ y = rest
        <4>1. x \in Nat /\ BlockNext(h, x) = x + 1 + h[x].size /\ h[x].size \in Nat
          BY <1>3, <3>5 DEF BlockNext, HeaderType
        <4>2. x < b
          <5> SUFFICES ASSUME b < x PROVE FALSE
            BY <1>1, <3>5, <4>1
          <5>1. m <= x
            BY <1>1, <3>5 DEF Chained, m
          <5>2. m \in Nat /\ rest \in Nat /\ rest < m /\ x < rest
            BY <1>1, <1>3, <2>4, <3>5
          <5> QED
            BY <4>1, <5>1, <5>2
        <4>3. BlockNext(h, x) <= b
          BY <1>1, <3>5, <4>2 DEF Chained
        <4> QED
          BY <1>1, <1>23, <3>5, <4>1, <4>3
      <3> QED
        BY <3>1, <3>2, <3>3, <3>4, <3>5
    <2>5. ASSUME NEW y \in D \ {0} PROVE \E x \in D \ {Sentinel} : BlockNext(g, x) = y
      <3>1. CASE y = rest
        BY <1>8, <1>23, <3>1
      <3>2. CASE y # rest
        <4>1. PICK x \in DOMAIN h \ {Sentinel} : BlockNext(h, x) = y
          BY <3>2 DEF Chained
        <4>2. CASE x = b
          BY <1>8, <1>23, <1>25, <4>1, <4>2 DEF m
        <4>3. CASE x # b
          BY <1>23, <4>1, <4>3
        <4> QED
          BY <4>2, <4>3
      <3> QED
        BY <3>1, <3>2
    <2>6. 0 \in D /\ Sentinel \in D
      BY <1>25
    <2> HIDE DEF D
    <2> QED
      BY <1>18, <1>20, <2>1, <2>2, <2>3, <2>4, <2>5, <2>6 DEF Chained
  <1>27. Tagged(g)
    <2>1. ~g[0].prevFree /\ ~g[Sentinel].free
      BY <1>21, <1>25 DEF Tagged
    <2>2. ASSUME NEW x \in D \ {Sentinel}
          PROVE  /\ g[BlockNext(g, x)].prevFree <=> g[x].free
                 /\ g[BlockNext(g, x)].prevPhys = IF g[x].free THEN x ELSE NoBlock
      <3>1. CASE x = rest
        BY <1>1, <1>21, <1>22, <1>23, <3>1
      <3>2. CASE x = b
        BY <1>1, <1>21, <1>22, <1>23, <3>2
      <3>3. CASE x # rest /\ x # b
        <4>1. x \in DOMAIN h /\ BlockNext(g, x) = BlockNext(h, x) /\ BlockNext(h, x) \in DOMAIN h /\ BlockNext(h, x) # m
          BY <1>23, <1>24, <3>3
        <4>2. /\ h[BlockNext(h, x)].prevFree <=> h[x].free
              /\ h[BlockNext(h, x)].prevPhys = IF h[x].free THEN x ELSE NoBlock
          BY <3>3 DEF Tagged
        <4> QED
          BY <1>21, <4>1, <4>2
      <3> QED
        BY <3>1, <3>2, <3>3
    <2> QED
      BY <1>18, <2>1, <2>2 DEF Tagged
  <1> QED
    BY <1>2, <1>15, <1>16, <1>18, <1>21, <1>22, <1>23, <1>26, <1>27 DEF rest, split, m

(***************************************************************************)
(* The allocator.                                                          *)
(***************************************************************************)
\* Between two calls: free neighbours are merged, and all free blocks are listed.
PoolOK(tlsf) ==
    /\ Chained(tlsf.header) /\ Tagged(tlsf.header)
    /\ Lists(tlsf, Unused(tlsf))
    /\ \A x \in Unused(tlsf) : ~tlsf.header[BlockNext(tlsf.header, x)].free

\* Within a call b is free but in no list, and may have free neighbours.
Open(tlsf, b) ==
    /\ Chained(tlsf.header) /\ Tagged(tlsf.header)
    /\ b \in Unused(tlsf)
    /\ Lists(tlsf, Unused(tlsf) \ {b})
    /\ \A x \in Unused(tlsf) \ {b} :
          BlockNext(tlsf.header, x) = b \/ ~tlsf.header[BlockNext(tlsf.header, x)].free

\* A block is used or free, and the sentinel is neither.
LEMMA UsedBlocks ==
    ASSUME NEW tlsf, Chained(tlsf.header), Tagged(tlsf.header)
    PROVE  /\ Used(tlsf) = (DOMAIN tlsf.header \ {Sentinel}) \ Unused(tlsf)
           /\ Unused(tlsf) \subseteq DOMAIN tlsf.header \ {Sentinel}
  <1> DEFINE h == tlsf.header
  <1>1. h[Sentinel].size = 0 /\ ~h[Sentinel].free /\ \A b \in DOMAIN h \ {Sentinel} : h[b].size > 0
    <2>1. h[Sentinel].size = 0 /\ ~h[Sentinel].free
      BY DEF Chained, Tagged
    <2>2. ASSUME NEW b \in DOMAIN h \ {Sentinel} PROVE h[b].size > 0
      <3> HIDE DEF h
      <3>1. Chained(h)
        BY DEF h
      <3> QED
        BY <3>1, NextBlock
    <2> QED
      BY <2>1, <2>2
  <1> QED
    BY <1>1 DEF Used, Unused

\* mapping_search finds a list number.
LEMMA SearchClass ==
    ASSUME NEW a \in Nat
    PROVE  MappingSearch(a).fl \in Nat
  <1>1. CASE a < SmallBlockSize
    BY <1>1 DEF MappingSearch, MappingInsert
  <1>2. CASE ~(a < SmallBlockSize)
    <2>1. SlLog2 \in Nat /\ SmallBlockSize = Bit[SlLog2]
      BY PoolAssumption DEF SmallBlockSize
    <2>2. SlLog2 <= Fls(a) /\ Fls(a) \in Nat /\ a # 0
      BY <1>2, <2>1, BitValue, FlsOfBit, FlsValue
    <2>3. Fls(a) - SlLog2 \in Nat
      BY <2>1, <2>2
    <2>4. Bit[Fls(a) - SlLog2] \in Nat
      BY <2>3, BitValue
    <2>5. a + Bit[Fls(a) - SlLog2] - 1 \in Nat
      BY <2>2, <2>4
    <2> QED
      BY <1>2, <2>5, ClassOf DEF MappingSearch
  <1> QED
    BY <1>1, <1>2

\* tlsf_malloc takes a block of the list it finds, and the block is large enough.
LEMMA LocatedFits ==
    ASSUME NEW tlsf, NEW F, Lists(tlsf, F), NEW size \in Nat, Located(tlsf, size) # NoBlock
    PROVE  /\ Located(tlsf, size) \in F
           /\ SearchSuitable(tlsf, MappingSearch(Adjust(size)))
                = MappingInsert(tlsf.header[Located(tlsf, size)].size)
           /\ Adjust(size) \in Nat /\ Adjust(size) >= BlockSizeMin /\ Adjust(size) >= size
           /\ tlsf.header[Located(tlsf, size)].size >= Adjust(size)
  <1> DEFINE a == Adjust(size)
             c == SearchSuitable(tlsf, MappingSearch(a))
             b == Located(tlsf, size)
  <1>1. a \in Nat /\ a # 0 /\ a >= BlockSizeMin /\ a >= size
    BY DEF Adjust, Located, BlockSizeMin
  <1>2. c # NoClass /\ b = tlsf.blocks[c][1]
    BY <1>1 DEF Located
  <1>3. MappingSearch(a).fl \in Nat
    BY <1>1, SearchClass
  <1> HIDE DEF a
  <1>4. c \in tlsf.slBitmap /\ NotBelow(c, MappingSearch(a))
    BY <1>2, <1>3, Suitable
  <1>5. c \in Classes /\ tlsf.blocks[c] # <<>> /\ tlsf.blocks[c] \in Seq(Nat)
        /\ Range(tlsf.blocks[c]) = {x \in F : MappingInsert(tlsf.header[x].size) = c}
    BY <1>4 DEF Lists
  <1>6. b \in Range(tlsf.blocks[c])
    <2> DEFINE s == tlsf.blocks[c]
    <2>1. s # <<>> /\ s \in Seq(Nat) /\ b = s[1]
      BY <1>2, <1>5
    <2> HIDE DEF s
    <2>2. 1 \in DOMAIN s
      BY <2>1
    <2> QED
      BY <2>1, <2>2 DEF Range, s
  <1>7. b \in F /\ c = MappingInsert(tlsf.header[b].size)
    BY <1>5, <1>6
  <1> HIDE DEF b, c
  <1>8. tlsf.header[b].size \in Nat
    <2>1. tlsf.header[b].size \in 0..PoolWords
      BY <1>7 DEF Lists
    <2> QED
      BY <2>1, PoolAssumption
  <1>9. a <= tlsf.header[b].size
    BY <1>1, <1>4, <1>7, <1>8, ClassFits
  <1>10. a \in Nat /\ a >= BlockSizeMin /\ a >= size /\ tlsf.header[b].size >= a
    BY <1>1, <1>8, <1>9
  <1> QED
    BY <1>7, <1>10, Zenon DEF a, b, c

\* Taking a block from its list.
LEMMA Opened ==
    ASSUME NEW tlsf, PoolOK(tlsf), NEW b \in Unused(tlsf), NEW c, c = MappingInsert(tlsf.header[b].size)
    PROVE  /\ Open(RemoveFreeBlock(tlsf, b, c), b)
           /\ RemoveFreeBlock(tlsf, b, c).header = tlsf.header
           /\ Used(RemoveFreeBlock(tlsf, b, c)) = Used(tlsf)
  <1> DEFINE p == RemoveFreeBlock(tlsf, b, c)
  <1>1. Lists(p, Unused(tlsf) \ {b}) /\ p.header = tlsf.header
    BY ListsRemove DEF PoolOK
  <1> HIDE DEF p
  <1>2. Unused(p) = Unused(tlsf) /\ Used(p) = Used(tlsf)
    BY <1>1 DEF Unused, Used
  <1>3. Open(p, b)
    BY <1>1, <1>2 DEF Open, PoolOK
  <1> QED
    BY <1>1, <1>2, <1>3 DEF p

\* Putting the block that is left into its list.
LEMMA Closed ==
    ASSUME NEW tlsf, NEW b, Open(tlsf, b), ~tlsf.header[b].prevFree,
           ~tlsf.header[BlockNext(tlsf.header, b)].free
    PROVE  PoolOK(BlockInsert(tlsf, b)) /\ Used(BlockInsert(tlsf, b)) = Used(tlsf)
  <1> DEFINE p == BlockInsert(tlsf, b)
             h == tlsf.header
  <1>1. b \in DOMAIN h \ {Sentinel} /\ b \in Unused(tlsf)
    BY UsedBlocks DEF Open
  <1>2. b \in Nat /\ h[b].size \in 0..PoolWords
    <2>1. Chained(h)
      BY DEF Open
    <2> HIDE DEF h
    <2>2. b \in Nat /\ h[b].size \in Nat /\ h[b].size <= PoolWords
      BY <1>1, <2>1, NextBlock
    <2> QED
      BY <2>2, PoolAssumption
  <1>3. Lists(p, (Unused(tlsf) \ {b}) \cup {b}) /\ p.header = h
    BY <1>2, ListsInsert DEF Open
  <1>4. (Unused(tlsf) \ {b}) \cup {b} = Unused(tlsf)
    BY <1>1
  <1> HIDE DEF p
  <1>5. Unused(p) = Unused(tlsf) /\ Used(p) = Used(tlsf)
    BY <1>3 DEF Unused, Used
  <1>6. ASSUME NEW x \in Unused(tlsf) PROVE ~h[BlockNext(h, x)].free
    <2>1. x \in DOMAIN h \ {Sentinel} /\ h[x].free
      BY UsedBlocks DEF Open, Unused
    <2>2. BlockNext(h, x) # b
      BY <2>1 DEF Open, Tagged
    <2> QED
      BY <2>2 DEF Open
  <1>7. PoolOK(p)
    BY <1>3, <1>4, <1>5, <1>6 DEF PoolOK, Open
  <1> QED
    BY <1>5, <1>7 DEF p

\* block_trim_free keeps the block that is taken and lists the rest of it.
LEMMA Trim ==
    ASSUME NEW tlsf, NEW b, Open(tlsf, b), ~tlsf.header[BlockNext(tlsf.header, b)].free,
           NEW size \in Nat, size >= BlockSizeMin, tlsf.header[b].size >= size
    PROVE  Open(BlockTrimFree(tlsf, b, size), b) /\ Used(BlockTrimFree(tlsf, b, size)) = Used(tlsf)
  <1>1. CASE ~(tlsf.header[b].size >= HeaderWords + size)
    BY <1>1 DEF BlockTrimFree
  <1>2. CASE tlsf.header[b].size >= HeaderWords + size
    <2> DEFINE h == tlsf.header
               g == Cut(h, b, size)
               rest == b + 1 + size
               q == WithHeader(tlsf, g)
               p == BlockInsert(q, rest)
               F == Unused(tlsf) \ {b}
    <2>1. Chained(h) /\ Tagged(h) /\ b \in DOMAIN h \ {Sentinel} /\ h[b].free /\ b \in Unused(tlsf)
      BY UsedBlocks DEF Open, Unused
    <2>2. BlockTrimFree(tlsf, b, size) = BlockInsert(WithHeader(tlsf, g), BlockNext(BlockSplit(h, b, size), b))
      BY <1>2 DEF BlockTrimFree, Cut
    <2>3. h[b].size >= HeaderWords + size
      BY <1>2
    <2>4. Lists(tlsf, F)
      BY DEF Open
    <2>5. \A x \in F : x \in DOMAIN h /\ x # b /\ h[x].free /\ (BlockNext(h, x) = b \/ ~h[BlockNext(h, x)].free)
      BY DEF Open, Unused
    <2>6. ~h[BlockNext(h, b)].free
      OBVIOUS
    <2>7. Unused(tlsf) = {x \in DOMAIN h : h[x].free} /\ Used(tlsf) = (DOMAIN h \ {Sentinel}) \ Unused(tlsf)
      <3>1. Used(tlsf) = (DOMAIN h \ {Sentinel}) \ Unused(tlsf)
        BY <2>1, UsedBlocks
      <3> QED
        BY <3>1 DEF Unused
    <2> HIDE DEF h
    <2>8. /\ Chained(g) /\ Tagged(g)
          /\ BlockNext(BlockSplit(h, b, size), b) = rest
          /\ rest \notin DOMAIN h
          /\ DOMAIN g = DOMAIN h \cup {rest}
          /\ \A x \in DOMAIN h : (x # b => g[x].size = h[x].size) /\ (g[x].free <=> h[x].free)
          /\ g[rest].free
          /\ BlockNext(g, b) = rest
          /\ BlockNext(g, rest) = BlockNext(h, b)
      BY <2>1, <2>3, SplitSound
    <2>9. BlockTrimFree(tlsf, b, size) = p
      BY <2>2, <2>8
    <2> HIDE DEF g, rest
    <2>10. Lists(q, F)
      <3>1. \A x \in F : g[x].size = tlsf.header[x].size
        BY <2>5, <2>8 DEF h
      <3> QED
        BY <2>4, <3>1, ListsWithHeader
    <2>11. q.header = g
      BY DEF WithHeader
    <2> HIDE DEF q
    <2>12. rest \in Nat /\ g[rest].size \in 0..PoolWords /\ rest \notin F
      <3>1. rest \in DOMAIN g \ {Sentinel}
        BY <2>8 DEF Tagged
      <3>2. rest \in Nat /\ g[rest].size \in Nat /\ g[rest].size <= PoolWords
        BY <2>8, <3>1, NextBlock
      <3> QED
        BY <2>5, <2>8, <3>2, PoolAssumption
    <2>13. Lists(p, F \cup {rest}) /\ p.header = g
      <3>1. q.header[rest].size \in 0..PoolWords
        BY <2>11, <2>12
      <3>2. Lists(p, F \cup {rest}) /\ p.header = q.header
        BY <2>10, <2>12, <3>1, ListsInsert
      <3> QED
        BY <2>11, <3>2
    <2> HIDE DEF p, F
    <2>14. Unused(p) = Unused(tlsf) \cup {rest} /\ b # rest
      <3>1. Unused(p) = {x \in DOMAIN g : g[x].free}
        BY <2>13 DEF Unused
      <3> QED
        BY <2>1, <2>7, <2>8, <3>1
    <2>15. Used(p) = Used(tlsf)
      <3>1. Used(p) = (DOMAIN g \ {Sentinel}) \ Unused(p)
        BY <2>8, <2>13, UsedBlocks
      <3>2. Used(tlsf) = (DOMAIN h \ {Sentinel}) \ Unused(tlsf)
        BY <2>7
      <3> QED
        BY <2>7, <2>8, <2>14, <3>1, <3>2
    <2>16. Unused(p) \ {b} = F \cup {rest}
      BY <2>8, <2>14 DEF F
    <2>17. ASSUME NEW x \in F \cup {rest} PROVE BlockNext(g, x) = b \/ ~g[BlockNext(g, x)].free
      <3>1. CASE x = rest
        <4>1. BlockNext(h, b) \in DOMAIN h
          BY <2>1, NextBlock
        <4> QED
          BY <2>6, <2>8, <3>1, <4>1
      <3>2. CASE x # rest
        <4>1. x \in F /\ x \in DOMAIN h \ {Sentinel} /\ x # b
          BY <2>1, <2>5, <3>2 DEF Tagged
        <4>2. BlockNext(g, x) = BlockNext(h, x)
          BY <2>8, <4>1 DEF BlockNext
        <4>3. BlockNext(h, x) \in DOMAIN h
          BY <2>1, <4>1, NextBlock
        <4> QED
          BY <2>5, <2>8, <4>1, <4>2, <4>3
      <3> QED
        BY <3>1, <3>2
    <2>18. Open(p, b)
      <3>1. b \in Unused(p)
        BY <2>1, <2>14
      <3> QED
        BY <2>8, <2>13, <2>16, <2>17, <3>1 DEF Open
    <2> QED
      BY <2>9, <2>15, <2>18
  <1> QED
    BY <1>1, <1>2

\* tlsf_malloc: one block more is used, and it was free before.
LEMMA MallocSound ==
    ASSUME NEW tlsf, PoolOK(tlsf), NEW size \in Nat, Located(tlsf, size) # NoBlock
    PROVE  /\ PoolOK(Malloc(tlsf, size))
           /\ Located(tlsf, size) \in Unused(tlsf)
           /\ Used(Malloc(tlsf, size)) = Used(tlsf) \cup {Located(tlsf, size)}
  <1> DEFINE b == Located(tlsf, size)
             c == SearchSuitable(tlsf, MappingSearch(Adjust(size)))
             q == RemoveFreeBlock(tlsf, b, c)
             t == BlockTrimFree(q, b, Adjust(size))
             g == BlockMarkAsUsed(t.header, b)
             p == WithHeader(t, g)
  <1>1. Malloc(tlsf, size) = p
    BY DEF Malloc
  <1>2. /\ b \in Unused(tlsf) /\ c = MappingInsert(tlsf.header[b].size)
        /\ Adjust(size) \in Nat /\ Adjust(size) >= BlockSizeMin /\ tlsf.header[b].size >= Adjust(size)
    BY LocatedFits DEF PoolOK
  <1>3. ~tlsf.header[BlockNext(tlsf.header, b)].free
    BY <1>2 DEF PoolOK
  <1> HIDE DEF b, c
  <1>4. Open(q, b) /\ q.header = tlsf.header /\ Used(q) = Used(tlsf)
    BY <1>2, Opened
  <1> HIDE DEF q
  <1>5. Open(t, b) /\ Used(t) = Used(q)
    BY <1>2, <1>3, <1>4, Trim
  <1> HIDE DEF t
  <1> DEFINE k == t.header
  <1>6. Chained(k) /\ Tagged(k) /\ b \in DOMAIN k \ {Sentinel} /\ b \in Unused(t)
    BY <1>5, UsedBlocks DEF Open
  <1>7. Retagged(k, g, b, FALSE)
    <2> HIDE DEF k
    <2>1. BlockNext(k, b) \in DOMAIN k /\ BlockNext(k, b) # b
      <3>1. BlockNext(k, b) \in DOMAIN k /\ BlockNext(k, b) = b + 1 + k[b].size
            /\ b \in Nat /\ k[b].size \in Nat
        BY <1>6, NextBlock
      <3> QED
        BY <3>1
    <2>2. DOMAIN k \subseteq Int /\ k \in [DOMAIN k -> HeaderType]
      BY <1>6, PoolAssumption DEF Chained, Sentinel
    <2>3. Retagged(k, BlockMarkAsUsed(k, b), b, FALSE)
      BY <1>6, <2>1, <2>2, MarkedUsed
    <2> QED
      BY <2>3 DEF k
  <1>8. Used(t) = (DOMAIN k \ {Sentinel}) \ Unused(t) /\ Unused(t) = {x \in DOMAIN k : k[x].free}
    <2>1. Used(t) = (DOMAIN k \ {Sentinel}) \ Unused(t)
      BY <1>6, UsedBlocks
    <2> QED
      BY <2>1 DEF Unused
  <1>9. Lists(t, Unused(t) \ {b}) /\ \A x \in Unused(t) \ {b} : BlockNext(k, x) = b \/ ~k[BlockNext(k, x)].free
    BY <1>5 DEF Open
  <1> HIDE DEF g
  <1>10. Lists(p, Unused(t) \ {b})
    <2>1. \A x \in Unused(t) \ {b} : g[x].size = t.header[x].size
      BY <1>7, <1>8 DEF Retagged
    <2> QED
      BY <1>9, <2>1, ListsWithHeader
  <1>11. p.header = g
    BY DEF WithHeader
  <1> HIDE DEF p, k
  <1>12. Chained(g) /\ Tagged(g)
    BY <1>6, <1>7, RetaggedSound
  <1>13. DOMAIN g = DOMAIN k /\ \A x \in DOMAIN k : g[x].size = k[x].size /\ (g[x].free <=> x # b /\ k[x].free)
    BY <1>7 DEF Retagged
  <1>14. Unused(p) = Unused(t) \ {b}
    <2>1. Unused(p) = {x \in DOMAIN g : g[x].free}
      BY <1>11 DEF Unused
    <2> QED
      BY <1>8, <1>13, <2>1
  <1>15. Used(p) = Used(t) \cup {b}
    <2>1. Used(p) = (DOMAIN g \ {Sentinel}) \ Unused(p)
      BY <1>11, <1>12, UsedBlocks
    <2> QED
      BY <1>6, <1>8, <1>13, <1>14, <2>1
  <1>16. ASSUME NEW x \in Unused(p) PROVE ~g[BlockNext(g, x)].free
    <2>1. x \in DOMAIN k \ {Sentinel} /\ x \in Unused(t) \ {b}
      BY <1>6, <1>8, <1>14 DEF Tagged
    <2>2. BlockNext(g, x) = BlockNext(k, x) /\ BlockNext(k, x) \in DOMAIN k
      BY <1>6, <1>13, <2>1, NextBlock DEF BlockNext
    <2> QED
      BY <1>9, <1>13, <2>1, <2>2
  <1>17. PoolOK(p)
    BY <1>10, <1>11, <1>12, <1>14, <1>16 DEF PoolOK
  <1> QED
    BY <1>1, <1>2, <1>4, <1>5, <1>15, <1>17 DEF b

\* The block that is given back is marked before it is merged and listed.
LEMMA Freed ==
    ASSUME NEW tlsf, PoolOK(tlsf), NEW b \in Used(tlsf)
    PROVE  /\ Open(WithHeader(tlsf, BlockMarkAsFree(tlsf.header, b)), b)
           /\ Used(WithHeader(tlsf, BlockMarkAsFree(tlsf.header, b))) = Used(tlsf) \ {b}
  <1> DEFINE k == tlsf.header
             g == BlockMarkAsFree(k, b)
             p == WithHeader(tlsf, g)
  <1>1. Chained(k) /\ Tagged(k) /\ Lists(tlsf, Unused(tlsf))
        /\ \A x \in Unused(tlsf) : ~k[BlockNext(k, x)].free
    BY DEF PoolOK
  <1>2. Used(tlsf) = (DOMAIN k \ {Sentinel}) \ Unused(tlsf) /\ Unused(tlsf) = {x \in DOMAIN k : k[x].free}
    <2>1. Used(tlsf) = (DOMAIN k \ {Sentinel}) \ Unused(tlsf)
      BY <1>1, UsedBlocks
    <2> QED
      BY <2>1 DEF Unused
  <1>3. b \in DOMAIN k \ {Sentinel} /\ b \notin Unused(tlsf)
    BY <1>2
  <1>4. p.header = g
    BY DEF WithHeader
  <1>5. Retagged(k, g, b, TRUE)
    <2> HIDE DEF k
    <2>1. BlockNext(k, b) \in DOMAIN k /\ BlockNext(k, b) # b
      <3>1. BlockNext(k, b) \in DOMAIN k /\ BlockNext(k, b) = b + 1 + k[b].size
            /\ b \in Nat /\ k[b].size \in Nat
        BY <1>1, <1>3, NextBlock
      <3> QED
        BY <3>1
    <2>2. DOMAIN k \subseteq Int /\ k \in [DOMAIN k -> HeaderType]
      BY <1>1, PoolAssumption DEF Chained, Sentinel
    <2> QED
      BY <1>3, <2>1, <2>2, MarkedFree
  <1>6. Lists(p, Unused(tlsf))
    <2>1. \A x \in Unused(tlsf) : g[x].size = tlsf.header[x].size
      BY <1>2, <1>5 DEF Retagged
    <2> HIDE DEF g
    <2> QED
      BY <1>1, <2>1, ListsWithHeader
  <1> HIDE DEF g, p, k
  <1>7. Chained(g) /\ Tagged(g)
    BY <1>1, <1>3, <1>5, RetaggedSound
  <1>8. DOMAIN g = DOMAIN k /\ \A x \in DOMAIN k : g[x].size = k[x].size /\ (g[x].free <=> x = b \/ k[x].free)
    BY <1>5 DEF Retagged
  <1>9. Unused(p) = Unused(tlsf) \cup {b}
    <2>1. Unused(p) = {x \in DOMAIN g : g[x].free}
      BY <1>4 DEF Unused
    <2> QED
      BY <1>2, <1>3, <1>8, <2>1
  <1>10. Used(p) = Used(tlsf) \ {b}
    <2>1. Used(p) = (DOMAIN g \ {Sentinel}) \ Unused(p)
      BY <1>4, <1>7, UsedBlocks
    <2> QED
      BY <1>2, <1>8, <1>9, <2>1
  <1>11. ASSUME NEW x \in Unused(tlsf) PROVE BlockNext(g, x) = b \/ ~g[BlockNext(g, x)].free
    <2>1. x \in DOMAIN k \ {Sentinel}
      BY <1>1, <1>2 DEF Tagged
    <2>2. BlockNext(g, x) = BlockNext(k, x) /\ BlockNext(k, x) \in DOMAIN k
      BY <1>1, <1>8, <2>1, NextBlock DEF BlockNext
    <2> QED
      BY <1>1, <1>8, <2>1, <2>2
  <1>12. Unused(p) \ {b} = Unused(tlsf)
    BY <1>3, <1>9
  <1>13. Open(p, b)
    BY <1>4, <1>6, <1>7, <1>9, <1>11, <1>12 DEF Open
  <1> QED
    BY <1>10, <1>13 DEF p, g, k

\* The block a and the block b behind it are free, and only one of them is listed.
Neighbours(tlsf, a, b, listed) ==
    /\ Chained(tlsf.header) /\ Tagged(tlsf.header)
    /\ a \in Unused(tlsf) /\ b \in Unused(tlsf) /\ b = BlockNext(tlsf.header, a)
    /\ listed \in {a, b} /\ Lists(tlsf, Unused(tlsf) \ ({a, b} \ {listed}))
    /\ \A x \in Unused(tlsf) \ {a, b} :
          BlockNext(tlsf.header, x) = a \/ ~tlsf.header[BlockNext(tlsf.header, x)].free

\* What the two merges have in common.
LEMMA Merged ==
    ASSUME NEW tlsf, NEW a, NEW b, NEW listed, Neighbours(tlsf, a, b, listed)
    PROVE  LET p == WithHeader(BlockRemove(tlsf, listed), BlockAbsorb(tlsf.header, a, b))
           IN  /\ Open(p, a) /\ Used(p) = Used(tlsf)
               /\ p.header[a].prevFree <=> tlsf.header[a].prevFree
               /\ p.header[BlockNext(p.header, a)].free
                    <=> tlsf.header[BlockNext(tlsf.header, b)].free
  <1> DEFINE h == tlsf.header
             U == Unused(tlsf)
             q == BlockRemove(tlsf, listed)
             g == BlockAbsorb(h, a, b)
             p == WithHeader(q, g)
             m == BlockNext(h, b)
  <1>1. Chained(h) /\ Tagged(h) /\ a \in DOMAIN h \ {Sentinel} /\ b \in DOMAIN h \ {Sentinel} /\ b = BlockNext(h, a)
        /\ h[a].free /\ h[b].free
    BY UsedBlocks DEF Unused, Neighbours
  <1>2. Lists(q, U \ {a, b})
    <2> DEFINE F == U \ ({a, b} \ {listed})
    <2>1. listed \in F /\ F \ {listed} = U \ {a, b} /\ Lists(tlsf, F)
      BY DEF Neighbours
    <2> HIDE DEF F
    <2>2. Lists(q, F \ {listed})
      BY <2>1, ListsRemove DEF BlockRemove
    <2> QED
      BY <2>1, <2>2
  <1>3. q.header = h
    BY DEF BlockRemove, RemoveFreeBlock
  <1>4. p.header = g
    BY DEF WithHeader
  <1>5. Used(tlsf) = (DOMAIN h \ {Sentinel}) \ U /\ U = {x \in DOMAIN h : h[x].free}
    <2>1. Used(tlsf) = (DOMAIN h \ {Sentinel}) \ U
      BY <1>1, UsedBlocks
    <2> QED
      BY <2>1 DEF Unused
  <1>6. \A x \in U \ {a, b} : BlockNext(h, x) = a \/ ~h[BlockNext(h, x)].free
    BY DEF Neighbours
  <1> HIDE DEF h, U
  <1>7. /\ Chained(g) /\ Tagged(g)
        /\ DOMAIN g = DOMAIN h \ {b}
        /\ \A x \in DOMAIN h \ {b} :
              /\ x # a => g[x].size = h[x].size
              /\ g[x].free <=> h[x].free
              /\ g[x].prevFree <=> h[x].prevFree
        /\ BlockNext(g, a) = m
    BY <1>1, Absorbed
  <1> HIDE DEF g
  <1>8. /\ a \in Nat /\ b \in Nat /\ a < b /\ m \in DOMAIN h /\ m \in Nat /\ b < m
        /\ \A x \in DOMAIN h \ {a, Sentinel} : BlockNext(h, x) # b
    <2>1. /\ a \in Nat /\ h[a].size \in Nat /\ BlockNext(h, a) = a + 1 + h[a].size
          /\ \A x \in DOMAIN h \ {a, Sentinel} : BlockNext(h, x) # b
      BY <1>1, NextBlock
    <2>2. b \in Nat /\ h[b].size \in Nat /\ m = b + 1 + h[b].size /\ m \in DOMAIN h
      BY <1>1, NextBlock
    <2> QED
      BY <1>1, <2>1, <2>2
  <1>9. Lists(p, U \ {a, b})
    <2>1. \A x \in U \ {a, b} : g[x].size = q.header[x].size
      BY <1>3, <1>5, <1>7
    <2> HIDE DEF q
    <2> QED
      BY <1>2, <2>1, ListsWithHeader
  <1> HIDE DEF p, q
  <1>10. Unused(p) = U \ {b}
    <2>1. Unused(p) = {x \in DOMAIN g : g[x].free}
      BY <1>4 DEF Unused
    <2> QED
      BY <1>5, <1>7, <2>1
  <1>11. Used(p) = Used(tlsf)
    <2>1. Used(p) = (DOMAIN g \ {Sentinel}) \ Unused(p)
      BY <1>4, <1>7, UsedBlocks
    <2> QED
      BY <1>1, <1>5, <1>7, <1>10, <2>1
  <1>12. ASSUME NEW x \in U \ {a, b} PROVE BlockNext(g, x) = a \/ ~g[BlockNext(g, x)].free
    <2>1. x \in DOMAIN h \ {a, b, Sentinel}
      BY <1>1, <1>5 DEF Tagged
    <2>2. BlockNext(g, x) = BlockNext(h, x) /\ BlockNext(h, x) \in DOMAIN h /\ BlockNext(h, x) # b
      BY <1>1, <1>7, <1>8, <2>1, NextBlock DEF BlockNext
    <2> QED
      BY <1>6, <1>7, <2>2
  <1>13. Unused(p) \ {a} = U \ {a, b} /\ a \in Unused(p)
    BY <1>1, <1>5, <1>8, <1>10
  <1>14. Open(p, a)
    BY <1>4, <1>7, <1>9, <1>12, <1>13 DEF Open
  <1>15. g[a].prevFree <=> h[a].prevFree
    BY <1>1, <1>7, <1>8
  <1>16. g[BlockNext(g, a)].free <=> h[m].free
    BY <1>7, <1>8
  <1> QED
    BY <1>4, <1>11, <1>14, <1>15, <1>16 DEF p, q, g, h, m

\* block_merge_prev: the block that is left has no free block before it.
LEMMA MergePrevSound ==
    ASSUME NEW tlsf, NEW b, Open(tlsf, b)
    PROVE  LET r == BlockMergePrev(tlsf, b)
           IN  /\ Open(r.pool, r.block) /\ Used(r.pool) = Used(tlsf)
               /\ ~r.pool.header[r.block].prevFree
  <1> DEFINE h == tlsf.header
  <1>1. CASE ~h[b].prevFree
    BY <1>1 DEF BlockMergePrev
  <1>2. CASE h[b].prevFree
    <2> DEFINE a == h[b].prevPhys
               p == WithHeader(BlockRemove(tlsf, a), BlockAbsorb(h, a, b))
    <2>1. BlockMergePrev(tlsf, b) = [pool |-> p, block |-> a]
      BY <1>2 DEF BlockMergePrev
    <2>2. Chained(h) /\ Tagged(h) /\ b \in DOMAIN h \ {0, Sentinel} /\ b \in Unused(tlsf)
      BY <1>2, UsedBlocks DEF Open, Tagged
    <2>3. \A x \in Unused(tlsf) \ {b} : BlockNext(h, x) = b \/ ~h[BlockNext(h, x)].free
      BY DEF Open
    <2>4. Lists(tlsf, Unused(tlsf) \ {b}) /\ Unused(tlsf) = {x \in DOMAIN h : h[x].free}
      BY DEF Open, Unused
    <2>20. h[b].prevFree
      BY <1>2
    <2> HIDE DEF h
    <2>5. a \in DOMAIN h \ {Sentinel} /\ BlockNext(h, a) = b /\ h[a].free
      <3>1. PICK x \in DOMAIN h \ {Sentinel} : BlockNext(h, x) = b
        BY <2>2 DEF Chained
      <3>2. (h[b].prevFree <=> h[x].free) /\ h[b].prevPhys = IF h[x].free THEN x ELSE NoBlock
        BY <2>2, <3>1 DEF Tagged
      <3> QED
        BY <2>20, <3>1, <3>2
    <2> HIDE DEF a
    <2>6. /\ a \in Nat /\ b \in Nat /\ a < b
          /\ \A x \in DOMAIN h \ {a, Sentinel} : BlockNext(h, x) # b
      <3>1. /\ a \in Nat /\ h[a].size \in Nat /\ BlockNext(h, a) = a + 1 + h[a].size
            /\ \A x \in DOMAIN h \ {a, Sentinel} : BlockNext(h, x) # BlockNext(h, a)
        BY <2>2, <2>5, NextBlock
      <3> QED
        BY <2>5, <3>1
    <2>7. ~h[a].prevFree
      <3> SUFFICES ASSUME h[a].prevFree PROVE FALSE
        OBVIOUS
      <3>1. a # 0
        BY <2>2 DEF Tagged
      <3>2. PICK x \in DOMAIN h \ {Sentinel} : BlockNext(h, x) = a
        BY <2>2, <2>5, <3>1 DEF Chained
      <3>3. h[x].free
        BY <2>2, <3>2 DEF Tagged
      <3>4. x # b
        <4>1. BlockNext(h, b) = b + 1 + h[b].size /\ h[b].size \in Nat
          BY <2>2, NextBlock
        <4> QED
          BY <2>6, <3>2, <4>1
      <3>5. x \in Unused(tlsf) \ {b}
        BY <2>4, <3>2, <3>3, <3>4
      <3> QED
        BY <2>3, <2>5, <2>6, <3>2, <3>5
    <2>8. Unused(tlsf) \ ({a, b} \ {a}) = Unused(tlsf) \ {b} /\ a \in Unused(tlsf)
      BY <2>4, <2>5, <2>6
    <2>9. Open(p, a) /\ Used(p) = Used(tlsf) /\ (p.header[a].prevFree <=> h[a].prevFree)
      <3>1. \A x \in Unused(tlsf) \ {a, b} : BlockNext(h, x) = a \/ ~h[BlockNext(h, x)].free
        <4>1. \A x \in Unused(tlsf) \ {a, b} : x # Sentinel
          BY <2>2, <2>4 DEF Tagged
        <4> QED
          BY <2>3, <2>4, <2>6, <4>1
      <3>2. Lists(tlsf, Unused(tlsf) \ ({a, b} \ {a})) /\ a \in {a, b}
        BY <2>4, <2>8
      <3> QED
        <4>1. Neighbours(tlsf, a, b, a)
          BY <2>2, <2>5, <2>8, <3>1, <3>2 DEF h, Neighbours
        <4> QED
          BY <4>1, Merged DEF h
    <2> HIDE DEF p
    <2> QED
      BY <2>1, <2>7, <2>9
  <1> QED
    BY <1>1, <1>2

\* block_merge_next: nor has it one behind it.
LEMMA MergeNextSound ==
    ASSUME NEW tlsf, NEW b, Open(tlsf, b), ~tlsf.header[b].prevFree
    PROVE  LET r == BlockMergeNext(tlsf, b)
           IN  /\ Open(r.pool, r.block) /\ Used(r.pool) = Used(tlsf)
               /\ ~r.pool.header[r.block].prevFree
               /\ ~r.pool.header[BlockNext(r.pool.header, r.block)].free
  <1> DEFINE h == tlsf.header
             n == BlockNext(h, b)
             p == WithHeader(BlockRemove(tlsf, n), BlockAbsorb(h, b, n))
  <1>1. CASE ~h[n].free
    BY <1>1 DEF BlockMergeNext
  <1>2. CASE h[n].free
    <2>1. BlockMergeNext(tlsf, b) = [pool |-> p, block |-> b]
      BY <1>2 DEF BlockMergeNext
    <2>2. Chained(h) /\ Tagged(h) /\ b \in DOMAIN h \ {Sentinel} /\ b \in Unused(tlsf) /\ ~h[b].prevFree
      BY UsedBlocks DEF Open
    <2>3. \A x \in Unused(tlsf) \ {b} : BlockNext(h, x) = b \/ ~h[BlockNext(h, x)].free
      BY DEF Open
    <2>4. Lists(tlsf, Unused(tlsf) \ {b}) /\ Unused(tlsf) = {x \in DOMAIN h : h[x].free}
      BY DEF Open, Unused
    <2>20. h[n].free
      BY <1>2
    <2> HIDE DEF h
    <2>5. n \in DOMAIN h \ {Sentinel} /\ b \in Nat /\ b < n
      <3>1. n \in DOMAIN h /\ n = b + 1 + h[b].size /\ b \in Nat /\ h[b].size \in Nat
        BY <2>2, NextBlock
      <3>2. n # Sentinel
        BY <2>2, <2>20 DEF Tagged
      <3> QED
        BY <3>1, <3>2
    <2>6. BlockNext(h, n) > n
      <3>1. n \in Nat /\ BlockNext(h, n) = n + 1 + h[n].size /\ h[n].size \in Nat
        BY <2>2, <2>5, NextBlock
      <3> QED
        BY <3>1
    <2>7. n \in Unused(tlsf) /\ n # b
      BY <2>4, <2>5, <2>20
    <2>8. ~h[BlockNext(h, n)].free
      <3>1. BlockNext(h, n) \in DOMAIN h /\ n \in Nat
        BY <2>2, <2>5, NextBlock
      <3>2. BlockNext(h, n) # b
        <4>1. DOMAIN h \subseteq Nat
          BY <2>2, PoolAssumption DEF Chained, Sentinel
        <4> HIDE DEF n
        <4> QED
          BY <2>5, <2>6, <3>1, <4>1
      <3> QED
        BY <2>3, <2>7, <3>2
    <2>9. Lists(tlsf, Unused(tlsf) \ ({b, n} \ {n})) /\ n \in {b, n}
      <3>1. {b, n} \ {n} = {b}
        BY <2>7
      <3> QED
        BY <2>4, <3>1
    <2>10. /\ Open(p, b) /\ Used(p) = Used(tlsf) /\ (p.header[b].prevFree <=> h[b].prevFree)
           /\ (p.header[BlockNext(p.header, b)].free <=> h[BlockNext(h, n)].free)
      <3>1. \A x \in Unused(tlsf) \ {b, n} : BlockNext(h, x) = b \/ ~h[BlockNext(h, x)].free
        BY <2>3
      <3> QED
        <4>1. Neighbours(tlsf, b, n, n)
          BY <2>2, <2>7, <2>9, <3>1 DEF h, Neighbours
        <4> QED
          BY <4>1, Merged DEF h
    <2> HIDE DEF p, n
    <2> QED
      BY <2>1, <2>2, <2>8, <2>10
  <1> QED
    BY <1>1, <1>2

\* tlsf_free: one block less is used.
LEMMA FreeSound ==
    ASSUME NEW tlsf, PoolOK(tlsf), NEW b \in Used(tlsf)
    PROVE  PoolOK(FreeBlock(tlsf, b)) /\ Used(FreeBlock(tlsf, b)) = Used(tlsf) \ {b}
  <1> DEFINE freed == WithHeader(tlsf, BlockMarkAsFree(tlsf.header, b))
             back == BlockMergePrev(freed, b)
             both == BlockMergeNext(back.pool, back.block)
  <1>1. FreeBlock(tlsf, b) = BlockInsert(both.pool, both.block)
    BY DEF FreeBlock
  <1>2. Open(freed, b) /\ Used(freed) = Used(tlsf) \ {b}
    BY Freed
  <1> HIDE DEF freed
  <1>3. Open(back.pool, back.block) /\ Used(back.pool) = Used(freed) /\ ~back.pool.header[back.block].prevFree
    BY <1>2, MergePrevSound
  <1> HIDE DEF back
  <1>4. /\ Open(both.pool, both.block) /\ Used(both.pool) = Used(back.pool)
        /\ ~both.pool.header[both.block].prevFree
        /\ ~both.pool.header[BlockNext(both.pool.header, both.block)].free
    BY <1>3, MergeNextSound
  <1> HIDE DEF both
  <1>5. PoolOK(BlockInsert(both.pool, both.block)) /\ Used(BlockInsert(both.pool, both.block)) = Used(both.pool)
    BY <1>4, Closed
  <1> QED
    BY <1>1, <1>2, <1>3, <1>4, <1>5

\* The invariant of the lemmas above implies what tlsf_check and tlsf_check_pool look at.
LEMMA Checked ==
    ASSUME NEW tlsf, PoolOK(tlsf)
    PROVE  Partition(tlsf) /\ ListsAccurate(tlsf)
  <1> DEFINE h == tlsf.header
             U == Unused(tlsf)
  <1>1. Chained(h) /\ Tagged(h) /\ Lists(tlsf, U) /\ U \subseteq DOMAIN h \ {Sentinel}
        /\ U = {x \in DOMAIN h : h[x].free}
        /\ \A x \in U : ~h[BlockNext(h, x)].free
    BY UsedBlocks DEF PoolOK, Unused
  <1> HIDE DEF h, U
  <1>2. Partition(tlsf)
    <2>1. \A b \in DOMAIN h \ {PoolWords + 1} : BlockNext(h, b) \in DOMAIN h
      BY <1>1 DEF Chained, Sentinel
    <2>2. ASSUME NEW b \in DOMAIN h \ {0}
          PROVE  \E a \in DOMAIN h \ {PoolWords + 1} :
                    /\ BlockNext(h, a) = b
                    /\ h[b].prevFree = h[a].free
                    /\ h[b].prevPhys = IF h[a].free THEN a ELSE NoBlock
      <3>1. PICK a \in DOMAIN h \ {Sentinel} : BlockNext(h, a) = b
        BY <1>1 DEF Chained
      <3>2. (h[b].prevFree <=> h[a].free) /\ h[b].prevPhys = IF h[a].free THEN a ELSE NoBlock
        BY <1>1, <3>1 DEF Tagged
      <3>3. h[b] \in HeaderType /\ h[a] \in HeaderType
        BY <1>1 DEF Chained
      <3>4. h[b].prevFree \in BOOLEAN /\ h[a].free \in BOOLEAN
        BY <3>3 DEF HeaderType
      <3>5. h[b].prevFree = h[a].free
        <4> DEFINE x == h[b].prevFree
                   y == h[a].free
        <4>1. (x <=> y) /\ x \in BOOLEAN /\ y \in BOOLEAN
          BY <3>2, <3>4
        <4> HIDE DEF x, y
        <4>2. x = TRUE \/ x = FALSE
          BY <4>1, Zenon
        <4>3. y = TRUE \/ y = FALSE
          BY <4>1, Zenon
        <4>4. CASE x = TRUE
          <5>1. y
            BY <4>1, <4>4, Zenon
          <5>2. y = TRUE
            BY <4>3, <5>1, Zenon
          <5> QED
            BY <4>4, <5>2 DEF x, y
        <4>5. CASE x = FALSE
          <5>1. ~y
            BY <4>1, <4>5, Zenon
          <5>2. y = FALSE
            BY <4>3, <5>1, Zenon
          <5> QED
            BY <4>5, <5>2 DEF x, y
        <4> QED
          BY <4>2, <4>4, <4>5
      <3>6. a \in DOMAIN h \ {PoolWords + 1} /\ BlockNext(h, a) = b
        BY <3>1 DEF Sentinel
      <3>7. h[b].prevPhys = IF h[a].free THEN a ELSE NoBlock
        BY <3>2
      <3> QED
        BY <3>5, <3>6, <3>7, Zenon
    <2> QED
      BY <2>1, <2>2 DEF Partition, h
  <1>3. ASSUME NEW b \in U PROVE ~h[b].prevFree /\ h[b].size >= BlockSizeMin
    <2>1. b \in DOMAIN h \ {Sentinel} /\ h[b].free
      BY <1>1
    <2>2. h[b].size >= BlockSizeMin
      BY <1>1, <2>1 DEF Chained
    <2>3. ~h[b].prevFree
      <3> SUFFICES ASSUME h[b].prevFree PROVE FALSE
        OBVIOUS
      <3>1. b # 0
        BY <1>1 DEF Tagged
      <3>2. PICK a \in DOMAIN h \ {Sentinel} : BlockNext(h, a) = b
        BY <1>1, <2>1, <3>1 DEF Chained
      <3>3. a \in U
        BY <1>1, <3>2 DEF Tagged
      <3> QED
        BY <1>1, <2>1, <3>2, <3>3
    <2> QED
      BY <2>2, <2>3
  <1>4. DOMAIN tlsf.blocks = Classes /\ tlsf.flBitmap = {c.fl : c \in tlsf.slBitmap}
    BY <1>1 DEF Lists
  <1>5. ASSUME NEW c \in Classes
        PROVE  /\ tlsf.blocks[c] # <<>> <=> c \in tlsf.slBitmap
               /\ \A i \in DOMAIN tlsf.blocks[c] :
                     tlsf.blocks[c][i] \in U /\ MappingInsert(h[tlsf.blocks[c][i]].size) = c
    <2>1. /\ c \in tlsf.slBitmap <=> tlsf.blocks[c] # <<>>
          /\ Range(tlsf.blocks[c]) = {b \in U : MappingInsert(h[b].size) = c}
      BY <1>1 DEF Lists, h
    <2>2. \A i \in DOMAIN tlsf.blocks[c] : tlsf.blocks[c][i] \in Range(tlsf.blocks[c])
      BY DEF Range
    <2> QED
      BY <2>1, <2>2
  <1>6. ASSUME NEW b \in U
        PROVE  Cardinality({i \in DOMAIN tlsf.blocks[MappingInsert(h[b].size)] :
                               tlsf.blocks[MappingInsert(h[b].size)][i] = b}) = 1
    <2> DEFINE c == MappingInsert(h[b].size)
    <2>1. c \in Classes
      BY <1>1, ClassListed DEF Lists, h
    <2> HIDE DEF c
    <2>2. /\ Once(tlsf.blocks[c]) /\ tlsf.blocks[c] \in Seq(Nat)
          /\ Range(tlsf.blocks[c]) = {x \in U : MappingInsert(h[x].size) = c}
      BY <1>1, <2>1 DEF Lists, h
    <2>3. b \in Range(tlsf.blocks[c])
      BY <2>2 DEF c
    <2>4. Cardinality({i \in DOMAIN tlsf.blocks[c] : tlsf.blocks[c][i] = b}) = 1
      BY <2>2, <2>3, CountOnce
    <2> QED
      BY <2>4 DEF c
  <1>7. ListsAccurate(tlsf)
    BY <1>3, <1>4, <1>5, <1>6 DEF ListsAccurate, h, U
  <1> QED
    BY <1>2, <1>7

\* tlsf_create_with_pool.
LEMMA CreateSound == PoolOK(Create) /\ Used(Create) = {}
  <1> DEFINE front == [size |-> PoolWords, free |-> TRUE, prevFree |-> FALSE, prevPhys |-> NoBlock]
             back == [size |-> 0, free |-> FALSE, prevFree |-> TRUE, prevPhys |-> 0]
             h == [b \in {0, PoolWords + 1} |-> IF b = 0 THEN front ELSE back]
             q == [header |-> h, blocks |-> [c \in Classes |-> <<>>], slBitmap |-> {}, flBitmap |-> {}]
             p == BlockInsert(q, 0)
  <1>1. Create = p
    BY DEF Create
  <1>2. /\ front \in HeaderType /\ front.size = PoolWords /\ front.free /\ ~front.prevFree
        /\ back \in HeaderType /\ back.size = 0 /\ ~back.free /\ back.prevFree /\ back.prevPhys = 0
    BY PoolAssumption DEF HeaderType, NoBlock
  <1> HIDE DEF front, back
  <1>3. /\ DOMAIN h = {0, Sentinel} /\ h[0] = front /\ h[Sentinel] = back /\ h \in [{0, Sentinel} -> HeaderType]
        /\ Sentinel \in Nat /\ 0 < Sentinel
    <2>1. PoolWords \in Nat
      BY PoolAssumption
    <2> QED
      BY <1>2, <2>1 DEF Sentinel
  <1>4. Lists(q, {})
    <2>1. /\ q.blocks = [c \in Classes |-> <<>>] /\ q.slBitmap = {} /\ q.flBitmap = {}
      OBVIOUS
    <2>2. \A c \in Classes : q.blocks[c] = <<>> /\ q.blocks[c] \in Seq(Nat)
      BY <2>1
    <2>3. q.blocks \in [Classes -> Seq(Nat)]
      BY <2>1
    <2> HIDE DEF q
    <2>4. Once(<<>>) /\ Range(<<>>) = {}
      BY DEF Once, Range
    <2> QED
      BY <2>1, <2>2, <2>3, <2>4 DEF Lists
  <1>5. q.header = h
    OBVIOUS
  <1> HIDE DEF q, h
  <1>6. Lists(p, {0}) /\ p.header = h
    <2>1. q.header[0].size \in 0..PoolWords /\ 0 \in Nat /\ 0 \notin {}
      BY <1>2, <1>3, <1>5, PoolAssumption
    <2>2. Lists(p, {} \cup {0}) /\ p.header = q.header
      BY <1>4, <2>1, ListsInsert
    <2>3. {} \cup {0} = {0}
      OBVIOUS
    <2> QED
      BY <1>5, <2>2, <2>3
  <1> HIDE DEF p
  <1>7. BlockNext(h, 0) = Sentinel
    BY <1>2, <1>3, PoolAssumption DEF BlockNext, Sentinel
  <1>8. Chained(h)
    <2>1. \A b \in DOMAIN h \ {Sentinel} : b = 0 /\ h[b].size >= BlockSizeMin /\ BlockNext(h, b) \in DOMAIN h
      BY <1>2, <1>3, <1>7, PoolAssumption
    <2>2. \A a, b \in DOMAIN h : a < b => BlockNext(h, a) <= b
      BY <1>3, <1>7
    <2>3. \A b \in DOMAIN h \ {0} : \E a \in DOMAIN h \ {Sentinel} : BlockNext(h, a) = b
      BY <1>3, <1>7
    <2>4. DOMAIN h \subseteq 0..Sentinel /\ 0 \in DOMAIN h /\ Sentinel \in DOMAIN h /\ h \in [DOMAIN h -> HeaderType]
          /\ h[Sentinel].size = 0
      BY <1>2, <1>3
    <2> QED
      BY <2>1, <2>2, <2>3, <2>4 DEF Chained
  <1>9. Tagged(h)
    BY <1>2, <1>3, <1>7 DEF Tagged
  <1>10. Unused(p) = {0}
    BY <1>2, <1>3, <1>6 DEF Unused
  <1>11. Used(p) = {}
    BY <1>3, <1>6, <1>8, <1>9, <1>10, UsedBlocks
  <1>12. ~h[BlockNext(h, 0)].free
    BY <1>2, <1>3, <1>7
  <1>13. PoolOK(p)
    BY <1>6, <1>8, <1>9, <1>10, <1>12 DEF PoolOK
  <1> QED
    BY <1>1, <1>11, <1>13

\* A pool that is all free is one block.
LEMMA OneBlock ==
    ASSUME NEW tlsf, PoolOK(tlsf), Used(tlsf) = {}
    PROVE  Unused(tlsf) = {0} /\ tlsf.header[0].size = PoolWords
  <1> DEFINE h == tlsf.header
             n == BlockNext(h, 0)
  <1>1. /\ Chained(h) /\ Tagged(h) /\ \A x \in Unused(tlsf) : ~h[BlockNext(h, x)].free
        /\ Unused(tlsf) = DOMAIN h \ {Sentinel} /\ Unused(tlsf) = {x \in DOMAIN h : h[x].free}
    BY UsedBlocks DEF PoolOK, Unused
  <1> HIDE DEF h
  <1>2. 0 \in DOMAIN h \ {Sentinel} /\ Sentinel \in DOMAIN h /\ DOMAIN h \subseteq 0..Sentinel /\ Sentinel \in Nat
    BY <1>1, PoolAssumption DEF Chained, Sentinel
  <1>3. n \in DOMAIN h /\ n = 0 + 1 + h[0].size /\ h[0].size \in Nat
    BY <1>1, <1>2, NextBlock
  <1>4. n = Sentinel
    BY <1>1, <1>2, <1>3
  <1>5. h[0].size = PoolWords
    BY <1>3, <1>4, PoolAssumption DEF Sentinel
  <1>6. ASSUME NEW x \in DOMAIN h \ {Sentinel} PROVE x = 0
    <2>1. 0 < x => n <= x
      BY <1>1, <1>2 DEF Chained
    <2> HIDE DEF n
    <2>2. x \in Nat /\ x < Sentinel
      BY <1>2
    <2> QED
      BY <1>2, <1>4, <2>1, <2>2
  <1> QED
    BY <1>1, <1>2, <1>5, <1>6 DEF h

\* What is found in a pool that is all free does not depend on what happened before.
LEMMA LocatedAgain ==
    ASSUME NEW tlsf, PoolOK(tlsf), Used(tlsf) = {}, NEW size \in Nat
    PROVE  Located(tlsf, size) = Located(Create, size)
  <1> DEFINE k == MappingInsert(PoolWords)
             Single(p) == /\ p.slBitmap = {k} /\ p.flBitmap = {k.fl} /\ k \in Classes
                          /\ p.blocks[k][1] = 0
  <1>1. ASSUME NEW p, PoolOK(p), Used(p) = {} PROVE Single(p)
    <2>1. Unused(p) = {0} /\ p.header[0].size = PoolWords
      BY <1>1, OneBlock
    <2>2. Lists(p, {0})
      BY <1>1, <2>1 DEF PoolOK
    <2>3. PoolWords \in 0..PoolWords
      BY PoolAssumption
    <2>4. k \in Classes
      BY <2>3, ClassListed
    <2> HIDE DEF k
    <2>5. ASSUME NEW c \in Classes PROVE c \in p.slBitmap <=> c = k
      <3>1. (c \in p.slBitmap <=> p.blocks[c] # <<>>) /\ p.blocks[c] \in Seq(Nat)
            /\ Range(p.blocks[c]) = {b \in {0} : MappingInsert(p.header[b].size) = c}
        BY <2>2 DEF Lists
      <3>2. MappingInsert(p.header[0].size) = k
        BY <2>1 DEF k
      <3>3. Range(p.blocks[c]) # {} <=> c = k
        BY <3>1, <3>2
      <3>4. Range(p.blocks[c]) # {} <=> p.blocks[c] # <<>>
        <4> DEFINE s == p.blocks[c]
        <4>1. s \in Seq(Nat)
          BY <3>1
        <4> HIDE DEF s
        <4>2. s = <<>> => Range(s) = {}
          BY DEF Range
        <4>3. s # <<>> => 1 \in DOMAIN s
          BY <4>1
        <4>4. s # <<>> => s[1] \in Range(s)
          BY <4>3 DEF Range
        <4> QED
          BY <4>2, <4>4 DEF s
      <3> QED
        BY <3>1, <3>3, <3>4
    <2>6. p.slBitmap = {k}
      BY <2>2, <2>4, <2>5 DEF Lists
    <2>7. p.flBitmap = {k.fl}
      BY <2>2, <2>6 DEF Lists
    <2>8. p.blocks[k][1] = 0
      <3> DEFINE s == p.blocks[k]
      <3>1. s \in Seq(Nat) /\ s # <<>> /\ Range(s) \subseteq {0}
        BY <2>2, <2>4, <2>6 DEF Lists
      <3> HIDE DEF s
      <3>2. 1 \in DOMAIN s
        BY <3>1
      <3>3. s[1] \in Range(s)
        BY <3>2 DEF Range
      <3>4. s[1] = 0
        BY <3>1, <3>3
      <3> QED
        BY <3>4 DEF s
    <2> QED
      BY <2>4, <2>6, <2>7, <2>8
  <1>2. Single(tlsf) /\ Single(Create)
    BY <1>1, CreateSound
  <1> DEFINE a == MappingSearch(Adjust(size))
             c == SearchSuitable(tlsf, a)
  <1>3. c = SearchSuitable(Create, a)
    <2>1. tlsf.slBitmap = Create.slBitmap /\ tlsf.flBitmap = Create.flBitmap
      BY <1>2
    <2> HIDE DEF a, k, Single
    <2> QED
      BY <2>1 DEF SearchSuitable
  <1>4. c = NoClass \/ c = k
    <2>1. Adjust(size) \in Nat
      BY DEF Adjust, BlockSizeMin
    <2>2. a.fl \in Nat
      BY <2>1, SearchClass
    <2>3. Lists(tlsf, Unused(tlsf))
      BY DEF PoolOK
    <2> HIDE DEF a
    <2>4. c = NoClass \/ c \in tlsf.slBitmap
      BY <2>2, <2>3, Suitable
    <2> QED
      BY <1>2, <2>4
  <1>5. tlsf.blocks[k][1] = Create.blocks[k][1]
    BY <1>2
  <1>6. /\ Located(tlsf, size) = IF Adjust(size) = 0 \/ c = NoClass THEN NoBlock ELSE tlsf.blocks[c][1]
        /\ Located(Create, size) = IF Adjust(size) = 0 \/ c = NoClass THEN NoBlock ELSE Create.blocks[c][1]
    <2>1. Located(Create, size) = IF Adjust(size) = 0 \/ SearchSuitable(Create, a) = NoClass THEN NoBlock
                                  ELSE Create.blocks[SearchSuitable(Create, a)][1]
      BY DEF Located
    <2> QED
      BY <1>3, <2>1 DEF Located
  <1> HIDE DEF a, c, k
  <1> QED
    BY <1>4, <1>5, <1>6

(***************************************************************************)
(* Dispatching.                                                            *)
(***************************************************************************)
\* How often, for one place: 1 when the condition holds.
One(condition) == IF condition THEN 1 ELSE 0

\* In how many places c is.
Held(c) ==
    One(c \in Range(pending)) + One(hand["process"] = c) + One(hand["liblo"] = c)
    + One(c \in Range(objectQueue)) + One(c \in Range(eventQueue))
    + One(closure = c) + One(adding = c) + One(c \in sortedEvents) + One(c \in returned)

\* Every closure that is allocated is in one place, and nothing else is anywhere.
Whole ==
    /\ Once(pending) /\ Once(objectQueue) /\ Once(eventQueue)
    /\ NULL \notin Range(pending)
    /\ \A p \in Producers : pc[p] = "idle" <=> hand[p] = NULL
    /\ spc # "execute" => closure = NULL
    /\ \A c \in Closures \ {NULL} : Held(c) = One(Live(c))

\* As long as no two producers overlapped and nothing failed.
Accounted == ~overlapped /\ fault = "none" => Whole

\* One producer at a time stores, and where it has looked nothing has changed.
OneProducer ==
    ~overlapped =>
        /\ \A p, q \in Producers : pc[p] = "store" /\ pc[q] = "store" => p = q
        /\ \A p \in Producers : pc[p] = "store" => claimed[p] = writeIndex /\ ~Full

\* The inductive invariant.
Inv == TypeOK /\ PoolOK(pool) /\ OneProducer /\ RingIsFifo /\ Accounted /\ FaultsExplained

\* The blocks of the pool have addresses within it.
LEMMA Addresses ==
    ASSUME NEW p, PoolOK(p)
    PROVE  Used(p) \subseteq 0..PoolWords /\ Unused(p) \subseteq 0..PoolWords
  <1> DEFINE h == p.header
  <1>1. Used(p) \subseteq DOMAIN h \ {Sentinel} /\ Unused(p) \subseteq DOMAIN h \ {Sentinel} /\ DOMAIN h \subseteq 0..Sentinel
    BY UsedBlocks DEF PoolOK, Chained
  <1> HIDE DEF h
  <1>2. \A x \in (0..Sentinel) \ {Sentinel} : x \in 0..PoolWords
    BY PoolAssumption DEF Sentinel
  <1> QED
    BY <1>1, <1>2

\* The indices stay in the ring, and the used slots do not run into the unused ones.
LEMMA RingIndex ==
    ASSUME TypeOK
    PROVE  /\ readIndex \in 0..DispatchSize /\ writeIndex \in 0..DispatchSize /\ InUse \in 0..DispatchSize
           /\ After(readIndex) \in 0..DispatchSize /\ After(writeIndex) \in 0..DispatchSize
           /\ InUse = 0 <=> readIndex = writeIndex
           /\ \A k \in 0..DispatchSize : Slot(k) \in 0..DispatchSize
           /\ Slot(0) = readIndex /\ Slot(InUse) = writeIndex
           /\ \A k \in 0..DispatchSize : Slot(k) = writeIndex => k = InUse
  <1>1. DispatchSize \in Nat /\ readIndex \in 0..DispatchSize /\ writeIndex \in 0..DispatchSize
    BY QueueAssumption DEF TypeOK
  <1>2. \A k \in 0..DispatchSize : Slot(k) \in 0..DispatchSize
    BY <1>1 DEF Slot
  <1>3. InUse \in 0..DispatchSize /\ (InUse = 0 <=> readIndex = writeIndex)
    BY <1>1 DEF InUse
  <1>4. Slot(0) = readIndex /\ Slot(InUse) = writeIndex
    BY <1>1 DEF InUse, Slot
  <1>5. \A k \in 0..DispatchSize : Slot(k) = writeIndex => k = InUse
    BY <1>1 DEF InUse, Slot
  <1>6. After(readIndex) \in 0..DispatchSize /\ After(writeIndex) \in 0..DispatchSize
    BY <1>1 DEF After
  <1> QED
    BY <1>1, <1>2, <1>3, <1>4, <1>5, <1>6

\* The next closure to be executed is the one that was dispatched first.
LEMMA RingHead ==
    ASSUME TypeOK, RingIsFifo, ~overlapped, readIndex # writeIndex
    PROVE  pending # <<>> /\ slots[readIndex] = pending[1]
  <1>1. Ring = pending /\ InUse \in 1..DispatchSize /\ Slot(0) = readIndex
    BY RingIndex DEF RingIsFifo
  <1>2. 1 \in 1..InUse /\ 1 - 1 = 0
    BY <1>1
  <1>3. DOMAIN Ring = 1..InUse /\ Ring[1] = slots[Slot(1 - 1)]
    BY <1>2 DEF Ring
  <1>4. 1 \in DOMAIN pending /\ pending[1] = slots[readIndex]
    BY <1>1, <1>2, <1>3
  <1>5. pending # <<>>
    BY <1>4
  <1> QED
    BY <1>4, <1>5

\* What is called is what the slot holds, or anything when it was read before.
LEMMA NextCall ==
    ASSUME TypeOK, NextMethod
    PROVE  \E c \in Closures \ {NULL} : Call(c) /\ (slots[readIndex] # NULL => c = slots[readIndex])
  <1>1. PICK c \in Contents(readIndex) : Call(c)
    BY DEF NextMethod
  <1>2. slots[readIndex] \in Closures
    BY DEF TypeOK
  <1>3. c \in Closures \ {NULL} /\ (slots[readIndex] # NULL => c = slots[readIndex])
    BY <1>2 DEF Contents
  <1> QED
    BY <1>1, <1>3

\* Every action keeps the types.
LEMMA TypeStep ==
    ASSUME TypeOK, PoolOK(pool), RingIsFifo, [Next]_vars
    PROVE  TypeOK'
  <1>1. /\ readIndex \in 0..DispatchSize /\ writeIndex \in 0..DispatchSize
        /\ After(readIndex) \in 0..DispatchSize
        /\ \A i \in 0..DispatchSize : After(i) \in 0..DispatchSize
    <2>1. DispatchSize \in Nat
      BY QueueAssumption
    <2> QED
      BY <2>1 DEF TypeOK, After
  <1>2. Used(pool) \subseteq Closures /\ Unused(pool) \subseteq 0..PoolWords /\ Used(pool) \subseteq 0..PoolWords
    BY Addresses DEF Closures
  <1>3. Asyncs \subseteq Closures /\ Messages \subseteq Closures /\ NULL \in Closures /\ 0..PoolWords \subseteq Closures
    BY DEF Closures
  <1>4. /\ eventQueue \in Seq(Asyncs) /\ Len(eventQueue) \in Nat /\ Len(eventQueue) <= EventQueueSize
        /\ EventQueueSize \in Nat /\ objectQueue \in Seq(0..PoolWords) /\ pending \in Seq(Closures)
    BY QueueAssumption DEF TypeOK
  <1>5. ASSUME NEW kind \in Kinds, SetHandler(kind) PROVE TypeOK'
    BY <1>5 DEF SetHandler, TypeOK, queueVars, producerVars, closureVars, bufferVars
  <1>6. ASSUME NEW a \in Asyncs, Schedule(a) PROVE TypeOK'
    BY <1>6 DEF Schedule, TypeOK, queueVars, producerVars, bufferVars
  <1>7. CASE OnReceive
    BY <1>7 DEF OnReceive, TypeOK, queueVars, producerVars, closureVars, bufferVars
  <1>8. CASE AddEvent
    <2>1. adding \in Asyncs
      BY <1>8 DEF AddEvent, TypeOK
    <2>2. eventQueue' \in Seq(Asyncs) /\ Len(eventQueue') <= EventQueueSize
      BY <1>4, <1>8, <2>1 DEF AddEvent
    <2> QED
      BY <1>8, <2>2 DEF AddEvent, TypeOK, queueVars, producerVars, closureVars
  <1>9. CASE EndRun
    BY <1>9 DEF EndRun, TypeOK, queueVars, producerVars, closureVars, bufferVars
  <1>10. CASE SeeRestart
    BY <1>10 DEF SeeRestart, TypeOK, queueVars, producerVars, closureVars, bufferVars
  <1>11. CASE NoRestart
    BY <1>11 DEF NoRestart, TypeOK, queueVars, producerVars, closureVars, bufferVars
  <1>12. CASE NextMethod
    <2>1. pending' \in Seq(Closures)
      <3>1. CASE overlapped
        BY <1>4, <1>12, <3>1 DEF NextMethod
      <3>2. CASE ~overlapped
        <4>1. pending # <<>>
          BY <1>12, <3>2, RingHead DEF NextMethod
        <4>2. Tail(pending) \in Seq(Closures)
          BY <1>4, <4>1
        <4> QED
          BY <1>12, <3>2, <4>2 DEF NextMethod
      <3> QED
        BY <3>1, <3>2
    <2>2. closure' \in Closures /\ spc' \in {"run", "wait", "next", "execute"}
          /\ fault' \in {"none", "null", "garbage", "handler"}
      <3>1. PICK c \in Closures \ {NULL} : Call(c)
        BY <1>12, NextCall
      <3> QED
        BY <1>12, <3>1 DEF NextMethod, Call, TypeOK
    <2>3. slots' \in [0..DispatchSize -> Closures]
      BY <1>3, <1>12 DEF NextMethod, TypeOK
    <2> QED
      BY <1>1, <1>12, <2>1, <2>2, <2>3 DEF NextMethod, TypeOK, producerVars, closureVars, bufferVars
  <1>13. CASE Recycle
    <2>1. objectQueue' \in Seq(0..PoolWords)
      <3>1. CASE closure \in Used(pool)
        <4>1. closure \in 0..PoolWords
          BY <1>2, <3>1
        <4>2. Append(objectQueue, closure) \in Seq(0..PoolWords)
          BY <1>4, <4>1
        <4> QED
          BY <1>13, <3>1, <4>2 DEF Recycle
      <3>2. CASE closure \notin Used(pool)
        BY <1>4, <1>13, <3>2 DEF Recycle
      <3> QED
        BY <3>1, <3>2
    <2> QED
      BY <1>3, <1>13, <2>1 DEF Recycle, TypeOK, queueVars, producerVars, bufferVars
  <1>14. CASE EndMethods
    BY <1>14 DEF EndMethods, TypeOK, queueVars, producerVars, bufferVars
  <1>15. ASSUME NEW kind \in Kinds, FireHandler(kind) PROVE TypeOK'
    <2>1. hand' \in [Producers -> Closures] /\ pc' \in [Producers -> {"idle", "dispatch", "store"}]
          /\ fault' \in {"none", "null", "garbage", "handler"}
      <3>1. CASE Located(pool, ClosureWords[kind]) = NoBlock
        BY <1>15, <3>1 DEF FireHandler, TypeOK
      <3>2. CASE Located(pool, ClosureWords[kind]) # NoBlock
        <4>1. Located(pool, ClosureWords[kind]) \in Closures
          <5>1. ClosureWords[kind] \in Nat
            BY KindAssumption
          <5> QED
            BY <1>2, <1>3, <3>2, <5>1, MallocSound
        <4> QED
          BY <1>15, <3>2, <4>1 DEF FireHandler, Take, TypeOK
      <3> QED
        BY <3>1, <3>2
    <2> QED
      BY <1>15, <2>1 DEF FireHandler, TypeOK, queueVars, bufferVars, scriptVars
  <1>16. ASSUME NEW a \in Asyncs, FireAsync(a) PROVE TypeOK'
    <2>1. hand' \in [Producers -> Closures] /\ pc' \in [Producers -> {"idle", "dispatch", "store"}]
      BY <1>3, <1>16 DEF FireAsync, Take, TypeOK
    <2> QED
      BY <1>16, <2>1 DEF FireAsync, TypeOK, queueVars, closureVars, scriptVars
  <1>25. ASSUME NEW a \in Asyncs, DropEvent(a) PROVE TypeOK'
    BY <1>25 DEF DropEvent, TypeOK, queueVars, producerVars, scriptVars
  <1>17. CASE FetchEvent
    <2>1. /\ Head(eventQueue) \in Asyncs /\ Tail(eventQueue) \in Seq(Asyncs)
          /\ Len(Tail(eventQueue)) <= EventQueueSize
      BY <1>4, <1>17 DEF FetchEvent
    <2> QED
      BY <1>17, <2>1 DEF FetchEvent, TypeOK, queueVars, producerVars, closureVars, scriptVars
  <1>18. CASE FreeClosure
    <2>1. Tail(objectQueue) \in Seq(0..PoolWords)
      BY <1>4, <1>18 DEF FreeClosure
    <2> QED
      BY <1>18, <2>1 DEF FreeClosure, TypeOK, queueVars, producerVars, bufferVars, scriptVars
  <1>19. CASE Reposition
    <2>1. eventQueue' \in Seq(Asyncs) /\ Len(eventQueue') <= EventQueueSize
      BY <1>4, <1>19 DEF Reposition
    <2>2. returned' \subseteq Asyncs
      <3>1. Elements(eventQueue) \subseteq Asyncs
        BY <1>4 DEF Elements
      <3> QED
        BY <1>19, <3>1 DEF Reposition, TypeOK
    <2>3. restartFlag' \in BOOLEAN
      BY <1>19 DEF Reposition
    <2> QED
      BY <1>19, <2>1, <2>2, <2>3 DEF Reposition, TypeOK, queueVars, producerVars
  <1>20. ASSUME NEW p \in Producers, Claim(p) PROVE TypeOK'
    <2>1. claimed' \in [Producers -> 0..DispatchSize] /\ pc' \in [Producers -> {"idle", "dispatch", "store"}]
      BY <1>1, <1>20 DEF Claim, TypeOK
    <2>2. pending' \in Seq(Closures)
      BY <1>4, <1>20 DEF Claim
    <2>3. overlapped' \in BOOLEAN
      BY <1>20 DEF Claim
    <2> QED
      BY <1>20, <2>1, <2>2, <2>3 DEF Claim, TypeOK, closureVars, bufferVars, scriptVars
  <1>21. ASSUME NEW p \in Producers, Store(p) PROVE TypeOK'
    <2>1. claimed[p] \in 0..DispatchSize /\ hand[p] \in Closures
      BY DEF TypeOK
    <2>2. writeIndex' \in 0..DispatchSize
      BY <1>1, <1>21, <2>1 DEF Store
    <2>3. slots' \in [0..DispatchSize -> Closures]
      BY <1>21, <2>1 DEF Store, TypeOK
    <2>4. pending' \in Seq(Closures)
      BY <1>4, <1>21, <2>1 DEF Store
    <2>5. /\ claimed' \in [Producers -> 0..DispatchSize] /\ hand' \in [Producers -> Closures]
          /\ pc' \in [Producers -> {"idle", "dispatch", "store"}]
      <3>1. 0 \in 0..DispatchSize
        BY QueueAssumption
      <3> QED
        BY <1>3, <1>21, <3>1 DEF Store, TypeOK
    <2> QED
      BY <1>21, <2>2, <2>3, <2>4, <2>5 DEF Store, TypeOK, closureVars, bufferVars, scriptVars
  <1>22. ASSUME NEW m \in Messages, Receive(m) PROVE TypeOK'
    <2>1. hand' \in [Producers -> Closures] /\ pc' \in [Producers -> {"idle", "dispatch", "store"}]
      BY <1>3, <1>22 DEF Receive, Take, TypeOK
    <2> QED
      BY <1>22, <2>1 DEF Receive, TypeOK, queueVars, bufferVars, scriptVars
  <1>23. CASE ReceiveEarly
    BY <1>23 DEF ReceiveEarly, TypeOK, queueVars, producerVars, closureVars, bufferVars, scriptVars
  <1>24. CASE UNCHANGED vars
    BY <1>24 DEF TypeOK, vars, queueVars, producerVars, closureVars, bufferVars, scriptVars
  <1> QED
    BY <1>5, <1>6, <1>7, <1>8, <1>9, <1>10, <1>11, <1>12, <1>13, <1>14, <1>15, <1>16, <1>17, <1>18,
       <1>19, <1>20, <1>21, <1>22, <1>23, <1>24, <1>25
    DEF Next, ScriptThread, ProcessThread, LibloThread, Down, Producers

\* What holds before the program starts.
LEMMA TypeInit == Init => TypeOK /\ PoolOK(pool) /\ OneProducer /\ RingIsFifo /\ FaultsExplained
  <1> SUFFICES ASSUME Init PROVE TypeOK /\ PoolOK(pool) /\ OneProducer /\ RingIsFifo /\ FaultsExplained
    OBVIOUS
  <1>1. TypeOK
    <2>1. DispatchSize \in Nat /\ EventQueueSize \in Nat /\ NULL \in Closures /\ 0 \in 0..DispatchSize
      BY QueueAssumption DEF Closures
    <2>2. slots \in [0..DispatchSize -> Closures] /\ hand \in [Producers -> Closures]
      BY <2>1 DEF Init
    <2>3. claimed \in [Producers -> 0..DispatchSize] /\ pc \in [Producers -> {"idle", "dispatch", "store"}]
      BY <2>1 DEF Init
    <2>4. /\ eventQueue \in Seq(Asyncs) /\ Len(eventQueue) = 0 /\ objectQueue \in Seq(0..PoolWords)
          /\ pending \in Seq(Closures)
      BY DEF Init
    <2>5. {readIndex, writeIndex} \subseteq 0..DispatchSize
      BY <2>1 DEF Init
    <2>6. Len(eventQueue) <= EventQueueSize
      BY <2>1, <2>4
    <2>7. /\ handlers \subseteq Kinds /\ sortedEvents \cup asyncHeap \cup returned \subseteq Asyncs
          /\ messageHeap \subseteq Messages /\ adding \in Asyncs \cup {NULL} /\ closure \in Closures
          /\ {restartFlag, overlapped} \subseteq BOOLEAN
      BY <2>1 DEF Init
    <2>8. /\ onReceiveHandler \in {"wild", "set"} /\ spc \in {"run", "wait", "next", "execute"}
          /\ fault \in {"none", "null", "garbage", "handler"}
      BY DEF Init
    <2> QED
      BY <2>2, <2>3, <2>4, <2>5, <2>6, <2>7, <2>8 DEF TypeOK
  <1>2. PoolOK(pool)
    BY CreateSound DEF Init
  <1>3. OneProducer
    BY DEF Init, OneProducer
  <1>4. RingIsFifo
    <2>1. InUse = 0
      BY <1>1, RingIndex DEF Init
    <2>2. Ring = <<>>
      BY <2>1 DEF Ring
    <2> QED
      BY <2>2 DEF RingIsFifo, Init
  <1>5. FaultsExplained
    BY DEF Init, FaultsExplained
  <1> QED
    BY <1>1, <1>2, <1>3, <1>4, <1>5

\* A function on 1..n with the elements of a sequence is that sequence.
LEMMA SameSequence ==
    ASSUME NEW S, NEW s \in Seq(S), NEW n \in Nat, NEW f, DOMAIN f = 1..n, f = [i \in 1..n |-> f[i]],
           Len(s) = n, \A i \in 1..n : f[i] = s[i]
    PROVE  f = s
  <1>1. s = [i \in 1..n |-> s[i]]
    OBVIOUS
  <1>2. [i \in 1..n |-> s[i]] = [i \in 1..n |-> f[i]]
    OBVIOUS
  <1> QED
    BY <1>1, <1>2

\* What is executed next leaves the ring at its front.
LEMMA RingNext ==
    ASSUME TypeOK, TypeOK', RingIsFifo, ~overlapped, NextMethod
    PROVE  RingIsFifo'
  <1>1. DispatchSize \in Nat /\ readIndex \in 0..DispatchSize /\ writeIndex \in 0..DispatchSize
    BY QueueAssumption DEF TypeOK
  <1>2. readIndex # writeIndex /\ readIndex' = After(readIndex) /\ writeIndex' = writeIndex
        /\ slots' = [slots EXCEPT ![readIndex] = NULL] /\ pending' = Tail(pending) /\ ~overlapped'
    BY DEF NextMethod
  <1>14. \A k \in 1..DispatchSize : /\ Slot(k) \in 0..DispatchSize /\ Slot(k) # readIndex
                                    /\ slots'[Slot(k)] = slots[Slot(k)]
    <2>1. \A k \in 1..DispatchSize : Slot(k) \in 0..DispatchSize /\ Slot(k) # readIndex
      BY <1>1 DEF Slot
    <2>2. slots \in [0..DispatchSize -> Closures]
      BY DEF TypeOK
    <2> QED
      BY <1>2, <2>1, <2>2
  <1>3. InUse \in 1..DispatchSize
    BY <1>2, RingIndex
  <1>4. InUse' = InUse - 1
    BY <1>1, <1>2 DEF InUse, After
  <1>5. \A k \in 0..(DispatchSize - 1) : Slot(k)' = Slot(k + 1)
    BY <1>1, <1>2 DEF Slot, After
  <1>6. pending \in Seq(Closures) /\ pending # <<>> /\ Ring = pending
    BY <1>2, RingHead DEF TypeOK, RingIsFifo
  <1>7. DOMAIN Ring = 1..InUse /\ \A i \in 1..InUse : Ring[i] = slots[Slot(i - 1)]
    BY DEF Ring
  <1>8. Len(pending) = InUse
    BY <1>3, <1>6, <1>7
  <1>9. /\ Tail(pending) \in Seq(Closures) /\ Len(Tail(pending)) = InUse - 1
        /\ \A i \in 1..(InUse - 1) : Tail(pending)[i] = pending[i + 1]
    BY <1>3, <1>6, <1>8
  <1> DEFINE n == InUse - 1
             f == [i \in 1..n |-> slots'[Slot(i - 1)']]
  <1>10. Ring' = f
    BY <1>2, <1>4 DEF Ring
  <1>11. \A i \in 1..n : f[i] = Tail(pending)[i]
    <2> SUFFICES ASSUME NEW i \in 1..n PROVE f[i] = Tail(pending)[i]
      OBVIOUS
    <2>1. i - 1 \in 0..(DispatchSize - 1) /\ (i - 1) + 1 = i /\ i + 1 \in 1..InUse /\ (i + 1) - 1 = i
          /\ i \in 1..(InUse - 1)
      BY <1>1, <1>3
    <2>2. f[i] = slots'[Slot(i - 1)']
      OBVIOUS
    <2>3. Slot(i - 1)' = Slot(i) /\ i \in 1..DispatchSize
      BY <1>1, <1>3, <1>5, <2>1
    <2>5. slots'[Slot(i)] = slots[Slot(i)]
      BY <1>14, <2>3
    <2>4. Tail(pending)[i] = slots[Slot(i)]
      BY <1>6, <1>7, <1>9, <2>1
    <2> QED
      BY <2>2, <2>3, <2>4, <2>5
  <1>12. DOMAIN f = 1..n /\ f = [i \in 1..n |-> f[i]] /\ n \in Nat
    BY <1>3
  <1> HIDE DEF f
  <1>13. f = Tail(pending)
    BY <1>9, <1>11, <1>12, SameSequence
  <1> QED
    BY <1>2, <1>10, <1>13 DEF RingIsFifo

\* What is stored joins the ring at its end.
LEMMA RingStore ==
    ASSUME TypeOK, TypeOK', RingIsFifo, OneProducer, ~overlapped, NEW p \in Producers, Store(p)
    PROVE  RingIsFifo'
  <1>1. DispatchSize \in Nat /\ readIndex \in 0..DispatchSize /\ writeIndex \in 0..DispatchSize
        /\ slots \in [0..DispatchSize -> Closures] /\ hand[p] \in Closures
    BY QueueAssumption DEF TypeOK
  <1>2. claimed[p] = writeIndex /\ ~Full
    BY DEF OneProducer, Store
  <1>3. readIndex' = readIndex /\ writeIndex' = After(writeIndex) /\ slots' = [slots EXCEPT ![writeIndex] = hand[p]]
        /\ pending' = Append(pending, hand[p]) /\ ~overlapped'
    BY <1>2 DEF Store
  <1>4. InUse \in 0..DispatchSize
    BY RingIndex
  <1>5. InUse' = InUse + 1
    <2>1. writeIndex' = IF writeIndex = DispatchSize THEN 0 ELSE writeIndex + 1
      BY <1>3 DEF After
    <2>2. writeIndex' # readIndex
      BY <1>2, <1>3 DEF Full
    <2>3. InUse' = IF readIndex <= writeIndex' THEN writeIndex' - readIndex
                   ELSE writeIndex' - readIndex + DispatchSize + 1
      BY <1>3 DEF InUse
    <2>4. CASE writeIndex = DispatchSize
      BY <1>1, <2>1, <2>2, <2>3, <2>4 DEF InUse
    <2>5. CASE writeIndex # DispatchSize
      BY <1>1, <2>1, <2>2, <2>3, <2>5 DEF InUse
    <2> QED
      BY <2>4, <2>5
  <1>6. \A k : Slot(k)' = Slot(k)
    BY <1>3 DEF Slot
  <1>7. pending \in Seq(Closures) /\ Ring = pending
    BY DEF TypeOK, RingIsFifo
  <1>8. DOMAIN Ring = 1..InUse /\ \A i \in 1..InUse : Ring[i] = slots[Slot(i - 1)]
    BY DEF Ring
  <1>9. Len(pending) = InUse
    BY <1>4, <1>7, <1>8
  <1> DEFINE s == Append(pending, hand[p])
             n == InUse + 1
             f == [i \in 1..n |-> slots'[Slot(i - 1)]]
  <1>10. s \in Seq(Closures) /\ Len(s) = n /\ s[n] = hand[p] /\ \A i \in 1..InUse : s[i] = pending[i]
    BY <1>1, <1>4, <1>7, <1>9
  <1>11. Ring' = f
    BY <1>5, <1>6 DEF Ring
  <1> HIDE DEF s
  <1>12. \A i \in 1..n : f[i] = s[i]
    <2> SUFFICES ASSUME NEW i \in 1..n PROVE f[i] = s[i]
      OBVIOUS
    <2>1. f[i] = slots'[Slot(i - 1)]
      OBVIOUS
    <2> HIDE DEF f
    <2>2. CASE i = n
      <3>1. i - 1 = InUse
        BY <1>4, <2>2
      <3>2. Slot(i - 1) = writeIndex
        BY <3>1, RingIndex
      <3>3. slots'[writeIndex] = hand[p]
        BY <1>1, <1>3
      <3>4. s[i] = hand[p]
        BY <1>10, <2>2
      <3> QED
        BY <2>1, <3>2, <3>3, <3>4
    <2>3. CASE i # n
      <3>1. i \in 1..InUse /\ i - 1 \in 0..DispatchSize /\ i - 1 # InUse
        BY <1>1, <1>4, <2>3
      <3>2. Slot(i - 1) \in 0..DispatchSize /\ Slot(i - 1) # writeIndex
        BY <3>1, RingIndex
      <3>3. slots'[Slot(i - 1)] = slots[Slot(i - 1)]
        BY <1>1, <1>3, <3>2
      <3> QED
        BY <1>7, <1>8, <1>10, <2>1, <3>1, <3>3
    <2> QED
      BY <2>2, <2>3
  <1>13. DOMAIN f = 1..n /\ f = [i \in 1..n |-> f[i]] /\ n \in Nat
    BY <1>4
  <1> HIDE DEF f, n
  <1>14. f = s
    BY <1>10, <1>12, <1>13, SameSequence
  <1> QED
    BY <1>3, <1>11, <1>14 DEF RingIsFifo, s

\* No other action touches the ring; Take alone changes where a producer is.
LEMMA RingStep ==
    ASSUME TypeOK, TypeOK', OneProducer, RingIsFifo, [Next]_vars
    PROVE  OneProducer' /\ RingIsFifo'
  <1>1. ASSUME UNCHANGED queueVars PROVE RingIsFifo'
    <2>1. UNCHANGED <<slots, readIndex, writeIndex, pending, overlapped>>
      BY <1>1 DEF queueVars
    <2>2. InUse' = InUse /\ \A k : Slot(k)' = Slot(k)
      BY <2>1 DEF InUse, Slot
    <2>3. Ring' = Ring
      BY <2>1, <2>2 DEF Ring
    <2> QED
      BY <2>1, <2>3 DEF RingIsFifo
  <1>2. ASSUME UNCHANGED queueVars, UNCHANGED producerVars PROVE OneProducer'
    BY <1>2 DEF queueVars, producerVars, OneProducer, Full
  <1>3. ASSUME UNCHANGED queueVars, UNCHANGED claimed, NEW p \in Producers, pc' = [pc EXCEPT ![p] = "dispatch"]
        PROVE  OneProducer'
    <2>1. \A q \in Producers : pc'[q] = "store" => pc[q] = "store"
      BY <1>3 DEF TypeOK
    <2> QED
      BY <1>3, <2>1 DEF queueVars, OneProducer, Full
  <1>4. CASE NextMethod
    <2>1. UNCHANGED <<writeIndex, overlapped, pc, claimed>> /\ readIndex' = After(readIndex) /\ readIndex # writeIndex
      BY <1>4 DEF NextMethod, producerVars
    <2>2. After(writeIndex) # After(readIndex)
      <3>1. DispatchSize \in Nat /\ readIndex \in 0..DispatchSize /\ writeIndex \in 0..DispatchSize
        BY QueueAssumption DEF TypeOK
      <3> QED
        BY <2>1, <3>1 DEF After
    <2>3. ~Full'
      BY <2>1, <2>2 DEF Full, After
    <2>4. OneProducer'
      BY <2>1, <2>3 DEF OneProducer
    <2>5. RingIsFifo'
      BY <1>4, <2>1, RingNext DEF RingIsFifo
    <2> QED
      BY <2>4, <2>5
  <1>5. ASSUME NEW p \in Producers, Store(p) PROVE OneProducer' /\ RingIsFifo'
    <2>1. pc[p] = "store" /\ overlapped' = overlapped /\ \A q \in Producers : pc'[q] = IF q = p THEN "idle" ELSE pc[q]
      BY <1>5 DEF Store, TypeOK
    <2>2. OneProducer'
      BY <2>1 DEF OneProducer
    <2>3. RingIsFifo'
      BY <1>5, <2>1, RingStore DEF RingIsFifo
    <2> QED
      BY <2>2, <2>3
  <1>6. ASSUME NEW p \in Producers, Claim(p) PROVE OneProducer' /\ RingIsFifo'
    <2>1. /\ UNCHANGED <<slots, readIndex, writeIndex>> /\ ~Full
          /\ overlapped' = (overlapped \/ \E q \in Producers \ {p} : pc[q] = "store")
          /\ pending' = IF overlapped' THEN <<>> ELSE pending
      BY <1>6 DEF Claim
    <2>2. \A q \in Producers : /\ pc'[q] = IF q = p THEN "store" ELSE pc[q]
                               /\ claimed'[q] = IF q = p THEN writeIndex ELSE claimed[q]
      BY <1>6 DEF Claim, TypeOK
    <2>3. Full' = Full /\ (\A k : Slot(k)' = Slot(k)) /\ InUse' = InUse
      BY <2>1 DEF Full, After, Slot, InUse
    <2>4. Ring' = Ring
      BY <2>1, <2>3 DEF Ring
    <2>5. ~overlapped' => ~overlapped /\ \A q \in Producers \ {p} : pc[q] # "store"
      BY <2>1
    <2>6. OneProducer'
      BY <2>1, <2>2, <2>3, <2>5 DEF OneProducer
    <2>7. RingIsFifo'
      BY <2>1, <2>4, <2>5 DEF RingIsFifo
    <2> QED
      BY <2>6, <2>7
  <1>7. ASSUME NEW kind \in Kinds, FireHandler(kind) PROVE OneProducer' /\ RingIsFifo'
    <2>1. UNCHANGED queueVars /\ UNCHANGED claimed /\ (UNCHANGED pc \/ pc' = [pc EXCEPT !["process"] = "dispatch"])
          /\ (UNCHANGED hand \/ pc' = [pc EXCEPT !["process"] = "dispatch"])
      BY <1>7 DEF FireHandler, Take
    <2> QED
      BY <1>1, <1>2, <1>3, <2>1 DEF producerVars, Producers
  <1>8. ASSUME NEW a \in Asyncs, FireAsync(a) PROVE OneProducer' /\ RingIsFifo'
    BY <1>1, <1>3, <1>8 DEF FireAsync, Take, Producers
  <1>9. ASSUME NEW m \in Messages, Receive(m) PROVE OneProducer' /\ RingIsFifo'
    BY <1>1, <1>3, <1>9 DEF Receive, Take, Producers
  <1>10. CASE UNCHANGED queueVars /\ UNCHANGED producerVars
    BY <1>1, <1>2, <1>10
  <1>11. \/ UNCHANGED queueVars /\ UNCHANGED producerVars
         \/ NextMethod
         \/ \E p \in Producers : Store(p) \/ Claim(p)
         \/ \E kind \in Kinds : FireHandler(kind)
         \/ \E a \in Asyncs : FireAsync(a)
         \/ \E m \in Messages : Receive(m)
    <2>1. CASE ScriptThread
      BY <2>1 DEF ScriptThread, SetHandler, Schedule, OnReceive, AddEvent, EndRun, SeeRestart, NoRestart,
                  Recycle, EndMethods
    <2>2. CASE ProcessThread
      BY <2>2 DEF ProcessThread, DropEvent, FetchEvent, FreeClosure, Reposition, Producers
    <2>3. CASE LibloThread
      BY <2>3 DEF LibloThread, ReceiveEarly, Producers
    <2>4. CASE Down \/ UNCHANGED vars
      BY <2>4 DEF Down, vars
    <2> QED
      BY <2>1, <2>2, <2>3, <2>4 DEF Next
  <1> QED
    BY <1>4, <1>5, <1>6, <1>7, <1>8, <1>9, <1>10, <1>11

\* Addresses of different kinds differ.
LEMMA Apart ==
    ASSUME TypeOK, PoolOK(pool)
    PROVE  /\ Used(pool) \subseteq 0..PoolWords /\ asyncHeap \subseteq Asyncs /\ messageHeap \subseteq Messages
           /\ sortedEvents \subseteq Asyncs /\ returned \subseteq Asyncs
           /\ Range(eventQueue) \subseteq Asyncs /\ Range(objectQueue) \subseteq 0..PoolWords
           /\ Range(pending) \subseteq Closures
           /\ hand["process"] \in Closures /\ hand["liblo"] \in Closures /\ closure \in Closures
           /\ adding \in Asyncs \cup {NULL}
           /\ \A c \in Asyncs : c \in Closures /\ c # NULL /\ c \notin Messages /\ c \notin 0..PoolWords
           /\ \A c \in Messages : c \in Closures /\ c # NULL /\ c \notin Asyncs /\ c \notin 0..PoolWords
           /\ \A c \in 0..PoolWords : c \in Closures /\ c # NULL /\ c \notin Asyncs /\ c \notin Messages
  <1>1. Used(pool) \subseteq 0..PoolWords
    BY Addresses
  <1>2. /\ asyncHeap \subseteq Asyncs /\ messageHeap \subseteq Messages
        /\ sortedEvents \subseteq Asyncs /\ returned \subseteq Asyncs
        /\ hand["process"] \in Closures /\ hand["liblo"] \in Closures /\ closure \in Closures
        /\ adding \in Asyncs \cup {NULL}
    BY DEF TypeOK, Producers
  <1>3. Range(eventQueue) \subseteq Asyncs /\ Range(objectQueue) \subseteq 0..PoolWords /\ Range(pending) \subseteq Closures
    <2>1. eventQueue \in Seq(Asyncs) /\ objectQueue \in Seq(0..PoolWords) /\ pending \in Seq(Closures)
      BY DEF TypeOK
    <2>2. Range(eventQueue) \subseteq Asyncs
      BY <2>1 DEF Range
    <2>3. Range(objectQueue) \subseteq 0..PoolWords
      <3> DEFINE I == 0..PoolWords
      <3>1. objectQueue \in Seq(I)
        BY <2>1
      <3> HIDE DEF I
      <3>2. Range(objectQueue) \subseteq I
        BY <3>1 DEF Range
      <3> QED
        BY <3>2 DEF I
    <2>4. Range(pending) \subseteq Closures
      BY <2>1 DEF Range
    <2> QED
      BY <2>2, <2>3, <2>4
  <1>4. /\ \A c \in Asyncs : c \in Closures /\ c # NULL /\ c \notin Messages /\ c \notin 0..PoolWords
        /\ \A c \in Messages : c \in Closures /\ c # NULL /\ c \notin Asyncs /\ c \notin 0..PoolWords
        /\ \A c \in 0..PoolWords : c \in Closures /\ c # NULL /\ c \notin Asyncs /\ c \notin Messages
    <2> DEFINE I == 0..PoolWords
    <2>1. NULL \notin I \cup Asyncs \cup Messages /\ Asyncs \cap Messages = {} /\ (Asyncs \cup Messages) \cap I = {}
          /\ Closures = I \cup Asyncs \cup Messages \cup {NULL}
      BY AddressAssumption DEF Closures
    <2> HIDE DEF I
    <2>2. /\ \A c \in Asyncs : c \in Closures /\ c # NULL /\ c \notin Messages /\ c \notin I
          /\ \A c \in Messages : c \in Closures /\ c # NULL /\ c \notin Asyncs /\ c \notin I
          /\ \A c \in I : c \in Closures /\ c # NULL /\ c \notin Asyncs /\ c \notin Messages
      BY <2>1
    <2> QED
      BY <2>2 DEF I
  <1> QED
    BY <1>1, <1>2, <1>3, <1>4

\* EventBuffer::add: from the script thread to the queue of its event buffer.
LEMMA WholeAddEvent ==
    ASSUME TypeOK, PoolOK(pool), Whole, AddEvent
    PROVE  Whole'
  <1>1. /\ adding \in Asyncs /\ adding \in Closures \ {NULL} /\ eventQueue \in Seq(Asyncs)
        /\ eventQueue' = Append(eventQueue, adding) /\ adding' = NULL
        /\ UNCHANGED <<pending, objectQueue, hand, pc, spc, closure, sortedEvents, returned, pool, asyncHeap, messageHeap>>
    BY Apart DEF AddEvent, TypeOK, queueVars, producerVars, closureVars
  <1>2. adding \notin Range(eventQueue)
    <2>1. Held(adding) = One(Live(adding))
      BY <1>1 DEF Whole
    <2> QED
      BY <2>1 DEF Held, One
  <1>3. Range(eventQueue') = Range(eventQueue) \cup {adding} /\ Once(eventQueue')
    BY <1>1, <1>2, AppendOnce DEF Whole
  <1>4. ASSUME NEW c \in Closures \ {NULL} PROVE Held(c)' = One(Live(c))'
    <2>1. One(Live(c))' = One(Live(c))
      BY <1>1 DEF One, Live
    <2>2. Held(c) = One(Live(c))
      BY DEF Whole
    <2>3. CASE c = adding
      BY <1>1, <1>2, <1>3, <2>1, <2>2, <2>3 DEF Held, One
    <2>4. CASE c # adding
      BY <1>1, <1>2, <1>3, <2>1, <2>2, <2>4 DEF Held, One
    <2> QED
      BY <2>3, <2>4
  <1> QED
    BY <1>1, <1>3, <1>4 DEF Whole, Closures

\* A new AsyncClosure goes to EventBuffer::add.
LEMMA WholeSchedule ==
    ASSUME TypeOK, PoolOK(pool), Whole, NEW a \in Asyncs, Schedule(a)
    PROVE  Whole'
  <1>1. /\ a \in Closures \ {NULL} /\ a \notin asyncHeap /\ asyncHeap' = asyncHeap \cup {a} /\ adding = NULL
        /\ adding' = a /\ a \notin Used(pool) /\ a \notin messageHeap
        /\ UNCHANGED <<pending, objectQueue, eventQueue, hand, pc, spc, closure, sortedEvents, returned, pool, messageHeap>>
    BY Apart DEF Schedule, ScriptCode, queueVars, producerVars, bufferVars
  <1>2. ASSUME NEW c \in Closures \ {NULL} PROVE Held(c)' = One(Live(c))'
    <2>1. Held(c) = One(Live(c))
      BY DEF Whole
    <2>2. CASE c = a
      BY <1>1, <2>1, <2>2 DEF Held, One, Live
    <2>3. CASE c # a
      <3>1. One(Live(c))' = One(Live(c))
        BY <1>1, <2>3 DEF One, Live
      <3> QED
        BY <1>1, <2>1, <2>3, <3>1 DEF Held, One
    <2> QED
      BY <2>2, <2>3
  <1> QED
    BY <1>1, <1>2 DEF Whole, Closures

\* ScriptHost::executeMethods: from the ring to the script thread.
LEMMA WholeNextMethod ==
    ASSUME TypeOK, PoolOK(pool), RingIsFifo, Whole, ~overlapped, NextMethod
    PROVE  fault' = "none" /\ Whole'
  <1> DEFINE x == slots[readIndex]
  <1>1. /\ pending \in Seq(Closures) /\ pending # <<>> /\ x = pending[1] /\ pending' = Tail(pending) /\ closure = NULL
        /\ UNCHANGED <<objectQueue, eventQueue, hand, pc, adding, sortedEvents, returned, pool, asyncHeap, messageHeap>>
    BY RingHead DEF NextMethod, TypeOK, Whole, producerVars, closureVars, bufferVars
  <1>2. /\ x \in Closures /\ Range(pending) = Range(pending') \cup {x} /\ x \notin Range(pending') /\ Once(pending')
    BY <1>1, TailOnce DEF Whole
  <1>3. x \in Closures \ {NULL}
    BY <1>2 DEF Whole
  <1>4. Live(x)
    <2>1. Held(x) = One(Live(x))
      BY <1>3 DEF Whole
    <2> QED
      BY <1>2, <2>1 DEF Held, One
  <1>5. closure' = x /\ spc' = "execute" /\ fault' = "none"
    <2>1. PICK c \in Closures \ {NULL} : Call(c) /\ (slots[readIndex] # NULL => c = slots[readIndex])
      BY NextCall
    <2>2. c = x /\ fault = "none"
      BY <1>3, <2>1 DEF NextMethod
    <2> QED
      BY <1>4, <2>1, <2>2 DEF Call
  <1> HIDE DEF x
  <1>6. ASSUME NEW c \in Closures \ {NULL} PROVE Held(c)' = One(Live(c))'
    <2>1. One(Live(c))' = One(Live(c))
      BY <1>1 DEF One, Live
    <2>2. Held(c) = One(Live(c))
      BY DEF Whole
    <2>3. CASE c = x
      BY <1>1, <1>2, <1>5, <2>1, <2>2, <2>3 DEF Held, One
    <2>4. CASE c # x
      BY <1>1, <1>2, <1>5, <2>1, <2>2, <2>4 DEF Held, One
    <2> QED
      BY <2>3, <2>4
  <1>7. NULL \notin Range(pending')
    BY <1>2 DEF Whole
  <1> QED
    BY <1>1, <1>2, <1>5, <1>6, <1>7 DEF Whole, Closures

\* An executed closure goes to the ObjectQueue or is deleted.
LEMMA WholeRecycle ==
    ASSUME TypeOK, PoolOK(pool), Whole, Recycle
    PROVE  Whole'
  <1>1. /\ closure' = NULL
        /\ objectQueue' = IF closure \in Used(pool) THEN Append(objectQueue, closure) ELSE objectQueue
        /\ asyncHeap' = asyncHeap \ {closure} /\ messageHeap' = messageHeap \ {closure}
        /\ UNCHANGED <<pending, eventQueue, hand, pc, adding, sortedEvents, returned, pool>>
    BY DEF Recycle, queueVars, producerVars, bufferVars
  <1>2. /\ Used(pool) \subseteq 0..PoolWords /\ objectQueue \in Seq(0..PoolWords) /\ closure \in Closures
        /\ \A c \in Used(pool) : c \notin asyncHeap /\ c \notin messageHeap /\ c # NULL
        /\ NULL \notin asyncHeap /\ NULL \notin messageHeap
    <2>1. NULL \notin asyncHeap /\ NULL \notin messageHeap
      BY Apart
    <2> QED
      BY <2>1, Apart DEF TypeOK
  <1>3. closure # NULL => closure \notin Range(objectQueue)
    <2> SUFFICES ASSUME closure \in Closures \ {NULL} PROVE closure \notin Range(objectQueue)
      BY <1>2
    <2>1. Held(closure) = One(Live(closure))
      BY DEF Whole
    <2> QED
      BY <2>1 DEF Held, One
  <1>4. /\ Once(objectQueue')
        /\ Range(objectQueue') = IF closure \in Used(pool) THEN Range(objectQueue) \cup {closure} ELSE Range(objectQueue)
    <2>1. CASE closure \in Used(pool)
      <3>1. closure \in 0..PoolWords /\ objectQueue' = Append(objectQueue, closure) /\ closure \notin Range(objectQueue)
        BY <1>1, <1>2, <1>3, <2>1
      <3>2. Range(objectQueue') = Range(objectQueue) \cup {closure} /\ Once(objectQueue')
        <4> DEFINE I == 0..PoolWords
        <4>1. objectQueue \in Seq(I) /\ closure \in I /\ Once(objectQueue)
          BY <1>2, <3>1 DEF Whole
        <4> HIDE DEF I
        <4> QED
          BY <3>1, <4>1, AppendOnce
      <3> QED
        BY <2>1, <3>2
    <2>2. CASE closure \notin Used(pool)
      BY <1>1, <2>2 DEF Whole
    <2> QED
      BY <2>1, <2>2
  <1>5. ASSUME NEW c \in Closures \ {NULL} PROVE Held(c)' = One(Live(c))'
    <2>1. Held(c) = One(Live(c))
      BY DEF Whole
    <2>2. CASE c # closure
      <3>1. One(Live(c))' = One(Live(c))
        BY <1>1, <2>2 DEF One, Live
      <3> QED
        BY <1>1, <1>4, <2>1, <2>2, <3>1 DEF Held, One
    <2>3. CASE c = closure /\ closure \in Used(pool)
      <3>1. One(Live(c))' = 1 /\ One(Live(c)) = 1
        BY <1>1, <2>3 DEF One, Live
      <3> QED
        BY <1>1, <1>3, <1>4, <2>1, <2>3, <3>1 DEF Held, One
    <2>4. CASE c = closure /\ closure \notin Used(pool)
      <3>1. One(Live(c))' = 0
        BY <1>1, <2>4 DEF One, Live
      <3>2. One(closure = c) = 1 /\ One(Live(c)) \in {0, 1}
        BY <2>4 DEF One
      <3> QED
        BY <1>1, <1>3, <1>4, <2>1, <2>4, <3>1, <3>2 DEF Held, One
    <2> QED
      BY <2>2, <2>3, <2>4
  <1> QED
    BY <1>1, <1>4, <1>5 DEF Whole, Closures

\* The script thread found nothing to execute.
LEMMA WholeEndMethods ==
    ASSUME TypeOK, PoolOK(pool), Whole, EndMethods
    PROVE  Whole'
  <1>1. /\ asyncHeap' = asyncHeap \ returned /\ returned' = {} /\ spc = "next" /\ closure' = closure
        /\ UNCHANGED <<pending, objectQueue, eventQueue, hand, pc, adding, sortedEvents, pool, messageHeap>>
    BY DEF EndMethods, queueVars, producerVars, bufferVars
  <1>2. closure = NULL
    BY <1>1 DEF Whole
  <1>3. ASSUME NEW c \in Closures \ {NULL} PROVE Held(c)' = One(Live(c))'
    <2>1. Held(c) = One(Live(c))
      BY DEF Whole
    <2>2. CASE c \notin returned
      <3>1. One(Live(c))' = One(Live(c))
        BY <1>1, <2>2 DEF One, Live
      <3> QED
        BY <1>1, <2>1, <2>2, <3>1 DEF Held, One
    <2>3. CASE c \in returned
      <3>1. c \notin Used(pool) /\ c \notin messageHeap
        BY <2>3, Apart
      <3>2. One(Live(c))' = 0
        BY <1>1, <2>3, <3>1 DEF One, Live
      <3>3. One(c \in returned) = 1 /\ One(Live(c)) \in {0, 1}
        BY <2>3 DEF One
      <3> QED
        BY <1>1, <2>1, <3>2, <3>3 DEF Held, One
    <2> QED
      BY <2>2, <2>3
  <1> QED
    BY <1>1, <1>2, <1>3 DEF Whole, Closures

\* dispatch(): from the producer to the ring.
LEMMA WholeStore ==
    ASSUME TypeOK, PoolOK(pool), Whole, ~overlapped, NEW p \in Producers, Store(p)
    PROVE  Whole'
  <1> DEFINE x == hand[p]
  <1>1. /\ pending' = Append(pending, x) /\ pending \in Seq(Closures) /\ pc[p] = "store"
        /\ x \in Closures
        /\ \A q \in Producers : /\ hand'[q] = IF q = p THEN NULL ELSE hand[q]
                                /\ pc'[q] = IF q = p THEN "idle" ELSE pc[q]
        /\ UNCHANGED <<objectQueue, eventQueue, spc, closure, adding, sortedEvents, returned, pool, asyncHeap, messageHeap>>
    BY DEF Store, TypeOK, closureVars, bufferVars, scriptVars
  <1>2. x # NULL
    <2>1. pc[p] # "idle"
      BY <1>1
    <2> QED
      BY <2>1 DEF Whole
  <1>3. \A q \in Producers : q = "process" \/ q = "liblo"
    BY DEF Producers
  <1>4. /\ hand'["process"] = (IF p = "process" THEN NULL ELSE hand["process"])
        /\ hand'["liblo"] = (IF p = "liblo" THEN NULL ELSE hand["liblo"])
        /\ p = "process" \/ p = "liblo"
        /\ p = "process" => x = hand["process"]
        /\ p = "liblo" => x = hand["liblo"]
    BY <1>1 DEF Producers
  <1> HIDE DEF x
  <1>5. x \notin Range(pending)
    <2>1. Held(x) = One(Live(x))
      BY <1>1, <1>2 DEF Whole
    <2> QED
      BY <1>4, <2>1 DEF Held, One
  <1>6. Range(pending') = Range(pending) \cup {x} /\ Once(pending') /\ NULL \notin Range(pending')
    BY <1>1, <1>2, <1>5, AppendOnce DEF Whole
  <1>7. ASSUME NEW c \in Closures \ {NULL} PROVE Held(c)' = One(Live(c))'
    <2>1. One(Live(c))' = One(Live(c))
      BY <1>1 DEF One, Live
    <2>2. Held(c) = One(Live(c))
      BY DEF Whole
    <2>3. CASE c = x /\ p = "process"
      BY <1>1, <1>4, <1>5, <1>6, <2>1, <2>2, <2>3 DEF Held, One
    <2>4. CASE c = x /\ p = "liblo"
      BY <1>1, <1>4, <1>5, <1>6, <2>1, <2>2, <2>4 DEF Held, One
    <2>5. CASE c # x
      BY <1>1, <1>4, <1>6, <2>1, <2>2, <2>5 DEF Held, One
    <2> QED
      BY <1>4, <2>3, <2>4, <2>5
  <1>8. \A q \in Producers : pc'[q] = "idle" <=> hand'[q] = NULL
    BY <1>1 DEF Whole
  <1> QED
    BY <1>1, <1>6, <1>7, <1>8 DEF Whole, Closures

\* What a producer takes was in one place before, or in none and not allocated.
LEMMA Taken ==
    ASSUME TypeOK, Whole, NEW p \in Producers, pc[p] = "idle", NEW x \in Closures \ {NULL}, Take(p, x)
    PROVE  /\ \A q \in Producers : pc'[q] = "idle" <=> hand'[q] = NULL
           /\ \A c \in Closures \ {NULL} :
                 One(hand["process"] = c)' + One(hand["liblo"] = c)'
                 = One(hand["process"] = c) + One(hand["liblo"] = c) + One(c = x)
  <1>1. \A q \in Producers : /\ hand'[q] = IF q = p THEN x ELSE hand[q]
                             /\ pc'[q] = IF q = p THEN "dispatch" ELSE pc[q]
    BY DEF Take, TypeOK
  <1>2. hand[p] = NULL
    BY DEF Whole
  <1>3. /\ hand'["process"] = (IF p = "process" THEN x ELSE hand["process"])
        /\ hand'["liblo"] = (IF p = "liblo" THEN x ELSE hand["liblo"])
        /\ (p = "process" /\ hand["process"] = NULL) \/ (p = "liblo" /\ hand["liblo"] = NULL)
    BY <1>1, <1>2 DEF Producers
  <1>4. \A q \in Producers : pc'[q] = "idle" <=> hand'[q] = NULL
    BY <1>1 DEF Whole
  <1>5. ASSUME NEW c \in Closures \ {NULL}
        PROVE  One(hand["process"] = c)' + One(hand["liblo"] = c)'
               = One(hand["process"] = c) + One(hand["liblo"] = c) + One(c = x)
    BY <1>3 DEF One
  <1> QED
    BY <1>4, <1>5

\* A closure of the pool is allocated, and the process thread has it.
LEMMA WholeFireHandler ==
    ASSUME TypeOK, PoolOK(pool), Whole, NEW kind \in Kinds, FireHandler(kind), fault' = "none"
    PROVE  Whole'
  <1> DEFINE b == Located(pool, ClosureWords[kind])
  <1>1. ClosureWords[kind] \in Nat
    BY KindAssumption
  <1>2. b # NoBlock
    BY DEF FireHandler
  <1>3. /\ pool' = Malloc(pool, ClosureWords[kind]) /\ Take("process", b) /\ pc["process"] = "idle"
        /\ UNCHANGED <<pending, objectQueue, eventQueue, spc, closure, adding, sortedEvents, returned,
                       asyncHeap, messageHeap>>
    BY <1>2 DEF FireHandler, ProcessIdle, queueVars, bufferVars, scriptVars
  <1>4. b \in Unused(pool) /\ Used(pool') = Used(pool) \cup {b}
    BY <1>1, <1>2, <1>3, MallocSound
  <1>5. b \notin Used(pool)
    BY <1>4 DEF Used, Unused
  <1> HIDE DEF b
  <1>6. b \in Closures \ {NULL} /\ b \notin asyncHeap /\ b \notin messageHeap
    <2>1. b \in 0..PoolWords
      BY <1>4, Addresses
    <2> QED
      BY <2>1, Apart
  <1>7. /\ \A q \in Producers : pc'[q] = "idle" <=> hand'[q] = NULL
        /\ \A c \in Closures \ {NULL} :
              One(hand["process"] = c)' + One(hand["liblo"] = c)'
              = One(hand["process"] = c) + One(hand["liblo"] = c) + One(c = b)
    BY <1>3, <1>6, Taken DEF Producers
  <1>8. ASSUME NEW c \in Closures \ {NULL} PROVE Held(c)' = One(Live(c))'
    <2>1. Held(c) = One(Live(c))
      BY DEF Whole
    <2>2. One(Live(c))' = One(Live(c)) + One(c = b)
      BY <1>3, <1>4, <1>5, <1>6 DEF One, Live
    <2>3. Held(c)' = Held(c) + One(c = b)
      BY <1>3, <1>7 DEF Held, One
    <2> QED
      BY <2>1, <2>2, <2>3
  <1> QED
    BY <1>3, <1>7, <1>8 DEF Whole, Closures

\* A scheduled closure leaves the event buffer.
LEMMA WholeFireAsync ==
    ASSUME TypeOK, PoolOK(pool), Whole, NEW a \in Asyncs, FireAsync(a)
    PROVE  Whole'
  <1>1. /\ a \in sortedEvents /\ sortedEvents' = sortedEvents \ {a} /\ Take("process", a) /\ pc["process"] = "idle"
        /\ UNCHANGED <<pending, objectQueue, eventQueue, spc, closure, adding, returned, pool, asyncHeap, messageHeap>>
    BY DEF FireAsync, ProcessIdle, queueVars, closureVars, scriptVars
  <1>2. a \in Closures \ {NULL}
    BY Apart
  <1>3. /\ \A q \in Producers : pc'[q] = "idle" <=> hand'[q] = NULL
        /\ \A c \in Closures \ {NULL} :
              One(hand["process"] = c)' + One(hand["liblo"] = c)'
              = One(hand["process"] = c) + One(hand["liblo"] = c) + One(c = a)
    BY <1>1, <1>2, Taken DEF Producers
  <1>4. ASSUME NEW c \in Closures \ {NULL} PROVE Held(c)' = One(Live(c))'
    <2>1. Held(c) = One(Live(c))
      BY DEF Whole
    <2>2. One(Live(c))' = One(Live(c))
      BY <1>1 DEF One, Live
    <2>3. One(c \in sortedEvents)' = One(c \in sortedEvents) - One(c = a)
      BY <1>1 DEF One
    <2>4. Held(c)' = Held(c)
      BY <1>1, <1>3, <2>3 DEF Held, One
    <2> QED
      BY <2>1, <2>2, <2>4
  <1> QED
    BY <1>1, <1>3, <1>4 DEF Whole, Closures

\* A late event goes back to the script thread.
LEMMA WholeDropEvent ==
    ASSUME TypeOK, PoolOK(pool), Whole, NEW a \in Asyncs, DropEvent(a)
    PROVE  Whole'
  <1>1. /\ a \in sortedEvents /\ sortedEvents' = sortedEvents \ {a} /\ returned' = returned \cup {a}
        /\ UNCHANGED <<pending, objectQueue, eventQueue, hand, pc, spc, closure, adding, pool, asyncHeap, messageHeap>>
    BY DEF DropEvent, queueVars, producerVars, scriptVars
  <1>2. ASSUME NEW c \in Closures \ {NULL} PROVE Held(c)' = One(Live(c))'
    <2>1. Held(c) = One(Live(c)) /\ One(Live(c)) \in {0, 1}
      BY DEF Whole, One
    <2>2. One(Live(c))' = One(Live(c))
      BY <1>1 DEF One, Live
    <2>3. One(c \in returned) + One(c \in sortedEvents) <= 1
      BY <2>1 DEF Held, One
    <2>4. One(c \in returned)' + One(c \in sortedEvents)' = One(c \in returned) + One(c \in sortedEvents)
      BY <1>1, <2>3 DEF One
    <2>5. Held(c)' = Held(c)
      BY <1>1, <2>4 DEF Held, One
    <2> QED
      BY <2>1, <2>2, <2>5
  <1> QED
    BY <1>1, <1>2 DEF Whole, Closures

\* A message arrives, and liblo's thread has its closure.
LEMMA WholeReceive ==
    ASSUME TypeOK, PoolOK(pool), Whole, NEW m \in Messages, Receive(m)
    PROVE  Whole'
  <1>1. /\ m \notin messageHeap /\ messageHeap' = messageHeap \cup {m} /\ Take("liblo", m) /\ pc["liblo"] = "idle"
        /\ UNCHANGED <<pending, objectQueue, eventQueue, spc, closure, adding, sortedEvents, returned, pool, asyncHeap>>
    BY DEF Receive, queueVars, bufferVars, scriptVars
  <1>2. m \in Closures \ {NULL} /\ m \notin Used(pool) /\ m \notin asyncHeap
    BY Apart
  <1>3. /\ \A q \in Producers : pc'[q] = "idle" <=> hand'[q] = NULL
        /\ \A c \in Closures \ {NULL} :
              One(hand["process"] = c)' + One(hand["liblo"] = c)'
              = One(hand["process"] = c) + One(hand["liblo"] = c) + One(c = m)
    BY <1>1, <1>2, Taken DEF Producers
  <1>4. ASSUME NEW c \in Closures \ {NULL} PROVE Held(c)' = One(Live(c))'
    <2>1. Held(c) = One(Live(c))
      BY DEF Whole
    <2>2. One(Live(c))' = One(Live(c)) + One(c = m)
      BY <1>1, <1>2 DEF One, Live
    <2>3. Held(c)' = Held(c) + One(c = m)
      BY <1>1, <1>3 DEF Held, One
    <2> QED
      BY <2>1, <2>2, <2>3
  <1> QED
    BY <1>1, <1>3, <1>4 DEF Whole, Closures

\* The process thread sorts what the script thread has scheduled.
LEMMA WholeFetchEvent ==
    ASSUME TypeOK, PoolOK(pool), Whole, FetchEvent
    PROVE  Whole'
  <1> DEFINE x == Head(eventQueue)
  <1>1. /\ eventQueue \in Seq(Asyncs) /\ eventQueue # <<>> /\ eventQueue' = Tail(eventQueue)
        /\ sortedEvents' = sortedEvents \cup {x}
        /\ UNCHANGED <<pending, objectQueue, hand, pc, spc, closure, adding, returned, pool, asyncHeap, messageHeap>>
    BY DEF FetchEvent, TypeOK, queueVars, producerVars, closureVars, scriptVars
  <1>2. /\ x \in Asyncs /\ Range(eventQueue) = Range(eventQueue') \cup {x} /\ x \notin Range(eventQueue')
        /\ Once(eventQueue')
    BY <1>1, TailOnce DEF Whole
  <1> HIDE DEF x
  <1>3. x \notin sortedEvents
    <2>1. x \in Closures \ {NULL}
      BY <1>2, Apart
    <2>2. Held(x) = One(Live(x))
      BY <2>1 DEF Whole
    <2> QED
      BY <1>2, <2>2 DEF Held, One
  <1>4. ASSUME NEW c \in Closures \ {NULL} PROVE Held(c)' = One(Live(c))'
    <2>1. Held(c) = One(Live(c))
      BY DEF Whole
    <2>2. One(Live(c))' = One(Live(c))
      BY <1>1 DEF One, Live
    <2>3. One(c \in sortedEvents)' = One(c \in sortedEvents) + One(c = x)
      BY <1>1, <1>3 DEF One
    <2>4. One(c \in Range(eventQueue))' = One(c \in Range(eventQueue)) - One(c = x)
      BY <1>2 DEF One
    <2>5. Held(c)' = Held(c)
      BY <1>1, <2>3, <2>4 DEF Held, One
    <2> QED
      BY <2>1, <2>2, <2>5
  <1> QED
    BY <1>1, <1>2, <1>4 DEF Whole, Closures

\* A closure that comes back is still allocated.
LEMMA GivenBack ==
    ASSUME TypeOK, PoolOK(pool), Whole, objectQueue # <<>>
    PROVE  /\ Head(objectQueue) \in Used(pool)
           /\ Range(objectQueue) = Range(Tail(objectQueue)) \cup {Head(objectQueue)}
           /\ Head(objectQueue) \notin Range(Tail(objectQueue)) /\ Once(Tail(objectQueue))
  <1> DEFINE I == 0..PoolWords
             x == Head(objectQueue)
  <1>1. objectQueue \in Seq(I) /\ Once(objectQueue)
    BY DEF TypeOK, Whole
  <1>2. \A c \in I : c \in Closures \ {NULL} /\ c \notin asyncHeap /\ c \notin messageHeap
    BY Apart
  <1> HIDE DEF I
  <1>3. /\ x \in I /\ Range(objectQueue) = Range(Tail(objectQueue)) \cup {x}
        /\ x \notin Range(Tail(objectQueue)) /\ Once(Tail(objectQueue))
    BY <1>1, TailOnce
  <1> HIDE DEF x
  <1>4. Held(x) = One(Live(x))
    BY <1>2, <1>3 DEF Whole
  <1>5. Live(x)
    BY <1>3, <1>4 DEF Held, One
  <1>6. x \in Used(pool)
    BY <1>2, <1>3, <1>5 DEF Live
  <1> QED
    BY <1>3, <1>6 DEF x

\* The process thread gives the memory of a recycled closure back to the pool.
LEMMA WholeFreeClosure ==
    ASSUME TypeOK, PoolOK(pool), Whole, FreeClosure
    PROVE  Whole'
  <1> DEFINE x == Head(objectQueue)
  <1>1. /\ objectQueue # <<>> /\ objectQueue' = Tail(objectQueue) /\ pool' = FreeBlock(pool, x)
        /\ UNCHANGED <<pending, eventQueue, hand, pc, spc, closure, adding, sortedEvents, returned, asyncHeap, messageHeap>>
    BY DEF FreeClosure, queueVars, producerVars, bufferVars, scriptVars
  <1>2. /\ x \in Used(pool) /\ Range(objectQueue) = Range(objectQueue') \cup {x}
        /\ x \notin Range(objectQueue') /\ Once(objectQueue')
    BY <1>1, GivenBack
  <1> HIDE DEF x
  <1>3. Used(pool') = Used(pool) \ {x}
    BY <1>1, <1>2, FreeSound
  <1>4. x \notin asyncHeap /\ x \notin messageHeap
    BY <1>2, Apart
  <1>5. ASSUME NEW c \in Closures \ {NULL} PROVE Held(c)' = One(Live(c))'
    <2>1. Held(c) = One(Live(c))
      BY DEF Whole
    <2>2. One(Live(c))' = One(Live(c)) - One(c = x)
      BY <1>1, <1>2, <1>3, <1>4 DEF One, Live
    <2>3. One(c \in Range(objectQueue))' = One(c \in Range(objectQueue)) - One(c = x)
      BY <1>2 DEF One
    <2>4. Held(c)' = Held(c) - One(c = x)
      BY <1>1, <2>3 DEF Held, One
    <2> QED
      BY <2>1, <2>2, <2>4 DEF One
  <1> QED
    BY <1>1, <1>2, <1>5 DEF Whole, Closures

\* A restart hands over to the collector what has not been fired.
LEMMA WholeReposition ==
    ASSUME TypeOK, PoolOK(pool), Whole, Reposition
    PROVE  Whole'
  <1>1. /\ returned' = returned \cup sortedEvents \cup Range(eventQueue) /\ sortedEvents' = {} /\ eventQueue' = <<>>
        /\ UNCHANGED <<pending, objectQueue, hand, pc, spc, closure, adding, pool, asyncHeap, messageHeap>>
    BY DEF Reposition, Elements, Range, queueVars, producerVars
  <1>2. Once(eventQueue') /\ Range(eventQueue') = {}
    BY <1>1 DEF Once, Range
  <1>3. ASSUME NEW c \in Closures \ {NULL} PROVE Held(c)' = One(Live(c))'
    <2>1. Held(c) = One(Live(c)) /\ One(Live(c)) \in {0, 1}
      BY DEF Whole, One
    <2>2. One(Live(c))' = One(Live(c))
      BY <1>1 DEF One, Live
    <2>3. One(c \in returned) + One(c \in sortedEvents) + One(c \in Range(eventQueue)) <= 1
      BY <2>1 DEF Held, One
    <2>4. One(c \in returned)' = One(c \in returned) + One(c \in sortedEvents) + One(c \in Range(eventQueue))
      BY <1>1, <2>3 DEF One
    <2>5. One(c \in sortedEvents)' = 0 /\ One(c \in Range(eventQueue))' = 0
      BY <1>1, <1>2 DEF One
    <2>6. Held(c)' = Held(c)
      BY <1>1, <2>4, <2>5 DEF Held, One
    <2> QED
      BY <2>1, <2>2, <2>6
  <1> QED
    BY <1>1, <1>2, <1>3 DEF Whole, Closures

\* So no action loses a closure or leaves it in two places.
LEMMA AccountStep ==
    ASSUME Inv, [Next]_vars
    PROVE  Accounted'
  <1> SUFFICES ASSUME ~overlapped', fault' = "none" PROVE Whole'
    BY DEF Accounted
  <1>1. TypeOK /\ PoolOK(pool) /\ RingIsFifo
    BY DEF Inv
  <1>2. CASE UNCHANGED vars
    <2>1. Whole
      BY <1>2 DEF Inv, Accounted, vars, queueVars
    <2> QED
      BY <1>2, <2>1 DEF Whole, Held, Live, One, Closures, vars, queueVars, producerVars, closureVars, bufferVars, scriptVars
  <1>3. CASE Next /\ ~UNCHANGED vars
    <2>1. ~overlapped /\ fault = "none"
      <3>1. CASE ScriptThread
        BY <3>1 DEF ScriptThread, SetHandler, Schedule, OnReceive, AddEvent, EndRun, SeeRestart, NoRestart,
                    NextMethod, Recycle, EndMethods, ScriptCode, Undamaged, queueVars
      <3>5. ASSUME NEW p \in Producers, Claim(p) PROVE ~overlapped /\ fault = "none"
        <4>1. overlapped' = (overlapped \/ \E q \in Producers \ {p} : pc[q] = "store") /\ fault = "none"
          BY <3>5 DEF Claim
        <4> QED
          BY <4>1
      <3>6. ASSUME NEW p \in Producers, Store(p) PROVE ~overlapped /\ fault = "none"
        BY <3>6 DEF Store
      <3>2. CASE ProcessThread
        BY <3>2, <3>5, <3>6 DEF ProcessThread, Producers, FireHandler, FireAsync, DropEvent, FetchEvent, FreeClosure, Reposition,
                    ProcessIdle, Undamaged
      <3>3. CASE LibloThread
        BY <3>3, <3>5, <3>6 DEF LibloThread, Producers, Receive, ReceiveEarly, Undamaged
      <3>4. CASE Down
        BY <1>3, <3>4 DEF Down
      <3> QED
        BY <1>3, <3>1, <3>2, <3>3, <3>4 DEF Next
    <2>2. Whole
      BY <2>1 DEF Inv, Accounted
    <2>3. ASSUME UNCHANGED <<pending, objectQueue, eventQueue, hand, pc, closure, adding, sortedEvents, returned,
                             pool, asyncHeap, messageHeap>>,
                 closure = NULL \/ spc' = spc
          PROVE  Whole'
      BY <2>2, <2>3 DEF Whole, Held, Live, One, Closures
    <2>4. ASSUME NEW p \in Producers, Claim(p) PROVE Whole'
      <3>1. /\ pc[p] = "dispatch" /\ \A q \in Producers : pc'[q] = IF q = p THEN "store" ELSE pc[q]
            /\ UNCHANGED <<pending, objectQueue, eventQueue, hand, spc, closure, adding, sortedEvents, returned,
                           pool, asyncHeap, messageHeap>>
        BY <1>1, <2>4 DEF Claim, TypeOK, closureVars, bufferVars, scriptVars
      <3>2. \A q \in Producers : pc'[q] = "idle" <=> hand'[q] = NULL
        BY <2>2, <3>1 DEF Whole
      <3> QED
        BY <2>2, <3>1, <3>2 DEF Whole, Held, Live, One, Closures
    <2>5. CASE ScriptThread
      <3>1. CASE (\E kind \in Kinds : SetHandler(kind)) \/ OnReceive
        BY <2>3, <3>1 DEF SetHandler, OnReceive, queueVars, producerVars, closureVars, bufferVars
      <3>2. CASE EndRun \/ SeeRestart \/ NoRestart
        <4>1. closure = NULL
          BY <2>2, <3>2 DEF Whole, EndRun, SeeRestart, NoRestart
        <4> QED
          BY <2>3, <3>2, <4>1 DEF EndRun, SeeRestart, NoRestart, queueVars, producerVars, closureVars, bufferVars
      <3> QED
        BY <1>1, <2>1, <2>2, <2>5, <3>1, <3>2, WholeSchedule, WholeAddEvent, WholeNextMethod, WholeRecycle,
           WholeEndMethods DEF ScriptThread
    <2>6. ASSUME NEW p \in Producers, Store(p) PROVE Whole'
      BY <1>1, <2>1, <2>2, <2>6, WholeStore
    <2>7. CASE ProcessThread
      <3>1. ASSUME NEW kind \in Kinds, FireHandler(kind) PROVE Whole'
        BY <1>1, <2>2, <3>1, WholeFireHandler
      <3>2. ASSUME NEW a \in Asyncs, FireAsync(a) PROVE Whole'
        BY <1>1, <2>2, <3>2, WholeFireAsync
      <3>5. ASSUME NEW a \in Asyncs, DropEvent(a) PROVE Whole'
        BY <1>1, <2>2, <3>5, WholeDropEvent
      <3>3. CASE FetchEvent \/ FreeClosure \/ Reposition
        BY <1>1, <2>2, <3>3, WholeFetchEvent, WholeFreeClosure, WholeReposition
      <3>4. "process" \in Producers
        BY DEF Producers
      <3> QED
        BY <2>4, <2>6, <2>7, <3>1, <3>2, <3>3, <3>4, <3>5 DEF ProcessThread
    <2>9. CASE LibloThread
      <3>1. ASSUME NEW m \in Messages, Receive(m) PROVE Whole'
        BY <1>1, <2>2, <3>1, WholeReceive
      <3>2. CASE ReceiveEarly
        BY <3>2 DEF ReceiveEarly
      <3>3. "liblo" \in Producers
        BY DEF Producers
      <3> QED
        BY <2>4, <2>6, <2>9, <3>1, <3>2, <3>3 DEF LibloThread
    <2>8. CASE Down
      BY <1>3, <2>8 DEF Down
    <2> QED
      BY <1>3, <2>5, <2>7, <2>8, <2>9 DEF Next
  <1> QED
    BY <1>2, <1>3

\* Nothing but malloc and free touches the pool, one call at a time.
LEMMA PoolStep ==
    ASSUME Inv, [Next]_vars
    PROVE  PoolOK(pool')
  <1>1. TypeOK /\ PoolOK(pool)
    BY DEF Inv
  <1>2. ASSUME NEW kind \in Kinds, FireHandler(kind) PROVE PoolOK(pool')
    <2>1. CASE Located(pool, ClosureWords[kind]) = NoBlock
      BY <1>1, <1>2, <2>1 DEF FireHandler
    <2>2. CASE Located(pool, ClosureWords[kind]) # NoBlock
      <3>1. ClosureWords[kind] \in Nat
        BY KindAssumption
      <3>2. pool' = Malloc(pool, ClosureWords[kind])
        BY <1>2, <2>2 DEF FireHandler
      <3> QED
        BY <1>1, <2>2, <3>1, <3>2, MallocSound
    <2> QED
      BY <2>1, <2>2
  <1>3. CASE FreeClosure
    <2>1. Whole /\ objectQueue # <<>> /\ pool' = FreeBlock(pool, Head(objectQueue))
      BY <1>3 DEF FreeClosure, ProcessIdle, Undamaged, Inv, Accounted
    <2>2. Head(objectQueue) \in Used(pool)
      BY <1>1, <2>1, GivenBack
    <2> QED
      BY <1>1, <2>1, <2>2, FreeSound
  <1>4. pool' = pool \/ FreeClosure \/ \E kind \in Kinds : FireHandler(kind)
    <2>1. CASE ScriptThread
      BY <2>1 DEF ScriptThread, SetHandler, Schedule, OnReceive, AddEvent, EndRun, SeeRestart, NoRestart,
                  NextMethod, Recycle, EndMethods, closureVars
    <2>2. CASE ProcessThread
      BY <2>2 DEF ProcessThread, FireAsync, DropEvent, FetchEvent, Reposition, Claim, Store, closureVars
    <2>3. CASE LibloThread
      BY <2>3 DEF LibloThread, Receive, ReceiveEarly, Claim, Store, closureVars
    <2>4. CASE Down \/ UNCHANGED vars
      BY <2>4 DEF Down, vars, closureVars
    <2> QED
      BY <2>1, <2>2, <2>3, <2>4 DEF Next
  <1> QED
    BY <1>1, <1>2, <1>3, <1>4

\* Each failure has its one cause.
LEMMA FaultStep ==
    ASSUME Inv, [Next]_vars
    PROVE  FaultsExplained'
  <1>1. TypeOK /\ PoolOK(pool) /\ RingIsFifo /\ FaultsExplained /\ (~overlapped /\ fault = "none" => Whole)
    BY DEF Inv, Accounted
  <1>2. CASE fault # "none"
    <2>1. UNCHANGED vars
      <3>1. CASE ScriptThread
        BY <1>2, <3>1 DEF ScriptThread, SetHandler, Schedule, OnReceive, AddEvent, EndRun, SeeRestart, NoRestart,
                          NextMethod, Recycle, EndMethods, ScriptCode
      <3>2. CASE ProcessThread
        BY <1>2, <3>2 DEF ProcessThread, FireHandler, FireAsync, DropEvent, FetchEvent, FreeClosure, Reposition, Claim,
                          Store, ProcessIdle, Undamaged
      <3>3. CASE LibloThread
        BY <1>2, <3>3 DEF LibloThread, Receive, ReceiveEarly, Claim, Store, Undamaged
      <3> QED
        BY <3>1, <3>2, <3>3 DEF Next, Down
    <2> QED
      BY <1>1, <2>1 DEF FaultsExplained, vars, queueVars, closureVars, scriptVars
  <1>3. CASE fault = "none" /\ fault' = "none"
    BY <1>3 DEF FaultsExplained
  <1>4. CASE fault = "none" /\ fault' # "none"
    <2>1. CASE NextMethod
      <3>1. overlapped
        BY <1>1, <1>4, <2>1, WholeNextMethod
      <3>2. fault' = "garbage" /\ overlapped' = overlapped
        <4>1. PICK c \in Contents(readIndex) : Call(c)
          BY <2>1 DEF NextMethod
        <4>2. fault' = "garbage"
          BY <1>4, <4>1 DEF Call
        <4> QED
          BY <2>1, <4>2 DEF NextMethod
      <3> QED
        BY <3>1, <3>2 DEF FaultsExplained
    <2>2. CASE ReceiveEarly
      BY <2>2 DEF ReceiveEarly, FaultsExplained, scriptVars
    <2>3. ASSUME NEW kind \in Kinds, FireHandler(kind) PROVE FaultsExplained'
      <3>1. Located(pool, ClosureWords[kind]) = NoBlock /\ fault' = "null" /\ pool' = pool
        BY <1>4, <2>3 DEF FireHandler
      <3>2. Used(pool) # {}
        <4> SUFFICES ASSUME Used(pool) = {} PROVE FALSE
          OBVIOUS
        <4>1. ClosureWords[kind] \in Nat
          BY KindAssumption
        <4>2. Located(pool, ClosureWords[kind]) = Located(Create, ClosureWords[kind])
          BY <1>1, <4>1, LocatedAgain
        <4> QED
          BY <3>1, <4>2, RoomAssumption
      <3> QED
        BY <3>1, <3>2 DEF FaultsExplained
    <2>4. NextMethod \/ ReceiveEarly \/ \E kind \in Kinds : FireHandler(kind)
      <3>1. CASE ScriptThread
        BY <1>4, <3>1 DEF ScriptThread, SetHandler, Schedule, OnReceive, AddEvent, EndRun, SeeRestart, NoRestart,
                          Recycle, EndMethods
      <3>2. CASE ProcessThread
        BY <1>4, <3>2 DEF ProcessThread, FireAsync, DropEvent, FetchEvent, FreeClosure, Reposition, Claim, Store
      <3>3. CASE LibloThread
        BY <1>4, <3>3 DEF LibloThread, Receive, Claim, Store
      <3>4. CASE Down \/ UNCHANGED vars
        BY <1>4, <3>4 DEF Down, vars
      <3> QED
        BY <3>1, <3>2, <3>3, <3>4 DEF Next
    <2> QED
      BY <2>1, <2>2, <2>3, <2>4
  <1> QED
    BY <1>2, <1>3, <1>4

\* Every action keeps the invariant.
LEMMA Inductive ==
    ASSUME Inv, [Next]_vars
    PROVE  Inv'
  <1>1. TypeOK'
    BY TypeStep DEF Inv
  <1>2. OneProducer' /\ RingIsFifo'
    BY <1>1, RingStep DEF Inv
  <1> QED
    BY <1>1, <1>2, PoolStep, AccountStep, FaultStep DEF Inv

\* In the beginning there are no closures.
LEMMA WholeInit == Init => Whole
  <1> SUFFICES ASSUME Init PROVE Whole
    OBVIOUS
  <1>1. Once(<<>>) /\ Range(<<>>) = {}
    BY DEF Once, Range
  <1>2. Used(pool) = {}
    BY CreateSound DEF Init
  <1>3. hand["process"] = NULL /\ hand["liblo"] = NULL
    BY DEF Init, Producers
  <1>4. ASSUME NEW c \in Closures \ {NULL} PROVE Held(c) = One(Live(c))
    BY <1>1, <1>2, <1>3 DEF Init, Held, One, Live
  <1> QED
    BY <1>1, <1>4 DEF Init, Whole

\* The invariant holds in every state the program reaches.
THEOREM Invariant == Spec => []Inv
  <1>1. Init => Inv
    BY TypeInit, WholeInit DEF Inv, Accounted
  <1>2. Inv /\ [Next]_vars => Inv'
    BY Inductive
  <1> QED
    BY <1>1, <1>2, PTL DEF Spec

\* Every variable keeps its type, whatever two producers do to the ring.
THEOREM TypeCorrect == Spec => []TypeOK
  <1>1. Inv => TypeOK
    BY DEF Inv
  <1> QED
    BY <1>1, Invariant, PTL

\* Whatever closures come and go, in whatever order and of whatever sizes, the blocks
\* of the pool lie one behind the other and fill it, no two free ones are neighbours,
\* and the free lists and their bitmaps are exact: what tlsf_check and tlsf_check_pool
\* test holds after every tlsf_malloc and tlsf_free.
THEOREM PoolStaysSound == Spec => []PoolSound
  <1>1. Inv => PoolSound
    BY Checked DEF Inv, PoolSound
  <1> QED
    BY <1>1, Invariant, PTL

\* A closure is in a hand once for each producer that has it.
LEMMA CountHands ==
    ASSUME NEW c
    PROVE  Cardinality({p \in Producers : hand[p] = c}) = One(hand["process"] = c) + One(hand["liblo"] = c)
  <1> DEFINE S == {p \in Producers : hand[p] = c}
  <1>1. Producers = {"process", "liblo"}
    BY DEF Producers
  <1>2. CASE hand["process"] = c /\ hand["liblo"] = c
    <2>1. S = {"process"} \cup {"liblo"}
      BY <1>1, <1>2
    <2>2. IsFiniteSet({"process"}) /\ Cardinality({"process"}) = 1 /\ "liblo" \notin {"process"}
      BY FS_Singleton
    <2>3. Cardinality({"process"} \cup {"liblo"}) = Cardinality({"process"}) + 1
      BY <2>2, FS_AddElement
    <2>4. Cardinality(S) = 2
      BY <2>1, <2>2, <2>3
    <2> QED
      BY <1>2, <2>4 DEF One
  <1>3. CASE hand["process"] = c /\ hand["liblo"] # c
    <2>1. S = {"process"}
      BY <1>1, <1>3
    <2> QED
      BY <1>3, <2>1, FS_Singleton DEF One
  <1>4. CASE hand["process"] # c /\ hand["liblo"] = c
    <2>1. S = {"liblo"}
      BY <1>1, <1>4
    <2> QED
      BY <1>4, <2>1, FS_Singleton DEF One
  <1>5. CASE hand["process"] # c /\ hand["liblo"] # c
    <2>1. S = {}
      BY <1>1, <1>5
    <2> QED
      BY <1>5, <2>1, FS_EmptySet DEF One
  <1> QED
    BY <1>2, <1>3, <1>4, <1>5

\* Dispatch counts indices where the invariant asks for elements: no queue holds one twice.
LEMMA PlacesCounted ==
    ASSUME TypeOK, RingIsFifo, ~overlapped, Whole, NEW c
    PROVE  Places(c) = Held(c)
  <1> DEFINE Addressed == 0..PoolWords
  <1>1. /\ Once(pending) /\ pending \in Seq(Closures) /\ Once(objectQueue) /\ objectQueue \in Seq(Addressed)
        /\ Once(eventQueue) /\ eventQueue \in Seq(Asyncs) /\ Ring = pending
    BY DEF TypeOK, Whole, RingIsFifo
  <1> HIDE DEF Addressed
  <1>2. Cardinality({i \in DOMAIN Ring : Ring[i] = c}) = One(c \in Range(pending))
    BY <1>1, CountOnce DEF One
  <1>3. Cardinality({i \in DOMAIN objectQueue : objectQueue[i] = c}) = One(c \in Range(objectQueue))
    <2>1. Once(objectQueue) /\ objectQueue \in Seq(Addressed)
      BY <1>1
    <2>2. Cardinality({i \in DOMAIN objectQueue : objectQueue[i] = c})
          = IF c \in Range(objectQueue) THEN 1 ELSE 0
      BY ONLY <2>1, CountOnce
    <2> QED
      BY <2>2 DEF One
  <1>4. Cardinality({i \in DOMAIN eventQueue : eventQueue[i] = c}) = One(c \in Range(eventQueue))
    BY <1>1, CountOnce DEF One
  <1>5. Cardinality({p \in Producers : hand[p] = c}) = One(hand["process"] = c) + One(hand["liblo"] = c)
    BY CountHands
  <1>6. Places(c) = One(c \in Range(pending)) + (One(hand["process"] = c) + One(hand["liblo"] = c))
                    + One(c \in Range(objectQueue)) + One(c \in Range(eventQueue))
                    + One(closure = c) + One(adding = c) + One(c \in sortedEvents) + One(c \in returned)
    BY <1>2, <1>3, <1>4, <1>5 DEF Places, One
  <1> QED
    BY <1>6 DEF Held, One

\* While one producer at a time stores and nothing has failed, every allocated closure is
\* in exactly one place, on its way to its execution or back, and no place has a closure
\* that is not allocated: none leaks, none is executed twice, none is used after its end.
THEOREM NoClosureLost == Spec => []ClosuresAccounted
  <1>1. Inv => ClosuresAccounted
    <2> SUFFICES ASSUME Inv, ~overlapped, fault = "none", NEW c \in Closures \ {NULL}
                 PROVE  Places(c) = IF Live(c) THEN 1 ELSE 0
      BY DEF ClosuresAccounted
    <2>1. Whole /\ TypeOK /\ RingIsFifo
      BY DEF Inv, Accounted
    <2>2. Places(c) = Held(c) /\ Held(c) = One(Live(c))
      BY <2>1, PlacesCounted DEF Whole
    <2> QED
      BY <2>2 DEF One
  <1> QED
    BY <1>1, Invariant, PTL

\* The script thread executes closures in the order in which they were dispatched, none
\* left out, through every wrap of the indices, unless two producers overlapped in push.
THEOREM DispatchedInOrder == Spec => []RingIsFifo
  <1>1. Inv => RingIsFifo
    BY DEF Inv
  <1> QED
    BY <1>1, Invariant, PTL

\* The program can only fail by two producers in push, by a message before onReceive, or
\* by a pool that is not empty: tlsf_malloc never fails on a pool that is all free.
THEOREM OnlyKnownFaults == Spec => []FaultsExplained
  <1>1. Inv => FaultsExplained
    BY DEF Inv
  <1> QED
    BY <1>1, Invariant, PTL
=================================================================================
