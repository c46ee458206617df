------------------------------ MODULE MixingProofs ------------------------------
(***************************************************************************)
(* Theorems about Mixing, for every number of connections, queue sizes,    *)
(* period, grace and input: connections are neither lost nor deleted       *)
(* twice, and gains and controls reach the unit in the period they are due *)
(* in.                                                                     *)
(***************************************************************************)
EXTENDS Mixing, FiniteSetTheorems, SequenceTheorems, TLAPS

--------------------------------------------------------------------------------
(***************************************************************************)
(* Facts about natural numbers and sequences.                              *)
(***************************************************************************)

\* A non-empty set of natural numbers has a least element.
LEMMA LeastNatural ==
    ASSUME NEW T, T \subseteq Nat, T # {}
    PROVE  \E m \in T : \A n \in T : m <= n
  <1> DEFINE Less == {ss \in Nat \X Nat : ss[1] < ss[2]}
  <1>1. IsWellFoundedOn(Less, Nat)
    BY NatLessThanWellFounded, Zenon DEF OpToRel
  <1>2. PICK m \in T : \A n \in T : ~(<<n, m>> \in Less)
    <2> HIDE DEF Less
    <2> QED
      BY <1>1, WFMin
  <1>3. \A n \in T : n < m => <<n, m>> \in Less
    OBVIOUS
  <1> HIDE DEF Less
  <1>4. \A n \in T : ~(n < m)
    BY <1>2, <1>3
  <1>5. ASSUME NEW n \in T PROVE m <= n
    <2>1. n \in Nat /\ m \in Nat /\ ~(n < m)
      BY <1>4
    <2> QED
      BY <2>1
  <1> QED
    BY <1>5

\* Indices from a on that leave no gap are an interval, as long as there are of them.
LEMMA NoGaps ==
    ASSUME NEW a \in Nat, NEW b \in Nat, NEW S \in SUBSET ((a + 1)..b),
           \A i \in S : \A j \in (a + 1)..i : j \in S
    PROVE  /\ Cardinality(S) \in Nat
           /\ S = (a + 1)..(a + Cardinality(S))
  <1> DEFINE T == {n \in Nat : n >= a /\ n + 1 \notin S}
  <1>1. PICK m \in T : \A n \in T : m <= n
    <2>1. T # {}
      <3>1. a <= b \/ b < a
        OBVIOUS
      <3>2. CASE a <= b
        BY <3>2
      <3>3. CASE b < a
        <4>1. a \in T
          BY <3>3
        <4> QED
          BY <4>1
      <3> QED
        BY <3>1, <3>2, <3>3
    <2>2. T \subseteq Nat
      OBVIOUS
    <2> HIDE DEF T
    <2> QED
      BY <2>1, <2>2, LeastNatural
  <1>2. \A i \in (a + 1)..m : i \in S
    <2> SUFFICES ASSUME NEW i \in (a + 1)..m PROVE i \in S
      OBVIOUS
    <2>1. i - 1 \in Nat /\ i - 1 >= a /\ (i - 1) + 1 = i /\ i - 1 < m
      BY <1>1
    <2> QED
      BY <1>1, <2>1
  <1>3. \A i \in S : i \in (a + 1)..m
    <2> SUFFICES ASSUME NEW i \in S PROVE i \in (a + 1)..m
      OBVIOUS
    <2>1. i \in Nat /\ i >= a + 1 /\ m \in Nat /\ m >= a /\ m + 1 \notin S
      BY <1>1
    <2>2. ~(m + 1 <= i)
      BY <2>1
    <2> QED
      BY <2>1, <2>2
  <1>4. S = (a + 1)..m
    BY <1>2, <1>3
  <1>5. Cardinality((a + 1)..m) = m - a
    <2>1. m \in Nat /\ m >= a
      BY <1>1
    <2>2. Cardinality((a + 1)..m) = IF (a + 1) > m THEN 0 ELSE m - (a + 1) + 1
      BY <2>1, FS_Interval
    <2> QED
      BY <2>1, <2>2
  <1>6. m \in Nat /\ m >= a
    BY <1>1
  <1> QED
    BY <1>4, <1>5, <1>6

\* No element comes twice.
Once(s) == \A i, j \in DOMAIN s : s[i] = s[j] => i = j

\* Something new at the end.
LEMMA AppendOnce ==
    ASSUME NEW S, NEW s \in Seq(S), NEW e \in S
    PROVE  /\ Append(s, e) \in Seq(S)
           /\ Range(Append(s, e)) = Range(s) \cup {e}
           /\ Once(s) /\ e \notin Range(s) => Once(Append(s, e))
  <1>1. /\ Append(s, e) \in Seq(S)
        /\ DOMAIN Append(s, e) = 1..(Len(s) + 1) /\ DOMAIN s = 1..Len(s)
        /\ Append(s, e)[Len(s) + 1] = e
        /\ \A i \in 1..Len(s) : Append(s, e)[i] = s[i]
    BY AppendProperties
  <1>2. \A i : i \in 1..(Len(s) + 1) <=> i \in 1..Len(s) \/ i = Len(s) + 1
    OBVIOUS
  <1> DEFINE t == Append(s, e)
  <1> HIDE DEF t
  <1>3. Range(t) = Range(s) \cup {e}
    BY <1>1, <1>2, Zenon DEF Range, t
  <1>4. Once(s) /\ e \notin Range(s) => Once(t)
    BY <1>1, <1>2, Zenon DEF Range, Once, t
  <1> QED
    BY <1>1, <1>3, <1>4 DEF t

\* Two lists that share nothing, one behind the other.
LEMMA ConcatOnce ==
    ASSUME NEW S, NEW s \in Seq(S), NEW t \in Seq(S)
    PROVE  /\ s \o t \in Seq(S)
           /\ Range(s \o t) = Range(s) \cup Range(t)
           /\ Once(s) /\ Once(t) /\ Range(s) \cap Range(t) = {} => Once(s \o t)
  <1> DEFINE u == s \o t
  <1>1. /\ u \in Seq(S) /\ Len(u) = Len(s) + Len(t)
        /\ \A i \in 1..(Len(s) + Len(t)) : u[i] = IF i <= Len(s) THEN s[i] ELSE t[i - Len(s)]
    BY ConcatProperties
  <1>2. DOMAIN s = 1..Len(s) /\ DOMAIN t = 1..Len(t) /\ Len(s) \in Nat /\ Len(t) \in Nat
    OBVIOUS
  <1> HIDE DEF u
  <1>3. DOMAIN u = 1..(Len(s) + Len(t))
    BY <1>1, <1>2
  <1>4. \A i \in DOMAIN s : i \in DOMAIN u /\ u[i] = s[i]
    BY <1>1, <1>2, <1>3
  <1>5. \A i \in DOMAIN t : i + Len(s) \in DOMAIN u /\ u[i + Len(s)] = t[i]
    <2> SUFFICES ASSUME NEW i \in 1..Len(t) PROVE i + Len(s) \in DOMAIN u /\ u[i + Len(s)] = t[i]
      BY <1>2
    <2>1. i + Len(s) \in 1..(Len(s) + Len(t)) /\ ~(i + Len(s) <= Len(s)) /\ (i + Len(s)) - Len(s) = i
      BY <1>2
    <2> QED
      BY <1>1, <1>3, <2>1
  <1>6. \A i \in DOMAIN u : \/ i \in DOMAIN s /\ u[i] = s[i]
                            \/ i - Len(s) \in DOMAIN t /\ u[i] = t[i - Len(s)]
    <2> SUFFICES ASSUME NEW i \in 1..(Len(s) + Len(t))
                 PROVE  \/ i \in 1..Len(s) /\ u[i] = s[i]
                        \/ i - Len(s) \in 1..Len(t) /\ u[i] = t[i - Len(s)]
      BY <1>2, <1>3
    <2>1. u[i] = IF i <= Len(s) THEN s[i] ELSE t[i - Len(s)]
      BY <1>1
    <2>2. (i <= Len(s) => i \in 1..Len(s)) /\ (~(i <= Len(s)) => i - Len(s) \in 1..Len(t))
      BY <1>2
    <2> QED
      BY <2>1, <2>2
  <1>7. Range(u) = Range(s) \cup Range(t)
    BY <1>4, <1>5, <1>6 DEF Range
  <1>8. ASSUME Once(s), Once(t), Range(s) \cap Range(t) = {} PROVE Once(u)
    <2> SUFFICES ASSUME NEW i \in DOMAIN u, NEW j \in DOMAIN u, u[i] = u[j] PROVE i = j
      BY DEF Once
    <2>1. CASE i \in DOMAIN s /\ j \in DOMAIN s /\ s[i] = s[j]
      BY <1>8, <2>1 DEF Once
    <2>2. CASE i - Len(s) \in DOMAIN t /\ j - Len(s) \in DOMAIN t /\ t[i - Len(s)] = t[j - Len(s)]
      <3>1. i - Len(s) = j - Len(s)
        BY <1>8, <2>2, Zenon DEF Once
      <3> QED
        BY <1>2, <1>3, <3>1
    <2>3. ASSUME NEW k \in DOMAIN s, NEW l \in DOMAIN t PROVE s[k] # t[l]
      BY <1>8 DEF Range
    <2> QED
      BY <1>6, <2>1, <2>2, <2>3
  <1> QED
    BY <1>1, <1>7, <1>8 DEF u

\* How often something is in a list in which nothing comes twice.
LEMMA CountOnce ==
    ASSUME NEW S, NEW s \in Seq(S), Once(s), NEW e
    PROVE  Cardinality({i \in DOMAIN s : s[i] = e}) = IF e \in Range(s) THEN 1 ELSE 0
  <1>1. CASE e \in Range(s)
    <2>1. PICK i \in DOMAIN s : s[i] = e
      BY <1>1 DEF Range
    <2>2. {j \in DOMAIN s : s[j] = e} = {i}
      BY <2>1 DEF Once
    <2> QED
      BY <1>1, <2>2, FS_Singleton
  <1>2. CASE e \notin Range(s)
    <2>1. {j \in DOMAIN s : s[j] = e} = {}
      BY <1>2 DEF Range
    <2> QED
      BY <1>2, <2>1, FS_EmptySet
  <1> QED
    BY <1>1, <1>2

\* A list without its first n elements.
LEMMA Dropped ==
    ASSUME NEW S, NEW s \in Seq(S), NEW n \in 0..Len(s)
    PROVE  /\ SubSeq(s, n + 1, Len(s)) \in Seq(S)
           /\ Len(SubSeq(s, n + 1, Len(s))) = Len(s) - n
           /\ \A j \in 1..(Len(s) - n) : SubSeq(s, n + 1, Len(s))[j] = s[n + j]
  OBVIOUS

\* t is s with e put in after the first n elements.
PutAfter(s, e, n, t) ==
    /\ Len(t) = Len(s) + 1
    /\ \A j \in 1..n : t[j] = s[j]
    /\ t[n + 1] = e
    /\ \A j \in (n + 1)..Len(s) : t[j + 1] = s[j]

\* An element put in between a beginning and the rest of a list comes after the beginning.
LEMMA PutShape ==
    ASSUME NEW S, NEW s \in Seq(S), NEW e \in S, NEW n \in 0..Len(s)
    PROVE  /\ SubSeq(s, 1, n) \o <<e>> \o SubSeq(s, n + 1, Len(s)) \in Seq(S)
           /\ PutAfter(s, e, n, SubSeq(s, 1, n) \o <<e>> \o SubSeq(s, n + 1, Len(s)))
  <1> DEFINE a == SubSeq(s, 1, n)
             c == SubSeq(s, n + 1, Len(s))
  <1>0. Len(s) \in Nat /\ n \in Nat /\ n <= Len(s)
    OBVIOUS
  <1>1. a \in Seq(S) /\ Len(a) = n /\ \A j \in 1..n : a[j] = s[j]
    OBVIOUS
  <1>2. c \in Seq(S) /\ Len(c) = Len(s) - n /\ \A j \in 1..(Len(s) - n) : c[j] = s[n + j]
    BY Dropped
  <1> HIDE DEF a, c
  <1> DEFINE b == a \o <<e>>
  <1>3. b \in Seq(S) /\ Len(b) = n + 1 /\ b[n + 1] = e /\ \A j \in 1..n : b[j] = s[j]
    BY <1>0, <1>1
  <1> HIDE DEF b
  <1> DEFINE d == b \o c
  <1>4. /\ d \in Seq(S)
        /\ Len(d) = Len(b) + Len(c)
        /\ \A i \in 1..(Len(b) + Len(c)) : d[i] = IF i <= Len(b) THEN b[i] ELSE c[i - Len(b)]
    BY <1>2, <1>3, ConcatProperties
  <1> HIDE DEF d
  <1>5. Len(b) + Len(c) = Len(s) + 1
    BY <1>0, <1>2, <1>3
  <1>6. \A i \in 1..(n + 1) : d[i] = b[i]
    <2> SUFFICES ASSUME NEW i \in 1..(n + 1) PROVE d[i] = b[i]
      OBVIOUS
    <2>1. i \in 1..(Len(b) + Len(c)) /\ i <= Len(b)
      BY <1>0, <1>3, <1>5
    <2> QED
      BY <1>4, <2>1
  <1>7. \A j \in (n + 1)..Len(s) : d[j + 1] = s[j]
    <2> SUFFICES ASSUME NEW j \in (n + 1)..Len(s) PROVE d[j + 1] = s[j]
      OBVIOUS
    <2>1. /\ j + 1 \in 1..(Len(b) + Len(c)) /\ ~(j + 1 <= Len(b))
          /\ (j + 1) - Len(b) = j - n /\ j - n \in 1..(Len(s) - n) /\ n + (j - n) = j
      BY <1>0, <1>3, <1>5
    <2>2. d[j + 1] = c[(j + 1) - Len(b)]
      BY <1>4, <2>1
    <2> QED
      BY <1>2, <2>1, <2>2
  <1>8. \A j \in 1..n : j \in 1..(n + 1)
    BY <1>0
  <1>9. n + 1 \in 1..(n + 1)
    BY <1>0
  <1>10. PutAfter(s, e, n, d)
    BY <1>3, <1>4, <1>5, <1>6, <1>7, <1>8, <1>9 DEF PutAfter
  <1> QED
    BY <1>4, <1>10 DEF a, b, c, d

\* Where the elements of t come from.
LEMMA PutSource ==
    ASSUME NEW S, NEW s \in Seq(S), NEW e, NEW n \in 0..Len(s), NEW t, PutAfter(s, e, n, t),
           NEW k \in 1..Len(t)
    PROVE  \/ k \in 1..n /\ k \in 1..Len(s) /\ t[k] = s[k]
           \/ k = n + 1 /\ t[k] = e
           \/ k > n + 1 /\ k - 1 \in (n + 1)..Len(s) /\ k - 1 \in 1..Len(s) /\ t[k] = s[k - 1]
  <1>1. Len(s) \in Nat /\ n \in Nat /\ n <= Len(s) /\ Len(t) = Len(s) + 1
    BY DEF PutAfter
  <1>2. CASE k > n + 1
    <2>1. k - 1 \in (n + 1)..Len(s) /\ k - 1 \in 1..Len(s) /\ (k - 1) + 1 = k
      BY <1>1, <1>2
    <2> QED
      BY <1>2, <2>1 DEF PutAfter
  <1>3. CASE k <= n
    BY <1>1, <1>3 DEF PutAfter
  <1>4. CASE k = n + 1
    BY <1>4 DEF PutAfter
  <1> QED
    BY <1>1, <1>2, <1>3, <1>4

--------------------------------------------------------------------------------
(***************************************************************************)
(* Who holds a connection.                                                 *)
(***************************************************************************)
\* The connection that the script has made and not yet given to the queue.
Made == IF adding # NULL /\ adding.made THEN {adding.conn} ELSE {}

Listed == Range(connQueue) \cup Range(connList)

ConnTypes ==
    /\ connQueue \in Seq(Conns) /\ connList \in Seq(Conns)
    /\ adding = NULL \/ adding \in [conn : Conns, cc : Ccs, cell : Cells, made : BOOLEAN]
    /\ connMap \in Conns \cup {NULL}
    /\ heap \subseteq Conns

HeldOnce ==
    /\ Once(connQueue) /\ Once(connList)
    /\ Range(connQueue) \cap Range(connList) = {}
    /\ Listed \cap recycled = {}
    /\ Made \cap (Listed \cup recycled) = {}
    /\ heap = Listed \cup recycled \cup Made

ConnInv == ConnTypes /\ HeldOnce

\* What getFirst makes of queue and list.
LEMMA ReverseOnce ==
    ASSUME NEW S, NEW s \in Seq(S)
    PROVE  /\ Reverse(s) \in Seq(S)
           /\ Range(Reverse(s)) = Range(s)
           /\ Once(s) => Once(Reverse(s))
  <1> DEFINE n == Len(s)
             r == Reverse(s)
  <1>1. n \in Nat /\ DOMAIN s = 1..n /\ \A i \in 1..n : s[i] \in S
    OBVIOUS
  <1>2. r = [i \in 1..n |-> s[(n - i) + 1]]
    BY DEF Reverse
  <1> HIDE DEF n, r
  <1>3. \A i \in 1..n : (n - i) + 1 \in 1..n /\ (n - ((n - i) + 1)) + 1 = i
    BY <1>1
  <1>4. r \in [1..n -> S]
    BY <1>1, <1>2, <1>3
  <1>5. r \in Seq(S)
    BY <1>1, <1>4, SeqDef
  <1>6. DOMAIN r = 1..n /\ \A i \in 1..n : r[i] = s[(n - i) + 1] /\ s[i] = r[(n - i) + 1]
    BY <1>2, <1>3
  <1>7. Range(r) = Range(s)
    BY <1>1, <1>3, <1>6 DEF Range
  <1>8. Once(s) => Once(r)
    <2> SUFFICES ASSUME Once(s), NEW i \in 1..n, NEW j \in 1..n, r[i] = r[j] PROVE i = j
      BY <1>6 DEF Once
    <2>1. (n - i) + 1 = (n - j) + 1
      BY <1>1, <1>3, <1>6 DEF Once
    <2> QED
      BY <1>1, <2>1
  <1> QED
    BY <1>5, <1>7, <1>8 DEF r

LEMMA FetchedOnce ==
    ASSUME ConnInv
    PROVE  Fetched \in Seq(Conns) /\ Range(Fetched) = Listed /\ Once(Fetched)
  <1>1. /\ Reverse(connQueue) \in Seq(Conns) /\ Range(Reverse(connQueue)) = Range(connQueue)
        /\ Once(Reverse(connQueue))
    BY ReverseOnce DEF ConnInv, ConnTypes, HeldOnce
  <1> QED
    BY <1>1, ConcatOnce DEF Fetched, Listed, ConnInv, ConnTypes, HeldOnce

\* An action of the process thread that fetches the queue, and what that leaves.
Fetch == connList' = Fetched /\ connQueue' = <<>> /\ UNCHANGED <<connMap, adding, heap, recycled>>

LEMMA EmptyRange == Range(<<>>) = {} /\ Once(<<>>)
  BY DEF Range, Once

LEMMA FetchKeeps ==
    ASSUME ConnInv, Fetch
    PROVE  ConnInv' /\ Listed' = Listed /\ Made' = Made
  <1>1. Range(connList') = Listed /\ Range(connQueue') = {}
    BY FetchedOnce, EmptyRange DEF Fetch
  <1>2. Listed' = Listed /\ Made' = Made
    BY <1>1 DEF Listed, Fetch, Made
  <1>3. ConnTypes'
    BY FetchedOnce DEF ConnInv, ConnTypes, Fetch
  <1>4. HeldOnce'
    BY <1>1, <1>2, FetchedOnce, EmptyRange DEF ConnInv, HeldOnce, Fetch
  <1> QED
    BY <1>2, <1>3, <1>4 DEF ConnInv

LEMMA ConnInit == Init => ConnInv
  BY EmptyRange DEF Init, ConnInv, ConnTypes, HeldOnce, Listed, Made

\* Steps that leave the connections where they are.
Kept == UNCHANGED <<connMap, adding, connQueue, connList, heap, recycled>>

\* Every step is of one of these kinds, as far as connections go.
LEMMA NextCases ==
    ASSUME [Next]_vars
    PROVE  \/ Kept \/ Fetch \/ PushConnection \/ PushMapping \/ FreeCollected \/ Restore \/ Reposition
           \/ \E cc \in Ccs, cell \in Cells : AddController(cc, cell)
  <1> USE DEF Kept, connVars, scriptVars, periodVars
  <1>1. ASSUME NEW cell \in Cells, NEW gain \in Gains, SetControlValue(cell, gain) PROVE Kept
    BY <1>1 DEF SetControlValue
  <1>2. ASSUME NEW at \in Offsets, NEW cell \in Cells, NEW gain \in Gains, Schedule(at, cell, gain) PROVE Kept
    BY <1>2 DEF Schedule
  <1>3. CASE EndScriptCode \/ Execute \/ PullMappings
    BY <1>3 DEF EndScriptCode, Execute, PullMappings
  <1>4. CASE MixerControls \/ PluginControls \/ FrameControls
    BY <1>4 DEF MixerControls, PluginControls, FrameControls, Fetch
  <1>5. CASE PluginEvents \/ FrameGain \/ NextFrame \/ EndPeriod
    BY <1>5 DEF PluginEvents, FrameGain, NextFrame, EndPeriod
  <1>6. CASE Down \/ UNCHANGED vars
    BY <1>6 DEF Down, vars
  <1> QED
    BY <1>1, <1>2, <1>3, <1>4, <1>5, <1>6 DEF Next, Script, Period

LEMMA ConnStep == ConnInv /\ [Next]_vars => ConnInv'
  <1> SUFFICES ASSUME ConnInv, [Next]_vars PROVE ConnInv'
    OBVIOUS
  <1>1. CASE Kept
    BY <1>1 DEF Kept, ConnInv, ConnTypes, HeldOnce, Listed, Made
  <1>2. CASE Fetch
    BY <1>2, FetchKeeps
  <1>3. ASSUME NEW cc \in Ccs, NEW cell \in Cells, AddController(cc, cell) PROVE ConnInv'
    <2>1. adding = NULL /\ Made = {} /\ connQueue' = connQueue /\ connList' = connList /\ recycled' = recycled
      BY <1>3 DEF AddController, ScriptCode, Made
    <2>2. CASE connMap = NULL
      <3>1. PICK c \in Conns \ heap :
              /\ heap' = heap \cup {c} /\ connMap' = c
              /\ adding' = [conn |-> c, cc |-> cc, cell |-> cell, made |-> TRUE]
        BY <1>3, <2>2 DEF AddController
      <3>2. adding' \in [conn : Conns, cc : Ccs, cell : Cells, made : BOOLEAN]
        BY <3>1
      <3>3. Made' = {c}
        BY <3>1, <3>2, NullAssumption DEF Made
      <3> QED
        BY <2>1, <3>1, <3>2, <3>3 DEF ConnInv, ConnTypes, HeldOnce, Listed
    <2>3. CASE connMap # NULL
      <3>1. /\ heap' = heap /\ connMap' = connMap
            /\ adding' = [conn |-> connMap, cc |-> cc, cell |-> cell, made |-> FALSE]
        BY <1>3, <2>3 DEF AddController
      <3>2. adding' \in [conn : Conns, cc : Ccs, cell : Cells, made : BOOLEAN]
        BY <2>3, <3>1 DEF ConnInv, ConnTypes
      <3>3. Made' = {}
        BY <3>1 DEF Made
      <3> QED
        BY <2>1, <3>1, <3>2, <3>3 DEF ConnInv, ConnTypes, HeldOnce, Listed
    <2> QED
      BY <2>2, <2>3
  <1>4. CASE PushConnection
    <2>1. /\ adding.conn \in Conns /\ Made = {adding.conn} /\ adding.conn \notin Range(connQueue)
          /\ connQueue' = Append(connQueue, adding.conn)
          /\ UNCHANGED <<connMap, connList, heap, recycled>>
      BY <1>4 DEF PushConnection, Made, ConnInv, ConnTypes, HeldOnce, Listed
    <2>2. adding' \in [conn : Conns, cc : Ccs, cell : Cells, made : BOOLEAN] /\ Made' = {}
      BY <1>4 DEF PushConnection, Made, ConnInv, ConnTypes
    <2>3. /\ connQueue' \in Seq(Conns) /\ Once(connQueue')
          /\ Range(connQueue') = Range(connQueue) \cup Made
      BY <2>1, AppendOnce DEF ConnInv, ConnTypes, HeldOnce
    <2> QED
      BY <2>1, <2>2, <2>3 DEF ConnInv, ConnTypes, HeldOnce, Listed
  <1>5. CASE PushMapping
    <2>1. Made = {} /\ Made' = {} /\ adding' = NULL
      BY <1>5 DEF PushMapping, Made
    <2> QED
      BY <1>5, <2>1 DEF PushMapping, ConnInv, ConnTypes, HeldOnce, Listed
  <1>6. CASE FreeCollected
    BY <1>6 DEF FreeCollected, ConnInv, ConnTypes, HeldOnce, Listed, Made
  <1>7. CASE Restore
    BY <1>7 DEF Restore, ConnInv, ConnTypes, HeldOnce, Listed, Made
  <1>8. CASE Reposition
    <2>1. /\ recycled' = recycled \cup Listed /\ connList' = <<>> /\ connQueue' = <<>>
          /\ UNCHANGED <<connMap, adding, heap>>
      BY <1>8, FetchedOnce DEF Reposition
    <2> QED
      BY <2>1, EmptyRange DEF ConnInv, ConnTypes, HeldOnce, Listed, Made
  <1> QED
    BY <1>1, <1>2, <1>3, <1>4, <1>5, <1>6, <1>7, <1>8, NextCases

\* A control connection has one holder from addController until it is deleted: the
\* queue and the list of connections, getFirst, recycle and the collector.
THEOREM ConnectionsSound == Spec => []ConnectionsAccounted
  <1>1. ASSUME ConnInv PROVE ConnectionsAccounted
    <2> SUFFICES ASSUME NEW c \in Conns PROVE Holders(c) = IF c \in heap THEN 1 ELSE 0
      BY DEF ConnectionsAccounted
    <2>1. /\ Cardinality({i \in DOMAIN connQueue : connQueue[i] = c})
               = IF c \in Range(connQueue) THEN 1 ELSE 0
          /\ Cardinality({i \in DOMAIN connList : connList[i] = c})
               = IF c \in Range(connList) THEN 1 ELSE 0
      BY <1>1, CountOnce DEF ConnInv, ConnTypes, HeldOnce
    <2>2. (adding # NULL /\ adding.made /\ adding.conn = c) <=> c \in Made
      BY DEF Made
    <2>3. Holders(c) = (IF c \in Range(connQueue) THEN 1 ELSE 0)
                       + (IF c \in Range(connList) THEN 1 ELSE 0)
                       + (IF c \in recycled THEN 1 ELSE 0)
                       + (IF c \in Made THEN 1 ELSE 0)
      BY <2>1, <2>2 DEF Holders
    <2> QED
      BY <1>1, <2>3 DEF ConnInv, HeldOnce, Listed
  <1> QED
    BY ConnInit, ConnStep, <1>1, PTL DEF Spec

--------------------------------------------------------------------------------
(***************************************************************************)
(* What mappings and the map lead to.  Until the next run takes the unit   *)
(* from its cache, a unit that has been repositioned has no connections:   *)
(* the script can only have added one by racing the reposition.            *)
(***************************************************************************)
LiveInv ==
    /\ mapQueue \in Seq([conn : Conns, cc : Ccs, cell : Cells])
    /\ spc = "wait" => adding = NULL
    /\ fault = "dangling" => raced
    /\ ~raced =>
          /\ \A i \in DOMAIN mapQueue : mapQueue[i].conn \in heap \ recycled
          /\ connMap = NULL \/ repositioned \/ connMap \in heap \ recycled
          /\ adding # NULL => adding.conn = connMap /\ ~repositioned
          /\ repositioned => connQueue = <<>> /\ connList = <<>>

LEMMA LiveInit == Init => LiveInv
  BY DEF Init, LiveInv

\* Fetching leaves nothing where there was nothing.
LEMMA FetchedEmpty ==
    ASSUME connQueue = <<>>, connList = <<>>
    PROVE  Fetched = <<>>
  <1>1. Reverse(<<>>) = <<>>
    BY DEF Reverse
  <1> QED
    BY <1>1 DEF Fetched

LEMMA LiveStep == ConnInv /\ LiveInv /\ [Next]_vars => LiveInv'
  <1> SUFFICES ASSUME ConnInv, LiveInv, [Next]_vars PROVE LiveInv'
    OBVIOUS
  <1> USE DEF LiveInv, connVars, scriptVars, periodVars
  <1>1. ASSUME NEW cell \in Cells, NEW gain \in Gains, SetControlValue(cell, gain) PROVE LiveInv'
    BY <1>1 DEF SetControlValue
  <1>2. ASSUME NEW at \in Offsets, NEW cell \in Cells, NEW gain \in Gains, Schedule(at, cell, gain)
        PROVE  LiveInv'
    BY <1>2 DEF Schedule
  <1>3. ASSUME NEW cc \in Ccs, NEW cell \in Cells, AddController(cc, cell) PROVE LiveInv'
    <2>1. raced' <=> raced \/ repositioned
      BY <1>3, Zenon DEF AddController
    <2>2. CASE connMap = NULL
      <3>1. PICK c \in Conns \ heap :
              /\ heap' = heap \cup {c} /\ connMap' = c
              /\ adding' = [conn |-> c, cc |-> cc, cell |-> cell, made |-> TRUE]
        BY <1>3, <2>2 DEF AddController
      <3>2. adding'.conn = c
        BY <3>1
      <3> QED
        BY <1>3, <2>1, <3>1, <3>2 DEF AddController, ScriptCode, ConnInv, HeldOnce
    <2>3. CASE connMap # NULL
      <3>1. /\ heap' = heap /\ connMap' = connMap
            /\ adding' = [conn |-> connMap, cc |-> cc, cell |-> cell, made |-> FALSE]
        BY <1>3, <2>3 DEF AddController
      <3>2. adding'.conn = connMap'
        BY <3>1
      <3> QED
        BY <1>3, <2>1, <2>3, <3>1, <3>2 DEF AddController, ScriptCode
    <2> QED
      BY <2>2, <2>3
  <1>4. CASE PushConnection
    <2>1. adding'.conn = adding.conn
      BY <1>4 DEF PushConnection, ConnInv, ConnTypes
    <2> QED
      BY <1>4, <2>1 DEF PushConnection
  <1>5. CASE PushMapping
    <2> DEFINE m == [conn |-> adding.conn, cc |-> adding.cc, cell |-> adding.cell]
    <2>1. m \in [conn : Conns, cc : Ccs, cell : Cells] /\ m.conn = adding.conn
      BY <1>5 DEF PushMapping, ConnInv, ConnTypes
    <2>2. mapQueue' = Append(mapQueue, m)
      BY <1>5 DEF PushMapping
    <2> HIDE DEF m
    <2>3. /\ mapQueue' \in Seq([conn : Conns, cc : Ccs, cell : Cells])
          /\ \A i \in DOMAIN mapQueue' : (i \in DOMAIN mapQueue /\ mapQueue'[i] = mapQueue[i]) \/ mapQueue'[i] = m
      BY <2>1, <2>2
    <2>4. UNCHANGED <<connMap, connQueue, connList, heap, recycled, spc, repositioned, raced, fault>> /\ adding' = NULL
      BY <1>5 DEF PushMapping
    <2>5. ~raced => adding.conn \in heap \ recycled
      BY <1>5, NullAssumption DEF PushMapping, ConnInv, ConnTypes
    <2> QED
      BY <1>5, <2>1, <2>3, <2>4, <2>5 DEF PushMapping
  <1>6. CASE EndScriptCode \/ Execute \/ FreeCollected \/ Restore
    BY <1>6 DEF EndScriptCode, Execute, FreeCollected, Restore
  <1>7. CASE PullMappings
    BY <1>7 DEF PullMappings
  <1>8. CASE MixerControls \/ PluginControls \/ FrameControls
    <2>1. ~raced /\ repositioned => Fetched = <<>>
      BY FetchedEmpty
    <2>2. /\ Fetch /\ UNCHANGED <<mapQueue, spc, repositioned, raced>>
          /\ fault' = fault \/ fault' = "uninitialised"
      BY <1>8 DEF MixerControls, PluginControls, FrameControls, Fetch
    <2> QED
      BY <2>1, <2>2 DEF Fetch
  <1>9. CASE PluginEvents \/ FrameGain \/ NextFrame \/ EndPeriod
    <2>1. UNCHANGED <<connVars, scriptVars, raced, fault>>
      BY <1>9, Zenon DEF PluginEvents, FrameGain, NextFrame, EndPeriod
    <2> QED
      BY <2>1
  <1>10. CASE Reposition
    <2>1. raced' <=> raced \/ adding # NULL \/ mapQueue' # <<>>
      BY <1>10, Zenon DEF Reposition
    <2> QED
      BY <1>10, <2>1 DEF Reposition
  <1>11. CASE Down \/ UNCHANGED vars
    BY <1>11 DEF Down, vars
  <1> QED
    BY <1>1, <1>2, <1>3, <1>4, <1>5, <1>6, <1>7, <1>8, <1>9, <1>10, <1>11 DEF Next, Script, Period

\* The process thread follows a mapping to a dead connection only when the script has
\* added a controller across a reposition (addGainController, addController, restore).
THEOREM MappingsSound == Spec => []MappingsLive
  <1>1. LiveInv => MappingsLive
    BY DEF LiveInv, MappingsLive, Range
  <1> QED
    BY ConnInit, ConnStep, LiveInit, LiveStep, <1>1, PTL DEF Spec

--------------------------------------------------------------------------------
(***************************************************************************)
(* The events of a period and each connection's place among them.          *)
(***************************************************************************)
MidiEvents == [frame : 0..(Frames - 1), cc : 0..127, value : 0..127]

InputSound ==
    /\ input \in Seq(MidiEvents)
    /\ \A i, j \in 1..Len(input) : i < j => input[i].frame <= input[j].frame

\* Before the events of the period have been asked for.
Unasked == ppc \in {"idle", "controls"} \/ (unit = "plugin" /\ ppc = "frames")

IndexInv ==
    /\ unit \in {"mixer", "plugin"}
    /\ ppc \in {"idle", "controls", "frames", "gains", "end"}
    /\ frame \in Nat
    /\ ppc = "gains" => unit = "mixer" /\ frame < Frames
    /\ ppc = "end" /\ unit = "mixer" => frame = Frames
    /\ ppc = "frames" /\ unit = "mixer" => frame < Frames
    /\ InputSound
    /\ Unasked => input = <<>>
    /\ index \in [Conns -> Int \cup {NULL}]
    /\ \A c \in Conns : index[c] # NULL => index[c] \in 0..Len(input)

\* updateGains applies a run of events without a gap.
LEMMA HitsInterval ==
    ASSUME IndexInv, NEW c \in Conns, index[c] # NULL
    PROVE  /\ Cardinality(Hits(c)) \in Nat
           /\ Hits(c) \subseteq (index[c] + 1)..Len(input)
           /\ Hits(c) = (index[c] + 1)..(index[c] + Cardinality(Hits(c)))
  <1>1. index[c] \in Nat /\ Len(input) \in Nat
    BY DEF IndexInv, InputSound
  <1>2. Hits(c) \in SUBSET ((index[c] + 1)..Len(input))
    BY DEF Hits
  <1>3. \A i \in Hits(c) : \A j \in (index[c] + 1)..i : j \in Hits(c)
    <2> SUFFICES ASSUME NEW i \in Hits(c), NEW j \in (index[c] + 1)..i PROVE j \in Hits(c)
      OBVIOUS
    <2>1. i \in (index[c] + 1)..Len(input) /\ \A k \in (index[c] + 1)..i : input[k].frame = frame
      BY Zenon DEF Hits
    <2>2. j \in (index[c] + 1)..Len(input) /\ \A k \in (index[c] + 1)..j : k \in (index[c] + 1)..i
      BY <1>1, <2>1
    <2> QED
      BY <2>1, <2>2, Zenon DEF Hits
  <1> QED
    BY <1>1, <1>2, <1>3, NoGaps

LastHit(c) == index[c] + Cardinality(Hits(c))

\* Where updateGains leaves the index: behind what it has applied, and behind the
\* event that it has read and left.
LEMMA NextIndexRange ==
    ASSUME IndexInv, NEW c \in Conns, index[c] # NULL
    PROVE  /\ LastHit(c) \in index[c]..Len(input)
           /\ NextIndex(c) \in LastHit(c)..Len(input)
           /\ NextIndex(c) # LastHit(c) => LastHit(c) > index[c] /\ NextIndex(c) = LastHit(c) + 1
           /\ LastHit(c) > index[c] /\ LastHit(c) < Len(input) => NextIndex(c) = LastHit(c) + 1
  <1> DEFINE n == Cardinality(Hits(c))
             H == Hits(c)
  <1>1. index[c] \in 0..Len(input) /\ Len(input) \in Nat
    BY DEF IndexInv, InputSound
  <1>2. n \in Nat /\ H \subseteq (index[c] + 1)..Len(input) /\ H = (index[c] + 1)..(index[c] + n)
    BY HitsInterval
  <1>3. NextIndex(c) = IF H = {} THEN index[c]
                       ELSE IF index[c] + n < Len(input) THEN (index[c] + n) + 1 ELSE index[c] + n
    BY Zenon DEF NextIndex
  <1> HIDE DEF n, H
  <1>4. H = {} <=> n = 0
    <2>1. n > 0 => index[c] + n \in (index[c] + 1)..(index[c] + n)
      BY <1>1, <1>2
    <2>2. n = 0 => \A i : i \notin (index[c] + 1)..(index[c] + n)
      BY <1>1, <1>2
    <2> QED
      BY <1>2, <2>1, <2>2
  <1>5. index[c] + n <= Len(input)
    <2>1. CASE n > 0
      <3>1. index[c] + n \in H
        BY <1>1, <1>2, <2>1
      <3> QED
        BY <1>1, <1>2, <3>1
    <2>2. CASE n = 0
      BY <1>1, <2>2
    <2> QED
      BY <1>2, <2>1, <2>2
  <1>6. index[c] \in Nat /\ n \in Nat /\ Len(input) \in Nat
    BY <1>1, <1>2
  <1>7. LastHit(c) = index[c] + n
    BY DEF n, LastHit
  <1>8. CASE H = {}
    <2>1. NextIndex(c) = index[c] /\ LastHit(c) = index[c]
      BY <1>3, <1>4, <1>6, <1>7, <1>8
    <2> QED
      BY <1>1, <1>6, <2>1
  <1>9. CASE H # {}
    <2>1. LastHit(c) \in Nat /\ LastHit(c) > index[c] /\ LastHit(c) <= Len(input)
      BY <1>4, <1>5, <1>6, <1>7, <1>9
    <2>2. NextIndex(c) = IF LastHit(c) < Len(input) THEN LastHit(c) + 1 ELSE LastHit(c)
      BY <1>3, <1>7, <1>9
    <2> QED
      BY <1>6, <2>1, <2>2
  <1> QED
    BY <1>8, <1>9

LEMMA IndexInit == Init => IndexInv
  BY SizeAssumption DEF Init, IndexInv, InputSound, Unasked

\* What JACK delivers is in order.
LEMMA AskedSound ==
    ASSUME NEW events \in Inputs \cup {<<>>}
    PROVE  /\ events \in Seq(MidiEvents)
           /\ \A i, j \in 1..Len(events) : i < j => events[i].frame <= events[j].frame
           /\ Len(events) \in Nat
  <1>1. CASE events \in Inputs
    <2>1. events \in Seq(MidiEvents) /\ \A i, j \in DOMAIN events : i < j => events[i].frame <= events[j].frame
      BY <1>1, InputsAssumption, Zenon DEF MidiEvents
    <2>2. DOMAIN events = 1..Len(events) /\ Len(events) \in Nat
      BY <2>1
    <2> QED
      BY <2>1, <2>2, Zenon
  <1>2. CASE events = <<>>
    BY <1>2
  <1> QED
    BY <1>1, <1>2

\* The steps that change a period, or a place in it.
LEMMA PeriodCases ==
    ASSUME [Next]_vars
    PROVE  \/ UNCHANGED <<unit, ppc, frame, input, index>>
           \/ \E cc \in Ccs, cell \in Cells : AddController(cc, cell)
           \/ PullMappings \/ MixerControls \/ PluginEvents \/ PluginControls
           \/ FrameControls \/ NextFrame \/ EndPeriod
  <1> USE DEF connVars, scriptVars, periodVars
  <1>1. ASSUME NEW cell \in Cells, NEW gain \in Gains, SetControlValue(cell, gain)
        PROVE  UNCHANGED <<unit, ppc, frame, input, index>>
    BY <1>1 DEF SetControlValue
  <1>2. ASSUME NEW at \in Offsets, NEW cell \in Cells, NEW gain \in Gains, Schedule(at, cell, gain)
        PROVE  UNCHANGED <<unit, ppc, frame, input, index>>
    BY <1>2, Zenon DEF Schedule
  <1>3. CASE PushConnection \/ PushMapping \/ EndScriptCode \/ Execute \/ FreeCollected \/ Restore
    BY <1>3 DEF PushConnection, PushMapping, EndScriptCode, Execute, FreeCollected, Restore
  <1>4. CASE FrameGain \/ Reposition
    BY <1>4, Zenon DEF FrameGain, Reposition
  <1>5. CASE Down \/ UNCHANGED vars
    BY <1>5 DEF Down, vars
  <1> QED
    BY <1>1, <1>2, <1>3, <1>4, <1>5 DEF Next, Script, Period

LEMMA IndexStep == ConnInv /\ IndexInv /\ [Next]_vars => IndexInv'
  <1> SUFFICES ASSUME ConnInv, IndexInv, [Next]_vars PROVE IndexInv'
    OBVIOUS
  <1> USE DEF IndexInv, Unasked, InputSound
  <1>1. CASE UNCHANGED <<unit, ppc, frame, input, index>>
    BY <1>1
  <1>2. ASSUME NEW cc \in Ccs, NEW cell \in Cells, AddController(cc, cell) PROVE IndexInv'
    <2>1. UNCHANGED <<unit, ppc, frame, input>>
      BY <1>2, Zenon DEF AddController
    <2>2. index' = index \/ \E c \in Conns : index' = [index EXCEPT ![c] = NULL]
      BY <1>2 DEF AddController
    <2> QED
      BY <2>1, <2>2
  <1>3. CASE PullMappings \/ PluginEvents
    <2>1. UNCHANGED <<unit, frame, input, index>>
      BY <1>3, Zenon DEF PullMappings, PluginEvents
    <2>2. /\ ppc' = ppc \/ ppc' = "controls" \/ (unit = "plugin" /\ ppc' = "frames")
          /\ Unasked
      BY <1>3 DEF PullMappings, PluginEvents
    <2> QED
      BY <2>1, <2>2
  <1>4. CASE MixerControls \/ PluginControls
    <2>1. /\ unit' = unit /\ input = <<>> /\ input' \in Inputs \cup {<<>>}
          /\ index' = [c \in Conns |-> IF c \in Range(Fetched) THEN 0 ELSE index[c]]
      BY <1>4 DEF MixerControls, PluginControls
    <2>2. /\ unit = "mixer" => ppc' = "frames" /\ frame' = 0
          /\ unit = "plugin" => ppc' = "end" /\ frame' = frame
      BY <1>4 DEF MixerControls, PluginControls
    <2>3. \A c \in Conns : index'[c] = 0 \/ index'[c] = NULL
      BY <2>1
    <2>4. InputSound' /\ Len(input') \in Nat
      BY <2>1, AskedSound
    <2>5. index' \in [Conns -> Int \cup {NULL}] /\ (\A c \in Conns : index'[c] # NULL => index'[c] \in 0..Len(input'))
      BY <2>1, <2>3, <2>4
    <2> QED
      BY <2>1, <2>2, <2>4, <2>5, SizeAssumption
  <1>5. CASE FrameControls
    <2>1. UNCHANGED <<unit, frame, input>> /\ ppc' = "gains" /\ unit = "mixer" /\ frame < Frames
      BY <1>5 DEF FrameControls
    <2>2. \/ index' = index
          \/ index' = [c \in Conns |->
                IF c \in {d \in Range(Fetched) : index[d] # NULL} THEN NextIndex(c) ELSE index[c]]
      BY <1>5, Zenon DEF FrameControls
    <2>3. \A c \in Conns : index[c] # NULL => NextIndex(c) \in 0..Len(input)
      BY NextIndexRange
    <2>4. \A c \in Conns : index'[c] = index[c] \/ (index[c] # NULL /\ index'[c] = NextIndex(c))
      BY <2>2
    <2>5. index' \in [Conns -> Int \cup {NULL}]
      BY <2>2, <2>3
    <2> QED
      BY <2>1, <2>3, <2>4, <2>5
  <1>6. CASE NextFrame
    BY <1>6, SizeAssumption DEF NextFrame
  <1>7. CASE EndPeriod
    <2>1. unit' = unit /\ ppc' = "idle" /\ frame' = 0 /\ input' = <<>>
          /\ index' = [c \in Conns |-> IF index[c] = NULL THEN NULL ELSE 0]
      BY <1>7, Zenon DEF EndPeriod
    <2> QED
      BY <2>1
  <1> QED
    BY <1>1, <1>2, <1>3, <1>4, <1>5, <1>6, <1>7, PeriodCases

--------------------------------------------------------------------------------
(***************************************************************************)
(* The event counts.  Within the frame loop the only connection without a  *)
(* count is the one that the script has made since the loop began: making  *)
(* a second one takes a new run, and so a period without frames between.   *)
(***************************************************************************)
CountInv ==
    /\ \A c \in Made : index[c] = NULL
    /\ unit = "mixer" /\ ppc \in {"frames", "gains"} /\ ~raced /\ fault = "none" =>
          \A c \in Listed \cup Made : index[c] = NULL => c = connMap
    /\ unit = "mixer" /\ ppc = "frames" /\ frame = 0 => \A c \in Range(connList) : index[c] # NULL
    /\ fault = "uninitialised" =>
          unit = "mixer" /\ (raced \/ {c \in Range(connList) : index[c] = NULL} = {connMap})

LEMMA CountInit == Init => CountInv
  BY DEF Init, CountInv, Made

LEMMA CountStep == ConnInv /\ LiveInv /\ IndexInv /\ CountInv /\ [Next]_vars => CountInv'
  <1> SUFFICES ASSUME ConnInv, LiveInv, IndexInv, CountInv, [Next]_vars PROVE CountInv'
    OBVIOUS
  <1>0. Listed \subseteq Conns /\ Made \subseteq Conns /\ Made \cap Listed = {}
    BY DEF ConnInv, ConnTypes, HeldOnce, Listed, Made
  <1>1. ASSUME UNCHANGED <<unit, connMap, adding, connQueue, connList, index, ppc, frame, raced, fault>>
        PROVE  CountInv'
    BY <1>1 DEF CountInv, Made, Listed
  <1>2. ASSUME NEW cc \in Ccs, NEW cell \in Cells, AddController(cc, cell) PROVE CountInv'
    <2>1. /\ adding = NULL /\ Made = {} /\ fault = "none"
          /\ UNCHANGED <<unit, connQueue, connList, ppc, frame, fault>>
      BY <1>2 DEF AddController, ScriptCode, Made
    <2>2. Listed' = Listed /\ Range(connList') = Range(connList) /\ Range(connList) \subseteq Listed
      BY <2>1 DEF Listed
    <2>3. ~raced' => ~raced
      BY <1>2, Zenon DEF AddController
    <2>4. CASE connMap = NULL
      <3>1. PICK c \in Conns \ heap :
              /\ connMap' = c /\ index' = [index EXCEPT ![c] = NULL]
              /\ adding' = [conn |-> c, cc |-> cc, cell |-> cell, made |-> TRUE]
        BY <1>2, <2>4 DEF AddController
      <3>2. Made' \subseteq {c}
        BY <3>1 DEF Made
      <3>3. /\ index'[c] = NULL /\ c \notin Listed
            /\ \A d \in Listed : index'[d] = index[d]
        BY <1>0, <3>1 DEF IndexInv, ConnInv, HeldOnce
      <3>4. \A d \in Listed : d # NULL
        BY <1>0, NullAssumption
      <3> QED
        BY <2>1, <2>2, <2>3, <2>4, <3>1, <3>2, <3>3, <3>4 DEF CountInv
    <2>5. CASE connMap # NULL
      <3>1. /\ connMap' = connMap /\ index' = index
            /\ adding' = [conn |-> connMap, cc |-> cc, cell |-> cell, made |-> FALSE]
        BY <1>2, <2>5 DEF AddController
      <3>2. Made' = {}
        BY <3>1 DEF Made
      <3> QED
        BY <2>1, <2>2, <2>3, <3>1, <3>2 DEF CountInv
    <2> QED
      BY <2>4, <2>5
  <1>3. CASE PushConnection
    <2>1. /\ adding.conn \in Conns /\ Made = {adding.conn} /\ fault = "none"
          /\ connQueue' = Append(connQueue, adding.conn)
          /\ UNCHANGED <<unit, connMap, connList, index, ppc, frame, raced, fault>>
      BY <1>3 DEF PushConnection, Made, ConnInv, ConnTypes, periodVars
    <2>2. Made' = {}
      BY <1>3 DEF PushConnection, Made, ConnInv, ConnTypes
    <2>3. Range(connQueue') = Range(connQueue) \cup Made
      BY <2>1, AppendOnce DEF ConnInv, ConnTypes
    <2>4. Listed' = Listed \cup Made
      BY <2>1, <2>3 DEF Listed
    <2> QED
      BY <2>1, <2>2, <2>4 DEF CountInv
  <1>4. CASE PushMapping
    <2>1. Made = {} /\ Made' = {} /\ fault = "none"
      BY <1>4 DEF PushMapping, Made
    <2>2. Listed' = Listed /\ UNCHANGED <<unit, connMap, connList, index, ppc, frame, raced, fault>>
      BY <1>4 DEF PushMapping, Listed, periodVars
    <2> QED
      BY <2>1, <2>2 DEF CountInv
  <1>5. CASE Restore
    <2>1. adding = NULL /\ Made = {} /\ Made' = {} /\ fault = "none"
          /\ UNCHANGED <<unit, connList, index, ppc, frame, raced, fault>>
      BY <1>5 DEF Restore, LiveInv, Made, periodVars
    <2>2. ~raced => Listed' = {}
      BY <1>5, EmptyRange DEF Restore, LiveInv, Listed
    <2> QED
      BY <2>1, <2>2 DEF CountInv
  <1>6. CASE PullMappings \/ EndPeriod \/ Reposition
    <2>1. /\ fault = "none" /\ fault' # "uninitialised" /\ ppc' \in {"idle", "controls"}
          /\ adding' = adding
          /\ \A c \in Conns : index[c] = NULL => index'[c] = NULL
      BY <1>6 DEF PullMappings, EndPeriod, Reposition, connVars, periodVars
    <2>2. Made' = Made
      BY <2>1 DEF Made
    <2> QED
      BY <1>0, <2>1, <2>2 DEF CountInv
  <1>7. CASE PluginEvents
    <2>1. /\ unit' = "plugin" /\ fault' = "none" /\ UNCHANGED <<adding, index>>
      BY <1>7 DEF PluginEvents, connVars
    <2>2. Made' = Made
      BY <2>1 DEF Made
    <2> QED
      BY <2>1, <2>2 DEF CountInv
  <1>8. CASE MixerControls \/ PluginControls
    <2>1. /\ Fetch /\ unit' = unit /\ fault' = "none" /\ raced' = raced
          /\ index' = [c \in Conns |-> IF c \in Range(Fetched) THEN 0 ELSE index[c]]
      BY <1>8 DEF MixerControls, PluginControls, Fetch
    <2>2. /\ Listed' = Listed /\ Made' = Made /\ Range(Fetched) = Listed /\ connMap' = connMap
          /\ Range(connList') = Listed
      BY <2>1, FetchKeeps, FetchedOnce DEF Fetch
    <2>3. \A c \in Listed : index'[c] # NULL
      BY <1>0, <2>1, <2>2, NullAssumption
    <2>4. \A c \in Made : index'[c] = NULL
      BY <1>0, <2>1, <2>2 DEF CountInv
    <2>5. ~raced => \A c \in Made : c = connMap
      BY DEF Made, LiveInv
    <2> QED
      BY <2>1, <2>2, <2>3, <2>4, <2>5 DEF CountInv
  <1>9. CASE FrameControls
    <2>1. /\ Fetch /\ unit = "mixer" /\ unit' = unit /\ raced' = raced /\ ppc' = "gains"
          /\ ppc = "frames" /\ fault = "none"
      BY <1>9 DEF FrameControls, Fetch
    <2>2. /\ Listed' = Listed /\ Made' = Made /\ Range(Fetched) = Listed /\ connMap' = connMap
          /\ Range(connList') = Listed
      BY <2>1, FetchKeeps, FetchedOnce DEF Fetch
    <2>3. \/ (\E c \in Listed : index[c] = NULL) /\ fault' = "uninitialised" /\ index' = index
          \/ /\ fault' = "none"
             /\ index' = [c \in Conns |->
                   IF c \in {d \in Range(Fetched) : index[d] # NULL} THEN NextIndex(c) ELSE index[c]]
      BY <1>9, <2>1, <2>2, Zenon DEF FrameControls
    <2>4. \A c \in Conns : index[c] # NULL => NextIndex(c) # NULL
      <3>1. \A c \in Conns : index[c] # NULL => LastHit(c) \in Int /\ NextIndex(c) \in LastHit(c)..Len(input)
        BY NextIndexRange DEF IndexInv
      <3> QED
        BY <3>1, NullAssumption
    <2>5. CASE (\E c \in Listed : index[c] = NULL) /\ fault' = "uninitialised" /\ index' = index
      <3>1. ~raced => {c \in Listed : index[c] = NULL} = {connMap}
        BY <2>1, <2>5 DEF CountInv
      <3> QED
        BY <2>1, <2>2, <2>5, <3>1 DEF CountInv
    <2>6. CASE /\ fault' = "none"
               /\ index' = [c \in Conns |->
                     IF c \in {d \in Range(Fetched) : index[d] # NULL} THEN NextIndex(c) ELSE index[c]]
      <3>1. \A c \in Conns : index'[c] = NULL => index[c] = NULL
        BY <2>4, <2>6
      <3>2. \A c \in Made : index'[c] = NULL
        BY <1>0, <2>2, <2>6 DEF CountInv
      <3> QED
        BY <1>0, <2>1, <2>2, <2>6, <3>1, <3>2 DEF CountInv
    <2> QED
      BY <2>3, <2>5, <2>6
  <1>10. CASE NextFrame
    <2>1. /\ UNCHANGED <<unit, connMap, adding, connQueue, connList, index, raced, fault>>
          /\ frame' = frame + 1 /\ ppc = "gains" /\ fault = "none"
      BY <1>10 DEF NextFrame, connVars
    <2>2. Made' = Made /\ Listed' = Listed /\ frame' # 0
      BY <2>1 DEF Made, Listed, IndexInv
    <2> QED
      BY <2>1, <2>2 DEF CountInv
  <1>11. CASE FreeCollected \/ EndScriptCode \/ Execute \/ FrameGain
    <2>1. UNCHANGED <<unit, connMap, adding, connQueue, connList, index, ppc, frame, raced, fault>>
      BY <1>11, Zenon DEF FreeCollected, EndScriptCode, Execute, FrameGain, connVars, periodVars
    <2> QED
      BY <1>1, <2>1
  <1>12. ASSUME NEW cell \in Cells, NEW gain \in Gains,
                SetControlValue(cell, gain) \/ \E at \in Offsets : Schedule(at, cell, gain)
         PROVE  CountInv'
    <2>1. UNCHANGED <<unit, connMap, adding, connQueue, connList, index, ppc, frame, raced, fault>>
      BY <1>12, Zenon DEF SetControlValue, Schedule, connVars, periodVars
    <2> QED
      BY <1>1, <2>1
  <1>13. CASE Down \/ UNCHANGED vars
    BY <1>1, <1>13 DEF Down, vars, connVars, periodVars
  <1> QED
    BY <1>2, <1>3, <1>4, <1>5, <1>6, <1>7, <1>8, <1>9, <1>10, <1>11, <1>12, <1>13
    DEF Next, Script, Period

\* The frame loop of Mixer::doProcess meets an eventCount that was never set only in
\* the one connection that the script has added since the loop began.
THEOREM CountsSound == Spec => []CountsSet
  <1>1. CountInv => CountsSet
    BY DEF CountInv, CountsSet
  <1> QED
    BY ConnInit, ConnStep, LiveInit, LiveStep, IndexInit, IndexStep, CountInit, CountStep, <1>1, PTL
    DEF Spec

--------------------------------------------------------------------------------
(***************************************************************************)
(* How far a connection has come: what it has passed is applied, or was    *)
(* read and left, and what is before it belongs to a frame to come.        *)
(***************************************************************************)
Left(i) == i > 1 /\ input[i - 1].frame < input[i].frame

Passed(i, done, at) ==
    /\ i <= at => i \in done \/ Left(i)
    /\ i > at => input[i].frame >= IF ppc = "gains" THEN frame + 1 ELSE frame

ReachInv ==
    /\ ppc = "end" => fault = "none"
    /\ fault = "none" /\ unit = "mixer" /\ ppc \in {"frames", "gains", "end"} =>
          \A c \in Listed : index[c] # NULL => \A i \in 1..Len(input) : Passed(i, applied, index[c])
    /\ unit = "plugin" /\ ppc = "end" /\ connList # <<>> => applied = DOMAIN input

LEMMA ReachInit == Init => ReachInv
  BY DEF Init, ReachInv

\* One frame of updateGains takes a connection on.
LEMMA FrameTakesOn ==
    ASSUME IndexInv, NEW c \in Conns, index[c] # NULL, NEW i \in 1..Len(input),
           \A j \in 1..Len(input) : /\ j <= index[c] => j \in applied \/ Left(j)
                                    /\ j > index[c] => input[j].frame >= frame
    PROVE  /\ i <= NextIndex(c) => i \in applied \cup Hits(c) \/ Left(i)
           /\ i > NextIndex(c) => input[i].frame >= frame + 1
  <1>1. /\ Len(input) \in Nat /\ index[c] \in 0..Len(input) /\ frame \in Nat
        /\ \A j \in 1..Len(input) : input[j].frame \in 0..(Frames - 1) /\ input[j].frame \in Int
        /\ \A j, k \in 1..Len(input) : j < k => input[j].frame <= input[k].frame
    <2>1. \A j \in 1..Len(input) : input[j] \in MidiEvents
      BY DEF IndexInv, InputSound
    <2> QED
      BY <2>1, SizeAssumption DEF IndexInv, InputSound, MidiEvents
  <1>2. Hits(c) = (index[c] + 1)..LastHit(c) /\ LastHit(c) \in index[c]..Len(input)
    BY HitsInterval, NextIndexRange DEF LastHit
  <1>3. /\ NextIndex(c) \in LastHit(c)..Len(input)
        /\ NextIndex(c) # LastHit(c) => LastHit(c) > index[c] /\ NextIndex(c) = LastHit(c) + 1
        /\ LastHit(c) > index[c] /\ LastHit(c) < Len(input) => NextIndex(c) = LastHit(c) + 1
    BY NextIndexRange
  <1>4. \A j \in Hits(c) : input[j].frame = frame
    <2> SUFFICES ASSUME NEW j \in Hits(c) PROVE input[j].frame = frame
      OBVIOUS
    <2>1. j \in (index[c] + 1)..Len(input) /\ \A k \in (index[c] + 1)..j : input[k].frame = frame
      BY Zenon DEF Hits
    <2>2. j \in (index[c] + 1)..j
      BY <1>1, <2>1
    <2> QED
      BY <2>1, <2>2
  \* The first event that is not applied belongs to a later frame.
  <1>5. LastHit(c) < Len(input) => input[LastHit(c) + 1].frame >= frame + 1
    <2> SUFFICES ASSUME LastHit(c) < Len(input) PROVE input[LastHit(c) + 1].frame >= frame + 1
      OBVIOUS
    <2> DEFINE n == LastHit(c) + 1
    <2>1. n \in 1..Len(input) /\ n \in (index[c] + 1)..Len(input) /\ n > index[c] /\ n \notin Hits(c)
      BY <1>1, <1>2
    <2>2. \A k \in (index[c] + 1)..n : k \in Hits(c) \/ k = n
      BY <1>1, <1>2
    <2>3. input[n].frame # frame
      <3>1. ~(\A k \in (index[c] + 1)..n : input[k].frame = frame)
        BY <2>1, Zenon DEF Hits
      <3> QED
        BY <1>4, <2>2, <3>1
    <2>4. input[n].frame >= frame /\ input[n].frame \in Int
      BY <1>1, <2>1
    <2> HIDE DEF n
    <2>5. input[n].frame >= frame + 1
      BY <1>1, <2>3, <2>4
    <2> QED
      BY <2>5 DEF n
  <1>6. CASE i <= index[c]
    BY <1>1, <1>2, <1>3, <1>6
  <1>7. CASE i > index[c] /\ i <= LastHit(c)
    BY <1>1, <1>2, <1>3, <1>7
  <1>8. CASE i > LastHit(c)
    <2>1. input[i].frame >= frame + 1
      <3>1. LastHit(c) + 1 \in 1..Len(input) /\ (i = LastHit(c) + 1 \/ LastHit(c) + 1 < i)
        BY <1>1, <1>2, <1>8
      <3>2. input[LastHit(c) + 1].frame <= input[i].frame
        BY <1>1, <3>1
      <3> QED
        BY <1>1, <1>2, <1>5, <1>8, <3>1, <3>2
    <2>2. i <= NextIndex(c) => Left(i)
      <3> SUFFICES ASSUME i <= NextIndex(c) PROVE Left(i)
        OBVIOUS
      <3>1. i = LastHit(c) + 1 /\ LastHit(c) > index[c]
        BY <1>1, <1>2, <1>3, <1>8
      <3>2. i > 1 /\ i - 1 = LastHit(c) /\ i - 1 \in Hits(c)
        BY <1>1, <1>2, <3>1
      <3>3. input[i - 1].frame = frame
        BY <1>4, <3>2
      <3> QED
        BY <1>1, <2>1, <3>2, <3>3 DEF Left
    <2> QED
      BY <2>1, <2>2
  <1> QED
    BY <1>1, <1>2, <1>6, <1>7, <1>8

LEMMA ReachStep == ConnInv /\ IndexInv /\ CountInv /\ ReachInv /\ [Next]_vars => ReachInv'
  <1> SUFFICES ASSUME ConnInv, IndexInv, CountInv, ReachInv, [Next]_vars PROVE ReachInv'
    OBVIOUS
  <1>0. Listed \subseteq Conns /\ Made \subseteq Conns
    BY DEF ConnInv, ConnTypes, HeldOnce, Listed, Made
  <1>1. ASSUME UNCHANGED <<unit, connQueue, connList, ppc, frame, input, index, applied, fault>>
        PROVE  ReachInv'
    BY <1>1 DEF ReachInv, Listed, Passed, Left
  <1>2. ASSUME NEW cc \in Ccs, NEW cell \in Cells, AddController(cc, cell) PROVE ReachInv'
    <2>1. /\ UNCHANGED <<unit, connQueue, connList, ppc, frame, input, applied, fault>>
          /\ index' = index \/ \E c \in Conns \ heap : index' = [index EXCEPT ![c] = NULL]
      BY <1>2 DEF AddController
    <2>2. \A d \in Listed : index'[d] = index[d]
      BY <1>0, <2>1 DEF IndexInv, ConnInv, HeldOnce
    <2>3. Listed' = Listed
      BY <2>1 DEF Listed
    <2> QED
      BY <2>1, <2>2, <2>3 DEF ReachInv, Passed, Left
  <1>3. CASE PushConnection
    <2>1. /\ adding.conn \in Conns /\ Made = {adding.conn}
          /\ connQueue' = Append(connQueue, adding.conn)
          /\ UNCHANGED <<unit, connList, ppc, frame, input, index, applied, fault>>
      BY <1>3 DEF PushConnection, Made, ConnInv, ConnTypes, periodVars
    <2>2. Range(connQueue') = Range(connQueue) \cup Made
      BY <2>1, AppendOnce DEF ConnInv, ConnTypes
    <2>3. Listed' = Listed \cup Made
      BY <2>1, <2>2 DEF Listed
    <2> QED
      BY <2>1, <2>3 DEF ReachInv, CountInv, Passed, Left
  <1>4. CASE PullMappings \/ EndPeriod \/ Reposition
    <2>1. ppc' \in {"idle", "controls"}
      BY <1>4 DEF PullMappings, EndPeriod, Reposition, periodVars
    <2> QED
      BY <2>1 DEF ReachInv
  <1>5. CASE PluginEvents
    <2>1. unit' = "plugin" /\ ppc' # "end"
      BY <1>5 DEF PluginEvents
    <2> QED
      BY <2>1 DEF ReachInv
  <1>6. CASE MixerControls
    <2>1. /\ Fetch /\ unit' = "mixer" /\ ppc' = "frames" /\ frame' = 0
          /\ input' \in Inputs \cup {<<>>}
          /\ index' = [c \in Conns |-> IF c \in Range(Fetched) THEN 0 ELSE index[c]]
      BY <1>6 DEF MixerControls, Fetch
    <2>2. Listed' = Listed /\ Range(Fetched) = Listed
      BY <2>1, FetchKeeps, FetchedOnce
    <2>3. \A c \in Listed : index'[c] = 0
      BY <1>0, <2>1, <2>2
    <2>4. \A i \in 1..Len(input') : input'[i].frame >= 0 /\ ~(i <= 0) /\ i > 0
      <3>1. input' \in Seq(MidiEvents) /\ Len(input') \in Nat
        BY <2>1, AskedSound
      <3>2. \A i \in 1..Len(input') : input'[i] \in MidiEvents
        BY <3>1
      <3> QED
        BY <3>1, <3>2, SizeAssumption DEF MidiEvents
    <2> QED
      BY <2>1, <2>2, <2>3, <2>4 DEF ReachInv, Passed
  <1>7. CASE PluginControls
    <2>1. /\ connList' = Fetched /\ unit' = "plugin" /\ fault' = "none"
          /\ Fetched # <<>> => applied' = DOMAIN input'
      BY <1>7 DEF PluginControls
    <2> QED
      BY <2>1 DEF ReachInv
  <1>8. CASE FrameControls
    <2>1. /\ Fetch /\ unit = "mixer" /\ unit' = unit /\ ppc = "frames" /\ ppc' = "gains"
          /\ fault = "none" /\ frame' = frame /\ input' = input
      BY <1>8 DEF FrameControls, Fetch
    <2>2. Listed' = Listed /\ Range(Fetched) = Listed
      BY <2>1, FetchKeeps, FetchedOnce
    <2>3. CASE fault' # "none"
      BY <2>1, <2>3 DEF ReachInv
    <2>4. CASE fault' = "none"
      <3> DEFINE ready == {c \in Range(Fetched) : index[c] # NULL}
      <3>1. /\ index' = [c \in Conns |-> IF c \in ready THEN NextIndex(c) ELSE index[c]]
            /\ applied' = applied \cup UNION {Hits(c) : c \in ready}
        BY <1>8, <2>4 DEF FrameControls
      <3>2. \A c \in Listed : index'[c] # NULL =>
               index[c] # NULL /\ index'[c] = NextIndex(c) /\ applied \cup Hits(c) \subseteq applied'
        <4> SUFFICES ASSUME NEW c \in Listed, index'[c] # NULL
                     PROVE  index[c] # NULL /\ index'[c] = NextIndex(c) /\ applied \cup Hits(c) \subseteq applied'
          OBVIOUS
        <4>1. index[c] # NULL /\ c \in ready
          BY <1>0, <2>2, <3>1
        <4>2. index'[c] = NextIndex(c)
          BY <1>0, <3>1, <4>1
        <4>3. Hits(c) \subseteq UNION {Hits(d) : d \in ready}
          BY <4>1, Zenon
        <4> QED
          BY <3>1, <4>1, <4>2, <4>3
      <3> HIDE DEF ready
      <3>3. ASSUME NEW c \in Listed, index'[c] # NULL, NEW i \in 1..Len(input)
            PROVE  /\ i <= index'[c] => i \in applied' \/ Left(i)
                   /\ i > index'[c] => input[i].frame >= frame + 1
        <4>1. \A j \in 1..Len(input) : /\ j <= index[c] => j \in applied \/ Left(j)
                                       /\ j > index[c] => input[j].frame >= frame
          BY <2>1, <3>2, <3>3 DEF ReachInv, Passed
        <4>2. /\ i <= NextIndex(c) => i \in applied \cup Hits(c) \/ Left(i)
              /\ i > NextIndex(c) => input[i].frame >= frame + 1
          BY <1>0, <3>2, <3>3, <4>1, FrameTakesOn
        <4> QED
          BY <3>2, <3>3, <4>2
      <3> QED
        BY <2>1, <2>2, <3>3 DEF ReachInv, Passed, Left
    <2> QED
      BY <2>3, <2>4
  <1>9. CASE NextFrame
    <2>1. /\ UNCHANGED <<unit, connQueue, connList, input, index, applied, fault>>
          /\ frame' = frame + 1 /\ ppc = "gains" /\ ppc' \in {"frames", "end"}
          /\ fault = "none" /\ unit = "mixer" /\ unit' = "mixer"
      BY <1>9 DEF NextFrame, connVars, IndexInv
    <2>2. Listed' = Listed
      BY <2>1 DEF Listed
    <2> QED
      BY <2>1, <2>2 DEF ReachInv, Passed, Left
  <1>10. CASE PushMapping \/ Restore \/ FreeCollected \/ EndScriptCode \/ Execute \/ FrameGain
    <2>1. UNCHANGED <<unit, connQueue, connList, ppc, frame, input, index, applied, fault>>
      BY <1>10, Zenon DEF PushMapping, Restore, FreeCollected, EndScriptCode, Execute, FrameGain,
         connVars, periodVars
    <2> QED
      BY <1>1, <2>1
  <1>11. ASSUME NEW cell \in Cells, NEW gain \in Gains,
                SetControlValue(cell, gain) \/ \E at \in Offsets : Schedule(at, cell, gain)
         PROVE  ReachInv'
    <2>1. UNCHANGED <<unit, connQueue, connList, ppc, frame, input, index, applied, fault>>
      BY <1>11, Zenon DEF SetControlValue, Schedule, connVars, periodVars
    <2> QED
      BY <1>1, <2>1
  <1>12. CASE Down \/ UNCHANGED vars
    BY <1>1, <1>12 DEF Down, vars, connVars, periodVars
  <1> QED
    BY <1>2, <1>3, <1>4, <1>5, <1>6, <1>7, <1>8, <1>9, <1>10, <1>11, <1>12
    DEF Next, Script, Period

\* Every MIDI event of a period is applied by the time the period is over, but for
\* the one that updateGains reads and leaves: for every sorted input and period.
THEOREM ControlsSound == Spec => []ControlsApplied
  <1>1. ASSUME ConnInv, IndexInv, ReachInv PROVE ControlsApplied
    <2> SUFFICES ASSUME ppc = "end", NEW c \in Range(connList), index[c] # NULL, NEW i \in DOMAIN input
                 PROVE  \/ i \in applied
                        \/ unit = "mixer" /\ i > 1 /\ input[i - 1].frame < input[i].frame
      BY DEF ControlsApplied
    <2>1. i \in 1..Len(input) /\ c \in Listed /\ c \in Conns
      BY <1>1 DEF Listed, IndexInv, InputSound, ConnInv, ConnTypes, HeldOnce
    <2>2. CASE unit = "mixer"
      <3>1. Passed(i, applied, index[c]) /\ frame = Frames
        BY <1>1, <2>1, <2>2 DEF ReachInv, IndexInv
      <3>2. input[i].frame \in 0..(Frames - 1) /\ Frames \in Nat /\ index[c] \in 0..Len(input)
        <4>1. input[i] \in MidiEvents
          BY <1>1, <2>1 DEF IndexInv, InputSound
        <4> QED
          BY <1>1, <2>1, <4>1, SizeAssumption DEF IndexInv, MidiEvents
      <3>3. i <= index[c]
        BY <2>1, <3>1, <3>2 DEF Passed
      <3> QED
        BY <2>2, <3>1, <3>3 DEF Passed, Left
    <2>3. CASE unit = "plugin"
      <3>1. connList # <<>>
        BY EmptyRange
      <3> QED
        BY <1>1, <2>3, <3>1 DEF ReachInv
    <2> QED
      BY <1>1, <2>2, <2>3 DEF IndexInv
  <1> QED
    BY ConnInit, ConnStep, LiveInit, LiveStep, IndexInit, IndexStep, CountInit, CountStep,
       ReachInit, ReachStep, <1>1, PTL
    DEF Spec

--------------------------------------------------------------------------------
(***************************************************************************)
(* Scheduled events.  The buffer is sorted, and within the frame loop what *)
(* is left of it is behind the event in hand, or was scheduled during the  *)
(* period.                                                                 *)
(***************************************************************************)
GainEvents == [at : Int, cell : Cells, value : Gains, fresh : BOOLEAN]

Ordered(b) == \A i, j \in 1..Len(b) : i < j => b[i].at <= b[j].at

\* Everything in b is at x or behind it, or fresh.
Behind(b, x) == \A i \in 1..Len(b) : b[i].fresh \/ b[i].at >= x

GainInv ==
    /\ gainBuffer \in Seq(GainEvents) /\ Ordered(gainBuffer)
    /\ event = NULL \/ event \in GainEvents
    /\ unit = "plugin" => event = NULL
    /\ ppc \in {"frames", "gains", "end"} =>
          /\ event = NULL => Behind(gainBuffer, Frames)
          /\ event # NULL =>
                /\ Behind(gainBuffer, event.at)
                /\ event.at < Frames
                /\ event.at < 0 \/ event.fresh \/ event.at >= frame

\* What getNextEvent returns and what it leaves behind.
LEMMA NextEventSound ==
    ASSUME NEW b \in Seq(GainEvents), Ordered(b)
    PROVE  /\ NextEvent(b).rest \in Seq(GainEvents) /\ Ordered(NextEvent(b).rest)
           /\ NextEvent(b).event = NULL \/ NextEvent(b).event \in GainEvents
           /\ NextEvent(b).event = NULL => Behind(NextEvent(b).rest, Frames)
           /\ NextEvent(b).event # NULL =>
                 /\ Behind(NextEvent(b).rest, NextEvent(b).event.at)
                 /\ NextEvent(b).event.at < Frames
                 /\ \E i \in 1..Len(b) : NextEvent(b).event = b[i]
  <1> DEFINE late == {i \in DOMAIN b : \A j \in 1..i : b[j].at < -Grace}
             n == Cardinality(late)
             current == SubSeq(b, n + 1, Len(b))
  <1>1. Len(b) \in Nat /\ DOMAIN b = 1..Len(b) /\ \A i \in 1..Len(b) : b[i] \in GainEvents
    OBVIOUS
  <1>2. n \in Nat /\ late = (0 + 1)..(0 + n)
    <2>1. late \in SUBSET ((0 + 1)..Len(b))
      BY <1>1
    <2>2. \A i \in late : \A j \in (0 + 1)..i : j \in late
      <3> SUFFICES ASSUME NEW i \in late, NEW j \in (0 + 1)..i PROVE j \in late
        OBVIOUS
      <3>1. i \in 1..Len(b) /\ \A k \in 1..i : b[k].at < -Grace
        BY <1>1
      <3>2. j \in 1..Len(b) /\ \A k \in 1..j : k \in 1..i
        BY <1>1, <3>1
      <3> QED
        BY <1>1, <3>1, <3>2
    <2> HIDE DEF late
    <2> QED
      BY <1>1, <2>1, <2>2, NoGaps
  <1>3. n \in 0..Len(b)
    <2>1. \A i \in late : i \in 1..Len(b)
      BY <1>1
    <2> HIDE DEF late, n
    <2>2. n > 0 => n \in late
      BY <1>2
    <2> QED
      BY <1>1, <1>2, <2>1, <2>2
  <1>4. NextEvent(b) = IF current # <<>> /\ Head(current).at < Frames
                       THEN [event |-> Head(current), rest |-> Tail(current)]
                       ELSE [event |-> NULL, rest |-> current]
    BY Zenon DEF NextEvent
  <1> HIDE DEF late, n
  <1>5. /\ current \in Seq(GainEvents) /\ Len(current) = Len(b) - n
        /\ \A i \in 1..Len(current) : current[i] = b[n + i] /\ n + i \in 1..Len(b)
    <2>1. /\ current \in Seq(GainEvents) /\ Len(current) = Len(b) - n
          /\ \A i \in 1..(Len(b) - n) : current[i] = b[n + i]
      BY <1>1, <1>3, Dropped
    <2>2. \A i \in 1..(Len(b) - n) : n + i \in 1..Len(b)
      BY <1>1, <1>3
    <2> HIDE DEF current
    <2> QED
      BY <2>1, <2>2
  <1>6. Ordered(current)
    <2> SUFFICES ASSUME NEW i \in 1..Len(current), NEW j \in 1..Len(current), i < j
                 PROVE  current[i].at <= current[j].at
      BY DEF Ordered
    <2>1. n + i \in 1..Len(b) /\ n + j \in 1..Len(b) /\ n + i < n + j
      BY <1>3, <1>5
    <2> QED
      BY <1>5, <2>1 DEF Ordered
  <1> HIDE DEF current
  <1>7. \A i \in 1..Len(current) : current[i] \in GainEvents /\ current[i].at \in Int
    <2>1. \A i \in 1..Len(current) : current[i] \in GainEvents
      BY <1>5
    <2> QED
      BY <2>1 DEF GainEvents
  <1>8. CASE current # <<>> /\ Head(current).at < Frames
    <2>1. NextEvent(b).event = Head(current) /\ NextEvent(b).rest = Tail(current)
      BY <1>4, <1>8
    <2>2. /\ Head(current) = current[1] /\ 1 \in 1..Len(current)
          /\ Tail(current) \in Seq(GainEvents) /\ Len(Tail(current)) = Len(current) - 1
          /\ \A i \in 1..Len(Tail(current)) : Tail(current)[i] = current[i + 1] /\ i + 1 \in 1..Len(current)
      BY <1>5, <1>8
    <2>3. Ordered(Tail(current))
      <3> SUFFICES ASSUME NEW i \in 1..Len(Tail(current)), NEW j \in 1..Len(Tail(current)), i < j
                   PROVE  Tail(current)[i].at <= Tail(current)[j].at
        BY DEF Ordered
      <3>1. i + 1 < j + 1
        OBVIOUS
      <3> QED
        BY <1>6, <2>2, <3>1 DEF Ordered
    <2>4. Behind(Tail(current), current[1].at)
      <3> SUFFICES ASSUME NEW i \in 1..Len(Tail(current)) PROVE Tail(current)[i].at >= current[1].at
        BY DEF Behind
      <3>1. 1 < i + 1
        OBVIOUS
      <3>2. current[1].at <= current[i + 1].at
        BY <1>6, <2>2, <3>1 DEF Ordered
      <3>3. current[1].at \in Int /\ current[i + 1].at \in Int
        BY <1>7, <2>2
      <3> QED
        BY <2>2, <3>2, <3>3
    <2>5. \E i \in 1..Len(b) : current[1] = b[i]
      BY <1>5, <2>2
    <2> QED
      BY <1>7, <1>8, <2>1, <2>2, <2>3, <2>4, <2>5, NullAssumption DEF GainEvents
  <1>9. CASE ~(current # <<>> /\ Head(current).at < Frames)
    <2>1. NextEvent(b).event = NULL /\ NextEvent(b).rest = current
      BY <1>4, <1>9
    <2>2. Behind(current, Frames)
      <3> SUFFICES ASSUME NEW i \in 1..Len(current) PROVE current[i].at >= Frames
        BY DEF Behind
      <3>1. current # <<>> /\ 1 \in 1..Len(current) /\ Head(current) = current[1]
        BY <1>5
      <3>2. current[1].at \in Int /\ current[i].at \in Int /\ current[1].at >= Frames
        BY <1>7, <1>9, <3>1, SizeAssumption
      <3>3. i = 1 \/ current[1].at <= current[i].at
        BY <1>6, <3>1 DEF Ordered
      <3> QED
        BY <3>2, <3>3, SizeAssumption
    <2> QED
      BY <1>5, <1>6, <2>1, <2>2
  <1> QED
    BY <1>8, <1>9

LEMMA GainInit == Init => GainInv
  BY DEF Init, GainInv, Ordered

\* An event that is scheduled takes its place behind all that are not later.
LEMMA ScheduleSound ==
    ASSUME GainInv, NEW at \in Offsets, NEW cell \in Cells, NEW gain \in Gains, Schedule(at, cell, gain)
    PROVE  /\ gainBuffer' \in Seq(GainEvents) /\ Ordered(gainBuffer')
           /\ \A x : ppc # "idle" /\ Behind(gainBuffer, x) => Behind(gainBuffer', x)
  <1> DEFINE b == gainBuffer
             e == [at |-> at, cell |-> cell, value |-> gain, fresh |-> ppc # "idle"]
             before == {i \in DOMAIN b : b[i].at <= at}
             n == Cardinality(before)
             t == gainBuffer'
  <1>1. /\ b \in Seq(GainEvents) /\ Len(b) \in Nat /\ DOMAIN b = 1..Len(b) /\ Ordered(b) /\ at \in Int
        /\ \A i \in 1..Len(b) : b[i] \in GainEvents
    BY SizeAssumption DEF GainInv
  <1>2. \A i \in 1..Len(b) : b[i].at \in Int
    BY <1>1 DEF GainEvents
  <1>3. e \in GainEvents /\ e.at = at /\ (ppc # "idle" => e.fresh)
    <2>1. (ppc # "idle") \in BOOLEAN
      BY Zenon
    <2> QED
      BY <1>1, <2>1 DEF GainEvents
  <1>4. t = SubSeq(b, 1, (n + 1) - 1) \o <<e>> \o SubSeq(b, n + 1, Len(b))
    BY Zenon DEF Schedule, InsertAt
  <1>5. n \in Nat /\ before = (0 + 1)..(0 + n)
    <2>1. before \in SUBSET ((0 + 1)..Len(b))
      BY <1>1
    <2>2. \A i \in before : \A j \in (0 + 1)..i : j \in before
      <3> SUFFICES ASSUME NEW i \in before, NEW j \in (0 + 1)..i PROVE j \in before
        OBVIOUS
      <3>1. i \in 1..Len(b) /\ j \in 1..Len(b) /\ b[i].at <= at /\ (j = i \/ j < i)
        BY <1>1
      <3>2. b[j].at <= b[i].at
        BY <1>2, <3>1, <1>1 DEF Ordered
      <3>3. b[j].at <= at
        BY <1>1, <1>2, <3>1, <3>2
      <3> QED
        BY <1>1, <3>1, <3>3
    <2> HIDE DEF before
    <2> QED
      BY <1>1, <2>1, <2>2, NoGaps
  <1>6. \A i \in 1..Len(b) : i \in before <=> b[i].at <= at
    BY <1>1
  <1>7. \A i \in before : i \in 1..Len(b)
    BY <1>1
  <1> HIDE DEF before, n, e, b, t
  <1>8. n \in 0..Len(b)
    <2>1. n > 0 => n \in before
      BY <1>5
    <2> QED
      BY <1>1, <1>5, <1>7, <2>1
  <1>9. (n + 1) - 1 = n
    BY <1>8
  <1>10. t \in Seq(GainEvents) /\ PutAfter(b, e, n, t)
    BY <1>1, <1>3, <1>4, <1>8, <1>9, PutShape
  <1>11. \A k \in 1..Len(t) :
            \/ k \in 1..n /\ k \in 1..Len(b) /\ t[k] = b[k] /\ b[k].at <= at
            \/ k = n + 1 /\ t[k] = e
            \/ k > n + 1 /\ k - 1 \in 1..Len(b) /\ t[k] = b[k - 1] /\ at <= b[k - 1].at
    <2> SUFFICES ASSUME NEW k \in 1..Len(t)
                 PROVE  \/ k \in 1..n /\ k \in 1..Len(b) /\ t[k] = b[k] /\ b[k].at <= at
                        \/ k = n + 1 /\ t[k] = e
                        \/ k > n + 1 /\ k - 1 \in 1..Len(b) /\ t[k] = b[k - 1] /\ at <= b[k - 1].at
      OBVIOUS
    <2>1. \/ k \in 1..n /\ k \in 1..Len(b) /\ t[k] = b[k]
          \/ k = n + 1 /\ t[k] = e
          \/ k > n + 1 /\ k - 1 \in (n + 1)..Len(b) /\ k - 1 \in 1..Len(b) /\ t[k] = b[k - 1]
      BY <1>1, <1>8, <1>10, PutSource
    <2>2. k \in 1..n => k \in before
      BY <1>5
    <2>3. k - 1 \in (n + 1)..Len(b) => k - 1 \notin before
      BY <1>5, <1>8
    <2> QED
      BY <1>1, <1>2, <1>6, <2>1, <2>2, <2>3
  <1>12. Ordered(t)
    <2> SUFFICES ASSUME NEW i \in 1..Len(t), NEW j \in 1..Len(t), i < j PROVE t[i].at <= t[j].at
      BY DEF Ordered
    <2>1. n \in Nat /\ Len(b) \in Nat
      BY <1>1, <1>5
    <2>2. CASE j \in 1..n /\ j \in 1..Len(b) /\ t[j] = b[j]
      <3>1. i \in 1..Len(b) /\ t[i] = b[i]
        BY <1>11, <2>1, <2>2
      <3> QED
        BY <1>1, <2>2, <3>1 DEF Ordered
    <2>3. CASE j = n + 1 /\ t[j] = e
      BY <1>3, <1>11, <2>1, <2>3
    <2>4. CASE j > n + 1 /\ j - 1 \in 1..Len(b) /\ t[j] = b[j - 1] /\ at <= b[j - 1].at
      <3>1. CASE i \in 1..n /\ i \in 1..Len(b) /\ t[i] = b[i] /\ b[i].at <= at
        BY <1>1, <1>2, <2>4, <3>1
      <3>2. CASE t[i] = e
        BY <1>3, <2>4, <3>2
      <3>3. CASE i - 1 \in 1..Len(b) /\ t[i] = b[i - 1]
        <4>1. i - 1 < j - 1
          OBVIOUS
        <4> QED
          BY <1>1, <2>4, <3>3, <4>1 DEF Ordered
      <3> QED
        BY <1>11, <3>1, <3>2, <3>3
    <2> QED
      BY <1>11, <2>2, <2>3, <2>4
  <1>13. ASSUME NEW x, ppc # "idle", Behind(b, x) PROVE Behind(t, x)
    BY <1>3, <1>11, <1>13 DEF Behind
  <1> QED
    BY <1>10, <1>12, <1>13 DEF b, t

\* The next event, taken at the beginning of the loop or in it.
LEMMA TakeSound ==
    ASSUME GainInv, event' = NextEvent(gainBuffer).event, gainBuffer' = NextEvent(gainBuffer).rest,
           NEW f \in Nat, f = 0 \/ Behind(gainBuffer, f)
    PROVE  /\ gainBuffer' \in Seq(GainEvents) /\ Ordered(gainBuffer')
           /\ event' = NULL \/ event' \in GainEvents
           /\ event' = NULL => Behind(gainBuffer', Frames)
           /\ event' # NULL => /\ Behind(gainBuffer', event'.at)
                               /\ event'.at < Frames
                               /\ event'.at < 0 \/ event'.fresh \/ event'.at >= f
  <1>1. gainBuffer \in Seq(GainEvents) /\ Ordered(gainBuffer)
    BY DEF GainInv
  <1>2. event' # NULL => event'.at < 0 \/ event'.fresh \/ event'.at >= f
    <2> SUFFICES ASSUME event' # NULL PROVE event'.at < 0 \/ event'.fresh \/ event'.at >= f
      OBVIOUS
    <2>1. PICK i \in 1..Len(gainBuffer) : event' = gainBuffer[i]
      BY <1>1, NextEventSound
    <2>2. event' \in GainEvents
      BY <1>1, NextEventSound
    <2>3. event'.at \in Int
      BY <2>2 DEF GainEvents
    <2>4. f = 0 \/ gainBuffer[i].fresh \/ gainBuffer[i].at >= f
      BY <2>1 DEF Behind
    <2> QED
      BY <2>1, <2>3, <2>4
  <1> QED
    BY <1>1, <1>2, NextEventSound

LEMMA GainStep == IndexInv /\ GainInv /\ [Next]_vars => GainInv'
  <1> SUFFICES ASSUME IndexInv, GainInv, [Next]_vars PROVE GainInv'
    OBVIOUS
  <1>1. ASSUME UNCHANGED <<unit, gainBuffer, event, ppc, frame>> PROVE GainInv'
    BY <1>1 DEF GainInv, Behind, Ordered
  <1>2. ASSUME NEW at \in Offsets, NEW cell \in Cells, NEW gain \in Gains, Schedule(at, cell, gain)
        PROVE  GainInv'
    <2>1. UNCHANGED <<unit, event, ppc, frame>>
      BY <1>2, Zenon DEF Schedule, periodVars
    <2>2. /\ gainBuffer' \in Seq(GainEvents) /\ Ordered(gainBuffer')
          /\ \A x : ppc # "idle" /\ Behind(gainBuffer, x) => Behind(gainBuffer', x)
      BY <1>2, ScheduleSound
    <2> QED
      BY <2>1, <2>2 DEF GainInv
  <1>3. CASE PullMappings
    <2>1. UNCHANGED <<unit, event, gainBuffer>> /\ ppc' = "controls"
      BY <1>3, Zenon DEF PullMappings
    <2> QED
      BY <2>1 DEF GainInv, Ordered
  <1>4. CASE MixerControls
    <2>1. /\ event' = NextEvent(gainBuffer).event /\ gainBuffer' = NextEvent(gainBuffer).rest
          /\ unit' = "mixer" /\ frame' = 0
      BY <1>4 DEF MixerControls
    <2> QED
      BY <2>1, TakeSound DEF GainInv
  <1>5. CASE PluginEvents
    <2>1. /\ unit = "plugin" /\ unit' = unit /\ event' = event /\ event = NULL /\ ppc = "controls"
          /\ gainBuffer' = NextEvent(gainBuffer).rest
          /\ IF NextEvent(gainBuffer).event = NULL THEN ppc' = "frames" ELSE ppc' = ppc
      BY <1>5, Zenon DEF PluginEvents, GainInv
    <2>2. /\ gainBuffer' \in Seq(GainEvents) /\ Ordered(gainBuffer')
          /\ NextEvent(gainBuffer).event = NULL => Behind(gainBuffer', Frames)
      BY <2>1, NextEventSound DEF GainInv
    <2> QED
      BY <2>1, <2>2 DEF GainInv
  <1>6. CASE PluginControls \/ FrameControls
    <2>1. /\ UNCHANGED <<unit, gainBuffer, event, frame>>
          /\ ppc = "frames" /\ ppc' \in {"gains", "end"}
      BY <1>6 DEF PluginControls, FrameControls
    <2> QED
      BY <2>1 DEF GainInv, Behind, Ordered
  <1>7. CASE FrameGain
    <2>1. /\ event' = NextEvent(gainBuffer).event /\ gainBuffer' = NextEvent(gainBuffer).rest
          /\ event # NULL /\ event.at = frame /\ ppc = "gains"
          /\ UNCHANGED <<unit, ppc, frame>>
      BY <1>7 DEF FrameGain
    <2>2. frame \in Nat /\ Behind(gainBuffer, frame) /\ unit = "mixer"
      BY <2>1 DEF GainInv, IndexInv
    <2> QED
      BY <2>1, <2>2, TakeSound DEF GainInv
  <1>8. CASE NextFrame
    <2>1. /\ UNCHANGED <<unit, gainBuffer, event>> /\ frame' = frame + 1 /\ ppc = "gains"
          /\ ~(event # NULL /\ event.at = frame)
      BY <1>8 DEF NextFrame
    <2>2. event # NULL => event.at \in Int
      BY DEF GainInv, GainEvents
    <2>3. event # NULL => event.at < 0 \/ event.fresh \/ event.at >= frame'
      BY <2>1, <2>2 DEF GainInv, IndexInv
    <2> QED
      BY <2>1, <2>3 DEF GainInv, Behind, Ordered
  <1>9. CASE EndPeriod
    <2>1. /\ unit' = unit /\ event' = NULL /\ ppc' = "idle"
          /\ gainBuffer' = [i \in DOMAIN gainBuffer |->
                [at |-> Earlier(gainBuffer[i].at), cell |-> gainBuffer[i].cell,
                 value |-> gainBuffer[i].value, fresh |-> FALSE]]
      BY <1>9, Zenon DEF EndPeriod
    <2>2. /\ Len(gainBuffer) \in Nat /\ DOMAIN gainBuffer = 1..Len(gainBuffer)
          /\ \A i \in 1..Len(gainBuffer) : gainBuffer[i] \in GainEvents
      BY DEF GainInv
    <2>3. Frames \in Nat /\ Grace \in Nat
      BY SizeAssumption
    <2>4. \A x \in Int : Earlier(x) \in Int
      BY <2>3 DEF Earlier
    <2>5. \A x, y \in Int : x <= y => Earlier(x) <= Earlier(y)
      BY <2>3 DEF Earlier
    <2>6. \A i \in 1..Len(gainBuffer) :
             gainBuffer[i].at \in Int /\ gainBuffer'[i] \in GainEvents /\ gainBuffer'[i].at = Earlier(gainBuffer[i].at)
      BY <2>1, <2>2, <2>4 DEF GainEvents
    <2>7. gainBuffer' \in [1..Len(gainBuffer) -> GainEvents]
      BY <2>1, <2>2, <2>6
    <2>8. gainBuffer' \in Seq(GainEvents) /\ Len(gainBuffer') = Len(gainBuffer)
      BY <2>2, <2>7, SeqDef
    <2>9. Ordered(gainBuffer')
      BY <2>5, <2>6, <2>8 DEF GainInv, Ordered
    <2> QED
      BY <2>1, <2>8, <2>9 DEF GainInv
  <1>10. CASE Reposition
    <2>1. gainBuffer' = <<>> /\ UNCHANGED <<unit, event, ppc>> /\ ppc = "idle"
      BY <1>10 DEF Reposition, periodVars
    <2> QED
      BY <2>1 DEF GainInv, Ordered
  <1>11. CASE PushConnection \/ PushMapping \/ Restore \/ FreeCollected \/ EndScriptCode \/ Execute
    <2>1. UNCHANGED <<unit, gainBuffer, event, ppc, frame>>
      BY <1>11, Zenon DEF PushConnection, PushMapping, Restore, FreeCollected, EndScriptCode, Execute,
         periodVars
    <2> QED
      BY <1>1, <2>1
  <1>12. ASSUME NEW cell \in Cells,
                \/ \E gain \in Gains : SetControlValue(cell, gain)
                \/ \E cc \in Ccs : AddController(cc, cell)
         PROVE  GainInv'
    <2>1. UNCHANGED <<unit, gainBuffer, event, ppc, frame>>
      BY <1>12, Zenon DEF SetControlValue, AddController, periodVars
    <2> QED
      BY <1>1, <2>1
  <1>13. CASE Down \/ UNCHANGED vars
    BY <1>1, <1>13 DEF Down, vars, periodVars
  <1> QED
    BY <1>2, <1>3, <1>4, <1>5, <1>6, <1>7, <1>8, <1>9, <1>10, <1>11, <1>12, <1>13
    DEF Next, Script, Period

\* What was scheduled before a period and is due in it has been applied when the
\* period is over, unless a late event keeps it back (getNextEvent, Mixer::doProcess).
THEOREM GainsSound == Spec => []GainsApplied
  <1>1. ASSUME IndexInv, GainInv PROVE GainsApplied
    <2> SUFFICES ASSUME ppc = "end" PROVE GainsApplied
      BY DEF GainsApplied
    <2>1. event # NULL => event.at \in Int
      BY <1>1 DEF GainInv, GainEvents
    <2>2. event # NULL => event.at < 0 \/ event.fresh
      BY <1>1, <2>1, SizeAssumption DEF GainInv, IndexInv
    <2>3. \A i \in 1..Len(gainBuffer) :
             gainBuffer[i].at < Frames /\ ~gainBuffer[i].fresh => event # NULL
      <3>1. \A i \in 1..Len(gainBuffer) : gainBuffer[i] \in GainEvents
        BY <1>1 DEF GainInv
      <3>2. \A i \in 1..Len(gainBuffer) : gainBuffer[i].at \in Int
        BY <3>1 DEF GainEvents
      <3> QED
        BY <1>1, <3>2, SizeAssumption DEF GainInv, Behind
    <2>4. DOMAIN gainBuffer = 1..Len(gainBuffer)
      BY <1>1 DEF GainInv
    <2> QED
      BY <2>2, <2>3, <2>4 DEF GainsApplied, Range
  <1> QED
    BY ConnInit, ConnStep, IndexInit, IndexStep, GainInit, GainStep, <1>1, PTL DEF Spec

================================================================================
