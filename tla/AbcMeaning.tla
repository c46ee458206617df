------------------------------ MODULE AbcMeaning ------------------------------
(***************************************************************************)
(* What a plain piece of ABC music means, said of its tokens directly and  *)
(* in exact fractions: notes, rests and chords one after the other, with   *)
(* accidentals that hold until the bar ends, tuplets, broken rhythm, ties, *)
(* repeats and first endings.  The key is C and the unit an eighth.        *)
(***************************************************************************)
EXTENDS AbcParse

Is(M, i, token) == i \in DOMAIN M /\ M[i].token = token

(***************************************************************************)
(* What takes time: a note or a rest, or a chord from its [ to its ].      *)
(***************************************************************************)
InChord(M, i) ==
    \E j \in 1..(i - 1) : Is(M, j, "chordon") /\ \A k \in j..i : ~Is(M, k, "chordoff")

Moments(M) ==
    {i \in DOMAIN M : Is(M, i, "chordon") \/ (M[i].token \in {"note", "rest"} /\ ~InChord(M, i))}

End(M, i) ==
    IF Is(M, i, "chordon") THEN Min({j \in i..Len(M) : Is(M, j, "chordoff")}) ELSE i

Tones(M, i) == SelectSeq([n \in 1..(End(M, i) - i + 1) |-> i + n - 1], LAMBDA j : Is(M, j, "note"))

Before(M, i) == Max({0} \cup {j \in Moments(M) : j < i})
After(M, i) == Min({Len(M) + 1} \cup {j \in Moments(M) : j > i})

(***************************************************************************)
(* Lengths, in quarters.                                                   *)
(***************************************************************************)
Times(a, b) == Reduce(a.num * b.num, a.den * b.den)

Written(M, i) == Reduce(M[IF Is(M, i, "chordon") THEN i + 1 ELSE i].num,
                        2 * M[IF Is(M, i, "chordon") THEN i + 1 ELSE i].den)

InTuplet(M, i) ==
    LET opened == {k \in 1..(i - 1) : Is(M, k, "tuple")}
    IN  IF opened = {} THEN 1
        ELSE LET k == Max(opened)
             IN  IF Cardinality({j \in Moments(M) : k < j /\ j < i}) < M[k].n THEN M[k].n ELSE 1

TupletFactor(n) ==
    CASE n = 2 -> [num |-> 3, den |-> 2] [] n = 3 -> [num |-> 2, den |-> 3]
      [] OTHER -> [num |-> 1, den |-> 1]

Unbroken(M, i) == Times(Written(M, i), TupletFactor(InTuplet(M, i)))

BrokenFactor(M, i) ==
    LET long(m) == [num |-> 2 ^ (m + 1) - 1, den |-> 2 ^ m]
        short(m) == [num |-> 1, den |-> 2 ^ m]
        after == M[End(M, i) + 1]
        before == M[i - 1]
    IN  IF Is(M, End(M, i) + 1, "broken") THEN (IF after.less THEN short(after.mult) ELSE long(after.mult))
        ELSE IF Is(M, i - 1, "broken") THEN (IF before.less THEN long(before.mult) ELSE short(before.mult))
        ELSE [num |-> 1, den |-> 1]

QuarterLength(M, i) == Times(Unbroken(M, i), BrokenFactor(M, i))
TickLength(M, i) == (QuarterLength(M, i).num * TicksPerQuarter) \div QuarterLength(M, i).den
WholeTicks(M, i) == (QuarterLength(M, i).num * TicksPerQuarter) % QuarterLength(M, i).den = 0

(***************************************************************************)
(* Pitches.  A note that is tied to one before it keeps its pitch.         *)
(***************************************************************************)
Tied(M, i) == Is(M, End(M, i) + 1, "tie")
TiedTo(M, i) == Before(M, i) # 0 /\ Tied(M, Before(M, i))

Altered(M, i) ==
    LET bars == {0} \cup {j \in 1..i : Is(M, j, "bar")}
        signs == {j \in Max(bars)..i : Is(M, j, "note") /\ M[j].letter = M[i].letter /\ M[j].acc # 9}
    IN  IF signs = {} THEN 0 ELSE M[Max(signs)].acc

PitchMeant(M, i) == 60 + Scale[M[i].letter] + 12 * M[i].octave + Altered(M, i)

(***************************************************************************)
(* The order of playing.  A repeat goes from the last sign that starts or  *)
(* ends one, or from the beginning; its first ending is left out the       *)
(* second time.                                                            *)
(***************************************************************************)
Bars(M, types) == {i \in DOMAIN M : Is(M, i, "bar") /\ M[i].type \in types}
Starts(M) == Bars(M, {"BAR_REP", "DOUBLE_REP"})
Ends(M) == Bars(M, {"REP_BAR", "DOUBLE_REP"})
EndingOf(M, passes) == {i \in DOMAIN M : Is(M, i, "bar") /\ M[i].passes = passes}

From(M, e) == Max({0} \cup {j \in Starts(M) \cup Ends(M) : j < e})

Stretch(a, b) == [n \in 1..(b - a) |-> a + n]

Again(M, e) ==
    LET first == {i \in EndingOf(M, {1}) : From(M, e) < i /\ i < e}
    IN  Stretch(From(M, e), IF first = {} THEN e ELSE Min(first))

Order(M) ==
    LET marks == SetToSortSeq(Ends(M), <)
        start(n) == IF n = 1 THEN 0 ELSE marks[n - 1]
    IN  FlattenSeq([n \in DOMAIN marks |-> Stretch(start(n), marks[n]) \o Again(M, marks[n])])
          \o Stretch(Max({0} \cup Ends(M)), Len(M))

(***************************************************************************)
(* The notes that sound, with the ticks from the start.  A note is turned  *)
(* on a tick late, and the tones of a chord one after the other.           *)
(***************************************************************************)
SoundsAt(M, order, n) ==
    LET moments == {k \in DOMAIN order : order[k] \in Moments(M)}
        time == MapThenSumSet(LAMBDA k : TickLength(M, order[k]), {k \in moments : k < n})
        last == Min({k \in moments : k >= n /\ ~Tied(M, order[k])})
        length == MapThenSumSet(LAMBDA k : TickLength(M, order[k]), {k \in moments : n <= k /\ k <= last})
        tones == Tones(M, order[n])
    IN  {[pitch |-> PitchMeant(M, tones[t]), start |-> time + 1 + (t - 1) * NoteDelay, end |-> time + length] :
            t \in DOMAIN tones}

Meaning(M) ==
    LET order == Order(M)
    IN  UNION {SoundsAt(M, order, n) :
                  n \in {k \in DOMAIN order : order[k] \in Moments(M) /\ ~TiedTo(M, order[k])}}

(***************************************************************************)
(* Plain music.                                                            *)
(***************************************************************************)
PlainTokens == {"note", "rest", "chordon", "chordoff", "bar", "tuple", "broken", "tie", "space"}

ChordsClosed(M) ==
    /\ \A i \in DOMAIN M :
          Is(M, i, "chordon") => /\ \E j \in i..Len(M) : Is(M, j, "chordoff")
                                 /\ Is(M, i + 1, "note")
                                 /\ ~InChord(M, i)
    /\ \A i \in DOMAIN M :
          /\ Is(M, i, "chordoff") => InChord([M EXCEPT ![i].token = "note"], i) /\ M[i].num = M[i].den
          /\ InChord(M, i) => Is(M, i, "note") /\ M[i].num = M[i].den /\ NoteDelay * (Len(M)) < TicksPerQuarter

TupletsFull(M) ==
    \A i \in DOMAIN M :
        Is(M, i, "tuple") =>
            /\ M[i].n \in {2, 3} /\ M[i].q = 0 /\ M[i].r = 0
            /\ \E j \in Moments(M) : Cardinality({k \in Moments(M) : i < k /\ k <= j}) = M[i].n
            /\ \A k \in 1..(i - 1) : Is(M, k, "tuple") =>
                  Cardinality({j \in Moments(M) : k < j /\ j < i}) >= M[k].n

BrokenBetweenEqual(M) ==
    \A i \in DOMAIN M :
        Is(M, i, "broken") =>
            LET b == Before(M, i)
            IN  /\ M[i].mult \in 1..3 /\ b # 0 /\ i = End(M, b) + 1 /\ i + 1 \in Moments(M)
                /\ ~Is(M, b - 1, "broken")
                /\ Unbroken(M, b) = Unbroken(M, i + 1)

TiesJoin(M) ==
    \A i \in DOMAIN M :
        Is(M, i, "tie") =>
            LET b == Before(M, i)
                a == After(M, i)
            IN  /\ ~InChord(M, i) /\ b # 0 /\ i = b + 1 /\ Is(M, b, "note") /\ Is(M, a, "note")
                /\ M[a].letter = M[b].letter /\ M[a].octave = M[b].octave /\ M[a].acc = 9
                /\ ~\E j \in b..a : j \in Starts(M) \cup Ends(M) \cup EndingOf(M, {1})

RepeatsClosed(M) ==
    /\ Bars(M, {"SINGLE_BAR", "BAR_REP", "REP_BAR", "DOUBLE_REP"}) = {i \in DOMAIN M : Is(M, i, "bar")}
    /\ \A s \in Starts(M) : \E e \in Ends(M) : e > s /\ ~\E t \in Starts(M) : s < t /\ t < e
    /\ \A i \in Bars(M, {"DOUBLE_REP"}) \cup EndingOf(M, {1}) : From(M, i) \in {0} \cup Starts(M)
    /\ \A i \in DOMAIN M : Is(M, i, "bar") => M[i].passes \in {{}, {1}, {2}}
    /\ \A i \in EndingOf(M, {1}) :
          /\ M[i].type = "SINGLE_BAR"
          /\ \E e \in EndingOf(M, {2}) : e > i
    /\ \A i \in EndingOf(M, {2}) :
          /\ M[i].type = "REP_BAR" /\ \A e \in Ends(M) : e <= i
          /\ \E j \in EndingOf(M, {1}) : From(M, i) < j /\ j < i
    /\ Cardinality(EndingOf(M, {1})) <= 1

PlainMusic(M) ==
    /\ \A i \in DOMAIN M : M[i].token \in PlainTokens
    /\ ChordsClosed(M) /\ TupletsFull(M) /\ BrokenBetweenEqual(M) /\ TiesJoin(M) /\ RepeatsClosed(M)
    /\ \A i \in Moments(M) : WholeTicks(M, i)
==============================================================================
