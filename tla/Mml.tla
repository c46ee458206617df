--------------------------------- MODULE Mml ---------------------------------
(***************************************************************************)
(* tinymml, the parser behind MMLReader: from a text to the notes and      *)
(* rests it calls back with.                                               *)
(*                                                                         *)
(* A text is a sequence of symbols, each with a type and a value; a number *)
(* with its dots is one symbol, so is a user event.  A note has fewer      *)
(* accidentals than the work buffer has characters, and a number none.     *)
(***************************************************************************)
EXTENDS Integers, Sequences, FiniteSetsExt, SequencesExt

CONSTANTS
    bticks,                 \* ticks of a quarter, an option (480)
    MML_WORK_BUFFER_SIZE,   \* characters of a token, one of them the end (8)
    MML_STACK_MAX_DEPTH,    \* repeats that may be open (8)
    MaxFetches              \* bound: tokens fetched from a text, repeats included

ASSUME MmlAssumption == /\ bticks \in Nat \ {0}
                        /\ MML_WORK_BUFFER_SIZE \in Nat \ {0}
                        /\ MML_STACK_MAX_DEPTH \in Nat
                        /\ MaxFetches \in Nat

MML_OCTAVE_MAX == 10

Symbol(type, value, dots) == [type |-> type, value |-> value, dots |-> dots]

Accidental(s) == IF s.type = "sharp" THEN 1 ELSE IF s.type = "flat" THEN -1 ELSE 0

(***************************************************************************)
(* get_token: the run of symbols of one type, but notes, repeats, numbers  *)
(* and user events one by one, and the accidentals after it.  At the end   *)
(* of the text it takes an open repeat from the stacks, also when the      *)
(* caller only looks ahead.                                                *)
(***************************************************************************)
Single == {"note", "left", "right", "number", "user"}

Run(text, i, type) ==
    LET same == {n \in 1..(Len(text) - i + 1) : \A k \in i..(i + n - 1) : text[k].type = type}
    IN  IF type \in Single THEN 1 ELSE Max(same)

Accidentals(text, i) ==
    {k \in i..Len(text) : \A j \in i..k : Accidental(text[j]) # 0}

GetToken(text, h) ==
    LET rest == {i \in h.tp..Len(text) : text[i].type # "space"}
        first == Min(rest)
        type == text[first].type
        run == Run(text, first, type)
        after == IF type = "user" THEN {} ELSE Accidentals(text, first + run)
    IN  IF rest = {}
        THEN [h EXCEPT !.tp = Len(text) + 1,
                       !.left = IF @ = << >> THEN @ ELSE Front(@),
                       !.right = IF h.left = << >> /\ @ # << >> THEN Front(@) ELSE @,
                       !.token = Symbol("unknown", 0, 0), !.result = "end"]
        ELSE IF run >= MML_WORK_BUFFER_SIZE - 1
        THEN [h EXCEPT !.tp = first + MML_WORK_BUFFER_SIZE - 1, !.token = text[first],
                       !.result = "token length"]
        ELSE [h EXCEPT !.tp = first + run + Cardinality(after), !.result = "ok",
                       !.token = text[first],
                       !.run = run + Cardinality(after),
                       !.shift = MapThenSumSet(LAMBDA k : Accidental(text[k]), after)]

(***************************************************************************)
(* The length of a note, a triplet with a 3 at its end, in ticks.  Each    *)
(* dot adds the next shorter length, which has to be one too.              *)
(***************************************************************************)
Ticks ==
    LET b == bticks
    IN  (0 :> 0) @@ (1 :> b * 4) @@ (2 :> b * 2) @@ (4 :> b) @@ (8 :> b \div 2)
          @@ (16 :> b \div 4) @@ (32 :> b \div 8) @@ (64 :> b \div 16)
          @@ (23 :> (b * 4) \div 3) @@ (43 :> (b * 2) \div 3) @@ (83 :> b \div 3)
          @@ (163 :> (b \div 2) \div 3) @@ (323 :> (b \div 4) \div 3) @@ (643 :> (b \div 8) \div 3)

Dotted(token) == {token.value * (2 ^ d) : d \in 0..token.dots}
Playable(token) == Dotted(token) \subseteq DOMAIN Ticks
NoteTicks(token) ==
    MapThenSumSet(LAMBDA d : Ticks[token.value * (2 ^ d)], 0..token.dots)

(***************************************************************************)
(* mml_fetch: one command.  A note or rest looks for a number and goes     *)
(* back when there is none.                                                *)
(***************************************************************************)
NoteNumber12(h) == h.token.value + h.shift + h.octave * 12

Sound(h, next, info) ==
    LET counted == next.token.type = "number"
        length == IF counted THEN next.token ELSE Symbol("number", h.length, 0)
        ticks == IF Playable(length) THEN NoteTicks(length) ELSE 0
    IN  [next EXCEPT !.tp = IF counted THEN @ ELSE h.tp,
                     !.result = IF Playable(length) THEN "ok" ELSE "length",
                     !.calls = IF Playable(length) THEN Append(@, info @@ [ticks |-> ticks]) ELSE @]

Setting(next, field) ==
    IF next.token.type # "number" THEN [next EXCEPT !.result = field]
    ELSE CASE field = "octave" -> [next EXCEPT !.octave = next.token.value]
           [] field = "length" -> [next EXCEPT !.length = next.token.value]
           [] OTHER -> next

Push(h, side, at, full) ==
    IF Len(h[side]) = MML_STACK_MAX_DEPTH THEN [h EXCEPT !.result = full]
    ELSE [h EXCEPT ![side] = Append(@, at)]

JumpBack(h) ==
    IF h.result # "ok" THEN h
    ELSE IF h.left = << >> THEN [h EXCEPT !.result = "left empty"]
    ELSE [h EXCEPT !.left = Front(@), !.tp = Last(h.left) + 1]

RepeatRight(h) ==
    LET at == h.tp - 1
    IN  IF h.right # << >> /\ Last(h.right) = at THEN [h EXCEPT !.right = Front(@)]
        ELSE JumpBack(Push(h, "right", at, "right full"))

Fetch(text, from) ==
    LET h == GetToken(text, from)
        next == GetToken(text, h)
        type == h.token.type
    IN  IF h.result # "ok" THEN h
        ELSE CASE type = "note" -> Sound(h, next, [type |-> "note", number |-> NoteNumber12(h)])
               [] type = "rest" -> Sound(h, next, [type |-> "rest", number |-> 0])
               [] type \in {"tempo", "volume", "length", "octave"} -> Setting(next, type)
               [] type = "up" -> [h EXCEPT !.octave = Max({@, Min({@ + h.run, MML_OCTAVE_MAX})})]
               [] type = "down" -> [h EXCEPT !.octave = Min({@, Max({@ - h.run, 0})})]
               [] type = "left" -> Push(h, "left", h.tp - 1, "left full")
               [] type = "right" -> RepeatRight(h)
               [] type = "user" -> [h EXCEPT !.result = IF h.token.value = 1 THEN "ok" ELSE "user"]
               [] OTHER -> [h EXCEPT !.result = "sequence"]

(***************************************************************************)
(* mml_setup, and mml_fetch until it fails or the text ends.               *)
(***************************************************************************)
Setup ==
    [tp |-> 1, left |-> << >>, right |-> << >>, octave |-> 4, length |-> 8, result |-> "ok",
     token |-> Symbol("unknown", 0, 0), run |-> 0, shift |-> 0, calls |-> << >>]

FetchAll(text) ==
    FoldLeft(LAMBDA h, n : IF h.result = "ok" THEN Fetch(text, h) ELSE h,
             Setup, [n \in 1..MaxFetches |-> n])

MMLCalls(text) == FetchAll(text).calls

-----------------------------------------------------------------------------
(***************************************************************************)
(* What a text means.  A repeat is its contents twice, from the inside     *)
(* out; then every note and rest lasts as long as the number behind it or  *)
(* the last length says, in the octave the commands before it lead to.     *)
(***************************************************************************)
Brackets(text, type) == {i \in DOMAIN text : text[i].type = type}

WellPaired(text) ==
    /\ \A i \in DOMAIN text :
          Cardinality({j \in Brackets(text, "right") : j <= i})
            <= Cardinality({j \in Brackets(text, "left") : j <= i})
    /\ Cardinality(Brackets(text, "right")) = Cardinality(Brackets(text, "left"))

UnrollOne(text) ==
    LET close == Min(Brackets(text, "right"))
        open == Max({i \in Brackets(text, "left") : i < close})
        inner == SubSeq(text, open + 1, close - 1)
    IN  IF Brackets(text, "right") = {} THEN text
        ELSE SubSeq(text, 1, open - 1) \o inner \o inner \o SubSeq(text, close + 1, Len(text))

Unrolled(text) ==
    FoldLeft(LAMBDA t, n : UnrollOne(t), text, [n \in 1..Cardinality(Brackets(text, "right")) |-> n])

LastSetting(text, i, type, default) ==
    LET set == {j \in 1..(i - 2) : text[j].type = type}
    IN  IF set = {} THEN default ELSE text[Max(set) + 1].value

OctaveAt(text, i) ==
    LET set == {j \in 1..(i - 2) : text[j].type = "octave"}
        from == IF set = {} THEN 1 ELSE Max(set) + 2
        base == IF set = {} THEN 4 ELSE text[Max(set) + 1].value
    IN  FoldLeft(LAMBDA o, k : CASE k.type = "up" -> Min({o + 1, MML_OCTAVE_MAX})
                                 [] k.type = "down" -> Max({o - 1, 0})
                                 [] OTHER -> o,
                 base, SubSeq(text, from, i - 1))

MeansNote(text, i) ==
    LET after == Accidentals(text, i + 1)
        next == i + Cardinality(after) + 1
        length == IF next <= Len(text) /\ text[next].type = "number" THEN text[next]
                  ELSE Symbol("number", LastSetting(text, i, "length", 8), 0)
    IN  [type |-> text[i].type, ticks |-> NoteTicks(length),
         number |-> IF text[i].type = "rest" THEN 0
                    ELSE text[i].value + OctaveAt(text, i) * 12
                           + MapThenSumSet(LAMBDA k : Accidental(text[k]), after)]

MMLMeans(text) ==
    LET whole == SelectSeq(Unrolled(text), LAMBDA s : s.type # "space")
    IN  FlattenSeq([i \in DOMAIN whole |->
            IF whole[i].type \in {"note", "rest"} THEN <<MeansNote(whole, i)>> ELSE << >>])

(***************************************************************************)
(* Plain text: repeats paired and not too deep, a number after every       *)
(* setting and elsewhere only after notes and rests, accidentals only      *)
(* after notes, and rests that do not touch, which would be read as one.   *)
(***************************************************************************)
Depth(text, i) ==
    Cardinality({j \in Brackets(text, "left") : j <= i})
      - Cardinality({j \in Brackets(text, "right") : j < i})

Settings == {"octave", "length", "tempo", "volume"}

MayFollow(text, i) ==
    LET p == IF i = 1 THEN "start" ELSE text[i - 1].type
    IN  /\ p \in Settings => text[i].type = "number"
        /\ CASE text[i].type = "number" ->
                  /\ p \in Settings \cup {"note", "rest", "sharp", "flat"}
                  /\ p \in {"octave", "tempo", "volume"} \/ Playable(text[i])
             [] text[i].type \in {"sharp", "flat"} -> p \in {"note", "sharp", "flat"}
             [] text[i].type = "rest" -> p # "rest"
             [] text[i].type \in {"note", "up", "down", "left", "right", "space"} \cup Settings -> TRUE
             [] OTHER -> FALSE

PlainMML(text) ==
    /\ WellPaired(text)
    /\ \A i \in DOMAIN text : /\ MayFollow(text, i)
                               /\ Depth(text, i) <= MML_STACK_MAX_DEPTH
                               /\ Run(text, i, text[i].type) < MML_WORK_BUFFER_SIZE - 1
    /\ text # << >> => text[Len(text)].type \notin Settings
=============================================================================
