------------------------------- MODULE MCApi -------------------------------
(***************************************************************************)
(* The scripting API over every class and package the bindings register.   *)
(* (What the cfg gives for a constant TLC evaluates at every use, so it is *)
(* the name of a definition, which TLC evaluates once.)                    *)
(***************************************************************************)
EXTENDS Reading, Bindings

MCClass == RegisteredClass
MCPackage == RegisteredPackage
MCPushed == Parameters
Names == (DOMAIN RegisteredClass) \cup Packages

MCFollowed == Names

MCBound ==
    [t \in MCFollowed |->
        CASE t = "Midi" -> [held |-> 2, objects |-> 6, runs |-> 0]
          [] t = "Midi.ABCReader" -> [held |-> 3, objects |-> 5, runs |-> 0]
          [] t = "IO.File" -> [held |-> 2, objects |-> 5, runs |-> 1]
          [] t \in {"Midi.Tune", "Midi.MMLReader"} -> [held |-> 2, objects |-> 4, runs |-> 1]
          [] t \in {"Midi.Note", "Midi.Pattern"} -> [held |-> 2, objects |-> 3, runs |-> 1]
          [] OTHER -> [held |-> 2, objects |-> 3, runs |-> 2]]

Symmetry == Permutations(Slots)

MCOtherKinds ==
    {"Audio.Mixer", "Lv2.Plugin", "Midi.Note", "Midi.NoteOn", "Midi.Pattern",
     "Midi.SystemIn", "Osc.Message", "Transport.Position", "Transport.TimeSignature"}

MCTimeBases == {[beats |-> 4, unit |-> 4], [beats |-> 6, unit |-> 8]}

MCPitches == {0, 64}
MCAmounts == {-64, 64}

(***************************************************************************)
(* MML texts.  The studies are the plain ones of up to three symbols, and  *)
(* of six symbols that are notes or repeats.                               *)
(***************************************************************************)
sym(type, value) == Symbol(type, value, 0)
a4(value) == <<sym("note", value), sym("number", 4)>>
a0(value) == <<sym("note", value), sym("number", 0)>>

MCMMLTexts ==
    {<< >>, a0(0), a0(0) \o a4(4) \o <<sym("note", 7)>>,
     \* more tones than a chord may have, a repeat, and a rest
     a0(4) \o a0(7) \o a0(0) \o <<sym("left", 0)>> \o a4(0) \o <<sym("right", 0), sym("rest", 0)>> \o a4(4),
     \* a rest ends the chord; octave, length and accidentals; then a symbol that is none
     a0(0) \o <<sym("rest", 0), sym("up", 0), sym("length", 0), sym("number", 16), sym("note", 4),
               sym("sharp", 0), sym("note", 0), Symbol("number", 2, 1), sym("unknown", 0), sym("note", 0)>>}

Symbols ==
    {sym("note", 0), sym("note", 4), sym("rest", 0), sym("number", 4), Symbol("number", 4, 1),
     sym("number", 0), sym("up", 0), sym("down", 0), sym("sharp", 0), sym("octave", 0),
     sym("length", 0), sym("space", 0)}

MMLPieces ==
    {text \in UNION {[1..n -> Symbols] : n \in 1..3}
                 \cup [1..6 -> {sym("note", 0), sym("left", 0), sym("right", 0)}] : PlainMML(text)}

MCMMLStudies == MMLPieces

(***************************************************************************)
(* ABC texts.  The studies are the plain ones of up to three signs, of two *)
(* signs between two notes, and of five signs that are notes or repeats.   *)
(***************************************************************************)
note(letter, acc, num) ==
    <<[token |-> "note", letter |-> letter, octave |-> 0, acc |-> acc, num |-> num, den |-> 1]>>
C == note("c", 9, 1)
F == note("f", 9, 1)
rest == <<[token |-> "rest", num |-> 1, den |-> 2]>>
bar(type, passes) == <<[token |-> "bar", type |-> type, passes |-> passes]>>
tuplet == <<[token |-> "tuple", n |-> 3, q |-> 0, r |-> 0]>>
broken(less) == <<[token |-> "broken", less |-> less, mult |-> 1]>>
tie == <<[token |-> "tie"]>>
chordOn == <<[token |-> "chordon"]>>
chordOff == <<[token |-> "chordoff", num |-> 1, den |-> 1]>>
meter(num, den) == [field |-> "M", num |-> num, den |-> den]
inline(f) == <<("token" :> "field") @@ f>>
music(tokens) == [line |-> "music", tokens |-> tokens]
field(f) == [line |-> "field", tokens |-> <<f>>]
head == <<field([field |-> "X"]), field([field |-> "K", found |-> TRUE, sharps |-> 1])>>
voice(v) == field([field |-> "V", voice |-> v])

MCABCTexts ==
    {\* notes only: for readTune() there is no tune in it
     <<music(C \o broken(FALSE) \o note("f", 1, 1) \o bar("REP_BAR", {}) \o F)>>,
     \* a tuplet that lacks a note, and a chord that is never closed
     <<music(tuplet \o C \o F)>>,
     <<music(chordOn \o C \o F)>>,
     \* a tune of two voices in another meter, with a chord across the bar
     head \o <<field(meter(3, 4)), voice("a"), music(chordOn \o C \o F \o chordOff \o note("f", 9, 5)),
              voice("b"), music(rest \o note("c", 9, 4) \o tie \o C)>>,
     \* two tunes: in the first one the meter changes between two notes, and reading it throws
     head \o <<music(C \o inline(meter(3, 4)) \o F), [line |-> "blank"]>> \o head \o <<music(C)>>,
     \* bars too long for the words
     head \o <<music(inline(meter(8, 4)) \o C \o inline(meter(64, 1)) \o C)>>,
     \* nothing to play
     << >>}

Signs ==
    {C, F, note("f", 1, 2), tuplet, broken(FALSE), broken(TRUE), tie, rest, bar("SINGLE_BAR", {}),
     bar("BAR_REP", {}), bar("REP_BAR", {}), bar("DOUBLE_REP", {}), bar("SINGLE_BAR", {1}),
     bar("REP_BAR", {2}), chordOn \o C \o F \o chordOff}

Repeats ==
    {C, bar("BAR_REP", {}), bar("REP_BAR", {}), bar("DOUBLE_REP", {}), bar("SINGLE_BAR", {1}),
     bar("REP_BAR", {2})}

Phrases ==
    LET Of(n, signs) == {FlattenSeq(t) : t \in [1..n -> signs]}
    IN  UNION {Of(n, Signs) : n \in 1..3} \cup Of(5, Repeats) \cup {C \o M \o F : M \in Of(2, Signs)}

ABCPieces == {<<music(M)>> : M \in {P \in Phrases : PlainMusic(P)}}

MCABCStudies == ABCPieces

tab(p, bars) == [type |-> "tab", channel |-> [digits |-> TRUE, pitch |-> p], bars |-> bars]
named(p, bars) == [type |-> "tab", channel |-> [digits |-> FALSE, pitch |-> p], bars |-> bars]
empty == [type |-> "empty"]
other == [type |-> "text"]
x == TRUE
o == FALSE

MCDrumTexts ==
    {<<tab(36, <<<<x, o, x, o>>, <<o, x, o>>>>), tab(38, <<<<o, x>>, <<o, o>>>>), empty, other,
       tab(36, <<<<x>>>>)>>,
     <<other, empty, tab(38, <<<<o, o, x>>>>), other, tab(36, <<<<x, x, o, o>>>>), empty, empty,
       tab(38, <<<<x, o>>, <<x, x>>>>)>>,
     <<named(36, <<<<x, o>>>>), tab(38, <<<<o, x>>>>)>>,
     <<tab(36, << >>), tab(38, <<<<x>>>>), tab(36, << >>), empty, tab(36, <<<<o, x>>>>)>>}
=============================================================================
