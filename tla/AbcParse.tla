------------------------------- MODULE AbcParse -------------------------------
(***************************************************************************)
(* The first stage of abcmidi: from the lines of a text to the events of   *)
(* the store (parseabc.c).                                                 *)
(*                                                                         *)
(* A text is a sequence of lines: blank ones, fields, and others, which in *)
(* the body of a tune are music.  A line of music is a sequence of tokens; *)
(* the tokens and fields are those whose events AbcStore has, and an X: is *)
(* always on a line of its own.  A note has its length behind it already   *)
(* read (readlen), a list of passes is the set of its numbers (getrep),    *)
(* and [| is followed by a space, which the parser swallows.               *)
(*                                                                         *)
(* The parser r has the state s of the store, whether the lines belong to  *)
(* the head or the body of a tune, and the names of its voices.            *)
(***************************************************************************)
EXTENDS AbcFinish

FailParsing(r) == [r EXCEPT !.s = Fail(@)]

(***************************************************************************)
(* readsig: a denominator that is not a power of two counts as missing.    *)
(***************************************************************************)
PowersOfTwo == {2 ^ k : k \in 0..7}

Signature(f) == [num |-> f.num, den |-> IF f.den \in PowersOfTwo \/ f.num = 0 THEN f.den ELSE 0]

SignatureRead(r, f) ==
    IF f.num = 0 \/ f.den \notin PowersOfTwo THEN FailParsing(r) ELSE r

(***************************************************************************)
(* parsefield.  M: none is 4/4, and a key without a tonic is not found.    *)
(* A voice has a name, also where that is a number: isnumberp looks at the *)
(* pointer and not at the character.  Voices are numbered as they come.    *)
(***************************************************************************)
InBody == {"K", "L", "M", "P", "Q", "T", "V", "w"}

StartTune(r) ==
    LET u == IF r.inhead THEN FailParsing(r) ELSE r
    IN  [s |-> EventRefNo(u.s), inhead |-> TRUE, inbody |-> FALSE, voicecode |-> << >>]

VoiceField(r, f) ==
    LET known == Range(r.voicecode)
        code == IF f.voice \in known THEN r.voicecode ELSE Append(r.voicecode, f.voice)
    IN  [r EXCEPT !.voicecode = code,
                  !.s = EventVoice(@, CHOOSE n \in DOMAIN code : code[n] = f.voice)]

KeyField(r, f) ==
    LET keyed == IF f.found THEN [r EXCEPT !.s = EventKey(@, f.sharps)] ELSE r
    IN  IF (~r.inhead /\ ~r.inbody) \/ (r.inhead /\ ~f.found) THEN FailParsing(keyed)
        ELSE [keyed EXCEPT !.inbody = TRUE, !.inhead = FALSE]

MeterField(r, f) ==
    LET g == Signature(f)
        u == SignatureRead(r, f)
    IN  IF g.num # 0 /\ g.den # 0 THEN [u EXCEPT !.s = EventTimesig(@, g.num, g.den)] ELSE u

LengthField(r, f) ==
    LET g == Signature(f)
        u == SignatureRead(r, f)
    IN  IF g.num # 1 \/ g.den = 0 THEN FailParsing(u) ELSE [u EXCEPT !.s = EventLength(@, g.den)]

ParseField(r, f) ==
    LET u == IF r.inbody /\ f.field \notin InBody THEN FailParsing(r) ELSE r
    IN  IF f.field = "X" THEN StartTune(r)
        ELSE IF ~r.s.dotune THEN r
        ELSE CASE f.field = "K" -> KeyField(u, f)
               [] f.field = "M" -> MeterField(u, f)
               [] f.field = "L" -> LengthField(u, f)
               [] f.field = "P" -> [u EXCEPT !.s = EventPart(@, f.parts)]
               [] f.field = "V" -> VoiceField(u, f)
               [] f.field = "Q" -> [u EXCEPT !.s = EventTempo(@)]
               [] OTHER -> u

(***************************************************************************)
(* parsemusic: the tokens of a line, in the brackets of its features.  The *)
(* tokens "stray" are those the parser has no use for (a single colon, a   *)
(* star or backslash in the middle, an unknown character).                 *)
(***************************************************************************)
MaxBroken == 3

Event(s, t) ==
    CASE t.token = "note" -> EventNote(s, t.letter, t.octave, t.acc, t.num, t.den)
      [] t.token = "rest" -> EventRest(s, t.num, t.den)
      [] t.token = "mrest" -> EventMRest(IF t.den # 1 THEN Fail(s) ELSE s, t.num)
      [] t.token = "bar" -> EventBar(s, t.type, t.passes)
      [] t.token = "playonrep" -> EventPlayOnRep(s, t.passes)
      [] t.token = "tuple" -> EventTuple(s, t.n, t.q, t.r)
      [] t.token = "broken" ->
           IF t.mult > MaxBroken THEN Fail(s) ELSE EventBroken(s, t.less, t.mult)
      [] t.token = "tie" -> EventTie(s)
      [] t.token = "chordon" -> EventChordOn(s)
      [] t.token = "chordoff" -> EventChordOff(s, t.num, t.den)
      [] t.token = "graceon" -> EventGraceOn(s)
      [] t.token = "graceoff" -> EventGraceOff(s)
      [] t.token = "space" -> s
      [] t.token = "stray" -> Fail(s)

ParseToken(r, t) ==
    IF t.token = "field" THEN ParseField(r, t) ELSE [r EXCEPT !.s = Event(@, t)]

RECURSIVE ParseTokens(_, _)
ParseTokens(r, tokens) ==
    IF tokens = << >> THEN r ELSE ParseTokens(ParseToken(r, Head(tokens)), Tail(tokens))

MarkLine(r, type) == [r EXCEPT !.s = Mark(@, type)]

ParseMusic(r, tokens) == MarkLine(ParseTokens(MarkLine(r, "MUSICLINE"), tokens), "MUSICSTOP")

(***************************************************************************)
(* parseline, and parsestring after it: a blank line ends the tune.  Lines *)
(* that are neither field nor music are text, and ignored.                 *)
(***************************************************************************)
ParseLine(r, l) ==
    CASE l.line = "blank" -> [r EXCEPT !.s = EventBlankLine(@), !.inhead = FALSE, !.inbody = FALSE]
      [] l.line = "field" -> ParseField(r, l.tokens[1])
      [] l.line = "music" -> IF r.inbody /\ r.s.dotune THEN ParseMusic(r, l.tokens) ELSE r

StartsTune(l) == l.line = "field" /\ l.tokens[1].field = "X"

LineBreak(r) == IF r.s.dotune THEN MarkLine(r, "LINENUM") ELSE r

RECURSIVE ParseLines(_, _)
ParseLines(r, text) ==
    IF text = << >> THEN r ELSE ParseLines(LineBreak(ParseLine(r, Head(text))), Tail(text))

(***************************************************************************)
(* parse_abc and parse_abc_raw, which puts a header before the text and    *)
(* skips the blank lines it starts with.  Three globals are never reset:   *)
(* the tuplet and the chord under way, and whether any tune was ever       *)
(* started.  What remains of them is the result, with the calls and the    *)
(* number of tunes that were written before the end of the text.           *)
(***************************************************************************)
Globals == [tuple |-> NoTuple, chord |-> NoChord, started |-> FALSE]

Parser(g) ==
    [s |-> NoTune([out |-> << >>, tuple |-> g.tuple, chord |-> g.chord]),
     inhead |-> FALSE, inbody |-> FALSE, voicecode |-> << >>]

Result(last, s, started) ==
    [calls |-> IF started THEN s.out ELSE Append(s.out, Error),
     ended |-> Cardinality({i \in DOMAIN last.out : last.out[i].call = "sequence"}),
     globals |-> [tuple |-> s.tuple, chord |-> s.chord, started |-> started]]

AtEnd(s, started) == Result(s, EventEof(s), started)

ParseAbc(g, text) ==
    AtEnd(ParseLines(Parser(g), text).s, g.started \/ \E i \in DOMAIN text : StartsTune(text[i]))

SkipBlank(text) ==
    LET lines == {i \in DOMAIN text : text[i].line # "blank"}
    IN  IF lines = {} THEN << >> ELSE SubSeq(text, Min(lines), Len(text))

ParseAbcRaw(g, head, text) ==
    AtEnd(ParseLines(MarkLine(ParseTokens(Parser(g), head), "LINENUM"), SkipBlank(text)).s, TRUE)
===============================================================================
