------------------------------- MODULE AbcStore -------------------------------
(***************************************************************************)
(* The middle stage of abcmidi: the events of the parser are stored as the *)
(* features of a tune, which are then made ready to be written (store.c).  *)
(*                                                                         *)
(* The state s has the calls made so far (out), the features (F), the      *)
(* contexts of the voices in the order they were met, the number of the    *)
(* current one (v), the header's values, and three things that outlast a   *)
(* tune because they are globals no tune resets: the tuplet and the chord  *)
(* under way and whether the last event left the parser on (dotune).       *)
(*                                                                         *)
(* Decorations, slurs, guitar chords, lyrics, voice overlays, MIDI         *)
(* directives, microtones and stress patterns are not part of the model.   *)
(***************************************************************************)
EXTENDS AbcMidi

Unset == 0
NoMarks == [laststart |-> Unset, lastend |-> Unset, thisstart |-> Unset, thisend |-> Unset,
            less |-> FALSE, mult |-> 1, pending |-> FALSE]

Letters == <<"c", "d", "e", "f", "g", "a", "b">>
Scale == [l \in Range(Letters) |-> <<0, 2, 4, 5, 7, 9, 11>>[CHOOSE i \in 1..7 : Letters[i] = l]]

(***************************************************************************)
(* setmap: the sharps (or, below zero, the flats) of a key.                *)
(***************************************************************************)
Sharps == <<"f", "c", "g", "d", "a", "e", "b">>

SetMap(sf) ==
    [l \in Range(Letters) |->
        LET place == CHOOSE i \in 1..7 : Sharps[i] = l
        IN  IF sf >= place THEN 1 ELSE IF -sf >= 8 - place THEN -1 ELSE 0]

(***************************************************************************)
(* startfile: a new tune.                                                  *)
(***************************************************************************)
NoTuple == [count |-> 0, num |-> 1, den |-> 1]
NoChord == [notes |-> 0, delay |-> 0]

StartFile(r) ==
    [out |-> r.out, tuple |-> r.tuple, chord |-> r.chord, dotune |-> TRUE, pastheader |-> FALSE, F |-> << >>,
     voices |-> << >>, v |-> 0, voicesused |-> FALSE, time |-> [num |-> 4, den |-> 4],
     mtime |-> [num |-> 4, den |-> 4], length |-> -1, map |-> SetMap(0), gracenotes |-> FALSE,
     hasparts |-> FALSE, parts |-> << >>, nparts |-> 0, headerpartlabel |-> FALSE, partstart |-> {},
     chordstart |-> 0]

NoTune(r) == [StartFile(r) EXCEPT !.dotune = FALSE]

Cur(s) == s.voices[s.v]
AddFeature(s, f) == [s EXCEPT !.F = Append(@, f)]
Mark(s, type) == AddFeature(s, Feature(type, 0, 0, 0))

(***************************************************************************)
(* getvoicecontext: the voice with a number, a new one when there is none. *)
(***************************************************************************)
NewVoice(s, n) ==
    [no |-> n, length |-> s.length, meter |-> s.time, base |-> s.map, map |-> s.map,
     keyset |-> s.pastheader, inchord |-> FALSE, ingrace |-> FALSE, chordcount |-> 0,
     chord |-> [num |-> 0, den |-> 1], marks |-> NoMarks, stack |-> NoMarks]

GetVoiceContext(s, n) ==
    LET known == {i \in DOMAIN s.voices : s.voices[i].no = n}
        i == IF known = {} THEN Len(s.voices) + 1 ELSE Min(known)
        p == IF known = {} THEN NewVoice(s, n) ELSE s.voices[i]
        keyed == IF s.pastheader /\ ~p.keyset
                 THEN [p EXCEPT !.keyset = TRUE, !.base = s.map, !.map = s.map] ELSE p
    IN  [s EXCEPT !.v = i, !.mtime = p.meter,
                  !.voices = IF known = {} THEN Append(@, keyed) ELSE [@ EXCEPT ![i] = keyed]]

(***************************************************************************)
(* Broken rhythm.  A voice remembers where its last two notes or chords    *)
(* start and end.                                                          *)
(***************************************************************************)
Lengthy == {"NOTE", "REST", "CHORDOFF", "CHORDOFFEX"}

LenMul(f, a, b) ==
    LET r == Reduce(f.num * a, f.den * b)
    IN  IF f.type \in Lengthy THEN [f EXCEPT !.num = r.num, !.den = r.den] ELSE f

BrokenAdjust(s) ==
    LET m == Cur(s).marks
        long == <<6, 7, 15>>[m.mult]
        short == <<2, 1, 1>>[m.mult]
        half == (long + short) \div 2
        first == IF m.less THEN short ELSE long
        second == IF m.less THEN long ELSE short
        same == s.F[m.laststart].num * s.F[m.thisstart].den = s.F[m.thisstart].num * s.F[m.laststart].den
    IN  IF Unset \in {m.laststart, m.lastend, m.thisstart, m.thisend} \/ ~same THEN Fail(s)
        ELSE [s EXCEPT !.F = [i \in DOMAIN @ |->
                 LET once == IF i \in m.laststart..m.lastend THEN LenMul(@[i], first, half) ELSE @[i]
                 IN  IF i \in m.thisstart..m.thisend THEN LenMul(once, second, half) ELSE once]]

MarkNoteStart(s) ==
    [s EXCEPT !.voices[s.v].marks.laststart = Cur(s).marks.thisstart,
              !.voices[s.v].marks.lastend = Cur(s).marks.thisend,
              !.voices[s.v].marks.thisstart = Len(s.F)]

MarkNoteEnd(s) ==
    LET ended == [s EXCEPT !.voices[s.v].marks.thisend = Len(s.F)]
    IN  IF Cur(s).marks.pending
        THEN [BrokenAdjust(ended) EXCEPT !.voices[s.v].marks.pending = FALSE] ELSE ended

MarkNote(s) == MarkNoteEnd(MarkNoteStart(s))

EventBroken(s, less, mult) ==
    IF Cur(s).inchord \/ Cur(s).ingrace THEN Fail(s)
    ELSE [s EXCEPT !.voices[s.v].marks.less = less, !.voices[s.v].marks.mult = mult,
                   !.voices[s.v].marks.pending = TRUE]

(***************************************************************************)
(* Grace notes have a broken rhythm of their own.                          *)
(***************************************************************************)
EventGraceOn(s) ==
    IF s.gracenotes \/ Cur(s).inchord THEN Fail(s)
    ELSE [Mark(s, "GRACEON") EXCEPT !.gracenotes = TRUE, !.voices[s.v].ingrace = TRUE,
                                    !.voices[s.v].stack = Cur(s).marks,
                                    !.voices[s.v].marks = [NoMarks EXCEPT !.less = Cur(s).marks.less,
                                                                          !.mult = Cur(s).marks.mult]]

EventGraceOff(s) ==
    LET r == IF Cur(s).marks.pending THEN Fail(s) ELSE s
    IN  IF ~s.gracenotes THEN Fail(s)
        ELSE [Mark(r, "GRACEOFF") EXCEPT !.gracenotes = FALSE, !.voices[s.v].ingrace = FALSE,
                                         !.voices[s.v].marks = Cur(s).stack]

(***************************************************************************)
(* Tuplets: the next notes are played num/den as long.                     *)
(***************************************************************************)
EventTuple(s, n, q, r) ==
    LET standard == CASE n \in {2, 4, 8} -> 3
                      [] n \in {3, 6} -> 2
                      [] OTHER -> IF s.time.num % 3 = 0 THEN 3 ELSE 2
        count == IF r = 0 THEN n ELSE r
    IN  IF s.tuple.count > 0 THEN Fail(s)
        ELSE IF q # 0 THEN [s EXCEPT !.tuple = [count |-> count, num |-> q, den |-> n]]
        ELSE IF n \in 2..9 THEN [s EXCEPT !.tuple = [count |-> count, num |-> standard, den |-> n]]
        ELSE [Fail(s) EXCEPT !.tuple = NoTuple]

InTuple(s, n, m) ==
    IF s.tuple.count > 0 THEN [num |-> n * s.tuple.num, den |-> m * s.tuple.den]
    ELSE [num |-> n, den |-> m]

CountTuple(s) ==
    IF s.tuple.count > 0 /\ ~s.gracenotes /\ ~Cur(s).inchord
    THEN [s EXCEPT !.tuple.count = @ - 1] ELSE s

(***************************************************************************)
(* Notes and rests.  A written accidental holds for the note in every      *)
(* octave up to the next bar line.  Lengths are in units of the voice's    *)
(* default; the first note of a chord gives the chord its length.          *)
(***************************************************************************)
NoAccidental == 9

PitchOf(s, letter, octave, acc) ==
    60 + 12 * octave + Scale[letter] + (IF acc = NoAccidental THEN Cur(s).map[letter] ELSE acc)

Propagate(s, letter, acc) ==
    IF acc = NoAccidental THEN s ELSE [s EXCEPT !.voices[s.v].map[letter] = acc]

Sounding(s, f, n, m) ==
    LET in == IF Cur(s).inchord THEN [s EXCEPT !.voices[s.v].chordcount = @ + 1] ELSE s
        t == InTuple(s, n, m)
        len == Reduce(t.num * 4, t.den * Cur(s).length)
        counted == CountTuple(in)
        first == IF Cur(in).chordcount = 1 THEN [counted EXCEPT !.voices[s.v].chord = len] ELSE counted
        added == AddFeature(first, [f EXCEPT !.num = len.num, !.den = len.den])
    IN  IF Cur(s).inchord THEN added ELSE MarkNote(added)

EventNote(s, letter, octave, acc, n, m) ==
    LET f == [Feature("NOTE", PitchOf(s, letter, octave, acc), 0, 0)
                 EXCEPT !.line = PitchOf(s, letter, octave, 0)]
    IN  Sounding(Propagate(s, letter, acc), f, n, m)

EventRest(s, n, m) == Sounding(s, Feature("REST", 0, 0, 0), n, m)

(***************************************************************************)
(* Bars: the accidentals of the key are back.                              *)
(***************************************************************************)
EventPlayOnRep(s, passes) ==
    AddFeature(s, [Feature("PLAY_ON_REP", 0, 0, 0) EXCEPT !.passes = passes])

EventBar(s, type, passes) ==
    LET double == type \in {"THIN_THICK", "THICK_THIN"}
        t == [Mark(s, IF double THEN "DOUBLE_BAR" ELSE type) EXCEPT !.voices[s.v].map = Cur(s).base]
    IN  IF passes = {} THEN t ELSE EventPlayOnRep(t, passes)

BarRest(s) == EventRest(s, s.mtime.num * Cur(s).length, s.mtime.den)

RECURSIVE EventMRest(_, _)
EventMRest(s, n) ==
    IF n <= 1 THEN IF n = 1 THEN BarRest(s) ELSE s
    ELSE EventMRest(EventBar(BarRest(s), "SINGLE_BAR", {}), n - 1)

(***************************************************************************)
(* Chords.  A length behind the bracket holds for every note in it.        *)
(***************************************************************************)
EventChordOn(s) ==
    IF Cur(s).inchord THEN Fail(s)
    ELSE MarkNoteStart([Mark(s, "CHORDON") EXCEPT
             !.chordstart = Len(s.F) + 1, !.voices[s.v].inchord = TRUE,
             !.voices[s.v].chordcount = 0, !.voices[s.v].chord = [num |-> 0, den |-> 1]])

FixEnclosed(F, from, end) ==
    [i \in DOMAIN F |->
        IF i \in from..(end - 1) /\ F[i].type \in {"NOTE", "TNOTE", "REST"}
        THEN [F[i] EXCEPT !.num = F[end].num, !.den = F[end].den] ELSE F[i]]

EventChordOff(s, n, m) ==
    LET t == InTuple(s, n, m)
        outer == Reduce(t.num * 4, t.den * Cur(s).length)
        inner == Cur(s).chord
        closed == IF n = 1 /\ m = 1 THEN AddFeature(s, Feature("CHORDOFF", 0, inner.num, inner.den))
                  ELSE AddFeature(s, Feature("CHORDOFFEX", 0, outer.num, outer.den))
        fixed == IF n = 1 /\ m = 1 THEN closed
                 ELSE [closed EXCEPT !.F = FixEnclosed(@, s.chordstart, Len(@))]
        ended == MarkNoteEnd([fixed EXCEPT !.voices[s.v].inchord = FALSE,
                                           !.voices[s.v].chordcount = 0])
    IN  IF ~Cur(s).inchord THEN Fail(s)
        ELSE [ended EXCEPT !.tuple.count = IF @ > 0 THEN @ - 1 ELSE @]

(***************************************************************************)
(* A tie, behind a note or, for each of its notes, behind a chord.         *)
(***************************************************************************)
EventTie(s) ==
    LET chord == SubSeq(s.F, s.chordstart, Len(s.F))
        tied == FlattenSeq([i \in DOMAIN chord |->
                    IF chord[i].type = "NOTE" /\ chord[i + 1].type # "TIE"
                    THEN <<chord[i], Feature("TIE", 0, 0, 0)>> ELSE <<chord[i]>>])
    IN  IF s.F # << >> /\ Last(s.F).type \in {"CHORDOFF", "CHORDOFFEX"}
        THEN [s EXCEPT !.F = SubSeq(@, 1, s.chordstart - 1) \o tied]
        ELSE Mark(s, "TIE")

(***************************************************************************)
(* Fields.  A field in the header is about the tune, one in the body about *)
(* the current voice.  K: ends the header.                                 *)
(***************************************************************************)
EventLength(s, n) ==
    IF s.pastheader THEN [s EXCEPT !.voices[s.v].length = n] ELSE [s EXCEPT !.length = n]

EventTimesig(s, n, m) ==
    LET t == [num |-> n, den |-> m]
    IN  IF ~s.dotune THEN s
        ELSE IF s.pastheader
        THEN [AddFeature(s, Feature("TIME", 0, n, m)) EXCEPT !.mtime = t, !.voices[s.v].meter = t]
        ELSE [s EXCEPT !.time = t, !.mtime = t,
                       !.voices = [i \in DOMAIN @ |-> [@[i] EXCEPT !.meter = t]]]

EventTempo(s) == IF s.dotune /\ s.pastheader THEN Mark(s, "TEMPO") ELSE s

HeaderProcess(s) ==
    LET labelled == IF s.headerpartlabel
                    THEN [AddFeature(s, Feature("PART", s.parts[1], 0, 0))
                             EXCEPT !.partstart = {s.parts[1]}] ELSE s
        length == IF s.length # -1 THEN s.length
                  ELSE IF s.time.num * 4 < s.time.den * 3 THEN 16 ELSE 8
    IN  [labelled EXCEPT !.pastheader = TRUE, !.gracenotes = FALSE, !.length = length,
                         !.voicesused = FALSE,
                         !.voices = [i \in DOMAIN @ |->
                             [@[i] EXCEPT !.length = IF @ = -1 THEN length ELSE @]]]

EventKey(s, sharps) ==
    IF ~s.dotune THEN s
    ELSE IF s.pastheader
    THEN [AddFeature(s, Feature("KEY", sharps, 0, 0)) EXCEPT !.voices[s.v].base = SetMap(sharps),
                                                             !.voices[s.v].map = SetMap(sharps)]
    ELSE GetVoiceContext(HeaderProcess([s EXCEPT !.map = SetMap(sharps)]), 1)

(***************************************************************************)
(* checkbreak: a voice must not be left within a chord, a tuplet or grace  *)
(* notes.                                                                  *)
(***************************************************************************)
CheckBreak(s) ==
    LET t == IF s.tuple.count # 0 THEN [Fail(s) EXCEPT !.tuple.count = 0] ELSE s
        c == IF Cur(t).inchord THEN EventChordOff(Fail(t), 1, 1) ELSE t
    IN  IF Cur(c).ingrace THEN [Fail(c) EXCEPT !.voices[s.v].ingrace = FALSE] ELSE c

EventVoice(s, n) ==
    LET t == GetVoiceContext(IF s.pastheader THEN CheckBreak(s) ELSE s, n)
    IN  [AddFeature(t, Feature("VOICE", t.v, 0, 0)) EXCEPT !.voicesused = TRUE]

(***************************************************************************)
(* P: lists the parts in the header and labels them in the body.  A single *)
(* letter in the header may be either, until the body has a label of it. A *)
(* second list is appended to the first, and only as many parts as it has  *)
(* are played of both.                                                     *)
(***************************************************************************)
EventPart(s, parts) ==
    LET label == parts[1]
        speculative == s.headerpartlabel /\ s.parts[1] = label
        t == IF speculative
             THEN [s EXCEPT !.headerpartlabel = FALSE,
                            !.F = [i \in DOMAIN @ |-> IF @[i].type = "PART" /\ @[i].pitch = label
                                                      THEN [@[i] EXCEPT !.type = "NONOTE"] ELSE @[i]]]
             ELSE IF label \in s.partstart THEN Fail(s) ELSE s
        placed == [AddFeature(t, Feature("PART", label, 0, 0)) EXCEPT !.partstart = @ \cup {label}]
    IN  IF ~s.dotune \/ (s.pastheader /\ ~s.hasparts) THEN s
        ELSE IF s.pastheader THEN GetVoiceContext(CheckBreak(placed), 1)
        ELSE [s EXCEPT !.hasparts = TRUE, !.parts = @ \o parts, !.nparts = Len(parts),
                       !.headerpartlabel = (@ \/ Len(parts) = 1)]
=============================================================================
