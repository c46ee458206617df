------------------------------- MODULE AbcMidi -------------------------------
(***************************************************************************)
(* The last stage of abcmidi: from the features of a tune to the calls of  *)
(* the MIDI writer (genmidi.c, queues.c).                                  *)
(*                                                                         *)
(* A tune is the sequence of its features and what the header says of      *)
(* them.  A feature has a type, a pitch (for a voice or a part its number) *)
(* with its place on the staff, and a length in quarters, num/den; a       *)
(* variant ending has the set of the passes it is played on.  What only    *)
(* ends up in a warning (bar checks, lengths of tracks), in a velocity, or *)
(* in text is left out, and so are channels: each track has one of its     *)
(* own.                                                                    *)
(***************************************************************************)
EXTENDS Integers, Sequences, FiniteSetsExt, SequencesExt

CONSTANTS
    TicksPerQuarter,    \* division, of both parsers (480)
    NoteDelay,          \* ticks between the tones of a chord (10)
    QSIZE               \* notes that may wait for their end

ASSUME AbcMidiAssumption == /\ TicksPerQuarter \in Nat \ {0}
                            /\ NoteDelay \in Nat
                            /\ QSIZE \in Nat

Feature(type, pitch, num, den) ==
    [type |-> type, pitch |-> pitch, line |-> 0, num |-> num, den |-> den, passes |-> {}]

Error == [call |-> "error"]
FailTimes(w, n) == [w EXCEPT !.out = @ \o [k \in 1..n |-> Error]]
Fail(w) == FailTimes(w, 1)

UndefinedLength == [call |-> "undefined"]
Uninitialized == [num |-> 0, den |-> 0]

(***************************************************************************)
(* reduce: a fraction without common factors.                              *)
(***************************************************************************)
Hcf(a, b) == Max({d \in 1..Max({a, b}) : a % d = 0 /\ b % d = 0})
Reduce(a, b) == [num |-> a \div Hcf(a, b), den |-> b \div Hcf(a, b)]

(***************************************************************************)
(* The queue of notes that wait for their end, each with its delay after   *)
(* the one before it.  A note that ends earlier than one in the queue is   *)
(* put before it, and the delay of that one becomes what is left between   *)
(* the two, less the delay between tones.                                  *)
(***************************************************************************)
RECURSIVE Waited(_, _)
Waited(q, i) == IF i = 1 THEN 0 ELSE Waited(q, i - 1) + q[i - 1].delay

AddToQ(w, num, den, pitch, d) ==
    LET wait == (TicksPerQuarter * num) \div den + d
        left(i) == wait - Waited(w.q, i)
        later == {i \in DOMAIN w.q : w.q[i].delay > left(i)}
        place == IF later = {} THEN Len(w.q) + 1 ELSE Min(later)
        behind == [i \in DOMAIN w.q |->
                     IF later # {} /\ i = place
                     THEN [w.q[i] EXCEPT !.delay = Max({0, @ - left(i) - NoteDelay})]
                     ELSE w.q[i]]
    IN  IF Len(w.q) = QSIZE THEN Fail(w)
        ELSE [w EXCEPT !.q = InsertAt(behind, place, [pitch |-> pitch, delay |-> left(place)])]

(***************************************************************************)
(* timestep: time passes and the notes that end in it are turned off.      *)
(***************************************************************************)
Off(w, n) ==
    [w EXCEPT !.q = Tail(@), !.tracklen = @ + w.delta + n.delay, !.delta = 0,
              !.out = Append(@, [call |-> "off", key |-> n.pitch, delta |-> w.delta + n.delay])]

RECURSIVE TimeStep(_, _)
TimeStep(w, t) ==
    IF w.q # << >> /\ Head(w.q).delay < t THEN TimeStep(Off(w, Head(w.q)), t - Head(w.q).delay)
    ELSE [w EXCEPT !.q = IF @ = << >> THEN @ ELSE [@ EXCEPT ![1].delay = @ - t],
                   !.delta = @ + t - w.totalnotedelay]

RECURSIVE ClearSustained(_)
ClearSustained(w) ==
    IF w.q = << >> THEN w ELSE ClearSustained(TimeStep(Fail(w), Head(w.q).delay + 1))

ClearQ(w) == TimeStep(ClearSustained(IF w.q = << >> THEN w ELSE TimeStep(w, 0)), 25)

(***************************************************************************)
(* delay: a length in ticks; the fraction of a tick that is cut off is     *)
(* carried to the next one.                                                *)
(***************************************************************************)
Delay(w, num, den) ==
    LET ticks == TicksPerQuarter * num
        err == Reduce(w.err.num * den + (ticks % den) * w.err.den, w.err.den * den)
    IN  TimeStep([w EXCEPT !.err = [err EXCEPT !.num = @ % err.den]],
                 ticks \div den + err.num \div err.den)

(***************************************************************************)
(* Notes, chords and rests.  The notes of a chord start one after the      *)
(* other and last as long as the first, which is their length from then on *)
(* also where a repeat skips the start of the chord.  What is written down *)
(* as a TNOTE is followed by rests for the time it lasts.  The notes of a  *)
(* chord are counted in a global: when the last track written ended within *)
(* one, the first note of this track takes its length from a local that is *)
(* not set.                                                                *)
(***************************************************************************)
NoteOnEvent(w, pitch) ==
    [w EXCEPT !.out = Append(@, [call |-> "on", key |-> pitch, delta |-> w.delta]),
              !.tracklen = @ + w.delta, !.delta = 0]

PlayNote(w, f) ==
    LET next == IF w.inchord THEN w.notecount + 1 ELSE w.notecount
        apart == IF w.inchord /\ next > 1 THEN NoteDelay ELSE 0
        len == IF next > 1 THEN w.note ELSE [num |-> f.num, den |-> f.den]
        v == NoteOnEvent([w EXCEPT !.notecount = next, !.delta = @ + apart,
                                   !.totalnotedelay = @ + apart, !.note = len], f.pitch)
        u == [v EXCEPT !.tune.features[w.j].num = len.num, !.tune.features[w.j].den = len.den]
    IN  IF len = Uninitialized THEN [v EXCEPT !.out = Append(@, UndefinedLength)]
        ELSE AddToQ(u, len.num, len.den, f.pitch, -v.totalnotedelay - 1)

Pass(w, f) == [Delay(w, f.num, f.den) EXCEPT !.notecount = 0, !.totalnotedelay = 0]

PlaySound(w, f) ==
    CASE f.type = "NOTE" ->
           LET v == IF w.noteson THEN PlayNote(w, f) ELSE w
           IN  IF w.inchord THEN v ELSE Pass(v, v.tune.features[w.j])
      [] f.type = "TNOTE" ->
           IF w.noteson
           THEN AddToQ(NoteOnEvent(w, f.pitch), f.num, f.den, f.pitch, -w.totalnotedelay - 1)
           ELSE w
      [] f.type = "REST" -> IF w.inchord THEN w ELSE Delay(w, f.num, f.den)
      [] f.type = "CHORDON" -> [w EXCEPT !.inchord = TRUE]
      [] f.type \in {"CHORDOFF", "CHORDOFFEX"} -> Pass([w EXCEPT !.inchord = FALSE], f)

(***************************************************************************)
(* Parts.  At a part label the voice has to be as long as the first voice  *)
(* was; a voice with nothing in the part is filled up.  Then the next part *)
(* of the header's list is played, if it has one.                          *)
(***************************************************************************)
FillVoice(w) ==
    LET now == w.tracklen + w.delta
        from == IF w.partlabel = -1 THEN 0 ELSE w.lastlen
        full == w.partlen[w.partlabel]
    IN  IF w.track = 1 THEN [w EXCEPT !.partlen[w.partlabel] = now - from, !.lastlen = now]
        ELSE IF now - from = 0 THEN [w EXCEPT !.delta = @ + full, !.lastlen = now + full]
        ELSE [(IF now - from # full THEN Fail(w) ELSE w) EXCEPT !.lastlen = now]

PartStart(F, label) == {i \in DOMAIN F : F[i].type = "PART" /\ F[i].pitch = label}

FindPart(F, w) ==
    LET parts == w.tune.parts
        rest == (w.partno + 1)..Len(parts)
        defined == {n \in rest : PartStart(F, parts[n]) # {}}
        next == IF defined = {} THEN Len(parts) + 1 ELSE Min(defined)
        undefined == {n \in rest : n < next}
        v == FailTimes(w, Cardinality(undefined))
    IN  [v EXCEPT !.partno = next,
                  !.j = IF defined = {} THEN Len(F) + 1 ELSE Max(PartStart(F, parts[next]))]

Label(F, w) == [w EXCEPT !.partlabel = IF w.j <= Len(F) THEN F[w.j].pitch ELSE @]
Filled(w) == IF w.track > 0 THEN FillVoice(w) ELSE w
PartBreak(F, w) == Label(F, IF w.tune.hasparts THEN FindPart(F, Filled(w)) ELSE Filled(w))

(***************************************************************************)
(* findvoice: on to where the voice of this track goes on; for the first   *)
(* voice that is also a part label.                                        *)
(***************************************************************************)
RECURSIVE FindVoice(_, _)
FindVoice(F, w) ==
    IF w.j > Len(F) \/ (F[w.j].type = "VOICE" /\ F[w.j].pitch = w.voice) THEN w
    ELSE IF F[w.j].type # "PART" THEN FindVoice(F, [w EXCEPT !.j = @ + 1])
    ELSE LET v == PartBreak(F, w)
         IN  IF w.voice = 1 THEN v ELSE FindVoice(F, [v EXCEPT !.j = @ + 1])

(***************************************************************************)
(* Repeats.  |: remembers the place, :| and :: go back to it while passes  *)
(* are left, a variant ending is played on its passes and skipped on the   *)
(* others, up to and including the bar that ends it.                       *)
(***************************************************************************)
StartRepeat(w) == [w EXCEPT !.saved = w.j, !.expect = TRUE, !.pass = 1, !.maxpass = 2]
GoBack(w) == [w EXCEPT !.j = w.saved, !.pass = @ + 1, !.expect = FALSE]

BarRep(w) == StartRepeat(IF w.pass = 1 /\ w.expect THEN Fail(w) ELSE w)

RepBar(w) ==
    IF w.pass = 1 THEN IF w.expect THEN GoBack(w) ELSE Fail(w)
    ELSE IF w.pass < w.maxpass THEN GoBack(w) ELSE w

DoubleRep(w) ==
    IF w.pass > 1 THEN StartRepeat(w)
    ELSE IF w.expect THEN [GoBack(w) EXCEPT !.expect = w.expect]
    ELSE [StartRepeat(Fail(w)) EXCEPT !.maxpass = w.maxpass]

EndsVariant == {"REP_BAR", "BAR_REP", "PART", "DOUBLE_BAR", "PLAY_ON_REP"}

RECURSIVE SkipVariant(_, _)
SkipVariant(F, w) ==
    LET u == [w EXCEPT !.j = @ + 1]
        v == IF u.j <= Len(F) /\ F[u.j].type = "VOICE" THEN FindVoice(F, u) ELSE u
    IN  IF v.j > Len(F) THEN Fail(v)
        ELSE IF F[v.j].type \notin EndsVariant THEN SkipVariant(F, v)
        ELSE IF F[v.j].type = "PART" THEN [v EXCEPT !.j = @ - 1]
        ELSE v

PlayOnRep(F, w) ==
    LET open == IF w.invarend THEN Fail(w) ELSE w
        lost == ~(w.expect \/ w.pass > 1)
        v == IF lost THEN Fail(open) ELSE open
    IN  IF (IF lost THEN 1 ELSE w.pass) \in F[w.j].passes
        THEN [v EXCEPT !.invarend = TRUE, !.maxpass = IF @ < 4 THEN w.pass + 1 ELSE @]
        ELSE SkipVariant(F, v)

(***************************************************************************)
(* The meter goes to the writer as a power of two.  A tempo is written     *)
(* with the time that has passed, which the reader does not take from it.  *)
(***************************************************************************)
PowerBelow(m) == 2 ^ Max({d \in 0..m : 2 ^ d <= m})
Meter(n, m) == [call |-> "meter", meter |-> [beats |-> n, unit |-> PowerBelow(m)]]

WriteMeter(w, f) ==
    IF w.timekey THEN [w EXCEPT !.out = Append(@, Meter(f.num, f.den))] ELSE w

WriteTempo(w) == IF w.track = 0 /\ w.tune.ntracks = 1 THEN [w EXCEPT !.delta = 0] ELSE w

(***************************************************************************)
(* writetrack: one feature, and a whole track.  With several tracks the    *)
(* first has no notes.                                                     *)
(***************************************************************************)
WriteFeature(F, w) ==
    LET f == F[w.j]
        bar == [w EXCEPT !.invarend = FALSE]
        v == CASE f.type \in {"NOTE", "TNOTE", "REST", "CHORDON", "CHORDOFF", "CHORDOFFEX"} ->
                      PlaySound(w, f)
               [] f.type = "PART" -> PartBreak(F, bar)
               [] f.type = "VOICE" -> FindVoice(F, w)
               [] f.type = "DOUBLE_BAR" -> bar
               [] f.type = "BAR_REP" -> BarRep(bar)
               [] f.type = "REP_BAR" -> RepBar(bar)
               [] f.type = "DOUBLE_REP" -> DoubleRep(bar)
               [] f.type = "PLAY_ON_REP" -> PlayOnRep(F, w)
               [] f.type = "TIME" -> WriteMeter(w, f)
               [] f.type = "TEMPO" -> WriteTempo(w)
               [] OTHER -> w
    IN  [v EXCEPT !.j = @ + 1]

RECURSIVE WriteFeatures(_)
WriteFeatures(w) ==
    IF w.j > Len(w.tune.features) THEN w ELSE WriteFeatures(WriteFeature(w.tune.features, w))

StartTrackWriting(w, track) ==
    LET tune == w.tune
        header == track = 0 /\ tune.ntracks > 1
        first == Append(w.out, [call |-> "track", track |-> track])
    IN  [tune |-> tune, track |-> track, voice |-> IF track = 0 THEN 1 ELSE tune.voices[track],
         noteson |-> ~header, timekey |-> ~header,
         out |-> IF track = 0 THEN Append(first, Meter(tune.meter.num, tune.meter.den)) ELSE first,
         j |-> 1, q |-> << >>, delta |-> 1, tracklen |-> 0, err |-> [num |-> 0, den |-> 1],
         inchord |-> FALSE, notecount |-> w.notecount, totalnotedelay |-> w.totalnotedelay,
         note |-> Uninitialized,
         pass |-> 1, maxpass |-> 2, expect |-> FALSE, invarend |-> FALSE, saved |-> 1,
         partno |-> 0, partlabel |-> -1, partlen |-> w.partlen, lastlen |-> w.lastlen]

Placed(w) == IF w.tune.voicesused /\ w.voice # 1 THEN FindVoice(w.tune.features, w) ELSE w
Begun(w) == [w EXCEPT !.saved = w.j]
Ended(w) == ClearQ(IF w.expect /\ w.pass = 1 THEN Fail(w) ELSE w)

WriteTrack(w, track) == Ended(WriteFeatures(Begun(Placed(StartTrackWriting(w, track)))))

(***************************************************************************)
(* mfwrite: the tune, track by track, after a last one that left a chord   *)
(* of so many notes and delays open.                                       *)
(***************************************************************************)
RECURSIVE WriteTracks(_, _)
WriteTracks(w, track) ==
    IF track = w.tune.ntracks THEN w ELSE WriteTracks(WriteTrack(w, track), track + 1)

WriteTune(tune, chord) ==
    WriteTracks([out |-> <<[call |-> "sequence", tracks |-> tune.ntracks]>>,
                 tune |-> tune, partlen |-> [p \in -1..25 |-> 0], lastlen |-> 0,
                 notecount |-> chord.notes, totalnotedelay |-> chord.delay], 0)
=============================================================================
