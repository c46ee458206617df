------------------------------- MODULE Readers -------------------------------
(***************************************************************************)
(* The readers of musical notation: MMLReader, ABCReader and               *)
(* DrumTabReader.  The first two give their text to a parser (Mml,         *)
(* AbcParse) and make notes of the calls it makes back: for MML a sequence *)
(* of notes and rests, for ABC a sequence of tracks, meters, notes on and  *)
(* off, and errors.  A drum tab is a sequence of lines.                    *)
(*                                                                         *)
(* A note of a pattern has a pitch, the position it starts at and its      *)
(* length.                                                                 *)
(***************************************************************************)
EXTENDS Positions, Mml

CONSTANTS
    Division,           \* ticks of a quarter, as abcmidi tells startSequence (480)
    TicksPerBar,        \* of the time signature in force when MML is read
    MAX_CHORD_SIZE      \* tones that may wait for the note that ends a chord (8)

ASSUME TicksAssumption == /\ Division \in Nat \ {0}
                          /\ TicksPerBar \in Nat \ {0}
                          /\ MAX_CHORD_SIZE \in Nat

Note(pitch, start, length) == [pitch |-> pitch, start |-> start, length |-> length]

FirstPosition == NewPosition(1, 0, 1)

-----------------------------------------------------------------------------
(***************************************************************************)
(* MMLReader.  The reader keeps the tones of a chord that waits for its    *)
(* last note; read() does not clear them.                                  *)
(***************************************************************************)
\* Mutant: the tones of a chord are not cleared after it.
ProcessNoteKeepingChord(s, e) ==
    LET d == NewDuration(0, e.ticks, TicksPerBar)
        tones == Append(s.chord, e.number)
    IN  IF e.ticks # 0
        THEN [s EXCEPT !.notes = @ \o [i \in DOMAIN tones |-> Note(tones[i], s.position, d)],
                       !.position = Plus(@, d)]
        ELSE [s EXCEPT !.chord = IF Len(@) < MAX_CHORD_SIZE THEN tones ELSE @]

ProcessNote(s, e) ==
    LET d == NewDuration(0, e.ticks, TicksPerBar)
        tones == Append(s.chord, e.number)
    IN  IF e.ticks # 0
        THEN [s EXCEPT !.notes = @ \o [i \in DOMAIN tones |-> Note(tones[i], s.position, d)],
                       !.position = Plus(@, d),
                       !.chord = << >>]
        ELSE [s EXCEPT !.chord = IF Len(@) < MAX_CHORD_SIZE THEN tones ELSE @]

ProcessRest(s, e) ==
    [s EXCEPT !.position = Plus(@, NewDuration(0, e.ticks, TicksPerBar)), !.chord = << >>]

MMLRead(chord, calls) ==
    FoldLeft(LAMBDA s, e : IF e.type = "note" THEN ProcessNote(s, e) ELSE ProcessRest(s, e),
             [chord |-> chord, position |-> FirstPosition, notes |-> << >>], calls)

(***************************************************************************)
(* What notes and rests mean: every note that lasts sounds together with   *)
(* the tones written right before it, when all notes and rests before it   *)
(* are over.  Times are counted in ticks from the first bar.               *)
(***************************************************************************)
Lasts(e) == e.type = "note" /\ e.ticks # 0
Tone(e) == e.type = "note" /\ e.ticks = 0

TicksBefore(calls, i) == FoldLeft(LAMBDA t, e : t + e.ticks, 0, SubSeq(calls, 1, i - 1))

ChordBefore(calls, i) ==
    LET first == Min({k \in 1..i : \A j \in k..(i - 1) : Tone(calls[j])})
        tones == [j \in 1..(i - first) |-> calls[first + j - 1].number]
    IN  SubSeq(tones, 1, Min({Len(tones), MAX_CHORD_SIZE}))

MMLScore(calls) ==
    FlattenSeq([i \in DOMAIN calls |->
        IF Lasts(calls[i])
        THEN LET tones == Append(ChordBefore(calls, i), calls[i].number)
             IN  [k \in DOMAIN tones |->
                     [pitch |-> tones[k], start |-> TicksBefore(calls, i),
                      end |-> TicksBefore(calls, i) + calls[i].ticks]]
        ELSE << >>])

-----------------------------------------------------------------------------
(***************************************************************************)
(* ABCReader.  The reader keeps the meter and the tunes that were started; *)
(* the calls back to it are those of abcmidi while it writes the tunes of  *)
(* a text.  An error is only noted, and what operator- throws ends the     *)
(* parsing.  A bar length that wraps to zero ends the program, and a       *)
(* length that was never set has no meaning.                               *)
(***************************************************************************)
BarTicks(meter) == ((Division * 4) \div meter.unit) * meter.beats

CommonTime == [beats |-> 4, unit |-> 4]

StartSequence(s, e) == [s EXCEPT !.tunes = Append(@, [t \in 1..e.tracks |-> << >>])]

StartTrack(s, e) == [s EXCEPT !.position = FirstPosition, !.active = {}, !.track = e.track]

WriteMetaEvent(s, e) == [s EXCEPT !.meter = e.meter]

Delta(s, e) == NewDuration(0, e.delta, BarTicks(s.meter))
Advance(s, e) == Plus(s.position, Delta(s, e))

NoteOn(s, e) ==
    LET now == Advance(s, e)
    IN  [s EXCEPT !.position = now, !.active = @ \cup {e.key}, !.noteStart[e.key] = now]

NoteOff(s, e) ==
    LET now == Advance(s, e)
        moved == [s EXCEPT !.position = now]
        start == s.noteStart[e.key]
    IN  IF e.key \notin s.active THEN moved
        ELSE IF ~Subtracts(now, start) THEN [moved EXCEPT !.thrown = TRUE]
        ELSE [moved EXCEPT !.active = @ \ {e.key},
                           !.tunes[Len(s.tunes)][s.track + 1] =
                               Append(@, Note(e.key, start, Minus(now, start)))]

AddError(s) == [s EXCEPT !.errors = TRUE]

Timed(e) == e.call \in {"on", "off"}

CallBack(s, e) ==
    IF s.thrown \/ s.fault # "none" THEN s
    ELSE IF Timed(e) /\ ~Adds(s.position, Delta(s, e)) THEN [s EXCEPT !.fault = "division by zero"]
    ELSE CASE e.call = "sequence" -> StartSequence(s, e)
           [] e.call = "track" -> StartTrack(s, e)
           [] e.call = "meter" -> WriteMetaEvent(s, e)
           [] e.call = "on" -> NoteOn(s, e)
           [] e.call = "off" -> NoteOff(s, e)
           [] e.call = "error" -> AddError(s)
           [] e.call = "undefined" -> [s EXCEPT !.fault = "uninitialized"]

ABCParse(meter, calls) ==
    FoldLeft(CallBack,
             [meter |-> meter, position |-> FirstPosition, active |-> {},
              noteStart |-> [k \in {calls[i].key : i \in {j \in DOMAIN calls : Timed(calls[j])}} |->
                                FirstPosition],
              track |-> 0, tunes |-> << >>, errors |-> FALSE, thrown |-> FALSE, fault |-> "none"], calls)

ABCFails(parsed) == parsed.errors \/ parsed.thrown

(***************************************************************************)
(* The track read() copies: the second, or the only one.                   *)
(***************************************************************************)
ReadTrack(tune) == tune[IF Len(tune) > 1 THEN 2 ELSE 1]

-----------------------------------------------------------------------------
(***************************************************************************)
(* DrumTabReader.  A line of a tab has a channel and bars of strikes, the  *)
(* last of which may lack its bar line and is then left out.  Lines up to  *)
(* the next empty line share their first bar; an empty line moves on by as *)
(* many bars as the line before it had.  Other lines are ignored.          *)
(*                                                                         *)
(* A channel of two digits is a pitch.  Two letters are looked up without  *)
(* the strike, while all keys of noteValue have one: the answer is 0.      *)
(***************************************************************************)
NoteNumber(channel) == IF channel.digits THEN channel.pitch ELSE 0

ProcessBar(bar, line, strikes) ==
    LET len == Len(strikes)
        hits == {i \in 1..len : strikes[i]}
    IN  [k \in 1..Cardinality(hits) |->
            LET i == CHOOSE h \in hits : Cardinality({g \in hits : g < h}) = k - 1
            IN  Note(NoteNumber(line.channel), NewPosition(bar, i - 1, len), NewDuration(0, 1, len))]

ProcessTabLine(s, line) ==
    [s EXCEPT !.lineBars = Len(line.bars),
              !.notes = @ \o FlattenSeq([b \in DOMAIN line.bars |->
                                 ProcessBar(s.startBar + b - 1, line, line.bars[b])])]

ProcessLine(s, line) ==
    CASE line.type = "tab" -> ProcessTabLine(s, line)
      [] line.type = "empty" -> [s EXCEPT !.startBar = @ + s.lineBars, !.lineBars = 0]
      [] OTHER -> s

DrumRead(text) ==
    FoldLeft(ProcessLine, [startBar |-> 1, lineBars |-> 0, notes |-> << >>], text).notes

(***************************************************************************)
(* What a tab means when its channels are numbers and the lines of each    *)
(* paragraph have as many bars as each other: the strikes of bar b of a    *)
(* line sound in the b-th bar after those of all paragraphs before it.     *)
(***************************************************************************)
Paragraph(text, i) == {j \in 1..i : \A k \in j..i : text[k].type # "empty"}
LastTabs(text) ==
    {i \in DOMAIN text : /\ text[i].type = "tab"
                         /\ \A j \in (i + 1)..Len(text) :
                               text[j].type = "tab" => \E k \in i..j : text[k].type = "empty"}
BarsBefore(text, i) ==
    MapThenSumSet(LAMBDA j : Len(text[j].bars),
                  {j \in LastTabs(text) : j < i /\ j \notin Paragraph(text, i)})
Even(text) ==
    \A i, j \in DOMAIN text :
        /\ text[i].type = "tab" /\ text[j].type = "tab"
        /\ j \in Paragraph(text, i)
        => Len(text[i].bars) = Len(text[j].bars)

Numbered(text) == \A i \in DOMAIN text : text[i].type = "tab" => text[i].channel.digits

DrumScore(text) ==
    UNION {UNION {{<<text[i].channel.pitch, BarsBefore(text, i) + b, k, Len(text[i].bars[b])>> :
                      k \in {h \in DOMAIN text[i].bars[b] : text[i].bars[b][h]}} :
                  b \in DOMAIN text[i].bars} :
           i \in {j \in DOMAIN text : text[j].type = "tab"}}
=============================================================================
