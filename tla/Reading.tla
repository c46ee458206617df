------------------------------- MODULE Reading -------------------------------
(***************************************************************************)
(* The scripting API with abcmidi behind its ABC readers (AbcParse), and   *)
(* what the notes they give have to do with the text: the meaning of a     *)
(* plain text (Mml, AbcMeaning), or of the calls a parser made for it.     *)
(***************************************************************************)
EXTENDS Api, AbcMeaning

ASSUME DivisionAssumption == Division = TicksPerQuarter

(***************************************************************************)
(* read() without a key, a length or a meter puts these before the text;   *)
(* the meter is that of the transport, and 4/4 where it has none.          *)
(* readTune() takes the text as it is.                                     *)
(***************************************************************************)
HeadFields(time) ==
    <<[token |-> "field", field |-> "X"], [token |-> "field", field |-> "L", num |-> 1, den |-> 8],
      [token |-> "field", field |-> "M", num |-> time.beats, den |-> time.unit],
      [token |-> "field", field |-> "K", found |-> TRUE, sharps |-> 0]>>

ABCCalls(g, method, time, text) ==
    IF method = "readTune" THEN ParseAbc(g, text) ELSE ParseAbcRaw(g, HeadFields(time), text)

(***************************************************************************)
(* What the calls mean for one track: every note that is turned on and off *)
(* again, with its times in units that divide the bars of all meters.      *)
(***************************************************************************)
Unit(calls) ==
    FoldSet(LAMBDA m, p : (BarTicks(m) * p) \div Hcf(BarTicks(m), p), BarTicks(CommonTime),
            {calls[i].meter : i \in {j \in DOMAIN calls : calls[j].call = "meter"}})

MeterAt(calls, i) ==
    LET set == {j \in 1..(i - 1) : calls[j].call = "meter"}
    IN  IF set = {} THEN CommonTime ELSE calls[Max(set)].meter

TrackAt(calls, i) ==
    LET set == {j \in 1..(i - 1) : calls[j].call = "track"}
    IN  IF set = {} THEN 0 ELSE Max(set)

TimeAt(calls, i) ==
    MapThenSumSet(LAMBDA j : calls[j].delta * (Unit(calls) \div BarTicks(MeterAt(calls, j))),
                  {j \in 1..i : Timed(calls[j]) /\ j > TrackAt(calls, i)})

TurnedOn(calls, i) ==
    {j \in (TrackAt(calls, i) + 1)..(i - 1) :
        /\ calls[j].call = "on" /\ calls[j].key = calls[i].key
        /\ \A k \in (j + 1)..(i - 1) : ~(calls[k].call \in {"on", "off"} /\ calls[k].key = calls[i].key)}

FirstTune(calls) ==
    SubSeq(calls, 1, Min({i - 1 : i \in {j \in 2..Len(calls) : calls[j].call = "sequence"}}
                          \cup {Len(calls)}))

ABCScore(calls, track) ==
    FlattenSeq([i \in DOMAIN calls |->
        IF /\ calls[i].call = "off" /\ TrackAt(calls, i) # 0
           /\ calls[TrackAt(calls, i)].track = track /\ TurnedOn(calls, i) # {}
        THEN <<[pitch |-> calls[i].key,
                start |-> TimeAt(calls, CHOOSE j \in TurnedOn(calls, i) : TRUE),
                end |-> TimeAt(calls, i)]>>
        ELSE << >>])

-----------------------------------------------------------------------------
(***************************************************************************)
(* ReadsFaithful: a reader that has nothing left over from earlier texts,  *)
(* while abcmidi has not either, gives the notes the text means, at the    *)
(* times it means, although they come out of a parser's stacks, queues and *)
(* jumps and every time is the wrapped, carried and reduced sum of all     *)
(* durations before it; and the order the event buffers keep (operator<,   *)
(* operator<=) is the order of those times.  A plain piece of ABC music is *)
(* never refused.  The meaning is that of the text where it is plain, and  *)
(* otherwise that of the calls the parser makes, as long as the bars are   *)
(* short enough for the words; the channels of a drum tab have to be       *)
(* numbers.                                                                *)
(***************************************************************************)
FitsScore(note, score, unit) ==
    /\ note.pitch = score.pitch
    /\ ((note.start.whole - 1) * note.start.division + note.start.position) * unit
          = score.start * note.start.division
    /\ (note.length.whole * note.length.division + note.length.position) * unit
          = (score.end - score.start) * note.length.division

Plays(notes, score, unit) ==
    /\ Len(notes) = Len(score)
    /\ \A i \in DOMAIN notes : FitsScore(notes[i], score[i], unit)
    /\ \A i, j \in DOMAIN notes :
          /\ Less(notes[i].start, notes[j].start) <=> score[i].start < score[j].start
          /\ LessOrEqual(notes[i].start, notes[j].start) <=> score[i].start <= score[j].start

PlaysStrikes(notes, score) ==
    /\ Len(notes) = Cardinality(score)
    /\ \A x \in score : \E i \in DOMAIN notes :
          /\ notes[i].pitch = x[1]
          /\ SameTime(notes[i].start, Duration(x[2], x[3] - 1, x[4]))
          /\ SameTime(notes[i].length, Duration(0, 1, x[4]))

PlaysAll(notes, score, unit) ==
    /\ Len(notes) = Cardinality(score)
    /\ \A x \in score : \E i \in DOMAIN notes : FitsScore(notes[i], x, unit)

ShortBars(calls) ==
    LET bars == {BarTicks(calls[i].meter) : i \in {j \in DOMAIN calls : calls[j].call = "meter"}}
    IN  2 * Max({Unit(calls), MAX_DENOMINATOR}) * Max(bars \cup {BarTicks(CommonTime)}) < Word

PlainABC(text, method) ==
    /\ method # "readTune"
    /\ Len(text) = 1 /\ text[1].line = "music" /\ PlainMusic(text[1].tokens)

MMLFaithful(read) ==
    Plays(objects[read.made].val,
          MMLScore(IF PlainMML(read.text) THEN MMLMeans(read.text) ELSE read.calls), TicksPerBar)

PlaysTune(method, made, tune) ==
    ShortBars(tune) =>
        IF method # "readTune"
        THEN Plays(objects[made].val, ABCScore(tune, IF tune[1].tracks > 1 THEN 1 ELSE 0), Unit(tune))
        ELSE \A t \in DOMAIN objects[objects[made].val].val :
                Plays(objects[objects[made].val].val[t], ABCScore(tune, t - 1), Unit(tune))

ABCFaithful(read, method) ==
    IF PlainABC(read.text, method)
    THEN PlaysAll(objects[read.made].val, Meaning(read.text[1].tokens),
                  BarTicks(MeterAt(read.calls, Len(read.calls) + 1)))
    ELSE PlaysTune(method, read.made, FirstTune(read.calls))

ReadsFaithful ==
    \A read \in {r \in {frame.read} : r.clean} :
        CASE frame.verdict = "threw" -> ~PlainABC(read.text, frame.method)
          [] frame.cls = "Midi.MMLReader" -> MMLFaithful(read)
          [] frame.cls = "Midi.DrumTabReader" ->
               Even(read.text) /\ Numbered(read.text) =>
                   PlaysStrikes(objects[read.made].val, DrumScore(read.text))
          [] OTHER -> ABCFaithful(read, frame.method)
=============================================================================
