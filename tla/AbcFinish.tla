------------------------------ MODULE AbcFinish ------------------------------
(***************************************************************************)
(* The end of a tune in abcmidi: missing repeats are put in, grace notes   *)
(* take their time from the note after them, ties become long notes, and   *)
(* the tracks are laid out (the second half of store.c).                   *)
(***************************************************************************)
EXTENDS AbcStore

ReplaceFeature(s, i, type) == [s EXCEPT !.F[i].type = type]

(***************************************************************************)
(* scan_for_missing_repeats: a double bar at the first line of music, and  *)
(* a |: where a voice starts (in the part) that has a :| or :: without     *)
(* one.  The places are found first and filled in from the last found to   *)
(* the first; 0 stands for no place, so a voice at the very first feature  *)
(* counts as not started.                                                  *)
(***************************************************************************)
ScanFeature(hasparts, r, f, i) ==
    LET part == f.type = "PART" /\ hasparts
        p == IF part
             THEN [r EXCEPT !.start = [[n \in DOMAIN @ |-> 0] EXCEPT ![0] = i - 1], !.found = {}] ELSE r
    IN  CASE f.type = "VOICE" ->
               [p EXCEPT !.voice = f.pitch,
                         !.start[f.pitch] = IF @ = 0 THEN i - 1 ELSE @]
          [] f.type = "BAR_REP" -> [p EXCEPT !.found = @ \cup {p.voice}]
          [] f.type \in {"REP_BAR", "DOUBLE_REP"} /\ p.voice \notin p.found ->
               [p EXCEPT !.found = @ \cup {p.voice}, !.add = Append(@, p.start[p.voice] + 1)]
          [] OTHER -> p

RECURSIVE ScanFrom(_, _, _, _)
ScanFrom(hasparts, F, r, i) ==
    IF i > Len(F) THEN r ELSE ScanFrom(hasparts, F, ScanFeature(hasparts, r, F[i], i), i + 1)

RECURSIVE AddMissingRepeats(_, _)
AddMissingRepeats(F, places) ==
    IF places = << >> THEN F
    ELSE AddMissingRepeats(InsertAt(F, Last(places) + 1, Feature("BAR_REP", 0, 0, 0)), Front(places))

ScanForMissingRepeats(s) ==
    LET lines == {i \in DOMAIN s.F : s.F[i].type = "MUSICLINE"}
        first == Min(lines)
        F == IF lines = {} THEN s.F ELSE InsertAt(s.F, first + 1, Feature("DOUBLE_BAR", 0, 0, 0))
        blank == [voice |-> 0, found |-> {}, add |-> << >>,
                  start |-> [n \in 0..Len(s.voices) |-> IF n = 0 /\ lines # {} THEN first ELSE 0]]
    IN  [s EXCEPT !.F = AddMissingRepeats(F, ScanFrom(s.hasparts, F, blank, 1).add)]

(***************************************************************************)
(* applygrace: the grace notes between { and } are played at a quarter of  *)
(* their length (gfact_denom), and the next note or chord is as much       *)
(* shorter; when it is too short the grace notes are removed.              *)
(***************************************************************************)
GraceFactor == 4

AddFract(x, num, den) == Reduce(x.num * den + num * x.den, x.den * den)

RECURSIVE Total(_, _)
Total(F, places) ==
    IF places = {} THEN [num |-> 0, den |-> 1]
    ELSE AddFract(Total(F, places \ {Max(places)}), F[Max(places)].num, F[Max(places)].den)

FirstOf(F, from, types) ==
    LET at == {i \in from..Len(F) : F[i].type \in types}
    IN  IF at = {} THEN Len(F) + 1 ELSE Min(at)

ApplyGrace(s, start) ==
    LET F == s.F
        end == FirstOf(F, start + 1, {"GRACEOFF"})
        host == FirstOf(F, end + 1, {"NOTE", "REST"})
        inchord == \E i \in (end + 1)..(host - 1) : F[i].type = "CHORDON"
        close == FirstOf(F, host, {"CHORDOFF", "CHORDOFFEX"})
        hostend == IF ~inchord THEN host ELSE IF close > Len(F) THEN 0 ELSE close
        stray == {i \in (start + 1)..(host - 1) : F[i].type = "GRACEON"}
        t == FailTimes(s, Cardinality(stray))
        grace == Total(F, {i \in start..Min({end, Len(F)}) : F[i].type \in {"NOTE", "REST"}})
        num == F[host].num * grace.den * GraceFactor - F[host].den * grace.num
        left == Reduce(num, F[host].den * grace.den * GraceFactor)
    IN  IF host > Len(F) THEN Fail(t)
        ELSE IF num <= 0 THEN [t EXCEPT !.F = SubSeq(F, 1, start - 1) \o SubSeq(F, end + 1, Len(F))]
        ELSE [t EXCEPT !.F = [i \in DOMAIN F |->
                 IF i \in host..hostend /\ F[i].type \in Lengthy
                 THEN [F[i] EXCEPT !.num = left.num, !.den = left.den]
                 ELSE IF i \in start..end THEN LenMul(F[i], 1, GraceFactor) ELSE F[i]]]

RECURSIVE GraceFrom(_, _)
GraceFrom(s, i) ==
    IF i > Len(s.F) THEN s
    ELSE GraceFrom(IF s.F[i].type = "GRACEON" THEN ApplyGrace(s, i) ELSE s, i + 1)

DoGrace(s) == GraceFrom(s, 1)

(***************************************************************************)
(* dotie: the note before the tie becomes a TNOTE, the tie and the note it *)
(* is tied to become rests.  The search goes on through the voice while    *)
(* the time of the tied notes is not over.                                 *)
(***************************************************************************)
PassTie(t, f) ==
    IF t.inchord THEN t ELSE [t EXCEPT !.tied = AddFract(@, -f.num, f.den)]

TieNote(t, place) ==
    LET f == t.s.F[place]
        host == t.s.F[t.note]
        same == (f.line = host.line /\ t.newbar) \/ f.pitch = host.pitch
        joins == same /\ t.todo /\ ~t.samechord
        u == [t EXCEPT !.lastnote = place, !.done = (t.tied.num = 0 /\ ~t.todo)]
        long == AddFract([num |-> host.num, den |-> host.den], f.num, f.den)
        joined == [u EXCEPT
                     !.todo = FALSE,
                     !.tied = AddFract(@, f.num, f.den),
                     !.s = IF t.tied.num # 0 THEN Fail(@) ELSE @,
                     !.s.F[place].type = "REST",
                     !.s.F[place].pitch = host.pitch,
                     !.s.F[t.note].num = long.num,
                     !.s.F[t.note].den = long.den,
                     !.s.F[t.lasttie].type = IF t.lasttie # t.tie THEN "OLDTIE" ELSE @]
    IN  PassTie(IF joins THEN joined ELSE u, f)

TieAgain(t, place) ==
    IF t.lastnote = 0 THEN [t EXCEPT !.s = Fail(@)]
    ELSE IF t.s.F[t.lastnote].pitch = t.s.F[t.note].pitch /\ ~t.samechord
    THEN [t EXCEPT !.lasttie = place, !.todo = TRUE, !.samechord = t.inchord] ELSE t

TieStep(t, place) ==
    LET f == t.s.F[place]
        mine == t.local = t.voice
        bars == {"SINGLE_BAR", "BAR_REP", "REP_BAR", "DOUBLE_BAR"}
        off == {"CHORDOFF", "CHORDOFFEX"}
    IN  CASE f.type \in bars -> [t EXCEPT !.newbar = t.todo]
          [] f.type = "NOTE" /\ mine -> TieNote(t, place)
          [] f.type = "REST" /\ mine -> PassTie([t EXCEPT !.done = (t.tied.num = 0 /\ ~t.todo)], f)
          [] f.type = "TIE" /\ mine -> TieAgain(t, place)
          [] f.type = "CHORDON" /\ mine -> [t EXCEPT !.inchord = TRUE]
          [] f.type \in off /\ mine -> PassTie([t EXCEPT !.samechord = FALSE, !.inchord = FALSE], f)
          [] f.type \in off /\ ~mine -> [t EXCEPT !.samechord = FALSE]
          [] f.type = "VOICE" -> [t EXCEPT !.local = f.pitch]
          [] OTHER -> t

RECURSIVE TieFrom(_, _)
TieFrom(t, place) ==
    IF place > Len(t.s.F) \/ t.tied.num < 0 \/ t.done THEN t ELSE TieFrom(TieStep(t, place), place + 1)

TieDone(t) == IF t.todo THEN Fail(t.s) ELSE t.s

DoTie(s, j, inchord, voice) ==
    LET stops == {i \in 1..j : s.F[i].type \in {"NOTE", "REST"} \/ (i < j /\ s.F[i].type = "VOICE")}
        note == IF stops = {} THEN 1 ELSE Max(stops)
        len == [num |-> s.F[note].num, den |-> s.F[note].den]
        begun == [s EXCEPT !.F[note].type = "TNOTE", !.F[j].type = "REST",
                           !.F[j].num = len.num, !.F[j].den = len.den]
        start == [s |-> begun, note |-> note, tie |-> j, lasttie |-> j, lastnote |-> 0, todo |-> TRUE,
                  newbar |-> FALSE, samechord |-> inchord, inchord |-> inchord, tied |-> len,
                  local |-> voice, voice |-> voice, done |-> FALSE]
    IN  IF s.F[note].type # "NOTE" THEN Fail(s) ELSE TieDone(TieFrom(start, j))

(***************************************************************************)
(* tiefix: all ties, and the lengths of the chords.                        *)
(***************************************************************************)
TieFixAt(t, j) ==
    LET f == t.s.F[j]
        unset == t.chord.num = -1
    IN  CASE f.type = "CHORDON" -> [t EXCEPT !.inchord = TRUE, !.chord.num = -1]
          [] f.type = "CHORDOFFEX" -> [t EXCEPT !.inchord = FALSE]
          [] f.type = "CHORDOFF" ->
               [t EXCEPT !.inchord = FALSE,
                         !.s.F[j].num = IF t.inchord /\ ~unset THEN t.chord.num ELSE @,
                         !.s.F[j].den = IF t.inchord /\ ~unset THEN t.chord.den ELSE @]
          [] f.type \in {"NOTE", "REST"} /\ t.inchord /\ unset ->
               [t EXCEPT !.chord = [num |-> f.num, den |-> f.den]]
          [] f.type = "TIE" -> [t EXCEPT !.s = DoTie(@, j, t.inchord, t.voice)]
          [] f.type = "VOICE" -> [t EXCEPT !.voice = f.pitch]
          [] OTHER -> t

RECURSIVE TieFixFrom(_, _)
TieFixFrom(t, j) == IF j > Len(t.s.F) THEN t ELSE TieFixFrom(TieFixAt(t, j), j + 1)

TieFix(s) ==
    TieFixFrom([s |-> s, inchord |-> FALSE, voice |-> 1, chord |-> [num |-> -1, den |-> 1]], 1).s

(***************************************************************************)
(* fixreps, for a tune of one voice without parts: a repeat that is ended  *)
(* and not started starts at the bar line before it.                       *)
(***************************************************************************)
PlaceStartRep(s, j) ==
    CASE s.F[j].type \in {"DOUBLE_BAR", "SINGLE_BAR"} -> ReplaceFeature(s, j, "BAR_REP")
      [] s.F[j].type = "REP_BAR" -> ReplaceFeature(s, j, "DOUBLE_REP")
      [] OTHER -> Fail(s)

FixRepsAt(r, j) ==
    LET f == r.s.F[j]
    IN  CASE f.type = "DOUBLE_BAR" -> [r EXCEPT !.point = j]
          [] f.type = "BAR_REP" ->
               [r EXCEPT !.s = IF r.expect THEN ReplaceFeature(Fail(@), j, "DOUBLE_REP") ELSE @,
                         !.expect = TRUE]
          [] f.type = "REP_BAR" ->
               [r EXCEPT !.s = IF ~r.expect /\ r.nplays < 1 THEN PlaceStartRep(@, r.point) ELSE @,
                         !.expect = FALSE, !.point = j]
          [] f.type = "PLAY_ON_REP" ->
               [r EXCEPT !.s = IF r.nplays = 0 /\ ~r.expect THEN PlaceStartRep(Fail(@), r.point) ELSE @,
                         !.nplays = @ + 1]
          [] f.type = "DOUBLE_REP" ->
               [r EXCEPT !.s = IF ~r.expect THEN PlaceStartRep(Fail(@), r.point) ELSE @,
                         !.expect = TRUE]
          [] OTHER -> r

RECURSIVE FixRepsFrom(_, _)
FixRepsFrom(r, j) == IF j > Len(r.s.F) THEN r ELSE FixRepsFrom(FixRepsAt(r, j), j + 1)

FixReps(s) == FixRepsFrom([s |-> s, expect |-> FALSE, nplays |-> 0, point |-> 1], 1).s

(***************************************************************************)
(* finishfile: everything above in its order, the tracks (one, or one for  *)
(* each voice after a first one without notes), and the calls that write   *)
(* them.                                                                   *)
(***************************************************************************)
Ready(s) ==
    LET scanned == ScanForMissingRepeats(s)
        parted == IF s.hasparts THEN AddFeature(scanned, Feature("PART", -33, 0, 0)) ELSE scanned
        tied == TieFix(DoGrace(IF s.headerpartlabel THEN Fail(parted) ELSE parted))
    IN  IF ~s.hasparts /\ Len(s.voices) = 1 THEN FixReps(tied) ELSE tied

TuneOf(s) ==
    [features |-> s.F, ntracks |-> IF s.voicesused THEN Len(s.voices) + 1 ELSE 1,
     voices |-> [i \in 1..Len(s.voices) |-> i], voicesused |-> s.voicesused, meter |-> s.time,
     parts |-> SubSeq(s.parts, 1, s.nparts), hasparts |-> s.hasparts]

AfterTune(s, w) ==
    NoTune([out |-> s.out \o w.out, tuple |-> s.tuple,
            chord |-> [notes |-> w.notecount, delay |-> w.totalnotedelay]])

WriteReady(s) == AfterTune(s, WriteTune(TuneOf(s), s.chord))

FinishFile(s) == IF s.pastheader THEN WriteReady(Ready(s)) ELSE NoTune(Fail(s))

EventRefNo(s) == StartFile(IF s.dotune THEN FinishFile(s) ELSE s)

EventBlankLine(s) == IF s.dotune THEN FinishFile(s) ELSE s
EventEof(s) == EventBlankLine(s)
=============================================================================
