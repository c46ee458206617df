---------------------------------- MODULE Tempo ----------------------------------
(***************************************************************************)
(* The transport master and the MIDI beat tracker.                         *)
(*                                                                         *)
(* The script thread gets both from their caches, run after run; the       *)
(* process thread counts in, starts and stops the transport, forces beats  *)
(* and calls a script function for each count; JACK asks the master for    *)
(* bar, beat and tick.                                                     *)
(*                                                                         *)
(* A tempo is the length of its beat in frames, a period is one frame.     *)
(* lastTick is counted in half ticks, so that rounding takes place.        *)
(***************************************************************************)
EXTENDS Integers, FiniteSets

CONSTANTS
    Tempi,              \* tempi the script asks for
    Signatures,         \* beatsPerBar the script asks for
    TicksPerBeat,       \* 1920
    FrameRate,          \* frames in a second
    Seconds,            \* what stopOnSilence is given
    MaxBar              \* bound: the transport is at most one beat past this bar

ASSUME TempoAssumption ==
    /\ TicksPerBeat \in Nat \ {0} /\ FrameRate \in Nat \ {0}
    /\ Tempi \subseteq Nat \ {0} /\ Tempi # {}
    /\ Signatures \subseteq Nat \ {0} /\ Signatures # {}

VARIABLES
    \* whether MasterCache has a master, and what the script thread does
    cachedMaster, active, bpm, beatsPerBar, spc,
    \* the tracker: its place, whether this run used it, and its fields; master is
    \* "cached" or "deleted", onCountHandler "none", "live" or "deleted"
    tracker, used, master, onCountHandler, countInNote, stopSeconds,
    \* count-in: countInCount, frames since the last count, their sum, frames to the start
    countInCount, since, sum, untilStart,
    \* the process thread: a handler it has loaded, and frames without a note
    ppc, loaded, silent,
    \* JACK: transport state, tempo and position; lastTick and doForceBeat of the master
    rolling, newPos, posBpm, pos, lastTick, doForceBeat,
    rewound,            \* where JACK has moved to is the start of the song
    signed,             \* the signature was changed after the start of the song
    manual,             \* the user started the transport during a count-in
    followed,           \* bound: position, forced beats and silence are followed in the first run,
                        \* handlers after it
    fault

masterVars == <<cachedMaster, active, bpm, beatsPerBar>>
trackerVars == <<tracker, used, master, onCountHandler, countInNote, stopSeconds>>
countVars == <<countInCount, since, sum, untilStart>>
periodVars == <<ppc, loaded, silent>>
posVars == <<newPos, rewound, posBpm, pos, lastTick, doForceBeat, signed>>
timeVars == <<rolling, posVars, manual>>
vars == <<masterVars, spc, trackerVars, countVars, periodVars, timeVars, followed, fault>>

Start == [bar |-> 1, beat |-> 1, tick |-> 0, barStart |-> 0]

\* bpm and beatsPerBar mean nothing before there is a master.
Tempo0 == CHOOSE tempo \in Tempi : TRUE
Signature0 == CHOOSE signature \in Signatures : TRUE

Init ==
    /\ cachedMaster = FALSE /\ active = FALSE
    /\ bpm = Tempo0 /\ beatsPerBar = Signature0
    /\ spc = "run"
    /\ tracker = "none" /\ used = FALSE /\ master = "none"
    /\ onCountHandler = "none"
    /\ countInNote = FALSE /\ stopSeconds = 0
    /\ countInCount = 0 /\ since = 0 /\ sum = 0 /\ untilStart = 0
    /\ ppc = "idle" /\ loaded = "none" /\ silent = 1
    /\ rolling = FALSE /\ newPos = FALSE /\ rewound = FALSE
    /\ posBpm = Tempo0 /\ pos = Start /\ lastTick = 0 /\ doForceBeat = FALSE
    /\ signed = FALSE /\ manual = FALSE
    /\ followed = TRUE
    /\ fault = "none"

--------------------------------------------------------------------------------
(***************************************************************************)
(* Script thread.                                                          *)
(***************************************************************************)
\* Script code runs in a run, and in the closures that are executed while it waits.
ScriptCode == fault = "none" /\ spc \in {"run", "wait"}

\* Mutant: a master from the cache is not marked as used.
GetTransportMasterUnmarked(tempo, signature) ==
    /\ bpm' = tempo
    /\ active' = (active \/ ~cachedMaster)
    /\ cachedMaster' = TRUE
    /\ beatsPerBar' = IF cachedMaster THEN beatsPerBar ELSE signature
    /\ doForceBeat' = (doForceBeat /\ cachedMaster)
    /\ newPos' = (newPos \/ ~cachedMaster)

\* MasterCache::getTransportMaster.  A cached master keeps its time signature.
GetTransportMaster(tempo, signature) ==
    /\ bpm' = tempo
    /\ active' = TRUE
    /\ cachedMaster' = TRUE
    /\ beatsPerBar' = IF cachedMaster THEN beatsPerBar ELSE signature
    /\ doForceBeat' = (doForceBeat /\ cachedMaster)
    /\ newPos' = (newPos \/ ~cachedMaster)   \* JACK asks a new timebase master for the position

GetMaster(tempo, signature) ==
    /\ ScriptCode
    /\ GetTransportMaster(tempo, signature)
    /\ UNCHANGED <<spc, trackerVars, countVars, periodVars, rolling, rewound, posBpm, pos, lastTick,
                   signed, manual, followed, fault>>

\* Master::setTimeSignature, which may come at any time.
SetTimeSignature(signature) ==
    /\ ScriptCode /\ followed
    /\ cachedMaster
    /\ beatsPerBar' = signature
    /\ signed' = (signed \/ pos # Start)
    /\ UNCHANGED <<cachedMaster, active, bpm, spc, trackerVars, countVars, periodVars,
                   rolling, newPos, rewound, posBpm, pos, lastTick, doForceBeat, manual, followed, fault>>

\* What reset does to the handler: it is deleted, but only the local copy of the
\* pointer is cleared.
ResetHandler ==
    /\ fault' = IF onCountHandler = "deleted" THEN "doubleDelete" ELSE fault
    /\ onCountHandler' = IF onCountHandler = "live" THEN "deleted" ELSE onCountHandler
    /\ loaded' = IF loaded = "live" THEN "deleted" ELSE loaded

\* Silences that are long enough to stop are not told apart as they grow; the one that
\* a new tracker may see is longer still.
TooSilent == (Seconds + 1) * FrameRate
LongSilence == TooSilent + FrameRate

\* Bound: a dropped tracker is gone before there is another.
\* getMidiBeatTracker: the cached tracker is reset, or one is made and given to the engine.
GetTracker(tempo, signature) ==
    /\ ScriptCode
    /\ tracker # "dropped"
    /\ GetTransportMaster(tempo, signature)
    /\ master' = "cached"
    /\ used' = TRUE
    /\ tracker' = "hosted"
    /\ IF tracker = "none"
       THEN /\ onCountHandler' = "none" /\ countInNote' = FALSE
            /\ stopSeconds' \in IF followed THEN {0, Seconds} ELSE {0}   \* it is not initialised
            /\ countInCount' = 0 /\ since' = 0 /\ sum' = 0 /\ untilStart' = 0
            \* lastEventTime is 0: it has been silent for as long as JACK's clock runs
            /\ silent' \in IF followed THEN {1, LongSilence} ELSE {1}
            /\ UNCHANGED <<loaded, fault>>
       ELSE /\ ResetHandler
            /\ UNCHANGED <<countInNote, stopSeconds, countVars, silent>>
    /\ UNCHANGED <<spc, ppc, rolling, rewound, posBpm, pos, lastTick, signed, manual, followed>>

\* Operations on the tracker, which the script or a closure of an earlier run has.
OnCount ==
    /\ ScriptCode /\ tracker = "hosted" /\ ~followed
    /\ onCountHandler' = "live"                             \* the one before leaks
    /\ loaded' = IF loaded = "live" THEN "leaked" ELSE loaded
    /\ UNCHANGED <<masterVars, spc, tracker, used, master, countInNote, stopSeconds, countVars,
                   ppc, silent, timeVars, followed, fault>>

CountIn ==
    /\ ScriptCode /\ tracker = "hosted"
    /\ countInNote' = TRUE
    /\ UNCHANGED <<masterVars, spc, tracker, used, master, onCountHandler, stopSeconds,
                   countVars, periodVars, timeVars, followed, fault>>

StopOnSilence ==
    /\ ScriptCode /\ tracker = "hosted" /\ followed
    /\ stopSeconds' = Seconds
    /\ UNCHANGED <<masterVars, spc, tracker, used, master, onCountHandler, countInNote,
                   countVars, periodVars, timeVars, followed, fault>>

\* The run is over.  MasterCache comes first: a master that was not asked for goes ...
CompleteMaster ==
    /\ fault = "none"
    /\ spc = "run"
    /\ spc' = "complete"
    /\ followed => ~rolling /\ ~signed /\ ~newPos /\ ~doForceBeat /\ pos = Start
    /\ followed' = FALSE
    /\ cachedMaster' = (cachedMaster /\ active)
    /\ master' = IF cachedMaster /\ ~active /\ master = "cached" THEN "deleted" ELSE master
    /\ active' = FALSE
    /\ UNCHANGED <<bpm, beatsPerBar, tracker, used, onCountHandler, countInNote, stopSeconds,
                   countVars, periodVars, timeVars, fault>>

\* ... and then a tracker that was not asked for is taken from the engine.
CompleteTracker ==
    /\ fault = "none"
    /\ spc = "complete"
    /\ spc' = "wait"
    /\ tracker' = IF tracker = "hosted" /\ ~used THEN "dropped" ELSE tracker
    /\ used' = FALSE
    /\ UNCHANGED <<masterVars, master, onCountHandler, countInNote, stopSeconds,
                   countVars, periodVars, timeVars, followed, fault>>

\* The script is run again.
Rerun ==
    /\ fault = "none"
    /\ spc = "wait"
    /\ spc' = "run"
    /\ UNCHANGED <<masterVars, trackerVars, countVars, periodVars, timeVars, followed, fault>>

--------------------------------------------------------------------------------
(***************************************************************************)
(* Process thread: BeatTracker::doProcess, once in a period.               *)
(***************************************************************************)
Hosted == tracker \in {"hosted", "dropped"}

\* Frames since the last count, and until the start: what is beyond a second, or over, is not told apart.
Later(frames) == IF countInCount = 0 THEN 0 ELSE IF frames > FrameRate THEN frames ELSE frames + 1

\* Mutant: the start is put off with every period.
SoonerPutOff(frames) == frames

Sooner(frames) == IF countInCount < 4 THEN 0 ELSE IF frames = -1 THEN -1 ELSE frames - 1

\* AudioEngine::process takes a dropped tracker from its list.
TakeOut ==
    /\ fault = "none"
    /\ ppc = "idle"
    /\ tracker = "dropped"
    /\ tracker' = "none"
    /\ onCountHandler' = "none" /\ master' = "none"      \* a handler left leaks
    /\ UNCHANGED <<masterVars, spc, used, countInNote, stopSeconds, countVars, periodVars, timeVars,
                   followed, fault>>

\* The frames of the period are given to the tracker, which may find a beat, rolling
\* or not: it is forced on the master, with a tempo.
ForceBeat(tempo) ==
    IF master = "cached"
    THEN bpm' = tempo /\ doForceBeat' = followed /\ UNCHANGED fault
    ELSE fault' = "master" /\ UNCHANGED <<bpm, doForceBeat>>

TrackBeat ==
    \/ \E tempo \in Tempi : ForceBeat(tempo)
    \/ UNCHANGED <<bpm, doForceBeat, fault>>

\* Mutant: the transport starts with the fourth count.
CountedInAtOnce == countInCount = 4

\* detectCountIn, its first branch: the transport starts after the fourth count.
CountedIn == countInCount = 4 /\ untilStart <= 1

\* Its second branch: no count for more than a second.
TooLate == countInCount > 0 /\ since > FrameRate

Stopped == fault = "none" /\ ppc = "idle" /\ Hosted /\ ~rolling

StartTransport ==
    /\ Stopped
    /\ CountedIn
    /\ rolling' = TRUE
    /\ countInCount' = 0 /\ since' = 0 /\ sum' = 0 /\ untilStart' = 0
    /\ countInNote' = FALSE
    /\ ppc' = "time" /\ silent' = 1
    /\ manual' = FALSE
    /\ TrackBeat
    /\ UNCHANGED <<cachedMaster, active, beatsPerBar, spc, tracker, used, master, onCountHandler,
                   stopSeconds, loaded, newPos, rewound, posBpm, pos, lastTick, signed, followed>>

Abandon ==
    /\ Stopped
    /\ ~CountedIn /\ TooLate
    /\ countInCount' = 0 /\ since' = 0 /\ sum' = 0 /\ untilStart' = 0
    /\ ppc' = "time" /\ silent' = 1
    /\ manual' = FALSE
    /\ TrackBeat
    /\ UNCHANGED <<cachedMaster, active, beatsPerBar, spc, trackerVars, loaded, rolling, newPos,
                   rewound, posBpm, pos, lastTick, signed, followed>>

\* No count in this period, or one that is ignored: time passes.
NoCount ==
    /\ Stopped
    /\ ~CountedIn /\ ~TooLate
    /\ since' = Later(since) /\ untilStart' = Sooner(untilStart)
    /\ ppc' = "time" /\ silent' = 1
    /\ TrackBeat
    /\ UNCHANGED <<cachedMaster, active, beatsPerBar, spc, trackerVars, countInCount, sum, loaded,
                   rolling, newPos, rewound, posBpm, pos, lastTick, signed, manual, followed>>

\* A count is in time when its period is 60 to 140 per cent of a beat, in the tempo
\* that JACK was last told: a stopped transport is not told of a new one.
InWindow(period) == (100 * period) \div posBpm \in 60..140

\* countInEvent: the handler is loaded here and used by the next step.
Count ==
    /\ Stopped
    /\ ~CountedIn /\ ~TooLate
    /\ countInNote /\ countInCount < 4
    /\ countInCount > 0 => InWindow(since)
    /\ countInCount' = countInCount + 1
    /\ since' = 1
    /\ sum' = IF countInCount \in {0, 3} THEN 0 ELSE sum + since
    /\ loaded' = onCountHandler
    /\ ppc' = "dispatch" /\ silent' = 1
    /\ IF countInCount = 3
       THEN LET average == (sum + since) \div 3
            IN  /\ bpm' = IF master = "cached" THEN average ELSE bpm
                /\ fault' = IF master = "cached" THEN fault ELSE "master"
                /\ untilStart' = average - 1
       ELSE UNCHANGED <<bpm, fault, untilStart>>
    /\ UNCHANGED <<cachedMaster, active, beatsPerBar, spc, trackerVars, timeVars, followed>>

\* dispatchCountInEvent copies the handler into a closure.
Dispatch ==
    /\ fault = "none" /\ ppc = "dispatch"
    /\ ppc' = "time"
    /\ loaded' = "none"
    /\ IF loaded = "deleted" THEN fault' = "handler" /\ UNCHANGED <<bpm, doForceBeat>> ELSE TrackBeat
    /\ UNCHANGED <<cachedMaster, active, beatsPerBar, spc, trackerVars, countVars, silent, rolling,
                   newPos, rewound, posBpm, pos, lastTick, signed, manual, followed>>

\* Mutant: only the period in which the silence gets too long is noticed.
SilentJustNow == stopSeconds > 0 /\ silent \div FrameRate = stopSeconds + 1

\* More than so many whole seconds.
Silent == stopSeconds > 0 /\ silent \div FrameRate > stopSeconds

\* stopIfSilent, with a note in this period or without: JACK stops and is sent to the
\* start of the song, which it tells the master at the end of the cycle.
StopIfSilent(note) ==
    /\ silent' = IF note \/ ~followed THEN 1 ELSE IF silent < TooSilent THEN silent + 1 ELSE silent
    /\ IF ~note /\ Silent
       THEN rolling' = FALSE /\ newPos' = TRUE /\ rewound' = TRUE
       ELSE UNCHANGED <<rolling, newPos, rewound>>

\* A period of a rolling transport.  A count-in that is not over goes on ageing.
Rolling(note) ==
    /\ fault = "none" /\ ppc = "idle" /\ Hosted /\ rolling
    /\ TrackBeat
    /\ StopIfSilent(note)
    /\ since' = Later(since) /\ untilStart' = Sooner(untilStart)
    /\ ppc' = "time"
    /\ UNCHANGED <<cachedMaster, active, beatsPerBar, spc, trackerVars, countInCount, sum, loaded,
                   posBpm, pos, lastTick, signed, manual, followed>>

\* A period without the tracker.
Elsewhere ==
    /\ fault = "none" /\ ppc = "idle" /\ ~Hosted
    /\ ppc' = "time"
    /\ UNCHANGED <<masterVars, spc, trackerVars, countVars, loaded, silent, timeVars, followed, fault>>

--------------------------------------------------------------------------------
(***************************************************************************)
(* JACK's timebase callback: Master::setTime, at the end of a cycle.       *)
(***************************************************************************)
HalfTicks == (2 * TicksPerBeat) \div bpm    \* what a period adds to lastTick
LRound(halves) == (halves + 1) \div 2

\* Mutant: the beat behind the last one is counted too.
NextBeatLate(p) ==
    IF p.beat > beatsPerBar
    THEN [bar |-> p.bar + 1, beat |-> 1, tick |-> p.tick,
          barStart |-> p.barStart + beatsPerBar * TicksPerBeat]
    ELSE [p EXCEPT !.beat = @ + 1]

NextBeat(p) ==
    IF p.beat + 1 > beatsPerBar
    THEN [bar |-> p.bar + 1, beat |-> 1, tick |-> p.tick,
          barStart |-> p.barStart + beatsPerBar * TicksPerBeat]
    ELSE [p EXCEPT !.beat = @ + 1]

\* The position and lastTick after a period (which is shorter than a beat).
Advanced ==
    LET last == lastTick + HalfTicks
        tick == LRound(last)
    IN  IF tick >= TicksPerBeat
        THEN [pos |-> NextBeat([pos EXCEPT !.tick = tick - TicksPerBeat]),
              lastTick |-> last - 2 * TicksPerBeat]
        ELSE [pos |-> [pos EXCEPT !.tick = tick], lastTick |-> last]

\* The position so many ticks into the song, when JACK has moved.
NewPosition(ticks) ==
    LET beat == ticks \div TicksPerBeat
        bar == beat \div beatsPerBar
        tick == ticks - beat * TicksPerBeat
    IN  [pos |-> [bar |-> bar + 1, beat |-> beat - bar * beatsPerBar + 1, tick |-> tick,
                  barStart |-> bar * beatsPerBar * TicksPerBeat],
         lastTick |-> 2 * tick]

\* Mutant: a beat that is just over is played again.
ForcedBack(t) ==
    IF doForceBeat THEN [pos |-> [t.pos EXCEPT !.tick = 0], lastTick |-> 0] ELSE t

\* A forced beat in the second half of a beat moves on to the next one.
Forced(t) ==
    IF doForceBeat /\ 2 * t.pos.tick > TicksPerBeat
    THEN [pos |-> [NextBeat(t.pos) EXCEPT !.tick = 0], lastTick |-> 0]
    ELSE t

\* The callback is made while the transport rolls, and to tell a new position.
SetTime ==
    /\ fault = "none" /\ ppc = "time"
    /\ ppc' = "idle"
    /\ IF cachedMaster /\ newPos
       THEN \E ticks \in IF followed /\ ~rewound THEN 0..(beatsPerBar * TicksPerBeat) ELSE {0} :
                pos' = Forced(NewPosition(ticks)).pos /\ lastTick' = Forced(NewPosition(ticks)).lastTick
       ELSE IF cachedMaster /\ rolling /\ followed /\ pos.bar <= MaxBar
       THEN pos' = Forced(Advanced).pos /\ lastTick' = Forced(Advanced).lastTick
       ELSE UNCHANGED <<pos, lastTick>>
    /\ posBpm' = IF cachedMaster /\ (newPos \/ rolling) THEN bpm ELSE posBpm
    /\ signed' = (signed /\ ~(cachedMaster /\ newPos))
    /\ newPos' = (newPos /\ ~cachedMaster)
    /\ rewound' = (rewound /\ ~cachedMaster)
    /\ doForceBeat' = (doForceBeat /\ ~(cachedMaster /\ (newPos \/ rolling)))
    /\ UNCHANGED <<masterVars, spc, trackerVars, countVars, loaded, silent, rolling, manual, followed, fault>>

\* The user starts, stops or moves it.  Bound: starts and moves in the first run only.
UserStart ==
    /\ fault = "none" /\ ~rolling /\ followed
    /\ rolling' = TRUE
    /\ manual' = (countInCount > 0)
    /\ UNCHANGED <<masterVars, spc, trackerVars, countVars, periodVars, posVars, followed, fault>>

UserStop ==
    /\ fault = "none" /\ rolling
    /\ rolling' = FALSE
    /\ UNCHANGED <<masterVars, spc, trackerVars, countVars, periodVars, posVars, manual, followed, fault>>

UserLocate ==
    /\ fault = "none" /\ rolling /\ followed
    /\ newPos' = TRUE /\ rewound' = FALSE
    /\ UNCHANGED <<masterVars, spc, trackerVars, countVars, periodVars, rolling, posBpm, pos,
                   lastTick, doForceBeat, signed, manual, followed, fault>>

Down == fault # "none" /\ UNCHANGED vars

Script ==
    \/ \E tempo \in Tempi, signature \in IF followed THEN Signatures ELSE {beatsPerBar} :
          GetMaster(tempo, signature) \/ GetTracker(tempo, signature)
    \/ \E signature \in Signatures : SetTimeSignature(signature)
    \/ OnCount \/ CountIn \/ StopOnSilence
    \/ CompleteMaster \/ CompleteTracker \/ Rerun

Period ==
    \/ TakeOut \/ StartTransport \/ Abandon \/ NoCount \/ Count \/ Dispatch
    \/ (\E note \in BOOLEAN : Rolling(note)) \/ Elsewhere \/ SetTime

User == UserStart \/ UserStop \/ UserLocate

Next == Script \/ Period \/ User \/ Down

\* JACK runs one cycle after the other.
Spec == Init /\ [][Next]_vars /\ WF_vars(Period)

--------------------------------------------------------------------------------
\* Types and ranges.  A tempo that was counted in is never below one beat a second.
TypeOK ==
    /\ cachedMaster \in BOOLEAN /\ active \in BOOLEAN /\ used \in BOOLEAN
    /\ bpm \in Tempi \cup 1..FrameRate /\ beatsPerBar \in Signatures
    /\ spc \in {"run", "complete", "wait"}
    /\ tracker \in {"none", "hosted", "dropped"} /\ master \in {"none", "cached", "deleted"}
    /\ onCountHandler \in {"none", "live", "deleted"}
    /\ loaded \in {"none", "live", "leaked", "deleted"}
    /\ countInCount \in 0..4 /\ since \in 0..(FrameRate + 1) /\ untilStart \in -1..(FrameRate - 1)
    /\ ppc \in {"idle", "dispatch", "time"}
    /\ fault \in {"none", "master", "handler", "doubleDelete"}

\* A tracker that has been asked for since the last run ended has the cached master,
\* alive, although the two caches are completed one after the other; the process
\* thread meets a deleted master only through a tracker that is being dropped.
TrackerHasMaster ==
    /\ used => cachedMaster /\ master = "cached"
    /\ fault = "master" => ~used

\* Bar, beat and tick stay within their ranges and agree with bar_start_tick and with
\* the unrounded tick, until the signature changes within the song.
PositionSound ==
    ~signed /\ ~newPos =>
        /\ pos.beat \in 1..beatsPerBar
        /\ pos.tick \in 0..(TicksPerBeat - 1)
        /\ pos.barStart = (pos.bar - 1) * beatsPerBar * TicksPerBeat
        /\ 2 * pos.tick - lastTick \in {0, 1}

NotBefore(p, q) ==
    \/ p.bar > q.bar
    \/ p.bar = q.bar /\ (p.beat > q.beat \/ (p.beat = q.beat /\ p.tick >= q.tick))

\* Forced beats, tempo and signature changes never move a rolling transport back.
NeverBack == [][rolling /\ rolling' /\ ~newPos => NotBefore(pos', pos)]_vars

\* The tracker starts the transport one average beat after the fourth count, not
\* later - unless the user has rolled the transport in the middle of a count-in.
StartsOnBeat == [][StartTransport => untilStart \in 0..1 \/ manual]_vars

\* Four counts start the transport, whatever the script does meanwhile.
CountInStarts ==
    (countInCount = 4) ~> (rolling \/ tracker # "hosted" \/ fault # "none")

\* With stopOnSilence the transport stops unless there is a note.
SilenceStops ==
    (rolling /\ tracker = "hosted" /\ stopSeconds > 0 /\ silent > 1)
        ~> (~rolling \/ silent = 1 \/ tracker # "hosted" \/ fault # "none")

================================================================================
