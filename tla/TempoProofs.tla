------------------------------ MODULE TempoProofs ------------------------------
(***************************************************************************)
(* Theorems about Tempo, for every tempo, signature, resolution and frame  *)
(* rate: what the script was given stays alive, the position is sound and  *)
(* never goes back, and a count-in starts the transport on the beat.       *)
(***************************************************************************)
EXTENDS Tempo, TLAPS

--------------------------------------------------------------------------------
(***************************************************************************)
(* The two caches.  A tracker of this run is hosted, and its master is     *)
(* marked until MasterCache has been completed; after that the script      *)
(* thread does nothing else before the tracker is unmarked too.            *)
(***************************************************************************)
CacheInv ==
    /\ used => /\ tracker = "hosted"
               /\ cachedMaster
               /\ master = "cached"
               /\ spc # "complete" => active
    /\ fault = "master" => ~used

LEMMA CacheInit == Init => CacheInv
  BY DEF Init, CacheInv

LEMMA CacheStep == CacheInv /\ [Next]_vars => CacheInv'
  <1> SUFFICES ASSUME CacheInv, [Next]_vars PROVE CacheInv'
    OBVIOUS
  <1> USE DEF CacheInv, masterVars, trackerVars, countVars, periodVars, posVars, timeVars
  <1>1. ASSUME NEW tempo \in Tempi, NEW signature, GetMaster(tempo, signature) PROVE CacheInv'
    BY <1>1 DEF GetMaster, GetTransportMaster, ScriptCode
  <1>2. ASSUME NEW tempo \in Tempi, NEW signature, GetTracker(tempo, signature) PROVE CacheInv'
    BY <1>2 DEF GetTracker, GetTransportMaster, ScriptCode, ResetHandler
  <1>3. ASSUME NEW signature \in Signatures, SetTimeSignature(signature) PROVE CacheInv'
    BY <1>3 DEF SetTimeSignature, ScriptCode
  <1>4. CASE OnCount \/ CountIn \/ StopOnSilence
    BY <1>4 DEF OnCount, CountIn, StopOnSilence, ScriptCode
  <1>5. CASE CompleteMaster
    BY <1>5 DEF CompleteMaster
  <1>6. CASE CompleteTracker \/ Rerun
    BY <1>6 DEF CompleteTracker, Rerun
  <1>7. CASE TakeOut
    BY <1>7 DEF TakeOut
  <1>8. CASE StartTransport \/ Abandon \/ NoCount
    BY <1>8 DEF StartTransport, Abandon, NoCount, Stopped, TrackBeat, ForceBeat
  <1>9. CASE Count
    BY <1>9 DEF Count, Stopped
  <1>10. CASE Dispatch
    BY <1>10 DEF Dispatch, TrackBeat, ForceBeat
  <1>11. ASSUME NEW note \in BOOLEAN, Rolling(note) PROVE CacheInv'
    BY <1>11 DEF Rolling, TrackBeat, ForceBeat
  <1>12. CASE Elsewhere \/ SetTime
    BY <1>12 DEF Elsewhere, SetTime
  <1>13. CASE User
    BY <1>13 DEF User, UserStart, UserStop, UserLocate
  <1>14. CASE Down \/ UNCHANGED vars
    BY <1>14 DEF Down, vars
  <1> QED
    BY <1>1, <1>2, <1>3, <1>4, <1>5, <1>6, <1>7, <1>8, <1>9, <1>10, <1>11, <1>12, <1>13, <1>14
    DEF Next, Script, Period

\* A tracker that was asked for in this run keeps its master, and the process thread
\* never meets a deleted one through it: scriptComplete of the two caches, in the
\* order main.cpp has them, and getTransportMaster, which marks a cached master.
THEOREM MasterOutlivesTracker == Spec => []TrackerHasMaster
  <1>1. CacheInv => TrackerHasMaster
    BY DEF CacheInv, TrackerHasMaster
  <1> QED
    BY CacheInit, CacheStep, <1>1, PTL DEF Spec

--------------------------------------------------------------------------------
(***************************************************************************)
(* The count-in.  Counts are at most a second apart, so that the sum of    *)
(* their periods and the average that becomes the tempo are bounded; the   *)
(* start is in the future until the count-in is over, unless the transport *)
(* was rolling in between, which only the user can bring about.            *)
(***************************************************************************)
CountInv ==
    /\ sum \in Nat
    /\ countInCount > 0 => since >= 1
    /\ countInCount \in {0, 1} => sum = 0
    /\ countInCount = 2 => sum \in 1..FrameRate
    /\ countInCount = 3 => sum \in 2..(2 * FrameRate)
    /\ rolling /\ countInCount > 0 => manual
    /\ countInCount = 4 /\ ~manual => untilStart >= 0

Counting == TypeOK /\ CountInv

LEMMA CountingInit == Init => Counting
  <1> SUFFICES ASSUME Init PROVE Counting
    OBVIOUS
  <1>1. Tempo0 \in Tempi /\ Signature0 \in Signatures
    BY TempoAssumption DEF Tempo0, Signature0
  <1>2. cachedMaster \in BOOLEAN /\ active \in BOOLEAN /\ used \in BOOLEAN
    BY Zenon DEF Init
  <1> QED
    BY <1>1, <1>2, TempoAssumption DEF Init, Counting, TypeOK, CountInv

\* The average of three periods between counts is at least a frame and at most a second.
LEMMA AverageBounded ==
    ASSUME Counting, countInCount = 3, ~TooLate
    PROVE  (sum + since) \div 3 \in 1..FrameRate
  BY TempoAssumption DEF Counting, TypeOK, CountInv, TooLate

\* A period that passes without a count leaves the count-in in its ranges.
LEMMA TimePasses ==
    ASSUME Counting, ~TooLate \/ rolling
    PROVE  /\ Later(since) \in 0..(FrameRate + 1)
           /\ countInCount > 0 => Later(since) >= 1
           /\ Sooner(untilStart) \in -1..(FrameRate - 1)
           /\ countInCount = 4 /\ ~manual /\ untilStart > 1 => Sooner(untilStart) >= 0
  BY TempoAssumption DEF Counting, TypeOK, CountInv, Later, Sooner

\* Whether or not a beat is found, the tempo is one of those known.
LEMMA TrackBeatTypes ==
    ASSUME Counting, fault = "none", TrackBeat
    PROVE  /\ bpm' \in Tempi \cup 1..FrameRate
           /\ fault' \in {"none", "master"}
  BY DEF Counting, TypeOK, TrackBeat, ForceBeat

LEMMA CountingStep == Counting /\ [Next]_vars => Counting'
  <1> SUFFICES ASSUME Counting, [Next]_vars PROVE Counting'
    OBVIOUS
  <1> USE TempoAssumption
      DEF Counting, TypeOK, CountInv, masterVars, trackerVars, countVars, periodVars, posVars, timeVars
  <1>1. ASSUME NEW tempo \in Tempi, NEW signature \in Signatures, GetMaster(tempo, signature)
        PROVE  Counting'
    BY <1>1 DEF GetMaster, GetTransportMaster
  <1>2. ASSUME NEW tempo \in Tempi, NEW signature \in Signatures, GetTracker(tempo, signature)
        PROVE  Counting'
    BY <1>2 DEF GetTracker, GetTransportMaster, ResetHandler
  <1>3. ASSUME NEW signature \in Signatures, SetTimeSignature(signature) PROVE Counting'
    BY <1>3 DEF SetTimeSignature
  <1>4. CASE OnCount \/ CountIn \/ StopOnSilence
    BY <1>4 DEF OnCount, CountIn, StopOnSilence
  <1>5. CASE CompleteMaster
    <2>1. cachedMaster' \in BOOLEAN /\ active' \in BOOLEAN
      BY <1>5, Zenon DEF CompleteMaster
    <2> QED
      BY <1>5, <2>1 DEF CompleteMaster
  <1>6. CASE CompleteTracker \/ Rerun
    <2>1. used' \in BOOLEAN
      BY <1>6, Zenon DEF CompleteTracker, Rerun
    <2> QED
      BY <1>6, <2>1 DEF CompleteTracker, Rerun
  <1>7. CASE TakeOut
    BY <1>7 DEF TakeOut
  <1>8. CASE StartTransport \/ Abandon
    BY <1>8, TrackBeatTypes DEF StartTransport, Abandon, Stopped
  <1>9. CASE NoCount
    BY <1>9, TrackBeatTypes, TimePasses DEF NoCount, Stopped, CountedIn
  <1>10. CASE Count
    <2>1. countInCount = 3 => (sum + since) \div 3 \in 1..FrameRate
      BY <1>10, AverageBounded DEF Count
    <2>2. countInCount > 0 => since \in 1..FrameRate
      BY <1>10 DEF Count, TooLate
    <2> QED
      BY <1>10, <2>1, <2>2 DEF Count, Stopped
  <1>11. CASE Dispatch
    BY <1>11, TrackBeatTypes DEF Dispatch
  <1>12. ASSUME NEW note \in BOOLEAN, Rolling(note) PROVE Counting'
    BY <1>12, TrackBeatTypes, TimePasses DEF Rolling, StopIfSilent
  <1>13. CASE Elsewhere \/ SetTime
    BY <1>13 DEF Elsewhere, SetTime
  <1>14. CASE User
    <2>1. CASE UserStart
      <3>1. manual' <=> countInCount > 0
        BY <2>1, Zenon DEF UserStart
      <3> QED
        BY <2>1, <3>1 DEF UserStart
    <2> QED
      BY <1>14, <2>1 DEF User, UserStop, UserLocate
  <1>15. CASE Down \/ UNCHANGED vars
    BY <1>15 DEF Down, vars
  <1>16. beatsPerBar \in Signatures
    OBVIOUS
  <1> QED
    BY <1>1, <1>2, <1>3, <1>4, <1>5, <1>6, <1>7, <1>8, <1>9, <1>10, <1>11, <1>12, <1>13, <1>14,
       <1>15, <1>16
    DEF Next, Script, Period

\* The tempo that was counted in is a beat of at least a frame and at most a second:
\* detectCountIn gives up before a count can be later than that.
THEOREM CountingSound == Spec => []TypeOK
  <1>1. Counting => TypeOK
    BY DEF Counting
  <1> QED
    BY CountingInit, CountingStep, <1>1, PTL DEF Spec

\* detectCountIn starts the transport with the period in which the beat after the
\* fourth count falls, unless the user rolled the transport during the count-in.
THEOREM CountInOnBeat == Spec => StartsOnBeat
  <1>1. ASSUME Counting, StartTransport PROVE untilStart \in 0..1 \/ manual
    BY <1>1, TempoAssumption DEF Counting, TypeOK, CountInv, StartTransport, CountedIn, Stopped
  <1>2. Counting /\ [Next]_vars => [StartTransport => untilStart \in 0..1 \/ manual]_vars
    BY <1>1
  <1> QED
    BY CountingInit, CountingStep, <1>2, PTL DEF Spec, StartsOnBeat

--------------------------------------------------------------------------------
(***************************************************************************)
(* The position.  The tick and its unrounded half ticks agree whatever the *)
(* signature does; bar and beat agree with it until it changes within the  *)
(* song or JACK has to be told a new position.                             *)
(***************************************************************************)
Place == [bar : Int, beat : Int, tick : 0..(TicksPerBeat - 1), barStart : Int]

InBar(p, signature) ==
    /\ p.beat \in 1..signature
    /\ p.barStart = (p.bar - 1) * signature * TicksPerBeat

Rounded(t) == t.pos \in Place /\ t.lastTick \in Int /\ 2 * t.pos.tick - t.lastTick \in {0, 1}

Now == [pos |-> pos, lastTick |-> lastTick]

PlaceInv ==
    /\ Rounded(Now)
    /\ ~signed /\ ~newPos => InBar(pos, beatsPerBar)

\* One bar more is as many ticks further as a bar has.
LEMMA BarFurther ==
    ASSUME NEW bar \in Int, NEW signature \in Int
    PROVE  (bar - 1) * signature * TicksPerBeat + signature * TicksPerBeat
             = ((bar + 1) - 1) * signature * TicksPerBeat
  <1>1. \A a, b, c \in Int : (a - 1) * b * c + b * c = ((a + 1) - 1) * b * c
    OBVIOUS
  <1> QED
    BY <1>1, TempoAssumption

\* What an update of the tick leaves of a position.
LEMMA TickUpdated ==
    ASSUME NEW p \in Place, NEW tick \in 0..(TicksPerBeat - 1)
    PROVE  /\ [p EXCEPT !.tick = tick] \in Place
           /\ [p EXCEPT !.tick = tick].tick = tick
           /\ [p EXCEPT !.tick = tick].bar = p.bar
           /\ [p EXCEPT !.tick = tick].beat = p.beat
           /\ [p EXCEPT !.tick = tick].barStart = p.barStart
  BY DEF Place

\* NextBeat leaves the tick alone, and the next beat of a sound position is sound.
LEMMA NextBeatSound ==
    ASSUME beatsPerBar \in Signatures, NEW p \in Place
    PROVE  /\ NextBeat(p) \in Place
           /\ NextBeat(p).tick = p.tick
           /\ InBar(p, beatsPerBar) => InBar(NextBeat(p), beatsPerBar)
           /\ \/ NextBeat(p).bar > p.bar
              \/ NextBeat(p).bar = p.bar /\ NextBeat(p).beat > p.beat
  <1>1. beatsPerBar \in Nat \ {0} /\ TicksPerBeat \in Nat \ {0}
    BY TempoAssumption
  <1>2. /\ p.bar \in Int /\ p.beat \in Int /\ p.barStart \in Int
        /\ p.tick \in 0..(TicksPerBeat - 1) /\ beatsPerBar * TicksPerBeat \in Int
    BY <1>1 DEF Place
  <1>3. CASE p.beat + 1 > beatsPerBar
    <2> DEFINE start == p.barStart + beatsPerBar * TicksPerBeat
               next == ((p.bar + 1) - 1) * beatsPerBar * TicksPerBeat
    <2>1. NextBeat(p) = [bar |-> p.bar + 1, beat |-> 1, tick |-> p.tick, barStart |-> start]
      BY <1>3 DEF NextBeat
    <2>2. p.barStart = (p.bar - 1) * beatsPerBar * TicksPerBeat => start = next
      BY <1>1, <1>2, BarFurther
    <2>3. start \in Int
      BY <1>2
    <2> HIDE DEF start
    <2>4. /\ NextBeat(p).bar = p.bar + 1 /\ NextBeat(p).beat = 1
          /\ NextBeat(p).tick = p.tick /\ NextBeat(p).barStart = start
      BY <2>1
    <2>5. next = (NextBeat(p).bar - 1) * beatsPerBar * TicksPerBeat
      BY <2>4, Zenon
    <2>6. 1 \in 1..beatsPerBar
      BY <1>1
    <2>7. InBar(p, beatsPerBar) => InBar(NextBeat(p), beatsPerBar)
      BY <2>2, <2>4, <2>5, <2>6, Zenon DEF InBar
    <2> HIDE DEF next
    <2>8. NextBeat(p) \in Place
      BY <1>2, <2>1, <2>3 DEF Place
    <2> QED
      BY <1>2, <2>4, <2>7, <2>8
  <1>4. CASE ~(p.beat + 1 > beatsPerBar)
    <2>1. NextBeat(p) = [p EXCEPT !.beat = p.beat + 1]
      BY <1>4 DEF NextBeat
    <2> QED
      BY <1>1, <1>4, <2>1 DEF InBar, Place
  <1> QED
    BY <1>3, <1>4

\* The position after a period is at least as far, also when a beat is forced.
Further(t, p) == NotBefore(t.pos, p)

LEMMA NotBeforeTransitive ==
    ASSUME NEW p \in Place, NEW q \in Place, NEW r \in Place, NotBefore(p, q), NotBefore(q, r)
    PROVE  NotBefore(p, r)
  BY TempoAssumption DEF Place, NotBefore

LEMMA AdvancedSound ==
    ASSUME PlaceInv, beatsPerBar \in Signatures, bpm \in Nat \ {0}
    PROVE  /\ Rounded(Advanced)
           /\ InBar(pos, beatsPerBar) => InBar(Advanced.pos, beatsPerBar)
           /\ Further(Advanced, pos)
           /\ Advanced = [pos |-> Advanced.pos, lastTick |-> Advanced.lastTick]
  <1> DEFINE last == lastTick + HalfTicks
             tick == LRound(last)
  <1>1. TicksPerBeat \in Nat \ {0} /\ pos \in Place /\ lastTick \in Int
        /\ 2 * pos.tick - lastTick \in {0, 1}
    BY TempoAssumption DEF PlaceInv, Rounded, Now
  <1>2. HalfTicks \in 0..(2 * TicksPerBeat)
    BY <1>1 DEF HalfTicks
  <1>3. last \in Int /\ tick \in Int /\ 2 * tick - last \in {0, 1}
    BY <1>1, <1>2 DEF LRound
  <1>4. pos.tick \in 0..(TicksPerBeat - 1)
    BY <1>1 DEF Place
  <1>5. pos.tick <= tick /\ tick < 2 * TicksPerBeat
    <2>1. last = lastTick + HalfTicks
      OBVIOUS
    <2> HIDE DEF last, tick
    <2> QED
      BY <1>1, <1>2, <1>3, <1>4, <2>1
  <1>6. Advanced = IF tick >= TicksPerBeat
                   THEN [pos |-> NextBeat([pos EXCEPT !.tick = tick - TicksPerBeat]),
                         lastTick |-> last - 2 * TicksPerBeat]
                   ELSE [pos |-> [pos EXCEPT !.tick = tick], lastTick |-> last]
    BY Zenon DEF Advanced
  <1> HIDE DEF last, tick
  <1>7. CASE tick >= TicksPerBeat
    <2> DEFINE p == [pos EXCEPT !.tick = tick - TicksPerBeat]
    <2>1. Advanced = [pos |-> NextBeat(p), lastTick |-> last - 2 * TicksPerBeat]
      BY <1>6, <1>7
    <2>2. tick - TicksPerBeat \in 0..(TicksPerBeat - 1)
      BY <1>1, <1>3, <1>5, <1>7
    <2>3. /\ p \in Place /\ p.tick = tick - TicksPerBeat
          /\ p.bar = pos.bar /\ p.beat = pos.beat /\ p.barStart = pos.barStart
      BY <1>1, <2>2, TickUpdated
    <2> HIDE DEF p
    <2>4. /\ NextBeat(p) \in Place /\ NextBeat(p).tick = p.tick
          /\ InBar(p, beatsPerBar) => InBar(NextBeat(p), beatsPerBar)
          /\ \/ NextBeat(p).bar > p.bar
             \/ NextBeat(p).bar = p.bar /\ NextBeat(p).beat > p.beat
      BY <2>3, NextBeatSound
    <2>5. Rounded(Advanced)
      BY <1>1, <1>3, <2>1, <2>3, <2>4 DEF Rounded
    <2>6. InBar(pos, beatsPerBar) => InBar(Advanced.pos, beatsPerBar)
      BY <2>1, <2>3, <2>4 DEF InBar
    <2>7. Further(Advanced, pos)
      BY <2>1, <2>3, <2>4 DEF Further, NotBefore
    <2> QED
      BY <2>1, <2>5, <2>6, <2>7
  <1>8. CASE ~(tick >= TicksPerBeat)
    <2> DEFINE p == [pos EXCEPT !.tick = tick]
    <2>1. Advanced = [pos |-> p, lastTick |-> last]
      BY <1>6, <1>8
    <2>2. tick \in 0..(TicksPerBeat - 1)
      BY <1>1, <1>3, <1>4, <1>5, <1>8
    <2>3. /\ p \in Place /\ p.tick = tick
          /\ p.bar = pos.bar /\ p.beat = pos.beat /\ p.barStart = pos.barStart
      BY <1>1, <2>2, TickUpdated
    <2> HIDE DEF p
    <2>4. Rounded(Advanced)
      BY <1>3, <2>1, <2>3 DEF Rounded
    <2>5. InBar(pos, beatsPerBar) => InBar(Advanced.pos, beatsPerBar)
      BY <2>1, <2>3 DEF InBar
    <2>6. Further(Advanced, pos)
      BY <1>5, <2>1, <2>3 DEF Further, NotBefore
    <2> QED
      BY <2>1, <2>4, <2>5, <2>6
  <1> QED
    BY <1>7, <1>8

\* A forced beat keeps a position sound and does not move it back.
LEMMA ForcedSound ==
    ASSUME beatsPerBar \in Signatures, NEW t, Rounded(t), t = [pos |-> t.pos, lastTick |-> t.lastTick]
    PROVE  /\ Rounded(Forced(t))
           /\ InBar(t.pos, beatsPerBar) => InBar(Forced(t).pos, beatsPerBar)
           /\ Further(Forced(t), t.pos)
  <1>1. TicksPerBeat \in Nat \ {0} /\ t.pos \in Place
    BY TempoAssumption DEF Rounded
  <1>2. CASE doForceBeat /\ 2 * t.pos.tick > TicksPerBeat
    <2> DEFINE n == NextBeat(t.pos)
               p == [n EXCEPT !.tick = 0]
    <2>1. Forced(t) = [pos |-> p, lastTick |-> 0]
      BY <1>2 DEF Forced
    <2>2. /\ n \in Place
          /\ InBar(t.pos, beatsPerBar) => InBar(n, beatsPerBar)
          /\ n.bar > t.pos.bar \/ (n.bar = t.pos.bar /\ n.beat > t.pos.beat)
      BY <1>1, NextBeatSound
    <2>4. n.bar \in Int /\ n.beat \in Int /\ n.barStart \in Int /\ t.pos.bar \in Int /\ t.pos.beat \in Int
      BY <1>1, <2>2 DEF Place
    <2> HIDE DEF n
    <2>3. /\ p \in Place /\ p.tick = 0 /\ p.bar = n.bar /\ p.beat = n.beat /\ p.barStart = n.barStart
      BY <1>1, <2>2 DEF Place
    <2> HIDE DEF p
    <2>5. Forced(t).pos = p /\ Forced(t).lastTick = 0
      BY <2>1
    <2>6. Rounded(Forced(t))
      BY <2>3, <2>5 DEF Rounded
    <2>7. InBar(t.pos, beatsPerBar) => InBar(p, beatsPerBar)
      BY <2>2, <2>3, Zenon DEF InBar
    <2>8. Further(Forced(t), t.pos)
      BY <2>2, <2>3, <2>5 DEF Further, NotBefore
    <2> QED
      BY <2>5, <2>6, <2>7, <2>8
  <1>3. CASE ~(doForceBeat /\ 2 * t.pos.tick > TicksPerBeat)
    <2>1. Forced(t) = t
      BY <1>3 DEF Forced
    <2>2. Further(t, t.pos)
      BY <1>1 DEF Further, NotBefore, Place
    <2> QED
      BY <2>1, <2>2
  <1> QED
    BY <1>2, <1>3

\* Division leaves a remainder below the divisor.
LEMMA Remainder ==
    ASSUME NEW a \in Nat, NEW b \in Nat \ {0}
    PROVE  /\ a \div b \in Nat
           /\ a - (a \div b) * b \in 0..(b - 1)
  OBVIOUS

\* The position that is computed from a number of ticks is sound.
LEMMA NewPositionSound ==
    ASSUME beatsPerBar \in Signatures, NEW ticks \in Nat
    PROVE  /\ Rounded(NewPosition(ticks))
           /\ InBar(NewPosition(ticks).pos, beatsPerBar)
           /\ NewPosition(ticks) = [pos |-> NewPosition(ticks).pos, lastTick |-> NewPosition(ticks).lastTick]
  <1> DEFINE beat == ticks \div TicksPerBeat
             bar == beat \div beatsPerBar
             tick == ticks - beat * TicksPerBeat
             rest == beat - bar * beatsPerBar
             start == bar * beatsPerBar * TicksPerBeat
             p == [bar |-> bar + 1, beat |-> rest + 1, tick |-> tick, barStart |-> start]
  <1>1. TicksPerBeat \in Nat \ {0} /\ beatsPerBar \in Nat \ {0}
    BY TempoAssumption
  <1>2. beat \in Nat /\ tick \in 0..(TicksPerBeat - 1)
    BY <1>1, Remainder
  <1>3. bar \in Nat /\ rest \in 0..(beatsPerBar - 1)
    <2> HIDE DEF beat
    <2> QED
      BY <1>1, <1>2, Remainder
  <1>4. start \in Int /\ start = ((bar + 1) - 1) * beatsPerBar * TicksPerBeat
    <2>1. (bar + 1) - 1 = bar
      <3> HIDE DEF bar
      <3> QED
        BY <1>3
    <2>2. bar * beatsPerBar \in Int
      <3> HIDE DEF bar
      <3> QED
        BY <1>1, <1>3
    <2> HIDE DEF bar
    <2> QED
      BY <1>1, <2>1, <2>2
  <1>5. NewPosition(ticks) = [pos |-> p, lastTick |-> 2 * tick]
    BY Zenon DEF NewPosition
  <1> HIDE DEF beat, bar, tick, rest, start
  <1>6. p \in Place /\ p.tick = tick /\ p.bar = bar + 1 /\ p.beat = rest + 1 /\ p.barStart = start
    BY <1>2, <1>3, <1>4 DEF Place
  <1>7. InBar(p, beatsPerBar)
    <2>1. rest + 1 \in 1..beatsPerBar
      BY <1>1, <1>3
    <2>2. p.beat \in 1..beatsPerBar
      BY <1>6, <2>1
    <2>3. p.barStart = (p.bar - 1) * beatsPerBar * TicksPerBeat
      <3> HIDE DEF p
      <3> QED
        BY <1>4, <1>6, Zenon
    <2> QED
      BY <2>2, <2>3 DEF InBar
  <1> HIDE DEF p
  <1>8. NewPosition(ticks).pos = p /\ NewPosition(ticks).lastTick = 2 * tick
    BY <1>5
  <1>9. Rounded(NewPosition(ticks))
    BY <1>2, <1>6, <1>8 DEF Rounded
  <1> QED
    BY <1>5, <1>7, <1>8, <1>9

\* The start of the song is sound in every signature.
LEMMA StartSound ==
    /\ Rounded([pos |-> Start, lastTick |-> 0])
    /\ \A signature \in Signatures : InBar(Start, signature)
  <1>1. /\ Start \in Place /\ Start.tick = 0 /\ Start.bar = 1 /\ Start.beat = 1 /\ Start.barStart = 0
    BY TempoAssumption DEF Start, Place
  <1>2. ASSUME NEW signature \in Nat \ {0}
        PROVE  1 \in 1..signature /\ 0 = (1 - 1) * signature * TicksPerBeat
    BY TempoAssumption
  <1> HIDE DEF Start
  <1>3. Rounded([pos |-> Start, lastTick |-> 0])
    BY <1>1 DEF Rounded
  <1>4. ASSUME NEW signature \in Signatures PROVE InBar(Start, signature)
    BY <1>1, <1>2, TempoAssumption DEF InBar
  <1> QED
    BY <1>3, <1>4

--------------------------------------------------------------------------------
\* What a step does that neither plays on nor moves in the song.
Held ==
    /\ pos' = pos /\ lastTick' = lastTick
    /\ beatsPerBar' = beatsPerBar \/ newPos' \/ signed' \/ (pos = Start /\ beatsPerBar' \in Signatures)
    /\ ~signed' /\ ~newPos' => ~signed /\ ~newPos

LEMMA PlaceInit == Init => PlaceInv
  <1> SUFFICES ASSUME Init PROVE PlaceInv
    OBVIOUS
  <1>1. beatsPerBar \in Signatures
    BY TempoAssumption DEF Init, Signature0
  <1>2. pos = Start /\ lastTick = 0
    BY DEF Init
  <1> QED
    BY <1>1, <1>2, StartSound DEF PlaceInv, Now

\* Every step but setTime holds the position.
LEMMA HeldUntilTold ==
    ASSUME Counting, [Next]_vars, ~SetTime
    PROVE  Held
  <1> USE DEF Held, masterVars, trackerVars, countVars, periodVars, posVars, timeVars
  <1>1. ASSUME NEW tempo \in Tempi, NEW signature, GetMaster(tempo, signature) \/ GetTracker(tempo, signature)
        PROVE  Held
    <2>1. newPos' <=> newPos \/ ~cachedMaster
      BY <1>1, Zenon DEF GetMaster, GetTracker, GetTransportMaster
    <2> QED
      BY <1>1, <2>1 DEF GetMaster, GetTracker, GetTransportMaster
  <1>2. ASSUME NEW signature \in Signatures, SetTimeSignature(signature) PROVE Held
    <2>1. signed' <=> signed \/ pos # Start
      BY <1>2, Zenon DEF SetTimeSignature
    <2> QED
      BY <1>2, <2>1 DEF SetTimeSignature
  <1>3. CASE OnCount \/ CountIn \/ StopOnSilence
    BY <1>3 DEF OnCount, CountIn, StopOnSilence
  <1>4. CASE CompleteMaster \/ CompleteTracker \/ Rerun
    BY <1>4 DEF CompleteMaster, CompleteTracker, Rerun
  <1>5. CASE TakeOut \/ StartTransport \/ Abandon \/ NoCount
    BY <1>5 DEF TakeOut, StartTransport, Abandon, NoCount
  <1>6. CASE Count \/ Dispatch \/ Elsewhere
    BY <1>6 DEF Count, Dispatch, Elsewhere
  <1>7. ASSUME NEW note \in BOOLEAN, Rolling(note) PROVE Held
    BY <1>7 DEF Rolling, StopIfSilent
  <1>8. CASE UserStart \/ UserLocate
    BY <1>8 DEF UserStart, UserLocate
  <1>9. CASE UserStop
    BY <1>9 DEF UserStop
  <1>10. CASE Down \/ UNCHANGED vars
    BY <1>10 DEF Down, vars
  <1> QED
    BY <1>1, <1>2, <1>3, <1>4, <1>5, <1>6, <1>7, <1>8, <1>9, <1>10 DEF Next, Script, Period, User

\* setTime plays on, moves to where JACK says, or leaves the position.
LEMMA SetTimeSound ==
    ASSUME Counting, PlaceInv, SetTime
    PROVE  /\ PlaceInv'
           /\ ~newPos => NotBefore(pos', pos)
  <1>1. beatsPerBar \in Signatures /\ bpm \in Nat \ {0} /\ beatsPerBar' = beatsPerBar
    BY TempoAssumption DEF Counting, TypeOK, SetTime, masterVars
  <1>2. (~signed' /\ ~newPos') => (~signed /\ ~newPos) \/ (cachedMaster /\ newPos)
    <2>1. (signed' <=> signed /\ ~(cachedMaster /\ newPos)) /\ (newPos' <=> newPos /\ ~cachedMaster)
      BY Zenon DEF SetTime
    <2> QED
      BY <2>1
  <1>3. CASE cachedMaster /\ newPos
    <2>1. PICK ticks \in (IF followed /\ ~rewound THEN 0..(beatsPerBar * TicksPerBeat) ELSE {0}) :
            pos' = Forced(NewPosition(ticks)).pos /\ lastTick' = Forced(NewPosition(ticks)).lastTick
      BY <1>3 DEF SetTime
    <2>2. ticks \in Nat
      <3>1. beatsPerBar * TicksPerBeat \in Nat
        BY <1>1, TempoAssumption
      <3> QED
        BY <3>1, <2>1
    <2>3. /\ Rounded(Forced(NewPosition(ticks)))
          /\ InBar(Forced(NewPosition(ticks)).pos, beatsPerBar)
      BY <1>1, <2>2, NewPositionSound, ForcedSound
    <2> QED
      BY <1>1, <1>3, <2>1, <2>3 DEF PlaceInv, Now, Rounded
  <1>4. CASE ~(cachedMaster /\ newPos) /\ cachedMaster /\ rolling /\ followed /\ pos.bar <= MaxBar
    <2>1. pos' = Forced(Advanced).pos /\ lastTick' = Forced(Advanced).lastTick
      BY <1>4 DEF SetTime
    <2>2. /\ Rounded(Advanced) /\ Further(Advanced, pos)
          /\ InBar(pos, beatsPerBar) => InBar(Advanced.pos, beatsPerBar)
          /\ Advanced = [pos |-> Advanced.pos, lastTick |-> Advanced.lastTick]
      BY <1>1, AdvancedSound
    <2>3. /\ Rounded(Forced(Advanced)) /\ Further(Forced(Advanced), Advanced.pos)
          /\ InBar(Advanced.pos, beatsPerBar) => InBar(Forced(Advanced).pos, beatsPerBar)
      BY <1>1, <2>2, ForcedSound
    <2>4. NotBefore(pos', pos)
      BY <2>1, <2>2, <2>3, NotBeforeTransitive DEF Further, Rounded, PlaceInv, Now
    <2>5. Rounded(Now')
      BY <2>1, <2>3 DEF Rounded, Now
    <2>6. InBar(pos, beatsPerBar) => InBar(pos', beatsPerBar')
      BY <1>1, <2>1, <2>2, <2>3
    <2> QED
      BY <1>2, <1>4, <2>4, <2>5, <2>6 DEF PlaceInv
  <1>5. CASE ~(cachedMaster /\ newPos) /\ ~(cachedMaster /\ rolling /\ followed /\ pos.bar <= MaxBar)
    <2>1. pos' = pos /\ lastTick' = lastTick
      BY <1>5 DEF SetTime
    <2>2. NotBefore(pos, pos)
      BY TempoAssumption DEF PlaceInv, Rounded, Now, Place, NotBefore
    <2> QED
      BY <1>1, <1>2, <1>5, <2>1, <2>2 DEF PlaceInv, Now
  <1> QED
    BY <1>3, <1>4, <1>5

LEMMA PlaceStep == Counting /\ PlaceInv /\ [Next]_vars => PlaceInv'
  <1> SUFFICES ASSUME Counting, PlaceInv, [Next]_vars PROVE PlaceInv'
    OBVIOUS
  <1>1. beatsPerBar \in Signatures
    BY DEF Counting, TypeOK
  <1>2. CASE SetTime
    BY <1>2, SetTimeSound
  <1>3. CASE Held
    <2>1. Rounded(Now')
      BY <1>3 DEF Held, PlaceInv, Now
    <2>2. ~signed' /\ ~newPos' => InBar(pos', beatsPerBar')
      BY <1>3, StartSound DEF Held, PlaceInv
    <2> QED
      BY <2>1, <2>2 DEF PlaceInv
  <1> QED
    BY <1>2, <1>3, HeldUntilTold

\* Forced beats, tempo changes and moves by the user leave bar, beat, tick and
\* bar_start_tick in agreement with each other and with the unrounded tick, for every
\* signature and every tempo: Master::setTime and forceBeat.
THEOREM SoundPosition == Spec => []PositionSound
  <1>1. PlaceInv => PositionSound
    BY DEF PlaceInv, PositionSound, Rounded, Now, InBar, Place
  <1> QED
    BY CountingInit, CountingStep, PlaceInit, PlaceStep, <1>1, PTL DEF Spec

\* No forced beat and no change of tempo or signature takes a rolling transport back:
\* forceBeat only moves on, and lround never takes away a tick that was told.
THEOREM TransportForward == Spec => NeverBack
  <1>1. ASSUME Counting, PlaceInv, [Next]_vars, rolling, rolling', ~newPos PROVE NotBefore(pos', pos)
    <2>1. CASE SetTime
      BY <1>1, <2>1, SetTimeSound
    <2>2. CASE Held
      BY <1>1, <2>2, TempoAssumption DEF Held, PlaceInv, Rounded, Now, Place, NotBefore
    <2> QED
      BY <1>1, <2>1, <2>2, HeldUntilTold
  <1>2. Counting /\ PlaceInv /\ [Next]_vars
          => [rolling /\ rolling' /\ ~newPos => NotBefore(pos', pos)]_vars
    BY <1>1
  <1> QED
    BY CountingInit, CountingStep, PlaceInit, PlaceStep, <1>2, PTL DEF Spec, NeverBack

================================================================================
