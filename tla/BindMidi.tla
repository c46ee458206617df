------------------------------ MODULE BindMidi ------------------------------
(***************************************************************************)
(* The native functions of the Midi package, as bindmidi.cpp declares and  *)
(* registers them.                                                         *)
(***************************************************************************)
EXTENDS BindTypes, BindTransport

getMidiNote == Reader({"Midi.Note"}, FALSE)
getMidiPattern == Reader({"Midi.Pattern"}, FALSE)

MidiABCReaderRelease == Deletes("Midi.ABCReader")
MidiDrumTabReaderRelease == Deletes("Midi.DrumTabReader")
MidiNoteRelease == Deletes("Midi.Note")
MidiNoteOnRelease == Deletes("Midi.NoteOn")
MidiNoteOffRelease == Deletes("Midi.NoteOff")
MidiControlRelease == Deletes("Midi.Control")
MidiMMLReaderRelease == Deletes("Midi.MMLReader")
MidiPatternRelease == Deletes("Midi.Pattern")
MidiTuneRelease == Deletes("Midi.Tune")
MidiPitchBendRelease == Deletes("Midi.PitchBend")
MidiProgramChangeRelease == Deletes("Midi.ProgramChange")

Midiabc == Static(Instance("Midi.Pattern", MidiPatternRelease), <<Plain(1, Strings(4))>>)

MidiABCReaderCtor == Ctor(MidiABCReaderRelease, <<Plain(0, << >>)>>)
MidiABCReaderClone == Copies(MidiABCReaderRelease)
MidiABCReaderread ==
    Method(Instance("Midi.Pattern", MidiPatternRelease), <<Plain(1, Strings(5))>>)
MidiABCReaderreadTune ==
    Method(Instance("Midi.Tune", MidiTuneRelease), <<Plain(1, <<sq_getstring>>)>>)
MidiABCReaderObject ==
    [typetag |-> "Midi.ABCReader", constructor |-> MidiABCReaderCtor,
     cloned |-> MidiABCReaderClone,
     methods |-> [read |-> MidiABCReaderread, readTune |-> MidiABCReaderreadTune]]

MidiDrumTabReaderCtor == Ctor(MidiDrumTabReaderRelease, <<Plain(0, << >>)>>)
MidiDrumTabReaderClone == Copies(MidiDrumTabReaderRelease)
MidiDrumTabReaderread ==
    Method(Instance("Midi.Pattern", MidiPatternRelease), <<Plain(1, <<sq_getstring>>)>>)
MidiDrumTabReadervelocity ==
    Method(Nothing, <<Plain(3, <<sq_getinteger, sq_getstring, sq_getinteger>>)>>)
MidiDrumTabReaderObject ==
    [typetag |-> "Midi.DrumTabReader", constructor |-> MidiDrumTabReaderCtor,
     cloned |-> MidiDrumTabReaderClone,
     methods |-> [read |-> MidiDrumTabReaderread, velocity |-> MidiDrumTabReadervelocity]]

MidiSystemInCtor == Ctor(NoHook, <<Plain(1, Strings(2))>>)
MidiSystemInmidiOutput ==
    Method(Instance("Midi.Output", NoHook), <<Plain(1, <<sq_getinteger>>)>>)
MidiSystemInonControl == Method(Nothing, <<Plain(1, <<OT_CLOSURE>>)>>)
MidiSystemInonNoteOff == Method(Nothing, <<Plain(1, <<OT_CLOSURE>>)>>)
MidiSystemInonNoteOn == Method(Nothing, <<Plain(1, <<OT_CLOSURE>>)>>)
MidiSystemInObject ==
    [typetag |-> "Midi.SystemIn", constructor |-> MidiSystemInCtor,
     cloned |-> unclonable,
     methods |-> [midiOutput |-> MidiSystemInmidiOutput,
                   onControl |-> MidiSystemInonControl,
                   onNoteOff |-> MidiSystemInonNoteOff, onNoteOn |-> MidiSystemInonNoteOn]]

MidiNoteCtor == Ctor(MidiNoteRelease, <<Plain(4, Integers(4))>>)
MidiNoteClone == Copies(MidiNoteRelease)
MidiNotepitch == Method(Value, <<Plain(0, << >>)>>)
MidiNotetranspose == Method(Nothing, <<Plain(1, <<sq_getinteger>>)>>)
MidiNotevelocity == Method(Value, <<Plain(0, <<sq_getinteger>>)>>)
MidiNoteObject ==
    [typetag |-> "Midi.Note", constructor |-> MidiNoteCtor,
     cloned |-> MidiNoteClone,
     methods |-> [pitch |-> MidiNotepitch, transpose |-> MidiNotetranspose,
                   velocity |-> MidiNotevelocity]]

MidiNoteOnPush == Pushes("Midi.NoteOn", MidiNoteOnRelease)
MidiNoteOnCtor == Ctor(MidiNoteOnRelease, <<Plain(2, Integers(2))>>)
MidiNoteOnClone == Copies(MidiNoteOnRelease)
MidiNoteOnpitch == Method(Value, <<Plain(0, << >>)>>)
MidiNoteOnvelocity == Method(Value, <<Plain(0, << >>)>>)
MidiNoteOnObject ==
    [typetag |-> "Midi.NoteOn", constructor |-> MidiNoteOnCtor,
     cloned |-> MidiNoteOnClone,
     methods |-> [pitch |-> MidiNoteOnpitch, velocity |-> MidiNoteOnvelocity]]

MidiNoteOffPush == Pushes("Midi.NoteOff", MidiNoteOffRelease)
MidiNoteOffCtor == Ctor(MidiNoteOffRelease, <<Plain(1, Integers(2))>>)
MidiNoteOffClone == Copies(MidiNoteOffRelease)
MidiNoteOffpitch == Method(Value, <<Plain(0, << >>)>>)
MidiNoteOffvelocity == Method(Value, <<Plain(0, << >>)>>)
MidiNoteOffObject ==
    [typetag |-> "Midi.NoteOff", constructor |-> MidiNoteOffCtor,
     cloned |-> MidiNoteOffClone,
     methods |-> [pitch |-> MidiNoteOffpitch, velocity |-> MidiNoteOffvelocity]]

MidiControlPush == Pushes("Midi.Control", MidiControlRelease)
MidiControlCtor == Ctor(MidiControlRelease, <<Plain(2, Integers(2))>>)
MidiControlClone == Copies(MidiControlRelease)
MidiControlcontroller == Method(Value, <<Plain(0, << >>)>>)
MidiControlvalue == Method(Value, <<Plain(0, << >>)>>)
MidiControlObject ==
    [typetag |-> "Midi.Control", constructor |-> MidiControlCtor,
     cloned |-> MidiControlClone,
     methods |-> [controller |-> MidiControlcontroller, value |-> MidiControlvalue]]

MidiMMLReaderCtor == Ctor(MidiMMLReaderRelease, <<Plain(0, << >>)>>)
MidiMMLReaderClone == Copies(MidiMMLReaderRelease)
MidiMMLReaderread ==
    Method(Instance("Midi.Pattern", MidiPatternRelease), <<Plain(1, <<sq_getstring>>)>>)
MidiMMLReaderObject ==
    [typetag |-> "Midi.MMLReader", constructor |-> MidiMMLReaderCtor,
     cloned |-> MidiMMLReaderClone,
     methods |-> [read |-> MidiMMLReaderread]]

MidiOutputCtor == Uninstantiable
MidiOutputonControl == Method(Nothing, <<Plain(1, <<OT_CLOSURE>>)>>)
MidiOutputonNoteOff == Method(Nothing, <<Plain(1, <<OT_CLOSURE>>)>>)
MidiOutputonNoteOn == Method(Nothing, <<Plain(1, <<OT_CLOSURE>>)>>)
MidiOutputObject ==
    [typetag |-> "Midi.Output", constructor |-> MidiOutputCtor,
     cloned |-> unclonable,
     methods |-> [onControl |-> MidiOutputonControl, onNoteOff |-> MidiOutputonNoteOff,
                   onNoteOn |-> MidiOutputonNoteOn]]

MidiPatternCtor == Ctor(MidiPatternRelease, <<Plain(0, << >>)>>)
MidiPatternClone == Copies(MidiPatternRelease)
MidiPatternadd == Method(Nothing, <<Plain(2, <<getMidiNote>> \o Integers(3))>>)
MidiPatternnote == Method(Instance("Midi.Note", NoHook), <<Plain(1, <<sq_getinteger>>)>>)
MidiPatternprint == Method(Nothing, <<Plain(0, << >>)>>)
MidiPatternsize == Method(Value, <<Plain(0, << >>)>>)
MidiPatterntranspose == Method(Nothing, <<Plain(1, <<sq_getinteger>>)>>)
MidiPatternObject ==
    [typetag |-> "Midi.Pattern", constructor |-> MidiPatternCtor,
     cloned |-> MidiPatternClone,
     methods |-> [add |-> MidiPatternadd, note |-> MidiPatternnote,
                   print |-> MidiPatternprint, size |-> MidiPatternsize,
                   transpose |-> MidiPatterntranspose]]

MidiTuneCtor == Ctor(MidiTuneRelease, <<Plain(1, <<sq_getinteger>>)>>)
MidiTuneClone == Copies(MidiTuneRelease)
MidiTunetimeSignature ==
    Method(Instance("Transport.TimeSignature", TransportTimeSignatureRelease), <<Plain(0, << >>)>>)
MidiTunetitle == Method(Value, <<Plain(0, << >>)>>)
MidiTunetrack == Method(Instance("Midi.Pattern", NoHook), <<Plain(1, <<sq_getinteger>>)>>)
MidiTunetrackCount == Method(Value, <<Plain(0, << >>)>>)
MidiTuneObject ==
    [typetag |-> "Midi.Tune", constructor |-> MidiTuneCtor,
     cloned |-> MidiTuneClone,
     methods |-> [timeSignature |-> MidiTunetimeSignature, title |-> MidiTunetitle,
                   track |-> MidiTunetrack, trackCount |-> MidiTunetrackCount]]

MidiSystemOutCtor == Ctor(NoHook, <<Plain(1, Strings(2))>>)
MidiSystemOutmidiChannel == Method(Value, <<Plain(0, <<sq_getinteger>>)>>)
MidiSystemOutschedule_note == On(1, getMidiNote, 2, <<getMidiNote>> \o Integers(4))
MidiSystemOutschedule_pattern ==
    On(1, getMidiPattern, 2, <<getMidiPattern>> \o Integers(4))
MidiSystemOutschedule_message ==
    On(1, getMidiMessage, 2, <<getMidiMessage>> \o Integers(4))
MidiSystemOutschedule ==
    Method(Nothing, <<MidiSystemOutschedule_note,
                      MidiSystemOutschedule_pattern,
                      MidiSystemOutschedule_message>>)
MidiSystemOutObject ==
    [typetag |-> "Midi.SystemOut", constructor |-> MidiSystemOutCtor,
     cloned |-> unclonable,
     methods |-> [midiChannel |-> MidiSystemOutmidiChannel,
                   schedule |-> MidiSystemOutschedule]]

MidiPitchBendCtor == Ctor(MidiPitchBendRelease, <<Plain(1, <<sq_getinteger>>)>>)
MidiPitchBendClone == Copies(MidiPitchBendRelease)
MidiPitchBendObject ==
    [typetag |-> "Midi.PitchBend", constructor |-> MidiPitchBendCtor,
     cloned |-> MidiPitchBendClone,
     methods |-> << >>]

MidiProgramChangeCtor == Ctor(MidiProgramChangeRelease, <<Plain(1, <<sq_getinteger>>)>>)
MidiProgramChangeClone == Copies(MidiProgramChangeRelease)
MidiProgramChangeObject ==
    [typetag |-> "Midi.ProgramChange", constructor |-> MidiProgramChangeCtor,
     cloned |-> MidiProgramChangeClone,
     methods |-> << >>]

MidiBeatTrackerCtor == Ctor(NoHook, <<Plain(1, <<sq_getfloat>> \o Integers(2))>>)
MidiBeatTrackerconnectMidi == Method(Nothing, <<Plain(1, <<getMidiSource>>)>>)
MidiBeatTrackercountIn == Method(Nothing, <<Plain(1, <<sq_getinteger>>)>>)
MidiBeatTrackernoteWeight == Method(Nothing, <<Plain(2, <<sq_getinteger, sq_getfloat>>)>>)
MidiBeatTrackeronBeat == Method(Nothing, <<Plain(1, <<OT_CLOSURE>>)>>)
MidiBeatTrackeronCount == Method(Nothing, <<Plain(1, <<OT_CLOSURE>>)>>)
MidiBeatTrackerstopOnSilence == Method(Nothing, <<Plain(1, <<sq_getinteger>>)>>)
MidiBeatTrackerObject ==
    [typetag |-> "Midi.BeatTracker", constructor |-> MidiBeatTrackerCtor,
     cloned |-> unclonable,
     methods |-> [connectMidi |-> MidiBeatTrackerconnectMidi,
                   countIn |-> MidiBeatTrackercountIn,
                   noteWeight |-> MidiBeatTrackernoteWeight,
                   onBeat |-> MidiBeatTrackeronBeat, onCount |-> MidiBeatTrackeronCount,
                   stopOnSilence |-> MidiBeatTrackerstopOnSilence]]

bindMidi ==
    [statics |-> [abc |-> Midiabc],
     classes |-> <<MidiABCReaderObject, MidiDrumTabReaderObject, MidiSystemInObject,
                  MidiNoteObject, MidiNoteOnObject, MidiNoteOffObject, MidiControlObject,
                  MidiMMLReaderObject, MidiOutputObject, MidiPatternObject,
                  MidiTuneObject, MidiSystemOutObject, MidiPitchBendObject,
                  MidiProgramChangeObject, MidiBeatTrackerObject>>]
=============================================================================
