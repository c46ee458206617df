------------------------------ MODULE BindTypes ------------------------------
(***************************************************************************)
(* The readers of arguments that may be instances of several classes, as   *)
(* bindtypes.cpp defines them.  They try one typetag after the other and   *)
(* return 0 in the end.                                                    *)
(***************************************************************************)
EXTENDS BindCommon

getAudioSource ==
    Reader({"Audio.Mixer", "Audio.SystemIn", "Audio.StereoIn", "Lv2.Plugin"}, TRUE)
getMidiMessage ==
    Reader({"Midi.NoteOn", "Midi.NoteOff", "Midi.Control", "Midi.PitchBend",
            "Midi.ProgramChange"}, TRUE)
getMidiSource == Reader({"Lv2.Plugin", "Midi.SystemIn"}, TRUE)
=============================================================================
