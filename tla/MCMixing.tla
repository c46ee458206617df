-------------------------------- MODULE MCMixing --------------------------------
(* Mixing for TLC: one gain, two frames, up to two MIDI events in a period. *)
EXTENDS Mixing

CONSTANTS c1, c2, g

MCConns == {c1, c2}
MidiEvent(at) == [frame |-> at, cc |-> 1, value |-> 127]
MCInputs == {<<>>, <<MidiEvent(1)>>, <<MidiEvent(0), MidiEvent(0)>>, <<MidiEvent(0), MidiEvent(1)>>}
MCOffsets == {-1, 1, 2}

================================================================================
