------------------------------- MODULE Bindings -------------------------------
(***************************************************************************)
(* Everything the bindings register with the virtual machine: the classes  *)
(* of all packages by their typetags, the static functions, and what is    *)
(* made for the parameter of a handler.                                    *)
(***************************************************************************)
EXTENDS BindAudio, BindIO, BindLv2, BindMath, BindOsc, BindSystem

Registered ==
    bindAudio.classes \o bindIO.classes \o bindLv2.classes \o bindMath.classes
        \o bindMidi.classes \o bindOsc.classes \o bindSystem.classes \o bindTransport.classes

RegisteredClass ==
    [t \in {Registered[i].typetag : i \in DOMAIN Registered} |->
        Registered[CHOOSE i \in DOMAIN Registered : Registered[i].typetag = t]]

RegisteredPackage ==
    [Midi |-> bindMidi.statics, System |-> bindSystem.statics, Transport |-> bindTransport.statics]

Parameters == {MidiNoteOnPush, MidiNoteOffPush, MidiControlPush, TransportPositionPush}
=============================================================================
