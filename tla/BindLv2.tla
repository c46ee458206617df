------------------------------- MODULE BindLv2 ------------------------------
(***************************************************************************)
(* The native functions of the Lv2 package, as bindlv2.cpp declares and    *)
(* registers them.                                                         *)
(***************************************************************************)
EXTENDS BindMidi

getLv2State == Reader({"Lv2.State"}, FALSE)

Lv2StateRelease == Deletes("Lv2.State")

Lv2PluginCtor ==
    Ctor(NoHook, <<Short(2, 1, <<sq_getstring>>),
                   On(2, OT_STRING, 1, Strings(2)),
                   On(2, getLv2State, 1, <<sq_getstring, getLv2State>>)>>)
Lv2PluginaddController ==
    Method(Nothing, <<Plain(3, <<getMidiSource, sq_getinteger, sq_getstring>> \o Integers(2))>>)
Lv2Pluginconnect == Method(Nothing, <<Plain(1, <<getAudioSource>>)>>)
Lv2PluginconnectMidi == Method(Nothing, <<Plain(1, <<getMidiSource>>)>>)
Lv2PluginmidiChannel == Method(Value, <<Plain(0, <<sq_getinteger>>)>>)
Lv2PluginmidiOutput ==
    Method(Instance("Midi.Output", NoHook), <<Plain(1, <<sq_getinteger>>)>>)
Lv2PluginonControl == Method(Nothing, <<Plain(1, <<OT_CLOSURE>>)>>)
Lv2PluginonNoteOff == Method(Nothing, <<Plain(1, <<OT_CLOSURE>>)>>)
Lv2PluginonNoteOn == Method(Nothing, <<Plain(1, <<OT_CLOSURE>>)>>)
Lv2Pluginoutput ==
    Method(Instance("Audio.Output", NoHook), <<Plain(1, <<sq_getinteger>>)>>)
Lv2Pluginschedule_note == On(1, getMidiNote, 2, <<getMidiNote>> \o Integers(4))
Lv2Pluginschedule_pattern == On(1, getMidiPattern, 2, <<getMidiPattern>> \o Integers(4))
Lv2Pluginschedule_message == On(1, getMidiMessage, 2, <<getMidiMessage>> \o Integers(4))
Lv2Pluginschedule ==
    Method(Nothing, <<Lv2Pluginschedule_note,
                      Lv2Pluginschedule_pattern,
                      Lv2Pluginschedule_message>>)
Lv2PluginscheduleControl ==
    Method(Nothing, <<Plain(5, <<sq_getstring, sq_getfloat>> \o Integers(3))>>)
Lv2PluginsetControl == Method(Nothing, <<Plain(2, <<sq_getstring, sq_getfloat>>)>>)
Lv2PluginObject ==
    [typetag |-> "Lv2.Plugin", constructor |-> Lv2PluginCtor,
     cloned |-> unclonable,
     methods |-> [addController |-> Lv2PluginaddController, connect |-> Lv2Pluginconnect,
                   connectMidi |-> Lv2PluginconnectMidi,
                   midiChannel |-> Lv2PluginmidiChannel,
                   midiOutput |-> Lv2PluginmidiOutput, onControl |-> Lv2PluginonControl,
                   onNoteOff |-> Lv2PluginonNoteOff, onNoteOn |-> Lv2PluginonNoteOn,
                   output |-> Lv2Pluginoutput, schedule |-> Lv2Pluginschedule,
                   scheduleControl |-> Lv2PluginscheduleControl,
                   setControl |-> Lv2PluginsetControl]]

Lv2StateCtor ==
    Ctor(Lv2StateRelease, <<On(1, OT_TABLE, 1, <<OT_TABLE>>),
                            On(1, OT_STRING, 1, <<sq_getstring>>)>>)
Lv2StateClone == Copies(Lv2StateRelease)
Lv2StateObject ==
    [typetag |-> "Lv2.State", constructor |-> Lv2StateCtor,
     cloned |-> Lv2StateClone,
     methods |-> << >>]

bindLv2 ==
    [statics |-> << >>,
     classes |-> <<Lv2PluginObject, Lv2StateObject>>]
=============================================================================
