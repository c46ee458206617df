------------------------------ MODULE BindAudio -----------------------------
(***************************************************************************)
(* The native functions of the Audio package, as bindaudio.cpp declares and*)
(* registers them.                                                         *)
(***************************************************************************)
EXTENDS BindTypes

getAudioOutput == Reader({"Audio.Output"}, FALSE)

AudioStereoOutRelease == Deletes("Audio.StereoOut")

AudioMixerCtor == Ctor(NoHook, <<Plain(2, Integers(2))>>)
AudioMixeraddGainController ==
    Method(Nothing, <<Plain(4, <<getMidiSource>> \o Integers(3))>>)
AudioMixerconnect_default == Short(2, 1, <<getAudioSource>>)
AudioMixerconnect_float == On(2, OT_FLOAT, 1, <<getAudioSource, sq_getfloat>>)
AudioMixerconnect_array == On(2, OT_ARRAY, 1, <<getAudioSource, OT_ARRAY>>)
AudioMixerconnect ==
    Method(Nothing, <<AudioMixerconnect_default,
                      AudioMixerconnect_float,
                      AudioMixerconnect_array>>)
AudioMixeroutput ==
    Method(Instance("Audio.Output", NoHook), <<Plain(1, <<sq_getinteger>>)>>)
AudioMixerscheduleGain ==
    Method(Nothing, <<Plain(6, Integers(2) \o <<sq_getfloat>> \o Integers(3))>>)
AudioMixerObject ==
    [typetag |-> "Audio.Mixer", constructor |-> AudioMixerCtor,
     cloned |-> unclonable,
     methods |-> [addGainController |-> AudioMixeraddGainController,
                   connect |-> AudioMixerconnect, output |-> AudioMixeroutput,
                   scheduleGain |-> AudioMixerscheduleGain]]

AudioOnsetDetectorCtor == Ctor(NoHook, <<Plain(0, << >>)>>)
AudioOnsetDetectorconnect ==
    Method(Nothing, <<On(1, getAudioSource, 1, <<getAudioSource>>),
                      On(1, getAudioOutput, 1, <<getAudioOutput>>)>>)
AudioOnsetDetectoronOnset == Method(Nothing, <<Plain(1, <<OT_CLOSURE>>)>>)
AudioOnsetDetectorthreshold == Method(Value, <<Plain(0, <<sq_getfloat>>)>>)
AudioOnsetDetectorObject ==
    [typetag |-> "Audio.OnsetDetector", constructor |-> AudioOnsetDetectorCtor,
     cloned |-> unclonable,
     methods |-> [connect |-> AudioOnsetDetectorconnect,
                   onOnset |-> AudioOnsetDetectoronOnset,
                   threshold |-> AudioOnsetDetectorthreshold]]

AudioOutputCtor == Uninstantiable
AudioOutputObject ==
    [typetag |-> "Audio.Output", constructor |-> AudioOutputCtor,
     cloned |-> unclonable,
     methods |-> << >>]

AudioSystemOutCtor == Ctor(NoHook, <<Plain(1, Strings(2))>>)
AudioSystemOutconnect ==
    Method(Nothing, <<On(1, getAudioSource, 1, <<getAudioSource>>),
                      On(1, getAudioOutput, 1, <<getAudioOutput>>)>>)
AudioSystemOutObject ==
    [typetag |-> "Audio.SystemOut", constructor |-> AudioSystemOutCtor,
     cloned |-> unclonable,
     methods |-> [connect |-> AudioSystemOutconnect]]

AudioSystemInCtor == Ctor(NoHook, <<Plain(1, Strings(2))>>)
AudioSystemInoutput ==
    Method(Instance("Audio.Output", NoHook), <<Plain(1, <<sq_getinteger>>)>>)
AudioSystemInObject ==
    [typetag |-> "Audio.SystemIn", constructor |-> AudioSystemInCtor,
     cloned |-> unclonable,
     methods |-> [output |-> AudioSystemInoutput]]

AudioStereoInCtor == Ctor(NoHook, <<Plain(3, Strings(3))>>)
AudioStereoInoutput ==
    Method(Instance("Audio.Output", NoHook), <<Plain(1, <<sq_getinteger>>)>>)
AudioStereoInObject ==
    [typetag |-> "Audio.StereoIn", constructor |-> AudioStereoInCtor,
     cloned |-> unclonable,
     methods |-> [output |-> AudioStereoInoutput]]

AudioStereoOutCtor == Ctor(AudioStereoOutRelease, <<Plain(3, Strings(3))>>)
AudioStereoOutClone == Copies(AudioStereoOutRelease)
AudioStereoOutconnect ==
    Method(Nothing, <<On(1, getAudioSource, 1, <<getAudioSource>>),
                      On(1, getAudioOutput, 1, <<getAudioOutput>>)>>)
AudioStereoOutObject ==
    [typetag |-> "Audio.StereoOut", constructor |-> AudioStereoOutCtor,
     cloned |-> AudioStereoOutClone,
     methods |-> [connect |-> AudioStereoOutconnect]]

AudioBeatTrackerCtor == Ctor(NoHook, <<Plain(1, <<sq_getfloat>>)>>)
AudioBeatTrackerconnect ==
    Method(Nothing, <<On(1, getAudioSource, 1, <<getAudioSource>>),
                      On(1, getAudioOutput, 1, <<getAudioOutput>>)>>)
AudioBeatTrackerObject ==
    [typetag |-> "Audio.BeatTracker", constructor |-> AudioBeatTrackerCtor,
     cloned |-> unclonable,
     methods |-> [connect |-> AudioBeatTrackerconnect]]

bindAudio ==
    [statics |-> << >>,
     classes |-> <<AudioMixerObject, AudioOnsetDetectorObject, AudioOutputObject,
                  AudioSystemOutObject, AudioSystemInObject, AudioStereoInObject,
                  AudioStereoOutObject, AudioBeatTrackerObject>>]
=============================================================================
