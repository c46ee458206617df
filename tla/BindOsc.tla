------------------------------- MODULE BindOsc ------------------------------
(***************************************************************************)
(* The native functions of the Osc package, as bindosc.cpp declares and    *)
(* registers them.                                                         *)
(***************************************************************************)
EXTENDS BindCommon

getOscMessage == Reader({"Osc.Message"}, FALSE)

OscMessageRelease == Deletes("Osc.Message")

OscInputCtor == Ctor(NoHook, <<Plain(1, <<sq_getinteger, sq_getstring>>)>>)
OscInputonReceive == Method(Nothing, <<Plain(1, <<OT_CLOSURE>>)>>)
OscInputurl == Method(Value, <<Plain(0, << >>)>>)
OscInputObject ==
    [typetag |-> "Osc.Input", constructor |-> OscInputCtor,
     cloned |-> unclonable,
     methods |-> [onReceive |-> OscInputonReceive, url |-> OscInputurl]]

OscMessageCtor == Ctor(OscMessageRelease, <<Plain(1, <<sq_getstring>>)>>)
OscMessageClone == Copies(OscMessageRelease)
OscMessageadd_integer == On(1, OT_INTEGER, 1, <<sq_getinteger>>)
OscMessageadd_float == On(1, OT_FLOAT, 1, <<sq_getfloat>>)
OscMessageadd_string == On(1, OT_STRING, 1, <<sq_getstring>>)
OscMessageadd_bool == On(1, OT_BOOL, 1, <<sq_getbool>>)
OscMessageadd_null == On(1, OT_NULL, 1, <<OT_NULL>>)
OscMessageadd ==
    Method(Nothing, <<OscMessageadd_integer,
                      OscMessageadd_float,
                      OscMessageadd_string,
                      OscMessageadd_bool,
                      OscMessageadd_null>>)
OscMessagearg == Method(Value, <<Plain(1, <<sq_getinteger>>)>>)
OscMessageargs == Method(Value, <<Plain(0, << >>)>>)
OscMessagepath == Method(Value, <<Plain(0, << >>)>>)
OscMessageObject ==
    [typetag |-> "Osc.Message", constructor |-> OscMessageCtor,
     cloned |-> OscMessageClone,
     methods |-> [add |-> OscMessageadd, arg |-> OscMessagearg, args |-> OscMessageargs,
                   path |-> OscMessagepath]]

OscOutputCtor == Ctor(NoHook, <<Plain(2, <<sq_getstring, sq_getinteger>>)>>)
OscOutputschedule == Method(Nothing, <<Plain(2, <<getOscMessage>> \o Integers(3))>>)
OscOutputsend == Method(Nothing, <<Plain(1, <<getOscMessage>>)>>)
OscOutputObject ==
    [typetag |-> "Osc.Output", constructor |-> OscOutputCtor,
     cloned |-> unclonable,
     methods |-> [schedule |-> OscOutputschedule, send |-> OscOutputsend]]

bindOsc ==
    [statics |-> << >>,
     classes |-> <<OscInputObject, OscMessageObject, OscOutputObject>>]
=============================================================================
