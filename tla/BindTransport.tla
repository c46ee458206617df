---------------------------- MODULE BindTransport ---------------------------
(***************************************************************************)
(* The native functions of the Transport package, as bindtransport.cpp     *)
(* declares and registers them.                                            *)
(***************************************************************************)
EXTENDS BindCommon

getTransportTimeSignature == Reader({"Transport.TimeSignature"}, FALSE)

TransportPositionRelease == Deletes("Transport.Position")
TransportTimeSignatureRelease == Deletes("Transport.TimeSignature")

Transportschedule == Static(Nothing, <<Plain(2, <<OT_CLOSURE>> \o Integers(3))>>)
Transportstart == Static(Nothing, <<Plain(0, << >>)>>)
Transportstop == Static(Nothing, <<Plain(0, << >>)>>)

TransportMasterCtor == Ctor(NoHook, <<Plain(1, <<sq_getfloat>> \o Integers(2))>>)
TransportMastertimeSignature ==
    Method(Nothing, <<On(1, getTransportTimeSignature, 1, <<getTransportTimeSignature>>),
                      On(1, OT_INTEGER, 2, Integers(2))>>)
TransportMasterObject ==
    [typetag |-> "Transport.Master", constructor |-> TransportMasterCtor,
     cloned |-> unclonable,
     methods |-> [timeSignature |-> TransportMastertimeSignature]]

TransportPositionPush == Pushes("Transport.Position", TransportPositionRelease)
TransportPositionCtor == Ctor(TransportPositionRelease, <<Plain(3, Integers(3))>>)
TransportPositionClone == Copies(TransportPositionRelease)
TransportPositionbar == Method(Value, <<Plain(0, << >>)>>)
TransportPositiondiv == Method(Value, <<Plain(0, << >>)>>)
TransportPositionnum == Method(Value, <<Plain(0, << >>)>>)
TransportPositiontime == Method(Value, <<Plain(0, << >>)>>)
TransportPositionObject ==
    [typetag |-> "Transport.Position", constructor |-> TransportPositionCtor,
     cloned |-> TransportPositionClone,
     methods |-> [bar |-> TransportPositionbar, div |-> TransportPositiondiv,
                   num |-> TransportPositionnum, time |-> TransportPositiontime]]

TransportTimeSignatureCtor ==
    Ctor(TransportTimeSignatureRelease, <<Plain(2, Integers(2))>>)
TransportTimeSignatureClone == Copies(TransportTimeSignatureRelease)
TransportTimeSignaturedenominator == Method(Value, <<Plain(0, << >>)>>)
TransportTimeSignaturenumerator == Method(Value, <<Plain(0, << >>)>>)
TransportTimeSignatureObject ==
    [typetag |-> "Transport.TimeSignature", constructor |-> TransportTimeSignatureCtor,
     cloned |-> TransportTimeSignatureClone,
     methods |-> [denominator |-> TransportTimeSignaturedenominator,
                   numerator |-> TransportTimeSignaturenumerator]]

bindTransport ==
    [statics |-> [schedule |-> Transportschedule, start |-> Transportstart, stop |-> Transportstop],
     classes |-> <<TransportMasterObject, TransportPositionObject,
                  TransportTimeSignatureObject>>]
=============================================================================
