----------------------------- MODULE BindSystem -----------------------------
(***************************************************************************)
(* The native functions of the System package, as bindsystem.cpp declares  *)
(* and registers them.                                                     *)
(***************************************************************************)
EXTENDS BindCommon

Systemargument == Static(Value, <<Plain(1, <<sq_getinteger>>)>>)

bindSystem ==
    [statics |-> [argument |-> Systemargument],
     classes |-> <<>>]
=============================================================================
