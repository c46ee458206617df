------------------------------ MODULE BindMath ------------------------------
(***************************************************************************)
(* The native functions of the Math package, as bindmath.cpp declares and  *)
(* registers them.                                                         *)
(***************************************************************************)
EXTENDS BindCommon

MathRandomRelease == Deletes("Math.Random")

MathRandomCtor == Ctor(MathRandomRelease, <<Plain(0, << >>)>>)
MathRandomClone == Copies(MathRandomRelease)
MathRandominteger == Method(Value, <<Plain(1, <<sq_getinteger>>)>>)
MathRandomObject ==
    [typetag |-> "Math.Random", constructor |-> MathRandomCtor,
     cloned |-> MathRandomClone,
     methods |-> [integer |-> MathRandominteger]]

bindMath ==
    [statics |-> << >>,
     classes |-> <<MathRandomObject>>]
=============================================================================
