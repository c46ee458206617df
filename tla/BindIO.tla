------------------------------- MODULE BindIO -------------------------------
(***************************************************************************)
(* The native functions of the IO package, as bindio.cpp declares and      *)
(* registers them.                                                         *)
(***************************************************************************)
EXTENDS BindCommon

IOFileRelease == Deletes("IO.File")

IOFileCtor == Ctor(IOFileRelease, <<Plain(1, <<sq_getstring>>)>>)
IOFileClone == Copies(IOFileRelease)
IOFileexists == Method(Value, <<Plain(0, << >>)>>)
IOFileisFolder == Method(Value, <<Plain(0, << >>)>>)
IOFilereadAll == Method(Value, <<Plain(0, << >>)>>)
IOFilesize == Method(Value, <<Plain(0, << >>)>>)
IOFileObject ==
    [typetag |-> "IO.File", constructor |-> IOFileCtor,
     cloned |-> IOFileClone,
     methods |-> [exists |-> IOFileexists, isFolder |-> IOFileisFolder,
                   readAll |-> IOFilereadAll, size |-> IOFilesize]]

bindIO ==
    [statics |-> << >>,
     classes |-> <<IOFileObject>>]
=============================================================================
