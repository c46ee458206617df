------------------------------ MODULE MCLifecycle ------------------------------
(***************************************************************************)
(* Instances of Lifecycle for TLC.                                         *)
(***************************************************************************)
EXTENDS Lifecycle, TLC

CONSTANTS k1, k2, p1, p2, o1

MCKeys == {k1, k2}
MCPluginKeys == {k1}
MCOscKeys == {k2}
MCProcs == {p1, p2, o1}
MCFewProcs == {p1, o1}
MCPorts == {p1}
MCOutputs == {o1}
MCSymmetry == Permutations({p1, p2})
================================================================================
