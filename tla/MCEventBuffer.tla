----------------------------- MODULE MCEventBuffer -----------------------------
(***************************************************************************)
(* An instance of EventBuffer for TLC.                                     *)
(***************************************************************************)
EXTENDS EventBuffer, TLC

MCSymmetry == Permutations(Events)
================================================================================
