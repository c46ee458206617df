--------------------------------- MODULE MCTempo ---------------------------------
(***************************************************************************)
(* Tempo for TLC.  A second has three frames and the script asks for one   *)
(* beat a second, so that counts come one frame early or in time and the   *)
(* tracker ends up with a different tempo than the script's.               *)
(***************************************************************************)
EXTENDS Tempo

================================================================================
