------------------------------- MODULE MCRouting -------------------------------
(***************************************************************************)
(* Instances of Routing for TLC: plugins and output ports have one input,  *)
(* mixers two.                                                             *)
(***************************************************************************)
EXTENDS Routing, TLC

CONSTANTS in1, plugin1, plugin2, mixer1, out1

MCPorts == {in1}
MCNoPorts == {}
MCPlugins == {plugin1}
MCTwoPlugins == {plugin1, plugin2}
MCMixers == {mixer1}
MCSinks == {out1}
MCInputCount == [n \in Readers |-> IF n \in Mixers THEN 2 ELSE 1]
================================================================================
