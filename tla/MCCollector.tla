------------------------------ MODULE MCCollector -------------------------------
(* Collector for TLC: three events at two positions, an incoming queue that fills. *)
EXTENDS Collector, TLC

CONSTANTS e1, e2, e3

MCEvents == {e1, e2, e3}
MCPositions == 0..1

================================================================================
