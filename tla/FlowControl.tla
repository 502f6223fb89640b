---------------------------- MODULE FlowControl ----------------------------
(***************************************************************************)
(* High and low watermark hysteresis over the cells a producer has         *)
(* committed and its consumer has not freed: nwipc-flow-control.           *)
(***************************************************************************)
EXTENDS RingCore

CONSTANTS Low, High

\* FlowControl::new
ValidWatermarks == Low < High /\ High <= Capacity

ASSUME WatermarkAssumption == Low \in Nat /\ High \in Nat /\ ValidWatermarks

\* Mutant: a flag once set needs an occupancy strictly below the low mark.
FlowBelowLow(backpressured, buffered) ==
  IF backpressured THEN buffered >= Low ELSE buffered >= High

\* FlowControl::update: the flag after observing an occupancy.
Flow(backpressured, buffered) ==
  IF backpressured THEN buffered > Low ELSE buffered >= High

\* Mutant: the edge is reported strictly below the mark that clears the flag.
WritableBelowLow(backpressured, buffered) == backpressured /\ buffered < Low

\* The single edge an observation reports.
BecameWritable(backpressured, buffered) ==
  backpressured /\ ~Flow(backpressured, buffered)
=============================================================================
