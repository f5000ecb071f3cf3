-------------------------- MODULE MCTrafficTotals --------------------------
(* Small instances of the traffic totals for TLC. *)
EXTENDS TrafficTotals
============================================================================
