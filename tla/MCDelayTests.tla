--------------------------- MODULE MCDelayTests ---------------------------
(* Small instances of the delay tests for TLC. *)
EXTENDS DelayTests

CONSTANTS n1, n2, w1, w2, p0, p1, p2

MCTargets == <<n1, n2>>
OneTarget == <<n1>>
MCBatchPort == <<p1, p2>>
============================================================================
