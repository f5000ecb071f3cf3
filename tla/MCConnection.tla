---------------------------- MODULE MCConnection ----------------------------
(* Small instances of the connection pipelines for TLC. *)
EXTENDS Connection, TLC

CONSTANTS c1, c2

Configs == Permutations({c1, c2})
=============================================================================
