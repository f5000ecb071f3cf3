--------------------------- MODULE MCVpnExtension ---------------------------
(* Small instances of the extension process for TLC. *)
EXTENDS VpnExtensionPromise, TLC

CONSTANTS v1, v2

Instances == Permutations({v1, v2})
=============================================================================
