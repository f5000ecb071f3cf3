--------------------------- MODULE MCXrayLibrary ---------------------------
(* Small instances of the threads that load libxray.so. *)
EXTENDS XrayLibrary, TLC

CONSTANTS w1, w2, n1, n2, p1, p2

SameWorkers == Permutations({w1, w2})

Same == SameWorkers \cup Permutations({n1, n2}) \cup Permutations({p1, p2})
============================================================================
