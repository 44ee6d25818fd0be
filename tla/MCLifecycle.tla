----------------------------- MODULE MCLifecycle -----------------------------
(* Three places for transports, all of which may be alive or dying at once. *)
EXTENDS Lifecycle, TLC

CONSTANTS t1, t2, t3

Symmetry == Permutations(Transports)
=============================================================================
