------------------------- MODULE MCRedirectTransport -------------------------
(* Two transports and three descriptors, one of them the standard input.    *)
EXTENDS RedirectTransport, TLC

CONSTANTS t1, t2

Symmetry == Permutations(Transports)
=============================================================================
