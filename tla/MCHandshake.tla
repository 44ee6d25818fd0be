----------------------------- MODULE MCHandshake -----------------------------
(* An instance of Handshake for TLC.                                        *)
EXTENDS HandshakeInvariants, TLC

MCAsked ==
  {[unordered |-> FALSE, policy |-> "reliable", value |-> 1],
   [unordered |-> TRUE,  policy |-> "rtx",      value |-> 1]}
=============================================================================
