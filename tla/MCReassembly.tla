------------------------------ MODULE MCReassembly ------------------------------
(* What the peer sends in the model-checked instances.                       *)
EXTENDS Reassembly

P(ppid, msg, eor) == [ppid |-> ppid, msg |-> msg, eor |-> eor]

DcepIn(n) == [i \in 1 .. n |-> P("dcep", 0, i = n)]

(* Stream 1: opened in band, then a message made of two SCTP messages (the   *)
(* first in two pieces), an empty message and one in three pieces.           *)
(* Stream 2: messages of three, one and two pieces.  Any other stream: a     *)
(* message of two pieces.                                                    *)
Mixed ==
  [s \in Streams |->
    IF s = 1
      THEN DcepIn(2) \o
           <<P("fragment", 1, FALSE), P("fragment", 1, TRUE), P("data", 1, TRUE),
             P("empty", 2, TRUE),
             P("data", 3, FALSE), P("data", 3, FALSE), P("data", 3, TRUE)>>
    ELSE IF s = 2
      THEN <<P("data", 1, FALSE), P("data", 1, FALSE), P("data", 1, TRUE),
             P("data", 2, TRUE),
             P("data", 3, FALSE), P("data", 3, TRUE)>>
      ELSE <<P("data", 1, FALSE), P("data", 1, TRUE)>>]

(* The theorems assume this of the script, DcepApart for Mixed only.         *)
ASSUME ScriptsAssumption == WellFormed /\ Unfragmented

(* Every stream is opened by a DCEP message in two pieces.                   *)
LongOpens == [s \in Streams |-> DcepIn(2)]
=============================================================================
