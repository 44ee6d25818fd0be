------------------------------ MODULE MCSendQueue ------------------------------
(* Messages on two streams: one of three chunks, one of two and one that is *)
(* too long on the first, an empty one and a DCEP message on the second.    *)
EXTENDS SendQueue

CONSTANTS long, short, tooLong, empty, open

MCStreamOf == [m \in Messages |-> IF m \in {open, empty} THEN 2 ELSE 1]
MCSize ==
  [m \in Messages |-> CASE m = long -> 5 [] m = short -> 3 [] m = tooLong -> 6
                       [] m = empty -> 0 [] m = open -> 1]
=============================================================================
