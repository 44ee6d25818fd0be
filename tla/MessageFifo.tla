------------------------------ MODULE MessageFifo ------------------------------
(***************************************************************************)
(* What sending through the SCTP transport promises, without chunks, flags *)
(* or write events: messages leave one after the other, in the order in    *)
(* which they were handed over; a message that SCTP refuses for good is    *)
(* discarded when its turn comes and never appears in part as a message.   *)
(***************************************************************************)
EXTENDS Naturals, Sequences

CONSTANTS Messages

VARIABLES
  pending,  \* messages handed over that have not left yet, oldest first
  sent      \* messages that have left completely, oldest first

InSeq(m, s) == \E i \in 1 .. Len(s) : s[i] = m

Init == pending = <<>> /\ sent = <<>>

Accept(m) ==
  /\ ~InSeq(m, pending) /\ ~InSeq(m, sent)
  /\ pending' = Append(pending, m)
  /\ UNCHANGED sent

Leave ==
  /\ pending # <<>>
  /\ sent' = Append(sent, Head(pending))
  /\ pending' = Tail(pending)

Discard ==
  /\ pending # <<>>
  /\ pending' = Tail(pending)
  /\ UNCHANGED sent

Next == (\E m \in Messages : Accept(m)) \/ Leave \/ Discard

Spec == Init /\ [][Next]_<<pending, sent>>
=============================================================================
