------------------------ MODULE HandshakeInvariants ------------------------
(***************************************************************************)
(* The inductive invariant behind the properties of Handshake.  It says of *)
(* each stream what the two ends and the items under way know together:    *)
(* which end has seen the reset of which, and what may follow what.        *)
(***************************************************************************)
EXTENDS Handshake

Known(e, c) == chan[e][c].state # "none"
On(e, c, s) == Known(e, c) /\ chan[e][c].sid = s

(* The end that may create channels on a stream.                            *)
Owner(s) == IF s % 2 = 0 THEN "client" ELSE "server"

(***************************************************************************)
(* A sequence of items: its members, their order, and the data of c in it. *)
(***************************************************************************)
Members(q) == {q[i] : i \in 1 .. Len(q)}
Precedes(q, a, b) ==
  \E i \in 1 .. Len(q), j \in 1 .. Len(q) : i < j /\ q[i] = a /\ q[j] = b

DataOf(q, c) == {i \in 1 .. Len(q) : q[i].kind = "data" /\ q[i].ch = c}
Count(q, c) == Cardinality(DataOf(q, c))

OpenComing(s, c) ==
  \E m \in Members(wire[Owner(s)][s]) : m.kind = "open" /\ m.ch = c
ResetComing(e, s, c) ==
  \E m \in Members(wire[e][s]) : m.kind = "reset" /\ m.ch = c
ConfirmComing(e, s) == \E m \in Members(wire[e][s]) : m.kind = "confirm"

(***************************************************************************)
(* What holds on every stream.                                             *)
(***************************************************************************)
(* A channel that an end does not know yet has left no trace there.         *)
Fresh ==
  \A e \in Ends, c \in Channels :
     ~Known(e, c) =>
       chan[e][c] = Unknown /\ sent[e][c] = 0 /\ received[Peer(e)][c] = 0

(* The two ends of a channel use one stream, and its owner has created it.  *)
OneStream ==
  \A e \in Ends, c \in Channels :
     Known(e, c) =>
       /\ On(Owner(chan[e][c].sid), c, chan[e][c].sid)
       /\ Known(Peer(e), c) => chan[Peer(e)][c].sid = chan[e][c].sid

(* Items travel on the stream of their channel; only data is unordered or   *)
(* may be lost, only the owner of a stream sends an OPEN on it.             *)
Addressed ==
  \A e \in Ends, s \in Sids : \A m \in Members(wire[e][s]) :
     /\ m.kind # "confirm" => m.ch \in Channels /\ On(e, m.ch, s)
     /\ m.kind = "open" => e = Owner(s)
     /\ m.kind # "data" => ~m.unordered /\ ~m.lossy

Occupied ==
  \A e \in Ends, s \in Sids :
     slots[e][s] # NoChannel => On(e, slots[e][s], s)

(* No message is received that was not sent.                                *)
Bounded ==
  \A e \in Ends, c \in Channels :
     Known(e, c) =>
       received[Peer(e)][c] + Count(wire[e][chan[e][c].sid], c) <= sent[e][c]

(* What went astray or was refused did so on a stream that is not sound.    *)
Disowned ==
  \A c \in astray \cup refused :
     \E e \in Ends : Known(e, c) /\ ~Sound(chan[e][c].sid)

Base == Fresh /\ OneStream /\ Addressed /\ Occupied /\ Bounded

(***************************************************************************)
(* What holds on a sound stream s.                                         *)
(***************************************************************************)
(* The peer knows a channel once the OPEN has arrived.                      *)
Introduced(s) ==
  \A c \in Channels :
     On(Owner(s), c, s) => (OpenComing(s, c) <=> ~Known(Peer(Owner(s)), c))

(* Until then it has nothing to say about the stream.                       *)
Waiting(s) ==
  \A c \in Channels :
     LET o == Owner(s)
     IN  (On(o, c, s) /\ ~Known(Peer(o), c)) =>
           /\ wire[Peer(o)][s] = <<>>
           /\ ~chan[o][c].inReset
           /\ ~chan[o][c].outReset
           /\ ~chan[o][c].canUnordered

InSlot(s) ==
  \A e \in Ends, c \in Channels :
     On(e, c, s) =>
       (slots[e][s] = c <=> chan[e][c].state \in {"open", "closing"})

(* The reset flags of the two ends: an end is reset by what the other has   *)
(* sent, sees its own reset confirmed after that has arrived, and is closed *)
(* when it has seen both.                                                   *)
Flags(s) ==
  \A e \in Ends, c \in Channels :
     On(e, c, s) =>
       LET here == chan[e][c]
           there == chan[Peer(e)][c]
       IN  /\ here.inReset => here.state # "open"
           /\ here.outReset => there.inReset
           /\ there.inReset => here.state # "open"
           /\ here.state = "closed" <=> here.inReset /\ here.outReset

(* A reset is under way from the closing of the channel until it arrives.   *)
Resets(s) ==
  \A e \in Ends, c \in Channels :
     On(e, c, s) =>
       (ResetComing(e, s, c) <=>
          chan[e][c].state # "open" /\ ~chan[Peer(e)][c].inReset)

(* A confirmation is under way exactly when the channel in the slot of the  *)
(* other end waits for it.                                                  *)
Confirms(s) ==
  \A e \in Ends :
     LET c == slots[Peer(e)][s]
     IN  ConfirmComing(e, s) <=>
           /\ c # NoChannel
           /\ chan[e][c].inReset
           /\ ~chan[Peer(e)][c].outReset

(* Nothing is left of a channel behind its reset.                           *)
Timely(s) ==
  \A e \in Ends : \A m \in Members(wire[e][s]) :
     m.kind # "confirm" => ~chan[Peer(e)][m.ch].inReset

Order(s) ==
  \A e \in Ends : \A a, b \in Members(wire[e][s]) :
     Precedes(wire[e][s], a, b) =>
       /\ a.kind = "reset" => b.kind = "confirm"
       /\ b.kind = "open" => a.kind = "confirm"
       /\ a.kind = "open" => b.kind # "confirm" /\ ~b.unordered
       /\ a.kind = "confirm" => b.kind # "confirm"

(* Both ends have the parameters the OPEN carries.                          *)
Agreed(s) ==
  \A e \in Ends :
     /\ \A c \in Channels :
          On(e, c, s) =>
            /\ Created(chan[e][c].par) = chan[e][c].par
            /\ Known(Peer(e), c) => chan[Peer(e)][c].par = chan[e][c].par
     /\ \A m \in Members(wire[e][s]) :
          /\ m.kind = "open" => m.par = chan[e][m.ch].par
          /\ m.lossy => chan[e][m.ch].par.policy # "reliable"

(* Nothing is lost of a reliable channel.                                   *)
Counted(s) ==
  \A e \in Ends, c \in Channels :
     (On(e, c, s) /\ chan[e][c].par.policy = "reliable") =>
       received[Peer(e)][c] + Count(wire[e][s], c) = sent[e][c]

Stream(s) ==
  /\ Introduced(s)
  /\ Waiting(s)
  /\ InSlot(s)
  /\ Flags(s)
  /\ Resets(s)
  /\ Confirms(s)
  /\ Timely(s)
  /\ Order(s)
  /\ Agreed(s)
  /\ Counted(s)

SoundStreams == \A s \in Sids : Sound(s) => Stream(s)

Inv == TypeOK /\ Base /\ Disowned /\ SoundStreams
=============================================================================
