------------------------------ MODULE Handshake ------------------------------
(***************************************************************************)
(* Data channels between two endpoints: the DCEP open and ack messages,    *)
(* the data sent on a channel, and the stream resets that close it, with a *)
(* network between the two (sctp_transport/transport.c).                   *)
(*                                                                         *)
(* Both associations are up.  A handler of one endpoint is one step: what  *)
(* callbacks do in the middle of it is the subject of SctpTransport.  The  *)
(* queue of deferred messages and the network together are one sequence of *)
(* items per endpoint and stream, as a stream is reset after the messages  *)
(* that are deferred (T:664).  What usrsctp and the network do with the    *)
(* sequence is in CanArrive and Lose.                                      *)
(*                                                                         *)
(* A channel is named by the end that creates it; OPEN and data messages   *)
(* carry that name, which the code does not have: it tells channels by     *)
(* their stream only.                                                      *)
(***************************************************************************)
EXTENDS Integers, Sequences, FiniteSets, SequencesExt

CONSTANTS
  NumCreated,   \* bound on the channels created in all, at either end
  NChannels,    \* transport->n_channels, of both endpoints
  Asked,        \* the parameters applications create channels with
  MaxSends,     \* bound on the messages sent on a channel, by both ends
  Failures      \* TRUE if a reset or the handling of an OPEN may fail

ASSUME BoundsAssumption == NumCreated \in Nat /\ MaxSends \in Nat
ASSUME NChannelsAssumption == NChannels \in Nat \ {0}
ASSUME FailuresAssumption == Failures \in BOOLEAN

Ends == {"client", "server"}     \* the DTLS roles
Peer(e) == IF e = "client" THEN "server" ELSE "client"
Sids == 0 .. NChannels - 1
Channels == 1 .. NumCreated
NoChannel == 0

(* The channel type, in its two halves, and the reliability parameter.      *)
Parameters ==
  [unordered : BOOLEAN, policy : {"reliable", "rtx", "ttl"}, value : Nat]

ASSUME AskedAssumption == Asked \subseteq Parameters

NoParameters == [unordered |-> FALSE, policy |-> "reliable", value |-> 0]

(* Creating parameters clears the value of a reliable type; on both ends.   *)
Created(p) == IF p.policy = "reliable" THEN [p EXCEPT !.value = 0] ELSE p

VARIABLES
  slots,     \* slots[e][s]: transport->channels
  chan,      \* chan[e][c]: the data channel and context e has for c
  wire,      \* wire[e][s]: what e has sent on stream s and is under way
  sent,      \* history: the number of messages e has sent on c
  received,  \* history: the number of messages e has received on c
  astray,    \* history: channels a message of which met another or none
  refused,   \* history: channels whose OPEN met a slot that was taken
  overtaken, \* history: streams on which an OPEN overtook a confirmation
  failed     \* history: streams on which a reset or an OPEN failed

vars == <<slots, chan, wire, sent, received, astray, refused, overtaken, failed>>
history == <<sent, received, astray, refused, overtaken, failed>>

ChannelStates == {"none", "open", "closing", "closed"}

ChannelRecords ==
  [state        : ChannelStates,
   sid          : Sids,
   par          : Parameters,
   canUnordered : BOOLEAN,   \* .._FLAGS_CAN_SEND_UNORDERED
   inReset      : BOOLEAN,   \* .._FLAGS_INCOMING_STREAM_RESET
   outReset     : BOOLEAN]   \* .._FLAGS_OUTGOING_STREAM_RESET

Unknown ==
  [state |-> "none", sid |-> 0, par |-> NoParameters,
   canUnordered |-> FALSE, inReset |-> FALSE, outReset |-> FALSE]

(* channel_register on a connected transport opens the channel at once.     *)
NewChannel(s, p, canUnordered) ==
  [Unknown EXCEPT !.state = "open", !.sid = s, !.par = p,
                  !.canUnordered = canUnordered]

(***************************************************************************)
(* What is under way on a stream: DCEP messages, data, the request to      *)
(* reset the stream, and the confirmation of such a request of the peer.   *)
(***************************************************************************)
Kinds == {"open", "ack", "data", "reset", "confirm"}

Items ==
  [kind : Kinds, ch : Channels \cup {NoChannel}, par : Parameters,
   unordered : BOOLEAN, lossy : BOOLEAN]

Control(kind, c, p) ==
  [kind |-> kind, ch |-> c, par |-> p, unordered |-> FALSE, lossy |-> FALSE]

OpenMessage(c, p) == Control("open", c, p)

(* send_message: data is sent unordered only if the type asks for it and   *)
(* the peer is known to know the channel; DCEP messages never are.         *)
Data(e, c) ==
  [Control("data", c, NoParameters) EXCEPT
     !.unordered = chan[e][c].par.unordered /\ chan[e][c].canUnordered,
     !.lossy     = chan[e][c].par.policy # "reliable"]

(* One failure at most: it disowns its stream, on which no property says   *)
(* anything any more, and the streams do not depend on each other.         *)
Fails(s) == Failures /\ failed = {} /\ failed' = {s}

Sending(e, s, items) == [wire EXCEPT ![e][s] = @ \o items]

(* Confirmations belong to no stream: they wait for nothing and may be     *)
(* late.  Unordered data may overtake all but a reset, and a reset takes   *)
(* effect when everything sent before it has arrived or is given up.       *)
CanArrive(q, i) ==
  \A j \in 1 .. i - 1 :
     \/ q[i].kind = "confirm"
     \/ q[j].kind = "confirm"
     \/ q[i].kind # "reset" /\ q[j].unordered
     \/ q[j].kind # "reset" /\ q[i].unordered

-----------------------------------------------------------------------------
Init ==
  /\ slots = [e \in Ends |-> [s \in Sids |-> NoChannel]]
  /\ chan = [e \in Ends |-> [c \in Channels |-> Unknown]]
  /\ wire = [e \in Ends |-> [s \in Sids |-> <<>>]]
  /\ sent = [e \in Ends |-> [c \in Channels |-> 0]]
  /\ received = [e \in Ends |-> [c \in Channels |-> 0]]
  /\ astray = {}
  /\ refused = {}
  /\ overtaken = {}
  /\ failed = {}

(***************************************************************************)
(* The application                                                         *)
(***************************************************************************)
OwnSids(e) == {s \in Sids : s % 2 = IF e = "client" THEN 0 ELSE 1}
FreeSids(e) == {s \in OwnSids(e) : slots[e][s] = NoChannel}

(* Channels are numbered in the order of their creation.                    *)
IsNext(c) ==
  \A b \in Channels : b < c <=> \E e \in Ends : chan[e][b].state # "none"

(* channel_create_inband and channel_register.  Mutant: the context starts *)
(* out with the permission to send unordered.                               *)
OpenerContextFree(s, p) == NewChannel(s, p, TRUE)
OpenerContext(s, p) == NewChannel(s, p, FALSE)

Create(e, c, p) ==
  /\ IsNext(c)
  /\ FreeSids(e) # {}
  /\ LET s == CHOOSE s \in FreeSids(e) : \A r \in FreeSids(e) : s <= r
     IN  /\ slots' = [slots EXCEPT ![e][s] = c]
         /\ chan' = [chan EXCEPT ![e][c] = OpenerContext(s, Created(p))]
         /\ wire' = Sending(e, s, <<OpenMessage(c, Created(p))>>)
  /\ UNCHANGED history

Send(e, c) ==
  /\ chan[e][c].state = "open"
  /\ sent[e][c] + sent[Peer(e)][c] < MaxSends
  /\ wire' = Sending(e, chan[e][c].sid, <<Data(e, c)>>)
  /\ sent' = [sent EXCEPT ![e][c] = @ + 1]
  /\ UNCHANGED <<slots, chan, received, astray, refused, overtaken, failed>>

(* reset_outgoing_stream and channel_close_handler.                         *)
Close(e, c) ==
  /\ chan[e][c].state = "open"
  /\ chan' = [chan EXCEPT ![e][c].state = "closing"]
  /\ wire' = Sending(e, chan[e][c].sid, <<Control("reset", c, NoParameters)>>)
  /\ UNCHANGED <<slots, sent, received, astray, refused, overtaken, failed>>

(* The reset fails, at once or when its turn comes after the messages that *)
(* are deferred: the channel is closed, and taken out of its slot, without *)
(* a word to the peer.                                                     *)
CloseImproperly(e, c) ==
  LET s == chan[e][c].sid
  IN  /\ Fails(s)
      /\ \/ chan[e][c].state = "open" /\ UNCHANGED wire
         \/ /\ chan[e][c].state = "closing"
            /\ \E i \in DOMAIN wire[e][s] :
                 /\ wire[e][s][i] = Control("reset", c, NoParameters)
                 /\ wire' = [wire EXCEPT ![e][s] = RemoveAt(@, i)]
      /\ chan' = [chan EXCEPT ![e][c].state = "closed"]
      /\ slots' = [slots EXCEPT ![e][s] = NoChannel]
      /\ UNCHANGED <<sent, received, astray, refused, overtaken>>

(***************************************************************************)
(* Receiving.  Arrives(e, s, i, kind) takes item i off the wire of the     *)
(* peer; `occupant' is the channel that e has in the slot of the stream.   *)
(***************************************************************************)
Arrives(e, s, i, kind) ==
  /\ i \in DOMAIN wire[Peer(e)][s]
  /\ wire[Peer(e)][s][i].kind = kind
  /\ CanArrive(wire[Peer(e)][s], i)

Handled(e, s, i) == [wire EXCEPT ![Peer(e)][s] = RemoveAt(@, i)]
Answered(e, s, i, items) == [Handled(e, s, i) EXCEPT ![e][s] = @ \o items]

Overtakes(e, s, i) ==
  \E j \in 1 .. i - 1 : wire[Peer(e)][s][j].kind = "confirm"

(* handle_data_channel_open_message                                         *)
Acceptable(e, s) == s \notin OwnSids(e) /\ slots[e][s] = NoChannel

ReceiveOpen(e, s, i) ==
  /\ Arrives(e, s, i, "open")
  /\ overtaken' = IF Overtakes(e, s, i) THEN overtaken \cup {s} ELSE overtaken
  /\ LET m == wire[Peer(e)][s][i]
     IN  \/ /\ Acceptable(e, s)
            /\ slots' = [slots EXCEPT ![e][s] = m.ch]
            /\ chan' = [chan EXCEPT ![e][m.ch] =
                          NewChannel(s, Created(m.par), TRUE)]
            /\ wire' = Answered(e, s, i, <<Control("ack", m.ch, NoParameters)>>)
            /\ UNCHANGED <<refused, failed>>
         \/ /\ ~Acceptable(e, s)
            /\ refused' = refused \cup {m.ch}
            /\ wire' = Handled(e, s, i)
            /\ UNCHANGED <<slots, chan, failed>>
         \/ /\ Fails(s)
            /\ wire' = Handled(e, s, i)
            /\ UNCHANGED <<slots, chan, refused>>
  /\ UNCHANGED <<sent, received, astray>>

(* handle_data_channel_ack_message                                          *)
ReceiveAck(e, s, i) ==
  /\ Arrives(e, s, i, "ack")
  /\ wire' = Handled(e, s, i)
  /\ IF slots[e][s] = NoChannel
     THEN UNCHANGED chan
     ELSE chan' = [chan EXCEPT ![e][slots[e][s]].canUnordered = TRUE]
  /\ UNCHANGED <<slots, history>>

(* handle_application_message.  The message is passed to the handler of    *)
(* whatever channel is in the slot; without one it is dropped.             *)
ReceiveData(e, s, i) ==
  /\ Arrives(e, s, i, "data")
  /\ wire' = Handled(e, s, i)
  /\ LET m == wire[Peer(e)][s][i]
         c == slots[e][s]
     IN  /\ IF c = NoChannel
            THEN UNCHANGED chan
            ELSE chan' = [chan EXCEPT ![e][c].canUnordered = TRUE]
         /\ IF c = m.ch
            THEN received' = [received EXCEPT ![e][c] = @ + 1] /\ UNCHANGED astray
            ELSE astray' = astray \cup {m.ch} /\ UNCHANGED received
  /\ UNCHANGED <<slots, sent, refused, overtaken, failed>>

(***************************************************************************)
(* handle_stream_reset_event                                               *)
(***************************************************************************)
(* Mutant: the flag is assigned rather than added.                          *)
WithInOnly(r) == [r EXCEPT !.inReset = TRUE, !.outReset = FALSE]
WithIn(r) == [r EXCEPT !.inReset = TRUE]
WithOut(r) == [r EXCEPT !.outReset = TRUE]

(* Mutant: the confirmation of the own reset is enough.                     *)
BothResetOut(r) == r.outReset
BothReset(r) == r.inReset /\ r.outReset

(* The channel in slot s after its flags have been set to those of r: it   *)
(* leaves the slot when both streams have been reset.                      *)
Noted(e, s, r) ==
  /\ chan' = [chan EXCEPT ![e][slots[e][s]] =
                IF BothReset(r) THEN [r EXCEPT !.state = "closed"] ELSE r]
  /\ slots' = IF BothReset(r) THEN [slots EXCEPT ![e][s] = NoChannel] ELSE slots

(* Mutant: an end that is reset does not reset its own stream.              *)
MustAnswerNever(r) == FALSE
MustAnswer(r) == r.state \notin {"closing", "closed"}

Confirmation == <<Control("confirm", NoChannel, NoParameters)>>

ReceiveReset(e, s, i) ==
  /\ Arrives(e, s, i, "reset")
  /\ LET c == slots[e][s]
         r == WithIn(chan[e][c])
     IN  \/ /\ c = NoChannel
            /\ wire' = Answered(e, s, i, Confirmation)
            /\ UNCHANGED <<slots, chan, failed>>
         \/ /\ c # NoChannel
            /\ ~MustAnswer(chan[e][c])
            /\ wire' = Answered(e, s, i, Confirmation)
            /\ Noted(e, s, r)
            /\ UNCHANGED failed
         \/ /\ c # NoChannel
            /\ MustAnswer(chan[e][c])
            /\ wire' = Answered(e, s, i, Confirmation \o
                                         <<Control("reset", c, NoParameters)>>)
            /\ Noted(e, s, [r EXCEPT !.state = "closing"])
            /\ UNCHANGED failed
         \/ /\ Fails(s)
            /\ c # NoChannel
            /\ MustAnswer(chan[e][c])
            /\ wire' = Answered(e, s, i, Confirmation)
            /\ chan' = [chan EXCEPT ![e][c] = [r EXCEPT !.state = "closed"]]
            /\ slots' = [slots EXCEPT ![e][s] = NoChannel]
  /\ UNCHANGED <<sent, received, astray, refused, overtaken>>

(* The event for our own reset, once the peer has confirmed it.             *)
ReceiveConfirmation(e, s, i) ==
  /\ Arrives(e, s, i, "confirm")
  /\ wire' = Handled(e, s, i)
  /\ IF slots[e][s] = NoChannel
     THEN UNCHANGED <<slots, chan>>
     ELSE Noted(e, s, WithOut(chan[e][slots[e][s]]))
  /\ UNCHANGED history

(* The peer denies the reset, or it fails there: the event that says so is *)
(* ignored.                                                                *)
DenyReset(e, s, i) ==
  /\ Fails(s)
  /\ Arrives(e, s, i, "reset")
  /\ wire' = Handled(e, s, i)
  /\ UNCHANGED <<slots, chan, sent, received, astray, refused, overtaken>>

(* A message under a partial reliability policy may be given up.            *)
Lose(e, s, i) ==
  /\ i \in DOMAIN wire[e][s]
  /\ wire[e][s][i].lossy
  /\ wire' = [wire EXCEPT ![e][s] = RemoveAt(@, i)]
  /\ UNCHANGED <<slots, chan, history>>

Receive ==
  \E e \in Ends, s \in Sids : \E i \in 1 .. Len(wire[Peer(e)][s]) :
     \/ ReceiveOpen(e, s, i)
     \/ ReceiveAck(e, s, i)
     \/ ReceiveData(e, s, i)
     \/ ReceiveReset(e, s, i)
     \/ ReceiveConfirmation(e, s, i)
     \/ DenyReset(e, s, i)

Next ==
  \/ \E e \in Ends, c \in Channels, p \in Asked : Create(e, c, p)
  \/ \E e \in Ends, c \in Channels :
        Send(e, c) \/ Close(e, c) \/ CloseImproperly(e, c)
  \/ Receive
  \/ \E e \in Ends, s \in Sids : \E i \in 1 .. Len(wire[e][s]) : Lose(e, s, i)

Spec == Init /\ [][Next]_vars
FairSpec == Spec /\ WF_vars(Receive)

-----------------------------------------------------------------------------
(* Every variable keeps its type; no OPEN carries a negative parameter.     *)
TypeOK ==
  /\ slots \in [Ends -> [Sids -> Channels \cup {NoChannel}]]
  /\ chan \in [Ends -> [Channels -> ChannelRecords]]
  /\ wire \in [Ends -> [Sids -> Seq(Items)]]
  /\ sent \in [Ends -> [Channels -> 0 .. MaxSends]]
  /\ received \in [Ends -> [Channels -> 0 .. MaxSends]]
  /\ astray \in SUBSET Channels
  /\ refused \in SUBSET Channels
  /\ overtaken \in SUBSET Sids
  /\ failed \in SUBSET Sids

(* The stream of a channel.                                                 *)
SidOf(c) ==
  LET e == CHOOSE e \in Ends : chan[e][c].state # "none" IN chan[e][c].sid

(* Streams on which every reset worked and every OPEN found the peer done  *)
(* with the channel before.                                                *)
Sound(s) == s \notin failed \cup overtaken

(* An OPEN finds its slot free, unless a reset failed on the stream or the *)
(* OPEN overtook the confirmation that the peer waits for.                 *)
OpenAccepted == \A c \in refused : ~Sound(SidOf(c))

(* A message reaches the channel it was sent on, also when it is sent      *)
(* unordered right after the OPEN or arrives while the channel is closing, *)
(* and when the stream has been used by another channel before.            *)
NothingAstray == \A c \in astray : ~Sound(SidOf(c))

(* The two ends of a channel agree on its parameters, and if these make it *)
(* reliable then the end that is closed has received all that the other    *)
(* has sent: closing loses nothing.                                        *)
AsAsked ==
  \A e \in Ends, c \in Channels :
    LET here == chan[e][c]
        there == chan[Peer(e)][c]
    IN  (here.state # "none" /\ there.state # "none" /\ Sound(here.sid)) =>
          /\ here.par = there.par
          /\ (here.par.policy = "reliable" /\ here.state = "closed") =>
               received[e][c] = sent[Peer(e)][c]

(* When nothing is under way on a stream the two ends have the same        *)
(* channel in its slot, open on both sides, or none.                       *)
SettledAgrees ==
  \A s \in Sids :
    (Sound(s) /\ \A e \in Ends : wire[e][s] = <<>>) =>
       /\ slots["client"][s] = slots["server"][s]
       /\ \A e \in Ends :
            slots[e][s] # NoChannel => chan[e][slots[e][s]].state = "open"

IsClosing(c) ==
  \E e \in Ends : chan[e][c].state = "closing" /\ Sound(chan[e][c].sid)

(* A channel that is closing at one end is not so for ever, nor at the      *)
(* other, whichever end closed it, or both at once.                         *)
ClosingEnds == \A c \in Channels : IsClosing(c) ~> ~IsClosing(c)
=============================================================================
