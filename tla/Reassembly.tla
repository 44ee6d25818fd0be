------------------------------- MODULE Reassembly -------------------------------
(***************************************************************************)
(* How incoming messages are put together (sctp_transport/transport.c).    *)
(* usrsctp delivers the pieces of a message in order, flagging the last    *)
(* one with MSG_EOR, but may deliver pieces of different streams in        *)
(* between ("Enable interleaving messages for different streams").         *)
(* Application messages are collected in a buffer of their channel, or     *)
(* passed on piece by piece if the channel is streamed; DCEP messages are  *)
(* collected in a single buffer of the transport.                          *)
(***************************************************************************)
EXTENDS Integers, Sequences, FiniteSets

CONSTANTS
  Streams,     \* SIDs
  Script,      \* what the peer sends on each stream: a sequence of pieces
  Negotiated,  \* streams of negotiated channels
  Unreliable,  \* streams of partially reliable channels
  Switched,    \* streams of channels whose delivery mode is switched
  MaxSwitches, \* bound on changes of the delivery mode
  MidMessage   \* TRUE if a negotiated channel may be created while a
               \* message arrives on its stream

(* A piece: its PPID, the message of the application (or of DCEP) that it   *)
(* is part of, and MSG_EOR.  "fragment" is one of the deprecated PPIDs for  *)
(* messages that consist of several SCTP messages.                          *)
Ppids == {"dcep", "data", "empty", "fragment"}
Piece == [ppid : Ppids, msg : Nat, eor : BOOLEAN]

(* The sender ends a message with this piece.                               *)
EndsMessage(piece) == piece.eor /\ piece.ppid # "fragment"

ASSUME ScriptAssumption == Script \in [Streams -> Seq(Piece)]
ASSUME StreamsAssumption ==
  Negotiated \subseteq Streams /\ Unreliable \subseteq Streams /\ Switched \subseteq Streams
ASSUME SwitchesAssumption == MaxSwitches \in Nat /\ MidMessage \in BOOLEAN

VARIABLES
  next,        \* index of the next piece that usrsctp delivers, per stream
  registered,  \* the stream has a channel in transport->channels
  streamed,    \* RAWRTC_DATA_CHANNEL_FLAGS_STREAMED of that channel
  pending,     \* RAWRTC_SCTP_DATA_CHANNEL_FLAGS_PENDING_INBOUND_MESSAGE
  buffer,      \* context->buffer_inbound, as the indices of its pieces
  dcep,        \* transport->buffer_dcep_inbound, as <<SID, index>>
  handled,     \* history: what the message handlers were given
  opens,       \* history: the DCEP messages that were handled
  switches     \* number of changes of the delivery mode

vars == <<next, registered, streamed, pending, buffer, dcep, handled, opens, switches>>

Init ==
  /\ next = [s \in Streams |-> 1]
  /\ registered = [s \in Streams |-> FALSE]
  /\ streamed = [s \in Streams |-> FALSE]
  /\ pending = [s \in Streams |-> FALSE]
  /\ buffer = [s \in Streams |-> <<>>]
  /\ dcep = <<>>
  /\ handled = [s \in Streams |-> <<>>]
  /\ opens = <<>>
  /\ switches = 0

At(s) == Script[s][next[s]]

(* The next piece of stream s is taken from usrsctp.  Mutant: one is lost.   *)
TakeTwo(s) ==
  /\ next[s] <= Len(Script[s])
  /\ next' = [next EXCEPT ![s] = @ + 2]
Take(s) ==
  /\ next[s] <= Len(Script[s])
  /\ next' = [next EXCEPT ![s] = @ + 1]

(* Mutant: the deprecated PPIDs are not told apart.                          *)
CompleteAtEor(piece) == piece.eor
Complete(piece) == piece.eor /\ piece.ppid # "fragment"

Call(s, pieces, flag) ==
  handled' = [handled EXCEPT ![s] = Append(@, [pieces |-> pieces, flag |-> flag])]

(***************************************************************************)
(* A piece of a DCEP message.  The info of the first piece tells the SID    *)
(* once the message is complete.  A data channel open message registers a  *)
(* channel there unless it is refused; others change nothing here.         *)
(***************************************************************************)
(* Mutant: only the last piece is kept.                                      *)
CollectedLast(s) == <<<<s, next[s]>>>>
Collected(s) == Append(dcep, <<s, next[s]>>)

Buffered(s) ==
  /\ Take(s)
  /\ At(s).ppid = "dcep"
  /\ ~Complete(At(s))
  /\ dcep' = Collected(s)
  /\ UNCHANGED <<registered, streamed, pending, buffer, handled, opens, switches>>

HandleDcep(s) ==
  /\ Take(s)
  /\ At(s).ppid = "dcep"
  /\ Complete(At(s))
  /\ dcep' = <<>>
  /\ opens' = Append(opens, Collected(s))
  /\ \/ registered' = [registered EXCEPT ![Collected(s)[1][1]] = TRUE]
     \/ UNCHANGED registered
  /\ UNCHANGED <<streamed, pending, buffer, handled, switches>>

(***************************************************************************)
(* The application creates a negotiated channel; what came before is gone.  *)
(***************************************************************************)
BetweenMessages(s) == next[s] > 1 => EndsMessage(Script[s][next[s] - 1])

CreateNegotiated(s) ==
  /\ s \in Negotiated
  /\ ~registered[s]
  /\ MidMessage \/ BetweenMessages(s)
  /\ registered' = [registered EXCEPT ![s] = TRUE]
  /\ UNCHANGED <<next, streamed, pending, buffer, dcep, handled, opens, switches>>

(***************************************************************************)
(* A piece of an application message.                                      *)
(***************************************************************************)
Application(s) == Take(s) /\ At(s).ppid # "dcep"

NoChannel(s) ==
  /\ Application(s)
  /\ ~registered[s]
  /\ UNCHANGED <<registered, streamed, pending, buffer, dcep, handled, opens, switches>>

(* An empty message takes the place of whatever is buffered.                 *)
Empty(s) ==
  /\ Application(s)
  /\ registered[s]
  /\ At(s).ppid = "empty"
  /\ IF At(s).eor
       THEN /\ Call(s, <<next[s]>>, "complete")
            /\ pending' = [pending EXCEPT ![s] = FALSE]
       ELSE UNCHANGED <<handled, pending>>
  /\ buffer' = [buffer EXCEPT ![s] = <<>>]
  /\ UNCHANGED <<registered, streamed, dcep, opens, switches>>

PendingAfter(s) == [pending EXCEPT ![s] = TRUE]

Buffer(s) ==
  /\ Application(s)
  /\ registered[s] /\ ~streamed[s]
  /\ At(s).ppid # "empty"
  /\ ~Complete(At(s))
  /\ buffer' = [buffer EXCEPT ![s] = Append(@, next[s])]
  /\ pending' = PendingAfter(s)
  /\ UNCHANGED <<registered, streamed, dcep, handled, opens, switches>>

Raise(s) ==
  /\ Application(s)
  /\ registered[s] /\ ~streamed[s]
  /\ At(s).ppid # "empty"
  /\ Complete(At(s))
  /\ Call(s, Append(buffer[s], next[s]), "complete")
  /\ buffer' = [buffer EXCEPT ![s] = <<>>]
  /\ pending' = [pending EXCEPT ![s] = FALSE]
  /\ UNCHANGED <<registered, streamed, dcep, opens, switches>>

(* In streamed mode it is MSG_EOR alone that completes a message.            *)
Pass(s) ==
  /\ Application(s)
  /\ registered[s] /\ streamed[s]
  /\ At(s).ppid # "empty"
  /\ Call(s, <<next[s]>>, IF At(s).eor THEN "complete" ELSE "partial")
  /\ pending' = [pending EXCEPT ![s] = ~At(s).eor]
  /\ buffer' = [buffer EXCEPT ![s] = <<>>]
  /\ UNCHANGED <<registered, streamed, dcep, opens, switches>>

(* An SCTP message has been delivered in part.                               *)
Within(s) == next[s] > 1 /\ ~Script[s][next[s] - 1].eor

(* The peer has abandoned a message that was delivered in part: usrsctp      *)
(* skips the rest of it and says so.                                        *)
DiscardBuffer(s) == buffer' = [buffer EXCEPT ![s] = <<>>]

Aborted(s) ==
  /\ s \in Unreliable
  /\ Within(s)
  /\ At(s).ppid # "dcep"
  /\ \E n \in next[s] .. Len(Script[s]) :
       /\ Script[s][n].eor
       /\ \A k \in next[s] .. n - 1 : ~Script[s][k].eor
       /\ next' = [next EXCEPT ![s] = n + 1]
  /\ IF registered[s]
       THEN /\ pending' = [pending EXCEPT ![s] = FALSE]
            /\ DiscardBuffer(s)
            /\ IF streamed[s] THEN Call(s, <<>>, "aborted") ELSE UNCHANGED handled
       ELSE UNCHANGED <<pending, buffer, handled>>
  /\ UNCHANGED <<registered, streamed, dcep, opens, switches>>

(***************************************************************************)
(* rawrtc_data_channel_set_streaming: refused while a message is pending.   *)
(* Channels are not closed here, which would be another reason to refuse.   *)
(***************************************************************************)
(* Mutant: the pending flag is not looked at.                                *)
SwitchableAlways(s) == TRUE
Switchable(s) == ~pending[s]

SetStreaming(s) ==
  /\ s \in Switched
  /\ switches < MaxSwitches
  /\ registered[s]
  /\ Switchable(s)
  /\ streamed' = [streamed EXCEPT ![s] = ~@]
  /\ switches' = switches + 1
  /\ UNCHANGED <<next, registered, pending, buffer, dcep, handled, opens>>

Next ==
  \E s \in Streams :
    \/ Buffered(s) \/ HandleDcep(s) \/ CreateNegotiated(s)
    \/ NoChannel(s) \/ Empty(s) \/ Buffer(s) \/ Raise(s) \/ Pass(s)
    \/ Aborted(s) \/ SetStreaming(s)

Spec == Init /\ [][Next]_vars

-----------------------------------------------------------------------------
Indices(s) == 1 .. Len(Script[s])
AllPieces == {<<s, i>> : s \in Streams, i \in UNION {Indices(t) : t \in Streams}}

(* Every variable keeps its type.                                           *)
TypeOK ==
  /\ \A s \in Streams : next[s] \in 1 .. Len(Script[s]) + 1
  /\ registered \in [Streams -> BOOLEAN]
  /\ streamed \in [Streams -> BOOLEAN]
  /\ pending \in [Streams -> BOOLEAN]
  /\ \A s \in Streams : buffer[s] \in Seq(Indices(s))
  /\ dcep \in Seq(AllPieces)
  /\ \A s \in Streams :
       handled[s] \in Seq([pieces : Seq(Indices(s)),
                           flag   : {"complete", "partial", "aborted"}])
  /\ opens \in Seq(Seq(AllPieces))
  /\ switches \in 0 .. MaxSwitches

(* The pieces of the message that piece i of stream s belongs to.           *)
MessageOf(s, i) == {k \in Indices(s) : Script[s][k].msg = Script[s][i].msg}

Ascending(p) == \A k \in 1 .. Len(p) - 1 : p[k + 1] = p[k] + 1
Elements(p) == {p[k] : k \in 1 .. Len(p)}

(* What the handler was given in calls i to j is one message: the partial   *)
(* deliveries since the last complete or aborted message, and the last call. *)
OneMessage(h, i, j) ==
  /\ h[j].flag = "complete"
  /\ \A k \in i .. j - 1 : h[k].flag = "partial"
  /\ i > 1 => h[i - 1].flag # "partial"

Whole(s, h, i, j) ==
  /\ UNION {Elements(h[k].pieces) : k \in i .. j} = MessageOf(s, h[j].pieces[1])
  /\ Ascending(h[j].pieces)
  /\ \A k \in i .. j - 1 : h[k + 1].pieces[1] = h[k].pieces[1] + 1

(* A message flagged as complete is complete: the pieces given to the       *)
(* handler since the last complete or aborted message are exactly those of  *)
(* one message, in order - whether they come as one buffer or one by one,   *)
(* whatever arrives on other streams in between, and however often the      *)
(* delivery mode is switched.                                               *)
DeliveredWhole ==
  \A s \in Streams : \A j \in 1 .. Len(handled[s]) : \A i \in 1 .. j :
    OneMessage(handled[s], i, j) => Whole(s, handled[s], i, j)

(* A streamed channel has nothing buffered: "We deliver partially but there *)
(* was a buffered message?!" (transport.c:958) is never logged.             *)
StreamedNotBuffered == \A s \in Streams : streamed[s] => buffer[s] = <<>>

(* A DCEP message that is handled consists of the pieces of one message of  *)
(* one stream ("Return SUCCESS in case the message is complete",            *)
(* transport.c:1400).                                                       *)
OneDcepMessage(c) ==
  /\ \A k \in 1 .. Len(c) : c[k][1] = c[1][1]
  /\ {c[k][2] : k \in 1 .. Len(c)} = MessageOf(c[1][1], c[1][2])

DcepWhole == \A j \in 1 .. Len(opens) : OneDcepMessage(opens[j])

-----------------------------------------------------------------------------
(* What a peer sends.  Two pieces are of the same message if and only if    *)
(* none from the first up to the second completes one; a message is one of  *)
(* DCEP or of the application as a whole, and an empty one has one piece.   *)
WellFormed ==
  \A s \in Streams : \A i, k \in Indices(s) :
    /\ i <= k => (Script[s][i].msg = Script[s][k].msg
                    <=> \A l \in i .. k - 1 : ~EndsMessage(Script[s][l]))
    /\ Script[s][i].msg = Script[s][k].msg =>
         /\ Script[s][i].ppid = "dcep" <=> Script[s][k].ppid = "dcep"
         /\ Script[s][i].ppid = "empty" => i = k /\ Script[s][i].eor

(* Where messages may be aborted or streamed, the deprecated PPIDs are not  *)
(* used.                                                                    *)
Unfragmented ==
  \A s \in Unreliable \cup Switched : \A i \in Indices(s) : Script[s][i].ppid # "fragment"

(* While a DCEP message arrives in pieces, no other stream has one.         *)
DcepApart ==
  \A s, t \in Streams : \A i \in Indices(s), k \in Indices(t) :
    /\ Script[s][i].ppid = "dcep" /\ ~EndsMessage(Script[s][i])
    /\ Script[t][k].ppid = "dcep"
    => s = t
=============================================================================
