---------------------------- MODULE SctpTransport ----------------------------
(***************************************************************************)
(* The SCTP transport of the library and the data channels registered on   *)
(* it, seen from one endpoint (sctp_transport/transport.c and              *)
(* data_channel/channel.c).                                                *)
(*                                                                         *)
(* The library is single threaded, but every callback into the application *)
(* may call the API again before it returns.  A handler of the C code is   *)
(* therefore cut at the callbacks it makes: the variable `stack' is the    *)
(* C call stack, its last frame is the one that runs.  A frame is either a *)
(* callback the application is in, or the place at which a function of the *)
(* library continues once the callback above it has returned.  usrsctp     *)
(* delivers its events (association change, sender dry, stream reset,      *)
(* write) when nothing runs, i.e. when the stack is empty.                 *)
(***************************************************************************)
EXTENDS Integers, Sequences, FiniteSets

CONSTANTS
  Channels,   \* data channel instances; each is created at most once
  NoChannel,  \* a NULL pointer in transport->channels
  NChannels,  \* transport->n_channels
  Role,       \* the DTLS role: "client" or "server"
  MaxQueue,   \* bound on the outgoing messages that are deferred
  MaxDepth,   \* bound on nested callbacks in which the application calls back
  Denials,    \* TRUE if the peer may deny the reset of a stream
  Forbidden   \* <<callback, call>>: calls the application does not make while
              \* that callback is running

ASSUME NoChannelAssumption == NoChannel \notin Channels
ASSUME NChannelsAssumption == NChannels \in Nat \ {0}
ASSUME RoleAssumption      == Role \in {"client", "server"}
ASSUME BoundsAssumption    == MaxQueue \in Nat /\ MaxDepth \in Nat
ASSUME DenialsAssumption   == Denials \in BOOLEAN

Sids == 0 .. NChannels - 1

VARIABLES
  tstate,     \* transport->state
  detached,   \* RAWRTC_SCTP_TRANSPORT_FLAGS_DETACHED
  socket,     \* transport->socket is not NULL
  amountLow,  \* RAWRTC_SCTP_TRANSPORT_FLAGS_BUFFERED_AMOUNT_LOW
  queue,      \* buffered_messages_outgoing: the channel of each message
  slots,      \* transport->channels
  curSid,     \* transport->current_channel_sid
  haveDT,     \* the application holds a data transport
  chan,       \* the data channels and their SCTP contexts
  resetReq,   \* SIDs with an outgoing reset that usrsctp has not answered
  stack,      \* the call stack
  hist,       \* history of each channel: resets issued, references dropped,
              \* events its handlers received
  notes       \* history: states the state change handler was called with

vars == <<tstate, detached, socket, amountLow, queue, slots, curSid, haveDT,
          chan, resetReq, stack, hist, notes>>

(***************************************************************************)
(* The call stack                                                          *)
(***************************************************************************)
Callbacks == {"open", "open_all", "channel", "low", "close", "teardown",
              "detach", "connecting", "connected", "closed"}

Continuations == {"created", "register", "drop", "drop_if", "mtu",
                  "close_channels", "detached", "open_channels",
                  "dry", "dry_next", "reset"}

Directions == {"in", "out"}

(* Frames that are about one channel, and loops whose index may end up     *)
(* behind the array.                                                       *)
OfChannel == {"open", "open_all", "channel", "low", "close", "teardown",
              "created", "register", "drop", "drop_if"}
Loops == {"close_channels", "open_channels"}

Frames ==
  {f \in [at   : Callbacks \cup Continuations,
          ch   : Channels \cup {NoChannel},
          sid  : 0 .. NChannels,
          todo : SUBSET Sids,            \* SIDs a loop has still to visit
          dirs : SUBSET Directions] :    \* flags of a stream reset event
     /\ f.at \in OfChannel => f.ch \in Channels
     /\ f.at \notin Loops => f.sid \in Sids}

Frame(at, ch, sid) ==
  [at |-> at, ch |-> ch, sid |-> sid, todo |-> {}, dirs |-> {}]

Top == stack[Len(stack)]
Idle == stack = <<>>
At(label) == ~Idle /\ Top.at = label
InCallback == ~Idle /\ Top.at \in Callbacks

Pop(s) == SubSeq(s, 1, Len(s) - 1)
Replace(s, f) == [s EXCEPT ![Len(s)] = f]
Push(s, f) == Append(s, f)

Depth == Cardinality({i \in 1 .. Len(stack) : stack[i].at \in Callbacks})

(***************************************************************************)
(* The application calls the API when it is not inside the library or from *)
(* a callback.  Forbidden lists what it refrains from, "stopped" standing  *)
(* for a transport that is closed already.  Closing is refused only inside *)
(* the callbacks of the channel in question.                               *)
(***************************************************************************)
AppRuns == (Idle \/ InCallback) /\ Depth <= MaxDepth

MayCall(op) ==
  /\ AppRuns
  /\ \A i \in 1 .. Len(stack) : <<stack[i].at, op>> \notin Forbidden
  /\ tstate = "closed" => <<"stopped", op>> \notin Forbidden

MayClose(c) ==
  /\ AppRuns
  /\ \A i \in 1 .. Len(stack) :
        stack[i].ch = c => <<stack[i].at, "close">> \notin Forbidden

(***************************************************************************)
(* Data channels                                                           *)
(***************************************************************************)
ChannelStates == {"none", "connecting", "open", "closing", "closed"}
TransportStates == {"new", "connecting", "connected", "closed"}

ChannelRecords ==
  [state    : ChannelStates,
   sid      : Sids,
   known    : BOOLEAN,     \* RAWRTC_DATA_CHANNEL_FLAGS_INITIALIZED
   pending  : BOOLEAN,     \* .._FLAGS_PENDING_STREAM_RESET
   inReset  : BOOLEAN,     \* .._FLAGS_INCOMING_STREAM_RESET
   outReset : BOOLEAN]     \* .._FLAGS_OUTGOING_STREAM_RESET

(* Mutant: the context is created without its SID.                          *)
NewChannelAtZero(state, sid, known) ==
  [state |-> state, sid |-> 0, known |-> known,
   pending |-> FALSE, inReset |-> FALSE, outReset |-> FALSE]
NewChannel(state, sid, known) ==
  [state |-> state, sid |-> sid, known |-> known,
   pending |-> FALSE, inReset |-> FALSE, outReset |-> FALSE]

Unused(c) == chan[c].state = "none"
Registered(c) == \E s \in Sids : slots[s] = c
Free(s) == slots[s] = NoChannel

(* The element of S that an ascending loop starting at `from' meets first.  *)
NextIn(S, s, from) ==
  /\ s \in S
  /\ s >= from
  /\ \A r \in S : r >= from => s <= r

Filled == {s \in Sids : ~Free(s)}
(* Mutants: the first slot is skipped; the current state is not looked at.  *)
WaitingButFirst == {s \in Filled : s > 0 /\ chan[slots[s]].state = "connecting"}
WaitingAll == Filled
Waiting == {s \in Filled : chan[slots[s]].state = "connecting"}

(* In-band channels use the even SIDs on the DTLS client and the odd ones  *)
(* on the server.                                                          *)
OwnSids == {s \in Sids : s % 2 = IF Role = "client" THEN 0 ELSE 1}

Histories ==
  [resets : 0 .. 2, released : 0 .. 2, heard : Seq({"open", "closed"})]

MaxHistory == 4   \* bound on the history kept per channel and transport
Extend(h, e) == IF Len(h) < MaxHistory THEN Append(h, e) ELSE h
Hears(c, event) == [hist EXCEPT ![c].heard = Extend(@, event)]
Bump(n) == IF n < 2 THEN n + 1 ELSE n

(***************************************************************************)
(* Initially rawrtc_sctp_transport_create_from_external has succeeded.      *)
(***************************************************************************)
Init ==
  /\ tstate = "new"
  /\ detached = FALSE
  /\ socket = TRUE
  /\ amountLow = FALSE
  /\ queue = <<>>
  /\ slots = [s \in Sids |-> NoChannel]
  /\ curSid = 0
  /\ haveDT = FALSE
  /\ chan = [c \in Channels |-> NewChannel("none", 0, FALSE)]
  /\ resetReq = {}
  /\ stack = <<>>
  /\ hist = [c \in Channels |-> [resets |-> 0, released |-> 0, heard |-> <<>>]]
  /\ notes = <<>>

(***************************************************************************)
(* Returning from a callback.                                              *)
(***************************************************************************)
Return ==
  /\ InCallback
  /\ stack' = Pop(stack)
  /\ UNCHANGED <<tstate, detached, socket, amountLow, queue, slots, curSid,
                 haveDT, chan, resetReq, hist, notes>>

(***************************************************************************)
(* set_state(CLOSED).  close_data_channels walks over the slots; each      *)
(* channel is set to CLOSED, its close handler is called, and the slot is  *)
(* cleared when the handler returns.  Then the transport detaches, the     *)
(* socket goes, the state changes and the state handler is called.         *)
(***************************************************************************)
(* Mutant: the loop skips the first slot.                                    *)
ClosingFrameAfterFirst(from) ==
  Frame("close_channels", NoChannel, IF from = 0 THEN 1 ELSE from)
ClosingFrame(from) == Frame("close_channels", NoChannel, from)

CloseNextChannel ==
  /\ At("close_channels")
  /\ \E s \in Sids :
       /\ NextIn(Filled, s, Top.sid)
       /\ LET c == slots[s]
          IN  /\ chan' = [chan EXCEPT ![c].state = "closed"]
              /\ hist' = Hears(c, "closed")
              /\ stack' = Push(Push(Replace(stack, ClosingFrame(s + 1)),
                                    Frame("drop", c, s)),
                               Frame("teardown", c, s))
  /\ UNCHANGED <<tstate, detached, socket, amountLow, queue, slots, curSid,
                 haveDT, resetReq, notes>>

Detach ==
  /\ At("close_channels")
  /\ \A s \in Sids : s >= Top.sid => Free(s)
  /\ detached' = TRUE
  /\ stack' = Push(Replace(stack, Frame("detached", NoChannel, 0)),
                   Frame("detach", NoChannel, 0))
  /\ UNCHANGED <<tstate, socket, amountLow, queue, slots, curSid, haveDT, chan,
                 resetReq, hist, notes>>

CloseTransport ==
  /\ At("detached")
  /\ socket' = FALSE
  /\ resetReq' = {}
  /\ tstate' = "closed"
  /\ notes' = Extend(notes, "closed")
  /\ stack' = Replace(stack, Frame("closed", NoChannel, 0))
  /\ UNCHANGED <<detached, amountLow, queue, slots, curSid, haveDT, chan, hist>>

(* The transport gives up its reference: unconditionally after a regular   *)
(* close, after an improper one only if the channel is in its slot still.  *)
DropSlot(c, s) ==
  /\ slots' = [slots EXCEPT ![s] = NoChannel]
  /\ hist' = [hist EXCEPT ![c].released = Bump(@)]

Drop ==
  /\ \/ At("drop")
     \/ At("drop_if") /\ slots[Top.sid] = Top.ch
  /\ DropSlot(Top.ch, Top.sid)
  /\ stack' = Pop(stack)
  /\ UNCHANGED <<tstate, detached, socket, amountLow, queue, curSid, haveDT,
                 chan, resetReq, notes>>

DropSkipped ==
  /\ At("drop_if")
  /\ slots[Top.sid] # Top.ch
  /\ stack' = Pop(stack)
  /\ UNCHANGED <<tstate, detached, socket, amountLow, queue, slots, curSid,
                 haveDT, chan, resetReq, hist, notes>>

(***************************************************************************)
(* rawrtc_sctp_transport_start and rawrtc_sctp_transport_stop.  Stopping a *)
(* transport that is detached or closed does nothing.                      *)
(***************************************************************************)
Start ==
  /\ MayCall("start")
  /\ tstate = "new"
  /\ tstate' = "connecting"
  /\ notes' = Extend(notes, "connecting")
  /\ stack' = Push(Push(stack, Frame("mtu", NoChannel, 0)),
                   Frame("connecting", NoChannel, 0))
  /\ UNCHANGED <<detached, socket, amountLow, queue, slots, curSid, haveDT, chan,
                 resetReq, hist>>

(* usrsctp_connect fails.                                                   *)
StartFails ==
  /\ MayCall("start")
  /\ tstate = "new"
  /\ stack' = Push(stack, ClosingFrame(0))
  /\ UNCHANGED <<tstate, detached, socket, amountLow, queue, slots, curSid,
                 haveDT, chan, resetReq, hist, notes>>

(* Having called the state handler, start sets the default MTU and closes  *)
(* the transport when that fails; without a socket it always does.         *)
SetMtu ==
  /\ At("mtu")
  /\ \/ socket /\ stack' = Pop(stack)
     \/ stack' = Replace(stack, ClosingFrame(0))
  /\ UNCHANGED <<tstate, detached, socket, amountLow, queue, slots, curSid,
                 haveDT, chan, resetReq, hist, notes>>

(* Mutant: the detached flag is not checked.                                 *)
StoppableUnlessClosed == tstate # "closed"
Stoppable == ~detached /\ tstate # "closed"

Stop ==
  /\ MayCall("stop")
  /\ Stoppable
  /\ stack' = Push(stack, ClosingFrame(0))
  /\ UNCHANGED <<tstate, detached, socket, amountLow, queue, slots, curSid,
                 haveDT, chan, resetReq, hist, notes>>

(***************************************************************************)
(* Sending.  Any attempt clears the buffered-amount-low flag.  A message   *)
(* is passed to usrsctp at once if the transport is connected and nothing  *)
(* is deferred; otherwise, and when usrsctp has no room, it is deferred.   *)
(***************************************************************************)
Direct == tstate = "connected" /\ queue = <<>>

(* Mutant: the flag is left as it is.                                        *)
SctpSendKeepsFlag(c) ==
  /\ UNCHANGED amountLow
  /\ \/ Direct /\ UNCHANGED queue
     \/ Len(queue) < MaxQueue /\ queue' = Append(queue, c)
SctpSend(c) ==
  /\ amountLow' = FALSE
  /\ \/ Direct /\ UNCHANGED queue
     \/ Len(queue) < MaxQueue /\ queue' = Append(queue, c)

SctpSendFails == amountLow' = FALSE /\ UNCHANGED queue

(* Deferred messages leave in order, sent or refused, until usrsctp has no *)
(* room for the next one.                                                  *)
Drained(k) == SubSeq(queue, k + 1, Len(queue))

Send(c) ==
  /\ MayCall("send")
  /\ chan[c].known
  /\ chan[c].state = "open"
  /\ SctpSend(c) \/ SctpSendFails
  /\ UNCHANGED <<tstate, detached, socket, slots, curSid, haveDT, chan, resetReq,
                 stack, hist, notes>>

(***************************************************************************)
(* Creating a channel.  A channel in the connected state is opened, and    *)
(* its open handler called, before the creation has returned.              *)
(***************************************************************************)
GetDataTransport ==
  /\ MayCall("create")
  /\ tstate # "closed"
  /\ haveDT' = TRUE
  /\ UNCHANGED <<tstate, detached, socket, amountLow, queue, slots, curSid, chan,
                 resetReq, stack, hist, notes>>

RegisterCreated(c, s) ==
  /\ slots' = [slots EXCEPT ![s] = c]
  /\ IF tstate = "connected"
       THEN /\ chan' = [chan EXCEPT ![c] = NewChannel("open", s, FALSE)]
            /\ hist' = Hears(c, "open")
            /\ stack' = Push(Push(stack, Frame("created", c, s)),
                             Frame("open", c, s))
       ELSE /\ chan' = [chan EXCEPT ![c] = NewChannel("connecting", s, TRUE)]
            /\ UNCHANGED <<hist, stack>>

CreateNegotiated(c, s) ==
  /\ MayCall("create")
  /\ haveDT
  /\ Unused(c)
  /\ Free(s)
  /\ RegisterCreated(c, s)
  /\ UNCHANGED <<tstate, detached, socket, amountLow, queue, curSid, haveDT,
                 resetReq, notes>>

(* The DCEP open message is sent first, on the first free SID; the channel *)
(* is registered only if that succeeds.                                    *)
CreateInband(c) ==
  /\ MayCall("create")
  /\ haveDT
  /\ Unused(c)
  /\ \E s \in OwnSids :
       /\ NextIn(OwnSids \ Filled, s, 0)
       /\ RegisterCreated(c, s)
  /\ SctpSend(c)
  /\ UNCHANGED <<tstate, detached, socket, curSid, haveDT, resetReq, notes>>

CreateInbandFails ==
  /\ MayCall("create")
  /\ haveDT
  /\ OwnSids \ Filled # {}
  /\ SctpSendFails
  /\ UNCHANGED <<tstate, detached, socket, slots, curSid, haveDT, chan, resetReq,
                 stack, hist, notes>>

Created ==
  /\ At("created")
  /\ chan' = [chan EXCEPT ![Top.ch].known = TRUE]
  /\ stack' = Pop(stack)
  /\ UNCHANGED <<tstate, detached, socket, amountLow, queue, slots, curSid,
                 haveDT, resetReq, hist, notes>>

(***************************************************************************)
(* A DCEP open message arrives on a free SID of the other parity.  The ack *)
(* is sent, the channel registered and the data channel handler called;    *)
(* then the channel is opened, whatever that handler did to it.  If the    *)
(* ack cannot be sent the channel is abandoned.                            *)
(***************************************************************************)
(* Mutant: the slot may be occupied.                                         *)
AcceptableUnlessOwn(s) == s \notin OwnSids
Acceptable(s) == s \notin OwnSids /\ Free(s)

RemoteOpen(c, s) ==
  /\ Idle
  /\ tstate = "connected"
  /\ Acceptable(s)
  /\ Unused(c)
  /\ SctpSend(c)
  /\ slots' = [slots EXCEPT ![s] = c]
  /\ chan' = [chan EXCEPT ![c] = NewChannel("connecting", s, TRUE)]
  /\ stack' = Push(Push(stack, Frame("register", c, s)), Frame("channel", c, s))
  /\ UNCHANGED <<tstate, detached, socket, curSid, haveDT, resetReq, hist, notes>>

RemoteOpenFails(s) ==
  /\ Idle
  /\ tstate = "connected"
  /\ Acceptable(s)
  /\ SctpSendFails
  /\ UNCHANGED <<tstate, detached, socket, slots, curSid, haveDT, chan, resetReq,
                 stack, hist, notes>>

OpenRegistered ==
  /\ At("register")
  /\ IF tstate = "connected"
       THEN /\ chan' = [chan EXCEPT ![Top.ch].state = "open"]
            /\ hist' = Hears(Top.ch, "open")
            /\ stack' = Replace(stack, Frame("open", Top.ch, Top.sid))
       ELSE /\ stack' = Pop(stack)
            /\ UNCHANGED <<chan, hist>>
  /\ UNCHANGED <<tstate, detached, socket, amountLow, queue, slots, curSid,
                 haveDT, resetReq, notes>>

(***************************************************************************)
(* reset_outgoing_stream.  While messages are deferred (of any channel)    *)
(* the reset is only noted down; otherwise usrsctp is asked to reset the   *)
(* stream.  If it refuses, the channel is closed improperly: its close     *)
(* handler is called and it is removed from its slot.                      *)
(***************************************************************************)
(* Mutant: nothing is waited for.                                            *)
MustNotWait == FALSE
MustWait == queue # <<>>

(* The channel record once the reset is noted down.                         *)
(* Mutant: the flag is not set.                                             *)
DeferredUnnoted(record) == [record EXCEPT !.state = "closing"]
Deferred(record) == [record EXCEPT !.pending = TRUE, !.state = "closing"]

AskForReset(c) ==
  /\ ~MustWait
  /\ socket
  /\ tstate # "new"
  /\ resetReq' = resetReq \cup {chan[c].sid}

ResetIssued(c) == [hist[c] EXCEPT !.resets = Bump(@)]

(* `below' is the stack of the caller, `record' what it made of c so far.   *)
CloseImproperly(c, record, below) ==
  /\ ~MustWait
  /\ chan' = [chan EXCEPT ![c] = [record EXCEPT !.state = "closed"]]
  /\ hist' = Hears(c, "closed")
  /\ stack' = Push(Push(below, Frame("drop_if", c, record.sid)),
                   Frame("close", c, record.sid))
  /\ UNCHANGED resetReq

(***************************************************************************)
(* rawrtc_data_channel_close: nothing happens to a channel whose creation  *)
(* has not returned or that is closing already; a channel that is not in   *)
(* its slot is left alone.                                                 *)
(***************************************************************************)
(* Mutant: a channel that is closed is closed again.                        *)
CloseableWhenClosed(c) == chan[c].known /\ chan[c].state # "closing"
Closeable(c) == chan[c].known /\ chan[c].state \notin {"closing", "closed"}

Close(c) ==
  /\ MayClose(c)
  /\ Closeable(c)
  /\ slots[chan[c].sid] = c
  /\ \/ /\ MustWait
        /\ chan' = [chan EXCEPT ![c] = Deferred(@)]
        /\ UNCHANGED <<resetReq, hist, stack>>
     \/ /\ AskForReset(c)
        /\ chan' = [chan EXCEPT ![c].state = "closing"]
        /\ hist' = [hist EXCEPT ![c] = ResetIssued(c)]
        /\ UNCHANGED stack
     \/ CloseImproperly(c, chan[c], stack)
  /\ UNCHANGED <<tstate, detached, socket, amountLow, queue, slots, curSid,
                 haveDT, notes>>

(***************************************************************************)
(* Association events.                                                     *)
(***************************************************************************)
CommUp(k) ==
  /\ Idle
  /\ tstate = "connecting"
  /\ tstate' = "connected"
  /\ queue' = Drained(k)
  /\ stack' = Push(stack, Frame("open_channels", NoChannel, 0))
  /\ UNCHANGED <<detached, socket, amountLow, slots, curSid, haveDT, chan,
                 resetReq, hist, notes>>

(* Channels waiting in the connecting state are opened one by one, before  *)
(* the state handler is told that the transport is connected.              *)
OpenNextChannel ==
  /\ At("open_channels")
  /\ \E s \in Sids :
       /\ NextIn(Waiting, s, Top.sid)
       /\ chan' = [chan EXCEPT ![slots[s]].state = "open"]
       /\ hist' = Hears(slots[s], "open")
       /\ stack' = Push(Replace(stack, Frame("open_channels", NoChannel, s + 1)),
                        Frame("open_all", slots[s], s))
  /\ UNCHANGED <<tstate, detached, socket, amountLow, queue, slots, curSid,
                 haveDT, resetReq, notes>>

NotifyConnected ==
  /\ At("open_channels")
  /\ \A s \in Waiting : s < Top.sid
  /\ notes' = Extend(notes, "connected")
  /\ stack' = Replace(stack, Frame("connected", NoChannel, 0))
  /\ UNCHANGED <<tstate, detached, socket, amountLow, queue, slots, curSid,
                 haveDT, chan, resetReq, hist>>

(* SCTP_COMM_LOST, SCTP_SHUTDOWN_COMP and SCTP_CANT_STR_ASSOC.              *)
CommLost ==
  /\ Idle
  /\ ~detached
  /\ tstate \in {"connecting", "connected"}
  /\ stack' = Push(stack, ClosingFrame(0))
  /\ UNCHANGED <<tstate, detached, socket, amountLow, queue, slots, curSid,
                 haveDT, chan, resetReq, hist, notes>>

(* write_event_handler: the socket has become writable.  On a transport that *)
(* is not connected yet every deferred message is refused, hence dropped.   *)
WriteEvent(k) ==
  /\ Idle
  /\ ~detached
  /\ tstate \in {"connecting", "connected"}
  /\ tstate = "connecting" => k = Len(queue)
  /\ queue # <<>>
  /\ queue' = Drained(k)
  /\ UNCHANGED <<tstate, detached, socket, amountLow, slots, curSid, haveDT,
                 chan, resetReq, stack, hist, notes>>

(***************************************************************************)
(* handle_sender_dry_event: nothing is outstanding.  The channels are      *)
(* visited in a rotation that resumes where the last one stopped, until    *)
(* all were visited or a send has cleared the flag.  A channel with a      *)
(* pending reset is reset, any other one hears that its amount is low.     *)
(* With messages still deferred the event is ignored.                      *)
(***************************************************************************)
DryFrame(at, ch, sid, todo) ==
  [Frame(at, ch, sid) EXCEPT !.todo = todo]

SenderDry ==
  /\ Idle
  /\ ~detached
  /\ tstate = "connected"
  /\ queue = <<>>
  /\ amountLow' = TRUE
  /\ stack' = Push(stack, DryFrame("dry", NoChannel, curSid, Sids))
  /\ UNCHANGED <<tstate, detached, socket, queue, slots, curSid, haveDT, chan,
                 resetReq, hist, notes>>

(* reset_outgoing_stream does not defer here: the buffered-amount-low flag   *)
(* is set, so that nothing is deferred (LowImpliesEmptyQueue).              *)
DryVisit ==
  /\ At("dry")
  /\ LET c == slots[Top.sid]
         After(ch) == Replace(stack, DryFrame("dry_next", ch, Top.sid,
                                              Top.todo \ {Top.sid}))
     IN  \/ /\ c = NoChannel
            /\ stack' = After(NoChannel)
            /\ UNCHANGED <<chan, resetReq, hist>>
         \/ /\ c # NoChannel
            /\ ~chan[c].pending
            /\ stack' = Push(After(NoChannel), Frame("low", c, Top.sid))
            /\ UNCHANGED <<chan, resetReq, hist>>
         \/ /\ c # NoChannel
            /\ chan[c].pending
            /\ \/ /\ AskForReset(c)
                  /\ hist' = [hist EXCEPT ![c] = ResetIssued(c)]
                  /\ stack' = After(c)
                  /\ UNCHANGED chan
               \/ CloseImproperly(c, chan[c], After(c))
  /\ UNCHANGED <<tstate, detached, socket, amountLow, queue, slots, curSid,
                 haveDT, notes>>

(* Mutant: no wrap-around.                                                   *)
FollowingUnwrapped(s) == s + 1
Following(s) == (s + 1) % NChannels

(* Where the next sender dry event starts.  Mutant: at the first SID.       *)
ResumeAtFirst(s) == 0
Resume(s) == Following(s)

DryAdvance ==
  /\ At("dry_next")
  /\ \/ /\ amountLow
        /\ Top.todo # {}
        /\ stack' = Replace(stack, DryFrame("dry", NoChannel, Following(Top.sid),
                                            Top.todo))
        /\ UNCHANGED curSid
     \/ /\ ~amountLow \/ Top.todo = {}
        /\ stack' = Pop(stack)
        /\ curSid' = Resume(Top.sid)
  /\ chan' = IF Top.ch = NoChannel THEN chan
             ELSE [chan EXCEPT ![Top.ch].pending = FALSE]
  /\ UNCHANGED <<tstate, detached, socket, amountLow, queue, slots, haveDT,
                 resetReq, hist, notes>>

(***************************************************************************)
(* handle_stream_reset_event: usrsctp reports streams reset by the peer    *)
(* ("in"), streams whose reset by us the peer has confirmed ("out"), or    *)
(* both.  A denied or failed reset is ignored.                             *)
(***************************************************************************)
StreamReset(sids, dirs) ==
  /\ Idle
  /\ ~detached
  /\ tstate = "connected"
  /\ "out" \in dirs => sids \subseteq resetReq
  /\ resetReq' = IF "out" \in dirs THEN resetReq \ sids ELSE resetReq
  /\ stack' = Push(stack, [Frame("reset", NoChannel, 0) EXCEPT !.todo = sids,
                                                               !.dirs = dirs])
  /\ UNCHANGED <<tstate, detached, socket, amountLow, queue, slots, curSid,
                 haveDT, chan, hist, notes>>

StreamResetDenied(s) ==
  /\ Denials
  /\ Idle
  /\ tstate = "connected"
  /\ s \in resetReq
  /\ resetReq' = resetReq \ {s}
  /\ UNCHANGED <<tstate, detached, socket, amountLow, queue, slots, curSid,
                 haveDT, chan, stack, hist, notes>>

Later(s) == Replace(stack, [Top EXCEPT !.todo = @ \ {s}])

(* The flags of the event are recorded on the channel.                      *)
Noted(record) ==
  [record EXCEPT !.inReset  = @ \/ "in" \in Top.dirs,
                 !.outReset = @ \/ "out" \in Top.dirs]

(* A channel both of whose streams have been reset is closed.               *)
CloseIfReset(c, record, history, below) ==
  IF record.inReset /\ record.outReset
    THEN /\ chan' = [chan EXCEPT ![c] = [record EXCEPT !.state = "closed"]]
         /\ hist' = [hist EXCEPT ![c] =
                       [history EXCEPT !.heard = Extend(@, "closed")]]
         /\ stack' = Push(Push(below, Frame("drop", c, record.sid)),
                          Frame("close", c, record.sid))
    ELSE /\ chan' = [chan EXCEPT ![c] = record]
         /\ hist' = [hist EXCEPT ![c] = history]
         /\ stack' = below

(* The peer has closed first, our stream has to be reset in turn.           *)
MustAnswer(c) ==
  "in" \in Top.dirs /\ chan[c].state \notin {"closing", "closed"}

ResetUnregistered(s) ==
  /\ Free(s)
  /\ stack' = Later(s)
  /\ UNCHANGED <<chan, resetReq, hist>>

ResetNoted(s) ==
  /\ ~Free(s)
  /\ ~MustAnswer(slots[s])
  /\ CloseIfReset(slots[s], Noted(chan[slots[s]]), hist[slots[s]], Later(s))
  /\ UNCHANGED resetReq

ResetAnswered(s) ==
  /\ ~Free(s)
  /\ MustAnswer(slots[s])
  /\ LET c == slots[s]
     IN  \/ /\ MustWait
            /\ CloseIfReset(c, Deferred(Noted(chan[c])), hist[c], Later(s))
            /\ UNCHANGED resetReq
         \/ /\ AskForReset(c)
            /\ CloseIfReset(c, [Noted(chan[c]) EXCEPT !.state = "closing"],
                            ResetIssued(c), Later(s))

ResetAnswerFails(s) ==
  /\ ~Free(s)
  /\ MustAnswer(slots[s])
  /\ CloseImproperly(slots[s], [chan[slots[s]] EXCEPT !.inReset = TRUE], Later(s))

ResetNext ==
  /\ At("reset")
  /\ \E s \in Top.todo :
       /\ NextIn(Top.todo, s, 0)
       /\ \/ ResetUnregistered(s)
          \/ ResetNoted(s)
          \/ ResetAnswered(s)
          \/ ResetAnswerFails(s)
  /\ UNCHANGED <<tstate, detached, socket, amountLow, queue, slots, curSid,
                 haveDT, notes>>

ResetDone ==
  /\ At("reset")
  /\ Top.todo = {}
  /\ stack' = Pop(stack)
  /\ UNCHANGED <<tstate, detached, socket, amountLow, queue, slots, curSid,
                 haveDT, chan, resetReq, hist, notes>>

(***************************************************************************)
(* The specification.  App: calls of the application.  Library: code of    *)
(* the library that runs between two callbacks.  Events: what usrsctp      *)
(* delivers.                                                               *)
(***************************************************************************)
App ==
  \/ Start \/ StartFails \/ Stop \/ GetDataTransport \/ CreateInbandFails
  \/ \E c \in Channels : CreateInband(c) \/ Close(c) \/ Send(c)
  \/ \E c \in Channels, s \in Sids : CreateNegotiated(c, s)

Library ==
  \/ CloseNextChannel \/ Detach \/ CloseTransport \/ Drop \/ DropSkipped
  \/ SetMtu \/ Created \/ OpenRegistered \/ OpenNextChannel \/ NotifyConnected
  \/ DryVisit \/ DryAdvance \/ ResetNext \/ ResetDone

Events ==
  \/ \E k \in 0 .. Len(queue) : CommUp(k)
  \/ \E k \in 1 .. Len(queue) : WriteEvent(k)
  \/ CommLost \/ SenderDry
  \/ \E sids \in SUBSET Sids \ {{}}, dirs \in SUBSET Directions \ {{}} :
       StreamReset(sids, dirs)
  \/ \E s \in Sids : StreamResetDenied(s) \/ RemoteOpenFails(s)
  \/ \E c \in Channels, s \in Sids : RemoteOpen(c, s)

Next == App \/ Return \/ Library \/ Events

Spec == Init /\ [][Next]_vars

(***************************************************************************)
(* Fairness.  The application returns from its callbacks and the library   *)
(* runs on.  usrsctp connects or gives up; as long as it is connected its  *)
(* buffer drains, so that all that is deferred can leave and the sender    *)
(* runs dry, again and again; the peer confirms the reset of a stream and  *)
(* resets the stream of the other direction in turn.                       *)
(***************************************************************************)
PeerResets(s) == ~Free(s) /\ chan[slots[s]].outReset /\ StreamReset({s}, {"in"})

Settled ==
  /\ tstate = "connecting"
  /\ CommLost \/ \E k \in 0 .. Len(queue) : CommUp(k)

Fairness ==
  /\ WF_vars(Return)
  /\ WF_vars(Library)
  /\ SF_vars(Settled)
  /\ SF_vars(WriteEvent(Len(queue)))
  /\ SF_vars(SenderDry)
  /\ \A s \in Sids : SF_vars(StreamReset({s}, {"out"})) /\ SF_vars(PeerResets(s))

FairSpec == Spec /\ Fairness

-----------------------------------------------------------------------------
(* Every variable keeps its type; in particular transport->channels holds  *)
(* only channels or NULL and the loop indices stay within the array.       *)
TypeOK ==
  /\ tstate \in TransportStates
  /\ detached \in BOOLEAN
  /\ socket \in BOOLEAN
  /\ amountLow \in BOOLEAN
  /\ queue \in Seq(Channels)
  /\ slots \in [Sids -> Channels \cup {NoChannel}]
  /\ curSid \in Sids
  /\ haveDT \in BOOLEAN
  /\ chan \in [Channels -> ChannelRecords]
  /\ resetReq \in SUBSET Sids
  /\ stack \in Seq(Frames)
  /\ hist \in [Channels -> Histories]
  /\ notes \in Seq(TransportStates)

(* A channel sits in the slot of its own SID only, so that no two SIDs     *)
(* lead to one channel and no channel is registered under a wrong SID      *)
(* (channel_register and the places that clear a slot).                    *)
RegistrySound ==
  \A s \in Sids : ~Free(s) =>
    chan[slots[s]].sid = s /\ chan[slots[s]].state # "none"

(* While the buffered-amount-low flag is set nothing is deferred, so the   *)
(* sender dry loop never resets a stream whose messages still wait.        *)
LowImpliesEmptyQueue == amountLow => queue = <<>>

(* A close is never forgotten: a registered channel that is closing has    *)
(* its stream reset pending or has asked usrsctp for it.                   *)
CloseNeverForgotten ==
  \A s \in Filled :
    chan[slots[s]].state = "closing" =>
      chan[slots[s]].pending \/ hist[slots[s]].resets > 0

(* A stream is "not reset before all pending outgoing messages of that     *)
(* channel have been sent" (transport.c:1041): once usrsctp was asked to   *)
(* reset it, no message of the channel is deferred any more.  And it is    *)
(* asked so at most once.                                                  *)
ResetAfterData ==
  \A c \in Channels :
    /\ hist[c].resets <= 1
    /\ hist[c].resets > 0 => \A i \in 1 .. Len(queue) : queue[i] # c

(* The handlers of a channel hear of its opening at most once and of its   *)
(* closing at most once, the closing being the last they hear.             *)
HandlersInOrder ==
  \A c \in Channels :
    hist[c].heard \in {<<>>, <<"open">>, <<"closed">>, <<"open", "closed">>}

(* The state change handler hears connecting, connected and closed in that *)
(* order, each at most once ("Caller MUST ensure that the same state is    *)
(* not set twice", transport.c:583).                                       *)
NotificationsInOrder ==
  \A i, j \in 1 .. Len(notes) :
    i < j => <<notes[i], notes[j]>> \in
      {<<"connecting", "connected">>, <<"connecting", "closed">>,
       <<"connected", "closed">>}

(* The transport drops its reference to a channel exactly once: never      *)
(* twice, and a channel it still owns sits in its slot.                    *)
ReleasedOnce ==
  \A c \in Channels :
    /\ hist[c].released <= 1
    /\ ~Unused(c) => (Registered(c) <=> hist[c].released = 0)

(* Once closed, a transport has no socket, no channel in any slot, and     *)
(* every channel ever created on it is closed.                             *)
ClosedIsClean ==
  tstate = "closed" =>
    /\ ~socket /\ detached
    /\ Filled = {}
    /\ \A c \in Channels : chan[c].state \in {"none", "closed"}

(* When the library is at rest on a connected transport no channel is left *)
(* waiting in the connecting state, and on any transport at rest a closed  *)
(* channel has left its slot and a live one is in it.                      *)
SettledAtRest ==
  Idle =>
    \A c \in Channels :
      /\ chan[c].state = "connecting" => tstate \in {"new", "connecting"}
      /\ Registered(c) <=> chan[c].state \in {"connecting", "open", "closing"}

(* A channel that is being closed is closed in the end, once the transport *)
(* has been started, whatever the application keeps sending from within    *)
(* the low handlers of other channels (handle_sender_dry_event resumes     *)
(* its rotation where it stopped).                                         *)
ClosingEnds ==
  \A c \in Channels :
    (chan[c].state = "closing" /\ tstate # "new") ~> chan[c].state = "closed"

(* What the transport promises: see DataChannelService.                     *)
Service == INSTANCE DataChannelService WITH
  transport <- tstate,
  channel   <- [c \in Channels |-> chan[c].state],
  told      <- [c \in Channels |-> hist[c].heard]
ServiceSpec == Service!Spec
=============================================================================
