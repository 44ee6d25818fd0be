# Verification of rawrtc-data-channel

TLA+ models of the data channel library: what its SCTP transport does with
channels, messages and events of usrsctp, checked with TLC on small instances
and, for the central invariants, proved with TLAPS for every value of the
constants. Line numbers refer to the source in `src/`; `T:n` stands for
`src/src/sctp_transport/transport.c:n`.

## 1. The system

The library sits between an application and usrsctp. It is single threaded:
everything runs in one event loop (re). What makes it hard is not threads but
**re-entrance**: nearly every function ends in a callback into the application,
from which the application may create, close, send or stop, while the function
that called it still holds an index into an array, a pointer to a channel or a
state it read before.

| Component | State | Operations | Correct when |
|---|---|---|---|
| SCTP transport: life and channels (`sctp_transport/transport.c`) | `state`, `flags` (detached, sending in progress, buffered amount low), `channels[]`, `current_channel_sid`, socket | create, start, stop, get data transport; channel create / close handlers; events of usrsctp: association change, sender dry, stream reset | a slot holds the channel of its SID; every channel is opened once, closed once, released once; a stream is reset once and not before its data; a closed transport is clean |
| Sending (same file, T:293-529, 2605-2684, 2839-2940) | `buffered_messages_outgoing`, the position and send info of each message | send, deferral, flush on connection and on write events | each stream carries the messages sent, in order, cut where they end; what is deferred leaves |
| Receiving (same file, T:916-972, 1397-1776) | `buffer_inbound`, `info_inbound` per channel, pending flag, `buffer_dcep_inbound` | read event, partial delivery event | a message reported complete is whole and of one stream |
| DCEP (same file, T:84-262, 1252-1395) and closing (T:1070-1142), seen from both ends | `CAN_SEND_UNORDERED` and the two reset flags per channel | open, ack, data, stream resets | both ends agree on the channel of a SID and its parameters; a message meets its channel; closing ends and loses nothing |
| Upcall loop (T:1697-1874) | set of ignored events | read / write / error events | ends; leaves nothing unread; drops nothing that is deferred |
| Data channel (`data_channel/channel.c`) | `state`, `flags`, handlers | create, send, close, destroy | handlers hear open, then closed, once each |
| Data channel attributes (`data_channel/attributes.c`) | streaming flag | set streaming; getters and setters | mode changes between messages only |
| Data transport (`data_transport/`) | reference to the transport, table of handlers | create, destroy | one per transport |
| Redirect transport (`sctp_redirect_transport/`) | state, detached flag, raw socket and whether it is listened to | create, start, stop, destroy, forward both ways | uses no descriptor but its own; is called back only while open; leaves no socket behind |
| Library life cycle (`main/`, T:1947-2328) | counter of transports, chunk size, timer | create and destroy a transport; init / close usrsctp on the first / last one | the counter is exact whatever step of a creation fails; every transport in use has what the first one set up |
| Parameters (`data_channel_parameters/`) | immutable | create, copy at the other end | both ends have the same |
| Capabilities, CRC32c, socket options | - | records, getters, arithmetic, wrappers | no behaviour of their own |
| usrsctp, re, rawrtcc (external) | - | send, receive, events, buffers | modelled from how the code uses them |

Interactions. The application calls the library and is called back (state
change, data channel, open, close, message, buffered-amount-low, detach
handlers). The data channel calls the transport through the handlers of the
data transport (`channel_create`, `channel_close`, `channel_send`,
`channel_set_streaming`). usrsctp raises an upcall; the event loop of the
transport reads notifications and data and dispatches them. Nothing is
persisted, so there is no crash recovery.

`PROJECT.json` lists each component with what is modelled of it, and under
`hazards` every place where something can go wrong that a test would hardly
reach.

## 2. The modules

| Module | Models |
|---|---|
| `SctpTransport` | one transport, its channels, the call stack, and all callbacks |
| `DataChannelService` | abstract specification of that: what the application may rely on |
| `SctpTransportProofs` | theorems about `SctpTransport`: types, registry, low flag |
| `SctpTransportInvariants` | contracts with the application, and the invariants its safety properties rest on |
| `SctpTransportSafetyProofs` | theorems about `SctpTransport`: the other safety properties, and that it implements `DataChannelService` |
| `SendQueue` | how messages are cut, deferred and resumed |
| `MessageFifo` | abstract specification of that: a queue |
| `SendQueueProofs` | theorems about `SendQueue`, and that it implements `MessageFifo` |
| `Reassembly` | how received pieces become messages |
| `ReassemblyProofs` | theorems about `Reassembly` |
| `Lifecycle` | what all transports of a process share: counter, usrsctp, timer, chunk size |
| `LifecycleProofs` | theorems about `Lifecycle` |
| `Handshake` | two endpoints and the network between them: DCEP, data, stream resets, SIDs used again |
| `HandshakeInvariants` | the inductive invariant its safety properties follow from |
| `HandshakeProofs` | theorems about `Handshake` |
| `Upcalls` | the event loop of the transport and the events it ignores |
| `UpcallsProofs` | theorems about `Upcalls` |
| `RedirectTransport` | SCTP redirect transports, their raw sockets and other users of descriptors |
| `RedirectTransportProofs` | theorems about `RedirectTransport` |
| `MCSctpTransport`, `MCSendQueue`, `MCReassembly`, `MCLifecycle`, `MCHandshake`, `MCUpcalls`, `MCRedirectTransport` | instances for TLC |

### SctpTransport

The variables are the fields of `struct rawrtc_sctp_transport` (`tstate`,
`detached`, `socket`, `amountLow`, `queue`, `slots`, `curSid`) and of the
channels with their contexts (`chan`), what usrsctp has been asked (`resetReq`),
what the application holds (`haveDT`), the **call stack** and two histories
(`hist`, `notes`) for the properties.

A C function is cut at the callbacks it makes. `stack` is the C call stack: its
top frame is either a callback the application is in (`"open"`, `"close"`,
`"low"`, ...) or the point where a library function goes on once the callback
above it returns (`"close_channels"`: the loop of `close_data_channels`,
`"register"`: `channel_register` after the data channel handler, `"mtu"`:
`start` after the state handler, `"dry"` and `"dry_next"`: the loop of
`handle_sender_dry_event`, ...). Between two callbacks a function runs as one
step. The application may call any API function when the stack is empty or when
a callback is on top; usrsctp delivers an event only when the stack is empty,
as its upcalls do. `"open_all"` and `"teardown"` are the open and close
handlers when called from `set_data_channel_states` and `close_data_channels`.

Failures: a send, an open request (`CreateInbandFails`, `RemoteOpenFails`),
`usrsctp_connect` (`StartFails`), the MTU option (`SetMtu`) and a stream reset
(`CloseImproperly`) may each fail at any time, and the peer may deny a reset
(`Denials`).

Two details of the source that a reader may stumble on. The flags of a stream
reset event are kept in `channel->flags` and not in the channel's context
(T:1111, 1129, 1133); they do not collide with the other flags of the channel,
so `ChannelRecords` keeps all flags in one record. And `current_channel_sid`
is where the sender dry rotation resumes, hence `curSid`.

**The contract `Forbidden`.** Some calls from within some callbacks lead the
code into states that its own comments exclude. `Forbidden` is the set of
`<<callback, call>>` pairs the application refrains from while the callback
runs. The proofs hold for *every* value of it, the run `core_any` uses `{}`,
and the run `core` uses `Careful` (`MCSctpTransport`):

- stop, create or start in the close handlers that a closing transport calls,
  create or start in its detach handler, create on a closed transport;
- stop or start in any close handler;
- close of a channel in the data channel handler that announces it;
- stop in the state handler called for "connecting";
- stop in the open handlers called when the association comes up. The code
  means to make this impossible (T:636), but the open handlers are called
  before the next channel is opened (T:535-554).

Nothing in the public headers tells the application so. Two violation runs drop
one of these and show what happens. `stop_in_close_handler` allows the stop in
the close handlers that a running transport calls (`<<"close", "stop">>`); its
trace is the improper close (T:708). The regular close after both resets (T:1137)
has the same order: there TLC finds the handler called twice too and, as this
place drops the reference without looking whether the channel is still in its
slot, `ReleasedOnce` violated. A stop in the handlers called by
`close_data_channels` (`<<"teardown", "stop">>`) starts that loop again from within
(T:573) and calls the handler twice as well. Of the others TLC finds, when the line is
taken out of `Careful`: a stop in the handler for "connecting" makes `start`
(T:2795) close the closed transport a second time (`NotificationsInOrder`), and
a channel created while `close_data_channels` runs lands in a slot the loop has
passed and outlives the transport (`ClosedIsClean`).

`DataChannelService` is what remains when the stack, the flags and the queue
are hidden: each channel goes from none to connecting or open, open, closing
and closed and never back, its handlers hear each step once, and a closed
transport has only closed channels.

### SendQueue

One step is one call of `usrsctp_sendv`. `left`, `eor` are the position in the
buffer of a message and `SCTP_EOR` in its send info, `job` the message
`sctp_transport_send` is busy with (for the application or from the queue),
`wire` the pieces usrsctp took. usrsctp may take any part of a chunk, have no
room, or refuse for good. Each message has a buffer of its own. `MessageFifo`
says that messages leave in the order they were handed over, except that the
first may be dropped. Its queue is `Pending`, what is deferred behind the message
that is being sent directly; `ended` is a history of the messages whose record
was ended. `Failures` includes a write event before the association
is up, which makes the flush drop what is deferred (T:2853, 326).

### Reassembly

Each stream has a script of SCTP messages (PPID kind, number of pieces, real
message); a step delivers the next piece of one of them, so the pieces of
different streams interleave in every order, as usrsctp delivers them with
fragment interleaving switched on (T:2078). Partial delivery may abort a
message, the application may switch the delivery mode when the code lets it.
The transport is connected. A channel comes with a DCEP message
(`HandleDcep`, which may also be an ack, of an unknown type or refused, and then
changes nothing here) or is negotiated (`CreateNegotiated`); what came for it before is
dropped. Channels are not closed, so that the refusal of `set_streaming` for a
closing one does not occur; the model switches at least as often as the code.
Running out of memory is left out.

One constant excludes what the code does get wrong. `MidMessage`: when a
negotiated channel is created while a message arrives on its stream, the code
does not know that it has missed the start (T:1484) and hands the rest over as
a complete message. With `TRUE` TLC finds `DeliveredWhole` violated in five
states. `WellFormed`, `Unfragmented` and `DcepApart` say of the script what the
theorems need; the script of the run `reassembly` satisfies all three, that of
`dcep_interleaved` violates the last.

### Lifecycle

`counter`, `chunkKnown` and `timerHandler` are fields of `rawrtcdc_global`,
`usrsctp` and `timer` what the library has asked of usrsctp and of the timer
handler. `phase` says where a transport is between its allocation and the end
of its destructor. `Create` picks the step that fails; everything from the
initialisation of usrsctp to that step is one action, as nothing of the
application runs in between (the timer handler and the getters of the context
are taken not to call back). A failing creation runs the destructor, which
stops the transport and so calls the detach and the state handler of a transport
the application has not received. `stack` holds the callbacks the application is
in; it may create, stop and drop other transports there. `Drop` is the last reference
to a transport, including those of data transports.

The contract, beyond that of `SctpTransport`: a transport is not dropped in one
of its own callbacks, no reference to it is taken while it is destroyed, and
the library is closed after the last transport (the TODO at `main.c:54` names the gap).
And one that is a constant: unless `NestedCreation`, no transport is created in
a callback of one whose creation has just failed. Without this the code breaks
`Ready`: only the creation that finds a counter of 1 starts the timer (T:2109)
and reads the chunk size (T:2177); when it fails, a transport created in its
detach handler finds a counter of 2, and lives on without either. TLC finds this
in four states when `NestedCreation` is set to `TRUE` in `Lifecycle.cfg`. Cancelling the timer is taken
to succeed (T:1976 only warns). When the allocation fails (T:2091), usrsctp stays
initialised with a counter of 0 and is initialised again by the next creation.

### Handshake

`slots`, `chan` are `transport->channels` and the channels with their contexts,
at either end. A handler of one end is one step; what callbacks do in the middle
of it is the subject of `SctpTransport`. `wire[e][s]` is all that end `e` has
sent on stream `s` and that is under way, first in its deferred messages, then
in usrsctp and the network: the code resets a stream after the messages that
are deferred, so these are one sequence. `CanArrive` says what of it may come
next: ordered data, OPEN and ack in order, unordered data before any of these, a
reset when everything before it has arrived or was given up, and the
confirmation of a reset, which is in no stream, whenever it likes. `Lose` gives
up a message sent under a partial reliability policy.

A channel has a name in the model, which the code does not have: it knows
channels by their SID. The histories `refused` and `astray` collect those whose
OPEN met a slot that was taken and those a message of which came to another
channel or to none.

`CloseImproperly`, `DenyReset` and the third branches of `ReceiveOpen` and
`ReceiveReset` are the failures. After one of them the two ends disagree for
good and nothing in the code or its documents promises otherwise; the
properties except that stream (`failed`), and only that one. They also except a
stream on which an OPEN arrived before the confirmation of the reset before it
(`overtaken`): the confirmation then clears the new channel. RFC 6525 lets a
response be late, whether usrsctp holds the OPEN back until then cannot be told
from the code in src/.

### Upcalls

`pc` follows `upcall_handler_helper`: ask for the events, then the error, read
and write handlers, then again. `inbox`, `room` and `soError` are what usrsctp
has: items to read, room to write, an error. `Reported` is what it says of it;
it may call a socket readable that has nothing to read, as the code observed
(T:1852), and one with an error it does call readable. `recvv` returns the error
and clears it. What it says of a socket that a handler has closed is the
constant `DeadEvents`.

The handlers are abstract: `Handle` reads one item and does what the state
allows, `Flushed` says what a flush may leave of the queue, and `Sent` what any
number of sends make of it; the application may send and stop in callbacks, after
the flush when the association comes up (`CommUp`: the open handlers and the state
handler). Items arrive and room appears between upcalls, not during one:
both come through re's event loop, in the same thread. Whether usrsctp raises
upcalls from within its own calls cannot be told from the code in src/; these
are left out, and so is the sending-in-progress flag, which only they could
find set.

### RedirectTransport

Several transports, an application with descriptors of its own (0 is its
standard input), and a system that hands out a descriptor as soon as it has been
closed. `owner` says whose a descriptor is, `listener` whom re calls when it is
readable. `foreign` is a history: the transports that closed, listened to, read
or wrote a descriptor that was not theirs. `stack` holds the callbacks the
application is in, as in `Lifecycle`; it may start, stop, create and drop other
transports there. A creation fails at the step `fault` names and runs the
destructor, which calls back. Packets have no content; those that are dropped
for their address or port are no step.

Two constants exclude what the code does get wrong. `BufferFails`: when the
receive buffer cannot be allocated, the socket field is still zero and the
destructor closes descriptor 0 (R:165, 289, where `R` is
`src/src/sctp_redirect_transport/transport.c`). `StartInDetach`: in the detach
handler of a transport that was never started its state is still new, and
`start` listens to a descriptor that is closed already (R:334). With either set
to `TRUE` TLC finds `OwnDescriptorsOnly` violated, in two and in four states.

## 3. The runs

| Run | Instance | Question and result |
|---|---|---|
| `core` | 3 channels, 2 SIDs, `Careful` | do channels, resets, notifications and releases stay consistent, and is `DataChannelService` implemented? Yes, 9 invariants and the refinement, 635 000 states |
| `core_any` | 2 channels, 2 SIDs, no contract | is a close that has to wait ever forgotten, whatever the application does in its callbacks? No, 408 000 states |
| `core_live` | 2 channels, calls at rest and sends from low handlers | is each closing channel closed in the end? Yes under the fairness below |
| `send_queue` | 5 messages of 1 to 3 chunks on 2 streams | framing, contiguity, order and exactly-once towards usrsctp; deferred messages leave. Yes |
| `reassembly` | 3 streams | is each message reported complete whole, and of one stream? Yes under `~MidMessage`, if DCEP messages in pieces do not meet others and streamed or partially reliable channels get no PPID-based fragments, 8 100 states |
| `lifecycle` | 3 transports, unbounded reuse | is the counter exact whatever step of a creation fails and however callbacks nest, has each transport in use usrsctp, timer and chunk size, and is usrsctp finished after the last socket only? Yes, 849 states up to symmetry |
| `handshake` | 2 ends, 2 channels, 1 stream of each end, 1 failure | do both ends agree on channels and parameters, does each message meet its channel, does closing end and lose nothing, when streams are used again? Yes, on the streams described above, and what is under way is what the two ends still wait for (`Inv`), 504 000 states |
| `upcalls` | 5 items and errors, 3 deferred messages, failing allocations | does the loop end with everything read, and does it keep what is deferred until the association is up? Yes under the fairness below, 39 000 states |
| `redirect` | 2 transports, 3 descriptors | does each transport use its own descriptor only, and is none left open? Yes under `~BufferFails` and `~StartInDetach`, 21 000 states up to symmetry |
| `stop_in_close_handler` | violates `HandlersInOrder` | a channel is closed before the transport was started, so that its stream cannot be reset; the close handler that the improper close calls (T:708) stops the transport: the channel still sits in its slot, is closed again, and its handler is called twice |
| `close_in_channel_handler` | violates `ResetAfterData` | `channel_register` (T:2405) opens a channel the handler has closed; data is then queued behind the reset of its stream |
| `dcep_interleaved` | violates `DcepWhole` | DCEP messages of two streams share one buffer (T:1616) and are merged |

Every passing run is checked against mutants of the code's definitions, one per
property (`mutants` in `PROJECT.json`); the mutated forms stand next to the
definitions they change.

Disagreements between text and code without a run of their own: a detached
transport still hands out data transports (T:2728) and registers channels
(T:2539), although `transport.h:31` asks every function to look at the detached flag;
`data_channel.h:183` documents *invalid state* where `channel_set_streaming`
answers that the channel is still in use; `external.h:95` calls the detach
handler nullable while `validate_context` (T:1939) insists on it; `start` closes
the transport when the MTU cannot be set (T:2808), under a comment that says it
continues (T:2804); open handlers can stop the transport between two openings
(T:638), which T:636 means to exclude. In streamed mode (T:1548) each fragment of
a PPID-fragmented message is reported complete: TLC finds `DeliveredWhole`
violated when stream 1 of `MCReassembly` may be switched. `error_event_handler`
is declared `bool` and so answers "read" where its body says "all events"
(T:1820, 1828): if usrsctp reported an error of a closed socket and nothing
else, the loop would never end; TLC shows this with `DeadEvents = {"error"}`.
The address filter of the redirect transport (R:114) rejects only addresses that
are not set, hence none.

### Bounds

- Three channels on two SIDs: both parities, a SID used again after its channel
  is gone, and a rotation that wraps. `NChannels` need not be larger, as the
  code treats SIDs alike apart from parity, order and wrap-around.
- `MaxQueue = 2` deferred messages: one channel blocked by another's message,
  and the last of several leaving.
- `MaxDepth = 1`: the application calls from the stack's bottom and from within
  one callback, and the callbacks of those calls run to their end. Deeper
  recursion meets the same frames; the proofs have no such bound.
- `MaxHistory = 4` events per history: one more than any legal one. Histories
  are capped, not stopped, so the bound hides no behaviour.
- Messages of up to five bytes in chunks of two: three chunks, partly taken
  first, middle and last chunks; an empty message; one above the maximum size.
- `MaxSwitches = 3` changes of delivery mode: on, off and on again.
- Three transports in `lifecycle`: one that set things up and is gone, one that is
  dying and one that is created meanwhile. A transport has at most one callback
  on the stack, so no bound on its depth is needed.
- `handshake`: one stream of each end and two channels, so that a stream may be
  used by one after the other, from the same end or while the other stream is in
  use; one message per channel, from either end; one failure per behaviour. The
  streams do not depend on each other, so a third channel adds only a second
  reuse. Parameters: ordered and reliable with a value to be cleared, and
  unordered with a number of retransmissions.
- `upcalls`: five items and errors: the association comes up, is used, has an
  error and is lost within one upcall or in several; three deferred messages.
- `redirect`: two transports, since what matters is that one meets a descriptor
  of another, and three descriptors, one of them always the application's.
- `Channels` is a symmetry set in the safety runs; not in the liveness run.

### Fairness

`core_live`: the application returns from its callbacks (`WF Return`) and the
library runs on (`WF Library`), both true of a single thread. The association
comes up or fails (`SF Settled`): usrsctp retries INIT a bounded number of
times. While it is connected its buffer drains again and again, so that all that
is deferred can leave (`SF WriteEvent`) and the sender runs dry (`SF
SenderDry`): SCTP retransmits until it succeeds or gives up, and giving up
closes the transport. The peer confirms a reset and resets its own stream in
turn (`SF StreamReset`, `SF PeerResets`), as RFC 8831 demands of it. Strong fairness
is needed because each of these can be disabled for a while by callbacks or by
new messages. Denials are switched off: a denied reset is never retried by the
code (T:1084), and the channel then stays closing.

`send_queue`: the library runs on (`WF Sendv`), while messages are deferred
write events come (`WF WriteEvent`), and usrsctp takes something now and then
(`SF SendvTakes`).

`handshake`: what is under way arrives or is given up (`WF Receive`), as SCTP
retransmits; nothing is assumed of the applications.

`upcalls`: the loop runs on (`WF Loop`), and an allocation succeeds now and then
(`SF ReadEvent`). Without the second the loop need not end, as T:1719 says.

## 4. The proofs

### SctpTransportProofs

It proves, for any set of channels, any number of SIDs,
any bounds and any `Forbidden`:

- `TypeCorrect`: `Spec => []TypeOK`. That every loop index stays in the array
  and every frame that names a channel has one; the second is what lets
  `Drop`, `DryVisit` and `OpenRegistered` dereference it.
- `LowFlagSound`: `Spec => []LowImpliesEmptyQueue`. It is inductive given
  `TypeOK`: only `SenderDry` sets the flag, with an empty queue, and each place
  that can lengthen the queue clears it. The sender dry loop relies on it when
  it resets streams.
- `RegistryCorrect`: `Spec => []RegistrySound`. Not inductive alone: a channel
  is registered under the SID its context was created with, never changes it,
  and only an unused channel is created, so that a registered one is never
  overwritten.

Layout: lemmas about `Push`, `Pop` and `Replace` on stacks of frames come first;
then one lemma per group of actions shows that it preserves the types, one per
action where the registry or the flag is touched; the theorems combine them
with `Init` by induction (PTL). Assumptions used: `NoChannel \notin Channels`,
`NChannels > 0`, the bounds are naturals, `Denials` is a Boolean.

### SctpTransportSafetyProofs

The other safety properties of `SctpTransport`, again for any set of channels,
any number of SIDs and any bounds. Some need the application to refrain from
calls in callbacks: each theorem names what it needs as a subset of `Forbidden`.
The four contracts are defined in `SctpTransportInvariants`; together they are
exactly `Careful`.

| Contract | The application does not |
|---|---|
| `NoStopWhileClosing` | stop or start the transport in a close handler |
| `NoCloseWhenAnnounced` | close a channel in the handler that announces it |
| `NoCreateWhenStopped` | create a channel while the transport closes, or after that |
| `NoStopBeforeNotified` | stop or start the transport between a change of its state and the notification of it |

| Theorem | Property | Contracts |
|---|---|---|
| `CoreCorrect` | `CoreInv` | none |
| `CloseKept` | `CloseNeverForgotten` | none |
| `ResetsFollowData` | `ResetAfterData` | `NoCloseWhenAnnounced` |
| `ReferencesDroppedOnce` | `ReleasedOnce` | `NoStopWhileClosing` |
| `HandlersToldInOrder` | `HandlersInOrder` | `NoStopWhileClosing`, `NoCloseWhenAnnounced` |
| `ClosedTransportClean` | `ClosedIsClean` | `NoCreateWhenStopped`, `NoCloseWhenAnnounced` |
| `RestSettled` | `SettledAtRest` | `NoCreateWhenStopped`, `NoCloseWhenAnnounced` |
| `StatesToldInOrder` | `NotificationsInOrder` | `NoStopBeforeNotified` |
| `ServiceCorrect` | `ServiceSpec` | all four |

The argument. None of these properties is inductive, because while a callback
runs the functions below it on the stack hold indices and pointers into a state
that the callback may change. So the invariants speak of the stack.

- `CoreInv`, whatever the application does. `Shape` says which frame may lie
  directly on which (`Fits`): events of usrsctp only at the bottom, each
  continuation below the callback it waits for. A channel that waits to be dropped
  is closed, and a closed channel in a slot has a frame that will drop it
  (`DroppedClosed`, `ClosedDropped`); the dry loop clears a pending reset only after
  it has been done or the channel is closed (`DryResetDone`), which with `Shape` is
  what `CloseNeverForgotten` needs.
- `ResetInv`: a stream is reset only at the end of a channel, and a pending reset
  has not been done, but in the very step of the dry loop that is about to clear
  the flag (`PendingOnce`). The announcing handler is the one place where a
  channel can be closed before it is registered.
- `ReleaseInv`: no loop that closes channels runs above a frame that drops one
  (`NoCloserOverDrop`), so that no channel waits to be dropped twice (`DropOnce`),
  unless twice conditionally (an improper close inside another).
- `HandlerInv` fixes what the handlers have heard by the state of the channel
  (`HeardByState`).
- `CleanInv`: the loop over the slots leaves nothing behind it but the channel it
  waits for (`SweptFree`), a live channel is in its slot, and one that waits on a
  connected transport is being announced or ahead of the loop that opens them
  (`WaitingServed`).
- `NoticeInv`: at most one of the functions that change the state is on the stack
  (`OneCloser`), in the state it relies on (`CloserState`), so that what the state
  handler has been told follows from the state (`NotesByState`).
- The refinement combines them: a step that changes the state of the transport
  leaves the channels alone and connects it, or closes it when all channels are
  closed; any other step changes the state and the handlers of at most one channel,
  as one of the steps of `DataChannelService`, or of none.

The layout. Lemmas on frames (`FramesPush`, `ShapedPush`, `ShapedReplace`, ...) say
what pushing, popping and replacing do to the set of frames and to the shape. Then
one lemma per action reduces it to what it does to channels and frames
(`StepCases`): it registers, opens, starts to close, closes or drops one channel,
asks for its reset or forgets that one is pending, or none of that. Each invariant
is then proved case by case of `StepCases`, not action by action. Each was checked
with TLC on the instance of `core` before it was proved.

### LifecycleProofs

For any finite set of transports:

- `TypeCorrect`: `Spec => []TypeOK`, a part of the next.
- `CounterCorrect`: `Spec => [](TypeOK /\ CounterExact)`. That the counter is a
  natural number needs that it counts: a transport that is released is one of
  those counted. This needs `StackSound`: a transport that calls back is
  allocated and calls once at a time, so that releasing it leaves no other frame
  of it on the stack. `ClosedWithoutTransports` covers the reset of the counter by
  `rawrtcdc_init`.
- `ReadyCorrect`: `~NestedCreation` implies `Spec => []Ready`. The first of two
  transports may be gone, so the invariant `SharedSetUp` speaks of all that
  have been held. A creation that finds a counter above zero finds another
  transport, which is not failing: those are busy with a callback
  (`DyingIsBusy`), in which the assumption excludes creations. The release that
  switches everything off is that of the only transport (`OnlyAllocated`).

Lemmas on `CallSound`, `CallNextSound` and `ReturnSound` say what pushing, replacing
and popping a frame need; the lemmas about actions use them. The assumption used
is that `Transports` is finite.

- `SharedCorrect`: `Spec => []SharedWhileUsed`. The invariant `Lives` follows each
  transport through the stages of its life: idle, in its detach, state or
  destroyed callback, stopped (`Stage`); from it, a transport that is closed has
  no socket. usrsctp runs while the counter is above zero (`UsedLibrary`), as it is
  while a transport is allocated.
- `HandlersCorrect`: `Spec => []HandlersInOrder`. The same invariant: each stage
  fixes which callbacks have been made (`Heard`), and callbacks of other
  transports on top of the stack do not move it.

### SendQueueProofs

For any messages, sizes, streams and chunk size, with or without `Failures`:

- `TypeCorrect`: `Spec => []TypeOK`; in particular no more than what is left of a
  buffer is taken from it.
- `ContiguousCorrect`: `Spec => []Contiguous`. Inductive with `JobSound` (a message
  is sent directly only while nothing is deferred; what is flushed is the first
  of the queue; the flag of every other message is set), `QueueSound` (the queue
  holds what is deferred, each once) and `WireSound`: of the messages with an end
  to come only the one whose turn it is has begun to leave, and nothing has left
  after its last piece.
- `FifoCorrect`: `Spec => FifoSpec`, the refinement of `MessageFifo`. Step by step:
  `Send` accepts or stutters, `SendvTakes` ends the record of the first pending
  message exactly when it takes all that is left of it, a failure drops the
  first, everything else stutters; that a message which is deferred again stays
  first is `PendingFirst`.

- `FramedCorrect`: `Spec => []FramedAsSent`. `EndsSound`: a piece that ends a record
  is the last of its message, of which nothing is left, and a message that was
  sent has one. The bytes of a message on the wire are a sum over its pieces, a
  recursive function; its value is found without an induction over data by
  carrying in the invariant that the equation that defines it has a solution for
  the pieces so far, and that every solution ends in what is no longer left
  (`Sums`): a step extends each solution by one piece. That an unfinished message
  which something follows on its stream is torn follows from `WireSound`.

### ReassemblyProofs

For any streams and scripts:

- `TypeCorrect`: `Spec => []TypeOK`.
- `StreamedCorrect`: `Spec => []StreamedNotBuffered`, for any peer. What is buffered
  is pending, and the mode changes only while nothing is.
- `WholeCorrect`: `WellFormed`, `Unfragmented`, `DcepApart` and `~MidMessage` imply
  `Spec => [](DeliveredWhole /\ DcepWhole)`. The invariant names, for each stream
  with a channel, the piece `b` at which the message under way started
  (`Partway`): pieces `b` to `next - 1` are in the buffer, in order, and the last
  call was not partial (`Buffering`), or they were passed on by exactly that many
  partial calls, the last ones (`Streaming`); if the pending flag is not set there
  are none, so that a change of the mode leads from one to the other. `DcepSound`
  is the same for the one buffer of DCEP. A complete piece then closes a run that
  is a message by `Span`: joined pieces between two that complete. The
  assumptions are needed: without `Unfragmented` or `~MidMessage` `DeliveredWhole`
  is violated, without `DcepApart` `DcepWhole`.
- `DcepCorrect`: `WellFormed` and `DcepApart` alone imply `Spec => []DcepWhole`;
  neither the PPIDs of application messages nor when channels are created matter
  to the buffer of DCEP messages.

### UpcallsProofs

For any bounds and any `DeadEvents`:

- `TypeCorrect`, `NothingLeftCorrect` and `DeferredCorrect`: `TypeOK`, `NothingLeft`
  and `DeferredKept` always hold. They are inductive together with `IgnoredSound`
  (an event is ignored only when handling it again would do nothing), `UpFirst`
  (room on a socket that is connecting comes with the notification that it is
  up, first in the inbox) and `EventsSound` (a write event on a connecting
  transport comes with a read event, which is handled first).

### RedirectTransportProofs

For any transports, descriptors and ports:

- `TypeCorrect`: `Spec => []TypeOK`, with `AskedPorts \subseteq 0 .. MaxPort`.
- `SocketsCorrect`: `~BufferFails` and `~StartInDetach` imply
  `Spec => [](OwnDescriptorsOnly /\ ListensWhileOpen /\ NoSocketLeft)`. The invariant:
  a transport that the application holds and that is not detached owns its
  descriptor (`SocketOwned`); one that is closed, dropped or failed has been
  detached, and one that is detached and not closed is in its detach handler
  (`DetachedFirst`); one that is being destroyed has one frame on the stack
  (`StackSound`), which is what makes the step after a callback act on a
  transport that is still there. `ListeningCorrect` and `SocketsReturned` are the
  second and third part of it on their own.

### HandshakeProofs

For any number of channels, streams and messages, any parameters, with or without
`Failures`:

- `Invariance`: `Spec => []Inv`, the invariant of `HandshakeInvariants`, which `TypeOK`
  is a part of (`TypeCorrect`).
- `OpenAcceptedHolds`, `NothingAstrayHolds`, `AsAskedHolds`, `SettledAgreesHolds`: the
  four safety properties of the run follow from it without another step.

Why it is needed. None of the four is inductive: they compare the two ends, and
nothing but what is under way between them keeps these together. `Inv` has a part
for all streams and one for the sound ones.

- `Base`, whatever fails: a channel that an end does not know has left no trace
  there (`Fresh`), its ends use one stream, which its creator owns (`OneStream`),
  what travels on a stream belongs to it (`Addressed`), a slot holds a channel of
  its SID (`Occupied`), and no more is received than was sent (`Bounded`).
  `Disowned`: what was refused or went astray did so on a stream that is not sound.
- `Stream(s)`, if `s` is sound: the OPEN is under way exactly until the peer knows
  the channel (`Introduced`), and until then the peer has nothing under way
  (`Waiting`); a reset is under way exactly from the closing of a channel until the
  other end has seen it (`Resets`), a confirmation exactly while the channel in the
  slot waits for it (`Confirms`); an end sees its own reset confirmed only after
  the other has seen it, and is closed when it has seen both (`Flags`); no data is
  behind its reset (`Timely`, `Order`), none is lost of a reliable channel (`Counted`),
  and the OPEN carries the parameters of its creator (`Agreed`).

The argument. `ReceiveOpen`, the receipt of data and of resets take any item that may
arrive, so each action is first reduced to its *effect* (`CreateEffect`, ...,
`FailEffect`; `Steps`): which items one stream gains or loses, with their order,
and which record and slot change. `EffectLocal` and `OtherStream` then say that a
step leaves all other streams alone, and one lemma per effect that it preserves
`Stream` of its own. On a sound stream a reset or a confirmation always meets its
channel (`Meets`, `NeverStray`), and an OPEN is refused only when it has overtaken
the confirmation the slot waits for (`RefusedUnsound`), which is what makes the
exception of `overtaken` exact. The sequences of items enter through three facts:
their members, which precedes which, and how much data of a channel they hold
(`Gains`, `Loses`). The parts of `Inv` were checked with TLC on the instance of
`handshake`, and without failures on three channels, before they were proved; the
run checks `Inv` itself.

Assumptions used: `NumCreated` and `MaxSends` are naturals, `NChannels > 0`,
`Asked` is a set of `Parameters`.

### What is only model-checked

Liveness under fairness (`ClosingEnds`, `DeferredLeaves`, `UpcallEnds`) is out of the
prover's reach and stays with TLC. Every safety property that a passing run checks
is stated by a theorem; those of `Lifecycle`, `Reassembly`, `RedirectTransport` and
`SctpTransport` that need an assumption on the application or the peer name it.

## 5. Not modelled, and the plan

Not modelled: capabilities (immutable records), CRC32c (arithmetic over long
inputs; its second implementation is third-party code), socket options (wrappers
around usrsctp without state in the library), memory exhaustion (except when a
transport is created or read from), the application's own references (and so
the destruction of a channel by its last reference), upcalls within calls of
usrsctp, negotiated channels in the handshake, the contents of messages
and packets.

Next: the allocation failures that are left out, and the upcalls usrsctp may raise
from within its own calls, with the sending-in-progress flag they would find set.
