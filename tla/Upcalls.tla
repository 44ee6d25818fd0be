------------------------------- MODULE Upcalls -------------------------------
(***************************************************************************)
(* The upcall of usrsctp (upcall_handler_helper, sctp_transport/           *)
(* transport.c): a loop that asks the socket for its events and handles    *)
(* them, until there is none that is not to be ignored.                    *)
(*                                                                         *)
(* Everything runs in one thread.  Packets and timers get to usrsctp       *)
(* through re's event loop, so the socket receives nothing and gets no new *)
(* room while an upcall runs; each change of it raises an upcall.  Whether *)
(* usrsctp also raises one from within its own calls, the code in src/     *)
(* does not tell: it is left out, and the sending-in-progress flag with    *)
(* it, which only such an upcall could find set.                           *)
(*                                                                         *)
(* A handler of an item is one step, together with what the application    *)
(* does in its callbacks: it may send or stop.  At this level "closed" and *)
(* "detached" are the same.                                                *)
(***************************************************************************)
EXTENDS Integers, Sequences

CONSTANTS
  MaxItems,    \* bound on the notifications, messages and errors that come
  MaxQueue,    \* bound on the number of deferred messages
  AllocFails,  \* TRUE if the allocation of a receive buffer may fail
  DeadEvents   \* what usrsctp may report of a socket that has been closed

ALL == {"read", "write", "error"}     \* RAWRTC_SCTP_EVENT_ALL
NONE == {}                            \* RAWRTC_SCTP_EVENT_NONE

ASSUME BoundsAssumption == MaxItems \in Nat /\ MaxQueue \in Nat
ASSUME EventsAssumption == AllocFails \in BOOLEAN /\ DeadEvents \subseteq ALL

(* SCTP_COMM_UP; an association change that says the association is gone;  *)
(* any other notification; a message.                                      *)
Items == {"up", "lost", "note", "data"}

VARIABLES
  state,    \* transport->state
  queue,    \* length of buffered_messages_outgoing
  inbox,    \* what usrsctp has for the transport to read
  room,     \* whether usrsctp would take a message
  soError,  \* whether the socket has an error
  came,     \* number of items and errors so far
  pc,       \* where the loop is
  events,   \* its local variable of this name
  ignored,  \* ignore_events
  missed,   \* history: the read event before found an error or no memory
  dropped   \* history: deferred messages were dropped before the connection
            \* was up, although nothing was missed

transport == <<state, queue>>
socket == <<inbox, room, soError>>
loop == <<pc, events, ignored>>
history == <<missed, dropped>>
vars == <<transport, socket, came, loop, history>>

Init ==
  /\ state = "connecting"
  /\ queue \in 0 .. MaxQueue
  /\ inbox = <<>>
  /\ room = FALSE
  /\ soError = FALSE
  /\ came = 0
  /\ pc = "idle"
  /\ events = NONE
  /\ ignored = NONE
  /\ missed = FALSE
  /\ dropped = FALSE

-----------------------------------------------------------------------------
(* usrsctp.  That the association is up is the first thing to read, and     *)
(* gives room.  Several items may come before the upcall is raised.         *)
IsUp == state = "connected" \/ (inbox # <<>> /\ inbox[1] = "up")

Raise ==
  /\ pc \in {"idle", "raised"}
  /\ state # "closed"
  /\ pc' = "raised"
  /\ ignored' = NONE
  /\ UNCHANGED <<transport, events, history>>

Arrives(item) ==
  /\ Raise
  /\ came < MaxItems
  /\ came' = came + 1
  /\ CASE item = "up"   -> ~IsUp /\ inbox = <<>>
       [] item = "lost" -> TRUE
       [] OTHER         -> IsUp
  /\ inbox' = Append(inbox, item)
  /\ room' = (room \/ item = "up")
  /\ UNCHANGED soError

Writable ==
  /\ Raise
  /\ IsUp /\ ~room
  /\ room' = TRUE
  /\ UNCHANGED <<inbox, soError, came>>

Error ==
  /\ Raise
  /\ came < MaxItems
  /\ came' = came + 1
  /\ soError' = TRUE
  /\ UNCHANGED <<inbox, room>>

(***************************************************************************)
(* Sending, as what it makes of the length q of the queue and the room r.  *)
(***************************************************************************)
(* A flush on a connected transport leaves what there is no room for.       *)
Flushed(q, r, k, f) ==
  IF q = 0 \/ ~r THEN k = q /\ f = r
                 ELSE k \in 0 .. q /\ (f => k = 0)

(* sctp_send, any number of times.  A connected transport sends directly,   *)
(* and defers for lack of room or because of what is deferred already; any  *)
(* other defers (the OPEN messages of channels that are created).           *)
Sent(st, q, r, k, f) ==
  \/ k = q /\ f = r
  \/ k >= q /\ f = (r /\ (q > 0 \/ st # "connected"))

(* In another state than connected nothing is sent, and what is refused is  *)
(* dropped from the queue.                                                  *)
Flush ==
  \/ /\ state = "connected"
     /\ queue' \in 0 .. MaxQueue /\ room' \in BOOLEAN
     /\ Flushed(queue, room, queue', room')
     /\ UNCHANGED dropped
  \/ /\ state # "connected"
     /\ queue' = 0
     /\ dropped' = (dropped \/ (queue > 0 /\ ~missed))
     /\ UNCHANGED room

(* What the application does, of itself or when it is called back.          *)
AppSends ==
  /\ queue' \in 0 .. MaxQueue /\ room' \in BOOLEAN
  /\ Sent(state, queue, room, queue', room')

AppReacts == AppSends /\ state' \in {state, "closed"}

AppActs ==
  /\ pc = "idle"
  /\ state # "closed"
  /\ AppReacts
  /\ UNCHANGED <<inbox, soError, came, loop, history>>

-----------------------------------------------------------------------------
(* The events of the socket; there may be nothing to read although it is    *)
(* said to be readable (T:1851), and there is when it has an error.         *)
Reported ==
  IF state = "closed" THEN SUBSET DeadEvents
  ELSE LET sure == {ev \in ALL :
                      \/ ev = "read" /\ (inbox # <<>> \/ soError)
                      \/ ev = "write" /\ room
                      \/ ev = "error" /\ soError}
       IN  {sure, sure \cup {"read"}}

(* Mutant: the events ignored before are forgotten, as T:1853 would do.     *)
UnignoredAll(reported) == reported
Unignored(reported) == reported \ ignored

(* The order of the handlers.  Mutant: the socket is written to before it   *)
(* is read from.                                                            *)
AfterWriteFirst(at) ==
  CASE at = "error" -> "write" [] at = "write" -> "read" [] at = "read" -> "ask"
After(at) ==
  CASE at = "error" -> "read" [] at = "read" -> "write" [] at = "write" -> "ask"

Ask ==
  /\ pc \in {"raised", "ask"}
  /\ \E reported \in Reported :
       /\ events' = Unignored(reported)
       /\ pc' = IF events' = NONE THEN "idle" ELSE "error"
  /\ missed' = FALSE
  /\ UNCHANGED <<transport, socket, came, ignored, dropped>>

(* error_event_handler returns a bool: what is left of a mask is 1, and     *)
(* that is SCTP_EVENT_READ.                                                 *)
AsBool(mask) == IF mask = NONE THEN NONE ELSE {"read"}

ErrorEvent ==
  /\ pc = "error"
  /\ pc' = After("error")
  /\ ignored' = ignored \cup
       IF "error" \in events /\ state = "closed" THEN AsBool(ALL) ELSE NONE
  /\ UNCHANGED <<transport, socket, came, events, history>>

(* The association comes up: what is deferred is sent, then the open        *)
(* handlers and the state handler are called.                               *)
CommUp ==
  /\ queue' \in 0 .. MaxQueue /\ room' \in BOOLEAN
  /\ \E k \in 0 .. MaxQueue, f \in BOOLEAN :
       /\ Flushed(queue, room, k, f)
       /\ Sent("connected", k, f, queue', room')
  /\ state' \in {"connected", "closed"}

AssociationChange(item) ==
  \/ item = "up" /\ state = "connecting" /\ CommUp
  \/ item = "lost" /\ AppSends /\ state' = "closed"

(* The handler of what has been read.  Data that comes before the transport *)
(* is connected is ignored.                                                 *)
Handle(item) ==
  /\ \/ AssociationChange(item)
     \/ (item = "note" \/ (item = "data" /\ state = "connected")) /\ AppReacts
     \/ item = "data" /\ state # "connected" /\ UNCHANGED <<state, queue, room>>
  /\ UNCHANGED dropped

(* Mutants: any failure ends the reading; the error number is returned.     *)
IgnoredAfterAny(empty) == {"read"}
IgnoredAfterErrno(empty) == IF empty THEN {"EAGAIN"} ELSE NONE
IgnoredAfter(empty) == IF empty THEN {"read"} ELSE NONE

(* usrsctp_recvv finds an error, which it clears, nothing or an item.       *)
Recvv ==
  \/ /\ soError
     /\ soError' = FALSE
     /\ ignored' = ignored \cup IgnoredAfter(FALSE)
     /\ missed' = TRUE
     /\ UNCHANGED <<transport, inbox, room, dropped>>
  \/ /\ ~soError /\ inbox = <<>>
     /\ ignored' = ignored \cup IgnoredAfter(TRUE)
     /\ UNCHANGED <<transport, socket, missed, dropped>>
  \/ /\ ~soError /\ inbox # <<>>
     /\ inbox' = Tail(inbox)
     /\ Handle(Head(inbox))
     /\ UNCHANGED <<soError, ignored, missed>>

Detached == state = "closed"

ReadEvent ==
  /\ pc = "read"
  /\ pc' = After("read")
  /\ \/ /\ "read" \notin events
        /\ UNCHANGED <<transport, socket, ignored, history>>
     \/ /\ "read" \in events /\ Detached
        /\ ignored' = ALL
        /\ UNCHANGED <<transport, socket, history>>
     \/ /\ "read" \in events /\ ~Detached
        /\ Recvv
  /\ UNCHANGED <<came, events>>

(* There is no memory for the receive buffer.                               *)
NoBuffer ==
  /\ AllocFails
  /\ pc = "read"
  /\ pc' = After("read")
  /\ "read" \in events /\ ~Detached
  /\ missed' = TRUE
  /\ UNCHANGED <<transport, socket, came, events, ignored, dropped>>

WriteEvent ==
  /\ pc = "write"
  /\ pc' = After("write")
  /\ \/ /\ "write" \notin events
        /\ UNCHANGED <<queue, room, ignored, dropped>>
     \/ /\ "write" \in events /\ Detached
        /\ ignored' = ALL
        /\ UNCHANGED <<queue, room, dropped>>
     \/ /\ "write" \in events /\ ~Detached
        /\ ignored' = ignored \cup {"write"}
        /\ Flush
  /\ UNCHANGED <<state, inbox, soError, came, events, missed>>

Loop == Ask \/ ErrorEvent \/ ReadEvent \/ NoBuffer \/ WriteEvent

Next ==
  \/ \E item \in Items : Arrives(item)
  \/ Writable \/ Error \/ AppActs \/ Loop

Spec == Init /\ [][Next]_vars

(* The loop runs on, and there is memory now and then.                      *)
FairSpec == Spec /\ WF_vars(Loop) /\ SF_vars(ReadEvent)

-----------------------------------------------------------------------------
(* Every variable keeps its type; the masks hold events only.               *)
TypeOK ==
  /\ state \in {"connecting", "connected", "closed"}
  /\ queue \in 0 .. MaxQueue
  /\ inbox \in Seq(Items)
  /\ room \in BOOLEAN /\ soError \in BOOLEAN
  /\ came \in 0 .. MaxItems
  /\ pc \in {"idle", "raised", "ask", "error", "read", "write"}
  /\ events \in SUBSET ALL /\ ignored \in SUBSET ALL
  /\ missed \in BOOLEAN /\ dropped \in BOOLEAN

(* The loop does not stop too early: events are ignored for the rest of an  *)
(* upcall, yet when it returns everything has been read, and what is        *)
(* deferred waits for room, for which another upcall will come.             *)
NothingLeft ==
  (pc = "idle" /\ state # "closed") =>
    /\ inbox = <<>> /\ ~soError
    /\ queue = 0 \/ ~room \/ state = "connecting"

(* When the association comes up the transport reads of it before it reacts *)
(* to the room it gives: a write event would drop all the deferred messages *)
(* (the OPEN messages of the channels that wait) otherwise.  If the read    *)
(* event fails they are indeed dropped.                                     *)
DeferredKept == ~dropped

(* An upcall returns, although usrsctp reports room again and again and     *)
(* reads may find nothing, an error or no memory.                           *)
UpcallEnds == pc # "idle" ~> pc = "idle"
=============================================================================
