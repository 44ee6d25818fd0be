-------------------------- MODULE RedirectTransport --------------------------
(***************************************************************************)
(* The SCTP redirect transport (sctp_redirect_transport/transport.c): SCTP *)
(* packets go back and forth between a DTLS transport and a raw socket.    *)
(* The socket is a descriptor, a small number the system hands out again   *)
(* as soon as it is closed; re's event loop calls back by that number.     *)
(*                                                                         *)
(* Several transports live in one process with an application that opens   *)
(* and closes descriptors of its own.  `stack' holds the callbacks the     *)
(* application is in.  Packets have no content: whether one has the right  *)
(* address and port is a choice.                                           *)
(***************************************************************************)
EXTENDS Integers, Sequences, FiniteSets

CONSTANTS
  Transports,     \* places a transport can live in, to be used again
  App,            \* the application, as the owner of a descriptor
  Nobody,         \* a descriptor that is closed, or not listened to
  Descriptors,    \* the descriptors the system hands out
  AskedPorts,     \* the local ports asked for, 0 for the default one
  BufferFails,    \* TRUE if the allocation of the receive buffer may fail
  StartInDetach   \* TRUE if the application may start a transport in the
                  \* detach handler of that transport

ASSUME DescriptorsAssumption == 0 \in Descriptors /\ Descriptors \subseteq Nat
ASSUME OwnersAssumption ==
  App \notin Transports /\ Nobody \notin Transports /\ App # Nobody
ASSUME SwitchesAssumption ==
  BufferFails \in BOOLEAN /\ StartInDetach \in BOOLEAN

DefaultPort == 5000
MaxPort == 65535  \* the greatest uint16_t
NoSocket == -1    \* what socket() returns when it fails

ASSUME PortsAssumption == AskedPorts \subseteq 0 .. MaxPort

VARIABLES
  owner,     \* of each descriptor: App, Nobody (closed) or a transport
  listener,  \* the transport re calls when a descriptor is readable
  phase,     \* of each transport: see Phases
  state,     \* transport->state
  detached,  \* RAWRTC_SCTP_REDIRECT_TRANSPORT_FLAGS_DETACHED
  socket,    \* transport->socket
  port,      \* transport->local_port
  stack,     \* the callbacks that are running
  foreign    \* history: transports that used a descriptor they do not own

vars == <<owner, listener, phase, state, detached, socket, port, stack, foreign>>

(* A transport is "held" while the application has a reference, "failing"   *)
(* and "dropped" while it is destroyed, with and without having been held.  *)
Phases == {"none", "held", "failing", "dropped"}
States == {"new", "open", "closed"}
Callbacks == {"outbound", "open", "detach", "closed", "destroyed"}
Frames == [at : Callbacks, t : Transports]

Idle == stack = <<>>
Top == stack[Len(stack)]
Busy(t) == \E i \in 1 .. Len(stack) : stack[i].t = t
In(at, t) == \E i \in 1 .. Len(stack) : stack[i] = [at |-> at, t |-> t]

Init ==
  /\ owner = [d \in Descriptors |-> IF d = 0 THEN App ELSE Nobody]
  /\ listener = [d \in Descriptors |-> Nobody]
  /\ phase = [t \in Transports |-> "none"]
  /\ state = [t \in Transports |-> "new"]
  /\ detached = [t \in Transports |-> FALSE]
  /\ socket = [t \in Transports |-> NoSocket]
  /\ port = [t \in Transports |-> DefaultPort]
  /\ stack = <<>>
  /\ foreign = {}

(***************************************************************************)
(* Calling the application, and using a descriptor.                        *)
(***************************************************************************)
Call(at, t) == stack' = Append(stack, [at |-> at, t |-> t])

CallNext(at, t) ==
  stack' = [stack EXCEPT ![Len(stack)] = [at |-> at, t |-> t]]

CallReturns == stack' = SubSeq(stack, 1, Len(stack) - 1)

Uses(t, d) ==
  foreign' = IF owner[d] = t THEN foreign ELSE foreign \cup {t}

(***************************************************************************)
(* The application's own descriptors; 0 is its standard input.             *)
(***************************************************************************)
AppOpens(d) ==
  /\ owner[d] = Nobody
  /\ owner' = [owner EXCEPT ![d] = App]
  /\ UNCHANGED <<listener, phase, state, detached, socket, port, stack, foreign>>

AppCloses(d) ==
  /\ d # 0
  /\ owner[d] = App
  /\ owner' = [owner EXCEPT ![d] = Nobody]
  /\ UNCHANGED <<listener, phase, state, detached, socket, port, stack, foreign>>

(***************************************************************************)
(* set_state(CLOSED), up to the detach handler.  The descriptor is closed  *)
(* and re no longer listens to it, but the field keeps its value.          *)
(***************************************************************************)
(* Mutants: only a transport that is open closes its socket; re goes on    *)
(* listening.                                                               *)
HasSocketIfOpen(t) == socket[t] # NoSocket /\ state[t] = "open"
HasSocket(t) == socket[t] # NoSocket

FdCloseForgotten(d) == listener
FdClose(d) == [listener EXCEPT ![d] = Nobody]

(* The transport t is in phase p, has state s and the socket d, which a     *)
(* creation that fails may have opened just now: o are the owners then.     *)
SocketClosed(t, d, o) ==
  /\ owner' = [o EXCEPT ![d] = Nobody]
  /\ listener' = FdClose(d)
  /\ foreign' = IF o[d] = t THEN foreign ELSE foreign \cup {t}

Closing(t) ==
  /\ \/ HasSocket(t) /\ SocketClosed(t, socket[t], owner)
     \/ ~HasSocket(t) /\ UNCHANGED <<owner, listener, foreign>>
  /\ detached' = [detached EXCEPT ![t] = TRUE]
  /\ Call("detach", t)

(***************************************************************************)
(* Creation.  A transport that cannot be completed is destroyed, hence     *)
(* stopped; the memory it was given is zero up to the point it got to.     *)
(***************************************************************************)
Faults == {"buffer", "socket", "blocking", "none"}

Opened(fault) ==
  CASE fault = "buffer" -> {0}
    [] fault = "socket" -> {NoSocket}
    [] OTHER            -> {d \in Descriptors : owner[d] = Nobody}

(* Mutant: the default is not applied.                                      *)
LocalPortAsked(p) == p
LocalPort(p) == IF p > 0 THEN p ELSE DefaultPort

Create(t, fault, d) ==
  LET opened == IF fault \in {"blocking", "none"}
                THEN [owner EXCEPT ![d] = t] ELSE owner
  IN  /\ phase[t] = "none"
      /\ fault = "buffer" => BufferFails
      /\ d \in Opened(fault)
      /\ state' = [state EXCEPT ![t] = "new"]
      /\ socket' = [socket EXCEPT ![t] = d]
      /\ \E p \in AskedPorts : port' = [port EXCEPT ![t] = LocalPort(p)]
      /\ \/ /\ fault = "none"
            /\ phase' = [phase EXCEPT ![t] = "held"]
            /\ detached' = [detached EXCEPT ![t] = FALSE]
            /\ owner' = opened
            /\ UNCHANGED <<listener, stack, foreign>>
         \/ /\ fault # "none"
            /\ phase' = [phase EXCEPT ![t] = "failing"]
            /\ detached' = [detached EXCEPT ![t] = TRUE]
            /\ Call("detach", t)
            /\ \/ d # NoSocket /\ SocketClosed(t, d, opened)
               \/ d = NoSocket /\ UNCHANGED <<owner, listener, foreign>>

(***************************************************************************)
(* Start and stop                                                          *)
(***************************************************************************)
Start(t) ==
  /\ phase[t] = "held"
  /\ state[t] = "new"
  /\ StartInDetach \/ ~In("detach", t)
  /\ listener' = [listener EXCEPT ![socket[t]] = t]
  /\ Uses(t, socket[t])
  /\ state' = [state EXCEPT ![t] = "open"]
  /\ Call("open", t)
  /\ UNCHANGED <<owner, phase, detached, socket, port>>

(* re cannot listen; it is told to stop listening all the same.             *)
StartFails(t) ==
  /\ phase[t] = "held"
  /\ state[t] = "new"
  /\ StartInDetach \/ ~In("detach", t)
  /\ listener' = FdClose(socket[t])
  /\ Uses(t, socket[t])
  /\ UNCHANGED <<owner, phase, state, detached, socket, port, stack>>

(* Mutant: the detached flag is not looked at.                              *)
StoppableUnlessClosed(t) == state[t] # "closed"
Stoppable(t) == ~detached[t] /\ state[t] # "closed"

Stop(t) ==
  /\ phase[t] = "held"
  /\ Stoppable(t)
  /\ Closing(t)
  /\ UNCHANGED <<phase, state, socket, port>>

(* The application gives up its last reference, not in a callback of the    *)
(* same transport.                                                          *)
Drop(t) ==
  /\ phase[t] = "held"
  /\ ~Busy(t)
  /\ phase' = [phase EXCEPT ![t] = "dropped"]
  /\ \/ /\ Stoppable(t)
        /\ Closing(t)
     \/ /\ ~Stoppable(t)
        /\ Call("destroyed", t)
        /\ UNCHANGED <<owner, listener, detached, foreign>>
  /\ UNCHANGED <<state, socket, port>>

(***************************************************************************)
(* Packets.  The event loop runs when the application is in no callback.   *)
(***************************************************************************)
(* redirect_from_raw, for a packet that is to be passed on; others are      *)
(* dropped without a trace.                                                 *)
RedirectFromRaw(d) ==
  /\ Idle
  /\ listener[d] # Nobody
  /\ LET t == listener[d]
     IN  /\ ~detached[t]
         /\ Uses(t, socket[t])
         /\ Call("outbound", t)
  /\ UNCHANGED <<owner, listener, phase, state, detached, socket, port>>

Sends(t) == ~detached[t] /\ state[t] = "open"

FeedInbound(t) ==
  /\ phase[t] = "held"
  /\ Sends(t)
  /\ Uses(t, socket[t])
  /\ UNCHANGED <<owner, listener, phase, state, detached, socket, port, stack>>

(***************************************************************************)
(* A callback returns.                                                     *)
(***************************************************************************)
(* From the outbound handler, or from the state handler that start or stop *)
(* has called.                                                             *)
Returned(t) ==
  /\ \/ Top.at \in {"outbound", "open"}
     \/ Top.at = "closed" /\ phase[t] = "held"
  /\ CallReturns
  /\ UNCHANGED <<owner, listener, phase, state, detached, socket, port, foreign>>

Detached(t) ==
  /\ Top.at = "detach"
  /\ state' = [state EXCEPT ![t] = "closed"]
  /\ CallNext("closed", t)
  /\ UNCHANGED <<owner, listener, phase, detached, socket, port, foreign>>

Initialized(t) == phase[t] = "dropped"

Destroyed(t) ==
  /\ Top.at = "closed"
  /\ phase[t] # "held"
  /\ Initialized(t)
  /\ CallNext("destroyed", t)
  /\ UNCHANGED <<owner, listener, phase, state, detached, socket, port, foreign>>

Released(t) ==
  /\ \/ Top.at = "closed" /\ phase[t] # "held" /\ ~Initialized(t)
     \/ Top.at = "destroyed"
  /\ phase' = [phase EXCEPT ![t] = "none"]
  /\ CallReturns
  /\ UNCHANGED <<owner, listener, state, detached, socket, port, foreign>>

Return ==
  /\ stack # <<>>
  /\ LET t == Top.t
     IN  Returned(t) \/ Detached(t) \/ Destroyed(t) \/ Released(t)

Next ==
  \/ \E d \in Descriptors : AppOpens(d) \/ AppCloses(d) \/ RedirectFromRaw(d)
  \/ \E t \in Transports, fault \in Faults, d \in Descriptors \cup {NoSocket} :
        Create(t, fault, d)
  \/ \E t \in Transports :
        Start(t) \/ StartFails(t) \/ Stop(t) \/ Drop(t) \/ FeedInbound(t)
  \/ Return

Spec == Init /\ [][Next]_vars

-----------------------------------------------------------------------------
(* Every variable keeps its type; a transport has a port of its own.        *)
TypeOK ==
  /\ owner \in [Descriptors -> Transports \cup {App, Nobody}]
  /\ listener \in [Descriptors -> Transports \cup {Nobody}]
  /\ phase \in [Transports -> Phases]
  /\ state \in [Transports -> States]
  /\ detached \in [Transports -> BOOLEAN]
  /\ socket \in [Transports -> Descriptors \cup {NoSocket}]
  /\ port \in [Transports -> 1 .. MaxPort]
  /\ stack \in Seq(Frames)
  /\ foreign \in SUBSET Transports

(* A transport closes, listens to, reads from and writes to no descriptor  *)
(* but its own, however the system hands them out again.                   *)
OwnDescriptorsOnly == foreign = {}

(* re listens for a transport exactly while that one is open and not being *)
(* closed, and to its own socket: nothing calls back into a transport that *)
(* is gone, and another transport's closing does not silence an open one.  *)
ListensWhileOpen ==
  /\ \A t \in Transports :
       (phase[t] # "none" /\ state[t] = "open" /\ ~detached[t]) =>
          listener[socket[t]] = t
  /\ \A d \in Descriptors : listener[d] # Nobody =>
       LET t == listener[d]
       IN  /\ phase[t] = "held" /\ state[t] = "open" /\ ~detached[t]
           /\ socket[t] = d /\ owner[d] = t

(* A socket that is open belongs to a transport that will close it: none   *)
(* is left behind by a creation that fails, or by one never started.       *)
NoSocketLeft ==
  \A d \in Descriptors, t \in Transports :
    owner[d] = t => phase[t] = "held" /\ socket[t] = d /\ ~detached[t]
=============================================================================
