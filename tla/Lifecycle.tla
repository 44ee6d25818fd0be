------------------------------ MODULE Lifecycle ------------------------------
(***************************************************************************)
(* What the transports of a process share (main/main.c, and creation and   *)
(* destruction in sctp_transport/transport.c): usrsctp is initialised and  *)
(* a timer started for the first transport, both end with the last one.    *)
(* Creation may fail at any step and is then undone by the destructor,     *)
(* which stops the transport as if it had lived.                           *)
(*                                                                         *)
(* Stopping and destroying call the application back, which may create,    *)
(* stop and drop other transports meanwhile.  `stack' holds the callbacks  *)
(* it is in, the last one on top.  Channels are left out.                  *)
(***************************************************************************)
EXTENDS Integers, Sequences, FiniteSets

CONSTANTS
  Transports,      \* places a transport can live in, to be used again
  NestedCreation,  \* TRUE if the application may create a transport in the
                   \* callbacks of one whose creation has just failed
  MaxHeard         \* bound on the recorded history of a transport

ASSUME TransportsAssumption == IsFiniteSet(Transports)
ASSUME LifecycleAssumption  == NestedCreation \in BOOLEAN /\ MaxHeard \in Nat

VARIABLES
  timerHandler,  \* rawrtcdc_global.timer_handler is set
  counter,       \* rawrtcdc_global.usrsctp_initialized
  chunkKnown,    \* rawrtcdc_global.usrsctp_chunk_size has been determined
  usrsctp,       \* usrsctp_init was called, and no usrsctp_finish since
  timer,         \* the application's timer has been started
  phase,         \* of each transport
  closed,        \* transport->state is RAWRTC_SCTP_TRANSPORT_STATE_CLOSED
  detached,      \* RAWRTC_SCTP_TRANSPORT_FLAGS_DETACHED
  socket,        \* transport->socket is not NULL
  stack,         \* the callbacks that are running
  heard          \* history: the callbacks each transport has made

vars == <<timerHandler, counter, chunkKnown, usrsctp, timer, phase, closed,
          detached, socket, stack, heard>>

global == <<timerHandler, counter, chunkKnown, usrsctp, timer>>

(* A transport is "held" while the application has a reference, "failing"   *)
(* and "dropped" while it is destroyed, with and without having been held.  *)
Phases == {"none", "held", "failing", "dropped"}
Callbacks == {"detach", "closed", "destroyed"}
Frames == [at : Callbacks, t : Transports]

Top == stack[Len(stack)]
Busy(t) == \E i \in 1 .. Len(stack) : stack[i].t = t

Init ==
  /\ timerHandler = FALSE
  /\ counter = 0
  /\ chunkKnown = FALSE
  /\ usrsctp = FALSE
  /\ timer = FALSE
  /\ phase = [t \in Transports |-> "none"]
  /\ closed = [t \in Transports |-> FALSE]
  /\ detached = [t \in Transports |-> FALSE]
  /\ socket = [t \in Transports |-> FALSE]
  /\ stack = <<>>
  /\ heard = [t \in Transports |-> <<>>]

(***************************************************************************)
(* Calling the application                                                 *)
(***************************************************************************)
Extend(h, e) == IF Len(h) < MaxHeard THEN Append(h, e) ELSE h

Call(at, t) ==
  /\ stack' = Append(stack, [at |-> at, t |-> t])
  /\ heard' = [heard EXCEPT ![t] = Extend(@, at)]

(* The callback on top returns, and its transport calls the next one.       *)
CallNext(at, t) ==
  /\ stack' = [stack EXCEPT ![Len(stack)] = [at |-> at, t |-> t]]
  /\ heard' = [heard EXCEPT ![t] = Extend(@, at)]

CallReturns ==
  /\ stack' = SubSeq(stack, 1, Len(stack) - 1)
  /\ UNCHANGED heard

(***************************************************************************)
(* The library                                                             *)
(***************************************************************************)
LibraryInit ==
  /\ ~timerHandler
  /\ timerHandler' = TRUE
  /\ counter' = 0
  /\ UNCHANGED <<chunkKnown, usrsctp, timer, phase, closed, detached, socket,
                 stack, heard>>

(* The application closes the library after its last transport.             *)
LibraryClose ==
  /\ timerHandler
  /\ stack = <<>>
  /\ \A t \in Transports : phase[t] = "none"
  /\ timerHandler' = FALSE
  /\ UNCHANGED <<counter, chunkKnown, usrsctp, timer, phase, closed, detached,
                 socket, stack, heard>>

(***************************************************************************)
(* Creation                                                                *)
(***************************************************************************)
(* What may fail, in order: allocating the transport, starting the timer,   *)
(* the channels or the socket, setting the socket up until the chunk size   *)
(* is read, any later option.  "none" stands for success.                   *)
Faults == {"memory", "timer", "socket", "chunk_size", "option", "none"}

(* Mutant: timer and chunk size are tied to the initialisation of usrsctp,  *)
(* which an earlier attempt may have done without getting further.          *)
FirstWithUsrsctp == ~usrsctp
First == counter = 0

Possible(fault) == fault \in {"timer", "chunk_size"} => First

(* Mutant: the counter is increased before the allocation.                  *)
CountedAlways(fault) == TRUE

(* Mutant: it is increased at the end of a creation that succeeds.          *)
CountedIfCreated(fault) == fault = "none"
Counted(fault) == fault # "memory"

Create(t, fault) ==
  /\ timerHandler
  /\ phase[t] = "none"
  /\ \/ NestedCreation
     \/ \A i \in 1 .. Len(stack) : phase[stack[i].t] # "failing"
  /\ Possible(fault)
  /\ usrsctp' = TRUE
  /\ counter' = IF Counted(fault) THEN counter + 1 ELSE counter
  /\ UNCHANGED timerHandler
  /\ \/ /\ fault = "memory"
        /\ UNCHANGED <<chunkKnown, timer, phase, closed, detached, socket,
                       stack, heard>>
     \/ /\ fault # "memory"
        /\ timer' = (timer \/ (First /\ fault # "timer"))
        /\ chunkKnown' = (chunkKnown \/ (First /\ fault \in {"option", "none"}))
        /\ closed' = [closed EXCEPT ![t] = FALSE]
        /\ socket' =
             [socket EXCEPT ![t] = fault \in {"chunk_size", "option", "none"}]
        /\ \/ /\ fault = "none"
              /\ phase' = [phase EXCEPT ![t] = "held"]
              /\ detached' = [detached EXCEPT ![t] = FALSE]
              /\ heard' = [heard EXCEPT ![t] = <<>>]
              /\ UNCHANGED stack
           \/ /\ fault # "none"
              /\ phase' = [phase EXCEPT ![t] = "failing"]
              /\ detached' = [detached EXCEPT ![t] = TRUE]
              /\ stack' = Append(stack, [at |-> "detach", t |-> t])
              /\ heard' = [heard EXCEPT ![t] = <<"detach">>]

(***************************************************************************)
(* Stopping and destruction                                                *)
(***************************************************************************)
(* Mutant: the detached flag is not looked at.                              *)
StoppableUnlessClosed(t) == ~closed[t]
Stoppable(t) == ~detached[t] /\ ~closed[t]

Detach(t) ==
  /\ detached' = [detached EXCEPT ![t] = TRUE]
  /\ Call("detach", t)

Stop(t) ==
  /\ phase[t] = "held"
  /\ Stoppable(t)
  /\ Detach(t)
  /\ UNCHANGED <<global, phase, closed, socket>>

(* The application gives up its last reference, not in a callback of the    *)
(* same transport.                                                          *)
Drop(t) ==
  /\ phase[t] = "held"
  /\ ~Busy(t)
  /\ phase' = [phase EXCEPT ![t] = "dropped"]
  /\ \/ /\ Stoppable(t)
        /\ Detach(t)
     \/ /\ ~Stoppable(t)
        /\ Call("destroyed", t)
        /\ UNCHANGED detached
  /\ UNCHANGED <<global, closed, socket>>

(* The detach handler returns: the socket is closed, the state set.         *)
Detached(t) ==
  /\ Top.at = "detach"
  /\ socket' = [socket EXCEPT ![t] = FALSE]
  /\ closed' = [closed EXCEPT ![t] = TRUE]
  /\ CallNext("closed", t)
  /\ UNCHANGED <<global, phase, detached>>

(* The state handler returns from stopping a transport that goes on.        *)
Stopped(t) ==
  /\ Top.at = "closed"
  /\ phase[t] = "held"
  /\ CallReturns
  /\ UNCHANGED <<global, phase, closed, detached, socket>>

(* Mutant: a transport that was never handed out tells of its destruction.  *)
InitializedAlways(t) == TRUE
Initialized(t) == phase[t] = "dropped"

Destroyed(t) ==
  /\ Top.at = "closed"
  /\ phase[t] # "held"
  /\ Initialized(t)
  /\ CallNext("destroyed", t)
  /\ UNCHANGED <<global, phase, closed, detached, socket>>

(* Mutant: every transport closes usrsctp.                                  *)
LastOfAny == TRUE
Last == counter = 1

Released(t) ==
  /\ \/ Top.at = "closed" /\ phase[t] # "held" /\ ~Initialized(t)
     \/ Top.at = "destroyed"
  /\ counter' = counter - 1
  /\ timer' = (timer /\ ~Last)
  /\ usrsctp' = (usrsctp /\ ~Last)
  /\ phase' = [phase EXCEPT ![t] = "none"]
  /\ CallReturns
  /\ UNCHANGED <<timerHandler, chunkKnown, closed, detached, socket>>

Return ==
  /\ stack # <<>>
  /\ LET t == Top.t
     IN  Detached(t) \/ Stopped(t) \/ Destroyed(t) \/ Released(t)

Next ==
  \/ LibraryInit
  \/ LibraryClose
  \/ \E t \in Transports, fault \in Faults : Create(t, fault)
  \/ \E t \in Transports : Stop(t) \/ Drop(t)
  \/ Return

Spec == Init /\ [][Next]_vars

(***************************************************************************)
(* Properties                                                              *)
(***************************************************************************)
(* Every variable has its type, and the counter never falls below zero      *)
(* (usrsctp_initialized is unsigned).                                       *)
TypeOK ==
  /\ timerHandler \in BOOLEAN /\ chunkKnown \in BOOLEAN
  /\ usrsctp \in BOOLEAN /\ timer \in BOOLEAN
  /\ counter \in Nat
  /\ phase \in [Transports -> Phases]
  /\ closed \in [Transports -> BOOLEAN]
  /\ detached \in [Transports -> BOOLEAN]
  /\ socket \in [Transports -> BOOLEAN]
  /\ stack \in Seq(Frames)
  /\ heard \in [Transports -> Seq(Callbacks)]

Allocated == {t \in Transports : phase[t] # "none"}

(* The usage counter is the number of transports that have not finished     *)
(* their destructor, whatever step of a creation fails, and however         *)
(* callbacks nest: "Note: This needs to be below allocation to ensure the   *)
(* counter is decreased properly on error" (transport.c:2095).              *)
CounterExact == counter = Cardinality(Allocated)

(* A transport the application holds has what it shares with the others:    *)
(* usrsctp, a running timer and a chunk size to send and receive with,      *)
(* although only one transport has set these up, and may be gone.           *)
Ready ==
  \A t \in Transports :
    phase[t] = "held" => usrsctp /\ timer /\ chunkKnown

(* usrsctp is not finished while a transport has a socket (transport.c:1978 *)
(* runs after the last usrsctp_close), and the timer does not tick without  *)
(* a transport.                                                             *)
SharedWhileUsed ==
  /\ (\E t \in Transports : socket[t]) => usrsctp
  /\ timer => usrsctp /\ counter > 0

(* A transport detaches, hears that it is closed and then that it is        *)
(* destroyed, each once; one that was never handed out is not said to be    *)
(* destroyed ("if fully initialised", transport.c:1954).                    *)
HandlersInOrder ==
  \A t \in Transports :
    /\ heard[t] \in {<<>>, <<"detach">>, <<"detach", "closed">>,
                     <<"detach", "closed", "destroyed">>}
    /\ phase[t] = "failing" => Len(heard[t]) < 3
=============================================================================
