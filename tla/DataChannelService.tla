------------------------- MODULE DataChannelService -------------------------
(***************************************************************************)
(* What the SCTP transport promises the application about the states it    *)
(* can observe: the state of the transport, the state of each data channel *)
(* and what the open and close handlers of the channel were told           *)
(* (include/rawrtcdc/sctp_transport.h and data_channel.h: the state enums  *)
(* and the handlers).                                                      *)
(***************************************************************************)
EXTENDS Integers, Sequences

CONSTANT Channels

VARIABLES transport, channel, told

serviceVars == <<transport, channel, told>>

Init ==
  /\ transport = "new"
  /\ channel = [c \in Channels |-> "none"]
  /\ told = [c \in Channels |-> <<>>]

(* A channel waits for a transport that is not connected yet, or for the   *)
(* application to have been handed a channel the peer has created.         *)
Create(c) ==
  /\ transport # "closed"
  /\ channel[c] = "none"
  /\ channel' = [channel EXCEPT ![c] = "connecting"]
  /\ UNCHANGED <<transport, told>>

Open(c) ==
  /\ transport = "connected"
  /\ channel[c] \in {"none", "connecting"}
  /\ channel' = [channel EXCEPT ![c] = "open"]
  /\ told' = [told EXCEPT ![c] = Append(@, "open")]
  /\ UNCHANGED transport

StartClosing(c) ==
  /\ channel[c] \in {"connecting", "open"}
  /\ channel' = [channel EXCEPT ![c] = "closing"]
  /\ UNCHANGED <<transport, told>>

FinishClosing(c) ==
  /\ channel[c] \in {"connecting", "open", "closing"}
  /\ channel' = [channel EXCEPT ![c] = "closed"]
  /\ told' = [told EXCEPT ![c] = Append(@, "closed")]
  /\ UNCHANGED transport

Connect ==
  /\ \/ transport = "new" /\ transport' = "connecting"
     \/ transport = "connecting" /\ transport' = "connected"
  /\ UNCHANGED <<channel, told>>

(* A transport is closed only once all its channels are.                    *)
CloseTransport ==
  /\ transport # "closed"
  /\ \A c \in Channels : channel[c] \in {"none", "closed"}
  /\ transport' = "closed"
  /\ UNCHANGED <<channel, told>>

Next ==
  \/ Connect
  \/ CloseTransport
  \/ \E c \in Channels :
       Create(c) \/ Open(c) \/ StartClosing(c) \/ FinishClosing(c)

Spec == Init /\ [][Next]_serviceVars
=============================================================================
