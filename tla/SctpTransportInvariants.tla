----------------------- MODULE SctpTransportInvariants -----------------------
(***************************************************************************)
(* The inductive invariants behind the properties of SctpTransport, and    *)
(* the contracts with the application under which they hold.  Most of them *)
(* are about the call stack: which frame may lie on which, and what a      *)
(* frame in the middle of the stack may rely on when the callbacks above   *)
(* it have returned.                                                       *)
(***************************************************************************)
EXTENDS SctpTransport

(***************************************************************************)
(* Contracts: <<callback, call>> pairs the application refrains from.      *)
(***************************************************************************)
(* The transport is neither stopped nor started in a close handler.         *)
NoStopWhileClosing ==
  {<<"close", "stop">>, <<"close", "start">>,
   <<"teardown", "stop">>, <<"teardown", "start">>}

(* A channel is not closed in the handler that announces it.                *)
NoCloseWhenAnnounced == {<<"channel", "close">>}

(* No channel is created while the transport closes or after that.          *)
NoCreateWhenStopped ==
  {<<"teardown", "create">>, <<"detach", "create">>, <<"stopped", "create">>}

(* The transport is neither stopped nor started in the handlers that run    *)
(* between a change of its state and the notification of that change.       *)
NoStopBeforeNotified ==
  {<<"teardown", "stop">>, <<"teardown", "start">>, <<"detach", "start">>,
   <<"connecting", "stop">>, <<"open_all", "stop">>}

(***************************************************************************)
(* The shape of the stack.  The handlers of usrsctp's events are at the    *)
(* bottom; each continuation has the callback it waits for on top of it.   *)
(***************************************************************************)
FramesOn(s) == {s[i] : i \in 1 .. Len(s)}

BaseFrames == {"register", "open_channels", "dry", "dry_next", "reset"}
Dropping == {"drop", "drop_if"}
Sweeping == {"close_channels", "detached"}

(* g may lie directly on f.                                                 *)
Fits(f, g) ==
  \/ /\ f.at \in Callbacks
     /\ g.at \in {"created", "mtu", "close_channels", "drop_if", "detached", "closed"}
  \/ f.at = "created"        /\ g.at = "open"     /\ g.ch = f.ch
  \/ f.at = "register"       /\ g.at = "channel"  /\ g.ch = f.ch
  \/ f.at = "drop"           /\ g.at \in {"close", "teardown"}
  \/ f.at = "drop_if"        /\ g.at = "close"
  \/ f.at = "mtu"            /\ g.at = "connecting"
  \/ f.at = "close_channels" /\ g.at = "drop"
  \/ f.at = "detached"       /\ g.at = "detach"
  \/ f.at = "open_channels"  /\ g.at = "open_all"
  \/ f.at = "dry_next"       /\ g.at \in {"low", "drop_if"}
  \/ f.at = "reset"          /\ g.at \in Dropping

Shaped(s) ==
  /\ \A i \in 1 .. Len(s) - 1 : Fits(s[i], s[i + 1])
  /\ \A i \in 1 .. Len(s) - 2 :
        s[i].at = "close_channels" => s[i + 2].at = "teardown"

Shape == Shaped(stack)

(* The transport is closed, or a frame will see to it that it is.           *)
Ending == tstate = "closed" \/ \E f \in FramesOn(stack) : f.at \in Sweeping

(***************************************************************************)
(* Whatever the application does.                                          *)
(***************************************************************************)
(* A channel that waits to be dropped is closed, ...                        *)
DroppedClosed ==
  \A f \in FramesOn(stack) : f.at \in Dropping => chan[f.ch].state = "closed"

(* ... and a closed channel leaves its slot.                                *)
ClosedDropped ==
  \A s \in Sids :
    (~Free(s) /\ chan[slots[s]].state = "closed") =>
      \E f \in FramesOn(stack) : f.at \in Dropping /\ f.ch = slots[s] /\ f.sid = s

(* The sender dry loop forgets a pending reset only when it has been done.  *)
DryResetDone ==
  \A f \in FramesOn(stack) :
    f.at = "dry_next" /\ f.ch # NoChannel =>
      hist[f.ch].resets > 0 \/ chan[f.ch].state = "closed"

(* A channel that is being announced has been created.                      *)
AnnouncedCreated ==
  \A f \in FramesOn(stack) : f.at = "register" => chan[f.ch].state # "none"

CoreInv ==
  Shape /\ DroppedClosed /\ ClosedDropped /\ DryResetDone /\ AnnouncedCreated

(***************************************************************************)
(* If a channel is not closed while it is announced.                       *)
(***************************************************************************)
Ends(c) == chan[c].state \in {"closing", "closed"}

(* The stream of a channel is reset only once the channel is being closed.  *)
ResetMeansEnd ==
  \A c \in Channels : hist[c].resets > 0 \/ chan[c].pending => Ends(c)

(* A pending reset has not been asked for, but in the step of the sender    *)
(* dry loop that is about to clear the flag.                                *)
PendingOnce ==
  \A c \in Channels :
    chan[c].pending /\ hist[c].resets > 0 =>
      \E f \in FramesOn(stack) : f.at = "dry_next" /\ f.ch = c

(* Nothing has happened to the stream of a channel that is being announced. *)
AnnouncedFresh ==
  \A f \in FramesOn(stack) :
    f.at = "register" => hist[f.ch].resets = 0 /\ ~chan[f.ch].pending

ResetInv == ResetMeansEnd /\ PendingOnce /\ AnnouncedFresh /\ ResetAfterData

(***************************************************************************)
(* If the transport is neither stopped nor started in a close handler.     *)
(***************************************************************************)
(* The continuations of start, of the loop over the slots, of the detaching *)
(* and of the loop that opens the waiting channels.                         *)
Closers == {"mtu", "close_channels", "detached", "open_channels"}

(* None of them runs while a channel waits to be dropped; ...               *)
NoCloserOverDrop ==
  \A i, j \in 1 .. Len(stack) :
    i < j /\ stack[i].at \in Dropping => stack[j].at \notin Closers

(* ... a channel waits for it once only, unless it has been closed          *)
(* improperly; ...                                                          *)
DropOnce ==
  \A i, j \in 1 .. Len(stack) :
    i < j /\ stack[i].at \in Dropping /\ stack[j].at \in Dropping
          /\ stack[i].ch = stack[j].ch =>
      stack[i].at = "drop_if" /\ stack[j].at = "drop_if"

(* ... and one that is dropped unconditionally is in its slot.              *)
DropInSlot ==
  \A f \in FramesOn(stack) : f.at = "drop" => slots[f.sid] = f.ch

UnusedKept == \A c \in Channels : Unused(c) => hist[c].released = 0

ReleaseInv ==
  NoCloserOverDrop /\ DropOnce /\ DropInSlot /\ UnusedKept /\ ReleasedOnce

(***************************************************************************)
(* If besides a channel is not closed while it is announced.               *)
(***************************************************************************)
(* A channel that is being announced waits to be opened, unless the         *)
(* transport is going to be closed.                                         *)
AnnouncedWaits ==
  \A f \in FramesOn(stack) : f.at = "register" => chan[f.ch].state = "connecting" \/ Ending

(* What the handlers of a channel have heard in each of its states.         *)
Heard(state) ==
  CASE state \in {"none", "connecting"} -> {<<>>}
    [] state = "open"                   -> {<<"open">>}
    [] state = "closing"                -> {<<>>, <<"open">>}
    [] state = "closed"                 -> {<<"closed">>, <<"open", "closed">>}

HeardByState == \A c \in Channels : hist[c].heard \in Heard(chan[c].state)

HandlerInv == AnnouncedWaits /\ HeardByState

(***************************************************************************)
(* If no channel is created while the transport closes or after that, and  *)
(* none is closed while it is announced.                                   *)
(***************************************************************************)
Live(c) == chan[c].state \in {"connecting", "open", "closing"}

LiveInSlot == \A c \in Channels : Live(c) => slots[chan[c].sid] = c

(* What is dropped unconditionally is in its slot; if the slots are swept   *)
(* twice it may have left it already, but nothing else has taken its place. *)
NothingElseDropped ==
  \A f \in FramesOn(stack) :
    f.at = "drop" => slots[f.sid] = f.ch \/ (Free(f.sid) /\ Ending)

DropOnceOrEnding == DropOnce \/ Ending

(* The loop over the slots leaves no channel behind, but the one it waits   *)
(* for.                                                                     *)
SweptFree ==
  \A i \in 1 .. Len(stack), s \in Sids :
    stack[i].at = "close_channels" /\ s < stack[i].sid =>
      Free(s) \/ (i + 1 \in 1 .. Len(stack) /\ stack[i + 1].sid = s)

DetachedClean ==
  \A f \in FramesOn(stack) : f.at = "detached" => detached /\ Filled = {}

ClosedClean == tstate = "closed" => ~socket /\ detached /\ Filled = {}

(* On a connected transport, who waits to be opened is being announced or   *)
(* is ahead of the loop that opens the waiting channels.                    *)
WaitingServed ==
  \A c \in Channels :
    chan[c].state = "connecting" /\ tstate = "connected" =>
      \E f \in FramesOn(stack) :
        \/ f.at = "register" /\ f.ch = c
        \/ f.at = "open_channels" /\ f.sid <= chan[c].sid

CleanInv ==
  /\ AnnouncedWaits /\ LiveInSlot /\ NothingElseDropped /\ DropOnceOrEnding
  /\ SweptFree /\ DetachedClean /\ ClosedClean /\ WaitingServed

(***************************************************************************)
(* If the transport is neither stopped nor started between a change of its *)
(* state and the notification of it.                                       *)
(***************************************************************************)
OneCloser ==
  \A i, j \in 1 .. Len(stack) :
    stack[i].at \in Closers /\ stack[j].at \in Closers => i = j

(* What the closers may rely on.                                            *)
CloserState ==
  \A f \in FramesOn(stack) :
    /\ f.at \in Sweeping        => tstate # "closed"
    /\ f.at = "detached"        => detached
    /\ f.at = "mtu"             => tstate = "connecting"
    /\ f.at = "open_channels"   => tstate = "connected"

Opening == \E f \in FramesOn(stack) : f.at = "open_channels"

(* What the state handler has been told in each state: everything, but of   *)
(* the connection only once the waiting channels are open.                  *)
Told ==
  CASE tstate = "new"                     -> {<<>>}
    [] tstate = "connecting"              -> {<<"connecting">>}
    [] tstate = "connected" /\ Opening    -> {<<"connecting">>}
    [] tstate = "connected" /\ ~Opening   -> {<<"connecting", "connected">>}
    [] tstate = "closed"                  ->
         {<<"closed">>, <<"connecting", "closed">>, <<"connecting", "connected", "closed">>}

NotesByState == notes \in Told

NoticeInv == OneCloser /\ CloserState /\ NotesByState
==============================================================================
