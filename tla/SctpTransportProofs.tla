------------------------- MODULE SctpTransportProofs -------------------------
(***************************************************************************)
(* Theorems about SctpTransport, for every number of channels and SIDs,    *)
(* any depth of nested callbacks and every set Forbidden: they hold        *)
(* whatever the application does in its callbacks.                         *)
(***************************************************************************)
EXTENDS SctpTransport, SequenceTheorems, TLAPS

(***************************************************************************)
(* The call stack                                                          *)
(***************************************************************************)
LEMMA FrameType ==
  ASSUME NEW at \in Callbacks \cup Continuations,
         NEW ch \in Channels \cup {NoChannel}, NEW sid \in 0 .. NChannels,
         at \in OfChannel => ch \in Channels,
         at \notin Loops => sid \in Sids
  PROVE  /\ Frame(at, ch, sid) \in Frames
         /\ Frame(at, ch, sid).at = at
         /\ Frame(at, ch, sid).ch = ch
BY DEF Frame, Frames

LEMMA PushType ==
  ASSUME NEW s \in Seq(Frames), NEW f \in Frames
  PROVE  /\ Push(s, f) \in Seq(Frames)
         /\ Len(Push(s, f)) = Len(s) + 1
         /\ \A i \in 1 .. Len(s) : Push(s, f)[i] = s[i]
         /\ Push(s, f)[Len(s) + 1] = f
BY DEF Push

LEMMA PopType ==
  ASSUME NEW s \in Seq(Frames), s # <<>>
  PROVE  /\ Pop(s) \in Seq(Frames)
         /\ Len(Pop(s)) = Len(s) - 1
         /\ \A i \in 1 .. Len(s) - 1 : Pop(s)[i] = s[i]
BY DEF Pop

LEMMA ReplaceType ==
  ASSUME NEW s \in Seq(Frames), s # <<>>, NEW f \in Frames
  PROVE  /\ Replace(s, f) \in Seq(Frames)
         /\ Len(Replace(s, f)) = Len(s)
         /\ \A i \in 1 .. Len(s) - 1 : Replace(s, f)[i] = s[i]
         /\ Replace(s, f)[Len(s)] = f
BY DEF Replace

LEMMA TopType ==
  ASSUME stack \in Seq(Frames), ~Idle
  PROVE  /\ Top \in Frames
         /\ Len(stack) \in 1 .. Len(stack)
         /\ Top.at \in Callbacks \cup Continuations
         /\ Top.ch \in Channels \cup {NoChannel}
         /\ Top.sid \in 0 .. NChannels
         /\ Top.todo \in SUBSET Sids
         /\ Top.dirs \in SUBSET Directions
         /\ Top.at \in OfChannel => Top.ch \in Channels
         /\ Top.at \notin Loops => Top.sid \in Sids
<1>1. Len(stack) \in 1 .. Len(stack) BY DEF Idle
<1>2. Top \in Frames BY <1>1 DEF Top
<1>3. QED BY <1>1, <1>2 DEF Frames

(***************************************************************************)
(* Records                                                                 *)
(***************************************************************************)
LEMMA NewChannelType ==
  ASSUME NEW state \in ChannelStates, NEW s \in Sids, NEW known \in BOOLEAN
  PROVE  NewChannel(state, s, known) \in ChannelRecords
BY DEF NewChannel, ChannelRecords

LEMMA StateUpdateType ==
  ASSUME NEW r \in ChannelRecords, NEW state \in ChannelStates
  PROVE  [r EXCEPT !.state = state] \in ChannelRecords
BY DEF ChannelRecords

LEMMA KnownUpdateType ==
  ASSUME NEW r \in ChannelRecords
  PROVE  [r EXCEPT !.known = TRUE] \in ChannelRecords
BY DEF ChannelRecords

LEMMA PendingUpdateType ==
  ASSUME NEW r \in ChannelRecords
  PROVE  [r EXCEPT !.pending = FALSE] \in ChannelRecords
BY DEF ChannelRecords

LEMMA ExtendType ==
  ASSUME NEW S, NEW h \in Seq(S), NEW e \in S
  PROVE  Extend(h, e) \in Seq(S)
BY DEF Extend

LEMMA HearsType ==
  ASSUME hist \in [Channels -> Histories], NEW c \in Channels,
         NEW e \in {"open", "closed"}
  PROVE  Hears(c, e) \in [Channels -> Histories]
<1>1. Extend(hist[c].heard, e) \in Seq({"open", "closed"})
  BY ExtendType DEF Histories
<1>2. QED
  BY <1>1 DEF Hears, Histories

LEMMA BumpType == \A n \in 0 .. 2 : Bump(n) \in 0 .. 2 /\ Bump(n) >= n
BY DEF Bump

LEMMA ResetIssuedType ==
  ASSUME hist \in [Channels -> Histories], NEW c \in Channels
  PROVE  /\ ResetIssued(c) \in Histories
         /\ ResetIssued(c).resets > 0
<1>1. hist[c].resets \in 0 .. 2
  BY DEF Histories
<1>2. Bump(hist[c].resets) \in 0 .. 2 /\ Bump(hist[c].resets) > 0
  BY <1>1 DEF Bump
<1>3. QED
  BY <1>2 DEF ResetIssued, Histories

LEMMA SctpSendType ==
  ASSUME queue \in Seq(Channels), NEW c \in Channels, SctpSend(c)
  PROVE  /\ amountLow' \in BOOLEAN
         /\ queue' \in Seq(Channels)
         /\ amountLow' = FALSE
<1>1. amountLow' = FALSE
  BY DEF SctpSend
<1>2. queue' = queue \/ queue' = Append(queue, c)
  BY DEF SctpSend
<1>3. Append(queue, c) \in Seq(Channels)
  OBVIOUS
<1>4. queue' \in Seq(Channels)
  BY <1>2, <1>3
<1>5. amountLow' \in BOOLEAN
  BY <1>1
<1>6. QED
  BY <1>1, <1>4, <1>5

LEMMA DrainedType ==
  ASSUME queue \in Seq(Channels), NEW k \in 0 .. Len(queue)
  PROVE  /\ Drained(k) \in Seq(Channels)
         /\ queue = <<>> => Drained(k) = <<>>
BY DEF Drained

(***************************************************************************)
(* Type correctness                                                        *)
(***************************************************************************)
LEMMA TypeInit == Init => TypeOK
<1> SUFFICES ASSUME Init PROVE TypeOK
  OBVIOUS
<1>1. 0 \in Sids
  BY NChannelsAssumption DEF Sids
<1>2. chan \in [Channels -> ChannelRecords]
  BY <1>1, NewChannelType DEF Init, ChannelStates
<1>3. hist \in [Channels -> Histories]
  BY DEF Init, Histories
<1>4. queue \in Seq(Channels) /\ stack \in Seq(Frames) /\ notes \in Seq(TransportStates)
  BY DEF Init
<1>5. QED
  BY <1>1, <1>2, <1>3, <1>4 DEF Init, TypeOK, TransportStates

LEMMA TypeStack ==
  ASSUME TypeOK, NEW f \in Frames
  PROVE  /\ Push(stack, f) \in Seq(Frames)
         /\ ~Idle => Pop(stack) \in Seq(Frames)
         /\ ~Idle => Replace(stack, f) \in Seq(Frames)
         /\ ~Idle => \A g \in Frames : Push(Replace(stack, f), g) \in Seq(Frames)
         /\ \A g \in Frames : Push(Push(stack, f), g) \in Seq(Frames)
         /\ ~Idle => \A g, h \in Frames :
                       Push(Push(Replace(stack, f), g), h) \in Seq(Frames)
BY PushType, PopType, ReplaceType DEF TypeOK, Idle

(* Frames as the library makes them.                                        *)
LEMMA FrameTypes ==
  /\ \A at \in OfChannel : \A c \in Channels, s \in Sids : Frame(at, c, s) \in Frames
  /\ \A at \in (Callbacks \cup Continuations) \ (OfChannel \cup Loops) :
        Frame(at, NoChannel, 0) \in Frames
  /\ \A at \in Loops : \A s \in 0 .. NChannels : Frame(at, NoChannel, s) \in Frames
  /\ \A s \in 0 .. NChannels : ClosingFrame(s) \in Frames
  /\ \A at \in {"dry", "dry_next"}, c \in Channels \cup {NoChannel}, s \in Sids :
        \A todo \in SUBSET Sids : DryFrame(at, c, s, todo) \in Frames
BY NChannelsAssumption
   DEF Frame, Frames, Callbacks, Continuations, OfChannel, Loops, Sids,
       ClosingFrame, DryFrame

(* The pieces the closing of a channel is made of keep the types.           *)
LEMMA ImproperType ==
  ASSUME TypeOK, NEW c \in Channels, NEW record \in ChannelRecords,
         NEW below \in Seq(Frames), CloseImproperly(c, record, below)
  PROVE  /\ chan' \in [Channels -> ChannelRecords]
         /\ hist' \in [Channels -> Histories]
         /\ stack' \in Seq(Frames)
         /\ resetReq' \in SUBSET Sids
<1>1. [record EXCEPT !.state = "closed"] \in ChannelRecords
  BY StateUpdateType DEF ChannelStates
<1>2. Hears(c, "closed") \in [Channels -> Histories]
  BY HearsType DEF TypeOK
<1>3. record.sid \in Sids
  BY DEF ChannelRecords
<1>4. Frame("drop_if", c, record.sid) \in Frames /\ Frame("close", c, record.sid) \in Frames
  BY <1>3, FrameTypes DEF OfChannel
<1>5. QED
  BY <1>1, <1>2, <1>4, PushType DEF CloseImproperly, TypeOK

LEMMA DeferredType ==
  ASSUME NEW r \in ChannelRecords
  PROVE  Deferred(r) \in ChannelRecords
BY DEF Deferred, ChannelRecords, ChannelStates

LEMMA CloseType ==
  ASSUME TypeOK, NEW c \in Channels, Close(c)
  PROVE  TypeOK'
<1>0. chan[c] \in ChannelRecords /\ chan[c].sid \in Sids
  BY DEF TypeOK, ChannelRecords
<1>1. CASE MustWait /\ chan' = [chan EXCEPT ![c] = Deferred(@)]
           /\ UNCHANGED <<resetReq, hist, stack>>
  BY <1>0, <1>1, DeferredType DEF Close, TypeOK
<1>2. CASE AskForReset(c) /\ chan' = [chan EXCEPT ![c].state = "closing"]
           /\ hist' = [hist EXCEPT ![c] = ResetIssued(c)] /\ UNCHANGED stack
  <2>1. chan' \in [Channels -> ChannelRecords]
    BY <1>0, <1>2, StateUpdateType DEF TypeOK, ChannelStates
  <2>2. hist' \in [Channels -> Histories]
    BY <1>2, ResetIssuedType DEF TypeOK
  <2>3. QED
    BY <1>0, <1>2, <2>1, <2>2 DEF Close, AskForReset, TypeOK
<1>3. CASE CloseImproperly(c, chan[c], stack)
  <2>1. stack \in Seq(Frames)
    BY DEF TypeOK
  <2>2. QED
    BY <1>0, <1>3, <2>1, ImproperType DEF Close, TypeOK
<1>4. QED
  BY <1>1, <1>2, <1>3 DEF Close

LEMMA TypeApp == TypeOK /\ App => TypeOK'
<1> SUFFICES ASSUME TypeOK, App PROVE TypeOK'
  OBVIOUS
<1>0. 0 \in Sids
  BY NChannelsAssumption DEF Sids
<1>a. \A c \in Channels, s \in Sids : RegisterCreated(c, s) =>
        /\ slots' \in [Sids -> Channels \cup {NoChannel}]
        /\ chan' \in [Channels -> ChannelRecords]
        /\ hist' \in [Channels -> Histories]
        /\ stack' \in Seq(Frames)
  <2> SUFFICES ASSUME NEW c \in Channels, NEW s \in Sids, RegisterCreated(c, s)
               PROVE  /\ slots' \in [Sids -> Channels \cup {NoChannel}]
                      /\ chan' \in [Channels -> ChannelRecords]
                      /\ hist' \in [Channels -> Histories]
                      /\ stack' \in Seq(Frames)
    OBVIOUS
  <2>1. NewChannel("open", s, FALSE) \in ChannelRecords
        /\ NewChannel("connecting", s, TRUE) \in ChannelRecords
    BY NewChannelType DEF ChannelStates
  <2>2. Frame("created", c, s) \in Frames /\ Frame("open", c, s) \in Frames
    BY FrameTypes DEF OfChannel
  <2>3. Hears(c, "open") \in [Channels -> Histories]
    BY HearsType DEF TypeOK
  <2>4. CASE tstate = "connected"
    BY <2>1, <2>2, <2>3, <2>4, TypeStack DEF RegisterCreated, TypeOK
  <2>5. CASE tstate # "connected"
    BY <2>1, <2>5 DEF RegisterCreated, TypeOK
  <2>6. QED
    BY <2>4, <2>5
<1>b. \A c \in Channels : SctpSend(c) => amountLow' \in BOOLEAN /\ queue' \in Seq(Channels)
  BY SctpSendType DEF TypeOK
<1>1. CASE Start
  <2>1. Frame("mtu", NoChannel, 0) \in Frames /\ Frame("connecting", NoChannel, 0) \in Frames
    BY FrameTypes DEF Callbacks, Continuations, OfChannel, Loops
  <2>2. notes' \in Seq(TransportStates)
    BY <1>1, ExtendType DEF Start, TypeOK, TransportStates
  <2>3. QED
    BY <1>1, <2>1, <2>2, TypeStack DEF Start, TypeOK, TransportStates
<1>2. CASE StartFails \/ Stop
  <2>1. ClosingFrame(0) \in Frames
    BY FrameTypes, NChannelsAssumption
  <2>2. QED
    BY <1>2, <2>1, TypeStack DEF StartFails, Stop, TypeOK
<1>3. CASE GetDataTransport
  BY <1>3 DEF GetDataTransport, TypeOK
<1>4. CASE CreateInbandFails
  BY <1>4 DEF CreateInbandFails, SctpSendFails, TypeOK
<1>5. ASSUME NEW c \in Channels, CreateInband(c) PROVE TypeOK'
  BY <1>5, <1>a, <1>b DEF CreateInband, OwnSids, TypeOK
<1>6. ASSUME NEW c \in Channels, NEW s \in Sids, CreateNegotiated(c, s) PROVE TypeOK'
  BY <1>6, <1>a DEF CreateNegotiated, TypeOK
<1>7. ASSUME NEW c \in Channels, Send(c) PROVE TypeOK'
  BY <1>7, <1>b DEF Send, SctpSendFails, TypeOK
<1>8. ASSUME NEW c \in Channels, Close(c) PROVE TypeOK'
  BY <1>8, CloseType DEF Close
<1>9. QED
  BY <1>1, <1>2, <1>3, <1>4, <1>5, <1>6, <1>7, <1>8 DEF App

LEMMA TypeReturn == TypeOK /\ Return => TypeOK'
BY PopType DEF Return, InCallback, Idle, TypeOK

(* CloseIfReset leaves a channel record and a history of the right type.     *)
LEMMA CloseIfResetType ==
  ASSUME TypeOK, NEW c \in Channels, NEW record \in ChannelRecords,
         NEW history \in Histories, NEW below \in Seq(Frames),
         CloseIfReset(c, record, history, below)
  PROVE  /\ chan' \in [Channels -> ChannelRecords]
         /\ hist' \in [Channels -> Histories]
         /\ stack' \in Seq(Frames)
<1>1. CASE record.inReset /\ record.outReset
  <2>1. [record EXCEPT !.state = "closed"] \in ChannelRecords
    BY StateUpdateType DEF ChannelStates
  <2>2. Extend(history.heard, "closed") \in Seq({"open", "closed"})
    BY ExtendType DEF Histories
  <2>3. [history EXCEPT !.heard = Extend(@, "closed")] \in Histories
    BY <2>2 DEF Histories
  <2>4. record.sid \in Sids
    BY DEF ChannelRecords
  <2>5. Frame("drop", c, record.sid) \in Frames /\ Frame("close", c, record.sid) \in Frames
    BY <2>4, FrameTypes DEF OfChannel
  <2>6. /\ chan' = [chan EXCEPT ![c] = [record EXCEPT !.state = "closed"]]
        /\ hist' = [hist EXCEPT ![c] = [history EXCEPT !.heard = Extend(@, "closed")]]
        /\ stack' = Push(Push(below, Frame("drop", c, record.sid)),
                         Frame("close", c, record.sid))
    BY <1>1 DEF CloseIfReset
  <2>7. stack' \in Seq(Frames)
    BY <2>5, <2>6, PushType
  <2>8. QED
    BY <2>1, <2>3, <2>6, <2>7 DEF TypeOK
<1>2. CASE ~(record.inReset /\ record.outReset)
  BY <1>2 DEF CloseIfReset, TypeOK
<1>3. QED
  BY <1>1, <1>2

(* The frame of a stream reset event, as it is made and as it shrinks.       *)
LEMMA LaterType ==
  ASSUME TypeOK, At("reset"), NEW s \in Sids
  PROVE  Later(s) \in Seq(Frames)
<1>1. ~Idle /\ Top \in Frames /\ Top.todo \in SUBSET Sids
  BY TopType DEF At, TypeOK
<1>2. [Top EXCEPT !.todo = @ \ {s}] \in Frames
  BY <1>1 DEF Frames
<1>3. QED
  BY <1>1, <1>2, TypeStack DEF Later

LEMMA NotedType ==
  ASSUME TypeOK, NEW r \in ChannelRecords
  PROVE  Noted(r) \in ChannelRecords
BY DEF Noted, ChannelRecords

LEMMA NotedKept ==
  ASSUME NEW r \in ChannelRecords
  PROVE  /\ Noted(r).sid = r.sid /\ Noted(r).state = r.state
         /\ Noted(r).pending = r.pending
BY DEF Noted, ChannelRecords

LEMMA TypeResetNext == TypeOK /\ ResetNext => TypeOK'
<1> SUFFICES ASSUME TypeOK, ResetNext PROVE TypeOK'
  OBVIOUS
<1>1. At("reset") /\ ~Idle /\ Top.todo \in SUBSET Sids
  BY TopType DEF ResetNext, At, TypeOK
<1>2. PICK s \in Top.todo : ResetUnregistered(s) \/ ResetNoted(s)
                            \/ ResetAnswered(s) \/ ResetAnswerFails(s)
  BY DEF ResetNext
<1>3. s \in Sids /\ Later(s) \in Seq(Frames)
  BY <1>1, LaterType
<1>4. ~Free(s) => slots[s] \in Channels /\ chan[slots[s]] \in ChannelRecords
                  /\ hist[slots[s]] \in Histories
  BY <1>3 DEF Free, TypeOK
<1> SUFFICES /\ chan' \in [Channels -> ChannelRecords]
             /\ hist' \in [Channels -> Histories]
             /\ stack' \in Seq(Frames)
             /\ resetReq' \in SUBSET Sids
  BY DEF ResetNext, TypeOK
<1>5. CASE ResetUnregistered(s)
  BY <1>3, <1>5 DEF ResetUnregistered, TypeOK
<1>6. CASE ResetNoted(s)
  <2>1. Noted(chan[slots[s]]) \in ChannelRecords
    BY <1>4, <1>6, NotedType DEF ResetNoted
  <2>2. QED
    BY <1>3, <1>4, <1>6, <2>1, CloseIfResetType DEF ResetNoted, TypeOK
<1>7. CASE ResetAnswered(s)
  <2> DEFINE c == slots[s]
  <2>1. Noted(chan[c]) \in ChannelRecords
    BY <1>4, <1>7, NotedType DEF ResetAnswered
  <2>2. Deferred(Noted(chan[c])) \in ChannelRecords
        /\ [Noted(chan[c]) EXCEPT !.state = "closing"] \in ChannelRecords
    BY <2>1, DeferredType, StateUpdateType DEF ChannelStates
  <2>3. ResetIssued(c) \in Histories /\ chan[c].sid \in Sids
    BY <1>4, <1>7, ResetIssuedType DEF ResetAnswered, TypeOK, ChannelRecords
  <2>4. CASE MustWait /\ CloseIfReset(c, Deferred(Noted(chan[c])), hist[c], Later(s))
             /\ UNCHANGED resetReq
    BY <1>3, <1>4, <1>7, <2>2, <2>4, CloseIfResetType DEF ResetAnswered, TypeOK
  <2>5. CASE AskForReset(c)
             /\ CloseIfReset(c, [Noted(chan[c]) EXCEPT !.state = "closing"],
                             ResetIssued(c), Later(s))
    BY <1>3, <1>4, <1>7, <2>2, <2>3, <2>5, CloseIfResetType
       DEF ResetAnswered, AskForReset, TypeOK
  <2>6. QED
    BY <1>7, <2>4, <2>5 DEF ResetAnswered
<1>8. CASE ResetAnswerFails(s)
  <2>1. [chan[slots[s]] EXCEPT !.inReset = TRUE] \in ChannelRecords
    BY <1>4, <1>8 DEF ResetAnswerFails, ChannelRecords
  <2>2. QED
    BY <1>3, <1>4, <1>8, <2>1, ImproperType DEF ResetAnswerFails
<1>9. QED
  BY <1>2, <1>5, <1>6, <1>7, <1>8

LEMMA TypeClosing ==
  TypeOK /\ (CloseNextChannel \/ Detach \/ CloseTransport \/ SetMtu) => TypeOK'
<1> SUFFICES ASSUME TypeOK, CloseNextChannel \/ Detach \/ CloseTransport \/ SetMtu
             PROVE  TypeOK'
  OBVIOUS
<1>1. CASE CloseNextChannel
  <2>1. PICK s \in Sids : /\ NextIn(Filled, s, Top.sid)
                          /\ chan' = [chan EXCEPT ![slots[s]].state = "closed"]
                          /\ hist' = Hears(slots[s], "closed")
                          /\ stack' = Push(Push(Replace(stack, ClosingFrame(s + 1)),
                                                Frame("drop", slots[s], s)),
                                           Frame("teardown", slots[s], s))
    BY <1>1 DEF CloseNextChannel
  <2>2. slots[s] \in Channels /\ chan[slots[s]] \in ChannelRecords
    BY <2>1 DEF NextIn, Filled, Free, TypeOK
  <2>3. chan' \in [Channels -> ChannelRecords]
    BY <2>1, <2>2, StateUpdateType DEF TypeOK, ChannelStates
  <2>4. hist' \in [Channels -> Histories]
    BY <2>1, <2>2, HearsType DEF TypeOK
  <2>5. s + 1 \in 0 .. NChannels
    BY NChannelsAssumption DEF Sids
  <2>6. /\ ClosingFrame(s + 1) \in Frames
        /\ Frame("drop", slots[s], s) \in Frames
        /\ Frame("teardown", slots[s], s) \in Frames
    BY <2>2, <2>5, FrameTypes DEF OfChannel
  <2>7. stack' \in Seq(Frames)
    BY <1>1, <2>1, <2>6, TypeStack DEF CloseNextChannel, At
  <2>8. QED
    BY <1>1, <2>3, <2>4, <2>7 DEF CloseNextChannel, TypeOK
<1>2. CASE Detach
  <2>1. Frame("detached", NoChannel, 0) \in Frames /\ Frame("detach", NoChannel, 0) \in Frames
    BY FrameTypes DEF Callbacks, Continuations, OfChannel, Loops
  <2>2. stack' \in Seq(Frames)
    BY <1>2, <2>1, TypeStack DEF Detach, At
  <2>3. QED
    BY <1>2, <2>2 DEF Detach, TypeOK
<1>3. CASE CloseTransport
  <2>1. Frame("closed", NoChannel, 0) \in Frames
    BY FrameTypes DEF Callbacks, Continuations, OfChannel, Loops
  <2>2. notes' \in Seq(TransportStates)
    BY <1>3, ExtendType DEF CloseTransport, TypeOK, TransportStates
  <2>3. stack' \in Seq(Frames)
    BY <1>3, <2>1, TypeStack DEF CloseTransport, At
  <2>4. QED
    BY <1>3, <2>2, <2>3 DEF CloseTransport, TypeOK, TransportStates
<1>4. CASE SetMtu
  <2>1. ClosingFrame(0) \in Frames
    BY FrameTypes, NChannelsAssumption
  <2>2. stack' \in Seq(Frames)
    BY <1>4, <2>1, TypeStack DEF SetMtu, At
  <2>3. QED
    BY <1>4, <2>2 DEF SetMtu, TypeOK
<1>5. QED
  BY <1>1, <1>2, <1>3, <1>4

LEMMA DropSlotType ==
  ASSUME TypeOK, NEW c \in Channels, NEW s \in Sids, DropSlot(c, s)
  PROVE  /\ slots' \in [Sids -> Channels \cup {NoChannel}]
         /\ hist' \in [Channels -> Histories]
<1>1. hist[c].released \in 0 .. 2
  BY DEF TypeOK, Histories
<1>2. Bump(hist[c].released) \in 0 .. 2
  BY <1>1, BumpType
<1>3. QED
  BY <1>2 DEF DropSlot, TypeOK, Histories

LEMMA TypeChannels ==
  TypeOK /\ (Drop \/ DropSkipped \/ Created \/ OpenRegistered \/ ResetDone) => TypeOK'
<1> SUFFICES ASSUME TypeOK, Drop \/ DropSkipped \/ Created \/ OpenRegistered \/ ResetDone
             PROVE  TypeOK'
  OBVIOUS
<1>0. ~Idle
  BY DEF Drop, DropSkipped, Created, OpenRegistered, ResetDone, At
<1>1. Pop(stack) \in Seq(Frames)
  BY <1>0, PopType DEF TypeOK, Idle
<1>2. CASE Drop
  <2>1. Top.ch \in Channels /\ Top.sid \in Sids
    BY <1>2, TopType DEF Drop, At, OfChannel, Loops, TypeOK
  <2>2. QED
    BY <1>1, <1>2, <2>1, DropSlotType DEF Drop, TypeOK
<1>3. CASE DropSkipped \/ ResetDone
  BY <1>1, <1>3 DEF DropSkipped, ResetDone, TypeOK
<1>4. CASE Created
  <2>1. Top.ch \in Channels
    BY <1>4, TopType DEF Created, At, OfChannel, TypeOK
  <2>2. [chan[Top.ch] EXCEPT !.known = TRUE] \in ChannelRecords
    BY <2>1, KnownUpdateType DEF TypeOK
  <2>3. QED
    BY <1>1, <1>4, <2>1, <2>2 DEF Created, TypeOK
<1>5. CASE OpenRegistered
  <2>1. Top.ch \in Channels /\ Top.sid \in Sids
    BY <1>5, TopType DEF OpenRegistered, At, OfChannel, Loops, TypeOK
  <2>2. [chan[Top.ch] EXCEPT !.state = "open"] \in ChannelRecords
    BY <2>1, StateUpdateType DEF TypeOK, ChannelStates
  <2>3. Hears(Top.ch, "open") \in [Channels -> Histories]
    BY <2>1, HearsType DEF TypeOK
  <2>4. Frame("open", Top.ch, Top.sid) \in Frames
    BY <2>1, FrameTypes DEF OfChannel
  <2>5. Replace(stack, Frame("open", Top.ch, Top.sid)) \in Seq(Frames)
    BY <1>0, <2>4, TypeStack
  <2>6. CASE tstate = "connected"
    BY <1>5, <2>1, <2>2, <2>3, <2>5, <2>6 DEF OpenRegistered, TypeOK
  <2>7. CASE tstate # "connected"
    BY <1>1, <1>5, <2>7 DEF OpenRegistered, TypeOK
  <2>8. QED
    BY <2>6, <2>7
<1>6. QED
  BY <1>2, <1>3, <1>4, <1>5

LEMMA TypeConnected ==
  TypeOK /\ (OpenNextChannel \/ NotifyConnected) => TypeOK'
<1> SUFFICES ASSUME TypeOK, OpenNextChannel \/ NotifyConnected PROVE TypeOK'
  OBVIOUS
<1>1. CASE OpenNextChannel
  <2>1. PICK s \in Sids :
          /\ NextIn(Waiting, s, Top.sid)
          /\ chan' = [chan EXCEPT ![slots[s]].state = "open"]
          /\ hist' = Hears(slots[s], "open")
          /\ stack' = Push(Replace(stack, Frame("open_channels", NoChannel, s + 1)),
                           Frame("open_all", slots[s], s))
    BY <1>1 DEF OpenNextChannel
  <2>2. slots[s] \in Channels /\ chan[slots[s]] \in ChannelRecords
    BY <2>1 DEF NextIn, Waiting, Filled, Free, TypeOK
  <2>3. chan' \in [Channels -> ChannelRecords]
    BY <2>1, <2>2, StateUpdateType DEF TypeOK, ChannelStates
  <2>4. hist' \in [Channels -> Histories]
    BY <2>1, <2>2, HearsType DEF TypeOK
  <2>5. s + 1 \in 0 .. NChannels
    BY NChannelsAssumption DEF Sids
  <2>6. /\ Frame("open_channels", NoChannel, s + 1) \in Frames
        /\ Frame("open_all", slots[s], s) \in Frames
    BY <2>2, <2>5, FrameTypes DEF OfChannel, Loops
  <2>7. stack' \in Seq(Frames)
    BY <1>1, <2>1, <2>6, TypeStack DEF OpenNextChannel, At
  <2>8. QED
    BY <1>1, <2>3, <2>4, <2>7 DEF OpenNextChannel, TypeOK
<1>2. CASE NotifyConnected
  <2>1. Frame("connected", NoChannel, 0) \in Frames
    BY FrameTypes DEF Callbacks, Continuations, OfChannel, Loops
  <2>2. notes' \in Seq(TransportStates)
    BY <1>2, ExtendType DEF NotifyConnected, TypeOK, TransportStates
  <2>3. stack' \in Seq(Frames)
    BY <1>2, <2>1, TypeStack DEF NotifyConnected, At
  <2>4. QED
    BY <1>2, <2>2, <2>3 DEF NotifyConnected, TypeOK
<1>3. QED
  BY <1>1, <1>2

(* The rotation stays within the array.                                      *)
LEMMA FollowingType == \A s \in Sids : Following(s) \in Sids
BY NChannelsAssumption DEF Following, Sids

LEMMA TypeDry == TypeOK /\ (DryVisit \/ DryAdvance) => TypeOK'
<1> SUFFICES ASSUME TypeOK, DryVisit \/ DryAdvance PROVE TypeOK'
  OBVIOUS
<1>0. /\ ~Idle /\ Top.sid \in Sids /\ Top.todo \in SUBSET Sids
      /\ Top.ch \in Channels \cup {NoChannel}
  BY TopType DEF DryVisit, DryAdvance, At, Loops, TypeOK
<1>1. CASE DryVisit
  <2> DEFINE c == slots[Top.sid]
             After(ch) == Replace(stack, DryFrame("dry_next", ch, Top.sid,
                                                  Top.todo \ {Top.sid}))
  <2>1. \A ch \in Channels \cup {NoChannel} : After(ch) \in Seq(Frames)
    BY <1>0, FrameTypes, TypeStack
  <2>2. c # NoChannel => c \in Channels
    BY <1>0 DEF TypeOK
  <2>3. CASE c = NoChannel /\ stack' = After(NoChannel) /\ UNCHANGED <<chan, resetReq, hist>>
    BY <1>1, <2>1, <2>3 DEF DryVisit, TypeOK
  <2>4. CASE c # NoChannel /\ stack' = Push(After(NoChannel), Frame("low", c, Top.sid))
             /\ UNCHANGED <<chan, resetReq, hist>>
    <3>1. Frame("low", c, Top.sid) \in Frames
      BY <1>0, <2>2, <2>4, FrameTypes DEF OfChannel
    <3>2. stack' \in Seq(Frames)
      BY <2>1, <2>4, <3>1, PushType
    <3>3. QED
      BY <1>1, <2>4, <3>2 DEF DryVisit, TypeOK
  <2>5. CASE c # NoChannel /\ AskForReset(c) /\ hist' = [hist EXCEPT ![c] = ResetIssued(c)]
             /\ stack' = After(c) /\ UNCHANGED chan
    <3>1. chan[c].sid \in Sids /\ ResetIssued(c) \in Histories
      BY <2>2, <2>5, ResetIssuedType DEF TypeOK, ChannelRecords
    <3>2. resetReq' \in SUBSET Sids
      BY <2>5, <3>1 DEF AskForReset, TypeOK
    <3>3. hist' \in [Channels -> Histories] /\ stack' \in Seq(Frames)
      BY <2>1, <2>2, <2>5, <3>1 DEF TypeOK
    <3>4. QED
      BY <1>1, <2>5, <3>2, <3>3 DEF DryVisit, TypeOK
  <2>6. CASE c # NoChannel /\ CloseImproperly(c, chan[c], After(c))
    <3>1. chan[c] \in ChannelRecords /\ After(c) \in Seq(Frames)
      BY <2>1, <2>2, <2>6 DEF TypeOK
    <3>2. /\ chan' \in [Channels -> ChannelRecords]
          /\ hist' \in [Channels -> Histories]
          /\ stack' \in Seq(Frames)
          /\ resetReq' \in SUBSET Sids
      BY <2>2, <2>6, <3>1, ImproperType
    <3>3. QED
      BY <1>1, <3>2 DEF DryVisit, TypeOK
  <2>7. QED
    BY <1>1, <2>3, <2>4, <2>5, <2>6 DEF DryVisit
<1>2. CASE DryAdvance
  <2>1. Following(Top.sid) \in Sids
    BY <1>0, FollowingType
  <2>2. curSid' \in Sids /\ stack' \in Seq(Frames)
    <3>1. Pop(stack) \in Seq(Frames)
      BY <1>0, PopType DEF TypeOK, Idle
    <3>2. Replace(stack, DryFrame("dry", NoChannel, Following(Top.sid), Top.todo)) \in Seq(Frames)
      BY <1>0, <2>1, FrameTypes, TypeStack
    <3>3. QED
      BY <1>2, <2>1, <3>1, <3>2 DEF DryAdvance, Resume, TypeOK
  <2>3. chan' \in [Channels -> ChannelRecords]
    <3>1. CASE Top.ch = NoChannel
      BY <1>2, <3>1 DEF DryAdvance, TypeOK
    <3>2. CASE Top.ch \in Channels /\ Top.ch # NoChannel
      <4>1. [chan[Top.ch] EXCEPT !.pending = FALSE] \in ChannelRecords
        BY <3>2, PendingUpdateType DEF TypeOK
      <4>2. QED
        BY <1>2, <3>2, <4>1 DEF DryAdvance, TypeOK
    <3>3. QED
      BY <1>0, <3>1, <3>2
  <2>4. QED
    BY <1>2, <2>2, <2>3 DEF DryAdvance, TypeOK
<1>3. QED
  BY <1>1, <1>2

LEMMA TypeEvents == TypeOK /\ Events => TypeOK'
<1> SUFFICES ASSUME TypeOK, Events PROVE TypeOK'
  OBVIOUS
<1>0. 0 \in Sids
  BY NChannelsAssumption DEF Sids
<1>1. ASSUME NEW k \in 0 .. Len(queue), CommUp(k) PROVE TypeOK'
  <2>1. Drained(k) \in Seq(Channels)
    BY DrainedType DEF TypeOK
  <2>2. Frame("open_channels", NoChannel, 0) \in Frames
    BY FrameTypes, NChannelsAssumption DEF Loops
  <2>3. stack' \in Seq(Frames)
    BY <1>1, <2>2, TypeStack DEF CommUp
  <2>4. QED
    BY <1>1, <2>1, <2>3 DEF CommUp, TypeOK, TransportStates
<1>2. ASSUME NEW k \in 1 .. Len(queue), WriteEvent(k) PROVE TypeOK'
  <2>1. Drained(k) \in Seq(Channels)
    BY DrainedType DEF TypeOK
  <2>2. QED
    BY <1>2, <2>1 DEF WriteEvent, TypeOK
<1>3. CASE CommLost
  <2>1. ClosingFrame(0) \in Frames
    BY FrameTypes, NChannelsAssumption
  <2>2. stack' \in Seq(Frames)
    BY <1>3, <2>1, TypeStack DEF CommLost
  <2>3. QED
    BY <1>3, <2>2 DEF CommLost, TypeOK
<1>4. CASE SenderDry
  <2>1. DryFrame("dry", NoChannel, curSid, Sids) \in Frames
    BY FrameTypes DEF TypeOK
  <2>2. stack' \in Seq(Frames)
    BY <1>4, <2>1, TypeStack DEF SenderDry
  <2>3. QED
    BY <1>4, <2>2 DEF SenderDry, TypeOK
<1>5. ASSUME NEW sids \in SUBSET Sids, NEW dirs \in SUBSET Directions, StreamReset(sids, dirs)
      PROVE  TypeOK'
  <2>1. Frame("reset", NoChannel, 0) \in Frames
    BY FrameTypes DEF Callbacks, Continuations, OfChannel, Loops
  <2>2. [Frame("reset", NoChannel, 0) EXCEPT !.todo = sids, !.dirs = dirs] \in Frames
    BY <2>1 DEF Frames
  <2>3. stack' \in Seq(Frames)
    BY <1>5, <2>2, TypeStack DEF StreamReset
  <2>4. resetReq' \in SUBSET Sids
    BY <1>5 DEF StreamReset, TypeOK
  <2>5. QED
    BY <1>5, <2>3, <2>4 DEF StreamReset, TypeOK
<1>6. ASSUME NEW s \in Sids, StreamResetDenied(s) PROVE TypeOK'
  BY <1>6 DEF StreamResetDenied, TypeOK
<1>7. ASSUME NEW s \in Sids, RemoteOpenFails(s) PROVE TypeOK'
  BY <1>7 DEF RemoteOpenFails, SctpSendFails, TypeOK
<1>8. ASSUME NEW c \in Channels, NEW s \in Sids, RemoteOpen(c, s) PROVE TypeOK'
  <2>1. amountLow' \in BOOLEAN /\ queue' \in Seq(Channels)
    BY <1>8, SctpSendType DEF RemoteOpen, TypeOK
  <2>2. NewChannel("connecting", s, TRUE) \in ChannelRecords
    BY NewChannelType DEF ChannelStates
  <2>3. Frame("register", c, s) \in Frames /\ Frame("channel", c, s) \in Frames
    BY FrameTypes DEF OfChannel
  <2>4. stack' \in Seq(Frames)
    BY <1>8, <2>3, TypeStack DEF RemoteOpen
  <2>5. QED
    BY <1>8, <2>1, <2>2, <2>4 DEF RemoteOpen, TypeOK
<1>9. QED
  BY <1>1, <1>2, <1>3, <1>4, <1>5, <1>6, <1>7, <1>8 DEF Events

LEMMA TypeLibrary == TypeOK /\ Library => TypeOK'
BY TypeClosing, TypeChannels, TypeConnected, TypeDry, TypeResetNext DEF Library

LEMMA TypeStutter == TypeOK /\ UNCHANGED vars => TypeOK'
BY DEF TypeOK, vars

LEMMA TypeNext == TypeOK /\ [Next]_vars => TypeOK'
BY TypeApp, TypeReturn, TypeLibrary, TypeEvents, TypeStutter DEF Next

(* Every variable keeps its type: transport->channels holds channels or     *)
(* NULL only, and every loop over it stays within the array.                *)
THEOREM TypeCorrect == Spec => []TypeOK
BY TypeInit, TypeNext, PTL DEF Spec

(***************************************************************************)
(* LowImpliesEmptyQueue is inductive: the flag is set when the queue is    *)
(* empty only, and whatever appends to the queue has cleared it.           *)
(***************************************************************************)
LEMMA LowStable ==
  ASSUME LowImpliesEmptyQueue, UNCHANGED <<amountLow, queue>>
  PROVE  LowImpliesEmptyQueue'
BY DEF LowImpliesEmptyQueue

LEMMA LowSent ==
  ASSUME NEW c, SctpSend(c) \/ SctpSendFails
  PROVE  LowImpliesEmptyQueue'
<1>1. amountLow' = FALSE
  BY DEF SctpSend, SctpSendFails
<1>2. QED
  BY <1>1 DEF LowImpliesEmptyQueue

LEMMA LowNext == TypeOK /\ LowImpliesEmptyQueue /\ [Next]_vars => LowImpliesEmptyQueue'
<1> SUFFICES ASSUME TypeOK, LowImpliesEmptyQueue, [Next]_vars
             PROVE  LowImpliesEmptyQueue'
  OBVIOUS
<1>1. CASE App
  <2>1. CASE Start \/ StartFails \/ Stop \/ GetDataTransport
    BY <2>1, LowStable DEF Start, StartFails, Stop, GetDataTransport
  <2>2. CASE CreateInbandFails
    BY <2>2, LowSent DEF CreateInbandFails
  <2>3. ASSUME NEW c \in Channels, CreateInband(c) \/ Send(c) PROVE LowImpliesEmptyQueue'
    BY <2>3, LowSent DEF CreateInband, Send
  <2>4. ASSUME NEW c \in Channels, Close(c) PROVE LowImpliesEmptyQueue'
    BY <2>4, LowStable DEF Close
  <2>5. ASSUME NEW c \in Channels, NEW s \in Sids, CreateNegotiated(c, s)
        PROVE  LowImpliesEmptyQueue'
    BY <2>5, LowStable DEF CreateNegotiated
  <2>6. QED
    BY <1>1, <2>1, <2>2, <2>3, <2>4, <2>5 DEF App
<1>2. CASE Return \/ UNCHANGED vars
  BY <1>2, LowStable DEF Return, vars
<1>3. CASE Library
  <2>1. CASE CloseNextChannel \/ Detach \/ CloseTransport \/ Drop \/ DropSkipped
             \/ SetMtu \/ Created
    BY <2>1, LowStable DEF CloseNextChannel, Detach, CloseTransport, Drop,
                           DropSkipped, SetMtu, Created
  <2>2. CASE OpenRegistered \/ OpenNextChannel \/ NotifyConnected \/ DryVisit
             \/ DryAdvance \/ ResetNext \/ ResetDone
    BY <2>2, LowStable DEF OpenRegistered, OpenNextChannel, NotifyConnected,
                           DryVisit, DryAdvance, ResetNext, ResetDone
  <2>3. QED
    BY <1>3, <2>1, <2>2 DEF Library
<1>4. CASE Events
  <2>1. ASSUME NEW k \in 0 .. Len(queue), UNCHANGED amountLow, queue' = Drained(k)
        PROVE  LowImpliesEmptyQueue'
    BY <2>1, DrainedType DEF LowImpliesEmptyQueue, TypeOK
  <2>2. ASSUME NEW k \in 0 .. Len(queue), CommUp(k) PROVE LowImpliesEmptyQueue'
    BY <2>1, <2>2 DEF CommUp
  <2>3. ASSUME NEW k \in 1 .. Len(queue), WriteEvent(k) PROVE LowImpliesEmptyQueue'
    <3>1. k \in 0 .. Len(queue)
      OBVIOUS
    <3>2. QED
      BY <2>1, <2>3, <3>1 DEF WriteEvent
  <2>4. CASE CommLost
    BY <2>4, LowStable DEF CommLost
  <2>5. CASE SenderDry
    <3>1. queue' = <<>>
      BY <2>5 DEF SenderDry
    <3>2. QED
      BY <3>1 DEF LowImpliesEmptyQueue
  <2>6. ASSUME NEW sids, NEW dirs, StreamReset(sids, dirs) PROVE LowImpliesEmptyQueue'
    BY <2>6, LowStable DEF StreamReset
  <2>7. ASSUME NEW s \in Sids, StreamResetDenied(s) \/ RemoteOpenFails(s)
        PROVE  LowImpliesEmptyQueue'
    BY <2>7, LowStable, LowSent DEF StreamResetDenied, RemoteOpenFails
  <2>8. ASSUME NEW c \in Channels, NEW s \in Sids, RemoteOpen(c, s)
        PROVE  LowImpliesEmptyQueue'
    BY <2>8, LowSent DEF RemoteOpen
  <2>9. QED
    BY <1>4, <2>2, <2>3, <2>4, <2>5, <2>6, <2>7, <2>8 DEF Events
<1>5. QED
  BY <1>1, <1>2, <1>3, <1>4 DEF Next

(* While the buffered-amount-low flag is set no message is deferred, so the *)
(* sender dry loop never resets a stream ahead of a deferred message        *)
(* (handle_sender_dry_event, sctp_send).                                    *)
THEOREM LowFlagSound == Spec => []LowImpliesEmptyQueue
<1>1. Init => LowImpliesEmptyQueue
  BY DEF Init, LowImpliesEmptyQueue
<1>2. QED
  BY <1>1, TypeCorrect, LowNext, PTL DEF Spec

(***************************************************************************)
(* RegistrySound is inductive: most steps keep the SID of every channel    *)
(* and only ever clear a slot; the others register an unused channel.      *)
(***************************************************************************)
ChannelsKept ==
  \A c \in Channels :
    /\ chan'[c].sid = chan[c].sid
    /\ chan[c].state # "none" => chan'[c].state # "none"

SlotsKept == \A s \in Sids : slots'[s] \in {slots[s], NoChannel}

LEMMA RegistryKept ==
  ASSUME TypeOK, RegistrySound, ChannelsKept, SlotsKept
  PROVE  RegistrySound'
<1> SUFFICES ASSUME NEW s \in Sids, slots'[s] # NoChannel
             PROVE  chan'[slots'[s]].sid = s /\ chan'[slots'[s]].state # "none"
  BY DEF RegistrySound, Free
<1>1. slots'[s] = slots[s]
  BY DEF SlotsKept
<1>2. slots[s] \in Channels
  BY <1>1 DEF TypeOK
<1>3. QED
  BY <1>1, <1>2 DEF ChannelsKept, RegistrySound, Free

LEMMA RegistryUnchanged ==
  ASSUME TypeOK, RegistrySound, UNCHANGED <<chan, slots>>
  PROVE  RegistrySound'
BY DEF RegistrySound, Free

(* One record is replaced by one of the same SID that is in use.             *)
LEMMA OneChannelKept ==
  ASSUME TypeOK, NEW c \in Channels, NEW r \in ChannelRecords,
         chan' = [chan EXCEPT ![c] = r],
         r.sid = chan[c].sid, r.state # "none"
  PROVE  ChannelsKept
BY DEF ChannelsKept, TypeOK

LEMMA RegistryNew ==
  ASSUME TypeOK, RegistrySound, NEW c \in Channels, NEW s \in Sids, Unused(c),
         NEW state \in ChannelStates \ {"none"}, NEW known \in BOOLEAN,
         chan' = [chan EXCEPT ![c] = NewChannel(state, s, known)],
         slots' = [slots EXCEPT ![s] = c]
  PROVE  RegistrySound'
<1> SUFFICES ASSUME NEW r \in Sids, slots'[r] # NoChannel
             PROVE  chan'[slots'[r]].sid = r /\ chan'[slots'[r]].state # "none"
  BY DEF RegistrySound, Free
<1>1. CASE r = s
  <2>1. slots'[r] = c /\ chan'[c] = NewChannel(state, s, known)
    BY <1>1 DEF TypeOK
  <2>2. QED
    BY <1>1, <2>1 DEF NewChannel
<1>2. CASE r # s
  <2>1. slots'[r] = slots[r] /\ slots[r] \in Channels
    BY <1>2 DEF TypeOK
  <2>2. chan[slots[r]].sid = r /\ chan[slots[r]].state # "none"
    BY <2>1 DEF RegistrySound, Free
  <2>3. slots[r] # c
    BY <2>2 DEF Unused
  <2>4. QED
    BY <2>1, <2>2, <2>3 DEF TypeOK
<1>3. QED
  BY <1>1, <1>2

LEMMA ImproperKept ==
  ASSUME TypeOK, NEW c \in Channels, NEW record \in ChannelRecords, NEW below,
         record.sid = chan[c].sid, CloseImproperly(c, record, below)
  PROVE  ChannelsKept
<1>1. [record EXCEPT !.state = "closed"] \in ChannelRecords
  BY StateUpdateType DEF ChannelStates
<1>2. [record EXCEPT !.state = "closed"].sid = chan[c].sid
      /\ [record EXCEPT !.state = "closed"].state = "closed"
  BY DEF ChannelRecords
<1>3. QED
  BY <1>1, <1>2, OneChannelKept DEF CloseImproperly

LEMMA StateKept ==
  ASSUME TypeOK, NEW c \in Channels, NEW state \in ChannelStates \ {"none"},
         chan' = [chan EXCEPT ![c].state = state]
  PROVE  ChannelsKept
<1>1. chan[c] \in ChannelRecords
  BY DEF TypeOK
<1>2. [chan[c] EXCEPT !.state = state] \in ChannelRecords
  BY <1>1, StateUpdateType
<1>3. [chan[c] EXCEPT !.state = state].sid = chan[c].sid
      /\ [chan[c] EXCEPT !.state = state].state = state
  BY <1>1 DEF ChannelRecords
<1>4. QED
  BY <1>2, <1>3, OneChannelKept

LEMMA SlotsUnchanged ==
  ASSUME UNCHANGED slots
  PROVE  SlotsKept
BY DEF SlotsKept

LEMMA RegistryApp == TypeOK /\ RegistrySound /\ App => RegistrySound'
<1> SUFFICES ASSUME TypeOK, RegistrySound, App PROVE RegistrySound'
  OBVIOUS
<1>1. CASE Start \/ StartFails \/ Stop \/ GetDataTransport \/ CreateInbandFails
  BY <1>1, RegistryUnchanged
     DEF Start, StartFails, Stop, GetDataTransport, CreateInbandFails
<1>2. ASSUME NEW c \in Channels, Send(c) PROVE RegistrySound'
  BY <1>2, RegistryUnchanged DEF Send
<1>3. ASSUME NEW c \in Channels, NEW s \in Sids, Unused(c), RegisterCreated(c, s)
      PROVE  RegistrySound'
  <2>1. CASE tstate = "connected"
    <3>1. /\ chan' = [chan EXCEPT ![c] = NewChannel("open", s, FALSE)]
          /\ slots' = [slots EXCEPT ![s] = c]
      BY <1>3, <2>1 DEF RegisterCreated
    <3>2. QED
      BY <1>3, <3>1, RegistryNew DEF ChannelStates
  <2>2. CASE tstate # "connected"
    <3>1. /\ chan' = [chan EXCEPT ![c] = NewChannel("connecting", s, TRUE)]
          /\ slots' = [slots EXCEPT ![s] = c]
      BY <1>3, <2>2 DEF RegisterCreated
    <3>2. QED
      BY <1>3, <3>1, RegistryNew DEF ChannelStates
  <2>3. QED
    BY <2>1, <2>2
<1>4. ASSUME NEW c \in Channels, CreateInband(c) PROVE RegistrySound'
  BY <1>3, <1>4 DEF CreateInband, OwnSids
<1>5. ASSUME NEW c \in Channels, NEW s \in Sids, CreateNegotiated(c, s)
      PROVE  RegistrySound'
  BY <1>3, <1>5 DEF CreateNegotiated
<1>6. ASSUME NEW c \in Channels, Close(c) PROVE RegistrySound'
  <2>1. chan[c] \in ChannelRecords /\ SlotsKept
    BY <1>6, SlotsUnchanged DEF Close, TypeOK
  <2>2. CASE chan' = [chan EXCEPT ![c] = Deferred(@)]
    <3>1. Deferred(chan[c]) \in ChannelRecords
      BY <2>1, DeferredType
    <3>2. Deferred(chan[c]).sid = chan[c].sid /\ Deferred(chan[c]).state = "closing"
      BY <2>1 DEF Deferred, ChannelRecords
    <3>3. QED
      BY <2>1, <2>2, <3>1, <3>2, OneChannelKept, RegistryKept
  <2>3. CASE chan' = [chan EXCEPT ![c].state = "closing"]
    BY <2>1, <2>3, StateKept, RegistryKept DEF ChannelStates
  <2>4. CASE CloseImproperly(c, chan[c], stack)
    BY <2>1, <2>4, ImproperKept, RegistryKept
  <2>5. QED
    BY <1>6, <2>2, <2>3, <2>4 DEF Close
<1>7. QED
  BY <1>1, <1>2, <1>4, <1>5, <1>6 DEF App

LEMMA RegistryResetNext == TypeOK /\ RegistrySound /\ ResetNext => RegistrySound'
<1> SUFFICES ASSUME TypeOK, RegistrySound, ResetNext PROVE RegistrySound'
  OBVIOUS
<1>0. SlotsKept
  BY SlotsUnchanged DEF ResetNext
<1>1. Top.todo \in SUBSET Sids
  BY TopType DEF ResetNext, At, TypeOK
<1>2. PICK s \in Top.todo : ResetUnregistered(s) \/ ResetNoted(s)
                            \/ ResetAnswered(s) \/ ResetAnswerFails(s)
  BY DEF ResetNext
<1> DEFINE c == slots[s]
<1>3. ~Free(s) => c \in Channels /\ chan[c] \in ChannelRecords
  BY <1>1 DEF Free, TypeOK
<1>4. ~Free(s) => chan[c].state # "none"
  BY <1>1 DEF RegistrySound
<1>5. ASSUME ~Free(s), NEW r \in ChannelRecords, NEW h, r.sid = chan[c].sid,
             r.state # "none", CloseIfReset(c, r, h, Later(s))
      PROVE  RegistrySound'
  <2>1. CASE chan' = [chan EXCEPT ![c] = r]
    BY <1>0, <1>3, <1>5, <2>1, OneChannelKept, RegistryKept
  <2>2. CASE chan' = [chan EXCEPT ![c] = [r EXCEPT !.state = "closed"]]
    <3>1. [r EXCEPT !.state = "closed"] \in ChannelRecords
      BY StateUpdateType DEF ChannelStates
    <3>2. [r EXCEPT !.state = "closed"].sid = chan[c].sid
          /\ [r EXCEPT !.state = "closed"].state = "closed"
      BY <1>5 DEF ChannelRecords
    <3>3. QED
      BY <1>0, <1>3, <1>5, <2>2, <3>1, <3>2, OneChannelKept, RegistryKept
  <2>3. QED
    BY <1>5, <2>1, <2>2 DEF CloseIfReset
<1>6. CASE ResetUnregistered(s)
  BY <1>6, RegistryUnchanged DEF ResetUnregistered, ResetNext
<1>7. ~Free(s) => /\ Noted(chan[c]) \in ChannelRecords
                  /\ Noted(chan[c]).sid = chan[c].sid
                  /\ Noted(chan[c]).state = chan[c].state
  BY <1>3, NotedType, NotedKept
<1>8. CASE ResetNoted(s)
  BY <1>4, <1>5, <1>7, <1>8 DEF ResetNoted
<1>9. CASE ResetAnswered(s)
  <2>1. Deferred(Noted(chan[c])) \in ChannelRecords
        /\ [Noted(chan[c]) EXCEPT !.state = "closing"] \in ChannelRecords
    BY <1>7, <1>9, DeferredType, StateUpdateType DEF ResetAnswered, ChannelStates
  <2>2. Deferred(Noted(chan[c])).sid = chan[c].sid
        /\ Deferred(Noted(chan[c])).state # "none"
    BY <1>7, <1>9 DEF ResetAnswered, Deferred, ChannelRecords
  <2>3. [Noted(chan[c]) EXCEPT !.state = "closing"].sid = chan[c].sid
        /\ [Noted(chan[c]) EXCEPT !.state = "closing"].state # "none"
    BY <1>7, <1>9 DEF ResetAnswered, ChannelRecords
  <2>4. QED
    BY <1>5, <1>9, <2>1, <2>2, <2>3 DEF ResetAnswered
<1>10. CASE ResetAnswerFails(s)
  <2>1. [chan[c] EXCEPT !.inReset = TRUE] \in ChannelRecords
        /\ [chan[c] EXCEPT !.inReset = TRUE].sid = chan[c].sid
    BY <1>3, <1>10 DEF ResetAnswerFails, ChannelRecords
  <2>2. CloseImproperly(c, [chan[c] EXCEPT !.inReset = TRUE], Later(s)) /\ c \in Channels
    BY <1>3, <1>10 DEF ResetAnswerFails
  <2>3. QED
    BY <1>0, <2>1, <2>2, ImproperKept, RegistryKept
<1>11. QED
  BY <1>2, <1>6, <1>8, <1>9, <1>10

LEMMA RegistryLibrary == TypeOK /\ RegistrySound /\ Library => RegistrySound'
<1> SUFFICES ASSUME TypeOK, RegistrySound, Library PROVE RegistrySound'
  OBVIOUS
<1>1. CASE Detach \/ CloseTransport \/ DropSkipped \/ SetMtu \/ NotifyConnected \/ ResetDone
  BY <1>1, RegistryUnchanged
     DEF Detach, CloseTransport, DropSkipped, SetMtu, NotifyConnected, ResetDone
<1>2. CASE CloseNextChannel
  <2>1. PICK s \in Sids : NextIn(Filled, s, Top.sid)
                          /\ chan' = [chan EXCEPT ![slots[s]].state = "closed"]
    BY <1>2 DEF CloseNextChannel
  <2>2. slots[s] \in Channels
    BY <2>1 DEF NextIn, Filled, Free, TypeOK
  <2>3. SlotsKept
    BY <1>2, SlotsUnchanged DEF CloseNextChannel
  <2>4. QED
    BY <2>1, <2>2, <2>3, StateKept, RegistryKept DEF ChannelStates
<1>3. CASE OpenNextChannel
  <2>1. PICK s \in Sids : NextIn(Waiting, s, Top.sid)
                          /\ chan' = [chan EXCEPT ![slots[s]].state = "open"]
    BY <1>3 DEF OpenNextChannel
  <2>2. slots[s] \in Channels
    BY <2>1 DEF NextIn, Waiting, Filled, Free, TypeOK
  <2>3. SlotsKept
    BY <1>3, SlotsUnchanged DEF OpenNextChannel
  <2>4. QED
    BY <2>1, <2>2, <2>3, StateKept, RegistryKept DEF ChannelStates
<1>4. CASE Drop
  <2>1. ChannelsKept
    BY <1>4 DEF Drop, ChannelsKept
  <2>2. SlotsKept
    BY <1>4 DEF Drop, DropSlot, SlotsKept, TypeOK
  <2>3. QED
    BY <2>1, <2>2, RegistryKept
<1>5. CASE Created
  <2>1. Top.ch \in Channels
    BY <1>5, TopType DEF Created, At, OfChannel, TypeOK
  <2>2. ChannelsKept
    BY <1>5, <2>1 DEF Created, ChannelsKept, TypeOK, ChannelRecords
  <2>3. QED
    BY <1>5, <2>2, SlotsUnchanged, RegistryKept DEF Created
<1>6. CASE OpenRegistered
  <2>1. Top.ch \in Channels /\ SlotsKept
    BY <1>6, TopType, SlotsUnchanged DEF OpenRegistered, At, OfChannel, TypeOK
  <2>2. CASE chan' = [chan EXCEPT ![Top.ch].state = "open"]
    <3>1. "open" \in ChannelStates \ {"none"}
      BY DEF ChannelStates
    <3>2. ChannelsKept
      BY <2>1, <2>2, <3>1, StateKept
    <3>3. QED
      BY <2>1, <3>2, RegistryKept
  <2>3. CASE UNCHANGED chan
    BY <1>6, <2>3, RegistryUnchanged DEF OpenRegistered
  <2>4. QED
    BY <1>6, <2>2, <2>3 DEF OpenRegistered
<1>7. CASE DryVisit
  <2> DEFINE c == slots[Top.sid]
             After(ch) == Replace(stack, DryFrame("dry_next", ch, Top.sid,
                                                  Top.todo \ {Top.sid}))
  <2>1. Top.sid \in Sids /\ SlotsKept
    BY <1>7, TopType, SlotsUnchanged DEF DryVisit, At, Loops, TypeOK
  <2>2. CASE UNCHANGED chan
    BY <1>7, <2>2, RegistryUnchanged DEF DryVisit
  <2>3. CASE c # NoChannel /\ CloseImproperly(c, chan[c], After(c))
    <3>1. c \in Channels /\ chan[c] \in ChannelRecords
      BY <2>1, <2>3 DEF TypeOK
    <3>2. QED
      BY <2>1, <2>3, <3>1, ImproperKept, RegistryKept
  <2>4. \/ UNCHANGED <<chan, resetReq, hist>>
        \/ c # NoChannel /\ UNCHANGED chan
        \/ c # NoChannel /\ CloseImproperly(c, chan[c], After(c))
    BY <1>7 DEF DryVisit
  <2>5. QED
    BY <2>2, <2>3, <2>4
<1>8. CASE DryAdvance
  <2>1. Top.ch \in Channels \cup {NoChannel} /\ SlotsKept
    BY <1>8, TopType, SlotsUnchanged DEF DryAdvance, At, TypeOK
  <2>2. CASE Top.ch = NoChannel
    BY <1>8, <2>2, RegistryUnchanged DEF DryAdvance
  <2>3. CASE Top.ch # NoChannel
    <3>1. chan' = [chan EXCEPT ![Top.ch].pending = FALSE]
      BY <1>8, <2>3 DEF DryAdvance
    <3>2. ChannelsKept
      BY <2>1, <2>3, <3>1 DEF ChannelsKept, TypeOK, ChannelRecords
    <3>3. QED
      BY <2>1, <3>2, RegistryKept
  <2>4. QED
    BY <2>2, <2>3
<1>9. CASE ResetNext
  BY <1>9, RegistryResetNext
<1>10. QED
  BY <1>1, <1>2, <1>3, <1>4, <1>5, <1>6, <1>7, <1>8, <1>9 DEF Library

LEMMA RegistryEvents == TypeOK /\ RegistrySound /\ Events => RegistrySound'
<1> SUFFICES ASSUME TypeOK, RegistrySound, Events PROVE RegistrySound'
  OBVIOUS
<1>1. ASSUME NEW c \in Channels, NEW s \in Sids, RemoteOpen(c, s)
      PROVE  RegistrySound'
  <2>1. /\ chan' = [chan EXCEPT ![c] = NewChannel("connecting", s, TRUE)]
        /\ slots' = [slots EXCEPT ![s] = c]
        /\ Unused(c)
    BY <1>1 DEF RemoteOpen
  <2>2. QED
    BY <2>1, RegistryNew DEF ChannelStates
<1>2. ASSUME ~ \E c \in Channels, s \in Sids : RemoteOpen(c, s)
      PROVE  RegistrySound'
  BY <1>2, RegistryUnchanged
     DEF Events, CommUp, WriteEvent, CommLost, SenderDry, StreamReset,
         StreamResetDenied, RemoteOpenFails
<1>3. QED
  BY <1>1, <1>2

LEMMA RegistryNext == TypeOK /\ RegistrySound /\ [Next]_vars => RegistrySound'
<1>1. RegistrySound /\ TypeOK /\ (Return \/ UNCHANGED vars) => RegistrySound'
  BY RegistryUnchanged DEF Return, vars
<1>2. QED
  BY <1>1, RegistryApp, RegistryLibrary, RegistryEvents DEF Next

(* Whatever the application does in its callbacks, a slot of                *)
(* transport->channels holds NULL or a channel that was created with the    *)
(* SID of that slot (channel_register and the places that clear a slot).    *)
THEOREM RegistryCorrect == Spec => []RegistrySound
<1>1. Init => RegistrySound
  BY DEF Init, RegistrySound, Free
<1>2. QED
  BY <1>1, TypeCorrect, RegistryNext, PTL DEF Spec
=============================================================================
