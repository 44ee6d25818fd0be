------------------------------ MODULE ReassemblyProofs ------------------------------
(***************************************************************************)
(* Theorems about Reassembly: for any streams and scripts.                 *)
(***************************************************************************)
EXTENDS Reassembly, TLAPS

-----------------------------------------------------------------------------
(***************************************************************************)
(* Types, and what a streamed channel has buffered.                        *)
(***************************************************************************)
Handed(s) == [pieces : Seq(Indices(s)), flag : {"complete", "partial", "aborted"}]

(* What is buffered is pending, and only while the channel is not streamed. *)
BufferedPending ==
  \A s \in Streams : /\ buffer[s] # <<>> => pending[s]
                     /\ streamed[s] => buffer[s] = <<>>

Fields ==
  /\ next \in [Streams -> Nat]
  /\ buffer \in [Streams -> Seq(Nat)]
  /\ handled \in [Streams -> Seq([pieces : Seq(Nat), flag : {"complete", "partial", "aborted"}])]

Inv == TypeOK /\ Fields /\ BufferedPending

LEMMA ScriptType ==
  ASSUME NEW s \in Streams
  PROVE  /\ Len(Script[s]) \in Nat
         /\ \A i \in Indices(s) : Script[s][i] \in Piece
BY ScriptAssumption DEF Indices

LEMMA InvInit == Init => Inv
<1> SUFFICES ASSUME Init PROVE Inv OBVIOUS
<1>1. \A s \in Streams : 1 \in 1 .. Len(Script[s]) + 1 BY ScriptType
<1>2. TypeOK BY <1>1, SwitchesAssumption DEF Init, TypeOK
<1>3. Fields BY DEF Init, Fields
<1>4. QED BY <1>2, <1>3 DEF Init, Inv, BufferedPending

(* The piece that is taken is one of the script.                            *)
LEMMA TakeType ==
  ASSUME Inv, NEW s \in Streams, Take(s)
  PROVE  /\ next[s] \in Indices(s)
         /\ next' \in [Streams -> Nat]
         /\ \A t \in Streams : next'[t] \in 1 .. Len(Script[t]) + 1
         /\ next'[s] = next[s] + 1
         /\ \A t \in Streams : t # s => next'[t] = next[t]
<1>1. next[s] \in 1 .. Len(Script[s]) + 1 /\ next \in [Streams -> Nat]
  BY DEF Inv, TypeOK, Fields
<1>2. next[s] \in Indices(s) BY <1>1, ScriptType DEF Take, Indices
<1>3. next' = [next EXCEPT ![s] = next[s] + 1] BY DEF Take
<1>4. next[s] + 1 \in 1 .. Len(Script[s]) + 1 BY <1>2, ScriptType DEF Indices
<1>5. \A t \in Streams : next'[t] = IF t = s THEN next[s] + 1 ELSE next[t]
  BY <1>1, <1>3
<1>6. \A t \in Streams : next'[t] \in 1 .. Len(Script[t]) + 1
  BY <1>4, <1>5 DEF Inv, TypeOK
<1>7. next' \in [Streams -> Nat] BY <1>1, <1>3
<1>8. QED BY <1>2, <1>5, <1>6, <1>7

(* A call of the handler keeps the types.                                   *)
LEMMA CallType ==
  ASSUME Inv, NEW s \in Streams, NEW p \in Seq(Indices(s)),
         NEW f \in {"complete", "partial", "aborted"}, Call(s, p, f)
  PROVE  /\ \A t \in Streams : handled'[t] \in Seq(Handed(t))
         /\ handled' \in [Streams -> Seq([pieces : Seq(Nat), flag : {"complete", "partial", "aborted"}])]
         /\ handled'[s] = Append(handled[s], [pieces |-> p, flag |-> f])
         /\ \A t \in Streams : t # s => handled'[t] = handled[t]
<1> DEFINE e == [pieces |-> p, flag |-> f]
           All == [pieces : Seq(Nat), flag : {"complete", "partial", "aborted"}]
<1>1. handled \in [Streams -> Seq(All)] BY DEF Inv, Fields
<1>2. handled' = [handled EXCEPT ![s] = Append(handled[s], e)] BY DEF Call
<1>3. e \in Handed(s) BY DEF Handed
<1>4. p \in Seq(Nat) BY ScriptType DEF Indices
<1>5. e \in All BY <1>4
<1>6. handled[s] \in Seq(Handed(s)) BY DEF Inv, TypeOK, Handed
<1>7. Append(handled[s], e) \in Seq(Handed(s)) /\ Append(handled[s], e) \in Seq(All)
  BY <1>1, <1>3, <1>5, <1>6
<1> HIDE DEF e, All
<1>8. \A t \in Streams : handled'[t] = IF t = s THEN Append(handled[s], e) ELSE handled[t]
  BY <1>1, <1>2
<1>9. \A t \in Streams : handled'[t] \in Seq(Handed(t))
  BY <1>7, <1>8 DEF Inv, TypeOK, Handed
<1>10. handled' \in [Streams -> Seq(All)] BY <1>1, <1>2, <1>7
<1>11. QED BY <1>8, <1>9, <1>10 DEF e, All

LEMMA BufferType ==
  ASSUME Inv, NEW s \in Streams, NEW p \in Seq(Indices(s)), buffer' = [buffer EXCEPT ![s] = p]
  PROVE  /\ \A t \in Streams : buffer'[t] \in Seq(Indices(t))
         /\ buffer' \in [Streams -> Seq(Nat)]
         /\ buffer'[s] = p
         /\ \A t \in Streams : t # s => buffer'[t] = buffer[t]
<1>1. buffer \in [Streams -> Seq(Nat)] BY DEF Inv, Fields
<1>2. p \in Seq(Nat) BY ScriptType DEF Indices
<1>3. \A t \in Streams : buffer'[t] = IF t = s THEN p ELSE buffer[t] BY <1>1
<1>4. buffer' \in [Streams -> Seq(Nat)] BY <1>1, <1>2
<1>5. QED BY <1>3, <1>4 DEF Inv, TypeOK

LEMMA CollectedType ==
  ASSUME Inv, NEW s \in Streams, next[s] \in Indices(s)
  PROVE  Collected(s) \in Seq(AllPieces)
<1>1. <<s, next[s]>> \in AllPieces BY DEF AllPieces
<1>2. dcep \in Seq(AllPieces) BY DEF Inv, TypeOK
<1>3. QED BY <1>1, <1>2 DEF Collected

LEMMA DcepInv ==
  ASSUME Inv, NEW s \in Streams, Buffered(s) \/ HandleDcep(s)
  PROVE  Inv'
<1>1. Take(s) BY DEF Buffered, HandleDcep
<1>2. next[s] \in Indices(s) BY <1>1, TakeType
<1>3. /\ next' \in [Streams -> Nat]
      /\ \A t \in Streams : next'[t] \in 1 .. Len(Script[t]) + 1
  BY <1>1, TakeType
<1>4. Collected(s) \in Seq(AllPieces) BY <1>2, CollectedType
<1>5. dcep' \in Seq(AllPieces)
  <2>1. dcep' = Collected(s) \/ dcep' = <<>> BY DEF Buffered, HandleDcep
  <2>2. <<>> \in Seq(AllPieces) OBVIOUS
  <2>3. QED BY <1>4, <2>1, <2>2
<1>6. opens' \in Seq(Seq(AllPieces))
  <2> DEFINE c == Collected(s)
             All == Seq(AllPieces)
  <2>1. c \in All /\ opens \in Seq(All) BY <1>4 DEF Inv, TypeOK
  <2>2. opens' = Append(opens, c) \/ opens' = opens BY DEF Buffered, HandleDcep
  <2> HIDE DEF c, All
  <2>3. opens' \in Seq(All) BY <2>1, <2>2
  <2>4. QED BY <2>3 DEF All
<1>7. registered' \in [Streams -> BOOLEAN]
  BY DEF Buffered, HandleDcep, Inv, TypeOK
<1>8. UNCHANGED <<streamed, pending, buffer, handled, switches>> BY DEF Buffered, HandleDcep
<1>9. TypeOK'
  BY <1>3, <1>5, <1>6, <1>7, <1>8 DEF Inv, TypeOK
<1>10. QED BY <1>3, <1>8, <1>9 DEF Inv, Fields, BufferedPending

LEMMA CreateNegotiatedInv ==
  ASSUME Inv, NEW s \in Streams, CreateNegotiated(s)
  PROVE  Inv'
BY DEF CreateNegotiated, Inv, TypeOK, Fields, BufferedPending

LEMMA NoChannelInv ==
  ASSUME Inv, NEW s \in Streams, NoChannel(s)
  PROVE  Inv'
<1>1. Take(s) BY DEF NoChannel, Application
<1>2. /\ next' \in [Streams -> Nat]
      /\ \A t \in Streams : next'[t] \in 1 .. Len(Script[t]) + 1
  BY <1>1, TakeType
<1>3. QED BY <1>2 DEF NoChannel, Inv, TypeOK, Fields, BufferedPending

(* The actions on the channel of a stream: its buffer, its flag, its calls.  *)
LEMMA ChannelInv ==
  ASSUME Inv, NEW s \in Streams,
         next' \in [Streams -> Nat],
         \A t \in Streams : next'[t] \in 1 .. Len(Script[t]) + 1,
         \A t \in Streams : handled'[t] \in Seq(Handed(t)),
         handled' \in [Streams -> Seq([pieces : Seq(Nat), flag : {"complete", "partial", "aborted"}])],
         NEW p \in Seq(Indices(s)), buffer' = [buffer EXCEPT ![s] = p],
         NEW b \in BOOLEAN, pending' = [pending EXCEPT ![s] = b],
         p # <<>> => b /\ ~streamed[s],
         UNCHANGED <<registered, streamed, dcep, opens, switches>>
  PROVE  Inv'
<1>1. /\ \A t \in Streams : buffer'[t] \in Seq(Indices(t))
      /\ buffer' \in [Streams -> Seq(Nat)]
      /\ buffer'[s] = p
      /\ \A t \in Streams : t # s => buffer'[t] = buffer[t]
  BY BufferType
<1>2. /\ pending' \in [Streams -> BOOLEAN]
      /\ pending'[s] = b
      /\ \A t \in Streams : t # s => pending'[t] = pending[t]
  BY DEF Inv, TypeOK
<1>3. TypeOK' BY <1>1, <1>2 DEF Inv, TypeOK, Handed
<1>4. BufferedPending' BY <1>1, <1>2 DEF Inv, BufferedPending
<1>5. Fields' BY <1>1 DEF Fields
<1>6. QED BY <1>3, <1>4, <1>5 DEF Inv

LEMMA ClearedInv ==
  ASSUME Inv, NEW s \in Streams,
         next' \in [Streams -> Nat],
         \A t \in Streams : next'[t] \in 1 .. Len(Script[t]) + 1,
         \A t \in Streams : handled'[t] \in Seq(Handed(t)),
         handled' \in [Streams -> Seq([pieces : Seq(Nat), flag : {"complete", "partial", "aborted"}])],
         buffer' = [buffer EXCEPT ![s] = <<>>],
         NEW b \in BOOLEAN, pending' = [pending EXCEPT ![s] = b],
         UNCHANGED <<registered, streamed, dcep, opens, switches>>
  PROVE  Inv'
<1> DEFINE p == <<>>
<1>1. p \in Seq(Indices(s)) OBVIOUS
<1>2. buffer' = [buffer EXCEPT ![s] = p] OBVIOUS
<1>3. p # <<>> => b /\ ~streamed[s] OBVIOUS
<1> HIDE DEF p
<1>4. QED BY <1>1, <1>2, <1>3, ChannelInv

LEMMA HandledKept ==
  ASSUME Inv, handled' = handled
  PROVE  /\ \A t \in Streams : handled'[t] \in Seq(Handed(t))
         /\ handled' \in [Streams -> Seq([pieces : Seq(Nat), flag : {"complete", "partial", "aborted"}])]
BY DEF Inv, TypeOK, Fields, Handed

LEMMA EmptyInv ==
  ASSUME Inv, NEW s \in Streams, Empty(s)
  PROVE  Inv'
<1>1. Take(s) BY DEF Empty, Application
<1>2. next[s] \in Indices(s) BY <1>1, TakeType
<1>3. /\ next' \in [Streams -> Nat]
      /\ \A t \in Streams : next'[t] \in 1 .. Len(Script[t]) + 1
  BY <1>1, TakeType
<1>4. /\ buffer' = [buffer EXCEPT ![s] = <<>>]
      /\ UNCHANGED <<registered, streamed, dcep, opens, switches>>
  BY DEF Empty
<1>5. CASE At(s).eor
  <2>1. Call(s, <<next[s]>>, "complete") /\ pending' = [pending EXCEPT ![s] = FALSE]
    BY <1>5 DEF Empty
  <2>2. <<next[s]>> \in Seq(Indices(s)) BY <1>2
  <2>3. /\ \A t \in Streams : handled'[t] \in Seq(Handed(t))
        /\ handled' \in [Streams -> Seq([pieces : Seq(Nat), flag : {"complete", "partial", "aborted"}])]
    BY <2>1, <2>2, CallType
  <2>4. QED BY <1>3, <1>4, <2>1, <2>3, ClearedInv
<1>6. CASE ~At(s).eor
  <2>1. UNCHANGED <<handled, pending>> BY <1>6 DEF Empty
  <2>2. pending' = [pending EXCEPT ![s] = pending[s]] /\ pending[s] \in BOOLEAN
    BY <2>1 DEF Inv, TypeOK
  <2>3. /\ \A t \in Streams : handled'[t] \in Seq(Handed(t))
        /\ handled' \in [Streams -> Seq([pieces : Seq(Nat), flag : {"complete", "partial", "aborted"}])]
    BY <2>1, HandledKept
  <2>4. QED BY <1>3, <1>4, <2>2, <2>3, ClearedInv
<1>7. QED BY <1>5, <1>6

LEMMA BufferInv ==
  ASSUME Inv, NEW s \in Streams, Buffer(s)
  PROVE  Inv'
<1>1. Take(s) BY DEF Buffer, Application
<1>2. next[s] \in Indices(s) BY <1>1, TakeType
<1>3. /\ next' \in [Streams -> Nat]
      /\ \A t \in Streams : next'[t] \in 1 .. Len(Script[t]) + 1
  BY <1>1, TakeType
<1>4. /\ buffer' = [buffer EXCEPT ![s] = Append(buffer[s], next[s])]
      /\ pending' = [pending EXCEPT ![s] = TRUE]
      /\ ~streamed[s] /\ handled' = handled
      /\ UNCHANGED <<registered, streamed, dcep, opens, switches>>
  BY DEF Buffer, PendingAfter, Inv, Fields
<1>5. Append(buffer[s], next[s]) \in Seq(Indices(s)) BY <1>2 DEF Inv, TypeOK
<1>6. /\ \A t \in Streams : handled'[t] \in Seq(Handed(t))
      /\ handled' \in [Streams -> Seq([pieces : Seq(Nat), flag : {"complete", "partial", "aborted"}])]
  BY <1>4, HandledKept
<1>7. QED BY <1>3, <1>4, <1>5, <1>6, ChannelInv

LEMMA RaiseInv ==
  ASSUME Inv, NEW s \in Streams, Raise(s)
  PROVE  Inv'
<1>1. Take(s) BY DEF Raise, Application
<1>2. next[s] \in Indices(s) BY <1>1, TakeType
<1>3. /\ next' \in [Streams -> Nat]
      /\ \A t \in Streams : next'[t] \in 1 .. Len(Script[t]) + 1
  BY <1>1, TakeType
<1>4. /\ buffer' = [buffer EXCEPT ![s] = <<>>]
      /\ pending' = [pending EXCEPT ![s] = FALSE]
      /\ Call(s, Append(buffer[s], next[s]), "complete")
      /\ UNCHANGED <<registered, streamed, dcep, opens, switches>>
  BY DEF Raise
<1>5. Append(buffer[s], next[s]) \in Seq(Indices(s)) BY <1>2 DEF Inv, TypeOK
<1>6. /\ \A t \in Streams : handled'[t] \in Seq(Handed(t))
      /\ handled' \in [Streams -> Seq([pieces : Seq(Nat), flag : {"complete", "partial", "aborted"}])]
  BY <1>4, <1>5, CallType
<1>7. QED BY <1>3, <1>4, <1>6, ClearedInv

LEMMA PassInv ==
  ASSUME Inv, NEW s \in Streams, Pass(s)
  PROVE  Inv'
<1>1. Take(s) BY DEF Pass, Application
<1>2. next[s] \in Indices(s) BY <1>1, TakeType
<1>3. /\ next' \in [Streams -> Nat]
      /\ \A t \in Streams : next'[t] \in 1 .. Len(Script[t]) + 1
  BY <1>1, TakeType
<1>4. /\ buffer' = [buffer EXCEPT ![s] = <<>>]
      /\ pending' = [pending EXCEPT ![s] = ~At(s).eor]
      /\ Call(s, <<next[s]>>, IF At(s).eor THEN "complete" ELSE "partial")
      /\ UNCHANGED <<registered, streamed, dcep, opens, switches>>
  BY DEF Pass
<1>5. <<next[s]>> \in Seq(Indices(s)) BY <1>2
<1>6. /\ \A t \in Streams : handled'[t] \in Seq(Handed(t))
      /\ handled' \in [Streams -> Seq([pieces : Seq(Nat), flag : {"complete", "partial", "aborted"}])]
  <2>1. CASE At(s).eor
    <3>1. Call(s, <<next[s]>>, "complete") BY <1>4, <2>1
    <3>2. QED BY <1>5, <3>1, CallType
  <2>2. CASE ~At(s).eor
    <3>1. Call(s, <<next[s]>>, "partial") BY <1>4, <2>2
    <3>2. QED BY <1>5, <3>1, CallType
  <2>3. QED BY <2>1, <2>2
<1>7. QED BY <1>3, <1>4, <1>6, ClearedInv

LEMMA AbortedInv ==
  ASSUME Inv, NEW s \in Streams, Aborted(s)
  PROVE  Inv'
<1>1. PICK n \in next[s] .. Len(Script[s]) : next' = [next EXCEPT ![s] = n + 1]
  BY DEF Aborted
<1>2. n + 1 \in 1 .. Len(Script[s]) + 1 /\ n \in Nat
  BY <1>1, ScriptType DEF Inv, TypeOK, Indices
<1>3. /\ next' \in [Streams -> Nat]
      /\ \A t \in Streams : next'[t] \in 1 .. Len(Script[t]) + 1
  <2>1. /\ next \in [Streams -> Nat]
        /\ \A t \in Streams : next[t] \in 1 .. Len(Script[t]) + 1
    BY DEF Inv, TypeOK, Fields
  <2>2. \A t \in Streams : next'[t] = IF t = s THEN n + 1 ELSE next[t]
    BY <1>1, <2>1
  <2>3. next' \in [Streams -> Nat] BY <1>1, <1>2, <2>1
  <2>4. QED BY <1>2, <2>1, <2>2, <2>3
<1>4. UNCHANGED <<registered, streamed, dcep, opens, switches>> BY DEF Aborted
<1>5. CASE registered[s]
  <2>1. /\ buffer' = [buffer EXCEPT ![s] = <<>>]
        /\ pending' = [pending EXCEPT ![s] = FALSE]
    BY <1>5 DEF Aborted, DiscardBuffer
  <2>2. /\ \A t \in Streams : handled'[t] \in Seq(Handed(t))
        /\ handled' \in [Streams -> Seq([pieces : Seq(Nat), flag : {"complete", "partial", "aborted"}])]
    <3>1. CASE streamed[s]
      <4>1. Call(s, <<>>, "aborted") BY <1>5, <3>1 DEF Aborted
      <4>2. <<>> \in Seq(Indices(s)) OBVIOUS
      <4>3. QED BY <4>1, <4>2, CallType
    <3>2. CASE ~streamed[s]
      <4>1. handled' = handled BY <1>5, <3>2 DEF Aborted
      <4>2. QED BY <4>1, HandledKept
    <3>3. QED BY <3>1, <3>2
  <2>3. QED BY <1>3, <1>4, <2>1, <2>2, ClearedInv
<1>6. CASE ~registered[s]
  <2>1. UNCHANGED <<pending, buffer, handled>> BY <1>6 DEF Aborted
  <2>2. QED BY <1>3, <1>4, <2>1 DEF Inv, TypeOK, Fields, BufferedPending
<1>7. QED BY <1>5, <1>6

LEMMA SetStreamingInv ==
  ASSUME Inv, NEW s \in Streams, SetStreaming(s)
  PROVE  Inv'
<1>1. buffer[s] = <<>> BY DEF SetStreaming, Switchable, Inv, BufferedPending
<1>2. switches' \in 0 .. MaxSwitches
  BY SwitchesAssumption DEF SetStreaming, Inv, TypeOK
<1>3. /\ streamed' \in [Streams -> BOOLEAN]
      /\ \A t \in Streams : t # s => streamed'[t] = streamed[t]
  BY DEF SetStreaming, Inv, TypeOK
<1>4. UNCHANGED <<next, registered, pending, buffer, dcep, handled, opens>>
  BY DEF SetStreaming
<1>5. TypeOK' BY <1>2, <1>3, <1>4 DEF Inv, TypeOK
<1>6. BufferedPending' BY <1>1, <1>3, <1>4 DEF Inv, BufferedPending
<1>7. QED BY <1>4, <1>5, <1>6 DEF Inv, Fields

LEMMA InvNext ==
  ASSUME Inv, [Next]_vars
  PROVE  Inv'
<1>1. CASE UNCHANGED vars BY <1>1 DEF vars, Inv, TypeOK, Fields, BufferedPending
<1>2. CASE Next
  <2>1. PICK s \in Streams :
          \/ Buffered(s) \/ HandleDcep(s) \/ CreateNegotiated(s)
          \/ NoChannel(s) \/ Empty(s) \/ Buffer(s) \/ Raise(s) \/ Pass(s)
          \/ Aborted(s) \/ SetStreaming(s)
    BY <1>2 DEF Next
  <2>2. QED
    BY <2>1, DcepInv, CreateNegotiatedInv, NoChannelInv, EmptyInv, BufferInv,
       RaiseInv, PassInv, AbortedInv, SetStreamingInv
<1>3. QED BY <1>1, <1>2

LEMMA InvCorrect == Spec => []Inv
BY InvInit, InvNext, PTL DEF Spec

(* Every variable keeps its type: each index is one of a piece that was     *)
(* sent on that stream.                                                     *)
THEOREM TypeCorrect == Spec => []TypeOK
BY InvCorrect, PTL DEF Inv

(* A streamed channel has nothing buffered, whatever the peer sends: what   *)
(* is buffered is pending, and the mode is not changed then.                *)
THEOREM StreamedCorrect == Spec => []StreamedNotBuffered
<1>1. Inv => StreamedNotBuffered BY DEF Inv, BufferedPending, StreamedNotBuffered
<1>2. QED BY <1>1, InvCorrect, PTL

-----------------------------------------------------------------------------
(***************************************************************************)
(* Messages arrive whole.                                                  *)
(***************************************************************************)
(* An application piece that does not complete its message.                 *)
Open(s, i) == Script[s][i].ppid # "dcep" /\ ~Complete(Script[s][i])

(* A message of the application may start at b.                             *)
Starts(s, b) == b > 1 => (Complete(Script[s][b - 1]) \/ Script[s][b - 1].ppid = "dcep")

(* The message under way started at b: b = next[s] if there is none.        *)
Partway(s, b) ==
  /\ b \in 1 .. next[s]
  /\ Starts(s, b)
  /\ \A i \in b .. next[s] - 1 : Open(s, i)

(* It is in the buffer, or has been passed on piece by piece.               *)
Buffering(s, b) ==
  /\ Len(buffer[s]) = next[s] - b
  /\ \A k \in 1 .. next[s] - b : buffer[s][k] = b + k - 1
  /\ Len(handled[s]) > 0 => handled[s][Len(handled[s])].flag # "partial"

Streaming(s, b) ==
  LET l == Len(handled[s])
      d == next[s] - b
  IN  /\ d <= l
      /\ \A k \in 1 .. d : /\ handled[s][l - d + k].pieces = <<b + k - 1>>
                            /\ handled[s][l - d + k].flag = "partial"
      /\ l > d => handled[s][l - d].flag # "partial"

Sound(s) ==
  IF registered[s]
    THEN \E b \in Nat :
           /\ Partway(s, b)
           /\ IF streamed[s] THEN Streaming(s, b) ELSE Buffering(s, b)
           /\ ~pending[s] => b = next[s]
    ELSE /\ handled[s] = <<>> /\ buffer[s] = <<>>
         /\ ~streamed[s] /\ ~pending[s]

(* A DCEP message is under way on s.                                        *)
UnderWay(s) ==
  /\ next[s] > 1
  /\ Script[s][next[s] - 1].ppid = "dcep"
  /\ ~Complete(Script[s][next[s] - 1])

DcepPartway(s, b) ==
  /\ b \in 1 .. next[s] - 1
  /\ b > 1 => Complete(Script[s][b - 1])
  /\ \A i \in b .. next[s] - 1 : ~Complete(Script[s][i])
  /\ Len(dcep) = next[s] - b
  /\ \A k \in 1 .. next[s] - b : dcep[k] = <<s, b + k - 1>>

DcepSound ==
  /\ \A s \in Streams : UnderWay(s) => \E b \in Nat : DcepPartway(s, b)
  /\ (\A s \in Streams : ~UnderWay(s)) => dcep = <<>>

WInv ==
  /\ \A s \in Streams : streamed[s] => s \in Switched
  /\ \A s \in Streams : Sound(s)
  /\ DcepSound
  /\ DeliveredWhole
  /\ DcepWhole

-----------------------------------------------------------------------------
LEMMA Joined ==
  ASSUME WellFormed, NEW s \in Streams, NEW i \in Indices(s), i + 1 \in Indices(s),
         ~Complete(Script[s][i])
  PROVE  /\ Script[s][i].ppid = "dcep" <=> Script[s][i + 1].ppid = "dcep"
         /\ Script[s][i + 1].ppid # "empty"
<1>1. ~EndsMessage(Script[s][i]) BY DEF Complete, EndsMessage
<1>2. i \in Nat /\ i <= i + 1 /\ i .. (i + 1) - 1 = {i} BY ScriptType DEF Indices
<1>3. Script[s][i].msg = Script[s][i + 1].msg
  BY <1>1, <1>2 DEF WellFormed
<1>4. i + 1 # i BY <1>2
<1>5. QED BY <1>3, <1>4 DEF WellFormed

(* The pieces b to n are a message if they are joined, n completes it and    *)
(* the one before b completes another.                                      *)
LEMMA Span ==
  ASSUME WellFormed, NEW s \in Streams, NEW b \in Indices(s), NEW n \in Indices(s), b <= n,
         \A i \in b .. n - 1 : ~Complete(Script[s][i]),
         Complete(Script[s][n]),
         b > 1 => Complete(Script[s][b - 1]),
         NEW i \in b .. n
  PROVE  MessageOf(s, i) = b .. n
<1>1. \A j \in Indices(s) : Complete(Script[s][j]) <=> EndsMessage(Script[s][j])
  BY DEF Complete, EndsMessage
<1>2. Len(Script[s]) \in Nat BY ScriptType
<1>3. i \in Indices(s) BY <1>2 DEF Indices
<1>4. \A j, k \in Indices(s) : j <= k =>
        (Script[s][j].msg = Script[s][k].msg <=> \A l \in j .. k - 1 : ~EndsMessage(Script[s][l]))
  BY DEF WellFormed
<1>5. ASSUME NEW k \in Indices(s), k \in b .. n PROVE Script[s][k].msg = Script[s][b].msg
  <2>1. \A l \in b .. k - 1 : l \in Indices(s) /\ l \in b .. n - 1 BY <1>2, <1>5 DEF Indices
  <2>2. \A l \in b .. k - 1 : ~EndsMessage(Script[s][l]) BY <1>1, <2>1
  <2>3. b <= k BY <1>5
  <2>4. QED BY <1>4, <2>2, <2>3
<1>6. ASSUME NEW k \in Indices(s), k < b PROVE Script[s][k].msg # Script[s][b].msg
  <2>1. b > 1 /\ b - 1 \in k .. b - 1 /\ b - 1 \in Indices(s) BY <1>2, <1>6 DEF Indices
  <2>2. EndsMessage(Script[s][b - 1]) BY <1>1, <2>1
  <2>3. k <= b BY <1>6 DEF Indices
  <2>4. QED BY <1>4, <2>1, <2>2, <2>3
<1>7. ASSUME NEW k \in Indices(s), k > n PROVE Script[s][k].msg # Script[s][b].msg
  <2>1. n \in b .. k - 1 BY <1>2, <1>7 DEF Indices
  <2>2. EndsMessage(Script[s][n]) BY <1>1
  <2>3. b <= k BY <1>7 DEF Indices
  <2>4. QED BY <1>4, <2>1, <2>2, <2>3
<1>8. Script[s][i].msg = Script[s][b].msg BY <1>3, <1>5
<1>9. \A k \in Indices(s) : Script[s][k].msg = Script[s][i].msg <=> k \in b .. n
  <2> SUFFICES ASSUME NEW k \in Indices(s)
               PROVE  Script[s][k].msg = Script[s][i].msg <=> k \in b .. n
    OBVIOUS
  <2>1. k \in b .. n \/ k < b \/ k > n BY <1>2 DEF Indices
  <2>2. CASE k \in b .. n BY <1>5, <1>8, <2>2
  <2>3. CASE k < b
    <3>1. k \notin b .. n BY <2>3 DEF Indices
    <3>2. QED BY <1>6, <1>8, <2>3, <3>1
  <2>4. CASE k > n
    <3>1. k \notin b .. n BY <2>4 DEF Indices
    <3>2. QED BY <1>7, <1>8, <2>4, <3>1
  <2>5. QED BY <2>1, <2>2, <2>3, <2>4
<1>10. \A k \in b .. n : k \in Indices(s) BY <1>2 DEF Indices
<1>11. QED BY <1>9, <1>10 DEF MessageOf

Calls == [pieces : Seq(Nat), flag : {"complete", "partial", "aborted"}]

(* All that has been called complete is whole if the last call is.           *)
LEMMA AppendWhole ==
  ASSUME NEW s \in Streams, NEW h \in Seq(Calls), NEW e \in Calls, NEW g, g = Append(h, e),
         \A j \in 1 .. Len(h) : \A i \in 1 .. j : OneMessage(h, i, j) => Whole(s, h, i, j),
         \A i \in 1 .. Len(h) + 1 :
            OneMessage(g, i, Len(h) + 1) => Whole(s, g, i, Len(h) + 1)
  PROVE  \A j \in 1 .. Len(g) : \A i \in 1 .. j : OneMessage(g, i, j) => Whole(s, g, i, j)
<1> SUFFICES ASSUME NEW j \in 1 .. Len(g), NEW i \in 1 .. j, OneMessage(g, i, j)
             PROVE  Whole(s, g, i, j)
  OBVIOUS
<1>1. Len(h) \in Nat /\ Len(g) = Len(h) + 1 /\ \A k \in 1 .. Len(h) : g[k] = h[k]
  OBVIOUS
<1>2. CASE j = Len(h) + 1 BY <1>1, <1>2
<1>3. CASE j \in 1 .. Len(h)
  <2>1. \A k \in i .. j : g[k] = h[k] BY <1>1, <1>3
  <2>2. i > 1 => i - 1 \in 1 .. Len(h) BY <1>1, <1>3
  <2>3. j \in i .. j /\ \A k \in i .. j - 1 : k \in i .. j /\ k + 1 \in i .. j BY <1>1, <1>3
  <2>4. OneMessage(h, i, j) BY <1>1, <2>1, <2>2, <2>3 DEF OneMessage
  <2>5. Whole(s, h, i, j) BY <1>3, <2>4
  <2>6. {Elements(g[k].pieces) : k \in i .. j} = {Elements(h[k].pieces) : k \in i .. j}
    BY <2>1
  <2>7. g[j] = h[j] BY <2>1, <2>3
  <2>8. \A k \in i .. j - 1 : g[k + 1].pieces[1] = g[k].pieces[1] + 1
    BY <2>1, <2>3, <2>5 DEF Whole
  <2>9. QED BY <2>5, <2>6, <2>7, <2>8 DEF Whole
<1>4. QED BY <1>1, <1>2, <1>3

LEMMA DeliveredCalled ==
  ASSUME Inv, DeliveredWhole, NEW s \in Streams, NEW p \in Seq(Indices(s)),
         NEW f \in {"complete", "partial", "aborted"}, Call(s, p, f),
         f = "complete" =>
           \A i \in 1 .. Len(handled[s]) + 1 :
             OneMessage(handled'[s], i, Len(handled[s]) + 1)
               => Whole(s, handled'[s], i, Len(handled[s]) + 1)
  PROVE  DeliveredWhole'
<1> DEFINE e == [pieces |-> p, flag |-> f]
<1>1. /\ handled'[s] = Append(handled[s], e)
      /\ \A t \in Streams : t # s => handled'[t] = handled[t]
  BY CallType
<1>2. handled[s] \in Seq(Calls) BY DEF Inv, Fields, Calls
<1>3. p \in Seq(Nat) BY ScriptType DEF Indices
<1>4. e \in Calls BY <1>3 DEF Calls
<1>5. e.flag = f OBVIOUS
<1> HIDE DEF e
<1>6. handled'[s][Len(handled[s]) + 1] = e /\ Len(handled[s]) \in Nat BY <1>1, <1>2
<1>7. \A i \in 1 .. Len(handled[s]) + 1 :
        OneMessage(handled'[s], i, Len(handled[s]) + 1)
          => Whole(s, handled'[s], i, Len(handled[s]) + 1)
  BY <1>5, <1>6 DEF OneMessage
<1>8. \A j \in 1 .. Len(handled[s]) : \A i \in 1 .. j :
        OneMessage(handled[s], i, j) => Whole(s, handled[s], i, j)
  BY DEF DeliveredWhole
<1>9. \A j \in 1 .. Len(handled'[s]) : \A i \in 1 .. j :
        OneMessage(handled'[s], i, j) => Whole(s, handled'[s], i, j)
  BY <1>1, <1>2, <1>4, <1>7, <1>8, AppendWhole
<1>10. \A t \in Streams : \A j \in 1 .. Len(handled'[t]) : \A i \in 1 .. j :
         OneMessage(handled'[t], i, j) => Whole(t, handled'[t], i, j)
  <2> SUFFICES ASSUME NEW t \in Streams
               PROVE  \A j \in 1 .. Len(handled'[t]) : \A i \in 1 .. j :
                        OneMessage(handled'[t], i, j) => Whole(t, handled'[t], i, j)
    OBVIOUS
  <2>1. CASE t = s BY <1>9, <2>1
  <2>2. CASE t # s
    <3>1. handled'[t] = handled[t] BY <1>1, <2>2
    <3>2. \A j \in 1 .. Len(handled[t]) : \A i \in 1 .. j :
            OneMessage(handled[t], i, j) => Whole(t, handled[t], i, j)
      BY DEF DeliveredWhole
    <3>3. QED BY <3>1, <3>2
  <2>3. QED BY <2>1, <2>2
<1>11. QED BY <1>10 DEF DeliveredWhole, OneMessage, Whole, MessageOf, Ascending, Elements

LEMMA DeliveredKept ==
  ASSUME DeliveredWhole, handled' = handled
  PROVE  DeliveredWhole'
<1>1. \A t \in Streams : \A j \in 1 .. Len(handled[t]) : \A i \in 1 .. j :
        OneMessage(handled[t], i, j) => Whole(t, handled[t], i, j)
  BY DEF DeliveredWhole
<1>2. \A t \in Streams : \A j \in 1 .. Len(handled'[t]) : \A i \in 1 .. j :
        OneMessage(handled'[t], i, j) => Whole(t, handled'[t], i, j)
  BY <1>1
<1>3. QED BY <1>2 DEF DeliveredWhole, OneMessage, Whole, MessageOf, Ascending, Elements

LEMMA DcepKept ==
  ASSUME DcepWhole, opens' = opens
  PROVE  DcepWhole'
<1>1. \A j \in 1 .. Len(opens) : OneDcepMessage(opens[j]) BY DEF DcepWhole
<1>2. \A j \in 1 .. Len(opens') : OneDcepMessage(opens'[j]) BY <1>1
<1>3. QED BY <1>2 DEF DcepWhole, OneDcepMessage, MessageOf

LEMMA SoundKept ==
  ASSUME NEW s \in Streams, Sound(s),
         next'[s] = next[s], registered'[s] = registered[s], streamed'[s] = streamed[s],
         pending'[s] = pending[s], buffer'[s] = buffer[s], handled'[s] = handled[s]
  PROVE  Sound(s)'
<1>1. CASE registered[s]
  <2>1. PICK b \in Nat :
           /\ Partway(s, b)
           /\ IF streamed[s] THEN Streaming(s, b) ELSE Buffering(s, b)
           /\ ~pending[s] => b = next[s]
    BY <1>1 DEF Sound
  <2>2. Partway(s, b)' BY <2>1 DEF Partway, Starts, Open
  <2>3. Streaming(s, b) => Streaming(s, b)' BY DEF Streaming
  <2>4. Buffering(s, b) => Buffering(s, b)' BY DEF Buffering
  <2>5. QED BY <1>1, <2>1, <2>2, <2>3, <2>4 DEF Sound
<1>2. CASE ~registered[s] BY <1>2 DEF Sound
<1>3. QED BY <1>1, <1>2

(* Where the message under way started, when a piece of it arrives.          *)
LEMMA AtStart ==
  ASSUME Inv, WellFormed, NEW s \in Streams, next[s] \in Indices(s), At(s).ppid # "dcep",
         NEW b \in Nat, Partway(s, b)
  PROVE  /\ b \in Indices(s) /\ b <= next[s]
         /\ b > 1 => Complete(Script[s][b - 1])
         /\ \A i \in b .. next[s] - 1 : ~Complete(Script[s][i])
<1>1. Len(Script[s]) \in Nat /\ next[s] \in Nat BY ScriptType DEF Indices
<1>2. b \in Indices(s) /\ b <= next[s] BY <1>1 DEF Partway, Indices
<1>3. ASSUME b > 1 PROVE Complete(Script[s][b - 1])
  <2> SUFFICES ASSUME ~Complete(Script[s][b - 1]) PROVE FALSE OBVIOUS
  <2>1. Script[s][b - 1].ppid = "dcep" BY <1>3 DEF Partway, Starts
  <2>2. b - 1 \in Indices(s) /\ (b - 1) + 1 = b BY <1>1, <1>2, <1>3 DEF Indices
  <2>3. Script[s][b].ppid = "dcep" BY <1>2, <2>1, <2>2, Joined
  <2>4. b # next[s] BY <2>3 DEF At
  <2>5. b \in b .. next[s] - 1 BY <1>1, <1>2, <2>4
  <2>6. QED BY <2>3, <2>5 DEF Partway, Open
<1>4. QED BY <1>2, <1>3 DEF Partway, Open

(* No message of the application is under way when a piece of DCEP arrives.  *)
LEMMA DcepTaken ==
  ASSUME Inv, WellFormed, NEW s \in Streams, next[s] \in Indices(s), At(s).ppid = "dcep",
         NEW b \in Nat, Partway(s, b)
  PROVE  b = next[s]
<1> SUFFICES ASSUME b # next[s] PROVE FALSE OBVIOUS
<1>1. Len(Script[s]) \in Nat /\ next[s] \in Nat BY ScriptType DEF Indices
<1>2. next[s] - 1 \in b .. next[s] - 1 /\ next[s] - 1 \in Indices(s) /\ (next[s] - 1) + 1 = next[s]
  BY <1>1 DEF Partway, Indices
<1>3. Open(s, next[s] - 1) BY <1>2 DEF Partway
<1>4. QED BY <1>2, <1>3, Joined DEF Open, At

(* Nor is one of DCEP when a piece of the application arrives.               *)
LEMMA NotUnderWay ==
  ASSUME Inv, WellFormed, NEW s \in Streams, next[s] \in Indices(s), At(s).ppid # "dcep"
  PROVE  ~UnderWay(s)
<1> SUFFICES ASSUME UnderWay(s) PROVE FALSE OBVIOUS
<1>1. Len(Script[s]) \in Nat /\ next[s] \in Nat BY ScriptType DEF Indices
<1>2. next[s] - 1 \in Indices(s) /\ (next[s] - 1) + 1 = next[s]
  BY <1>1 DEF UnderWay, Indices
<1>3. QED BY <1>2, Joined DEF UnderWay, At

LEMMA DcepUntouched ==
  ASSUME DcepSound, NEW s \in Streams, ~UnderWay(s), ~UnderWay(s)', dcep' = dcep,
         \A t \in Streams : t # s => next'[t] = next[t]
  PROVE  DcepSound'
<1>1. \A t \in Streams : UnderWay(t)' <=> UnderWay(t) BY DEF UnderWay
<1>2. \A t \in Streams : UnderWay(t) => t # s OBVIOUS
<1>3. ASSUME NEW t \in Streams, UnderWay(t)' PROVE \E b \in Nat : DcepPartway(t, b)'
  <2>1. UnderWay(t) /\ t # s BY <1>1, <1>2, <1>3
  <2>2. PICK b \in Nat : DcepPartway(t, b) BY <2>1 DEF DcepSound
  <2>3. DcepPartway(t, b)' BY <2>1, <2>2 DEF DcepPartway
  <2>4. QED BY <2>3
<1>4. QED BY <1>1, <1>3 DEF DcepSound

-----------------------------------------------------------------------------
(* What has been collected when a piece of DCEP arrives.                     *)
LEMMA CollectedRun ==
  ASSUME Inv, WellFormed, DcepApart, DcepSound, NEW s \in Streams,
         next[s] \in Indices(s), At(s).ppid = "dcep"
  PROVE  /\ \A t \in Streams : UnderWay(t) => t = s
         /\ \E b \in Indices(s) :
              /\ b <= next[s]
              /\ b > 1 => Complete(Script[s][b - 1])
              /\ \A i \in b .. next[s] - 1 : ~Complete(Script[s][i])
              /\ Len(Collected(s)) = next[s] - b + 1
              /\ \A k \in 1 .. next[s] - b + 1 : Collected(s)[k] = <<s, b + k - 1>>
<1> DEFINE n == next[s]
<1>1. Len(Script[s]) \in Nat /\ n \in Nat /\ n >= 1 BY ScriptType DEF Indices
<1>2. dcep \in Seq(AllPieces) BY DEF Inv, TypeOK
<1>3. Collected(s) = Append(dcep, <<s, n>>) /\ <<s, n>> \in AllPieces
  BY DEF Collected, AllPieces
<1>4. ASSUME NEW t \in Streams, UnderWay(t) PROVE t = s
  <2>1. next[t] \in 1 .. Len(Script[t]) + 1 BY DEF Inv, TypeOK
  <2>2. next[t] - 1 \in Indices(t) BY <1>4, <2>1, ScriptType DEF UnderWay, Indices
  <2>3. ~EndsMessage(Script[t][next[t] - 1]) BY <1>4 DEF UnderWay, Complete, EndsMessage
  <2>4. QED BY <1>4, <2>2, <2>3 DEF UnderWay, DcepApart, At, Complete, EndsMessage
<1>5. CASE UnderWay(s)
  <2>1. PICK b \in Nat : DcepPartway(s, b) BY <1>5 DEF DcepSound
  <2>2. b \in Indices(s) /\ b <= n BY <1>1, <2>1 DEF DcepPartway, Indices
  <2>3. Len(dcep) = n - b /\ Len(Collected(s)) = n - b + 1
    BY <1>1, <1>2, <1>3, <2>1, <2>2 DEF DcepPartway
  <2>4. ASSUME NEW k \in 1 .. n - b + 1 PROVE Collected(s)[k] = <<s, b + k - 1>>
    <3>1. CASE k = n - b + 1
      <4>1. Collected(s)[k] = <<s, n>> BY <1>2, <1>3, <2>3, <3>1
      <4>2. b + k - 1 = n BY <1>1, <3>1
      <4>3. QED BY <4>1, <4>2
    <3>2. CASE k # n - b + 1
      <4>1. k \in 1 .. n - b BY <1>1, <3>2
      <4>2. Collected(s)[k] = dcep[k] BY <1>2, <1>3, <2>3, <4>1
      <4>3. QED BY <2>1, <4>1, <4>2 DEF DcepPartway
    <3>3. QED BY <3>1, <3>2
  <2>5. QED BY <1>4, <2>1, <2>2, <2>3, <2>4 DEF DcepPartway
<1>6. CASE ~UnderWay(s)
  <2>1. dcep = <<>> BY <1>4, <1>6 DEF DcepSound
  <2>2. Len(Collected(s)) = 1 /\ Collected(s)[1] = <<s, n>> BY <1>3, <2>1
  <2>3. ASSUME n > 1 PROVE Complete(Script[s][n - 1])
    <3> SUFFICES ASSUME ~Complete(Script[s][n - 1]) PROVE FALSE OBVIOUS
    <3>1. n - 1 \in Indices(s) /\ (n - 1) + 1 = n BY <1>1, <2>3 DEF Indices
    <3>2. Script[s][n - 1].ppid = "dcep" BY <3>1, Joined DEF At
    <3>3. QED BY <1>6, <2>3, <3>2 DEF UnderWay
  <2>4. n - n + 1 = 1 /\ n <= n /\ n .. n - 1 = {} BY <1>1
  <2>5. ASSUME NEW k \in 1 .. n - n + 1 PROVE Collected(s)[k] = <<s, n + k - 1>>
    <3>1. k = 1 /\ n + k - 1 = n BY <1>1, <2>4
    <3>2. QED BY <2>2, <3>1
  <2>6. QED BY <1>4, <2>2, <2>3, <2>4, <2>5
<1>7. QED BY <1>5, <1>6

(* A stream on which a piece of DCEP has arrived.                            *)
LEMMA SoundAfterDcep ==
  ASSUME Inv, WellFormed, NEW s \in Streams, Sound(s), Take(s), At(s).ppid = "dcep",
         registered'[s] = registered[s] \/ registered'[s] = TRUE,
         UNCHANGED <<streamed, pending, buffer, handled>>
  PROVE  Sound(s)'
<1>1. next[s] \in Indices(s) /\ next[s] \in Nat BY TakeType, ScriptType DEF Indices
<1>2. PICK n \in Nat : n = next[s] + 1 BY <1>1
<1>3. next'[s] = n /\ n > 1 /\ n - 1 = next[s] BY <1>1, <1>2, TakeType DEF Indices
<1>4. Partway(s, n)'
  <2>1. Script[s][n - 1].ppid = "dcep" BY <1>3 DEF At
  <2>2. QED BY <1>2, <1>3, <2>1 DEF Partway, Starts
<1>5. handled[s] \in Seq(Calls) /\ buffer[s] \in Seq(Nat) BY DEF Inv, Fields, Calls
<1>6. CASE registered[s]
  <2>1. PICK b \in Nat :
           /\ Partway(s, b)
           /\ IF streamed[s] THEN Streaming(s, b) ELSE Buffering(s, b)
           /\ ~pending[s] => b = next[s]
    BY <1>6 DEF Sound
  <2>2. b = next[s] BY <1>1, <2>1, DcepTaken
  <2>3. CASE streamed[s]
    <3>1. Streaming(s, b) BY <2>1, <2>3
    <3>2. Len(handled[s]) \in Nat /\ next[s] - b = 0 /\ n - n = 0 BY <1>1, <1>5, <2>2
    <3>3. Len(handled[s]) - 0 = Len(handled[s]) BY <3>2
    <3>4. Len(handled[s]) > 0 => handled[s][Len(handled[s])].flag # "partial"
      BY <3>1, <3>2, <3>3 DEF Streaming
    <3>5. handled' = handled OBVIOUS
    <3>6. Streaming(s, n)' BY <1>3, <3>2, <3>3, <3>4, <3>5 DEF Streaming
    <3>7. QED BY <1>3, <1>4, <1>6, <2>3, <3>6 DEF Sound
  <2>4. CASE ~streamed[s]
    <3>1. Buffering(s, b) BY <2>1, <2>4
    <3>2. Buffering(s, n)' BY <1>3, <1>5, <2>2, <3>1 DEF Buffering
    <3>3. QED BY <1>3, <1>4, <1>6, <2>4, <3>2 DEF Sound
  <2>5. QED BY <2>3, <2>4
<1>7. CASE ~registered[s]
  <2>1. handled[s] = <<>> /\ buffer[s] = <<>> /\ ~streamed[s] /\ ~pending[s]
    BY <1>7 DEF Sound
  <2>2. Buffering(s, n)' BY <1>3, <2>1 DEF Buffering
  <2>3. QED BY <1>3, <1>4, <2>1, <2>2 DEF Sound
<1>8. QED BY <1>6, <1>7

(* A piece of DCEP is collected: the message under way is longer by it.      *)
LEMMA BufferedOpens ==
  ASSUME Inv, DcepSound, DcepWhole, WellFormed, DcepApart, NEW s \in Streams, Buffered(s)
  PROVE  DcepSound' /\ DcepWhole'
<1> DEFINE n == next[s]
<1>1. /\ Take(s) /\ At(s).ppid = "dcep" /\ ~Complete(At(s))
      /\ dcep' = Collected(s) /\ opens' = opens
  BY DEF Buffered
<1>2. /\ n \in Indices(s) /\ next'[s] = n + 1 /\ n \in Nat /\ n >= 1
      /\ \A t \in Streams : t # s => next'[t] = next[t]
  BY <1>1, TakeType, ScriptType DEF Indices
<1>3. DcepWhole' BY <1>1, DcepKept
<1>4. DcepSound'
  <2>1. \A t \in Streams : UnderWay(t) => t = s BY <1>1, <1>2, CollectedRun
  <2>2. PICK b \in Indices(s) :
          /\ b <= n
          /\ b > 1 => Complete(Script[s][b - 1])
          /\ \A i \in b .. n - 1 : ~Complete(Script[s][i])
          /\ Len(Collected(s)) = n - b + 1
          /\ \A k \in 1 .. n - b + 1 : Collected(s)[k] = <<s, b + k - 1>>
    BY <1>1, <1>2, CollectedRun
  <2>3. (n + 1) - 1 = n /\ b \in Nat /\ b \in 1 .. n BY <1>2, <2>2, ScriptType DEF Indices
  <2>4. UnderWay(s)' BY <1>1, <1>2, <2>3 DEF UnderWay, At
  <2>5. \A i \in b .. n : ~Complete(Script[s][i])
    <3>1. \A i \in b .. n : i = n \/ i \in b .. n - 1 BY <1>2, <2>3
    <3>2. QED BY <1>1, <2>2, <3>1 DEF At
  <2>6. (n + 1) - b = n - b + 1 BY <1>2, <2>3
  <2>7. DcepPartway(s, b)' BY <1>1, <1>2, <2>2, <2>3, <2>5, <2>6 DEF DcepPartway
  <2>8. \A t \in Streams : t # s => ~UnderWay(t)' BY <1>2, <2>1 DEF UnderWay
  <2>9. QED BY <2>3, <2>4, <2>7, <2>8 DEF DcepSound
<1>5. QED BY <1>3, <1>4

(* It is handled: one message has been put together, none is under way.      *)
LEMMA HandledOpens ==
  ASSUME Inv, DcepSound, DcepWhole, WellFormed, DcepApart, NEW s \in Streams, HandleDcep(s)
  PROVE  /\ DcepSound' /\ DcepWhole'
         /\ registered' \in {registered, [registered EXCEPT ![s] = TRUE]}
<1> DEFINE n == next[s]
<1>1. Take(s) /\ At(s).ppid = "dcep" /\ Complete(At(s)) /\ dcep' = <<>>
      /\ opens' = Append(opens, Collected(s))
      /\ registered' \in {registered, [registered EXCEPT ![Collected(s)[1][1]] = TRUE]}
  BY DEF HandleDcep
<1>2. /\ n \in Indices(s) /\ next'[s] = n + 1 /\ n \in Nat /\ n >= 1
      /\ \A t \in Streams : t # s => next'[t] = next[t]
  BY <1>1, TakeType, ScriptType DEF Indices
<1>3. \A t \in Streams : UnderWay(t) => t = s BY <1>1, <1>2, CollectedRun
<1>4. PICK b \in Indices(s) :
        /\ b <= n
        /\ b > 1 => Complete(Script[s][b - 1])
        /\ \A i \in b .. n - 1 : ~Complete(Script[s][i])
        /\ Len(Collected(s)) = n - b + 1
        /\ \A k \in 1 .. n - b + 1 : Collected(s)[k] = <<s, b + k - 1>>
  BY <1>1, <1>2, CollectedRun
<1>5. b \in Nat /\ b >= 1 /\ 1 \in 1 .. n - b + 1 /\ b + 1 - 1 = b
  BY <1>2, <1>4, ScriptType DEF Indices
<1>6. Collected(s)[1] = <<s, b>> BY <1>4, <1>5
<1>7. registered' \in {registered, [registered EXCEPT ![s] = TRUE]} BY <1>1, <1>6
<1>10. DcepSound'
  <2>1. (n + 1) - 1 = n BY <1>2
  <2>2. ~UnderWay(s)' BY <1>1, <1>2, <2>1 DEF UnderWay, At
  <2>3. \A t \in Streams : t # s => ~UnderWay(t)' BY <1>2, <1>3 DEF UnderWay
  <2>4. QED BY <1>1, <2>2, <2>3 DEF DcepSound
<1>11. OneDcepMessage(Collected(s))
  <2> DEFINE c == Collected(s)
  <2>1. MessageOf(s, b) = b .. n
    <3>1. b \in b .. n /\ Complete(Script[s][n]) BY <1>1, <1>2, <1>4, <1>5 DEF At
    <3>2. QED BY <1>2, <1>4, <3>1, Span
  <2>2. \A k \in 1 .. Len(c) : c[k] = <<s, b + k - 1>> BY <1>4
  <2>3. c[1] = <<s, b>> /\ Len(c) = n - b + 1 BY <1>4, <1>6
  <2> HIDE DEF c
  <2>4. {c[k][2] : k \in 1 .. Len(c)} = {b + k - 1 : k \in 1 .. Len(c)} BY <2>2
  <2>5. \A i \in b .. n : i - b + 1 \in 1 .. n - b + 1 /\ b + (i - b + 1) - 1 = i BY <1>2, <1>5
  <2>6. \A k \in 1 .. n - b + 1 : b + k - 1 \in b .. n BY <1>2, <1>5
  <2>7. {b + k - 1 : k \in 1 .. Len(c)} = b .. n BY <2>3, <2>5, <2>6
  <2>8. OneDcepMessage(c) BY <2>1, <2>2, <2>3, <2>4, <2>7 DEF OneDcepMessage
  <2>9. QED BY <2>8 DEF c
<1>12. DcepWhole'
  <2> DEFINE All == Seq(AllPieces)
             c == Collected(s)
  <2>1. opens \in Seq(All) /\ c \in All BY <1>2, CollectedType DEF Inv, TypeOK
  <2>2. opens' = Append(opens, c) /\ OneDcepMessage(c) BY <1>1, <1>11
  <2> HIDE DEF All, c
  <2>3. \A j \in 1 .. Len(opens') : opens'[j] = c \/ (j \in 1 .. Len(opens) /\ opens'[j] = opens[j])
    BY <2>1, <2>2
  <2>4. \A j \in 1 .. Len(opens') : OneDcepMessage(opens'[j])
    BY <2>2, <2>3 DEF DcepWhole
  <2>5. QED BY <2>4 DEF DcepWhole, OneDcepMessage, MessageOf
<1>13. QED BY <1>7, <1>10, <1>12

LEMMA BufferedWhole ==
  ASSUME Inv, WInv, WellFormed, DcepApart, NEW s \in Streams, Buffered(s)
  PROVE  WInv'
<1> DEFINE n == next[s]
<1>1. Take(s) /\ At(s).ppid = "dcep" /\ ~Complete(At(s)) /\ dcep' = Collected(s)
      /\ UNCHANGED <<registered, streamed, pending, buffer, handled, opens, switches>>
  BY DEF Buffered
<1>2. /\ n \in Indices(s) /\ next'[s] = n + 1 /\ n \in Nat /\ n >= 1
      /\ \A t \in Streams : t # s => next'[t] = next[t]
  BY <1>1, TakeType, ScriptType DEF Indices
<1>3. ASSUME NEW t \in Streams PROVE Sound(t)'
  <2>1. Sound(t) BY DEF WInv
  <2>2. CASE t = s BY <1>1, <2>1, <2>2, SoundAfterDcep
  <2>3. CASE t # s BY <1>1, <1>2, <2>1, <2>3, SoundKept
  <2>4. QED BY <2>2, <2>3
<1>4. DcepSound' /\ DcepWhole' BY BufferedOpens DEF WInv
<1>5. DeliveredWhole' BY <1>1, DeliveredKept DEF WInv
<1>6. QED BY <1>1, <1>3, <1>4, <1>5 DEF WInv

LEMMA HandleDcepWhole ==
  ASSUME Inv, WInv, WellFormed, DcepApart, NEW s \in Streams, HandleDcep(s)
  PROVE  WInv'
<1>1. /\ Take(s) /\ At(s).ppid = "dcep"
      /\ UNCHANGED <<streamed, pending, buffer, handled, switches>>
  BY DEF HandleDcep
<1>2. \A t \in Streams : t # s => next'[t] = next[t] BY <1>1, TakeType
<1>3. /\ DcepSound' /\ DcepWhole'
      /\ registered' \in {registered, [registered EXCEPT ![s] = TRUE]}
  BY HandledOpens DEF WInv
<1>4. /\ registered'[s] = registered[s] \/ registered'[s] = TRUE
      /\ \A t \in Streams : t # s => registered'[t] = registered[t]
  BY <1>3 DEF Inv, TypeOK
<1>5. ASSUME NEW t \in Streams PROVE Sound(t)'
  <2>1. Sound(t) BY DEF WInv
  <2>2. CASE t = s BY <1>1, <1>4, <2>1, <2>2, SoundAfterDcep
  <2>3. CASE t # s BY <1>1, <1>2, <1>4, <2>1, <2>3, SoundKept
  <2>4. QED BY <2>2, <2>3
<1>6. DeliveredWhole' BY <1>1, DeliveredKept DEF WInv
<1>7. QED BY <1>1, <1>3, <1>5, <1>6 DEF WInv

-----------------------------------------------------------------------------
LastNotPartial(h) == Len(h) > 0 => h[Len(h)].flag # "partial"

(* No message is under way any more.                                         *)
LEMMA Idle ==
  ASSUME NEW s \in Streams, NEW n \in Nat, n >= 1, next'[s] = n, Starts(s, n),
         registered'[s], buffer'[s] = <<>>, handled'[s] \in Seq(Calls),
         LastNotPartial(handled'[s])
  PROVE  Sound(s)'
<1>1. Partway(s, n)' BY DEF Partway, Starts
<1>2. Len(handled'[s]) \in Nat /\ n - n = 0 /\ Len(handled'[s]) - 0 = Len(handled'[s]) OBVIOUS
<1>3. Streaming(s, n)' BY <1>2 DEF Streaming, LastNotPartial
<1>4. Buffering(s, n)' BY <1>2 DEF Buffering, LastNotPartial
<1>5. QED BY <1>1, <1>3, <1>4 DEF Sound

LEMMA ChannelWhole ==
  ASSUME Inv, WInv, WellFormed, NEW s \in Streams,
         ~UnderWay(s), ~UnderWay(s)',
         \A t \in Streams : t # s =>
           /\ next'[t] = next[t] /\ pending'[t] = pending[t]
           /\ buffer'[t] = buffer[t] /\ handled'[t] = handled[t],
         UNCHANGED <<registered, streamed, dcep, opens>>,
         Sound(s)', DeliveredWhole'
  PROVE  WInv'
<1>1. \A t \in Streams : Sound(t)' BY SoundKept DEF WInv
<1>2. DcepSound' BY DcepUntouched DEF WInv
<1>3. DcepWhole' BY DcepKept DEF WInv
<1>4. QED BY <1>1, <1>2, <1>3 DEF WInv

LEMMA ApplicationTaken ==
  ASSUME Inv, WellFormed, NEW s \in Streams, Application(s)
  PROVE  /\ next[s] \in Indices(s) /\ next[s] \in Nat /\ next[s] >= 1
         /\ next'[s] = next[s] + 1
         /\ \A t \in Streams : t # s => next'[t] = next[t]
         /\ At(s).ppid # "dcep"
         /\ ~UnderWay(s) /\ ~UnderWay(s)'
<1>1. /\ next[s] \in Indices(s) /\ next[s] \in Nat /\ next[s] >= 1
      /\ next'[s] = next[s] + 1
      /\ \A t \in Streams : t # s => next'[t] = next[t]
  BY TakeType, ScriptType DEF Application, Indices
<1>2. At(s).ppid # "dcep" BY DEF Application
<1>3. (next[s] + 1) - 1 = next[s] BY <1>1
<1>4. ~UnderWay(s)' BY <1>1, <1>2, <1>3 DEF UnderWay, At
<1>5. QED BY <1>1, <1>2, <1>4, NotUnderWay

LEMMA NoChannelWhole ==
  ASSUME Inv, WInv, WellFormed, NEW s \in Streams, NoChannel(s)
  PROVE  WInv'
<1>1. /\ Application(s) /\ ~registered[s]
      /\ UNCHANGED <<registered, streamed, pending, buffer, dcep, handled, opens, switches>>
  BY DEF NoChannel
<1>2. Sound(s)' BY <1>1 DEF WInv, Sound
<1>3. DeliveredWhole' BY <1>1, DeliveredKept DEF WInv
<1>4. QED BY <1>1, <1>2, <1>3, ApplicationTaken, ChannelWhole

(* The messages of the channel that receives s: the state before a piece.    *)
LEMMA Channel ==
  ASSUME Inv, WInv, WellFormed, NEW s \in Streams, Application(s), registered[s]
  PROVE  \E b \in Nat :
           /\ Partway(s, b)
           /\ b \in Indices(s) /\ b <= next[s] /\ b >= 1
           /\ b > 1 => Complete(Script[s][b - 1])
           /\ \A i \in b .. next[s] - 1 : ~Complete(Script[s][i])
           /\ IF streamed[s] THEN Streaming(s, b) ELSE Buffering(s, b)
           /\ ~pending[s] => b = next[s]
<1>1. PICK b \in Nat :
         /\ Partway(s, b)
         /\ IF streamed[s] THEN Streaming(s, b) ELSE Buffering(s, b)
         /\ ~pending[s] => b = next[s]
  BY DEF WInv, Sound
<1>2. next[s] \in Indices(s) /\ At(s).ppid # "dcep" BY ApplicationTaken
<1>3. b >= 1 BY <1>1 DEF Partway
<1>4. QED BY <1>1, <1>2, <1>3, AtStart

(* No call was left partial if no message is under way.                      *)
LEMMA LastWhole ==
  ASSUME Inv, NEW s \in Streams, NEW b \in Nat, b = next[s],
         IF streamed[s] THEN Streaming(s, b) ELSE Buffering(s, b)
  PROVE  LastNotPartial(handled[s])
<1>1. handled[s] \in Seq(Calls) /\ next[s] \in Nat BY DEF Inv, Fields, Calls
<1>2. Len(handled[s]) \in Nat /\ next[s] - b = 0 /\ Len(handled[s]) - 0 = Len(handled[s])
  BY <1>1
<1>3. CASE streamed[s] BY <1>2, <1>3 DEF Streaming, LastNotPartial
<1>4. CASE ~streamed[s] BY <1>4 DEF Buffering, LastNotPartial
<1>5. QED BY <1>3, <1>4

(* A single call that completes a message after one that left none partial.  *)
LEMMA SingleWhole ==
  ASSUME NEW s \in Streams, NEW h \in Seq(Calls), LastNotPartial(h),
         NEW p \in Seq(Nat), NEW g, g = Append(h, [pieces |-> p, flag |-> "complete"]),
         Elements(p) = MessageOf(s, p[1]), Ascending(p),
         NEW i \in 1 .. Len(h) + 1, OneMessage(g, i, Len(h) + 1)
  PROVE  Whole(s, g, i, Len(h) + 1)
<1> DEFINE j == Len(h) + 1
           e == [pieces |-> p, flag |-> "complete"]
<1>1. e \in Calls BY DEF Calls
<1>2. e.pieces = p OBVIOUS
<1> HIDE DEF e
<1>3. Len(h) \in Nat /\ g[j] = e /\ \A k \in 1 .. Len(h) : g[k] = h[k] BY <1>1 DEF e
<1>4. i = j
  <2> SUFFICES ASSUME i # j PROVE FALSE OBVIOUS
  <2>1. Len(h) \in i .. j - 1 /\ Len(h) > 0 /\ Len(h) \in 1 .. Len(h) BY <1>3
  <2>2. g[Len(h)].flag = "partial" BY <2>1 DEF OneMessage
  <2>3. QED BY <1>3, <2>1, <2>2 DEF LastNotPartial
<1>5. i .. j = {j} /\ i .. j - 1 = {} BY <1>3, <1>4
<1>6. {Elements(g[k].pieces) : k \in i .. j} = {Elements(p)} BY <1>2, <1>3, <1>5
<1>7. UNION {Elements(g[k].pieces) : k \in i .. j} = Elements(p) BY <1>6
<1>8. QED BY <1>2, <1>3, <1>5, <1>7 DEF Whole

LEMMA BufferWhole ==
  ASSUME Inv, WInv, WellFormed, NEW s \in Streams, Buffer(s)
  PROVE  WInv'
<1>1. /\ Application(s) /\ registered[s] /\ ~streamed[s] /\ ~Complete(At(s))
      /\ buffer' = [buffer EXCEPT ![s] = Append(buffer[s], next[s])]
      /\ pending' = [pending EXCEPT ![s] = TRUE]
      /\ UNCHANGED <<registered, streamed, dcep, handled, opens, switches>>
  BY DEF Buffer, PendingAfter, Inv, Fields
<1>2. PICK n \in Nat : n = next[s] BY <1>1, ApplicationTaken
<1>3. n >= 1 /\ next'[s] = n + 1 /\ At(s).ppid # "dcep" BY <1>1, <1>2, ApplicationTaken
<1>4. PICK b \in Nat : Partway(s, b) /\ b <= n /\ b >= 1 /\ Buffering(s, b)
  BY <1>1, <1>2, Channel
<1>5. buffer[s] \in Seq(Nat) /\ buffer'[s] = Append(buffer[s], n)
      /\ pending'[s]
      /\ \A t \in Streams : t # s => buffer'[t] = buffer[t] /\ pending'[t] = pending[t]
  BY <1>1, <1>2 DEF Inv, Fields, TypeOK
<1>6. Partway(s, b)'
  <2>1. \A i \in b .. (n + 1) - 1 : i = n \/ i \in b .. n - 1 BY <1>4
  <2>2. Open(s, n) BY <1>1, <1>2, <1>3 DEF Open, At
  <2>3. \A i \in b .. (n + 1) - 1 : Open(s, i) BY <1>2, <1>4, <2>1, <2>2 DEF Partway
  <2>4. b \in 1 .. n + 1 BY <1>4
  <2>5. QED BY <1>3, <1>4, <2>3, <2>4 DEF Partway, Starts, Open
<1>7. Buffering(s, b)'
  <2>1. Len(buffer[s]) = n - b /\ Len(buffer'[s]) = (n + 1) - b
    BY <1>2, <1>4, <1>5 DEF Buffering
  <2>2. ASSUME NEW k \in 1 .. (n + 1) - b PROVE buffer'[s][k] = b + k - 1
    <3>1. CASE k = (n + 1) - b
      <4>1. buffer'[s][k] = n BY <1>2, <1>4, <1>5, <2>1, <3>1
      <4>2. QED BY <1>4, <3>1, <4>1
    <3>2. CASE k # (n + 1) - b
      <4>1. k \in 1 .. n - b BY <1>4, <3>2
      <4>2. buffer'[s][k] = buffer[s][k] BY <1>5, <2>1, <4>1
      <4>3. QED BY <1>2, <1>4, <4>1, <4>2 DEF Buffering
    <3>3. QED BY <3>1, <3>2
  <2>3. Len(handled[s]) > 0 => handled[s][Len(handled[s])].flag # "partial"
    BY <1>4 DEF Buffering
  <2>4. handled'[s] = handled[s] BY <1>1
  <2>5. QED BY <1>3, <2>1, <2>2, <2>3, <2>4 DEF Buffering
<1>8. Sound(s)' BY <1>1, <1>5, <1>6, <1>7 DEF Sound
<1>9. DeliveredWhole' BY <1>1, DeliveredKept DEF WInv
<1>10. QED BY <1>1, <1>5, <1>8, <1>9, ApplicationTaken, ChannelWhole

(* A channel whose message has been completed by one call of the handler.     *)
LEMMA CompletedWhole ==
  ASSUME Inv, WInv, WellFormed, NEW s \in Streams, Application(s), registered[s],
         Complete(At(s)), LastNotPartial(handled[s]),
         NEW p \in Seq(Indices(s)), Call(s, p, "complete"),
         Elements(p) = MessageOf(s, p[1]), Ascending(p),
         buffer' = [buffer EXCEPT ![s] = <<>>],
         pending' = [pending EXCEPT ![s] = FALSE],
         UNCHANGED <<registered, streamed, dcep, opens, switches>>
  PROVE  WInv'
<1>1. handled[s] \in Seq(Calls) BY DEF Inv, Fields, Calls
<1>2. /\ handled'[s] = Append(handled[s], [pieces |-> p, flag |-> "complete"])
      /\ \A t \in Streams : t # s => handled'[t] = handled[t]
      /\ handled' \in [Streams -> Seq(Calls)]
  BY CallType DEF Calls
<1>3. p \in Seq(Nat) BY ScriptType DEF Indices
<1>4. [pieces |-> p, flag |-> "complete"] \in Calls BY <1>3 DEF Calls
<1>5. LastNotPartial(handled'[s])
  <2>1. handled'[s][Len(handled'[s])] = [pieces |-> p, flag |-> "complete"] BY <1>1, <1>2, <1>4
  <2>2. QED BY <2>1 DEF LastNotPartial
<1>6. \A i \in 1 .. Len(handled[s]) + 1 :
        OneMessage(handled'[s], i, Len(handled[s]) + 1)
          => Whole(s, handled'[s], i, Len(handled[s]) + 1)
  BY <1>1, <1>2, <1>3, SingleWhole
<1>7. DeliveredWhole' BY <1>6, DeliveredCalled DEF WInv
<1>8. /\ buffer'[s] = <<>>
      /\ \A t \in Streams : t # s => buffer'[t] = buffer[t] /\ pending'[t] = pending[t]
  BY DEF Inv, Fields, TypeOK
<1>9. PICK n \in Nat : n = next[s] + 1 BY ApplicationTaken
<1>10. n >= 1 /\ next'[s] = n /\ n - 1 = next[s] BY <1>9, ApplicationTaken
<1>11. Starts(s, n) BY <1>10 DEF Starts, At
<1>12. Sound(s)' BY <1>2, <1>5, <1>8, <1>10, <1>11, Idle
<1>13. QED BY <1>2, <1>7, <1>8, <1>12, ApplicationTaken, ChannelWhole

LEMMA RaiseWhole ==
  ASSUME Inv, WInv, WellFormed, NEW s \in Streams, Raise(s)
  PROVE  WInv'
<1>1. /\ Application(s) /\ registered[s] /\ ~streamed[s] /\ Complete(At(s))
      /\ Call(s, Append(buffer[s], next[s]), "complete")
      /\ buffer' = [buffer EXCEPT ![s] = <<>>]
      /\ pending' = [pending EXCEPT ![s] = FALSE]
      /\ UNCHANGED <<registered, streamed, dcep, opens, switches>>
  BY DEF Raise
<1>2. next[s] \in Indices(s) /\ next[s] \in Nat BY <1>1, ApplicationTaken
<1>3. PICK n \in Nat : n = next[s] BY <1>2
<1>4. PICK b \in Nat : /\ b \in Indices(s) /\ b <= n /\ b >= 1 /\ Buffering(s, b)
                       /\ b > 1 => Complete(Script[s][b - 1])
                       /\ \A i \in b .. n - 1 : ~Complete(Script[s][i])
  BY <1>1, <1>3, Channel
<1>5. PICK p \in Seq(Indices(s)) : p = Append(buffer[s], n)
  <2>1. n \in Indices(s) /\ buffer[s] \in Seq(Indices(s)) BY <1>2, <1>3 DEF Inv, TypeOK
  <2>2. Append(buffer[s], n) \in Seq(Indices(s)) BY <2>1
  <2>3. QED BY <2>2
<1>6. buffer[s] \in Seq(Nat) /\ Len(buffer[s]) = n - b
      /\ \A k \in 1 .. n - b : buffer[s][k] = b + k - 1
  BY <1>3, <1>4 DEF Buffering, Inv, Fields
<1>7. Len(p) = n - b + 1
  <2>1. Len(p) = Len(buffer[s]) + 1 BY <1>5, <1>6
  <2>2. QED BY <1>4, <1>6, <2>1
<1>8. ASSUME NEW k \in 1 .. n - b + 1 PROVE p[k] = b + k - 1
  <2>1. CASE k = n - b + 1
    <3>1. p[k] = n BY <1>5, <1>6, <2>1
    <3>2. QED BY <1>4, <2>1, <3>1
  <2>2. CASE k # n - b + 1
    <3>1. k \in 1 .. n - b BY <1>4, <2>2
    <3>2. QED BY <1>5, <1>6, <3>1
  <2>3. QED BY <2>1, <2>2
<1>9. p[1] = b
  <2>1. 1 \in 1 .. n - b + 1 /\ b + 1 - 1 = b BY <1>4
  <2>2. QED BY <1>8, <2>1
<1>10. Ascending(p)
  <2>1. \A k \in 1 .. Len(p) - 1 : k \in 1 .. n - b + 1 /\ k + 1 \in 1 .. n - b + 1
    BY <1>4, <1>7
  <2>2. \A k \in 1 .. Len(p) - 1 : p[k + 1] = b + (k + 1) - 1 /\ p[k] = b + k - 1
    BY <1>8, <2>1
  <2>3. QED BY <2>2 DEF Ascending
<1>11. Elements(p) = b .. n
  <2>1. \A i \in b .. n : i - b + 1 \in 1 .. n - b + 1 /\ b + (i - b + 1) - 1 = i BY <1>4
  <2>2. \A k \in 1 .. n - b + 1 : b + k - 1 \in b .. n BY <1>4
  <2>3. Elements(p) = {b + k - 1 : k \in 1 .. n - b + 1} BY <1>7, <1>8 DEF Elements
  <2>4. QED BY <2>1, <2>2, <2>3
<1>12. MessageOf(s, b) = b .. n
  <2>1. b \in b .. n /\ Complete(Script[s][n]) /\ n \in Indices(s) BY <1>1, <1>2, <1>3, <1>4 DEF At
  <2>2. QED BY <1>4, <2>1, Span
<1>13. LastNotPartial(handled[s]) BY <1>4 DEF Buffering, LastNotPartial
<1>14. Call(s, p, "complete") BY <1>1, <1>3, <1>5
<1>15. QED BY <1>1, <1>9, <1>10, <1>11, <1>12, <1>13, <1>14, CompletedWhole

(* A piece that is a message of its own.                                      *)
LEMMA AloneWhole ==
  ASSUME Inv, WInv, WellFormed, NEW s \in Streams, Application(s), registered[s],
         Complete(At(s)), LastNotPartial(handled[s]),
         next[s] > 1 => Complete(Script[s][next[s] - 1]),
         Call(s, <<next[s]>>, "complete"),
         buffer' = [buffer EXCEPT ![s] = <<>>],
         pending' = [pending EXCEPT ![s] = FALSE],
         UNCHANGED <<registered, streamed, dcep, opens, switches>>
  PROVE  WInv'
<1>1. next[s] \in Indices(s) /\ next[s] \in Nat BY ApplicationTaken
<1>2. PICK n \in Nat : n = next[s] BY <1>1
<1>3. PICK p \in Seq(Indices(s)) : p = <<n>>
  <2>1. n \in Indices(s) BY <1>1, <1>2
  <2>2. <<n>> \in Seq(Indices(s)) BY <2>1
  <2>3. QED BY <2>2
<1>4. Len(p) = 1 /\ p[1] = n BY <1>3
<1>5. Elements(p) = {n} BY <1>4 DEF Elements
<1>6. MessageOf(s, n) = n .. n
  <2>1. n \in Indices(s) /\ n <= n /\ n \in n .. n /\ n .. n - 1 = {} BY <1>1, <1>2
  <2>2. Complete(Script[s][n]) /\ (n > 1 => Complete(Script[s][n - 1])) BY <1>2 DEF At
  <2>3. QED BY <2>1, <2>2, Span
<1>7. Ascending(p) BY <1>4 DEF Ascending
<1>8. n .. n = {n} OBVIOUS
<1>9. Call(s, p, "complete") BY <1>2, <1>3
<1>10. QED BY <1>4, <1>5, <1>6, <1>7, <1>8, <1>9, CompletedWhole

LEMMA EmptyWhole ==
  ASSUME Inv, WInv, WellFormed, NEW s \in Streams, Empty(s)
  PROVE  WInv'
<1>1. Application(s) /\ registered[s] /\ At(s).ppid = "empty" BY DEF Empty
<1>2. next[s] \in Indices(s) /\ next[s] \in Nat BY <1>1, ApplicationTaken
<1>3. At(s).eor BY <1>1, <1>2 DEF WellFormed, At
<1>4. Complete(At(s)) BY <1>1, <1>3 DEF Complete
<1>5. PICK b \in Nat : /\ b \in Indices(s) /\ b <= next[s] /\ b >= 1
                       /\ b > 1 => Complete(Script[s][b - 1])
                       /\ \A i \in b .. next[s] - 1 : ~Complete(Script[s][i])
                       /\ IF streamed[s] THEN Streaming(s, b) ELSE Buffering(s, b)
  BY <1>1, Channel
<1>6. b = next[s]
  <2> SUFFICES ASSUME b # next[s] PROVE FALSE OBVIOUS
  <2>1. next[s] - 1 \in b .. next[s] - 1 /\ next[s] - 1 \in Indices(s) /\ (next[s] - 1) + 1 = next[s]
    BY <1>2, <1>5, ScriptType DEF Indices
  <2>2. ~Complete(Script[s][next[s] - 1]) BY <1>5, <2>1
  <2>3. QED BY <1>1, <1>2, <2>1, <2>2, Joined DEF At
<1>7. LastNotPartial(handled[s]) BY <1>5, <1>6, LastWhole
<1>8. /\ Call(s, <<next[s]>>, "complete")
      /\ pending' = [pending EXCEPT ![s] = FALSE]
      /\ buffer' = [buffer EXCEPT ![s] = <<>>]
      /\ UNCHANGED <<registered, streamed, dcep, opens, switches>>
  BY <1>3 DEF Empty
<1>9. next[s] > 1 => Complete(Script[s][next[s] - 1]) BY <1>5, <1>6
<1>10. QED BY <1>1, <1>4, <1>7, <1>8, <1>9, AloneWhole

(* The last of the pieces that are passed on one by one.                      *)
LEMMA StreamedWhole ==
  ASSUME Inv, NEW s \in Streams, NEW n \in Nat, n = next[s],
         NEW b \in Nat, b >= 1, b <= n, Streaming(s, b),
         MessageOf(s, n) = b .. n,
         Call(s, <<n>>, "complete"), <<n>> \in Seq(Indices(s)),
         NEW i \in 1 .. Len(handled[s]) + 1,
         OneMessage(handled'[s], i, Len(handled[s]) + 1)
  PROVE  Whole(s, handled'[s], i, Len(handled[s]) + 1)
<1>1. PICK h \in Seq(Calls) : h = handled[s] BY DEF Inv, Fields, Calls
<1>2. PICK l \in Nat : l = Len(h) OBVIOUS
<1>3. PICK d \in Nat : d = n - b OBVIOUS
<1>4. PICK e \in Calls : e.pieces = <<n>> /\ e.flag = "complete" /\ handled'[s] = Append(h, e)
  <2>1. [pieces |-> <<n>>, flag |-> "complete"] \in Calls BY DEF Calls
  <2>2. handled'[s] = Append(h, [pieces |-> <<n>>, flag |-> "complete"]) BY <1>1, CallType
  <2>3. QED BY <2>1, <2>2
<1>5. PICK g : g = handled'[s] OBVIOUS
<1>6. g[l + 1] = e /\ \A k \in 1 .. l : g[k] = h[k] BY <1>2, <1>4, <1>5
<1>7. /\ d <= l
      /\ \A m \in 1 .. d : h[l - d + m].pieces = <<b + m - 1>> /\ h[l - d + m].flag = "partial"
      /\ l > d => h[l - d].flag # "partial"
  BY <1>1, <1>2, <1>3 DEF Streaming
<1>8. i \in 1 .. l + 1 /\ OneMessage(g, i, l + 1) BY <1>1, <1>2, <1>5
<1>9. i = l - d + 1
  <2>1. CASE i > l - d + 1
    <3>1. (i - 1) - (l - d) \in 1 .. d /\ l - d + ((i - 1) - (l - d)) = i - 1
          /\ i > 1 /\ i - 1 \in 1 .. l
      BY <1>7, <1>8, <2>1
    <3>2. h[i - 1].flag = "partial" BY <1>7, <3>1
    <3>3. g[i - 1].flag # "partial" BY <1>8, <3>1 DEF OneMessage
    <3>4. QED BY <1>6, <3>1, <3>2, <3>3
  <2>2. CASE i < l - d + 1
    <3>1. l - d \in i .. (l + 1) - 1 /\ l - d \in 1 .. l /\ l > d BY <1>7, <1>8, <2>2
    <3>2. g[l - d].flag = "partial" BY <1>8, <3>1 DEF OneMessage
    <3>3. QED BY <1>6, <1>7, <3>1, <3>2
  <2>3. QED BY <1>8, <2>1, <2>2
<1>10. \A k \in i .. l + 1 : g[k].pieces = <<b + k - i>>
  <2> SUFFICES ASSUME NEW k \in i .. l + 1 PROVE g[k].pieces = <<b + k - i>> OBVIOUS
  <2>1. CASE k = l + 1
    <3>1. b + k - i = b + d BY <1>9, <2>1
    <3>2. b + d = n BY <1>3
    <3>3. QED BY <1>4, <1>6, <2>1, <3>1, <3>2
  <2>2. CASE k # l + 1
    <3>1. k - (l - d) \in 1 .. d /\ l - d + (k - (l - d)) = k /\ k \in 1 .. l
          /\ b + (k - (l - d)) - 1 = b + k - i
      BY <1>7, <1>9, <2>2
    <3>2. h[k].pieces = <<b + k - i>> BY <1>7, <3>1
    <3>3. QED BY <1>6, <3>1, <3>2
  <2>3. QED BY <2>1, <2>2
<1>11. \A m : Elements(<<m>>) = {m} BY DEF Elements
<1>12. \A k \in i .. l + 1 : Elements(g[k].pieces) = {b + k - i} BY <1>10, <1>11
<1>13. UNION {Elements(g[k].pieces) : k \in i .. l + 1} = {b + k - i : k \in i .. l + 1}
  <2>1. {Elements(g[k].pieces) : k \in i .. l + 1} = {{b + k - i} : k \in i .. l + 1} BY <1>12
  <2>2. UNION {{b + k - i} : k \in i .. l + 1} = {b + k - i : k \in i .. l + 1} OBVIOUS
  <2>3. QED BY <2>1, <2>2
<1>14. {b + k - i : k \in i .. l + 1} = b .. n
  <2>1. \A j \in b .. b + d : i + j - b \in i .. l + 1 /\ b + (i + j - b) - i = j
    BY <1>9
  <2>2. \A k \in i .. l + 1 : b + k - i \in b .. b + d BY <1>9
  <2>3. b + d = n BY <1>3
  <2>4. QED BY <2>1, <2>2, <2>3
<1>15. g[l + 1].pieces = <<n>> BY <1>4, <1>6
<1>16. Ascending(g[l + 1].pieces) BY <1>15 DEF Ascending
<1>17. \A k \in i .. (l + 1) - 1 : g[k + 1].pieces[1] = g[k].pieces[1] + 1
  <2> SUFFICES ASSUME NEW k \in i .. (l + 1) - 1
               PROVE  g[k + 1].pieces[1] = g[k].pieces[1] + 1
    OBVIOUS
  <2>1. k \in i .. l + 1 /\ k + 1 \in i .. l + 1 /\ b + (k + 1) - i = (b + k - i) + 1
    BY <1>8
  <2>2. g[k].pieces[1] = b + k - i /\ g[k + 1].pieces[1] = b + (k + 1) - i BY <1>10, <2>1
  <2>3. QED BY <2>1, <2>2
<1>18. g[l + 1].pieces[1] = n BY <1>15
<1>19. Whole(s, g, i, l + 1) BY <1>13, <1>14, <1>16, <1>17, <1>18 DEF Whole
<1>20. QED BY <1>1, <1>2, <1>5, <1>19

LEMMA PassWhole ==
  ASSUME Inv, WInv, WellFormed, Unfragmented, NEW s \in Streams, Pass(s)
  PROVE  WInv'
<1>1. /\ Application(s) /\ registered[s] /\ streamed[s]
      /\ Call(s, <<next[s]>>, IF At(s).eor THEN "complete" ELSE "partial")
      /\ pending' = [pending EXCEPT ![s] = ~At(s).eor]
      /\ buffer' = [buffer EXCEPT ![s] = <<>>]
      /\ UNCHANGED <<registered, streamed, dcep, opens, switches>>
  BY DEF Pass
<1>2. next[s] \in Indices(s) /\ next[s] \in Nat /\ next[s] >= 1 /\ At(s).ppid # "dcep"
  BY <1>1, ApplicationTaken
<1>3. PICK n \in Nat : n = next[s] BY <1>2
<1>4. n >= 1 /\ n \in Indices(s) /\ next'[s] = n + 1 BY <1>1, <1>2, <1>3, ApplicationTaken
<1>5. Complete(At(s)) <=> At(s).eor
  <2>1. s \in Switched BY <1>1 DEF WInv
  <2>2. At(s).ppid # "fragment" BY <1>2, <2>1 DEF Unfragmented, At
  <2>3. QED BY <2>2 DEF Complete
<1>6. PICK b \in Nat :
        /\ Partway(s, b)
        /\ b \in Indices(s) /\ b <= n /\ b >= 1
        /\ b > 1 => Complete(Script[s][b - 1])
        /\ \A i \in b .. n - 1 : ~Complete(Script[s][i])
        /\ Streaming(s, b)
  BY <1>1, <1>3, Channel
<1>7. <<n>> \in Seq(Indices(s)) BY <1>4
<1>8. /\ buffer'[s] = <<>>
      /\ \A t \in Streams : t # s => buffer'[t] = buffer[t] /\ pending'[t] = pending[t]
  BY <1>1 DEF Inv, Fields, TypeOK
<1>9. handled[s] \in Seq(Calls) BY DEF Inv, Fields, Calls
<1>10. CASE At(s).eor
  <2>1. Call(s, <<n>>, "complete") BY <1>1, <1>3, <1>10
  <2>2. /\ handled'[s] = Append(handled[s], [pieces |-> <<n>>, flag |-> "complete"])
        /\ \A t \in Streams : t # s => handled'[t] = handled[t]
        /\ handled' \in [Streams -> Seq(Calls)]
    BY <1>7, <2>1, CallType DEF Calls
  <2>3. [pieces |-> <<n>>, flag |-> "complete"] \in Calls BY DEF Calls
  <2>4. LastNotPartial(handled'[s])
    <3>1. handled'[s][Len(handled'[s])] = [pieces |-> <<n>>, flag |-> "complete"]
      BY <1>9, <2>2, <2>3
    <3>2. QED BY <3>1 DEF LastNotPartial
  <2>5. MessageOf(s, n) = b .. n
    <3>1. n \in b .. n /\ Complete(Script[s][n]) BY <1>3, <1>5, <1>6, <1>10 DEF At
    <3>2. QED BY <1>4, <1>6, <3>1, Span
  <2>6. \A i \in 1 .. Len(handled[s]) + 1 :
          OneMessage(handled'[s], i, Len(handled[s]) + 1)
            => Whole(s, handled'[s], i, Len(handled[s]) + 1)
    BY <1>3, <1>6, <1>7, <2>1, <2>5, StreamedWhole
  <2>7. DeliveredWhole' BY <1>7, <2>1, <2>6, DeliveredCalled DEF WInv
  <2>8. PICK k \in Nat : k = n + 1 OBVIOUS
  <2>9. k >= 1 /\ next'[s] = k /\ k - 1 = n BY <1>4, <2>8
  <2>10. Starts(s, k) BY <1>3, <1>5, <1>10, <2>9 DEF Starts, At
  <2>11. Sound(s)' BY <1>1, <1>8, <2>2, <2>4, <2>9, <2>10, Idle
  <2>12. QED BY <1>1, <1>8, <2>2, <2>7, <2>11, ApplicationTaken, ChannelWhole
<1>11. CASE ~At(s).eor
  <2>1. Call(s, <<n>>, "partial") BY <1>1, <1>3, <1>11
  <2>2. /\ handled'[s] = Append(handled[s], [pieces |-> <<n>>, flag |-> "partial"])
        /\ \A t \in Streams : t # s => handled'[t] = handled[t]
    BY <1>7, <2>1, CallType
  <2>3. DeliveredWhole' BY <1>7, <2>1, DeliveredCalled DEF WInv
  <2>4. pending'[s] BY <1>1, <1>11 DEF Inv, TypeOK
  <2>5. Partway(s, b)'
    <3>1. \A i \in b .. (n + 1) - 1 : i = n \/ i \in b .. n - 1 BY <1>6
    <3>2. Open(s, n) BY <1>2, <1>3, <1>5, <1>11 DEF Open, At
    <3>3. \A i \in b .. (n + 1) - 1 : Open(s, i) BY <1>3, <1>6, <3>1, <3>2 DEF Partway
    <3>4. b \in 1 .. n + 1 BY <1>6
    <3>5. QED BY <1>4, <1>6, <3>3, <3>4 DEF Partway, Starts, Open
  <2>6. Streaming(s, b)'
    <3>1. PICK h \in Seq(Calls) : h = handled[s] BY <1>9
    <3>2. PICK l \in Nat : l = Len(h) OBVIOUS
    <3>3. PICK d \in Nat : d = n - b BY <1>6
    <3>4. PICK e \in Calls : e.pieces = <<n>> /\ e.flag = "partial" /\ handled'[s] = Append(h, e)
      <4>1. [pieces |-> <<n>>, flag |-> "partial"] \in Calls BY DEF Calls
      <4>2. QED BY <2>2, <3>1, <4>1
    <3>5. PICK g : g = handled'[s] OBVIOUS
    <3>6. Len(g) = l + 1 /\ g[l + 1] = e /\ \A k \in 1 .. l : g[k] = h[k]
      BY <3>2, <3>4, <3>5
    <3>7. /\ d <= l
          /\ \A m \in 1 .. d : h[l - d + m].pieces = <<b + m - 1>> /\ h[l - d + m].flag = "partial"
          /\ l > d => h[l - d].flag # "partial"
      BY <1>3, <1>6, <3>1, <3>2, <3>3 DEF Streaming
    <3>8. (l + 1) - (d + 1) = l - d /\ d + 1 = (n + 1) - b BY <1>6, <3>3
    <3>9. ASSUME NEW m \in 1 .. d + 1
          PROVE  g[l - d + m].pieces = <<b + m - 1>> /\ g[l - d + m].flag = "partial"
      <4>1. CASE m = d + 1
        <5>1. l - d + m = l + 1 /\ b + m - 1 = n BY <3>3, <4>1
        <5>2. QED BY <3>4, <3>6, <5>1
      <4>2. CASE m # d + 1
        <5>1. m \in 1 .. d /\ l - d + m \in 1 .. l BY <3>7, <4>2
        <5>2. QED BY <3>6, <3>7, <5>1
      <4>3. QED BY <4>1, <4>2
    <3>10. l + 1 > d + 1 => g[l - d].flag # "partial"
      <4>1. l > d => l - d \in 1 .. l OBVIOUS
      <4>2. QED BY <3>6, <3>7, <4>1
    <3>11. d + 1 <= l + 1 BY <3>7
    <3>12. QED BY <1>4, <3>5, <3>6, <3>8, <3>9, <3>10, <3>11 DEF Streaming
  <2>7. Sound(s)' BY <1>1, <2>4, <2>5, <2>6 DEF Sound
  <2>8. QED BY <1>1, <1>8, <2>2, <2>3, <2>7, ApplicationTaken, ChannelWhole
<1>12. QED BY <1>10, <1>11

LEMMA AbortedWhole ==
  ASSUME Inv, WInv, WellFormed, Unfragmented, NEW s \in Streams, Aborted(s)
  PROVE  WInv'
<1>1. s \in Unreliable /\ next[s] > 1 /\ At(s).ppid # "dcep" BY DEF Aborted, Within
<1>2. PICK n \in next[s] .. Len(Script[s]) :
        Script[s][n].eor /\ next' = [next EXCEPT ![s] = n + 1]
  BY DEF Aborted
<1>3. next[s] \in Nat /\ next \in [Streams -> Nat] /\ Len(Script[s]) \in Nat
  BY ScriptType DEF Inv, Fields
<1>4. next[s] \in Indices(s) /\ n \in Indices(s) /\ n \in Nat /\ n >= 1
  BY <1>1, <1>2, <1>3 DEF Indices
<1>5. Complete(Script[s][n]) BY <1>1, <1>2, <1>4 DEF Unfragmented, Complete
<1>6. PICK m \in Nat : m = n + 1 BY <1>4
<1>7. m >= 1 /\ m - 1 = n /\ next'[s] = m BY <1>2, <1>3, <1>4, <1>6
<1>8. \A t \in Streams : t # s => next'[t] = next[t] BY <1>2, <1>3
<1>9. ~UnderWay(s) BY <1>1, <1>4, NotUnderWay
<1>10. ~UnderWay(s)' BY <1>5, <1>7 DEF UnderWay
<1>11. Starts(s, m) BY <1>5, <1>7 DEF Starts
<1>12. UNCHANGED <<registered, streamed, dcep, opens, switches>> BY DEF Aborted
<1>13. handled \in [Streams -> Seq(Calls)] BY DEF Inv, Fields, Calls
<1>14. CASE registered[s]
  <2>1. /\ buffer' = [buffer EXCEPT ![s] = <<>>]
        /\ pending' = [pending EXCEPT ![s] = FALSE]
    BY <1>14 DEF Aborted, DiscardBuffer
  <2>2. /\ buffer'[s] = <<>>
        /\ \A t \in Streams : t # s => buffer'[t] = buffer[t] /\ pending'[t] = pending[t]
    BY <2>1 DEF Inv, Fields, TypeOK
  <2>3. /\ handled'[s] \in Seq(Calls) /\ LastNotPartial(handled'[s])
        /\ \A t \in Streams : t # s => handled'[t] = handled[t]
        /\ DeliveredWhole'
    <3>1. CASE streamed[s]
      <4> DEFINE e == [pieces |-> <<>>, flag |-> "aborted"]
      <4>1. Call(s, <<>>, "aborted") BY <1>14, <3>1 DEF Aborted
      <4>2. <<>> \in Seq(Indices(s)) /\ e \in Calls /\ e.flag # "partial" BY DEF Calls
      <4>3. /\ handled'[s] = Append(handled[s], e)
            /\ \A t \in Streams : t # s => handled'[t] = handled[t]
        BY <4>1, <4>2, CallType
      <4>4. DeliveredWhole' BY <4>1, <4>2, DeliveredCalled DEF WInv
      <4> HIDE DEF e
      <4>5. handled'[s] \in Seq(Calls) /\ handled'[s][Len(handled'[s])] = e
        BY <1>13, <4>2, <4>3
      <4>6. QED BY <4>2, <4>3, <4>4, <4>5 DEF LastNotPartial
    <3>2. CASE ~streamed[s]
      <4>1. handled' = handled BY <1>14, <3>2 DEF Aborted
      <4>2. LastNotPartial(handled[s])
        BY <1>14, <3>2 DEF WInv, Sound, Buffering, LastNotPartial
      <4>3. DeliveredWhole' BY <4>1, DeliveredKept DEF WInv
      <4>4. QED BY <1>13, <4>1, <4>2, <4>3
    <3>3. QED BY <3>1, <3>2
  <2>4. Sound(s)' BY <1>7, <1>11, <1>12, <1>14, <2>2, <2>3, Idle
  <2>5. QED BY <1>8, <1>9, <1>10, <1>12, <2>2, <2>3, <2>4, ChannelWhole
<1>15. CASE ~registered[s]
  <2>1. UNCHANGED <<pending, buffer, handled>> BY <1>15 DEF Aborted
  <2>2. Sound(s)' BY <1>12, <1>15, <2>1 DEF WInv, Sound
  <2>3. DeliveredWhole' BY <2>1, DeliveredKept DEF WInv
  <2>4. QED BY <1>8, <1>9, <1>10, <1>12, <2>1, <2>2, <2>3, ChannelWhole
<1>16. QED BY <1>14, <1>15

LEMMA SetStreamingWhole ==
  ASSUME Inv, WInv, NEW s \in Streams, SetStreaming(s)
  PROVE  WInv'
<1>1. /\ s \in Switched /\ registered[s] /\ ~pending[s]
      /\ streamed' = [streamed EXCEPT ![s] = ~streamed[s]]
      /\ UNCHANGED <<next, registered, pending, buffer, dcep, handled, opens>>
  BY DEF SetStreaming, Switchable, Inv, TypeOK
<1>2. \A t \in Streams : t # s => streamed'[t] = streamed[t] BY <1>1 DEF Inv, TypeOK
<1>3. PICK b \in Nat :
         /\ Partway(s, b)
         /\ IF streamed[s] THEN Streaming(s, b) ELSE Buffering(s, b)
         /\ b = next[s]
  BY <1>1 DEF WInv, Sound
<1>4. LastNotPartial(handled[s]) BY <1>3, LastWhole
<1>5. buffer[s] = <<>> BY <1>1 DEF Inv, BufferedPending
<1>6. b >= 1 /\ Starts(s, b) BY <1>3 DEF Partway
<1>7. handled[s] \in Seq(Calls) BY DEF Inv, Fields, Calls
<1>8. Sound(s)' BY <1>1, <1>3, <1>4, <1>5, <1>6, <1>7, Idle
<1>9. ASSUME NEW t \in Streams PROVE Sound(t)'
  <2>1. CASE t = s BY <1>8, <2>1
  <2>2. CASE t # s BY <1>1, <1>2, <2>2, SoundKept DEF WInv
  <2>3. QED BY <2>1, <2>2
<1>10. DcepSound' BY <1>1 DEF WInv, DcepSound, UnderWay, DcepPartway
<1>11. DeliveredWhole' /\ DcepWhole' BY <1>1, DeliveredKept, DcepKept DEF WInv
<1>12. \A t \in Streams : streamed'[t] => t \in Switched BY <1>1, <1>2 DEF WInv
<1>13. QED BY <1>9, <1>10, <1>11, <1>12 DEF WInv

LEMMA CreateNegotiatedWhole ==
  ASSUME Inv, WInv, ~MidMessage, NEW s \in Streams, CreateNegotiated(s)
  PROVE  WInv'
<1>1. /\ ~registered[s] /\ BetweenMessages(s)
      /\ registered' = [registered EXCEPT ![s] = TRUE]
      /\ UNCHANGED <<next, streamed, pending, buffer, dcep, handled, opens, switches>>
  BY DEF CreateNegotiated
<1>2. registered'[s] /\ \A t \in Streams : t # s => registered'[t] = registered[t]
  BY <1>1 DEF Inv, TypeOK
<1>3. handled[s] = <<>> /\ buffer[s] = <<>> BY <1>1 DEF WInv, Sound
<1>4. PICK n \in Nat : n = next[s] /\ n >= 1 BY ScriptType DEF Inv, TypeOK, Fields
<1>5. Starts(s, n) BY <1>1, <1>4 DEF Starts, BetweenMessages, Complete, EndsMessage
<1>6. handled'[s] \in Seq(Calls) /\ LastNotPartial(handled'[s])
  BY <1>1, <1>3 DEF LastNotPartial
<1>7. Sound(s)' BY <1>1, <1>2, <1>3, <1>4, <1>5, <1>6, Idle
<1>8. ASSUME NEW t \in Streams PROVE Sound(t)'
  <2>1. CASE t = s BY <1>7, <2>1
  <2>2. CASE t # s BY <1>1, <1>2, <2>2, SoundKept DEF WInv
  <2>3. QED BY <2>1, <2>2
<1>9. DcepSound' BY <1>1 DEF WInv, DcepSound, UnderWay, DcepPartway
<1>10. DeliveredWhole' /\ DcepWhole' BY <1>1, DeliveredKept, DcepKept DEF WInv
<1>11. QED BY <1>1, <1>8, <1>9, <1>10 DEF WInv

LEMMA WInvInit == Init => WInv
<1> SUFFICES ASSUME Init PROVE WInv OBVIOUS
<1>1. \A s \in Streams : Sound(s) BY DEF Init, Sound
<1>2. \A s \in Streams : ~UnderWay(s) BY DEF Init, UnderWay
<1>3. DcepSound BY <1>2 DEF Init, DcepSound
<1>4. DeliveredWhole
  <2>1. \A s \in Streams : 1 .. Len(handled[s]) = {} BY DEF Init
  <2>2. QED BY <2>1 DEF DeliveredWhole
<1>5. DcepWhole
  <2>1. 1 .. Len(opens) = {} BY DEF Init
  <2>2. QED BY <2>1 DEF DcepWhole
<1>6. QED BY <1>1, <1>3, <1>4, <1>5 DEF Init, WInv

LEMMA WInvNext ==
  ASSUME Inv, WInv, [Next]_vars, WellFormed, Unfragmented, DcepApart, ~MidMessage
  PROVE  WInv'
<1>1. CASE UNCHANGED vars
  <2>1. UNCHANGED <<next, registered, streamed, pending, buffer, dcep, handled, opens>>
    BY <1>1 DEF vars
  <2>2. \A s \in Streams : Sound(s)' BY <2>1, SoundKept DEF WInv
  <2>3. DcepSound' BY <2>1 DEF WInv, DcepSound, UnderWay, DcepPartway
  <2>4. DeliveredWhole' /\ DcepWhole' BY <2>1, DeliveredKept, DcepKept DEF WInv
  <2>5. QED BY <2>1, <2>2, <2>3, <2>4 DEF WInv
<1>2. CASE Next
  <2>1. PICK s \in Streams :
          \/ Buffered(s) \/ HandleDcep(s) \/ CreateNegotiated(s)
          \/ NoChannel(s) \/ Empty(s) \/ Buffer(s) \/ Raise(s) \/ Pass(s)
          \/ Aborted(s) \/ SetStreaming(s)
    BY <1>2 DEF Next
  <2>2. QED
    BY <2>1, BufferedWhole, HandleDcepWhole, CreateNegotiatedWhole, NoChannelWhole,
       EmptyWhole, BufferWhole, RaiseWhole, PassWhole, AbortedWhole, SetStreamingWhole
<1>3. QED BY <1>1, <1>2

(* For any script of messages, any interleaving of the streams, and any     *)
(* changes of the delivery mode: what a message handler is told is a        *)
(* complete message is one, and so is each DCEP message that is handled -   *)
(* as long as the deprecated PPIDs are not used on channels that are        *)
(* streamed or partially reliable, DCEP messages that come in pieces do not *)
(* meet others, and negotiated channels are created between messages.       *)
THEOREM WholeCorrect ==
  ASSUME WellFormed, Unfragmented, DcepApart, ~MidMessage
  PROVE  Spec => [](DeliveredWhole /\ DcepWhole)
<1>1. Init => Inv /\ WInv BY InvInit, WInvInit
<1>2. Inv /\ WInv /\ [Next]_vars => Inv' /\ WInv' BY InvNext, WInvNext
<1>3. Inv /\ WInv => DeliveredWhole /\ DcepWhole BY DEF WInv
<1>4. QED BY <1>1, <1>2, <1>3, PTL DEF Spec

(* The steps that put no DCEP message together.                              *)
LEMMA OtherOpens ==
  ASSUME Inv, DcepSound, DcepWhole, WellFormed, NEW s \in Streams,
         \/ CreateNegotiated(s) \/ NoChannel(s) \/ Empty(s) \/ Buffer(s)
         \/ Raise(s) \/ Pass(s) \/ Aborted(s) \/ SetStreaming(s)
  PROVE  DcepSound' /\ DcepWhole'
<1>1. UNCHANGED <<dcep, opens>>
  BY DEF CreateNegotiated, NoChannel, Empty, Buffer, Raise, Pass, Aborted,
         SetStreaming
<1>2. DcepWhole' BY <1>1, DcepKept
<1>3. CASE CreateNegotiated(s) \/ SetStreaming(s)
  <2>1. next' = next BY <1>3 DEF CreateNegotiated, SetStreaming
  <2>2. DcepSound' BY <1>1, <2>1 DEF DcepSound, UnderWay, DcepPartway
  <2>3. QED BY <1>2, <2>2
<1>4. CASE NoChannel(s) \/ Empty(s) \/ Buffer(s) \/ Raise(s) \/ Pass(s)
  <2>1. Application(s) BY <1>4 DEF NoChannel, Empty, Buffer, Raise, Pass
  <2>2. QED BY <1>1, <1>2, <2>1, ApplicationTaken, DcepUntouched
<1>5. CASE Aborted(s)
  <2>1. next[s] > 1 /\ At(s).ppid # "dcep" BY <1>5 DEF Aborted, Within
  <2>2. PICK n \in next[s] .. Len(Script[s]) :
          Script[s][n].eor /\ next' = [next EXCEPT ![s] = n + 1]
    BY <1>5 DEF Aborted
  <2>3. next[s] \in Nat /\ next \in [Streams -> Nat] /\ Len(Script[s]) \in Nat
    BY ScriptType DEF Inv, Fields
  <2>4. next[s] \in Indices(s) /\ n \in Nat BY <2>1, <2>2, <2>3 DEF Indices
  <2>5. ~UnderWay(s) BY <2>1, <2>4, NotUnderWay
  <2>6. next'[s] = n + 1 /\ (n + 1) - 1 = n
        /\ \A t \in Streams : t # s => next'[t] = next[t]
    BY <2>2, <2>3, <2>4
  <2>7. Script[s][n].ppid = "dcep" => Complete(Script[s][n])
    BY <2>2 DEF Complete
  <2>8. ~UnderWay(s)' BY <2>6, <2>7 DEF UnderWay
  <2>9. QED BY <1>1, <1>2, <2>5, <2>6, <2>8, DcepUntouched
<1>6. QED BY <1>3, <1>4, <1>5

(* Each DCEP message that is handled is one message of one stream, whatever  *)
(* is done with the channels meanwhile and whichever PPIDs are used, as long *)
(* as DCEP messages that come in pieces do not meet others in the single     *)
(* buffer of the transport.                                                  *)
THEOREM DcepCorrect ==
  ASSUME WellFormed, DcepApart
  PROVE  Spec => []DcepWhole
<1>1. Init => Inv /\ DcepSound /\ DcepWhole BY InvInit, WInvInit DEF WInv
<1>2. Inv /\ DcepSound /\ DcepWhole /\ [Next]_vars =>
        (Inv /\ DcepSound /\ DcepWhole)'
  <2> SUFFICES ASSUME Inv, DcepSound, DcepWhole, [Next]_vars
               PROVE  Inv' /\ DcepSound' /\ DcepWhole'
    OBVIOUS
  <2>1. Inv' BY InvNext
  <2>2. CASE UNCHANGED vars
    <3>1. UNCHANGED <<next, dcep, opens>> BY <2>2 DEF vars
    <3>2. DcepSound' BY <3>1 DEF DcepSound, UnderWay, DcepPartway
    <3>3. QED BY <2>1, <3>1, <3>2, DcepKept
  <2>3. CASE Next
    <3>1. PICK s \in Streams :
            \/ Buffered(s) \/ HandleDcep(s) \/ CreateNegotiated(s)
            \/ NoChannel(s) \/ Empty(s) \/ Buffer(s) \/ Raise(s) \/ Pass(s)
            \/ Aborted(s) \/ SetStreaming(s)
      BY <2>3 DEF Next
    <3>2. DcepSound' /\ DcepWhole'
      BY <3>1, BufferedOpens, HandledOpens, OtherOpens
    <3>3. QED BY <2>1, <3>2
  <2>4. QED BY <2>2, <2>3
<1>3. QED BY <1>1, <1>2, PTL DEF Spec
=============================================================================
