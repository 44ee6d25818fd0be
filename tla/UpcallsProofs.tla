---------------------------- MODULE UpcallsProofs ----------------------------
(***************************************************************************)
(* Theorems about Upcalls, for any number of items that come and of        *)
(* messages that are deferred.                                             *)
(***************************************************************************)
EXTENDS Upcalls, TLAPS

(* An event is ignored for the rest of an upcall only when handling it      *)
(* again would do nothing.                                                  *)
IgnoredSound ==
  (pc # "idle" /\ state # "closed") =>
    /\ "read" \in ignored => inbox = <<>> /\ ~soError
    /\ "write" \in ignored => queue = 0 \/ ~room

(* Before the connection is up there is room only for its notification.     *)
UpFirst ==
  state = "connecting" /\ room => inbox # <<>> /\ inbox[1] = "up"

(* A write event before the connection is up comes with a read event, which *)
(* is handled first.                                                        *)
EventsSound ==
  state = "connecting" /\ "write" \in events =>
    /\ pc \in {"error", "read"} => room /\ "read" \in events
    /\ pc = "write" => missed

Inv == TypeOK /\ IgnoredSound /\ NothingLeft /\ UpFirst /\ EventsSound /\ DeferredKept

(***************************************************************************)
(* Sending and reading                                                     *)
(***************************************************************************)
LEMMA FlushedSound ==
  ASSUME NEW q \in 0 .. MaxQueue, NEW r \in BOOLEAN,
         NEW k \in 0 .. MaxQueue, NEW f \in BOOLEAN, Flushed(q, r, k, f)
  PROVE  (f => r) /\ (k = 0 \/ ~f)
<1>1. CASE q = 0 \/ ~r
  <2>1. k = q /\ f = r BY <1>1, Zenon DEF Flushed
  <2>2. QED BY <1>1, <2>1
<1>2. CASE ~(q = 0 \/ ~r)
  <2>1. f => k = 0 BY <1>2, Zenon DEF Flushed
  <2>2. QED BY <1>2, <2>1, Zenon
<1>3. QED BY <1>1, <1>2

LEMMA SentSound ==
  ASSUME NEW st, NEW q \in 0 .. MaxQueue, NEW r \in BOOLEAN,
         NEW k \in 0 .. MaxQueue, NEW f \in BOOLEAN, Sent(st, q, r, k, f)
  PROVE  /\ f => r
         /\ st # "connected" => f = r
         /\ st = "connected" /\ (q = 0 \/ ~r) => k = 0 \/ ~f
<1>1. CASE k = q /\ f = r BY <1>1
<1>2. CASE f = (r /\ (q > 0 \/ st # "connected"))
  <2>1. q = 0 => ~(q > 0) OBVIOUS
  <2>2. QED BY <1>2, <2>1, Zenon
<1>3. QED BY <1>1, <1>2, Zenon DEF Sent

LEMMA FlushSound ==
  ASSUME TypeOK, Flush
  PROVE  /\ queue' \in 0 .. MaxQueue
         /\ room' \in BOOLEAN
         /\ dropped' \in BOOLEAN
         /\ room' => room
         /\ queue' = 0 \/ ~room'
         /\ state = "connected" => dropped' = dropped
         /\ state # "connected" =>
              room' = room /\ (dropped' => dropped \/ ~missed)
<1>1. /\ queue \in 0 .. MaxQueue /\ MaxQueue \in Nat
      /\ room \in BOOLEAN /\ dropped \in BOOLEAN /\ missed \in BOOLEAN
  BY BoundsAssumption DEF TypeOK
<1>2. CASE state = "connected"
  <2>1. /\ queue' \in 0 .. MaxQueue /\ room' \in BOOLEAN
        /\ Flushed(queue, room, queue', room')
        /\ dropped' = dropped
    BY <1>2 DEF Flush
  <2>2. (room' => room) /\ (queue' = 0 \/ ~room') BY <1>1, <2>1, FlushedSound
  <2>3. QED BY <1>1, <1>2, <2>1, <2>2, Zenon
<1>3. CASE state # "connected"
  <2>1. /\ queue' = 0 /\ room' = room
        /\ dropped' = (dropped \/ (queue > 0 /\ ~missed))
    BY <1>3 DEF Flush
  <2>2. queue' \in 0 .. MaxQueue BY <1>1, <2>1
  <2>3. QED BY <1>1, <1>3, <2>1, <2>2, Zenon
<1>4. QED BY <1>2, <1>3

LEMMA AppSendsSound ==
  ASSUME TypeOK, AppSends
  PROVE  /\ queue' \in 0 .. MaxQueue
         /\ room' \in BOOLEAN
         /\ room' => room
         /\ state # "connected" => room' = room
         /\ state = "connected" /\ (queue = 0 \/ ~room) => queue' = 0 \/ ~room'
<1>1. queue \in 0 .. MaxQueue /\ room \in BOOLEAN BY DEF TypeOK
<1>2. /\ queue' \in 0 .. MaxQueue /\ room' \in BOOLEAN
      /\ Sent(state, queue, room, queue', room')
  BY DEF AppSends
<1>3. QED BY <1>1, <1>2, SentSound

LEMMA CommUpSound ==
  ASSUME TypeOK, CommUp
  PROVE  /\ queue' \in 0 .. MaxQueue
         /\ room' \in BOOLEAN
         /\ room' => room
         /\ queue' = 0 \/ ~room'
<1>1. queue \in 0 .. MaxQueue /\ room \in BOOLEAN BY DEF TypeOK
<1>2. queue' \in 0 .. MaxQueue /\ room' \in BOOLEAN BY DEF CommUp
<1>3. PICK k \in 0 .. MaxQueue, f \in BOOLEAN :
        /\ Flushed(queue, room, k, f)
        /\ Sent("connected", k, f, queue', room')
  BY DEF CommUp
<1>4. (f => room) /\ (k = 0 \/ ~f) BY <1>1, <1>3, FlushedSound
<1>5. (room' => f) /\ (k = 0 \/ ~f => queue' = 0 \/ ~room')
  BY <1>2, <1>3, SentSound
<1>6. QED BY <1>2, <1>4, <1>5, Zenon

LEMMA HandleSound ==
  ASSUME TypeOK, NEW item \in Items, Handle(item),
         state = "connecting" /\ room => item = "up"
  PROVE  /\ queue' \in 0 .. MaxQueue
         /\ room' \in BOOLEAN
         /\ room' => room
         /\ state' \in {"connecting", "connected", "closed"}
         /\ state = "closed" => state' = "closed"
         /\ state' # "closed" /\ (queue = 0 \/ ~room) => queue' = 0 \/ ~room'
         /\ state' = "connecting" => state = "connecting" /\ item # "up"
         /\ dropped' = dropped
<1>1. dropped' = dropped /\ state \in {"connecting", "connected", "closed"}
  BY DEF Handle, TypeOK
<1>2. CASE item = "up" /\ state = "connecting" /\ CommUp
  <2>1. state' \in {"connected", "closed"} BY <1>2 DEF CommUp
  <2>2. QED BY <1>1, <1>2, <2>1, CommUpSound, Zenon
<1>3. CASE item = "lost" /\ AppSends /\ state' = "closed"
  BY <1>1, <1>3, AppSendsSound
<1>4. CASE (item = "note" \/ (item = "data" /\ state = "connected")) /\ AppReacts
  <2>1. AppSends /\ state' \in {state, "closed"} BY <1>4 DEF AppReacts
  <2>2. item # "up" BY <1>4
  <2>3. QED BY <1>1, <2>1, <2>2, AppSendsSound
<1>5. CASE item = "data" /\ state # "connected" /\ UNCHANGED <<state, queue, room>>
  BY <1>1, <1>5 DEF TypeOK
<1>6. QED BY <1>2, <1>3, <1>4, <1>5 DEF Handle, AssociationChange

(***************************************************************************)
(* One lemma per action                                                    *)
(***************************************************************************)
LEMMA RaiseSound ==
  ASSUME Inv, Raise
  PROVE  /\ state \in {"connecting", "connected"} /\ state' = state
         /\ queue' = queue
         /\ pc' = "raised" /\ ignored' = {}
         /\ UNCHANGED <<events, missed, dropped>>
BY DEF Inv, Raise, TypeOK, NONE, transport, history

LEMMA ArrivesInv ==
  ASSUME Inv, NEW item \in Items, Arrives(item)
  PROVE  Inv'
<1>1. /\ state \in {"connecting", "connected"} /\ state' = state
      /\ queue' = queue
      /\ pc' = "raised" /\ ignored' = {}
      /\ UNCHANGED <<events, missed, dropped>>
  BY RaiseSound DEF Arrives
<1>2. /\ inbox \in Seq(Items) /\ came \in 0 .. MaxItems
      /\ came < MaxItems /\ came' = came + 1
      /\ inbox' = Append(inbox, item)
      /\ room' = (room \/ item = "up") /\ soError' = soError
      /\ item = "up" => inbox = <<>>
  BY DEF Arrives, Inv, TypeOK
<1>3. TypeOK' BY <1>1, <1>2, BoundsAssumption DEF Inv, TypeOK, ALL
<1>4. UpFirst'
  <2> SUFFICES ASSUME state = "connecting", room'
               PROVE  inbox' # <<>> /\ inbox'[1] = "up"
    BY <1>1 DEF UpFirst
  <2>1. inbox' # <<>> BY <1>2
  <2>2. CASE item = "up" BY <1>2, <2>1, <2>2
  <2>3. CASE item # "up"
    <3>1. room BY <1>2, <2>3
    <3>2. inbox # <<>> /\ inbox[1] = "up" BY <3>1 DEF Inv, UpFirst
    <3>3. Len(inbox) \in Nat /\ Len(inbox) # 0 BY <1>2, <3>2
    <3>4. QED BY <1>2, <2>1, <3>2, <3>3
  <2>4. QED BY <2>2, <2>3
<1>5. QED
  BY <1>1, <1>3, <1>4 DEF Inv, IgnoredSound, NothingLeft, EventsSound, DeferredKept

LEMMA WritableInv == ASSUME Inv, Writable PROVE Inv'
<1>1. /\ state \in {"connecting", "connected"} /\ state' = state
      /\ queue' = queue
      /\ pc' = "raised" /\ ignored' = {}
      /\ UNCHANGED <<events, missed, dropped>>
  BY RaiseSound DEF Writable
<1>2. IsUp /\ room' = TRUE /\ UNCHANGED <<inbox, soError, came>> BY DEF Writable
<1>3. TypeOK' BY <1>1, <1>2 DEF Inv, TypeOK, ALL
<1>4. UpFirst' BY <1>1, <1>2 DEF IsUp, UpFirst
<1>5. QED
  BY <1>1, <1>3, <1>4 DEF Inv, IgnoredSound, NothingLeft, EventsSound, DeferredKept

LEMMA ErrorInv == ASSUME Inv, Error PROVE Inv'
<1>1. /\ state \in {"connecting", "connected"} /\ state' = state
      /\ queue' = queue
      /\ pc' = "raised" /\ ignored' = {}
      /\ UNCHANGED <<events, missed, dropped>>
  BY RaiseSound DEF Error
<1>2. /\ came < MaxItems /\ came' = came + 1 /\ soError' = TRUE
      /\ UNCHANGED <<inbox, room>>
  BY DEF Error
<1>3. TypeOK' BY <1>1, <1>2, BoundsAssumption DEF Inv, TypeOK, ALL
<1>4. QED
  BY <1>1, <1>2, <1>3
  DEF Inv, UpFirst, IgnoredSound, NothingLeft, EventsSound, DeferredKept

LEMMA AppActsInv == ASSUME Inv, AppActs PROVE Inv'
<1>1. /\ pc = "idle" /\ state # "closed"
      /\ AppReacts
      /\ UNCHANGED <<inbox, soError, came, pc, events, ignored, missed, dropped>>
  BY DEF AppActs, loop, history
<1>2. /\ queue' \in 0 .. MaxQueue
      /\ room' \in BOOLEAN
      /\ room' => room
      /\ state' \in {state, "closed"}
      /\ state = "connected" /\ (queue = 0 \/ ~room) => queue' = 0 \/ ~room'
  BY <1>1, AppSendsSound DEF Inv, AppReacts
<1>3. TypeOK' BY <1>1, <1>2 DEF Inv, TypeOK
<1>4. NothingLeft'
  <2> SUFFICES ASSUME state' # "closed"
               PROVE  /\ inbox = <<>> /\ ~soError
                      /\ queue' = 0 \/ ~room' \/ state = "connecting"
    BY <1>1, <1>2 DEF NothingLeft
  <2>1. /\ state \in {"connecting", "connected"}
        /\ inbox = <<>> /\ ~soError
        /\ queue = 0 \/ ~room \/ state = "connecting"
    BY <1>1 DEF Inv, TypeOK, NothingLeft
  <2>2. CASE state = "connecting" BY <2>1, <2>2
  <2>3. CASE state = "connected" BY <1>2, <2>1, <2>3, Zenon
  <2>4. QED BY <2>1, <2>2, <2>3
<1>5. UpFirst' BY <1>1, <1>2 DEF Inv, UpFirst
<1>6. QED
  BY <1>1, <1>3, <1>4, <1>5 DEF Inv, IgnoredSound, EventsSound, DeferredKept

LEMMA ReportedSound ==
  ASSUME Inv, NEW reported \in Reported
  PROVE  /\ reported \subseteq ALL
         /\ state # "closed" =>
              /\ inbox # <<>> \/ soError => "read" \in reported
              /\ "write" \in reported <=> room
BY EventsAssumption DEF Reported, ALL

LEMMA AskInv == ASSUME Inv, Ask PROVE Inv'
<1>1. PICK reported \in Reported :
        /\ events' = reported \ ignored
        /\ pc' = IF events' = {} THEN "idle" ELSE "error"
  BY DEF Ask, Unignored, NONE
<1>2. /\ pc # "idle" /\ missed' = FALSE
      /\ UNCHANGED <<state, queue, inbox, room, soError, came, ignored, dropped>>
  BY DEF Ask, transport, socket
<1>3. TypeOK' BY <1>1, <1>2, ReportedSound DEF Inv, TypeOK
<1>4. IgnoredSound' BY <1>2 DEF Inv, IgnoredSound
<1>5. NothingLeft'
  <2> SUFFICES ASSUME pc' = "idle", state # "closed"
               PROVE  inbox = <<>> /\ ~soError /\ (queue = 0 \/ ~room)
    BY <1>2 DEF NothingLeft
  <2>1. reported \subseteq ignored BY <1>1
  <2>2. QED BY <1>2, <2>1, ReportedSound DEF Inv, IgnoredSound
<1>6. UpFirst' /\ DeferredKept' BY <1>2 DEF Inv, UpFirst, DeferredKept
<1>7. EventsSound'
  <2> SUFFICES ASSUME state = "connecting", "write" \in events'
               PROVE  room /\ "read" \in events'
    BY <1>1, <1>2 DEF EventsSound
  <2>1. room BY <1>1, ReportedSound
  <2>2. inbox # <<>> BY <2>1 DEF Inv, UpFirst
  <2>3. "read" \in reported /\ "read" \notin ignored
    BY <1>2, <2>2, ReportedSound DEF Inv, IgnoredSound
  <2>4. QED BY <1>1, <2>1, <2>3
<1>8. QED BY <1>3, <1>4, <1>5, <1>6, <1>7 DEF Inv

LEMMA ErrorEventInv == ASSUME Inv, ErrorEvent PROVE Inv'
<1>1. /\ pc = "error" /\ pc' = "read"
      /\ UNCHANGED <<state, queue, inbox, room, soError, came, events, missed, dropped>>
      /\ ignored' \subseteq ignored \cup ALL
      /\ state # "closed" => ignored' = ignored
  BY DEF ErrorEvent, After, transport, socket, history, AsBool, NONE, ALL
<1>2. TypeOK' BY <1>1 DEF Inv, TypeOK
<1>3. QED
  BY <1>1, <1>2
  DEF Inv, IgnoredSound, NothingLeft, UpFirst, EventsSound, DeferredKept

(* What a read event comes to, whichever way it goes.                       *)
LEMMA ReadEventSound ==
  ASSUME Inv, ReadEvent \/ NoBuffer
  PROVE  /\ pc = "read" /\ pc' = "write" /\ events' = events
         /\ TypeOK' /\ DeferredKept' /\ UpFirst'
         /\ IgnoredSound'
         /\ state' = "connecting" =>
              state = "connecting" /\ ("read" \in events /\ room => missed')
<1>1. pc = "read" /\ pc' = "write" /\ UNCHANGED <<came, events>>
  BY DEF ReadEvent, NoBuffer, After
<1>2. CASE /\ UNCHANGED <<state, queue, inbox, room, soError, dropped>>
           /\ \/ UNCHANGED <<ignored, missed>> /\ "read" \notin events
              \/ ignored' = ALL /\ UNCHANGED missed /\ state = "closed"
              \/ UNCHANGED ignored /\ missed' = TRUE
  BY <1>1, <1>2 DEF Inv, TypeOK, IgnoredSound, UpFirst, DeferredKept
<1>3. CASE Recvv
  <2>1. CASE /\ soError' = FALSE /\ missed' = TRUE
             /\ UNCHANGED <<state, queue, inbox, room, dropped, ignored>>
    BY <1>1, <2>1 DEF Inv, TypeOK, IgnoredSound, UpFirst, DeferredKept
  <2>2. CASE /\ ~soError /\ inbox = <<>>
             /\ ignored' = ignored \cup {"read"}
             /\ UNCHANGED <<state, queue, inbox, room, soError, missed, dropped>>
    BY <1>1, <2>2 DEF Inv, TypeOK, IgnoredSound, UpFirst, DeferredKept, ALL
  <2>3. CASE /\ ~soError /\ inbox # <<>>
             /\ inbox' = Tail(inbox)
             /\ Handle(Head(inbox))
             /\ UNCHANGED <<soError, ignored, missed>>
    <3>1. inbox \in Seq(Items) /\ Head(inbox) \in Items /\ Head(inbox) = inbox[1]
      BY <2>3 DEF Inv, TypeOK
    <3>2. /\ queue' \in 0 .. MaxQueue
          /\ room' \in BOOLEAN
          /\ room' => room
          /\ state' \in {"connecting", "connected", "closed"}
          /\ state = "closed" => state' = "closed"
          /\ state' # "closed" /\ (queue = 0 \/ ~room) => queue' = 0 \/ ~room'
          /\ state' = "connecting" => state = "connecting" /\ inbox[1] # "up"
          /\ dropped' = dropped
      BY <2>3, <3>1, HandleSound DEF Inv, UpFirst
    <3>3. state' = "connecting" => ~room
      BY <3>2 DEF Inv, UpFirst
    <3>4. "read" \in ignored => state = "closed"
      BY <1>1, <2>3 DEF Inv, IgnoredSound
    <3>5. TypeOK' BY <1>1, <2>3, <3>1, <3>2 DEF Inv, TypeOK
    <3>6. IgnoredSound' BY <1>1, <2>3, <3>2, <3>4 DEF Inv, IgnoredSound
    <3>7. UpFirst' /\ DeferredKept'
      BY <3>2, <3>3 DEF Inv, UpFirst, DeferredKept
    <3>8. QED BY <1>1, <3>2, <3>3, <3>5, <3>6, <3>7
  <2>4. QED
    BY <1>3, <2>1, <2>2, <2>3
    DEF Recvv, IgnoredAfter, NONE, transport, socket
<1>4. QED
  BY <1>2, <1>3
  DEF ReadEvent, NoBuffer, Detached, transport, socket, history

LEMMA ReadInv == ASSUME Inv, ReadEvent \/ NoBuffer PROVE Inv'
<1>1. /\ pc = "read" /\ pc' = "write" /\ events' = events
      /\ TypeOK' /\ DeferredKept' /\ UpFirst'
      /\ IgnoredSound'
      /\ state' = "connecting" =>
           state = "connecting" /\ ("read" \in events /\ room => missed')
  BY ReadEventSound
<1>2. EventsSound' BY <1>1 DEF Inv, EventsSound
<1>3. NothingLeft' BY <1>1 DEF NothingLeft
<1>4. QED BY <1>1, <1>2, <1>3 DEF Inv

LEMMA WriteEventInv == ASSUME Inv, WriteEvent PROVE Inv'
<1>1. /\ pc = "write" /\ pc' = "ask"
      /\ UNCHANGED <<state, inbox, soError, came, events, missed>>
  BY DEF WriteEvent, After
<1>2. CASE /\ UNCHANGED <<queue, room, dropped>>
           /\ ignored' = ignored \/ (ignored' = ALL /\ state = "closed")
  <2>1. TypeOK' BY <1>1, <1>2 DEF Inv, TypeOK
  <2>2. QED
    BY <1>1, <1>2, <2>1
    DEF Inv, IgnoredSound, NothingLeft, UpFirst, EventsSound, DeferredKept
<1>3. CASE /\ "write" \in events /\ state # "closed"
           /\ ignored' = ignored \cup {"write"}
           /\ Flush
  <2>1. /\ queue' \in 0 .. MaxQueue
        /\ room' \in BOOLEAN
        /\ dropped' \in BOOLEAN
        /\ room' => room
        /\ queue' = 0 \/ ~room'
        /\ state = "connected" => dropped' = dropped
        /\ state # "connected" =>
              room' = room /\ (dropped' => dropped \/ ~missed)
    BY <1>3, FlushSound DEF Inv
  <2>2. TypeOK' BY <1>1, <1>3, <2>1 DEF Inv, TypeOK, ALL
  <2>3. DeferredKept'
    BY <1>1, <1>3, <2>1 DEF Inv, DeferredKept, EventsSound, TypeOK
  <2>4. QED
    BY <1>1, <1>3, <2>1, <2>2, <2>3
    DEF Inv, IgnoredSound, NothingLeft, UpFirst, EventsSound
<1>4. QED BY <1>2, <1>3 DEF WriteEvent, Detached

(***************************************************************************)
(* The theorems                                                            *)
(***************************************************************************)
LEMMA InvCorrect == Spec => []Inv
<1>1. Init => Inv
  <2> SUFFICES ASSUME Init PROVE Inv OBVIOUS
  <2>1. /\ 0 \in 0 .. MaxItems
        /\ <<>> \in Seq(Items)
        /\ {} \in SUBSET ALL
    BY BoundsAssumption
  <2>2. TypeOK BY <2>1 DEF Init, TypeOK, NONE
  <2>3. QED
    BY <2>2
    DEF Init, Inv, IgnoredSound, NothingLeft, UpFirst, EventsSound, DeferredKept
<1>2. Inv /\ [Next]_vars => Inv'
  <2> SUFFICES ASSUME Inv, [Next]_vars PROVE Inv' OBVIOUS
  <2>1. CASE UNCHANGED vars
    BY <2>1
    DEF vars, transport, socket, loop, history, Inv, TypeOK, IgnoredSound,
        NothingLeft, UpFirst, EventsSound, DeferredKept
  <2>2. CASE Loop
    BY <2>2, AskInv, ErrorEventInv, ReadInv, WriteEventInv DEF Loop
  <2>3. QED
    BY <2>1, <2>2, ArrivesInv, WritableInv, ErrorInv, AppActsInv DEF Next
<1>3. QED BY <1>1, <1>2, PTL DEF Spec

(* The masks hold events only, the queue stays within its bound: for any    *)
(* bounds and whatever is reported of a socket that has been closed.        *)
THEOREM TypeCorrect == Spec => []TypeOK
BY InvCorrect, PTL DEF Inv

(* Whatever comes, an upcall returns only when everything has been read and *)
(* the deferred messages wait for room, although it ignores events.         *)
THEOREM NothingLeftCorrect == Spec => []NothingLeft
BY InvCorrect, PTL DEF Inv

(* The deferred messages are not dropped before the connection is up unless *)
(* a read event has failed in the same round.                               *)
THEOREM DeferredCorrect == Spec => []DeferredKept
BY InvCorrect, PTL DEF Inv
=============================================================================
