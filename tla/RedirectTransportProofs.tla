----------------------- MODULE RedirectTransportProofs -----------------------
(***************************************************************************)
(* Theorems about RedirectTransport, for any number of transports and      *)
(* descriptors and any nesting of callbacks.                               *)
(***************************************************************************)
EXTENDS RedirectTransport, SequenceTheorems, TLAPS

Dying(t) == phase[t] \in {"failing", "dropped"}

(* What a callback that runs says of its transport.                         *)
FrameSound(f) ==
  /\ phase[f.t] # "none"
  /\ f.at \in {"detach", "closed", "destroyed"} => detached[f.t]
  /\ f.at = "destroyed" => phase[f.t] = "dropped"

(* A transport that is destroyed runs one callback at a time.               *)
StackSound ==
  /\ \A i \in 1 .. Len(stack) : FrameSound(stack[i])
  /\ \A i, j \in 1 .. Len(stack) :
       Dying(stack[i].t) /\ stack[i].t = stack[j].t => i = j

(* Whatever is closed or destroyed has been detached first; in between the  *)
(* detach handler runs.                                                     *)
DetachedFirst ==
  \A t \in Transports :
    /\ Dying(t) => detached[t]
    /\ phase[t] # "none" /\ state[t] = "closed" => detached[t]
    /\ phase[t] = "held" /\ detached[t] /\ state[t] # "closed" => In("detach", t)

SocketOwned ==
  \A t \in Transports :
    phase[t] = "held" /\ ~detached[t] =>
      socket[t] \in Descriptors /\ owner[socket[t]] = t

Base == StackSound /\ DetachedFirst
Sockets == SocketOwned /\ NoSocketLeft /\ ListensWhileOpen /\ OwnDescriptorsOnly

(***************************************************************************)
(* The call stack                                                          *)
(***************************************************************************)
LEMMA FrameType ==
  ASSUME NEW at \in Callbacks, NEW t \in Transports
  PROVE  [at |-> at, t |-> t] \in Frames
BY DEF Frames

LEMMA StackType == TypeOK => stack \in Seq(Frames)
BY DEF TypeOK

LEMMA TopType ==
  ASSUME stack \in Seq(Frames), stack # <<>>
  PROVE  /\ Len(stack) \in Nat \ {0}
         /\ Len(stack) \in 1 .. Len(stack)
         /\ Top \in Frames
         /\ Top.t \in Transports
         /\ Top.at \in Callbacks
<1>1. Len(stack) \in Nat \ {0} BY EmptySeq
<1>2. Top \in Frames BY <1>1 DEF Top
<1>3. QED BY <1>1, <1>2 DEF Frames

LEMMA ReturnType ==
  ASSUME NEW s \in Seq(Frames), s # <<>>
  PROVE  /\ SubSeq(s, 1, Len(s) - 1) \in Seq(Frames)
         /\ Len(SubSeq(s, 1, Len(s) - 1)) = Len(s) - 1
         /\ \A i \in 1 .. Len(s) - 1 : SubSeq(s, 1, Len(s) - 1)[i] = s[i]
OBVIOUS

LEMMA OnStack ==
  ASSUME stack \in Seq(Frames), NEW i \in 1 .. Len(stack)
  PROVE  /\ stack[i] \in Frames
         /\ stack[i].t \in Transports
         /\ Busy(stack[i].t)
<1>1. stack[i] \in Frames OBVIOUS
<1>2. QED BY <1>1 DEF Frames, Busy

(* A step leaves what the frames of a transport say of it.                  *)
Kept(u) == phase'[u] = phase[u] /\ (detached[u] => detached'[u])

FrameSoundNext(f) ==
  /\ phase'[f.t] # "none"
  /\ f.at \in {"detach", "closed", "destroyed"} => detached'[f.t]
  /\ f.at = "destroyed" => phase'[f.t] = "dropped"

DyingNext(t) == phase'[t] \in {"failing", "dropped"}

LEMMA KeptSound ==
  ASSUME NEW f, FrameSound(f), Kept(f.t)
  PROVE  FrameSoundNext(f)
BY DEF FrameSound, FrameSoundNext, Kept

LEMMA CallSound ==
  ASSUME TypeOK, StackSound, NEW t \in Transports, NEW at \in Callbacks,
         stack' = Append(stack, [at |-> at, t |-> t]),
         FrameSoundNext([at |-> at, t |-> t]),
         \A u \in Transports : Busy(u) => Kept(u),
         ~Busy(t) \/ ~DyingNext(t)
  PROVE  /\ stack' \in Seq(Frames)
         /\ StackSound'
         /\ In(at, t)'
         /\ \A u \in Transports : In("detach", u) => In("detach", u)'
<1> DEFINE f == [at |-> at, t |-> t]
           n == Len(stack)
<1>0. stack \in Seq(Frames) BY StackType
<1>1. stack \in Seq(Frames) /\ f \in Frames /\ f.t = t /\ n \in Nat
  BY <1>0, FrameType
<1>2. /\ stack' \in Seq(Frames)
      /\ Len(stack') = n + 1
      /\ \A i \in 1 .. n : stack'[i] = stack[i]
      /\ stack'[n + 1] = f
  BY <1>1
<1>3. ASSUME NEW i \in 1 .. n + 1
      PROVE  FrameSoundNext(stack'[i])
  <2>1. CASE i \in 1 .. n
    BY <1>1, <1>2, <2>1, OnStack, KeptSound DEF StackSound
  <2>2. CASE i = n + 1 BY <1>2, <2>2
  <2>3. QED BY <1>1, <2>1, <2>2
<1>4. ASSUME NEW i \in 1 .. n + 1, NEW j \in 1 .. n + 1,
             DyingNext(stack'[i].t), stack'[i].t = stack'[j].t
      PROVE  i = j
  <2>1. CASE i \in 1 .. n /\ j \in 1 .. n
    <3>1. stack[i].t \in Transports /\ Busy(stack[i].t) BY <1>1, <2>1, OnStack
    <3>2. Kept(stack[i].t) BY <3>1
    <3>3. Dying(stack[i].t) BY <1>2, <1>4, <2>1, <3>2 DEF Dying, DyingNext, Kept
    <3>4. QED BY <1>2, <1>4, <2>1, <3>3 DEF StackSound
  <2>2. CASE i = n + 1 \/ j = n + 1
    <3>1. stack'[i].t = t /\ stack'[j].t = t BY <1>1, <1>2, <1>4, <2>2
    <3>2. ~Busy(t) BY <1>4, <3>1
    <3>3. i \notin 1 .. n /\ j \notin 1 .. n BY <1>2, <3>1, <3>2 DEF Busy
    <3>4. QED BY <1>1, <3>3
  <2>3. QED BY <1>1, <2>1, <2>2
<1>5. In(at, t)' BY <1>1, <1>2 DEF In
<1>6. \A u \in Transports : In("detach", u) => In("detach", u)'
  BY <1>1, <1>2 DEF In
<1>7. QED BY <1>2, <1>3, <1>4, <1>5, <1>6 DEF StackSound, FrameSound, FrameSoundNext, Dying, DyingNext

LEMMA CallNextSound ==
  ASSUME TypeOK, StackSound, stack # <<>>, NEW at \in Callbacks,
         stack' = [stack EXCEPT ![Len(stack)] = [at |-> at, t |-> Top.t]],
         FrameSoundNext([at |-> at, t |-> Top.t]),
         \A u \in Transports : Kept(u)
  PROVE  /\ stack' \in Seq(Frames)
         /\ StackSound'
         /\ \A u \in Transports :
              In("detach", u) /\ (Top.at = "detach" => u # Top.t) =>
                In("detach", u)'
<1> DEFINE f == [at |-> at, t |-> Top.t]
           n == Len(stack)
<1>0. stack \in Seq(Frames) BY StackType
<1>1. /\ stack \in Seq(Frames) /\ n \in 1 .. n /\ n \in Nat
      /\ f \in Frames /\ f.t = Top.t /\ Top = stack[n]
  <2>1. f \in Frames BY <1>0, TopType, FrameType
  <2>2. n \in 1 .. n /\ n \in Nat BY <1>0, TopType
  <2>3. QED BY <1>0, <2>1, <2>2 DEF Top
<1>2. /\ stack' \in Seq(Frames)
      /\ Len(stack') = n
      /\ stack'[n] = f
      /\ \A i \in 1 .. n : i # n => stack'[i] = stack[i]
  BY <1>1
<1>3. \A i \in 1 .. n : stack'[i].t = stack[i].t BY <1>1, <1>2
<1>4. ASSUME NEW i \in 1 .. n
      PROVE  FrameSoundNext(stack'[i])
  <2>1. CASE i = n BY <1>2, <2>1
  <2>2. CASE i # n
    BY <1>1, <1>2, <2>2, OnStack, KeptSound DEF StackSound
  <2>3. QED BY <2>1, <2>2
<1>5. ASSUME NEW i \in 1 .. n, NEW j \in 1 .. n,
             DyingNext(stack'[i].t), stack'[i].t = stack'[j].t
      PROVE  i = j
  <2>1. stack[i].t \in Transports BY <1>1, OnStack
  <2>2. Dying(stack[i].t) BY <1>3, <1>5, <2>1 DEF Dying, DyingNext, Kept
  <2>3. QED BY <1>3, <1>5, <2>2 DEF StackSound
<1>6. ASSUME NEW u \in Transports, In("detach", u),
             Top.at = "detach" => u # Top.t
      PROVE  In("detach", u)'
  <2>1. PICK i \in 1 .. n : stack[i] = [at |-> "detach", t |-> u]
    BY <1>6 DEF In
  <2>2. i # n BY <1>1, <1>6, <2>1
  <2>3. QED BY <1>2, <2>1, <2>2 DEF In
<1>7. QED BY <1>2, <1>4, <1>5, <1>6 DEF StackSound, FrameSound, FrameSoundNext, Dying, DyingNext

LEMMA ReturnSound ==
  ASSUME TypeOK, StackSound, stack # <<>>,
         stack' = SubSeq(stack, 1, Len(stack) - 1),
         \A u \in Transports : u # Top.t => Kept(u),
         Kept(Top.t) \/ Dying(Top.t)
  PROVE  /\ stack' \in Seq(Frames)
         /\ StackSound'
         /\ \A u \in Transports :
              In("detach", u) /\ (Top.at = "detach" => u # Top.t) =>
                In("detach", u)'
<1> DEFINE n == Len(stack)
<1>0. stack \in Seq(Frames) BY StackType
<1>1. /\ stack \in Seq(Frames) /\ n \in 1 .. n /\ n \in Nat \ {0}
      /\ Top = stack[n]
  BY <1>0, TopType DEF Top
<1>2. /\ stack' \in Seq(Frames)
      /\ Len(stack') = n - 1
      /\ \A i \in 1 .. n - 1 : stack'[i] = stack[i]
  BY <1>0, ReturnType
<1>3. ASSUME NEW i \in 1 .. n - 1
      PROVE  Kept(stack[i].t) /\ i \in 1 .. n /\ i # n
  <2>1. i \in 1 .. n /\ i # n BY <1>1
  <2>2. stack[i].t \in Transports BY <1>1, <2>1, OnStack
  <2>3. CASE stack[i].t = Top.t
    BY <1>1, <2>1, <2>3 DEF StackSound
  <2>4. CASE stack[i].t # Top.t BY <2>2, <2>4
  <2>5. QED BY <2>1, <2>3, <2>4
<1>4. \A i \in 1 .. n - 1 : FrameSoundNext(stack'[i])
  BY <1>2, <1>3, KeptSound DEF StackSound
<1>5. ASSUME NEW i \in 1 .. n - 1, NEW j \in 1 .. n - 1,
             DyingNext(stack'[i].t), stack'[i].t = stack'[j].t
      PROVE  i = j
  <2>1. Dying(stack[i].t) BY <1>2, <1>3, <1>5 DEF Dying, DyingNext, Kept
  <2>2. i \in 1 .. n /\ j \in 1 .. n BY <1>3
  <2>3. QED BY <1>2, <1>5, <2>1, <2>2 DEF StackSound
<1>6. ASSUME NEW u \in Transports, In("detach", u),
             Top.at = "detach" => u # Top.t
      PROVE  In("detach", u)'
  <2>1. PICK i \in 1 .. n : stack[i] = [at |-> "detach", t |-> u]
    BY <1>6 DEF In
  <2>2. i # n BY <1>1, <1>6, <2>1
  <2>3. i \in 1 .. n - 1 BY <1>1, <2>2
  <2>4. QED BY <1>2, <2>1, <2>3 DEF In
<1>7. QED BY <1>2, <1>4, <1>5, <1>6 DEF StackSound, FrameSound, FrameSoundNext, Dying, DyingNext

LEMMA SameStackSound ==
  ASSUME TypeOK, StackSound, stack' = stack,
         \A u \in Transports : Busy(u) => Kept(u)
  PROVE  /\ stack' \in Seq(Frames)
         /\ StackSound'
         /\ \A u \in Transports : In("detach", u) => In("detach", u)'
<1>1. stack \in Seq(Frames) BY DEF TypeOK
<1>2. \A i \in 1 .. Len(stack) : Kept(stack[i].t) BY <1>1, OnStack
<1>3. \A i \in 1 .. Len(stack) : FrameSoundNext(stack[i])
  BY <1>2, KeptSound DEF StackSound
<1>4. \A i \in 1 .. Len(stack) : DyingNext(stack[i].t) => Dying(stack[i].t)
  BY <1>2 DEF Dying, DyingNext, Kept
<1>5. QED BY <1>1, <1>3, <1>4 DEF StackSound, FrameSound, FrameSoundNext, Dying, DyingNext, In

LEMMA BusyAllocated ==
  ASSUME TypeOK, StackSound, NEW t \in Transports, Busy(t)
  PROVE  phase[t] # "none"
BY DEF StackSound, Busy, FrameSound

(***************************************************************************)
(* Types                                                                   *)
(***************************************************************************)
LEMMA PortType == ASSUME NEW p \in AskedPorts PROVE LocalPort(p) \in 1 .. MaxPort
<1>1. DefaultPort \in 1 .. MaxPort BY DEF DefaultPort, MaxPort
<1>2. p \in 0 .. MaxPort BY PortsAssumption
<1>3. p > 0 => p \in 1 .. MaxPort BY <1>2
<1>4. QED BY <1>1, <1>3 DEF LocalPort

LEMMA CallType ==
  ASSUME TypeOK, NEW at \in Callbacks, NEW t \in Transports, Call(at, t)
  PROVE  stack' \in Seq(Frames)
BY StackType, FrameType DEF Call

LEMMA ClosingType ==
  ASSUME TypeOK, NEW t \in Transports, Closing(t)
  PROVE  /\ owner' \in [Descriptors -> Transports \cup {App, Nobody}]
         /\ listener' \in [Descriptors -> Transports \cup {Nobody}]
         /\ foreign' \in SUBSET Transports
         /\ detached' = [detached EXCEPT ![t] = TRUE]
         /\ stack' = Append(stack, [at |-> "detach", t |-> t])
         /\ stack' \in Seq(Frames)
<1>1. stack' \in Seq(Frames) BY CallType DEF Closing, Callbacks
<1>2. QED BY <1>1 DEF TypeOK, Closing, SocketClosed, FdClose, Call

LEMMA CreateType ==
  ASSUME TypeOK, NEW t \in Transports, NEW fault \in Faults,
         NEW d \in Descriptors \cup {NoSocket}, Create(t, fault, d)
  PROVE  TypeOK'
<1>1. port' \in [Transports -> 1 .. MaxPort]
  <2>1. PICK p \in AskedPorts : port' = [port EXCEPT ![t] = LocalPort(p)]
    BY DEF Create
  <2>2. QED BY <2>1, PortType DEF TypeOK
<1>2. stack' \in Seq(Frames)
  BY StackType, CallType DEF Create, Callbacks
<1>3. /\ owner' \in [Descriptors -> Transports \cup {App, Nobody}]
      /\ listener' \in [Descriptors -> Transports \cup {Nobody}]
      /\ foreign' \in SUBSET Transports
  <2> DEFINE opened == IF fault \in {"blocking", "none"}
                       THEN [owner EXCEPT ![d] = t] ELSE owner
  <2>1. opened \in [Descriptors -> Transports \cup {App, Nobody}] BY DEF TypeOK
  <2>2. \/ owner' = opened /\ UNCHANGED <<listener, foreign>>
        \/ d # NoSocket /\ SocketClosed(t, d, opened)
        \/ UNCHANGED <<owner, listener, foreign>>
    BY DEF Create
  <2> HIDE DEF opened
  <2>3. CASE owner' = opened /\ UNCHANGED <<listener, foreign>>
    BY <2>1, <2>3 DEF TypeOK
  <2>4. CASE d # NoSocket /\ SocketClosed(t, d, opened)
    <3>1. owner' = [opened EXCEPT ![d] = Nobody] /\ listener' = [listener EXCEPT ![d] = Nobody]
      BY <2>4 DEF SocketClosed, FdClose
    <3>2. foreign' = foreign \/ foreign' = foreign \cup {t}
      BY <2>4 DEF SocketClosed
    <3>3. owner' \in [Descriptors -> Transports \cup {App, Nobody}]
      BY <2>1, <3>1
    <3>4. listener' \in [Descriptors -> Transports \cup {Nobody}]
      BY <3>1 DEF TypeOK
    <3>5. foreign' \in SUBSET Transports BY <3>2 DEF TypeOK
    <3>6. QED BY <3>3, <3>4, <3>5
  <2>5. CASE UNCHANGED <<owner, listener, foreign>> BY <2>5 DEF TypeOK
  <2>6. QED BY <2>2, <2>3, <2>4, <2>5
<1>4. /\ phase' \in [Transports -> Phases]
      /\ state' \in [Transports -> States]
      /\ detached' \in [Transports -> BOOLEAN]
      /\ socket' \in [Transports -> Descriptors \cup {NoSocket}]
  BY DEF Create, TypeOK, Phases, States
<1>5. QED BY <1>1, <1>2, <1>3, <1>4 DEF TypeOK

LEMMA ReturnTypeOK ==
  ASSUME TypeOK, Return
  PROVE  TypeOK'
<1> DEFINE t == Top.t
<1>1. stack # <<>> /\ stack \in Seq(Frames) BY StackType DEF Return
<1>2. t \in Transports BY <1>1, TopType
<1>3. CASE Returned(t) \/ Released(t)
  <2>1. stack' \in Seq(Frames)
    BY <1>1, <1>3, ReturnType DEF Returned, Released, CallReturns
  <2>2. QED BY <1>2, <1>3, <2>1 DEF Returned, Released, TypeOK, Phases
<1>4. CASE Detached(t) \/ Destroyed(t)
  <2>1. PICK at \in Callbacks :
          stack' = [stack EXCEPT ![Len(stack)] = [at |-> at, t |-> t]]
    BY <1>4 DEF Detached, Destroyed, CallNext, Callbacks
  <2>2. [at |-> at, t |-> t] \in Frames BY <1>2, FrameType
  <2>3. stack' \in Seq(Frames) BY <1>1, <2>1, <2>2
  <2>4. QED BY <1>2, <1>4, <2>3 DEF Detached, Destroyed, TypeOK, States
<1>5. QED BY <1>3, <1>4 DEF Return

LEMMA NextType == TypeOK /\ [Next]_vars => TypeOK'
<1> SUFFICES ASSUME TypeOK, [Next]_vars PROVE TypeOK' OBVIOUS
<1>1. ASSUME NEW d \in Descriptors, AppOpens(d) \/ AppCloses(d)
      PROVE  TypeOK'
  BY <1>1 DEF AppOpens, AppCloses, TypeOK
<1>2. ASSUME NEW d \in Descriptors, RedirectFromRaw(d)
      PROVE  TypeOK'
  <2>1. listener[d] \in Transports BY <1>2 DEF RedirectFromRaw, TypeOK
  <2>2. stack' \in Seq(Frames)
    BY <1>2, <2>1, CallType DEF RedirectFromRaw, Callbacks
  <2>3. QED BY <1>2, <2>1, <2>2 DEF RedirectFromRaw, Uses, TypeOK
<1>3. ASSUME NEW t \in Transports, NEW fault \in Faults,
             NEW d \in Descriptors \cup {NoSocket}, Create(t, fault, d)
      PROVE  TypeOK'
  BY <1>3, CreateType
<1>4. ASSUME NEW t \in Transports, Start(t)
      PROVE  TypeOK'
  <2>1. stack' \in Seq(Frames) BY <1>4, CallType DEF Start, Callbacks
  <2>2. QED BY <1>4, <2>1 DEF Start, Uses, TypeOK, States
<1>5. ASSUME NEW t \in Transports, StartFails(t) \/ FeedInbound(t)
      PROVE  TypeOK'
  BY <1>5 DEF StartFails, FeedInbound, FdClose, Uses, TypeOK
<1>6. ASSUME NEW t \in Transports, Stop(t)
      PROVE  TypeOK'
  BY <1>6, ClosingType DEF Stop, TypeOK
<1>7. ASSUME NEW t \in Transports, Drop(t)
      PROVE  TypeOK'
  <2>1. phase' \in [Transports -> Phases] BY <1>7 DEF Drop, TypeOK, Phases
  <2>2. CASE Stoppable(t) BY <1>7, <2>1, <2>2, ClosingType DEF Drop, TypeOK
  <2>3. CASE ~Stoppable(t)
    <3>1. stack' \in Seq(Frames) BY <1>7, <2>3, CallType DEF Drop, Callbacks
    <3>2. QED BY <1>7, <2>1, <2>3, <3>1 DEF Drop, TypeOK
  <2>4. QED BY <2>2, <2>3
<1>8. CASE Return BY <1>8, ReturnTypeOK
<1>9. CASE UNCHANGED vars BY <1>9 DEF vars, TypeOK
<1>10. QED BY <1>1, <1>2, <1>3, <1>4, <1>5, <1>6, <1>7, <1>8, <1>9 DEF Next

(* Every variable keeps its type, for any number of transports and          *)
(* descriptors and whatever the application does in its callbacks.          *)
THEOREM TypeCorrect == Spec => []TypeOK
<1>1. Init => TypeOK
  <2> SUFFICES ASSUME Init PROVE TypeOK OBVIOUS
  <2>1. DefaultPort \in 1 .. MaxPort BY DEF DefaultPort, MaxPort
  <2>2. stack \in Seq(Frames) BY DEF Init
  <2>3. QED BY <2>1, <2>2, DescriptorsAssumption
         DEF Init, TypeOK, Phases, States
<1>2. QED BY <1>1, NextType, PTL DEF Spec

(***************************************************************************)
(* The callbacks that run and the detached flag: one lemma per action      *)
(***************************************************************************)
(* The calls that do not touch the callbacks.                               *)
LEMMA QuietBase ==
  ASSUME TypeOK, Base, UNCHANGED <<phase, state, detached, stack>>
  PROVE  Base'
<1>1. \A u \in Transports : Kept(u) BY DEF Kept
<1>2. StackSound' /\ \A u \in Transports : In("detach", u) => In("detach", u)'
  BY <1>1, SameStackSound DEF Base
<1>3. QED BY <1>2 DEF Base, DetachedFirst, Dying

LEMMA CreateBase ==
  ASSUME TypeOK, Base, NEW t \in Transports, NEW fault \in Faults,
         NEW d \in Descriptors \cup {NoSocket}, Create(t, fault, d)
  PROVE  Base'
<1> USE DEF Base
<1>1. ~Busy(t) BY BusyAllocated DEF Create
<1>2. PICK p \in {"held", "failing"} :
        /\ phase' = [phase EXCEPT ![t] = p]
        /\ p = "held" <=> fault = "none"
        /\ detached' = [detached EXCEPT ![t] = (p = "failing")]
  BY DEF Create
<1>3. /\ phase'[t] = p /\ detached'[t] = (p = "failing")
      /\ \A u \in Transports \ {t} : Kept(u) /\ detached'[u] = detached[u]
  BY <1>2 DEF TypeOK, Kept
<1>4. /\ StackSound'
      /\ \A u \in Transports : In("detach", u) => In("detach", u)'
  <2>1. CASE p = "held"
    <3>1. stack' = stack BY <1>2, <2>1 DEF Create
    <3>2. QED BY <1>1, <1>3, <3>1, SameStackSound
  <2>2. CASE p = "failing"
    <3>1. stack' = Append(stack, [at |-> "detach", t |-> t])
      BY <1>2, <2>2 DEF Create, Call
    <3>2. FrameSoundNext([at |-> "detach", t |-> t])
      BY <1>3, <2>2 DEF FrameSoundNext
    <3>3. QED BY <1>1, <1>3, <3>1, <3>2, CallSound DEF Callbacks
  <2>3. QED BY <2>1, <2>2
<1>5. state' = [state EXCEPT ![t] = "new"] BY DEF Create
<1>6. DetachedFirst'
  BY <1>3, <1>4, <1>5 DEF DetachedFirst, Dying, Kept, TypeOK
<1>7. QED BY <1>4, <1>6

LEMMA StartBase ==
  ASSUME TypeOK, Base, NEW t \in Transports, Start(t)
  PROVE  Base'
<1> USE DEF Base
<1>1. \A u \in Transports : Kept(u) BY DEF Start, Kept
<1>2. FrameSoundNext([at |-> "open", t |-> t]) /\ ~DyingNext(t)
  BY DEF Start, FrameSoundNext, DyingNext
<1>3. /\ StackSound'
      /\ \A u \in Transports : In("detach", u) => In("detach", u)'
  <2>1. stack' = Append(stack, [at |-> "open", t |-> t]) BY DEF Start, Call
  <2>2. QED BY <1>1, <1>2, <2>1, CallSound DEF Callbacks
<1>4. DetachedFirst' BY <1>3 DEF Start, DetachedFirst, Dying, TypeOK
<1>5. QED BY <1>3, <1>4

LEMMA StopBase ==
  ASSUME TypeOK, Base, NEW t \in Transports, Stop(t)
  PROVE  Base'
<1> USE DEF Base
<1>1. phase[t] = "held" /\ Closing(t) /\ UNCHANGED <<phase, state>>
  BY DEF Stop
<1>2. detached' = [detached EXCEPT ![t] = TRUE]
      /\ stack' = Append(stack, [at |-> "detach", t |-> t])
  BY <1>1, ClosingType
<1>3. \A u \in Transports : Kept(u) BY <1>1, <1>2 DEF Kept, TypeOK
<1>4. FrameSoundNext([at |-> "detach", t |-> t]) /\ ~DyingNext(t)
  BY <1>1, <1>2 DEF FrameSoundNext, DyingNext, TypeOK
<1>5. /\ StackSound' /\ In("detach", t)'
      /\ \A u \in Transports : In("detach", u) => In("detach", u)'
  BY <1>2, <1>3, <1>4, CallSound DEF Callbacks
<1>6. DetachedFirst' BY <1>1, <1>2, <1>5 DEF DetachedFirst, Dying, TypeOK
<1>7. QED BY <1>5, <1>6

LEMMA DropBase ==
  ASSUME TypeOK, Base, NEW t \in Transports, Drop(t)
  PROVE  Base'
<1> USE DEF Base
<1>1. /\ phase[t] = "held" /\ ~Busy(t)
      /\ phase' = [phase EXCEPT ![t] = "dropped"]
      /\ UNCHANGED state
  BY DEF Drop
<1>2. PICK at \in {"detach", "destroyed"} :
        stack' = Append(stack, [at |-> at, t |-> t])
  BY ClosingType DEF Drop, Call
<1>3. detached'[t] /\ \A u \in Transports \ {t} : detached'[u] = detached[u]
  <2>1. CASE Stoppable(t) BY <2>1, ClosingType DEF Drop, TypeOK
  <2>2. CASE ~Stoppable(t)
    BY <1>1, <2>2 DEF Drop, Stoppable, DetachedFirst
  <2>3. QED BY <2>1, <2>2
<1>4. phase'[t] = "dropped" /\ \A u \in Transports \ {t} : Kept(u)
  BY <1>1, <1>3 DEF Kept, TypeOK
<1>5. FrameSoundNext([at |-> at, t |-> t]) BY <1>3, <1>4 DEF FrameSoundNext
<1>6. /\ StackSound'
      /\ \A u \in Transports : In("detach", u) => In("detach", u)'
  BY <1>1, <1>2, <1>4, <1>5, CallSound DEF Callbacks
<1>7. DetachedFirst'
  BY <1>1, <1>3, <1>4, <1>6 DEF DetachedFirst, Dying, Kept
<1>8. QED BY <1>6, <1>7

LEMMA RedirectFromRawBase ==
  ASSUME TypeOK, Base, ListensWhileOpen,
         NEW d \in Descriptors, RedirectFromRaw(d)
  PROVE  Base'
<1> USE DEF Base
<1> DEFINE t == listener[d]
<1>1. /\ t \in Transports
      /\ stack' = Append(stack, [at |-> "outbound", t |-> t])
      /\ UNCHANGED <<phase, state, detached>>
  BY DEF RedirectFromRaw, Call, TypeOK
<1>2. \A u \in Transports : Kept(u) BY <1>1 DEF Kept
<1>3. phase[t] = "held" BY DEF ListensWhileOpen, RedirectFromRaw
<1>4. FrameSoundNext([at |-> "outbound", t |-> t]) /\ ~DyingNext(t)
  BY <1>1, <1>3 DEF FrameSoundNext, DyingNext
<1>5. /\ StackSound'
      /\ \A u \in Transports : In("detach", u) => In("detach", u)'
  BY <1>1, <1>2, <1>4, CallSound DEF Callbacks
<1>6. QED BY <1>1, <1>5 DEF DetachedFirst, Dying

LEMMA ReturnBase ==
  ASSUME TypeOK, Base, Return
  PROVE  Base'
<1> USE DEF Base
<1> DEFINE t == Top.t
<1>1. stack # <<>> /\ stack \in Seq(Frames) BY StackType DEF Return
<1>2. t \in Transports BY <1>1, TopType
<1>3. FrameSound(Top) BY <1>1, TopType DEF StackSound, Top
<1>4. CASE Returned(t)
  <2>1. /\ stack' = SubSeq(stack, 1, Len(stack) - 1)
        /\ Top.at # "detach"
        /\ UNCHANGED <<phase, state, detached>>
    BY <1>4 DEF Returned, CallReturns
  <2>2. Kept(t) /\ \A u \in Transports : Kept(u) BY <2>1 DEF Kept
  <2>3. /\ StackSound'
        /\ \A u \in Transports : In("detach", u) => In("detach", u)'
    BY <1>1, <2>1, <2>2, ReturnSound
  <2>4. QED BY <2>1, <2>3 DEF DetachedFirst, Dying
<1>5. CASE Detached(t)
  <2>1. /\ stack' = [stack EXCEPT ![Len(stack)] = [at |-> "closed", t |-> t]]
        /\ Top.at = "detach"
        /\ state' = [state EXCEPT ![t] = "closed"]
        /\ UNCHANGED <<phase, detached>>
    BY <1>5 DEF Detached, CallNext
  <2>2. \A u \in Transports : Kept(u) BY <2>1 DEF Kept
  <2>3. detached[t] /\ FrameSoundNext([at |-> "closed", t |-> t])
    BY <1>3, <2>1 DEF FrameSound, FrameSoundNext
  <2>4. /\ StackSound'
        /\ \A u \in Transports \ {t} : In("detach", u) => In("detach", u)'
    BY <1>1, <2>1, <2>2, <2>3, CallNextSound DEF Callbacks
  <2>5. QED BY <1>2, <2>1, <2>3, <2>4 DEF DetachedFirst, Dying, TypeOK
<1>6. CASE Destroyed(t)
  <2>1. /\ stack' = [stack EXCEPT ![Len(stack)] = [at |-> "destroyed", t |-> t]]
        /\ Top.at = "closed" /\ phase[t] = "dropped"
        /\ UNCHANGED <<phase, state, detached>>
    BY <1>6 DEF Destroyed, Initialized, CallNext
  <2>2. \A u \in Transports : Kept(u) BY <2>1 DEF Kept
  <2>3. FrameSoundNext([at |-> "destroyed", t |-> t])
    BY <1>3, <2>1 DEF FrameSound, FrameSoundNext
  <2>4. /\ StackSound'
        /\ \A u \in Transports : In("detach", u) => In("detach", u)'
    BY <1>1, <2>1, <2>2, <2>3, CallNextSound DEF Callbacks
  <2>5. QED BY <2>1, <2>4 DEF DetachedFirst, Dying
<1>7. CASE Released(t)
  <2>1. /\ stack' = SubSeq(stack, 1, Len(stack) - 1)
        /\ phase' = [phase EXCEPT ![t] = "none"]
        /\ Top.at # "detach"
        /\ UNCHANGED <<state, detached>>
    BY <1>7 DEF Released, CallReturns
  <2>2. Dying(t)
    BY <1>2, <1>3, <1>7 DEF Released, FrameSound, Dying, TypeOK, Phases
  <2>3. \A u \in Transports : u # t => Kept(u) BY <2>1 DEF Kept, TypeOK
  <2>4. /\ StackSound'
        /\ \A u \in Transports : In("detach", u) => In("detach", u)'
    BY <1>1, <2>1, <2>2, <2>3, ReturnSound
  <2>5. QED BY <1>2, <2>1, <2>4 DEF DetachedFirst, Dying, TypeOK
<1>8. QED BY <1>4, <1>5, <1>6, <1>7 DEF Return

(***************************************************************************)
(* The sockets: one lemma per action                                       *)
(***************************************************************************)
LEMMA NoSocketClosed == NoSocket \notin Descriptors
BY DescriptorsAssumption DEF NoSocket

(* The calls that change nothing the socket invariant looks at.             *)
LEMMA SameSockets ==
  ASSUME Sockets,
         UNCHANGED <<owner, listener, phase, state, detached, socket, foreign>>
  PROVE  Sockets'
BY DEF Sockets, SocketOwned, NoSocketLeft, ListensWhileOpen, OwnDescriptorsOnly

LEMMA AppSockets ==
  ASSUME TypeOK, Sockets, NEW d \in Descriptors, AppOpens(d) \/ AppCloses(d)
  PROVE  Sockets'
<1>1. PICK a \in {App, Nobody} :
        /\ owner' = [owner EXCEPT ![d] = a]
        /\ a \notin Transports /\ owner[d] \notin Transports
        /\ UNCHANGED <<listener, phase, state, detached, socket, foreign>>
  BY OwnersAssumption DEF AppOpens, AppCloses
<1>2. \A e \in Descriptors, t \in Transports : owner'[e] = t <=> owner[e] = t
  BY <1>1 DEF TypeOK
<1>3. listener[d] = Nobody BY <1>1 DEF Sockets, ListensWhileOpen, TypeOK
<1>4. SocketOwned' BY <1>1, <1>2 DEF Sockets, SocketOwned
<1>5. NoSocketLeft' BY <1>1, <1>2 DEF Sockets, NoSocketLeft
<1>6. ListensWhileOpen'
  BY <1>1, <1>2 DEF Sockets, ListensWhileOpen, TypeOK
<1>7. QED BY <1>1, <1>4, <1>5, <1>6 DEF Sockets, OwnDescriptorsOnly

LEMMA SocketType ==
  ASSUME TypeOK, Base, Sockets, NEW t \in Transports,
         phase[t] # "none", ~detached[t]
  PROVE  phase[t] = "held" /\ socket[t] \in Descriptors /\ owner[socket[t]] = t
<1>1. phase[t] = "held" BY DEF Base, DetachedFirst, Dying, TypeOK, Phases
<1>2. QED BY <1>1 DEF Sockets, SocketOwned

(* A transport that is not detached closes its own socket and nothing else. *)
LEMMA ClosingSockets ==
  ASSUME TypeOK, Base, Sockets, NEW t \in Transports,
         phase[t] = "held", ~detached[t], Closing(t),
         UNCHANGED <<state, socket>>,
         \A u \in Transports \ {t} : phase'[u] = phase[u]
  PROVE  Sockets'
<1> DEFINE d == socket[t]
<1>1. d \in Descriptors /\ owner[d] = t BY DEF Sockets, SocketOwned
<1>2. HasSocket(t) BY <1>1, NoSocketClosed DEF HasSocket
<1>3. /\ owner' = [owner EXCEPT ![d] = Nobody]
      /\ listener' = [listener EXCEPT ![d] = Nobody]
      /\ foreign' = foreign
      /\ detached' = [detached EXCEPT ![t] = TRUE]
  BY <1>1, <1>2 DEF Closing, SocketClosed, FdClose
<1>4. /\ \A e \in Descriptors : owner'[e] = IF e = d THEN Nobody ELSE owner[e]
      /\ \A e \in Descriptors :
           listener'[e] = IF e = d THEN Nobody ELSE listener[e]
      /\ \A u \in Transports : detached'[u] = (u = t \/ detached[u])
  BY <1>1, <1>3 DEF TypeOK
<1> HIDE DEF d
<1>5. SocketOwned'
  <2> SUFFICES ASSUME NEW u \in Transports, phase'[u] = "held", ~detached'[u]
               PROVE  socket'[u] \in Descriptors /\ owner'[socket'[u]] = u
    BY DEF SocketOwned
  <2>1. u # t /\ ~detached[u] /\ phase[u] = "held" BY <1>4
  <2>2. socket[u] \in Descriptors /\ owner[socket[u]] = u
    BY <2>1 DEF Sockets, SocketOwned
  <2>3. socket[u] # d BY <1>1, <2>1, <2>2
  <2>4. QED BY <1>4, <2>2, <2>3
<1>6. NoSocketLeft'
  <2> SUFFICES ASSUME NEW e \in Descriptors, NEW u \in Transports, owner'[e] = u
               PROVE  phase'[u] = "held" /\ socket'[u] = e /\ ~detached'[u]
    BY DEF NoSocketLeft
  <2>1. e # d /\ owner[e] = u BY <1>4, OwnersAssumption
  <2>2. phase[u] = "held" /\ socket[u] = e /\ ~detached[u]
    BY <2>1 DEF Sockets, NoSocketLeft
  <2>3. u # t BY <2>1, <2>2 DEF d
  <2>4. QED BY <1>4, <2>2, <2>3
<1>7. ListensWhileOpen'
  <2>1. ASSUME NEW u \in Transports,
               phase'[u] # "none", state'[u] = "open", ~detached'[u]
        PROVE  listener'[socket'[u]] = u
    <3>1. u # t /\ ~detached[u] /\ phase[u] # "none" BY <1>4, <2>1
    <3>2. listener[socket[u]] = u
      BY <2>1, <3>1 DEF Sockets, ListensWhileOpen
    <3>3. socket[u] \in Descriptors /\ socket[u] # d
      BY <1>1, <3>1, SocketType
    <3>4. QED BY <1>4, <3>2, <3>3
  <2>2. ASSUME NEW e \in Descriptors, listener'[e] # Nobody
        PROVE  LET u == listener'[e]
               IN  /\ phase'[u] = "held" /\ state'[u] = "open" /\ ~detached'[u]
                   /\ socket'[u] = e /\ owner'[e] = u
    <3>1. e # d /\ listener'[e] = listener[e] /\ owner'[e] = owner[e]
      BY <1>4, <2>2
    <3>2. listener[e] \in Transports BY <2>2, <3>1 DEF TypeOK
    <3>3. LET u == listener[e]
          IN  /\ phase[u] = "held" /\ state[u] = "open" /\ ~detached[u]
              /\ socket[u] = e /\ owner[e] = u
      BY <2>2, <3>1 DEF Sockets, ListensWhileOpen
    <3>4. listener[e] # t BY <3>1, <3>3 DEF d
    <3>5. QED BY <1>4, <3>1, <3>2, <3>3, <3>4
  <2>3. QED BY <2>1, <2>2 DEF ListensWhileOpen
<1>8. QED BY <1>3, <1>5, <1>6, <1>7 DEF Sockets, OwnDescriptorsOnly

LEMMA CreateSockets ==
  ASSUME TypeOK, Base, Sockets, ~BufferFails,
         NEW t \in Transports, NEW fault \in Faults,
         NEW d \in Descriptors \cup {NoSocket}, Create(t, fault, d)
  PROVE  Sockets'
<1>1. /\ phase[t] = "none" /\ fault # "buffer"
      /\ state' = [state EXCEPT ![t] = "new"]
      /\ socket' = [socket EXCEPT ![t] = d]
  BY DEF Create
<1>2. \A e \in Descriptors : owner[e] # t BY <1>1 DEF Sockets, NoSocketLeft
<1>3. \A e \in Descriptors : listener[e] # t
  BY <1>1, <1>2, OwnersAssumption DEF Sockets, ListensWhileOpen
<1>4. CASE fault = "none"
  <2>1. /\ d \in Descriptors /\ owner[d] = Nobody
        /\ phase' = [phase EXCEPT ![t] = "held"]
        /\ detached' = [detached EXCEPT ![t] = FALSE]
        /\ owner' = [owner EXCEPT ![d] = t]
        /\ UNCHANGED <<listener, foreign>>
    BY <1>4 DEF Create, Opened
  <2>2. listener[d] = Nobody
    BY <2>1, OwnersAssumption DEF Sockets, ListensWhileOpen, TypeOK
  <2>3. SocketOwned'
    BY <1>1, <2>1, OwnersAssumption DEF Sockets, SocketOwned, TypeOK
  <2>4. NoSocketLeft'
    BY <1>1, <1>2, <2>1 DEF Sockets, NoSocketLeft, TypeOK
  <2>5. ListensWhileOpen'
    BY <1>1, <1>3, <2>1, <2>2 DEF Sockets, ListensWhileOpen, TypeOK
  <2>6. QED BY <2>1, <2>3, <2>4, <2>5 DEF Sockets, OwnDescriptorsOnly
<1>5. CASE fault # "none"
  <2>1. /\ phase' = [phase EXCEPT ![t] = "failing"]
        /\ detached' = [detached EXCEPT ![t] = TRUE]
    BY <1>5 DEF Create
  <2>2. owner' = owner /\ listener' = listener /\ foreign' = foreign
    <3>1. CASE fault = "socket"
      <4>1. d = NoSocket BY <3>1 DEF Create, Opened
      <4>2. QED BY <3>1, <4>1 DEF Create
    <3>2. CASE fault = "blocking"
      <4>1. d \in Descriptors /\ owner[d] = Nobody /\ d # NoSocket
        BY <3>2, NoSocketClosed DEF Create, Opened
      <4>2. listener[d] = Nobody
        BY <4>1, OwnersAssumption DEF Sockets, ListensWhileOpen, TypeOK
      <4>3. SocketClosed(t, d, [owner EXCEPT ![d] = t])
        BY <3>2, <4>1 DEF Create
      <4>4. [owner EXCEPT ![d] = t][d] = t BY <4>1 DEF TypeOK
      <4>5. QED BY <4>1, <4>2, <4>3, <4>4 DEF SocketClosed, FdClose, TypeOK
    <3>3. QED BY <1>1, <1>5, <3>1, <3>2 DEF Faults
  <2>3. SocketOwned' BY <1>1, <2>1, <2>2 DEF Sockets, SocketOwned, TypeOK
  <2>4. NoSocketLeft'
    BY <1>1, <1>2, <2>1, <2>2 DEF Sockets, NoSocketLeft, TypeOK
  <2>5. ListensWhileOpen'
    BY <1>1, <1>3, <2>1, <2>2 DEF Sockets, ListensWhileOpen, TypeOK
  <2>6. QED BY <2>2, <2>3, <2>4, <2>5 DEF Sockets, OwnDescriptorsOnly
<1>6. QED BY <1>4, <1>5

(* A transport that is started has its socket still, unless it is started   *)
(* in its own detach handler.                                               *)
LEMMA StartSockets ==
  ASSUME TypeOK, Base, Sockets, ~StartInDetach,
         NEW t \in Transports, Start(t) \/ StartFails(t)
  PROVE  Sockets'
<1> DEFINE d == socket[t]
<1>1. phase[t] = "held" /\ state[t] = "new" /\ ~In("detach", t)
  BY DEF Start, StartFails
<1>2. ~detached[t] BY <1>1 DEF Base, DetachedFirst
<1>3. d \in Descriptors /\ owner[d] = t
  BY <1>1, <1>2 DEF Sockets, SocketOwned
<1>4. /\ foreign' = foreign
      /\ UNCHANGED <<owner, phase, detached, socket>>
  BY <1>3 DEF Start, StartFails, Uses
<1>5. PICK a \in {t, Nobody} :
        /\ listener' = [listener EXCEPT ![d] = a]
        /\ a = t => state' = [state EXCEPT ![t] = "open"]
        /\ a = Nobody => state' = state
  BY OwnersAssumption DEF Start, StartFails, FdClose
<1>6. /\ \A e \in Descriptors : listener'[e] = IF e = d THEN a ELSE listener[e]
      /\ \A u \in Transports :
           state'[u] = IF u = t /\ a = t THEN "open" ELSE state[u]
  BY <1>3, <1>5 DEF TypeOK
<1> HIDE DEF d
<1>7. ASSUME NEW u \in Transports,
             phase'[u] # "none", state'[u] = "open", ~detached'[u]
      PROVE  listener'[socket'[u]] = u
  <2>1. CASE u = t
    BY <1>1, <1>3, <1>4, <1>6, <1>7, <2>1 DEF d
  <2>2. CASE u # t
    <3>1. socket[u] \in Descriptors /\ owner[socket[u]] = u
      BY <1>4, <1>7, SocketType
    <3>2. socket[u] # d BY <1>3, <2>2, <3>1
    <3>3. listener[socket[u]] = u
      BY <1>4, <1>6, <1>7, <2>2 DEF Sockets, ListensWhileOpen
    <3>4. QED BY <1>4, <1>6, <3>1, <3>2, <3>3
  <2>3. QED BY <2>1, <2>2
<1>8. ASSUME NEW e \in Descriptors, listener'[e] # Nobody
      PROVE  LET u == listener'[e]
             IN  /\ phase'[u] = "held" /\ state'[u] = "open" /\ ~detached'[u]
                 /\ socket'[u] = e /\ owner'[e] = u
  <2>1. CASE e = d
    <3>1. listener'[e] = t /\ a = t BY <1>6, <1>8, <2>1
    <3>2. state'[t] = "open" BY <1>6, <3>1
    <3>3. QED BY <1>1, <1>2, <1>3, <1>4, <2>1, <3>1, <3>2 DEF d
  <2>2. CASE e # d
    <3>1. listener'[e] = listener[e] BY <1>6, <2>2
    <3>2. listener[e] \in Transports BY <1>8, <3>1 DEF TypeOK
    <3>3. LET u == listener[e]
          IN  /\ phase[u] = "held" /\ state[u] = "open" /\ ~detached[u]
              /\ socket[u] = e /\ owner[e] = u
      BY <1>8, <3>1 DEF Sockets, ListensWhileOpen
    <3>4. QED BY <1>4, <1>6, <3>1, <3>2, <3>3
  <2>3. QED BY <2>1, <2>2
<1>9. SocketOwned' /\ NoSocketLeft'
  BY <1>4 DEF Sockets, SocketOwned, NoSocketLeft
<1>10. QED BY <1>4, <1>7, <1>8, <1>9 DEF Sockets, ListensWhileOpen, OwnDescriptorsOnly

LEMMA DropSockets ==
  ASSUME TypeOK, Base, Sockets, NEW t \in Transports, Drop(t)
  PROVE  Sockets'
<1>1. /\ phase[t] = "held"
      /\ phase' = [phase EXCEPT ![t] = "dropped"]
      /\ UNCHANGED <<state, socket>>
  BY DEF Drop
<1>2. \A u \in Transports \ {t} : phase'[u] = phase[u] BY <1>1 DEF TypeOK
<1>3. CASE Stoppable(t)
  BY <1>1, <1>2, <1>3, ClosingSockets DEF Drop, Stoppable
<1>4. CASE ~Stoppable(t)
  <2>1. detached[t] BY <1>1, <1>4 DEF Stoppable, Base, DetachedFirst
  <2>2. UNCHANGED <<owner, listener, detached, foreign>> BY <1>4 DEF Drop
  <2>3. \A e \in Descriptors : owner[e] # t
    BY <2>1 DEF Sockets, NoSocketLeft
  <2>4. \A e \in Descriptors : listener[e] # t
    BY <2>3, OwnersAssumption DEF Sockets, ListensWhileOpen
  <2>5. SocketOwned' BY <1>1, <1>2, <2>1, <2>2 DEF Sockets, SocketOwned
  <2>6. NoSocketLeft'
    BY <1>1, <1>2, <2>2, <2>3 DEF Sockets, NoSocketLeft
  <2>7. ListensWhileOpen'
    BY <1>1, <1>2, <2>1, <2>2, <2>4 DEF Sockets, ListensWhileOpen, TypeOK
  <2>8. QED BY <2>2, <2>5, <2>6, <2>7 DEF Sockets, OwnDescriptorsOnly
<1>5. QED BY <1>3, <1>4

LEMMA ReturnSockets ==
  ASSUME TypeOK, Base, Sockets, Return
  PROVE  Sockets'
<1> DEFINE t == Top.t
<1>1. stack # <<>> /\ stack \in Seq(Frames) BY StackType DEF Return
<1>2. t \in Transports BY <1>1, TopType
<1>3. FrameSound(Top) BY <1>1, TopType DEF Base, StackSound, Top
<1>4. CASE Returned(t) \/ Destroyed(t)
  BY <1>4, SameSockets DEF Returned, Destroyed
<1>5. CASE Detached(t) \/ Released(t)
  <2>1. detached[t] BY <1>3, <1>5 DEF FrameSound, Detached, Released
  <2>2. UNCHANGED <<owner, listener, detached, socket, foreign>>
    BY <1>5 DEF Detached, Released
  <2>3. \A u \in Transports \ {t} : phase'[u] = phase[u] /\ state'[u] = state[u]
    BY <1>2, <1>5 DEF Detached, Released, TypeOK
  <2>4. \A e \in Descriptors : owner[e] # t
    BY <1>2, <2>1 DEF Sockets, NoSocketLeft
  <2>5. \A e \in Descriptors : listener[e] # t
    BY <2>4, <1>2, OwnersAssumption DEF Sockets, ListensWhileOpen
  <2>6. SocketOwned' BY <2>1, <2>2, <2>3 DEF Sockets, SocketOwned
  <2>7. NoSocketLeft' BY <2>2, <2>3, <2>4 DEF Sockets, NoSocketLeft
  <2>8. ListensWhileOpen'
    <3>1. \A u \in Transports :
            ~detached'[u] => phase'[u] = phase[u] /\ state'[u] = state[u]
      BY <2>1, <2>2, <2>3
    <3>2. \A e \in Descriptors : listener'[e] # Nobody =>
            /\ listener'[e] \in Transports
            /\ ~detached'[listener'[e]]
      BY <2>2 DEF Sockets, ListensWhileOpen, TypeOK
    <3>3. QED BY <2>2, <3>1, <3>2 DEF Sockets, ListensWhileOpen
  <2>9. QED BY <2>2, <2>6, <2>7, <2>8 DEF Sockets, OwnDescriptorsOnly
<1>6. QED BY <1>4, <1>5 DEF Return

(***************************************************************************)
(* The theorem                                                             *)
(***************************************************************************)
LEMMA StepCorrect ==
  ASSUME ~BufferFails, ~StartInDetach, TypeOK, Base, Sockets, [Next]_vars
  PROVE  Base' /\ Sockets'
<1>0. ListensWhileOpen BY DEF Sockets
<1>1. ASSUME NEW d \in Descriptors, AppOpens(d) \/ AppCloses(d)
      PROVE  Base' /\ Sockets'
  <2>1. Sockets' BY <1>1, AppSockets
  <2>2. Base' BY <1>1, QuietBase DEF AppOpens, AppCloses
  <2>3. QED BY <2>1, <2>2
<1>2. ASSUME NEW d \in Descriptors, RedirectFromRaw(d)
      PROVE  Base' /\ Sockets'
  <2>1. foreign' = foreign
    BY <1>0, <1>2 DEF RedirectFromRaw, Uses, ListensWhileOpen
  <2>2. Sockets' BY <1>2, <2>1, SameSockets DEF RedirectFromRaw
  <2>3. QED BY <1>0, <1>2, <2>2, RedirectFromRawBase
<1>3. ASSUME NEW t \in Transports, NEW fault \in Faults,
             NEW d \in Descriptors \cup {NoSocket}, Create(t, fault, d)
      PROVE  Base' /\ Sockets'
  BY <1>3, CreateBase, CreateSockets
<1>4. ASSUME NEW t \in Transports, Start(t) \/ StartFails(t)
      PROVE  Base' /\ Sockets'
  <2>1. Sockets' BY <1>4, StartSockets
  <2>2. CASE Start(t) BY <2>1, <2>2, StartBase
  <2>3. CASE StartFails(t) BY <2>1, <2>3, QuietBase DEF StartFails
  <2>4. QED BY <1>4, <2>2, <2>3
<1>5. ASSUME NEW t \in Transports, Stop(t)
      PROVE  Base' /\ Sockets'
  BY <1>5, StopBase, ClosingSockets DEF Stop, Stoppable
<1>6. ASSUME NEW t \in Transports, Drop(t)
      PROVE  Base' /\ Sockets'
  BY <1>6, DropBase, DropSockets
<1>7. ASSUME NEW t \in Transports, FeedInbound(t)
      PROVE  Base' /\ Sockets'
  <2>1. phase[t] = "held" /\ ~detached[t]
    BY <1>7 DEF FeedInbound, Sends
  <2>2. owner[socket[t]] = t BY <2>1 DEF Sockets, SocketOwned
  <2>3. foreign' = foreign BY <1>7, <2>2 DEF FeedInbound, Uses
  <2>4. Sockets' BY <1>7, <2>3, SameSockets DEF FeedInbound
  <2>5. Base' BY <1>7, QuietBase DEF FeedInbound
  <2>6. QED BY <2>4, <2>5
<1>8. CASE Return BY <1>8, ReturnBase, ReturnSockets
<1>9. CASE UNCHANGED vars
  BY <1>9, QuietBase, SameSockets DEF vars
<1>10. QED
  BY <1>1, <1>2, <1>3, <1>4, <1>5, <1>6, <1>7, <1>8, <1>9 DEF Next

(* In a process where the receive buffer can be allocated and no transport  *)
(* is started in its own detach handler, no transport ever touches the      *)
(* descriptor of another or of the application, re listens for a transport  *)
(* exactly while it is open, and no socket is left behind: however many     *)
(* transports there are, and however callbacks nest.                        *)
THEOREM SocketsCorrect ==
  ASSUME ~BufferFails, ~StartInDetach
  PROVE  Spec => [](OwnDescriptorsOnly /\ ListensWhileOpen /\ NoSocketLeft)
<1>1. Init => Base /\ Sockets
  <2> SUFFICES ASSUME Init PROVE Base /\ Sockets OBVIOUS
  <2>1. StackSound BY DEF Init, StackSound
  <2>2. DetachedFirst BY DEF Init, DetachedFirst, Dying
  <2>3. Sockets
    BY OwnersAssumption
    DEF Init, Sockets, SocketOwned, NoSocketLeft, ListensWhileOpen,
        OwnDescriptorsOnly
  <2>4. QED BY <2>1, <2>2, <2>3 DEF Base
<1>2. Base /\ Sockets /\ TypeOK /\ [Next]_vars => (Base /\ Sockets)'
  BY StepCorrect
<1>3. Sockets => OwnDescriptorsOnly /\ ListensWhileOpen /\ NoSocketLeft
  BY DEF Sockets
<1>4. QED BY <1>1, <1>2, <1>3, TypeCorrect, PTL DEF Spec

(* re listens to the descriptor of a transport exactly while the transport  *)
(* is open, in such a process.                                              *)
THEOREM ListeningCorrect ==
  ASSUME ~BufferFails, ~StartInDetach
  PROVE  Spec => []ListensWhileOpen
<1>1. QED BY SocketsCorrect, PTL

(* No socket is left open by a transport that is gone, in such a process.   *)
THEOREM SocketsReturned ==
  ASSUME ~BufferFails, ~StartInDetach
  PROVE  Spec => []NoSocketLeft
<1>1. QED BY SocketsCorrect, PTL
=============================================================================
