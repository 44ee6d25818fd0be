--------------------------- MODULE LifecycleProofs ---------------------------
(***************************************************************************)
(* Theorems about Lifecycle, for any finite set of transports and any      *)
(* nesting of callbacks.                                                   *)
(***************************************************************************)
EXTENDS Lifecycle, FiniteSetTheorems, SequenceTheorems, TLAPS

(* A transport that calls the application back is allocated, no longer      *)
(* stoppable, and calls once at a time.                                     *)
StackSound ==
  /\ \A i \in 1 .. Len(stack) :
       /\ phase[stack[i].t] # "none"
       /\ detached[stack[i].t] \/ closed[stack[i].t]
  /\ \A i, j \in 1 .. Len(stack) : stack[i].t = stack[j].t => i = j

(* A transport is destroyed in one go: it calls back until it is gone.      *)
DyingIsBusy ==
  \A t \in Transports : phase[t] \in {"failing", "dropped"} => Busy(t)

(* The library is closed after the last transport.                          *)
ClosedWithoutTransports == ~timerHandler => counter = 0

Inv == TypeOK /\ StackSound /\ CounterExact /\ ClosedWithoutTransports

(* What is shared is set up as soon as any transport has been handed out.   *)
SharedSetUp ==
  \A t \in Transports :
    phase[t] \in {"held", "dropped"} => usrsctp /\ timer /\ chunkKnown

(***************************************************************************)
(* The call stack                                                          *)
(***************************************************************************)
LEMMA NonEmpty ==
  ASSUME stack \in Seq(Frames), stack # <<>>
  PROVE  Len(stack) \in Nat \ {0}
BY EmptySeq

LEMMA CallType ==
  ASSUME stack \in Seq(Frames), NEW f \in Frames
  PROVE  /\ Append(stack, f) \in Seq(Frames)
         /\ Len(Append(stack, f)) = Len(stack) + 1
         /\ \A i \in 1 .. Len(stack) : Append(stack, f)[i] = stack[i]
         /\ Append(stack, f)[Len(stack) + 1] = f
OBVIOUS

LEMMA CallNextType ==
  ASSUME stack \in Seq(Frames), stack # <<>>, NEW f \in Frames, f.t = Top.t
  PROVE  /\ [stack EXCEPT ![Len(stack)] = f] \in Seq(Frames)
         /\ Len([stack EXCEPT ![Len(stack)] = f]) = Len(stack)
         /\ \A i \in 1 .. Len(stack) :
              [stack EXCEPT ![Len(stack)] = f][i].t = stack[i].t
<1> DEFINE s == [stack EXCEPT ![Len(stack)] = f]
<1>1. s \in Seq(Frames) /\ Len(s) = Len(stack) OBVIOUS
<1>2. ASSUME NEW i \in 1 .. Len(stack)
      PROVE  s[i].t = stack[i].t
  <2>1. CASE i = Len(stack) BY <2>1 DEF Top
  <2>2. CASE i # Len(stack) BY <2>2
  <2>3. QED BY <2>1, <2>2
<1>3. QED BY <1>1, <1>2

LEMMA ReturnType ==
  ASSUME NEW s \in Seq(Frames), s # <<>>
  PROVE  /\ SubSeq(s, 1, Len(s) - 1) \in Seq(Frames)
         /\ Len(SubSeq(s, 1, Len(s) - 1)) = Len(s) - 1
         /\ \A i \in 1 .. Len(s) - 1 : SubSeq(s, 1, Len(s) - 1)[i] = s[i]
OBVIOUS

LEMMA TopType ==
  ASSUME stack \in Seq(Frames), stack # <<>>
  PROVE  /\ Len(stack) \in 1 .. Len(stack)
         /\ Top \in Frames
         /\ Top.t \in Transports
         /\ Top.at \in Callbacks
<1>1. Len(stack) \in 1 .. Len(stack) BY NonEmpty
<1>2. Top \in Frames BY <1>1 DEF Top
<1>3. QED BY <1>1, <1>2 DEF Frames

LEMMA FrameType ==
  ASSUME NEW at \in Callbacks, NEW t \in Transports
  PROVE  [at |-> at, t |-> t] \in Frames
BY DEF Frames

LEMMA ExtendType ==
  ASSUME NEW h \in Seq(Callbacks), NEW e \in Callbacks
  PROVE  Extend(h, e) \in Seq(Callbacks)
BY DEF Extend

(***************************************************************************)
(* The counter                                                             *)
(***************************************************************************)
LEMMA AllocatedType == IsFiniteSet(Allocated) /\ Cardinality(Allocated) \in Nat
<1>1. Allocated \in SUBSET Transports BY DEF Allocated
<1>2. IsFiniteSet(Allocated) BY <1>1, FS_Subset, TransportsAssumption
<1>3. QED BY <1>2, FS_CardinalityType

(* One more transport, one less, and the same ones.                         *)
LEMMA AllocatedGrows ==
  ASSUME phase \in [Transports -> Phases], NEW t \in Transports,
         phase[t] = "none", NEW p \in Phases \ {"none"},
         phase' = [phase EXCEPT ![t] = p]
  PROVE  Cardinality(Allocated') = Cardinality(Allocated) + 1
<1>1. Allocated' = Allocated \cup {t} BY DEF Allocated
<1>2. t \notin Allocated BY DEF Allocated
<1>3. QED BY <1>1, <1>2, AllocatedType, FS_AddElement

LEMMA AllocatedShrinks ==
  ASSUME phase \in [Transports -> Phases], NEW t \in Transports,
         phase[t] # "none", phase' = [phase EXCEPT ![t] = "none"]
  PROVE  Cardinality(Allocated') = Cardinality(Allocated) - 1
<1>1. Allocated' = Allocated \ {t} BY DEF Allocated
<1>2. t \in Allocated BY DEF Allocated
<1>3. QED BY <1>1, <1>2, AllocatedType, FS_RemoveElement

LEMMA SomeAllocated ==
  ASSUME NEW t \in Transports, phase[t] # "none"
  PROVE  Cardinality(Allocated) > 0
<1>1. t \in Allocated BY DEF Allocated
<1>2. QED BY <1>1, AllocatedType, FS_EmptySet

(* The last transport is the only one.                                      *)
LEMMA OnlyAllocated ==
  ASSUME NEW t \in Transports, phase[t] # "none", Cardinality(Allocated) = 1,
         NEW u \in Transports, phase[u] # "none"
  PROVE  u = t
<1>1. t \in Allocated /\ u \in Allocated BY DEF Allocated
<1>2. Cardinality(Allocated \ {t}) = 0 /\ IsFiniteSet(Allocated \ {t})
  BY <1>1, AllocatedType, FS_RemoveElement
<1>3. Allocated \ {t} = {} BY <1>2, FS_EmptySet
<1>4. QED BY <1>1, <1>3

(***************************************************************************)
(* What each way to change the stack asks for to keep it sound             *)
(***************************************************************************)
(* A transport that may have a frame on the stack.                          *)
Framed(t) == phase[t] # "none" /\ (detached[t] \/ closed[t])
FramedNext(t) == phase'[t] # "none" /\ (detached'[t] \/ closed'[t])

LEMMA BusyFramed ==
  ASSUME TypeOK, StackSound, NEW t \in Transports, Busy(t)
  PROVE  Framed(t)
BY DEF TypeOK, StackSound, Busy, Framed

LEMMA CallSound ==
  ASSUME TypeOK, StackSound, NEW t \in Transports, NEW at \in Callbacks,
         ~Busy(t), stack' = Append(stack, [at |-> at, t |-> t]),
         FramedNext(t), \A u \in Transports : Busy(u) => FramedNext(u)
  PROVE  stack' \in Seq(Frames) /\ StackSound'
<1> DEFINE f == [at |-> at, t |-> t]
           n == Len(stack)
<1>1. stack \in Seq(Frames) /\ f \in Frames /\ f.t = t
  BY FrameType DEF TypeOK
<1>2. /\ stack' \in Seq(Frames)
      /\ Len(stack') = n + 1
      /\ \A i \in 1 .. n : stack'[i] = stack[i]
      /\ stack'[n + 1] = f
  BY <1>1, CallType
<1>3. n \in Nat BY <1>1
<1>4. ASSUME NEW i \in 1 .. n
      PROVE  /\ stack'[i].t \in Transports
             /\ stack'[i].t # t
             /\ FramedNext(stack'[i].t)
  <2>1. stack[i] \in Frames BY <1>1
  <2>2. stack[i].t \in Transports /\ Busy(stack[i].t)
    BY <2>1 DEF Frames, Busy
  <2>3. QED BY <1>2, <2>2
<1>5. ASSUME NEW i \in 1 .. n + 1
      PROVE  FramedNext(stack'[i].t)
  <2>1. CASE i \in 1 .. n BY <1>4, <2>1
  <2>2. CASE i = n + 1 BY <1>1, <1>2, <2>2
  <2>3. QED BY <1>3, <2>1, <2>2
<1>6. ASSUME NEW i \in 1 .. n + 1, NEW j \in 1 .. n + 1,
             stack'[i].t = stack'[j].t
      PROVE  i = j
  <2>1. CASE i \in 1 .. n /\ j \in 1 .. n
    BY <1>2, <1>6, <2>1 DEF StackSound
  <2>2. CASE i = n + 1 \/ j = n + 1
    <3>1. stack'[i].t = t BY <1>1, <1>2, <1>6, <2>2
    <3>2. i \notin 1 .. n /\ j \notin 1 .. n BY <1>4, <1>6, <3>1
    <3>3. QED BY <1>3, <3>2
  <2>3. QED BY <1>3, <2>1, <2>2
<1>7. QED BY <1>2, <1>5, <1>6 DEF StackSound, FramedNext

LEMMA CallNextSound ==
  ASSUME TypeOK, StackSound, stack # <<>>, NEW at \in Callbacks,
         stack' = [stack EXCEPT ![Len(stack)] = [at |-> at, t |-> Top.t]],
         \A u \in Transports : Busy(u) => FramedNext(u)
  PROVE  stack' \in Seq(Frames) /\ StackSound'
<1> DEFINE f == [at |-> at, t |-> Top.t]
<1>1. stack \in Seq(Frames) BY DEF TypeOK
<1>2. f \in Frames /\ f.t = Top.t BY <1>1, TopType, FrameType
<1>3. /\ stack' \in Seq(Frames)
      /\ Len(stack') = Len(stack)
      /\ \A i \in 1 .. Len(stack) : stack'[i].t = stack[i].t
  BY <1>1, <1>2, CallNextType
<1>4. ASSUME NEW i \in 1 .. Len(stack)
      PROVE  FramedNext(stack[i].t)
  <2>1. stack[i] \in Frames BY <1>1
  <2>2. stack[i].t \in Transports /\ Busy(stack[i].t)
    BY <2>1 DEF Frames, Busy
  <2>3. QED BY <2>2
<1>5. \A i \in 1 .. Len(stack) : FramedNext(stack'[i].t) BY <1>3, <1>4
<1>6. \A i, j \in 1 .. Len(stack) : stack'[i].t = stack'[j].t => i = j
  BY <1>3 DEF StackSound
<1>7. QED BY <1>3, <1>5, <1>6 DEF StackSound, FramedNext

LEMMA ReturnSound ==
  ASSUME TypeOK, StackSound, stack # <<>>,
         stack' = SubSeq(stack, 1, Len(stack) - 1),
         \A u \in Transports : Busy(u) /\ u # Top.t => FramedNext(u)
  PROVE  stack' \in Seq(Frames) /\ StackSound'
<1> DEFINE n == Len(stack)
<1>1. stack \in Seq(Frames) /\ n \in Nat \ {0} BY NonEmpty DEF TypeOK
<1>2. /\ stack' \in Seq(Frames)
      /\ Len(stack') = n - 1
      /\ \A i \in 1 .. n - 1 : stack'[i] = stack[i]
  BY <1>1, ReturnType
<1>3. ASSUME NEW i \in 1 .. n - 1
      PROVE  FramedNext(stack[i].t)
  <2>1. i \in 1 .. n /\ n \in 1 .. n /\ i # n BY <1>1
  <2>2. stack[i] \in Frames BY <1>1, <2>1
  <2>3. stack[i].t \in Transports /\ Busy(stack[i].t)
    BY <2>1, <2>2 DEF Frames, Busy
  <2>4. stack[i].t # Top.t BY <2>1 DEF StackSound, Top
  <2>5. QED BY <2>3, <2>4
<1>4. \A i \in 1 .. n - 1 : FramedNext(stack'[i].t) BY <1>2, <1>3
<1>5. \A i, j \in 1 .. n - 1 : stack'[i].t = stack'[j].t => i = j
  BY <1>1, <1>2 DEF StackSound
<1>6. QED BY <1>2, <1>4, <1>5 DEF StackSound, FramedNext

LEMMA SameStackSound ==
  ASSUME TypeOK, StackSound, stack' = stack,
         \A u \in Transports : Busy(u) => FramedNext(u)
  PROVE  stack' \in Seq(Frames) /\ StackSound'
<1>1. stack \in Seq(Frames) BY DEF TypeOK
<1>2. ASSUME NEW i \in 1 .. Len(stack)
      PROVE  FramedNext(stack[i].t)
  <2>1. stack[i] \in Frames BY <1>1
  <2>2. stack[i].t \in Transports /\ Busy(stack[i].t)
    BY <2>1 DEF Frames, Busy
  <2>3. QED BY <2>2
<1>3. QED BY <1>1, <1>2 DEF StackSound, FramedNext

(***************************************************************************)
(* One lemma per action                                                    *)
(***************************************************************************)
LEMMA InitInv == Init => Inv
<1> SUFFICES ASSUME Init PROVE Inv OBVIOUS
<1>1. stack \in Seq(Frames) /\ StackSound BY DEF Init, StackSound
<1>2. heard \in [Transports -> Seq(Callbacks)] BY DEF Init
<1>3. TypeOK BY <1>1, <1>2 DEF Init, TypeOK, Phases
<1>4. Allocated = {} BY DEF Init, Allocated
<1>5. Cardinality(Allocated) = 0 BY <1>4, FS_EmptySet
<1>6. QED BY <1>1, <1>3, <1>5 DEF Init, Inv, CounterExact, ClosedWithoutTransports

LEMMA LibraryInitInv == Inv /\ LibraryInit => Inv'
<1> SUFFICES ASSUME Inv, LibraryInit PROVE Inv' OBVIOUS
<1> USE DEF Inv, LibraryInit
<1>1. TypeOK' BY DEF TypeOK
<1>2. StackSound' BY DEF StackSound
<1>3. CounterExact' BY DEF CounterExact, Allocated, ClosedWithoutTransports
<1>4. QED BY <1>1, <1>2, <1>3 DEF ClosedWithoutTransports

LEMMA LibraryCloseInv == Inv /\ LibraryClose => Inv'
<1> SUFFICES ASSUME Inv, LibraryClose PROVE Inv' OBVIOUS
<1> USE DEF Inv, LibraryClose
<1>1. TypeOK' BY DEF TypeOK
<1>2. StackSound' BY DEF StackSound
<1>3. CounterExact' BY DEF CounterExact, Allocated
<1>4. Allocated = {} BY DEF Allocated
<1>5. counter = 0 BY <1>4, FS_EmptySet DEF CounterExact
<1>6. QED BY <1>1, <1>2, <1>3, <1>5 DEF ClosedWithoutTransports

LEMMA CreateInv ==
  ASSUME Inv, NEW t \in Transports, NEW fault \in Faults, Create(t, fault)
  PROVE  Inv'
<1> USE DEF Inv
<1>1. ~Busy(t) BY BusyFramed DEF Create, Framed
<1>2. CASE fault = "memory"
  <2>1. TypeOK' BY <1>2 DEF Create, Counted, TypeOK
  <2>2. StackSound' BY <1>2 DEF Create, StackSound
  <2>3. CounterExact' BY <1>2 DEF Create, Counted, CounterExact, Allocated
  <2>4. QED BY <1>2, <2>1, <2>2, <2>3
          DEF Create, Counted, ClosedWithoutTransports
<1>3. CASE fault # "memory"
  <2>1. PICK p \in {"held", "failing"} : phase' = [phase EXCEPT ![t] = p]
    BY <1>3 DEF Create
  <2>2. counter' = counter + 1 BY <1>3 DEF Create, Counted
  <2>3. CounterExact'
    BY <2>1, <2>2, AllocatedGrows DEF CounterExact, TypeOK, Phases, Create
  <2>4. \A u \in Transports : Busy(u) => FramedNext(u)
    BY <1>1, <1>3, <2>1, BusyFramed
       DEF Create, Framed, FramedNext, TypeOK
  <2>5. stack' \in Seq(Frames) /\ StackSound'
    <3>1. CASE fault = "none"
      BY <1>3, <2>4, <3>1, SameStackSound DEF Create
    <3>2. CASE fault # "none"
      <4>1. stack' = Append(stack, [at |-> "detach", t |-> t])
        BY <1>3, <3>2 DEF Create
      <4>2. FramedNext(t)
        BY <1>3, <3>2, <2>1 DEF Create, FramedNext, TypeOK
      <4>3. QED BY <1>1, <2>4, <4>1, <4>2, CallSound DEF Callbacks
    <3>3. QED BY <3>1, <3>2
  <2>6. heard' \in [Transports -> Seq(Callbacks)]
    <3>1. <<>> \in Seq(Callbacks) /\ <<"detach">> \in Seq(Callbacks)
      BY DEF Callbacks
    <3>2. QED BY <1>3, <3>1 DEF Create, TypeOK
  <2>7. TypeOK'
    <3>1. /\ timerHandler' \in BOOLEAN /\ chunkKnown' \in BOOLEAN
          /\ usrsctp' \in BOOLEAN /\ timer' \in BOOLEAN
      BY <1>3 DEF Create, TypeOK
    <3>2. counter' \in Nat BY <2>2 DEF TypeOK
    <3>3. phase' \in [Transports -> Phases] BY <2>1 DEF TypeOK, Phases
    <3>4. closed' \in [Transports -> BOOLEAN]
          /\ socket' \in [Transports -> BOOLEAN]
      <4> DEFINE b == fault \in {"chunk_size", "option", "none"}
      <4>1. /\ closed' = [closed EXCEPT ![t] = FALSE]
            /\ socket' = [socket EXCEPT ![t] = b]
        BY <1>3 DEF Create
      <4>2. b \in BOOLEAN OBVIOUS
      <4> HIDE DEF b
      <4>3. QED BY <4>1, <4>2 DEF TypeOK
    <3>5. detached' \in [Transports -> BOOLEAN]
      BY <1>3 DEF Create, TypeOK
    <3>6. QED BY <2>5, <2>6, <3>1, <3>2, <3>3, <3>4, <3>5 DEF TypeOK
  <2>8. QED BY <2>2, <2>3, <2>5, <2>7
          DEF Create, ClosedWithoutTransports, TypeOK
<1>4. QED BY <1>2, <1>3

(* Stopping and dropping push one frame of a transport without any.         *)
LEMMA StopInv ==
  ASSUME Inv, NEW t \in Transports, Stop(t)
  PROVE  Inv'
<1> USE DEF Inv
<1>1. ~Busy(t) BY BusyFramed DEF Stop, Stoppable, Framed
<1>2. /\ stack' = Append(stack, [at |-> "detach", t |-> t])
      /\ detached' = [detached EXCEPT ![t] = TRUE]
      /\ heard' = [heard EXCEPT ![t] = Extend(@, "detach")]
  BY DEF Stop, Detach, Call
<1>3. FramedNext(t) BY <1>2 DEF Stop, FramedNext, TypeOK
<1>4. \A u \in Transports : Busy(u) => FramedNext(u)
  BY <1>1, <1>2, BusyFramed DEF Stop, Framed, FramedNext, TypeOK
<1>5. stack' \in Seq(Frames) /\ StackSound'
  BY <1>1, <1>2, <1>3, <1>4, CallSound DEF Callbacks
<1>6. heard' \in [Transports -> Seq(Callbacks)]
  BY <1>2, ExtendType DEF TypeOK, Callbacks
<1>7. detached' \in [Transports -> BOOLEAN] BY <1>2 DEF TypeOK
<1>8. QED BY <1>5, <1>6, <1>7
       DEF Stop, global, TypeOK, CounterExact, Allocated,
           ClosedWithoutTransports

LEMMA DropInv ==
  ASSUME Inv, NEW t \in Transports, Drop(t)
  PROVE  Inv'
<1> USE DEF Inv
<1>1. ~Busy(t) /\ phase[t] = "held" BY DEF Drop
<1>2. phase' = [phase EXCEPT ![t] = "dropped"] BY DEF Drop
<1>3. PICK at \in Callbacks :
        /\ stack' = Append(stack, [at |-> at, t |-> t])
        /\ heard' = [heard EXCEPT ![t] = Extend(@, at)]
  BY DEF Drop, Detach, Call, Callbacks
<1>4. /\ detached' \in [Transports -> BOOLEAN]
      /\ detached'[t] \/ closed'[t]
      /\ \A u \in Transports \ {t} : detached'[u] = detached[u]
  BY DEF Drop, Detach, Stoppable, TypeOK
<1>5. FramedNext(t) BY <1>2, <1>4 DEF FramedNext, TypeOK
<1>6. \A u \in Transports : Busy(u) => FramedNext(u)
  BY <1>1, <1>2, <1>4, BusyFramed DEF Drop, Framed, FramedNext, TypeOK
<1>7. stack' \in Seq(Frames) /\ StackSound'
  BY <1>1, <1>3, <1>5, <1>6, CallSound
<1>8. heard' \in [Transports -> Seq(Callbacks)]
  BY <1>3, ExtendType DEF TypeOK
<1>9. phase' \in [Transports -> Phases] BY <1>2 DEF TypeOK, Phases
<1>10. Allocated' = Allocated BY <1>1, <1>2 DEF Allocated, TypeOK
<1>11. QED BY <1>4, <1>7, <1>8, <1>9, <1>10
        DEF Drop, global, TypeOK, CounterExact, ClosedWithoutTransports

(* The callback on top returns and its transport calls the next one.        *)
LEMMA CallNextInv ==
  ASSUME Inv, stack # <<>>, Detached(Top.t) \/ Destroyed(Top.t)
  PROVE  Inv'
<1> USE DEF Inv
<1>1. Top.t \in Transports BY TopType DEF TypeOK
<1>2. PICK at \in Callbacks :
        /\ stack' = [stack EXCEPT ![Len(stack)] = [at |-> at, t |-> Top.t]]
        /\ heard' = [heard EXCEPT ![Top.t] = Extend(@, at)]
  BY DEF Detached, Destroyed, CallNext, Callbacks
<1>3. UNCHANGED <<global, phase, detached>>
  BY DEF Detached, Destroyed
<1>4. /\ closed' \in [Transports -> BOOLEAN]
      /\ socket' \in [Transports -> BOOLEAN]
      /\ \A u \in Transports : closed[u] => closed'[u]
  BY <1>1 DEF Detached, Destroyed, TypeOK
<1>5. \A u \in Transports : Busy(u) => FramedNext(u)
  BY <1>3, <1>4, BusyFramed DEF Framed, FramedNext
<1>6. stack' \in Seq(Frames) /\ StackSound' BY <1>2, <1>5, CallNextSound
<1>7. heard' \in [Transports -> Seq(Callbacks)]
  BY <1>1, <1>2, ExtendType DEF TypeOK
<1>8. QED BY <1>3, <1>4, <1>6, <1>7
       DEF global, TypeOK, CounterExact, Allocated, ClosedWithoutTransports

LEMMA StoppedInv ==
  ASSUME Inv, stack # <<>>, Stopped(Top.t)
  PROVE  Inv'
<1> USE DEF Inv
<1>1. /\ stack' = SubSeq(stack, 1, Len(stack) - 1)
      /\ UNCHANGED <<global, phase, closed, detached, socket, heard>>
  BY DEF Stopped, CallReturns
<1>2. \A u \in Transports : Busy(u) => FramedNext(u)
  BY <1>1, BusyFramed DEF Framed, FramedNext
<1>3. stack' \in Seq(Frames) /\ StackSound' BY <1>1, <1>2, ReturnSound
<1>4. QED BY <1>1, <1>3
       DEF global, TypeOK, CounterExact, Allocated, ClosedWithoutTransports

LEMMA ReleasedInv ==
  ASSUME Inv, stack # <<>>, Released(Top.t)
  PROVE  Inv'
<1> USE DEF Inv
<1>1. Top.t \in Transports /\ phase[Top.t] # "none"
  BY TopType DEF TypeOK, StackSound, Top
<1>2. /\ stack' = SubSeq(stack, 1, Len(stack) - 1)
      /\ phase' = [phase EXCEPT ![Top.t] = "none"]
      /\ counter' = counter - 1
      /\ UNCHANGED <<timerHandler, chunkKnown, closed, detached, socket, heard>>
  BY DEF Released, CallReturns
<1>3. \A u \in Transports : Busy(u) /\ u # Top.t => FramedNext(u)
  BY <1>2, BusyFramed DEF Framed, FramedNext, TypeOK
<1>4. stack' \in Seq(Frames) /\ StackSound' BY <1>2, <1>3, ReturnSound
<1>5. CounterExact'
  BY <1>1, <1>2, AllocatedShrinks DEF CounterExact, TypeOK
<1>6. counter \in Nat \ {0} BY <1>1, SomeAllocated DEF CounterExact, TypeOK
<1>7. timerHandler BY <1>6 DEF ClosedWithoutTransports
<1>8. timer' \in BOOLEAN /\ usrsctp' \in BOOLEAN
  BY DEF Released, TypeOK
<1>9. counter' \in Nat BY <1>2, <1>6
<1>10. phase' \in [Transports -> Phases] BY <1>2 DEF TypeOK, Phases
<1>11. TypeOK' BY <1>2, <1>4, <1>8, <1>9, <1>10 DEF TypeOK
<1>12. QED BY <1>2, <1>4, <1>5, <1>7, <1>11 DEF ClosedWithoutTransports

LEMMA NextInv == Inv /\ [Next]_vars => Inv'
<1> SUFFICES ASSUME Inv, [Next]_vars PROVE Inv' OBVIOUS
<1>1. CASE LibraryInit BY <1>1, LibraryInitInv
<1>2. CASE LibraryClose BY <1>2, LibraryCloseInv
<1>3. ASSUME NEW t \in Transports, NEW fault \in Faults, Create(t, fault)
      PROVE  Inv'
  BY <1>3, CreateInv
<1>4. ASSUME NEW t \in Transports, Stop(t) \/ Drop(t)
      PROVE  Inv'
  BY <1>4, StopInv, DropInv
<1>5. CASE Return
  BY <1>5, CallNextInv, StoppedInv, ReleasedInv DEF Return
<1>6. CASE UNCHANGED vars
  BY <1>6 DEF Inv, vars, TypeOK, StackSound, CounterExact, Allocated,
              ClosedWithoutTransports
<1>7. QED BY <1>1, <1>2, <1>3, <1>4, <1>5, <1>6 DEF Next

LEMMA AlwaysInv == Spec => []Inv
BY InitInv, NextInv, PTL DEF Spec

(* The counter of transports is exact and never below zero, however         *)
(* creations fail and callbacks nest.                                       *)
THEOREM CounterCorrect == Spec => [](TypeOK /\ CounterExact)
<1>1. Inv => TypeOK /\ CounterExact BY DEF Inv
<1>2. QED BY <1>1, AlwaysInv, PTL

(***************************************************************************)
(* What a transport that was handed out relies on                          *)
(***************************************************************************)
LEMMA BusyAfterCall ==
  ASSUME TypeOK, NEW t \in Transports, NEW at \in Callbacks,
         stack' = Append(stack, [at |-> at, t |-> t])
  PROVE  Busy(t)' /\ \A u \in Transports : Busy(u) => Busy(u)'
<1>1. /\ Len(stack') = Len(stack) + 1
      /\ \A i \in 1 .. Len(stack) : stack'[i] = stack[i]
      /\ stack'[Len(stack) + 1].t = t
  BY CallType, FrameType DEF TypeOK
<1>2. Len(stack) \in Nat BY DEF TypeOK
<1>3. QED BY <1>1, <1>2 DEF Busy

LEMMA BusyAfterCallNext ==
  ASSUME TypeOK, stack # <<>>, NEW at \in Callbacks,
         stack' = [stack EXCEPT ![Len(stack)] = [at |-> at, t |-> Top.t]]
  PROVE  \A u \in Transports : Busy(u) => Busy(u)'
<1>1. [at |-> at, t |-> Top.t] \in Frames
  BY TopType, FrameType DEF TypeOK
<1>2. /\ Len(stack') = Len(stack)
      /\ \A i \in 1 .. Len(stack) : stack'[i].t = stack[i].t
  BY <1>1, CallNextType DEF TypeOK
<1>3. QED BY <1>2 DEF Busy

LEMMA BusyAfterReturn ==
  ASSUME TypeOK, stack # <<>>, stack' = SubSeq(stack, 1, Len(stack) - 1)
  PROVE  \A u \in Transports : Busy(u) /\ u # Top.t => Busy(u)'
<1> DEFINE n == Len(stack)
<1>1. n \in Nat \ {0} BY NonEmpty DEF TypeOK
<1>2. Len(stack') = n - 1 /\ \A i \in 1 .. n - 1 : stack'[i] = stack[i]
  BY ReturnType DEF TypeOK
<1>3. ASSUME NEW u \in Transports, NEW i \in 1 .. n, stack[i].t = u, u # Top.t
      PROVE  i \in 1 .. n - 1
  BY <1>1, <1>3 DEF Top
<1>4. QED BY <1>2, <1>3 DEF Busy

SharedInv == DyingIsBusy /\ SharedSetUp

LEMMA CreateShared ==
  ASSUME ~NestedCreation, Inv, SharedInv,
         NEW t \in Transports, NEW fault \in Faults, Create(t, fault)
  PROVE  SharedInv'
<1> USE DEF Inv, SharedInv
<1>1. CASE fault = "memory"
  BY <1>1 DEF Create, DyingIsBusy, SharedSetUp, Busy
<1>2. CASE fault = "none"
  <2>1. phase' = [phase EXCEPT ![t] = "held"] /\ stack' = stack
    BY <1>2 DEF Create
  <2>2. DyingIsBusy' BY <2>1 DEF DyingIsBusy, Busy, TypeOK
  <2>3. CASE First
    <3>1. usrsctp' /\ timer' /\ chunkKnown' BY <1>2, <2>3 DEF Create
    <3>2. QED BY <2>2, <3>1 DEF SharedSetUp
  <2>4. CASE ~First
    <3>1. Cardinality(Allocated) # 0 BY <2>4 DEF First, CounterExact
    <3>2. PICK u \in Transports : phase[u] # "none"
      BY <3>1, FS_EmptySet DEF Allocated
    <3>3. phase[u] # "failing"
      BY DEF Create, DyingIsBusy, Busy
    <3>4. phase[u] \in {"held", "dropped"}
      BY <3>2, <3>3 DEF TypeOK, Phases
    <3>5. usrsctp /\ timer /\ chunkKnown BY <3>4 DEF SharedSetUp
    <3>6. usrsctp' /\ timer' /\ chunkKnown' BY <1>2, <3>5 DEF Create
    <3>7. QED BY <2>2, <3>6 DEF SharedSetUp
  <2>5. QED BY <2>2, <2>3, <2>4
<1>3. CASE fault \notin {"memory", "none"}
  <2>1. /\ phase' = [phase EXCEPT ![t] = "failing"]
        /\ stack' = Append(stack, [at |-> "detach", t |-> t])
    BY <1>3 DEF Create
  <2>2. DyingIsBusy'
    BY <2>1, BusyAfterCall DEF DyingIsBusy, TypeOK, Callbacks
  <2>3. SharedSetUp' BY <1>3, <2>1 DEF Create, SharedSetUp, TypeOK
  <2>4. QED BY <2>2, <2>3
<1>4. QED BY <1>1, <1>2, <1>3

LEMMA ReleasedShared ==
  ASSUME Inv, SharedInv, stack # <<>>, Released(Top.t)
  PROVE  SharedInv'
<1> USE DEF Inv, SharedInv
<1>1. Top.t \in Transports /\ phase[Top.t] # "none"
  BY TopType DEF TypeOK, StackSound, Top
<1>2. /\ phase' = [phase EXCEPT ![Top.t] = "none"]
      /\ stack' = SubSeq(stack, 1, Len(stack) - 1)
  BY DEF Released, CallReturns
<1>3. DyingIsBusy'
  BY <1>2, BusyAfterReturn DEF DyingIsBusy, TypeOK
<1>4. CASE Last
  <2>1. \A u \in Transports : phase[u] # "none" => u = Top.t
    BY <1>1, <1>4, OnlyAllocated DEF Last, CounterExact
  <2>2. QED BY <1>2, <1>3, <2>1 DEF SharedSetUp, TypeOK
<1>5. CASE ~Last
  BY <1>2, <1>3, <1>5 DEF Released, SharedSetUp, TypeOK
<1>6. QED BY <1>4, <1>5

LEMMA NextShared ==
  ASSUME ~NestedCreation, Inv, SharedInv, [Next]_vars
  PROVE  SharedInv'
<1> USE DEF Inv, SharedInv
<1>1. CASE LibraryInit \/ LibraryClose
  BY <1>1 DEF LibraryInit, LibraryClose, DyingIsBusy, SharedSetUp, Busy
<1>2. ASSUME NEW t \in Transports, NEW fault \in Faults, Create(t, fault)
      PROVE  SharedInv'
  BY <1>2, CreateShared
<1>3. ASSUME NEW t \in Transports, Stop(t)
      PROVE  SharedInv'
  <2>1. /\ stack' = Append(stack, [at |-> "detach", t |-> t])
        /\ UNCHANGED <<usrsctp, timer, chunkKnown, phase>>
    BY <1>3 DEF Stop, Detach, Call, global
  <2>2. QED BY <2>1, BusyAfterCall DEF DyingIsBusy, SharedSetUp, Callbacks
<1>4. ASSUME NEW t \in Transports, Drop(t)
      PROVE  SharedInv'
  <2>1. PICK at \in Callbacks : stack' = Append(stack, [at |-> at, t |-> t])
    BY <1>4 DEF Drop, Detach, Call, Callbacks
  <2>2. /\ phase[t] = "held" /\ phase' = [phase EXCEPT ![t] = "dropped"]
        /\ UNCHANGED <<usrsctp, timer, chunkKnown>>
    BY <1>4 DEF Drop, global
  <2>3. DyingIsBusy' BY <2>1, <2>2, BusyAfterCall DEF DyingIsBusy, TypeOK
  <2>4. SharedSetUp' BY <2>2 DEF SharedSetUp, TypeOK
  <2>5. QED BY <2>3, <2>4
<1>5. ASSUME stack # <<>>, Detached(Top.t) \/ Destroyed(Top.t)
      PROVE  SharedInv'
  <2>1. PICK at \in Callbacks :
          stack' = [stack EXCEPT ![Len(stack)] = [at |-> at, t |-> Top.t]]
    BY <1>5 DEF Detached, Destroyed, CallNext, Callbacks
  <2>2. UNCHANGED <<usrsctp, timer, chunkKnown, phase>>
    BY <1>5 DEF Detached, Destroyed, global
  <2>3. QED BY <1>5, <2>1, <2>2, BusyAfterCallNext DEF DyingIsBusy, SharedSetUp
<1>6. ASSUME stack # <<>>, Stopped(Top.t)
      PROVE  SharedInv'
  <2>1. /\ phase[Top.t] = "held"
        /\ stack' = SubSeq(stack, 1, Len(stack) - 1)
        /\ UNCHANGED <<usrsctp, timer, chunkKnown, phase>>
    BY <1>6 DEF Stopped, CallReturns, global
  <2>2. QED BY <1>6, <2>1, BusyAfterReturn DEF DyingIsBusy, SharedSetUp
<1>7. CASE Return
  BY <1>5, <1>6, <1>7, ReleasedShared DEF Return
<1>8. CASE UNCHANGED vars
  BY <1>8 DEF vars, DyingIsBusy, SharedSetUp, Busy
<1>9. QED BY <1>1, <1>2, <1>3, <1>4, <1>7, <1>8 DEF Next

(* A transport the application holds has usrsctp, a running timer and a     *)
(* known chunk size, as long as the application creates none in a callback  *)
(* of one whose creation has just failed.                                   *)
THEOREM ReadyCorrect ==
  ASSUME ~NestedCreation
  PROVE  Spec => []Ready
<1>1. Init => SharedInv
  BY DEF Init, SharedInv, DyingIsBusy, SharedSetUp
<1>2. Inv /\ SharedInv /\ [Next]_vars => SharedInv' BY NextShared
<1>3. SharedInv => Ready BY DEF SharedInv, SharedSetUp, Ready
<1>4. QED BY <1>1, <1>2, <1>3, AlwaysInv, PTL DEF Spec

(***************************************************************************)
(* The life of one transport                                               *)
(***************************************************************************)
(* The callbacks a transport is in.                                         *)
At(t) ==
  {at \in Callbacks : \E i \in 1 .. Len(stack) : stack[i] = [at |-> at, t |-> t]}

Order == <<"detach", "closed", "destroyed">>
Orders == {<<>>, <<"detach">>, <<"detach", "closed">>, Order}

(* What is recorded of a transport that has made its first k callbacks.     *)
Heard(h, k) == h \in Orders /\ (Len(h) = k \/ (Len(h) < k /\ MaxHeard =< Len(h)))

(* An allocated transport is idle, in one of its three callbacks, or idle   *)
(* after it was stopped.                                                    *)
Stage(t) ==
  \/ /\ At(t) = {} /\ phase[t] = "held"
     /\ ~detached[t] /\ ~closed[t] /\ Heard(heard[t], 0)
  \/ /\ At(t) = {"detach"}
     /\ detached[t] /\ Heard(heard[t], 1)
  \/ /\ At(t) = {"closed"}
     /\ detached[t] /\ closed[t] /\ Heard(heard[t], 2)
  \/ /\ At(t) = {"destroyed"} /\ phase[t] = "dropped"
     /\ detached[t] /\ closed[t] /\ Heard(heard[t], 3)
  \/ /\ At(t) = {} /\ phase[t] = "held"
     /\ detached[t] /\ closed[t] /\ Heard(heard[t], 2)

Life(t) ==
  /\ closed[t] \/ phase[t] = "none" => ~socket[t]
  /\ heard[t] \in Orders
  /\ phase[t] # "none" => Stage(t)

Lives == \A t \in Transports : Life(t)

(* The library is initialised while it is counted, and the timer stops with *)
(* the last transport.                                                      *)
UsedLibrary == (counter > 0 => usrsctp) /\ (timer => counter > 0)

LEMMA AppendOne ==
  ASSUME NEW a, NEW b
  PROVE  Append(<<a>>, b) = <<a, b>>
<1> DEFINE S == {a, b}
<1>1. <<a>> \in Seq(S) /\ Len(<<a>>) = 1 /\ <<a, b>> \in Seq(S) /\ Len(<<a, b>>) = 2
  OBVIOUS
<1>2. Append(<<a>>, b) \in Seq(S) /\ Len(Append(<<a>>, b)) = 2 BY <1>1
<1>3. ASSUME NEW i \in 1 .. 2 PROVE Append(<<a>>, b)[i] = <<a, b>>[i]
  <2>1. CASE i = 1 BY <1>1, <2>1
  <2>2. CASE i = 2 BY <1>1, <2>2
  <2>3. QED BY <2>1, <2>2
<1> HIDE DEF S
<1>4. QED BY <1>1, <1>2, <1>3, SeqEqual

LEMMA AppendTwo ==
  ASSUME NEW a, NEW b, NEW c
  PROVE  Append(<<a, b>>, c) = <<a, b, c>>
<1> DEFINE S == {a, b, c}
<1>1. /\ <<a, b>> \in Seq(S) /\ Len(<<a, b>>) = 2
      /\ <<a, b, c>> \in Seq(S) /\ Len(<<a, b, c>>) = 3
  OBVIOUS
<1>2. Append(<<a, b>>, c) \in Seq(S) /\ Len(Append(<<a, b>>, c)) = 3 BY <1>1
<1>3. ASSUME NEW i \in 1 .. 3 PROVE Append(<<a, b>>, c)[i] = <<a, b, c>>[i]
  <2>1. CASE i = 1 BY <1>1, <2>1
  <2>2. CASE i = 2 BY <1>1, <2>2
  <2>3. CASE i = 3 BY <1>1, <2>3
  <2>4. QED BY <2>1, <2>2, <2>3
<1> HIDE DEF S
<1>4. QED BY <1>1, <1>2, <1>3, SeqEqual

LEMMA ExtendHeard ==
  ASSUME NEW h, NEW k \in 1 .. 3, Heard(h, k - 1)
  PROVE  Heard(Extend(h, Order[k]), k)
<1>1. MaxHeard \in Nat BY LifecycleAssumption
<1>2. /\ Order[1] = "detach" /\ Order[2] = "closed" /\ Order[3] = "destroyed"
      /\ Order = <<"detach", "closed", "destroyed">>
  BY DEF Order
<1>3. Len(h) \in Nat BY DEF Heard, Orders, Order
<1>4. CASE Len(h) = k - 1 /\ Len(h) < MaxHeard
  <2>1. Extend(h, Order[k]) = Append(h, Order[k]) BY <1>4 DEF Extend
  <2>2. CASE h = <<>>
    <3>1. k = 1 BY <1>4, <2>2
    <3>2. Append(h, Order[k]) = <<"detach">> BY <1>2, <2>2, <3>1
    <3>3. QED BY <2>1, <3>1, <3>2 DEF Heard, Orders
  <2>3. CASE h = <<"detach">>
    <3>1. k = 2 BY <1>4, <2>3
    <3>2. Append(h, Order[k]) = <<"detach", "closed">>
      BY <1>2, <2>3, <3>1, AppendOne
    <3>3. QED BY <2>1, <3>1, <3>2 DEF Heard, Orders
  <2>4. CASE h = <<"detach", "closed">>
    <3>1. k = 3 BY <1>4, <2>4
    <3>2. Append(h, Order[k]) = Order BY <1>2, <2>4, <3>1, AppendTwo
    <3>3. Len(Order) = 3 BY DEF Order
    <3>4. QED BY <2>1, <3>1, <3>2, <3>3 DEF Heard, Orders
  <2>5. h # Order BY <1>4 DEF Order
  <2>6. QED BY <2>2, <2>3, <2>4, <2>5 DEF Heard, Orders
<1>5. CASE ~(Len(h) = k - 1 /\ Len(h) < MaxHeard)
  <2>1. MaxHeard =< Len(h) /\ Len(h) < k BY <1>1, <1>3, <1>5 DEF Heard
  <2>2. Extend(h, Order[k]) = h BY <1>1, <1>3, <2>1 DEF Extend
  <2>3. QED BY <2>1, <2>2 DEF Heard
<1>6. QED BY <1>4, <1>5

LEMMA HeardLength ==
  ASSUME NEW h, NEW k \in 0 .. 3, Heard(h, k)
  PROVE  Len(h) \in Nat /\ Len(h) =< k
<1>1. Len(h) \in Nat BY DEF Heard, Orders, Order
<1>2. QED BY <1>1 DEF Heard

LEMMA NotBusyAt == ASSUME NEW t, ~Busy(t) PROVE At(t) = {}
BY DEF At, Busy

LEMMA CallAt ==
  ASSUME TypeOK, NEW t \in Transports, NEW at \in Callbacks, ~Busy(t),
         stack' = Append(stack, [at |-> at, t |-> t])
  PROVE  At(t)' = {at} /\ \A u \in Transports \ {t} : At(u)' = At(u)
<1>1. /\ Len(stack) \in Nat /\ Len(stack') = Len(stack) + 1
      /\ \A i \in 1 .. Len(stack) : stack'[i] = stack[i]
      /\ stack'[Len(stack) + 1] = [at |-> at, t |-> t]
  BY FrameType, CallType DEF TypeOK
<1>2. \A i \in 1 .. Len(stack') :
         i \in 1 .. Len(stack) \/ i = Len(stack) + 1
  BY <1>1
<1>3. Len(stack) + 1 \in 1 .. Len(stack')
      /\ \A i \in 1 .. Len(stack) : i \in 1 .. Len(stack')
  BY <1>1
<1>4. At(t)' = {at}
  <2>1. \A i \in 1 .. Len(stack) : stack[i].t # t BY DEF Busy
  <2>2. QED BY <1>1, <1>2, <1>3, <2>1 DEF At
<1>5. ASSUME NEW u \in Transports, u # t PROVE At(u)' = At(u)
  BY <1>1, <1>2, <1>3, <1>5 DEF At
<1>6. QED BY <1>4, <1>5

LEMMA TopAt ==
  ASSUME TypeOK, StackSound, stack # <<>>, NEW t, t = Top.t
  PROVE  At(t) = {Top.at}
<1>1. /\ Len(stack) \in 1 .. Len(stack)
      /\ Top \in Frames /\ Top = stack[Len(stack)]
  BY TopType DEF Top, TypeOK
<1>2. Top = [at |-> Top.at, t |-> t] /\ Top.at \in Callbacks
  BY <1>1 DEF Frames
<1>3. \A i \in 1 .. Len(stack) : stack[i].t = t => i = Len(stack)
  BY <1>1 DEF StackSound
<1>4. QED BY <1>1, <1>2, <1>3 DEF At

LEMMA FrameEqual ==
  ASSUME NEW x, NEW y, NEW t, NEW u
  PROVE  [at |-> x, t |-> t] = [at |-> y, t |-> u] <=> x = y /\ t = u
<1>1. /\ [at |-> x, t |-> t].at = x /\ [at |-> x, t |-> t].t = t
      /\ [at |-> y, t |-> u].at = y /\ [at |-> y, t |-> u].t = u
  OBVIOUS
<1>2. QED BY <1>1, Zenon

LEMMA CallNextAt ==
  ASSUME TypeOK, StackSound, stack # <<>>, NEW at \in Callbacks,
         NEW t \in Transports, t = Top.t,
         stack' = [stack EXCEPT ![Len(stack)] = [at |-> at, t |-> t]]
  PROVE  At(t)' = {at} /\ \A u \in Transports \ {t} : At(u)' = At(u)
<1> DEFINE f == [at |-> at, t |-> t]
<1>1. /\ Len(stack) \in 1 .. Len(stack) /\ stack[Len(stack)].t = t
      /\ f \in Frames /\ f.at = at /\ f.t = t
  BY TopType, FrameType DEF Top, TypeOK
<1>2. /\ Len(stack') = Len(stack) /\ stack'[Len(stack)] = f
      /\ \A i \in 1 .. Len(stack) : i # Len(stack) => stack'[i] = stack[i]
  BY <1>1 DEF TypeOK
<1>3. \A i \in 1 .. Len(stack) : i # Len(stack) => stack[i].t # t
  BY <1>1 DEF StackSound
<1>4. \A x, u : f = [at |-> x, t |-> u] <=> x = at /\ u = t
  BY FrameEqual, Zenon DEF f
<1>5. \A s, x, u : s = [at |-> x, t |-> u] => s.t = u OBVIOUS
<1> HIDE DEF f
<1>6. ASSUME NEW x \in Callbacks
      PROVE  x \in At(t)' <=> x = at
  <2>1. ASSUME NEW i \in 1 .. Len(stack), stack'[i] = [at |-> x, t |-> t]
        PROVE  x = at
    <3>1. stack'[i].t = t BY <1>5, <2>1, Zenon
    <3>2. i = Len(stack) BY <1>2, <1>3, <3>1, Zenon
    <3>3. QED BY <1>2, <1>4, <2>1, <3>2, Zenon
  <2>2. x = at => stack'[Len(stack)] = [at |-> x, t |-> t] BY <1>2 DEF f
  <2>3. QED BY <1>1, <1>2, <2>1, <2>2 DEF At
<1>7. ASSUME NEW u \in Transports, u # t, NEW x \in Callbacks
      PROVE  x \in At(u)' <=> x \in At(u)
  <2>1. ASSUME NEW i \in 1 .. Len(stack)
        PROVE  stack'[i] = [at |-> x, t |-> u] <=> stack[i] = [at |-> x, t |-> u]
    <3>1. CASE i = Len(stack)
      <4>0. stack'[i] = f BY <1>2, <3>1
      <4>1. stack'[i] # [at |-> x, t |-> u] BY <1>4, <1>7, <4>0, Zenon
      <4>2. stack[i] # [at |-> x, t |-> u] BY <1>1, <1>5, <1>7, <3>1, Zenon
      <4>3. QED BY <4>1, <4>2
    <3>2. CASE i # Len(stack) BY <1>2, <3>2
    <3>3. QED BY <3>1, <3>2
  <2>2. QED BY <1>2, <2>1 DEF At
<1>8. QED BY <1>6, <1>7 DEF At

LEMMA ReturnAt ==
  ASSUME TypeOK, StackSound, stack # <<>>, NEW t \in Transports, t = Top.t,
         stack' = SubSeq(stack, 1, Len(stack) - 1)
  PROVE  At(t)' = {} /\ \A u \in Transports \ {t} : At(u)' = At(u)
<1> DEFINE n == Len(stack)
<1>1. n \in Nat \ {0} /\ n \in 1 .. n /\ stack[n].t = t
  BY TopType, NonEmpty DEF Top, TypeOK
<1>2. Len(stack') = n - 1 /\ \A i \in 1 .. n - 1 : stack'[i] = stack[i]
  BY ReturnType DEF TypeOK
<1>3. \A i \in 1 .. n - 1 : i \in 1 .. n /\ i # n BY <1>1
<1>4. \A i \in 1 .. n : i # n => i \in 1 .. n - 1 BY <1>1
<1>5. At(t)' = {} BY <1>1, <1>2, <1>3 DEF At, StackSound
<1>6. ASSUME NEW u \in Transports, u # t PROVE At(u)' = At(u)
  BY <1>1, <1>2, <1>3, <1>4, <1>6 DEF At
<1>7. QED BY <1>5, <1>6

(* A step of one transport leaves the life of the others alone.             *)
Alone(t) ==
  \A u \in Transports \ {t} :
    /\ phase'[u] = phase[u] /\ closed'[u] = closed[u]
    /\ detached'[u] = detached[u] /\ socket'[u] = socket[u]
    /\ heard'[u] = heard[u]

LEMMA OtherLives ==
  ASSUME Lives, NEW t \in Transports, Alone(t),
         \A u \in Transports \ {t} : At(u)' = At(u)
  PROVE  \A u \in Transports \ {t} : Life(u)'
<1> SUFFICES ASSUME NEW u \in Transports \ {t} PROVE Life(u)' OBVIOUS
<1>1. /\ Life(u) /\ At(u)' = At(u)
      /\ phase'[u] = phase[u] /\ closed'[u] = closed[u]
      /\ detached'[u] = detached[u] /\ socket'[u] = socket[u]
      /\ heard'[u] = heard[u]
  BY DEF Lives, Alone
<1>2. QED BY <1>1 DEF Life, Stage

LEMMA SameLives ==
  ASSUME Lives, UNCHANGED <<phase, closed, detached, socket, stack, heard>>
  PROVE  Lives'
BY DEF Lives, Life, Stage, At

LEMMA HeardFirst == Heard(<<>>, 0) /\ Heard(<<"detach">>, 1)
BY DEF Heard, Orders

LEMMA OrderDef == Order[1] = "detach" /\ Order[2] = "closed" /\ Order[3] = "destroyed"
BY DEF Order

LEMMA CreateLives ==
  ASSUME Inv, Lives, NEW t \in Transports, NEW fault \in Faults, Create(t, fault)
  PROVE  Lives'
<1> USE DEF Inv
<1>1. ~Busy(t) BY BusyFramed DEF Create, Framed
<1>2. CASE fault = "memory" BY <1>2, SameLives DEF Create
<1>3. CASE fault # "memory"
  <2>1. Alone(t) BY <1>3 DEF Create, Alone, TypeOK
  <2>2. closed'[t] = FALSE BY <1>3 DEF Create, TypeOK
  <2>3. CASE fault = "none"
    <3>1. /\ phase'[t] = "held" /\ detached'[t] = FALSE
          /\ heard'[t] = <<>> /\ stack' = stack
      BY <1>3, <2>3 DEF Create, TypeOK
    <3>2. At(t)' = {} /\ \A u \in Transports : At(u)' = At(u)
      BY <1>1, <3>1, NotBusyAt DEF At
    <3>3. Stage(t)' BY <2>2, <3>1, <3>2, HeardFirst DEF Stage
    <3>4. Life(t)' BY <2>2, <3>1, <3>3, HeardFirst DEF Life, Heard
    <3>5. QED BY <2>1, <3>2, <3>4, OtherLives DEF Lives
  <2>4. CASE fault # "none"
    <3>1. /\ phase'[t] = "failing" /\ detached'[t] = TRUE
          /\ heard'[t] = <<"detach">>
          /\ stack' = Append(stack, [at |-> "detach", t |-> t])
      BY <1>3, <2>4 DEF Create, TypeOK
    <3>2. At(t)' = {"detach"} /\ \A u \in Transports \ {t} : At(u)' = At(u)
      BY <1>1, <3>1, CallAt DEF Callbacks
    <3>3. Stage(t)' BY <3>1, <3>2, HeardFirst DEF Stage
    <3>4. Life(t)' BY <2>2, <3>1, <3>3, HeardFirst DEF Life, Heard
    <3>5. QED BY <2>1, <3>2, <3>4, OtherLives DEF Lives
  <2>5. QED BY <2>3, <2>4
<1>4. QED BY <1>2, <1>3

LEMMA DetachLives ==
  ASSUME Inv, Lives, NEW t \in Transports, phase[t] = "held",
         Stoppable(t), Detach(t), phase'[t] \in {"held", "dropped"},
         \A u \in Transports \ {t} : phase'[u] = phase[u],
         UNCHANGED <<closed, socket>>
  PROVE  Lives'
<1> USE DEF Inv
<1>1. ~Busy(t) BY BusyFramed DEF Stoppable, Framed
<1>2. /\ stack' = Append(stack, [at |-> "detach", t |-> t])
      /\ detached' = [detached EXCEPT ![t] = TRUE]
      /\ heard' = [heard EXCEPT ![t] = Extend(@, "detach")]
  BY DEF Detach, Call
<1>3. At(t)' = {"detach"} /\ \A u \in Transports \ {t} : At(u)' = At(u)
  BY <1>1, <1>2, CallAt DEF Callbacks
<1>4. /\ detached'[t] = TRUE
      /\ heard'[t] = Extend(heard[t], "detach")
      /\ Alone(t)
  BY <1>2 DEF TypeOK, Alone
<1>5. Heard(heard[t], 0) BY DEF Lives, Life, Stage, Stoppable
<1>6. Heard(heard'[t], 1) BY <1>4, <1>5, ExtendHeard, OrderDef
<1>7. Stage(t)' BY <1>3, <1>4, <1>6 DEF Stage
<1>8. Life(t)' BY <1>6, <1>7 DEF Life, Lives, Heard, Stoppable
<1>9. QED BY <1>3, <1>4, <1>8, OtherLives DEF Lives

LEMMA DropLives ==
  ASSUME Inv, Lives, NEW t \in Transports, Drop(t)
  PROVE  Lives'
<1> USE DEF Inv
<1>1. /\ phase[t] = "held" /\ ~Busy(t) /\ phase'[t] = "dropped"
      /\ \A u \in Transports \ {t} : phase'[u] = phase[u]
      /\ UNCHANGED <<closed, socket>>
  BY DEF Drop, TypeOK
<1>2. CASE Stoppable(t) BY <1>1, <1>2, DetachLives DEF Drop
<1>3. CASE ~Stoppable(t)
  <2>1. /\ stack' = Append(stack, [at |-> "destroyed", t |-> t])
        /\ heard' = [heard EXCEPT ![t] = Extend(@, "destroyed")]
        /\ detached' = detached
    BY <1>3 DEF Drop, Call
  <2>2. At(t)' = {"destroyed"} /\ \A u \in Transports \ {t} : At(u)' = At(u)
    BY <1>1, <2>1, CallAt DEF Callbacks
  <2>3. At(t) = {} BY <1>1, NotBusyAt
  <2>4. detached[t] /\ closed[t] /\ Heard(heard[t], 2)
    BY <1>1, <1>3, <2>3 DEF Lives, Life, Stage, Stoppable
  <2>5. heard'[t] = Extend(heard[t], "destroyed") /\ Alone(t)
    BY <1>1, <2>1 DEF TypeOK, Alone
  <2>6. Heard(heard'[t], 3) BY <2>4, <2>5, ExtendHeard, OrderDef
  <2>7. Stage(t)' BY <1>1, <2>1, <2>2, <2>4, <2>6 DEF Stage
  <2>8. Life(t)' BY <1>1, <2>4, <2>6, <2>7 DEF Life, Lives, Heard
  <2>9. QED BY <2>2, <2>5, <2>8, OtherLives DEF Lives
<1>4. QED BY <1>2, <1>3

(* The k-th callback of a transport follows its predecessor.                *)
LEMMA CallNextLives ==
  ASSUME Inv, Lives, stack # <<>>, NEW t \in Transports, t = Top.t,
         NEW k \in {2, 3}, CallNext(Order[k], t), Stage(t),
         k = 2 => At(t) = {"detach"},
         k = 3 => At(t) = {"closed"} /\ phase[t] = "dropped",
         closed' = [closed EXCEPT ![t] = TRUE],
         socket' = [socket EXCEPT ![t] = FALSE],
         UNCHANGED <<phase, detached>>
  PROVE  Lives'
<1> USE DEF Inv
<1>1. /\ stack' = [stack EXCEPT ![Len(stack)] = [at |-> Order[k], t |-> t]]
      /\ heard' = [heard EXCEPT ![t] = Extend(@, Order[k])]
  BY DEF CallNext
<1>2. Order[k] \in Callbacks BY OrderDef DEF Callbacks
<1>3. At(t)' = {Order[k]} /\ \A u \in Transports \ {t} : At(u)' = At(u)
  BY <1>1, <1>2, CallNextAt
<1>4. detached[t] /\ Heard(heard[t], k - 1)
  <2>1. CASE k = 2 BY <2>1 DEF Stage
  <2>2. CASE k = 3 BY <2>2 DEF Stage
  <2>3. QED BY <2>1, <2>2
<1>5. /\ heard'[t] = Extend(heard[t], Order[k])
      /\ closed'[t] /\ ~socket'[t] /\ detached'[t] /\ Alone(t)
  BY <1>1, <1>4 DEF TypeOK, Alone
<1>6. Heard(heard'[t], k) BY <1>4, <1>5, ExtendHeard
<1>7. Stage(t)' BY <1>3, <1>5, <1>6, OrderDef DEF Stage
<1>8. Life(t)' BY <1>5, <1>6, <1>7 DEF Life, Heard
<1>9. QED BY <1>3, <1>5, <1>8, OtherLives DEF Lives

LEMMA ReturnLives ==
  ASSUME Inv, Lives, stack # <<>>, NEW t \in Transports, t = Top.t,
         Detached(t) \/ Stopped(t) \/ Destroyed(t) \/ Released(t)
  PROVE  Lives'
<1> USE DEF Inv
<1>1. phase[t] # "none" BY TopType DEF TypeOK, StackSound, Top
<1>2. At(t) = {Top.at} /\ Stage(t) BY <1>1, TopAt DEF Lives, Life
<1>3. CASE Detached(t) \/ Destroyed(t)
  <2>1. CASE Detached(t)
    <3>1. CallNext(Order[2], t) /\ At(t) = {"detach"}
      BY <1>2, <2>1, OrderDef DEF Detached
    <3>2. PICK k \in {2, 3} : k = 2 OBVIOUS
    <3>3. /\ CallNext(Order[k], t)
          /\ k = 2 => At(t) = {"detach"}
          /\ k = 3 => At(t) = {"closed"} /\ phase[t] = "dropped"
      BY <3>1, <3>2
    <3>4. /\ closed' = [closed EXCEPT ![t] = TRUE]
          /\ socket' = [socket EXCEPT ![t] = FALSE]
          /\ UNCHANGED <<phase, detached>>
      BY <2>1 DEF Detached
    <3>5. QED BY <1>2, <3>3, <3>4, CallNextLives
  <2>2. CASE Destroyed(t)
    <3>1. CallNext(Order[3], t) /\ At(t) = {"closed"} /\ phase[t] = "dropped"
      BY <1>2, <2>2, OrderDef DEF Destroyed, Initialized
    <3>2. closed[t] /\ ~socket[t] BY <1>2, <3>1 DEF Stage, Lives, Life
    <3>3. /\ closed' = [closed EXCEPT ![t] = TRUE]
          /\ socket' = [socket EXCEPT ![t] = FALSE]
      BY <2>2, <3>2 DEF Destroyed, TypeOK
    <3>4. UNCHANGED <<phase, detached>> BY <2>2 DEF Destroyed
    <3>5. PICK k \in {2, 3} : k = 3 OBVIOUS
    <3>6. /\ CallNext(Order[k], t)
          /\ k = 2 => At(t) = {"detach"}
          /\ k = 3 => At(t) = {"closed"} /\ phase[t] = "dropped"
      BY <3>1, <3>5
    <3>7. QED BY <1>2, <3>3, <3>4, <3>6, CallNextLives
  <2>3. QED BY <1>3, <2>1, <2>2
<1>4. CASE Stopped(t) \/ Released(t)
  <2>1. /\ stack' = SubSeq(stack, 1, Len(stack) - 1)
        /\ phase' = phase \/ phase' = [phase EXCEPT ![t] = "none"]
        /\ UNCHANGED <<closed, detached, socket, heard>>
    BY <1>4 DEF Stopped, Released, CallReturns
  <2>2. At(t)' = {} /\ \A u \in Transports \ {t} : At(u)' = At(u)
    BY <2>1, ReturnAt
  <2>3. Alone(t) BY <2>1 DEF Alone, TypeOK
  <2>4. closed[t] /\ ~socket[t] /\ heard[t] \in Orders
    BY <1>2, <1>4 DEF Stopped, Released, Stage, Lives, Life
  <2>5. CASE Stopped(t)
    <3>1. Top.at = "closed" /\ phase' = phase /\ phase[t] = "held"
      BY <2>5 DEF Stopped
    <3>2. detached[t] /\ Heard(heard[t], 2) BY <1>2, <3>1 DEF Stage
    <3>3. Stage(t)' BY <2>1, <2>2, <2>4, <3>1, <3>2 DEF Stage
    <3>4. Life(t)' BY <2>1, <2>4, <3>3 DEF Life
    <3>5. QED BY <2>2, <2>3, <3>4, OtherLives DEF Lives
  <2>6. CASE Released(t)
    <3>1. phase'[t] = "none" BY <2>6 DEF Released, TypeOK
    <3>2. Life(t)' BY <2>1, <2>4, <3>1 DEF Life
    <3>3. QED BY <2>2, <2>3, <3>2, OtherLives DEF Lives
  <2>7. QED BY <1>4, <2>5, <2>6
<1>5. QED BY <1>3, <1>4

LEMMA NextLives ==
  ASSUME Inv, Lives, [Next]_vars
  PROVE  Lives'
<1>1. CASE LibraryInit \/ LibraryClose
  BY <1>1, SameLives DEF LibraryInit, LibraryClose
<1>2. ASSUME NEW t \in Transports, NEW fault \in Faults, Create(t, fault)
      PROVE  Lives'
  BY <1>2, CreateLives
<1>3. ASSUME NEW t \in Transports, Stop(t)
      PROVE  Lives'
  BY <1>3, DetachLives DEF Stop
<1>4. ASSUME NEW t \in Transports, Drop(t)
      PROVE  Lives'
  BY <1>4, DropLives
<1>5. CASE Return
  BY <1>5, TopType, ReturnLives DEF Return, Inv, TypeOK
<1>6. CASE UNCHANGED vars BY <1>6, SameLives DEF vars
<1>7. QED BY <1>1, <1>2, <1>3, <1>4, <1>5, <1>6 DEF Next

LEMMA NextUsed ==
  ASSUME Inv, UsedLibrary, [Next]_vars
  PROVE  UsedLibrary'
<1> USE DEF Inv
<1>0. counter \in Nat BY DEF TypeOK
<1>1. CASE LibraryInit
  BY <1>1 DEF LibraryInit, UsedLibrary, ClosedWithoutTransports
<1>2. CASE LibraryClose BY <1>2 DEF LibraryClose, UsedLibrary
<1>3. ASSUME NEW t \in Transports, NEW fault \in Faults, Create(t, fault)
      PROVE  UsedLibrary'
  <2>1. CASE fault = "memory"
    BY <1>0, <1>3, <2>1 DEF Create, Counted, UsedLibrary
  <2>2. CASE fault # "memory"
    BY <1>0, <1>3, <2>2 DEF Create, Counted, UsedLibrary
  <2>3. QED BY <2>1, <2>2
<1>4. ASSUME NEW t \in Transports, Stop(t) \/ Drop(t)
      PROVE  UsedLibrary'
  BY <1>4 DEF Stop, Drop, global, UsedLibrary
<1>5. ASSUME NEW t, Detached(t) \/ Stopped(t) \/ Destroyed(t)
      PROVE  UsedLibrary'
  BY <1>5 DEF Detached, Stopped, Destroyed, global, UsedLibrary
<1>6. ASSUME stack # <<>>, Released(Top.t)
      PROVE  UsedLibrary'
  <2>1. counter > 0
    BY <1>6, TopType, SomeAllocated DEF StackSound, Top, CounterExact, TypeOK
  <2>2. /\ counter' = counter - 1
        /\ timer' => timer /\ counter # 1
        /\ usrsctp /\ counter # 1 => usrsctp'
    BY <1>6 DEF Released, Last
  <2>3. QED BY <1>0, <2>1, <2>2 DEF UsedLibrary
<1>7. CASE Return BY <1>5, <1>6, <1>7 DEF Return
<1>8. CASE UNCHANGED vars BY <1>8 DEF vars, UsedLibrary
<1>9. QED BY <1>1, <1>2, <1>3, <1>4, <1>7, <1>8 DEF Next

LEMMA LivesCorrect == Spec => [](Inv /\ Lives /\ UsedLibrary)
<1>1. Init => Lives /\ UsedLibrary
  BY HeardFirst DEF Init, Lives, Life, UsedLibrary, Heard
<1>2. Inv /\ Lives /\ UsedLibrary /\ [Next]_vars => (Lives /\ UsedLibrary)'
  BY NextLives, NextUsed
<1>3. QED BY <1>1, <1>2, AlwaysInv, PTL DEF Spec

(* Every variable of the process keeps its type, the counter of the library *)
(* never goes below zero: for any number of transports.                     *)
THEOREM TypeCorrect == Spec => []TypeOK
<1>1. Inv => TypeOK BY DEF Inv
<1>2. QED BY <1>1, LivesCorrect, PTL

(* usrsctp runs while a transport has a socket, the timer ticks only while  *)
(* there is a transport: for any number of transports, whatever step of     *)
(* a creation fails.                                                        *)
THEOREM SharedCorrect == Spec => []SharedWhileUsed
<1>1. Inv /\ Lives /\ UsedLibrary => SharedWhileUsed
  <2> SUFFICES ASSUME Inv, Lives, UsedLibrary PROVE SharedWhileUsed OBVIOUS
  <2>1. ASSUME NEW t \in Transports, socket[t] PROVE usrsctp
    <3>1. phase[t] # "none" BY <2>1 DEF Lives, Life
    <3>2. QED BY <3>1, SomeAllocated DEF Inv, CounterExact, UsedLibrary
  <2>2. QED BY <2>1 DEF SharedWhileUsed, UsedLibrary
<1>2. QED BY <1>1, LivesCorrect, PTL

(* Each transport calls its handlers in order, each once, and says that it  *)
(* is destroyed only if it was ever handed out, however callbacks nest.     *)
THEOREM HandlersCorrect == Spec => []HandlersInOrder
<1>1. Lives => HandlersInOrder
  <2> SUFFICES ASSUME Lives, NEW t \in Transports
               PROVE  /\ heard[t] \in Orders
                      /\ phase[t] = "failing" => Len(heard[t]) < 3
    BY DEF HandlersInOrder, Orders, Order
  <2>1. Life(t) BY DEF Lives
  <2>2. ASSUME phase[t] = "failing" PROVE Len(heard[t]) < 3
    <3>1. Heard(heard[t], 1) \/ Heard(heard[t], 2)
      BY <2>1, <2>2 DEF Life, Stage
    <3>2. QED BY <3>1, HeardLength
  <2>3. QED BY <2>1, <2>2 DEF Life
<1>2. QED BY <1>1, LivesCorrect, PTL
=============================================================================
