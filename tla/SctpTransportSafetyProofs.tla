---------------------- MODULE SctpTransportSafetyProofs ----------------------
(***************************************************************************)
(* The safety properties of SctpTransport, for every value of the          *)
(* constants: some whatever the application does, the others under the     *)
(* contract with the application that the theorem names.                   *)
(***************************************************************************)
EXTENDS SctpTransportInvariants, SctpTransportProofs

(***************************************************************************)
(* The frames of a stack                                                   *)
(***************************************************************************)
LEMMA FramesPush ==
  ASSUME NEW s \in Seq(Frames), NEW f \in Frames
  PROVE  FramesOn(Push(s, f)) = FramesOn(s) \cup {f}
<1>1. /\ Len(Push(s, f)) = Len(s) + 1
      /\ \A i \in 1 .. Len(s) : Push(s, f)[i] = s[i]
      /\ Push(s, f)[Len(s) + 1] = f
  BY PushType
<1>2. 1 .. Len(Push(s, f)) = (1 .. Len(s)) \cup {Len(s) + 1}
  BY <1>1
<1>3. QED
  BY <1>1, <1>2 DEF FramesOn

LEMMA FramesPop ==
  ASSUME NEW s \in Seq(Frames), s # <<>>
  PROVE  /\ FramesOn(Pop(s)) \subseteq FramesOn(s)
         /\ FramesOn(s) \subseteq FramesOn(Pop(s)) \cup {s[Len(s)]}
<1>1. /\ Len(Pop(s)) = Len(s) - 1 /\ Len(s) \in Nat \ {0}
      /\ \A i \in 1 .. Len(s) - 1 : Pop(s)[i] = s[i]
  BY PopType
<1>2. 1 .. Len(s) = (1 .. Len(s) - 1) \cup {Len(s)}
  BY <1>1
<1>3. QED
  BY <1>1, <1>2 DEF FramesOn

LEMMA FramesReplace ==
  ASSUME NEW s \in Seq(Frames), s # <<>>, NEW f \in Frames
  PROVE  /\ FramesOn(Replace(s, f)) \subseteq FramesOn(s) \cup {f}
         /\ FramesOn(s) \subseteq FramesOn(Replace(s, f)) \cup {s[Len(s)]}
         /\ f \in FramesOn(Replace(s, f))
<1>1. /\ Len(Replace(s, f)) = Len(s) /\ Len(s) \in Nat \ {0}
      /\ \A i \in 1 .. Len(s) - 1 : Replace(s, f)[i] = s[i]
      /\ Replace(s, f)[Len(s)] = f
  BY ReplaceType
<1>2. 1 .. Len(s) = (1 .. Len(s) - 1) \cup {Len(s)}
  BY <1>1
<1>3. QED
  BY <1>1, <1>2 DEF FramesOn

(* The first n frames stay, those of `in' come to lie on them; only the last *)
(* of them is a callback.                                                   *)
Atop(n, added) ==
  /\ n <= Len(stack')
  /\ \A i \in 1 .. n : stack'[i] = stack[i]
  /\ \A i \in n + 1 .. Len(stack') : stack'[i] \in added
  /\ \A i \in n + 1 .. Len(stack') - 1 : stack'[i].at \notin Callbacks

(* What a step does to the frames: the one in `out' may be gone, those in   *)
(* `in' have come.                                                          *)
Moved(out, added) ==
  /\ FramesOn(stack)' \subseteq FramesOn(stack) \cup added
  /\ added \subseteq FramesOn(stack)'
  /\ FramesOn(stack) \subseteq FramesOn(stack)' \cup out
  /\ Atop(IF out = {} THEN Len(stack) ELSE Len(stack) - 1, added)

LEMMA AtopPush ==
  ASSUME NEW s \in Seq(Frames), NEW n \in Nat, NEW added, NEW f \in Frames, NEW g \in Frames,
         n <= Len(s),
         \A i \in 1 .. n : s[i] = stack[i],
         \A i \in n + 1 .. Len(s) : s[i] \in added,
         \A i \in n + 1 .. Len(s) : s[i].at \notin Callbacks
  PROVE  /\ stack' = s => Atop(n, added)
         /\ stack' = Push(s, f) => Atop(n, added \cup {f})
         /\ stack' = Push(Push(s, f), g) /\ f.at \notin Callbacks
              => Atop(n, added \cup {f, g})
<1>0. Len(s) \in Nat
  BY LenProperties
<1>1. ASSUME stack' = s PROVE Atop(n, added)
  BY <1>0, <1>1 DEF Atop
<1>2. ASSUME stack' = Push(s, f) PROVE Atop(n, added \cup {f})
  <2>1. /\ Len(stack') = Len(s) + 1 /\ stack'[Len(s) + 1] = f
        /\ \A i \in 1 .. Len(s) : stack'[i] = s[i]
    BY <1>2, PushType
  <2>2. QED
    BY <1>0, <2>1 DEF Atop
<1>3. ASSUME stack' = Push(Push(s, f), g), f.at \notin Callbacks
      PROVE  Atop(n, added \cup {f, g})
  <2>1. /\ Push(s, f) \in Seq(Frames) /\ Len(Push(s, f)) = Len(s) + 1
        /\ Push(s, f)[Len(s) + 1] = f
        /\ \A i \in 1 .. Len(s) : Push(s, f)[i] = s[i]
    BY PushType
  <2>2. /\ Len(stack') = Len(s) + 2 /\ stack'[Len(s) + 2] = g
        /\ \A i \in 1 .. Len(s) + 1 : stack'[i] = Push(s, f)[i]
    <3> DEFINE p == Push(s, f)
    <3>1. p \in Seq(Frames) /\ Len(p) = Len(s) + 1 /\ stack' = Push(p, g)
      BY <1>3, <2>1
    <3> HIDE DEF p
    <3>2. /\ Len(stack') = Len(p) + 1 /\ stack'[Len(p) + 1] = g
          /\ \A i \in 1 .. Len(p) : stack'[i] = p[i]
      BY <3>1, PushType
    <3>3. QED
      BY <1>0, <3>1, <3>2 DEF p
  <2>3. /\ stack'[Len(s) + 1] = f
        /\ \A i \in 1 .. Len(s) : stack'[i] = s[i]
    BY <1>0, <2>1, <2>2
  <2>4. \A i \in n + 1 .. Len(s) + 2 : i \in n + 1 .. Len(s) \/ i = Len(s) + 1 \/ i = Len(s) + 2
    BY <1>0
  <2>5. \A i \in n + 1 .. Len(stack') : stack'[i] \in added \cup {f, g}
    BY <1>0, <2>2, <2>3, <2>4
  <2>6. \A i \in n + 1 .. Len(stack') - 1 : stack'[i].at \notin Callbacks
    BY <1>0, <1>3, <2>2, <2>3, <2>4
  <2>7. n <= Len(stack') /\ \A i \in 1 .. n : stack'[i] = stack[i]
    BY <1>0, <2>2, <2>3
  <2>8. QED
    BY <2>5, <2>6, <2>7 DEF Atop
<1>4. QED
  BY <1>1, <1>2, <1>3

LEMMA MovedPush ==
  ASSUME TypeOK, NEW f \in Frames
  PROVE  /\ stack' = Push(stack, f) => Moved({}, {f})
         /\ \A g \in Frames :
              stack' = Push(Push(stack, f), g) /\ f.at \notin Callbacks
                => Moved({}, {f, g})
<1>1. stack \in Seq(Frames) /\ Len(stack) \in Nat
  BY LenProperties DEF TypeOK
<1>2. Push(stack, f) \in Seq(Frames)
  BY <1>1, PushType
<1>3. /\ Len(stack) <= Len(stack)
      /\ \A i \in 1 .. Len(stack) : stack[i] = stack[i]
      /\ \A i \in Len(stack) + 1 .. Len(stack) :
            stack[i] \in {} /\ stack[i].at \notin Callbacks
  BY <1>1
<1>4. ASSUME stack' = Push(stack, f)
      PROVE  Moved({}, {f})
  <2>1. Atop(Len(stack), {} \cup {f})
    BY <1>1, <1>3, <1>4, AtopPush
  <2>2. QED
    BY <1>1, <1>4, <2>1, FramesPush DEF Moved
<1>5. ASSUME NEW g \in Frames, stack' = Push(Push(stack, f), g), f.at \notin Callbacks
      PROVE  Moved({}, {f, g})
  <2>1. FramesOn(stack') = (FramesOn(stack) \cup {f}) \cup {g}
    BY <1>1, <1>2, <1>5, FramesPush
  <2>2. Atop(Len(stack), {} \cup {f, g})
    BY <1>1, <1>3, <1>5, AtopPush
  <2>3. QED
    BY <2>1, <2>2 DEF Moved
<1>6. QED
  BY <1>4, <1>5

LEMMA MovedPop ==
  ASSUME TypeOK, ~Idle, stack' = Pop(stack)
  PROVE  Moved({Top}, {})
<1>1. stack \in Seq(Frames) /\ stack # <<>> /\ Len(stack) \in Nat
  BY LenProperties DEF TypeOK, Idle
<1>2. Len(stack') = Len(stack) - 1 /\ \A i \in 1 .. Len(stack) - 1 : stack'[i] = stack[i]
  BY <1>1, PopType
<1>3. Atop(Len(stack) - 1, {})
  BY <1>1, <1>2 DEF Atop
<1>4. QED
  BY <1>1, <1>3, FramesPop DEF Top, Moved

LEMMA MovedReplace ==
  ASSUME TypeOK, ~Idle, NEW f \in Frames
  PROVE  /\ stack' = Replace(stack, f) => Moved({Top}, {f})
         /\ \A g \in Frames :
              stack' = Push(Replace(stack, f), g) /\ f.at \notin Callbacks
                => Moved({Top}, {f, g})
         /\ \A g, h \in Frames :
              (/\ stack' = Push(Push(Replace(stack, f), g), h)
               /\ f.at \notin Callbacks /\ g.at \notin Callbacks)
                => Moved({Top}, {f, g, h})
<1> DEFINE r == Replace(stack, f)
           n == Len(stack) - 1
<1>1. /\ r \in Seq(Frames)
      /\ FramesOn(r) \subseteq FramesOn(stack) \cup {f}
      /\ FramesOn(stack) \subseteq FramesOn(r) \cup {Top}
      /\ f \in FramesOn(r)
  BY ReplaceType, FramesReplace DEF TypeOK, Idle, Top
<1>2. /\ n \in Nat /\ Len(r) = n + 1 /\ r[n + 1] = f
      /\ \A i \in 1 .. n : r[i] = stack[i]
  <2>1. Len(stack) \in Nat \ {0} /\ stack \in Seq(Frames) /\ stack # <<>>
    BY LenProperties, EmptySeq DEF TypeOK, Idle
  <2>2. /\ Len(r) = Len(stack) /\ r[Len(stack)] = f
        /\ \A i \in 1 .. Len(stack) - 1 : r[i] = stack[i]
    BY <2>1, ReplaceType
  <2> HIDE DEF r
  <2>3. QED
    BY <2>1, <2>2
<1> HIDE DEF r
<1>3. ASSUME stack' = r PROVE Moved({Top}, {f})
  <2>1. Atop(n, {f})
    BY <1>2, <1>3 DEF Atop
  <2>2. QED
    BY <1>1, <1>3, <2>1 DEF Moved
<1>4. n <= Len(r) /\ \A i \in n + 1 .. Len(r) : r[i] = f
  BY <1>2
<1>5. ASSUME NEW g \in Frames, stack' = Push(r, g), f.at \notin Callbacks
      PROVE  Moved({Top}, {f, g})
  <2>1. FramesOn(stack') = FramesOn(r) \cup {g}
    BY <1>1, <1>5, FramesPush
  <2>2. Atop(n, {f} \cup {g})
    <3>1. \A i \in n + 1 .. Len(r) : r[i] \in {f} /\ r[i].at \notin Callbacks
      BY <1>4, <1>5
    <3>2. QED
      BY <1>1, <1>2, <1>4, <1>5, <3>1, AtopPush
  <2>3. QED
    BY <1>1, <2>1, <2>2 DEF Moved
<1>6. ASSUME NEW g \in Frames, NEW h \in Frames, stack' = Push(Push(r, g), h),
             f.at \notin Callbacks, g.at \notin Callbacks
      PROVE  Moved({Top}, {f, g, h})
  <2>1. FramesOn(stack') = (FramesOn(r) \cup {g}) \cup {h}
    BY <1>1, <1>6, FramesPush, PushType
  <2>2. Atop(n, {f} \cup {g, h})
    <3>1. \A i \in n + 1 .. Len(r) : r[i] \in {f} /\ r[i].at \notin Callbacks
      BY <1>4, <1>6
    <3>2. QED
      BY <1>1, <1>2, <1>4, <1>6, <3>1, AtopPush
  <2>3. QED
    BY <1>1, <2>1, <2>2 DEF Moved
<1>7. QED
  BY <1>3, <1>5, <1>6 DEF r

LEMMA TopOn ==
  ASSUME TypeOK
  PROVE  /\ ~Idle => Top \in FramesOn(stack)
         /\ Idle => FramesOn(stack) = {}
         /\ FramesOn(stack) \subseteq Frames
BY DEF TypeOK, Idle, Top, FramesOn

LEMMA FrameFields ==
  ASSUME NEW f \in Frames
  PROVE  /\ f.at \in Callbacks \cup Continuations
         /\ f.ch \in Channels \cup {NoChannel}
         /\ f.sid \in 0 .. NChannels
         /\ f.at \in OfChannel => f.ch \in Channels
         /\ f.at \notin Loops => f.sid \in Sids
BY DEF Frames

(* What a call of the application has been checked against.                 *)
LEMMA CallAllowed ==
  ASSUME NEW op, MayCall(op)
  PROVE  /\ Idle \/ InCallback
         /\ \A f \in FramesOn(stack) : <<f.at, op>> \notin Forbidden
         /\ tstate = "closed" => <<"stopped", op>> \notin Forbidden
BY DEF MayCall, AppRuns, FramesOn

LEMMA CloseAllowed ==
  ASSUME NEW c, MayClose(c)
  PROVE  /\ Idle \/ InCallback
         /\ \A f \in FramesOn(stack) : f.ch = c => <<f.at, "close">> \notin Forbidden
BY DEF MayClose, AppRuns, FramesOn

(***************************************************************************)
(* The shape of the stack                                                  *)
(***************************************************************************)
LEMMA FitsNotBase ==
  ASSUME NEW f, NEW g, Fits(f, g)
  PROVE  g.at \notin BaseFrames
BY DEF Fits, BaseFrames, Dropping

LEMMA ShapedSingle ==
  ASSUME NEW s \in Seq(Frames), Len(s) = 1
  PROVE  Shaped(s)
BY DEF Shaped

LEMMA ShapedPush ==
  ASSUME NEW s \in Seq(Frames), NEW f \in Frames, Shaped(s),
         s # <<>> => Fits(s[Len(s)], f),
         s # <<>> /\ Len(s) >= 2 =>
           (s[Len(s) - 1].at = "close_channels" => f.at = "teardown")
  PROVE  Shaped(Push(s, f))
<1> DEFINE p == Push(s, f)
<1>1. /\ p \in Seq(Frames) /\ Len(p) = Len(s) + 1 /\ Len(s) \in Nat
      /\ \A i \in 1 .. Len(s) : p[i] = s[i]
      /\ p[Len(s) + 1] = f
  <2>1. Len(s) \in Nat
    BY LenProperties
  <2>2. QED
    BY <2>1, PushType
<1> HIDE DEF p
<1>2. ASSUME NEW i \in 1 .. Len(p) - 1
      PROVE  Fits(p[i], p[i + 1])
  <2>1. CASE i = Len(s)
    <3>1. s # <<>> /\ p[i] = s[Len(s)] /\ p[i + 1] = f
      BY <1>1, <1>2, <2>1
    <3>2. QED
      BY <3>1
  <2>2. CASE i # Len(s)
    <3>1. i \in 1 .. Len(s) - 1 /\ p[i] = s[i] /\ p[i + 1] = s[i + 1]
      BY <1>1, <1>2, <2>2
    <3>2. QED
      BY <3>1 DEF Shaped
  <2>3. QED
    BY <2>1, <2>2
<1>3. ASSUME NEW i \in 1 .. Len(p) - 2, p[i].at = "close_channels"
      PROVE  p[i + 2].at = "teardown"
  <2>1. CASE i = Len(s) - 1
    <3>1. s # <<>> /\ Len(s) >= 2 /\ p[i] = s[Len(s) - 1] /\ p[i + 2] = f
      BY <1>1, <1>3, <2>1
    <3>2. QED
      BY <1>3, <3>1
  <2>2. CASE i # Len(s) - 1
    <3>1. i \in 1 .. Len(s) - 2 /\ p[i] = s[i] /\ p[i + 2] = s[i + 2]
      BY <1>1, <1>3, <2>2
    <3>2. QED
      BY <1>3, <3>1 DEF Shaped
  <2>3. QED
    BY <2>1, <2>2
<1>4. Shaped(p)
  BY <1>2, <1>3 DEF Shaped
<1>5. QED
  BY <1>4 DEF p

LEMMA ShapedPop ==
  ASSUME NEW s \in Seq(Frames), s # <<>>, Shaped(s)
  PROVE  Shaped(Pop(s))
<1>1. /\ Len(Pop(s)) = Len(s) - 1 /\ Len(s) \in Nat \ {0}
      /\ \A i \in 1 .. Len(s) - 1 : Pop(s)[i] = s[i]
  BY PopType
<1>2. QED
  BY <1>1 DEF Shaped

(* A frame may be replaced by one that fits on the same frames.             *)
LEMMA ShapedReplace ==
  ASSUME NEW s \in Seq(Frames), s # <<>>, NEW f \in Frames, Shaped(s),
         s[Len(s)].at # "teardown",
         \A g \in Frames : Fits(g, s[Len(s)]) => Fits(g, f)
  PROVE  Shaped(Replace(s, f))
<1> DEFINE r == Replace(s, f)
<1>1. /\ r \in Seq(Frames) /\ Len(r) = Len(s) /\ Len(s) \in Nat \ {0}
      /\ \A i \in 1 .. Len(s) - 1 : r[i] = s[i]
      /\ r[Len(s)] = f
      /\ \A i \in 1 .. Len(s) : s[i] \in Frames
  <2>1. Len(s) \in Nat /\ Len(s) # 0 /\ \A i \in 1 .. Len(s) : s[i] \in Frames
    BY LenProperties, ElementOfSeq, EmptySeq
  <2>2. QED
    BY <2>1, ReplaceType
<1> HIDE DEF r
<1>2. ASSUME NEW i \in 1 .. Len(r) - 1
      PROVE  Fits(r[i], r[i + 1])
  <2>0. i \in 1 .. Len(s) - 1 /\ r[i] = s[i] /\ s[i] \in Frames /\ Fits(s[i], s[i + 1])
    BY <1>1, <1>2 DEF Shaped
  <2>1. CASE i + 1 = Len(s)
    BY <1>1, <2>0, <2>1
  <2>2. CASE i + 1 # Len(s)
    <3>1. r[i + 1] = s[i + 1]
      BY <1>1, <2>0, <2>2
    <3>2. QED
      BY <2>0, <3>1
  <2>3. QED
    BY <2>1, <2>2
<1>3. ASSUME NEW i \in 1 .. Len(r) - 2, r[i].at = "close_channels"
      PROVE  r[i + 2].at = "teardown"
  <2>1. i \in 1 .. Len(s) - 2 /\ i \in 1 .. Len(s) - 1 /\ s[i].at = "close_channels"
    BY <1>1, <1>3
  <2>2. s[i + 2].at = "teardown"
    BY <2>1 DEF Shaped
  <2>3. i + 2 # Len(s)
    BY <2>2
  <2>4. r[i + 2] = s[i + 2]
    BY <1>1, <2>1, <2>3
  <2>5. QED
    BY <2>2, <2>4
<1>4. Shaped(r)
  BY <1>2, <1>3 DEF Shaped
<1>5. QED
  BY <1>4 DEF r

(* A frame of an event is alone when it runs.                               *)
LEMMA BaseAlone ==
  ASSUME TypeOK, Shape, ~Idle, Top.at \in BaseFrames
  PROVE  Len(stack) = 1 /\ FramesOn(stack) = {Top}
<1>1. stack \in Seq(Frames) /\ Len(stack) \in Nat \ {0}
  BY DEF TypeOK, Idle
<1>2. ASSUME Len(stack) # 1 PROVE FALSE
  <2>0. \A n \in Nat \ {0} : n # 1 => n - 1 \in 1 .. n - 1
    OBVIOUS
  <2>1. Len(stack) - 1 \in 1 .. Len(stack) - 1
    BY <1>1, <1>2, <2>0
  <2>2. Fits(stack[Len(stack) - 1], stack[Len(stack) - 1 + 1])
    BY <2>1 DEF Shape, Shaped
  <2>3. stack[Len(stack) - 1 + 1] = Top
    BY <1>1 DEF Top
  <2>4. QED
    BY <2>2, <2>3, FitsNotBase
<1>3. QED
  BY <1>1, <1>2 DEF FramesOn, Top

(* A continuation that does not run lies under the callback it waits for.   *)
LEMMA Covered ==
  ASSUME TypeOK, Shape, InCallback, NEW f \in FramesOn(stack)
  PROVE  /\ f.at = "close_channels" => \E g \in FramesOn(stack) : g.at = "teardown"
         /\ f.at = "detached" => \E g \in FramesOn(stack) : g.at = "detach"
         /\ f.at = "mtu" => \E g \in FramesOn(stack) : g.at = "connecting"
         /\ f.at = "open_channels" => \E g \in FramesOn(stack) : g.at = "open_all"
         /\ f.at = "register" =>
              \E g \in FramesOn(stack) : g.at = "channel" /\ g.ch = f.ch
         /\ f.at \in Dropping =>
              \E g \in FramesOn(stack) : g.at \in {"close", "teardown"}
<1>1. stack \in Seq(Frames) /\ Len(stack) \in Nat \ {0} /\ Top.at \in Callbacks
  BY DEF TypeOK, InCallback, Idle
<1>2. PICK i \in 1 .. Len(stack) : f = stack[i]
  BY DEF FramesOn
<1>3. CASE f.at \in Callbacks
  BY <1>3 DEF Callbacks, Dropping
<1>4. CASE f.at \notin Callbacks
  <2>1. i # Len(stack)
    BY <1>1, <1>2, <1>4 DEF Top
  <2>2. i \in 1 .. Len(stack) - 1 /\ i + 1 \in 1 .. Len(stack)
    BY <1>1, <2>1
  <2>3. Fits(f, stack[i + 1]) /\ stack[i + 1] \in FramesOn(stack)
    BY <1>2, <2>2 DEF Shape, Shaped, FramesOn
  <2>4. CASE f.at = "close_channels"
    <3>1. stack[i + 1].at = "drop"
      BY <2>3, <2>4 DEF Fits, Callbacks
    <3>2. i + 1 # Len(stack)
      BY <1>1, <3>1 DEF Top, Callbacks
    <3>3. i \in 1 .. Len(stack) - 2 /\ i + 2 \in 1 .. Len(stack)
      BY <1>1, <2>2, <3>2
    <3>4. stack[i + 2].at = "teardown" /\ stack[i + 2] \in FramesOn(stack)
      BY <1>2, <2>4, <3>3 DEF Shape, Shaped, FramesOn
    <3>5. QED
      BY <2>4, <3>4 DEF Dropping
  <2>5. CASE f.at # "close_channels"
    BY <1>4, <2>3, <2>5 DEF Fits, Dropping
  <2>6. QED
    BY <2>4, <2>5
<1>5. QED
  BY <1>3, <1>4

LEMMA PushLength ==
  ASSUME NEW s \in Seq(Frames), NEW f \in Frames
  PROVE  /\ Push(s, f) \in Seq(Frames) /\ Push(s, f) # <<>>
         /\ Len(Push(s, f)) = Len(s) + 1 /\ Len(s) \in Nat
         /\ Push(s, f)[Len(Push(s, f))] = f
         /\ s # <<>> => Push(s, f)[Len(Push(s, f)) - 1] = s[Len(s)]
         /\ s = <<>> => Len(Push(s, f)) = 1
         /\ \A i \in 1 .. Len(s) : Push(s, f)[i] = s[i]
<1>1. Len(s) \in Nat /\ (s # <<>> => Len(s) \in 1 .. Len(s)) /\ (s = <<>> => Len(s) = 0)
  BY LenProperties, EmptySeq
<1>2. /\ Push(s, f) \in Seq(Frames) /\ Len(Push(s, f)) = Len(s) + 1
      /\ Push(s, f)[Len(s) + 1] = f
      /\ \A i \in 1 .. Len(s) : Push(s, f)[i] = s[i]
  BY PushType
<1>3. Push(s, f) # <<>>
  <2>1. Len(Push(s, f)) # 0
    BY <1>1, <1>2
  <2>2. QED
    BY <2>1, EmptySeq
<1>4. Len(s) + 1 - 1 = Len(s)
  BY <1>1
<1>5. QED
  BY <1>1, <1>2, <1>3, <1>4

(* The ways in which a step changes the stack keep its shape.               *)
OnCallback == {"created", "mtu", "close_channels", "drop_if", "detached", "closed"}

LEMMA ShapePushOne ==
  ASSUME TypeOK, Shape, NEW f \in Frames, stack' = Push(stack, f),
         Idle \/ (InCallback /\ f.at \in OnCallback)
  PROVE  Shape'
<1>1. stack \in Seq(Frames) /\ Shaped(stack)
  BY DEF TypeOK, Shape
<1>2. CASE Idle
  <2>1. Push(stack, f) \in Seq(Frames) /\ Len(Push(stack, f)) = 1
    BY <1>1, <1>2, PushLength DEF Idle
  <2>2. QED
    BY <2>1, ShapedSingle DEF Shape
<1>3. CASE InCallback /\ f.at \in OnCallback
  <2>1. Fits(Top, f)
    BY <1>3 DEF InCallback, OnCallback, Fits
  <2>2. ASSUME Len(stack) >= 2, stack[Len(stack) - 1].at = "close_channels"
        PROVE  FALSE
    <3>1. Len(stack) - 1 \in 1 .. Len(stack) - 1 /\ Len(stack) - 1 + 1 = Len(stack)
      BY <1>1, <2>2, LenProperties
    <3>2. Fits(stack[Len(stack) - 1], Top)
      BY <1>1, <3>1 DEF Shaped, Top
    <3>3. QED
      BY <1>3, <2>2, <3>2 DEF Fits, InCallback, Callbacks
  <2>3. Shaped(Push(stack, f))
    BY <1>1, <2>1, <2>2, ShapedPush DEF Top
  <2>4. QED
    BY <2>3 DEF Shape
<1>4. QED
  BY <1>2, <1>3

LEMMA ShapePushTwo ==
  ASSUME TypeOK, Shape, NEW f \in Frames, NEW g \in Frames,
         stack' = Push(Push(stack, f), g), Fits(f, g),
         Idle \/ (InCallback /\ f.at \in OnCallback)
  PROVE  Shape'
<1> DEFINE s == Push(stack, f)
<1>1. stack \in Seq(Frames) /\ Len(stack) \in Nat
  BY LenProperties DEF TypeOK
<1>2. /\ s \in Seq(Frames) /\ Len(s) = Len(stack) + 1 /\ s[Len(s)] = f /\ s # <<>>
      /\ \A i \in 1 .. Len(stack) : s[i] = stack[i]
      /\ stack = <<>> => Len(s) = 1
  BY <1>1, PushLength
<1>3. Shaped(s)
  <2>1. CASE Idle
    BY <1>2, <2>1, ShapedSingle DEF Idle
  <2>2. CASE InCallback /\ f.at \in OnCallback
    <3>1. Fits(Top, f)
      BY <2>2 DEF InCallback, OnCallback, Fits
    <3>2. ASSUME Len(stack) >= 2, stack[Len(stack) - 1].at = "close_channels"
          PROVE  FALSE
      <4>1. Len(stack) - 1 \in 1 .. Len(stack) - 1 /\ Len(stack) - 1 + 1 = Len(stack)
        BY <1>1, <3>2
      <4>2. Fits(stack[Len(stack) - 1], Top)
        BY <4>1 DEF Shape, Shaped, Top
      <4>3. QED
        BY <2>2, <3>2, <4>2 DEF Fits, InCallback, Callbacks
    <3>3. QED
      BY <1>1, <3>1, <3>2, ShapedPush DEF Top, Shape
  <2>3. QED
    BY <2>1, <2>2
<1>4. ASSUME Len(s) >= 2 PROVE s[Len(s) - 1].at # "close_channels"
  <2>1. Len(stack) \in 1 .. Len(stack) /\ Len(s) - 1 = Len(stack)
    BY <1>1, <1>2, <1>4
  <2>2. s[Len(s) - 1] = Top
    BY <1>2, <2>1 DEF Top
  <2>3. InCallback
    BY <1>1, <2>1 DEF Idle
  <2>4. QED
    BY <2>2, <2>3 DEF InCallback, Callbacks
<1> HIDE DEF s
<1>5. Shaped(Push(s, g))
  BY <1>2, <1>3, <1>4, ShapedPush
<1>6. QED
  BY <1>5 DEF Shape, s

LEMMA ShapeReplaceOne ==
  ASSUME TypeOK, Shape, ~Idle, Top.at \notin Callbacks, NEW f \in Frames,
         \A g \in Frames : Fits(g, Top) => Fits(g, f)
  PROVE  /\ Shaped(Replace(stack, f))
         /\ stack' = Replace(stack, f) => Shape'
<1>1. stack \in Seq(Frames) /\ stack # <<>> /\ Top.at # "teardown"
  BY DEF TypeOK, Idle, Callbacks
<1>2. Shaped(Replace(stack, f))
  BY <1>1, ShapedReplace DEF Shape, Top
<1>3. QED
  BY <1>2 DEF Shape

LEMMA ShapeReplacePush ==
  ASSUME TypeOK, Shape, ~Idle, Top.at \notin Callbacks \cup {"drop"},
         NEW f \in Frames, NEW g \in Frames, NEW h \in Frames,
         \A k \in Frames : Fits(k, Top) => Fits(k, f),
         Fits(f, g)
  PROVE  /\ stack' = Push(Replace(stack, f), g) => Shape'
         /\ (/\ stack' = Push(Push(Replace(stack, f), g), h)
             /\ Fits(g, h)
             /\ f.at = "close_channels" => h.at = "teardown") => Shape'
<1> DEFINE r == Replace(stack, f)
           p == Push(r, g)
<1>1. stack \in Seq(Frames) /\ stack # <<>> /\ Len(stack) \in Nat \ {0}
  BY LenProperties, EmptySeq DEF TypeOK, Idle
<1>2. /\ r \in Seq(Frames) /\ Len(r) = Len(stack) /\ r[Len(r)] = f
      /\ \A i \in 1 .. Len(stack) - 1 : r[i] = stack[i]
  BY <1>1, ReplaceType
<1>3. Shaped(r)
  BY ShapeReplaceOne
<1>4. ASSUME Len(r) >= 2 PROVE r[Len(r) - 1].at # "close_channels"
  <2>1. Len(stack) - 1 \in 1 .. Len(stack) - 1 /\ Len(stack) - 1 + 1 = Len(stack)
    BY <1>1, <1>2, <1>4
  <2>2. r[Len(r) - 1] = stack[Len(stack) - 1] /\ Fits(stack[Len(stack) - 1], Top)
    BY <1>2, <2>1 DEF Shape, Shaped, Top
  <2>3. QED
    BY <2>2 DEF Fits, Callbacks
<1> HIDE DEF r
<1>5. Shaped(p)
  BY <1>2, <1>3, <1>4, ShapedPush
<1>6. /\ p \in Seq(Frames) /\ Len(p) = Len(r) + 1 /\ p[Len(p)] = g
      /\ p[Len(p) - 1] = f
  <2>1. r # <<>>
    BY <1>1, <1>2, EmptySeq
  <2>2. QED
    BY <1>2, <2>1, PushLength
<1> HIDE DEF p
<1>7. ASSUME Fits(g, h), f.at = "close_channels" => h.at = "teardown"
      PROVE  Shaped(Push(p, h))
  BY <1>5, <1>6, <1>7, ShapedPush
<1>8. QED
  BY <1>5, <1>7 DEF r, p, Shape

(***************************************************************************)
(* What each step does, in the terms of the invariants: to the frames, and *)
(* to the channel it is about.                                             *)
(***************************************************************************)
LEMMA NotMoved ==
  ASSUME TypeOK, UNCHANGED stack
  PROVE  Moved({}, {}) /\ (Shape => Shape') /\ FramesOn(stack)' = FramesOn(stack)
<1>1. Len(stack) \in Nat
  BY LenProperties DEF TypeOK
<1>2. Atop(Len(stack), {})
  BY <1>1 DEF Atop
<1>3. QED
  BY <1>2 DEF Moved, Shape

(* The channel c changes, no other one does; it keeps its SID and slot.     *)
OnlyChannel(c) ==
  /\ UNCHANGED slots
  /\ \A d \in Channels \ {c} : chan'[d] = chan[d] /\ hist'[d] = hist[d]
  /\ chan'[c].sid = chan[c].sid
  /\ hist'[c].released = hist[c].released

Unclosed(c) == chan[c].state \notin {"closing", "closed"}

ResetsKept(c) == hist'[c].resets = hist[c].resets

ResetAsked(c) ==
  queue = <<>> /\ UNCHANGED queue /\ hist'[c].resets = Bump(hist[c].resets)

PendingKept(c) == chan'[c].pending = chan[c].pending

(* Nothing the properties speak of changes.                                 *)
Stays(c) ==
  /\ chan'[c].state = chan[c].state
  /\ hist'[c].heard = hist[c].heard
  /\ ResetsKept(c)

(* The channel starts to close: its reset is noted down or asked for.       *)
StartsClosing(c) ==
  /\ Unclosed(c)
  /\ chan'[c].state = "closing"
  /\ hist'[c].heard = hist[c].heard
  /\ \/ chan'[c].pending /\ ResetsKept(c)
     \/ PendingKept(c) /\ ResetAsked(c)

(* The channel is closed and its close handler about to hear of it.         *)
Closes(c) ==
  /\ chan'[c].state = "closed"
  /\ hist'[c].heard = Extend(hist[c].heard, "closed")
  /\ \/ PendingKept(c) \/ Unclosed(c)
  /\ \/ ResetsKept(c)
     \/ Unclosed(c) /\ PendingKept(c) /\ ResetAsked(c)

DropFrames(at, c, callback) ==
  {Frame(at, c, chan[c].sid), Frame(callback, c, chan[c].sid)}

LEMMA Improperly ==
  ASSUME TypeOK, NEW c \in Channels, NEW r \in ChannelRecords, r.sid = chan[c].sid,
         r.pending = chan[c].pending, UNCHANGED slots,
         NEW below, CloseImproperly(c, r, below)
  PROVE  /\ OnlyChannel(c)
         /\ Closes(c) /\ ResetsKept(c)
         /\ stack' = Push(Push(below, Frame("drop_if", c, chan[c].sid)),
                          Frame("close", c, chan[c].sid))
<1>1. /\ chan' = [chan EXCEPT ![c] = [r EXCEPT !.state = "closed"]]
      /\ hist' = [hist EXCEPT ![c].heard = Extend(@, "closed")]
      /\ chan \in [Channels -> ChannelRecords] /\ hist \in [Channels -> Histories]
  BY DEF CloseImproperly, Hears, TypeOK
<1>2. /\ chan'[c] = [r EXCEPT !.state = "closed"]
      /\ hist'[c] = [hist[c] EXCEPT !.heard = Extend(@, "closed")]
      /\ \A d \in Channels \ {c} : chan'[d] = chan[d] /\ hist'[d] = hist[d]
  BY <1>1
<1>3. /\ chan'[c].state = "closed" /\ chan'[c].sid = r.sid
      /\ chan'[c].pending = r.pending
  BY <1>2 DEF ChannelRecords
<1>4. /\ hist'[c].heard = Extend(hist[c].heard, "closed")
      /\ hist'[c].released = hist[c].released /\ hist'[c].resets = hist[c].resets
  BY <1>1, <1>2 DEF Histories
<1>5. QED
  BY <1>2, <1>3, <1>4
     DEF OnlyChannel, Closes, ResetsKept, PendingKept, CloseImproperly

LEMMA AskedFields ==
  ASSUME TypeOK, NEW c \in Channels
  PROVE  /\ ResetIssued(c).resets = Bump(hist[c].resets)
         /\ ResetIssued(c).heard = hist[c].heard
         /\ ResetIssued(c).released = hist[c].released
BY DEF ResetIssued, TypeOK, Histories

LEMMA CloseStep ==
  ASSUME TypeOK, Shape, NEW c \in Channels, Close(c)
  PROVE  /\ Shape' /\ OnlyChannel(c) /\ Unclosed(c) /\ slots[chan[c].sid] = c
         /\ \/ UNCHANGED stack /\ StartsClosing(c)
            \/ Moved({}, DropFrames("drop_if", c, "close")) /\ Closes(c)
<1>0. chan[c] \in ChannelRecords /\ hist[c] \in Histories /\ chan[c].sid \in Sids
  BY DEF TypeOK, ChannelRecords
<1>1. Unclosed(c) /\ slots[chan[c].sid] = c /\ UNCHANGED <<slots, queue>>
  BY DEF Close, Closeable, Unclosed
<1>2. CASE MustWait /\ chan' = [chan EXCEPT ![c] = Deferred(@)]
           /\ UNCHANGED <<resetReq, hist, stack>>
  <2>1. chan'[c] = Deferred(chan[c]) /\ \A d \in Channels \ {c} : chan'[d] = chan[d]
    BY <1>2 DEF TypeOK
  <2>2. /\ Deferred(chan[c]).pending /\ Deferred(chan[c]).state = "closing"
        /\ Deferred(chan[c]).sid = chan[c].sid
    BY <1>0 DEF Deferred, ChannelRecords
  <2>3. OnlyChannel(c) /\ StartsClosing(c)
    BY <1>1, <1>2, <2>1, <2>2 DEF OnlyChannel, StartsClosing, ResetsKept
  <2>4. QED
    BY <1>1, <1>2, <2>3, NotMoved
<1>3. CASE AskForReset(c) /\ chan' = [chan EXCEPT ![c].state = "closing"]
           /\ hist' = [hist EXCEPT ![c] = ResetIssued(c)] /\ UNCHANGED stack
  <2>1. /\ chan'[c] = [chan[c] EXCEPT !.state = "closing"]
        /\ hist'[c] = ResetIssued(c)
        /\ \A d \in Channels \ {c} : chan'[d] = chan[d] /\ hist'[d] = hist[d]
    BY <1>3 DEF TypeOK
  <2>2. /\ chan'[c].state = "closing" /\ chan'[c].pending = chan[c].pending
        /\ chan'[c].sid = chan[c].sid
    BY <1>0, <2>1 DEF ChannelRecords
  <2>3. OnlyChannel(c) /\ StartsClosing(c)
    BY <1>1, <1>3, <2>1, <2>2, AskedFields
       DEF OnlyChannel, StartsClosing, PendingKept, ResetAsked, AskForReset, MustWait
  <2>4. QED
    BY <1>1, <1>3, <2>3, NotMoved
<1>4. CASE CloseImproperly(c, chan[c], stack)
  <2> DEFINE f == Frame("drop_if", c, chan[c].sid)
             g == Frame("close", c, chan[c].sid)
  <2>1. OnlyChannel(c) /\ Closes(c) /\ stack' = Push(Push(stack, f), g)
    BY <1>0, <1>1, <1>4, Improperly
  <2>2. f \in Frames /\ g \in Frames /\ f.at = "drop_if" /\ g.at = "close"
    BY <1>0, FrameTypes DEF OfChannel, Frame
  <2>3. Idle \/ InCallback
    BY CloseAllowed DEF Close
  <2> HIDE DEF f, g
  <2>4. Fits(f, g) /\ f.at \in OnCallback
    BY <2>2 DEF Fits, OnCallback
  <2>5. Shape'
    BY <2>1, <2>2, <2>3, <2>4, ShapePushTwo
  <2>6. Moved({}, {f, g})
    <3>1. f.at \notin Callbacks
      BY <2>2 DEF Callbacks
    <3>2. QED
      BY <2>1, <2>2, <3>1, MovedPush
  <2>7. QED
    BY <1>1, <2>1, <2>5, <2>6 DEF f, g, DropFrames
<1>5. QED
  BY <1>2, <1>3, <1>4 DEF Close

LEMMA TopFacts ==
  ASSUME TypeOK, NEW label, At(label)
  PROVE  /\ ~Idle /\ Top \in Frames /\ Top \in FramesOn(stack) /\ Top.at = label
         /\ Top.ch \in Channels \cup {NoChannel} /\ Top.sid \in 0 .. NChannels
         /\ Top.todo \in SUBSET Sids
         /\ label \in OfChannel => Top.ch \in Channels
         /\ label \notin Loops => Top.sid \in Sids
         /\ label \in Continuations => Top.at \notin Callbacks
BY TopType, TopOn DEF At, TypeOK, Callbacks, Continuations

(* A stream reset event is handled for the next SID.                        *)
LEMMA ResetStep ==
  ASSUME TypeOK, Shape, RegistrySound, ResetNext
  PROVE  /\ Shape' /\ FramesOn(stack) = {Top} /\ Top.at = "reset"
         /\ \E f \in Frames : f.at = "reset" /\
              (\/ Moved({Top}, {f}) /\ UNCHANGED <<chan, hist, slots>>
               \/ \E c \in Channels :
                    /\ OnlyChannel(c) /\ slots[chan[c].sid] = c
                    /\ chan[c].state # "none"
                    /\ \/ Moved({Top}, {f}) /\ Stays(c) /\ PendingKept(c)
                       \/ Moved({Top}, {f}) /\ StartsClosing(c)
                       \/ /\ Closes(c)
                          /\ \E at \in Dropping :
                               Moved({Top}, {f} \cup DropFrames(at, c, "close")))
<1>1. /\ ~Idle /\ Top \in Frames /\ Top.at = "reset" /\ Top.todo \in SUBSET Sids
      /\ Top.at \notin Callbacks \cup {"drop"}
  BY TopFacts DEF ResetNext, Continuations, Callbacks
<1>2. FramesOn(stack) = {Top}
  BY <1>1, BaseAlone DEF BaseFrames
<1>3. UNCHANGED <<slots, queue>>
  BY DEF ResetNext
<1>4. PICK s \in Top.todo : ResetUnregistered(s) \/ ResetNoted(s)
                            \/ ResetAnswered(s) \/ ResetAnswerFails(s)
  BY DEF ResetNext
<1> DEFINE c == slots[s]
           f == [Top EXCEPT !.todo = @ \ {s}]
           d == Frame("drop", c, chan[c].sid)
           e == Frame("drop_if", c, chan[c].sid)
           g == Frame("close", c, chan[c].sid)
<1>5. f \in Frames /\ f.at = "reset" /\ Later(s) = Replace(stack, f)
  BY <1>1 DEF Frames, Later
<1>6. \A k \in Frames : Fits(k, Top) => Fits(k, f)
  BY <1>1, FitsNotBase DEF BaseFrames
<1>7. stack' = Later(s) => Shape' /\ Moved({Top}, {f})
  BY <1>1, <1>5, <1>6, ShapeReplaceOne, MovedReplace
<1>8. ~Free(s) => /\ c \in Channels /\ chan[c] \in ChannelRecords /\ hist[c] \in Histories
                  /\ chan[c].sid = s /\ chan[c].state # "none"
                  /\ d \in Frames /\ d.at = "drop" /\ e \in Frames /\ e.at = "drop_if"
                  /\ g \in Frames /\ g.at = "close"
  <2> SUFFICES ASSUME ~Free(s)
               PROVE  /\ c \in Channels /\ chan[c] \in ChannelRecords /\ hist[c] \in Histories
                      /\ chan[c].sid = s /\ chan[c].state # "none"
                      /\ d \in Frames /\ d.at = "drop" /\ e \in Frames /\ e.at = "drop_if"
                      /\ g \in Frames /\ g.at = "close"
    OBVIOUS
  <2>1. s \in Sids /\ c \in Channels
    BY <1>1 DEF Free, TypeOK
  <2>2. chan[c].sid = s /\ chan[c].state # "none"
    BY <2>1 DEF RegistrySound
  <2>3. d.at = "drop" /\ e.at = "drop_if" /\ g.at = "close"
    BY DEF Frame
  <2>4. d \in Frames /\ e \in Frames /\ g \in Frames
    BY <2>1, <2>2, FrameTypes DEF OfChannel
  <2>5. QED
    BY <2>1, <2>2, <2>3, <2>4 DEF TypeOK
<1> HIDE DEF f
<1>9. ASSUME ~Free(s), NEW k \in {d, e}, stack' = Push(Push(Later(s), k), g)
      PROVE  Shape' /\ Moved({Top}, {f, k, g})
  <2>1. k \in Frames /\ g \in Frames /\ k.at \in Dropping /\ g.at = "close"
    BY <1>8, <1>9 DEF Dropping
  <2> HIDE DEF d, e, g
  <2>2. Fits(f, k) /\ Fits(k, g) /\ f.at # "close_channels"
    BY <1>5, <2>1 DEF Fits, Dropping
  <2>3. Shape'
    BY <1>1, <1>5, <1>6, <1>9, <2>1, <2>2, ShapeReplacePush
  <2>4. f.at \notin Callbacks /\ k.at \notin Callbacks
    BY <1>5, <2>1 DEF Callbacks, Dropping
  <2>5. QED
    BY <1>1, <1>5, <1>9, <2>1, <2>3, <2>4, MovedReplace
<1>10. ASSUME ~Free(s), NEW r \in ChannelRecords, NEW h \in Histories,
              r.sid = chan[c].sid, h.released = hist[c].released,
              h.heard = hist[c].heard, CloseIfReset(c, r, h, Later(s))
       PROVE  /\ OnlyChannel(c)
              /\ chan'[c].pending = r.pending /\ hist'[c].resets = h.resets
              /\ \/ /\ Shape' /\ Moved({Top}, {f})
                    /\ chan'[c].state = r.state /\ hist'[c].heard = hist[c].heard
                 \/ /\ Shape' /\ Moved({Top}, {f, d, g})
                    /\ chan'[c].state = "closed"
                    /\ hist'[c].heard = Extend(hist[c].heard, "closed")
  <2>1. CASE r.inReset /\ r.outReset
    <3>1. /\ chan' = [chan EXCEPT ![c] = [r EXCEPT !.state = "closed"]]
          /\ hist' = [hist EXCEPT ![c] = [h EXCEPT !.heard = Extend(@, "closed")]]
          /\ stack' = Push(Push(Later(s), d), g)
      BY <1>10, <2>1 DEF CloseIfReset
    <3>2. /\ chan'[c] = [r EXCEPT !.state = "closed"]
          /\ hist'[c] = [h EXCEPT !.heard = Extend(@, "closed")]
          /\ \A x \in Channels \ {c} : chan'[x] = chan[x] /\ hist'[x] = hist[x]
      BY <1>8, <1>10, <3>1 DEF TypeOK
    <3>3. /\ chan'[c].state = "closed" /\ chan'[c].sid = r.sid
          /\ chan'[c].pending = r.pending
      BY <3>2 DEF ChannelRecords
    <3>4. /\ hist'[c].heard = Extend(h.heard, "closed")
          /\ hist'[c].released = h.released /\ hist'[c].resets = h.resets
      BY <3>2 DEF Histories
    <3>5. Shape' /\ Moved({Top}, {f, d, g})
      BY <1>9, <1>10, <3>1
    <3>6. QED
      BY <1>3, <1>10, <3>2, <3>3, <3>4, <3>5 DEF OnlyChannel
  <2>2. CASE ~(r.inReset /\ r.outReset)
    <3>1. /\ chan' = [chan EXCEPT ![c] = r] /\ hist' = [hist EXCEPT ![c] = h]
          /\ stack' = Later(s)
      BY <1>10, <2>2 DEF CloseIfReset
    <3>2. /\ chan'[c] = r /\ hist'[c] = h
          /\ \A x \in Channels \ {c} : chan'[x] = chan[x] /\ hist'[x] = hist[x]
      BY <1>8, <1>10, <3>1 DEF TypeOK
    <3>3. QED
      BY <1>3, <1>7, <1>10, <3>1, <3>2 DEF OnlyChannel
  <2>3. QED
    BY <2>1, <2>2
<1>11. {f, d, g} = {f} \cup DropFrames("drop", c, "close")
       /\ {f, e, g} = {f} \cup DropFrames("drop_if", c, "close")
  BY DEF DropFrames
<1>12. ~Free(s) => slots[chan[c].sid] = c
  BY <1>8
<1>13. ~Free(s) => /\ Noted(chan[c]) \in ChannelRecords
                   /\ Noted(chan[c]).sid = chan[c].sid
                   /\ Noted(chan[c]).state = chan[c].state
                   /\ Noted(chan[c]).pending = chan[c].pending
  BY <1>8, NotedType, NotedKept
<1> HIDE DEF c, d, e, g
<1>14. CASE ResetUnregistered(s)
  BY <1>2, <1>1, <1>3, <1>5, <1>7, <1>14 DEF ResetUnregistered
<1>15. CASE ResetNoted(s)
  <2>1. ~Free(s) /\ CloseIfReset(c, Noted(chan[c]), hist[c], Later(s))
    BY <1>15 DEF ResetNoted, c
  <2>2. /\ OnlyChannel(c) /\ PendingKept(c) /\ ResetsKept(c)
        /\ \/ /\ Shape' /\ Moved({Top}, {f})
              /\ chan'[c].state = chan[c].state /\ hist'[c].heard = hist[c].heard
           \/ /\ Shape' /\ Moved({Top}, {f, d, g})
              /\ chan'[c].state = "closed"
              /\ hist'[c].heard = Extend(hist[c].heard, "closed")
    BY <1>8, <1>10, <1>13, <2>1 DEF PendingKept, ResetsKept
  <2>3. Stays(c) \/ Closes(c)
    BY <2>2 DEF Stays, Closes
  <2>4. \/ Moved({Top}, {f}) /\ Stays(c) /\ PendingKept(c)
        \/ Closes(c) /\ \E at \in Dropping :
                          Moved({Top}, {f} \cup DropFrames(at, c, "close"))
    BY <1>11, <2>2 DEF Stays, Closes, Dropping
  <2>5. QED
    BY <1>1, <1>2, <1>5, <1>8, <1>12, <2>1, <2>2, <2>4
<1>16. CASE ResetAnswered(s)
  <2>1. ~Free(s) /\ Unclosed(c)
    BY <1>16 DEF ResetAnswered, MustAnswer, Unclosed, c
  <2>2. CASE MustWait /\ CloseIfReset(c, Deferred(Noted(chan[c])), hist[c], Later(s))
    <3> DEFINE r == Deferred(Noted(chan[c]))
    <3>1. r \in ChannelRecords /\ r.sid = chan[c].sid /\ r.pending /\ r.state = "closing"
      BY <1>13, <2>1, DeferredType DEF Deferred, ChannelRecords
    <3> HIDE DEF r
    <3>2. /\ OnlyChannel(c) /\ chan'[c].pending /\ ResetsKept(c)
          /\ \/ /\ Shape' /\ Moved({Top}, {f})
                /\ chan'[c].state = "closing" /\ hist'[c].heard = hist[c].heard
             \/ /\ Shape' /\ Moved({Top}, {f, d, g})
                /\ chan'[c].state = "closed"
                /\ hist'[c].heard = Extend(hist[c].heard, "closed")
      BY <1>8, <1>10, <2>1, <2>2, <3>1 DEF ResetsKept, r
    <3>3. \/ Moved({Top}, {f}) /\ StartsClosing(c)
          \/ Closes(c) /\ \E at \in Dropping :
                            Moved({Top}, {f} \cup DropFrames(at, c, "close"))
      BY <1>11, <2>1, <3>2 DEF StartsClosing, Closes, Dropping
    <3>4. QED
      BY <1>1, <1>2, <1>5, <1>8, <1>12, <2>1, <3>2, <3>3
  <2>3. CASE AskForReset(c)
             /\ CloseIfReset(c, [Noted(chan[c]) EXCEPT !.state = "closing"],
                             ResetIssued(c), Later(s))
    <3> DEFINE r == [Noted(chan[c]) EXCEPT !.state = "closing"]
    <3>1. /\ r \in ChannelRecords /\ r.sid = chan[c].sid /\ r.state = "closing"
          /\ r.pending = chan[c].pending
      BY <1>13, <2>1, StateUpdateType DEF ChannelRecords, ChannelStates
    <3>2. ResetIssued(c) \in Histories
      BY <1>8, <2>1, ResetIssuedType DEF TypeOK
    <3> HIDE DEF r
    <3>3. queue = <<>>
      BY <2>3 DEF AskForReset, MustWait
    <3>4. /\ OnlyChannel(c) /\ PendingKept(c) /\ ResetAsked(c)
          /\ \/ /\ Shape' /\ Moved({Top}, {f})
                /\ chan'[c].state = "closing" /\ hist'[c].heard = hist[c].heard
             \/ /\ Shape' /\ Moved({Top}, {f, d, g})
                /\ chan'[c].state = "closed"
                /\ hist'[c].heard = Extend(hist[c].heard, "closed")
      BY <1>3, <1>8, <1>10, <2>1, <2>3, <3>1, <3>2, <3>3, AskedFields
         DEF ResetAsked, PendingKept, r
    <3>5. \/ Moved({Top}, {f}) /\ StartsClosing(c)
          \/ Closes(c) /\ \E at \in Dropping :
                            Moved({Top}, {f} \cup DropFrames(at, c, "close"))
      BY <1>11, <2>1, <3>4 DEF StartsClosing, Closes, Dropping
    <3>6. QED
      BY <1>1, <1>2, <1>5, <1>8, <1>12, <2>1, <3>4, <3>5
  <2>4. QED
    BY <1>16, <2>2, <2>3 DEF ResetAnswered, c
<1>17. CASE ResetAnswerFails(s)
  <2> DEFINE r == [chan[c] EXCEPT !.inReset = TRUE]
  <2>1. ~Free(s) /\ CloseImproperly(c, r, Later(s))
    BY <1>17 DEF ResetAnswerFails, c
  <2>2. r \in ChannelRecords /\ r.sid = chan[c].sid /\ r.pending = chan[c].pending
    BY <1>8, <2>1 DEF ChannelRecords
  <2>3. OnlyChannel(c) /\ Closes(c) /\ stack' = Push(Push(Later(s), e), g)
    BY <1>3, <1>8, <2>1, <2>2, Improperly DEF e, g
  <2>4. Shape' /\ Moved({Top}, {f, e, g})
    BY <1>9, <2>1, <2>3
  <2>5. QED
    BY <1>1, <1>2, <1>5, <1>8, <1>11, <1>12, <2>1, <2>3, <2>4 DEF Dropping
<1>18. QED
  BY <1>4, <1>14, <1>15, <1>16, <1>17

(* The sender dry loop visits a channel, ...                                *)
LEMMA DryVisitStep ==
  ASSUME TypeOK, Shape, RegistrySound, DryVisit
  PROVE  /\ Shape' /\ FramesOn(stack) = {Top} /\ Top.at = "dry"
         /\ \/ /\ UNCHANGED <<chan, hist, slots>>
               /\ \E f \in Frames :
                    /\ f.at = "dry_next" /\ f.ch = NoChannel
                    /\ \/ Moved({Top}, {f})
                       \/ \E g \in Frames : g.at = "low" /\ Moved({Top}, {f, g})
            \/ \E c \in Channels, f \in Frames :
                 /\ f.at = "dry_next" /\ f.ch = c
                 /\ OnlyChannel(c) /\ slots[chan[c].sid] = c
                 /\ chan[c].state # "none" /\ chan[c].pending
                 /\ \/ /\ Moved({Top}, {f})
                       /\ UNCHANGED chan /\ ResetAsked(c)
                       /\ hist'[c].heard = hist[c].heard
                    \/ /\ Moved({Top}, {f} \cup DropFrames("drop_if", c, "close"))
                       /\ Closes(c) /\ ResetsKept(c)
<1>1. /\ ~Idle /\ Top \in Frames /\ Top.at = "dry" /\ Top.todo \in SUBSET Sids
      /\ Top.at \notin Callbacks \cup {"drop"} /\ Top.sid \in Sids
  BY TopFacts DEF DryVisit, Continuations, Callbacks, Loops
<1>2. FramesOn(stack) = {Top}
  BY <1>1, BaseAlone DEF BaseFrames
<1> DEFINE c == slots[Top.sid]
           F(ch) == DryFrame("dry_next", ch, Top.sid, Top.todo \ {Top.sid})
           l == Frame("low", c, Top.sid)
           d == Frame("drop_if", c, chan[c].sid)
           g == Frame("close", c, chan[c].sid)
<1>3. \A ch \in Channels \cup {NoChannel} :
        /\ F(ch) \in Frames /\ F(ch).at = "dry_next" /\ F(ch).ch = ch
        /\ F(ch).at \notin Callbacks
        /\ \A k \in Frames : Fits(k, Top) => Fits(k, F(ch))
  <2>1. \A ch \in Channels \cup {NoChannel} : F(ch) \in Frames
    BY <1>1, FrameTypes
  <2>2. \A ch : F(ch).at = "dry_next" /\ F(ch).ch = ch
    BY DEF DryFrame, Frame
  <2>3. \A k \in Frames : ~Fits(k, Top)
    BY <1>1, FitsNotBase DEF BaseFrames
  <2>4. "dry_next" \notin Callbacks
    BY DEF Callbacks
  <2>5. QED
    BY <2>1, <2>2, <2>3, <2>4
<1>4. UNCHANGED <<slots, queue>>
  BY DEF DryVisit
<1>5. c \in Channels \cup {NoChannel}
  BY <1>1 DEF TypeOK
<1> HIDE DEF F
<1>6. CASE c = NoChannel /\ stack' = Replace(stack, F(NoChannel))
           /\ UNCHANGED <<chan, resetReq, hist>>
  <2>1. Shape' /\ Moved({Top}, {F(NoChannel)})
    BY <1>1, <1>3, <1>6, ShapeReplaceOne, MovedReplace
  <2>2. QED
    BY <1>2, <1>1, <1>3, <1>4, <1>6, <2>1
<1>7. CASE c # NoChannel /\ stack' = Push(Replace(stack, F(NoChannel)), l)
           /\ UNCHANGED <<chan, resetReq, hist>>
  <2>1. l \in Frames /\ l.at = "low"
    BY <1>1, <1>5, <1>7, FrameTypes DEF OfChannel, Frame
  <2> HIDE DEF l
  <2>2. Fits(F(NoChannel), l)
    BY <1>3, <2>1 DEF Fits
  <2>3. Shape' /\ Moved({Top}, {F(NoChannel), l})
    BY <1>1, <1>3, <1>7, <2>1, <2>2, ShapeReplacePush, MovedReplace
  <2>4. QED
    BY <1>2, <1>1, <1>3, <1>4, <1>7, <2>1, <2>3
<1>8. c # NoChannel => /\ c \in Channels /\ chan[c] \in ChannelRecords
                       /\ chan[c].sid = Top.sid /\ chan[c].state # "none"
                       /\ slots[chan[c].sid] = c
  BY <1>1, <1>5 DEF RegistrySound, Free, TypeOK
<1>9. CASE c # NoChannel /\ chan[c].pending /\ AskForReset(c)
           /\ hist' = [hist EXCEPT ![c] = ResetIssued(c)]
           /\ stack' = Replace(stack, F(c)) /\ UNCHANGED chan
  <2>1. Shape' /\ Moved({Top}, {F(c)})
    BY <1>1, <1>3, <1>5, <1>9, ShapeReplaceOne, MovedReplace
  <2>2. hist'[c] = ResetIssued(c) /\ \A x \in Channels \ {c} : hist'[x] = hist[x]
    BY <1>8, <1>9 DEF TypeOK
  <2>3. queue = <<>>
    BY <1>9 DEF AskForReset, MustWait
  <2>4. OnlyChannel(c) /\ ResetAsked(c) /\ hist'[c].heard = hist[c].heard
    BY <1>4, <1>8, <1>9, <2>2, <2>3, AskedFields DEF OnlyChannel, ResetAsked
  <2>5. F(c) \in Frames /\ F(c).at = "dry_next" /\ F(c).ch = c
    BY <1>3, <1>5
  <2> HIDE DEF c
  <2>6. QED
    BY <1>2, <1>1, <1>8, <1>9, <2>1, <2>4, <2>5
<1>10. CASE c # NoChannel /\ chan[c].pending
            /\ CloseImproperly(c, chan[c], Replace(stack, F(c)))
  <2>1. /\ OnlyChannel(c) /\ Closes(c) /\ ResetsKept(c)
        /\ stack' = Push(Push(Replace(stack, F(c)), d), g)
    BY <1>4, <1>8, <1>10, Improperly
  <2>2. d \in Frames /\ d.at = "drop_if" /\ g \in Frames /\ g.at = "close"
    BY <1>1, <1>8, <1>10, FrameTypes DEF OfChannel, Frame
  <2> HIDE DEF d, g
  <2>3. Fits(F(c), d) /\ Fits(d, g) /\ F(c).at # "close_channels"
        /\ d.at \notin Callbacks
    BY <1>3, <1>5, <2>2 DEF Fits, Callbacks
  <2>4. Shape' /\ Moved({Top}, {F(c), d, g})
    BY <1>1, <1>3, <1>5, <2>1, <2>2, <2>3, ShapeReplacePush, MovedReplace
  <2>5. {F(c), d, g} = {F(c)} \cup DropFrames("drop_if", c, "close")
    BY DEF DropFrames, d, g
  <2>6. Moved({Top}, {F(c)} \cup DropFrames("drop_if", c, "close"))
    BY <2>4, <2>5
  <2>7. F(c) \in Frames /\ F(c).at = "dry_next" /\ F(c).ch = c
    BY <1>3, <1>5
  <2> HIDE DEF c
  <2>8. QED
    BY <1>2, <1>1, <1>8, <1>10, <2>1, <2>4, <2>6, <2>7
<1>11. QED
  BY <1>6, <1>7, <1>9, <1>10 DEF DryVisit, F

(* ... and goes on or ends.                                                 *)
LEMMA DryAdvanceStep ==
  ASSUME TypeOK, Shape, DryAdvance
  PROVE  /\ Shape' /\ FramesOn(stack) = {Top} /\ Top.at = "dry_next"
         /\ \/ Moved({Top}, {})
            \/ \E f \in Frames :
                 f.at = "dry" /\ f.ch = NoChannel /\ Moved({Top}, {f})
         /\ UNCHANGED <<hist, slots>>
         /\ \/ UNCHANGED chan /\ Top.ch = NoChannel
            \/ /\ Top.ch \in Channels /\ OnlyChannel(Top.ch) /\ Stays(Top.ch)
               /\ ~chan'[Top.ch].pending
<1>1. /\ ~Idle /\ Top \in Frames /\ Top.at = "dry_next" /\ Top.todo \in SUBSET Sids
      /\ Top.at \notin Callbacks \cup {"drop"} /\ Top.sid \in Sids
      /\ Top.ch \in Channels \cup {NoChannel}
  BY TopFacts DEF DryAdvance, Continuations, Callbacks, Loops
<1>2. FramesOn(stack) = {Top}
  BY <1>1, BaseAlone DEF BaseFrames
<1> DEFINE f == DryFrame("dry", NoChannel, Following(Top.sid), Top.todo)
<1>3. f \in Frames /\ f.at = "dry" /\ f.ch = NoChannel
      /\ \A k \in Frames : Fits(k, Top) => Fits(k, f)
  BY <1>1, FollowingType, FrameTypes, FitsNotBase DEF DryFrame, Frame, BaseFrames
<1> HIDE DEF f
<1>4. /\ Shape'
      /\ Moved({Top}, {}) \/ Moved({Top}, {f})
  <2>1. CASE stack' = Replace(stack, f)
    BY <1>1, <1>3, <2>1, ShapeReplaceOne, MovedReplace
  <2>2. CASE stack' = Pop(stack)
    BY <1>1, <2>2, ShapedPop, MovedPop DEF Shape, TypeOK, Idle
  <2>3. QED
    BY <2>1, <2>2 DEF DryAdvance, f
<1>5. UNCHANGED <<hist, slots>>
  BY DEF DryAdvance
<1>6. CASE Top.ch = NoChannel
  BY <1>2, <1>1, <1>3, <1>4, <1>5, <1>6 DEF DryAdvance
<1>7. CASE Top.ch # NoChannel
  <2>1. chan' = [chan EXCEPT ![Top.ch].pending = FALSE] /\ Top.ch \in Channels
    BY <1>1, <1>7 DEF DryAdvance
  <2>2. /\ chan'[Top.ch] = [chan[Top.ch] EXCEPT !.pending = FALSE]
        /\ \A d \in Channels \ {Top.ch} : chan'[d] = chan[d]
        /\ chan[Top.ch] \in ChannelRecords
    BY <2>1 DEF TypeOK
  <2>3. /\ chan'[Top.ch].sid = chan[Top.ch].sid /\ ~chan'[Top.ch].pending
        /\ chan'[Top.ch].state = chan[Top.ch].state
    BY <2>2 DEF ChannelRecords
  <2>4. OnlyChannel(Top.ch) /\ Stays(Top.ch)
    BY <1>5, <2>2, <2>3 DEF OnlyChannel, Stays, ResetsKept
  <2>5. QED
    BY <1>2, <1>1, <1>3, <1>4, <1>5, <2>1, <2>3, <2>4
<1>8. QED
  BY <1>6, <1>7

(* A function of the library starts on an empty stack or in a callback: it  *)
(* pushes the frame f, or f and g.                                          *)
LEMMA CallStep ==
  ASSUME TypeOK, Shape, NEW f \in Frames, Idle \/ (InCallback /\ f.at \in OnCallback)
  PROVE  /\ stack' = Push(stack, f) => Shape' /\ Moved({}, {f})
         /\ \A g \in Frames :
              stack' = Push(Push(stack, f), g) /\ Fits(f, g) /\ f.at \notin Callbacks
                => Shape' /\ Moved({}, {f, g})
<1>1. stack' = Push(stack, f) => Shape' /\ Moved({}, {f})
  BY ShapePushOne, MovedPush
<1>2. ASSUME NEW g \in Frames, stack' = Push(Push(stack, f), g), Fits(f, g),
             f.at \notin Callbacks
      PROVE  Shape' /\ Moved({}, {f, g})
  BY <1>2, ShapePushTwo, MovedPush
<1>3. QED
  BY <1>1, <1>2

(* A function of the library or a callback returns.                         *)
LEMMA PopStep ==
  ASSUME TypeOK, Shape, ~Idle, stack' = Pop(stack)
  PROVE  Shape' /\ Moved({Top}, {})
BY ShapedPop, MovedPop DEF Shape, TypeOK, Idle

(* A function of the library goes on in another frame.                      *)
LEMMA GoOnStep ==
  ASSUME TypeOK, Shape, ~Idle, Top.at \notin Callbacks \cup {"drop"}, NEW f \in Frames,
         \A k \in Frames : Fits(k, Top) => Fits(k, f)
  PROVE  /\ stack' = Replace(stack, f) => Shape' /\ Moved({Top}, {f})
         /\ \A g \in Frames :
              stack' = Push(Replace(stack, f), g) /\ Fits(f, g) /\ f.at \notin Callbacks
                => Shape' /\ Moved({Top}, {f, g})
<1>1. stack' = Replace(stack, f) => Shape' /\ Moved({Top}, {f})
  BY ShapeReplaceOne, MovedReplace
<1>2. ASSUME NEW g \in Frames, stack' = Push(Replace(stack, f), g), Fits(f, g),
             f.at \notin Callbacks
      PROVE  Shape' /\ Moved({Top}, {f, g})
  BY <1>2, ShapeReplacePush, MovedReplace
<1>3. QED
  BY <1>1, <1>2

LEMMA ClosingFrameType ==
  ASSUME NEW n \in 0 .. NChannels
  PROVE  /\ ClosingFrame(n) \in Frames /\ ClosingFrame(n).at = "close_channels"
         /\ ClosingFrame(n).sid = n /\ ClosingFrame(n).ch = NoChannel
BY FrameTypes DEF ClosingFrame, Frame, Loops

LEMMA Zero == 0 \in 0 .. NChannels /\ 0 \in Sids
BY NChannelsAssumption DEF Sids

(* Frames that are about no channel.                                        *)
LEMMA PlainFrame ==
  ASSUME NEW at \in (Callbacks \cup Continuations) \ OfChannel
  PROVE  /\ Frame(at, NoChannel, 0) \in Frames
         /\ Frame(at, NoChannel, 0).at = at /\ Frame(at, NoChannel, 0).ch = NoChannel
         /\ Frame(at, NoChannel, 0).sid = 0
BY FrameTypes, Zero DEF Frame

LEMMA ClosingBegins ==
  ASSUME TypeOK, Shape, StartFails \/ Stop \/ CommLost
  PROVE  /\ Shape' /\ Moved({}, {ClosingFrame(0)}) /\ ClosingFrame(0) \in Frames
         /\ UNCHANGED <<chan, hist, slots>>
<1>1. Idle \/ InCallback
  BY CallAllowed DEF StartFails, Stop, CommLost
<1>2. ClosingFrame(0) \in Frames /\ ClosingFrame(0).at \in OnCallback
  BY ClosingFrameType, Zero DEF OnCallback
<1>3. stack' = Push(stack, ClosingFrame(0)) /\ UNCHANGED <<chan, hist, slots>>
  BY DEF StartFails, Stop, CommLost
<1>4. QED
  BY <1>1, <1>2, <1>3, CallStep

StartFrames == {Frame("mtu", NoChannel, 0), Frame("connecting", NoChannel, 0)}

LEMMA StartStep ==
  ASSUME TypeOK, Shape, Start
  PROVE  Shape' /\ Moved({}, StartFrames) /\ StartFrames \subseteq Frames
<1> DEFINE f == Frame("mtu", NoChannel, 0)
           g == Frame("connecting", NoChannel, 0)
<1>1. /\ f \in Frames /\ f.at = "mtu" /\ g \in Frames /\ g.at = "connecting"
  BY PlainFrame DEF Callbacks, Continuations, OfChannel
<1>2. (Idle \/ InCallback) /\ stack' = Push(Push(stack, f), g)
  BY CallAllowed DEF Start
<1> HIDE DEF f, g
<1>3. Fits(f, g) /\ f.at \in OnCallback /\ f.at \notin Callbacks
  BY <1>1 DEF Fits, OnCallback, Callbacks
<1>4. Shape' /\ Moved({}, {f, g})
  BY <1>1, <1>2, <1>3, CallStep
<1>5. QED
  BY <1>1, <1>4 DEF f, g, StartFrames

LEMMA ReturnStep ==
  ASSUME TypeOK, Shape, Return
  PROVE  /\ Shape' /\ Moved({Top}, {}) /\ Top.at \in Callbacks
         /\ UNCHANGED <<chan, hist, slots>>
BY PopStep DEF Return, InCallback

LEMMA SetMtuStep ==
  ASSUME TypeOK, Shape, SetMtu
  PROVE  /\ Shape' /\ Top.at = "mtu" /\ ~Idle /\ ClosingFrame(0) \in Frames
         /\ \/ Moved({Top}, {}) /\ stack' = Pop(stack) /\ socket
            \/ Moved({Top}, {ClosingFrame(0)})
         /\ UNCHANGED <<chan, hist, slots>>
<1>1. ~Idle /\ Top.at = "mtu" /\ UNCHANGED <<chan, hist, slots>>
  BY DEF SetMtu, At
<1>2. CASE socket /\ stack' = Pop(stack)
  BY <1>1, <1>2, PopStep, ClosingFrameType, Zero
<1>3. CASE stack' = Replace(stack, ClosingFrame(0))
  <2>1. ClosingFrame(0) \in Frames /\ ClosingFrame(0).at = "close_channels"
    BY ClosingFrameType, Zero
  <2>2. \A k \in Frames : Fits(k, Top) => Fits(k, ClosingFrame(0))
    BY <1>1, <2>1 DEF Fits, Dropping
  <2>3. Top.at \notin Callbacks \cup {"drop"}
    BY <1>1 DEF Callbacks
  <2>4. QED
    BY <1>1, <1>3, <2>1, <2>2, <2>3, GoOnStep
<1>4. QED
  BY <1>2, <1>3 DEF SetMtu

DetachFrames == {Frame("detached", NoChannel, 0), Frame("detach", NoChannel, 0)}

LEMMA DetachStep ==
  ASSUME TypeOK, Shape, Detach
  PROVE  /\ Shape' /\ Moved({Top}, DetachFrames) /\ DetachFrames \subseteq Frames
         /\ ~Idle /\ Top.at = "close_channels" /\ UNCHANGED <<chan, hist, slots>>
<1> DEFINE f == Frame("detached", NoChannel, 0)
           g == Frame("detach", NoChannel, 0)
<1>1. ~Idle /\ Top.at = "close_channels" /\ UNCHANGED <<chan, hist, slots>>
      /\ stack' = Push(Replace(stack, f), g)
  BY DEF Detach, At
<1>2. /\ f \in Frames /\ f.at = "detached" /\ g \in Frames /\ g.at = "detach"
  BY PlainFrame DEF Callbacks, Continuations, OfChannel
<1> HIDE DEF f, g
<1>3. Fits(f, g) /\ f.at \notin Callbacks /\ Top.at \notin Callbacks \cup {"drop"}
  BY <1>1, <1>2 DEF Fits, Callbacks
<1>4. \A k \in Frames : Fits(k, Top) => Fits(k, f)
  BY <1>1, <1>2 DEF Fits, Dropping
<1>5. Shape' /\ Moved({Top}, {f, g})
  BY <1>1, <1>2, <1>3, <1>4, GoOnStep
<1>6. QED
  BY <1>1, <1>2, <1>5 DEF f, g, DetachFrames

LEMMA CloseTransportStep ==
  ASSUME TypeOK, Shape, CloseTransport
  PROVE  /\ Shape' /\ Moved({Top}, {Frame("closed", NoChannel, 0)})
         /\ Frame("closed", NoChannel, 0) \in Frames
         /\ ~Idle /\ Top.at = "detached" /\ UNCHANGED <<chan, hist, slots>>
<1> DEFINE f == Frame("closed", NoChannel, 0)
<1>1. ~Idle /\ Top.at = "detached" /\ UNCHANGED <<chan, hist, slots>>
      /\ stack' = Replace(stack, f)
  BY DEF CloseTransport, At
<1>2. f \in Frames /\ f.at = "closed"
  BY PlainFrame DEF Callbacks, Continuations, OfChannel
<1> HIDE DEF f
<1>3. Top.at \notin Callbacks \cup {"drop"} /\ \A k \in Frames : Fits(k, Top) => Fits(k, f)
  BY <1>1, <1>2 DEF Fits, Callbacks, Dropping
<1>4. QED
  BY <1>1, <1>2, <1>3, GoOnStep DEF f

(* The loop over the slots closes the next channel.                         *)
LEMMA CloseNextStep ==
  ASSUME TypeOK, Shape, RegistrySound, CloseNextChannel
  PROVE  /\ Shape' /\ ~Idle /\ Top.at = "close_channels"
         /\ \E s \in Sids, c \in Channels :
              /\ NextIn(Filled, s, Top.sid) /\ slots[s] = c /\ chan[c].sid = s
              /\ chan[c].state # "none" /\ ClosingFrame(s + 1) \in Frames
              /\ OnlyChannel(c) /\ Closes(c) /\ ResetsKept(c) /\ PendingKept(c)
              /\ Moved({Top}, {ClosingFrame(s + 1)} \cup DropFrames("drop", c, "teardown"))
<1>1. ~Idle /\ Top.at = "close_channels" /\ Top.sid \in 0 .. NChannels /\ UNCHANGED slots
  BY TopFacts DEF CloseNextChannel
<1>2. PICK s \in Sids :
        /\ NextIn(Filled, s, Top.sid)
        /\ chan' = [chan EXCEPT ![slots[s]].state = "closed"]
        /\ hist' = Hears(slots[s], "closed")
        /\ stack' = Push(Push(Replace(stack, ClosingFrame(s + 1)),
                              Frame("drop", slots[s], s)),
                         Frame("teardown", slots[s], s))
  BY DEF CloseNextChannel
<1> DEFINE c == slots[s]
           f == ClosingFrame(s + 1)
           d == Frame("drop", c, s)
           t == Frame("teardown", c, s)
<1>3. c \in Channels /\ chan[c].sid = s /\ chan[c].state # "none"
  BY <1>2 DEF NextIn, Filled, Free, RegistrySound, TypeOK
<1>4. s + 1 \in 0 .. NChannels
  BY NChannelsAssumption DEF Sids
<1>5. f \in Frames /\ f.at = "close_channels"
  BY <1>4, ClosingFrameType
<1>6. d \in Frames /\ d.at = "drop" /\ t \in Frames /\ t.at = "teardown"
  BY <1>3, FrameTypes DEF Frame, OfChannel
<1>7. {f, d, t} = {f} \cup DropFrames("drop", c, "teardown")
  BY <1>3 DEF DropFrames
<1>8. /\ chan'[c] = [chan[c] EXCEPT !.state = "closed"]
      /\ hist'[c] = [hist[c] EXCEPT !.heard = Extend(@, "closed")]
      /\ \A x \in Channels \ {c} : chan'[x] = chan[x] /\ hist'[x] = hist[x]
      /\ chan[c] \in ChannelRecords /\ hist[c] \in Histories
  BY <1>2, <1>3 DEF TypeOK, Hears
<1>9. /\ chan'[c].state = "closed" /\ chan'[c].sid = chan[c].sid
      /\ chan'[c].pending = chan[c].pending
  BY <1>8 DEF ChannelRecords
<1>10. /\ hist'[c].heard = Extend(hist[c].heard, "closed")
       /\ hist'[c].released = hist[c].released /\ hist'[c].resets = hist[c].resets
  BY <1>8 DEF Histories
<1>11. OnlyChannel(c) /\ Closes(c) /\ ResetsKept(c) /\ PendingKept(c)
  BY <1>1, <1>8, <1>9, <1>10 DEF OnlyChannel, Closes, ResetsKept, PendingKept
<1>12. stack' = Push(Push(Replace(stack, f), d), t)
  BY <1>2
<1> HIDE DEF c, f, d, t
<1>13. /\ Top.at \notin Callbacks \cup {"drop"} /\ f.at \notin Callbacks
       /\ d.at \notin Callbacks /\ Fits(f, d) /\ Fits(d, t)
  BY <1>1, <1>5, <1>6 DEF Callbacks, Fits
<1>14. \A k \in Frames : Fits(k, Top) => Fits(k, f)
  BY <1>1, <1>5 DEF Fits, Dropping
<1>15. Shape'
  BY <1>1, <1>5, <1>6, <1>12, <1>13, <1>14, ShapeReplacePush
<1>16. Moved({Top}, {f, d, t})
  BY <1>1, <1>5, <1>6, <1>12, <1>13, MovedReplace
<1>17. QED
  BY <1>1, <1>2, <1>3, <1>5, <1>7, <1>11, <1>15, <1>16 DEF c, f

(* The reference to a channel is dropped, unless it has been already.       *)
LEMMA DropStep ==
  ASSUME TypeOK, Shape, Drop
  PROVE  /\ Shape' /\ ~Idle /\ Top.at \in Dropping /\ Moved({Top}, {})
         /\ stack' = Pop(stack)
         /\ Top.ch \in Channels /\ Top.sid \in Sids /\ UNCHANGED chan
         /\ slots' = [slots EXCEPT ![Top.sid] = NoChannel]
         /\ \A d \in Channels \ {Top.ch} : hist'[d] = hist[d]
         /\ hist'[Top.ch].released = Bump(hist[Top.ch].released)
         /\ hist'[Top.ch].heard = hist[Top.ch].heard
         /\ ResetsKept(Top.ch)
         /\ Top.at = "drop" \/ slots[Top.sid] = Top.ch
<1>1. /\ ~Idle /\ Top.at \in Dropping /\ Top.ch \in Channels /\ Top.sid \in Sids
      /\ Top.at = "drop" \/ slots[Top.sid] = Top.ch
      /\ stack' = Pop(stack) /\ UNCHANGED chan
      /\ slots' = [slots EXCEPT ![Top.sid] = NoChannel]
      /\ hist' = [hist EXCEPT ![Top.ch].released = Bump(@)]
  BY TopFacts DEF Drop, DropSlot, Dropping, OfChannel, Loops
<1>2. /\ hist'[Top.ch] = [hist[Top.ch] EXCEPT !.released = Bump(@)]
      /\ \A d \in Channels \ {Top.ch} : hist'[d] = hist[d]
      /\ hist[Top.ch] \in Histories
  BY <1>1 DEF TypeOK
<1>3. /\ hist'[Top.ch].released = Bump(hist[Top.ch].released)
      /\ hist'[Top.ch].heard = hist[Top.ch].heard
      /\ hist'[Top.ch].resets = hist[Top.ch].resets
  BY <1>2 DEF Histories
<1>4. QED
  BY <1>1, <1>2, <1>3, PopStep DEF ResetsKept

LEMMA DropSkippedStep ==
  ASSUME TypeOK, Shape, DropSkipped
  PROVE  /\ Shape' /\ ~Idle /\ Top.at = "drop_if" /\ Moved({Top}, {})
         /\ Top.ch \in Channels /\ slots[Top.sid] # Top.ch
         /\ UNCHANGED <<chan, hist, slots>>
BY TopFacts, PopStep DEF DropSkipped, At, OfChannel

LEMMA CreatedStep ==
  ASSUME TypeOK, Shape, Created
  PROVE  /\ Shape' /\ ~Idle /\ Top.at = "created" /\ Moved({Top}, {})
         /\ Top.ch \in Channels
         /\ OnlyChannel(Top.ch) /\ Stays(Top.ch) /\ PendingKept(Top.ch)
<1>1. /\ ~Idle /\ Top.at = "created" /\ Top.ch \in Channels /\ stack' = Pop(stack)
      /\ chan' = [chan EXCEPT ![Top.ch].known = TRUE] /\ UNCHANGED <<hist, slots>>
  BY TopFacts DEF Created, OfChannel
<1>2. /\ chan'[Top.ch] = [chan[Top.ch] EXCEPT !.known = TRUE]
      /\ \A d \in Channels \ {Top.ch} : chan'[d] = chan[d]
      /\ chan[Top.ch] \in ChannelRecords
  BY <1>1 DEF TypeOK
<1>3. /\ chan'[Top.ch].sid = chan[Top.ch].sid
      /\ chan'[Top.ch].state = chan[Top.ch].state
      /\ chan'[Top.ch].pending = chan[Top.ch].pending
  BY <1>2 DEF ChannelRecords
<1>4. QED
  BY <1>1, <1>2, <1>3, PopStep DEF OnlyChannel, Stays, ResetsKept, PendingKept

LEMMA ResetDoneStep ==
  ASSUME TypeOK, Shape, ResetDone
  PROVE  /\ Shape' /\ ~Idle /\ Top.at = "reset" /\ Moved({Top}, {})
         /\ UNCHANGED <<chan, hist, slots>>
BY TopFacts, PopStep DEF ResetDone, At

(* A channel becomes open and its open handler about to hear of it.         *)
Opens(c) ==
  /\ chan'[c].state = "open"
  /\ hist'[c].heard = Extend(hist[c].heard, "open")
  /\ PendingKept(c) /\ ResetsKept(c)

LEMMA OpensFields ==
  ASSUME TypeOK, NEW c \in Channels, UNCHANGED slots,
         chan' = [chan EXCEPT ![c].state = "open"], hist' = Hears(c, "open")
  PROVE  OnlyChannel(c) /\ Opens(c)
<1>1. /\ chan'[c] = [chan[c] EXCEPT !.state = "open"]
      /\ hist'[c] = [hist[c] EXCEPT !.heard = Extend(@, "open")]
      /\ \A x \in Channels \ {c} : chan'[x] = chan[x] /\ hist'[x] = hist[x]
      /\ chan[c] \in ChannelRecords /\ hist[c] \in Histories
  BY DEF TypeOK, Hears
<1>2. /\ chan'[c].state = "open" /\ chan'[c].sid = chan[c].sid
      /\ chan'[c].pending = chan[c].pending
  BY <1>1 DEF ChannelRecords
<1>3. /\ hist'[c].heard = Extend(hist[c].heard, "open")
      /\ hist'[c].released = hist[c].released /\ hist'[c].resets = hist[c].resets
  BY <1>1 DEF Histories
<1>4. QED
  BY <1>1, <1>2, <1>3 DEF OnlyChannel, Opens, ResetsKept, PendingKept

LEMMA OpenRegisteredStep ==
  ASSUME TypeOK, Shape, OpenRegistered
  PROVE  /\ Shape' /\ ~Idle /\ Top.at = "register" /\ Top.ch \in Channels
         /\ FramesOn(stack) = {Top}
         /\ \/ /\ tstate = "connected" /\ OnlyChannel(Top.ch) /\ Opens(Top.ch)
               /\ Frame("open", Top.ch, Top.sid) \in Frames
               /\ Moved({Top}, {Frame("open", Top.ch, Top.sid)})
            \/ /\ tstate # "connected" /\ UNCHANGED <<chan, hist, slots>>
               /\ Moved({Top}, {})
<1>1. /\ ~Idle /\ Top.at = "register" /\ Top.ch \in Channels /\ UNCHANGED slots
      /\ Top.at \notin Callbacks \cup {"drop"} /\ Top.sid \in Sids
  BY TopFacts DEF OpenRegistered, OfChannel, Callbacks, Loops
<1>2. FramesOn(stack) = {Top}
  BY <1>1, BaseAlone DEF BaseFrames
<1> DEFINE f == Frame("open", Top.ch, Top.sid)
<1>3. f \in Frames
  BY <1>1, FrameTypes DEF OfChannel
<1>4. \A k \in Frames : Fits(k, Top) => Fits(k, f)
  BY <1>1, FitsNotBase DEF BaseFrames
<1>5. CASE tstate = "connected" /\ stack' = Replace(stack, f)
           /\ chan' = [chan EXCEPT ![Top.ch].state = "open"] /\ hist' = Hears(Top.ch, "open")
  <2>1. OnlyChannel(Top.ch) /\ Opens(Top.ch)
    BY <1>1, <1>5, OpensFields
  <2> HIDE DEF f
  <2>2. Shape' /\ Moved({Top}, {f})
    BY <1>1, <1>3, <1>4, <1>5, GoOnStep
  <2>3. QED
    BY <1>1, <1>2, <1>3, <1>5, <2>1, <2>2 DEF f
<1>6. CASE tstate # "connected" /\ stack' = Pop(stack) /\ UNCHANGED <<chan, hist>>
  BY <1>1, <1>2, <1>6, PopStep
<1>7. QED
  BY <1>5, <1>6 DEF OpenRegistered

LEMMA OpenNextStep ==
  ASSUME TypeOK, Shape, OpenNextChannel
  PROVE  /\ Shape' /\ ~Idle /\ Top.at = "open_channels" /\ FramesOn(stack) = {Top}
         /\ \E s \in Sids, c \in Channels :
              /\ NextIn(Waiting, s, Top.sid) /\ slots[s] = c /\ chan[c].state = "connecting"
              /\ OnlyChannel(c) /\ Opens(c)
              /\ Frame("open_channels", NoChannel, s + 1) \in Frames
              /\ Frame("open_all", c, s) \in Frames
              /\ Moved({Top}, {Frame("open_channels", NoChannel, s + 1),
                               Frame("open_all", c, s)})
<1>1. ~Idle /\ Top.at = "open_channels" /\ UNCHANGED slots
      /\ Top.at \notin Callbacks \cup {"drop"}
  BY DEF OpenNextChannel, At, Callbacks
<1>2. FramesOn(stack) = {Top}
  BY <1>1, BaseAlone DEF BaseFrames
<1>3. PICK s \in Sids :
        /\ NextIn(Waiting, s, Top.sid)
        /\ chan' = [chan EXCEPT ![slots[s]].state = "open"]
        /\ hist' = Hears(slots[s], "open")
        /\ stack' = Push(Replace(stack, Frame("open_channels", NoChannel, s + 1)),
                         Frame("open_all", slots[s], s))
  BY DEF OpenNextChannel
<1> DEFINE c == slots[s]
           f == Frame("open_channels", NoChannel, s + 1)
           g == Frame("open_all", c, s)
<1>4. c \in Channels /\ chan[c].state = "connecting"
  BY <1>3 DEF NextIn, Waiting, Filled, Free, TypeOK
<1>5. s + 1 \in 0 .. NChannels
  BY NChannelsAssumption DEF Sids
<1>6. f \in Frames /\ f.at = "open_channels" /\ g \in Frames /\ g.at = "open_all"
  BY <1>4, <1>5, FrameTypes DEF Frame, OfChannel, Loops
<1>7. OnlyChannel(c) /\ Opens(c)
  BY <1>1, <1>3, <1>4, OpensFields
<1>8. stack' = Push(Replace(stack, f), g)
  BY <1>3
<1> HIDE DEF c, f, g
<1>9. Fits(f, g) /\ f.at \notin Callbacks /\ \A k \in Frames : Fits(k, Top) => Fits(k, f)
  BY <1>1, <1>6, FitsNotBase DEF Fits, Callbacks, BaseFrames
<1>10. Shape' /\ Moved({Top}, {f, g})
  BY <1>1, <1>6, <1>8, <1>9, GoOnStep
<1>11. QED
  BY <1>1, <1>2, <1>3, <1>4, <1>6, <1>7, <1>10 DEF c, f, g

LEMMA NotifyConnectedStep ==
  ASSUME TypeOK, Shape, NotifyConnected
  PROVE  /\ Shape' /\ ~Idle /\ Top.at = "open_channels" /\ FramesOn(stack) = {Top}
         /\ Frame("connected", NoChannel, 0) \in Frames
         /\ Moved({Top}, {Frame("connected", NoChannel, 0)})
         /\ UNCHANGED <<chan, hist, slots>>
<1> DEFINE f == Frame("connected", NoChannel, 0)
<1>1. ~Idle /\ Top.at = "open_channels" /\ UNCHANGED <<chan, hist, slots>>
      /\ Top.at \notin Callbacks \cup {"drop"} /\ stack' = Replace(stack, f)
  BY DEF NotifyConnected, At, Callbacks
<1>2. FramesOn(stack) = {Top}
  BY <1>1, BaseAlone DEF BaseFrames
<1>3. f \in Frames
  BY PlainFrame DEF Callbacks, OfChannel
<1> HIDE DEF f
<1>4. \A k \in Frames : Fits(k, Top) => Fits(k, f)
  BY <1>1, FitsNotBase DEF BaseFrames
<1>5. QED
  BY <1>1, <1>2, <1>3, <1>4, GoOnStep DEF f

(* An event of usrsctp starts on an empty stack.                            *)
LEMMA EventStep ==
  ASSUME TypeOK, Shape,
         \/ \E k \in 0 .. Len(queue) : CommUp(k)
         \/ SenderDry
         \/ \E sids \in SUBSET Sids \ {{}}, dirs \in SUBSET Directions \ {{}} :
              StreamReset(sids, dirs)
  PROVE  /\ Shape' /\ Idle /\ FramesOn(stack) = {}
         /\ \E f \in Frames :
              /\ Moved({}, {f}) /\ f.ch = NoChannel
              /\ f.at \in {"open_channels", "dry", "reset"}
              /\ f.at = "open_channels" =>
                   f.sid = 0 /\ tstate = "connecting" /\ tstate' = "connected"
              /\ f.at # "open_channels" => UNCHANGED tstate
         /\ UNCHANGED <<chan, hist, slots, detached, socket, notes>>
<1>1. Idle /\ FramesOn(stack) = {} /\ UNCHANGED <<chan, hist, slots, detached, socket, notes>>
  BY TopOn DEF CommUp, SenderDry, StreamReset
<1>2. ASSUME NEW f \in Frames, stack' = Push(stack, f)
      PROVE  Shape' /\ Moved({}, {f})
  BY <1>1, <1>2, CallStep
<1>3. CASE \E k \in 0 .. Len(queue) : CommUp(k)
  <2> DEFINE f == Frame("open_channels", NoChannel, 0)
  <2>1. f \in Frames /\ f.at = "open_channels" /\ f.ch = NoChannel /\ f.sid = 0
    BY PlainFrame DEF Continuations, OfChannel
  <2>2. stack' = Push(stack, f) /\ tstate = "connecting" /\ tstate' = "connected"
    BY <1>3 DEF CommUp
  <2> HIDE DEF f
  <2>3. QED
    BY <1>1, <1>2, <2>1, <2>2
<1>4. CASE SenderDry
  <2> DEFINE f == DryFrame("dry", NoChannel, curSid, Sids)
  <2>1. f \in Frames
    BY FrameTypes DEF TypeOK
  <2>2. f.at = "dry" /\ f.ch = NoChannel
    BY DEF DryFrame, Frame
  <2>3. stack' = Push(stack, f) /\ UNCHANGED tstate
    BY <1>4 DEF SenderDry
  <2> HIDE DEF f
  <2>4. QED
    BY <1>1, <1>2, <2>1, <2>2, <2>3
<1>5. CASE \E sids \in SUBSET Sids \ {{}}, dirs \in SUBSET Directions \ {{}} :
             StreamReset(sids, dirs)
  <2>1. PICK sids \in SUBSET Sids, dirs \in SUBSET Directions : StreamReset(sids, dirs)
    BY <1>5
  <2> DEFINE f == [Frame("reset", NoChannel, 0) EXCEPT !.todo = sids, !.dirs = dirs]
  <2>2. f.at = "reset" /\ f.ch = NoChannel
    BY DEF Frame
  <2>3. f \in Frames
    BY Zero DEF Frame, Frames, Continuations, OfChannel, Loops
  <2>4. stack' = Push(stack, f) /\ UNCHANGED tstate
    BY <2>1 DEF StreamReset
  <2> HIDE DEF f
  <2>5. QED
    BY <1>1, <1>2, <2>2, <2>3, <2>4
<1>6. QED
  BY <1>3, <1>4, <1>5

(* A channel is registered that did not exist.                              *)
Registers(c, s) ==
  /\ Unused(c)
  /\ Free(s)
  /\ slots' = [slots EXCEPT ![s] = c]
  /\ \A d \in Channels \ {c} : chan'[d] = chan[d] /\ hist'[d] = hist[d]
  /\ chan'[c].sid = s
  /\ ~chan'[c].pending
  /\ hist'[c].released = hist[c].released
  /\ ResetsKept(c)

CreateFrames(c, s) == {Frame("created", c, s), Frame("open", c, s)}

LEMMA CreateStep ==
  ASSUME TypeOK, Shape, NEW c \in Channels, NEW s \in Sids, Unused(c), Free(s),
         Idle \/ InCallback, RegisterCreated(c, s)
  PROVE  /\ Shape' /\ Registers(c, s)
         /\ \/ /\ tstate = "connected" /\ chan'[c].state = "open"
               /\ hist'[c].heard = Extend(hist[c].heard, "open")
               /\ Moved({}, CreateFrames(c, s)) /\ CreateFrames(c, s) \subseteq Frames
            \/ /\ tstate # "connected" /\ chan'[c].state = "connecting"
               /\ hist'[c].heard = hist[c].heard /\ UNCHANGED stack
<1>1. slots' = [slots EXCEPT ![s] = c]
  BY DEF RegisterCreated
<1>2. CASE tstate = "connected"
  <2> DEFINE f == Frame("created", c, s)
             g == Frame("open", c, s)
  <2>1. /\ chan' = [chan EXCEPT ![c] = NewChannel("open", s, FALSE)]
        /\ hist' = Hears(c, "open") /\ stack' = Push(Push(stack, f), g)
    BY <1>2 DEF RegisterCreated
  <2>2. /\ chan'[c] = NewChannel("open", s, FALSE)
        /\ hist'[c] = [hist[c] EXCEPT !.heard = Extend(@, "open")]
        /\ \A x \in Channels \ {c} : chan'[x] = chan[x] /\ hist'[x] = hist[x]
        /\ hist[c] \in Histories
    BY <2>1 DEF TypeOK, Hears
  <2>3. chan'[c].state = "open" /\ chan'[c].sid = s /\ ~chan'[c].pending
    BY <2>2 DEF NewChannel
  <2>4. /\ hist'[c].heard = Extend(hist[c].heard, "open")
        /\ hist'[c].released = hist[c].released /\ hist'[c].resets = hist[c].resets
    BY <2>2 DEF Histories
  <2>5. f \in Frames /\ f.at = "created" /\ g \in Frames /\ g.at = "open"
        /\ f.ch = c /\ g.ch = c
    BY FrameTypes DEF Frame, OfChannel
  <2> HIDE DEF f, g
  <2>6. Fits(f, g) /\ f.at \in OnCallback /\ f.at \notin Callbacks
    BY <2>5 DEF Fits, OnCallback, Callbacks
  <2>7. Shape' /\ Moved({}, {f, g})
    BY <2>1, <2>5, <2>6, CallStep
  <2>8. QED
    BY <1>1, <1>2, <2>2, <2>3, <2>4, <2>5, <2>7
       DEF Registers, ResetsKept, CreateFrames, f, g
<1>3. CASE tstate # "connected"
  <2>1. /\ chan' = [chan EXCEPT ![c] = NewChannel("connecting", s, TRUE)]
        /\ UNCHANGED <<hist, stack>>
    BY <1>3 DEF RegisterCreated
  <2>2. /\ chan'[c] = NewChannel("connecting", s, TRUE)
        /\ \A x \in Channels \ {c} : chan'[x] = chan[x] /\ hist'[x] = hist[x]
    BY <2>1 DEF TypeOK
  <2>3. chan'[c].state = "connecting" /\ chan'[c].sid = s /\ ~chan'[c].pending
    BY <2>2 DEF NewChannel
  <2>4. QED
    BY <1>1, <1>3, <2>1, <2>2, <2>3, NotMoved DEF Registers, ResetsKept
<1>4. QED
  BY <1>2, <1>3

RemoteFrames(c, s) == {Frame("register", c, s), Frame("channel", c, s)}

LEMMA RemoteOpenStep ==
  ASSUME TypeOK, Shape, NEW c \in Channels, NEW s \in Sids, RemoteOpen(c, s)
  PROVE  /\ Shape' /\ Idle /\ FramesOn(stack) = {} /\ Registers(c, s)
         /\ tstate = "connected" /\ UNCHANGED tstate
         /\ chan'[c].state = "connecting" /\ hist'[c].heard = hist[c].heard
         /\ Moved({}, RemoteFrames(c, s)) /\ RemoteFrames(c, s) \subseteq Frames
<1> DEFINE f == Frame("register", c, s)
           g == Frame("channel", c, s)
<1>1. /\ Idle /\ FramesOn(stack) = {} /\ Unused(c) /\ Free(s)
      /\ slots' = [slots EXCEPT ![s] = c] /\ UNCHANGED <<hist, tstate>>
      /\ tstate = "connected"
      /\ chan' = [chan EXCEPT ![c] = NewChannel("connecting", s, TRUE)]
      /\ stack' = Push(Push(stack, f), g)
  BY TopOn DEF RemoteOpen, Acceptable
<1>2. /\ chan'[c] = NewChannel("connecting", s, TRUE)
      /\ \A x \in Channels \ {c} : chan'[x] = chan[x] /\ hist'[x] = hist[x]
  BY <1>1 DEF TypeOK
<1>3. chan'[c].state = "connecting" /\ chan'[c].sid = s /\ ~chan'[c].pending
  BY <1>2 DEF NewChannel
<1>4. f \in Frames /\ f.at = "register" /\ g \in Frames /\ g.at = "channel"
      /\ f.ch = c /\ g.ch = c
  BY FrameTypes DEF Frame, OfChannel
<1> HIDE DEF f, g
<1>5. Fits(f, g) /\ f.at \notin Callbacks
  BY <1>4 DEF Fits, Callbacks
<1>6. Shape' /\ Moved({}, {f, g})
  BY <1>1, <1>4, <1>5, CallStep
<1>7. QED
  BY <1>1, <1>2, <1>3, <1>4, <1>6 DEF Registers, ResetsKept, RemoteFrames, f, g

(***************************************************************************)
(* The steps by what they do to the channels.                              *)
(***************************************************************************)
(* Frames on which no channel depends.                                      *)
Bare(g) ==
  /\ g \in Frames
  /\ g.at \notin Dropping \cup {"register"}
  /\ g.at = "dry_next" => g.ch = NoChannel

Light(out) ==
  \A g \in out : g.at \notin Dropping /\ (g.at = "dry_next" => g.ch = NoChannel)

(* Only such frames come or go.                                             *)
CalmFrames ==
  \E out \in SUBSET {Top}, added \in SUBSET Frames :
    Moved(out, added) /\ Light(out) /\ \A g \in added : Bare(g)

NoChannelChanges == CalmFrames /\ UNCHANGED <<chan, hist, slots>>

ChannelStays(c) == CalmFrames /\ OnlyChannel(c) /\ Stays(c) /\ PendingKept(c)

(* Who closes a channel: the application, an event, or the loop that closes *)
(* all of them.                                                             *)
OnEvent == FramesOn(stack) = {Top} /\ Top.at \in {"reset", "dry"}

OnSweep(c) ==
  /\ Top \in FramesOn(stack) /\ Top.at = "close_channels"
  /\ ResetsKept(c) /\ PendingKept(c)

ChannelStartsClosing(c) ==
  /\ CalmFrames /\ OnlyChannel(c) /\ StartsClosing(c) /\ slots[chan[c].sid] = c
  /\ chan[c].state # "none"
  /\ MayClose(c) \/ OnEvent

ChannelOpens(c) ==
  /\ CalmFrames /\ OnlyChannel(c) /\ Opens(c) /\ FramesOn(stack) = {Top}
  /\ \/ /\ Top.at = "register" /\ Top.ch = c /\ tstate = "connected"
        /\ \A f \in FramesOn(stack)' : f.at = "open"
     \/ Top.at = "open_channels" /\ chan[c].state = "connecting"

ChannelCloses(c) ==
  /\ OnlyChannel(c) /\ Closes(c) /\ slots[chan[c].sid] = c /\ chan[c].state # "none"
  /\ (MayClose(c) /\ Unclosed(c)) \/ OnEvent \/ OnSweep(c)
  /\ \E out \in SUBSET {Top}, added \in SUBSET Frames, at \in Dropping,
       callback \in {"close", "teardown"} :
       /\ Moved(out, added \cup DropFrames(at, c, callback)) /\ Light(out)
       /\ \A g \in added : Bare(g) \/ (g.at = "dry_next" /\ g.ch = c)

ChannelRegisters(c, s) ==
  /\ Registers(c, s)
  /\ \/ /\ CalmFrames
        /\ \/ /\ chan'[c].state = "connecting" /\ tstate # "connected"
              /\ hist'[c].heard = hist[c].heard
           \/ /\ chan'[c].state = "open" /\ tstate = "connected"
              /\ hist'[c].heard = Extend(hist[c].heard, "open")
     \/ /\ chan'[c].state = "connecting" /\ hist'[c].heard = hist[c].heard
        /\ Moved({}, RemoteFrames(c, s)) /\ RemoteFrames(c, s) \subseteq Frames
        /\ FramesOn(stack) = {}

(* The sender dry loop asks for the reset of a channel, ...                 *)
DryAsks(c) ==
  /\ OnlyChannel(c) /\ UNCHANGED chan /\ ResetAsked(c)
  /\ hist'[c].heard = hist[c].heard
  /\ slots[chan[c].sid] = c /\ chan[c].pending
  /\ FramesOn(stack) = {Top} /\ Top.at = "dry"
  /\ \E f \in Frames : f.at = "dry_next" /\ f.ch = c /\ Moved({Top}, {f})

(* ... which is then pending no more.                                       *)
DryForgets(c) ==
  /\ OnlyChannel(c) /\ Stays(c) /\ ~chan'[c].pending
  /\ FramesOn(stack) = {Top} /\ Top.at = "dry_next" /\ Top.ch = c
  /\ \E added \in SUBSET Frames : Moved({Top}, added) /\ \A g \in added : Bare(g)

StepCases ==
  \/ NoChannelChanges
  \/ DropSkipped
  \/ Drop
  \/ \E c \in Channels :
       \/ ChannelStays(c) \/ ChannelStartsClosing(c) \/ ChannelOpens(c)
       \/ ChannelCloses(c) \/ DryAsks(c) \/ DryForgets(c)
       \/ \E s \in Sids : ChannelRegisters(c, s)

LEMMA CalmThere ==
  ASSUME NEW out \in SUBSET {Top}, NEW added \in SUBSET Frames, Moved(out, added),
         \A g \in out : g.at \notin Dropping \cup {"dry_next"},
         \A g \in added : g.at \notin Dropping \cup {"register", "dry_next"}
  PROVE  CalmFrames
BY DEF CalmFrames, Light, Bare

LEMMA CalmStill ==
  ASSUME TypeOK, Shape, UNCHANGED stack
  PROVE  Shape' /\ CalmFrames
<1>1. Moved({}, {}) /\ Shape'
  BY NotMoved
<1>2. QED
  BY <1>1, CalmThere

(* Steps that touch neither a channel nor the stack.                        *)
LEMMA QuietStep ==
  ASSUME \/ GetDataTransport \/ CreateInbandFails \/ \E c \in Channels : Send(c)
         \/ \E k \in 1 .. Len(queue) : WriteEvent(k)
         \/ \E s \in Sids : StreamResetDenied(s) \/ RemoteOpenFails(s)
         \/ UNCHANGED vars
  PROVE  UNCHANGED <<tstate, detached, socket, slots, chan, stack, hist, notes>>
BY DEF GetDataTransport, CreateInbandFails, Send, WriteEvent, StreamResetDenied,
       RemoteOpenFails, vars

LEMMA StillStep ==
  ASSUME TypeOK, Shape,
         \/ Start \/ StartFails \/ Stop \/ CommLost \/ Return \/ SetMtu \/ Detach
         \/ CloseTransport \/ NotifyConnected \/ ResetDone
         \/ \E k \in 0 .. Len(queue) : CommUp(k)
         \/ SenderDry
         \/ \E sids \in SUBSET Sids \ {{}}, dirs \in SUBSET Directions \ {{}} :
              StreamReset(sids, dirs)
  PROVE  Shape' /\ NoChannelChanges
<1>1. CASE StartFails \/ Stop \/ CommLost
  <2>1. /\ Shape' /\ Moved({}, {ClosingFrame(0)}) /\ ClosingFrame(0) \in Frames
        /\ UNCHANGED <<chan, hist, slots>>
    BY <1>1, ClosingBegins
  <2>2. ClosingFrame(0).at = "close_channels"
    BY ClosingFrameType, Zero
  <2>3. QED
    BY <2>1, <2>2, CalmThere DEF NoChannelChanges, Dropping
<1>2. CASE Start
  <2>1. Shape' /\ Moved({}, StartFrames) /\ StartFrames \subseteq Frames
    BY <1>2, StartStep
  <2>2. \A g \in StartFrames : g.at \in {"mtu", "connecting"}
    BY DEF StartFrames, Frame
  <2>3. UNCHANGED <<chan, hist, slots>>
    BY <1>2 DEF Start
  <2>4. QED
    BY <2>1, <2>2, <2>3, CalmThere DEF NoChannelChanges, Dropping
<1>3. CASE Return
  <2>1. /\ Shape' /\ Moved({Top}, {}) /\ Top.at \in Callbacks
        /\ UNCHANGED <<chan, hist, slots>>
    BY <1>3, ReturnStep
  <2>2. QED
    BY <2>1, CalmThere DEF NoChannelChanges, Dropping, Callbacks
<1>4. CASE SetMtu
  <2>1. /\ Shape' /\ Top.at = "mtu" /\ ClosingFrame(0) \in Frames
        /\ Moved({Top}, {}) \/ Moved({Top}, {ClosingFrame(0)})
        /\ UNCHANGED <<chan, hist, slots>>
    BY <1>4, SetMtuStep
  <2>2. ClosingFrame(0).at = "close_channels"
    BY ClosingFrameType, Zero
  <2>3. QED
    BY <2>1, <2>2, CalmThere DEF NoChannelChanges, Dropping
<1>5. CASE Detach
  <2>1. /\ Shape' /\ Moved({Top}, DetachFrames) /\ DetachFrames \subseteq Frames
        /\ Top.at = "close_channels" /\ UNCHANGED <<chan, hist, slots>>
    BY <1>5, DetachStep
  <2>2. \A g \in DetachFrames : g.at \in {"detached", "detach"}
    BY DEF DetachFrames, Frame
  <2>3. QED
    BY <2>1, <2>2, CalmThere DEF NoChannelChanges, Dropping
<1>6. CASE CloseTransport
  <2>1. /\ Shape' /\ Moved({Top}, {Frame("closed", NoChannel, 0)})
        /\ Frame("closed", NoChannel, 0) \in Frames
        /\ Top.at = "detached" /\ UNCHANGED <<chan, hist, slots>>
    BY <1>6, CloseTransportStep
  <2>2. Frame("closed", NoChannel, 0).at = "closed"
    BY DEF Frame
  <2>3. QED
    BY <2>1, <2>2, CalmThere DEF NoChannelChanges, Dropping
<1>7. CASE NotifyConnected
  <2>1. /\ Shape' /\ Top.at = "open_channels" /\ Frame("connected", NoChannel, 0) \in Frames
        /\ Moved({Top}, {Frame("connected", NoChannel, 0)})
        /\ UNCHANGED <<chan, hist, slots>>
    BY <1>7, NotifyConnectedStep
  <2>2. Frame("connected", NoChannel, 0).at = "connected"
    BY DEF Frame
  <2>3. QED
    BY <2>1, <2>2, CalmThere DEF NoChannelChanges, Dropping
<1>8. CASE ResetDone
  <2>1. /\ Shape' /\ Top.at = "reset" /\ Moved({Top}, {}) /\ UNCHANGED <<chan, hist, slots>>
    BY <1>8, ResetDoneStep
  <2>2. QED
    BY <2>1, CalmThere DEF NoChannelChanges, Dropping
<1>9. CASE \/ \E k \in 0 .. Len(queue) : CommUp(k)
           \/ SenderDry
           \/ \E sids \in SUBSET Sids \ {{}}, dirs \in SUBSET Directions \ {{}} :
                StreamReset(sids, dirs)
  <2>1. /\ Shape' /\ UNCHANGED <<chan, hist, slots>>
        /\ \E f \in Frames : Moved({}, {f}) /\ f.at \in {"open_channels", "dry", "reset"}
    BY <1>9, EventStep
  <2>2. PICK f \in Frames : Moved({}, {f}) /\ f.at \in {"open_channels", "dry", "reset"}
    BY <2>1
  <2>3. CalmFrames
    BY <2>2, CalmThere DEF Dropping
  <2>4. QED
    BY <2>1, <2>3 DEF NoChannelChanges
<1>10. QED
  BY <1>1, <1>2, <1>3, <1>4, <1>5, <1>6, <1>7, <1>8, <1>9

(* A channel closes: its frames may come with frames of the caller.         *)
LEMMA ClosesThere ==
  ASSUME NEW c \in Channels, OnlyChannel(c), Closes(c), slots[chan[c].sid] = c,
         chan[c].state # "none", (MayClose(c) /\ Unclosed(c)) \/ OnEvent \/ OnSweep(c),
         NEW out \in SUBSET {Top}, NEW added \in SUBSET Frames, NEW at \in Dropping,
         NEW callback \in {"close", "teardown"},
         Moved(out, added \cup DropFrames(at, c, callback)), Light(out),
         \A g \in added : Bare(g) \/ (g.at = "dry_next" /\ g.ch = c)
  PROVE  ChannelCloses(c)
BY DEF ChannelCloses

LEMMA CloseCases ==
  ASSUME TypeOK, Shape, RegistrySound, NEW c \in Channels, Close(c)
  PROVE  Shape' /\ StepCases
<1>1. /\ Shape' /\ OnlyChannel(c) /\ slots[chan[c].sid] = c
      /\ \/ UNCHANGED stack /\ StartsClosing(c)
         \/ Moved({}, DropFrames("drop_if", c, "close")) /\ Closes(c)
  BY CloseStep
<1>a. MayClose(c) /\ Unclosed(c) /\ chan[c].state # "none"
  <2>1. chan[c].sid \in Sids
    BY DEF TypeOK, ChannelRecords
  <2>2. chan[c].state # "none"
    BY <1>1, <2>1, NoChannelAssumption DEF RegistrySound, Free
  <2>3. QED
    BY <2>2, CloseStep DEF Close
<1>2. CASE UNCHANGED stack /\ StartsClosing(c)
  <2>1. ChannelStartsClosing(c)
    BY <1>1, <1>a, <1>2, CalmStill DEF ChannelStartsClosing
  <2>2. QED
    BY <1>1, <2>1 DEF StepCases
<1>3. CASE Moved({}, DropFrames("drop_if", c, "close")) /\ Closes(c)
  <2>3. Moved({}, {} \cup DropFrames("drop_if", c, "close"))
    BY <1>3
  <2>4. Light({}) /\ "drop_if" \in Dropping
    BY DEF Light, Dropping
  <2>5. ChannelCloses(c)
    <3>1. /\ {} \in SUBSET {Top} /\ {} \in SUBSET Frames /\ "close" \in {"close", "teardown"}
          /\ \A g \in {} : Bare(g) \/ (g.at = "dry_next" /\ g.ch = c)
      OBVIOUS
    <3>2. QED
      BY <1>1, <1>a, <1>3, <2>3, <2>4, <3>1, ClosesThere
  <2>6. QED
    BY <1>1, <2>5 DEF StepCases
<1>4. QED
  BY <1>1, <1>2, <1>3

LEMMA ResetCases ==
  ASSUME TypeOK, Shape, RegistrySound, ResetNext
  PROVE  Shape' /\ StepCases
<1>1. /\ Shape' /\ FramesOn(stack) = {Top} /\ Top.at = "reset"
      /\ \E f \in Frames : f.at = "reset" /\
           (\/ Moved({Top}, {f}) /\ UNCHANGED <<chan, hist, slots>>
            \/ \E c \in Channels :
                 /\ OnlyChannel(c) /\ slots[chan[c].sid] = c
                 /\ chan[c].state # "none"
                 /\ \/ Moved({Top}, {f}) /\ Stays(c) /\ PendingKept(c)
                    \/ Moved({Top}, {f}) /\ StartsClosing(c)
                    \/ /\ Closes(c)
                       /\ \E at \in Dropping :
                            Moved({Top}, {f} \cup DropFrames(at, c, "close")))
  BY ResetStep
<1>2. PICK f \in Frames : f.at = "reset" /\
           (\/ Moved({Top}, {f}) /\ UNCHANGED <<chan, hist, slots>>
            \/ \E c \in Channels :
                 /\ OnlyChannel(c) /\ slots[chan[c].sid] = c
                 /\ chan[c].state # "none"
                 /\ \/ Moved({Top}, {f}) /\ Stays(c) /\ PendingKept(c)
                    \/ Moved({Top}, {f}) /\ StartsClosing(c)
                    \/ /\ Closes(c)
                       /\ \E at \in Dropping :
                            Moved({Top}, {f} \cup DropFrames(at, c, "close")))
  BY <1>1
<1>3. Moved({Top}, {f}) => CalmFrames
  BY <1>1, <1>2, CalmThere DEF Dropping
<1>4. Light({Top}) /\ Bare(f)
  BY <1>1, <1>2 DEF Light, Bare, Dropping
<1>5. CASE Moved({Top}, {f}) /\ UNCHANGED <<chan, hist, slots>>
  BY <1>1, <1>3, <1>5 DEF StepCases, NoChannelChanges
<1>6. ASSUME NEW c \in Channels, OnlyChannel(c), slots[chan[c].sid] = c,
             chan[c].state # "none", Moved({Top}, {f}),
             (Stays(c) /\ PendingKept(c)) \/ StartsClosing(c)
      PROVE  StepCases
  <2>1. ChannelStays(c) \/ ChannelStartsClosing(c)
    BY <1>1, <1>3, <1>6 DEF ChannelStays, ChannelStartsClosing, OnEvent
  <2>2. QED
    BY <2>1 DEF StepCases
<1>7. ASSUME NEW c \in Channels, OnlyChannel(c), slots[chan[c].sid] = c,
             chan[c].state # "none", Closes(c), NEW at \in Dropping,
             Moved({Top}, {f} \cup DropFrames(at, c, "close"))
      PROVE  StepCases
  <2>1. ChannelCloses(c)
    <3>1. /\ {Top} \in SUBSET {Top} /\ {f} \in SUBSET Frames
          /\ "close" \in {"close", "teardown"}
          /\ \A g \in {f} : Bare(g) \/ (g.at = "dry_next" /\ g.ch = c)
      BY <1>4
    <3>2. QED
      BY <1>1, <1>2, <1>4, <1>7, <3>1, ClosesThere DEF OnEvent
  <2>2. QED
    BY <2>1 DEF StepCases
<1>8. QED
  BY <1>1, <1>2, <1>5, <1>6, <1>7

LEMMA DryVisitCases ==
  ASSUME TypeOK, Shape, RegistrySound, DryVisit
  PROVE  Shape' /\ StepCases
<1>1. Shape' /\ FramesOn(stack) = {Top} /\ Top.at = "dry"
  BY DryVisitStep
<1>2. \/ /\ UNCHANGED <<chan, hist, slots>>
         /\ \E f \in Frames :
              /\ f.at = "dry_next" /\ f.ch = NoChannel
              /\ \/ Moved({Top}, {f})
                 \/ \E g \in Frames : g.at = "low" /\ Moved({Top}, {f, g})
      \/ \E c \in Channels, f \in Frames :
           /\ f.at = "dry_next" /\ f.ch = c
           /\ OnlyChannel(c) /\ slots[chan[c].sid] = c
           /\ chan[c].state # "none" /\ chan[c].pending
           /\ \/ /\ Moved({Top}, {f})
                 /\ UNCHANGED chan /\ ResetAsked(c)
                 /\ hist'[c].heard = hist[c].heard
              \/ /\ Moved({Top}, {f} \cup DropFrames("drop_if", c, "close"))
                 /\ Closes(c) /\ ResetsKept(c)
  BY DryVisitStep
<1>3. Light({Top}) /\ {Top} \in SUBSET {Top}
  BY <1>1 DEF Light, Dropping
<1>4. ASSUME NEW f \in Frames, f.at = "dry_next", f.ch = NoChannel,
             \/ Moved({Top}, {f})
             \/ \E g \in Frames : g.at = "low" /\ Moved({Top}, {f, g}),
             UNCHANGED <<chan, hist, slots>>
      PROVE  StepCases
  <2>1. Bare(f)
    BY <1>4 DEF Bare, Dropping
  <2>2. CASE Moved({Top}, {f})
    BY <1>3, <1>4, <2>1, <2>2 DEF StepCases, NoChannelChanges, CalmFrames
  <2>3. ASSUME NEW g \in Frames, g.at = "low", Moved({Top}, {f, g})
        PROVE  StepCases
    <3>1. Bare(g)
      BY <2>3 DEF Bare, Dropping
    <3>2. CalmFrames
      BY <1>3, <1>4, <2>1, <2>3, <3>1 DEF CalmFrames
    <3>3. QED
      BY <1>4, <3>2 DEF StepCases, NoChannelChanges
  <2>4. QED
    BY <1>4, <2>2, <2>3
<1>5. ASSUME NEW c \in Channels, NEW f \in Frames, f.at = "dry_next", f.ch = c,
             OnlyChannel(c), slots[chan[c].sid] = c, chan[c].state # "none",
             chan[c].pending, Moved({Top}, {f}),
             UNCHANGED chan, ResetAsked(c), hist'[c].heard = hist[c].heard
      PROVE  StepCases
  <2>1. DryAsks(c)
    BY <1>1, <1>5 DEF DryAsks
  <2>2. QED
    BY <2>1 DEF StepCases
<1>6. ASSUME NEW c \in Channels, NEW f \in Frames, f.at = "dry_next", f.ch = c,
             OnlyChannel(c), slots[chan[c].sid] = c, chan[c].state # "none",
             Moved({Top}, {f} \cup DropFrames("drop_if", c, "close")), Closes(c)
      PROVE  StepCases
  <2>1. "drop_if" \in Dropping
    BY DEF Dropping
  <2>2. ChannelCloses(c)
    <3>1. /\ {f} \in SUBSET Frames /\ "close" \in {"close", "teardown"}
          /\ \A g \in {f} : Bare(g) \/ (g.at = "dry_next" /\ g.ch = c)
      BY <1>6
    <3>2. QED
      BY <1>1, <1>3, <1>6, <2>1, <3>1, ClosesThere DEF OnEvent
  <2>3. QED
    BY <2>2 DEF StepCases
<1>7. QED
  BY <1>1, <1>2, <1>4, <1>5, <1>6

LEMMA DryAdvanceCases ==
  ASSUME TypeOK, Shape, DryAdvance
  PROVE  Shape' /\ StepCases
<1>1. /\ Shape' /\ FramesOn(stack) = {Top} /\ Top.at = "dry_next"
      /\ \/ Moved({Top}, {})
         \/ \E f \in Frames :
              f.at = "dry" /\ f.ch = NoChannel /\ Moved({Top}, {f})
      /\ UNCHANGED <<hist, slots>>
      /\ \/ UNCHANGED chan /\ Top.ch = NoChannel
         \/ /\ Top.ch \in Channels /\ OnlyChannel(Top.ch) /\ Stays(Top.ch)
            /\ ~chan'[Top.ch].pending
  BY DryAdvanceStep
<1>2. \E added \in SUBSET Frames : Moved({Top}, added) /\ \A g \in added : Bare(g)
  <2>1. CASE Moved({Top}, {})
    BY <2>1
  <2>2. ASSUME NEW f \in Frames, f.at = "dry", Moved({Top}, {f})
        PROVE  \E added \in SUBSET Frames : Moved({Top}, added) /\ \A g \in added : Bare(g)
    <3>1. Bare(f)
      BY <2>2 DEF Bare, Dropping
    <3>2. QED
      BY <2>2, <3>1
  <2>3. QED
    BY <1>1, <2>1, <2>2
<1>3. CASE UNCHANGED chan /\ Top.ch = NoChannel
  <2>1. Light({Top})
    BY <1>1, <1>3 DEF Light, Dropping
  <2>2. CalmFrames
    BY <1>2, <2>1 DEF CalmFrames
  <2>3. QED
    BY <1>1, <1>3, <2>2 DEF StepCases, NoChannelChanges
<1>4. CASE /\ Top.ch \in Channels /\ OnlyChannel(Top.ch) /\ Stays(Top.ch)
           /\ ~chan'[Top.ch].pending
  BY <1>1, <1>2, <1>4 DEF StepCases, DryForgets
<1>5. QED
  BY <1>1, <1>3, <1>4

LEMMA CreateCases ==
  ASSUME TypeOK, Shape, NEW c \in Channels, NEW s \in Sids,
         (CreateInband(c) /\ RegisterCreated(c, s) /\ Free(s)) \/ CreateNegotiated(c, s)
  PROVE  Shape' /\ ChannelRegisters(c, s)
<1>1. /\ Unused(c) /\ Free(s) /\ RegisterCreated(c, s) /\ (Idle \/ InCallback)
  BY CallAllowed DEF CreateInband, CreateNegotiated
<1>2. /\ Shape' /\ Registers(c, s)
      /\ \/ /\ tstate = "connected" /\ chan'[c].state = "open"
            /\ hist'[c].heard = Extend(hist[c].heard, "open")
            /\ Moved({}, CreateFrames(c, s)) /\ CreateFrames(c, s) \subseteq Frames
         \/ /\ tstate # "connected" /\ chan'[c].state = "connecting"
            /\ hist'[c].heard = hist[c].heard /\ UNCHANGED stack
  BY <1>1, CreateStep
<1>3. CASE Moved({}, CreateFrames(c, s)) /\ CreateFrames(c, s) \subseteq Frames
  <2>1. \A g \in CreateFrames(c, s) : g.at \in {"created", "open"}
    BY DEF CreateFrames, Frame
  <2>2. CalmFrames
    BY <1>3, <2>1, CalmThere DEF Dropping
  <2>3. QED
    BY <1>2, <2>2 DEF ChannelRegisters
<1>4. CASE UNCHANGED stack
  BY <1>2, <1>4, CalmStill DEF ChannelRegisters
<1>5. QED
  BY <1>2, <1>3, <1>4

LEMMA InbandSlot ==
  ASSUME NEW c \in Channels, CreateInband(c)
  PROVE  \E s \in Sids : RegisterCreated(c, s) /\ Free(s)
BY DEF CreateInband, NextIn, OwnSids, Filled

LEMMA OpenCases ==
  ASSUME TypeOK, Shape, OpenRegistered \/ OpenNextChannel
  PROVE  Shape' /\ StepCases
<1>1. CASE OpenRegistered
  <2> DEFINE f == Frame("open", Top.ch, Top.sid)
  <2>1. /\ Shape' /\ Top.at = "register" /\ Top.ch \in Channels
        /\ FramesOn(stack) = {Top}
        /\ \/ /\ OnlyChannel(Top.ch) /\ Opens(Top.ch) /\ f \in Frames /\ Moved({Top}, {f})
              /\ tstate = "connected"
           \/ UNCHANGED <<chan, hist, slots>> /\ Moved({Top}, {})
    BY <1>1, OpenRegisteredStep
  <2>2. f.at = "open"
    BY DEF Frame
  <2> HIDE DEF f
  <2>3. CASE OnlyChannel(Top.ch) /\ Opens(Top.ch) /\ f \in Frames /\ Moved({Top}, {f})
             /\ tstate = "connected"
    <3>1. CalmFrames
      BY <2>1, <2>2, <2>3, CalmThere DEF Dropping
    <3>2. \A g \in FramesOn(stack)' : g.at = "open"
      <4>1. Len(stack) = 1
        BY <1>1, <2>1, BaseAlone DEF OpenRegistered, At, BaseFrames
      <4>2. Atop(0, {f})
        BY <2>3, <4>1 DEF Moved
      <4>3. QED
        BY <2>2, <4>2 DEF Atop, FramesOn
    <3>0. ChannelOpens(Top.ch)
      BY <2>1, <2>3, <3>1, <3>2 DEF ChannelOpens
    <3>3. QED
      BY <2>1, <3>0 DEF StepCases
  <2>4. CASE UNCHANGED <<chan, hist, slots>> /\ Moved({Top}, {})
    <3>1. CalmFrames
      BY <2>1, <2>4, CalmThere DEF Dropping
    <3>2. QED
      BY <2>1, <2>4, <3>1 DEF StepCases, NoChannelChanges
  <2>5. QED
    BY <2>1, <2>3, <2>4
<1>2. CASE OpenNextChannel
  <2>1. Shape' /\ Top.at = "open_channels" /\ FramesOn(stack) = {Top}
    BY <1>2, OpenNextStep
  <2>2. PICK s \in Sids, c \in Channels :
          /\ chan[c].state = "connecting" /\ OnlyChannel(c) /\ Opens(c)
          /\ Frame("open_channels", NoChannel, s + 1) \in Frames
          /\ Frame("open_all", c, s) \in Frames
          /\ Moved({Top}, {Frame("open_channels", NoChannel, s + 1),
                           Frame("open_all", c, s)})
    BY <1>2, OpenNextStep
  <2> DEFINE f == Frame("open_channels", NoChannel, s + 1)
             g == Frame("open_all", c, s)
  <2>3. f.at = "open_channels" /\ g.at = "open_all"
    BY DEF Frame
  <2> HIDE DEF f, g
  <2>4. Moved({Top}, {f, g}) /\ f \in Frames /\ g \in Frames
    BY <2>2 DEF f, g
  <2>5. CalmFrames
    BY <2>1, <2>3, <2>4, CalmThere DEF Dropping
  <2>6. ChannelOpens(c)
    BY <2>1, <2>2, <2>5 DEF ChannelOpens
  <2>7. QED
    BY <2>1, <2>6 DEF StepCases
<1>3. QED
  BY <1>1, <1>2

LEMMA CloseNextCases ==
  ASSUME TypeOK, Shape, RegistrySound, CloseNextChannel
  PROVE  Shape' /\ StepCases
<1>1. Shape' /\ Top.at = "close_channels" /\ Top \in FramesOn(stack)
  BY CloseNextStep, TopOn
<1>2. PICK s \in Sids, c \in Channels :
        /\ slots[s] = c /\ chan[c].sid = s
        /\ chan[c].state # "none" /\ ClosingFrame(s + 1) \in Frames
        /\ OnlyChannel(c) /\ Closes(c) /\ ResetsKept(c) /\ PendingKept(c)
        /\ Moved({Top}, {ClosingFrame(s + 1)} \cup DropFrames("drop", c, "teardown"))
  BY CloseNextStep
<1>3. ClosingFrame(s + 1).at = "close_channels"
  BY DEF ClosingFrame, Frame
<1>4. /\ \A g \in {ClosingFrame(s + 1)} : Bare(g)
      /\ {ClosingFrame(s + 1)} \in SUBSET Frames /\ {Top} \in SUBSET {Top}
      /\ Light({Top}) /\ "drop" \in Dropping
      /\ "teardown" \in {"close", "teardown"}
  BY <1>1, <1>2, <1>3 DEF Bare, Light, Dropping
<1>5. ChannelCloses(c)
  BY <1>1, <1>2, <1>4, ClosesThere DEF OnSweep
<1>6. QED
  BY <1>1, <1>5 DEF StepCases

LEMMA CreatedCases ==
  ASSUME TypeOK, Shape, Created
  PROVE  Shape' /\ StepCases
<1>1. /\ Shape' /\ Top.at = "created" /\ Moved({Top}, {}) /\ Top.ch \in Channels
      /\ OnlyChannel(Top.ch) /\ Stays(Top.ch) /\ PendingKept(Top.ch)
  BY CreatedStep
<1>2. CalmFrames
  BY <1>1, CalmThere DEF Dropping
<1>3. QED
  BY <1>1, <1>2 DEF StepCases, ChannelStays

LEMMA RemoteCases ==
  ASSUME TypeOK, Shape, NEW c \in Channels, NEW s \in Sids, RemoteOpen(c, s)
  PROVE  Shape' /\ StepCases
<1>1. Shape' /\ ChannelRegisters(c, s)
  BY RemoteOpenStep DEF ChannelRegisters
<1>2. QED
  BY <1>1 DEF StepCases

(* Every step keeps the shape of the stack and is one of these cases.       *)
LEMMA StepLemma ==
  ASSUME TypeOK, Shape, RegistrySound, [Next]_vars
  PROVE  Shape' /\ StepCases
<1>1. CASE \/ GetDataTransport \/ CreateInbandFails \/ \E c \in Channels : Send(c)
           \/ \E k \in 1 .. Len(queue) : WriteEvent(k)
           \/ \E s \in Sids : StreamResetDenied(s) \/ RemoteOpenFails(s)
           \/ UNCHANGED vars
  <2>1. UNCHANGED <<slots, chan, stack, hist>>
    BY <1>1, QuietStep
  <2>2. QED
    BY <2>1, CalmStill DEF StepCases, NoChannelChanges
<1>2. CASE \/ Start \/ StartFails \/ Stop \/ CommLost \/ Return \/ SetMtu \/ Detach
           \/ CloseTransport \/ NotifyConnected \/ ResetDone
           \/ \E k \in 0 .. Len(queue) : CommUp(k)
           \/ SenderDry
           \/ \E sids \in SUBSET Sids \ {{}}, dirs \in SUBSET Directions \ {{}} :
                StreamReset(sids, dirs)
  BY <1>2, StillStep DEF StepCases
<1>3. ASSUME NEW c \in Channels, CreateInband(c)
      PROVE  Shape' /\ StepCases
  BY <1>3, InbandSlot, CreateCases DEF StepCases
<1>4. ASSUME NEW c \in Channels, NEW s \in Sids, CreateNegotiated(c, s)
      PROVE  Shape' /\ StepCases
  BY <1>4, CreateCases DEF StepCases
<1>5. ASSUME NEW c \in Channels, Close(c)
      PROVE  Shape' /\ StepCases
  BY <1>5, CloseCases
<1>6. ASSUME NEW c \in Channels, NEW s \in Sids, RemoteOpen(c, s)
      PROVE  Shape' /\ StepCases
  BY <1>6, RemoteCases
<1>7. CASE Drop \/ DropSkipped
  BY <1>7, DropStep, DropSkippedStep DEF StepCases
<1>8. CASE OpenRegistered \/ OpenNextChannel
  BY <1>8, OpenCases
<1>9. CASE CloseNextChannel \/ Created \/ DryVisit \/ DryAdvance \/ ResetNext
  BY <1>9, CloseNextCases, CreatedCases, DryVisitCases, DryAdvanceCases, ResetCases
<1>10. CASE App
  BY <1>1, <1>2, <1>3, <1>4, <1>5, <1>10 DEF App
<1>11. CASE Library
  BY <1>2, <1>7, <1>8, <1>9, <1>11 DEF Library
<1>12. CASE Events
  BY <1>1, <1>2, <1>6, <1>12 DEF Events
<1>13. QED
  BY <1>1, <1>2, <1>10, <1>11, <1>12 DEF Next

(***************************************************************************)
(* What holds whatever the application does.                               *)
(***************************************************************************)
(* Frames on which a channel depends stay on the stack, ...                 *)
Firm(f) == f.at \in Dropping \/ (f.at = "dry_next" /\ f.ch # NoChannel)

LEMMA CalmKept ==
  ASSUME CalmFrames
  PROVE  /\ \A f \in FramesOn(stack) : Firm(f) => f \in FramesOn(stack)'
         /\ \A f \in FramesOn(stack)' :
              Firm(f) \/ f.at = "register" => f \in FramesOn(stack)
BY DEF CalmFrames, Moved, Light, Bare, Firm

(* ... and come with the channel they are about.                            *)
LEMMA ClosesKept ==
  ASSUME NEW c \in Channels, ChannelCloses(c)
  PROVE  /\ \A f \in FramesOn(stack) : Firm(f) => f \in FramesOn(stack)'
         /\ \A f \in FramesOn(stack)' :
              Firm(f) \/ f.at = "register" =>
                f \in FramesOn(stack) \/ (f.ch = c /\ f.at # "register")
         /\ \E f \in FramesOn(stack)' :
              f.at \in Dropping /\ f.ch = c /\ f.sid = chan[c].sid
<1>1. PICK out \in SUBSET {Top}, added \in SUBSET Frames, at \in Dropping,
           callback \in {"close", "teardown"} :
        /\ Moved(out, added \cup DropFrames(at, c, callback)) /\ Light(out)
        /\ \A g \in added : Bare(g) \/ (g.at = "dry_next" /\ g.ch = c)
  BY DEF ChannelCloses
<1>2. /\ \A f \in FramesOn(stack)' :
           f \in FramesOn(stack) \/ f \in added \/ f \in DropFrames(at, c, callback)
      /\ \A f \in FramesOn(stack) : f \in FramesOn(stack)' \/ f \in out
      /\ DropFrames(at, c, callback) \subseteq FramesOn(stack)'
  BY <1>1 DEF Moved
<1>3. \A f \in DropFrames(at, c, callback) :
        f.ch = c /\ f.at \in Dropping \cup {"close", "teardown"} /\ f.sid = chan[c].sid
  BY <1>1 DEF DropFrames, Frame
<1>4. Frame(at, c, chan[c].sid) \in DropFrames(at, c, callback)
      /\ Frame(at, c, chan[c].sid).at = at
  BY DEF DropFrames, Frame
<1>5. \A f \in FramesOn(stack) : Firm(f) => f \in FramesOn(stack)'
  BY <1>1, <1>2 DEF Firm, Light
<1>6. \A f \in added : Firm(f) \/ f.at = "register" => f.ch = c /\ f.at # "register"
  BY <1>1 DEF Firm, Bare
<1>7. \A f \in DropFrames(at, c, callback) : f.ch = c /\ f.at # "register"
  BY <1>3 DEF Dropping
<1>8. QED
  BY <1>2, <1>3, <1>4, <1>5, <1>6, <1>7

LEMMA DropKept ==
  ASSUME TypeOK, Shape, Drop \/ DropSkipped
  PROVE  /\ \A f \in FramesOn(stack) : f # Top => f \in FramesOn(stack)'
         /\ FramesOn(stack)' \subseteq FramesOn(stack)
         /\ Top.at \in Dropping
<1>1. Moved({Top}, {}) /\ Top.at \in Dropping
  BY DropStep, DropSkippedStep DEF Dropping
<1>2. QED
  BY <1>1 DEF Moved

LEMMA ChannelIn ==
  ASSUME TypeOK
  PROVE  \A f \in FramesOn(stack) :
           /\ f.at \in Dropping \cup {"register"} => f.ch \in Channels
           /\ Firm(f) => f.ch \in Channels
BY TopOn, FrameFields DEF Dropping, OfChannel, Firm

LEMMA ChannelInNext ==
  ASSUME TypeOK'
  PROVE  \A f \in FramesOn(stack)' :
           /\ f.at \in Dropping \cup {"register"} => f.ch \in Channels
           /\ Firm(f) => f.ch \in Channels
<1>1. FramesOn(stack)' \subseteq Frames
  BY DEF TypeOK, FramesOn
<1>2. QED
  BY <1>1, FrameFields DEF Dropping, OfChannel, Firm

(* What a step does to one channel.                                         *)
Effect(d) ==
  \/ Stays(d) /\ PendingKept(d)
  \/ ChannelStartsClosing(d) \/ ChannelOpens(d) \/ ChannelCloses(d)
  \/ DryAsks(d) \/ DryForgets(d)
  \/ \E s \in Sids : ChannelRegisters(d, s)

LEMMA EffectLemma ==
  ASSUME TypeOK, Shape, StepCases, NEW d \in Channels
  PROVE  Effect(d)
<1>1. CASE NoChannelChanges \/ DropSkipped
  BY <1>1 DEF NoChannelChanges, DropSkipped, Effect, Stays, PendingKept, ResetsKept
<1>2. CASE Drop
  <2>1. /\ UNCHANGED chan
        /\ hist'[d] = hist[d] \/
             (hist'[d].heard = hist[d].heard /\ hist'[d].resets = hist[d].resets)
    BY <1>2, DropStep DEF ResetsKept
  <2>2. QED
    BY <2>1 DEF Effect, Stays, PendingKept, ResetsKept
<1>3. ASSUME NEW c \in Channels, c # d,
             \/ OnlyChannel(c)
             \/ \E s \in Sids : ChannelRegisters(c, s)
      PROVE  Effect(d)
  <2>1. chan'[d] = chan[d] /\ hist'[d] = hist[d]
    BY <1>3 DEF OnlyChannel, ChannelRegisters, Registers
  <2>2. QED
    BY <2>1 DEF Effect, Stays, PendingKept, ResetsKept
<1>4. ASSUME NEW c \in Channels,
             \/ ChannelStays(c) \/ ChannelStartsClosing(c) \/ ChannelOpens(c)
             \/ ChannelCloses(c) \/ DryAsks(c) \/ DryForgets(c)
      PROVE  OnlyChannel(c) /\ (ChannelStays(c) => Stays(c) /\ PendingKept(c))
  BY <1>4 DEF ChannelStays, ChannelStartsClosing, ChannelOpens, ChannelCloses,
              DryAsks, DryForgets
<1>5. ASSUME NEW c \in Channels,
             \/ ChannelStays(c) \/ ChannelStartsClosing(c) \/ ChannelOpens(c)
             \/ ChannelCloses(c) \/ DryAsks(c) \/ DryForgets(c)
             \/ \E s \in Sids : ChannelRegisters(c, s)
      PROVE  Effect(d)
  <2>1. CASE c = d
    BY <1>4, <1>5, <2>1 DEF Effect
  <2>2. CASE c # d
    BY <1>3, <1>4, <1>5, <2>2
  <2>3. QED
    BY <2>1, <2>2
<1>6. QED
  BY <1>1, <1>2, <1>5 DEF StepCases

(* What a step does to the frames on which channels depend.                 *)
LEMMA FirmKept ==
  ASSUME TypeOK, Shape, StepCases
  PROVE  /\ \A f \in FramesOn(stack) :
              Firm(f) => \/ f \in FramesOn(stack)'
                         \/ f = Top /\ (Drop \/ DropSkipped)
                         \/ f.at = "dry_next" /\ DryForgets(f.ch)
         /\ \A f \in FramesOn(stack)' :
              Firm(f) => \/ f \in FramesOn(stack)
                         \/ f.ch \in Channels /\ ChannelCloses(f.ch)
                         \/ f.ch \in Channels /\ DryAsks(f.ch) /\ f.at = "dry_next"
<1> DEFINE Goal ==
         /\ \A f \in FramesOn(stack) :
              Firm(f) => \/ f \in FramesOn(stack)'
                         \/ f = Top /\ (Drop \/ DropSkipped)
                         \/ f.at = "dry_next" /\ DryForgets(f.ch)
         /\ \A f \in FramesOn(stack)' :
              Firm(f) => \/ f \in FramesOn(stack)
                         \/ f.ch \in Channels /\ ChannelCloses(f.ch)
                         \/ f.ch \in Channels /\ DryAsks(f.ch) /\ f.at = "dry_next"
<1>1. CalmFrames => Goal
  BY CalmKept
<1>2. CASE Drop \/ DropSkipped
  BY <1>2, DropKept
<1>3. ASSUME NEW c \in Channels, ChannelCloses(c) PROVE Goal
  BY <1>3, ClosesKept
<1>4. ASSUME NEW c \in Channels, DryAsks(c) PROVE Goal
  <2>1. PICK f \in Frames : f.at = "dry_next" /\ f.ch = c /\ Moved({Top}, {f})
    BY <1>4 DEF DryAsks
  <2>2. FramesOn(stack) = {Top} /\ Top.at = "dry"
    BY <1>4 DEF DryAsks
  <2>3. ~Firm(Top)
    BY <2>2 DEF Firm, Dropping
  <2>4. \A g \in FramesOn(stack)' : g = Top \/ g = f
    BY <2>1, <2>2 DEF Moved
  <2>5. QED
    BY <1>4, <2>1, <2>2, <2>3, <2>4
<1>5. ASSUME NEW c \in Channels, DryForgets(c) PROVE Goal
  <2>1. /\ \A f \in FramesOn(stack) : f.at = "dry_next" /\ f.ch = c
        /\ \A f \in FramesOn(stack)' : Firm(f) => f \in FramesOn(stack)
    BY <1>5 DEF DryForgets, Moved, Bare, Firm
  <2>2. QED
    BY <1>5, <2>1
<1>6. ASSUME NEW c \in Channels, NEW s \in Sids, ChannelRegisters(c, s) PROVE Goal
  <2>1. CASE Moved({}, RemoteFrames(c, s)) /\ FramesOn(stack) = {}
    <3>1. \A f \in FramesOn(stack)' : f \in RemoteFrames(c, s)
      BY <2>1 DEF Moved
    <3>2. \A f \in RemoteFrames(c, s) : ~Firm(f)
      BY DEF RemoteFrames, Frame, Firm, Dropping
    <3>3. QED
      BY <2>1, <3>1, <3>2
  <2>2. QED
    BY <1>1, <1>6, <2>1 DEF ChannelRegisters
<1>7. ASSUME NEW c \in Channels,
             ChannelStays(c) \/ ChannelStartsClosing(c) \/ ChannelOpens(c)
      PROVE  Goal
  BY <1>1, <1>7 DEF ChannelStays, ChannelStartsClosing, ChannelOpens
<1>8. CASE NoChannelChanges
  BY <1>1, <1>8 DEF NoChannelChanges
<1>9. Goal
  <2>0. Drop \/ DropSkipped \/ NoChannelChanges => Goal
    BY <1>2, <1>8
  <2> HIDE DEF Goal
  <2>1. ASSUME NEW c \in Channels,
               \/ ChannelStays(c) \/ ChannelStartsClosing(c) \/ ChannelOpens(c)
               \/ ChannelCloses(c) \/ DryAsks(c) \/ DryForgets(c)
               \/ \E s \in Sids : ChannelRegisters(c, s)
        PROVE  Goal
    BY <1>3, <1>4, <1>5, <1>6, <1>7, <2>1
  <2>2. QED
    BY <2>0, <2>1 DEF StepCases
<1>10. QED
  BY <1>9

LEMMA DroppedClosedNext ==
  ASSUME TypeOK, TypeOK', Shape, DroppedClosed, StepCases
  PROVE  DroppedClosed'
<1> SUFFICES ASSUME NEW f \in FramesOn(stack)', f.at \in Dropping
             PROVE  chan'[f.ch].state = "closed"
  BY DEF DroppedClosed
<1>1. Firm(f) /\ f.ch \in Channels /\ f.at # "dry_next"
  BY ChannelInNext DEF Firm, Dropping
<1>2. CASE ChannelCloses(f.ch)
  BY <1>2 DEF ChannelCloses, Closes
<1>3. CASE f \in FramesOn(stack)
  <2>1. chan[f.ch].state = "closed"
    BY <1>3 DEF DroppedClosed
  <2>2. ~ChannelOpens(f.ch) /\ ~ChannelStartsClosing(f.ch)
    BY <1>3, <2>1 DEF ChannelOpens, ChannelStartsClosing, StartsClosing, Unclosed, Dropping
  <2>3. \A s \in Sids : ~ChannelRegisters(f.ch, s)
    BY <2>1 DEF ChannelRegisters, Registers, Unused
  <2>4. Effect(f.ch)
    BY <1>1, EffectLemma
  <2>5. QED
    BY <1>2, <2>1, <2>2, <2>3, <2>4 DEF Effect, Stays, DryAsks, DryForgets
<1>4. QED
  BY <1>1, <1>2, <1>3, FirmKept

(* Slots are filled by registering and emptied by dropping only.            *)
LEMMA SlotsNext ==
  ASSUME TypeOK, Shape, StepCases
  PROVE  \/ UNCHANGED slots
         \/ Drop /\ slots' = [slots EXCEPT ![Top.sid] = NoChannel]
         \/ \E c \in Channels, s \in Sids :
              ChannelRegisters(c, s) /\ slots' = [slots EXCEPT ![s] = c]
BY DropStep DEF StepCases, NoChannelChanges, DropSkipped, ChannelStays,
   ChannelStartsClosing, ChannelOpens, ChannelCloses, DryAsks, DryForgets,
   ChannelRegisters, Registers, OnlyChannel

LEMMA ClosedDroppedNext ==
  ASSUME TypeOK, TypeOK', Shape, RegistrySound, ClosedDropped, StepCases
  PROVE  ClosedDropped'
<1> SUFFICES ASSUME NEW s \in Sids, slots'[s] # NoChannel,
                    chan'[slots'[s]].state = "closed"
             PROVE  \E f \in FramesOn(stack)' :
                      f.at \in Dropping /\ f.ch = slots'[s] /\ f.sid = s
  BY DEF ClosedDropped, Free
<1> DEFINE c == slots'[s]
<1>1. c \in Channels
  BY DEF TypeOK
<1>2. ASSUME NEW r \in Sids, ChannelRegisters(c, r)
      PROVE  FALSE
  BY <1>1, <1>2 DEF ChannelRegisters
<1>3. slots[s] = c
  <2>1. CASE UNCHANGED slots
    BY <2>1
  <2>2. CASE Drop /\ slots' = [slots EXCEPT ![Top.sid] = NoChannel]
    BY <2>2 DEF TypeOK
  <2>3. ASSUME NEW d \in Channels, NEW r \in Sids, ChannelRegisters(d, r),
               slots' = [slots EXCEPT ![r] = d]
        PROVE  slots[s] = c
    <3>1. d # c
      BY <1>2, <2>3
    <3>2. QED
      BY <2>3, <3>1 DEF TypeOK
  <2>4. QED
    BY <2>1, <2>2, <2>3, SlotsNext
<1>4. chan[c].sid = s /\ ~Free(s)
  BY <1>1, <1>3 DEF RegistrySound, Free
<1>5. CASE ChannelCloses(c)
  BY <1>1, <1>4, <1>5, ClosesKept
<1>6. CASE ~ChannelCloses(c)
  <2>1. chan[c].state = "closed"
    <3>1. ~ChannelOpens(c) /\ ~ChannelStartsClosing(c)
      BY DEF ChannelOpens, ChannelStartsClosing, StartsClosing, Opens
    <3>2. Effect(c)
      BY <1>1, EffectLemma
    <3>3. QED
      BY <1>2, <1>6, <3>1, <3>2 DEF Effect, Stays, DryAsks, DryForgets
  <2>2. PICK f \in FramesOn(stack) : f.at \in Dropping /\ f.ch = c /\ f.sid = s
    BY <1>3, <1>4, <2>1 DEF ClosedDropped
  <2>3. f = Top => ~Drop /\ ~DropSkipped
    <3>1. CASE f = Top /\ Drop
      <4>1. slots' = [slots EXCEPT ![s] = NoChannel]
        BY <2>2, <3>1, DropStep
      <4>2. QED
        BY <4>1, <1>1, NoChannelAssumption DEF TypeOK
    <3>2. CASE f = Top /\ DropSkipped
      BY <1>3, <2>2, <3>2, DropSkippedStep
    <3>3. QED
      BY <3>1, <3>2
  <2>4. Firm(f) /\ f.at # "dry_next"
    BY <2>2 DEF Firm, Dropping
  <2>5. f \in FramesOn(stack)'
    BY <2>3, <2>4, FirmKept
  <2>6. QED
    BY <2>2, <2>5
<1>7. QED
  BY <1>5, <1>6

LEMMA BumpGrows ==
  ASSUME TypeOK, NEW c \in Channels
  PROVE  /\ Bump(hist[c].resets) > 0 /\ hist[c].resets \in 0 .. 2
         /\ hist[c].resets > 0 => Bump(hist[c].resets) > 0
<1>1. hist[c].resets \in 0 .. 2
  BY DEF TypeOK, Histories
<1>2. QED
  BY <1>1 DEF Bump

(* The number of resets does not fall.                                      *)
LEMMA ResetsGrow ==
  ASSUME TypeOK, Shape, StepCases, NEW c \in Channels
  PROVE  \/ hist'[c].resets = hist[c].resets
         \/ hist'[c].resets = Bump(hist[c].resets)
<1>1. Effect(c)
  BY EffectLemma
<1>2. QED
  BY <1>1 DEF Effect, Stays, ResetsKept, ChannelStartsClosing, StartsClosing, ResetAsked,
     ChannelOpens, Opens, ChannelCloses, Closes, DryAsks, DryForgets,
     ChannelRegisters, Registers

LEMMA DryResetDoneNext ==
  ASSUME TypeOK, TypeOK', Shape, DryResetDone, StepCases
  PROVE  DryResetDone'
<1> SUFFICES ASSUME NEW f \in FramesOn(stack)', f.at = "dry_next", f.ch # NoChannel
             PROVE  hist'[f.ch].resets > 0 \/ chan'[f.ch].state = "closed"
  BY DEF DryResetDone
<1>1. Firm(f) /\ f.ch \in Channels
  BY ChannelInNext DEF Firm
<1>2. CASE ChannelCloses(f.ch)
  BY <1>2 DEF ChannelCloses, Closes
<1>3. CASE DryAsks(f.ch)
  BY <1>1, <1>3, BumpGrows DEF DryAsks, ResetAsked
<1>4. CASE f \in FramesOn(stack)
  <2>1. hist[f.ch].resets > 0 \/ chan[f.ch].state = "closed"
    BY <1>4 DEF DryResetDone
  <2>2. CASE hist[f.ch].resets > 0
    BY <1>1, <2>2, ResetsGrow, BumpGrows
  <2>3. CASE chan[f.ch].state = "closed"
    <3>1. ~ChannelOpens(f.ch) /\ ~ChannelStartsClosing(f.ch)
      BY <1>4, <2>3 DEF ChannelOpens, ChannelStartsClosing, StartsClosing, Unclosed
    <3>2. \A s \in Sids : ~ChannelRegisters(f.ch, s)
      BY <2>3 DEF ChannelRegisters, Registers, Unused
    <3>3. Effect(f.ch)
      BY <1>1, EffectLemma
    <3>4. QED
      BY <1>2, <2>3, <3>1, <3>2, <3>3 DEF Effect, Stays, DryAsks, DryForgets
  <2>4. QED
    BY <2>1, <2>2, <2>3
<1>5. QED
  BY <1>1, <1>2, <1>3, <1>4, FirmKept

(* Announcements come with the registration of the channel.                 *)
LEMMA RegisterKept ==
  ASSUME TypeOK, TypeOK', Shape, StepCases, NEW f \in FramesOn(stack)', f.at = "register"
  PROVE  /\ f.ch \in Channels
         /\ f \in FramesOn(stack) \/
              (/\ \E s \in Sids : ChannelRegisters(f.ch, s)
               /\ chan'[f.ch].state = "connecting")
<1>0. f.ch \in Channels
  BY ChannelInNext
<1>1. CASE CalmFrames
  BY <1>0, <1>1, CalmKept
<1>2. CASE Drop \/ DropSkipped
  BY <1>0, <1>2, DropKept
<1>3. ASSUME NEW c \in Channels, ChannelCloses(c)
      PROVE  f \in FramesOn(stack)
  BY <1>3, ClosesKept
<1>4. ASSUME NEW c \in Channels, DryAsks(c) \/ DryForgets(c)
      PROVE  f \in FramesOn(stack)
  BY <1>4 DEF DryAsks, DryForgets, Moved, Bare
<1>5. ASSUME NEW c \in Channels, NEW s \in Sids, ChannelRegisters(c, s), ~CalmFrames
      PROVE  f.ch = c /\ chan'[c].state = "connecting"
  <2>1. /\ \A g \in FramesOn(stack)' : g \in RemoteFrames(c, s)
        /\ chan'[c].state = "connecting"
    BY <1>5 DEF ChannelRegisters, Moved
  <2>2. QED
    BY <2>1 DEF RemoteFrames, Frame
<1>6. QED
  BY <1>0, <1>1, <1>2, <1>3, <1>4, <1>5
     DEF StepCases, NoChannelChanges, ChannelStays, ChannelStartsClosing, ChannelOpens

LEMMA AnnouncedCreatedNext ==
  ASSUME TypeOK, TypeOK', Shape, AnnouncedCreated, StepCases
  PROVE  AnnouncedCreated'
<1> SUFFICES ASSUME NEW f \in FramesOn(stack)', f.at = "register"
             PROVE  chan'[f.ch].state # "none"
  BY DEF AnnouncedCreated
<1>1. f.ch \in Channels
  BY RegisterKept
<1>2. Effect(f.ch)
  BY <1>1, EffectLemma
<1>3. f \in FramesOn(stack) => chan[f.ch].state # "none"
  BY DEF AnnouncedCreated
<1>4. QED
  BY <1>2, <1>3, RegisterKept
     DEF Effect, Stays, ChannelStartsClosing, StartsClosing, ChannelOpens, Opens,
         ChannelCloses, Closes, DryAsks, DryForgets, ChannelRegisters

LEMMA CoreNext ==
  ASSUME TypeOK, RegistrySound, CoreInv, [Next]_vars
  PROVE  CoreInv' /\ StepCases
<1>1. Shape' /\ StepCases /\ TypeOK'
  BY StepLemma, TypeNext DEF CoreInv
<1>2. QED
  BY <1>1, DroppedClosedNext, ClosedDroppedNext, DryResetDoneNext, AnnouncedCreatedNext
     DEF CoreInv

LEMMA NoFrames == FramesOn(<<>>) = {} /\ Shaped(<<>>)
BY DEF FramesOn, Shaped

(* Whatever the application does, the call stack of the library is built as *)
(* the code says, a channel whose reference is about to be dropped is       *)
(* closed, and a closed channel in a slot is about to be dropped            *)
(* (close_data_channels, handle_stream_reset_event, close_data_channel).    *)
THEOREM CoreCorrect == Spec => []CoreInv
<1>1. Init => CoreInv
  BY NoFrames DEF Init, CoreInv, Shape, DroppedClosed, ClosedDropped, DryResetDone,
              AnnouncedCreated, Free
<1>2. QED
  BY <1>1, TypeCorrect, RegistryCorrect, CoreNext, PTL DEF Spec

LEMMA CloseNeverForgottenNext ==
  ASSUME TypeOK, TypeOK', RegistrySound, CoreInv, StepCases, CloseNeverForgotten
  PROVE  CloseNeverForgotten'
<1> SUFFICES ASSUME NEW s \in Sids, slots'[s] # NoChannel,
                    chan'[slots'[s]].state = "closing"
             PROVE  chan'[slots'[s]].pending \/ hist'[slots'[s]].resets > 0
  BY DEF CloseNeverForgotten, Filled, Free
<1> DEFINE c == slots'[s]
<1>0. Shape
  BY DEF CoreInv
<1>1. c \in Channels
  BY DEF TypeOK
<1>2. \A r \in Sids : ~ChannelRegisters(c, r)
  BY DEF ChannelRegisters
<1>3. ~ChannelOpens(c) /\ ~ChannelCloses(c)
  BY DEF ChannelOpens, Opens, ChannelCloses, Closes
<1>4. CASE ChannelStartsClosing(c)
  BY <1>1, <1>4, BumpGrows DEF ChannelStartsClosing, StartsClosing, ResetAsked
<1>5. CASE DryAsks(c)
  BY <1>1, <1>5, BumpGrows DEF DryAsks, ResetAsked
<1>6. CASE DryForgets(c)
  <2>1. Top \in FramesOn(stack) /\ Top.at = "dry_next" /\ Top.ch = c /\ c # NoChannel
    BY <1>1, <1>6, NoChannelAssumption DEF DryForgets
  <2>2. hist[c].resets > 0 \/ chan[c].state = "closed"
    BY <2>1 DEF CoreInv, DryResetDone
  <2>3. QED
    BY <1>6, <2>2 DEF DryForgets, Stays, ResetsKept
<1>7. CASE Stays(c) /\ PendingKept(c)
  <2>1. slots[s] = c
    <3>1. CASE UNCHANGED slots
      BY <3>1
    <3>2. CASE Drop /\ slots' = [slots EXCEPT ![Top.sid] = NoChannel]
      BY <3>2 DEF TypeOK
    <3>3. ASSUME NEW d \in Channels, NEW r \in Sids, ChannelRegisters(d, r),
                 slots' = [slots EXCEPT ![r] = d]
          PROVE  slots[s] = c
      <4>1. d # c
        BY <1>2, <3>3
      <4>2. QED
        BY <3>3, <4>1 DEF TypeOK
    <3>4. QED
      BY <1>0, <3>1, <3>2, <3>3, SlotsNext
  <2>2. s \in Filled
    BY <1>1, <2>1, NoChannelAssumption DEF Filled, Free
  <2>3. chan[c].pending \/ hist[c].resets > 0
    BY <1>7, <2>1, <2>2 DEF CloseNeverForgotten, Stays
  <2>4. QED
    BY <1>7, <2>3 DEF Stays, ResetsKept, PendingKept
<1>8. QED
  BY <1>0, <1>1, <1>2, <1>3, <1>4, <1>5, <1>6, <1>7, EffectLemma DEF Effect

(* Whatever the application does, a channel that is closing and still in    *)
(* its slot has its reset pending or has asked usrsctp for it               *)
(* (reset_outgoing_stream and the sender dry loop that takes up what it     *)
(* deferred): no close is lost between the two.                             *)
THEOREM CloseKept == Spec => []CloseNeverForgotten
<1>1. Init => CloseNeverForgotten
  BY DEF Init, CloseNeverForgotten, Filled, Free
<1>2. TypeOK /\ TypeOK' /\ RegistrySound /\ CoreInv /\ [Next]_vars /\ CloseNeverForgotten
        => CloseNeverForgotten'
  BY CoreNext, CloseNeverForgottenNext
<1>3. QED
  BY <1>1, <1>2, TypeCorrect, RegistryCorrect, CoreCorrect, PTL DEF Spec

(***************************************************************************)
(* What holds if a channel is not closed in the handler that announces it. *)
(***************************************************************************)
(* Then nobody but the loop that closes all channels touches a channel that *)
(* is being announced.                                                      *)
LEMMA AnnouncedAlone ==
  ASSUME NoCloseWhenAnnounced \subseteq Forbidden, TypeOK, Shape,
         NEW f \in FramesOn(stack), f.at = "register"
  PROVE  ~MayClose(f.ch) /\ ~OnEvent
<1>1. ASSUME MayClose(f.ch) PROVE FALSE
  <2>1. Idle \/ InCallback
    BY <1>1, CloseAllowed
  <2>2. ~Idle
    BY TopOn
  <2>3. PICK g \in FramesOn(stack) : g.at = "channel" /\ g.ch = f.ch
    BY <2>1, <2>2, Covered
  <2>4. <<"channel", "close">> \notin Forbidden
    BY <1>1, <2>3, CloseAllowed
  <2>5. QED
    BY <2>4 DEF NoCloseWhenAnnounced
<1>2. QED
  BY <1>1 DEF OnEvent

LEMMA FreshFirst ==
  ASSUME TypeOK, ResetMeansEnd, NEW c \in Channels, Unclosed(c) \/ Unused(c)
  PROVE  hist[c].resets = 0 /\ ~chan[c].pending
<1>1. hist[c].resets \in 0 .. 2
  BY DEF TypeOK, Histories
<1>2. ~Ends(c)
  BY DEF Unclosed, Unused, Ends
<1>3. QED
  BY <1>1, <1>2 DEF ResetMeansEnd

(* A channel is opened with a stream that has not been reset.               *)
LEMMA OpensFresh ==
  ASSUME TypeOK, ResetMeansEnd, AnnouncedFresh, NEW c \in Channels, ChannelOpens(c)
  PROVE  hist[c].resets = 0 /\ ~chan[c].pending
<1>1. CASE Top.at = "register" /\ Top.ch = c
  BY <1>1 DEF ChannelOpens, AnnouncedFresh
<1>2. CASE chan[c].state = "connecting"
  BY <1>2, FreshFirst DEF Unclosed
<1>3. QED
  BY <1>1, <1>2 DEF ChannelOpens

LEMMA ResetMeansEndNext ==
  ASSUME TypeOK, TypeOK', Shape, StepCases, ResetMeansEnd, AnnouncedFresh
  PROVE  ResetMeansEnd'
<1> SUFFICES ASSUME NEW c \in Channels, hist'[c].resets > 0 \/ chan'[c].pending
             PROVE  chan'[c].state \in {"closing", "closed"}
  BY DEF ResetMeansEnd, Ends
<1>1. hist[c].resets > 0 \/ chan[c].pending => chan[c].state \in {"closing", "closed"}
  BY DEF ResetMeansEnd, Ends
<1>2. ~ChannelOpens(c)
  BY OpensFresh DEF ChannelOpens, Opens, ResetsKept, PendingKept
<1>3. \A s \in Sids : ~ChannelRegisters(c, s)
  BY FreshFirst DEF ChannelRegisters, Registers, ResetsKept
<1>4. CASE DryAsks(c)
  BY <1>1, <1>4 DEF DryAsks
<1>5. Effect(c)
  BY EffectLemma
<1>6. QED
  BY <1>1, <1>2, <1>3, <1>4, <1>5
     DEF Effect, Stays, ResetsKept, PendingKept, ChannelStartsClosing, StartsClosing,
         ChannelCloses, Closes, DryForgets

LEMMA DryNextStays ==
  ASSUME TypeOK, Shape, StepCases, NEW c \in Channels, ~DryForgets(c),
         NEW f \in FramesOn(stack), f.at = "dry_next", f.ch = c
  PROVE  f \in FramesOn(stack)'
<1>1. Firm(f)
  BY NoChannelAssumption DEF Firm
<1>2. f = Top => ~Drop /\ ~DropSkipped
  BY DropKept DEF Dropping
<1>3. QED
  BY <1>1, <1>2, FirmKept

LEMMA PendingOnceNext ==
  ASSUME TypeOK, TypeOK', Shape, StepCases, ResetMeansEnd, AnnouncedFresh, PendingOnce
  PROVE  PendingOnce'
<1> SUFFICES ASSUME NEW c \in Channels, chan'[c].pending, hist'[c].resets > 0
             PROVE  \E f \in FramesOn(stack)' : f.at = "dry_next" /\ f.ch = c
  BY DEF PendingOnce
<1>1. ~DryForgets(c)
  BY DEF DryForgets
<1>b. hist[c].resets = 0 /\ ~chan[c].pending => ~ResetsKept(c) /\ ~PendingKept(c)
  <2>1. hist[c].resets = 0 => ~ResetsKept(c)
    BY SMT DEF ResetsKept
  <2>2. ~chan[c].pending => ~PendingKept(c)
    BY Zenon DEF PendingKept
  <2>3. QED
    BY <2>1, <2>2
<1>2. ASSUME chan[c].pending, hist[c].resets > 0
      PROVE  \E f \in FramesOn(stack)' : f.at = "dry_next" /\ f.ch = c
  <2>1. PICK f \in FramesOn(stack) : f.at = "dry_next" /\ f.ch = c
    BY <1>2 DEF PendingOnce
  <2>2. f \in FramesOn(stack)'
    BY <1>1, <2>1, DryNextStays
  <2>3. QED
    BY <2>1, <2>2
<1>3. CASE DryAsks(c)
  <2>1. PICK f \in Frames : f.at = "dry_next" /\ f.ch = c /\ Moved({Top}, {f})
    BY <1>3 DEF DryAsks
  <2>2. QED
    BY <2>1 DEF Moved
<1>4. CASE Stays(c) /\ PendingKept(c)
  BY <1>2, <1>4 DEF Stays, ResetsKept, PendingKept
<1>5. CASE ChannelStartsClosing(c)
  <2>1. hist[c].resets = 0 /\ ~chan[c].pending
    BY <1>5, FreshFirst DEF ChannelStartsClosing, StartsClosing
  <2>2. ~ResetsKept(c) /\ ~PendingKept(c)
    BY <1>b, <2>1
  <2>3. QED
    BY <1>5, <2>2 DEF ChannelStartsClosing, StartsClosing
<1>6. CASE ChannelCloses(c)
  <2>1. Unclosed(c) => hist[c].resets = 0 /\ ~chan[c].pending
    BY FreshFirst
  <2>2. Unclosed(c) => ~ResetsKept(c) /\ ~PendingKept(c)
    BY <1>b, <2>1
  <2>3. PendingKept(c) /\ ResetsKept(c)
    BY <1>6, <2>2 DEF ChannelCloses, Closes
  <2>4. QED
    BY <1>2, <2>3 DEF ResetsKept, PendingKept
<1>7. ~ChannelOpens(c)
  BY OpensFresh DEF ChannelOpens, Opens, PendingKept
<1>8. \A s \in Sids : ~ChannelRegisters(c, s)
  BY DEF ChannelRegisters, Registers
<1>9. Effect(c)
  BY EffectLemma
<1>10. QED
  BY <1>1, <1>3, <1>4, <1>5, <1>6, <1>7, <1>8, <1>9 DEF Effect

LEMMA AnnouncedFreshNext ==
  ASSUME NoCloseWhenAnnounced \subseteq Forbidden,
         TypeOK, TypeOK', Shape, StepCases, ResetMeansEnd, AnnouncedFresh
  PROVE  AnnouncedFresh'
<1> SUFFICES ASSUME NEW f \in FramesOn(stack)', f.at = "register"
             PROVE  hist'[f.ch].resets = 0 /\ ~chan'[f.ch].pending
  BY DEF AnnouncedFresh
<1> DEFINE c == f.ch
<1>1. c \in Channels
  BY RegisterKept
<1>2. CASE \E s \in Sids : ChannelRegisters(c, s)
  BY <1>1, <1>2, FreshFirst DEF ChannelRegisters, Registers, ResetsKept
<1>3. CASE f \in FramesOn(stack)
  <2>1. hist[c].resets = 0 /\ ~chan[c].pending
    BY <1>3 DEF AnnouncedFresh
  <2>2. ~MayClose(c) /\ ~OnEvent
    BY <1>3, AnnouncedAlone
  <2>3. ~DryAsks(c) /\ ~DryForgets(c)
    BY <1>3 DEF DryAsks, DryForgets
  <2>4. Effect(c)
    BY <1>1, EffectLemma
  <2>5. QED
    BY <1>2, <2>1, <2>2, <2>3, <2>4
       DEF Effect, Stays, ResetsKept, PendingKept, ChannelStartsClosing,
           ChannelCloses, OnSweep, ChannelOpens, Opens
<1>4. QED
  BY <1>2, <1>3, RegisterKept

(* The queue of deferred messages grows by messages of channels that are    *)
(* open or being created.                                                   *)
LEMMA QueueStep ==
  ASSUME TypeOK, [Next]_vars
  PROVE  \/ UNCHANGED queue
         \/ \E k \in Nat : k <= Len(queue) /\ queue' = Drained(k)
         \/ \E d \in Channels : queue' = Append(queue, d) /\ chan[d].state \in {"open", "none"}
<1> DEFINE Goal == \/ UNCHANGED queue
                   \/ \E k \in Nat : k <= Len(queue) /\ queue' = Drained(k)
                   \/ \E d \in Channels :
                        queue' = Append(queue, d) /\ chan[d].state \in {"open", "none"}
<1>1. \A d : SctpSend(d) => UNCHANGED queue \/ queue' = Append(queue, d)
  BY DEF SctpSend
<1>2. ASSUME NEW c \in Channels, Send(c) PROVE Goal
  BY <1>1, <1>2 DEF Send, SctpSendFails
<1>3. ASSUME NEW c \in Channels, CreateInband(c) PROVE Goal
  BY <1>1, <1>3 DEF CreateInband, Unused
<1>4. ASSUME NEW c \in Channels, NEW s \in Sids, RemoteOpen(c, s) PROVE Goal
  BY <1>1, <1>4 DEF RemoteOpen, Unused
<1>5. ASSUME NEW k \in 0 .. Len(queue), CommUp(k) \/ WriteEvent(k) PROVE Goal
  <2>1. k \in Nat /\ k <= Len(queue)
    BY <1>5, LenProperties DEF TypeOK
  <2>2. QED
    BY <1>5, <2>1 DEF CommUp, WriteEvent
<1>6. \A k \in 1 .. Len(queue) : k \in 0 .. Len(queue)
  BY LenProperties DEF TypeOK
<1>7. CASE App
  <2>1. ASSUME NEW c \in Channels, Close(c) PROVE Goal
    BY <2>1 DEF Close
  <2>2. ASSUME NEW c \in Channels, NEW s \in Sids, CreateNegotiated(c, s) PROVE Goal
    BY <2>2 DEF CreateNegotiated
  <2>3. CASE Start \/ StartFails \/ Stop \/ GetDataTransport \/ CreateInbandFails
    BY <2>3 DEF Start, StartFails, Stop, GetDataTransport, CreateInbandFails, SctpSendFails
  <2>4. QED
    BY <1>2, <1>3, <1>7, <2>1, <2>2, <2>3 DEF App
<1>8. CASE Return \/ Library \/ UNCHANGED vars
  BY <1>8 DEF Return, Library, vars, CloseNextChannel, Detach, CloseTransport, Drop,
     DropSkipped, SetMtu, Created, OpenRegistered, OpenNextChannel, NotifyConnected,
     DryVisit, DryAdvance, ResetNext, ResetDone
<1>9. CASE Events
  <2>1. CASE CommLost \/ SenderDry
    BY <2>1 DEF CommLost, SenderDry
  <2>2. ASSUME NEW sids, NEW dirs, StreamReset(sids, dirs) PROVE Goal
    BY <2>2 DEF StreamReset
  <2>3. ASSUME NEW s \in Sids, StreamResetDenied(s) \/ RemoteOpenFails(s) PROVE Goal
    BY <2>3 DEF StreamResetDenied, RemoteOpenFails, SctpSendFails
  <2>4. QED
    BY <1>4, <1>5, <1>6, <1>9, <2>1, <2>2, <2>3 DEF Events
<1>10. QED
  BY <1>7, <1>8, <1>9 DEF Next

LEMMA ResetAfterDataNext ==
  ASSUME TypeOK, TypeOK', Shape, [Next]_vars, StepCases,
         ResetMeansEnd, PendingOnce, AnnouncedFresh, ResetAfterData
  PROVE  ResetAfterData'
<1> SUFFICES ASSUME NEW c \in Channels
             PROVE  /\ hist'[c].resets <= 1
                    /\ hist'[c].resets > 0 =>
                         \A i \in 1 .. Len(queue') : queue'[i] # c
  BY DEF ResetAfterData
<1>0. hist[c].resets \in 0 .. 2 /\ Bump(0) = 1 /\ hist'[c].resets \in 0 .. 2
  BY DEF TypeOK, Histories, Bump
<1>1. \/ ResetsKept(c)
      \/ hist[c].resets = 0 /\ hist'[c].resets = 1 /\ queue' = <<>>
  <2>1. CASE DryAsks(c)
    <3>1. hist[c].resets = 0
      BY <1>0, <2>1 DEF DryAsks, PendingOnce
    <3>2. QED
      BY <1>0, <2>1, <3>1 DEF DryAsks, ResetAsked
  <2>2. ASSUME Unclosed(c), ResetAsked(c)
        PROVE  hist[c].resets = 0 /\ hist'[c].resets = 1 /\ queue' = <<>>
    BY <1>0, <2>2, FreshFirst DEF ResetAsked
  <2>3. Effect(c)
    BY EffectLemma
  <2>4. QED
    BY <2>1, <2>2, <2>3
       DEF Effect, Stays, ChannelStartsClosing, StartsClosing, ChannelOpens, Opens,
           ChannelCloses, Closes, DryForgets, ChannelRegisters, Registers
<1>2. CASE hist[c].resets = 0 /\ hist'[c].resets = 1 /\ queue' = <<>>
  <2>1. Len(queue') = 0
    BY <1>2, EmptySeq
  <2>2. QED
    BY <1>2, <2>1
<1>3. CASE ResetsKept(c)
  <2>1. hist'[c].resets <= 1
    BY <1>3 DEF ResetsKept, ResetAfterData
  <2> SUFFICES ASSUME hist[c].resets > 0, NEW i \in 1 .. Len(queue')
               PROVE  queue'[i] # c
    BY <1>3, <2>1 DEF ResetsKept
  <2>2. \A j \in 1 .. Len(queue) : queue[j] # c
    BY DEF ResetAfterData
  <2>3. queue \in Seq(Channels) /\ Len(queue) \in Nat
    BY LenProperties DEF TypeOK
  <2>4. CASE UNCHANGED queue
    BY <2>2, <2>4
  <2>5. ASSUME NEW k \in Nat, k <= Len(queue), queue' = Drained(k)
        PROVE  queue'[i] # c
    <3>1. Len(queue') = Len(queue) - k /\ queue'[i] = queue[i + k]
      BY <2>3, <2>5 DEF Drained
    <3>2. QED
      BY <2>2, <2>3, <3>1
  <2>6. ASSUME NEW d \in Channels, queue' = Append(queue, d),
               chan[d].state \in {"open", "none"}
        PROVE  queue'[i] # c
    <3>1. d # c
      BY <1>0, <2>6, FreshFirst DEF Unclosed
    <3>2. QED
      BY <2>2, <2>3, <2>6, <3>1
  <2>7. QED
    BY <2>4, <2>5, <2>6, QueueStep
<1>4. QED
  BY <1>1, <1>2, <1>3

(* If the application does not close a channel in the handler that          *)
(* announces it, usrsctp is asked at most once to reset the stream of a     *)
(* channel, and only when none of its messages is deferred any more         *)
(* (reset_outgoing_stream, transport.c:1041): by induction, as a channel    *)
(* whose stream was reset is closing and neither sends nor is opened again. *)
THEOREM ResetsFollowData ==
  ASSUME NoCloseWhenAnnounced \subseteq Forbidden
  PROVE  Spec => []ResetAfterData
<1>1. Init => ResetInv
  BY NoFrames DEF Init, ResetInv, ResetMeansEnd, PendingOnce, AnnouncedFresh,
                  ResetAfterData, NewChannel
<1>2. TypeOK /\ TypeOK' /\ RegistrySound /\ CoreInv /\ [Next]_vars /\ ResetInv => ResetInv'
  <2> SUFFICES ASSUME TypeOK, TypeOK', RegistrySound, CoreInv, [Next]_vars, ResetInv
               PROVE  ResetInv'
    OBVIOUS
  <2>1. Shape /\ StepCases
    BY CoreNext DEF CoreInv
  <2>2. QED
    BY <2>1, ResetMeansEndNext, PendingOnceNext, AnnouncedFreshNext, ResetAfterDataNext
       DEF ResetInv
<1>3. ResetInv => ResetAfterData
  BY DEF ResetInv
<1>4. QED
  BY <1>1, <1>2, <1>3, TypeCorrect, RegistryCorrect, CoreCorrect, PTL DEF Spec

(***************************************************************************)
(* What holds if the transport is neither stopped nor started in a close   *)
(* handler.                                                                *)
(***************************************************************************)
LEMMA StackLength ==
  ASSUME TypeOK
  PROVE  /\ Len(stack) \in Nat /\ stack \in Seq(Frames)
         /\ Idle => Len(stack) = 0
         /\ ~Idle => Len(stack) \in 1 .. Len(stack) /\ Len(stack) - 1 \in Nat
         /\ \A i \in 1 .. Len(stack) : stack[i] \in FramesOn(stack)
BY LenProperties, EmptySeq DEF TypeOK, Idle, FramesOn

(* How a step changes the stack, with respect to the closers: where they    *)
(* come from, and on which frames.                                          *)
CloserComes(g) ==
  g.at \in Closers =>
    \/ g.at = "mtu" /\ Start
    \/ g.at = "close_channels" /\ (g.sid = 0 \/ CloseNextChannel)
    \/ g.at = "detached" /\ Detach
    \/ /\ g.at = "open_channels"
       /\ OpenNextChannel \/ \E k \in 0 .. Len(queue) : CommUp(k)

CloserMoves(out, added) ==
  /\ Moved(out, added)
  /\ \A g \in added : CloserComes(g)
  /\ out # {} => ~Idle
  /\ \/ \A g \in added : g.at \notin Closers
     \/ out = {Top} /\ Top.at \in Closers
     \/ out = {} /\ ((Idle /\ tstate # "closed") \/ Start \/ StartFails \/ Stop)

LEMMA DropFramesAt ==
  ASSUME NEW at \in Dropping, NEW c, NEW callback \in {"close", "teardown"}
  PROVE  \A g \in DropFrames(at, c, callback) : g.at \notin Closers
BY DEF DropFrames, Frame, Dropping, Closers

LEMMA CloserStep ==
  ASSUME TypeOK, Shape, RegistrySound, [Next]_vars
  PROVE  \E added : \E out \in SUBSET {Top} : CloserMoves(out, added)
<1> DEFINE Goal == \E added : \E out \in SUBSET {Top} : CloserMoves(out, added)
<1>0. ASSUME NEW added, \A g \in added : g.at \notin Closers
      PROVE  \A g \in added : CloserComes(g)
  BY <1>0 DEF CloserComes
<1>1. ASSUME NEW added, Moved({}, added), \A g \in added : g.at \notin Closers
      PROVE  Goal
  BY <1>0, <1>1 DEF CloserMoves
<1>2. ASSUME NEW added, Moved({Top}, added), ~Idle, \A g \in added : g.at \notin Closers
      PROVE  Goal
  BY <1>0, <1>2 DEF CloserMoves
<1>30. ASSUME NEW added, Moved({}, added),
              (Idle /\ tstate # "closed") \/ Start \/ StartFails \/ Stop,
              \A g \in added : CloserComes(g)
       PROVE  Goal
  BY <1>30 DEF CloserMoves
<1>31. ASSUME NEW added, Moved({Top}, added), ~Idle, Top.at \in Closers,
              \A g \in added : CloserComes(g)
       PROVE  Goal
  BY <1>31 DEF CloserMoves
<1> HIDE DEF Goal
<1>36. SUFFICES Goal
  BY DEF Goal
<1>3. UNCHANGED stack => Goal
  BY <1>1, NotMoved
<1>4. CASE \/ GetDataTransport \/ CreateInbandFails \/ \E c \in Channels : Send(c)
           \/ \E k \in 1 .. Len(queue) : WriteEvent(k)
           \/ \E s \in Sids : StreamResetDenied(s) \/ RemoteOpenFails(s)
           \/ UNCHANGED vars
  BY <1>3, <1>4, QuietStep
<1>32. \A g \in {ClosingFrame(0)} : CloserComes(g)
  BY DEF ClosingFrame, Frame, CloserComes
<1>5. CASE StartFails \/ Stop \/ CommLost
  <2>1. /\ Moved({}, {ClosingFrame(0)})
        /\ (Idle /\ tstate # "closed") \/ StartFails \/ Stop
    BY <1>5, ClosingBegins DEF CommLost
  <2>2. QED
    BY <1>30, <1>32, <2>1
<1>6. CASE Start
  <2>1. Moved({}, StartFrames)
    BY <1>6, StartStep
  <2>2. \A g \in StartFrames : CloserComes(g)
    BY <1>6 DEF StartFrames, Frame, CloserComes, Closers
  <2>3. QED
    BY <1>6, <1>30, <2>1, <2>2
<1>7. CASE Return
  BY <1>2, <1>7, ReturnStep DEF Return, InCallback
<1>8. CASE SetMtu
  <2>1. ~Idle /\ Top.at \in Closers /\ (Moved({Top}, {}) \/ Moved({Top}, {ClosingFrame(0)}))
    BY <1>8, SetMtuStep DEF Closers
  <2>2. QED
    BY <1>2, <1>31, <1>32, <2>1
<1>33. CASE Detach
  <2>1. ~Idle /\ Top.at \in Closers /\ Moved({Top}, DetachFrames)
    BY <1>33, DetachStep DEF Closers
  <2>2. \A g \in DetachFrames : CloserComes(g)
    BY <1>33 DEF DetachFrames, Frame, CloserComes, Closers
  <2>3. QED
    BY <1>31, <2>1, <2>2
<1>34. CASE CloseNextChannel
  <2>1. ~Idle /\ Top.at \in Closers
    BY <1>34, CloseNextStep DEF Closers
  <2>2. PICK s \in Sids, c \in Channels :
          Moved({Top}, {ClosingFrame(s + 1)} \cup DropFrames("drop", c, "teardown"))
    BY <1>34, CloseNextStep
  <2>3. CloserComes(ClosingFrame(s + 1))
    BY <1>34 DEF ClosingFrame, Frame, CloserComes
  <2>4. \A g \in DropFrames("drop", c, "teardown") : CloserComes(g)
    BY DropFramesAt DEF CloserComes, Dropping
  <2>5. \A g \in {ClosingFrame(s + 1)} \cup DropFrames("drop", c, "teardown") : CloserComes(g)
    BY <2>3, <2>4
  <2>6. QED
    BY <1>31, <2>1, <2>2, <2>5
<1>35. CASE OpenNextChannel
  <2>1. ~Idle /\ Top.at \in Closers
    BY <1>35, OpenNextStep DEF Closers
  <2>2. PICK s \in Sids, c \in Channels :
          Moved({Top}, {Frame("open_channels", NoChannel, s + 1), Frame("open_all", c, s)})
    BY <1>35, OpenNextStep
  <2>3. \A g \in {Frame("open_channels", NoChannel, s + 1), Frame("open_all", c, s)} :
          CloserComes(g)
    BY <1>35 DEF Frame, CloserComes, Closers
  <2>4. QED
    BY <1>31, <2>1, <2>2, <2>3
<1>9. CASE CloseTransport
  BY <1>2, <1>9, CloseTransportStep DEF Closers, Frame
<1>10. CASE NotifyConnected
  BY <1>2, <1>10, NotifyConnectedStep DEF Closers, Frame
<1>11. CASE Drop \/ DropSkipped \/ Created \/ ResetDone
  <2>1. ~Idle /\ Moved({Top}, {})
    BY <1>11, DropStep, DropSkippedStep, CreatedStep, ResetDoneStep
  <2>2. QED
    BY <1>2, <2>1
<1>12. CASE \/ \E k \in 0 .. Len(queue) : CommUp(k)
            \/ SenderDry
            \/ \E sids \in SUBSET Sids \ {{}}, dirs \in SUBSET Directions \ {{}} :
                 StreamReset(sids, dirs)
  <2>1. Idle /\ \E f \in Frames :
          /\ Moved({}, {f}) /\ f.at \in {"open_channels", "dry", "reset"}
          /\ f.at = "open_channels" => tstate = "connecting"
    BY <1>12, EventStep
  <2>2. PICK f \in Frames :
          /\ Moved({}, {f}) /\ f.at \in {"open_channels", "dry", "reset"}
          /\ f.at = "open_channels" => tstate = "connecting"
    BY <2>1
  <2>3. f.at = "open_channels" => \E k \in 0 .. Len(queue) : CommUp(k)
    BY <1>12, <2>2 DEF SenderDry, StreamReset
  <2>4. \A g \in {f} : CloserComes(g)
    BY <2>2, <2>3 DEF CloserComes, Closers
  <2>5. tstate # "closed"
    BY <1>12 DEF CommUp, SenderDry, StreamReset
  <2>6. QED
    BY <1>30, <2>1, <2>2, <2>4, <2>5
<1>13. CASE OpenRegistered
  <2>1. /\ ~Idle
        /\ Moved({Top}, {Frame("open", Top.ch, Top.sid)}) \/ Moved({Top}, {})
    BY <1>13, OpenRegisteredStep
  <2>2. Frame("open", Top.ch, Top.sid).at \notin Closers
    BY DEF Frame, Closers
  <2>3. QED
    BY <1>2, <2>1, <2>2
<1>14. CASE DryVisit
  <2>0. ~Idle
    BY <1>14 DEF DryVisit, At
  <2>1. \/ \E f \in Frames :
             /\ f.at = "dry_next"
             /\ \/ Moved({Top}, {f})
                \/ \E g \in Frames : g.at = "low" /\ Moved({Top}, {f, g})
        \/ \E c \in Channels, f \in Frames :
             /\ f.at = "dry_next"
             /\ \/ Moved({Top}, {f})
                \/ Moved({Top}, {f} \cup DropFrames("drop_if", c, "close"))
    BY <1>14, DryVisitStep
  <2>2. ASSUME NEW f \in Frames, f.at = "dry_next"
        PROVE  /\ Moved({Top}, {f}) => Goal
               /\ \A g \in Frames : g.at = "low" /\ Moved({Top}, {f, g}) => Goal
    BY <1>2, <2>0, <2>2 DEF Closers
  <2>3. ASSUME NEW f \in Frames, f.at = "dry_next", NEW c \in Channels,
               Moved({Top}, {f} \cup DropFrames("drop_if", c, "close"))
        PROVE  Goal
    <3>1. \A g \in {f} \cup DropFrames("drop_if", c, "close") : g.at \notin Closers
      BY <2>3, DropFramesAt DEF Closers, Dropping
    <3>2. QED
      BY <1>2, <2>0, <2>3, <3>1
  <2>4. QED
    BY <2>1, <2>2, <2>3
<1>15. CASE DryAdvance
  <2>0. ~Idle
    BY <1>15 DEF DryAdvance, At
  <2>1. \/ Moved({Top}, {})
        \/ \E f \in Frames : f.at = "dry" /\ Moved({Top}, {f})
    BY <1>15, DryAdvanceStep
  <2>2. ASSUME NEW f \in Frames, f.at = "dry", Moved({Top}, {f})
        PROVE  Goal
    BY <1>2, <2>0, <2>2 DEF Closers
  <2>3. Moved({Top}, {}) => Goal
    BY <1>2, <2>0
  <2>4. QED
    BY <2>1, <2>2, <2>3
<1>16. CASE ResetNext
  <2>0. ~Idle
    BY <1>16 DEF ResetNext, At
  <2>1. PICK f \in Frames : f.at = "reset" /\
          (\/ Moved({Top}, {f})
           \/ \E c \in Channels, at \in Dropping :
                Moved({Top}, {f} \cup DropFrames(at, c, "close")))
    <3>1. \E f \in Frames : f.at = "reset" /\
            (\/ Moved({Top}, {f}) /\ UNCHANGED <<chan, hist, slots>>
             \/ \E c \in Channels :
                  /\ OnlyChannel(c) /\ slots[chan[c].sid] = c
                  /\ chan[c].state # "none"
                  /\ \/ Moved({Top}, {f}) /\ Stays(c) /\ PendingKept(c)
                     \/ Moved({Top}, {f}) /\ StartsClosing(c)
                     \/ /\ Closes(c)
                        /\ \E at \in Dropping :
                             Moved({Top}, {f} \cup DropFrames(at, c, "close")))
      BY <1>16, ResetStep
    <3>2. QED
      BY <3>1
  <2>2. Moved({Top}, {f}) => Goal
    BY <1>2, <2>0, <2>1 DEF Closers
  <2>3. ASSUME NEW c \in Channels, NEW at \in Dropping,
               Moved({Top}, {f} \cup DropFrames(at, c, "close"))
        PROVE  Goal
    <3>1. \A g \in {f} \cup DropFrames(at, c, "close") : g.at \notin Closers
      BY <2>1, DropFramesAt DEF Closers
    <3>2. QED
      BY <1>2, <2>0, <2>3, <3>1
  <2>4. QED
    BY <2>1, <2>2, <2>3
<1>17. ASSUME NEW c \in Channels, Close(c) PROVE Goal
  <2>1. UNCHANGED stack \/ Moved({}, DropFrames("drop_if", c, "close"))
    BY <1>17, CloseStep
  <2>2. \A g \in DropFrames("drop_if", c, "close") : g.at \notin Closers
    BY DropFramesAt DEF Dropping
  <2>3. QED
    BY <1>1, <1>3, <2>1, <2>2
<1>18. ASSUME NEW c \in Channels, NEW s \in Sids, RegisterCreated(c, s), Unused(c), Free(s),
              Idle \/ InCallback
       PROVE  Goal
  <2>1. UNCHANGED stack \/ Moved({}, CreateFrames(c, s))
    BY <1>18, CreateStep
  <2>2. \A g \in CreateFrames(c, s) : g.at \notin Closers
    BY DEF CreateFrames, Frame, Closers
  <2>3. QED
    BY <1>1, <1>3, <2>1, <2>2
<1>19. ASSUME NEW c \in Channels, CreateInband(c) PROVE Goal
  BY <1>18, <1>19, InbandSlot, CallAllowed DEF CreateInband
<1>20. ASSUME NEW c \in Channels, NEW s \in Sids, CreateNegotiated(c, s) PROVE Goal
  BY <1>18, <1>20, CallAllowed DEF CreateNegotiated
<1>21. ASSUME NEW c \in Channels, NEW s \in Sids, RemoteOpen(c, s) PROVE Goal
  <2>1. Moved({}, RemoteFrames(c, s))
    BY <1>21, RemoteOpenStep
  <2>2. \A g \in RemoteFrames(c, s) : g.at \notin Closers
    BY DEF RemoteFrames, Frame, Closers
  <2>3. QED
    BY <1>1, <2>1, <2>2
<1>22. CASE App
  BY <1>4, <1>5, <1>6, <1>17, <1>19, <1>20, <1>22 DEF App
<1>23. CASE Library
  BY <1>8, <1>9, <1>10, <1>11, <1>13, <1>14, <1>15, <1>16, <1>23, <1>33, <1>34, <1>35
     DEF Library
<1>24. CASE Events
  BY <1>4, <1>5, <1>12, <1>21, <1>24 DEF Events
<1>25. QED
  BY <1>4, <1>7, <1>22, <1>23, <1>24 DEF Next

(* The application's side of the contract: where start and stop are called  *)
(* no channel waits to be dropped.                                          *)
LEMMA StopAllowed ==
  ASSUME NoStopWhileClosing \subseteq Forbidden, TypeOK, Shape,
         Start \/ StartFails \/ Stop, NEW f \in FramesOn(stack)
  PROVE  f.at \notin Dropping
<1>1. SUFFICES ASSUME f.at \in Dropping PROVE FALSE
  OBVIOUS
<1>2. MayCall("start") \/ MayCall("stop")
  BY DEF Start, StartFails, Stop
<1>3. InCallback
  BY <1>2, CallAllowed, TopOn
<1>4. PICK g \in FramesOn(stack) : g.at \in {"close", "teardown"}
  BY <1>1, <1>3, Covered
<1>5. <<g.at, "start">> \in Forbidden /\ <<g.at, "stop">> \in Forbidden
  BY <1>4 DEF NoStopWhileClosing
<1>6. QED
  BY <1>2, <1>4, <1>5, CallAllowed

(* A dropping frame comes with the channel that closes.                     *)
DropComes(g) ==
  g.at \in Dropping =>
    g.ch \in Channels /\ ChannelCloses(g.ch) /\ g.sid = chan[g.ch].sid

LEMMA DroppingStep ==
  ASSUME TypeOK, Shape, StepCases
  PROVE  \E added : \E out \in SUBSET {Top} : Moved(out, added) /\ \A g \in added : DropComes(g)
<1> DEFINE Goal == \E added : \E out \in SUBSET {Top} : Moved(out, added) /\ \A g \in added : DropComes(g)
<1>1. ASSUME NEW out \in SUBSET {Top}, NEW added, Moved(out, added), \A g \in added : DropComes(g)
      PROVE  Goal
  BY <1>1
<1> HIDE DEF Goal
<1>2. ASSUME CalmFrames PROVE Goal
  <2>1. PICK out \in SUBSET {Top}, added \in SUBSET Frames :
          Moved(out, added) /\ \A g \in added : Bare(g)
    BY <1>2 DEF CalmFrames
  <2>2. \A g \in added : DropComes(g)
    BY <2>1 DEF Bare, DropComes
  <2>3. QED
    BY <1>1, <2>1, <2>2
<1>3. ASSUME Drop \/ DropSkipped PROVE Goal
  <2>1. Moved({Top}, {})
    BY <1>3, DropStep, DropSkippedStep
  <2>2. QED
    BY <1>1, <2>1
<1>4. ASSUME NEW c \in Channels, ChannelCloses(c) PROVE Goal
  <2>1. PICK out \in SUBSET {Top}, added \in SUBSET Frames, at \in Dropping,
             callback \in {"close", "teardown"} :
          /\ Moved(out, added \cup DropFrames(at, c, callback))
          /\ \A g \in added : Bare(g) \/ (g.at = "dry_next" /\ g.ch = c)
    BY <1>4 DEF ChannelCloses
  <2>2. \A g \in added : DropComes(g)
    BY <2>1 DEF Bare, DropComes, Dropping
  <2>3. \A g \in DropFrames(at, c, callback) : DropComes(g)
    BY <1>4 DEF DropFrames, Frame, DropComes
  <2>4. QED
    BY <1>1, <2>1, <2>2, <2>3
<1>5. ASSUME NEW c \in Channels, DryAsks(c) \/ DryForgets(c) PROVE Goal
  <2>1. PICK added : Moved({Top}, added) /\ \A g \in added : g.at \notin Dropping
    <3>1. CASE DryAsks(c)
      <4>1. PICK f \in Frames : f.at = "dry_next" /\ Moved({Top}, {f})
        BY <3>1 DEF DryAsks
      <4>2. \A g \in {f} : g.at \notin Dropping
        BY <4>1 DEF Dropping
      <4>3. QED
        BY <4>1, <4>2
    <3>2. CASE DryForgets(c)
      BY <3>2 DEF DryForgets, Bare
    <3>3. QED
      BY <1>5, <3>1, <3>2
  <2>2. QED
    BY <1>1, <2>1 DEF DropComes
<1>6. ASSUME NEW c \in Channels, NEW s \in Sids, ChannelRegisters(c, s) PROVE Goal
  <2>1. \A g \in RemoteFrames(c, s) : DropComes(g)
    BY DEF RemoteFrames, Frame, DropComes, Dropping
  <2>2. QED
    BY <1>1, <1>2, <1>6, <2>1 DEF ChannelRegisters
<1>7. CalmFrames \/ Drop \/ DropSkipped \/
      \E c \in Channels : ChannelCloses(c) \/ DryAsks(c) \/ DryForgets(c)
                          \/ \E s \in Sids : ChannelRegisters(c, s)
  BY DEF StepCases, NoChannelChanges, ChannelStays, ChannelStartsClosing, ChannelOpens
<1>8. Goal
  BY <1>2, <1>3, <1>4, <1>5, <1>6, <1>7
<1>9. QED
  BY <1>8 DEF Goal

(* Above a new dropping frame there is but the callback it waits for.       *)
LEMMA DroppingLast ==
  ASSUME TypeOK', Shape', NEW n \in Int, NEW added, Atop(n, added),
         NEW i \in 1 .. Len(stack'), NEW j \in 1 .. Len(stack'), n < i, i < j,
         stack'[i].at \in Dropping
  PROVE  stack'[j].at \in {"close", "teardown"}
<1>1. Len(stack') \in Nat
  BY LenProperties DEF TypeOK
<1>2. i \in 1 .. Len(stack') - 1
  BY <1>1
<1>3. Fits(stack'[i], stack'[i + 1])
  BY <1>2 DEF Shape, Shaped
<1>4. stack'[i + 1].at \in {"close", "teardown"}
  BY <1>3 DEF Fits, Dropping, Callbacks
<1>5. i + 1 = Len(stack')
  <2>1. i + 1 \in n + 1 .. Len(stack') - 1 \/ i + 1 = Len(stack')
    BY <1>1
  <2>2. i + 1 \notin n + 1 .. Len(stack') - 1
    BY <1>4 DEF Atop, Callbacks
  <2>3. QED
    BY <2>1, <2>2
<1>6. j = i + 1
  BY <1>1, <1>5
<1>7. QED
  BY <1>4, <1>6

(* Where a step has moved the frames: the ones up to n are the old ones.     *)
LEMMA OldOrNew ==
  ASSUME TypeOK, TypeOK', NEW out \in SUBSET {Top}, NEW added, Moved(out, added)
  PROVE  \E n \in Int :
           /\ n = IF out = {} THEN Len(stack) ELSE Len(stack) - 1
           /\ Atop(n, added)
           /\ \A i \in 1 .. Len(stack') :
                \/ i <= n /\ i \in 1 .. Len(stack) /\ stack'[i] = stack[i]
                \/ n < i /\ stack'[i] \in added
<1>1. Len(stack) \in Nat /\ Len(stack') \in Nat
  BY LenProperties DEF TypeOK
<1> DEFINE n == IF out = {} THEN Len(stack) ELSE Len(stack) - 1
<1>2. n \in Int /\ n <= Len(stack) /\ Atop(n, added)
  BY <1>1 DEF Moved
<1> HIDE DEF n
<1>3. ASSUME NEW i \in 1 .. Len(stack')
      PROVE  \/ i <= n /\ i \in 1 .. Len(stack) /\ stack'[i] = stack[i]
             \/ n < i /\ stack'[i] \in added
  <2>1. (i <= n /\ i \in 1 .. n /\ i \in 1 .. Len(stack)) \/ (n < i /\ i \in n + 1 .. Len(stack'))
    BY <1>1, <1>2
  <2>2. QED
    BY <1>2, <2>1 DEF Atop
<1>4. QED
  BY <1>2, <1>3 DEF n

LEMMA NoCloserOverDropNext ==
  ASSUME NoStopWhileClosing \subseteq Forbidden,
         TypeOK, TypeOK', Shape, Shape', RegistrySound, NoCloserOverDrop, [Next]_vars
  PROVE  NoCloserOverDrop'
<1>1. SUFFICES ASSUME NEW i \in 1 .. Len(stack'), NEW j \in 1 .. Len(stack'), i < j,
                      stack'[i].at \in Dropping, stack'[j].at \in Closers
               PROVE  FALSE
  BY DEF NoCloserOverDrop
<1>2a. PICK added : \E out \in SUBSET {Top} :
        CloserMoves(out, added)
  BY CloserStep
<1>2. PICK out \in SUBSET {Top} : CloserMoves(out, added)
  BY <1>2a
<1>3. Moved(out, added)
  BY <1>2 DEF CloserMoves
<1>4. PICK n \in Int :
        /\ n = IF out = {} THEN Len(stack) ELSE Len(stack) - 1
        /\ Atop(n, added)
        /\ \A k \in 1 .. Len(stack') :
             \/ k <= n /\ k \in 1 .. Len(stack) /\ stack'[k] = stack[k]
             \/ n < k /\ stack'[k] \in added
  BY <1>3, OldOrNew
<1>5. Len(stack) \in Nat
  BY StackLength
<1>6. CASE n < i
  BY <1>1, <1>4, <1>6, DroppingLast DEF Closers
<1>7. CASE j <= n
  <2>1. /\ i \in 1 .. Len(stack) /\ stack'[i] = stack[i]
        /\ j \in 1 .. Len(stack) /\ stack'[j] = stack[j]
    BY <1>1, <1>4, <1>7
  <2>2. QED
    BY <1>1, <2>1 DEF NoCloserOverDrop
<1>8. CASE i <= n /\ n < j
  <2>1. i \in 1 .. Len(stack) /\ stack'[i] = stack[i] /\ stack'[j] \in added
    BY <1>4, <1>8
  <2>2. stack[i] \in FramesOn(stack) /\ stack[i].at \in Dropping
    BY <1>1, <2>1, StackLength
  <2>3. CASE out = {Top} /\ Top.at \in Closers
    <3>1. i < Len(stack) /\ Len(stack) \in 1 .. Len(stack)
      BY <1>4, <1>5, <1>8, <2>1, <2>3
    <3>2. QED
      BY <2>1, <2>2, <2>3, <3>1 DEF NoCloserOverDrop, Top
  <2>4. CASE Idle \/ Start \/ StartFails \/ Stop
    BY <2>2, <2>4, StopAllowed, TopOn
  <2>5. QED
    BY <1>1, <1>2, <2>1, <2>3, <2>4 DEF CloserMoves
<1>9. QED
  BY <1>6, <1>7, <1>8

(* A channel that waits to be dropped is not closed once more.              *)
LEMMA DroppedNotClosed ==
  ASSUME TypeOK, Shape, DroppedClosed, NoCloserOverDrop,
         NEW f \in FramesOn(stack), f.at \in Dropping
  PROVE  ~ChannelCloses(f.ch)
<1>1. SUFFICES ASSUME ChannelCloses(f.ch) PROVE FALSE
  OBVIOUS
<1>2. ~Unclosed(f.ch)
  BY DEF DroppedClosed, Unclosed
<1>3. PICK i \in 1 .. Len(stack) : f = stack[i]
  BY DEF FramesOn
<1>4. CASE OnEvent
  BY <1>4 DEF OnEvent, Dropping
<1>5. CASE OnSweep(f.ch)
  <2>1. Top.at = "close_channels" /\ f # Top
    BY <1>5 DEF OnSweep, Dropping
  <2>2. i < Len(stack) /\ Len(stack) \in 1 .. Len(stack)
    BY <1>3, <2>1, StackLength DEF Top
  <2>3. QED
    BY <1>3, <2>1, <2>2 DEF NoCloserOverDrop, Closers, Top
<1>6. QED
  BY <1>1, <1>2, <1>4, <1>5 DEF ChannelCloses

LEMMA DropOnceNext ==
  ASSUME TypeOK, TypeOK', Shape, Shape', StepCases, DroppedClosed, NoCloserOverDrop, DropOnce
  PROVE  DropOnce'
<1>1. SUFFICES ASSUME NEW i \in 1 .. Len(stack'), NEW j \in 1 .. Len(stack'), i < j,
                      stack'[i].at \in Dropping, stack'[j].at \in Dropping,
                      stack'[i].ch = stack'[j].ch
               PROVE  stack'[i].at = "drop_if" /\ stack'[j].at = "drop_if"
  BY DEF DropOnce
<1>2a. PICK added : \E out \in SUBSET {Top} :
        Moved(out, added) /\ \A g \in added : DropComes(g)
  BY DroppingStep
<1>2. PICK out \in SUBSET {Top} : Moved(out, added) /\ \A g \in added : DropComes(g)
  BY <1>2a
<1>3. PICK n \in Int :
        /\ Atop(n, added)
        /\ \A k \in 1 .. Len(stack') :
             \/ k <= n /\ k \in 1 .. Len(stack) /\ stack'[k] = stack[k]
             \/ n < k /\ stack'[k] \in added
  BY <1>2, OldOrNew
<1>4. CASE n < i
  <2>1. stack'[j].at \in {"close", "teardown"}
    BY <1>1, <1>3, <1>4, DroppingLast
  <2>2. QED
    BY <1>1, <2>1 DEF Dropping
<1>5. CASE j <= n
  <2>1. /\ i \in 1 .. Len(stack) /\ stack'[i] = stack[i]
        /\ j \in 1 .. Len(stack) /\ stack'[j] = stack[j]
    BY <1>1, <1>3, <1>5
  <2>2. QED
    BY <1>1, <2>1 DEF DropOnce
<1>6. CASE i <= n /\ n < j
  <2>1. i \in 1 .. Len(stack) /\ stack'[i] = stack[i] /\ stack'[j] \in added
    BY <1>3, <1>6
  <2>2. stack[i] \in FramesOn(stack) /\ stack[i].at \in Dropping
    BY <1>1, <2>1, StackLength
  <2>3. ChannelCloses(stack[i].ch)
    BY <1>1, <1>2, <2>1 DEF DropComes
  <2>4. QED
    BY <2>2, <2>3, DroppedNotClosed
<1>7. QED
  BY <1>4, <1>5, <1>6

(* The frame on top of the stack is dropped: another one that waits to drop *)
(* the same channel does so only if the channel is in its slot.             *)
LEMMA DropBelow ==
  ASSUME TypeOK, Shape, DropOnce, Drop, NEW f \in FramesOn(stack)', f.at \in Dropping,
         f.ch = Top.ch
  PROVE  f.at = "drop_if"
<1>1. ~Idle /\ stack' = Pop(stack) /\ Top.at \in Dropping
  BY DropStep
<1>2. PICK i \in 1 .. Len(stack') : f = stack'[i]
  BY DEF FramesOn
<1>3. /\ Len(stack') = Len(stack) - 1 /\ Len(stack) \in 1 .. Len(stack)
      /\ \A k \in 1 .. Len(stack) - 1 : stack'[k] = stack[k]
  <2>1. stack \in Seq(Frames) /\ stack # <<>>
    BY <1>1 DEF TypeOK, Idle
  <2>2. QED
    BY <1>1, <2>1, PopType, StackLength
<1>4. i \in 1 .. Len(stack) /\ i < Len(stack) /\ f = stack[i]
  BY <1>2, <1>3, StackLength
<1>5. QED
  BY <1>1, <1>3, <1>4 DEF DropOnce, Top

LEMMA DropInSlotNext ==
  ASSUME TypeOK, TypeOK', Shape, StepCases, DropOnce, DropInSlot
  PROVE  DropInSlot'
<1>1. SUFFICES ASSUME NEW f \in FramesOn(stack)', f.at = "drop"
               PROVE  slots'[f.sid] = f.ch
  BY DEF DropInSlot
<1>2a. PICK added : \E out \in SUBSET {Top} :
        Moved(out, added) /\ \A g \in added : DropComes(g)
  BY DroppingStep
<1>2. PICK out \in SUBSET {Top} : Moved(out, added) /\ \A g \in added : DropComes(g)
  BY <1>2a
<1>3. f.at \in Dropping /\ f.ch \in Channels /\ f.sid \in Sids
  <2>1. f \in Frames
    BY DEF FramesOn, TypeOK
  <2>2. QED
    BY <1>1, <2>1, FrameFields, ChannelInNext DEF Dropping, Loops
<1>4. CASE f \in added
  <2>1. ChannelCloses(f.ch) /\ f.sid = chan[f.ch].sid
    BY <1>2, <1>3, <1>4 DEF DropComes
  <2>2. QED
    BY <2>1 DEF ChannelCloses, OnlyChannel
<1>5. CASE f \in FramesOn(stack)
  <2>1. slots[f.sid] = f.ch
    BY <1>1, <1>5 DEF DropInSlot
  <2>2. CASE UNCHANGED slots
    BY <2>1, <2>2
  <2>3. CASE Drop /\ slots' = [slots EXCEPT ![Top.sid] = NoChannel]
    <3>1. ~Idle /\ (Top.at = "drop" \/ slots[Top.sid] = Top.ch)
      BY <2>3, DropStep
    <3>2. slots[Top.sid] = Top.ch
      BY <3>1, TopOn DEF DropInSlot
    <3>3. f.ch # Top.ch
      BY <1>1, <1>3, <2>3, DropBelow
    <3>4. f.sid # Top.sid
      BY <2>1, <3>2, <3>3
    <3>5. QED
      BY <1>3, <2>1, <2>3, <3>4 DEF TypeOK
  <2>4. ASSUME NEW c \in Channels, NEW s \in Sids, ChannelRegisters(c, s),
               slots' = [slots EXCEPT ![s] = c]
        PROVE  slots'[f.sid] = f.ch
    <3>1. f.sid # s
      BY <1>3, <2>1, <2>4, NoChannelAssumption DEF ChannelRegisters, Registers, Free
    <3>2. QED
      BY <1>3, <2>1, <2>4, <3>1 DEF TypeOK
  <2>5. QED
    BY <2>2, <2>3, <2>4, SlotsNext
<1>6. QED
  BY <1>2, <1>4, <1>5 DEF Moved

(* References are dropped by Drop only.                                     *)
LEMMA ReleasedKept ==
  ASSUME TypeOK, Shape, StepCases, NEW c \in Channels, ~(Drop /\ Top.ch = c)
  PROVE  hist'[c].released = hist[c].released
<1>1. CASE Drop
  <2>1. hist'[c] = hist[c]
    BY <1>1, DropStep
  <2>2. QED
    BY <2>1
<1>2. ASSUME NEW d \in Channels,
             \/ OnlyChannel(d)
             \/ \E s \in Sids : Registers(d, s)
      PROVE  hist'[c].released = hist[c].released
  <2>1. CASE c = d
    BY <1>2, <2>1 DEF OnlyChannel, Registers
  <2>2. CASE c # d
    BY <1>2, <2>2 DEF OnlyChannel, Registers
  <2>3. QED
    BY <2>1, <2>2
<1>3. ASSUME NEW d \in Channels,
             \/ ChannelStays(d) \/ ChannelStartsClosing(d) \/ ChannelOpens(d)
             \/ ChannelCloses(d) \/ DryAsks(d) \/ DryForgets(d)
             \/ \E s \in Sids : ChannelRegisters(d, s)
      PROVE  hist'[c].released = hist[c].released
  <2>1. OnlyChannel(d) \/ \E s \in Sids : Registers(d, s)
    BY <1>3 DEF ChannelStays, ChannelStartsClosing, ChannelOpens, ChannelCloses,
                DryAsks, DryForgets, ChannelRegisters
  <2>2. QED
    BY <1>2, <2>1
<1>4. CASE NoChannelChanges \/ DropSkipped
  BY <1>4 DEF NoChannelChanges, DropSkipped
<1>5. QED
  BY <1>1, <1>3, <1>4 DEF StepCases

(* Channels come into being by registering only.                            *)
LEMMA UnusedNext ==
  ASSUME TypeOK, Shape, StepCases, AnnouncedCreated, NEW c \in Channels,
         \A s \in Sids : ~ChannelRegisters(c, s)
  PROVE  Unused(c)' <=> Unused(c)
<1>1. Effect(c)
  BY EffectLemma
<1>2. ChannelOpens(c) => ~Unused(c)
  BY DEF ChannelOpens, AnnouncedCreated, Unused
<1>3. QED
  BY <1>1, <1>2 DEF Effect, Unused, Stays, ChannelStartsClosing, StartsClosing,
     ChannelOpens, Opens, ChannelCloses, Closes, DryAsks, DryForgets

LEMMA DroppedOnTop ==
  ASSUME TypeOK, Shape, DroppedClosed, DropInSlot, Drop
  PROVE  /\ Top.ch \in Channels /\ Top.sid \in Sids /\ slots[Top.sid] = Top.ch
         /\ chan[Top.ch].state = "closed" /\ ~Unused(Top.ch) /\ UNCHANGED chan
<1>1. /\ ~Idle /\ Top.at \in Dropping /\ Top.ch \in Channels /\ Top.sid \in Sids
      /\ Top.at = "drop" \/ slots[Top.sid] = Top.ch
      /\ UNCHANGED chan
  BY DropStep
<1>2. Top \in FramesOn(stack)
  BY <1>1, TopOn
<1>3. QED
  BY <1>1, <1>2 DEF DropInSlot, DroppedClosed, Unused

LEMMA UnusedKeptNext ==
  ASSUME TypeOK, Shape, StepCases, AnnouncedCreated, DroppedClosed, DropInSlot, UnusedKept
  PROVE  UnusedKept'
<1>1. SUFFICES ASSUME NEW c \in Channels, Unused(c)'
               PROVE  hist'[c].released = 0
  BY DEF UnusedKept
<1>2. ASSUME NEW s \in Sids, ChannelRegisters(c, s) PROVE FALSE
  BY <1>1, <1>2 DEF ChannelRegisters, Unused
<1>3. Unused(c)
  BY <1>1, <1>2, UnusedNext
<1>4. ~(Drop /\ Top.ch = c)
  BY <1>3, DroppedOnTop
<1>5. QED
  BY <1>3, <1>4, ReleasedKept DEF UnusedKept

(* A channel that is not created or dropped stays where it is.              *)
LEMMA RegisteredNext ==
  ASSUME TypeOK, Shape, StepCases, DroppedClosed, DropInSlot, NEW c \in Channels,
         \A s \in Sids : ~ChannelRegisters(c, s), ~(Drop /\ Top.ch = c)
  PROVE  Registered(c)' <=> Registered(c)
<1>1. CASE UNCHANGED slots
  BY <1>1 DEF Registered
<1>2. CASE Drop /\ slots' = [slots EXCEPT ![Top.sid] = NoChannel]
  <2>1. Top.sid \in Sids /\ slots[Top.sid] # c /\ c # NoChannel
    BY <1>2, DroppedOnTop, NoChannelAssumption
  <2>2. \A s \in Sids : slots'[s] = c <=> slots[s] = c
    BY <1>2, <2>1 DEF TypeOK
  <2>3. QED
    BY <2>2 DEF Registered
<1>3. ASSUME NEW d \in Channels, NEW s \in Sids, ChannelRegisters(d, s),
             slots' = [slots EXCEPT ![s] = d]
      PROVE  Registered(c)' <=> Registered(c)
  <2>1. d # c /\ slots[s] # c
    BY <1>3, NoChannelAssumption DEF ChannelRegisters, Registers, Free
  <2>2. \A r \in Sids : slots'[r] = c <=> slots[r] = c
    BY <1>3, <2>1 DEF TypeOK
  <2>3. QED
    BY <2>2 DEF Registered
<1>4. QED
  BY <1>1, <1>2, <1>3, SlotsNext

LEMMA ReleasedOnceNext ==
  ASSUME TypeOK, TypeOK', Shape, StepCases, RegistrySound, AnnouncedCreated, DroppedClosed,
         DropInSlot, UnusedKept, ReleasedOnce
  PROVE  ReleasedOnce'
<1>1. SUFFICES ASSUME NEW c \in Channels
               PROVE  /\ hist'[c].released <= 1
                      /\ ~Unused(c)' => (Registered(c)' <=> hist'[c].released = 0)
  BY DEF ReleasedOnce
<1>2. CASE \E s \in Sids : ChannelRegisters(c, s)
  <2>1. PICK s \in Sids : ChannelRegisters(c, s)
    BY <1>2
  <2>2. /\ Unused(c) /\ hist'[c].released = hist[c].released
        /\ slots' = [slots EXCEPT ![s] = c]
    BY <2>1 DEF ChannelRegisters, Registers
  <2>3. hist'[c].released = 0
    BY <2>2 DEF UnusedKept
  <2>4. Registered(c)'
    BY <2>2 DEF TypeOK, Registered
  <2>5. QED
    BY <2>3, <2>4
<1>3. CASE Drop /\ Top.ch = c
  <2>1. /\ slots[Top.sid] = c /\ Top.sid \in Sids /\ ~Unused(c)
        /\ slots' = [slots EXCEPT ![Top.sid] = NoChannel]
        /\ hist'[c].released = Bump(hist[c].released)
    BY <1>3, DroppedOnTop, DropStep
  <2>2. Registered(c)
    BY <2>1 DEF Registered
  <2>3. hist[c].released = 0
    BY <2>1, <2>2 DEF ReleasedOnce
  <2>4. hist'[c].released = 1
    BY <2>1, <2>3 DEF Bump
  <2>5. ASSUME NEW s \in Sids, slots'[s] = c PROVE FALSE
    <3>1. s # Top.sid /\ slots[s] = c
      BY <2>1, <2>5, NoChannelAssumption DEF TypeOK
    <3>2. chan[c].sid = s /\ chan[c].sid = Top.sid
      BY <2>1, <3>1, NoChannelAssumption DEF RegistrySound, Free
    <3>3. QED
      BY <3>1, <3>2
  <2>6. ~Registered(c)'
    BY <2>5 DEF Registered
  <2>7. QED
    BY <2>4, <2>6
<1>4. CASE ~(Drop /\ Top.ch = c) /\ \A s \in Sids : ~ChannelRegisters(c, s)
  <2>1. /\ hist'[c].released = hist[c].released
        /\ Unused(c)' <=> Unused(c)
        /\ Registered(c)' <=> Registered(c)
    BY <1>4, ReleasedKept, UnusedNext, RegisteredNext
  <2>2. /\ hist[c].released <= 1
        /\ ~Unused(c) => (Registered(c) <=> hist[c].released = 0)
    BY DEF ReleasedOnce
  <2>3. QED
    BY <2>1, <2>2
<1>5. QED
  BY <1>2, <1>3, <1>4

(* ReleaseInv is inductive under this contract, relative to CoreInv.        *)
LEMMA ReleaseCorrect ==
  ASSUME NoStopWhileClosing \subseteq Forbidden
  PROVE  Spec => []ReleaseInv
<1>1. Init => ReleaseInv
  <2>1. SUFFICES ASSUME Init PROVE ReleaseInv
    OBVIOUS
  <2>2. stack = <<>> /\ Len(stack) = 0 /\ FramesOn(stack) = {}
    BY <2>1, NoFrames DEF Init
  <2>3. NoCloserOverDrop /\ DropOnce /\ DropInSlot
    BY <2>2 DEF NoCloserOverDrop, DropOnce, DropInSlot
  <2>4. \A c \in Channels : Unused(c) /\ hist[c].released = 0
    BY <2>1 DEF Init, Unused, NewChannel
  <2>5. QED
    BY <2>3, <2>4 DEF ReleaseInv, UnusedKept, ReleasedOnce
<1>2. TypeOK /\ TypeOK' /\ RegistrySound /\ CoreInv /\ CoreInv' /\ ReleaseInv /\ [Next]_vars
        => ReleaseInv'
  <2>1. SUFFICES ASSUME TypeOK, TypeOK', RegistrySound, CoreInv, CoreInv', ReleaseInv,
                        [Next]_vars
                 PROVE  ReleaseInv'
    OBVIOUS
  <2>2. Shape /\ Shape' /\ StepCases /\ DroppedClosed /\ AnnouncedCreated
    BY <2>1, CoreNext DEF CoreInv
  <2>3. QED
    BY <2>1, <2>2, NoCloserOverDropNext, DropOnceNext, DropInSlotNext, UnusedKeptNext,
       ReleasedOnceNext DEF ReleaseInv
<1>3. QED
  BY <1>1, <1>2, TypeCorrect, RegistryCorrect, CoreCorrect, PTL DEF Spec

(* If the application neither stops nor starts the transport in a close     *)
(* handler, the transport drops its reference to a channel exactly once, at *)
(* the moment the channel leaves its slot (close_data_channels,             *)
(* handle_stream_reset_event, close_data_channel): what a frame on the      *)
(* stack is about to drop is still in its slot, because no second loop over *)
(* the slots starts above it.                                               *)
THEOREM ReferencesDroppedOnce ==
  ASSUME NoStopWhileClosing \subseteq Forbidden
  PROVE  Spec => []ReleasedOnce
<1>1. ReleaseInv => ReleasedOnce
  BY DEF ReleaseInv
<1>2. QED
  BY <1>1, ReleaseCorrect, PTL

(***************************************************************************)
(* What holds if besides a channel is not closed while it is announced.    *)
(***************************************************************************)
LEMMA ClosedForGood ==
  ASSUME tstate = "closed", [Next]_vars
  PROVE  tstate' = "closed"
BY DEF Next, App, Library, Events, vars, Start, StartFails, Stop, GetDataTransport,
   CreateInbandFails, CreateInband, Close, Send, CreateNegotiated, Return,
   CloseNextChannel, Detach, CloseTransport, Drop, DropSkipped, SetMtu, Created,
   OpenRegistered, OpenNextChannel, NotifyConnected, DryVisit, DryAdvance, ResetNext,
   ResetDone, CommUp, WriteEvent, CommLost, SenderDry, StreamReset, StreamResetDenied,
   RemoteOpenFails, RemoteOpen

(* On top of the stack, the loop over the slots and the detaching run.      *)
LEMMA SweepRuns ==
  ASSUME TypeOK, ~Idle, Top.at \in Sweeping, [Next]_vars
  PROVE  UNCHANGED vars \/ CloseNextChannel \/ Detach \/ CloseTransport
<1>1. ~InCallback /\ ~AppRuns
  BY DEF InCallback, AppRuns, Sweeping, Callbacks
<1>2. ~App /\ ~Return /\ ~Events
  BY <1>1 DEF App, Return, Events, MayCall, MayClose, Start, StartFails, Stop,
     GetDataTransport, CreateInbandFails, CreateInband, Close, Send, CreateNegotiated,
     CommUp, WriteEvent, CommLost, SenderDry, StreamReset, StreamResetDenied,
     RemoteOpenFails, RemoteOpen
<1>3. Library => CloseNextChannel \/ Detach \/ CloseTransport
  BY DEF Library, At, Sweeping, Drop, DropSkipped, SetMtu, Created, OpenRegistered,
     OpenNextChannel, NotifyConnected, DryVisit, DryAdvance, ResetNext, ResetDone
<1>4. QED
  BY <1>2, <1>3 DEF Next

(* A transport that is going to be closed is closed in the end.             *)
LEMMA EndingKept ==
  ASSUME TypeOK, Shape, RegistrySound, Ending, [Next]_vars
  PROVE  Ending'
<1>1. CASE tstate = "closed"
  BY <1>1, ClosedForGood DEF Ending
<1>2. ASSUME NEW f \in FramesOn(stack), f.at \in Sweeping
      PROVE  Ending'
  <2>1a. PICK added : \E out \in SUBSET {Top} :
          Moved(out, added)
    BY CloserStep DEF CloserMoves
  <2>1. PICK out \in SUBSET {Top} : Moved(out, added)
    BY <2>1a
  <2>2. CASE f \in FramesOn(stack)'
    BY <1>2, <2>2 DEF Ending
  <2>3. CASE f \notin FramesOn(stack)'
    <3>1. ~Idle /\ Top.at \in Sweeping
      BY <1>2, <2>1, <2>3, TopOn DEF Moved
    <3>2. CASE UNCHANGED vars
      BY <2>3, <3>2, NotMoved DEF vars
    <3>3. CASE CloseNextChannel
      <4>1. PICK s \in Sids, c \in Channels :
              Moved({Top}, {ClosingFrame(s + 1)} \cup DropFrames("drop", c, "teardown"))
        BY <3>3, CloseNextStep
      <4>2. ClosingFrame(s + 1) \in FramesOn(stack)'
        BY <4>1 DEF Moved
      <4>3. QED
        BY <4>2 DEF Ending, Sweeping, ClosingFrame, Frame
    <3>4. CASE Detach
      <4>1. Frame("detached", NoChannel, 0) \in FramesOn(stack)'
        BY <3>4, DetachStep DEF Moved, DetachFrames
      <4>2. QED
        BY <4>1 DEF Ending, Sweeping, Frame
    <3>5. CASE CloseTransport
      BY <3>5 DEF CloseTransport, Ending
    <3>6. QED
      BY <3>1, <3>2, <3>3, <3>4, <3>5, SweepRuns
  <2>4. QED
    BY <2>2, <2>3
<1>3. QED
  BY <1>1, <1>2 DEF Ending

LEMMA AnnouncedWaitsNext ==
  ASSUME NoCloseWhenAnnounced \subseteq Forbidden,
         TypeOK, TypeOK', Shape, RegistrySound, StepCases, [Next]_vars, AnnouncedWaits
  PROVE  AnnouncedWaits'
<1>1. SUFFICES ASSUME NEW f \in FramesOn(stack)', f.at = "register", ~Ending'
               PROVE  chan'[f.ch].state = "connecting"
  BY DEF AnnouncedWaits
<1>2. f.ch \in Channels
  BY <1>1, RegisterKept
<1>3. CASE f \in FramesOn(stack)
  <2>1. ~Ending
    BY <1>1, EndingKept
  <2>2. chan[f.ch].state = "connecting"
    BY <1>1, <1>3, <2>1 DEF AnnouncedWaits
  <2>3. ~MayClose(f.ch) /\ ~OnEvent
    BY <1>1, <1>3, AnnouncedAlone
  <2>4. ~OnSweep(f.ch)
    BY <2>1 DEF OnSweep, Ending, Sweeping
  <2>5. ~ChannelOpens(f.ch)
    BY <1>1, <1>3 DEF ChannelOpens
  <2>6. ~DryAsks(f.ch)
    BY <1>1, <1>3 DEF DryAsks
  <2>7. \A s \in Sids : ~ChannelRegisters(f.ch, s)
    BY <2>2 DEF ChannelRegisters, Registers, Unused
  <2>8. Effect(f.ch)
    BY <1>2, EffectLemma
  <2>9. QED
    BY <2>2, <2>3, <2>4, <2>5, <2>6, <2>7, <2>8
       DEF Effect, Stays, ChannelStartsClosing, ChannelCloses, DryForgets
<1>4. QED
  BY <1>1, <1>3, RegisterKept

(* A channel is closed once only.                                           *)
LEMMA ClosesOnce ==
  ASSUME TypeOK, Shape, DroppedClosed, ClosedDropped, NoCloserOverDrop, NEW c \in Channels,
         ChannelCloses(c)
  PROVE  chan[c].state # "closed"
<1>1. SUFFICES ASSUME chan[c].state = "closed" PROVE FALSE
  OBVIOUS
<1>2. slots[chan[c].sid] = c /\ chan[c].sid \in Sids /\ c # NoChannel
  BY NoChannelAssumption DEF ChannelCloses, TypeOK, ChannelRecords
<1>3. PICK f \in FramesOn(stack) : f.at \in Dropping /\ f.ch = c
  BY <1>1, <1>2 DEF ClosedDropped, Free
<1>4. QED
  BY <1>3, DroppedNotClosed

(* A channel is opened only when it waits for that.                         *)
LEMMA OpensWaiting ==
  ASSUME TypeOK, Shape, AnnouncedWaits, NEW c \in Channels, ChannelOpens(c)
  PROVE  chan[c].state = "connecting"
<1>1. CASE Top.at = "register" /\ Top.ch = c /\ tstate = "connected"
  <2>1. FramesOn(stack) = {Top}
    BY DEF ChannelOpens
  <2>2. ~Ending
    BY <1>1, <2>1 DEF Ending, Sweeping
  <2>3. QED
    BY <1>1, <2>1, <2>2 DEF AnnouncedWaits
<1>2. QED
  BY <1>1 DEF ChannelOpens

LEMMA AppendToOne ==
  ASSUME NEW a, NEW b
  PROVE  Append(<<a>>, b) = <<a, b>>
<1>1. /\ <<a>> \in Seq({a, b}) /\ <<a, b>> \in Seq({a, b})
      /\ Len(<<a>>) = 1 /\ Len(<<a, b>>) = 2
  OBVIOUS
<1>2. /\ Append(<<a>>, b) \in Seq({a, b}) /\ Len(Append(<<a>>, b)) = 2
      /\ Append(<<a>>, b)[1] = a /\ Append(<<a>>, b)[2] = b
  BY <1>1, AppendProperties
<1>3. \A i \in 1 .. 2 : i = 1 \/ i = 2
  OBVIOUS
<1>4. \A i \in 1 .. Len(Append(<<a>>, b)) : Append(<<a>>, b)[i] = <<a, b>>[i]
  BY <1>2, <1>3
<1>5. QED
  BY <1>1, <1>2, <1>4, SeqEqual

LEMMA Extended ==
  /\ Extend(<<>>, "open") = <<"open">>
  /\ Extend(<<>>, "closed") = <<"closed">>
  /\ Extend(<<"open">>, "closed") = <<"open", "closed">>
<1>1. /\ Len(<<>>) = 0 /\ Len(<<"open">>) = 1
      /\ Append(<<>>, "open") = <<"open">> /\ Append(<<>>, "closed") = <<"closed">>
      /\ Append(<<"open">>, "closed") = <<"open", "closed">>
  BY AppendToOne
<1>2. QED
  BY <1>1 DEF Extend, MaxHistory

LEMMA HeardByStateNext ==
  ASSUME TypeOK, TypeOK', Shape, StepCases, DroppedClosed, ClosedDropped, NoCloserOverDrop,
         AnnouncedWaits, HeardByState
  PROVE  HeardByState'
<1>1. SUFFICES ASSUME NEW c \in Channels
               PROVE  hist'[c].heard \in Heard(chan'[c].state)
  BY DEF HeardByState
<1>2. /\ hist[c].heard \in Heard(chan[c].state)
      /\ chan[c].state \in ChannelStates /\ chan'[c].state \in ChannelStates
  BY DEF HeardByState, TypeOK, ChannelRecords
<1>3. CASE Stays(c) \/ DryAsks(c) \/ DryForgets(c)
  BY <1>2, <1>3 DEF Stays, DryAsks, DryForgets
<1>4. CASE ChannelStartsClosing(c)
  <2>1. /\ chan[c].state \in {"connecting", "open"} /\ chan'[c].state = "closing"
        /\ hist'[c].heard = hist[c].heard
    BY <1>2, <1>4 DEF ChannelStartsClosing, StartsClosing, Unclosed, ChannelStates
  <2>2. QED
    BY <1>2, <2>1 DEF Heard
<1>5. CASE ChannelOpens(c)
  <2>1. /\ chan[c].state = "connecting" /\ chan'[c].state = "open"
        /\ hist'[c].heard = Extend(hist[c].heard, "open")
    BY <1>5, OpensWaiting DEF ChannelOpens, Opens
  <2>2. QED
    BY <1>2, <2>1, Extended DEF Heard
<1>6. CASE ChannelCloses(c)
  <2>1. /\ chan[c].state \in {"connecting", "open", "closing"} /\ chan'[c].state = "closed"
        /\ hist'[c].heard = Extend(hist[c].heard, "closed")
    BY <1>2, <1>6, ClosesOnce DEF ChannelCloses, Closes, ChannelStates
  <2>2. hist[c].heard \in {<<>>, <<"open">>}
    BY <1>2, <2>1 DEF Heard
  <2>3. QED
    BY <2>1, <2>2, Extended DEF Heard
<1>7. ASSUME NEW s \in Sids, ChannelRegisters(c, s)
      PROVE  hist'[c].heard \in Heard(chan'[c].state)
  <2>1. /\ chan[c].state = "none"
        /\ \/ chan'[c].state = "connecting" /\ hist'[c].heard = hist[c].heard
           \/ chan'[c].state = "open" /\ hist'[c].heard = Extend(hist[c].heard, "open")
    BY <1>7 DEF ChannelRegisters, Registers, Unused
  <2>2. hist[c].heard = <<>>
    BY <1>2, <2>1 DEF Heard
  <2>3. QED
    BY <2>1, <2>2, Extended DEF Heard
<1>8. QED
  BY <1>3, <1>4, <1>5, <1>6, <1>7, EffectLemma DEF Effect

(* HandlerInv is inductive under both contracts, relative to CoreInv and    *)
(* ReleaseInv.                                                              *)
LEMMA HandlerCorrect ==
  ASSUME NoStopWhileClosing \cup NoCloseWhenAnnounced \subseteq Forbidden
  PROVE  Spec => []HandlerInv
<1>1. Init => HandlerInv
  <2>1. SUFFICES ASSUME Init PROVE HandlerInv
    OBVIOUS
  <2>2. FramesOn(stack) = {}
    BY <2>1, NoFrames DEF Init
  <2>3. \A c \in Channels : chan[c].state = "none" /\ hist[c].heard = <<>>
    BY <2>1 DEF Init, NewChannel
  <2>4. QED
    BY <2>2, <2>3 DEF HandlerInv, AnnouncedWaits, HeardByState, Heard
<1>2. TypeOK /\ TypeOK' /\ RegistrySound /\ CoreInv /\ ReleaseInv /\ HandlerInv /\ [Next]_vars
        => HandlerInv'
  <2>1. SUFFICES ASSUME TypeOK, TypeOK', RegistrySound, CoreInv, ReleaseInv, HandlerInv,
                        [Next]_vars
                 PROVE  HandlerInv'
    OBVIOUS
  <2>2. Shape /\ StepCases /\ DroppedClosed /\ ClosedDropped /\ NoCloserOverDrop
    BY <2>1, CoreNext DEF CoreInv, ReleaseInv
  <2>3. QED
    BY <2>1, <2>2, AnnouncedWaitsNext, HeardByStateNext DEF HandlerInv
<1>3. Spec => []ReleaseInv
  BY ReleaseCorrect
<1>4. QED
  BY <1>1, <1>2, <1>3, TypeCorrect, RegistryCorrect, CoreCorrect, PTL DEF Spec

(* If the application keeps both contracts, the handlers of a channel hear  *)
(* of its opening at most once and of its closing at most once, the closing *)
(* being the last they hear (the places that set the state of a channel):   *)
(* in each state it is known what they have heard, and a channel that is    *)
(* opened without looking at its state, as handle_data_channel_open_message *)
(* does after the data channel handler, still waits for it.                 *)
THEOREM HandlersToldInOrder ==
  ASSUME NoStopWhileClosing \cup NoCloseWhenAnnounced \subseteq Forbidden
  PROVE  Spec => []HandlersInOrder
<1>1. TypeOK /\ HandlerInv => HandlersInOrder
  <2>1. SUFFICES ASSUME TypeOK, HandlerInv, NEW c \in Channels
                 PROVE  hist[c].heard \in {<<>>, <<"open">>, <<"closed">>, <<"open", "closed">>}
    BY DEF HandlersInOrder
  <2>2. chan[c].state \in ChannelStates /\ hist[c].heard \in Heard(chan[c].state)
    BY <2>1 DEF TypeOK, ChannelRecords, HandlerInv, HeardByState
  <2>3. QED
    BY <2>2 DEF Heard, ChannelStates
<1>2. QED
  BY <1>1, TypeCorrect, HandlerCorrect, PTL

(***************************************************************************)
(* What holds if no channel is created while the transport closes or after *)
(* that, and none is closed while it is announced.                         *)
(***************************************************************************)
(* The steps that register a channel.                                       *)
LEMMA RegistersBy ==
  ASSUME TypeOK, TypeOK', Shape, [Next]_vars, NEW c \in Channels, NEW s \in Sids, Registers(c, s)
  PROVE  MayCall("create") \/ (Idle /\ tstate = "connected")
<1>1. SUFFICES ASSUME ~MayCall("create"), ~(Idle /\ tstate = "connected")
               PROVE  FALSE
  OBVIOUS
<1>2. slots'[s] = c /\ slots[s] = NoChannel /\ c # NoChannel
  BY NoChannelAssumption DEF Registers, Free, TypeOK
<1>3. slots' # slots
  BY <1>2
<1>4. Drop
  BY <1>1, <1>3 DEF Next, App, Library, Events, vars, Start, StartFails, Stop,
     GetDataTransport, CreateInbandFails, CreateInband, Close, Send, CreateNegotiated,
     Return, CloseNextChannel, Detach, CloseTransport, DropSkipped, SetMtu, Created,
     OpenRegistered, OpenNextChannel, NotifyConnected, DryVisit, DryAdvance, ResetNext,
     ResetDone, CommUp, WriteEvent, CommLost, SenderDry, StreamReset, StreamResetDenied,
     RemoteOpenFails, RemoteOpen
<1>5. Top.sid \in Sids /\ slots' = [slots EXCEPT ![Top.sid] = NoChannel]
  BY <1>4, DropStep
<1>6. QED
  BY <1>2, <1>5 DEF TypeOK

(* The application's side of the contract: nothing is registered while the  *)
(* transport closes or after that.                                          *)
LEMMA CreateAllowed ==
  ASSUME NoCreateWhenStopped \subseteq Forbidden, TypeOK, TypeOK', Shape, [Next]_vars, Ending,
         NEW c \in Channels, NEW s \in Sids
  PROVE  ~ChannelRegisters(c, s)
<1>1. SUFFICES ASSUME ChannelRegisters(c, s) PROVE FALSE
  OBVIOUS
<1>2. MayCall("create") \/ (Idle /\ tstate = "connected")
  BY <1>1, RegistersBy DEF ChannelRegisters
<1>3. \A at \in {"teardown", "detach", "stopped"} : <<at, "create">> \in Forbidden
  BY DEF NoCreateWhenStopped
<1>4. CASE tstate = "closed"
  BY <1>2, <1>3, <1>4, CallAllowed
<1>5. ASSUME NEW f \in FramesOn(stack), f.at \in Sweeping PROVE FALSE
  <2>1. ~Idle
    BY <1>5, TopOn
  <2>2. InCallback /\ MayCall("create")
    BY <1>2, <2>1, CallAllowed
  <2>3. PICK g \in FramesOn(stack) : g.at \in {"teardown", "detach"}
    BY <1>5, <2>2, Covered DEF Sweeping
  <2>4. QED
    BY <1>3, <2>2, <2>3, CallAllowed
<1>6. QED
  BY <1>4, <1>5 DEF Ending

(* Meanwhile the slots do but empty.                                        *)
LEMMA FreeKept ==
  ASSUME NoCreateWhenStopped \subseteq Forbidden, TypeOK, TypeOK', Shape, StepCases,
         [Next]_vars, Ending, NEW s \in Sids, Free(s)
  PROVE  Free(s)'
<1>1. CASE Drop /\ slots' = [slots EXCEPT ![Top.sid] = NoChannel]
  <2>1. Top.sid \in Sids
    BY <1>1, DropStep
  <2>2. QED
    BY <1>1, <2>1 DEF TypeOK, Free
<1>2. UNCHANGED slots => Free(s)'
  BY DEF Free
<1>3. QED
  BY <1>1, <1>2, SlotsNext, CreateAllowed

(* A channel keeps its SID.                                                 *)
LEMMA SidKept ==
  ASSUME TypeOK, Shape, StepCases, NEW c \in Channels,
         \A s \in Sids : ~ChannelRegisters(c, s)
  PROVE  chan'[c].sid = chan[c].sid
<1>1. CASE Drop \/ DropSkipped \/ NoChannelChanges
  <2>1. UNCHANGED chan
    BY <1>1, DropStep DEF DropSkipped, NoChannelChanges
  <2>2. QED
    BY <2>1
<1>2. ASSUME NEW d \in Channels,
             \/ OnlyChannel(d)
             \/ d # c /\ \E s \in Sids : Registers(d, s)
      PROVE  chan'[c].sid = chan[c].sid
  <2>1. CASE c = d
    BY <1>2, <2>1 DEF OnlyChannel
  <2>2. CASE c # d
    BY <1>2, <2>2 DEF OnlyChannel, Registers
  <2>3. QED
    BY <2>1, <2>2
<1>3. ASSUME NEW d \in Channels,
             \/ ChannelStays(d) \/ ChannelStartsClosing(d) \/ ChannelOpens(d)
             \/ ChannelCloses(d) \/ DryAsks(d) \/ DryForgets(d)
             \/ \E s \in Sids : ChannelRegisters(d, s)
      PROVE  chan'[c].sid = chan[c].sid
  <2>1. OnlyChannel(d) \/ (d # c /\ \E s \in Sids : Registers(d, s))
    BY <1>3 DEF ChannelStays, ChannelStartsClosing, ChannelOpens, ChannelCloses,
                DryAsks, DryForgets, ChannelRegisters
  <2>2. QED
    BY <1>2, <2>1
<1>4. QED
  BY <1>1, <1>3 DEF StepCases

(* A channel comes to life only by being created.                           *)
LEMMA LiveNext ==
  ASSUME TypeOK, Shape, StepCases, AnnouncedWaits, NEW c \in Channels,
         \A s \in Sids : ~ChannelRegisters(c, s), Live(c)'
  PROVE  Live(c)
<1>1. chan[c].state \in ChannelStates
  BY DEF TypeOK, ChannelRecords
<1>2. ChannelOpens(c) => chan[c].state = "connecting"
  BY OpensWaiting
<1>3. Effect(c)
  BY EffectLemma
<1>4. QED
  BY <1>1, <1>2, <1>3 DEF Effect, Live, Stays, ChannelStartsClosing, StartsClosing, Unclosed,
     ChannelStates, ChannelCloses, Closes, DryAsks, DryForgets

LEMMA LiveInSlotNext ==
  ASSUME TypeOK, TypeOK', Shape, StepCases, DroppedClosed, AnnouncedWaits,
         NothingElseDropped, LiveInSlot
  PROVE  LiveInSlot'
<1>1. SUFFICES ASSUME NEW c \in Channels, Live(c)'
               PROVE  slots'[chan'[c].sid] = c
  BY DEF LiveInSlot
<1>2. ASSUME NEW s \in Sids, ChannelRegisters(c, s)
      PROVE  slots'[chan'[c].sid] = c
  BY <1>2 DEF ChannelRegisters, Registers, TypeOK
<1>3. CASE \A s \in Sids : ~ChannelRegisters(c, s)
  <2>1. Live(c) /\ chan'[c].sid = chan[c].sid
    BY <1>1, <1>3, LiveNext, SidKept
  <2>2. slots[chan[c].sid] = c /\ chan[c].sid \in Sids /\ c # NoChannel
    BY <2>1, NoChannelAssumption DEF LiveInSlot, TypeOK, ChannelRecords
  <2>3. CASE UNCHANGED slots
    BY <2>1, <2>2, <2>3
  <2>4. CASE Drop /\ slots' = [slots EXCEPT ![Top.sid] = NoChannel]
    <3>1. /\ ~Idle /\ Top.at \in Dropping /\ Top.sid \in Sids /\ Top.ch \in Channels
          /\ Top.at = "drop" \/ slots[Top.sid] = Top.ch
      BY <2>4, DropStep
    <3>2. Top \in FramesOn(stack)
      BY <3>1, TopOn
    <3>3. chan[Top.ch].state = "closed"
      BY <3>1, <3>2 DEF DroppedClosed
    <3>4. Top.ch # c
      BY <2>1, <3>3 DEF Live
    <3>5. slots[Top.sid] = Top.ch \/ slots[Top.sid] = NoChannel
      BY <3>1, <3>2 DEF NothingElseDropped, Free
    <3>6. chan[c].sid # Top.sid
      BY <2>2, <3>4, <3>5
    <3>7. QED
      BY <2>1, <2>2, <2>4, <3>6 DEF TypeOK
  <2>5. ASSUME NEW d \in Channels, NEW s \in Sids, ChannelRegisters(d, s),
               slots' = [slots EXCEPT ![s] = d]
        PROVE  slots'[chan'[c].sid] = c
    <3>1. chan[c].sid # s
      BY <2>2, <2>5 DEF ChannelRegisters, Registers, Free
    <3>2. QED
      BY <2>1, <2>2, <2>5, <3>1 DEF TypeOK
  <2>6. QED
    BY <2>3, <2>4, <2>5, SlotsNext
<1>4. QED
  BY <1>2, <1>3

(* A channel that waits to be dropped is closed once more by the loop over  *)
(* the slots at most.                                                       *)
LEMMA DroppedBySweep ==
  ASSUME TypeOK, Shape, DroppedClosed,
         NEW f \in FramesOn(stack), f.at \in Dropping, ChannelCloses(f.ch)
  PROVE  Ending
<1>1. ~Unclosed(f.ch)
  BY DEF DroppedClosed, Unclosed
<1>2. ~OnEvent
  BY DEF OnEvent, Dropping
<1>3. OnSweep(f.ch)
  BY <1>1, <1>2 DEF ChannelCloses
<1>4. QED
  BY <1>3 DEF OnSweep, Ending, Sweeping

LEMMA DropOnceOrEndingNext ==
  ASSUME TypeOK, TypeOK', Shape, Shape', RegistrySound, StepCases, [Next]_vars,
         DroppedClosed, DropOnceOrEnding
  PROVE  DropOnceOrEnding'
<1>1. SUFFICES ASSUME ~Ending', ~Ending,
                      NEW i \in 1 .. Len(stack'), NEW j \in 1 .. Len(stack'), i < j,
                      stack'[i].at \in Dropping, stack'[j].at \in Dropping,
                      stack'[i].ch = stack'[j].ch
               PROVE  stack'[i].at = "drop_if" /\ stack'[j].at = "drop_if"
  BY EndingKept DEF DropOnceOrEnding, DropOnce
<1>2a. PICK added : \E out \in SUBSET {Top} :
        Moved(out, added) /\ \A g \in added : DropComes(g)
  BY DroppingStep
<1>2. PICK out \in SUBSET {Top} : Moved(out, added) /\ \A g \in added : DropComes(g)
  BY <1>2a
<1>3. PICK n \in Int :
        /\ Atop(n, added)
        /\ \A k \in 1 .. Len(stack') :
             \/ k <= n /\ k \in 1 .. Len(stack) /\ stack'[k] = stack[k]
             \/ n < k /\ stack'[k] \in added
  BY <1>2, OldOrNew
<1>4. CASE n < i
  <2>1. stack'[j].at \in {"close", "teardown"}
    BY <1>1, <1>3, <1>4, DroppingLast
  <2>2. QED
    BY <1>1, <2>1 DEF Dropping
<1>5. CASE j <= n
  <2>1. /\ i \in 1 .. Len(stack) /\ stack'[i] = stack[i]
        /\ j \in 1 .. Len(stack) /\ stack'[j] = stack[j]
    BY <1>1, <1>3, <1>5
  <2>2. QED
    BY <1>1, <2>1 DEF DropOnceOrEnding, DropOnce
<1>6. CASE i <= n /\ n < j
  <2>1. i \in 1 .. Len(stack) /\ stack'[i] = stack[i] /\ stack'[j] \in added
    BY <1>3, <1>6
  <2>2. stack[i] \in FramesOn(stack) /\ stack[i].at \in Dropping
    BY <1>1, <2>1, StackLength
  <2>3. ChannelCloses(stack[i].ch)
    BY <1>1, <1>2, <2>1 DEF DropComes
  <2>4. QED
    BY <1>1, <2>2, <2>3, DroppedBySweep
<1>7. QED
  BY <1>4, <1>5, <1>6

LEMMA NothingElseDroppedNext ==
  ASSUME NoCreateWhenStopped \subseteq Forbidden,
         TypeOK, TypeOK', Shape, RegistrySound, StepCases, [Next]_vars,
         DropOnceOrEnding, NothingElseDropped
  PROVE  NothingElseDropped'
<1>1. SUFFICES ASSUME NEW f \in FramesOn(stack)', f.at = "drop"
               PROVE  slots'[f.sid] = f.ch \/ (Free(f.sid)' /\ Ending')
  BY DEF NothingElseDropped
<1>2a. PICK added : \E out \in SUBSET {Top} :
        Moved(out, added) /\ \A g \in added : DropComes(g)
  BY DroppingStep
<1>2. PICK out \in SUBSET {Top} : Moved(out, added) /\ \A g \in added : DropComes(g)
  BY <1>2a
<1>3. f.at \in Dropping /\ f.ch \in Channels /\ f.sid \in Sids
  <2>1. f \in Frames
    BY DEF FramesOn, TypeOK
  <2>2. QED
    BY <1>1, <2>1, FrameFields, ChannelInNext DEF Dropping, Loops
<1>4. CASE f \in added
  <2>1. ChannelCloses(f.ch) /\ f.sid = chan[f.ch].sid
    BY <1>2, <1>3, <1>4 DEF DropComes
  <2>2. QED
    BY <2>1 DEF ChannelCloses, OnlyChannel
<1>5. ASSUME f \in FramesOn(stack), Free(f.sid), Ending
      PROVE  Free(f.sid)' /\ Ending'
  BY <1>3, <1>5, FreeKept, EndingKept
<1>6. CASE f \in FramesOn(stack) /\ slots[f.sid] = f.ch
  <2>1. CASE UNCHANGED slots
    BY <1>6, <2>1
  <2>2. CASE Drop /\ slots' = [slots EXCEPT ![Top.sid] = NoChannel] /\ f.sid = Top.sid
    <3>1. /\ ~Idle /\ Top.at \in Dropping /\ Top.sid \in Sids /\ Top \in FramesOn(stack)
          /\ Top.at = "drop" \/ slots[Top.sid] = Top.ch
      BY <2>2, DropStep, TopOn
    <3>2. slots[Top.sid] # NoChannel
      BY <1>3, <1>6, <2>2, NoChannelAssumption
    <3>3. Top.ch = f.ch
      BY <1>6, <2>2, <3>1, <3>2 DEF NothingElseDropped, Free
    <3>4. ~DropOnce
      BY <1>1, <1>3, <2>2, <3>3, DropBelow
    <3>5. Ending'
      BY <3>4, EndingKept DEF DropOnceOrEnding
    <3>6. Free(f.sid)'
      BY <2>2, <3>1 DEF TypeOK, Free
    <3>7. QED
      BY <3>5, <3>6
  <2>3. CASE Drop /\ slots' = [slots EXCEPT ![Top.sid] = NoChannel] /\ f.sid # Top.sid
    BY <1>3, <1>6, <2>3 DEF TypeOK
  <2>4. ASSUME NEW c \in Channels, NEW s \in Sids, ChannelRegisters(c, s),
               slots' = [slots EXCEPT ![s] = c]
        PROVE  slots'[f.sid] = f.ch
    <3>1. f.sid # s
      BY <1>3, <1>6, <2>4, NoChannelAssumption DEF ChannelRegisters, Registers, Free
    <3>2. QED
      BY <1>3, <1>6, <2>4, <3>1 DEF TypeOK
  <2>5. QED
    BY <2>1, <2>2, <2>3, <2>4, SlotsNext
<1>7. QED
  BY <1>1, <1>2, <1>4, <1>5, <1>6 DEF Moved, NothingElseDropped

(* What the loop over the slots pushes, and where.                          *)
LEMMA CloseNextStack ==
  ASSUME TypeOK, CloseNextChannel
  PROVE  \E s \in Sids :
           /\ NextIn(Filled, s, Top.sid)
           /\ Len(stack') = Len(stack) + 2
           /\ \A k \in 1 .. Len(stack) - 1 : stack'[k] = stack[k]
           /\ stack'[Len(stack)].at = "close_channels" /\ stack'[Len(stack)].sid = s + 1
           /\ stack'[Len(stack) + 1].at = "drop" /\ stack'[Len(stack) + 1].sid = s
           /\ stack'[Len(stack) + 2].at = "teardown"
<1>1. PICK s \in Sids :
        /\ NextIn(Filled, s, Top.sid)
        /\ stack' = Push(Push(Replace(stack, ClosingFrame(s + 1)),
                              Frame("drop", slots[s], s)), Frame("teardown", slots[s], s))
  BY DEF CloseNextChannel
<1> DEFINE c == slots[s]
           e == ClosingFrame(s + 1)
           f == Frame("drop", c, s)
           g == Frame("teardown", c, s)
           r == Replace(stack, e)
           p == Push(r, f)
<1>2. c \in Channels
  BY <1>1 DEF NextIn, Filled, Free, TypeOK
<1>3. /\ e \in Frames /\ e.at = "close_channels" /\ e.sid = s + 1
  <2>1. s + 1 \in 0 .. NChannels
    BY <1>1, NChannelsAssumption DEF Sids
  <2>2. QED
    BY <2>1, ClosingFrameType
<1>4. f \in Frames /\ f.at = "drop" /\ f.sid = s /\ g \in Frames /\ g.at = "teardown"
  BY <1>2, FrameTypes DEF OfChannel, Frame
<1>5. stack \in Seq(Frames) /\ stack # <<>> /\ Len(stack) \in Nat \ {0}
  BY LenProperties, EmptySeq DEF TypeOK, CloseNextChannel, At, Idle
<1>6. /\ r \in Seq(Frames) /\ Len(r) = Len(stack) /\ r[Len(stack)] = e
      /\ \A k \in 1 .. Len(stack) - 1 : r[k] = stack[k]
  BY <1>3, <1>5, ReplaceType
<1> HIDE DEF r, e, f, g
<1>7. /\ p \in Seq(Frames) /\ Len(p) = Len(r) + 1 /\ p[Len(r) + 1] = f
      /\ \A k \in 1 .. Len(r) : p[k] = r[k]
  BY <1>4, <1>6, PushType
<1> HIDE DEF p
<1>8. /\ Len(Push(p, g)) = Len(p) + 1 /\ Push(p, g)[Len(p) + 1] = g
      /\ \A k \in 1 .. Len(p) : Push(p, g)[k] = p[k]
  BY <1>4, <1>7, PushType
<1>9. stack' = Push(p, g)
  BY <1>1 DEF p, r, e, f, g
<1>10. /\ Len(stack') = Len(stack) + 2
       /\ stack'[Len(stack)] = e /\ stack'[Len(stack) + 1] = f /\ stack'[Len(stack) + 2] = g
       /\ \A k \in 1 .. Len(stack) - 1 : stack'[k] = stack[k]
  BY <1>5, <1>6, <1>7, <1>8, <1>9
<1>11. QED
  BY <1>1, <1>3, <1>4, <1>10

LEMMA DropRuns ==
  ASSUME TypeOK, ~Idle, Top.at = "drop", [Next]_vars
  PROVE  UNCHANGED vars \/ Drop
<1>1. ~InCallback /\ ~AppRuns
  BY DEF InCallback, AppRuns, Callbacks
<1>2. ~App /\ ~Return /\ ~Events
  BY <1>1 DEF App, Return, Events, MayCall, MayClose, Start, StartFails, Stop,
     GetDataTransport, CreateInbandFails, CreateInband, Close, Send, CreateNegotiated,
     CommUp, WriteEvent, CommLost, SenderDry, StreamReset, StreamResetDenied,
     RemoteOpenFails, RemoteOpen
<1>3. Library => Drop
  BY DEF Library, At, CloseNextChannel, Detach, CloseTransport, DropSkipped, SetMtu, Created,
     OpenRegistered, OpenNextChannel, NotifyConnected, DryVisit, DryAdvance, ResetNext, ResetDone
<1>4. QED
  BY <1>2, <1>3 DEF Next

(* The slots the loop has passed are free when it runs.                     *)
LEMMA SweptBelow ==
  ASSUME TypeOK, SweptFree, ~Idle, Top.at = "close_channels", NEW s \in Sids, s < Top.sid
  PROVE  Free(s)
<1>1. Len(stack) \in 1 .. Len(stack) /\ Len(stack) + 1 \notin 1 .. Len(stack)
  BY StackLength
<1>2. QED
  BY <1>1 DEF SweptFree, Top

LEMMA SweptByLoop ==
  ASSUME TypeOK, Shape, SweptFree, CloseNextChannel
  PROVE  SweptFree'
<1>1. SUFFICES ASSUME NEW i \in 1 .. Len(stack'), NEW s \in Sids,
                      stack'[i].at = "close_channels", s < stack'[i].sid
               PROVE  Free(s)' \/ (i + 1 \in 1 .. Len(stack') /\ stack'[i + 1].sid = s)
  BY DEF SweptFree
<1>2. ~Idle /\ Top.at = "close_channels" /\ UNCHANGED slots
  BY DEF CloseNextChannel, At
<1>3. PICK r \in Sids :
        /\ NextIn(Filled, r, Top.sid)
        /\ Len(stack') = Len(stack) + 2
        /\ \A k \in 1 .. Len(stack) - 1 : stack'[k] = stack[k]
        /\ stack'[Len(stack)].at = "close_channels" /\ stack'[Len(stack)].sid = r + 1
        /\ stack'[Len(stack) + 1].at = "drop" /\ stack'[Len(stack) + 1].sid = r
        /\ stack'[Len(stack) + 2].at = "teardown"
  BY CloseNextStack
<1>4. Len(stack) \in Nat \ {0} /\ Top.sid \in Int /\ s \in Int /\ r \in Int
  BY <1>2, TopOn, FrameFields, StackLength DEF Sids
<1>5. CASE i \in 1 .. Len(stack) - 1
  <2>1. stack'[i] = stack[i] /\ i \in 1 .. Len(stack)
    BY <1>3, <1>4, <1>5
  <2>2. stack[i].at = "close_channels" /\ Fits(stack[i], stack[i + 1])
    BY <1>1, <1>5, <2>1 DEF Shape, Shaped
  <2>3. stack[i + 1].at = "drop"
    BY <2>2 DEF Fits, Callbacks
  <2>4. i + 1 # Len(stack)
    BY <1>2, <2>3 DEF Top
  <2>5. i + 1 \in 1 .. Len(stack) - 1 /\ i + 1 \in 1 .. Len(stack')
    BY <1>3, <1>4, <1>5, <2>4
  <2>6. stack'[i + 1] = stack[i + 1]
    BY <1>3, <2>5
  <2>7. Free(s) \/ stack[i + 1].sid = s
    BY <1>1, <2>1 DEF SweptFree
  <2>8. QED
    BY <1>2, <2>5, <2>6, <2>7 DEF Free
<1>6. CASE i = Len(stack)
  <2>1. s = r \/ s < r
    BY <1>1, <1>3, <1>4, <1>6
  <2>2. CASE s = r
    BY <1>3, <1>4, <1>6, <2>2
  <2>3. CASE s < r
    <3>1. CASE s < Top.sid
      BY <1>2, <3>1, SweptBelow DEF Free
    <3>2. CASE s >= Top.sid
      <4>1. s \notin Filled
        BY <1>3, <1>4, <2>3, <3>2 DEF NextIn
      <4>2. QED
        BY <1>2, <4>1 DEF Filled, Free
    <3>3. QED
      BY <1>4, <3>1, <3>2
  <2>4. QED
    BY <2>1, <2>2, <2>3
<1>7. CASE i = Len(stack) + 1 \/ i = Len(stack) + 2
  BY <1>1, <1>3, <1>7
<1>8. QED
  BY <1>3, <1>4, <1>5, <1>6, <1>7

LEMMA SweptFreeNext ==
  ASSUME NoCreateWhenStopped \subseteq Forbidden,
         TypeOK, TypeOK', Shape, RegistrySound, StepCases, [Next]_vars, SweptFree
  PROVE  SweptFree'
<1>1. CASE UNCHANGED vars
  BY <1>1 DEF vars, SweptFree, Free
<1>2. CASE CloseNextChannel
  BY <1>2, SweptByLoop
<1>3. CASE ~UNCHANGED vars /\ ~CloseNextChannel
  <2>1. SUFFICES ASSUME NEW i \in 1 .. Len(stack'), NEW s \in Sids,
                        stack'[i].at = "close_channels", s < stack'[i].sid
                 PROVE  Free(s)' \/ (i + 1 \in 1 .. Len(stack') /\ stack'[i + 1].sid = s)
    BY DEF SweptFree
  <2>2a. PICK added : \E out \in SUBSET {Top} :
          Moved(out, added) /\ (\A g \in added : CloserComes(g)) /\ (out # {} => ~Idle)
    BY CloserStep DEF CloserMoves
  <2>2. PICK out \in SUBSET {Top} :
          Moved(out, added) /\ (\A g \in added : CloserComes(g)) /\ (out # {} => ~Idle)
    BY <2>2a
  <2>3. PICK n \in Int :
          /\ n = IF out = {} THEN Len(stack) ELSE Len(stack) - 1
          /\ Atop(n, added)
          /\ \A k \in 1 .. Len(stack') :
               \/ k <= n /\ k \in 1 .. Len(stack) /\ stack'[k] = stack[k]
               \/ n < k /\ stack'[k] \in added
    BY <2>2, OldOrNew
  <2>4. CASE stack'[i] \in added
    <3>1. stack'[i].sid = 0
      BY <1>3, <2>1, <2>2, <2>4 DEF CloserComes, Closers
    <3>2. QED
      BY <2>1, <3>1 DEF Sids
  <2>5. CASE i <= n /\ i \in 1 .. Len(stack) /\ stack'[i] = stack[i]
    <3>1. stack[i].at = "close_channels" /\ s < stack[i].sid /\ stack[i] \in FramesOn(stack)
      BY <2>1, <2>5, StackLength
    <3>2. Ending
      BY <3>1 DEF Ending, Sweeping
    <3>3. CASE Free(s)
      BY <3>2, <3>3, FreeKept
    <3>4. CASE i + 1 \in 1 .. Len(stack) /\ stack[i + 1].sid = s /\ i + 1 <= n
      <4>1. i + 1 \in 1 .. n /\ n <= Len(stack')
        BY <2>3, <3>4 DEF Atop
      <4>2. i + 1 \in 1 .. Len(stack') /\ stack'[i + 1] = stack[i + 1]
        <5>1. Len(stack') \in Nat
          BY LenProperties DEF TypeOK
        <5>2. i + 1 \in 1 .. Len(stack')
          BY <4>1, <5>1
        <5>3. QED
          BY <2>3, <4>1, <5>2 DEF Atop
      <4>3. QED
        BY <3>4, <4>2
    <3>5. CASE i + 1 \in 1 .. Len(stack) /\ stack[i + 1].sid = s /\ ~(i + 1 <= n)
      <4>1. Len(stack) \in Nat
        BY StackLength
      <4>2. i + 1 = Len(stack) /\ out # {} /\ i \in 1 .. Len(stack) - 1
        BY <2>3, <3>5, <4>1
      <4>3. ~Idle /\ Top.sid = s
        BY <2>2, <3>5, <4>2 DEF Top
      <4>4. Fits(stack[i], Top)
        BY <4>2 DEF Shape, Shaped, Top
      <4>5. Top.at = "drop"
        BY <3>1, <4>4 DEF Fits, Callbacks
      <4>6. Drop
        BY <1>3, <4>3, <4>5, DropRuns
      <4>7. slots' = [slots EXCEPT ![s] = NoChannel]
        BY <4>3, <4>6, DropStep
      <4>8. QED
        BY <4>7 DEF TypeOK, Free
    <3>6. QED
      BY <2>5, <3>1, <3>3, <3>4, <3>5 DEF SweptFree
  <2>6. QED
    BY <2>3, <2>4, <2>5
<1>4. QED
  BY <1>1, <1>2, <1>3

(* What never comes back, and who takes it away.                            *)
LEMMA ForGood ==
  ASSUME [Next]_vars
  PROVE  /\ detached => detached'
         /\ ~socket => ~socket'
         /\ tstate' = "closed" => tstate = "closed" \/ CloseTransport
         /\ tstate' = "connected" =>
              tstate = "connected" \/ \E k \in 0 .. Len(queue) : CommUp(k)
<1>1. CASE UNCHANGED vars
  BY <1>1 DEF vars
<1>2. CASE App
  BY <1>2 DEF App, Start, StartFails, Stop, GetDataTransport, CreateInbandFails,
     CreateInband, Close, Send, CreateNegotiated
<1>3. CASE Return
  BY <1>3 DEF Return
<1>4. CASE Library
  BY <1>4 DEF Library, CloseNextChannel, Detach, CloseTransport, Drop, DropSkipped, SetMtu,
     Created, OpenRegistered, OpenNextChannel, NotifyConnected, DryVisit, DryAdvance,
     ResetNext, ResetDone
<1>5. CASE Events
  <2>1. ASSUME NEW k \in 0 .. Len(queue), CommUp(k)
        PROVE  UNCHANGED <<detached, socket>> /\ tstate' = "connected"
    BY <2>1 DEF CommUp
  <2>2. Events => \/ \E k \in 0 .. Len(queue) : CommUp(k)
                  \/ UNCHANGED <<detached, socket, tstate>>
    BY DEF Events, WriteEvent, CommLost, SenderDry, StreamReset, StreamResetDenied,
       RemoteOpenFails, RemoteOpen
  <2>3. CASE \E k \in 0 .. Len(queue) : CommUp(k)
    BY <2>1, <2>3
  <2>4. CASE UNCHANGED <<detached, socket, tstate>>
    BY <2>4
  <2>5. QED
    BY <1>5, <2>2, <2>3, <2>4
<1>6. QED
  BY <1>1, <1>2, <1>3, <1>4, <1>5 DEF Next

LEMMA EmptyKept ==
  ASSUME NoCreateWhenStopped \subseteq Forbidden, TypeOK, TypeOK', Shape, StepCases,
         [Next]_vars, Ending, Filled = {}
  PROVE  Filled' = {}
<1>1. \A s \in Sids : Free(s)
  BY DEF Filled
<1>2. \A s \in Sids : Free(s)'
  BY <1>1, FreeKept
<1>3. QED
  BY <1>2 DEF Filled

LEMMA DetachedCleanNext ==
  ASSUME NoCreateWhenStopped \subseteq Forbidden,
         TypeOK, TypeOK', Shape, RegistrySound, StepCases, [Next]_vars, SweptFree,
         DetachedClean
  PROVE  DetachedClean'
<1>1. SUFFICES ASSUME NEW f \in FramesOn(stack)', f.at = "detached"
               PROVE  detached' /\ Filled' = {}
  BY DEF DetachedClean
<1>2a. PICK added : \E out \in SUBSET {Top} :
        Moved(out, added) /\ \A g \in added : CloserComes(g)
  BY CloserStep DEF CloserMoves
<1>2. PICK out \in SUBSET {Top} : Moved(out, added) /\ \A g \in added : CloserComes(g)
  BY <1>2a
<1>3. CASE f \in FramesOn(stack)
  <2>1. detached /\ Filled = {} /\ Ending
    BY <1>1, <1>3 DEF DetachedClean, Ending, Sweeping
  <2>2. QED
    BY <2>1, EmptyKept, ForGood
<1>4. CASE f \in added
  <2>1. Detach
    BY <1>1, <1>2, <1>4 DEF CloserComes, Closers
  <2>2. /\ ~Idle /\ Top.at = "close_channels" /\ detached' /\ UNCHANGED slots
        /\ \A s \in Sids : s >= Top.sid => Free(s)
    BY <2>1 DEF Detach, At
  <2>3. \A s \in Sids : s < Top.sid \/ s >= Top.sid
    BY <2>2, TopOn, FrameFields DEF Sids
  <2>4. \A s \in Sids : Free(s)
    BY <2>2, <2>3, SweptBelow
  <2>5. QED
    BY <2>2, <2>4 DEF Filled, Free
<1>5. QED
  BY <1>2, <1>3, <1>4 DEF Moved

LEMMA ClosedCleanNext ==
  ASSUME NoCreateWhenStopped \subseteq Forbidden,
         TypeOK, TypeOK', Shape, StepCases, [Next]_vars, DetachedClean, ClosedClean
  PROVE  ClosedClean'
<1>1. SUFFICES ASSUME tstate' = "closed"
               PROVE  ~socket' /\ detached' /\ Filled' = {}
  BY DEF ClosedClean
<1>2. CASE tstate = "closed"
  <2>1. ~socket /\ detached /\ Filled = {} /\ Ending
    BY <1>2 DEF ClosedClean, Ending
  <2>2. QED
    BY <2>1, EmptyKept, ForGood
<1>3. CASE CloseTransport
  <2>1. /\ ~Idle /\ Top.at = "detached" /\ socket' = FALSE
        /\ UNCHANGED <<detached, slots>>
    BY <1>3 DEF CloseTransport, At
  <2>2. detached /\ Filled = {}
    BY <2>1, TopOn DEF DetachedClean
  <2>3. QED
    BY <2>1, <2>2 DEF Filled, Free
<1>4. QED
  BY <1>1, <1>2, <1>3, ForGood

(* On top of the stack, the handlers that open channels run.                *)
LEMMA OpenerRuns ==
  ASSUME TypeOK, ~Idle, Top.at \in {"register", "open_channels"}, [Next]_vars
  PROVE  \/ UNCHANGED vars
         \/ Top.at = "register" /\ OpenRegistered
         \/ Top.at = "open_channels" /\ (OpenNextChannel \/ NotifyConnected)
<1>1. ~InCallback /\ ~AppRuns
  BY DEF InCallback, AppRuns, Callbacks
<1>2. ~App /\ ~Return /\ ~Events
  BY <1>1 DEF App, Return, Events, MayCall, MayClose, Start, StartFails, Stop,
     GetDataTransport, CreateInbandFails, CreateInband, Close, Send, CreateNegotiated,
     CommUp, WriteEvent, CommLost, SenderDry, StreamReset, StreamResetDenied,
     RemoteOpenFails, RemoteOpen
<1>3. Library => OpenRegistered \/ OpenNextChannel \/ NotifyConnected
  BY DEF Library, At, CloseNextChannel, Detach, CloseTransport, Drop, DropSkipped, SetMtu,
     Created, DryVisit, DryAdvance, ResetNext, ResetDone
<1>4. QED
  BY <1>2, <1>3 DEF Next, OpenRegistered, OpenNextChannel, NotifyConnected, At

LEMMA WaitingServedNext ==
  ASSUME TypeOK, TypeOK', Shape, RegistrySound, StepCases, [Next]_vars, LiveInSlot,
         WaitingServed
  PROVE  WaitingServed'
<1>1. SUFFICES ASSUME NEW c \in Channels, chan'[c].state = "connecting", tstate' = "connected"
               PROVE  \E f \in FramesOn(stack)' :
                        \/ f.at = "register" /\ f.ch = c
                        \/ f.at = "open_channels" /\ f.sid <= chan'[c].sid
  BY DEF WaitingServed
<1> DEFINE Goal == \E f \in FramesOn(stack)' :
                     \/ f.at = "register" /\ f.ch = c
                     \/ f.at = "open_channels" /\ f.sid <= chan'[c].sid
<1>2. SUFFICES Goal
  OBVIOUS
<1> HIDE DEF Goal
<1>3. tstate # "connected" => \E k \in 0 .. Len(queue) : CommUp(k)
  BY <1>1, ForGood
<1>4. ASSUME NEW s \in Sids, ChannelRegisters(c, s) PROVE Goal
  <2>1. slots' # slots
    BY <1>4, NoChannelAssumption DEF ChannelRegisters, Registers, Free, TypeOK
  <2>2. tstate = "connected"
    BY <1>3, <2>1 DEF CommUp
  <2>3. Moved({}, RemoteFrames(c, s))
    BY <1>1, <1>4, <2>2 DEF ChannelRegisters
  <2>4. Frame("register", c, s) \in FramesOn(stack)'
    BY <2>3 DEF Moved, RemoteFrames
  <2>5. QED
    BY <2>4 DEF Goal, Frame
<1>5. CASE \A s \in Sids : ~ChannelRegisters(c, s)
  <2>1. chan[c].state = "connecting"
    <3>1. Effect(c)
      BY EffectLemma
    <3>2. QED
      BY <1>1, <1>5, <3>1 DEF Effect, Stays, ChannelStartsClosing, StartsClosing,
         ChannelOpens, Opens, ChannelCloses, Closes, DryAsks, DryForgets
  <2>2. chan'[c].sid = chan[c].sid /\ chan[c].sid \in Sids
    BY <1>5, SidKept DEF TypeOK, ChannelRecords
  <2>3. CASE tstate # "connected"
    <3>1. PICK f \in Frames :
            /\ Moved({}, {f})
            /\ f.at = "open_channels" => f.sid = 0
            /\ f.at # "open_channels" => UNCHANGED tstate
      BY <1>3, <2>3, EventStep
    <3>2. f.at = "open_channels" /\ f.sid = 0 /\ f \in FramesOn(stack)'
      BY <1>1, <2>3, <3>1 DEF Moved
    <3>3. 0 <= chan'[c].sid
      BY <2>2 DEF Sids
    <3>4. QED
      BY <3>2, <3>3 DEF Goal
  <2>4. CASE tstate = "connected"
    <3>1. PICK f \in FramesOn(stack) :
            \/ f.at = "register" /\ f.ch = c
            \/ f.at = "open_channels" /\ f.sid <= chan[c].sid
      BY <2>1, <2>4 DEF WaitingServed
    <3>2. CASE f \in FramesOn(stack)'
      BY <2>2, <3>1, <3>2 DEF Goal
    <3>3. CASE f \notin FramesOn(stack)'
      <4>1a. PICK added : \E out \in SUBSET {Top} :
              Moved(out, added)
        BY CloserStep DEF CloserMoves
      <4>1. PICK out \in SUBSET {Top} : Moved(out, added)
        BY <4>1a
      <4>2. f = Top /\ ~Idle
        BY <3>3, <4>1, TopOn DEF Moved
      <4>3. ~UNCHANGED vars
        BY <3>3, NotMoved DEF vars
      <4>4. CASE Top.at = "register"
        <5>1. OpenRegistered /\ Top.ch = c
          BY <3>1, <4>2, <4>3, <4>4, OpenerRuns
        <5>2. chan'[c].state = "open"
          BY <2>4, <5>1, OpenRegisteredStep DEF Opens
        <5>3. QED
          BY <1>1, <5>2
      <4>5. CASE Top.at = "open_channels"
        <5>1. (OpenNextChannel \/ NotifyConnected) /\ Top.sid <= chan[c].sid
          BY <3>1, <4>2, <4>3, <4>5, OpenerRuns
        <5>2. chan[c].sid \in Waiting /\ slots[chan[c].sid] = c
          BY <2>1, <2>2, NoChannelAssumption DEF LiveInSlot, Live, Waiting, Filled, Free
        <5>3. Top.sid \in Int /\ chan[c].sid \in Int
          BY <2>2, <4>2, TopOn, FrameFields DEF Sids
        <5>4. OpenNextChannel
          BY <5>1, <5>2, <5>3 DEF NotifyConnected
        <5>5. PICK s \in Sids, d \in Channels :
                /\ NextIn(Waiting, s, Top.sid) /\ slots[s] = d /\ chan'[d].state = "open"
                /\ Moved({Top}, {Frame("open_channels", NoChannel, s + 1),
                                 Frame("open_all", d, s)})
          BY <5>4, OpenNextStep DEF Opens
        <5>6. s <= chan[c].sid
          BY <5>1, <5>2, <5>3, <5>5 DEF NextIn
        <5>7. s # chan[c].sid
          BY <1>1, <5>2, <5>5
        <5>8. s + 1 <= chan'[c].sid
          BY <2>2, <5>6, <5>7 DEF Sids
        <5>9. Frame("open_channels", NoChannel, s + 1) \in FramesOn(stack)'
          BY <5>5 DEF Moved
        <5>10. QED
          BY <5>8, <5>9 DEF Goal, Frame
      <4>6. QED
        BY <3>1, <4>2, <4>4, <4>5
    <3>4. QED
      BY <3>2, <3>3
  <2>5. QED
    BY <2>3, <2>4
<1>6. QED
  BY <1>4, <1>5

(* CleanInv is inductive under both contracts, relative to CoreInv.         *)
LEMMA CleanCorrect ==
  ASSUME NoCreateWhenStopped \cup NoCloseWhenAnnounced \subseteq Forbidden
  PROVE  Spec => []CleanInv
<1>1. Init => CleanInv
  <2>1. SUFFICES ASSUME Init PROVE CleanInv
    OBVIOUS
  <2>2. FramesOn(stack) = {} /\ Len(stack) = 0
    BY <2>1, NoFrames DEF Init
  <2>3. \A c \in Channels : chan[c].state = "none"
    BY <2>1 DEF Init, NewChannel
  <2>4. tstate = "new"
    BY <2>1 DEF Init
  <2>5. AnnouncedWaits /\ NothingElseDropped /\ DetachedClean
    BY <2>2 DEF AnnouncedWaits, NothingElseDropped, DetachedClean
  <2>6. LiveInSlot /\ WaitingServed /\ ClosedClean
    BY <2>3, <2>4 DEF LiveInSlot, Live, WaitingServed, ClosedClean
  <2>7. DropOnceOrEnding /\ SweptFree
    BY <2>2 DEF DropOnceOrEnding, DropOnce, SweptFree
  <2>8. QED
    BY <2>5, <2>6, <2>7 DEF CleanInv
<1>2. TypeOK /\ TypeOK' /\ RegistrySound /\ CoreInv /\ CoreInv' /\ CleanInv /\ [Next]_vars
        => CleanInv'
  <2>1. SUFFICES ASSUME TypeOK, TypeOK', RegistrySound, CoreInv, CoreInv', CleanInv, [Next]_vars
                 PROVE  CleanInv'
    OBVIOUS
  <2>2. Shape /\ Shape' /\ StepCases /\ DroppedClosed
    BY <2>1, CoreNext DEF CoreInv
  <2>3. AnnouncedWaits' /\ LiveInSlot' /\ WaitingServed'
    BY <2>1, <2>2, AnnouncedWaitsNext, LiveInSlotNext, WaitingServedNext DEF CleanInv
  <2>4. NothingElseDropped' /\ DropOnceOrEnding'
    BY <2>1, <2>2, NothingElseDroppedNext, DropOnceOrEndingNext DEF CleanInv
  <2>5. SweptFree' /\ DetachedClean' /\ ClosedClean'
    BY <2>1, <2>2, SweptFreeNext, DetachedCleanNext, ClosedCleanNext DEF CleanInv
  <2>6. QED
    BY <2>3, <2>4, <2>5 DEF CleanInv
<1>3. QED
  BY <1>1, <1>2, TypeCorrect, RegistryCorrect, CoreCorrect, PTL DEF Spec

(* If no channel is created while the transport closes or after that, and   *)
(* none is closed in the handler that announces it, a closed transport has  *)
(* no socket and no channel in any slot, and every channel ever created on  *)
(* it is closed (set_state and close_data_channels): the loop over the      *)
(* slots leaves no channel behind, whatever its close handlers do, even if  *)
(* they start the loop once more.                                           *)
THEOREM ClosedTransportClean ==
  ASSUME NoCreateWhenStopped \cup NoCloseWhenAnnounced \subseteq Forbidden
  PROVE  Spec => []ClosedIsClean
<1>1. TypeOK /\ CleanInv => ClosedIsClean
  <2>1. SUFFICES ASSUME TypeOK, CleanInv, tstate = "closed"
                 PROVE  /\ ~socket /\ detached /\ Filled = {}
                        /\ \A c \in Channels : chan[c].state \in {"none", "closed"}
    BY DEF ClosedIsClean
  <2>2. ~socket /\ detached /\ Filled = {}
    BY <2>1 DEF CleanInv, ClosedClean
  <2>3. ASSUME NEW c \in Channels PROVE chan[c].state \in {"none", "closed"}
    <3>1. chan[c].state \in ChannelStates /\ chan[c].sid \in Sids
      BY <2>1 DEF TypeOK, ChannelRecords
    <3>2. ~Live(c)
      BY <2>1, <2>2, <3>1, NoChannelAssumption DEF CleanInv, LiveInSlot, Filled, Free
    <3>3. QED
      BY <3>1, <3>2 DEF Live, ChannelStates
  <2>4. QED
    BY <2>2, <2>3
<1>2. QED
  BY <1>1, TypeCorrect, CleanCorrect, PTL

(* Under the same contracts, when no function of the library is running, a  *)
(* channel is in its slot exactly if it is connecting, open or closing, and *)
(* none is left waiting on a connected transport (handle_association_change *)
(* and channel_register open whatever waits).                               *)
THEOREM RestSettled ==
  ASSUME NoCreateWhenStopped \cup NoCloseWhenAnnounced \subseteq Forbidden
  PROVE  Spec => []SettledAtRest
<1>1. TypeOK /\ RegistrySound /\ CoreInv /\ CleanInv => SettledAtRest
  <2>1. SUFFICES ASSUME TypeOK, RegistrySound, CoreInv, CleanInv, Idle, NEW c \in Channels
                 PROVE  /\ chan[c].state = "connecting" => tstate \in {"new", "connecting"}
                        /\ Registered(c) <=> Live(c)
    BY DEF SettledAtRest, Live
  <2>2. FramesOn(stack) = {}
    BY <2>1, TopOn
  <2>3. chan[c].state \in ChannelStates /\ chan[c].sid \in Sids /\ tstate \in TransportStates
    BY <2>1 DEF TypeOK, ChannelRecords
  <2>4. Live(c) => slots[chan[c].sid] = c
    BY <2>1 DEF CleanInv, LiveInSlot
  <2>5. Live(c) => Registered(c)
    BY <2>3, <2>4 DEF Registered
  <2>6. ASSUME Registered(c) PROVE Live(c)
    <3>1. PICK s \in Sids : slots[s] = c
      BY <2>6 DEF Registered
    <3>2. ~Free(s) /\ chan[c].state # "none"
      BY <2>1, <3>1, NoChannelAssumption DEF RegistrySound, Free
    <3>3. chan[c].state # "closed"
      BY <2>1, <2>2, <3>1, <3>2 DEF CoreInv, ClosedDropped
    <3>4. QED
      BY <2>3, <3>2, <3>3 DEF Live, ChannelStates
  <2>7. ASSUME chan[c].state = "connecting" PROVE tstate \in {"new", "connecting"}
    <3>1. tstate # "connected"
      BY <2>1, <2>2, <2>7 DEF CleanInv, WaitingServed
    <3>2. tstate # "closed"
      BY <2>1, <2>3, <2>4, <2>7, NoChannelAssumption
         DEF CleanInv, ClosedClean, Filled, Free, Live
    <3>3. QED
      BY <2>3, <3>1, <3>2 DEF TransportStates
  <2>8. QED
    BY <2>5, <2>6, <2>7
<1>2. QED
  BY <1>1, TypeCorrect, RegistryCorrect, CoreCorrect, CleanCorrect, PTL

(***************************************************************************)
(* What holds if the transport is neither stopped nor started between a    *)
(* change of its state and the notification of it.                         *)
(***************************************************************************)
(* Where start and stop are called no closer waits.                         *)
LEMMA NoticeAllowed ==
  ASSUME NoStopBeforeNotified \subseteq Forbidden, TypeOK, Shape, CloserState,
         Start \/ StartFails \/ Stop, NEW f \in FramesOn(stack)
  PROVE  f.at \notin Closers
<1>1. SUFFICES ASSUME f.at \in Closers PROVE FALSE
  OBVIOUS
<1>2. MayCall("start") \/ MayCall("stop")
  BY DEF Start, StartFails, Stop
<1>3. InCallback
  BY <1>2, CallAllowed, TopOn
<1>4. CASE f.at = "close_channels"
  <2>1. PICK g \in FramesOn(stack) : g.at = "teardown"
    BY <1>3, <1>4, Covered
  <2>2. <<g.at, "start">> \in Forbidden /\ <<g.at, "stop">> \in Forbidden
    BY <2>1 DEF NoStopBeforeNotified
  <2>3. QED
    BY <1>2, <2>1, <2>2, CallAllowed
<1>5. CASE f.at = "detached"
  <2>1. PICK g \in FramesOn(stack) : g.at = "detach"
    BY <1>3, <1>5, Covered
  <2>2. <<g.at, "start">> \in Forbidden
    BY <2>1 DEF NoStopBeforeNotified
  <2>3. detached
    BY <1>5 DEF CloserState
  <2>4. ~Stop
    BY <2>3 DEF Stop, Stoppable
  <2>5. MayCall("start")
    BY <2>4 DEF Start, StartFails
  <2>6. QED
    BY <2>1, <2>2, <2>5, CallAllowed
<1>6. CASE f.at \in {"mtu", "open_channels"}
  <2>1. PICK g \in FramesOn(stack) : g.at \in {"connecting", "open_all"}
    BY <1>3, <1>6, Covered
  <2>2. <<g.at, "stop">> \in Forbidden
    BY <2>1 DEF NoStopBeforeNotified
  <2>3. tstate # "new"
    BY <1>6 DEF CloserState
  <2>4. MayCall("stop")
    BY <2>3 DEF Start, StartFails, Stop
  <2>5. QED
    BY <2>1, <2>2, <2>4, CallAllowed
<1>7. QED
  BY <1>1, <1>4, <1>5, <1>6 DEF Closers

(* Above a new closer there are but the callback it waits for and, with     *)
(* the loop over the slots, the channel it has closed.                      *)
LEMMA CloserLast ==
  ASSUME TypeOK', Shape', NEW n \in Int, NEW added, Atop(n, added),
         NEW i \in 1 .. Len(stack'), NEW j \in 1 .. Len(stack'), n < i, i < j,
         stack'[i].at \in Closers
  PROVE  stack'[j].at \notin Closers
<1>1. Len(stack') \in Nat
  BY LenProperties DEF TypeOK
<1>2. i \in 1 .. Len(stack') - 1
  BY <1>1
<1>3. Fits(stack'[i], stack'[i + 1])
  BY <1>2 DEF Shape, Shaped
<1>4. stack'[i + 1].at = "drop" \/ stack'[i + 1].at \in Callbacks
  BY <1>3 DEF Fits, Closers, Callbacks
<1>5. CASE stack'[i + 1].at \in Callbacks
  <2>1. i + 1 \in n + 1 .. Len(stack') - 1 \/ i + 1 = Len(stack')
    BY <1>1
  <2>2. i + 1 \notin n + 1 .. Len(stack') - 1
    BY <1>5 DEF Atop
  <2>3. j = i + 1
    BY <1>1, <2>1, <2>2
  <2>4. QED
    BY <1>5, <2>3 DEF Closers, Callbacks
<1>6. CASE stack'[i + 1].at = "drop"
  <2>1. CASE j = i + 1
    BY <1>6, <2>1 DEF Closers
  <2>2. CASE i + 1 < j
    <3>1. i + 1 \in 1 .. Len(stack') /\ n < i + 1
      BY <1>1, <2>2
    <3>2. stack'[j].at \in {"close", "teardown"}
      BY <1>6, <2>2, <3>1, DroppingLast DEF Dropping
    <3>3. QED
      BY <3>2 DEF Closers
  <2>3. QED
    BY <1>1, <2>1, <2>2
<1>7. QED
  BY <1>4, <1>5, <1>6

LEMMA OneCloserNext ==
  ASSUME NoStopBeforeNotified \subseteq Forbidden,
         TypeOK, TypeOK', Shape, Shape', RegistrySound, CloserState, OneCloser, [Next]_vars
  PROVE  OneCloser'
<1>0. Len(stack) \in Nat /\ Len(stack') \in Nat
  BY LenProperties DEF TypeOK
<1>1. SUFFICES ASSUME NEW i \in 1 .. Len(stack'), NEW j \in 1 .. Len(stack'), i < j,
                      stack'[i].at \in Closers, stack'[j].at \in Closers
               PROVE  FALSE
  <2>1. \A i, j \in 1 .. Len(stack') : i = j \/ i < j \/ j < i
    BY <1>0
  <2>2. QED
    BY <2>1 DEF OneCloser
<1>2a. PICK added : \E out \in SUBSET {Top} :
        CloserMoves(out, added)
  BY CloserStep
<1>2. PICK out \in SUBSET {Top} : CloserMoves(out, added)
  BY <1>2a
<1>3. Moved(out, added)
  BY <1>2 DEF CloserMoves
<1>4. PICK n \in Int :
        /\ n = IF out = {} THEN Len(stack) ELSE Len(stack) - 1
        /\ Atop(n, added)
        /\ \A k \in 1 .. Len(stack') :
             \/ k <= n /\ k \in 1 .. Len(stack) /\ stack'[k] = stack[k]
             \/ n < k /\ stack'[k] \in added
  BY <1>3, OldOrNew
<1>6. CASE n < i
  BY <1>1, <1>4, <1>6, CloserLast
<1>7. CASE j <= n
  <2>1. /\ i \in 1 .. Len(stack) /\ stack'[i] = stack[i]
        /\ j \in 1 .. Len(stack) /\ stack'[j] = stack[j]
    BY <1>1, <1>4, <1>7
  <2>2. i = j
    BY <1>1, <2>1 DEF OneCloser
  <2>3. QED
    BY <1>1, <2>2
<1>8. CASE i <= n /\ n < j
  <2>1. i \in 1 .. Len(stack) /\ stack'[i] = stack[i] /\ stack'[j] \in added
    BY <1>4, <1>8
  <2>2. stack[i] \in FramesOn(stack) /\ stack[i].at \in Closers
    BY <1>1, <2>1, StackLength
  <2>3. CASE out = {Top} /\ Top.at \in Closers
    <3>1. i < Len(stack) /\ Len(stack) \in 1 .. Len(stack)
      BY <1>0, <1>4, <1>8, <2>1, <2>3
    <3>2. QED
      BY <2>1, <2>2, <2>3, <3>1 DEF OneCloser, Top
  <2>4. CASE Idle \/ Start \/ StartFails \/ Stop
    BY <2>2, <2>4, NoticeAllowed, TopOn
  <2>5. QED
    BY <1>1, <1>2, <2>1, <2>3, <2>4 DEF CloserMoves
<1>9. QED
  BY <1>6, <1>7, <1>8

(* The frames that notify take the last closer from the stack.              *)
LEMMA CloserAlone ==
  ASSUME TypeOK, OneCloser, ~Idle, Top.at \in Closers, NEW f \in FramesOn(stack),
         f.at \in Closers
  PROVE  f = Top
<1>1. PICK i \in 1 .. Len(stack) : f = stack[i]
  BY DEF FramesOn
<1>2. QED
  BY <1>1, StackLength DEF OneCloser, Top

LEMMA CloserGone ==
  ASSUME TypeOK, TypeOK', OneCloser, ~Idle, Top.at \in Closers, NEW added, Moved({Top}, added),
         \A g \in added : g.at \notin Closers, NEW f \in FramesOn(stack)'
  PROVE  f.at \notin Closers
<1>1. PICK i \in 1 .. Len(stack') : f = stack'[i]
  BY DEF FramesOn
<1>2. Len(stack) \in 1 .. Len(stack) /\ Len(stack) \in Nat
  BY StackLength
<1>3. \/ i <= Len(stack) - 1 /\ i \in 1 .. Len(stack) /\ stack'[i] = stack[i]
      \/ stack'[i] \in added
  BY OldOrNew
<1>4. CASE i <= Len(stack) - 1 /\ i \in 1 .. Len(stack) /\ stack'[i] = stack[i]
  <2>1. i # Len(stack)
    BY <1>2, <1>4
  <2>2. QED
    BY <1>1, <1>2, <1>4, <2>1 DEF OneCloser, Top
<1>5. QED
  BY <1>1, <1>3, <1>4

(* Where the state and the notifications change.                            *)
LEMMA StateStep ==
  ASSUME [Next]_vars
  PROVE  \/ UNCHANGED <<tstate, notes>>
         \/ Start \/ CloseTransport \/ NotifyConnected
         \/ \E k \in 0 .. Len(queue) : CommUp(k)
<1>1. CASE UNCHANGED vars
  BY <1>1 DEF vars
<1>2. CASE App
  BY <1>2 DEF App, StartFails, Stop, GetDataTransport, CreateInbandFails, CreateInband,
     Close, Send, CreateNegotiated
<1>3. CASE Return
  BY <1>3 DEF Return
<1>4. CASE Library
  BY <1>4 DEF Library, CloseNextChannel, Detach, Drop, DropSkipped, SetMtu, Created,
     OpenRegistered, OpenNextChannel, DryVisit, DryAdvance, ResetNext, ResetDone
<1>5. CASE Events
  BY <1>5 DEF Events, WriteEvent, CommLost, SenderDry, StreamReset, StreamResetDenied,
     RemoteOpenFails, RemoteOpen
<1>6. QED
  BY <1>1, <1>2, <1>3, <1>4, <1>5 DEF Next

LEMMA ClosingLast ==
  ASSUME TypeOK, TypeOK', Shape, OneCloser, CloseTransport, NEW f \in FramesOn(stack)'
  PROVE  f.at \notin Closers
<1>1. ~Idle /\ Top.at \in Closers /\ Moved({Top}, {Frame("closed", NoChannel, 0)})
  BY CloseTransportStep DEF Closers
<1>2. \A g \in {Frame("closed", NoChannel, 0)} : g.at \notin Closers
  BY DEF Frame, Closers
<1>3. QED
  BY <1>1, <1>2, CloserGone

LEMMA NotifyingLast ==
  ASSUME TypeOK, TypeOK', Shape, OneCloser, NotifyConnected, NEW f \in FramesOn(stack)'
  PROVE  f.at \notin Closers
<1>1. ~Idle /\ Top.at \in Closers /\ Moved({Top}, {Frame("connected", NoChannel, 0)})
  BY NotifyConnectedStep DEF Closers
<1>2. \A g \in {Frame("connected", NoChannel, 0)} : g.at \notin Closers
  BY DEF Frame, Closers
<1>3. QED
  BY <1>1, <1>2, CloserGone

(* A closer comes on a transport that is not closed.                        *)
LEMMA CloserOnLive ==
  ASSUME TypeOK, CloserState, NEW out \in SUBSET {Top}, NEW added, CloserMoves(out, added),
         NEW f \in added, f.at \in Closers
  PROVE  tstate # "closed"
<1>1. CASE out = {Top} /\ Top.at \in Closers
  <2>1. Top \in FramesOn(stack)
    BY <1>1, TopOn DEF CloserMoves
  <2>2. QED
    BY <1>1, <2>1 DEF CloserState, Closers, Sweeping
<1>2. CASE (Idle /\ tstate # "closed") \/ Start \/ StartFails \/ Stop
  BY <1>2 DEF Start, StartFails, Stop, Stoppable
<1>3. QED
  BY <1>1, <1>2 DEF CloserMoves

LEMMA CloserStateNext ==
  ASSUME NoStopBeforeNotified \subseteq Forbidden,
         TypeOK, TypeOK', Shape, RegistrySound, OneCloser, CloserState, [Next]_vars
  PROVE  CloserState'
<1>1. SUFFICES ASSUME NEW f \in FramesOn(stack)', f.at \in Closers
               PROVE  /\ tstate' # "closed"
                      /\ f.at = "detached" => detached'
                      /\ f.at = "mtu" => tstate' = "connecting"
                      /\ f.at = "open_channels" => tstate' = "connected"
  BY DEF CloserState, Closers, Sweeping
<1>2a. PICK added : \E out \in SUBSET {Top} :
        CloserMoves(out, added)
  BY CloserStep
<1>2. PICK out \in SUBSET {Top} : CloserMoves(out, added)
  BY <1>2a
<1>3. ~CloseTransport /\ ~NotifyConnected
  BY <1>1, ClosingLast, NotifyingLast
<1>4. CASE f \in FramesOn(stack)
  <2>1. /\ tstate # "closed"
        /\ f.at = "detached" => detached
        /\ f.at = "mtu" => tstate = "connecting"
        /\ f.at = "open_channels" => tstate = "connected"
    BY <1>1, <1>4 DEF CloserState, Closers, Sweeping
  <2>2. ~Start
    BY <1>1, <1>4, NoticeAllowed
  <2>3. ~\E k \in 0 .. Len(queue) : CommUp(k)
    BY <1>4, TopOn DEF CommUp
  <2>4. UNCHANGED tstate
    BY <1>3, <2>2, <2>3, StateStep
  <2>5. QED
    BY <2>1, <2>4, ForGood
<1>5. CASE f \in added
  <2>1. tstate # "closed"
    BY <1>1, <1>2, <1>5, CloserOnLive
  <2>2. tstate' # "closed"
    BY <1>3, <2>1, ForGood
  <2>3. CloserComes(f)
    BY <1>2, <1>5 DEF CloserMoves
  <2>4. f.at = "detached" => detached'
    BY <1>1, <2>3 DEF CloserComes, Detach
  <2>5. f.at = "mtu" => tstate' = "connecting"
    BY <1>1, <2>3 DEF CloserComes, Start
  <2>6. OpenNextChannel => tstate' = "connected"
    <3>1. OpenNextChannel => ~Idle /\ Top.at = "open_channels" /\ UNCHANGED tstate
      BY DEF OpenNextChannel, At
    <3>2. QED
      BY <3>1, TopOn DEF CloserState
  <2>7. f.at = "open_channels" => tstate' = "connected"
    BY <1>1, <2>3, <2>6 DEF CloserComes, CommUp
  <2>8. QED
    BY <2>2, <2>4, <2>5, <2>7
<1>6. QED
  BY <1>2, <1>4, <1>5 DEF CloserMoves, Moved

(* The loop that opens the waiting channels stays until it notifies.        *)
LEMMA OpeningKept ==
  ASSUME TypeOK, TypeOK', Shape, RegistrySound, [Next]_vars, ~NotifyConnected,
         ~\E k \in 0 .. Len(queue) : CommUp(k)
  PROVE  Opening' <=> Opening
<1>1a. PICK added : \E out \in SUBSET {Top} :
        CloserMoves(out, added)
  BY CloserStep
<1>1. PICK out \in SUBSET {Top} : CloserMoves(out, added)
  BY <1>1a
<1>2. Moved(out, added)
  BY <1>1 DEF CloserMoves
<1>3. ASSUME NEW f \in FramesOn(stack)', f.at = "open_channels" PROVE Opening
  <2>1. CASE f \in FramesOn(stack)
    BY <1>3, <2>1 DEF Opening
  <2>2. CASE f \in added
    <3>1. OpenNextChannel
      BY <1>1, <1>3, <2>2 DEF CloserMoves, CloserComes, Closers
    <3>2. ~Idle /\ Top.at = "open_channels"
      BY <3>1 DEF OpenNextChannel, At
    <3>3. QED
      BY <3>2, TopOn DEF Opening
  <2>3. QED
    BY <1>2, <2>1, <2>2 DEF Moved
<1>4. ASSUME NEW f \in FramesOn(stack), f.at = "open_channels" PROVE Opening'
  <2>1. CASE f \in FramesOn(stack)'
    BY <1>4, <2>1 DEF Opening
  <2>2. CASE f \notin FramesOn(stack)'
    <3>1. ~Idle /\ Top.at = "open_channels"
      BY <1>2, <1>4, <2>2, TopOn DEF Moved
    <3>2. ~UNCHANGED vars
      BY <2>2, NotMoved DEF vars
    <3>3. OpenNextChannel
      BY <3>1, <3>2, OpenerRuns
    <3>4. PICK s \in Sids, c \in Channels :
            Moved({Top}, {Frame("open_channels", NoChannel, s + 1), Frame("open_all", c, s)})
      BY <3>3, OpenNextStep
    <3>5. Frame("open_channels", NoChannel, s + 1) \in FramesOn(stack)'
      BY <3>4 DEF Moved
    <3>6. QED
      BY <3>5 DEF Opening, Frame
  <2>3. QED
    BY <2>1, <2>2
<1>5. QED
  BY <1>3, <1>4 DEF Opening

LEMMA AppendToTwo ==
  ASSUME NEW a, NEW b, NEW c
  PROVE  Append(<<a, b>>, c) = <<a, b, c>>
<1>1. /\ <<a, b>> \in Seq({a, b, c}) /\ <<a, b, c>> \in Seq({a, b, c})
      /\ Len(<<a, b>>) = 2 /\ Len(<<a, b, c>>) = 3
  OBVIOUS
<1>2. /\ Append(<<a, b>>, c) \in Seq({a, b, c}) /\ Len(Append(<<a, b>>, c)) = 3
      /\ Append(<<a, b>>, c)[1] = a /\ Append(<<a, b>>, c)[2] = b
      /\ Append(<<a, b>>, c)[3] = c
  BY <1>1, AppendProperties
<1>3. \A i \in 1 .. 3 : i = 1 \/ i = 2 \/ i = 3
  OBVIOUS
<1>4. \A i \in 1 .. Len(Append(<<a, b>>, c)) : Append(<<a, b>>, c)[i] = <<a, b, c>>[i]
  BY <1>2, <1>3
<1>5. QED
  BY <1>1, <1>2, <1>4, SeqEqual

LEMMA Notified ==
  /\ Extend(<<>>, "connecting") = <<"connecting">>
  /\ Extend(<<"connecting">>, "connected") = <<"connecting", "connected">>
  /\ Extend(<<>>, "closed") = <<"closed">>
  /\ Extend(<<"connecting">>, "closed") = <<"connecting", "closed">>
  /\ Extend(<<"connecting", "connected">>, "closed") = <<"connecting", "connected", "closed">>
<1>1. Len(<<>>) = 0 /\ Len(<<"connecting">>) = 1 /\ Len(<<"connecting", "connected">>) = 2
  OBVIOUS
<1>2. /\ Append(<<>>, "connecting") = <<"connecting">> /\ Append(<<>>, "closed") = <<"closed">>
      /\ Append(<<"connecting">>, "connected") = <<"connecting", "connected">>
      /\ Append(<<"connecting">>, "closed") = <<"connecting", "closed">>
  BY AppendToOne
<1>3. Append(<<"connecting", "connected">>, "closed") = <<"connecting", "connected", "closed">>
  BY AppendToTwo
<1>4. QED
  BY <1>1, <1>2, <1>3 DEF Extend, MaxHistory

LEMMA NotesByStateNext ==
  ASSUME TypeOK, TypeOK', Shape, RegistrySound, OneCloser, CloserState, NotesByState,
         [Next]_vars
  PROVE  NotesByState'
<1>1. CASE Start
  <2>1. tstate = "new" /\ tstate' = "connecting" /\ notes' = Extend(notes, "connecting")
    BY <1>1 DEF Start
  <2>2. notes = <<>>
    BY <2>1 DEF NotesByState, Told
  <2>3. notes' = <<"connecting">>
    BY <2>1, <2>2, Notified
  <2>4. QED
    BY <2>1, <2>3 DEF NotesByState, Told
<1>2. ASSUME NEW k \in 0 .. Len(queue), CommUp(k) PROVE NotesByState'
  <2>1. tstate = "connecting" /\ tstate' = "connected" /\ notes' = notes
    BY <1>2 DEF CommUp
  <2>2. notes' = <<"connecting">>
    BY <2>1 DEF NotesByState, Told
  <2>3. Frame("open_channels", NoChannel, 0) \in Frames
    BY FrameTypes, NChannelsAssumption DEF Loops
  <2>4. Moved({}, {Frame("open_channels", NoChannel, 0)})
    BY <1>2, <2>3, MovedPush DEF CommUp
  <2>5. Opening'
    BY <2>4 DEF Moved, Opening, Frame
  <2>6. QED
    BY <2>1, <2>2, <2>5 DEF NotesByState, Told
<1>3. CASE NotifyConnected
  <2>1. Top \in FramesOn(stack) /\ Top.at = "open_channels"
    BY <1>3, TopOn DEF NotifyConnected, At
  <2>2. tstate = "connected" /\ Opening
    BY <2>1 DEF CloserState, Opening
  <2>3. tstate' = tstate /\ notes' = Extend(notes, "connected")
    BY <1>3 DEF NotifyConnected
  <2>4. notes = <<"connecting">>
    BY <2>2 DEF NotesByState, Told
  <2>5. notes' = <<"connecting", "connected">>
    BY <2>3, <2>4, Notified
  <2>6. ~Opening'
    BY <1>3, NotifyingLast DEF Opening, Closers
  <2>7. QED
    BY <2>2, <2>3, <2>5, <2>6 DEF NotesByState, Told
<1>4. CASE CloseTransport
  <2>1. ~Idle /\ Top \in FramesOn(stack) /\ Top.at = "detached"
    BY <1>4, TopOn DEF CloseTransport, At
  <2>2. tstate \in {"new", "connecting", "connected"}
    BY <2>1 DEF CloserState, Sweeping, TypeOK, TransportStates
  <2>3. ~Opening
    BY <2>1, CloserAlone DEF Opening, Closers
  <2>4. notes \in {<<>>, <<"connecting">>, <<"connecting", "connected">>}
    BY <2>2, <2>3 DEF NotesByState, Told
  <2>5. tstate' = "closed" /\ notes' = Extend(notes, "closed")
    BY <1>4 DEF CloseTransport
  <2>6. notes' \in {<<"closed">>, <<"connecting", "closed">>,
                    <<"connecting", "connected", "closed">>}
    BY <2>4, <2>5, Notified
  <2>7. QED
    BY <2>5, <2>6 DEF NotesByState, Told
<1>5. CASE ~NotifyConnected /\ UNCHANGED <<tstate, notes>>
  <2>1. ~\E k \in 0 .. Len(queue) : CommUp(k)
    BY <1>5 DEF CommUp
  <2>2. Opening' <=> Opening
    BY <1>5, <2>1, OpeningKept
  <2>3. QED
    BY <1>5, <2>2 DEF NotesByState, Told
<1>6. QED
  BY <1>1, <1>2, <1>3, <1>4, <1>5, StateStep

LEMMA NoticeCorrect ==
  ASSUME NoStopBeforeNotified \subseteq Forbidden
  PROVE  Spec => []NoticeInv
<1>1. Init => NoticeInv
  <2>1. SUFFICES ASSUME Init PROVE NoticeInv
    OBVIOUS
  <2>2. FramesOn(stack) = {} /\ Len(stack) = 0
    BY <2>1, NoFrames DEF Init
  <2>3. tstate = "new" /\ notes = <<>>
    BY <2>1 DEF Init
  <2>4. QED
    BY <2>2, <2>3 DEF NoticeInv, OneCloser, CloserState, NotesByState, Told
<1>2. TypeOK /\ TypeOK' /\ RegistrySound /\ CoreInv /\ CoreInv' /\ NoticeInv /\ [Next]_vars
        => NoticeInv'
  BY OneCloserNext, CloserStateNext, NotesByStateNext DEF CoreInv, NoticeInv
<1>3. QED
  BY <1>1, <1>2, TypeCorrect, RegistryCorrect, CoreCorrect, PTL DEF Spec

(* If the transport is neither stopped nor started between a change of its  *)
(* state and the notification of it, the state handler hears connecting,    *)
(* connected and closed in that order, each at most once (set_state is      *)
(* never called twice for a state): of the continuations of start, of the   *)
(* closing and of the loop that opens the waiting channels there is at most *)
(* one at a time.                                                           *)
THEOREM StatesToldInOrder ==
  ASSUME NoStopBeforeNotified \subseteq Forbidden
  PROVE  Spec => []NotificationsInOrder
<1>1. TypeOK /\ NoticeInv => NotificationsInOrder
  <2>1. SUFFICES ASSUME TypeOK, NoticeInv PROVE NotificationsInOrder
    OBVIOUS
  <2>2. notes \in {<<>>, <<"connecting">>, <<"connecting", "connected">>, <<"closed">>,
                   <<"connecting", "closed">>, <<"connecting", "connected", "closed">>}
    BY <2>1 DEF NoticeInv, NotesByState, Told, TypeOK, TransportStates
  <2>3. CASE notes \in {<<>>, <<"connecting">>, <<"closed">>}
    <3>1. Len(notes) \in {0, 1}
      BY <2>3
    <3>2. \A i, j \in 1 .. Len(notes) : ~(i < j)
      BY <3>1
    <3>3. QED
      BY <3>2 DEF NotificationsInOrder
  <2>4. CASE notes \in {<<"connecting", "connected">>, <<"connecting", "closed">>}
    <3>1. Len(notes) = 2
      BY <2>4
    <3>2. \A i, j \in 1 .. Len(notes) : i < j => i = 1 /\ j = 2
      BY <3>1
    <3>3. <<notes[1], notes[2]>> \in {<<"connecting", "connected">>, <<"connecting", "closed">>}
      BY <2>4
    <3>4. QED
      BY <3>2, <3>3 DEF NotificationsInOrder
  <2>5. CASE notes = <<"connecting", "connected", "closed">>
    <3>1. Len(notes) = 3
      BY <2>5
    <3>2. ASSUME NEW i \in 1 .. Len(notes), NEW j \in 1 .. Len(notes), i < j
          PROVE  (i = 1 /\ j = 2) \/ (i = 1 /\ j = 3) \/ (i = 2 /\ j = 3)
      <4>1. (i = 1 \/ i = 2 \/ i = 3) /\ (j = 1 \/ j = 2 \/ j = 3)
        BY <3>1
      <4>2. QED
        BY <3>2, <4>1
    <3>3. notes[1] = "connecting" /\ notes[2] = "connected" /\ notes[3] = "closed"
      BY <2>5
    <3>4. QED
      BY <3>2, <3>3 DEF NotificationsInOrder
  <2>6. QED
    BY <2>2, <2>3, <2>4, <2>5
<1>2. QED
  BY <1>1, NoticeCorrect, TypeCorrect, PTL

(***************************************************************************)
(* The service.  A step changes the state of the transport, or what can be *)
(* observed of one channel, or nothing that can be observed.               *)
(***************************************************************************)
States == [c \in Channels |-> chan[c].state]
Tolds == [c \in Channels |-> hist[c].heard]

LEMMA OthersKept ==
  ASSUME NEW c \in Channels,
         \A d \in Channels \ {c} : chan'[d] = chan[d] /\ hist'[d] = hist[d]
  PROVE  /\ States' = [States EXCEPT ![c] = chan'[c].state]
         /\ Tolds' = [Tolds EXCEPT ![c] = hist'[c].heard]
         /\ hist'[c].heard = hist[c].heard => Tolds' = Tolds
         /\ \A e : hist'[c].heard = Append(hist[c].heard, e) =>
              Tolds' = [Tolds EXCEPT ![c] = Append(@, e)]
<1>1. States' = [States EXCEPT ![c] = chan'[c].state]
  BY DEF States
<1>2. Tolds' = [Tolds EXCEPT ![c] = hist'[c].heard]
  BY DEF Tolds
<1>3. hist'[c].heard = hist[c].heard => Tolds' = Tolds
  BY DEF Tolds
<1>4. Tolds[c] = hist[c].heard
  BY DEF Tolds
<1>5. QED
  BY <1>1, <1>2, <1>3, <1>4

(* The history of a channel is never cut short.                             *)
LEMMA HeardAppended ==
  ASSUME HeardByState, NEW c \in Channels, NEW e,
         chan[c].state \in {"none", "connecting", "open", "closing"}
  PROVE  Extend(hist[c].heard, e) = Append(hist[c].heard, e)
<1>1. hist[c].heard \in Heard(chan[c].state)
  BY DEF HeardByState
<1>2. hist[c].heard \in {<<>>, <<"open">>}
  BY <1>1 DEF Heard
<1>3. Len(hist[c].heard) \in {0, 1}
  BY <1>2
<1> DEFINE n == Len(hist[c].heard)
<1>4. n \in {0, 1}
  BY <1>3
<1> HIDE DEF n
<1>5. n < MaxHistory
  BY <1>4 DEF MaxHistory
<1>6. QED
  BY <1>5 DEF Extend, n

LEMMA ServiceStartsClosing ==
  ASSUME TypeOK, NEW c \in Channels, ChannelStartsClosing(c), UNCHANGED tstate
  PROVE  Service!StartClosing(c)
<1>1. /\ chan[c].state \in {"connecting", "open"} /\ chan'[c].state = "closing"
      /\ hist'[c].heard = hist[c].heard
      /\ \A d \in Channels \ {c} : chan'[d] = chan[d] /\ hist'[d] = hist[d]
  BY DEF ChannelStartsClosing, StartsClosing, Unclosed, OnlyChannel, TypeOK, ChannelRecords,
     ChannelStates
<1>2. States' = [States EXCEPT ![c] = "closing"] /\ Tolds' = Tolds
  BY <1>1, OthersKept
<1>3. States[c] \in {"connecting", "open"}
  BY <1>1 DEF States
<1>4. QED
  BY <1>2, <1>3 DEF Service!StartClosing, States, Tolds

LEMMA ServiceOpens ==
  ASSUME TypeOK, Shape, AnnouncedWaits, HeardByState, CloserState, NEW c \in Channels,
         ChannelOpens(c), UNCHANGED tstate
  PROVE  Service!Open(c)
<1>1. chan[c].state = "connecting"
  BY OpensWaiting
<1>2. tstate = "connected"
  BY DEF ChannelOpens, CloserState
<1>3. /\ chan'[c].state = "open" /\ hist'[c].heard = Extend(hist[c].heard, "open")
      /\ \A d \in Channels \ {c} : chan'[d] = chan[d] /\ hist'[d] = hist[d]
  BY DEF ChannelOpens, Opens, OnlyChannel
<1>4. hist'[c].heard = Append(hist[c].heard, "open")
  BY <1>1, <1>3, HeardAppended
<1>5. /\ States' = [States EXCEPT ![c] = "open"]
      /\ Tolds' = [Tolds EXCEPT ![c] = Append(@, "open")]
  BY <1>3, <1>4, OthersKept
<1>6. States[c] \in {"none", "connecting"}
  BY <1>1 DEF States
<1>7. QED
  BY <1>2, <1>5, <1>6 DEF Service!Open, States, Tolds

LEMMA ServiceCloses ==
  ASSUME TypeOK, Shape, DroppedClosed, ClosedDropped, NoCloserOverDrop, HeardByState,
         NEW c \in Channels, ChannelCloses(c), UNCHANGED tstate
  PROVE  Service!FinishClosing(c)
<1>1. chan[c].state \in {"connecting", "open", "closing"}
  BY ClosesOnce DEF ChannelCloses, TypeOK, ChannelRecords, ChannelStates
<1>2. /\ chan'[c].state = "closed" /\ hist'[c].heard = Extend(hist[c].heard, "closed")
      /\ \A d \in Channels \ {c} : chan'[d] = chan[d] /\ hist'[d] = hist[d]
  BY DEF ChannelCloses, Closes, OnlyChannel
<1>3. hist'[c].heard = Append(hist[c].heard, "closed")
  BY <1>1, <1>2, HeardAppended
<1>4. /\ States' = [States EXCEPT ![c] = "closed"]
      /\ Tolds' = [Tolds EXCEPT ![c] = Append(@, "closed")]
  BY <1>2, <1>3, OthersKept
<1>5. States[c] \in {"connecting", "open", "closing"}
  BY <1>1 DEF States
<1>6. QED
  BY <1>4, <1>5 DEF Service!FinishClosing, States, Tolds

LEMMA ServiceRegisters ==
  ASSUME NoCreateWhenStopped \subseteq Forbidden, TypeOK, TypeOK', Shape, [Next]_vars,
         HeardByState, NEW c \in Channels, NEW s \in Sids, ChannelRegisters(c, s),
         UNCHANGED tstate
  PROVE  Service!Create(c) \/ Service!Open(c)
<1>1. tstate # "closed"
  BY CreateAllowed DEF Ending
<1>2. /\ chan[c].state = "none"
      /\ \A d \in Channels \ {c} : chan'[d] = chan[d] /\ hist'[d] = hist[d]
  BY DEF ChannelRegisters, Registers, Unused
<1>3. States[c] = "none"
  BY <1>2 DEF States
<1>4. CASE chan'[c].state = "connecting" /\ hist'[c].heard = hist[c].heard
  <2>1. States' = [States EXCEPT ![c] = "connecting"] /\ Tolds' = Tolds
    BY <1>2, <1>4, OthersKept
  <2>2. QED
    BY <1>1, <1>3, <2>1 DEF Service!Create, States, Tolds
<1>5. CASE /\ chan'[c].state = "open" /\ tstate = "connected"
           /\ hist'[c].heard = Extend(hist[c].heard, "open")
  <2>1. hist'[c].heard = Append(hist[c].heard, "open")
    BY <1>2, <1>5, HeardAppended
  <2>2. /\ States' = [States EXCEPT ![c] = "open"]
        /\ Tolds' = [Tolds EXCEPT ![c] = Append(@, "open")]
    BY <1>2, <1>5, <2>1, OthersKept
  <2>3. QED
    BY <1>3, <1>5, <2>2 DEF Service!Open, States, Tolds
<1>6. QED
  BY <1>4, <1>5 DEF ChannelRegisters

LEMMA ServiceTransport ==
  ASSUME TypeOK, Shape, LiveInSlot, DetachedClean,
         Start \/ CloseTransport \/ NotifyConnected \/ \E k \in 0 .. Len(queue) : CommUp(k)
  PROVE  Service!Connect \/ Service!CloseTransport \/ UNCHANGED <<tstate, States, Tolds>>
<1>1. UNCHANGED <<chan, hist>>
  BY StillStep DEF NoChannelChanges
<1>2. UNCHANGED <<States, Tolds>>
  BY <1>1 DEF States, Tolds
<1>3. CASE Start \/ \E k \in 0 .. Len(queue) : CommUp(k)
  <2>1. \/ tstate = "new" /\ tstate' = "connecting"
        \/ tstate = "connecting" /\ tstate' = "connected"
    BY <1>3 DEF Start, CommUp
  <2>2. QED
    BY <1>2, <2>1 DEF Service!Connect, States, Tolds
<1>4. CASE NotifyConnected
  BY <1>2, <1>4 DEF NotifyConnected
<1>5. CASE CloseTransport
  <2>1. Top \in FramesOn(stack) /\ Top.at = "detached" /\ tstate' = "closed"
    BY <1>5, TopOn DEF CloseTransport, At
  <2>2. Filled = {}
    BY <2>1 DEF DetachedClean
  <2>3. ASSUME NEW c \in Channels PROVE chan[c].state \in {"none", "closed"}
    <3>1. chan[c].sid \in Sids /\ c # NoChannel /\ chan[c].state \in ChannelStates
      BY NoChannelAssumption DEF TypeOK, ChannelRecords
    <3>2. ~Live(c)
      BY <2>2, <3>1 DEF LiveInSlot, Filled, Free
    <3>3. QED
      BY <3>1, <3>2 DEF Live, ChannelStates
  <2>4. \A c \in Channels : States[c] \in {"none", "closed"}
    BY <2>3 DEF States
  <2>5. QED
    BY <1>2, <2>1, <2>4 DEF Service!CloseTransport, States, Tolds
<1>6. QED
  BY <1>3, <1>4, <1>5

LEMMA ServiceStep ==
  ASSUME NoCreateWhenStopped \subseteq Forbidden, TypeOK, TypeOK', Shape, [Next]_vars,
         StepCases, DroppedClosed, ClosedDropped, NoCloserOverDrop, HandlerInv, CleanInv,
         CloserState
  PROVE  Service!Next \/ UNCHANGED <<tstate, States, Tolds>>
<1>1. AnnouncedWaits /\ HeardByState /\ LiveInSlot /\ DetachedClean
  BY DEF HandlerInv, CleanInv
<1>2. CASE Start \/ CloseTransport \/ NotifyConnected \/ \E k \in 0 .. Len(queue) : CommUp(k)
  BY <1>1, <1>2, ServiceTransport DEF Service!Next
<1>3. CASE UNCHANGED tstate
  <2>1. ASSUME NEW c \in Channels, ChannelStartsClosing(c)
        PROVE  Service!Next
    BY <1>3, <2>1, ServiceStartsClosing DEF Service!Next
  <2>2. ASSUME NEW c \in Channels, ChannelOpens(c)
        PROVE  Service!Next
    BY <1>1, <1>3, <2>2, ServiceOpens DEF Service!Next
  <2>3. ASSUME NEW c \in Channels, ChannelCloses(c)
        PROVE  Service!Next
    BY <1>1, <1>3, <2>3, ServiceCloses DEF Service!Next
  <2>4. ASSUME NEW c \in Channels, NEW s \in Sids, ChannelRegisters(c, s)
        PROVE  Service!Next
    BY <1>1, <1>3, <2>4, ServiceRegisters DEF Service!Next
  <2>5. CASE \A c \in Channels : Stays(c) \/ DryAsks(c) \/ DryForgets(c)
    <3>1. \A c \in Channels : chan'[c].state = chan[c].state /\ hist'[c].heard = hist[c].heard
      BY <2>5 DEF Stays, DryAsks, DryForgets
    <3>2. QED
      BY <1>3, <3>1 DEF States, Tolds
  <2>6. QED
    BY <2>1, <2>2, <2>3, <2>4, <2>5, EffectLemma DEF Effect
<1>4. QED
  BY <1>2, <1>3, StateStep

(* If the application keeps to the four contracts, the transport implements *)
(* DataChannelService: the application sees the transport connect and close *)
(* in that order, a channel open on a connected transport only, close once, *)
(* and hear of both in that order; and the transport is closed once all its *)
(* channels are (set_state, close_data_channels, channel_register and the   *)
(* handlers of open, close and reset).                                      *)
THEOREM ServiceCorrect ==
  ASSUME NoStopWhileClosing \cup NoCloseWhenAnnounced \cup NoCreateWhenStopped
           \cup NoStopBeforeNotified \subseteq Forbidden
  PROVE  Spec => ServiceSpec
<1>1. Init => Service!Init
  <2>1. SUFFICES ASSUME Init PROVE Service!Init
    OBVIOUS
  <2>2. States = [c \in Channels |-> "none"] /\ Tolds = [c \in Channels |-> <<>>]
    BY <2>1 DEF Init, NewChannel, States, Tolds
  <2>3. tstate = "new"
    BY <2>1 DEF Init
  <2>4. QED
    BY <2>2, <2>3 DEF Service!Init, States, Tolds
<1> DEFINE Inv == /\ TypeOK /\ RegistrySound /\ CoreInv /\ ReleaseInv /\ HandlerInv
                  /\ CleanInv /\ NoticeInv
<1>2. Spec => []Inv
  <2>1. /\ NoStopWhileClosing \subseteq Forbidden
        /\ NoStopWhileClosing \cup NoCloseWhenAnnounced \subseteq Forbidden
        /\ NoCreateWhenStopped \cup NoCloseWhenAnnounced \subseteq Forbidden
        /\ NoStopBeforeNotified \subseteq Forbidden
    OBVIOUS
  <2>2. /\ Spec => []ReleaseInv
        /\ Spec => []HandlerInv
        /\ Spec => []CleanInv
        /\ Spec => []NoticeInv
    BY <2>1, ReleaseCorrect, HandlerCorrect, CleanCorrect, NoticeCorrect
  <2>3. QED
    BY <2>2, TypeCorrect, RegistryCorrect, CoreCorrect, PTL
<1>3. Inv /\ Inv' /\ [Next]_vars => [Service!Next]_(Service!serviceVars)
  <2>1. SUFFICES ASSUME Inv, Inv', [Next]_vars
                 PROVE  [Service!Next]_(Service!serviceVars)
    OBVIOUS
  <2>2. StepCases /\ TypeOK'
    BY <2>1, CoreNext
  <2>3. Service!Next \/ UNCHANGED <<tstate, States, Tolds>>
    BY <2>1, <2>2, ServiceStep DEF CoreInv, ReleaseInv, NoticeInv
  <2>4. QED
    BY <2>3 DEF Service!serviceVars, States, Tolds
<1>4. QED
  BY <1>1, <1>2, <1>3, PTL DEF Spec, ServiceSpec, Service!Spec
==============================================================================
