-------------------------- MODULE HandshakeProofs --------------------------
(***************************************************************************)
(* Theorems about Handshake, for any number of channels, streams and       *)
(* messages, and any parameters.                                           *)
(***************************************************************************)
EXTENDS HandshakeInvariants, FiniteSetTheorems, FunctionTheorems, SequenceTheorems,
        TLAPS

(***************************************************************************)
(* Sequences of items                                                      *)
(***************************************************************************)
LEMMA Member ==
  ASSUME NEW q \in Seq(Items), NEW i \in 1 .. Len(q)
  PROVE  q[i] \in Items /\ q[i] \in Members(q)
BY ElementOfSeq DEF Members

LEMMA MembersAreItems ==
  ASSUME NEW q \in Seq(Items), NEW m \in Members(q)
  PROVE  m \in Items
BY Member DEF Members

LEMMA DataFinite ==
  ASSUME NEW q \in Seq(Items), NEW c
  PROVE  IsFiniteSet(DataOf(q, c)) /\ Count(q, c) \in Nat
<1>1. Len(q) \in Nat
  BY LenProperties
<1>2. IsFiniteSet(1 .. Len(q))
  BY <1>1, FS_Interval
<1>3. DataOf(q, c) \subseteq 1 .. Len(q)
  BY DEF DataOf
<1>4. QED
  BY <1>2, <1>3, FS_Subset, FS_CardinalityType DEF Count

(* Nothing on the wire: no members, no data.                                *)
LEMMA EmptyWire ==
  /\ Members(<<>>) = {}
  /\ \A c : Count(<<>>, c) = 0
<1>1. Members(<<>>) = {}
  BY DEF Members
<1>2. ASSUME NEW c PROVE Count(<<>>, c) = 0
  <2>1. DataOf(<<>>, c) = {}
    BY DEF DataOf
  <2>2. QED
    BY <2>1, FS_EmptySet DEF Count
<1>3. QED
  BY <1>1, <1>2

Units(m, c) == IF m.kind = "data" /\ m.ch = c THEN 1 ELSE 0

LEMMA AddOne ==
  ASSUME NEW q \in Seq(Items), NEW m \in Items
  PROVE  /\ q \o <<m>> \in Seq(Items)
         /\ Members(q \o <<m>>) = Members(q) \cup {m}
         /\ \A a, b : Precedes(q \o <<m>>, a, b) =>
                        Precedes(q, a, b) \/ (a \in Members(q) /\ b = m)
         /\ \A c : Count(q \o <<m>>, c) = Count(q, c) + Units(m, c)
<1> DEFINE r == q \o <<m>>
           n == Len(q)
<1>1. n \in Nat
  BY LenProperties
<1>2. /\ r \in Seq(Items)
      /\ Len(r) = n + 1
      /\ \A i \in 1 .. n : r[i] = q[i]
      /\ r[n + 1] = m
  <2>1. <<m>> \in Seq(Items) /\ Len(<<m>>) = 1 /\ <<m>>[1] = m
    OBVIOUS
  <2>2. /\ r \in Seq(Items)
        /\ Len(r) = n + 1
        /\ \A i \in 1 .. n + 1 : r[i] = IF i <= n THEN q[i] ELSE <<m>>[i - n]
    BY <2>1, ConcatProperties
  <2>3. QED
    BY <1>1, <2>1, <2>2
<1>3. 1 .. n + 1 = (1 .. n) \cup {n + 1} /\ n + 1 \notin 1 .. n
  BY <1>1
<1> HIDE DEF r, n
<1>4. Members(r) = Members(q) \cup {m}
  BY <1>2, <1>3 DEF Members, n
<1>5. ASSUME NEW a, NEW b, Precedes(r, a, b)
      PROVE  Precedes(q, a, b) \/ (a \in Members(q) /\ b = m)
  <2>1. PICK i \in 1 .. n + 1, j \in 1 .. n + 1 : i < j /\ r[i] = a /\ r[j] = b
    BY <1>2, <1>5 DEF Precedes
  <2>2. i \in 1 .. n
    BY <1>1, <2>1
  <2>3. CASE j \in 1 .. n
    BY <1>2, <2>1, <2>2, <2>3 DEF Precedes, n
  <2>4. CASE j = n + 1
    BY <1>2, <2>1, <2>2, <2>4 DEF Members, n
  <2>5. QED
    BY <1>3, <2>3, <2>4
<1>6. ASSUME NEW c PROVE Count(r, c) = Count(q, c) + Units(m, c)
  <2>1. CASE m.kind = "data" /\ m.ch = c
    <3>1. DataOf(r, c) = DataOf(q, c) \cup {n + 1}
      BY <1>2, <1>3, <2>1 DEF DataOf, n
    <3>2. n + 1 \notin DataOf(q, c)
      BY <1>3 DEF DataOf, n
    <3>3. QED
      BY <2>1, <3>1, <3>2, DataFinite, FS_AddElement DEF Count, Units
  <2>2. CASE ~(m.kind = "data" /\ m.ch = c)
    <3>1. DataOf(r, c) = DataOf(q, c)
      BY <1>2, <1>3, <2>2 DEF DataOf, n
    <3>2. QED
      BY <2>2, <3>1, DataFinite DEF Count, Units
  <2>3. QED
    BY <2>1, <2>2
<1>7. QED
  BY <1>2, <1>4, <1>5, <1>6 DEF r

LEMMA RemoveOne ==
  ASSUME NEW q \in Seq(Items), NEW i \in 1 .. Len(q)
  PROVE  /\ RemoveAt(q, i) \in Seq(Items)
         /\ Members(RemoveAt(q, i)) \subseteq Members(q)
         /\ Members(q) \subseteq Members(RemoveAt(q, i)) \cup {q[i]}
         /\ q[i] \in Members(RemoveAt(q, i)) => Precedes(q, q[i], q[i])
         /\ \A a, b : Precedes(RemoveAt(q, i), a, b) => Precedes(q, a, b)
         /\ \A c : Count(RemoveAt(q, i), c) = Count(q, c) - Units(q[i], c)
<1> DEFINE r == RemoveAt(q, i)
           n == Len(q)
           At(j) == IF j < i THEN j ELSE j + 1
<1>1. n \in Nat /\ i \in 1 .. n
  BY LenProperties
<1>2. r \in Seq(Items) /\ Len(r) = n - 1 /\ \A j \in 1 .. n - 1 : r[j] = q[At(j)]
  <2> DEFINE s == SubSeq(q, 1, i - 1)
             t == SubSeq(q, i + 1, n)
  <2>1. s \in Seq(Items) /\ Len(s) = i - 1 /\ \A j \in 1 .. i - 1 : s[j] = q[j]
    <3>1. \A j \in 1 .. i - 1 : q[j] \in Items
      BY <1>1, Member
    <3>2. /\ s \in Seq(Items)
          /\ Len(s) = IF 1 <= i - 1 THEN i - 1 - 1 + 1 ELSE 0
          /\ \A j \in 1 .. i - 1 - 1 + 1 : s[j] = q[1 + j - 1]
      BY <1>1, <3>1, SubSeqProperties
    <3>3. QED
      BY <1>1, <3>2
  <2>2. t \in Seq(Items) /\ Len(t) = n - i /\ \A j \in 1 .. n - i : t[j] = q[i + j]
    <3>1. \A j \in i + 1 .. n : q[j] \in Items
      BY <1>1, Member
    <3>2. /\ t \in Seq(Items)
          /\ Len(t) = IF i + 1 <= n THEN n - (i + 1) + 1 ELSE 0
          /\ \A j \in 1 .. n - (i + 1) + 1 : t[j] = q[i + 1 + j - 1]
      BY <1>1, <3>1, SubSeqProperties
    <3>3. QED
      BY <1>1, <3>2
  <2>3. /\ r \in Seq(Items)
        /\ Len(r) = Len(s) + Len(t)
        /\ \A j \in 1 .. Len(s) + Len(t) : r[j] = IF j <= Len(s) THEN s[j] ELSE t[j - Len(s)]
    BY <2>1, <2>2, ConcatProperties DEF RemoveAt
  <2> HIDE DEF r, s, t, n
  <2>4. Len(r) = n - 1
    BY <1>1, <2>1, <2>2, <2>3
  <2>5. ASSUME NEW j \in 1 .. n - 1, j < i PROVE r[j] = q[j]
    <3>1. j \in 1 .. i - 1 /\ j \in 1 .. Len(s) + Len(t) /\ j <= Len(s)
      BY <1>1, <2>1, <2>2, <2>5
    <3>2. QED
      BY <2>1, <2>3, <3>1
  <2>6. ASSUME NEW j \in 1 .. n - 1, ~(j < i) PROVE r[j] = q[j + 1]
    <3>1. /\ j \in 1 .. Len(s) + Len(t) /\ ~(j <= Len(s))
          /\ j - Len(s) \in 1 .. n - i /\ i + (j - Len(s)) = j + 1
      BY <1>1, <2>1, <2>2, <2>6
    <3>2. QED
      BY <2>2, <2>3, <3>1
  <2>7. QED
    BY <2>3, <2>4, <2>5, <2>6
<1>3. ASSUME NEW j \in 1 .. n - 1 PROVE At(j) \in 1 .. n /\ At(j) # i
  BY <1>1
<1>4. ASSUME NEW k \in 1 .. n, k # i
      PROVE  \E j \in 1 .. n - 1 : At(j) = k
  <2>1. CASE k < i
    <3>1. k \in 1 .. n - 1 /\ At(k) = k
      BY <1>1, <2>1
    <3>2. QED
      BY <3>1
  <2>2. CASE k > i
    <3>1. k - 1 \in 1 .. n - 1 /\ At(k - 1) = k
      BY <1>1, <2>2
    <3>2. QED
      BY <3>1
  <2>3. QED
    BY <1>1, <1>4, <2>1, <2>2
<1>5. \A j, k \in 1 .. n - 1 : j < k => At(j) < At(k)
  BY <1>1
<1>6. \A j, k \in 1 .. n - 1 : At(j) = At(k) => j = k
  BY <1>1
<1> HIDE DEF r, n, At
<1>7. Members(r) \subseteq Members(q)
  BY <1>2, <1>3 DEF Members, n
<1>8. Members(q) \subseteq Members(r) \cup {q[i]}
  <2>1. ASSUME NEW k \in 1 .. n, k # i PROVE q[k] \in Members(r)
    <3>1. PICK j \in 1 .. n - 1 : At(j) = k
      BY <1>4, <2>1
    <3>2. r[j] = q[k] /\ j \in 1 .. Len(r)
      BY <1>2, <3>1
    <3>3. QED
      BY <3>2 DEF Members
  <2>2. QED
    BY <2>1 DEF Members, n
<1>9. ASSUME q[i] \in Members(r) PROVE Precedes(q, q[i], q[i])
  <2>1. PICK j \in 1 .. n - 1 : r[j] = q[i]
    BY <1>2, <1>9 DEF Members
  <2>2. At(j) \in 1 .. n /\ q[At(j)] = q[i] /\ At(j) # i
    BY <1>2, <1>3, <2>1
  <2>3. At(j) < i \/ i < At(j)
    BY <1>1, <2>2
  <2>4. QED
    BY <1>1, <2>2, <2>3 DEF Precedes, n
<1>10. ASSUME NEW a, NEW b, Precedes(r, a, b) PROVE Precedes(q, a, b)
  <2>1. PICK j \in 1 .. n - 1, k \in 1 .. n - 1 : j < k /\ r[j] = a /\ r[k] = b
    BY <1>2, <1>10 DEF Precedes
  <2>2. /\ At(j) \in 1 .. n /\ At(k) \in 1 .. n /\ At(j) < At(k)
        /\ q[At(j)] = a /\ q[At(k)] = b
    BY <1>2, <1>3, <1>5, <2>1
  <2>3. QED
    BY <2>2 DEF Precedes, n
<1>11. ASSUME NEW c PROVE Count(r, c) = Count(q, c) - Units(q[i], c)
  <2> DEFINE D == DataOf(r, c)
             E == DataOf(q, c) \ {i}
             f == [j \in D |-> At(j)]
  <2>1. f \in Bijection(D, E)
    <3>1. \A j \in D : j \in 1 .. n - 1 /\ r[j].kind = "data" /\ r[j].ch = c
      BY <1>2 DEF DataOf
    <3>2. \A j \in D : At(j) \in E
      BY <1>2, <1>3, <3>1 DEF DataOf, n
    <3>3. \A k \in E : k \in 1 .. n /\ k # i /\ q[k].kind = "data" /\ q[k].ch = c
      BY DEF DataOf, n
    <3>4. \A k \in E : \E j \in D : At(j) = k
      <4>1. TAKE k \in E
      <4>2. PICK j \in 1 .. n - 1 : At(j) = k
        BY <1>4, <3>3
      <4>3. r[j] = q[k]
        BY <1>2, <4>2
      <4>4. j \in D
        BY <1>2, <3>3, <4>2, <4>3 DEF DataOf
      <4>5. QED
        BY <4>2, <4>4
    <3> HIDE DEF D, E
    <3>5. f \in [D -> E]
      BY <3>2
    <3>6. \A j, k \in D : f[j] = f[k] => j = k
      BY <1>6, <3>1
    <3>7. \A k \in E : \E j \in D : f[j] = k
      BY <3>4
    <3>8. QED
      BY <3>5, <3>6, <3>7, Fun_IsBij
  <2>2. IsFiniteSet(D) /\ IsFiniteSet(DataOf(q, c)) /\ Cardinality(DataOf(q, c)) \in Nat
    BY <1>2, DataFinite DEF Count
  <2>3. IsFiniteSet(E)
    BY <2>2, FS_Subset
  <2>4. Cardinality(D) = Cardinality(E)
    BY <2>1, <2>2, <2>3, FS_Bijection DEF ExistsBijection
  <2>5. CASE q[i].kind = "data" /\ q[i].ch = c
    <3>1. i \in DataOf(q, c)
      BY <1>1, <2>5 DEF DataOf, n
    <3>2. Cardinality(E) = Cardinality(DataOf(q, c)) - 1
      BY <2>2, <3>1, FS_RemoveElement
    <3>3. Count(r, c) = Count(q, c) - 1
      BY <2>4, <3>2 DEF Count
    <3>4. Units(q[i], c) = 1
      BY <2>5 DEF Units
    <3>5. QED
      BY <3>3, <3>4
  <2>6. CASE ~(q[i].kind = "data" /\ q[i].ch = c)
    <3>1. E = DataOf(q, c)
      BY <2>6 DEF DataOf
    <3>2. Count(r, c) = Count(q, c) /\ Count(q, c) \in Nat
      BY <2>2, <2>4, <3>1 DEF Count
    <3>3. Units(q[i], c) = 0
      BY <2>6 DEF Units
    <3>4. QED
      BY <3>2, <3>3
  <2>7. QED
    BY <2>5, <2>6
<1>12. QED
  BY <1>2, <1>7, <1>8, <1>9, <1>10, <1>11 DEF r

(***************************************************************************)
(* Ends, streams and parameters                                            *)
(***************************************************************************)
LEMMA PeerFacts ==
  ASSUME NEW e \in Ends
  PROVE  /\ Peer(e) \in Ends
         /\ Peer(e) # e
         /\ Peer(Peer(e)) = e
         /\ \A x \in Ends : x = e \/ x = Peer(e)
BY DEF Ends, Peer

LEMMA SidFacts ==
  ASSUME NEW s \in Sids
  PROVE  /\ s \in Nat
         /\ Owner(s) \in Ends
         /\ \A e \in Ends : s \in OwnSids(e) <=> e = Owner(s)
<1>1. s \in Nat
  BY NChannelsAssumption DEF Sids
<1>2. s % 2 \in {0, 1}
  BY <1>1
<1>3. QED
  BY <1>1, <1>2 DEF Owner, Ends, OwnSids

(* The slot a channel is created in is one of the end's own, and free.      *)
LEMMA LowestFree ==
  ASSUME NEW e \in Ends, FreeSids(e) # {}
  PROVE  (CHOOSE s \in FreeSids(e) : \A r \in FreeSids(e) : s <= r) \in FreeSids(e)
<1> DEFINE T == FreeSids(e)
<1>1. T \subseteq Nat /\ T # {}
  BY SidFacts DEF FreeSids, OwnSids
<1>2. PICK s \in T : \A r \in T : <<r, s>> \notin OpToRel(<, Nat)
  BY <1>1, NatLessThanWellFounded, WFMin
<1>3. ASSUME NEW r \in T PROVE s <= r
  <2>1. s \in Nat /\ r \in Nat
    BY <1>1
  <2>2. ~(r < s)
    BY <1>2, <2>1 DEF OpToRel
  <2>3. QED
    BY <2>1, <2>2
<1>4. QED
  BY <1>3

LEMMA CreatedParameters ==
  ASSUME NEW p \in Parameters
  PROVE  Created(p) \in Parameters /\ Created(Created(p)) = Created(p)
BY DEF Parameters, Created

LEMMA ControlItem ==
  ASSUME NEW kind \in Kinds, NEW c \in Channels \cup {NoChannel}, NEW p \in Parameters
  PROVE  /\ Control(kind, c, p) \in Items
         /\ Control(kind, c, p).kind = kind
         /\ Control(kind, c, p).ch = c
         /\ Control(kind, c, p).par = p
         /\ ~Control(kind, c, p).unordered
         /\ ~Control(kind, c, p).lossy
BY DEF Control, Items

LEMMA NoParametersType == NoParameters \in Parameters
BY DEF NoParameters, Parameters

LEMMA ItemFields ==
  ASSUME NEW m \in Items
  PROVE  /\ m.kind \in Kinds
         /\ m.ch \in Channels \cup {NoChannel}
         /\ m.par \in Parameters
         /\ m.unordered \in BOOLEAN
         /\ m.lossy \in BOOLEAN
BY DEF Items

LEMMA RecordFields ==
  ASSUME NEW r \in ChannelRecords
  PROVE  /\ r.state \in ChannelStates
         /\ r.sid \in Sids
         /\ r.par \in Parameters
         /\ r.canUnordered \in BOOLEAN
         /\ r.inReset \in BOOLEAN
         /\ r.outReset \in BOOLEAN
BY DEF ChannelRecords

LEMMA UnknownType == Unknown \in ChannelRecords
BY NoParametersType, NChannelsAssumption DEF Unknown, ChannelRecords, ChannelStates, Sids

LEMMA NewChannelFields ==
  ASSUME NEW s \in Sids, NEW p \in Parameters, NEW u \in BOOLEAN
  PROVE  /\ NewChannel(s, p, u) \in ChannelRecords
         /\ NewChannel(s, p, u).state = "open"
         /\ NewChannel(s, p, u).sid = s
         /\ NewChannel(s, p, u).par = p
         /\ NewChannel(s, p, u).canUnordered = u
         /\ NewChannel(s, p, u).inReset = FALSE
         /\ NewChannel(s, p, u).outReset = FALSE
BY DEF NewChannel, Unknown, ChannelRecords, ChannelStates

LEMMA NoChannelOut == NoChannel \notin Channels
BY DEF NoChannel, Channels

(***************************************************************************)
(* What a step does to one stream                                          *)
(***************************************************************************)
(* What x has under way on s is extended by the items in N.                 *)
Gains(x, s, N) ==
  /\ Members(wire'[x][s]) = Members(wire[x][s]) \cup N
  /\ \A a, b : Precedes(wire'[x][s], a, b) =>
       \/ Precedes(wire[x][s], a, b)
       \/ b \in N /\ (a \in Members(wire[x][s]) \/ (a.kind = "confirm" /\ b.kind = "reset"))
  /\ \A c : Count(wire'[x][s], c) =
              Count(wire[x][s], c) + (IF \E m \in N : Units(m, c) = 1 THEN 1 ELSE 0)

(* The item m of x arrives, or is lost.                                     *)
Loses(x, s, m) ==
  /\ m \in Members(wire[x][s])
  /\ Members(wire'[x][s]) \subseteq Members(wire[x][s])
  /\ Members(wire[x][s]) \subseteq Members(wire'[x][s]) \cup {m}
  /\ m \in Members(wire'[x][s]) => Precedes(wire[x][s], m, m)
  /\ \A a, b : Precedes(wire'[x][s], a, b) => Precedes(wire[x][s], a, b)
  /\ \A c : Count(wire'[x][s], c) = Count(wire[x][s], c) - Units(m, c)

(* Of all channel records and slots only those of e, c and s may change.    *)
Becomes(e, s, c, rec, slot) ==
  /\ \A x \in Ends, d \in Channels :
        chan'[x][d] = IF x = e /\ d = c THEN rec ELSE chan[x][d]
  /\ \A x \in Ends, r \in Sids :
        slots'[x][r] = IF x = e /\ r = s THEN slot ELSE slots[x][r]

Elsewhere(s) == \A x \in Ends, r \in Sids \ {s} : wire'[x][r] = wire[x][r]

LEMMA GainsNothing ==
  ASSUME NEW x \in Ends, NEW s \in Sids, wire[x][s] \in Seq(Items),
         wire'[x][s] = wire[x][s]
  PROVE  Gains(x, s, {})
<1>1. \A c : Count(wire[x][s], c) \in Nat
  BY DataFinite
<1>2. QED
  BY <1>1 DEF Gains

LEMMA GainsOne ==
  ASSUME NEW x \in Ends, NEW s \in Sids, wire[x][s] \in Seq(Items),
         NEW m \in Items, wire'[x][s] = wire[x][s] \o <<m>>
  PROVE  Gains(x, s, {m})
<1>1. \A c : (IF \E n \in {m} : Units(n, c) = 1 THEN 1 ELSE 0) = Units(m, c)
  BY DEF Units
<1>2. QED
  BY <1>1, AddOne DEF Gains

LEMMA GainsTwo ==
  ASSUME NEW x \in Ends, NEW s \in Sids, wire[x][s] \in Seq(Items),
         NEW m \in Items, NEW n \in Items, m.kind = "confirm", n.kind = "reset",
         wire'[x][s] = wire[x][s] \o (<<m>> \o <<n>>)
  PROVE  wire'[x][s] \in Seq(Items) /\ Gains(x, s, {m, n})
<1> DEFINE q == wire[x][s]
           q1 == q \o <<m>>
           q2 == q1 \o <<n>>
<1>1. wire'[x][s] = q2
  <2>1. <<m>> \in Seq(Items) /\ <<n>> \in Seq(Items)
    OBVIOUS
  <2>2. \A a, b, d \in Seq(Items) : (a \o b) \o d = a \o (b \o d)
    BY ConcatAssociative
  <2>3. QED
    BY <2>1, <2>2
<1>2. /\ q1 \in Seq(Items)
      /\ Members(q1) = Members(q) \cup {m}
      /\ \A a, b : Precedes(q1, a, b) => Precedes(q, a, b) \/ (a \in Members(q) /\ b = m)
      /\ \A c : Count(q1, c) = Count(q, c) + Units(m, c)
  BY AddOne
<1> HIDE DEF q1
<1>3. /\ q2 \in Seq(Items)
      /\ Members(q2) = Members(q1) \cup {n}
      /\ \A a, b : Precedes(q2, a, b) => Precedes(q1, a, b) \/ (a \in Members(q1) /\ b = n)
      /\ \A c : Count(q2, c) = Count(q1, c) + Units(n, c)
  BY <1>2, AddOne
<1> HIDE DEF q2
<1>4. \A c : Units(m, c) = 0 /\ Units(n, c) = 0
  BY DEF Units
<1>5. \A c : Count(q2, c) = Count(q, c) /\ Count(q, c) \in Nat
  BY <1>2, <1>3, <1>4, DataFinite
<1>6. \A c : ~\E k \in {m, n} : Units(k, c) = 1
  BY <1>4
<1>7. \A c : Count(q2, c) = Count(q, c) + (IF \E k \in {m, n} : Units(k, c) = 1 THEN 1 ELSE 0)
  BY <1>5, <1>6
<1>8. Members(q2) = Members(q) \cup {m, n}
  BY <1>2, <1>3
<1>9. ASSUME NEW a, NEW b, Precedes(q2, a, b)
      PROVE  \/ Precedes(q, a, b)
             \/ b \in {m, n} /\ (a \in Members(q) \/ (a.kind = "confirm" /\ b.kind = "reset"))
  BY <1>2, <1>3, <1>9
<1>10. QED
  BY <1>1, <1>3, <1>7, <1>8, <1>9 DEF Gains

LEMMA LosesOne ==
  ASSUME NEW x \in Ends, NEW s \in Sids, wire[x][s] \in Seq(Items),
         NEW i \in 1 .. Len(wire[x][s]), wire'[x][s] = RemoveAt(wire[x][s], i)
  PROVE  Loses(x, s, wire[x][s][i])
BY RemoveOne, Member DEF Loses

LEMMA Update ==
  ASSUME NEW A, NEW B, NEW V, NEW f, NEW g, NEW a \in A, NEW b \in B, NEW v \in V,
         f \in [A -> [B -> V]], g = [f EXCEPT ![a][b] = v]
  PROVE  /\ g \in [A -> [B -> V]]
         /\ \A x \in A, y \in B : g[x][y] = IF x = a /\ y = b THEN v ELSE f[x][y]
OBVIOUS

WireType == wire \in [Ends -> [Sids -> Seq(Items)]]

LEMMA Puts ==
  ASSUME TypeOK, NEW e \in Ends, NEW s \in Sids, NEW m \in Items,
         wire' = Sending(e, s, <<m>>)
  PROVE  WireType' /\ Elsewhere(s) /\ Gains(e, s, {m}) /\ Gains(Peer(e), s, {})
<1>1. wire[e][s] \in Seq(Items) /\ wire[Peer(e)][s] \in Seq(Items)
  BY PeerFacts DEF TypeOK
<1> DEFINE q == wire[e][s] \o <<m>>
<1>2. wire' = [wire EXCEPT ![e][s] = q]
  BY DEF Sending
<1>3. q \in Seq(Items)
  BY <1>1, AddOne
<1> HIDE DEF q
<1>4. /\ WireType'
      /\ \A x \in Ends, r \in Sids : wire'[x][r] = IF x = e /\ r = s THEN q ELSE wire[x][r]
  <2>1. wire \in [Ends -> [Sids -> Seq(Items)]]
    BY DEF TypeOK
  <2>2. /\ wire' \in [Ends -> [Sids -> Seq(Items)]]
        /\ \A y \in Ends, r \in Sids : wire'[y][r] = IF y = e /\ r = s THEN q ELSE wire[y][r]
    <3> DEFINE w == [wire[e] EXCEPT ![s] = q]
    <3>1. wire[e] \in [Sids -> Seq(Items)]
      BY <2>1
    <3>2. w \in [Sids -> Seq(Items)] /\ \A r \in Sids : w[r] = IF r = s THEN q ELSE wire[e][r]
      BY <1>3, <3>1
    <3>3. wire' = [wire EXCEPT ![e] = w]
      BY <1>2
    <3> HIDE DEF w
    <3>4. wire' \in [Ends -> [Sids -> Seq(Items)]]
      BY <2>1, <3>2, <3>3
    <3>5. wire'[e] = w /\ \A y \in Ends : y # e => wire'[y] = wire[y]
      BY <2>1, <3>3
    <3>6. QED
      BY <3>2, <3>4, <3>5
  <2>3. QED
    BY <2>2 DEF WireType
<1>5. wire'[e][s] = wire[e][s] \o <<m>> /\ wire'[Peer(e)][s] = wire[Peer(e)][s]
  BY <1>4, PeerFacts DEF q
<1>6. QED
  BY <1>1, <1>4, <1>5, PeerFacts, GainsOne, GainsNothing DEF Elsewhere

LEMMA Takes ==
  ASSUME TypeOK, NEW x \in Ends, NEW s \in Sids, NEW i \in 1 .. Len(wire[x][s]),
         wire' = [wire EXCEPT ![x][s] = RemoveAt(@, i)]
  PROVE  /\ WireType'
         /\ Elsewhere(s)
         /\ Loses(x, s, wire[x][s][i])
         /\ Gains(Peer(x), s, {})
<1>1. wire[x][s] \in Seq(Items) /\ wire[Peer(x)][s] \in Seq(Items)
  BY PeerFacts DEF TypeOK
<1> DEFINE q == RemoveAt(wire[x][s], i)
<1>2. wire' = [wire EXCEPT ![x][s] = q]
  OBVIOUS
<1>3. q \in Seq(Items)
  BY <1>1, RemoveOne
<1> HIDE DEF q
<1>4. /\ WireType'
      /\ \A y \in Ends, r \in Sids : wire'[y][r] = IF y = x /\ r = s THEN q ELSE wire[y][r]
  <2>1. wire \in [Ends -> [Sids -> Seq(Items)]]
    BY DEF TypeOK
  <2>2. /\ wire' \in [Ends -> [Sids -> Seq(Items)]]
        /\ \A y \in Ends, r \in Sids : wire'[y][r] = IF y = x /\ r = s THEN q ELSE wire[y][r]
    BY <1>2, <1>3, <2>1, Update
  <2>3. QED
    BY <2>2 DEF WireType
<1>5. wire'[x][s] = RemoveAt(wire[x][s], i) /\ wire'[Peer(x)][s] = wire[Peer(x)][s]
  BY <1>4, PeerFacts DEF q
<1>6. Elsewhere(s)
  BY <1>4 DEF Elsewhere
<1>7. Gains(Peer(x), s, {})
  BY <1>1, <1>5, PeerFacts, GainsNothing
<1>8. QED
  BY <1>1, <1>4, <1>5, <1>6, <1>7, LosesOne

(* An item arrives at e and is answered by the items q.                     *)
LEMMA Answers ==
  ASSUME TypeOK, NEW e \in Ends, NEW s \in Sids, NEW i \in 1 .. Len(wire[Peer(e)][s]),
         NEW q \in Seq(Items), wire' = Answered(e, s, i, q)
  PROVE  /\ WireType'
         /\ Elsewhere(s)
         /\ Loses(Peer(e), s, wire[Peer(e)][s][i])
         /\ wire[e][s] \in Seq(Items)
         /\ wire'[e][s] = wire[e][s] \o q
<1> DEFINE y == Peer(e)
           w == [wire EXCEPT ![y][s] = RemoveAt(wire[y][s], i)]
<1>1. y \in Ends /\ y # e
  BY PeerFacts
<1>2. wire[e][s] \in Seq(Items) /\ wire[y][s] \in Seq(Items)
  BY <1>1 DEF TypeOK
<1>3. RemoveAt(wire[y][s], i) \in Seq(Items) /\ wire[e][s] \o q \in Seq(Items)
  BY <1>2, RemoveOne, ConcatProperties
<1>4. /\ w \in [Ends -> [Sids -> Seq(Items)]]
      /\ \A x \in Ends, r \in Sids :
            w[x][r] = IF x = y /\ r = s THEN RemoveAt(wire[y][s], i) ELSE wire[x][r]
  BY <1>1, <1>3, Update DEF TypeOK
<1>5. wire' = [w EXCEPT ![e][s] = w[e][s] \o q]
  BY DEF Answered, Handled
<1>6. w[e][s] = wire[e][s]
  BY <1>1, <1>4
<1> HIDE DEF w, y
<1>7. wire' = [w EXCEPT ![e][s] = wire[e][s] \o q]
  BY <1>5, <1>6
<1>8. /\ WireType'
      /\ \A x \in Ends, r \in Sids :
            wire'[x][r] = IF x = e /\ r = s THEN wire[e][s] \o q ELSE w[x][r]
  BY <1>3, <1>4, <1>7, Update DEF WireType
<1>9. wire'[e][s] = wire[e][s] \o q /\ wire'[y][s] = RemoveAt(wire[y][s], i)
  BY <1>1, <1>4, <1>8
<1>10. Elsewhere(s)
  BY <1>4, <1>8 DEF Elsewhere
<1>11. i \in 1 .. Len(wire[y][s])
  BY DEF y
<1>12. Loses(y, s, wire[y][s][i])
  BY <1>1, <1>2, <1>9, <1>11, LosesOne
<1>13. QED
  BY <1>2, <1>8, <1>9, <1>10, <1>12 DEF y

ChanType == chan \in [Ends -> [Channels -> ChannelRecords]]
SlotsType == slots \in [Ends -> [Sids -> Channels \cup {NoChannel}]]

(* The record of a channel and its slot after a step.                       *)
LEMMA Changes ==
  ASSUME TypeOK, NEW e \in Ends, NEW s \in Sids, NEW c \in Channels,
         NEW rec \in ChannelRecords, NEW slot \in Channels \cup {NoChannel},
         chan' = [chan EXCEPT ![e][c] = rec],
         slots' = [slots EXCEPT ![e][s] = slot]
  PROVE  ChanType' /\ SlotsType' /\ Becomes(e, s, c, rec, slot)
<1>1. ChanType' /\ \A x \in Ends, d \in Channels :
                      chan'[x][d] = IF x = e /\ d = c THEN rec ELSE chan[x][d]
  <2>1. chan \in [Ends -> [Channels -> ChannelRecords]]
    BY DEF TypeOK
  <2>2. QED
    BY <2>1, Update DEF ChanType
<1>2. SlotsType' /\ \A x \in Ends, r \in Sids :
                      slots'[x][r] = IF x = e /\ r = s THEN slot ELSE slots[x][r]
  <2>1. slots \in [Ends -> [Sids -> Channels \cup {NoChannel}]]
    BY DEF TypeOK
  <2>2. QED
    BY <2>1, Update DEF SlotsType
<1>3. QED
  BY <1>1, <1>2 DEF Becomes

LEMMA ChangesRecord ==
  ASSUME TypeOK, NEW e \in Ends, NEW s \in Sids, NEW c \in Channels,
         NEW rec \in ChannelRecords,
         chan' = [chan EXCEPT ![e][c] = rec], UNCHANGED slots
  PROVE  ChanType' /\ SlotsType' /\ Becomes(e, s, c, rec, slots[e][s])
<1>1. slots' = [slots EXCEPT ![e][s] = slots[e][s]]
  BY DEF TypeOK
<1>2. slots[e][s] \in Channels \cup {NoChannel}
  BY DEF TypeOK
<1>3. QED
  BY <1>1, <1>2, Changes

LEMMA ChangesNothing ==
  ASSUME TypeOK, NEW e \in Ends, NEW s \in Sids, NEW c,
         UNCHANGED <<chan, slots>>
  PROVE  ChanType' /\ SlotsType' /\ Becomes(e, s, c, chan[e][c], slots[e][s])
BY DEF TypeOK, ChanType, SlotsType, Becomes

LEMMA TypeParts ==
  ASSUME SlotsType', ChanType', WireType',
         sent' \in [Ends -> [Channels -> 0 .. MaxSends]],
         received' \in [Ends -> [Channels -> 0 .. MaxSends]],
         astray' \in SUBSET Channels, refused' \in SUBSET Channels,
         overtaken' \in SUBSET Sids, failed' \in SUBSET Sids
  PROVE  TypeOK'
BY DEF TypeOK, SlotsType, ChanType, WireType

(***************************************************************************)
(* The effect of each action                                               *)
(***************************************************************************)
(* An item that is not stopped by a: it may arrive although a is before it. *)
Passes(m, a) ==
  \/ m.kind = "confirm"
  \/ a.kind = "confirm"
  \/ m.kind # "reset" /\ a.unordered
  \/ a.kind # "reset" /\ m.unordered

Arrival(e, s, m) ==
  /\ m \in Members(wire[Peer(e)][s])
  /\ \A a \in Members(wire[Peer(e)][s]) :
        a = m \/ Precedes(wire[Peer(e)][s], m, a) \/ Passes(m, a)

LEMMA Ahead ==
  ASSUME NEW q \in Seq(Items), NEW i \in 1 .. Len(q), NEW a \in Members(q)
  PROVE  a = q[i] \/ Precedes(q, q[i], a) \/ \E j \in 1 .. i - 1 : q[j] = a
<1>1. PICK j \in 1 .. Len(q) : q[j] = a
  BY DEF Members
<1>2. Len(q) \in Nat
  BY LenProperties
<1>3. j = i \/ i < j \/ j \in 1 .. i - 1
  BY <1>2
<1>4. i < j => Precedes(q, q[i], a)
  BY <1>1 DEF Precedes
<1>5. QED
  BY <1>1, <1>3, <1>4

LEMMA Arriving ==
  ASSUME TypeOK, NEW e \in Ends, NEW s \in Sids, NEW i, NEW kind, Arrives(e, s, i, kind)
  PROVE  /\ i \in 1 .. Len(wire[Peer(e)][s])
         /\ wire[Peer(e)][s][i] \in Items
         /\ wire[Peer(e)][s][i].kind = kind
         /\ Arrival(e, s, wire[Peer(e)][s][i])
<1> DEFINE q == wire[Peer(e)][s]
<1>1. q \in Seq(Items)
  BY PeerFacts DEF TypeOK
<1>2. i \in 1 .. Len(q)
  BY <1>1, LenProperties DEF Arrives
<1>3. q[i] \in Items /\ q[i] \in Members(q)
  BY <1>1, <1>2, Member
<1>4. q[i].kind = kind /\ CanArrive(q, i)
  BY DEF Arrives
<1> HIDE DEF q
<1>5. ASSUME NEW a \in Members(q)
      PROVE  a = q[i] \/ Precedes(q, q[i], a) \/ Passes(q[i], a)
  <2>1. \A j \in 1 .. i - 1 : Passes(q[i], q[j])
    BY <1>4 DEF CanArrive, Passes
  <2>2. QED
    BY <1>1, <1>2, <2>1, Ahead
<1>6. QED
  BY <1>2, <1>3, <1>4, <1>5 DEF q, Arrival

CreateEffect(e, s, c, p) ==
  /\ e = Owner(s)
  /\ slots[e][s] = NoChannel
  /\ \A x \in Ends : ~Known(x, c)
  /\ Elsewhere(s)
  /\ Gains(e, s, {OpenMessage(c, Created(p))})
  /\ Gains(Peer(e), s, {})
  /\ Becomes(e, s, c, NewChannel(s, Created(p), FALSE), c)
  /\ UNCHANGED history

SendEffect(e, s, c) ==
  /\ On(e, c, s)
  /\ chan[e][c].state = "open"
  /\ Elsewhere(s)
  /\ Gains(e, s, {Data(e, c)})
  /\ Gains(Peer(e), s, {})
  /\ Becomes(e, s, c, chan[e][c], slots[e][s])
  /\ sent' = [sent EXCEPT ![e][c] = @ + 1]
  /\ UNCHANGED <<received, astray, refused, overtaken, failed>>

CloseEffect(e, s, c) ==
  /\ On(e, c, s)
  /\ chan[e][c].state = "open"
  /\ Elsewhere(s)
  /\ Gains(e, s, {Control("reset", c, NoParameters)})
  /\ Gains(Peer(e), s, {})
  /\ Becomes(e, s, c, [chan[e][c] EXCEPT !.state = "closing"], slots[e][s])
  /\ UNCHANGED history

AcceptEffect(e, s, m) ==
  /\ m.kind = "open"
  /\ Arrival(e, s, m)
  /\ e # Owner(s)
  /\ slots[e][s] = NoChannel
  /\ Elsewhere(s)
  /\ Gains(e, s, {Control("ack", m.ch, NoParameters)})
  /\ Loses(Peer(e), s, m)
  /\ Becomes(e, s, m.ch, NewChannel(s, Created(m.par), TRUE), m.ch)
  /\ overtaken \subseteq overtaken'
  /\ UNCHANGED <<sent, received, astray, refused, failed>>

RefuseEffect(e, s, m) ==
  /\ m.kind = "open"
  /\ Arrival(e, s, m)
  /\ e = Owner(s) \/ slots[e][s] # NoChannel
  /\ Elsewhere(s)
  /\ Gains(e, s, {})
  /\ Loses(Peer(e), s, m)
  /\ Becomes(e, s, NoChannel, chan[e][NoChannel], slots[e][s])
  /\ refused' = refused \cup {m.ch}
  /\ overtaken \subseteq overtaken'
  /\ \A a \in Members(wire[Peer(e)][s]) :
        a.kind = "confirm" => Precedes(wire[Peer(e)][s], m, a) \/ s \in overtaken'
  /\ UNCHANGED <<sent, received, astray, failed>>

AckEffect(e, s, m) ==
  /\ m.kind = "ack"
  /\ Arrival(e, s, m)
  /\ Elsewhere(s)
  /\ Gains(e, s, {})
  /\ Loses(Peer(e), s, m)
  /\ Becomes(e, s, slots[e][s],
             [chan[e][slots[e][s]] EXCEPT !.canUnordered = TRUE], slots[e][s])
  /\ UNCHANGED history

DataEffect(e, s, m) ==
  /\ m.kind = "data"
  /\ Arrival(e, s, m)
  /\ Elsewhere(s)
  /\ Gains(e, s, {})
  /\ Loses(Peer(e), s, m)
  /\ Becomes(e, s, slots[e][s],
             [chan[e][slots[e][s]] EXCEPT !.canUnordered = TRUE], slots[e][s])
  /\ IF slots[e][s] = m.ch
     THEN received' = [received EXCEPT ![e][m.ch] = @ + 1] /\ UNCHANGED astray
     ELSE astray' = astray \cup {m.ch} /\ UNCHANGED received
  /\ UNCHANGED <<sent, refused, overtaken, failed>>

(* The record and the slot of a channel whose flags have become those of r. *)
Left(r) == IF BothReset(r) THEN [r EXCEPT !.state = "closed"] ELSE r
LeftSlot(r, c) == IF BothReset(r) THEN NoChannel ELSE c

Confirm == Control("confirm", NoChannel, NoParameters)

StrayResetEffect(e, s, m) ==
  /\ m.kind = "reset"
  /\ Arrival(e, s, m)
  /\ slots[e][s] = NoChannel
  /\ Elsewhere(s)
  /\ Gains(e, s, {Confirm})
  /\ Loses(Peer(e), s, m)
  /\ Becomes(e, s, NoChannel, chan[e][NoChannel], slots[e][s])
  /\ UNCHANGED history

ResetEffect(e, s, m, c) ==
  LET r == WithIn(chan[e][c])
  IN  /\ m.kind = "reset"
      /\ Arrival(e, s, m)
      /\ c = slots[e][s] /\ c # NoChannel
      /\ chan[e][c].state \in {"closing", "closed"}
      /\ Elsewhere(s)
      /\ Gains(e, s, {Confirm})
      /\ Loses(Peer(e), s, m)
      /\ Becomes(e, s, c, Left(r), LeftSlot(r, c))
      /\ UNCHANGED history

AnsweredEffect(e, s, m, c) ==
  LET r == [WithIn(chan[e][c]) EXCEPT !.state = "closing"]
  IN  /\ m.kind = "reset"
      /\ Arrival(e, s, m)
      /\ c = slots[e][s] /\ c # NoChannel
      /\ chan[e][c].state \notin {"closing", "closed"}
      /\ Elsewhere(s)
      /\ Gains(e, s, {Confirm, Control("reset", c, NoParameters)})
      /\ Loses(Peer(e), s, m)
      /\ Becomes(e, s, c, Left(r), LeftSlot(r, c))
      /\ UNCHANGED history

StrayConfirmEffect(e, s, m) ==
  /\ m.kind = "confirm"
  /\ Arrival(e, s, m)
  /\ slots[e][s] = NoChannel
  /\ Elsewhere(s)
  /\ Gains(e, s, {})
  /\ Loses(Peer(e), s, m)
  /\ Becomes(e, s, NoChannel, chan[e][NoChannel], slots[e][s])
  /\ UNCHANGED history

ConfirmEffect(e, s, m, c) ==
  LET r == WithOut(chan[e][c])
  IN  /\ m.kind = "confirm"
      /\ Arrival(e, s, m)
      /\ c = slots[e][s] /\ c # NoChannel
      /\ Elsewhere(s)
      /\ Gains(e, s, {})
      /\ Loses(Peer(e), s, m)
      /\ Becomes(e, s, c, Left(r), LeftSlot(r, c))
      /\ UNCHANGED history

LoseEffect(e, s, m) ==
  /\ m.lossy
  /\ Elsewhere(s)
  /\ Gains(Peer(e), s, {})
  /\ Loses(e, s, m)
  /\ Becomes(e, s, NoChannel, chan[e][NoChannel], slots[e][s])
  /\ UNCHANGED history

(* A failure: nothing more is said about s, but other streams are left alone. *)
FailEffect(e, s, c, rec, slot) ==
  /\ Fails(s)
  /\ Elsewhere(s)
  /\ Becomes(e, s, c, rec, slot)
  /\ c \in Channels => On(e, c, s) /\ rec.sid = s /\ rec.state # "none"
  /\ slot \in {slots[e][s], NoChannel}
  /\ \/ Gains(e, s, {}) \/ Gains(e, s, {Confirm})
     \/ \E m \in Items : Loses(e, s, m) /\ m.kind # "data"
  /\ \/ Gains(Peer(e), s, {})
     \/ \E m \in Items : Loses(Peer(e), s, m) /\ m.kind # "data"
  /\ overtaken \subseteq overtaken'
  /\ UNCHANGED <<sent, received, astray, refused>>

LEMMA CreateStep ==
  ASSUME TypeOK, NEW e \in Ends, NEW c \in Channels, NEW p \in Asked, Create(e, c, p)
  PROVE  TypeOK' /\ \E s \in Sids : CreateEffect(e, s, c, p)
<1> DEFINE S == CHOOSE s \in FreeSids(e) : \A r \in FreeSids(e) : s <= r
<1>1. S \in FreeSids(e)
  BY LowestFree DEF Create
<1>2. PICK s \in FreeSids(e) : s = S
  BY <1>1
<1>3. s \in Sids /\ e = Owner(s) /\ slots[e][s] = NoChannel
  <2>1. s \in Sids /\ s \in OwnSids(e) /\ slots[e][s] = NoChannel
    BY DEF FreeSids, OwnSids
  <2>2. QED
    BY <2>1, SidFacts
<1>4. /\ slots' = [slots EXCEPT ![e][s] = c]
      /\ chan' = [chan EXCEPT ![e][c] = OpenerContext(s, Created(p))]
      /\ wire' = Sending(e, s, <<OpenMessage(c, Created(p))>>)
  BY <1>2 DEF Create
<1> HIDE DEF S
<1>5. Created(p) \in Parameters
  BY AskedAssumption, CreatedParameters
<1>6. OpenMessage(c, Created(p)) \in Items
  BY <1>5, ControlItem DEF OpenMessage, Kinds
<1>7. WireType' /\ Elsewhere(s) /\ Gains(e, s, {OpenMessage(c, Created(p))}) /\ Gains(Peer(e), s, {})
  BY <1>3, <1>4, <1>6, Puts
<1>8. NewChannel(s, Created(p), FALSE) \in ChannelRecords
  BY <1>3, <1>5, NewChannelFields
<1>9. ChanType' /\ SlotsType' /\ Becomes(e, s, c, NewChannel(s, Created(p), FALSE), c)
  BY <1>3, <1>4, <1>8, Changes DEF OpenerContext
<1>10. \A x \in Ends : ~Known(x, c)
  <2>1. c \in Nat
    BY BoundsAssumption DEF Channels
  <2>2. ~(c < c)
    BY <2>1
  <2>3. QED
    BY <2>2 DEF Create, IsNext, Known
<1>11. UNCHANGED history
  BY DEF Create
<1>12. TypeOK'
  BY <1>7, <1>9, <1>11, TypeParts DEF TypeOK, history
<1>13. QED
  BY <1>3, <1>7, <1>9, <1>10, <1>11, <1>12 DEF CreateEffect

LEMMA DataItem ==
  ASSUME TypeOK, NEW e \in Ends, NEW c \in Channels
  PROVE  /\ Data(e, c) \in Items
         /\ Data(e, c).kind = "data"
         /\ Data(e, c).ch = c
         /\ Data(e, c).unordered = (chan[e][c].par.unordered /\ chan[e][c].canUnordered)
         /\ Data(e, c).lossy = (chan[e][c].par.policy # "reliable")
<1>1. chan[e][c] \in ChannelRecords
  BY DEF TypeOK
<1>2. chan[e][c].par.unordered \in BOOLEAN /\ chan[e][c].canUnordered \in BOOLEAN
  BY <1>1, RecordFields DEF Parameters
<1> DEFINE u == chan[e][c].par.unordered /\ chan[e][c].canUnordered
           l == chan[e][c].par.policy # "reliable"
<1>3. u \in BOOLEAN /\ l \in BOOLEAN
  BY <1>2
<1>4. Data(e, c) = [Control("data", c, NoParameters) EXCEPT !.unordered = u, !.lossy = l]
  BY DEF Data
<1> HIDE DEF u, l
<1>5. /\ Control("data", c, NoParameters) \in Items
      /\ Control("data", c, NoParameters).kind = "data"
      /\ Control("data", c, NoParameters).ch = c
  BY ControlItem, NoParametersType DEF Kinds
<1>6. /\ Data(e, c) \in Items
      /\ Data(e, c).kind = "data"
      /\ Data(e, c).ch = c
      /\ Data(e, c).unordered = u
      /\ Data(e, c).lossy = l
  BY <1>3, <1>4, <1>5 DEF Items
<1>7. QED
  BY <1>6 DEF u, l

LEMMA Slot ==
  ASSUME TypeOK, Base, NEW e \in Ends, NEW s \in Sids, slots[e][s] # NoChannel
  PROVE  slots[e][s] \in Channels /\ On(e, slots[e][s], s)
BY DEF TypeOK, Base, Occupied

LEMMA Sid ==
  ASSUME TypeOK, NEW e \in Ends, NEW c \in Channels
  PROVE  chan[e][c] \in ChannelRecords /\ chan[e][c].sid \in Sids
<1>1. chan[e][c] \in ChannelRecords
  BY DEF TypeOK
<1>2. QED
  BY <1>1, RecordFields

LEMMA SendStep ==
  ASSUME TypeOK, NEW e \in Ends, NEW c \in Channels, Send(e, c)
  PROVE  TypeOK' /\ \E s \in Sids : SendEffect(e, s, c)
<1>1. PICK s \in Sids : s = chan[e][c].sid
  BY Sid
<1>2. On(e, c, s) /\ chan[e][c].state = "open"
  BY <1>1 DEF Send, On, Known
<1>3. Elsewhere(s) /\ WireType' /\ Gains(e, s, {Data(e, c)}) /\ Gains(Peer(e), s, {})
  BY <1>1, DataItem, Puts DEF Send
<1>4. ChanType' /\ SlotsType' /\ Becomes(e, s, c, chan[e][c], slots[e][s])
  BY ChangesNothing DEF Send
<1>5. sent' \in [Ends -> [Channels -> 0 .. MaxSends]]
  <2>1. /\ sent \in [Ends -> [Channels -> 0 .. MaxSends]]
        /\ sent' = [sent EXCEPT ![e][c] = sent[e][c] + 1]
        /\ sent[e][c] + sent[Peer(e)][c] < MaxSends
    BY DEF Send, TypeOK
  <2>2. sent[e][c] \in 0 .. MaxSends /\ sent[Peer(e)][c] \in 0 .. MaxSends
    BY <2>1, PeerFacts
  <2>3. sent[e][c] + 1 \in 0 .. MaxSends
    BY <2>1, <2>2, BoundsAssumption
  <2>4. QED
    BY <2>1, <2>3
<1>6. TypeOK'
  BY <1>3, <1>4, <1>5, TypeParts DEF TypeOK, Send
<1>7. QED
  BY <1>2, <1>3, <1>4, <1>6 DEF SendEffect, Send

LEMMA ResetItem ==
  ASSUME NEW c \in Channels
  PROVE  /\ Control("reset", c, NoParameters) \in Items
         /\ Control("reset", c, NoParameters).kind = "reset"
         /\ Control("reset", c, NoParameters).ch = c
         /\ ~Control("reset", c, NoParameters).unordered
         /\ ~Control("reset", c, NoParameters).lossy
BY ControlItem, NoParametersType DEF Kinds

LEMMA ConfirmItem ==
  /\ Confirm \in Items
  /\ Confirm.kind = "confirm"
  /\ ~Confirm.unordered
  /\ ~Confirm.lossy
BY ControlItem, NoParametersType DEF Kinds, Confirm

LEMMA StateSet ==
  ASSUME NEW r \in ChannelRecords, NEW st \in ChannelStates
  PROVE  /\ [r EXCEPT !.state = st] \in ChannelRecords
         /\ [r EXCEPT !.state = st].state = st
         /\ [r EXCEPT !.state = st].sid = r.sid
         /\ [r EXCEPT !.state = st].par = r.par
         /\ [r EXCEPT !.state = st].canUnordered = r.canUnordered
         /\ [r EXCEPT !.state = st].inReset = r.inReset
         /\ [r EXCEPT !.state = st].outReset = r.outReset
BY DEF ChannelRecords

LEMMA PermissionSet ==
  ASSUME NEW r \in ChannelRecords
  PROVE  /\ [r EXCEPT !.canUnordered = TRUE] \in ChannelRecords
         /\ [r EXCEPT !.canUnordered = TRUE].state = r.state
         /\ [r EXCEPT !.canUnordered = TRUE].sid = r.sid
         /\ [r EXCEPT !.canUnordered = TRUE].par = r.par
         /\ [r EXCEPT !.canUnordered = TRUE].inReset = r.inReset
         /\ [r EXCEPT !.canUnordered = TRUE].outReset = r.outReset
BY DEF ChannelRecords

LEMMA FlagSet ==
  ASSUME NEW r \in ChannelRecords
  PROVE  /\ WithIn(r) \in ChannelRecords
         /\ WithIn(r).state = r.state
         /\ WithIn(r).sid = r.sid
         /\ WithIn(r).par = r.par
         /\ WithIn(r).canUnordered = r.canUnordered
         /\ WithIn(r).inReset = TRUE
         /\ WithIn(r).outReset = r.outReset
         /\ WithOut(r) \in ChannelRecords
         /\ WithOut(r).state = r.state
         /\ WithOut(r).sid = r.sid
         /\ WithOut(r).par = r.par
         /\ WithOut(r).canUnordered = r.canUnordered
         /\ WithOut(r).inReset = r.inReset
         /\ WithOut(r).outReset = TRUE
BY DEF ChannelRecords, WithIn, WithOut

LEMMA LeftRecord ==
  ASSUME NEW r \in ChannelRecords
  PROVE  /\ Left(r) \in ChannelRecords
         /\ Left(r).state = IF r.inReset /\ r.outReset THEN "closed" ELSE r.state
         /\ Left(r).sid = r.sid
         /\ Left(r).par = r.par
         /\ Left(r).canUnordered = r.canUnordered
         /\ Left(r).inReset = r.inReset
         /\ Left(r).outReset = r.outReset
         /\ \A c : LeftSlot(r, c) = IF r.inReset /\ r.outReset THEN NoChannel ELSE c
<1>1. "closed" \in ChannelStates
  BY DEF ChannelStates
<1>2. QED
  BY <1>1, StateSet DEF Left, LeftSlot, BothReset

LEMMA CloseStep ==
  ASSUME TypeOK, NEW e \in Ends, NEW c \in Channels, Close(e, c)
  PROVE  TypeOK' /\ \E s \in Sids : CloseEffect(e, s, c)
<1>1. PICK s \in Sids : s = chan[e][c].sid
  BY Sid
<1>2. On(e, c, s) /\ chan[e][c].state = "open"
  BY <1>1 DEF Close, On, Known
<1>3. /\ WireType' /\ Elsewhere(s)
      /\ Gains(e, s, {Control("reset", c, NoParameters)}) /\ Gains(Peer(e), s, {})
  BY <1>1, ResetItem, Puts DEF Close
<1> DEFINE rec == [chan[e][c] EXCEPT !.state = "closing"]
<1>4. rec \in ChannelRecords
  BY Sid, StateSet DEF ChannelStates
<1>5. chan' = [chan EXCEPT ![e][c] = rec] /\ UNCHANGED slots
  BY DEF Close
<1> HIDE DEF rec
<1>6. ChanType' /\ SlotsType' /\ Becomes(e, s, c, rec, slots[e][s])
  BY <1>4, <1>5, ChangesRecord
<1>7. UNCHANGED history
  BY DEF Close, history
<1>8. TypeOK'
  BY <1>3, <1>6, <1>7, TypeParts DEF TypeOK, history
<1>9. QED
  BY <1>2, <1>3, <1>6, <1>7, <1>8 DEF CloseEffect, rec

(* Nothing but the wire changes.                                            *)
LEMMA OnlyTheWire ==
  ASSUME TypeOK, WireType', NEW e \in Ends, NEW s \in Sids, NEW c,
         UNCHANGED <<slots, chan, sent, received>>,
         astray' \in SUBSET Channels, refused' \in SUBSET Channels,
         overtaken' \in SUBSET Sids, failed' \in SUBSET Sids
  PROVE  TypeOK' /\ Becomes(e, s, c, chan[e][c], slots[e][s])
<1>1. ChanType' /\ SlotsType' /\ Becomes(e, s, c, chan[e][c], slots[e][s])
  BY ChangesNothing
<1>2. TypeOK'
  BY <1>1, TypeParts DEF TypeOK
<1>3. QED
  BY <1>1, <1>2

LEMMA ArrivalTakes ==
  ASSUME TypeOK, NEW e \in Ends, NEW s \in Sids, NEW i, NEW kind, Arrives(e, s, i, kind),
         wire' = Handled(e, s, i)
  PROVE  /\ WireType'
         /\ Elsewhere(s)
         /\ Gains(e, s, {})
         /\ Loses(Peer(e), s, wire[Peer(e)][s][i])
<1>1. i \in 1 .. Len(wire[Peer(e)][s])
  BY Arriving
<1>2. Peer(e) \in Ends /\ Peer(Peer(e)) = e
  BY PeerFacts
<1>3. QED
  BY <1>1, <1>2, Takes DEF Handled

LEMMA ArrivalAnswered ==
  ASSUME TypeOK, NEW e \in Ends, NEW s \in Sids, NEW i, NEW kind, Arrives(e, s, i, kind),
         NEW n \in Items, wire' = Answered(e, s, i, <<n>>)
  PROVE  /\ WireType'
         /\ Elsewhere(s)
         /\ Gains(e, s, {n})
         /\ Loses(Peer(e), s, wire[Peer(e)][s][i])
<1>1. i \in 1 .. Len(wire[Peer(e)][s])
  BY Arriving
<1>2. <<n>> \in Seq(Items)
  OBVIOUS
<1>3. /\ WireType' /\ Elsewhere(s) /\ Loses(Peer(e), s, wire[Peer(e)][s][i])
      /\ wire[e][s] \in Seq(Items) /\ wire'[e][s] = wire[e][s] \o <<n>>
  BY <1>1, <1>2, Answers
<1>4. QED
  BY <1>3, GainsOne

Accepts(e, s, i, m) ==
  /\ Acceptable(e, s)
  /\ slots' = [slots EXCEPT ![e][s] = m.ch]
  /\ chan' = [chan EXCEPT ![e][m.ch] = NewChannel(s, Created(m.par), TRUE)]
  /\ wire' = Answered(e, s, i, <<Control("ack", m.ch, NoParameters)>>)
  /\ UNCHANGED <<refused, failed>>

LEMMA OpenStep ==
  ASSUME TypeOK, Base, NEW e \in Ends, NEW s \in Sids, NEW i, ReceiveOpen(e, s, i)
  PROVE  /\ TypeOK'
         /\ \E m \in Items :
               \/ AcceptEffect(e, s, m)
               \/ RefuseEffect(e, s, m)
               \/ FailEffect(e, s, NoChannel, chan[e][NoChannel], slots[e][s])
<1>1. Arrives(e, s, i, "open")
  BY DEF ReceiveOpen
<1>2. PICK m \in Items : m = wire[Peer(e)][s][i]
  BY <1>1, Arriving
<1>3. m.kind = "open" /\ Arrival(e, s, m)
  BY <1>1, <1>2, Arriving
<1>4. m.ch \in Channels /\ m.par \in Parameters
  <2>1. m \in Members(wire[Peer(e)][s])
    BY <1>3 DEF Arrival
  <2>2. QED
    BY <1>3, <2>1, ItemFields, PeerFacts DEF Base, Addressed
<1>5. /\ overtaken' = IF Overtakes(e, s, i) THEN overtaken \cup {s} ELSE overtaken
      /\ UNCHANGED <<sent, received, astray>>
  BY DEF ReceiveOpen
<1>6. overtaken \subseteq overtaken' /\ overtaken' \in SUBSET Sids
  BY <1>5 DEF TypeOK
<1>7. \/ Accepts(e, s, i, m)
      \/ /\ ~Acceptable(e, s)
         /\ refused' = refused \cup {m.ch}
         /\ wire' = Handled(e, s, i)
         /\ UNCHANGED <<slots, chan, failed>>
      \/ /\ Fails(s)
         /\ wire' = Handled(e, s, i)
         /\ UNCHANGED <<slots, chan, refused>>
  BY <1>2 DEF ReceiveOpen, Accepts
<1>8. CASE Accepts(e, s, i, m)
  <2>1. Control("ack", m.ch, NoParameters) \in Items
    BY <1>4, ControlItem, NoParametersType DEF Kinds
  <2>2. /\ WireType' /\ Elsewhere(s) /\ Loses(Peer(e), s, m)
        /\ Gains(e, s, {Control("ack", m.ch, NoParameters)})
    BY <1>1, <1>2, <1>8, <2>1, ArrivalAnswered DEF Accepts
  <2>3. NewChannel(s, Created(m.par), TRUE) \in ChannelRecords
    BY <1>4, CreatedParameters, NewChannelFields
  <2>4. ChanType' /\ SlotsType' /\ Becomes(e, s, m.ch, NewChannel(s, Created(m.par), TRUE), m.ch)
    BY <1>4, <1>8, <2>3, Changes DEF Accepts
  <2>5. TypeOK'
    BY <1>5, <1>6, <1>8, <2>2, <2>4, TypeParts DEF TypeOK, Accepts
  <2>6. e # Owner(s) /\ slots[e][s] = NoChannel
    BY <1>8, SidFacts DEF Accepts, Acceptable
  <2>7. AcceptEffect(e, s, m)
    BY <1>3, <1>5, <1>6, <1>8, <2>2, <2>4, <2>6 DEF AcceptEffect, Accepts
  <2>8. QED
    BY <2>5, <2>7
<1>9. CASE /\ ~Acceptable(e, s)
           /\ refused' = refused \cup {m.ch}
           /\ wire' = Handled(e, s, i)
           /\ UNCHANGED <<slots, chan, failed>>
  <2>1. WireType' /\ Elsewhere(s) /\ Gains(e, s, {}) /\ Loses(Peer(e), s, m)
    BY <1>1, <1>2, <1>9, ArrivalTakes
  <2>2. refused' \in SUBSET Channels /\ astray' \in SUBSET Channels /\ failed' \in SUBSET Sids
    BY <1>4, <1>5, <1>9 DEF TypeOK
  <2>3. TypeOK' /\ Becomes(e, s, NoChannel, chan[e][NoChannel], slots[e][s])
    BY <1>5, <1>6, <1>9, <2>1, <2>2, OnlyTheWire
  <2>4. e = Owner(s) \/ slots[e][s] # NoChannel
    BY <1>9, SidFacts DEF Acceptable
  <2>5. ASSUME NEW a \in Members(wire[Peer(e)][s]), a.kind = "confirm"
        PROVE  Precedes(wire[Peer(e)][s], m, a) \/ s \in overtaken'
    <3>1. CASE \E j \in 1 .. i - 1 : wire[Peer(e)][s][j] = a
      <4>1. Overtakes(e, s, i)
        BY <2>5, <3>1 DEF Overtakes
      <4>2. QED
        BY <1>5, <4>1
    <3>2. a # m
      BY <1>3, <2>5
    <3>3. wire[Peer(e)][s] \in Seq(Items) /\ i \in 1 .. Len(wire[Peer(e)][s])
      BY <1>1, Arriving, PeerFacts DEF TypeOK
    <3>4. \/ a = m
          \/ Precedes(wire[Peer(e)][s], m, a)
          \/ \E j \in 1 .. i - 1 : wire[Peer(e)][s][j] = a
      BY <1>2, <3>3, Ahead
    <3>5. QED
      BY <3>1, <3>2, <3>4
  <2>6. RefuseEffect(e, s, m)
    BY <1>3, <1>5, <1>6, <1>9, <2>1, <2>3, <2>4, <2>5 DEF RefuseEffect
  <2>7. QED
    BY <2>3, <2>6
<1>10. CASE /\ Fails(s)
            /\ wire' = Handled(e, s, i)
            /\ UNCHANGED <<slots, chan, refused>>
  <2>1. WireType' /\ Elsewhere(s) /\ Gains(e, s, {}) /\ Loses(Peer(e), s, m)
    BY <1>1, <1>2, <1>10, ArrivalTakes
  <2>2. refused' \in SUBSET Channels /\ astray' \in SUBSET Channels /\ failed' \in SUBSET Sids
    BY <1>5, <1>10 DEF TypeOK, Fails
  <2>3. TypeOK' /\ Becomes(e, s, NoChannel, chan[e][NoChannel], slots[e][s])
    BY <1>5, <1>6, <1>10, <2>1, <2>2, OnlyTheWire
  <2>4. FailEffect(e, s, NoChannel, chan[e][NoChannel], slots[e][s])
    BY <1>3, <1>5, <1>6, <1>10, <2>1, <2>3, NoChannelOut DEF FailEffect
  <2>5. QED
    BY <2>3, <2>4
<1>11. QED
  BY <1>7, <1>8, <1>9, <1>10

LEMMA AckStep ==
  ASSUME TypeOK, Base, NEW e \in Ends, NEW s \in Sids, NEW i, ReceiveAck(e, s, i)
  PROVE  TypeOK' /\ \E m \in Items : AckEffect(e, s, m)
<1>1. Arrives(e, s, i, "ack")
  BY DEF ReceiveAck
<1>2. PICK m \in Items : m = wire[Peer(e)][s][i]
  BY <1>1, Arriving
<1>3. m.kind = "ack" /\ Arrival(e, s, m)
  BY <1>1, <1>2, Arriving
<1>4. WireType' /\ Elsewhere(s) /\ Gains(e, s, {}) /\ Loses(Peer(e), s, m)
  BY <1>1, <1>2, ArrivalTakes DEF ReceiveAck
<1> DEFINE c == slots[e][s]
           rec == [chan[e][c] EXCEPT !.canUnordered = TRUE]
<1>5. ChanType' /\ SlotsType' /\ Becomes(e, s, c, rec, slots[e][s])
  <2>1. CASE c = NoChannel
    <3>1. ChanType' /\ SlotsType' /\ Becomes(e, s, c, chan[e][c], slots[e][s])
      BY <2>1, ChangesNothing DEF ReceiveAck
    <3>2. QED
      BY <2>1, <3>1, NoChannelOut DEF Becomes
  <2>2. CASE c # NoChannel
    <3>1. c \in Channels
      BY <2>2, Slot
    <3>2. rec \in ChannelRecords
      BY <3>1, Sid, PermissionSet
    <3>3. chan' = [chan EXCEPT ![e][c] = rec] /\ UNCHANGED slots
      BY <2>2 DEF ReceiveAck
    <3> HIDE DEF c, rec
    <3>4. QED
      BY <3>1, <3>2, <3>3, ChangesRecord
  <2>3. QED
    BY <2>1, <2>2
<1>6. UNCHANGED history
  BY DEF ReceiveAck
<1> HIDE DEF rec
<1>7. TypeOK'
  BY <1>4, <1>5, <1>6, TypeParts DEF TypeOK, history
<1>8. QED
  BY <1>3, <1>4, <1>5, <1>6, <1>7 DEF AckEffect, rec

LEMMA DataStep ==
  ASSUME TypeOK, Base, NEW e \in Ends, NEW s \in Sids, NEW i, ReceiveData(e, s, i)
  PROVE  TypeOK' /\ \E m \in Items : DataEffect(e, s, m)
<1>1. Arrives(e, s, i, "data")
  BY DEF ReceiveData
<1>2. PICK m \in Items : m = wire[Peer(e)][s][i]
  BY <1>1, Arriving
<1>3. m.kind = "data" /\ Arrival(e, s, m)
  BY <1>1, <1>2, Arriving
<1>4. WireType' /\ Elsewhere(s) /\ Gains(e, s, {}) /\ Loses(Peer(e), s, m)
  BY <1>1, <1>2, ArrivalTakes DEF ReceiveData
<1>5. /\ Peer(e) \in Ends /\ Peer(Peer(e)) = e
      /\ m.ch \in Channels /\ On(Peer(e), m.ch, s)
  <2>1. m \in Members(wire[Peer(e)][s]) /\ Peer(e) \in Ends
    BY <1>3, PeerFacts DEF Arrival
  <2>2. QED
    BY <1>3, <2>1, PeerFacts DEF Base, Addressed
<1>6. IF slots[e][s] = m.ch
      THEN received' = [received EXCEPT ![e][m.ch] = @ + 1] /\ UNCHANGED astray
      ELSE astray' = astray \cup {m.ch} /\ UNCHANGED received
  BY <1>2 DEF ReceiveData
<1> DEFINE c == slots[e][s]
           rec == [chan[e][c] EXCEPT !.canUnordered = TRUE]
<1>7. ChanType' /\ SlotsType' /\ Becomes(e, s, c, rec, slots[e][s])
  <2>1. CASE c = NoChannel
    <3>1. ChanType' /\ SlotsType' /\ Becomes(e, s, c, chan[e][c], slots[e][s])
      BY <2>1, ChangesNothing DEF ReceiveData
    <3>2. QED
      BY <2>1, <3>1, NoChannelOut DEF Becomes
  <2>2. CASE c # NoChannel
    <3>1. c \in Channels
      BY <2>2, Slot
    <3>2. rec \in ChannelRecords
      BY <3>1, Sid, PermissionSet
    <3>3. chan' = [chan EXCEPT ![e][c] = rec] /\ UNCHANGED slots
      BY <2>2 DEF ReceiveData
    <3> HIDE DEF c, rec
    <3>4. QED
      BY <3>1, <3>2, <3>3, ChangesRecord
  <2>3. QED
    BY <2>1, <2>2
<1> HIDE DEF rec
<1>8. received' \in [Ends -> [Channels -> 0 .. MaxSends]]
  <2>1. received \in [Ends -> [Channels -> 0 .. MaxSends]] /\ sent \in [Ends -> [Channels -> 0 .. MaxSends]]
    BY DEF TypeOK
  <2>2. received[e][m.ch] \in 0 .. MaxSends /\ sent[Peer(e)][m.ch] \in 0 .. MaxSends
    BY <1>5, <2>1
  <2>3. received[e][m.ch] + Count(wire[Peer(e)][s], m.ch) <= sent[Peer(e)][m.ch]
    BY <1>5 DEF Base, Bounded, On
  <2>4. Count(wire[Peer(e)][s], m.ch) \in Nat /\ Count(wire'[Peer(e)][s], m.ch) \in Nat
    BY <1>4, <1>5, DataFinite DEF TypeOK, WireType
  <2>5. Count(wire'[Peer(e)][s], m.ch) = Count(wire[Peer(e)][s], m.ch) - 1
    BY <1>3, <1>4 DEF Loses, Units
  <2>6. received[e][m.ch] + 1 \in 0 .. MaxSends
    BY <2>2, <2>3, <2>4, <2>5, BoundsAssumption
  <2>7. CASE slots[e][s] = m.ch
    <3>1. received' = [received EXCEPT ![e][m.ch] = received[e][m.ch] + 1]
      BY <1>6, <2>7
    <3>2. QED
      BY <1>5, <2>1, <2>6, <3>1, Update
  <2>8. CASE slots[e][s] # m.ch
    BY <1>6, <2>1, <2>8
  <2>9. QED
    BY <2>7, <2>8
<1>9. astray' \in SUBSET Channels
  BY <1>5, <1>6 DEF TypeOK
<1>10. UNCHANGED <<sent, refused, overtaken, failed>>
  BY DEF ReceiveData
<1>11. TypeOK'
  BY <1>4, <1>7, <1>8, <1>9, <1>10, TypeParts DEF TypeOK
<1>12. QED
  BY <1>3, <1>4, <1>6, <1>7, <1>10, <1>11 DEF DataEffect, rec

LEMMA NotedChanges ==
  ASSUME TypeOK, Base, NEW e \in Ends, NEW s \in Sids, NEW r \in ChannelRecords,
         slots[e][s] # NoChannel, Noted(e, s, r)
  PROVE  /\ ChanType' /\ SlotsType'
         /\ Becomes(e, s, slots[e][s], Left(r), LeftSlot(r, slots[e][s]))
<1> DEFINE c == slots[e][s]
<1>1. c \in Channels
  BY Slot
<1>2. chan' = [chan EXCEPT ![e][c] = Left(r)]
  BY DEF Noted, Left
<1>3. slots' = [slots EXCEPT ![e][s] = LeftSlot(r, c)]
  BY DEF Noted, LeftSlot, TypeOK
<1>4. Left(r) \in ChannelRecords /\ LeftSlot(r, c) \in Channels \cup {NoChannel}
  BY <1>1, LeftRecord
<1> HIDE DEF c
<1>5. ChanType' /\ SlotsType' /\ Becomes(e, s, c, Left(r), LeftSlot(r, c))
  BY <1>1, <1>2, <1>3, <1>4, Changes
<1>6. QED
  BY <1>5 DEF c

LEMMA ResetStep ==
  ASSUME TypeOK, Base, NEW e \in Ends, NEW s \in Sids, NEW i, ReceiveReset(e, s, i)
  PROVE  /\ TypeOK'
         /\ \E m \in Items :
               \/ StrayResetEffect(e, s, m)
               \/ ResetEffect(e, s, m, slots[e][s])
               \/ AnsweredEffect(e, s, m, slots[e][s])
               \/ \E rec : FailEffect(e, s, slots[e][s], rec, NoChannel)
<1>1. Arrives(e, s, i, "reset")
  BY DEF ReceiveReset
<1>2. PICK m \in Items : m = wire[Peer(e)][s][i]
  BY <1>1, Arriving
<1>3. m.kind = "reset" /\ Arrival(e, s, m)
  BY <1>1, <1>2, Arriving
<1>4. UNCHANGED <<sent, received, astray, refused, overtaken>>
  BY DEF ReceiveReset
<1> DEFINE c == slots[e][s]
           r == WithIn(chan[e][c])
           r2 == [r EXCEPT !.state = "closing"]
           r3 == [r EXCEPT !.state = "closed"]
<1>5. Confirmation = <<Confirm>>
  BY DEF Confirmation, Confirm
<1>6. wire' = Answered(e, s, i, <<Confirm>>) =>
        WireType' /\ Elsewhere(s) /\ Gains(e, s, {Confirm}) /\ Loses(Peer(e), s, m)
  BY <1>1, <1>2, ConfirmItem, ArrivalAnswered
<1>7. c # NoChannel => c \in Channels /\ On(e, c, s) /\ chan[e][c] \in ChannelRecords
  BY Slot, Sid
<1>8. c # NoChannel =>
        r \in ChannelRecords /\ r2 \in ChannelRecords /\ r3 \in ChannelRecords /\ r3.sid = s
  <2>1. SUFFICES ASSUME c # NoChannel
                 PROVE  r \in ChannelRecords /\ r2 \in ChannelRecords /\ r3 \in ChannelRecords /\ r3.sid = s
    OBVIOUS
  <2>2. chan[e][c] \in ChannelRecords /\ chan[e][c].sid = s
    BY <1>7, <2>1 DEF On
  <2>3. r \in ChannelRecords /\ r.sid = s
    BY <2>2, FlagSet
  <2> HIDE DEF r
  <2>4. QED
    BY <2>3, StateSet DEF ChannelStates
<1>9. CASE /\ c = NoChannel
           /\ wire' = Answered(e, s, i, Confirmation)
           /\ UNCHANGED <<slots, chan, failed>>
  <2>1. WireType' /\ Elsewhere(s) /\ Gains(e, s, {Confirm}) /\ Loses(Peer(e), s, m)
    BY <1>5, <1>6, <1>9
  <2>2. TypeOK' /\ Becomes(e, s, NoChannel, chan[e][NoChannel], slots[e][s])
    BY <1>4, <1>9, <2>1, OnlyTheWire DEF TypeOK
  <2>3. StrayResetEffect(e, s, m)
    BY <1>3, <1>4, <1>9, <2>1, <2>2 DEF StrayResetEffect, history
  <2>4. QED
    BY <2>2, <2>3
<1>10. CASE /\ c # NoChannel
            /\ ~MustAnswer(chan[e][c])
            /\ wire' = Answered(e, s, i, Confirmation)
            /\ Noted(e, s, r)
            /\ UNCHANGED failed
  <2>1. WireType' /\ Elsewhere(s) /\ Gains(e, s, {Confirm}) /\ Loses(Peer(e), s, m)
    BY <1>5, <1>6, <1>10
  <2>2. ChanType' /\ SlotsType' /\ Becomes(e, s, c, Left(r), LeftSlot(r, c))
    BY <1>8, <1>10, NotedChanges
  <2>3. TypeOK'
    BY <1>4, <1>10, <2>1, <2>2, TypeParts DEF TypeOK
  <2>4. chan[e][c].state \in {"closing", "closed"}
    BY <1>10 DEF MustAnswer
  <2>5. ResetEffect(e, s, m, c)
    BY <1>3, <1>4, <1>10, <2>1, <2>2, <2>4 DEF ResetEffect, history
  <2>6. QED
    BY <2>3, <2>5
<1>11. CASE /\ c # NoChannel
            /\ MustAnswer(chan[e][c])
            /\ wire' = Answered(e, s, i, Confirmation \o <<Control("reset", c, NoParameters)>>)
            /\ Noted(e, s, r2)
            /\ UNCHANGED failed
  <2>1. PICK n \in Items : n = Control("reset", c, NoParameters) /\ n.kind = "reset"
    BY <1>7, <1>11, ResetItem
  <2>2. i \in 1 .. Len(wire[Peer(e)][s])
    BY <1>1, Arriving
  <2>3. <<Confirm>> \o <<n>> \in Seq(Items)
    BY ConfirmItem
  <2>4. wire' = Answered(e, s, i, <<Confirm>> \o <<n>>)
    BY <1>5, <1>11, <2>1
  <2>5. /\ WireType' /\ Elsewhere(s) /\ Loses(Peer(e), s, m)
        /\ wire[e][s] \in Seq(Items) /\ wire'[e][s] = wire[e][s] \o (<<Confirm>> \o <<n>>)
    BY <1>2, <2>2, <2>3, <2>4, Answers
  <2>6. Gains(e, s, {Confirm, n})
    BY <2>1, <2>5, ConfirmItem, GainsTwo
  <2>7. ChanType' /\ SlotsType' /\ Becomes(e, s, c, Left(r2), LeftSlot(r2, c))
    BY <1>8, <1>11, NotedChanges
  <2>8. TypeOK'
    BY <1>4, <1>11, <2>5, <2>7, TypeParts DEF TypeOK
  <2>9. chan[e][c].state \notin {"closing", "closed"}
    BY <1>11 DEF MustAnswer
  <2>10. AnsweredEffect(e, s, m, c)
    BY <1>3, <1>4, <1>11, <2>1, <2>5, <2>6, <2>7, <2>9 DEF AnsweredEffect, history
  <2>11. QED
    BY <2>8, <2>10
<1>12. CASE /\ Fails(s)
            /\ c # NoChannel
            /\ MustAnswer(chan[e][c])
            /\ wire' = Answered(e, s, i, Confirmation)
            /\ chan' = [chan EXCEPT ![e][c] = r3]
            /\ slots' = [slots EXCEPT ![e][s] = NoChannel]
  <2>1. WireType' /\ Elsewhere(s) /\ Gains(e, s, {Confirm}) /\ Loses(Peer(e), s, m)
    BY <1>5, <1>6, <1>12
  <2>2. r3 \in ChannelRecords /\ r3.sid = s /\ c \in Channels /\ On(e, c, s) /\ r3.state = "closed"
    BY <1>7, <1>8, <1>12, FlagSet, StateSet DEF ChannelStates
  <2>3. chan' = [chan EXCEPT ![e][c] = r3] /\ slots' = [slots EXCEPT ![e][s] = NoChannel]
    BY <1>12
  <2> HIDE DEF c, r3
  <2>4. ChanType' /\ SlotsType' /\ Becomes(e, s, c, r3, NoChannel)
    BY <2>2, <2>3, Changes
  <2>5. failed' \in SUBSET Sids
    BY <1>12 DEF Fails
  <2>6. TypeOK'
    BY <1>4, <2>1, <2>4, <2>5, TypeParts DEF TypeOK
  <2>7. FailEffect(e, s, c, r3, NoChannel)
    BY <1>2, <1>3, <1>4, <1>12, <2>1, <2>2, <2>4 DEF FailEffect
  <2>8. QED
    BY <2>6, <2>7 DEF c
<1>13. QED
  BY <1>9, <1>10, <1>11, <1>12 DEF ReceiveReset

LEMMA ConfirmationStep ==
  ASSUME TypeOK, Base, NEW e \in Ends, NEW s \in Sids, NEW i, ReceiveConfirmation(e, s, i)
  PROVE  /\ TypeOK'
         /\ \E m \in Items :
               StrayConfirmEffect(e, s, m) \/ ConfirmEffect(e, s, m, slots[e][s])
<1>1. Arrives(e, s, i, "confirm")
  BY DEF ReceiveConfirmation
<1>2. PICK m \in Items : m = wire[Peer(e)][s][i]
  BY <1>1, Arriving
<1>3. m.kind = "confirm" /\ Arrival(e, s, m)
  BY <1>1, <1>2, Arriving
<1>4. WireType' /\ Elsewhere(s) /\ Gains(e, s, {}) /\ Loses(Peer(e), s, m)
  BY <1>1, <1>2, ArrivalTakes DEF ReceiveConfirmation
<1>5. UNCHANGED history
  BY DEF ReceiveConfirmation
<1>6. CASE slots[e][s] = NoChannel
  <2>1. UNCHANGED <<slots, chan>>
    BY <1>6 DEF ReceiveConfirmation
  <2>2. TypeOK' /\ Becomes(e, s, NoChannel, chan[e][NoChannel], slots[e][s])
    BY <1>4, <1>5, <2>1, OnlyTheWire DEF TypeOK, history
  <2>3. StrayConfirmEffect(e, s, m)
    BY <1>3, <1>4, <1>5, <1>6, <2>2 DEF StrayConfirmEffect
  <2>4. QED
    BY <2>2, <2>3
<1>7. CASE slots[e][s] # NoChannel
  <2> DEFINE c == slots[e][s]
             r == WithOut(chan[e][c])
  <2>1. r \in ChannelRecords
    BY <1>7, Slot, Sid, FlagSet
  <2>2. Noted(e, s, r)
    BY <1>7 DEF ReceiveConfirmation
  <2>3. ChanType' /\ SlotsType' /\ Becomes(e, s, c, Left(r), LeftSlot(r, c))
    BY <1>7, <2>1, <2>2, NotedChanges
  <2>4. TypeOK'
    BY <1>4, <1>5, <2>3, TypeParts DEF TypeOK, history
  <2>5. ConfirmEffect(e, s, m, c)
    BY <1>3, <1>4, <1>5, <1>7, <2>3 DEF ConfirmEffect
  <2>6. QED
    BY <2>4, <2>5
<1>8. QED
  BY <1>6, <1>7

LEMMA DenyStep ==
  ASSUME TypeOK, NEW e \in Ends, NEW s \in Sids, NEW i, DenyReset(e, s, i)
  PROVE  TypeOK' /\ FailEffect(e, s, NoChannel, chan[e][NoChannel], slots[e][s])
<1>1. Arrives(e, s, i, "reset")
  BY DEF DenyReset
<1>2. PICK m \in Items : m = wire[Peer(e)][s][i] /\ m.kind = "reset"
  BY <1>1, Arriving
<1>3. WireType' /\ Elsewhere(s) /\ Gains(e, s, {}) /\ Loses(Peer(e), s, m)
  BY <1>1, <1>2, ArrivalTakes DEF DenyReset
<1>4. failed' \in SUBSET Sids /\ astray' \in SUBSET Channels /\ refused' \in SUBSET Channels
      /\ overtaken' \in SUBSET Sids
  BY DEF DenyReset, Fails, TypeOK
<1>5. TypeOK' /\ Becomes(e, s, NoChannel, chan[e][NoChannel], slots[e][s])
  BY <1>3, <1>4, OnlyTheWire DEF DenyReset
<1>6. QED
  BY <1>2, <1>3, <1>5, NoChannelOut DEF FailEffect, DenyReset

LEMMA CloseImproperlyStep ==
  ASSUME TypeOK, NEW e \in Ends, NEW c \in Channels, CloseImproperly(e, c)
  PROVE  TypeOK' /\ \E s \in Sids : \E rec : FailEffect(e, s, c, rec, NoChannel)
<1>1. PICK s \in Sids : s = chan[e][c].sid
  BY Sid
<1> DEFINE rec == [chan[e][c] EXCEPT !.state = "closed"]
<1>2. /\ Fails(s)
      /\ chan[e][c].state \in {"open", "closing"}
      /\ chan' = [chan EXCEPT ![e][c] = rec]
      /\ slots' = [slots EXCEPT ![e][s] = NoChannel]
      /\ UNCHANGED <<sent, received, astray, refused, overtaken>>
  BY <1>1 DEF CloseImproperly
<1>3. On(e, c, s)
  BY <1>1, <1>2 DEF On, Known
<1>4. rec \in ChannelRecords /\ rec.sid = s /\ rec.state = "closed"
  BY <1>1, Sid, StateSet DEF ChannelStates
<1> HIDE DEF rec
<1>5. ChanType' /\ SlotsType' /\ Becomes(e, s, c, rec, NoChannel)
  BY <1>2, <1>4, Changes
<1>6. /\ WireType' /\ Elsewhere(s) /\ Gains(Peer(e), s, {})
      /\ Gains(e, s, {}) \/ \E m \in Items : Loses(e, s, m) /\ m.kind # "data"
  <2>1. wire[e][s] \in Seq(Items) /\ wire[Peer(e)][s] \in Seq(Items) /\ Peer(e) \in Ends
    BY PeerFacts DEF TypeOK
  <2>2. CASE UNCHANGED wire
    <3>1. WireType' /\ Elsewhere(s)
      BY <2>2 DEF TypeOK, WireType, Elsewhere
    <3>2. Gains(e, s, {}) /\ Gains(Peer(e), s, {})
      BY <2>1, <2>2, GainsNothing
    <3>3. QED
      BY <3>1, <3>2
  <2>3. ASSUME NEW i \in DOMAIN wire[e][s], wire[e][s][i] = Control("reset", c, NoParameters),
               wire' = [wire EXCEPT ![e][s] = RemoveAt(@, i)]
        PROVE  /\ WireType' /\ Elsewhere(s) /\ Gains(Peer(e), s, {})
               /\ \E m \in Items : Loses(e, s, m) /\ m.kind # "data"
    <3>1. i \in 1 .. Len(wire[e][s])
      BY <2>1, <2>3, LenProperties
    <3>2. WireType' /\ Elsewhere(s) /\ Gains(Peer(e), s, {}) /\ Loses(e, s, wire[e][s][i])
      BY <2>3, <3>1, Takes
    <3>3. wire[e][s][i] \in Items /\ wire[e][s][i].kind # "data"
      BY <2>3, ResetItem
    <3>4. QED
      BY <3>2, <3>3
  <2>4. QED
    BY <1>1, <2>2, <2>3 DEF CloseImproperly
<1>7. failed' \in SUBSET Sids
  BY <1>2 DEF Fails
<1>8. TypeOK'
  BY <1>2, <1>5, <1>6, <1>7, TypeParts DEF TypeOK
<1>9. FailEffect(e, s, c, rec, NoChannel)
  BY <1>2, <1>3, <1>4, <1>5, <1>6 DEF FailEffect
<1>10. QED
  BY <1>8, <1>9

LEMMA LoseStep ==
  ASSUME TypeOK, NEW e \in Ends, NEW s \in Sids, NEW i, Lose(e, s, i)
  PROVE  TypeOK' /\ \E m \in Items : LoseEffect(e, s, m)
<1>1. wire[e][s] \in Seq(Items)
  BY DEF TypeOK
<1>2. i \in 1 .. Len(wire[e][s])
  BY <1>1, LenProperties DEF Lose
<1>3. PICK m \in Items : m = wire[e][s][i]
  BY <1>1, <1>2, Member
<1>4. WireType' /\ Elsewhere(s) /\ Gains(Peer(e), s, {}) /\ Loses(e, s, m)
  BY <1>2, <1>3, Takes DEF Lose
<1>5. UNCHANGED <<slots, chan, history>>
  BY DEF Lose
<1>6. TypeOK' /\ Becomes(e, s, NoChannel, chan[e][NoChannel], slots[e][s])
  BY <1>4, <1>5, OnlyTheWire DEF TypeOK, history
<1>7. QED
  BY <1>3, <1>4, <1>5, <1>6 DEF Lose, LoseEffect

(***************************************************************************)
(* A step is about one stream s, and about one channel c at one end e of   *)
(* it, if any.                                                             *)
(***************************************************************************)
(* New items of x on s are of c, and lost ones need not be.                 *)
Moves(x, e, s, c) ==
  \/ \E N \in SUBSET Items :
        /\ Gains(x, s, N)
        /\ \A m \in N :
              /\ m.kind # "confirm" => x = e /\ m.ch = c /\ c \in Channels
              /\ m.kind = "open" => x = Owner(s)
              /\ m.kind # "data" => ~m.unordered /\ ~m.lossy
  \/ \E m \in Items : Loses(x, s, m)

Altered(e, s, c) ==
  \E rec, slot :
     /\ Becomes(e, s, c, rec, slot)
     /\ slot \in {slots[e][s], NoChannel, c}
     /\ c \in Channels => rec.sid = s /\ rec.state # "none"

Concerns(e, s, c) ==
  \/ On(e, c, s)
  \/ e = Owner(s) /\ ~Known(e, c) /\ ~Known(Peer(e), c)
  \/ e # Owner(s) /\ On(Peer(e), c, s)

Local(e, s, c) ==
  /\ Elsewhere(s)
  /\ Altered(e, s, c)
  /\ c \in Channels => Concerns(e, s, c)
  /\ \A x \in Ends : Moves(x, e, s, c)
  /\ \A x \in Ends, d \in Channels :
        (d # c \/ (~Known(x, c) /\ x = Peer(e))) =>
           sent'[x][d] = sent[x][d] /\ received'[Peer(x)][d] = received[Peer(x)][d]
  /\ c \in Channels =>
        \A x \in Ends :
           received'[Peer(x)][c] + Count(wire'[x][s], c) + sent[x][c] <=
             received[Peer(x)][c] + Count(wire[x][s], c) + sent'[x][c]

LEMMA Numbers ==
  ASSUME TypeOK
  PROVE  \A x \in Ends, d \in Channels :
            /\ sent[x][d] \in 0 .. MaxSends /\ sent[x][d] \in Nat
            /\ received[x][d] \in 0 .. MaxSends /\ received[x][d] \in Nat
<1>1. \A x \in Ends, d \in Channels : sent[x][d] \in 0 .. MaxSends /\ received[x][d] \in 0 .. MaxSends
  BY DEF TypeOK
<1>2. 0 .. MaxSends \subseteq Nat
  BY BoundsAssumption
<1>3. QED
  BY <1>1, <1>2

LEMMA Counts ==
  ASSUME TypeOK
  PROVE  \A x \in Ends, s \in Sids : \A d : Count(wire[x][s], d) \in Nat
BY DataFinite DEF TypeOK

(* An end that has nothing of c under way has no data of c under way.       *)
LEMMA NoData ==
  ASSUME NEW q \in Seq(Items), NEW c, \A m \in Members(q) : m.kind = "data" => m.ch # c
  PROVE  Count(q, c) = 0
<1>1. DataOf(q, c) = {}
  BY DEF DataOf, Members
<1>2. QED
  BY <1>1, FS_EmptySet DEF Count

LEMMA OfOtherChannels ==
  ASSUME TypeOK, NEW x \in Ends, NEW e \in Ends, NEW s \in Sids, NEW c, NEW d \in Channels, d # c,
         Moves(x, e, s, c)
  PROVE  Count(wire'[x][s], d) <= Count(wire[x][s], d)
<1>1. Count(wire[x][s], d) \in Nat
  BY Counts
<1>2. CASE \E m : Loses(x, s, m)
  <2>1. PICK m : Count(wire'[x][s], d) = Count(wire[x][s], d) - Units(m, d)
    BY <1>2 DEF Loses
  <2>2. Units(m, d) \in {0, 1}
    BY DEF Units
  <2>3. QED
    BY <1>1, <2>1, <2>2
<1>3. CASE \E N \in SUBSET Items : Gains(x, s, N) /\ \A m \in N : m.kind # "confirm" => m.ch = c
  <2>1. PICK N \in SUBSET Items : Gains(x, s, N) /\ \A m \in N : m.kind # "confirm" => m.ch = c
    BY <1>3
  <2>2. \A m \in N : Units(m, d) = 0
    BY <2>1 DEF Units
  <2>3. ~\E m \in N : Units(m, d) = 1
    BY <2>2
  <2>4. Count(wire'[x][s], d) = Count(wire[x][s], d) + 0
    BY <2>1, <2>3 DEF Gains
  <2>5. QED
    BY <1>1, <2>4
<1>4. QED
  BY <1>2, <1>3 DEF Moves

(* The channel of a step is of its stream.                                  *)
LEMMA LocalChannel ==
  ASSUME TypeOK, Base, NEW e \in Ends, NEW s \in Sids, NEW c \in Channels, Local(e, s, c)
  PROVE  /\ On(e, c, s)'
         /\ \A x \in Ends : Known(x, c) => On(x, c, s)
         /\ On(Owner(s), c, s)'
         /\ chan'[Peer(e)][c] = chan[Peer(e)][c]
<1>1. PICK rec, slot : Becomes(e, s, c, rec, slot) /\ rec.sid = s /\ rec.state # "none"
  <2>1. Altered(e, s, c)
    BY DEF Local
  <2>2. QED
    BY <2>1 DEF Altered
<1>2. chan'[e][c] = rec /\ chan'[Peer(e)][c] = chan[Peer(e)][c]
  BY <1>1, PeerFacts DEF Becomes
<1>3. On(e, c, s)'
  BY <1>1, <1>2 DEF On, Known
<1>4. ASSUME On(e, c, s)
      PROVE  On(Owner(s), c, s) /\ (Known(Peer(e), c) => On(Peer(e), c, s))
  BY <1>4 DEF Base, OneStream, On
<1>5. ASSUME On(Peer(e), c, s), Known(e, c)
      PROVE  On(e, c, s)
  BY <1>5, PeerFacts DEF Base, OneStream, On
<1>6. \/ On(e, c, s)
      \/ e = Owner(s) /\ ~Known(e, c) /\ ~Known(Peer(e), c)
      \/ e # Owner(s) /\ On(Peer(e), c, s)
  <2>1. Concerns(e, s, c)
    BY DEF Local
  <2>2. QED
    BY <2>1 DEF Concerns
<1>7. \A x \in Ends : Known(x, c) => On(x, c, s)
  BY <1>4, <1>5, <1>6, PeerFacts DEF On
<1>8. Owner(s) = e \/ Owner(s) = Peer(e)
  BY PeerFacts, SidFacts
<1>9. Owner(s) = Peer(e) => On(Peer(e), c, s)
  BY <1>4, <1>6, PeerFacts
<1>10. Owner(s) = Peer(e) => On(Peer(e), c, s)'
  BY <1>2, <1>9 DEF On, Known
<1>11. On(Owner(s), c, s)'
  BY <1>3, <1>8, <1>10
<1>12. QED
  BY <1>2, <1>3, <1>7, <1>11

LEMMA LocalElsewhere ==
  ASSUME NEW e \in Ends, NEW s \in Sids, NEW c, Local(e, s, c)
  PROVE  /\ \A x \in Ends, d \in Channels : d # c =>
               /\ chan'[x][d] = chan[x][d]
               /\ sent'[x][d] = sent[x][d]
               /\ received'[x][d] = received[x][d]
         /\ \A x \in Ends, r \in Sids : r # s =>
               wire'[x][r] = wire[x][r] /\ slots'[x][r] = slots[x][r]
         /\ \A x \in Ends : slots'[x][s] # slots[x][s] => x = e /\ slots'[x][s] \in {NoChannel, c}
<1>1. PICK rec, slot : Becomes(e, s, c, rec, slot) /\ slot \in {slots[e][s], NoChannel, c}
  BY DEF Local, Altered
<1>2. \A x \in Ends, d \in Channels : d # c => chan'[x][d] = chan[x][d]
  BY <1>1 DEF Becomes
<1>3. \A x \in Ends, r \in Sids :
         slots'[x][r] = IF x = e /\ r = s THEN slot ELSE slots[x][r]
  BY <1>1 DEF Becomes
<1>4. \A x \in Ends, r \in Sids : r # s => wire'[x][r] = wire[x][r]
  BY DEF Local, Elsewhere
<1>5. \A x \in Ends, d \in Channels : d # c =>
        sent'[x][d] = sent[x][d] /\ received'[Peer(x)][d] = received[Peer(x)][d]
  BY DEF Local
<1>6. \A x \in Ends, d \in Channels : d # c => received'[x][d] = received[x][d]
  BY <1>5, PeerFacts
<1>7. QED
  BY <1>1, <1>2, <1>3, <1>4, <1>5, <1>6

LEMMA OnForGood ==
  ASSUME TypeOK, Base, NEW e \in Ends, NEW s \in Sids, NEW c, Local(e, s, c)
  PROVE  \A x \in Ends, d \in Channels, r \in Sids : On(x, d, r) => On(x, d, r)'
<1>1. TAKE x \in Ends, d \in Channels, r \in Sids
<1>2. HAVE On(x, d, r)
<1>3. CASE d # c
  BY <1>2, <1>3, LocalElsewhere DEF On, Known
<1>4. CASE d = c
  <2>1. On(x, c, s)
    BY <1>2, <1>4, LocalChannel DEF On
  <2>2. r = s
    BY <1>2, <1>4, <2>1 DEF On
  <2>3. CASE x = e
    BY <1>4, <2>2, <2>3, LocalChannel
  <2>4. CASE x = Peer(e)
    <3>1. chan'[Peer(e)][c] = chan[Peer(e)][c]
      BY <1>4, LocalChannel
    <3>2. QED
      BY <1>2, <1>4, <2>4, <3>1 DEF On, Known
  <2>5. QED
    BY <2>3, <2>4, PeerFacts
<1>5. QED
  BY <1>3, <1>4

LEMMA LocalBase ==
  ASSUME TypeOK, TypeOK', Base, NEW e \in Ends, NEW s \in Sids, NEW c, Local(e, s, c)
  PROVE  Base'
<1>0. Peer(e) \in Ends /\ Peer(e) # e /\ Peer(Peer(e)) = e
  BY PeerFacts
<1>1. Fresh'
  <2>1. SUFFICES ASSUME NEW x \in Ends, NEW d \in Channels, ~Known(x, d)'
                 PROVE  /\ chan'[x][d] = Unknown
                        /\ sent'[x][d] = 0
                        /\ received'[Peer(x)][d] = 0
    BY DEF Fresh
  <2>2. CASE d # c
    <3>1. ~Known(x, d)
      BY <2>1, <2>2, LocalElsewhere DEF Known
    <3>2. chan[x][d] = Unknown /\ sent[x][d] = 0 /\ received[Peer(x)][d] = 0
      BY <3>1 DEF Base, Fresh
    <3>3. Peer(x) \in Ends
      BY PeerFacts
    <3>4. QED
      BY <2>2, <3>2, <3>3, LocalElsewhere
  <2>3. CASE d = c
    <3>1. x = Peer(e)
      BY <2>1, <2>3, LocalChannel, PeerFacts DEF On, Known
    <3>2. chan'[x][d] = chan[x][d]
      BY <2>3, <3>1, LocalChannel
    <3>3. ~Known(x, c)
      BY <2>1, <2>3, <3>2 DEF Known
    <3>4. chan[x][d] = Unknown /\ sent[x][d] = 0 /\ received[Peer(x)][d] = 0
      BY <2>3, <3>3 DEF Base, Fresh
    <3>5. sent'[x][d] = sent[x][d] /\ received'[Peer(x)][d] = received[Peer(x)][d]
      BY <2>3, <3>1, <3>3 DEF Local
    <3>6. QED
      BY <3>2, <3>4, <3>5
  <2>4. QED
    BY <2>2, <2>3
<1>2. OneStream'
  <2>1. SUFFICES ASSUME NEW x \in Ends, NEW d \in Channels, Known(x, d)'
                 PROVE  /\ On(Owner(chan[x][d].sid), d, chan[x][d].sid)'
                        /\ Known(Peer(x), d)' => chan'[Peer(x)][d].sid = chan'[x][d].sid
    BY DEF OneStream
  <2>2. CASE d # c
    <3>1. \A z \in Ends : chan'[z][d] = chan[z][d]
      BY <2>2, LocalElsewhere
    <3>2. Known(x, d) /\ Peer(x) \in Ends
      BY <2>1, <3>1, PeerFacts DEF Known
    <3>3. /\ On(Owner(chan[x][d].sid), d, chan[x][d].sid)
          /\ Known(Peer(x), d) => chan[Peer(x)][d].sid = chan[x][d].sid
      BY <3>2 DEF Base, OneStream
    <3>4. Owner(chan[x][d].sid) \in Ends
      BY Sid, SidFacts
    <3>5. QED
      BY <3>1, <3>2, <3>3, <3>4 DEF On, Known
  <2>3. CASE d = c
    <3>1. \A z \in Ends : Known(z, c)' => On(z, c, s)'
      <4>1. ASSUME NEW z \in Ends, Known(z, c)' PROVE On(z, c, s)'
        <5>1. CASE z = e
          BY <2>3, <5>1, LocalChannel
        <5>2. CASE z = Peer(e)
          <6>1. chan'[z][c] = chan[z][c]
            BY <2>3, <5>2, LocalChannel
          <6>2. Known(z, c)
            BY <4>1, <6>1 DEF Known
          <6>3. On(z, c, s)
            BY <2>3, <6>2, LocalChannel
          <6>4. QED
            BY <6>1, <6>3 DEF On, Known
        <5>3. QED
          BY <5>1, <5>2, PeerFacts
      <4>2. QED
        BY <4>1
    <3>2. chan'[x][c].sid = s
      BY <2>1, <2>3, <3>1 DEF On
    <3>3. On(Owner(s), c, s)'
      BY <2>3, LocalChannel
    <3>4. Known(Peer(x), c)' => chan'[Peer(x)][c].sid = s
      BY <3>1, PeerFacts DEF On
    <3>5. QED
      BY <2>3, <3>2, <3>3, <3>4
  <2>4. QED
    BY <2>2, <2>3
<1>3. Addressed'
  <2>1. SUFFICES ASSUME NEW x \in Ends, NEW r \in Sids, NEW m \in Members(wire'[x][r])
                 PROVE  /\ m.kind # "confirm" => m.ch \in Channels /\ On(x, m.ch, r)'
                        /\ m.kind = "open" => x = Owner(r)
                        /\ m.kind # "data" => ~m.unordered /\ ~m.lossy
    BY DEF Addressed
  <2>2. CASE m \in Members(wire[x][r])
    BY <2>2, OnForGood DEF Base, Addressed
  <2>3. CASE m \notin Members(wire[x][r])
    <3>1. r = s
      BY <2>3, LocalElsewhere
    <3>2. Moves(x, e, s, c)
      BY DEF Local
    <3>3. PICK N \in SUBSET Items :
            /\ Gains(x, s, N)
            /\ \A n \in N :
                  /\ n.kind # "confirm" => x = e /\ n.ch = c /\ c \in Channels
                  /\ n.kind = "open" => x = Owner(s)
                  /\ n.kind # "data" => ~n.unordered /\ ~n.lossy
      BY <2>3, <3>1, <3>2 DEF Moves, Loses
    <3>4. m \in N
      BY <2>3, <3>1, <3>3 DEF Gains
    <3>5. m.kind # "confirm" => m.ch \in Channels /\ On(x, m.ch, s)'
      BY <3>3, <3>4, LocalChannel
    <3>6. QED
      BY <3>1, <3>3, <3>4, <3>5
  <2>4. QED
    BY <2>2, <2>3
<1>4. Occupied'
  <2>1. SUFFICES ASSUME NEW x \in Ends, NEW r \in Sids, slots'[x][r] # NoChannel
                 PROVE  On(x, slots[x][r], r)'
    BY DEF Occupied
  <2>2. CASE slots'[x][r] = slots[x][r]
    <3>1. slots[x][r] \in Channels /\ On(x, slots[x][r], r)
      BY <2>1, <2>2, Slot
    <3>2. QED
      BY <2>2, <3>1, OnForGood
  <2>3. CASE slots'[x][r] # slots[x][r]
    <3>1. r = s /\ x = e /\ slots'[x][r] = c
      BY <2>1, <2>3, LocalElsewhere
    <3>2. c \in Channels
      BY <2>1, <3>1 DEF TypeOK
    <3>3. On(e, c, s)'
      BY <3>2, LocalChannel
    <3>4. QED
      BY <3>1, <3>3
  <2>4. QED
    BY <2>2, <2>3
<1>5. Bounded'
  <2>1. SUFFICES ASSUME NEW x \in Ends, NEW d \in Channels, Known(x, d)'
                 PROVE  received'[Peer(x)][d] + Count(wire'[x][chan'[x][d].sid], d) <= sent'[x][d]
    BY DEF Bounded
  <2>2. CASE d # c
    <3>1. chan'[x][d] = chan[x][d] /\ sent'[x][d] = sent[x][d] /\ received'[Peer(x)][d] = received[Peer(x)][d]
      BY <2>2, LocalElsewhere, PeerFacts
    <3>2. PICK r \in Sids : r = chan[x][d].sid
      BY Sid
    <3>3. received[Peer(x)][d] + Count(wire[x][r], d) <= sent[x][d]
      BY <2>1, <3>1, <3>2 DEF Base, Bounded, Known
    <3>4. Count(wire'[x][r], d) <= Count(wire[x][r], d)
      <4>1. CASE r = s
        BY <2>2, <4>1, OfOtherChannels DEF Local
      <4>2. CASE r # s
        <5>1. wire'[x][r] = wire[x][r]
          BY <4>2, LocalElsewhere
        <5>2. Count(wire[x][r], d) \in Nat
          BY Counts
        <5>3. QED
          BY <5>1, <5>2
      <4>3. QED
        BY <4>1, <4>2
    <3>5. /\ Count(wire'[x][r], d) \in Nat /\ Count(wire[x][r], d) \in Nat
          /\ received[Peer(x)][d] \in Nat /\ sent[x][d] \in Nat
      <4>1. wire'[x][r] \in Seq(Items)
        BY DEF TypeOK
      <4>2. Count(wire'[x][r], d) \in Nat
        BY <4>1, DataFinite
      <4>3. QED
        BY <4>2, Counts, Numbers, PeerFacts
    <3>6. QED
      BY <3>1, <3>2, <3>3, <3>4, <3>5
  <2>3. CASE d = c
    <3>1. chan'[x][c].sid = s
      BY <1>2, <2>1, <2>3, LocalChannel, PeerFacts DEF OneStream, On
    <3>2. received[Peer(x)][c] + Count(wire[x][s], c) <= sent[x][c]
      <4>1. CASE Known(x, c)
        <5>1. chan[x][c].sid = s
          BY <2>3, <4>1, LocalChannel DEF On
        <5>2. QED
          BY <2>3, <4>1, <5>1 DEF Base, Bounded
      <4>2. CASE ~Known(x, c)
        <5>1. sent[x][c] = 0 /\ received[Peer(x)][c] = 0
          BY <2>3, <4>2 DEF Base, Fresh
        <5>2. \A m \in Members(wire[x][s]) : m.kind = "data" => m.ch # c
          BY <4>2 DEF Base, Addressed, On
        <5>3. Count(wire[x][s], c) = 0
          BY <5>2, NoData DEF TypeOK
        <5>4. QED
          BY <5>1, <5>3
      <4>3. QED
        BY <4>1, <4>2
    <3>3. received'[Peer(x)][c] + Count(wire'[x][s], c) + sent[x][c] <=
            received[Peer(x)][c] + Count(wire[x][s], c) + sent'[x][c]
      BY <2>3 DEF Local
    <3>4. /\ Count(wire'[x][s], c) \in Nat /\ Count(wire[x][s], c) \in Nat
          /\ received[Peer(x)][c] \in Nat /\ sent[x][c] \in Nat
      BY <2>3, Counts, Numbers, PeerFacts, DataFinite DEF TypeOK
    <3>5. received'[Peer(x)][c] \in Nat /\ sent'[x][c] \in Nat
      <4>1. received'[Peer(x)][c] \in 0 .. MaxSends /\ sent'[x][c] \in 0 .. MaxSends
        BY <2>3, PeerFacts DEF TypeOK
      <4>2. QED
        BY <4>1, BoundsAssumption
    <3>6. QED
      BY <2>3, <3>1, <3>2, <3>3, <3>4, <3>5
  <2>4. QED
    BY <2>2, <2>3
<1>6. QED
  BY <1>1, <1>2, <1>3, <1>4, <1>5 DEF Base

LEMMA MovesByGaining ==
  ASSUME NEW x, NEW e, NEW s, NEW c, NEW N \in SUBSET Items, Gains(x, s, N),
         \A m \in N :
            /\ m.kind # "confirm" => x = e /\ m.ch = c /\ c \in Channels
            /\ m.kind = "open" => x = Owner(s)
            /\ m.kind # "data" => ~m.unordered /\ ~m.lossy
  PROVE  Moves(x, e, s, c)
BY DEF Moves

LEMMA MovesNot ==
  ASSUME NEW x, NEW e, NEW s, NEW c, Gains(x, s, {})
  PROVE  Moves(x, e, s, c)
BY MovesByGaining

LEMMA MovesByLosing ==
  ASSUME NEW x, NEW e, NEW s, NEW c, NEW m \in Items, Loses(x, s, m)
  PROVE  Moves(x, e, s, c)
BY DEF Moves

LEMMA MovesConfirm ==
  ASSUME NEW x, NEW e, NEW s, NEW c, Gains(x, s, {Confirm})
  PROVE  Moves(x, e, s, c)
BY MovesByGaining, ConfirmItem

LEMMA GainsNoData ==
  ASSUME TypeOK, NEW x \in Ends, NEW s \in Sids, NEW N, Gains(x, s, N),
         \A m \in N : m.kind # "data"
  PROVE  \A d : Count(wire'[x][s], d) = Count(wire[x][s], d)
<1>1. TAKE d
<1>2. ~\E m \in N : Units(m, d) = 1
  BY DEF Units
<1>3. Count(wire'[x][s], d) = Count(wire[x][s], d) + 0
  BY <1>2 DEF Gains
<1>4. Count(wire[x][s], d) \in Nat
  BY Counts
<1>5. QED
  BY <1>3, <1>4

LEMMA LosesCount ==
  ASSUME TypeOK, NEW x \in Ends, NEW s \in Sids, NEW m, Loses(x, s, m)
  PROVE  \A d : /\ Count(wire'[x][s], d) <= Count(wire[x][s], d)
                /\ m.kind # "data" => Count(wire'[x][s], d) = Count(wire[x][s], d)
<1>1. TAKE d
<1>2. Count(wire'[x][s], d) = Count(wire[x][s], d) - Units(m, d)
  BY DEF Loses
<1>3. Units(m, d) \in {0, 1} /\ (m.kind # "data" => Units(m, d) = 0)
  BY DEF Units
<1>4. Count(wire[x][s], d) \in Nat
  BY Counts
<1>5. QED
  BY <1>2, <1>3, <1>4

(* A step that neither sends nor receives data.                             *)
LEMMA LocalQuiet ==
  ASSUME TypeOK, TypeOK', NEW e \in Ends, NEW s \in Sids, NEW c,
         Elsewhere(s), Altered(e, s, c), c \in Channels => Concerns(e, s, c),
         Moves(e, e, s, c), Moves(Peer(e), e, s, c),
         UNCHANGED <<sent, received>>,
         Count(wire'[e][s], c) <= Count(wire[e][s], c),
         Count(wire'[Peer(e)][s], c) <= Count(wire[Peer(e)][s], c)
  PROVE  Local(e, s, c)
<1>1. \A x \in Ends : x = e \/ x = Peer(e)
  BY PeerFacts
<1>2. \A x \in Ends : Moves(x, e, s, c) /\ Count(wire'[x][s], c) <= Count(wire[x][s], c)
  BY <1>1
<1>3. ASSUME NEW x \in Ends, c \in Channels
      PROVE  received'[Peer(x)][c] + Count(wire'[x][s], c) + sent[x][c] <=
               received[Peer(x)][c] + Count(wire[x][s], c) + sent'[x][c]
  <2>1. received[Peer(x)][c] \in Nat /\ sent[x][c] \in Nat
    BY <1>3, Numbers, PeerFacts
  <2>2. Count(wire'[x][s], c) \in Nat /\ Count(wire[x][s], c) \in Nat
    BY DataFinite DEF TypeOK
  <2>3. received'[Peer(x)][c] = received[Peer(x)][c] /\ sent'[x][c] = sent[x][c]
    OBVIOUS
  <2>4. QED
    BY <1>2, <2>1, <2>2, <2>3
<1>4. \A x \in Ends, d \in Channels :
         sent'[x][d] = sent[x][d] /\ received'[Peer(x)][d] = received[Peer(x)][d]
  OBVIOUS
<1>5. QED
  BY <1>2, <1>3, <1>4 DEF Local

LEMMA NotAltered ==
  ASSUME NEW e \in Ends, NEW s \in Sids, NEW rec,
         Becomes(e, s, NoChannel, rec, slots[e][s])
  PROVE  Altered(e, s, NoChannel)
BY NoChannelOut DEF Altered

LEMMA CreateLocal ==
  ASSUME TypeOK, TypeOK', NEW e \in Ends, NEW s \in Sids, NEW c \in Channels, NEW p \in Asked,
         CreateEffect(e, s, c, p)
  PROVE  Local(e, s, c)
<1> DEFINE m == OpenMessage(c, Created(p))
           rec == NewChannel(s, Created(p), FALSE)
<1>1. Created(p) \in Parameters
  BY AskedAssumption, CreatedParameters
<1>2. m \in Items /\ m.kind = "open" /\ m.ch = c /\ ~m.unordered /\ ~m.lossy
  BY <1>1, ControlItem DEF OpenMessage, Kinds
<1>3. rec.sid = s /\ rec.state = "open"
  BY <1>1, NewChannelFields
<1>4. /\ e = Owner(s) /\ ~Known(e, c) /\ ~Known(Peer(e), c) /\ Elsewhere(s)
      /\ Gains(e, s, {m}) /\ Gains(Peer(e), s, {})
      /\ Becomes(e, s, c, rec, c) /\ UNCHANGED <<sent, received>>
  BY PeerFacts DEF CreateEffect, history
<1> HIDE DEF m, rec
<1>5. Altered(e, s, c)
  BY <1>3, <1>4 DEF Altered
<1>6. Concerns(e, s, c)
  BY <1>4 DEF Concerns
<1>7. Moves(e, e, s, c)
  <2>1. {m} \in SUBSET Items
    BY <1>2
  <2>2. \A n \in {m} : n = m
    OBVIOUS
  <2>3. QED
    BY <1>2, <1>4, <2>1, <2>2, MovesByGaining
<1>8. Moves(Peer(e), e, s, c)
  BY <1>4, MovesNot
<1>9. /\ Count(wire'[e][s], c) = Count(wire[e][s], c)
      /\ Count(wire'[Peer(e)][s], c) = Count(wire[Peer(e)][s], c)
  BY <1>2, <1>4, GainsNoData, PeerFacts
<1>10. Count(wire[e][s], c) \in Nat /\ Count(wire[Peer(e)][s], c) \in Nat
  BY Counts, PeerFacts
<1>11. QED
  BY <1>4, <1>5, <1>6, <1>7, <1>8, <1>9, <1>10, LocalQuiet

LEMMA CloseLocal ==
  ASSUME TypeOK, TypeOK', NEW e \in Ends, NEW s \in Sids, NEW c \in Channels,
         CloseEffect(e, s, c)
  PROVE  Local(e, s, c)
<1> DEFINE m == Control("reset", c, NoParameters)
           rec == [chan[e][c] EXCEPT !.state = "closing"]
<1>1. rec.sid = s /\ rec.state = "closing"
  BY Sid, StateSet DEF CloseEffect, On, ChannelStates
<1>2. /\ On(e, c, s) /\ Elsewhere(s)
      /\ Gains(e, s, {m}) /\ Gains(Peer(e), s, {})
      /\ Becomes(e, s, c, rec, slots[e][s]) /\ UNCHANGED <<sent, received>>
  BY DEF CloseEffect, history
<1>3. m \in Items /\ m.kind = "reset" /\ m.ch = c /\ ~m.unordered /\ ~m.lossy
  BY ResetItem
<1> HIDE DEF m, rec
<1>4. Altered(e, s, c)
  BY <1>1, <1>2 DEF Altered
<1>5. Moves(e, e, s, c)
  <2>1. {m} \in SUBSET Items /\ \A n \in {m} : n = m
    BY <1>3
  <2>2. QED
    BY <1>2, <1>3, <2>1, MovesByGaining
<1>6. Moves(Peer(e), e, s, c)
  BY <1>2, MovesNot
<1>7. /\ Count(wire'[e][s], c) = Count(wire[e][s], c)
      /\ Count(wire'[Peer(e)][s], c) = Count(wire[Peer(e)][s], c)
  BY <1>2, <1>3, GainsNoData, PeerFacts
<1>8. Count(wire[e][s], c) \in Nat /\ Count(wire[Peer(e)][s], c) \in Nat
  BY Counts, PeerFacts
<1>9. Concerns(e, s, c)
  BY <1>2 DEF Concerns
<1>10. QED
  BY <1>2, <1>4, <1>5, <1>6, <1>7, <1>8, <1>9, LocalQuiet

(* An arrival that is no data, or of which nobody takes notice.             *)
LEMMA LocalArrival ==
  ASSUME TypeOK, TypeOK', NEW e \in Ends, NEW s \in Sids, NEW c, NEW m \in Items,
         NEW N \in SUBSET Items,
         Elsewhere(s), Altered(e, s, c), c \in Channels => Concerns(e, s, c),
         Moves(e, e, s, c), Gains(e, s, N), \A n \in N : n.kind # "data",
         Loses(Peer(e), s, m), UNCHANGED <<sent, received>>
  PROVE  Local(e, s, c)
<1>1. Moves(Peer(e), e, s, c)
  BY MovesByLosing
<1>2. Count(wire'[Peer(e)][s], c) <= Count(wire[Peer(e)][s], c)
  BY LosesCount, PeerFacts
<1>3. Count(wire'[e][s], c) = Count(wire[e][s], c) /\ Count(wire[e][s], c) \in Nat
  BY GainsNoData, Counts
<1>4. QED
  BY <1>1, <1>2, <1>3, LocalQuiet

LEMMA AcceptLocal ==
  ASSUME TypeOK, TypeOK', Base, NEW e \in Ends, NEW s \in Sids, NEW m \in Items,
         AcceptEffect(e, s, m)
  PROVE  m.ch \in Channels /\ Local(e, s, m.ch)
<1>1. m.ch \in Channels /\ On(Peer(e), m.ch, s) /\ m.par \in Parameters
  <2>1. m \in Members(wire[Peer(e)][s]) /\ m.kind = "open"
    BY DEF AcceptEffect, Arrival
  <2>2. QED
    BY <2>1, ItemFields, PeerFacts DEF Base, Addressed
<1> DEFINE n == Control("ack", m.ch, NoParameters)
           rec == NewChannel(s, Created(m.par), TRUE)
<1>2. n \in Items /\ n.kind = "ack" /\ n.ch = m.ch /\ ~n.unordered /\ ~n.lossy
  BY <1>1, ControlItem, NoParametersType DEF Kinds
<1>3. rec.sid = s /\ rec.state = "open"
  BY <1>1, CreatedParameters, NewChannelFields
<1>4. /\ e # Owner(s) /\ Elsewhere(s) /\ Gains(e, s, {n}) /\ Loses(Peer(e), s, m)
      /\ Becomes(e, s, m.ch, rec, m.ch) /\ UNCHANGED <<sent, received>>
  BY DEF AcceptEffect
<1> HIDE DEF n, rec
<1>5. Altered(e, s, m.ch)
  BY <1>3, <1>4 DEF Altered
<1>6. Concerns(e, s, m.ch)
  BY <1>1, <1>4 DEF Concerns
<1>7. {n} \in SUBSET Items /\ \A k \in {n} : k = n
  BY <1>2
<1>8. Moves(e, e, s, m.ch)
  BY <1>1, <1>2, <1>4, <1>7, MovesByGaining
<1>9. \A k \in {n} : k.kind # "data"
  BY <1>2
<1>10. Local(e, s, m.ch)
  BY <1>4, <1>5, <1>6, <1>7, <1>8, <1>9, LocalArrival
<1>11. QED
  BY <1>1, <1>10

LEMMA StrayLocal ==
  ASSUME TypeOK, TypeOK', NEW e \in Ends, NEW s \in Sids, NEW m \in Items,
         RefuseEffect(e, s, m) \/ StrayResetEffect(e, s, m) \/ StrayConfirmEffect(e, s, m)
  PROVE  Local(e, s, NoChannel)
<1>1. /\ Elsewhere(s)
      /\ Gains(e, s, {}) \/ Gains(e, s, {Confirm})
      /\ Loses(Peer(e), s, m)
      /\ Becomes(e, s, NoChannel, chan[e][NoChannel], slots[e][s])
      /\ UNCHANGED <<sent, received>>
  BY DEF RefuseEffect, StrayResetEffect, StrayConfirmEffect, history
<1>2. Altered(e, s, NoChannel)
  BY <1>1, NotAltered
<1>3. NoChannel \in Channels => Concerns(e, s, NoChannel)
  BY NoChannelOut
<1>4. CASE Gains(e, s, {})
  <2>1. {} \in SUBSET Items /\ \A k \in {} : k.kind # "data"
    OBVIOUS
  <2>2. Moves(e, e, s, NoChannel)
    BY <1>4, MovesNot
  <2>3. QED
    BY <1>1, <1>2, <1>3, <1>4, <2>1, <2>2, LocalArrival
<1>5. CASE Gains(e, s, {Confirm})
  <2>1. {Confirm} \in SUBSET Items /\ \A k \in {Confirm} : k.kind # "data"
    BY ConfirmItem
  <2>2. Moves(e, e, s, NoChannel)
    BY <1>5, MovesConfirm
  <2>3. QED
    BY <1>1, <1>2, <1>3, <1>5, <2>1, <2>2, LocalArrival
<1>6. QED
  BY <1>1, <1>4, <1>5

LEMMA AckLocal ==
  ASSUME TypeOK, TypeOK', Base, NEW e \in Ends, NEW s \in Sids, NEW m \in Items,
         AckEffect(e, s, m)
  PROVE  Local(e, s, slots[e][s])
<1> DEFINE c == slots[e][s]
           rec == [chan[e][c] EXCEPT !.canUnordered = TRUE]
<1>1. /\ Elsewhere(s) /\ Gains(e, s, {}) /\ Loses(Peer(e), s, m)
      /\ Becomes(e, s, c, rec, slots[e][s]) /\ UNCHANGED <<sent, received>>
  BY DEF AckEffect, history
<1>2. c \in Channels => On(e, c, s) /\ rec.sid = s /\ rec.state # "none"
  BY Slot, Sid, PermissionSet, NoChannelOut DEF On, Known
<1> HIDE DEF rec
<1>3. Altered(e, s, c)
  BY <1>1, <1>2 DEF Altered
<1>4. c \in Channels => Concerns(e, s, c)
  BY <1>2 DEF Concerns
<1>5. Moves(e, e, s, c)
  BY <1>1, MovesNot
<1>6. QED
  BY <1>1, <1>3, <1>4, <1>5, LocalArrival

LEMMA DataLocal ==
  ASSUME TypeOK, TypeOK', Base, NEW e \in Ends, NEW s \in Sids, NEW m \in Items,
         DataEffect(e, s, m)
  PROVE  Local(e, s, slots[e][s])
<1> DEFINE c == slots[e][s]
           rec == [chan[e][c] EXCEPT !.canUnordered = TRUE]
           y == Peer(e)
<1>1. /\ Elsewhere(s) /\ Gains(e, s, {}) /\ Loses(y, s, m)
      /\ Becomes(e, s, c, rec, slots[e][s]) /\ UNCHANGED sent
  BY DEF DataEffect
<1>2. c \in Channels => On(e, c, s) /\ rec.sid = s /\ rec.state # "none"
  BY Slot, Sid, PermissionSet, NoChannelOut DEF On, Known
<1>3. y \in Ends /\ y # e /\ Peer(y) = e /\ \A x \in Ends : x = e \/ x = y
  BY PeerFacts
<1>4. m.ch \in Channels /\ On(y, m.ch, s) /\ m.kind = "data"
  <2>1. m \in Members(wire[y][s]) /\ m.kind = "data"
    BY DEF DataEffect, Arrival
  <2>2. QED
    BY <1>3, <2>1 DEF Base, Addressed
<1> HIDE DEF rec, y
<1>5. Altered(e, s, c)
  BY <1>1, <1>2 DEF Altered
<1>6. c \in Channels => Concerns(e, s, c)
  BY <1>2 DEF Concerns
<1>7. Moves(e, e, s, c)
  BY <1>1, MovesNot
<1>8. CASE c # m.ch
  <2>1. UNCHANGED received
    BY <1>8 DEF DataEffect
  <2>2. QED
    BY <1>1, <1>5, <1>6, <1>7, <2>1, LocalArrival DEF y
<1>9. CASE c = m.ch
  <2>1. received' = [received EXCEPT ![e][c] = received[e][c] + 1]
    BY <1>9 DEF DataEffect
  <2>2. received \in [Ends -> [Channels -> 0 .. MaxSends]]
    BY DEF TypeOK
  <2>3. \A x \in Ends, d \in Channels :
           received'[x][d] = IF x = e /\ d = c THEN received[e][c] + 1 ELSE received[x][d]
    BY <1>4, <1>9, <2>1, <2>2
  <2>4. Count(wire'[e][s], c) = Count(wire[e][s], c)
    BY <1>1, GainsNoData
  <2>5. Count(wire'[y][s], c) = Count(wire[y][s], c) - 1
    BY <1>1, <1>4, <1>9 DEF Loses, Units
  <2>6. \A x \in Ends : Moves(x, e, s, c)
    BY <1>1, <1>3, <1>7, MovesByLosing
  <2>7. Known(y, c)
    BY <1>4, <1>9 DEF On
  <2>8. ASSUME NEW x \in Ends, NEW d \in Channels, d # c \/ (~Known(x, c) /\ x = y)
        PROVE  sent'[x][d] = sent[x][d] /\ received'[Peer(x)][d] = received[Peer(x)][d]
    BY <1>1, <2>3, <2>7, <2>8, PeerFacts
  <2>9. ASSUME NEW x \in Ends, c \in Channels
        PROVE  received'[Peer(x)][c] + Count(wire'[x][s], c) + sent[x][c] <=
                 received[Peer(x)][c] + Count(wire[x][s], c) + sent'[x][c]
    <3>1. /\ received[e][c] \in Nat /\ received[y][c] \in Nat
          /\ sent[x][c] \in Nat /\ sent'[x][c] = sent[x][c]
      BY <1>1, <1>3, <2>9, Numbers
    <3>2. Count(wire[e][s], c) \in Nat /\ Count(wire[y][s], c) \in Nat
      BY <1>3, Counts
    <3>3. received'[e][c] = received[e][c] + 1 /\ received'[y][c] = received[y][c]
      BY <1>3, <2>3, <2>9
    <3>4. CASE x = e
      <4>1. Peer(x) = y
        BY <3>4 DEF y
      <4>2. QED
        BY <2>4, <3>1, <3>2, <3>3, <3>4, <4>1
    <3>5. CASE x = y
      BY <1>3, <2>5, <3>1, <3>2, <3>3, <3>5
    <3>6. QED
      BY <1>3, <3>4, <3>5
  <2>10. QED
    BY <1>1, <1>5, <1>6, <2>6, <2>8, <2>9 DEF Local, y
<1>10. QED
  BY <1>8, <1>9

(* A step of the channel in the slot: its flags become those of r.          *)
LEMMA NotedAltered ==
  ASSUME NEW e \in Ends, NEW s \in Sids, NEW c \in Channels, NEW r \in ChannelRecords,
         r.sid = s, r.state # "none", c = slots[e][s],
         Becomes(e, s, c, Left(r), LeftSlot(r, c))
  PROVE  Altered(e, s, c)
<1>1. Left(r).sid = s /\ Left(r).state # "none"
  BY LeftRecord
<1>2. LeftSlot(r, c) \in {slots[e][s], NoChannel, c}
  BY DEF LeftSlot
<1>3. QED
  BY <1>1, <1>2 DEF Altered

LEMMA ResetLocal ==
  ASSUME TypeOK, TypeOK', Base, NEW e \in Ends, NEW s \in Sids, NEW m \in Items, NEW c,
         ResetEffect(e, s, m, c)
  PROVE  c \in Channels /\ Local(e, s, c)
<1> DEFINE r == WithIn(chan[e][c])
<1>1. /\ c = slots[e][s] /\ c # NoChannel
      /\ Elsewhere(s) /\ Gains(e, s, {Confirm}) /\ Loses(Peer(e), s, m)
      /\ Becomes(e, s, c, Left(r), LeftSlot(r, c))
      /\ UNCHANGED <<sent, received>>
  BY DEF ResetEffect, history
<1>2. c \in Channels /\ On(e, c, s)
  BY <1>1, Slot
<1>3. r \in ChannelRecords /\ r.sid = s /\ r.state # "none"
  BY <1>2, Sid, FlagSet DEF On, Known
<1> HIDE DEF r
<1>4. Altered(e, s, c)
  BY <1>1, <1>2, <1>3, NotedAltered
<1>5. Concerns(e, s, c)
  BY <1>2 DEF Concerns
<1>6. {Confirm} \in SUBSET Items /\ \A k \in {Confirm} : k.kind # "data"
  BY ConfirmItem
<1>7. Moves(e, e, s, c)
  BY <1>1, MovesConfirm
<1>8. QED
  BY <1>1, <1>2, <1>4, <1>5, <1>6, <1>7, LocalArrival

LEMMA AnsweredLocal ==
  ASSUME TypeOK, TypeOK', Base, NEW e \in Ends, NEW s \in Sids, NEW m \in Items, NEW c,
         AnsweredEffect(e, s, m, c)
  PROVE  c \in Channels /\ Local(e, s, c)
<1> DEFINE r == [WithIn(chan[e][c]) EXCEPT !.state = "closing"]
           n == Control("reset", c, NoParameters)
<1>1. /\ c = slots[e][s] /\ c # NoChannel
      /\ Elsewhere(s) /\ Gains(e, s, {Confirm, n}) /\ Loses(Peer(e), s, m)
      /\ Becomes(e, s, c, Left(r), LeftSlot(r, c))
      /\ UNCHANGED <<sent, received>>
  BY DEF AnsweredEffect, history
<1>2. c \in Channels /\ On(e, c, s)
  BY <1>1, Slot
<1>3. r \in ChannelRecords /\ r.sid = s /\ r.state # "none"
  <2>1. WithIn(chan[e][c]) \in ChannelRecords /\ WithIn(chan[e][c]).sid = s
    BY <1>2, Sid, FlagSet DEF On
  <2>2. QED
    BY <2>1, StateSet DEF ChannelStates
<1>4. n \in Items /\ n.kind = "reset" /\ n.ch = c /\ ~n.unordered /\ ~n.lossy
  BY <1>2, ResetItem
<1> HIDE DEF r, n
<1>5. Altered(e, s, c)
  BY <1>1, <1>2, <1>3, NotedAltered
<1>6. Concerns(e, s, c)
  BY <1>2 DEF Concerns
<1>7. {Confirm, n} \in SUBSET Items /\ \A k \in {Confirm, n} : k = Confirm \/ k = n
  BY <1>4, ConfirmItem
<1>8. \A k \in {Confirm, n} : k.kind # "data"
  BY <1>4, <1>7, ConfirmItem
<1>9. Moves(e, e, s, c)
  BY <1>1, <1>2, <1>4, <1>7, ConfirmItem, MovesByGaining
<1>10. QED
  BY <1>1, <1>2, <1>5, <1>6, <1>7, <1>8, <1>9, LocalArrival

LEMMA ConfirmLocal ==
  ASSUME TypeOK, TypeOK', Base, NEW e \in Ends, NEW s \in Sids, NEW m \in Items, NEW c,
         ConfirmEffect(e, s, m, c)
  PROVE  c \in Channels /\ Local(e, s, c)
<1> DEFINE r == WithOut(chan[e][c])
<1>1. /\ c = slots[e][s] /\ c # NoChannel
      /\ Elsewhere(s) /\ Gains(e, s, {}) /\ Loses(Peer(e), s, m)
      /\ Becomes(e, s, c, Left(r), LeftSlot(r, c))
      /\ UNCHANGED <<sent, received>>
  BY DEF ConfirmEffect, history
<1>2. c \in Channels /\ On(e, c, s)
  BY <1>1, Slot
<1>3. r \in ChannelRecords /\ r.sid = s /\ r.state # "none"
  BY <1>2, Sid, FlagSet DEF On, Known
<1> HIDE DEF r
<1>4. Altered(e, s, c)
  BY <1>1, <1>2, <1>3, NotedAltered
<1>5. Concerns(e, s, c)
  BY <1>2 DEF Concerns
<1>6. {} \in SUBSET Items /\ \A k \in {} : k.kind # "data"
  OBVIOUS
<1>7. Moves(e, e, s, c)
  BY <1>1, MovesNot
<1>8. QED
  BY <1>1, <1>2, <1>4, <1>5, <1>6, <1>7, LocalArrival

LEMMA LoseLocal ==
  ASSUME TypeOK, TypeOK', NEW e \in Ends, NEW s \in Sids, NEW m \in Items,
         LoseEffect(e, s, m)
  PROVE  Local(e, s, NoChannel)
<1>1. /\ Elsewhere(s) /\ Gains(Peer(e), s, {}) /\ Loses(e, s, m)
      /\ Becomes(e, s, NoChannel, chan[e][NoChannel], slots[e][s])
      /\ UNCHANGED <<sent, received>>
  BY DEF LoseEffect, history
<1>2. Altered(e, s, NoChannel)
  BY <1>1, NotAltered
<1>3. NoChannel \in Channels => Concerns(e, s, NoChannel)
  BY NoChannelOut
<1>4. Moves(e, e, s, NoChannel) /\ Moves(Peer(e), e, s, NoChannel)
  BY <1>1, MovesNot, MovesByLosing
<1>5. Count(wire'[e][s], NoChannel) <= Count(wire[e][s], NoChannel)
  BY <1>1, LosesCount
<1>6. \A k \in {} : k.kind # "data"
  OBVIOUS
<1>7. /\ Count(wire'[Peer(e)][s], NoChannel) = Count(wire[Peer(e)][s], NoChannel)
      /\ Count(wire[Peer(e)][s], NoChannel) \in Nat
  BY <1>1, <1>6, GainsNoData, PeerFacts, Counts
<1>8. Count(wire'[Peer(e)][s], NoChannel) <= Count(wire[Peer(e)][s], NoChannel)
  BY <1>7
<1>9. QED
  BY <1>1, <1>2, <1>3, <1>4, <1>5, <1>8, LocalQuiet

LEMMA SendLocal ==
  ASSUME TypeOK, TypeOK', Base, NEW e \in Ends, NEW s \in Sids, NEW c \in Channels,
         SendEffect(e, s, c)
  PROVE  Local(e, s, c)
<1> DEFINE m == Data(e, c)
           y == Peer(e)
<1>1. /\ On(e, c, s) /\ Elsewhere(s) /\ Gains(e, s, {m}) /\ Gains(y, s, {})
      /\ Becomes(e, s, c, chan[e][c], slots[e][s]) /\ UNCHANGED received
      /\ sent' = [sent EXCEPT ![e][c] = sent[e][c] + 1]
  BY DEF SendEffect
<1>2. m \in Items /\ m.kind = "data" /\ m.ch = c
  BY DataItem
<1>3. y \in Ends /\ y # e /\ Peer(y) = e /\ \A x \in Ends : x = e \/ x = y
  BY PeerFacts
<1> HIDE DEF m, y
<1>4. chan[e][c].sid = s /\ chan[e][c].state # "none"
  BY <1>1 DEF On, Known
<1>5. Altered(e, s, c)
  BY <1>1, <1>4 DEF Altered
<1>6. Concerns(e, s, c)
  BY <1>1 DEF Concerns
<1>7. Moves(e, e, s, c)
  <2>1. {m} \in SUBSET Items /\ \A n \in {m} : n = m
    BY <1>2
  <2>2. QED
    BY <1>1, <1>2, <2>1, MovesByGaining
<1>8. Moves(y, e, s, c)
  BY <1>1, MovesNot
<1>9. \A x \in Ends : Moves(x, e, s, c)
  BY <1>3, <1>7, <1>8
<1>10. sent \in [Ends -> [Channels -> 0 .. MaxSends]]
  BY DEF TypeOK
<1>11. \A x \in Ends, d \in Channels :
          sent'[x][d] = IF x = e /\ d = c THEN sent[e][c] + 1 ELSE sent[x][d]
  BY <1>1, <1>10
<1>12. Count(wire'[e][s], c) = Count(wire[e][s], c) + 1
  <2>1. m \in {m} /\ Units(m, c) = 1
    BY <1>2 DEF Units
  <2>2. \E n \in {m} : Units(n, c) = 1
    BY <2>1
  <2>3. QED
    BY <1>1, <2>2 DEF Gains
<1>13. Count(wire'[y][s], c) = Count(wire[y][s], c)
  <2>1. \A k \in {} : k.kind # "data"
    OBVIOUS
  <2>2. QED
    BY <1>1, <1>3, <2>1, GainsNoData
<1>14. ASSUME NEW x \in Ends, NEW d \in Channels, d # c \/ (~Known(x, c) /\ x = y)
       PROVE  sent'[x][d] = sent[x][d] /\ received'[Peer(x)][d] = received[Peer(x)][d]
  BY <1>1, <1>3, <1>11, <1>14
<1>15. ASSUME NEW x \in Ends
       PROVE  received'[Peer(x)][c] + Count(wire'[x][s], c) + sent[x][c] <=
                received[Peer(x)][c] + Count(wire[x][s], c) + sent'[x][c]
  <2>1. /\ received[Peer(x)][c] \in Nat /\ received'[Peer(x)][c] = received[Peer(x)][c]
        /\ sent[x][c] \in Nat
    BY <1>1, PeerFacts, Numbers
  <2>2. Count(wire[e][s], c) \in Nat /\ Count(wire[y][s], c) \in Nat
    BY <1>3, Counts
  <2>3. CASE x = e
    BY <1>11, <1>12, <2>1, <2>2, <2>3
  <2>4. CASE x = y
    BY <1>3, <1>11, <1>13, <2>1, <2>2, <2>4
  <2>5. QED
    BY <1>3, <2>3, <2>4
<1>16. QED
  BY <1>1, <1>5, <1>6, <1>9, <1>14, <1>15 DEF Local, y

LEMMA FailLocal ==
  ASSUME TypeOK, TypeOK', NEW e \in Ends, NEW s \in Sids, NEW c, NEW rec, NEW slot,
         FailEffect(e, s, c, rec, slot)
  PROVE  Local(e, s, c)
<1>1. /\ Elsewhere(s) /\ Becomes(e, s, c, rec, slot)
      /\ c \in Channels => On(e, c, s) /\ rec.sid = s /\ rec.state # "none"
      /\ slot \in {slots[e][s], NoChannel}
      /\ UNCHANGED <<sent, received>>
  BY DEF FailEffect
<1>2. Altered(e, s, c)
  BY <1>1 DEF Altered
<1>3. c \in Channels => Concerns(e, s, c)
  BY <1>1 DEF Concerns
<1>4. ASSUME NEW x \in Ends,
             \/ Gains(x, s, {}) \/ Gains(x, s, {Confirm})
             \/ \E m \in Items : Loses(x, s, m) /\ m.kind # "data"
      PROVE  Moves(x, e, s, c) /\ Count(wire'[x][s], c) <= Count(wire[x][s], c)
  <2>1. CASE Gains(x, s, {})
    <3>1. \A k \in {} : k.kind # "data"
      OBVIOUS
    <3>2. Count(wire'[x][s], c) = Count(wire[x][s], c) /\ Count(wire[x][s], c) \in Nat
      BY <2>1, <3>1, GainsNoData, Counts
    <3>3. QED
      BY <2>1, <3>2, MovesNot
  <2>2. CASE Gains(x, s, {Confirm})
    <3>1. \A k \in {Confirm} : k.kind # "data"
      BY ConfirmItem
    <3>2. Count(wire'[x][s], c) = Count(wire[x][s], c) /\ Count(wire[x][s], c) \in Nat
      BY <2>2, <3>1, GainsNoData, Counts
    <3>3. QED
      BY <2>2, <3>2, MovesConfirm
  <2>3. CASE \E m \in Items : Loses(x, s, m) /\ m.kind # "data"
    BY <2>3, LosesCount, MovesByLosing
  <2>4. QED
    BY <1>4, <2>1, <2>2, <2>3
<1>5. Moves(e, e, s, c) /\ Count(wire'[e][s], c) <= Count(wire[e][s], c)
  BY <1>4 DEF FailEffect
<1>6. Moves(Peer(e), e, s, c) /\ Count(wire'[Peer(e)][s], c) <= Count(wire[Peer(e)][s], c)
  BY <1>4, PeerFacts DEF FailEffect
<1>7. QED
  BY <1>1, <1>2, <1>3, <1>5, <1>6, LocalQuiet

(***************************************************************************)
(* Every step is one of these, and about one stream.                       *)
(***************************************************************************)
Effect(e, s) ==
  \/ \E c \in Channels, p \in Asked : CreateEffect(e, s, c, p)
  \/ \E c \in Channels : SendEffect(e, s, c) \/ CloseEffect(e, s, c)
  \/ \E m \in Items :
        \/ AcceptEffect(e, s, m)
        \/ RefuseEffect(e, s, m)
        \/ AckEffect(e, s, m)
        \/ DataEffect(e, s, m)
        \/ StrayResetEffect(e, s, m)
        \/ ResetEffect(e, s, m, slots[e][s])
        \/ AnsweredEffect(e, s, m, slots[e][s])
        \/ StrayConfirmEffect(e, s, m)
        \/ ConfirmEffect(e, s, m, slots[e][s])
        \/ LoseEffect(e, s, m)
  \/ \E c, rec, slot : FailEffect(e, s, c, rec, slot)

LEMMA EffectLocal ==
  ASSUME TypeOK, TypeOK', Base, NEW e \in Ends, NEW s \in Sids, Effect(e, s)
  PROVE  \E c : Local(e, s, c)
<1>1. CASE \E c \in Channels, p \in Asked : CreateEffect(e, s, c, p)
  BY <1>1, CreateLocal
<1>2. CASE \E c \in Channels : SendEffect(e, s, c)
  BY <1>2, SendLocal
<1>3. CASE \E c \in Channels : CloseEffect(e, s, c)
  BY <1>3, CloseLocal
<1>4. ASSUME NEW m \in Items, AcceptEffect(e, s, m) PROVE \E c : Local(e, s, c)
  BY <1>4, AcceptLocal
<1>5. ASSUME NEW m \in Items,
             RefuseEffect(e, s, m) \/ StrayResetEffect(e, s, m) \/ StrayConfirmEffect(e, s, m)
      PROVE  \E c : Local(e, s, c)
  BY <1>5, StrayLocal
<1>6. ASSUME NEW m \in Items, AckEffect(e, s, m) PROVE \E c : Local(e, s, c)
  BY <1>6, AckLocal
<1>7. ASSUME NEW m \in Items, DataEffect(e, s, m) PROVE \E c : Local(e, s, c)
  BY <1>7, DataLocal
<1>8. ASSUME NEW m \in Items, ResetEffect(e, s, m, slots[e][s]) PROVE \E c : Local(e, s, c)
  BY <1>8, ResetLocal
<1>9. ASSUME NEW m \in Items, AnsweredEffect(e, s, m, slots[e][s]) PROVE \E c : Local(e, s, c)
  BY <1>9, AnsweredLocal
<1>10. ASSUME NEW m \in Items, ConfirmEffect(e, s, m, slots[e][s]) PROVE \E c : Local(e, s, c)
  BY <1>10, ConfirmLocal
<1>11. ASSUME NEW m \in Items, LoseEffect(e, s, m) PROVE \E c : Local(e, s, c)
  BY <1>11, LoseLocal
<1>12. CASE \E c, rec, slot : FailEffect(e, s, c, rec, slot)
  BY <1>12, FailLocal
<1>13. QED
  BY <1>1, <1>2, <1>3, <1>4, <1>5, <1>6, <1>7, <1>8, <1>9, <1>10, <1>11, <1>12 DEF Effect

LEMMA Steps ==
  ASSUME TypeOK, Base, Next
  PROVE  TypeOK' /\ \E e \in Ends, s \in Sids : Effect(e, s)
<1>1. ASSUME NEW e \in Ends, NEW c \in Channels, NEW p \in Asked, Create(e, c, p)
      PROVE  TypeOK' /\ \E s \in Sids : Effect(e, s)
  BY <1>1, CreateStep DEF Effect
<1>2. ASSUME NEW e \in Ends, NEW c \in Channels, Send(e, c)
      PROVE  TypeOK' /\ \E s \in Sids : Effect(e, s)
  BY <1>2, SendStep DEF Effect
<1>3. ASSUME NEW e \in Ends, NEW c \in Channels, Close(e, c)
      PROVE  TypeOK' /\ \E s \in Sids : Effect(e, s)
  BY <1>3, CloseStep DEF Effect
<1>4. ASSUME NEW e \in Ends, NEW c \in Channels, CloseImproperly(e, c)
      PROVE  TypeOK' /\ \E s \in Sids : Effect(e, s)
  BY <1>4, CloseImproperlyStep DEF Effect
<1>5. ASSUME NEW e \in Ends, NEW s \in Sids, NEW i, ReceiveOpen(e, s, i)
      PROVE  TypeOK' /\ Effect(e, s)
  BY <1>5, OpenStep DEF Effect
<1>6. ASSUME NEW e \in Ends, NEW s \in Sids, NEW i, ReceiveAck(e, s, i)
      PROVE  TypeOK' /\ Effect(e, s)
  BY <1>6, AckStep DEF Effect
<1>7. ASSUME NEW e \in Ends, NEW s \in Sids, NEW i, ReceiveData(e, s, i)
      PROVE  TypeOK' /\ Effect(e, s)
  BY <1>7, DataStep DEF Effect
<1>8. ASSUME NEW e \in Ends, NEW s \in Sids, NEW i, ReceiveReset(e, s, i)
      PROVE  TypeOK' /\ Effect(e, s)
  BY <1>8, ResetStep DEF Effect
<1>9. ASSUME NEW e \in Ends, NEW s \in Sids, NEW i, ReceiveConfirmation(e, s, i)
      PROVE  TypeOK' /\ Effect(e, s)
  BY <1>9, ConfirmationStep DEF Effect
<1>10. ASSUME NEW e \in Ends, NEW s \in Sids, NEW i, DenyReset(e, s, i)
       PROVE  TypeOK' /\ Effect(e, s)
  BY <1>10, DenyStep DEF Effect
<1>11. ASSUME NEW e \in Ends, NEW s \in Sids, NEW i, Lose(e, s, i)
       PROVE  TypeOK' /\ Effect(e, s)
  BY <1>11, LoseStep DEF Effect
<1>12. ASSUME Receive
       PROVE  TypeOK' /\ \E e \in Ends, s \in Sids : Effect(e, s)
  BY <1>5, <1>6, <1>7, <1>8, <1>9, <1>10, <1>12 DEF Receive
<1>13. QED
  BY <1>1, <1>2, <1>3, <1>4, <1>11, <1>12 DEF Next

LEMMA Stutter ==
  ASSUME TypeOK, Base, UNCHANGED vars
  PROVE  TypeOK' /\ Base'
<1>1. TypeOK'
  BY DEF TypeOK, vars
<1>2. Base'
  BY DEF Base, Fresh, OneStream, Addressed, Occupied, Bounded, vars, On, Known
<1>3. QED
  BY <1>1, <1>2

LEMMA NextBase ==
  ASSUME TypeOK, Base, [Next]_vars
  PROVE  TypeOK' /\ Base'
<1>1. CASE Next
  <2>1. PICK e \in Ends, s \in Sids : TypeOK' /\ Effect(e, s)
    BY <1>1, Steps
  <2>2. PICK c : Local(e, s, c)
    BY <2>1, EffectLocal
  <2>3. QED
    BY <2>1, <2>2, LocalBase
<1>2. QED
  BY <1>1, Stutter

LEMMA InitEmpty ==
  ASSUME Init
  PROVE  /\ \A e \in Ends, s \in Sids : /\ slots[e][s] = NoChannel
                                        /\ wire[e][s] = <<>>
                                        /\ Members(wire[e][s]) = {}
         /\ \A e \in Ends, c \in Channels : /\ chan[e][c] = Unknown
                                            /\ ~Known(e, c)
                                            /\ sent[e][c] = 0
                                            /\ received[e][c] = 0
         /\ astray = {} /\ refused = {}
BY DEF Init, Known, Unknown, Members

LEMMA InitBase ==
  ASSUME Init
  PROVE  TypeOK /\ Base
<1>1. TypeOK
  <2>1. \A e \in Ends, s \in Sids : <<>> \in Seq(Items)
    OBVIOUS
  <2>2. 0 \in 0 .. MaxSends
    BY BoundsAssumption
  <2>3. QED
    BY <2>1, <2>2, UnknownType DEF Init, TypeOK
<1>2. Base
  <2>1. Fresh
    BY InitEmpty, PeerFacts DEF Fresh
  <2>2. OneStream /\ Bounded
    BY InitEmpty DEF OneStream, Bounded
  <2>3. Addressed
    BY InitEmpty DEF Addressed
  <2>4. Occupied
    BY InitEmpty DEF Occupied
  <2>5. QED
    BY <2>1, <2>2, <2>3, <2>4 DEF Base
<1>3. QED
  BY <1>1, <1>2

(***************************************************************************)
(* The other streams stay as they are.                                     *)
(***************************************************************************)
Untouched(r) ==
  /\ \A x \in Ends : wire'[x][r] = wire[x][r] /\ slots'[x][r] = slots[x][r]
  /\ \A x \in Ends, d \in Channels :
        /\ On(x, d, r)' <=> On(x, d, r)
        /\ On(x, d, r) =>
             \A z \in Ends :
                /\ chan'[z][d] = chan[z][d]
                /\ sent'[z][d] = sent[z][d]
                /\ received'[z][d] = received[z][d]

LEMMA OtherStream ==
  ASSUME TypeOK, TypeOK', Base, Base', NEW e \in Ends, NEW s \in Sids, NEW c, Local(e, s, c),
         NEW r \in Sids, r # s
  PROVE  Untouched(r)
<1>1. \A x \in Ends : wire'[x][r] = wire[x][r] /\ slots'[x][r] = slots[x][r]
  BY LocalElsewhere
<1>2. ASSUME NEW x \in Ends, NEW d \in Channels, d # c
      PROVE  /\ chan'[x][d] = chan[x][d]
             /\ sent'[x][d] = sent[x][d]
             /\ received'[x][d] = received[x][d]
             /\ On(x, d, r)' <=> On(x, d, r)
  <2>1. chan'[x][d] = chan[x][d] /\ sent'[x][d] = sent[x][d] /\ received'[x][d] = received[x][d]
    BY <1>2, LocalElsewhere
  <2>2. QED
    BY <2>1 DEF On, Known
<1>3. ASSUME NEW x \in Ends, c \in Channels
      PROVE  ~On(x, c, r) /\ ~On(x, c, r)'
  <2>1. ~On(x, c, r)
    <3>1. Known(x, c) => On(x, c, s)
      BY <1>3, LocalChannel
    <3>2. QED
      BY <3>1 DEF On
  <2>2. On(e, c, s)'
    BY <1>3, LocalChannel
  <2>3. Peer(x) \in Ends /\ (e = x \/ e = Peer(x))
    BY PeerFacts
  <2>4. Known(x, c)' => On(x, c, s)'
    BY <1>3, <2>2, <2>3 DEF Base, OneStream, On
  <2>5. QED
    BY <2>1, <2>4 DEF On
<1>4. QED
  BY <1>1, <1>2, <1>3 DEF Untouched

LEMMA UntouchedStream ==
  ASSUME TypeOK, Base, NEW r \in Sids, Untouched(r), Stream(r)
  PROVE  Stream(r)'
<1>1. /\ \A x \in Ends : wire'[x][r] = wire[x][r] /\ slots'[x][r] = slots[x][r]
      /\ \A x \in Ends, d \in Channels : On(x, d, r)' <=> On(x, d, r)
      /\ \A x \in Ends, d \in Channels : On(x, d, r) =>
             \A z \in Ends :
                /\ chan'[z][d] = chan[z][d]
                /\ sent'[z][d] = sent[z][d]
                /\ received'[z][d] = received[z][d]
  BY DEF Untouched
<1>2. \A x \in Ends, d \in Channels : On(x, d, r) =>
         \A z \in Ends : Known(z, d)' <=> Known(z, d)
  BY <1>1 DEF Known
<1>3. \A x \in Ends : \A m \in Members(wire[x][r]) :
         m.kind # "confirm" => m.ch \in Channels /\ On(x, m.ch, r)
  BY DEF Base, Addressed
<1>4. \A x \in Ends : slots[x][r] # NoChannel => slots[x][r] \in Channels /\ On(x, slots[x][r], r)
  BY Slot
<1>5. Owner(r) \in Ends /\ \A x \in Ends : Peer(x) \in Ends
  BY PeerFacts, SidFacts
<1>6. Introduced(r)'
  <2>1. \A d : OpenComing(r, d)' <=> OpenComing(r, d)
    BY <1>1, <1>5 DEF OpenComing
  <2>2. QED
    BY <1>1, <1>2, <1>5, <2>1 DEF Stream, Introduced
<1>7. Waiting(r)'
  BY <1>1, <1>2, <1>5 DEF Stream, Waiting
<1>8. InSlot(r)'
  BY <1>1 DEF Stream, InSlot
<1>9. Flags(r)'
  BY <1>1, <1>5 DEF Stream, Flags
<1>10. Resets(r)'
  <2>1. \A x \in Ends : \A d : ResetComing(x, r, d)' <=> ResetComing(x, r, d)
    BY <1>1 DEF ResetComing
  <2>2. QED
    BY <1>1, <1>5, <2>1 DEF Stream, Resets
<1>11. Confirms(r)'
  <2>1. \A x \in Ends : ConfirmComing(x, r)' <=> ConfirmComing(x, r)
    BY <1>1 DEF ConfirmComing
  <2>2. \A x \in Ends : slots[x][r] # NoChannel =>
          \A z \in Ends : chan'[z][slots[x][r]] = chan[z][slots[x][r]]
    BY <1>1, <1>4
  <2>3. QED
    BY <1>1, <1>5, <2>1, <2>2 DEF Stream, Confirms
<1>12. Timely(r)'
  BY <1>1, <1>3, <1>5 DEF Stream, Timely
<1>13. Order(r)'
  BY <1>1 DEF Stream, Order
<1>14. Agreed(r)'
  <2>1. \A x \in Ends : \A m \in Members(wire[x][r]) : m.lossy => m.kind # "confirm"
    BY DEF Base, Addressed
  <2>2. \A x \in Ends, d \in Channels : On(x, d, r)' =>
          /\ Created(chan'[x][d].par) = chan'[x][d].par
          /\ Known(Peer(x), d)' => chan'[Peer(x)][d].par = chan'[x][d].par
    BY <1>1, <1>2, <1>5 DEF Stream, Agreed
  <2>3. \A x \in Ends : \A m \in Members(wire'[x][r]) :
          /\ m.kind = "open" => m.par = chan'[x][m.ch].par
          /\ m.lossy => chan'[x][m.ch].par.policy # "reliable"
    BY <1>1, <1>3, <2>1 DEF Stream, Agreed
  <2>4. QED
    BY <2>2, <2>3 DEF Agreed
<1>15. Counted(r)'
  BY <1>1, <1>5 DEF Stream, Counted
<1>16. QED
  BY <1>6, <1>7, <1>8, <1>9, <1>10, <1>11, <1>12, <1>13, <1>14, <1>15 DEF Stream

(***************************************************************************)
(* What follows from the invariant of a stream                             *)
(***************************************************************************)
LEMMA Either ==
  ASSUME NEW q \in Seq(Items), NEW a \in Members(q), NEW b \in Members(q), a # b
  PROVE  Precedes(q, a, b) \/ Precedes(q, b, a)
<1>1. PICK i \in 1 .. Len(q) : q[i] = a
  BY DEF Members
<1>2. PICK j \in 1 .. Len(q) : q[j] = b
  BY DEF Members
<1>3. i < j \/ j < i
  BY <1>1, <1>2, LenProperties
<1>4. QED
  BY <1>1, <1>2, <1>3 DEF Precedes

LEMMA FlagFacts ==
  ASSUME TypeOK, Base, NEW s \in Sids, Stream(s), NEW e \in Ends, NEW c \in Channels, On(e, c, s)
  PROVE  /\ chan[e][c].state \in {"open", "closing", "closed"}
         /\ chan[e][c].state = "closed" <=> chan[e][c].inReset /\ chan[e][c].outReset
         /\ slots[e][s] = c <=> chan[e][c].state # "closed"
         /\ chan[e][c].inReset => chan[e][c].state # "open"
         /\ chan[e][c].outReset => chan[Peer(e)][c].inReset
         /\ chan[Peer(e)][c].inReset => On(Peer(e), c, s) /\ chan[e][c].state # "open"
         /\ Known(Peer(e), c) => On(Peer(e), c, s)
         /\ On(Owner(s), c, s)
<1>1. chan[e][c] \in ChannelRecords /\ chan[e][c].state # "none"
  BY Sid DEF On, Known
<1>2. chan[e][c].state \in {"open", "closing", "closed"}
  BY <1>1, RecordFields DEF ChannelStates
<1>3. slots[e][s] = c <=> chan[e][c].state # "closed"
  BY <1>2 DEF Stream, InSlot
<1>4. /\ chan[e][c].state = "closed" <=> chan[e][c].inReset /\ chan[e][c].outReset
      /\ chan[e][c].inReset => chan[e][c].state # "open"
      /\ chan[e][c].outReset => chan[Peer(e)][c].inReset
      /\ chan[Peer(e)][c].inReset => chan[e][c].state # "open"
  BY DEF Stream, Flags
<1>5. chan[Peer(e)][c].inReset => Known(Peer(e), c)
  BY PeerFacts DEF Base, Fresh, Unknown
<1>6. On(Owner(s), c, s) /\ (Known(Peer(e), c) => On(Peer(e), c, s))
  BY PeerFacts DEF Base, OneStream, On
<1>7. QED
  BY <1>2, <1>3, <1>4, <1>5, <1>6

(* As long as the owner is not done with a channel no other is introduced.  *)
LEMMA NothingWaits ==
  ASSUME TypeOK, Base, NEW s \in Sids, Stream(s), NEW c \in Channels,
         Known(Owner(s), c), On(Peer(Owner(s)), c, s),
         ~(chan[Owner(s)][c].inReset /\ chan[Owner(s)][c].outReset)
  PROVE  \A d \in Channels : On(Owner(s), d, s) => Known(Peer(Owner(s)), d)
<1> DEFINE o == Owner(s)
<1>1. o \in Ends
  BY SidFacts
<1>2. On(o, c, s)
  BY <1>1, FlagFacts, PeerFacts
<1>3. slots[o][s] = c
  BY <1>1, <1>2, FlagFacts
<1>4. SUFFICES ASSUME NEW d \in Channels, On(o, d, s), ~Known(Peer(o), d)
               PROVE  FALSE
  OBVIOUS
<1>5. ~chan[o][d].inReset
  BY <1>4 DEF Stream, Waiting
<1>6. slots[o][s] = d
  BY <1>1, <1>4, <1>5, FlagFacts
<1>7. QED
  BY <1>3, <1>4, <1>6 DEF On

(* The OPEN of a channel is the last thing that is known of it.             *)
LEMMA OpenUnderWay ==
  ASSUME TypeOK, Base, NEW s \in Sids, Stream(s), NEW e \in Ends,
         NEW m \in Members(wire[e][s]), m.kind = "open"
  PROVE  /\ e = Owner(s)
         /\ m.ch \in Channels
         /\ On(e, m.ch, s)
         /\ OpenComing(s, m.ch)
         /\ ~Known(Peer(e), m.ch)
         /\ wire[Peer(e)][s] = <<>>
         /\ ~chan[e][m.ch].inReset
         /\ ~chan[e][m.ch].outReset
         /\ ~chan[e][m.ch].canUnordered
         /\ slots[e][s] = m.ch
<1>1. e = Owner(s) /\ m.ch \in Channels /\ On(e, m.ch, s)
  BY DEF Base, Addressed
<1>2. OpenComing(s, m.ch)
  BY <1>1 DEF OpenComing
<1>3. ~Known(Peer(e), m.ch)
  BY <1>1, <1>2 DEF Stream, Introduced
<1>4. /\ wire[Peer(e)][s] = <<>>
      /\ ~chan[e][m.ch].inReset
      /\ ~chan[e][m.ch].outReset
      /\ ~chan[e][m.ch].canUnordered
  BY <1>1, <1>3 DEF Stream, Waiting
<1>5. slots[e][s] = m.ch
  BY <1>1, <1>4, FlagFacts
<1>6. QED
  BY <1>1, <1>2, <1>3, <1>4, <1>5

(* An end that has an open channel has not reset the stream.                *)
LEMMA NoResetYet ==
  ASSUME TypeOK, Base, NEW s \in Sids, Stream(s), NEW e \in Ends, NEW c \in Channels,
         On(e, c, s), chan[e][c].state = "open"
  PROVE  \A m \in Members(wire[e][s]) : m.kind # "reset"
<1>1. SUFFICES ASSUME NEW m \in Members(wire[e][s]), m.kind = "reset"
               PROVE  FALSE
  OBVIOUS
<1>2. m.ch \in Channels /\ On(e, m.ch, s)
  BY <1>1 DEF Base, Addressed
<1>3. ResetComing(e, s, m.ch)
  BY <1>1 DEF ResetComing
<1>4. chan[e][m.ch].state # "open" /\ ~chan[Peer(e)][m.ch].inReset
  BY <1>2, <1>3 DEF Stream, Resets
<1>5. slots[e][s] = c
  BY FlagFacts
<1>6. chan[e][m.ch].outReset
  BY <1>2, <1>4, <1>5, FlagFacts
<1>7. QED
  BY <1>2, <1>4, <1>6, FlagFacts

(* What arrives at e, but for an OPEN and a confirmation, is of the channel *)
(* that e has in the slot.                                                  *)
LEMMA Meets ==
  ASSUME TypeOK, Base, NEW s \in Sids, Stream(s), NEW e \in Ends, NEW m,
         Arrival(e, s, m), m.kind \in {"ack", "data", "reset"}
  PROVE  /\ m.ch \in Channels
         /\ On(Peer(e), m.ch, s)
         /\ On(e, m.ch, s)
         /\ slots[e][s] = m.ch
         /\ ~chan[e][m.ch].inReset
<1> DEFINE y == Peer(e)
           q == wire[y][s]
<1>1. y \in Ends /\ Peer(y) = e /\ q \in Seq(Items)
  BY PeerFacts DEF TypeOK
<1>2. m \in Members(q)
  BY DEF Arrival
<1>3. /\ m.ch \in Channels /\ On(y, m.ch, s)
      /\ m.kind # "data" => ~m.unordered
  BY <1>1, <1>2 DEF Base, Addressed
<1>4. ~chan[e][m.ch].inReset
  BY <1>1, <1>2 DEF Stream, Timely
<1>5. Known(e, m.ch)
  <2>1. SUFFICES ASSUME ~Known(e, m.ch)
                 PROVE  FALSE
    OBVIOUS
  <2>2. y = Owner(s)
    <3>1. On(Owner(s), m.ch, s)
      BY <1>1, <1>3, FlagFacts
    <3>2. QED
      BY <1>1, <2>1, <3>1, PeerFacts, SidFacts DEF On
  <2>3. OpenComing(s, m.ch)
    BY <1>1, <1>3, <2>1, <2>2 DEF Stream, Introduced
  <2>4. PICK a \in Members(q) : a.kind = "open" /\ a.ch = m.ch
    BY <2>2, <2>3 DEF OpenComing
  <2>5. ~a.unordered
    BY <1>1, <2>4 DEF Base, Addressed
  <2>6. ~Precedes(q, m, a)
    BY <1>1, <1>2, <2>4 DEF Stream, Order
  <2>7. Precedes(q, a, m)
    BY <1>1, <1>2, <2>4, <2>6, Either
  <2>8. ~m.unordered
    BY <1>1, <1>2, <2>4, <2>7 DEF Stream, Order
  <2>9. a = m \/ Precedes(q, m, a) \/ Passes(m, a)
    BY <2>4 DEF Arrival
  <2>10. QED
    BY <2>4, <2>5, <2>6, <2>8, <2>9 DEF Passes
<1>6. On(e, m.ch, s)
  BY <1>1, <1>3, <1>5, FlagFacts
<1>7. slots[e][s] = m.ch
  BY <1>4, <1>3, <1>6, FlagFacts
<1>8. QED
  BY <1>3, <1>4, <1>6, <1>7

(***************************************************************************)
(* Steps that leave the flags alone and put nothing on the wire            *)
(***************************************************************************)
Kept(s) ==
  /\ \A x \in Ends, d \in Channels :
        /\ chan'[x][d].state = chan[x][d].state
        /\ chan'[x][d].sid = chan[x][d].sid
        /\ chan'[x][d].par = chan[x][d].par
        /\ chan'[x][d].inReset = chan[x][d].inReset
        /\ chan'[x][d].outReset = chan[x][d].outReset
  /\ \A x \in Ends : slots'[x][s] = slots[x][s]

Pruned(s) ==
  \A x \in Ends :
     /\ Members(wire'[x][s]) \subseteq Members(wire[x][s])
     /\ \A k \in Members(wire[x][s]) :
           k.kind \in {"open", "reset", "confirm"} => k \in Members(wire'[x][s])
     /\ \A a, b : Precedes(wire'[x][s], a, b) => Precedes(wire[x][s], a, b)

LEMMA KeptOn ==
  ASSUME NEW s, Kept(s)
  PROVE  \A x \in Ends, d \in Channels :
            (Known(x, d)' <=> Known(x, d)) /\ \A r : (On(x, d, r)' <=> On(x, d, r))
BY DEF Kept, Known, On

LEMMA KeptPruned ==
  ASSUME TypeOK, Base, NEW s \in Sids, Stream(s), Kept(s), Pruned(s)
  PROVE  /\ Introduced(s)' /\ InSlot(s)' /\ Flags(s)' /\ Resets(s)' /\ Confirms(s)'
         /\ Timely(s)' /\ Order(s)' /\ Agreed(s)'
<1>1. /\ \A x \in Ends, d \in Channels :
            /\ chan'[x][d].state = chan[x][d].state
            /\ chan'[x][d].par = chan[x][d].par
            /\ chan'[x][d].inReset = chan[x][d].inReset
            /\ chan'[x][d].outReset = chan[x][d].outReset
      /\ \A x \in Ends : slots'[x][s] = slots[x][s]
  BY DEF Kept
<1>2. \A x \in Ends, d \in Channels :
         (Known(x, d)' <=> Known(x, d)) /\ (On(x, d, s)' <=> On(x, d, s))
  BY KeptOn
<1>3. \A x \in Ends : Members(wire'[x][s]) \subseteq Members(wire[x][s])
  BY DEF Pruned
<1>4. \A x \in Ends : \A k \in Members(wire[x][s]) :
         k.kind \in {"open", "reset", "confirm"} => k \in Members(wire'[x][s])
  BY DEF Pruned
<1>5. Owner(s) \in Ends /\ \A x \in Ends : Peer(x) \in Ends
  BY PeerFacts, SidFacts
<1>6. \A x \in Ends : \A m \in Members(wire[x][s]) :
         m.kind # "confirm" => m.ch \in Channels /\ On(x, m.ch, s)
  BY DEF Base, Addressed
<1>7. Introduced(s)'
  <2>1. \A d : OpenComing(s, d)' <=> OpenComing(s, d)
    BY <1>3, <1>4, <1>5 DEF OpenComing
  <2>2. QED
    BY <1>2, <1>5, <2>1 DEF Stream, Introduced
<1>8. InSlot(s)'
  BY <1>1, <1>2 DEF Stream, InSlot
<1>9. Flags(s)'
  BY <1>1, <1>2, <1>5 DEF Stream, Flags
<1>10. Resets(s)'
  <2>1. \A x \in Ends : \A d : ResetComing(x, s, d)' <=> ResetComing(x, s, d)
    BY <1>3, <1>4 DEF ResetComing
  <2>2. QED
    BY <1>1, <1>2, <1>5, <2>1 DEF Stream, Resets
<1>11. Confirms(s)'
  <2>1. \A x \in Ends : ConfirmComing(x, s)' <=> ConfirmComing(x, s)
    BY <1>3, <1>4 DEF ConfirmComing
  <2>2. \A x \in Ends : slots[x][s] # NoChannel => slots[x][s] \in Channels
    BY Slot
  <2>3. QED
    BY <1>1, <1>5, <2>1, <2>2 DEF Stream, Confirms
<1>12. Timely(s)'
  <2>1. ASSUME NEW x \in Ends, NEW k \in Members(wire'[x][s]), k.kind # "confirm"
        PROVE  ~chan'[Peer(x)][k.ch].inReset
    <3>1. k \in Members(wire[x][s])
      BY <1>3
    <3>2. k.ch \in Channels /\ ~chan[Peer(x)][k.ch].inReset
      BY <1>6, <2>1, <3>1 DEF Stream, Timely
    <3>3. QED
      BY <1>1, <1>5, <3>2
  <2>2. QED
    BY <2>1 DEF Timely
<1>13. Order(s)'
  BY <1>3 DEF Pruned, Stream, Order
<1>14. Agreed(s)'
  <2>1. \A x \in Ends : \A m \in Members(wire[x][s]) : m.lossy => m.kind # "confirm"
    BY DEF Base, Addressed
  <2>2. \A x \in Ends, d \in Channels : On(x, d, s)' =>
          /\ Created(chan'[x][d].par) = chan'[x][d].par
          /\ Known(Peer(x), d)' => chan'[Peer(x)][d].par = chan'[x][d].par
    BY <1>1, <1>2, <1>5 DEF Stream, Agreed
  <2>3. \A x \in Ends : \A m \in Members(wire'[x][s]) :
          /\ m.kind = "open" => m.par = chan'[x][m.ch].par
          /\ m.lossy => chan'[x][m.ch].par.policy # "reliable"
    BY <1>1, <1>3, <1>6, <2>1 DEF Stream, Agreed
  <2>4. QED
    BY <2>2, <2>3 DEF Agreed
<1>15. QED
  BY <1>7, <1>8, <1>9, <1>10, <1>11, <1>12, <1>13, <1>14

(* An item of data or an ack is taken off the wire.                         *)
LEMMA TakenOff ==
  ASSUME NEW x \in Ends, NEW s \in Sids, NEW m, m.kind \in {"ack", "data"},
         Loses(x, s, m), Gains(Peer(x), s, {})
  PROVE  Pruned(s)
<1>1. ASSUME NEW z \in Ends, Gains(z, s, {})
      PROVE  /\ Members(wire'[z][s]) = Members(wire[z][s])
             /\ \A a, b : Precedes(wire'[z][s], a, b) => Precedes(wire[z][s], a, b)
  BY <1>1 DEF Gains
<1>2. /\ Members(wire'[x][s]) \subseteq Members(wire[x][s])
      /\ \A k \in Members(wire[x][s]) : k = m \/ k \in Members(wire'[x][s])
      /\ \A a, b : Precedes(wire'[x][s], a, b) => Precedes(wire[x][s], a, b)
  BY DEF Loses
<1>3. \A z \in Ends : z = x \/ z = Peer(x)
  BY PeerFacts
<1>4. /\ Members(wire'[Peer(x)][s]) = Members(wire[Peer(x)][s])
      /\ \A a, b : Precedes(wire'[Peer(x)][s], a, b) => Precedes(wire[Peer(x)][s], a, b)
  BY <1>1, PeerFacts
<1>5. QED
  BY <1>2, <1>3, <1>4 DEF Pruned

LEMMA EmptyStays ==
  ASSUME TypeOK, TypeOK', NEW x \in Ends, NEW s \in Sids, wire[x][s] = <<>>,
         Members(wire'[x][s]) \subseteq Members(wire[x][s])
  PROVE  wire'[x][s] = <<>>
<1>1. Members(wire'[x][s]) = {}
  BY EmptyWire
<1>2. wire'[x][s] \in Seq(Items)
  BY DEF TypeOK
<1>3. Len(wire'[x][s]) \in Nat
  BY <1>2, LenProperties
<1>4. ~(1 \in 1 .. Len(wire'[x][s]))
  BY <1>1, <1>2, Member
<1>5. Len(wire'[x][s]) = 0
  BY <1>3, <1>4
<1>6. QED
  BY <1>2, <1>5, EmptySeq

LEMMA NothingWaitsNow ==
  ASSUME TypeOK, Base, NEW s \in Sids, Stream(s), NEW e \in Ends, NEW c \in Channels,
         On(e, c, s), On(Peer(e), c, s), ~chan[e][c].inReset
  PROVE  \A d \in Channels : On(Owner(s), d, s) => Known(Peer(Owner(s)), d)
<1>1. e = Owner(s) \/ (Peer(e) = Owner(s) /\ e = Peer(Owner(s)))
  BY PeerFacts, SidFacts
<1>2. CASE e = Owner(s)
  BY <1>2, NothingWaits DEF On
<1>3. CASE Peer(e) = Owner(s) /\ e = Peer(Owner(s))
  <2>1. ~chan[Owner(s)][c].outReset
    BY <1>3, FlagFacts, SidFacts
  <2>2. Known(Owner(s), c)
    BY <1>3 DEF On
  <2>3. QED
    BY <1>3, <2>1, <2>2, NothingWaits
<1>4. QED
  BY <1>1, <1>2, <1>3

LEMMA WaitingNot ==
  ASSUME NEW s \in Sids,
         \A d \in Channels : On(Owner(s), d, s)' => Known(Peer(Owner(s)), d)'
  PROVE  Waiting(s)'
BY DEF Waiting

LEMMA CountedStays ==
  ASSUME NEW s \in Sids, Counted(s),
         \A x \in Ends, d \in Channels :
            On(x, d, s)' => On(x, d, s) /\ chan'[x][d].par = chan[x][d].par,
         \A x \in Ends, d \in Channels :
            (On(x, d, s) /\ chan[x][d].par.policy = "reliable") =>
               received'[Peer(x)][d] + Count(wire'[x][s], d) + sent[x][d] =
                 received[Peer(x)][d] + Count(wire[x][s], d) + sent'[x][d],
         TypeOK, TypeOK'
  PROVE  Counted(s)'
<1>1. SUFFICES ASSUME NEW x \in Ends, NEW d \in Channels, On(x, d, s)',
                      chan'[x][d].par.policy = "reliable"
               PROVE  received'[Peer(x)][d] + Count(wire'[x][s], d) = sent'[x][d]
  BY DEF Counted
<1>2. On(x, d, s) /\ chan[x][d].par.policy = "reliable"
  BY <1>1
<1>3. received[Peer(x)][d] + Count(wire[x][s], d) = sent[x][d]
  BY <1>2 DEF Counted
<1>4. /\ received[Peer(x)][d] \in Nat /\ sent[x][d] \in Nat
      /\ Count(wire[x][s], d) \in Nat /\ Count(wire'[x][s], d) \in Nat
  BY Numbers, Counts, PeerFacts, DataFinite DEF TypeOK
<1>5. received'[Peer(x)][d] \in Nat /\ sent'[x][d] \in Nat
  <2>1. received'[Peer(x)][d] \in 0 .. MaxSends /\ sent'[x][d] \in 0 .. MaxSends
    BY PeerFacts DEF TypeOK
  <2>2. QED
    BY <2>1, BoundsAssumption
<1>6. received'[Peer(x)][d] + Count(wire'[x][s], d) + sent[x][d] =
        received[Peer(x)][d] + Count(wire[x][s], d) + sent'[x][d]
  BY <1>2
<1>7. \A a, b, f, g, h, k \in Nat : a + b = f /\ g + h + f = a + b + k => g + h = k
  OBVIOUS
<1>8. QED
  BY <1>3, <1>4, <1>5, <1>6, <1>7

(* The channel in the slot may send unordered from now on.                  *)
LEMMA NoticeKept ==
  ASSUME TypeOK, Base, NEW e \in Ends, NEW s \in Sids, NEW c \in Channels, c = slots[e][s],
         Becomes(e, s, c, [chan[e][c] EXCEPT !.canUnordered = TRUE], slots[e][s])
  PROVE  Kept(s)
<1> DEFINE rec == [chan[e][c] EXCEPT !.canUnordered = TRUE]
<1>1. /\ rec.state = chan[e][c].state
      /\ rec.sid = chan[e][c].sid
      /\ rec.par = chan[e][c].par
      /\ rec.inReset = chan[e][c].inReset
      /\ rec.outReset = chan[e][c].outReset
  BY Sid, PermissionSet
<1>2. Becomes(e, s, c, rec, slots[e][s])
  OBVIOUS
<1> HIDE DEF rec
<1>3. \A x \in Ends, d \in Channels : chan'[x][d] = IF x = e /\ d = c THEN rec ELSE chan[x][d]
  BY <1>2 DEF Becomes
<1>4. \A x \in Ends : slots'[x][s] = slots[x][s]
  BY <1>2 DEF Becomes
<1>5. QED
  BY <1>1, <1>3, <1>4 DEF Kept

LEMMA AckStream ==
  ASSUME TypeOK, TypeOK', Base, NEW e \in Ends, NEW s \in Sids, NEW m \in Items,
         Stream(s), AckEffect(e, s, m)
  PROVE  Stream(s)'
<1> DEFINE y == Peer(e)
           c == m.ch
<1>1. /\ m.kind = "ack" /\ Arrival(e, s, m) /\ Gains(e, s, {}) /\ Loses(y, s, m)
      /\ UNCHANGED <<sent, received>>
  BY DEF AckEffect, history
<1>2. c \in Channels /\ On(y, c, s) /\ On(e, c, s) /\ slots[e][s] = c /\ ~chan[e][c].inReset
  BY <1>1, Meets
<1>3. Becomes(e, s, c, [chan[e][c] EXCEPT !.canUnordered = TRUE], slots[e][s])
  BY <1>2 DEF AckEffect
<1> HIDE DEF c
<1>4. Kept(s)
  BY <1>2, <1>3, NoticeKept
<1>5. Pruned(s)
  BY <1>1, TakenOff, PeerFacts
<1>6. /\ Introduced(s)' /\ InSlot(s)' /\ Flags(s)' /\ Resets(s)' /\ Confirms(s)'
      /\ Timely(s)' /\ Order(s)' /\ Agreed(s)'
  BY <1>4, <1>5, KeptPruned
<1>7. Waiting(s)'
  <2>1. \A d \in Channels : On(Owner(s), d, s) => Known(Peer(Owner(s)), d)
    BY <1>2, NothingWaitsNow
  <2>2. QED
    BY <1>4, <2>1, KeptOn, PeerFacts, SidFacts, WaitingNot
<1>8. Counted(s)'
  <2>1. \A k \in {} : k.kind # "data"
    OBVIOUS
  <2>2. \A d : Count(wire'[e][s], d) = Count(wire[e][s], d)
    BY <1>1, <2>1, GainsNoData
  <2>3. \A d : Count(wire'[y][s], d) = Count(wire[y][s], d)
    BY <1>1, LosesCount, PeerFacts
  <2>4. \A x \in Ends, d \in Channels :
          /\ Count(wire'[x][s], d) = Count(wire[x][s], d)
          /\ received'[Peer(x)][d] = received[Peer(x)][d] /\ sent'[x][d] = sent[x][d]
    BY <1>1, <2>2, <2>3, PeerFacts
  <2>5. \A x \in Ends, d \in Channels :
            On(x, d, s)' => On(x, d, s) /\ chan'[x][d].par = chan[x][d].par
    BY <1>4, KeptOn DEF Kept
  <2>6. QED
    BY <2>4, <2>5, CountedStays DEF Stream
<1>9. QED
  BY <1>6, <1>7, <1>8 DEF Stream

LEMMA DataStream ==
  ASSUME TypeOK, TypeOK', Base, NEW e \in Ends, NEW s \in Sids, NEW m \in Items,
         Stream(s), DataEffect(e, s, m)
  PROVE  Stream(s)' /\ slots[e][s] = m.ch
<1> DEFINE y == Peer(e)
           c == m.ch
<1>1. /\ m.kind = "data" /\ Arrival(e, s, m) /\ Gains(e, s, {}) /\ Loses(y, s, m)
      /\ UNCHANGED sent
  BY DEF DataEffect
<1>2. c \in Channels /\ On(y, c, s) /\ On(e, c, s) /\ slots[e][s] = c /\ ~chan[e][c].inReset
  BY <1>1, Meets
<1>3. Becomes(e, s, c, [chan[e][c] EXCEPT !.canUnordered = TRUE], slots[e][s])
  BY <1>2 DEF DataEffect
<1>4. received' = [received EXCEPT ![e][c] = received[e][c] + 1]
  BY <1>2 DEF DataEffect
<1>5. \A d : Units(m, d) = IF d = c THEN 1 ELSE 0
  BY <1>1 DEF Units
<1> HIDE DEF c
<1>6. Kept(s)
  BY <1>2, <1>3, NoticeKept
<1>7. Pruned(s)
  BY <1>1, TakenOff, PeerFacts
<1>8. /\ Introduced(s)' /\ InSlot(s)' /\ Flags(s)' /\ Resets(s)' /\ Confirms(s)'
      /\ Timely(s)' /\ Order(s)' /\ Agreed(s)'
  BY <1>6, <1>7, KeptPruned
<1>9. Waiting(s)'
  <2>1. \A d \in Channels : On(Owner(s), d, s) => Known(Peer(Owner(s)), d)
    BY <1>2, NothingWaitsNow
  <2>2. QED
    BY <1>6, <2>1, KeptOn, PeerFacts, SidFacts, WaitingNot
<1>10. Counted(s)'
  <2>1. \A k \in {} : k.kind # "data"
    OBVIOUS
  <2>2. \A d : Count(wire'[e][s], d) = Count(wire[e][s], d)
    BY <1>1, <2>1, GainsNoData
  <2>3. \A d : Count(wire'[y][s], d) = Count(wire[y][s], d) - IF d = c THEN 1 ELSE 0
    BY <1>1, <1>5 DEF Loses
  <2>4. received \in [Ends -> [Channels -> 0 .. MaxSends]]
    BY DEF TypeOK
  <2>5. \A x \in Ends, d \in Channels :
          received'[x][d] = IF x = e /\ d = c THEN received[e][c] + 1 ELSE received[x][d]
    BY <1>2, <1>4, <2>4
  <2>6. /\ Peer(y) = e /\ y # e /\ y \in Ends
        /\ \A x \in Ends : x = e \/ x = y
    BY PeerFacts
  <2>7. ASSUME NEW x \in Ends, NEW d \in Channels
        PROVE  received'[Peer(x)][d] + Count(wire'[x][s], d) + sent[x][d] =
                 received[Peer(x)][d] + Count(wire[x][s], d) + sent'[x][d]
    <3>1. /\ received[e][d] \in Nat /\ received[y][d] \in Nat
          /\ sent[x][d] \in Nat /\ sent'[x][d] = sent[x][d]
      BY <1>1, <2>6, Numbers
    <3>2. Count(wire[e][s], d) \in Nat /\ Count(wire[y][s], d) \in Nat
      BY <2>6, Counts
    <3> HIDE DEF y
    <3>3. CASE x = e
      <4>1. Peer(x) = y
        BY <3>3 DEF y
      <4>2. QED
        BY <2>2, <2>5, <2>6, <3>1, <3>2, <3>3, <4>1
    <3>4. CASE x = y
      <4>1. received'[e][d] + Count(wire'[y][s], d) = received[e][d] + Count(wire[y][s], d)
        <5>1. CASE d = c
          BY <2>3, <2>5, <3>1, <3>2, <5>1
        <5>2. CASE d # c
          BY <2>3, <2>5, <3>1, <3>2, <5>2
        <5>3. QED
          BY <5>1, <5>2
      <4>2. QED
        BY <2>6, <3>1, <3>4, <4>1
    <3>5. QED
      BY <2>6, <3>3, <3>4
  <2>8. \A x \in Ends, d \in Channels :
            On(x, d, s)' => On(x, d, s) /\ chan'[x][d].par = chan[x][d].par
    BY <1>6, KeptOn DEF Kept
  <2>9. QED
    BY <2>7, <2>8, CountedStays DEF Stream
<1>11. QED
  BY <1>2, <1>8, <1>9, <1>10 DEF Stream, c

LEMMA LoseStream ==
  ASSUME TypeOK, TypeOK', Base, NEW e \in Ends, NEW s \in Sids, NEW m \in Items,
         Stream(s), LoseEffect(e, s, m)
  PROVE  Stream(s)'
<1> DEFINE y == Peer(e)
<1>1. /\ m.lossy /\ Gains(y, s, {}) /\ Loses(e, s, m) /\ UNCHANGED <<sent, received>>
      /\ Becomes(e, s, NoChannel, chan[e][NoChannel], slots[e][s])
  BY DEF LoseEffect, history
<1>2. m \in Members(wire[e][s])
  BY <1>1 DEF Loses
<1>3. m.kind = "data" /\ m.ch \in Channels /\ On(e, m.ch, s)
  BY <1>1, <1>2 DEF Base, Addressed
<1>4. /\ \A x \in Ends, d \in Channels : chan'[x][d] = chan[x][d]
      /\ \A x \in Ends : slots'[x][s] = slots[x][s]
  BY <1>1, NoChannelOut DEF Becomes
<1>5. Kept(s)
  BY <1>4 DEF Kept
<1>6. Pruned(s)
  BY <1>1, <1>3, TakenOff
<1>7. /\ Introduced(s)' /\ InSlot(s)' /\ Flags(s)' /\ Resets(s)' /\ Confirms(s)'
      /\ Timely(s)' /\ Order(s)' /\ Agreed(s)'
  BY <1>5, <1>6, KeptPruned
<1>8. Waiting(s)'
  <2>1. SUFFICES ASSUME NEW d \in Channels, On(Owner(s), d, s)', ~Known(Peer(Owner(s)), d)'
                 PROVE  /\ wire'[Peer(Owner(s))][s] = <<>>
                        /\ ~chan'[Owner(s)][d].inReset
                        /\ ~chan'[Owner(s)][d].outReset
                        /\ ~chan'[Owner(s)][d].canUnordered
    BY DEF Waiting
  <2>2. Owner(s) \in Ends /\ Peer(Owner(s)) \in Ends
    BY PeerFacts, SidFacts
  <2>3. On(Owner(s), d, s) /\ ~Known(Peer(Owner(s)), d)
    BY <1>5, <2>1, <2>2, KeptOn
  <2>4. /\ wire[Peer(Owner(s))][s] = <<>>
        /\ ~chan[Owner(s)][d].inReset
        /\ ~chan[Owner(s)][d].outReset
        /\ ~chan[Owner(s)][d].canUnordered
    BY <2>3 DEF Stream, Waiting
  <2>5. wire'[Peer(Owner(s))][s] = <<>>
    BY <1>6, <2>2, <2>4, EmptyStays DEF Pruned
  <2>6. QED
    BY <1>4, <2>2, <2>4, <2>5
<1>9. Counted(s)'
  <2>1. \A k \in {} : k.kind # "data"
    OBVIOUS
  <2>2. \A d : Count(wire'[y][s], d) = Count(wire[y][s], d)
    BY <1>1, <2>1, GainsNoData, PeerFacts
  <2>3. ASSUME NEW d, d # m.ch
        PROVE  Count(wire'[e][s], d) = Count(wire[e][s], d)
    <3>1. Units(m, d) = 0
      BY <2>3 DEF Units
    <3>2. Count(wire'[e][s], d) = Count(wire[e][s], d) - 0
      BY <1>1, <3>1 DEF Loses
    <3>3. QED
      BY <3>2, Counts
  <2>4. chan[e][m.ch].par.policy # "reliable"
    BY <1>1, <1>2 DEF Stream, Agreed
  <2>5. \A x \in Ends, d \in Channels :
          /\ (On(x, d, s) /\ chan[x][d].par.policy = "reliable") =>
                Count(wire'[x][s], d) = Count(wire[x][s], d)
          /\ received'[Peer(x)][d] = received[Peer(x)][d] /\ sent'[x][d] = sent[x][d]
    BY <1>1, <2>2, <2>3, <2>4, PeerFacts
  <2>6. \A x \in Ends, d \in Channels :
            On(x, d, s)' => On(x, d, s) /\ chan'[x][d].par = chan[x][d].par
    BY <1>5, KeptOn DEF Kept
  <2>7. QED
    BY <2>5, <2>6, CountedStays DEF Stream
<1>10. QED
  BY <1>7, <1>8, <1>9 DEF Stream

(***************************************************************************)
(* Sending and closing                                                     *)
(***************************************************************************)
(* What an end that has an open channel puts on the wire keeps the order.   *)
LEMMA OpenOrder ==
  ASSUME TypeOK, Base, NEW s \in Sids, Stream(s), NEW e \in Ends, NEW c \in Channels,
         On(e, c, s), chan[e][c].state = "open", NEW m,
         Gains(e, s, {m}), Gains(Peer(e), s, {}), m.kind \in {"data", "reset"},
         chan[e][c].canUnordered \/ ~m.unordered
  PROVE  Order(s)'
<1>1. SUFFICES ASSUME NEW x \in Ends,
                      NEW a \in Members(wire'[x][s]), NEW b \in Members(wire'[x][s]),
                      Precedes(wire'[x][s], a, b)
               PROVE  /\ a.kind = "reset" => b.kind = "confirm"
                      /\ b.kind = "open" => a.kind = "confirm"
                      /\ a.kind = "open" => b.kind # "confirm" /\ ~b.unordered
                      /\ a.kind = "confirm" => b.kind # "confirm"
  BY DEF Order
<1>2. x = e \/ x = Peer(e)
  BY PeerFacts
<1>3. ASSUME Precedes(wire[x][s], a, b)
      PROVE  a \in Members(wire[x][s]) /\ b \in Members(wire[x][s])
  BY <1>3 DEF Precedes, Members
<1>4. CASE Precedes(wire[x][s], a, b)
  BY <1>3, <1>4 DEF Stream, Order
<1>5. CASE ~Precedes(wire[x][s], a, b)
  <2>1. x = e
    BY <1>1, <1>2, <1>5 DEF Gains
  <2>2. b = m /\ (a \in Members(wire[e][s]) \/ (a.kind = "confirm" /\ b.kind = "reset"))
    <3>1. b \in {m} /\ (a \in Members(wire[e][s]) \/ (a.kind = "confirm" /\ b.kind = "reset"))
      BY <1>1, <1>5, <2>1 DEF Gains
    <3>2. QED
      BY <3>1
  <2>3. CASE a \in Members(wire[e][s])
    <3>1. a.kind # "reset"
      BY <2>3, NoResetYet
    <3>2. ASSUME a.kind = "open"
          PROVE  ~b.unordered
      <4>1. a.ch \in Channels /\ slots[e][s] = a.ch /\ ~chan[e][a.ch].canUnordered
        BY <2>3, <3>2, OpenUnderWay
      <4>2. slots[e][s] = c
        BY FlagFacts
      <4>3. QED
        BY <2>2, <4>1, <4>2
    <3>3. QED
      BY <2>2, <3>1, <3>2
  <2>4. CASE a.kind = "confirm" /\ b.kind = "reset"
    BY <2>2, <2>4
  <2>5. QED
    BY <2>2, <2>3, <2>4
<1>6. QED
  BY <1>4, <1>5

(* An end that waits for the OPEN has no open channel.                      *)
LEMMA OpenWaits ==
  ASSUME TypeOK, TypeOK', Base, NEW s \in Sids, Stream(s), NEW e \in Ends, NEW c \in Channels,
         On(e, c, s), chan[e][c].state = "open", Gains(Peer(e), s, {}),
         \A x \in Ends, d \in Channels :
            /\ Known(x, d)' <=> Known(x, d)
            /\ On(x, d, s)' <=> On(x, d, s)
            /\ chan'[x][d].canUnordered = chan[x][d].canUnordered
            /\ chan'[x][d].inReset = chan[x][d].inReset
            /\ chan'[x][d].outReset = chan[x][d].outReset
  PROVE  Waiting(s)'
<1> DEFINE o == Owner(s)
<1>1. o \in Ends /\ Peer(o) \in Ends /\ (e = o \/ e = Peer(o))
  BY PeerFacts, SidFacts
<1>2. SUFFICES ASSUME NEW d \in Channels, On(o, d, s)', ~Known(Peer(o), d)'
               PROVE  /\ wire'[Peer(o)][s] = <<>>
                      /\ ~chan'[o][d].inReset
                      /\ ~chan'[o][d].outReset
                      /\ ~chan'[o][d].canUnordered
  BY DEF Waiting
<1>3. On(o, d, s) /\ ~Known(Peer(o), d)
  BY <1>1, <1>2
<1>4. /\ wire[Peer(o)][s] = <<>>
      /\ ~chan[o][d].inReset
      /\ ~chan[o][d].outReset
      /\ ~chan[o][d].canUnordered
  BY <1>3 DEF Stream, Waiting
<1>5. e = o
  <2>1. SUFFICES ASSUME e = Peer(o)
                 PROVE  FALSE
    BY <1>1
  <2>2. Peer(e) = o /\ On(o, c, s)
    BY <1>1, <2>1, FlagFacts, PeerFacts
  <2>3. ~chan[o][c].inReset
    BY <2>2, FlagFacts
  <2>4. Known(Peer(o), d)
    BY <1>1, <1>3, <2>1, <2>2, <2>3, NothingWaits DEF On
  <2>5. QED
    BY <1>3, <2>4
<1>6. wire'[Peer(o)][s] = <<>>
  <2>1. Members(wire'[Peer(o)][s]) \subseteq Members(wire[Peer(o)][s])
    BY <1>5 DEF Gains
  <2>2. QED
    BY <1>1, <1>4, <2>1, EmptyStays
<1>7. QED
  BY <1>1, <1>4, <1>6

LEMMA SendStream ==
  ASSUME TypeOK, TypeOK', Base, NEW e \in Ends, NEW s \in Sids, NEW c \in Channels,
         Stream(s), SendEffect(e, s, c)
  PROVE  Stream(s)'
<1> DEFINE m == Data(e, c)
           y == Peer(e)
<1>1. /\ On(e, c, s) /\ chan[e][c].state = "open" /\ Gains(e, s, {m}) /\ Gains(y, s, {})
      /\ Becomes(e, s, c, chan[e][c], slots[e][s]) /\ UNCHANGED received
      /\ sent' = [sent EXCEPT ![e][c] = sent[e][c] + 1]
  BY DEF SendEffect
<1>2. /\ m \in Items /\ m.kind = "data" /\ m.ch = c
      /\ m.unordered => chan[e][c].canUnordered
      /\ m.lossy => chan[e][c].par.policy # "reliable"
  BY DataItem
<1>3. y \in Ends /\ y # e /\ Peer(y) = e /\ \A x \in Ends : x = e \/ x = y
  BY PeerFacts
<1> HIDE DEF m
<1>4. /\ \A x \in Ends, d \in Channels : chan'[x][d] = chan[x][d]
      /\ \A x \in Ends : slots'[x][s] = slots[x][s]
  BY <1>1 DEF Becomes
<1>5. \A x \in Ends, d \in Channels :
         (Known(x, d)' <=> Known(x, d)) /\ (On(x, d, s)' <=> On(x, d, s))
  BY <1>4 DEF Known, On
<1>6. /\ \A k : k \in Members(wire'[e][s]) <=> k \in Members(wire[e][s]) \/ k = m
      /\ \A k : k \in Members(wire'[y][s]) <=> k \in Members(wire[y][s])
  BY <1>1 DEF Gains
<1>7. \A x \in Ends : \A k : k \in Members(wire'[x][s]) /\ k.kind # "data" <=>
                             k \in Members(wire[x][s]) /\ k.kind # "data"
  BY <1>2, <1>3, <1>6
<1>8. Owner(s) \in Ends /\ \A x \in Ends : Peer(x) \in Ends
  BY PeerFacts, SidFacts
<1>9. Introduced(s)'
  <2>1. \A d : OpenComing(s, d)' <=> OpenComing(s, d)
    BY <1>7, <1>8 DEF OpenComing
  <2>2. QED
    BY <1>5, <1>8, <2>1 DEF Stream, Introduced
<1>10. Waiting(s)'
  BY <1>1, <1>4, <1>5, OpenWaits
<1>11. InSlot(s)'
  BY <1>4, <1>5 DEF Stream, InSlot
<1>12. Flags(s)'
  BY <1>4, <1>5, <1>8 DEF Stream, Flags
<1>13. Resets(s)'
  <2>1. \A x \in Ends : \A d : ResetComing(x, s, d)' <=> ResetComing(x, s, d)
    BY <1>7 DEF ResetComing
  <2>2. QED
    BY <1>4, <1>5, <1>8, <2>1 DEF Stream, Resets
<1>14. Confirms(s)'
  <2>1. \A x \in Ends : ConfirmComing(x, s)' <=> ConfirmComing(x, s)
    BY <1>7 DEF ConfirmComing
  <2>2. \A x \in Ends : slots[x][s] # NoChannel => slots[x][s] \in Channels
    BY Slot
  <2>3. QED
    BY <1>4, <1>8, <2>1, <2>2 DEF Stream, Confirms
<1>15. Timely(s)'
  <2>1. \A x \in Ends : \A k \in Members(wire[x][s]) :
           k.kind # "confirm" => k.ch \in Channels /\ ~chan[Peer(x)][k.ch].inReset
    BY DEF Stream, Timely, Base, Addressed
  <2>2. ~chan[y][c].inReset
    BY <1>1, FlagFacts
  <2>3. ASSUME NEW x \in Ends, NEW k \in Members(wire'[x][s]), k.kind # "confirm"
        PROVE  ~chan'[Peer(x)][k.ch].inReset
    <3>1. k \in Members(wire[x][s]) \/ (x = e /\ k = m)
      BY <1>3, <1>6
    <3>2. CASE k \in Members(wire[x][s])
      BY <1>4, <1>8, <2>1, <2>3, <3>2
    <3>3. CASE x = e /\ k = m
      BY <1>2, <1>3, <1>4, <2>2, <3>3
    <3>4. QED
      BY <3>1, <3>2, <3>3
  <2>4. QED
    BY <2>3 DEF Timely
<1>16. Order(s)'
  BY <1>1, <1>2, OpenOrder
<1>17. Agreed(s)'
  <2>1. \A x \in Ends, d \in Channels : On(x, d, s)' =>
          /\ Created(chan'[x][d].par) = chan'[x][d].par
          /\ Known(Peer(x), d)' => chan'[Peer(x)][d].par = chan'[x][d].par
    BY <1>4, <1>5, <1>8 DEF Stream, Agreed
  <2>2. \A x \in Ends : \A k \in Members(wire[x][s]) :
           /\ k.kind # "confirm" => k.ch \in Channels
           /\ k.kind = "confirm" => ~k.lossy
           /\ k.kind = "open" => k.par = chan[x][k.ch].par
           /\ k.lossy => chan[x][k.ch].par.policy # "reliable"
    BY DEF Stream, Agreed, Base, Addressed
  <2>3. ASSUME NEW x \in Ends, NEW k \in Members(wire'[x][s])
        PROVE  /\ k.kind = "open" => k.par = chan'[x][k.ch].par
               /\ k.lossy => chan'[x][k.ch].par.policy # "reliable"
    <3>1. k \in Members(wire[x][s]) \/ (x = e /\ k = m)
      BY <1>3, <1>6
    <3>2. CASE k \in Members(wire[x][s])
      BY <1>4, <2>2, <2>3, <3>2
    <3>3. CASE x = e /\ k = m
      BY <1>2, <1>4, <3>3
    <3>4. QED
      BY <3>1, <3>2, <3>3
  <2>4. QED
    BY <2>1, <2>3 DEF Agreed
<1>18. Counted(s)'
  <2>1. \A d : Count(wire'[e][s], d) = Count(wire[e][s], d) + IF d = c THEN 1 ELSE 0
    <3>1. \A d : (\E n \in {m} : Units(n, d) = 1) <=> d = c
      BY <1>2 DEF Units
    <3>2. QED
      BY <1>1, <3>1 DEF Gains
  <2>2. \A d : Count(wire'[y][s], d) = Count(wire[y][s], d)
    <3>1. \A k \in {} : k.kind # "data"
      OBVIOUS
    <3>2. QED
      BY <1>1, <1>3, <3>1, GainsNoData
  <2>3. sent \in [Ends -> [Channels -> 0 .. MaxSends]]
    BY DEF TypeOK
  <2>4. \A x \in Ends, d \in Channels :
          sent'[x][d] = IF x = e /\ d = c THEN sent[e][c] + 1 ELSE sent[x][d]
    BY <1>1, <2>3
  <2>5. ASSUME NEW x \in Ends, NEW d \in Channels
        PROVE  received'[Peer(x)][d] + Count(wire'[x][s], d) + sent[x][d] =
                 received[Peer(x)][d] + Count(wire[x][s], d) + sent'[x][d]
    <3>1. /\ received[Peer(x)][d] \in Nat /\ received'[Peer(x)][d] = received[Peer(x)][d]
          /\ sent[x][d] \in Nat
      BY <1>1, <1>8, Numbers
    <3>2. Count(wire[e][s], d) \in Nat /\ Count(wire[y][s], d) \in Nat
      BY <1>3, Counts
    <3>3. CASE x = e /\ d = c
      BY <2>1, <2>4, <3>1, <3>2, <3>3
    <3>4. CASE x = e /\ d # c
      BY <2>1, <2>4, <3>1, <3>2, <3>4
    <3>5. CASE x = y
      BY <1>3, <2>2, <2>4, <3>1, <3>2, <3>5
    <3>6. QED
      BY <1>3, <3>3, <3>4, <3>5
  <2>6. QED
    BY <1>4, <1>5, <2>5, CountedStays DEF Stream
<1>19. QED
  BY <1>9, <1>10, <1>11, <1>12, <1>13, <1>14, <1>15, <1>16, <1>17, <1>18 DEF Stream

(* The state, the flags and the slot of one channel change, and no more.    *)
Turns(e, s, c, r, slot) ==
  /\ \A x \in Ends, d \in Channels :
        /\ Known(x, d)' <=> Known(x, d)
        /\ On(x, d, s)' <=> On(x, d, s)
        /\ chan'[x][d].par = chan[x][d].par
        /\ chan'[x][d].canUnordered = chan[x][d].canUnordered
        /\ x # e \/ d # c =>
              /\ chan'[x][d].state = chan[x][d].state
              /\ chan'[x][d].inReset = chan[x][d].inReset
              /\ chan'[x][d].outReset = chan[x][d].outReset
  /\ chan'[e][c].state = r.state
  /\ chan'[e][c].inReset = r.inReset
  /\ chan'[e][c].outReset = r.outReset
  /\ \A x \in Ends : x # e => slots'[x][s] = slots[x][s]
  /\ slots'[e][s] = slot

LEMMA RecordTurns ==
  ASSUME TypeOK, NEW e \in Ends, NEW s \in Sids, NEW c \in Channels, On(e, c, s), NEW r, NEW slot,
         r.state # "none", r.sid = chan[e][c].sid, r.par = chan[e][c].par,
         r.canUnordered = chan[e][c].canUnordered, Becomes(e, s, c, r, slot)
  PROVE  Turns(e, s, c, r, slot)
<1>1. /\ \A x \in Ends, d \in Channels : chan'[x][d] = IF x = e /\ d = c THEN r ELSE chan[x][d]
      /\ \A x \in Ends : slots'[x][s] = IF x = e THEN slot ELSE slots[x][s]
  BY DEF Becomes
<1>2. Known(e, c) /\ chan[e][c].sid = s
  BY DEF On
<1>3. \A x \in Ends, d \in Channels :
         (Known(x, d)' <=> Known(x, d)) /\ (On(x, d, s)' <=> On(x, d, s))
  BY <1>1, <1>2 DEF Known, On
<1>4. QED
  BY <1>1, <1>3 DEF Turns

LEMMA AgreedStays ==
  ASSUME TypeOK, Base, NEW s \in Sids, Stream(s), NEW e \in Ends, NEW c \in Channels,
         NEW r, NEW slot, Turns(e, s, c, r, slot),
         \A x \in Ends : \A k \in Members(wire'[x][s]) :
            k \in Members(wire[x][s]) \/ (k.kind # "open" /\ ~k.lossy)
  PROVE  Agreed(s)'
<1>1. \A x \in Ends, d \in Channels :
        /\ Known(x, d)' <=> Known(x, d)
        /\ On(x, d, s)' <=> On(x, d, s)
        /\ chan'[x][d].par = chan[x][d].par
  BY DEF Turns
<1>2. \A x \in Ends : Peer(x) \in Ends
  BY PeerFacts
<1>3. \A x \in Ends, d \in Channels : On(x, d, s)' =>
        /\ Created(chan'[x][d].par) = chan'[x][d].par
        /\ Known(Peer(x), d)' => chan'[Peer(x)][d].par = chan'[x][d].par
  BY <1>1, <1>2 DEF Stream, Agreed
<1>4. \A x \in Ends : \A k \in Members(wire[x][s]) :
         /\ k.kind # "confirm" => k.ch \in Channels
         /\ k.kind = "confirm" => ~k.lossy
         /\ k.kind = "open" => k.par = chan[x][k.ch].par
         /\ k.lossy => chan[x][k.ch].par.policy # "reliable"
  BY DEF Stream, Agreed, Base, Addressed
<1>5. \A x \in Ends : \A k \in Members(wire'[x][s]) :
         /\ k.kind = "open" => k.par = chan'[x][k.ch].par
         /\ k.lossy => chan'[x][k.ch].par.policy # "reliable"
  BY <1>1, <1>4
<1>6. QED
  BY <1>3, <1>5 DEF Agreed

LEMMA IntroducedStays ==
  ASSUME NEW s \in Sids, Stream(s), NEW e \in Ends, NEW c \in Channels,
         NEW r, NEW slot, Turns(e, s, c, r, slot),
         \A x \in Ends : \A k : k.kind = "open" =>
            (k \in Members(wire'[x][s]) <=> k \in Members(wire[x][s]))
  PROVE  Introduced(s)'
<1>1. \A x \in Ends, d \in Channels :
        (Known(x, d)' <=> Known(x, d)) /\ (On(x, d, s)' <=> On(x, d, s))
  BY DEF Turns
<1>2. Owner(s) \in Ends /\ Peer(Owner(s)) \in Ends
  BY PeerFacts, SidFacts
<1>3. \A d : OpenComing(s, d)' <=> OpenComing(s, d)
  BY <1>2 DEF OpenComing
<1>4. QED
  BY <1>1, <1>2, <1>3 DEF Stream, Introduced

(* No data is sent, received or lost.                                       *)
LEMMA CountedAsBefore ==
  ASSUME TypeOK, TypeOK', NEW s \in Sids, Stream(s), NEW e \in Ends, NEW c \in Channels,
         NEW r, NEW slot, Turns(e, s, c, r, slot), UNCHANGED <<sent, received>>,
         \A x \in Ends : \A d : Count(wire'[x][s], d) = Count(wire[x][s], d)
  PROVE  Counted(s)'
<1>1. \A x \in Ends, d \in Channels :
         On(x, d, s)' => On(x, d, s) /\ chan'[x][d].par = chan[x][d].par
  BY DEF Turns
<1>2. \A x \in Ends, d \in Channels :
          received'[Peer(x)][d] + Count(wire'[x][s], d) + sent[x][d] =
            received[Peer(x)][d] + Count(wire[x][s], d) + sent'[x][d]
  OBVIOUS
<1>3. QED
  BY <1>1, <1>2, CountedStays DEF Stream

LEMMA CloseStream ==
  ASSUME TypeOK, TypeOK', Base, NEW e \in Ends, NEW s \in Sids, NEW c \in Channels,
         Stream(s), CloseEffect(e, s, c)
  PROVE  Stream(s)'
<1> DEFINE m == Control("reset", c, NoParameters)
           r == [chan[e][c] EXCEPT !.state = "closing"]
           y == Peer(e)
<1>1. /\ On(e, c, s) /\ chan[e][c].state = "open" /\ Gains(e, s, {m}) /\ Gains(y, s, {})
      /\ Becomes(e, s, c, r, slots[e][s]) /\ UNCHANGED <<sent, received>>
  BY DEF CloseEffect, history
<1>2. m \in Items /\ m.kind = "reset" /\ m.ch = c /\ ~m.unordered /\ ~m.lossy
  BY ResetItem
<1>3. y \in Ends /\ y # e /\ Peer(y) = e /\ \A x \in Ends : x = e \/ x = y
  BY PeerFacts
<1>4. /\ r.state = "closing" /\ r.sid = chan[e][c].sid /\ r.par = chan[e][c].par
      /\ r.canUnordered = chan[e][c].canUnordered
      /\ r.inReset = chan[e][c].inReset /\ r.outReset = chan[e][c].outReset
  BY Sid, StateSet DEF ChannelStates
<1> HIDE DEF m, r, y
<1>5. Turns(e, s, c, r, slots[e][s])
  BY <1>1, <1>4, RecordTurns
<1>6. /\ \A x \in Ends, d \in Channels :
            /\ Known(x, d)' <=> Known(x, d)
            /\ On(x, d, s)' <=> On(x, d, s)
            /\ chan'[x][d].canUnordered = chan[x][d].canUnordered
            /\ chan'[x][d].inReset = chan[x][d].inReset
            /\ chan'[x][d].outReset = chan[x][d].outReset
            /\ x # e \/ d # c => chan'[x][d].state = chan[x][d].state
      /\ chan'[e][c].state = "closing"
      /\ \A x \in Ends : slots'[x][s] = slots[x][s]
  BY <1>4, <1>5 DEF Turns
<1>7. /\ \A k : k \in Members(wire'[e][s]) <=> k \in Members(wire[e][s]) \/ k = m
      /\ \A k : k \in Members(wire'[y][s]) <=> k \in Members(wire[y][s])
  BY <1>1 DEF Gains
<1>8. \A x \in Ends : \A k : k \in Members(wire'[x][s]) <=>
                             k \in Members(wire[x][s]) \/ (x = e /\ k = m)
  BY <1>3, <1>7
<1>9. ~chan[e][c].inReset \/ ~chan[e][c].outReset
  BY <1>1, FlagFacts
<1>10. ~chan[y][c].inReset /\ slots[e][s] = c
  BY <1>1, FlagFacts DEF y
<1>11. Introduced(s)'
  BY <1>2, <1>5, <1>8, IntroducedStays
<1>12. Waiting(s)'
  BY <1>1, <1>6, OpenWaits DEF y
<1>13. InSlot(s)'
  <2>1. ASSUME NEW x \in Ends, NEW d \in Channels, On(x, d, s)'
        PROVE  slots'[x][s] = d <=> chan'[x][d].state \in {"open", "closing"}
    <3>1. slots[x][s] = d <=> chan[x][d].state \in {"open", "closing"}
      BY <1>6, <2>1 DEF Stream, InSlot
    <3>2. QED
      BY <1>1, <1>6, <3>1
  <2>2. QED
    BY <2>1 DEF InSlot
<1>14. Flags(s)'
  <2>1. ASSUME NEW x \in Ends, NEW d \in Channels, On(x, d, s)'
        PROVE  /\ chan'[x][d].inReset => chan'[x][d].state # "open"
               /\ chan'[x][d].outReset => chan'[Peer(x)][d].inReset
               /\ chan'[Peer(x)][d].inReset => chan'[x][d].state # "open"
               /\ chan'[x][d].state = "closed" <=> chan'[x][d].inReset /\ chan'[x][d].outReset
    <3>1. /\ chan[x][d].inReset => chan[x][d].state # "open"
          /\ chan[x][d].outReset => chan[Peer(x)][d].inReset
          /\ chan[Peer(x)][d].inReset => chan[x][d].state # "open"
          /\ chan[x][d].state = "closed" <=> chan[x][d].inReset /\ chan[x][d].outReset
      BY <1>6, <2>1 DEF Stream, Flags
    <3>2. Peer(x) \in Ends
      BY PeerFacts
    <3>3. QED
      BY <1>6, <1>9, <3>1, <3>2
  <2>2. QED
    BY <2>1 DEF Flags
<1>15. Resets(s)'
  <2>1. ASSUME NEW x \in Ends, NEW d \in Channels, On(x, d, s)'
        PROVE  ResetComing(x, s, d)' <=> chan'[x][d].state # "open" /\ ~chan'[Peer(x)][d].inReset
    <3>1. ResetComing(x, s, d) <=> chan[x][d].state # "open" /\ ~chan[Peer(x)][d].inReset
      BY <1>6, <2>1 DEF Stream, Resets
    <3>2. ResetComing(x, s, d)' <=> ResetComing(x, s, d) \/ (x = e /\ d = c)
      BY <1>2, <1>8 DEF ResetComing
    <3>3. Peer(x) \in Ends /\ (x = e => Peer(x) = y)
      BY PeerFacts DEF y
    <3>4. QED
      BY <1>6, <1>10, <3>1, <3>2, <3>3
  <2>2. QED
    BY <2>1 DEF Resets
<1>16. Confirms(s)'
  <2>1. \A x \in Ends : ConfirmComing(x, s)' <=> ConfirmComing(x, s)
    BY <1>2, <1>8 DEF ConfirmComing
  <2>2. \A x \in Ends : slots[x][s] # NoChannel => slots[x][s] \in Channels
    BY Slot
  <2>3. \A x \in Ends : Peer(x) \in Ends
    BY PeerFacts
  <2>4. QED
    BY <1>6, <2>1, <2>2, <2>3 DEF Stream, Confirms
<1>17. Timely(s)'
  <2>1. \A x \in Ends : \A k \in Members(wire[x][s]) :
           k.kind # "confirm" => k.ch \in Channels /\ ~chan[Peer(x)][k.ch].inReset
    BY DEF Stream, Timely, Base, Addressed
  <2>2. \A x \in Ends : Peer(x) \in Ends /\ (x = e => Peer(x) = y)
    BY PeerFacts DEF y
  <2>3. ASSUME NEW x \in Ends, NEW k \in Members(wire'[x][s]), k.kind # "confirm"
        PROVE  ~chan'[Peer(x)][k.ch].inReset
    <3>1. CASE k \in Members(wire[x][s])
      BY <1>6, <2>1, <2>2, <2>3, <3>1
    <3>2. CASE x = e /\ k = m
      BY <1>2, <1>3, <1>6, <1>10, <2>2, <3>2
    <3>3. QED
      BY <1>8, <3>1, <3>2
  <2>4. QED
    BY <2>3 DEF Timely
<1>18. Order(s)'
  BY <1>1, <1>2, OpenOrder DEF y
<1>19. Agreed(s)'
  BY <1>2, <1>5, <1>8, AgreedStays
<1>20. Counted(s)'
  <2>1. \A k \in {} : k.kind # "data"
    OBVIOUS
  <2>2. \A k \in {m} : k.kind # "data"
    BY <1>2
  <2>3. \A d : Count(wire'[e][s], d) = Count(wire[e][s], d)
    BY <1>1, <2>2, GainsNoData
  <2>4. \A d : Count(wire'[y][s], d) = Count(wire[y][s], d)
    BY <1>1, <1>3, <2>1, GainsNoData
  <2>5. \A x \in Ends : \A d : Count(wire'[x][s], d) = Count(wire[x][s], d)
    BY <1>3, <2>3, <2>4
  <2>6. QED
    BY <1>1, <1>5, <2>5, CountedAsBefore
<1>21. QED
  BY <1>11, <1>12, <1>13, <1>14, <1>15, <1>16, <1>17, <1>18, <1>19, <1>20 DEF Stream

(***************************************************************************)
(* The reset of the peer and the confirmation of the own one               *)
(***************************************************************************)
(* When a reset arrives nothing but confirmations is left behind it, the    *)
(* peer is closing the same channel, and e has confirmed nothing yet.       *)
LEMMA ResetArrives ==
  ASSUME TypeOK, Base, NEW s \in Sids, Stream(s), NEW e \in Ends, NEW m,
         Arrival(e, s, m), m.kind = "reset", Loses(Peer(e), s, m)
  PROVE  /\ \A k : k \in Members(wire'[Peer(e)][s]) <=>
                     k \in Members(wire[Peer(e)][s]) /\ k.kind = "confirm"
         /\ m \in Members(wire[Peer(e)][s])
         /\ \A k \in Members(wire[Peer(e)][s]) : k = m \/ k.kind = "confirm"
         /\ chan[Peer(e)][m.ch].state = "closing"
         /\ slots[Peer(e)][s] = m.ch
         /\ ~chan[Peer(e)][m.ch].outReset
         /\ ~ConfirmComing(e, s)
         /\ \A k \in Members(wire[e][s]) : k.kind # "open"
         /\ \A d \in Channels : On(Owner(s), d, s) => Known(Peer(Owner(s)), d)
<1> DEFINE y == Peer(e)
           q == wire[y][s]
           c == m.ch
<1>1. y \in Ends /\ Peer(y) = e /\ q \in Seq(Items)
  BY PeerFacts DEF TypeOK
<1>2. m \in Members(q) /\ ~m.unordered
  BY <1>1 DEF Arrival, Base, Addressed
<1>3. c \in Channels /\ On(y, c, s) /\ On(e, c, s) /\ slots[e][s] = c /\ ~chan[e][c].inReset
  BY Meets
<1>4. ASSUME NEW k \in Members(q), k # m
      PROVE  k.kind = "confirm"
  <2>1. CASE Precedes(q, m, k)
    BY <1>1, <1>2, <2>1 DEF Stream, Order
  <2>2. CASE Passes(m, k)
    BY <1>2, <2>2 DEF Passes
  <2>3. QED
    BY <1>4, <2>1, <2>2 DEF Arrival
<1>5. ~Precedes(q, m, m)
  BY <1>1, <1>2 DEF Stream, Order
<1>6. /\ m \notin Members(wire'[y][s])
      /\ Members(wire'[y][s]) \subseteq Members(q)
      /\ \A k \in Members(q) : k = m \/ k \in Members(wire'[y][s])
  BY <1>5 DEF Loses
<1>7. \A k : k \in Members(wire'[y][s]) <=> k \in Members(q) /\ k.kind = "confirm"
  BY <1>4, <1>6
<1>8. chan[y][c].state # "open"
  <2>1. ResetComing(y, s, c)
    BY <1>2 DEF ResetComing
  <2>2. QED
    BY <1>1, <1>3, <2>1 DEF Stream, Resets
<1>9. ~chan[y][c].outReset
  BY <1>1, <1>3, FlagFacts
<1>10. chan[y][c].state = "closing" /\ slots[y][s] = c
  BY <1>1, <1>3, <1>8, <1>9, FlagFacts
<1>11. ~ConfirmComing(e, s)
  BY <1>3, <1>10 DEF Stream, Confirms
<1>12. \A k \in Members(wire[e][s]) : k.kind # "open"
  <2>1. SUFFICES ASSUME NEW k \in Members(wire[e][s]), k.kind = "open"
                 PROVE  FALSE
    OBVIOUS
  <2>2. q = <<>>
    BY <2>1, OpenUnderWay
  <2>3. QED
    BY <1>2, <2>2, EmptyWire
<1>13. \A d \in Channels : On(Owner(s), d, s) => Known(Peer(Owner(s)), d)
  BY <1>3, NothingWaitsNow
<1>14. QED
  BY <1>2, <1>4, <1>7, <1>9, <1>10, <1>11, <1>12, <1>13

(* The order of what e has under way when it confirms, and answers.         *)
LEMMA ConfirmOrder ==
  ASSUME TypeOK, Base, NEW s \in Sids, Stream(s), NEW e \in Ends, NEW m, NEW N,
         Arrival(e, s, m), m.kind = "reset", Loses(Peer(e), s, m), Gains(e, s, N),
         \A k \in N : \/ k.kind = "confirm"
                      \/ k.kind = "reset" /\ ~k.unordered /\ chan[e][m.ch].state = "open"
  PROVE  Order(s)'
<1>1. SUFFICES ASSUME NEW x \in Ends,
                      NEW a \in Members(wire'[x][s]), NEW b \in Members(wire'[x][s]),
                      Precedes(wire'[x][s], a, b)
               PROVE  /\ a.kind = "reset" => b.kind = "confirm"
                      /\ b.kind = "open" => a.kind = "confirm"
                      /\ a.kind = "open" => b.kind # "confirm" /\ ~b.unordered
                      /\ a.kind = "confirm" => b.kind # "confirm"
  BY DEF Order
<1>2. x = e \/ x = Peer(e)
  BY PeerFacts
<1>3. ASSUME Precedes(wire[x][s], a, b)
      PROVE  a \in Members(wire[x][s]) /\ b \in Members(wire[x][s])
  BY <1>3 DEF Precedes, Members
<1>4. CASE Precedes(wire[x][s], a, b)
  BY <1>3, <1>4 DEF Stream, Order
<1>5. CASE ~Precedes(wire[x][s], a, b)
  <2>1. x = e
    BY <1>1, <1>2, <1>5 DEF Loses
  <2>2. b \in N /\ (a \in Members(wire[e][s]) \/ (a.kind = "confirm" /\ b.kind = "reset"))
    BY <1>1, <1>5, <2>1 DEF Gains
  <2>3. \/ b.kind = "confirm"
        \/ b.kind = "reset" /\ ~b.unordered /\ chan[e][m.ch].state = "open"
    BY <2>2
  <2>4. CASE a \in Members(wire[e][s])
    <3>1. a.kind # "open" /\ a.kind # "confirm"
      BY <2>4, ResetArrives DEF ConfirmComing
    <3>2. ASSUME a.kind = "reset"
          PROVE  b.kind = "confirm"
      <4>1. m.ch \in Channels /\ On(e, m.ch, s)
        BY Meets
      <4>2. chan[e][m.ch].state # "open"
        BY <2>4, <3>2, <4>1, NoResetYet
      <4>3. QED
        BY <2>3, <4>2
    <3>3. QED
      BY <2>3, <3>1, <3>2
  <2>5. CASE a.kind = "confirm" /\ b.kind = "reset"
    BY <2>5
  <2>6. QED
    BY <2>2, <2>4, <2>5
<1>6. QED
  BY <1>4, <1>5

(* r is the record of e's channel with its flag set; N is what e sends.     *)
LEMMA ResetStream ==
  ASSUME TypeOK, TypeOK', Base, NEW e \in Ends, NEW s \in Sids, NEW m \in Items, NEW c,
         NEW r \in ChannelRecords, NEW N, Stream(s),
         m.kind = "reset", Arrival(e, s, m), c = slots[e][s],
         Gains(e, s, N), Loses(Peer(e), s, m), UNCHANGED <<sent, received>>,
         Becomes(e, s, c, Left(r), LeftSlot(r, c)),
         r.state = "closing", r.sid = chan[e][c].sid, r.par = chan[e][c].par,
         r.canUnordered = chan[e][c].canUnordered, r.inReset,
         r.outReset = chan[e][c].outReset,
         \E k \in N : k.kind = "confirm",
         \A k \in N :
            /\ k.kind = "confirm" \/ (k.kind = "reset" /\ k.ch = c /\ chan[e][c].state = "open")
            /\ ~k.unordered /\ ~k.lossy,
         chan[e][c].state = "open" => \E k \in N : k.kind = "reset"
  PROVE  Stream(s)'
<1> DEFINE y == Peer(e)
           l == Left(r)
           slot == LeftSlot(r, c)
<1>1. y \in Ends /\ y # e /\ Peer(y) = e /\ \A x \in Ends : x = e \/ x = y
  BY PeerFacts
<1>2. m.ch = c /\ c \in Channels /\ On(y, c, s) /\ On(e, c, s) /\ ~chan[e][c].inReset
  BY Meets
<1>3. /\ \A k : k \in Members(wire'[y][s]) <=> k \in Members(wire[y][s]) /\ k.kind = "confirm"
      /\ m \in Members(wire[y][s])
      /\ \A k \in Members(wire[y][s]) : k = m \/ k.kind = "confirm"
      /\ chan[y][c].state = "closing"
      /\ slots[y][s] = c
      /\ ~chan[y][c].outReset
      /\ ~ConfirmComing(e, s)
      /\ \A k \in Members(wire[e][s]) : k.kind # "open"
      /\ \A d \in Channels : On(Owner(s), d, s) => Known(Peer(Owner(s)), d)
  BY <1>2, ResetArrives
<1>4. /\ l.state = IF chan[e][c].outReset THEN "closed" ELSE "closing"
      /\ l.sid = chan[e][c].sid /\ l.par = chan[e][c].par
      /\ l.canUnordered = chan[e][c].canUnordered
      /\ l.inReset /\ l.outReset = chan[e][c].outReset
      /\ slot = IF chan[e][c].outReset THEN NoChannel ELSE c
  BY LeftRecord
<1>5. \A k : k \in Members(wire'[e][s]) <=> k \in Members(wire[e][s]) \/ k \in N
  BY DEF Gains
<1> HIDE DEF y, l, slot
<1>6. Turns(e, s, c, l, slot)
  BY <1>2, <1>4, RecordTurns DEF l, slot
<1>7. /\ \A x \in Ends, d \in Channels :
            /\ Known(x, d)' <=> Known(x, d)
            /\ On(x, d, s)' <=> On(x, d, s)
            /\ x # e \/ d # c =>
                  /\ chan'[x][d].state = chan[x][d].state
                  /\ chan'[x][d].inReset = chan[x][d].inReset
                  /\ chan'[x][d].outReset = chan[x][d].outReset
      /\ chan'[e][c].state = IF chan[e][c].outReset THEN "closed" ELSE "closing"
      /\ chan'[e][c].inReset
      /\ chan'[e][c].outReset = chan[e][c].outReset
      /\ \A x \in Ends : x # e => slots'[x][s] = slots[x][s]
      /\ slots'[e][s] = IF chan[e][c].outReset THEN NoChannel ELSE c
  BY <1>4, <1>6 DEF Turns
<1>8. chan[e][c].state \in {"open", "closing"}
  BY <1>2, FlagFacts
<1>9. chan[e][c].outReset => chan[y][c].inReset /\ chan[e][c].state = "closing"
  BY <1>2, <1>8, FlagFacts DEF y
<1>10. c # NoChannel
  BY <1>2, NoChannelOut
<1>11. Introduced(s)'
  <2>1. \A k : k.kind = "open" =>
           /\ k \in Members(wire'[e][s]) <=> k \in Members(wire[e][s])
           /\ k \in Members(wire'[y][s]) <=> k \in Members(wire[y][s])
    BY <1>3, <1>5
  <2>2. QED
    BY <1>1, <1>2, <1>6, <2>1, IntroducedStays
<1>12. Waiting(s)'
  BY <1>3, <1>7, PeerFacts, SidFacts, WaitingNot
<1>13. InSlot(s)'
  <2>1. ASSUME NEW x \in Ends, NEW d \in Channels, On(x, d, s)'
        PROVE  slots'[x][s] = d <=> chan'[x][d].state \in {"open", "closing"}
    <3>1. slots[x][s] = d <=> chan[x][d].state \in {"open", "closing"}
      BY <1>7, <2>1 DEF Stream, InSlot
    <3>2. CASE x # e
      BY <1>7, <3>1, <3>2
    <3>3. CASE x = e /\ d # c
      <4>1. d # NoChannel
        BY NoChannelOut
      <4>2. slots'[e][s] # d
        BY <1>7, <3>3, <4>1
      <4>3. QED
        BY <1>7, <3>1, <3>3, <4>2
    <3>4. CASE x = e /\ d = c
      BY <1>7, <1>10, <3>4
    <3>5. QED
      BY <3>2, <3>3, <3>4
  <2>2. QED
    BY <2>1 DEF InSlot
<1>14. Flags(s)'
  <2>1. ASSUME NEW x \in Ends, NEW d \in Channels, On(x, d, s)'
        PROVE  /\ chan'[x][d].inReset => chan'[x][d].state # "open"
               /\ chan'[x][d].outReset => chan'[Peer(x)][d].inReset
               /\ chan'[Peer(x)][d].inReset => chan'[x][d].state # "open"
               /\ chan'[x][d].state = "closed" <=> chan'[x][d].inReset /\ chan'[x][d].outReset
    <3>1. /\ chan[x][d].inReset => chan[x][d].state # "open"
          /\ chan[x][d].outReset => chan[Peer(x)][d].inReset
          /\ chan[Peer(x)][d].inReset => chan[x][d].state # "open"
          /\ chan[x][d].state = "closed" <=> chan[x][d].inReset /\ chan[x][d].outReset
      BY <1>7, <2>1 DEF Stream, Flags
    <3>2. Peer(x) \in Ends /\ (x = e => Peer(x) = y) /\ (x = y => Peer(x) = e)
      BY <1>1, PeerFacts DEF y
    <3>3. CASE d # c
      BY <1>7, <3>1, <3>2, <3>3
    <3>4. CASE x = e /\ d = c
      <4>1. chan'[y][c].inReset = chan[y][c].inReset
        BY <1>1, <1>2, <1>7
      <4>2. Peer(x) = y
        BY <3>2, <3>4
      <4>3. /\ chan'[e][c].state # "open"
            /\ chan'[e][c].outReset => chan[y][c].inReset
            /\ chan'[e][c].state = "closed" <=> chan'[e][c].inReset /\ chan'[e][c].outReset
        BY <1>7, <1>9
      <4>4. QED
        BY <3>4, <4>1, <4>2, <4>3
    <3>5. CASE x = y /\ d = c
      BY <1>1, <1>3, <1>7, <3>1, <3>2, <3>5
    <3>6. QED
      BY <1>1, <3>3, <3>4, <3>5
  <2>2. QED
    BY <2>1 DEF Flags
<1>15. Resets(s)'
  <2>1. ASSUME NEW x \in Ends, NEW d \in Channels, On(x, d, s)'
        PROVE  ResetComing(x, s, d)' <=> chan'[x][d].state # "open" /\ ~chan'[Peer(x)][d].inReset
    <3>1. ResetComing(x, s, d) <=> chan[x][d].state # "open" /\ ~chan[Peer(x)][d].inReset
      BY <1>7, <2>1 DEF Stream, Resets
    <3>2. CASE x = e
      <4>1. ResetComing(e, s, d)' <=> ResetComing(e, s, d) \/ (d = c /\ chan[e][c].state = "open")
        BY <1>5 DEF ResetComing
      <4>2. Peer(x) = y
        BY <3>2 DEF y
      <4>3. CASE d = c
        <5>1. chan[e][c].state = "open" => ~chan[y][c].inReset
          BY <1>2, FlagFacts DEF y
        <5>2. chan'[e][c].state # "open" /\ chan'[y][c].inReset = chan[y][c].inReset
          BY <1>1, <1>2, <1>7
        <5>3. QED
          BY <1>8, <3>1, <3>2, <4>1, <4>2, <4>3, <5>1, <5>2
      <4>4. CASE d # c
        BY <1>1, <1>7, <3>1, <3>2, <4>1, <4>2, <4>4
      <4>5. QED
        BY <4>3, <4>4
    <3>3. CASE x = y
      <4>1. ~ResetComing(y, s, d)'
        BY <1>3 DEF ResetComing
      <4>2. ResetComing(y, s, d) => d = c
        BY <1>2, <1>3 DEF ResetComing
      <4>3. QED
        BY <1>1, <1>7, <3>1, <3>3, <4>1, <4>2
    <3>4. QED
      BY <1>1, <3>2, <3>3
  <2>2. QED
    BY <2>1 DEF Resets
<1>16. Confirms(s)'
  <2>1. ConfirmComing(e, s)'
    BY <1>5 DEF ConfirmComing
  <2>2. ConfirmComing(y, s)' <=> ConfirmComing(y, s)
    BY <1>3 DEF ConfirmComing
  <2>3. ConfirmComing(y, s) <=> chan[y][c].inReset /\ ~chan[e][c].outReset
    BY <1>1, <1>10 DEF Stream, Confirms
  <2>4. /\ slots'[y][s] = c /\ chan'[y][c].outReset = chan[y][c].outReset
        /\ chan'[y][c].inReset = chan[y][c].inReset
    BY <1>1, <1>2, <1>3, <1>7
  <2>5. ConfirmComing(e, s)' <=>
          slots'[y][s] # NoChannel /\ chan'[e][slots'[y][s]].inReset /\ ~chan'[y][slots'[y][s]].outReset
    BY <1>3, <1>7, <1>10, <2>1, <2>4
  <2>6. ConfirmComing(y, s)' <=>
          slots'[e][s] # NoChannel /\ chan'[y][slots'[e][s]].inReset /\ ~chan'[e][slots'[e][s]].outReset
    BY <1>7, <1>10, <2>2, <2>3, <2>4
  <2>7. ASSUME NEW x \in Ends
        PROVE  ConfirmComing(x, s)' <=>
                 /\ slots'[Peer(x)][s] # NoChannel
                 /\ chan'[x][slots'[Peer(x)][s]].inReset
                 /\ ~chan'[Peer(x)][slots'[Peer(x)][s]].outReset
    <3>1. CASE x = e
      <4>1. Peer(x) = y
        BY <3>1 DEF y
      <4>2. QED
        BY <2>5, <3>1, <4>1
    <3>2. CASE x = y
      BY <1>1, <2>6, <3>2
    <3>3. QED
      BY <1>1, <3>1, <3>2
  <2>8. QED
    BY <2>7 DEF Confirms
<1>17. Timely(s)'
  <2>1. \A x \in Ends : \A k \in Members(wire[x][s]) :
           k.kind # "confirm" => k.ch \in Channels /\ ~chan[Peer(x)][k.ch].inReset
    BY DEF Stream, Timely, Base, Addressed
  <2>2. ASSUME NEW x \in Ends, NEW k \in Members(wire'[x][s]), k.kind # "confirm"
        PROVE  ~chan'[Peer(x)][k.ch].inReset
    <3>1. x = e /\ Peer(x) = y
      BY <1>1, <1>3, <2>2 DEF y
    <3>2. CASE k \in Members(wire[e][s])
      <4>1. k.ch \in Channels /\ ~chan[y][k.ch].inReset
        BY <2>1, <2>2, <3>1, <3>2
      <4>2. QED
        BY <1>1, <1>7, <3>1, <4>1
    <3>3. CASE k \in N
      <4>1. k.ch = c /\ chan[e][c].state = "open"
        BY <2>2, <3>3
      <4>2. ~chan[y][c].inReset
        BY <1>2, <4>1, FlagFacts DEF y
      <4>3. QED
        BY <1>1, <1>2, <1>7, <3>1, <4>1, <4>2
    <3>4. QED
      BY <1>5, <2>2, <3>1, <3>2, <3>3
  <2>3. QED
    BY <2>2 DEF Timely
<1>18. Order(s)'
  BY <1>2, ConfirmOrder
<1>19. Agreed(s)'
  <2>1. \A x \in Ends : \A k \in Members(wire'[x][s]) :
            k \in Members(wire[x][s]) \/ (k.kind # "open" /\ ~k.lossy)
    BY <1>1, <1>3, <1>5
  <2>2. QED
    BY <1>2, <1>6, <2>1, AgreedStays
<1>20. Counted(s)'
  <2>1. \A k \in N : k.kind # "data"
    OBVIOUS
  <2>2. \A d : Count(wire'[e][s], d) = Count(wire[e][s], d)
    BY <2>1, GainsNoData
  <2>3. \A d : Count(wire'[y][s], d) = Count(wire[y][s], d)
    BY <1>1, LosesCount DEF y
  <2>4. \A x \in Ends : \A d : Count(wire'[x][s], d) = Count(wire[x][s], d)
    BY <1>1, <2>2, <2>3
  <2>5. QED
    BY <1>2, <1>6, <2>4, CountedAsBefore
<1>21. QED
  BY <1>11, <1>12, <1>13, <1>14, <1>15, <1>16, <1>17, <1>18, <1>19, <1>20 DEF Stream

LEMMA ResetIgnoredStream ==
  ASSUME TypeOK, TypeOK', Base, NEW e \in Ends, NEW s \in Sids, NEW m \in Items, NEW c,
         Stream(s), ResetEffect(e, s, m, c)
  PROVE  Stream(s)'
<1> DEFINE r == WithIn(chan[e][c])
<1>1. /\ m.kind = "reset" /\ Arrival(e, s, m) /\ c = slots[e][s] /\ c # NoChannel
      /\ chan[e][c].state \in {"closing", "closed"}
      /\ Gains(e, s, {Confirm}) /\ Loses(Peer(e), s, m)
      /\ Becomes(e, s, c, Left(r), LeftSlot(r, c))
      /\ UNCHANGED <<sent, received>>
  BY DEF ResetEffect, history
<1>2. c \in Channels /\ On(e, c, s)
  BY <1>1, Slot
<1>3. chan[e][c].state = "closing"
  BY <1>1, <1>2, FlagFacts
<1>4. /\ r \in ChannelRecords /\ r.state = "closing" /\ r.sid = chan[e][c].sid
      /\ r.par = chan[e][c].par /\ r.canUnordered = chan[e][c].canUnordered
      /\ r.inReset /\ r.outReset = chan[e][c].outReset
  BY <1>2, <1>3, Sid, FlagSet
<1>5. \A k \in {Confirm} : k.kind = "confirm" /\ ~k.unordered /\ ~k.lossy
  BY ConfirmItem
<1>6. \E k \in {Confirm} : k.kind = "confirm"
  BY ConfirmItem
<1> HIDE DEF r
<1>7. QED
  BY <1>1, <1>3, <1>4, <1>5, <1>6, ResetStream

LEMMA ResetAnsweredStream ==
  ASSUME TypeOK, TypeOK', Base, NEW e \in Ends, NEW s \in Sids, NEW m \in Items, NEW c,
         Stream(s), AnsweredEffect(e, s, m, c)
  PROVE  Stream(s)'
<1> DEFINE r == [WithIn(chan[e][c]) EXCEPT !.state = "closing"]
           n == Control("reset", c, NoParameters)
<1>1. /\ m.kind = "reset" /\ Arrival(e, s, m) /\ c = slots[e][s] /\ c # NoChannel
      /\ chan[e][c].state \notin {"closing", "closed"}
      /\ Gains(e, s, {Confirm, n}) /\ Loses(Peer(e), s, m)
      /\ Becomes(e, s, c, Left(r), LeftSlot(r, c))
      /\ UNCHANGED <<sent, received>>
  BY DEF AnsweredEffect, history
<1>2. c \in Channels /\ On(e, c, s)
  BY <1>1, Slot
<1>3. chan[e][c].state = "open"
  BY <1>1, <1>2, FlagFacts
<1>4. /\ r \in ChannelRecords /\ r.state = "closing" /\ r.sid = chan[e][c].sid
      /\ r.par = chan[e][c].par /\ r.canUnordered = chan[e][c].canUnordered
      /\ r.inReset /\ r.outReset = chan[e][c].outReset
  <2> DEFINE w == WithIn(chan[e][c])
  <2>1. /\ w \in ChannelRecords
        /\ w.sid = chan[e][c].sid
        /\ w.par = chan[e][c].par
        /\ w.canUnordered = chan[e][c].canUnordered
        /\ w.inReset
        /\ w.outReset = chan[e][c].outReset
    BY <1>2, Sid, FlagSet
  <2>2. "closing" \in ChannelStates
    BY DEF ChannelStates
  <2> HIDE DEF w
  <2>3. /\ [w EXCEPT !.state = "closing"] \in ChannelRecords
        /\ [w EXCEPT !.state = "closing"].state = "closing"
        /\ [w EXCEPT !.state = "closing"].sid = w.sid
        /\ [w EXCEPT !.state = "closing"].par = w.par
        /\ [w EXCEPT !.state = "closing"].canUnordered = w.canUnordered
        /\ [w EXCEPT !.state = "closing"].inReset = w.inReset
        /\ [w EXCEPT !.state = "closing"].outReset = w.outReset
    BY <2>1, <2>2, StateSet
  <2>4. QED
    BY <2>1, <2>3 DEF w
<1>5. n.kind = "reset" /\ n.ch = c /\ ~n.unordered /\ ~n.lossy
  BY <1>2, ResetItem
<1> HIDE DEF r, n
<1>6. \A k \in {Confirm, n} :
         /\ k.kind = "confirm" \/ (k.kind = "reset" /\ k.ch = c /\ chan[e][c].state = "open")
         /\ ~k.unordered /\ ~k.lossy
  BY <1>3, <1>5, ConfirmItem
<1>7. (\E k \in {Confirm, n} : k.kind = "confirm") /\ (\E k \in {Confirm, n} : k.kind = "reset")
  BY <1>5, ConfirmItem
<1>8. QED
  BY <1>1, <1>4, <1>6, <1>7, ResetStream

(* On a sound stream no reset and no confirmation meets an empty slot, and  *)
(* an OPEN is refused only if it has overtaken a confirmation.              *)
LEMMA NeverStray ==
  ASSUME TypeOK, Base, NEW e \in Ends, NEW s \in Sids, NEW m \in Items, Stream(s)
  PROVE  ~StrayResetEffect(e, s, m) /\ ~StrayConfirmEffect(e, s, m)
<1>1. ~StrayResetEffect(e, s, m)
  BY Meets, NoChannelOut DEF StrayResetEffect
<1>2. ~StrayConfirmEffect(e, s, m)
  <2>1. SUFFICES ASSUME StrayConfirmEffect(e, s, m)
                 PROVE  FALSE
    OBVIOUS
  <2>2. m.kind = "confirm" /\ m \in Members(wire[Peer(e)][s]) /\ slots[e][s] = NoChannel
    BY <2>1 DEF StrayConfirmEffect, Arrival
  <2>3. ConfirmComing(Peer(e), s)
    BY <2>2 DEF ConfirmComing
  <2>4. QED
    BY <2>2, <2>3, PeerFacts DEF Stream, Confirms
<1>3. QED
  BY <1>1, <1>2

LEMMA RefusedUnsound ==
  ASSUME TypeOK, Base, NEW e \in Ends, NEW s \in Sids, NEW m \in Items, Stream(s),
         RefuseEffect(e, s, m)
  PROVE  ~Sound(s)'
<1> DEFINE y == Peer(e)
           c == slots[e][s]
<1>1. y \in Ends /\ y # e /\ Peer(y) = e
  BY PeerFacts
<1>2. m.kind = "open" /\ m \in Members(wire[y][s]) /\ (e = Owner(s) \/ c # NoChannel)
  BY DEF RefuseEffect, Arrival
<1>3. /\ y = Owner(s) /\ slots[y][s] = m.ch /\ ~Known(e, m.ch)
  BY <1>1, <1>2, OpenUnderWay
<1>4. c \in Channels /\ On(e, c, s)
  BY <1>1, <1>2, <1>3, Slot
<1>5. On(y, c, s)
  BY <1>3, <1>4, FlagFacts
<1>6. c # m.ch
  BY <1>3, <1>4 DEF On
<1>7. chan[y][c].inReset /\ chan[y][c].outReset
  BY <1>1, <1>3, <1>4, <1>5, <1>6, FlagFacts
<1>8. chan[e][c].inReset
  BY <1>1, <1>4, <1>5, <1>7, FlagFacts
<1>9. ~chan[e][c].outReset
  BY <1>4, <1>8, FlagFacts
<1>10. ConfirmComing(y, s)
  BY <1>1, <1>4, <1>7, <1>9, NoChannelOut DEF Stream, Confirms
<1>11. PICK k \in Members(wire[y][s]) : k.kind = "confirm"
  BY <1>10 DEF ConfirmComing
<1>12. ~Precedes(wire[y][s], m, k)
  BY <1>1, <1>2, <1>11 DEF Stream, Order
<1>13. s \in overtaken'
  BY <1>11, <1>12 DEF RefuseEffect
<1>14. QED
  BY <1>13 DEF Sound

LEMMA ConfirmStream ==
  ASSUME TypeOK, TypeOK', Base, NEW e \in Ends, NEW s \in Sids, NEW m \in Items, NEW c,
         Stream(s), ConfirmEffect(e, s, m, c)
  PROVE  Stream(s)'
<1> DEFINE y == Peer(e)
           r == WithOut(chan[e][c])
           l == Left(r)
           slot == LeftSlot(r, c)
<1>1. /\ m.kind = "confirm" /\ Arrival(e, s, m) /\ c = slots[e][s] /\ c # NoChannel
      /\ Gains(e, s, {}) /\ Loses(y, s, m)
      /\ Becomes(e, s, c, l, slot)
      /\ UNCHANGED <<sent, received>>
  BY DEF ConfirmEffect, history
<1>2. y \in Ends /\ y # e /\ Peer(y) = e /\ \A x \in Ends : x = e \/ x = y
  BY PeerFacts
<1>3. c \in Channels /\ On(e, c, s)
  BY <1>1, Slot
<1>4. m \in Members(wire[y][s])
  BY <1>1 DEF Arrival
<1>5. ConfirmComing(y, s)
  BY <1>1, <1>4 DEF ConfirmComing
<1>6. chan[y][c].inReset /\ ~chan[e][c].outReset
  BY <1>1, <1>2, <1>5 DEF Stream, Confirms
<1>7. On(y, c, s) /\ chan[e][c].state = "closing"
  BY <1>1, <1>3, <1>6, FlagFacts
<1>8. /\ l.state = IF chan[e][c].inReset THEN "closed" ELSE "closing"
      /\ l.sid = chan[e][c].sid /\ l.par = chan[e][c].par
      /\ l.canUnordered = chan[e][c].canUnordered
      /\ l.inReset = chan[e][c].inReset /\ l.outReset
      /\ slot = IF chan[e][c].inReset THEN NoChannel ELSE c
  <2>1. /\ r \in ChannelRecords /\ r.state = chan[e][c].state /\ r.sid = chan[e][c].sid
        /\ r.par = chan[e][c].par /\ r.canUnordered = chan[e][c].canUnordered
        /\ r.inReset = chan[e][c].inReset /\ r.outReset
    BY <1>3, Sid, FlagSet
  <2> HIDE DEF r
  <2>2. QED
    BY <1>7, <2>1, LeftRecord
<1>9. /\ \A k : k \in Members(wire'[e][s]) <=> k \in Members(wire[e][s])
      /\ \A a, b : Precedes(wire'[e][s], a, b) => Precedes(wire[e][s], a, b)
  BY <1>1 DEF Gains
<1>10. /\ \A k : k \in Members(wire'[y][s]) <=> k \in Members(wire[y][s]) /\ k.kind # "confirm"
       /\ \A a, b : Precedes(wire'[y][s], a, b) => Precedes(wire[y][s], a, b)
  <2>1. wire[y][s] \in Seq(Items)
    BY <1>2 DEF TypeOK
  <2>2. \A k \in Members(wire[y][s]) : k.kind = "confirm" => ~Precedes(wire[y][s], m, k) /\ ~Precedes(wire[y][s], k, m)
    BY <1>1, <1>2, <1>4 DEF Stream, Order
  <2>3. \A k \in Members(wire[y][s]) : k.kind = "confirm" => k = m
    BY <1>4, <2>1, <2>2, Either
  <2>4. m \notin Members(wire'[y][s])
    BY <1>1, <1>4, <2>2 DEF Loses
  <2>5. /\ Members(wire'[y][s]) \subseteq Members(wire[y][s])
        /\ \A k \in Members(wire[y][s]) : k = m \/ k \in Members(wire'[y][s])
        /\ \A a, b : Precedes(wire'[y][s], a, b) => Precedes(wire[y][s], a, b)
    BY <1>1 DEF Loses
  <2>6. QED
    BY <1>1, <2>3, <2>4, <2>5
<1> HIDE DEF y, l, slot
<1>11. Turns(e, s, c, l, slot)
  BY <1>1, <1>3, <1>8, RecordTurns
<1>12. /\ \A x \in Ends, d \in Channels :
            /\ Known(x, d)' <=> Known(x, d)
            /\ On(x, d, s)' <=> On(x, d, s)
            /\ chan'[x][d].inReset = chan[x][d].inReset
            /\ x # e \/ d # c =>
                  /\ chan'[x][d].state = chan[x][d].state
                  /\ chan'[x][d].outReset = chan[x][d].outReset
            /\ chan'[x][d].canUnordered = chan[x][d].canUnordered
       /\ chan'[e][c].state = IF chan[e][c].inReset THEN "closed" ELSE "closing"
       /\ chan'[e][c].outReset
       /\ \A x \in Ends : x # e => slots'[x][s] = slots[x][s]
       /\ slots'[e][s] = IF chan[e][c].inReset THEN NoChannel ELSE c
  BY <1>8, <1>11 DEF Turns
<1>13. \A x \in Ends :
          /\ Members(wire'[x][s]) \subseteq Members(wire[x][s])
          /\ \A k \in Members(wire[x][s]) : k.kind # "confirm" => k \in Members(wire'[x][s])
          /\ \A a, b : Precedes(wire'[x][s], a, b) => Precedes(wire[x][s], a, b)
  BY <1>2, <1>9, <1>10
<1>14. Introduced(s)'
  BY <1>3, <1>11, <1>13, IntroducedStays
<1>15. Waiting(s)'
  <2>1. SUFFICES ASSUME NEW d \in Channels, On(Owner(s), d, s)', ~Known(Peer(Owner(s)), d)'
                 PROVE  /\ wire'[Peer(Owner(s))][s] = <<>>
                        /\ ~chan'[Owner(s)][d].inReset
                        /\ ~chan'[Owner(s)][d].outReset
                        /\ ~chan'[Owner(s)][d].canUnordered
    BY DEF Waiting
  <2>2. Owner(s) \in Ends /\ Peer(Owner(s)) \in Ends
    BY PeerFacts, SidFacts
  <2>3. On(Owner(s), d, s) /\ ~Known(Peer(Owner(s)), d)
    BY <1>12, <2>1, <2>2
  <2>4. /\ wire[Peer(Owner(s))][s] = <<>>
        /\ ~chan[Owner(s)][d].inReset
        /\ ~chan[Owner(s)][d].outReset
        /\ ~chan[Owner(s)][d].canUnordered
    BY <2>3 DEF Stream, Waiting
  <2>5. wire'[Peer(Owner(s))][s] = <<>>
    BY <1>13, <2>2, <2>4, EmptyStays
  <2>6. d # c
    <3>1. Known(e, c) /\ Known(y, c)
      BY <1>3, <1>7 DEF On
    <3>2. QED
      BY <1>2, <2>2, <2>3, <3>1
  <2>7. QED
    BY <1>12, <2>2, <2>4, <2>5, <2>6
<1>16. InSlot(s)'
  <2>1. ASSUME NEW x \in Ends, NEW d \in Channels, On(x, d, s)'
        PROVE  slots'[x][s] = d <=> chan'[x][d].state \in {"open", "closing"}
    <3>1. slots[x][s] = d <=> chan[x][d].state \in {"open", "closing"}
      BY <1>12, <2>1 DEF Stream, InSlot
    <3>2. CASE x # e
      BY <1>12, <3>1, <3>2
    <3>3. CASE x = e /\ d # c
      <4>1. slots'[e][s] # d
        BY <1>12, <3>3, NoChannelOut
      <4>2. QED
        BY <1>1, <1>12, <3>1, <3>3, <4>1
    <3>4. CASE x = e /\ d = c
      BY <1>1, <1>12, <3>4
    <3>5. QED
      BY <3>2, <3>3, <3>4
  <2>2. QED
    BY <2>1 DEF InSlot
<1>17. Flags(s)'
  <2>1. ASSUME NEW x \in Ends, NEW d \in Channels, On(x, d, s)'
        PROVE  /\ chan'[x][d].inReset => chan'[x][d].state # "open"
               /\ chan'[x][d].outReset => chan'[Peer(x)][d].inReset
               /\ chan'[Peer(x)][d].inReset => chan'[x][d].state # "open"
               /\ chan'[x][d].state = "closed" <=> chan'[x][d].inReset /\ chan'[x][d].outReset
    <3>1. /\ chan[x][d].inReset => chan[x][d].state # "open"
          /\ chan[x][d].outReset => chan[Peer(x)][d].inReset
          /\ chan[Peer(x)][d].inReset => chan[x][d].state # "open"
          /\ chan[x][d].state = "closed" <=> chan[x][d].inReset /\ chan[x][d].outReset
      BY <1>12, <2>1 DEF Stream, Flags
    <3>2. Peer(x) \in Ends /\ (x = e => Peer(x) = y)
      BY PeerFacts DEF y
    <3>3. CASE x # e \/ d # c
      BY <1>12, <3>1, <3>2, <3>3
    <3>4. CASE x = e /\ d = c
      BY <1>2, <1>3, <1>6, <1>12, <3>2, <3>4
    <3>5. QED
      BY <3>3, <3>4
  <2>2. QED
    BY <2>1 DEF Flags
<1>18. Resets(s)'
  <2>1. \A x \in Ends : \A d : ResetComing(x, s, d)' <=> ResetComing(x, s, d)
    BY <1>13 DEF ResetComing
  <2>2. \A x \in Ends, d \in Channels : chan'[x][d].state # "open" <=> chan[x][d].state # "open"
    BY <1>7, <1>12
  <2>3. \A x \in Ends : Peer(x) \in Ends
    BY PeerFacts
  <2>4. QED
    BY <1>12, <2>1, <2>2, <2>3 DEF Stream, Resets
<1>19. Confirms(s)'
  <2>1. ConfirmComing(e, s)' <=> ConfirmComing(e, s)
    BY <1>9 DEF ConfirmComing
  <2>2. ~ConfirmComing(y, s)'
    BY <1>10 DEF ConfirmComing
  <2>3. slots[y][s] # NoChannel => slots[y][s] \in Channels
    BY <1>2, Slot
  <2>4. ConfirmComing(e, s) <=>
          slots[y][s] # NoChannel /\ chan[e][slots[y][s]].inReset /\ ~chan[y][slots[y][s]].outReset
    BY DEF Stream, Confirms, y
  <2>5. ConfirmComing(e, s)' <=>
          slots'[y][s] # NoChannel /\ chan'[e][slots'[y][s]].inReset /\ ~chan'[y][slots'[y][s]].outReset
    BY <1>2, <1>12, <2>1, <2>3, <2>4
  <2>6. ConfirmComing(y, s)' <=>
          slots'[e][s] # NoChannel /\ chan'[y][slots'[e][s]].inReset /\ ~chan'[e][slots'[e][s]].outReset
    BY <1>12, <2>2
  <2>7. ASSUME NEW x \in Ends
        PROVE  ConfirmComing(x, s)' <=>
                 /\ slots'[Peer(x)][s] # NoChannel
                 /\ chan'[x][slots'[Peer(x)][s]].inReset
                 /\ ~chan'[Peer(x)][slots'[Peer(x)][s]].outReset
    <3>1. CASE x = e
      <4>1. Peer(x) = y
        BY <3>1 DEF y
      <4>2. QED
        BY <2>5, <3>1, <4>1
    <3>2. CASE x = y
      BY <1>2, <2>6, <3>2
    <3>3. QED
      BY <1>2, <3>1, <3>2
  <2>8. QED
    BY <2>7 DEF Confirms
<1>20. Timely(s)'
  <2>1. \A x \in Ends : \A k \in Members(wire[x][s]) :
           k.kind # "confirm" => k.ch \in Channels /\ ~chan[Peer(x)][k.ch].inReset
    BY DEF Stream, Timely, Base, Addressed
  <2>2. \A x \in Ends : Peer(x) \in Ends
    BY PeerFacts
  <2>3. ASSUME NEW x \in Ends, NEW k \in Members(wire'[x][s]), k.kind # "confirm"
        PROVE  ~chan'[Peer(x)][k.ch].inReset
    <3>1. k \in Members(wire[x][s])
      BY <1>13, <2>3
    <3>2. k.ch \in Channels /\ ~chan[Peer(x)][k.ch].inReset
      BY <2>1, <2>3, <3>1
    <3>3. QED
      BY <1>12, <2>2, <3>2
  <2>4. QED
    BY <2>3 DEF Timely
<1>21. Order(s)'
  BY <1>13 DEF Stream, Order
<1>22. Agreed(s)'
  BY <1>3, <1>11, <1>13, AgreedStays
<1>23. Counted(s)'
  <2>1. \A k \in {} : k.kind # "data"
    OBVIOUS
  <2>2. \A d : Count(wire'[e][s], d) = Count(wire[e][s], d)
    BY <1>1, <2>1, GainsNoData
  <2>3. \A d : Count(wire'[y][s], d) = Count(wire[y][s], d)
    BY <1>1, <1>2, LosesCount DEF y
  <2>4. \A x \in Ends : \A d : Count(wire'[x][s], d) = Count(wire[x][s], d)
    BY <1>2, <2>2, <2>3
  <2>5. QED
    BY <1>1, <1>3, <1>11, <2>4, CountedAsBefore
<1>24. QED
  BY <1>14, <1>15, <1>16, <1>17, <1>18, <1>19, <1>20, <1>21, <1>22, <1>23 DEF Stream

(***************************************************************************)
(* A new channel                                                           *)
(***************************************************************************)
(* When the owner's slot is free every channel before has been reset in    *)
(* both directions, and nothing but the owner's last confirmation is left.  *)
LEMMA FreeSlot ==
  ASSUME TypeOK, Base, NEW s \in Sids, Stream(s), NEW e \in Ends, e = Owner(s),
         slots[e][s] = NoChannel
  PROVE  /\ \A d \in Channels : On(e, d, s) =>
               /\ chan[e][d].state = "closed"
               /\ chan[e][d].inReset
               /\ chan[Peer(e)][d].inReset
               /\ On(Peer(e), d, s)
         /\ wire[Peer(e)][s] = <<>>
         /\ \A k \in Members(wire[e][s]) : k.kind = "confirm"
<1> DEFINE y == Peer(e)
<1>1. y \in Ends /\ Peer(y) = e
  BY PeerFacts
<1>2. ASSUME NEW d \in Channels, On(e, d, s)
      PROVE  /\ chan[e][d].state = "closed"
             /\ chan[e][d].inReset
             /\ chan[y][d].inReset
             /\ On(y, d, s)
  <2>1. slots[e][s] # d
    BY <1>2, NoChannelOut
  <2>2. chan[e][d].state = "closed" /\ chan[e][d].inReset /\ chan[e][d].outReset
    BY <1>2, <2>1, FlagFacts
  <2>3. chan[y][d].inReset /\ On(y, d, s)
    BY <1>2, <2>2, FlagFacts
  <2>4. QED
    BY <2>2, <2>3
<1>3. \A k \in Members(wire[y][s]) : k.kind = "confirm"
  <2>1. SUFFICES ASSUME NEW k \in Members(wire[y][s]), k.kind # "confirm"
                 PROVE  FALSE
    OBVIOUS
  <2>2. k.ch \in Channels /\ On(y, k.ch, s)
    BY <1>1, <2>1 DEF Base, Addressed
  <2>3. On(e, k.ch, s)
    BY <1>1, <2>2, FlagFacts
  <2>4. ~chan[e][k.ch].inReset
    BY <1>1, <2>1 DEF Stream, Timely
  <2>5. QED
    BY <1>2, <2>2, <2>3, <2>4
<1>4. ~ConfirmComing(y, s)
  BY <1>1 DEF Stream, Confirms
<1>5. Members(wire[y][s]) = {}
  BY <1>3, <1>4 DEF ConfirmComing
<1>6. wire[y][s] = <<>>
  <2>1. wire[y][s] \in Seq(Items)
    BY <1>1 DEF TypeOK
  <2>2. Len(wire[y][s]) \in Nat
    BY <2>1, LenProperties
  <2>3. ~(1 \in 1 .. Len(wire[y][s]))
    BY <1>5, <2>1, Member
  <2>4. Len(wire[y][s]) = 0
    BY <2>2, <2>3
  <2>5. QED
    BY <2>1, <2>4, EmptySeq
<1>7. \A k \in Members(wire[e][s]) : k.kind = "confirm"
  <2>1. SUFFICES ASSUME NEW k \in Members(wire[e][s]), k.kind # "confirm"
                 PROVE  FALSE
    OBVIOUS
  <2>2. k.ch \in Channels /\ On(e, k.ch, s)
    BY <2>1 DEF Base, Addressed
  <2>3. ~chan[y][k.ch].inReset
    BY <2>1 DEF Stream, Timely
  <2>4. QED
    BY <1>2, <2>2, <2>3
<1>8. QED
  BY <1>2, <1>6, <1>7

LEMMA CreateStream ==
  ASSUME TypeOK, TypeOK', Base, NEW e \in Ends, NEW s \in Sids, NEW c \in Channels, NEW p \in Asked,
         Stream(s), CreateEffect(e, s, c, p)
  PROVE  Stream(s)'
<1> DEFINE y == Peer(e)
           P == Created(p)
           m == OpenMessage(c, P)
           rec == NewChannel(s, P, FALSE)
<1>1. /\ e = Owner(s) /\ slots[e][s] = NoChannel /\ \A x \in Ends : ~Known(x, c)
      /\ Gains(e, s, {m}) /\ Gains(y, s, {}) /\ Becomes(e, s, c, rec, c)
      /\ UNCHANGED <<sent, received>>
  BY DEF CreateEffect, history
<1>2. y \in Ends /\ y # e /\ Peer(y) = e /\ \A x \in Ends : x = e \/ x = y
  BY PeerFacts
<1>3. P \in Parameters /\ Created(P) = P
  BY AskedAssumption, CreatedParameters
<1>4. /\ m \in Items /\ m.kind = "open" /\ m.ch = c /\ m.par = P /\ ~m.unordered /\ ~m.lossy
  BY <1>3, ControlItem DEF OpenMessage, Kinds
<1>5. /\ rec.state = "open" /\ rec.sid = s /\ rec.par = P /\ ~rec.canUnordered
      /\ ~rec.inReset /\ ~rec.outReset
  BY <1>3, NewChannelFields
<1>6. /\ \A d \in Channels : On(e, d, s) =>
            /\ chan[e][d].state = "closed"
            /\ chan[e][d].inReset
            /\ chan[y][d].inReset
            /\ On(y, d, s)
      /\ wire[y][s] = <<>>
      /\ \A k \in Members(wire[e][s]) : k.kind = "confirm"
  BY <1>1, FreeSlot
<1> HIDE DEF y, P, m, rec
<1>7. /\ chan'[e][c] = rec
      /\ \A x \in Ends, d \in Channels : x # e \/ d # c => chan'[x][d] = chan[x][d]
      /\ slots'[e][s] = c /\ slots'[y][s] = slots[y][s]
  BY <1>1, <1>2 DEF Becomes
<1>8. /\ \A x \in Ends, d \in Channels : d # c =>
             (Known(x, d)' <=> Known(x, d)) /\ (On(x, d, s)' <=> On(x, d, s))
      /\ On(e, c, s)' /\ ~Known(y, c)'
  BY <1>1, <1>2, <1>5, <1>7 DEF Known, On
<1>9. chan'[y][c] = Unknown /\ ~chan'[y][c].inReset
  <2>1. chan[y][c] = Unknown /\ chan'[y][c] = chan[y][c]
    BY <1>1, <1>2, <1>7 DEF Base, Fresh
  <2>2. ~Unknown.inReset
    BY DEF Unknown
  <2>3. QED
    BY <2>1, <2>2
<1>10. /\ \A k : k \in Members(wire'[e][s]) <=> k \in Members(wire[e][s]) \/ k = m
       /\ \A k : k \notin Members(wire'[y][s])
       /\ \A a, b : ~Precedes(wire'[y][s], a, b)
       /\ wire'[y][s] = <<>>
  <2>1. Members(wire'[e][s]) = Members(wire[e][s]) \cup {m} /\ Members(wire'[y][s]) = Members(wire[y][s])
    BY <1>1 DEF Gains
  <2>2. wire'[y][s] = <<>>
    BY <1>2, <1>6, <2>1, EmptyStays
  <2>3. Members(wire'[y][s]) = {}
    BY <2>2, EmptyWire
  <2>4. \A a, b : Precedes(wire'[y][s], a, b) => a \in Members(wire'[y][s])
    BY DEF Precedes, Members
  <2>5. QED
    BY <2>1, <2>2, <2>3, <2>4
<1>11. \A k : k \in Members(wire'[e][s]) => k = m \/ k.kind = "confirm"
  BY <1>6, <1>10
<1>12. Introduced(s)'
  <2>1. ASSUME NEW d \in Channels, On(e, d, s)'
        PROVE  OpenComing(s, d)' <=> ~Known(y, d)'
    <3>1. OpenComing(s, d)' <=> d = c
      BY <1>1, <1>4, <1>10, <1>11 DEF OpenComing
    <3>2. ~Known(y, d)' <=> d = c
      BY <1>2, <1>6, <1>8, <2>1 DEF On
    <3>3. QED
      BY <3>1, <3>2
  <2>2. QED
    BY <1>1, <2>1 DEF Introduced, y
<1>13. Waiting(s)'
  <2>1. ASSUME NEW d \in Channels, On(e, d, s)', ~Known(y, d)'
        PROVE  /\ wire'[y][s] = <<>>
               /\ ~chan'[e][d].inReset
               /\ ~chan'[e][d].outReset
               /\ ~chan'[e][d].canUnordered
    <3>1. d = c
      BY <1>2, <1>6, <1>8, <2>1 DEF On
    <3>2. QED
      BY <1>5, <1>7, <1>10, <3>1
  <2>2. QED
    BY <1>1, <2>1 DEF Waiting, y
<1>14. InSlot(s)'
  <2>1. ASSUME NEW x \in Ends, NEW d \in Channels, On(x, d, s)'
        PROVE  slots'[x][s] = d <=> chan'[x][d].state \in {"open", "closing"}
    <3>1. CASE x = e /\ d = c
      BY <1>5, <1>7, <3>1
    <3>2. CASE x = e /\ d # c
      BY <1>6, <1>7, <1>8, <2>1, <3>2
    <3>3. CASE x = y
      <4>1. d # c /\ On(y, d, s)
        BY <1>2, <1>8, <2>1, <3>3 DEF On
      <4>2. slots[y][s] = d <=> chan[y][d].state \in {"open", "closing"}
        BY <1>2, <4>1 DEF Stream, InSlot
      <4>3. QED
        BY <1>2, <1>7, <3>3, <4>1, <4>2
    <3>4. QED
      BY <1>2, <3>1, <3>2, <3>3
  <2>2. QED
    BY <2>1 DEF InSlot
<1>15. Flags(s)'
  <2>1. ASSUME NEW x \in Ends, NEW d \in Channels, On(x, d, s)'
        PROVE  /\ chan'[x][d].inReset => chan'[x][d].state # "open"
               /\ chan'[x][d].outReset => chan'[Peer(x)][d].inReset
               /\ chan'[Peer(x)][d].inReset => chan'[x][d].state # "open"
               /\ chan'[x][d].state = "closed" <=> chan'[x][d].inReset /\ chan'[x][d].outReset
    <3>1. Peer(x) \in Ends /\ (x = e => Peer(x) = y)
      BY PeerFacts DEF y
    <3>2. CASE d = c
      <4>1. x = e
        BY <1>2, <1>8, <2>1, <3>2 DEF On
      <4>2. QED
        BY <1>5, <1>7, <1>9, <3>1, <3>2, <4>1
    <3>3. CASE d # c
      <4>1. /\ chan[x][d].inReset => chan[x][d].state # "open"
            /\ chan[x][d].outReset => chan[Peer(x)][d].inReset
            /\ chan[Peer(x)][d].inReset => chan[x][d].state # "open"
            /\ chan[x][d].state = "closed" <=> chan[x][d].inReset /\ chan[x][d].outReset
        BY <1>8, <2>1, <3>3 DEF Stream, Flags
      <4>2. QED
        BY <1>7, <3>1, <3>3, <4>1
    <3>4. QED
      BY <3>2, <3>3
  <2>2. QED
    BY <2>1 DEF Flags
<1>16. Resets(s)'
  <2>1. ASSUME NEW x \in Ends, NEW d \in Channels, On(x, d, s)'
        PROVE  ResetComing(x, s, d)' <=> chan'[x][d].state # "open" /\ ~chan'[Peer(x)][d].inReset
    <3>1. Peer(x) \in Ends
      BY PeerFacts
    <3>2. ~ResetComing(x, s, d)' /\ ~ResetComing(x, s, d)
      <4>1. ~ResetComing(e, s, d)' /\ ~ResetComing(y, s, d)'
        BY <1>4, <1>10, <1>11 DEF ResetComing
      <4>2. ~ResetComing(e, s, d) /\ ~ResetComing(y, s, d)
        BY <1>6, EmptyWire DEF ResetComing
      <4>3. QED
        BY <1>2, <4>1, <4>2
    <3>3. CASE d = c
      <4>1. x = e
        BY <1>2, <1>8, <2>1, <3>3 DEF On
      <4>2. QED
        BY <1>5, <1>7, <3>2, <3>3, <4>1
    <3>4. CASE d # c
      <4>1. ~(chan[x][d].state # "open" /\ ~chan[Peer(x)][d].inReset)
        BY <1>8, <2>1, <3>2, <3>4 DEF Stream, Resets
      <4>2. QED
        BY <1>7, <3>1, <3>2, <3>4, <4>1
    <3>5. QED
      BY <3>3, <3>4
  <2>2. QED
    BY <2>1 DEF Resets
<1>17. Confirms(s)'
  <2>1. ~ConfirmComing(y, s)'
    BY <1>10 DEF ConfirmComing
  <2>2. ConfirmComing(e, s)' <=> ConfirmComing(e, s)
    BY <1>4, <1>10 DEF ConfirmComing
  <2>3. ConfirmComing(e, s) <=>
          slots[y][s] # NoChannel /\ chan[e][slots[y][s]].inReset /\ ~chan[y][slots[y][s]].outReset
    BY DEF Stream, Confirms, y
  <2>4. slots[y][s] # NoChannel => slots[y][s] \in Channels /\ slots[y][s] # c
    BY <1>1, <1>2, Slot DEF On
  <2>5. ConfirmComing(e, s)' <=>
          slots'[y][s] # NoChannel /\ chan'[e][slots'[y][s]].inReset /\ ~chan'[y][slots'[y][s]].outReset
    BY <1>2, <1>7, <2>2, <2>3, <2>4
  <2>6. ConfirmComing(y, s)' <=>
          slots'[e][s] # NoChannel /\ chan'[y][slots'[e][s]].inReset /\ ~chan'[e][slots'[e][s]].outReset
    BY <1>7, <1>9, <2>1
  <2>7. ASSUME NEW x \in Ends
        PROVE  ConfirmComing(x, s)' <=>
                 /\ slots'[Peer(x)][s] # NoChannel
                 /\ chan'[x][slots'[Peer(x)][s]].inReset
                 /\ ~chan'[Peer(x)][slots'[Peer(x)][s]].outReset
    <3>1. CASE x = e
      <4>1. Peer(x) = y
        BY <3>1 DEF y
      <4>2. QED
        BY <2>5, <3>1, <4>1
    <3>2. CASE x = y
      BY <1>2, <2>6, <3>2
    <3>3. QED
      BY <1>2, <3>1, <3>2
  <2>8. QED
    BY <2>7 DEF Confirms
<1>18. Timely(s)'
  <2>1. ASSUME NEW x \in Ends, NEW k \in Members(wire'[x][s]), k.kind # "confirm"
        PROVE  ~chan'[Peer(x)][k.ch].inReset
    <3>1. x = e /\ k = m
      BY <1>2, <1>10, <1>11, <2>1
    <3>2. Peer(x) = y /\ k.ch = c
      BY <1>4, <3>1 DEF y
    <3>3. QED
      BY <1>9, <3>2
  <2>2. QED
    BY <2>1 DEF Timely
<1>19. Order(s)'
  <2>1. ASSUME NEW x \in Ends,
               NEW a \in Members(wire'[x][s]), NEW b \in Members(wire'[x][s]),
               Precedes(wire'[x][s], a, b)
        PROVE  /\ a.kind = "reset" => b.kind = "confirm"
               /\ b.kind = "open" => a.kind = "confirm"
               /\ a.kind = "open" => b.kind # "confirm" /\ ~b.unordered
               /\ a.kind = "confirm" => b.kind # "confirm"
    <3>1. x = e
      BY <1>2, <1>10, <2>1
    <3>2. CASE Precedes(wire[e][s], a, b)
      <4>1. a \in Members(wire[e][s]) /\ b \in Members(wire[e][s])
        BY <3>2 DEF Precedes, Members
      <4>2. QED
        BY <3>2, <4>1 DEF Stream, Order
    <3>3. CASE ~Precedes(wire[e][s], a, b)
      <4>1. b \in {m} /\ (a \in Members(wire[e][s]) \/ (a.kind = "confirm" /\ b.kind = "reset"))
        BY <1>1, <2>1, <3>1, <3>3 DEF Gains
      <4>2. b = m /\ a.kind = "confirm"
        BY <1>4, <1>6, <4>1
      <4>3. QED
        BY <1>4, <4>2
    <3>4. QED
      BY <3>2, <3>3
  <2>2. QED
    BY <2>1 DEF Order
<1>20. Agreed(s)'
  <2>1. ASSUME NEW x \in Ends, NEW d \in Channels, On(x, d, s)'
        PROVE  /\ Created(chan'[x][d].par) = chan'[x][d].par
               /\ Known(Peer(x), d)' => chan'[Peer(x)][d].par = chan'[x][d].par
    <3>1. Peer(x) \in Ends /\ (x = e => Peer(x) = y)
      BY PeerFacts DEF y
    <3>2. CASE d = c
      <4>1. x = e
        BY <1>2, <1>8, <2>1, <3>2 DEF On
      <4>2. QED
        BY <1>3, <1>5, <1>7, <1>8, <3>1, <3>2, <4>1
    <3>3. CASE d # c
      <4>1. /\ Created(chan[x][d].par) = chan[x][d].par
            /\ Known(Peer(x), d) => chan[Peer(x)][d].par = chan[x][d].par
        BY <1>8, <2>1, <3>3 DEF Stream, Agreed
      <4>2. QED
        BY <1>7, <1>8, <3>1, <3>3, <4>1
    <3>4. QED
      BY <3>2, <3>3
  <2>2. ASSUME NEW x \in Ends, NEW k \in Members(wire'[x][s])
        PROVE  /\ k.kind = "open" => k.par = chan'[x][k.ch].par
               /\ k.lossy => chan'[x][k.ch].par.policy # "reliable"
    <3>1. x = e /\ (k = m \/ k \in Members(wire[e][s]))
      BY <1>2, <1>10, <2>2
    <3>2. CASE k = m
      BY <1>4, <1>5, <1>7, <3>1, <3>2
    <3>3. CASE k \in Members(wire[e][s])
      <4>1. k.kind = "confirm"
        BY <1>6, <3>3
      <4>2. ~k.lossy
        BY <3>3, <4>1 DEF Base, Addressed
      <4>3. QED
        BY <4>1, <4>2
    <3>4. QED
      BY <3>1, <3>2, <3>3
  <2>3. QED
    BY <2>1, <2>2 DEF Agreed
<1>21. Counted(s)'
  <2>1. \A k \in {} : k.kind # "data"
    OBVIOUS
  <2>2. \A k \in {m} : k.kind # "data"
    BY <1>4
  <2>3. \A d : Count(wire'[e][s], d) = Count(wire[e][s], d)
    BY <1>1, <2>2, GainsNoData
  <2>4. \A d : Count(wire'[y][s], d) = Count(wire[y][s], d)
    BY <1>1, <1>2, <2>1, GainsNoData
  <2>5. ASSUME NEW x \in Ends, NEW d \in Channels, On(x, d, s)', chan'[x][d].par.policy = "reliable"
        PROVE  received'[Peer(x)][d] + Count(wire'[x][s], d) = sent'[x][d]
    <3>1. Count(wire'[x][s], d) = Count(wire[x][s], d)
      BY <1>2, <2>3, <2>4
    <3>2. CASE d = c
      <4>1. x = e
        BY <1>2, <1>8, <2>5, <3>2 DEF On
      <4>2. received[Peer(x)][c] = 0 /\ sent[x][c] = 0
        BY <1>1 DEF Base, Fresh
      <4>3. \A k \in Members(wire[x][s]) : k.kind = "data" => k.ch # c
        BY <1>6, <4>1
      <4>4. wire[x][s] \in Seq(Items)
        BY DEF TypeOK
      <4>5. Count(wire[x][s], c) = 0
        BY <4>3, <4>4, NoData
      <4>6. QED
        BY <1>1, <3>1, <3>2, <4>2, <4>5
    <3>3. CASE d # c
      <4>1. On(x, d, s) /\ chan[x][d].par.policy = "reliable"
        BY <1>7, <1>8, <2>5, <3>3
      <4>2. received[Peer(x)][d] + Count(wire[x][s], d) = sent[x][d]
        BY <4>1 DEF Stream, Counted
      <4>3. QED
        BY <1>1, <3>1, <4>2
    <3>4. QED
      BY <3>2, <3>3
  <2>6. QED
    BY <2>5 DEF Counted
<1>22. QED
  BY <1>12, <1>13, <1>14, <1>15, <1>16, <1>17, <1>18, <1>19, <1>20, <1>21 DEF Stream

LEMMA AcceptStream ==
  ASSUME TypeOK, TypeOK', Base, NEW e \in Ends, NEW s \in Sids, NEW m \in Items,
         Stream(s), AcceptEffect(e, s, m)
  PROVE  Stream(s)'
<1> DEFINE y == Peer(e)
           c == m.ch
           n == Control("ack", c, NoParameters)
           rec == NewChannel(s, Created(m.par), TRUE)
<1>1. /\ m.kind = "open" /\ Arrival(e, s, m) /\ slots[e][s] = NoChannel
      /\ Gains(e, s, {n}) /\ Loses(y, s, m) /\ Becomes(e, s, c, rec, c)
      /\ UNCHANGED <<sent, received>>
  BY DEF AcceptEffect
<1>2. y \in Ends /\ y # e /\ Peer(y) = e /\ \A x \in Ends : x = e \/ x = y
  BY PeerFacts
<1>3. m \in Members(wire[y][s])
  BY <1>1 DEF Arrival
<1>4. /\ y = Owner(s) /\ c \in Channels /\ On(y, c, s) /\ ~Known(e, c)
      /\ wire[e][s] = <<>>
      /\ ~chan[y][c].inReset /\ ~chan[y][c].outReset /\ ~chan[y][c].canUnordered
      /\ slots[y][s] = c
  BY <1>1, <1>2, <1>3, OpenUnderWay
<1>5. m.par = chan[y][c].par /\ Created(chan[y][c].par) = chan[y][c].par
  BY <1>1, <1>2, <1>3, <1>4 DEF Stream, Agreed
<1>6. n \in Items /\ n.kind = "ack" /\ n.ch = c /\ ~n.unordered /\ ~n.lossy
  BY <1>4, ControlItem, NoParametersType DEF Kinds
<1>7. /\ rec.state = "open" /\ rec.sid = s /\ rec.par = chan[y][c].par
      /\ ~rec.inReset /\ ~rec.outReset
  <2> HIDE DEF y, c, n
  <2>1. m.par \in Parameters
    BY ItemFields
  <2>2. Created(m.par) \in Parameters
    BY <2>1, CreatedParameters
  <2>3. Created(m.par) = chan[y][c].par
    BY <1>5
  <2>4. /\ rec.state = "open" /\ rec.sid = s /\ rec.par = Created(m.par)
        /\ ~rec.inReset /\ ~rec.outReset
    BY <2>2, NewChannelFields
  <2>5. QED
    BY <2>3, <2>4
<1> HIDE DEF y, c, n, rec
<1>8. /\ chan'[e][c] = rec
      /\ \A x \in Ends, d \in Channels : x # e \/ d # c => chan'[x][d] = chan[x][d]
      /\ slots'[e][s] = c /\ slots'[y][s] = c
  BY <1>1, <1>2, <1>4 DEF Becomes
<1>9. /\ \A x \in Ends, d \in Channels : x # e \/ d # c =>
             (Known(x, d)' <=> Known(x, d)) /\ (On(x, d, s)' <=> On(x, d, s))
      /\ On(e, c, s)' /\ On(y, c, s)'
  BY <1>1, <1>2, <1>4, <1>7, <1>8 DEF Known, On
<1>10. chan[e][c].inReset = FALSE /\ sent[e][c] = 0 /\ received[y][c] = 0
  <2>1. chan[e][c] = Unknown /\ sent[e][c] = 0 /\ received[y][c] = 0
    BY <1>4 DEF Base, Fresh, y
  <2>2. ~Unknown.inReset
    BY DEF Unknown
  <2>3. QED
    BY <2>1, <2>2 DEF Unknown
<1>11. /\ \A k : k \in Members(wire'[e][s]) <=> k = n
       /\ \A a, b : ~Precedes(wire'[e][s], a, b) \/ (a.kind = "confirm" /\ b.kind = "reset")
  <2>1. Members(wire[e][s]) = {}
    BY <1>4, EmptyWire
  <2>2. \A a, b : ~Precedes(wire[e][s], a, b)
    BY <2>1 DEF Precedes, Members
  <2>3. \A a, b : Precedes(wire'[e][s], a, b) =>
             \/ Precedes(wire[e][s], a, b)
             \/ a \in Members(wire[e][s]) \/ (a.kind = "confirm" /\ b.kind = "reset")
    BY <1>1 DEF Gains
  <2>4. Members(wire'[e][s]) = Members(wire[e][s]) \cup {n}
    BY <1>1 DEF Gains
  <2>5. QED
    BY <2>1, <2>2, <2>3, <2>4
<1>12. /\ \A k : k \in Members(wire'[y][s]) <=> k \in Members(wire[y][s]) /\ k.kind # "open"
       /\ \A a, b : Precedes(wire'[y][s], a, b) => Precedes(wire[y][s], a, b)
       /\ \A k \in Members(wire[y][s]) : k.kind = "open" => k = m
  <2>1. wire[y][s] \in Seq(Items)
    BY <1>2 DEF TypeOK
  <2>2. \A k \in Members(wire[y][s]) : k.kind = "open" => ~Precedes(wire[y][s], m, k) /\ ~Precedes(wire[y][s], k, m)
    BY <1>1, <1>2, <1>3 DEF Stream, Order
  <2>3. \A k \in Members(wire[y][s]) : k.kind = "open" => k = m
    BY <1>3, <2>1, <2>2, Either
  <2>4. m \notin Members(wire'[y][s])
    BY <1>1, <1>3, <2>2 DEF Loses
  <2>5. /\ Members(wire'[y][s]) \subseteq Members(wire[y][s])
        /\ \A k \in Members(wire[y][s]) : k = m \/ k \in Members(wire'[y][s])
        /\ \A a, b : Precedes(wire'[y][s], a, b) => Precedes(wire[y][s], a, b)
    BY <1>1 DEF Loses
  <2>6. QED
    BY <1>1, <2>3, <2>4, <2>5
<1>13. Introduced(s)'
  <2>1. ASSUME NEW d \in Channels, On(y, d, s)'
        PROVE  ~OpenComing(s, d)' /\ Known(e, d)'
    <3>1. ~OpenComing(s, d)'
      BY <1>4, <1>12 DEF OpenComing
    <3>2. CASE d = c
      BY <1>9, <3>1, <3>2 DEF On
    <3>3. CASE d # c
      <4>1. ~OpenComing(s, d)
        BY <1>4, <1>12, <3>3 DEF OpenComing, c
      <4>2. Known(e, d)
        BY <1>2, <1>4, <1>9, <2>1, <3>3, <4>1 DEF Stream, Introduced
      <4>3. QED
        BY <1>9, <3>1, <3>3, <4>2
    <3>4. QED
      BY <3>2, <3>3
  <2>2. QED
    BY <1>2, <1>4, <2>1 DEF Introduced
<1>14. Waiting(s)'
  <2>1. \A d \in Channels : On(y, d, s)' => Known(e, d)'
    <3>1. \A d : ~OpenComing(s, d)'
      BY <1>4, <1>12 DEF OpenComing
    <3>2. QED
      BY <1>2, <1>4, <1>13, <3>1 DEF Introduced
  <2>2. QED
    BY <1>2, <1>4, <2>1, WaitingNot
<1>15. InSlot(s)'
  <2>1. ASSUME NEW x \in Ends, NEW d \in Channels, On(x, d, s)'
        PROVE  slots'[x][s] = d <=> chan'[x][d].state \in {"open", "closing"}
    <3>1. CASE x = e /\ d = c
      BY <1>7, <1>8, <3>1
    <3>2. CASE x = e /\ d # c
      <4>1. slots[e][s] = d <=> chan[e][d].state \in {"open", "closing"}
        BY <1>9, <2>1, <3>2 DEF Stream, InSlot
      <4>2. slots[e][s] # d
        BY <1>1, NoChannelOut
      <4>3. QED
        BY <1>8, <3>2, <4>1, <4>2
    <3>3. CASE x = y
      <4>1. slots[y][s] = d <=> chan[y][d].state \in {"open", "closing"}
        BY <1>2, <1>9, <2>1, <3>3 DEF Stream, InSlot
      <4>2. QED
        BY <1>2, <1>4, <1>8, <3>3, <4>1
    <3>4. QED
      BY <1>2, <3>1, <3>2, <3>3
  <2>2. QED
    BY <2>1 DEF InSlot
<1>16. Flags(s)'
  <2>1. ASSUME NEW x \in Ends, NEW d \in Channels, On(x, d, s)'
        PROVE  /\ chan'[x][d].inReset => chan'[x][d].state # "open"
               /\ chan'[x][d].outReset => chan'[Peer(x)][d].inReset
               /\ chan'[Peer(x)][d].inReset => chan'[x][d].state # "open"
               /\ chan'[x][d].state = "closed" <=> chan'[x][d].inReset /\ chan'[x][d].outReset
    <3>1. Peer(x) \in Ends /\ (x = e => Peer(x) = y) /\ (x = y => Peer(x) = e)
      BY <1>2, PeerFacts DEF y
    <3>2. CASE x = e /\ d = c
      BY <1>2, <1>4, <1>7, <1>8, <3>1, <3>2
    <3>3. CASE x # e \/ d # c
      <4>1. /\ chan[x][d].inReset => chan[x][d].state # "open"
            /\ chan[x][d].outReset => chan[Peer(x)][d].inReset
            /\ chan[Peer(x)][d].inReset => chan[x][d].state # "open"
            /\ chan[x][d].state = "closed" <=> chan[x][d].inReset /\ chan[x][d].outReset
        BY <1>9, <2>1, <3>3 DEF Stream, Flags
      <4>2. chan'[x][d] = chan[x][d]
        BY <1>8, <3>3
      <4>3. CASE Peer(x) = e /\ d = c
        <5>1. x = y
          BY <1>2, <3>1, <4>3
        <5>2. QED
          BY <1>4, <1>7, <1>8, <4>1, <4>2, <4>3, <5>1
      <4>4. CASE ~(Peer(x) = e /\ d = c)
        <5>1. chan'[Peer(x)][d] = chan[Peer(x)][d]
          BY <1>8, <3>1, <4>4
        <5>2. QED
          BY <4>1, <4>2, <5>1
      <4>5. QED
        BY <4>3, <4>4
    <3>4. QED
      BY <3>2, <3>3
  <2>2. QED
    BY <2>1 DEF Flags
<1>17. Resets(s)'
  <2>1. ASSUME NEW x \in Ends, NEW d \in Channels, On(x, d, s)'
        PROVE  ResetComing(x, s, d)' <=> chan'[x][d].state # "open" /\ ~chan'[Peer(x)][d].inReset
    <3>1. Peer(x) \in Ends /\ (x = e => Peer(x) = y) /\ (x = y => Peer(x) = e)
      BY <1>2, PeerFacts DEF y
    <3>2. ResetComing(x, s, d)' <=> ResetComing(x, s, d)
      <4>1. ~ResetComing(e, s, d)'
        BY <1>6, <1>11 DEF ResetComing
      <4>2. ~ResetComing(e, s, d)
        BY <1>4, EmptyWire DEF ResetComing
      <4>3. ResetComing(y, s, d)' <=> ResetComing(y, s, d)
        BY <1>12 DEF ResetComing
      <4>4. QED
        BY <1>2, <4>1, <4>2, <4>3
    <3>3. CASE x = e /\ d = c
      <4>1. ~ResetComing(e, s, d)
        BY <1>4, EmptyWire DEF ResetComing
      <4>2. QED
        BY <1>7, <1>8, <3>2, <3>3, <4>1
    <3>4. CASE x # e \/ d # c
      <4>1. ResetComing(x, s, d) <=> chan[x][d].state # "open" /\ ~chan[Peer(x)][d].inReset
        BY <1>9, <2>1, <3>4 DEF Stream, Resets
      <4>2. chan'[x][d] = chan[x][d]
        BY <1>8, <3>4
      <4>3. chan'[Peer(x)][d].inReset <=> chan[Peer(x)][d].inReset
        <5>1. CASE Peer(x) = e /\ d = c
          BY <1>7, <1>8, <1>10, <5>1
        <5>2. CASE ~(Peer(x) = e /\ d = c)
          BY <1>8, <3>1, <5>2
        <5>3. QED
          BY <5>1, <5>2
      <4>4. QED
        BY <3>2, <4>1, <4>2, <4>3
    <3>5. QED
      BY <3>3, <3>4
  <2>2. QED
    BY <2>1 DEF Resets
<1>18. Confirms(s)'
  <2>1. ~ConfirmComing(e, s)'
    BY <1>6, <1>11 DEF ConfirmComing
  <2>2. ~ConfirmComing(y, s)
    BY <1>1, <1>2 DEF Stream, Confirms
  <2>3. ~ConfirmComing(y, s)'
    BY <1>12, <2>2 DEF ConfirmComing
  <2>4. ~chan'[e][c].inReset /\ ~chan'[y][c].inReset
    BY <1>2, <1>4, <1>7, <1>8
  <2>5. ASSUME NEW x \in Ends
        PROVE  ConfirmComing(x, s)' <=>
                 /\ slots'[Peer(x)][s] # NoChannel
                 /\ chan'[x][slots'[Peer(x)][s]].inReset
                 /\ ~chan'[Peer(x)][slots'[Peer(x)][s]].outReset
    <3>1. slots'[Peer(x)][s] = c
      BY <1>2, <1>8, PeerFacts
    <3>2. ~ConfirmComing(x, s)' /\ ~chan'[x][c].inReset
      BY <1>2, <2>1, <2>3, <2>4
    <3>3. QED
      BY <3>1, <3>2
  <2>6. QED
    BY <2>5 DEF Confirms
<1>19. Timely(s)'
  <2>1. ASSUME NEW x \in Ends, NEW k \in Members(wire'[x][s]), k.kind # "confirm"
        PROVE  ~chan'[Peer(x)][k.ch].inReset
    <3>1. CASE x = e
      <4>1. k.ch = c /\ Peer(x) = y
        BY <1>6, <1>11, <2>1, <3>1 DEF y
      <4>2. QED
        BY <1>2, <1>4, <1>8, <4>1
    <3>2. CASE x = y
      <4>1. k \in Members(wire[y][s])
        BY <1>12, <2>1, <3>2
      <4>2. k.ch \in Channels /\ ~chan[e][k.ch].inReset
        BY <1>2, <2>1, <4>1 DEF Stream, Timely, Base, Addressed
      <4>3. CASE k.ch = c
        BY <1>2, <1>7, <1>8, <3>2, <4>3
      <4>4. CASE k.ch # c
        BY <1>2, <1>8, <3>2, <4>2, <4>4
      <4>5. QED
        BY <4>3, <4>4
    <3>3. QED
      BY <1>2, <3>1, <3>2
  <2>2. QED
    BY <2>1 DEF Timely
<1>20. Order(s)'
  <2>1. ASSUME NEW x \in Ends,
               NEW a \in Members(wire'[x][s]), NEW b \in Members(wire'[x][s]),
               Precedes(wire'[x][s], a, b)
        PROVE  /\ a.kind = "reset" => b.kind = "confirm"
               /\ b.kind = "open" => a.kind = "confirm"
               /\ a.kind = "open" => b.kind # "confirm" /\ ~b.unordered
               /\ a.kind = "confirm" => b.kind # "confirm"
    <3>1. CASE x = e
      BY <1>6, <1>11, <2>1, <3>1
    <3>2. CASE x = y
      <4>1. /\ a \in Members(wire[y][s]) /\ b \in Members(wire[y][s])
            /\ Precedes(wire[y][s], a, b)
        BY <1>12, <2>1, <3>2
      <4>2. QED
        BY <1>2, <4>1 DEF Stream, Order
    <3>3. QED
      BY <1>2, <3>1, <3>2
  <2>2. QED
    BY <2>1 DEF Order
<1>21. Agreed(s)'
  <2>1. ASSUME NEW x \in Ends, NEW d \in Channels, On(x, d, s)'
        PROVE  /\ Created(chan'[x][d].par) = chan'[x][d].par
               /\ Known(Peer(x), d)' => chan'[Peer(x)][d].par = chan'[x][d].par
    <3>1. Peer(x) \in Ends /\ (x = e => Peer(x) = y) /\ (x = y => Peer(x) = e)
      BY <1>2, PeerFacts DEF y
    <3>2. CASE d = c
      <4>1. chan'[e][c].par = chan[y][c].par /\ chan'[y][c].par = chan[y][c].par
        BY <1>2, <1>4, <1>7, <1>8
      <4>2. QED
        BY <1>2, <1>5, <3>1, <3>2, <4>1
    <3>3. CASE d # c
      <4>1. /\ Created(chan[x][d].par) = chan[x][d].par
            /\ Known(Peer(x), d) => chan[Peer(x)][d].par = chan[x][d].par
        BY <1>9, <2>1, <3>3 DEF Stream, Agreed
      <4>2. QED
        BY <1>8, <1>9, <3>1, <3>3, <4>1
    <3>4. QED
      BY <3>2, <3>3
  <2>2. ASSUME NEW x \in Ends, NEW k \in Members(wire'[x][s])
        PROVE  /\ k.kind = "open" => k.par = chan'[x][k.ch].par
               /\ k.lossy => chan'[x][k.ch].par.policy # "reliable"
    <3>1. CASE x = e
      BY <1>6, <1>11, <2>2, <3>1
    <3>2. CASE x = y
      <4>1. k \in Members(wire[y][s])
        BY <1>12, <2>2, <3>2
      <4>2. /\ k.kind # "confirm" => k.ch \in Channels
            /\ k.kind = "confirm" => ~k.lossy
            /\ k.kind = "open" => k.par = chan[y][k.ch].par
            /\ k.lossy => chan[y][k.ch].par.policy # "reliable"
        BY <1>2, <4>1 DEF Stream, Agreed, Base, Addressed
      <4>3. QED
        BY <1>2, <1>8, <3>2, <4>2
    <3>3. QED
      BY <1>2, <3>1, <3>2
  <2>3. QED
    BY <2>1, <2>2 DEF Agreed
<1>22. Counted(s)'
  <2>1. \A k \in {n} : k.kind # "data"
    BY <1>6
  <2>2. \A d : Count(wire'[e][s], d) = Count(wire[e][s], d)
    BY <1>1, <2>1, GainsNoData
  <2>3. \A d : Count(wire'[y][s], d) = Count(wire[y][s], d)
    BY <1>1, <1>2, LosesCount
  <2>4. ASSUME NEW x \in Ends, NEW d \in Channels, On(x, d, s)', chan'[x][d].par.policy = "reliable"
        PROVE  received'[Peer(x)][d] + Count(wire'[x][s], d) = sent'[x][d]
    <3>1. Count(wire'[x][s], d) = Count(wire[x][s], d)
      BY <1>2, <2>2, <2>3
    <3>2. CASE x = e /\ d = c
      <4>1. Count(wire[e][s], c) = 0
        BY <1>4, EmptyWire
      <4>2. received[Peer(x)][d] = 0 /\ sent[x][d] = 0
        BY <1>10, <3>2 DEF y
      <4>3. QED
        BY <1>1, <3>1, <3>2, <4>1, <4>2
    <3>3. CASE x # e \/ d # c
      <4>1. On(x, d, s) /\ chan[x][d].par.policy = "reliable"
        BY <1>8, <1>9, <2>4, <3>3
      <4>2. received[Peer(x)][d] + Count(wire[x][s], d) = sent[x][d]
        BY <4>1 DEF Stream, Counted
      <4>3. QED
        BY <1>1, <3>1, <4>2
    <3>4. QED
      BY <3>2, <3>3
  <2>5. QED
    BY <2>4 DEF Counted
<1>23. QED
  BY <1>13, <1>14, <1>15, <1>16, <1>17, <1>18, <1>19, <1>20, <1>21, <1>22 DEF Stream

(***************************************************************************)
(* The inductive invariant                                                 *)
(***************************************************************************)
LEMMA SoundBefore ==
  ASSUME NEW e \in Ends, NEW s \in Sids, Effect(e, s)
  PROVE  /\ overtaken \subseteq overtaken' /\ failed \subseteq failed'
         /\ (\E c, rec, slot : FailEffect(e, s, c, rec, slot)) => s \in failed'
<1>1. CASE \E c, rec, slot : FailEffect(e, s, c, rec, slot)
  <2>1. overtaken \subseteq overtaken' /\ Fails(s)
    BY <1>1 DEF FailEffect
  <2>2. failed = {} /\ failed' = {s}
    BY <2>1 DEF Fails
  <2>3. QED
    BY <2>1, <2>2
<1>2. CASE ~\E c, rec, slot : FailEffect(e, s, c, rec, slot)
  <2>1. ASSUME NEW c, NEW p, CreateEffect(e, s, c, p)
        PROVE  overtaken \subseteq overtaken' /\ failed \subseteq failed'
    BY <2>1 DEF CreateEffect, history
  <2>2. ASSUME NEW c, SendEffect(e, s, c) \/ CloseEffect(e, s, c)
        PROVE  overtaken \subseteq overtaken' /\ failed \subseteq failed'
    BY <2>2 DEF SendEffect, CloseEffect, history
  <2>3. ASSUME NEW m, AcceptEffect(e, s, m) \/ RefuseEffect(e, s, m) \/ DataEffect(e, s, m)
        PROVE  overtaken \subseteq overtaken' /\ failed \subseteq failed'
    BY <2>3 DEF AcceptEffect, RefuseEffect, DataEffect
  <2>4. ASSUME NEW m, AckEffect(e, s, m) \/ StrayResetEffect(e, s, m)
                      \/ StrayConfirmEffect(e, s, m) \/ LoseEffect(e, s, m)
        PROVE  overtaken \subseteq overtaken' /\ failed \subseteq failed'
    BY <2>4 DEF AckEffect, StrayResetEffect, StrayConfirmEffect, LoseEffect, history
  <2>5. ASSUME NEW m, NEW c, ResetEffect(e, s, m, c) \/ AnsweredEffect(e, s, m, c)
                      \/ ConfirmEffect(e, s, m, c)
        PROVE  overtaken \subseteq overtaken' /\ failed \subseteq failed'
    BY <2>5 DEF ResetEffect, AnsweredEffect, ConfirmEffect, history
  <2>6. QED
    BY <1>2, <2>1, <2>2, <2>3, <2>4, <2>5 DEF Effect
<1>3. QED
  BY <1>1, <1>2

LEMMA SoundOnly ==
  ASSUME NEW e \in Ends, NEW s \in Sids, Effect(e, s), NEW r, Sound(r)'
  PROVE  /\ Sound(r)
         /\ r = s => ~\E c, rec, slot : FailEffect(e, s, c, rec, slot)
BY SoundBefore DEF Sound

(* The stream a step is about stays as it must be, if it is sound after.    *)
LEMMA SameStream ==
  ASSUME TypeOK, TypeOK', Base, NEW e \in Ends, NEW s \in Sids, Effect(e, s),
         Sound(s)', Stream(s)
  PROVE  Stream(s)'
<1>1. ASSUME NEW c \in Channels, NEW p \in Asked, CreateEffect(e, s, c, p)
      PROVE  Stream(s)'
  BY <1>1, CreateStream
<1>2. ASSUME NEW c \in Channels, SendEffect(e, s, c) PROVE Stream(s)'
  BY <1>2, SendStream
<1>3. ASSUME NEW c \in Channels, CloseEffect(e, s, c) PROVE Stream(s)'
  BY <1>3, CloseStream
<1>4. ASSUME NEW m \in Items, AcceptEffect(e, s, m) PROVE Stream(s)'
  BY <1>4, AcceptStream
<1>5. ASSUME NEW m \in Items PROVE ~RefuseEffect(e, s, m)
  BY RefusedUnsound
<1>6. ASSUME NEW m \in Items, AckEffect(e, s, m) PROVE Stream(s)'
  BY <1>6, AckStream
<1>7. ASSUME NEW m \in Items, DataEffect(e, s, m) PROVE Stream(s)'
  BY <1>7, DataStream
<1>8. ASSUME NEW m \in Items PROVE ~StrayResetEffect(e, s, m) /\ ~StrayConfirmEffect(e, s, m)
  BY NeverStray
<1>9. ASSUME NEW m \in Items, ResetEffect(e, s, m, slots[e][s]) PROVE Stream(s)'
  BY <1>9, ResetIgnoredStream
<1>10. ASSUME NEW m \in Items, AnsweredEffect(e, s, m, slots[e][s]) PROVE Stream(s)'
  BY <1>10, ResetAnsweredStream
<1>11. ASSUME NEW m \in Items, ConfirmEffect(e, s, m, slots[e][s]) PROVE Stream(s)'
  BY <1>11, ConfirmStream
<1>12. ASSUME NEW m \in Items, LoseEffect(e, s, m) PROVE Stream(s)'
  BY <1>12, LoseStream
<1>13. ~\E c, rec, slot : FailEffect(e, s, c, rec, slot)
  BY SoundOnly
<1>14. QED
  BY <1>1, <1>2, <1>3, <1>4, <1>5, <1>6, <1>7, <1>8, <1>9, <1>10, <1>11, <1>12, <1>13
     DEF Effect

LEMMA NextStreams ==
  ASSUME TypeOK, TypeOK', Base, Base', SoundStreams, NEW e \in Ends, NEW s \in Sids, Effect(e, s)
  PROVE  SoundStreams'
<1>1. ASSUME NEW r \in Sids, Sound(r)'
      PROVE  Stream(r)'
  <2>1. Stream(r)
    BY <1>1, SoundOnly DEF SoundStreams
  <2>2. CASE r = s
    BY <1>1, <2>1, <2>2, SameStream
  <2>3. CASE r # s
    <3>1. PICK c : Local(e, s, c)
      BY EffectLocal
    <3>2. Untouched(r)
      BY <2>3, <3>1, OtherStream
    <3>3. QED
      BY <2>1, <3>2, UntouchedStream
  <2>4. QED
    BY <2>2, <2>3
<1>2. QED
  BY <1>1 DEF SoundStreams

(* A channel a step adds to those astray or refused is on its stream, which *)
(* is not sound then.                                                       *)
LEMMA Disowns ==
  ASSUME TypeOK, TypeOK', Base, SoundStreams, NEW e \in Ends, NEW s \in Sids, Effect(e, s),
         NEW c \in astray' \cup refused', c \notin astray \cup refused
  PROVE  c \in Channels /\ On(Peer(e), c, s) /\ ~Sound(s)'
<1>1. ASSUME NEW m \in Items, RefuseEffect(e, s, m)
      PROVE  c = m.ch /\ m.kind = "open" /\ m \in Members(wire[Peer(e)][s]) /\ ~Sound(s)'
  <2>1. c = m.ch /\ m.kind = "open" /\ m \in Members(wire[Peer(e)][s])
    BY <1>1 DEF RefuseEffect, Arrival
  <2>2. Stream(s) => ~Sound(s)'
    BY <1>1, RefusedUnsound
  <2>3. QED
    BY <2>1, <2>2, SoundOnly DEF SoundStreams
<1>2. ASSUME NEW m \in Items, DataEffect(e, s, m)
      PROVE  c = m.ch /\ m.kind = "data" /\ m \in Members(wire[Peer(e)][s]) /\ ~Sound(s)'
  <2>1. c = m.ch /\ m.kind = "data" /\ m \in Members(wire[Peer(e)][s]) /\ slots[e][s] # m.ch
    BY <1>2 DEF DataEffect, Arrival
  <2>2. ~Stream(s)
    BY <1>2, <2>1, DataStream
  <2>3. QED
    BY <2>1, <2>2, SoundOnly DEF SoundStreams
<1>3. \E m \in Items : RefuseEffect(e, s, m) \/ DataEffect(e, s, m)
  <2>1. ASSUME NEW d, NEW p PROVE ~CreateEffect(e, s, d, p)
    BY DEF CreateEffect, history
  <2>2. ASSUME NEW d PROVE ~SendEffect(e, s, d) /\ ~CloseEffect(e, s, d)
    BY DEF SendEffect, CloseEffect, history
  <2>3. ASSUME NEW m
        PROVE  ~AcceptEffect(e, s, m) /\ ~AckEffect(e, s, m) /\ ~LoseEffect(e, s, m)
    BY DEF AcceptEffect, AckEffect, LoseEffect, history
  <2>4. ASSUME NEW m PROVE ~StrayResetEffect(e, s, m) /\ ~StrayConfirmEffect(e, s, m)
    BY DEF StrayResetEffect, StrayConfirmEffect, history
  <2>5. ASSUME NEW m, NEW d
        PROVE  ~ResetEffect(e, s, m, d) /\ ~AnsweredEffect(e, s, m, d) /\ ~ConfirmEffect(e, s, m, d)
    BY DEF ResetEffect, AnsweredEffect, ConfirmEffect, history
  <2>6. ASSUME NEW d, NEW rec, NEW slot PROVE ~FailEffect(e, s, d, rec, slot)
    BY DEF FailEffect
  <2>7. QED
    BY <2>1, <2>2, <2>3, <2>4, <2>5, <2>6 DEF Effect
<1>4. PICK m \in Items :
        /\ c = m.ch /\ m.kind \in {"open", "data"} /\ m \in Members(wire[Peer(e)][s])
        /\ ~Sound(s)'
  BY <1>1, <1>2, <1>3
<1>5. c \in Channels /\ On(Peer(e), c, s)
  BY <1>4, PeerFacts DEF Base, Addressed
<1>6. QED
  BY <1>4, <1>5

LEMMA NextDisowned ==
  ASSUME TypeOK, TypeOK', Base, SoundStreams, Disowned,
         NEW e \in Ends, NEW s \in Sids, Effect(e, s)
  PROVE  Disowned'
<1>1. PICK k : Local(e, s, k)
  BY EffectLocal
<1>2. \A x \in Ends, d \in Channels, r \in Sids : On(x, d, r) => On(x, d, r)'
  BY <1>1, OnForGood
<1>3. ASSUME NEW c \in astray' \cup refused'
      PROVE  \E x \in Ends : Known(x, c)' /\ ~Sound(chan[x][c].sid)'
  <2>1. CASE c \in astray \cup refused
    <3>1. PICK x \in Ends : Known(x, c) /\ ~Sound(chan[x][c].sid)
      BY <2>1 DEF Disowned
    <3>2. c \in Channels
      BY <2>1 DEF TypeOK
    <3>3. chan[x][c] \in ChannelRecords
      BY <3>2 DEF TypeOK
    <3>4. chan[x][c].sid \in Sids
      BY <3>3 DEF ChannelRecords
    <3>5. On(x, c, chan[x][c].sid)
      BY <3>1 DEF On
    <3>6. Known(x, c)' /\ chan'[x][c].sid = chan[x][c].sid
      BY <1>2, <3>2, <3>4, <3>5 DEF On
    <3>7. ~Sound(chan[x][c].sid)'
      BY <3>1, <3>6, SoundBefore DEF Sound
    <3>8. QED
      BY <3>6, <3>7
  <2>2. CASE c \notin astray \cup refused
    <3>1. c \in Channels /\ On(Peer(e), c, s) /\ ~Sound(s)'
      BY <1>3, <2>2, Disowns
    <3>2. Peer(e) \in Ends
      BY PeerFacts
    <3>3. On(Peer(e), c, s)'
      BY <1>2, <3>1, <3>2
    <3>4. QED
      BY <3>1, <3>2, <3>3 DEF On
  <2>3. QED
    BY <2>1, <2>2
<1>4. QED
  BY <1>3 DEF Disowned

LEMMA InitStreams ==
  ASSUME Init, TypeOK
  PROVE  SoundStreams /\ Disowned
<1>1. /\ \A e \in Ends, s \in Sids : /\ slots[e][s] = NoChannel
                                     /\ wire[e][s] = <<>>
                                     /\ Members(wire[e][s]) = {}
      /\ \A e \in Ends, c \in Channels : ~Known(e, c)
      /\ astray = {} /\ refused = {}
  BY InitEmpty
<1>2. ASSUME NEW s \in Sids
      PROVE  Stream(s)
  <2>1. Owner(s) \in Ends
    BY SidFacts
  <2>2. \A e \in Ends, c \in Channels : ~On(e, c, s)
    BY <1>1 DEF On
  <2>3. \A e \in Ends : \A m : m \notin Members(wire[e][s])
    BY <1>1
  <2>4. \A e \in Ends : \A a, b : ~Precedes(wire[e][s], a, b)
    BY <1>1 DEF Precedes
  <2>5. Introduced(s) /\ Waiting(s)
    BY <2>1, <2>2 DEF Introduced, Waiting
  <2>6. InSlot(s) /\ Flags(s) /\ Resets(s) /\ Counted(s)
    BY <2>2 DEF InSlot, Flags, Resets, Counted
  <2>7. Confirms(s)
    <3>1. \A e \in Ends : ~ConfirmComing(e, s)
      BY <2>3 DEF ConfirmComing
    <3>2. QED
      BY <1>1, <3>1, PeerFacts DEF Confirms
  <2>8. Timely(s) /\ Order(s)
    BY <2>3, <2>4 DEF Timely, Order
  <2>9. Agreed(s)
    BY <2>2, <2>3 DEF Agreed
  <2>10. QED
    BY <2>5, <2>6, <2>7, <2>8, <2>9 DEF Stream
<1>3. SoundStreams
  BY <1>2 DEF SoundStreams
<1>4. Disowned
  BY <1>1 DEF Disowned
<1>5. QED
  BY <1>3, <1>4

LEMMA StutterInv ==
  ASSUME Inv, UNCHANGED vars
  PROVE  SoundStreams' /\ Disowned'
<1>1. /\ \A e \in Ends, s \in Sids : wire'[e][s] = wire[e][s] /\ slots'[e][s] = slots[e][s]
      /\ chan' = chan /\ sent' = sent /\ received' = received
      /\ overtaken' = overtaken /\ failed' = failed /\ astray' = astray /\ refused' = refused
  BY DEF vars
<1>2. ASSUME NEW s \in Sids, Sound(s)'
      PROVE  Stream(s)'
  <2>1. Stream(s)
    BY <1>1, <1>2 DEF Inv, SoundStreams, Sound
  <2>2. Untouched(s)
    BY <1>1 DEF Untouched, On, Known
  <2>3. QED
    BY <2>1, <2>2, UntouchedStream DEF Inv
<1>3. SoundStreams'
  BY <1>2 DEF SoundStreams
<1>4. Disowned'
  BY <1>1 DEF Inv, Disowned, Known, Sound
<1>5. QED
  BY <1>3, <1>4

LEMMA InvInductive ==
  ASSUME Inv, [Next]_vars
  PROVE  Inv'
<1>1. TypeOK' /\ Base'
  BY NextBase DEF Inv
<1>2. CASE Next
  <2>1. PICK e \in Ends, s \in Sids : Effect(e, s)
    BY <1>2, Steps DEF Inv
  <2>2. SoundStreams' /\ Disowned'
    BY <1>1, <2>1, NextStreams, NextDisowned DEF Inv
  <2>3. QED
    BY <1>1, <2>2 DEF Inv
<1>3. CASE UNCHANGED vars
  BY <1>1, <1>3, StutterInv DEF Inv
<1>4. QED
  BY <1>2, <1>3

(* What each end knows, and what is under way: on a stream no reset failed   *)
(* on and no OPEN overtook a confirmation on, the resets (T:684, 1116),     *)
(* confirmations (T:1127) and OPENs (T:1285) under way are exactly those    *)
(* that its two ends still miss by their flags, states and slots, and what  *)
(* is received and under way of a channel has been sent.                    *)
THEOREM Invariance == Spec => []Inv
<1>1. Init => Inv
  BY InitBase, InitStreams DEF Inv
<1>2. Inv /\ [Next]_vars => Inv'
  BY InvInductive
<1>3. QED
  BY <1>1, <1>2, PTL DEF Spec

(* Every variable keeps its type; that an end does not count more messages  *)
(* as received than could be sent (T:1473) takes the whole invariant: what  *)
(* is received and what is under way of a channel together were sent.       *)
THEOREM TypeCorrect == Spec => []TypeOK
<1>1. Inv => TypeOK
  BY DEF Inv
<1>2. QED
  BY <1>1, Invariance, PTL

(***************************************************************************)
(* What follows from it                                                    *)
(***************************************************************************)
LEMMA StreamOf ==
  ASSUME TypeOK, Base, NEW e \in Ends, NEW c \in Channels, Known(e, c)
  PROVE  /\ chan[e][c].sid \in Sids
         /\ On(e, c, chan[e][c].sid)
         /\ SidOf(c) = chan[e][c].sid
         /\ Known(Peer(e), c) => On(Peer(e), c, chan[e][c].sid)
<1>1. chan[e][c] \in ChannelRecords
  BY DEF TypeOK
<1>2. chan[e][c].sid \in Sids
  BY <1>1 DEF ChannelRecords
<1>3. Known(Peer(e), c) => chan[Peer(e)][c].sid = chan[e][c].sid
  BY DEF Base, OneStream
<1>4. SidOf(c) = chan[e][c].sid
  <2> DEFINE x == CHOOSE x \in Ends : chan[x][c].state # "none"
  <2>1. x \in Ends /\ chan[x][c].state # "none"
    BY DEF Known
  <2>2. SidOf(c) = chan[x][c].sid
    BY DEF SidOf
  <2> HIDE DEF x
  <2>3. x = e \/ x = Peer(e)
    BY <2>1, PeerFacts
  <2>4. QED
    BY <1>3, <2>1, <2>2, <2>3 DEF Known
<1>5. QED
  BY <1>2, <1>3, <1>4 DEF On

LEMMA InvOpenAccepted == Inv => OpenAccepted
<1>1. SUFFICES ASSUME Inv, NEW c \in refused
               PROVE  ~Sound(SidOf(c))
  BY DEF OpenAccepted
<1>2. PICK e \in Ends : Known(e, c) /\ ~Sound(chan[e][c].sid)
  BY <1>1 DEF Inv, Disowned
<1>3. c \in Channels
  BY <1>1 DEF Inv, TypeOK
<1>4. SidOf(c) = chan[e][c].sid
  BY <1>1, <1>2, <1>3, StreamOf DEF Inv
<1>5. QED
  BY <1>2, <1>4

LEMMA InvNothingAstray == Inv => NothingAstray
<1>1. SUFFICES ASSUME Inv, NEW c \in astray
               PROVE  ~Sound(SidOf(c))
  BY DEF NothingAstray
<1>2. PICK e \in Ends : Known(e, c) /\ ~Sound(chan[e][c].sid)
  BY <1>1 DEF Inv, Disowned
<1>3. c \in Channels
  BY <1>1 DEF Inv, TypeOK
<1>4. SidOf(c) = chan[e][c].sid
  BY <1>1, <1>2, <1>3, StreamOf DEF Inv
<1>5. QED
  BY <1>2, <1>4

LEMMA InvAsAsked == Inv => AsAsked
<1>1. SUFFICES ASSUME Inv, NEW e \in Ends, NEW c \in Channels,
                      Known(e, c), Known(Peer(e), c), Sound(chan[e][c].sid)
               PROVE  /\ chan[e][c].par = chan[Peer(e)][c].par
                      /\ (chan[Peer(e)][c].par.policy = "reliable" /\ chan[e][c].state = "closed") =>
                           received[e][c] = sent[Peer(e)][c]
  BY DEF AsAsked, Known
<1> DEFINE s == chan[e][c].sid
           y == Peer(e)
<1>2. s \in Sids /\ On(e, c, s) /\ On(y, c, s)
  BY <1>1, StreamOf DEF Inv
<1>3. Stream(s)
  BY <1>1, <1>2 DEF Inv, SoundStreams
<1>4. y \in Ends /\ Peer(y) = e
  BY PeerFacts
<1> HIDE DEF s, y
<1>5. chan[e][c].par = chan[y][c].par
  BY <1>1, <1>2, <1>3 DEF Stream, Agreed, y
<1>6. ASSUME chan[y][c].par.policy = "reliable", chan[e][c].state = "closed"
      PROVE  received[e][c] = sent[y][c]
  <2>1. received[e][c] + Count(wire[y][s], c) = sent[y][c]
    BY <1>2, <1>3, <1>4, <1>6 DEF Stream, Counted
  <2>2. chan[e][c].inReset
    BY <1>2, <1>3, <1>6 DEF Stream, Flags
  <2>3. \A m \in Members(wire[y][s]) : m.kind = "data" => m.ch # c
    BY <1>3, <1>4, <2>2 DEF Stream, Timely
  <2>4. wire[y][s] \in Seq(Items)
    BY <1>1, <1>2, <1>4 DEF Inv, TypeOK
  <2>5. Count(wire[y][s], c) = 0
    BY <2>3, <2>4, NoData
  <2>6. received[e][c] \in 0 .. MaxSends
    BY <1>1 DEF Inv, TypeOK
  <2>7. received[e][c] \in Int
    BY <2>6
  <2>8. QED
    BY <2>1, <2>5, <2>7
<1>7. QED
  BY <1>5, <1>6 DEF y

LEMMA InvSettledAgrees == Inv => SettledAgrees
<1>1. SUFFICES ASSUME Inv, NEW s \in Sids, Sound(s), \A e \in Ends : wire[e][s] = <<>>
               PROVE  /\ slots["client"][s] = slots["server"][s]
                      /\ \A e \in Ends :
                           slots[e][s] # NoChannel => chan[e][slots[e][s]].state = "open"
  BY DEF SettledAgrees
<1>2. Stream(s)
  BY <1>1 DEF Inv, SoundStreams
<1>3. /\ \A c : ~OpenComing(s, c)
      /\ \A e \in Ends : ~ConfirmComing(e, s) /\ \A c : ~ResetComing(e, s, c)
  <2>1. \A e \in Ends : Members(wire[e][s]) = {}
    BY <1>1, EmptyWire
  <2>2. QED
    BY <2>1, SidFacts DEF OpenComing, ConfirmComing, ResetComing
<1>4. ASSUME NEW e \in Ends, slots[e][s] # NoChannel
      PROVE  chan[e][slots[e][s]].state = "open" /\ slots[Peer(e)][s] = slots[e][s]
  <2> DEFINE c == slots[e][s]
             y == Peer(e)
  <2>1. y \in Ends /\ Peer(y) = e /\ y # e
    BY PeerFacts
  <2>2. c \in Channels /\ On(e, c, s)
    BY <1>1, <1>4, Slot DEF Inv
  <2>3. On(y, c, s)
    <3>1. On(Owner(s), c, s)
      BY <1>1, <2>2 DEF Inv, Base, OneStream, On
    <3>2. Known(Peer(Owner(s)), c)
      BY <1>2, <1>3, <2>2, <3>1 DEF Stream, Introduced
    <3>3. Known(y, c)
      BY <3>1, <3>2, SidFacts, PeerFacts DEF On
    <3>4. QED
      BY <1>1, <2>2, <3>3 DEF Inv, Base, OneStream, On
  <2> HIDE DEF c, y
  <2>4. chan[e][c].state \in {"open", "closing"}
    BY <1>2, <2>2 DEF Stream, InSlot, c
  <2>5. /\ chan[e][c].state = "open" \/ chan[y][c].inReset
        /\ chan[y][c].state = "open" \/ chan[e][c].inReset
    BY <1>2, <1>3, <2>1, <2>2, <2>3 DEF Stream, Resets, y
  <2>6. ~chan[y][c].inReset \/ chan[e][c].outReset
    <3>1. slots[Peer(y)][s] = c /\ c # NoChannel
      BY <2>1, <1>4 DEF c
    <3>2. QED
      BY <1>2, <1>3, <2>1, <3>1 DEF Stream, Confirms
  <2>7. chan[e][c].state = "open"
    <3>1. SUFFICES ASSUME chan[e][c].state # "open" PROVE FALSE
      OBVIOUS
    <3>2. chan[y][c].inReset /\ chan[e][c].outReset
      BY <2>5, <2>6, <3>1
    <3>3. chan[y][c].state # "open"
      BY <1>1, <1>2, <2>1, <2>2, <2>3, <3>2, FlagFacts DEF Inv
    <3>4. chan[e][c].inReset
      BY <2>5, <3>3
    <3>5. chan[e][c].state = "closed"
      BY <1>2, <2>2, <3>2, <3>4 DEF Stream, Flags
    <3>6. QED
      BY <2>4, <3>5
  <2>8. ~chan[e][c].inReset
    BY <1>2, <2>2, <2>7 DEF Stream, Flags
  <2>9. slots[y][s] = c
    BY <1>2, <2>1, <2>2, <2>3, <2>5, <2>8 DEF Stream, InSlot
  <2>10. QED
    BY <2>7, <2>9 DEF c, y
<1>5. slots["client"][s] = slots["server"][s]
  <2>1. "client" \in Ends /\ "server" \in Ends /\ Peer("client") = "server" /\ Peer("server") = "client"
    BY DEF Ends, Peer
  <2>2. QED
    BY <1>4, <2>1
<1>6. QED
  BY <1>4, <1>5

(* An OPEN finds its slot free (T:1303), unless a reset failed on the       *)
(* stream or the OPEN overtook the confirmation that the peer waits for.    *)
THEOREM OpenAcceptedHolds == Spec => []OpenAccepted
BY Invariance, InvOpenAccepted, PTL

(* A message reaches the channel it was sent on (T:1473), also when it is   *)
(* sent unordered right after the OPEN or arrives while the channel is      *)
(* closing, and when the stream has been used by another channel before.    *)
THEOREM NothingAstrayHolds == Spec => []NothingAstray
BY Invariance, InvNothingAstray, PTL

(* The two ends of a channel agree on its parameters, and the end of a      *)
(* reliable channel that is closed has received all that the other sent.    *)
THEOREM AsAskedHolds == Spec => []AsAsked
BY Invariance, InvAsAsked, PTL

(* When nothing is under way on a stream both ends have the same channel in *)
(* its slot, open on both sides, or none: closing is never half done.       *)
THEOREM SettledAgreesHolds == Spec => []SettledAgrees
BY Invariance, InvSettledAgrees, PTL
=============================================================================
