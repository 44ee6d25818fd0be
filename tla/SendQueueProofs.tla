--------------------------- MODULE SendQueueProofs ---------------------------
(***************************************************************************)
(* Theorems about SendQueue, for any messages, sizes and chunk size.       *)
(***************************************************************************)
EXTENDS SendQueue, SequenceTheorems, TLAPS

(* The message that is sent directly finds nothing deferred, the one that   *)
(* is flushed is the first; the flag is set again once a job ends.          *)
JobSound ==
  /\ job.from = "app" => queue = <<>> /\ fate[job.m] = "sending"
  /\ job.from = "queue" => queue # <<>> /\ Head(queue) = job.m
  /\ job # NoJob => job.eorSet
  /\ \A m \in Messages : eor[m] \/ (job # NoJob /\ job.m = m)

(* What is deferred is in the queue, once; what is sent directly is busy.   *)
QueueSound ==
  /\ \A i \in 1 .. Len(queue) : fate[queue[i]] = "deferred"
  /\ \A i, j \in 1 .. Len(queue) : queue[i] = queue[j] => i = j
  /\ \A m \in Messages :
       fate[m] = "deferred" => \E i \in 1 .. Len(queue) : queue[i] = m
  /\ \A m \in Messages : fate[m] = "sending" => job.from = "app" /\ job.m = m

(* The message whose turn it is.                                            *)
InTurn(m) ==
  IF job.from = "app" THEN job.m = m ELSE queue # <<>> /\ Head(queue) = m

(* A message that has begun to leave and has an end to come is the one whose *)
(* turn it is, and nothing has left after its last piece.                    *)
WireSound ==
  /\ \A i \in 1 .. Len(wire) :
       /\ fate[wire[i].m] # "unsent"
       /\ fate[wire[i].m] \in {"sending", "deferred"} =>
            InTurn(wire[i].m) /\ wire[Len(wire)].m = wire[i].m
  /\ \A i \in 1 .. Len(ended) : fate[ended[i]] = "sent"

Inv == TypeOK /\ JobSound /\ QueueSound /\ WireSound /\ Contiguous

(***************************************************************************)
(* Jobs and sequences                                                      *)
(***************************************************************************)
LEMMA JobType ==
  ASSUME TypeOK, NEW from \in Origins, NEW m \in Messages
  PROVE  /\ Job(from, m) \in Jobs
         /\ Job(from, m).from = from /\ Job(from, m).m = m
         /\ Job(from, m).eorSet = eor[m]
         /\ Job(from, m) # NoJob
BY DEF TypeOK, Job, Jobs, NoJob, Origins

LEMMA BusyType ==
  ASSUME TypeOK, job # NoJob
  PROVE  job.m \in Messages /\ job.from \in Origins /\ job.eorSet \in BOOLEAN
BY DEF TypeOK, Jobs

LEMMA WireType ==
  ASSUME TypeOK
  PROVE  /\ Len(wire) \in Nat
         /\ \A i \in 1 .. Len(wire) : wire[i].m \in Messages
<1> DEFINE Pieces == [m : Messages, n : Nat \ {0}, eor : BOOLEAN]
<1>1. wire \in Seq(Pieces) BY DEF TypeOK
<1>2. \A p \in Pieces : p.m \in Messages OBVIOUS
<1> HIDE DEF Pieces
<1>3. QED BY <1>1, <1>2

LEMMA NoJobFrom == NoJob.from = "none"
BY DEF NoJob

LEMMA AppendType ==
  ASSUME NEW S, NEW s \in Seq(S), NEW e \in S
  PROVE  /\ Append(s, e) \in Seq(S)
         /\ Len(Append(s, e)) = Len(s) + 1
         /\ Append(s, e)[Len(s) + 1] = e
         /\ \A i \in 1 .. Len(s) : Append(s, e)[i] = s[i]
         /\ \A i \in 1 .. Len(s) + 1 : i \in 1 .. Len(s) \/ i = Len(s) + 1
         /\ Append(s, e) # <<>>
         /\ s # <<>> => Head(Append(s, e)) = Head(s)
         /\ s = <<>> => Head(Append(s, e)) = e
OBVIOUS

LEMMA TailType ==
  ASSUME NEW S, NEW s \in Seq(S), s # <<>>
  PROVE  /\ Tail(s) \in Seq(S)
         /\ Len(s) \in Nat \ {0}
         /\ Len(Tail(s)) = Len(s) - 1
         /\ \A i \in 1 .. Len(s) - 1 : Tail(s)[i] = s[i + 1]
         /\ Head(s) = s[1] /\ Head(s) \in S
OBVIOUS

(* The job after a message of the queue, or when the socket is writable.    *)
LEMMA NextJobType ==
  ASSUME TypeOK, NEW q \in Seq(Messages)
  PROVE  /\ NextJob(q) \in Jobs \cup {NoJob}
         /\ NextJob(q).from # "app"
         /\ NextJob(q).from = "queue" => q # <<>> /\ Head(q) = NextJob(q).m
         /\ NextJob(q) # NoJob => NextJob(q).eorSet = eor[NextJob(q).m]
<1>1. CASE q = <<>> BY <1>1, NoJobFrom DEF NextJob
<1>2. CASE q # <<>>
  <2>1. Head(q) \in Messages BY <1>2
  <2>2. NextJob(q) = Job("queue", Head(q)) BY <1>2 DEF NextJob
  <2>3. "queue" \in Origins BY DEF Origins
  <2>4. QED BY <1>2, <2>1, <2>2, <2>3, JobType
<1>3. QED BY <1>1, <1>2

LEMMA ChunkType ==
  ASSUME TypeOK, NEW m \in Messages
  PROVE  /\ Chunk(m) \in Nat
         /\ Chunk(m) =< left[m]
         /\ left[m] \in Nat
         /\ Last(m) => Chunk(m) = left[m]
         /\ left[m] > 0 /\ Chunk(m) = left[m] => Last(m)
BY ChunkAssumption DEF TypeOK, Chunk, Last

(***************************************************************************)
(* One lemma per action                                                    *)
(***************************************************************************)
LEMMA BusySound ==
  ASSUME Inv, Busy
  PROVE  /\ job.m \in Messages /\ job.eorSet = TRUE /\ InTurn(job.m)
         /\ fate[job.m] \in {"sending", "deferred"}
         /\ \A m \in Messages : m # job.m => eor[m] = TRUE
         /\ \A m : InTurn(m) => m = job.m
         /\ job.from = "queue" => job.m = queue[1]
         /\ job.from \in {"app", "queue"}
<1>1. job.m \in Messages /\ job.from \in {"app", "queue"} /\ job.eorSet = TRUE
  BY BusyType DEF Inv, Busy, JobSound, Origins
<1>2. CASE job.from = "app" BY <1>1, <1>2 DEF Inv, JobSound, InTurn, TypeOK
<1>3. CASE job.from = "queue"
  <2>1. queue # <<>> /\ Head(queue) = job.m /\ queue \in Seq(Messages)
    BY <1>3 DEF Inv, JobSound, TypeOK
  <2>2. Head(queue) = queue[1] /\ 1 \in 1 .. Len(queue) BY <2>1, TailType
  <2>3. fate[job.m] = "deferred" BY <2>1, <2>2 DEF Inv, QueueSound
  <2>4. QED BY <1>1, <1>3, <2>1, <2>2, <2>3 DEF Inv, JobSound, InTurn, TypeOK
<1>4. QED BY <1>1, <1>2, <1>3

LEMMA DoneSound ==
  ASSUME Inv, Busy, NEW result \in {"sent", "refused", "dropped"}, Done(result)
  PROVE  /\ queue' \in Seq(Messages) /\ job' \in Jobs \cup {NoJob}
         /\ fate' = [fate EXCEPT ![job.m] = result]
         /\ eor' = [eor EXCEPT ![job.m] = TRUE]
         /\ JobSound' /\ QueueSound'
<1> DEFINE m == job.m
<1>1. /\ m \in Messages /\ job.eorSet = TRUE
      /\ fate[m] \in {"sending", "deferred"}
      /\ \A u \in Messages : u # m => eor[u] = TRUE
      /\ job.from = "queue" => m = queue[1]
      /\ job.from \in {"app", "queue"}
  BY BusySound
<1>2. /\ fate' = [fate EXCEPT ![m] = result]
      /\ eor' = [eor EXCEPT ![m] = TRUE]
  BY <1>1 DEF Done, FlagAfter
<1>3. /\ fate'[m] = result
      /\ \A u \in Messages : u # m => fate'[u] = fate[u]
      /\ \A u \in Messages : eor'[u] = TRUE
  BY <1>1, <1>2 DEF Inv, TypeOK
<1>4. queue \in Seq(Messages) BY DEF Inv, TypeOK
<1> HIDE DEF m
<1>5. CASE job.from = "app"
  <2>1. queue' = queue /\ queue = <<>> /\ job' = NoJob
    BY <1>5 DEF Done, Inv, JobSound
  <2>2. JobSound' BY <1>3, <2>1, NoJobFrom DEF JobSound
  <2>3. \A u \in Messages : fate[u] = "deferred" => FALSE
    BY <2>1 DEF Inv, QueueSound
  <2>4. \A u \in Messages : fate[u] = "sending" => u = m
    BY DEF Inv, QueueSound, m
  <2>5. QueueSound' BY <1>1, <1>3, <2>1, <2>3, <2>4 DEF QueueSound
  <2>6. QED BY <1>2, <1>4, <2>1, <2>2, <2>5 DEF m
<1>6. CASE job.from = "queue"
  <2>1. /\ queue' = Tail(queue) /\ job' = NextJob(queue') /\ queue # <<>>
    BY <1>6 DEF Done, Inv, JobSound
  <2>2. /\ queue' \in Seq(Messages)
        /\ Len(queue) \in Nat \ {0} /\ Len(queue') = Len(queue) - 1
        /\ \A i \in 1 .. Len(queue') : queue'[i] = queue[i + 1]
    BY <1>4, <2>1, TailType
  <2>3. /\ job' \in Jobs \cup {NoJob}
        /\ job'.from # "app"
        /\ job'.from = "queue" => queue' # <<>> /\ Head(queue') = job'.m
        /\ job' # NoJob => job'.eorSet = eor[job'.m]
    BY <2>1, <2>2, NextJobType DEF Inv
  <2>4. \A i \in 1 .. Len(queue') :
          i + 1 \in 1 .. Len(queue) /\ queue[i + 1] # m /\ queue[i + 1] \in Messages
    <3>1. \A i \in 1 .. Len(queue') : i + 1 \in 1 .. Len(queue) /\ i + 1 # 1
      BY <2>2
    <3>2. 1 \in 1 .. Len(queue) /\ queue[1] = m BY <1>1, <1>6, <2>2
    <3>3. QED BY <1>4, <3>1, <3>2 DEF Inv, QueueSound
  <2>5. QueueSound'
    <3>1. \A i \in 1 .. Len(queue') : fate'[queue'[i]] = "deferred"
      BY <1>3, <2>2, <2>4 DEF Inv, QueueSound
    <3>2. \A i, j \in 1 .. Len(queue') : queue'[i] = queue'[j] => i = j
      <4> SUFFICES ASSUME NEW i \in 1 .. Len(queue'), NEW j \in 1 .. Len(queue'),
                          queue'[i] = queue'[j]
                   PROVE  i = j
        OBVIOUS
      <4>1. i + 1 = j + 1 BY <2>2, <2>4 DEF Inv, QueueSound
      <4>2. QED BY <2>2, <4>1
    <3>3. ASSUME NEW u \in Messages, fate'[u] = "deferred"
          PROVE  \E i \in 1 .. Len(queue') : queue'[i] = u
      <4>1. u # m /\ fate[u] = "deferred" BY <1>3, <3>3
      <4>2. PICK i \in 1 .. Len(queue) : queue[i] = u
        BY <4>1 DEF Inv, QueueSound
      <4>3. i # 1 BY <1>1, <1>6, <4>1, <4>2
      <4>4. i - 1 \in 1 .. Len(queue') /\ (i - 1) + 1 = i BY <2>2, <4>3
      <4>5. QED BY <2>2, <4>2, <4>4
    <3>4. \A u \in Messages : fate'[u] # "sending"
      BY <1>3, <1>6 DEF Inv, QueueSound
    <3>5. QED BY <3>1, <3>2, <3>3, <3>4 DEF QueueSound
  <2>6. JobSound'
    <3>1. job' # NoJob => job'.eorSet
      <4>1. ASSUME job' # NoJob PROVE job'.eorSet
        <5>1. job'.from = "queue" /\ job'.m \in Messages
          BY <2>3, <4>1 DEF Jobs, Origins
        <5>2. job'.m = queue'[1] /\ 1 \in 1 .. Len(queue')
          BY <2>2, <2>3, <5>1, TailType
        <5>3. job'.m # m BY <2>2, <2>4, <5>2
        <5>4. QED BY <1>1, <2>3, <4>1, <5>1, <5>3
      <4>2. QED BY <4>1
    <3>2. QED BY <1>3, <2>3, <3>1 DEF JobSound
  <2>7. QED BY <1>2, <2>2, <2>3, <2>5, <2>6 DEF m
<1>7. QED BY <1>1, <1>5, <1>6

LEMMA SendInv ==
  ASSUME Inv, NEW m \in Messages, Send(m)
  PROVE  Inv'
<1>1. /\ job = NoJob /\ fate[m] = "unsent"
      /\ UNCHANGED <<state, left, eor, wire, ended>>
  BY DEF Send
<1>2. PICK f \in {"refused", "sending", "deferred"} :
        fate' = [fate EXCEPT ![m] = f]
  BY DEF Send
<1>3. /\ fate'[m] = f
      /\ \A u \in Messages \ {m} : fate'[u] = fate[u]
      /\ \A u \in Messages : eor[u] = TRUE
      /\ \A u \in Messages : fate[u] # "sending"
  BY <1>1, <1>2, NoJobFrom DEF Inv, TypeOK, JobSound, QueueSound
<1>4. fate' \in [Messages -> Fates] BY <1>2 DEF Inv, TypeOK, Fates
<1>5. \A i \in 1 .. Len(wire) : wire[i].m \in Messages \ {m}
  BY <1>1, WireType DEF Inv, WireSound
<1>6. \A i \in 1 .. Len(ended) : ended[i] \in Messages \ {m}
  BY <1>1 DEF Inv, TypeOK, WireSound
<1>7. \A i \in 1 .. Len(queue) : queue[i] \in Messages \ {m}
  BY <1>1 DEF Inv, TypeOK, QueueSound
<1>8. Contiguous' BY <1>1 DEF Inv, Contiguous
<1>9. CASE TooLong(m)
  <2>1. UNCHANGED <<queue, job>> /\ fate'[m] = "refused"
    BY <1>3, <1>9 DEF Send, Inv, TypeOK
  <2>2. TypeOK' BY <1>1, <1>4, <2>1 DEF Inv, TypeOK
  <2>3. JobSound' BY <1>1, <2>1, NoJobFrom DEF Inv, JobSound
  <2>4. QueueSound' BY <1>3, <1>7, <2>1 DEF Inv, QueueSound
  <2>5. WireSound' BY <1>1, <1>3, <1>5, <1>6, <2>1 DEF Inv, WireSound, InTurn
  <2>6. QED BY <1>8, <2>2, <2>3, <2>4, <2>5 DEF Inv
<1>10. CASE ~TooLong(m) /\ Direct
  <2>1. /\ queue' = queue /\ queue = <<>> /\ fate'[m] = "sending"
        /\ job' = Job("app", m)
    BY <1>3, <1>10 DEF Send, Direct, Inv, TypeOK
  <2>2. /\ job' \in Jobs /\ job'.from = "app" /\ job'.m = m
        /\ job'.eorSet = TRUE /\ job' # NoJob
    BY <1>3, <2>1, JobType DEF Origins, Inv
  <2>3. TypeOK' BY <1>1, <1>4, <2>1, <2>2 DEF Inv, TypeOK
  <2>4. JobSound' BY <1>1, <1>3, <2>1, <2>2 DEF JobSound
  <2>5. QueueSound' BY <1>3, <1>7, <2>1, <2>2 DEF Inv, QueueSound
  <2>6. ~\E i \in 1 .. Len(wire) : fate[wire[i].m] \in {"sending", "deferred"}
    BY <1>1, <2>1, NoJobFrom DEF Inv, WireSound, InTurn
  <2>7. WireSound' BY <1>1, <1>3, <1>5, <1>6, <2>6 DEF Inv, WireSound
  <2>8. QED BY <1>8, <2>3, <2>4, <2>5, <2>7 DEF Inv
<1>11. CASE ~TooLong(m) /\ ~Direct
  <2>1. /\ queue' = Append(queue, m) /\ fate'[m] = "deferred" /\ job' = job
    BY <1>3, <1>11 DEF Send, Defer, Inv, TypeOK
  <2>2. /\ queue \in Seq(Messages) /\ queue' \in Seq(Messages)
        /\ Len(queue') = Len(queue) + 1 /\ Len(queue) \in Nat
        /\ queue'[Len(queue) + 1] = m
        /\ \A i \in 1 .. Len(queue) : queue'[i] = queue[i]
        /\ \A i \in 1 .. Len(queue') : i \in 1 .. Len(queue) \/ i = Len(queue) + 1
        /\ queue' # <<>> /\ (queue # <<>> => Head(queue') = Head(queue))
    <3>1. queue \in Seq(Messages) /\ queue' = Append(queue, m)
      BY <2>1 DEF Inv, TypeOK
    <3>2. QED BY <3>1, AppendType
  <2>3. TypeOK' BY <1>1, <1>4, <2>1, <2>2 DEF Inv, TypeOK
  <2>4. JobSound' BY <1>1, <1>3, <2>1, NoJobFrom DEF JobSound
  <2>5. QueueSound'
    <3>1. \A i \in 1 .. Len(queue') : fate'[queue'[i]] = "deferred"
      BY <1>3, <1>7, <2>1, <2>2 DEF Inv, QueueSound
    <3>2. \A i, j \in 1 .. Len(queue') : queue'[i] = queue'[j] => i = j
      BY <1>7, <2>2 DEF Inv, QueueSound
    <3>3. ASSUME NEW u \in Messages, fate'[u] = "deferred"
          PROVE  \E i \in 1 .. Len(queue') : queue'[i] = u
      <4>1. CASE u = m BY <2>2, <4>1
      <4>2. CASE u # m
        <5>1. PICK i \in 1 .. Len(queue) : queue[i] = u
          BY <1>3, <3>3, <4>2 DEF Inv, QueueSound
        <5>2. i \in 1 .. Len(queue') BY <2>2
        <5>3. QED BY <2>2, <5>1, <5>2
      <4>3. QED BY <4>1, <4>2
    <3>4. \A u \in Messages : fate'[u] # "sending" BY <1>3, <2>1
    <3>5. QED BY <3>1, <3>2, <3>3, <3>4 DEF QueueSound
  <2>6. WireSound'
    BY <1>1, <1>3, <1>5, <1>6, <2>1, <2>2, NoJobFrom DEF Inv, WireSound, InTurn
  <2>7. QED BY <1>8, <2>3, <2>4, <2>5, <2>6 DEF Inv
<1>12. QED BY <1>9, <1>10, <1>11

(* The record is ended exactly when nothing is left.                        *)
LEMMA EndsWhenDone ==
  ASSUME Inv, Busy, NEW w \in 1 .. Chunk(job.m)
  PROVE  /\ EndsRecord(w) <=> left[job.m] = w
         /\ w \in Nat \ {0} /\ left[job.m] - w \in Nat
<1>1. job.m \in Messages /\ job.eorSet = TRUE BY BusySound
<1>2. /\ Chunk(job.m) \in Nat /\ Chunk(job.m) =< left[job.m]
      /\ left[job.m] \in Nat
      /\ Last(job.m) => Chunk(job.m) = left[job.m]
      /\ left[job.m] > 0 /\ Chunk(job.m) = left[job.m] => Last(job.m)
  BY <1>1, ChunkType DEF Inv
<1>3. EndsRecord(w) <=> Last(job.m) /\ w = Chunk(job.m)
  BY <1>1 DEF EndsRecord, Flag
<1>4. QED BY <1>2, <1>3

LEMMA TakesInv ==
  ASSUME Inv, NEW w \in 1 .. ChunkSize, SendvTakes(w)
  PROVE  Inv'
<1> DEFINE m == job.m
           n == Len(wire)
           piece == [m |-> m, n |-> w, eor |-> EndsRecord(w)]
<1>1. Busy /\ w \in 1 .. Chunk(m) /\ state' = state BY DEF SendvTakes
<1>2. /\ m \in Messages /\ job.eorSet = TRUE /\ InTurn(m)
      /\ fate[m] \in {"sending", "deferred"}
      /\ \A u \in Messages : u # m => eor[u] = TRUE
      /\ \A u : InTurn(u) => u = m
  BY <1>1, BusySound
<1>3. /\ EndsRecord(w) <=> left[m] = w
      /\ w \in Nat \ {0} /\ left[m] - w \in Nat
  BY <1>1, EndsWhenDone
<1>4. wire' = Append(wire, piece) BY DEF SendvTakes
<1>5. piece \in [m : Messages, n : Nat \ {0}, eor : BOOLEAN]
  <2>1. EndsRecord(w) \in BOOLEAN BY DEF EndsRecord
  <2>2. QED BY <1>2, <1>3, <2>1
<1>6. /\ wire' \in Seq([m : Messages, n : Nat \ {0}, eor : BOOLEAN])
      /\ n \in Nat /\ Len(wire') = n + 1
      /\ \A i \in 1 .. n : wire'[i] = wire[i]
      /\ wire'[n + 1].m = m
      /\ \A i \in 1 .. n + 1 : i \in 1 .. n \/ i = n + 1
  BY <1>4, <1>5, AppendType DEF Inv, TypeOK
<1>7. left' \in [Messages -> Nat] BY <1>2, <1>3 DEF SendvTakes, Inv, TypeOK
<1>8. \A i \in 1 .. n : wire[i].m \in Messages BY WireType DEF Inv
<1>9. \A i \in 1 .. n :
        fate[wire[i].m] \in {"sending", "deferred"} =>
          wire[i].m = m /\ wire[n].m = m
  BY <1>2 DEF Inv, WireSound
<1> HIDE DEF m, n, piece
<1>10. Contiguous'
  <2> SUFFICES ASSUME NEW i \in 1 .. n + 1, NEW k \in 1 .. n + 1,
                      i < k, wire'[i].m = wire'[k].m, NEW j \in i .. k
               PROVE  wire'[j].m = wire'[i].m
    BY <1>6 DEF Contiguous
  <2>1. CASE k \in 1 .. n
    <3>1. i \in 1 .. n /\ j \in 1 .. n BY <1>6, <2>1
    <3>2. wire[i].m = wire[k].m BY <1>6, <2>1, <3>1
    <3>3. wire[j].m = wire[i].m
      BY <2>1, <3>1, <3>2 DEF Inv, Contiguous, n
    <3>4. QED BY <1>6, <3>1, <3>3
  <2>2. CASE k = n + 1
    <3>1. i \in 1 .. n BY <1>6, <2>2
    <3>2. wire[i].m = m BY <1>6, <2>2, <3>1
    <3>3. n \in 1 .. n /\ wire[n].m = m BY <1>2, <1>6, <1>9, <3>1, <3>2
    <3>4. CASE j = n + 1 BY <1>6, <2>2, <3>1, <3>2, <3>4
    <3>5. CASE j # n + 1
      <4>1. j \in i .. n /\ j \in 1 .. n BY <1>6, <2>2, <3>1, <3>5
      <4>2. CASE i = n
        <5>1. j = n BY <1>6, <4>1, <4>2
        <5>2. QED BY <4>2, <5>1
      <4>3. CASE i < n
        <5>1. wire[j].m = wire[i].m
          BY <3>1, <3>2, <3>3, <4>1, <4>3 DEF Inv, Contiguous, n
        <5>2. QED BY <1>6, <3>1, <4>1, <5>1
      <4>4. QED BY <1>6, <3>1, <4>2, <4>3
    <3>6. QED BY <3>4, <3>5
  <2>3. QED BY <1>6, <2>1, <2>2
<1>11. CASE left[m] = w
  <2>1. Done("sent") BY <1>11 DEF SendvTakes, m
  <2>2. /\ queue' \in Seq(Messages) /\ job' \in Jobs \cup {NoJob}
        /\ fate' = [fate EXCEPT ![m] = "sent"]
        /\ eor' = [eor EXCEPT ![m] = TRUE]
        /\ JobSound' /\ QueueSound'
    BY <1>1, <2>1, DoneSound DEF m
  <2>3. ended' = Append(ended, m) BY <1>3, <1>11 DEF SendvTakes, m
  <2>4. /\ ended \in Seq(Messages) /\ ended' \in Seq(Messages)
        /\ Len(ended') = Len(ended) + 1 /\ ended'[Len(ended) + 1] = m
        /\ \A i \in 1 .. Len(ended) : ended'[i] = ended[i]
        /\ \A i \in 1 .. Len(ended') : i \in 1 .. Len(ended) \/ i = Len(ended) + 1
    BY <1>2, <2>3, AppendType DEF Inv, TypeOK
  <2>5. TypeOK' BY <1>1, <1>2, <1>6, <1>7, <2>2, <2>4 DEF Inv, TypeOK, Fates
  <2>6. /\ fate'[m] = "sent"
        /\ \A u \in Messages \ {m} : fate'[u] = fate[u]
    BY <1>2, <2>2 DEF Inv, TypeOK
  <2>7. ASSUME NEW i \in 1 .. n + 1
        PROVE  fate'[wire'[i].m] \notin {"unsent", "sending", "deferred"}
    <3>1. CASE i \in 1 .. n
      <4>1. fate[wire[i].m] # "unsent" BY <3>1 DEF Inv, WireSound, n
      <4>2. QED BY <1>6, <1>8, <1>9, <2>6, <3>1, <4>1
    <3>2. CASE i = n + 1 BY <1>6, <2>6, <3>2
    <3>3. QED BY <1>6, <3>1, <3>2
  <2>8. \A i \in 1 .. Len(ended') : fate'[ended'[i]] = "sent"
    BY <2>4, <2>6 DEF Inv, WireSound
  <2>9. WireSound' BY <1>6, <2>7, <2>8 DEF WireSound
  <2>10. QED BY <1>10, <2>2, <2>5, <2>9 DEF Inv
<1>12. CASE left[m] # w
  <2>1. /\ eor' = [eor EXCEPT ![m] = Flag]
        /\ UNCHANGED <<queue, job, fate, ended>>
    BY <1>3, <1>12 DEF SendvTakes, m
  <2>2. eor' \in [Messages -> BOOLEAN] /\ \A u \in Messages : u # m => eor'[u] = TRUE
    <3>1. Flag \in BOOLEAN BY DEF Flag
    <3>2. QED BY <1>2, <2>1, <3>1 DEF Inv, TypeOK
  <2>3. TypeOK' BY <1>1, <1>6, <1>7, <2>1, <2>2 DEF Inv, TypeOK
  <2>4. JobSound' BY <1>1, <2>1, <2>2 DEF Inv, JobSound, Busy, m
  <2>5. QueueSound' BY <2>1 DEF Inv, QueueSound
  <2>6. IF job'.from = "app" THEN job'.m = m ELSE queue' # <<>> /\ Head(queue') = m
    BY <1>2, <2>1 DEF InTurn
  <2>7. ASSUME NEW i \in 1 .. n + 1
        PROVE  /\ fate'[wire'[i].m] # "unsent"
               /\ fate'[wire'[i].m] \in {"sending", "deferred"} => wire'[i].m = m
    <3>1. CASE i \in 1 .. n
      BY <1>6, <1>9, <2>1, <3>1 DEF Inv, WireSound, n
    <3>2. CASE i = n + 1 BY <1>2, <1>6, <2>1, <3>2
    <3>3. QED BY <1>6, <3>1, <3>2
  <2>8. WireSound'
    <3>1. \A i \in 1 .. Len(ended') : fate'[ended'[i]] = "sent"
      BY <2>1 DEF Inv, WireSound
    <3>2. QED BY <1>6, <2>6, <2>7, <3>1 DEF WireSound, InTurn
  <2>9. QED BY <1>10, <2>3, <2>4, <2>5, <2>8 DEF Inv
<1>13. QED BY <1>11, <1>12

LEMMA FailsInv == ASSUME Inv, SendvFails PROVE Inv'
<1> DEFINE m == job.m
           result == IF job.from = "app" THEN "refused" ELSE "dropped"
<1>1. Busy /\ Done(result) /\ UNCHANGED <<state, left, wire, ended>>
  BY DEF SendvFails
<1>2. result \in {"sent", "refused", "dropped"} OBVIOUS
<1> HIDE DEF result
<1>3. /\ queue' \in Seq(Messages) /\ job' \in Jobs \cup {NoJob}
      /\ fate' = [fate EXCEPT ![m] = result]
      /\ eor' = [eor EXCEPT ![m] = TRUE]
      /\ JobSound' /\ QueueSound'
  BY <1>1, <1>2, DoneSound
<1>4. /\ m \in Messages /\ fate[m] \in {"sending", "deferred"}
      /\ \A u : InTurn(u) => u = m
  BY <1>1, BusySound
<1>5. fate'[m] \in {"refused", "dropped"}
      /\ \A u \in Messages \ {m} : fate'[u] = fate[u]
  BY <1>3, <1>4 DEF Inv, TypeOK, result
<1>6. TypeOK' BY <1>1, <1>2, <1>3 DEF Inv, TypeOK, Fates
<1> HIDE DEF m
<1>7. \A i \in 1 .. Len(wire) :
        fate'[wire[i].m] \notin {"unsent", "sending", "deferred"}
  BY <1>4, <1>5, WireType DEF Inv, WireSound
<1>8. \A i \in 1 .. Len(ended) : fate'[ended[i]] = "sent"
  <2>1. \A i \in 1 .. Len(ended) : ended[i] \in Messages /\ fate[ended[i]] = "sent"
    BY DEF Inv, TypeOK, WireSound
  <2>2. QED BY <1>4, <1>5, <2>1
<1>9. WireSound' BY <1>1, <1>7, <1>8 DEF WireSound
<1>10. QED BY <1>1, <1>3, <1>6, <1>9 DEF Inv, Contiguous

LEMMA AgainInv == ASSUME Inv, SendvAgain PROVE Inv'
<1> DEFINE m == job.m
<1>1. /\ Busy /\ job' = NoJob
      /\ eor' = [eor EXCEPT ![m] = FlagAfter]
      /\ UNCHANGED <<state, left, wire, ended>>
  BY DEF SendvAgain
<1>2. /\ m \in Messages /\ job.eorSet = TRUE /\ InTurn(m)
      /\ \A u \in Messages : u # m => eor[u] = TRUE
      /\ \A u : InTurn(u) => u = m
      /\ job.from \in {"app", "queue"}
      /\ fate[m] \in {"sending", "deferred"}
  BY <1>1, BusySound
<1>3. FlagAfter = TRUE BY <1>2 DEF FlagAfter
<1>4. /\ eor' \in [Messages -> BOOLEAN]
      /\ \A u \in Messages : eor'[u] = TRUE
  BY <1>1, <1>2, <1>3 DEF Inv, TypeOK
<1>5. Contiguous' BY <1>1 DEF Inv, Contiguous
<1>6. \A i \in 1 .. Len(wire) :
        /\ wire[i].m \in Messages /\ fate[wire[i].m] # "unsent"
        /\ fate[wire[i].m] \in {"sending", "deferred"} =>
             wire[i].m = m /\ wire[Len(wire)].m = m
  BY <1>2, WireType DEF Inv, WireSound
<1>7. \A i \in 1 .. Len(ended) : ended[i] \in Messages /\ fate[ended[i]] = "sent"
  BY DEF Inv, TypeOK, WireSound
<1>8. CASE job.from = "app"
  <2>1. /\ queue = <<>> /\ queue' = Append(queue, m)
        /\ fate' = [fate EXCEPT ![m] = "deferred"]
    BY <1>8 DEF SendvAgain, Defer, Inv, JobSound
  <2>2. /\ queue' \in Seq(Messages) /\ Len(queue') = 1 /\ queue'[1] = m
        /\ queue' # <<>> /\ Head(queue') = m
    BY <1>2, <2>1
  <2>3. /\ fate'[m] = "deferred" /\ fate' \in [Messages -> Fates]
        /\ \A u \in Messages \ {m} : fate'[u] = fate[u]
    BY <1>2, <2>1 DEF Inv, TypeOK, Fates
  <2> HIDE DEF m
  <2>4. TypeOK' BY <1>1, <1>4, <2>2, <2>3 DEF Inv, TypeOK
  <2>5. JobSound' BY <1>1, <1>4, NoJobFrom DEF JobSound
  <2>6. /\ \A u \in Messages : fate[u] # "deferred"
        /\ \A u \in Messages : fate[u] = "sending" => u = m
    BY <2>1 DEF Inv, QueueSound, m
  <2>7. QueueSound' BY <1>2, <2>2, <2>3, <2>6 DEF QueueSound
  <2>8. \A u : InTurn(u)' <=> u = m BY <1>1, <2>2, NoJobFrom DEF InTurn
  <2>9. \A i \in 1 .. Len(wire) :
          /\ fate'[wire[i].m] # "unsent"
          /\ fate'[wire[i].m] \in {"sending", "deferred"} =>
               wire[i].m = m /\ wire[Len(wire)].m = m
    BY <1>2, <1>6, <2>3
  <2>10. \A i \in 1 .. Len(ended) : fate'[ended[i]] = "sent"
    BY <1>2, <1>7, <2>3
  <2>11. WireSound' BY <1>1, <2>2, <2>9, <2>10, NoJobFrom DEF WireSound, InTurn
  <2>12. QED BY <1>5, <2>4, <2>5, <2>7, <2>11 DEF Inv
<1>9. CASE job.from = "queue"
  <2>1. UNCHANGED <<queue, fate>> BY <1>9 DEF SendvAgain
  <2>2. TypeOK' BY <1>1, <1>4, <2>1 DEF Inv, TypeOK
  <2>3. JobSound' BY <1>1, <1>4, NoJobFrom DEF JobSound
  <2>4. QueueSound' BY <1>9, <2>1 DEF Inv, QueueSound
  <2>5. queue # <<>> /\ Head(queue) = m BY <1>9 DEF Inv, JobSound
  <2> HIDE DEF m
  <2>6. WireSound'
    BY <1>1, <1>6, <1>7, <2>1, <2>5, NoJobFrom DEF WireSound, InTurn
  <2>7. QED BY <1>5, <2>2, <2>3, <2>4, <2>6 DEF Inv
<1>10. QED BY <1>2, <1>8, <1>9

(* The socket is writable, the connection is up, or the transport closed.   *)
LEMMA EventInv == ASSUME Inv, CommUp \/ WriteEvent \/ Closed PROVE Inv'
<1>1. /\ job = NoJob /\ state' \in {"connecting", "connected", "closed"}
      /\ job' = NextJob(queue) \/ job' = job
      /\ UNCHANGED <<queue, left, eor, fate, wire, ended>>
  BY DEF CommUp, WriteEvent, Closed, Busy, Inv, TypeOK
<1>2. \A u \in Messages : eor[u] = TRUE BY <1>1 DEF Inv, JobSound, TypeOK
<1>3. /\ job' \in Jobs \cup {NoJob} /\ job'.from # "app"
      /\ job'.from = "queue" => queue # <<>> /\ Head(queue) = job'.m
      /\ job' # NoJob => job'.eorSet = eor[job'.m] /\ job'.m \in Messages
  <2>1. CASE job' = job BY <1>1, <2>1, NoJobFrom
  <2>2. CASE job' = NextJob(queue)
    BY <2>2, NextJobType DEF Inv, TypeOK, Jobs
  <2>3. QED BY <1>1, <2>1, <2>2
<1>4. TypeOK' BY <1>1, <1>3 DEF Inv, TypeOK
<1>5. JobSound' BY <1>1, <1>2, <1>3 DEF JobSound
<1>6. QueueSound' BY <1>1, NoJobFrom DEF Inv, QueueSound
<1>7. WireSound' BY <1>1, <1>3, NoJobFrom DEF Inv, WireSound, InTurn
<1>8. QED BY <1>1, <1>4, <1>5, <1>6, <1>7 DEF Inv, Contiguous

LEMMA NextInv == Inv /\ [Next]_vars => Inv'
<1> SUFFICES ASSUME Inv, [Next]_vars PROVE Inv' OBVIOUS
<1>1. ASSUME NEW m \in Messages, Send(m) PROVE Inv' BY <1>1, SendInv
<1>2. CASE Sendv BY <1>2, TakesInv, AgainInv, FailsInv DEF Sendv
<1>3. CASE CommUp \/ WriteEvent \/ Closed BY <1>3, EventInv
<1>4. CASE UNCHANGED vars
  BY <1>4
  DEF vars, Inv, TypeOK, JobSound, QueueSound, WireSound, InTurn, Contiguous
<1>5. QED BY <1>1, <1>2, <1>3, <1>4 DEF Next

LEMMA InvCorrect == Spec => []Inv
<1>1. Init => Inv
  <2> SUFFICES ASSUME Init PROVE Inv OBVIOUS
  <2>1. left \in [Messages -> Nat] BY SizeAssumption DEF Init, Payload
  <2>2. TypeOK BY <2>1 DEF Init, TypeOK, Fates
  <2>3. QED
    BY <2>2, NoJobFrom
    DEF Init, Inv, JobSound, QueueSound, WireSound, Contiguous
<1>2. QED BY <1>1, NextInv, PTL DEF Spec

(* Every variable keeps its type: no buffer is read beyond its end, for any  *)
(* sizes and any chunk size.                                                 *)
THEOREM TypeCorrect == Spec => []TypeOK
BY InvCorrect, PTL DEF Inv

(* No message gets between the pieces of another one, for any number of      *)
(* messages, however they are cut, deferred and resumed.                     *)
THEOREM ContiguousCorrect == Spec => []Contiguous
BY InvCorrect, PTL DEF Inv

(***************************************************************************)
(* Refinement of MessageFifo                                               *)
(***************************************************************************)
LEMMA PendingValue ==
  ASSUME Inv
  PROVE  /\ job.from = "app" => Pending = <<job.m>> /\ queue = <<>> /\ job.m \in Messages
         /\ job.from # "app" => Pending = queue
         /\ queue \in Seq(Messages)
<1>1. queue \in Seq(Messages) BY DEF Inv, TypeOK
<1>2. CASE job.from = "app"
  <2>1. job # NoJob /\ queue = <<>> BY <1>2, NoJobFrom DEF Inv, JobSound
  <2>2. job.m \in Messages BY <2>1, BusyType DEF Inv
  <2>3. <<job.m>> \o <<>> = <<job.m>> BY <2>2, ConcatEmptySeq
  <2>4. QED BY <1>1, <1>2, <2>1, <2>2, <2>3 DEF Pending
<1>3. CASE job.from # "app" BY <1>1, <1>3 DEF Pending
<1>4. QED BY <1>2, <1>3

LEMMA PendingFirst ==
  ASSUME Inv, Busy
  PROVE  Pending # <<>> /\ Head(Pending) = job.m
<1>1. CASE job.from = "app"
  <2>1. Pending = <<job.m>> BY <1>1, PendingValue
  <2>2. <<job.m>> # <<>> /\ Head(<<job.m>>) = job.m OBVIOUS
  <2>3. QED BY <2>1, <2>2, Zenon
<1>2. CASE job.from # "app"
  BY <1>2, PendingValue, BusySound DEF Inv, JobSound
<1>3. QED BY <1>1, <1>2

LEMMA DonePending ==
  ASSUME Inv, Inv', Busy, NEW result, Done(result)
  PROVE  Pending' = Tail(Pending)
<1>1. CASE job.from = "app"
  <2>1. job' = NoJob /\ queue' = queue BY <1>1 DEF Done
  <2>2. Pending' = queue BY <2>1, NoJobFrom DEF Pending
  <2>3. Tail(<<job.m>>) = <<>> OBVIOUS
  <2>4. QED BY <1>1, <2>2, <2>3, PendingValue
<1>2. CASE job.from # "app"
  <2>1. job.from = "queue" BY <1>2, BusySound
  <2>2. job' = NextJob(Tail(queue)) /\ queue' = Tail(queue) /\ queue # <<>>
    BY <2>1 DEF Done, Inv, JobSound
  <2>3. Tail(queue) \in Seq(Messages) BY <2>2 DEF Inv, TypeOK
  <2>4. job'.from # "app" BY <2>2, <2>3, NextJobType DEF Inv
  <2>5. Pending' = queue' BY <2>4 DEF Pending
  <2>6. QED BY <1>2, <2>2, <2>5, PendingValue
<1>3. QED BY <1>1, <1>2

LEMMA SendFifo ==
  ASSUME Inv, NEW m \in Messages, Send(m)
  PROVE  Fifo!Accept(m) \/ UNCHANGED <<Pending, ended>>
<1>1. job = NoJob /\ fate[m] = "unsent" /\ ended' = ended BY DEF Send
<1>2. Pending = queue /\ queue \in Seq(Messages)
  BY <1>1, NoJobFrom, PendingValue
<1>3. CASE TooLong(m) BY <1>1, <1>3 DEF Send, Pending
<1>4. CASE ~TooLong(m)
  <2>1. ~Fifo!InSeq(m, Pending) BY <1>1, <1>2 DEF Fifo!InSeq, Inv, QueueSound
  <2>2. ~Fifo!InSeq(m, ended) BY <1>1 DEF Fifo!InSeq, Inv, WireSound
  <2>3. Pending' = Append(Pending, m)
    <3>1. CASE Direct
      <4>1. /\ job' = Job("app", m) /\ queue' = queue /\ queue = <<>>
        BY <1>4, <3>1 DEF Send, Direct
      <4>2. job'.from = "app" /\ job'.m = m
        BY <4>1, JobType DEF Origins, Inv
      <4>3. Pending' = <<m>> \o <<>> BY <4>1, <4>2 DEF Pending
      <4>4. <<m>> \o <<>> = <<m>> BY ConcatEmptySeq
      <4>5. Append(<<>>, m) = <<m>> OBVIOUS
      <4>6. QED BY <1>2, <4>1, <4>3, <4>4, <4>5
    <3>2. CASE ~Direct
      <4>1. job' = NoJob /\ queue' = Append(queue, m)
        BY <1>1, <1>4, <3>2 DEF Send, Defer
      <4>2. Pending' = queue' BY <4>1, NoJobFrom DEF Pending
      <4>3. QED BY <1>2, <4>1, <4>2
    <3>3. QED BY <3>1, <3>2
  <2>4. QED BY <1>1, <2>1, <2>2, <2>3 DEF Fifo!Accept
<1>5. QED BY <1>3, <1>4

LEMMA SendvFifo ==
  ASSUME Inv, Inv', Sendv
  PROVE  Fifo!Leave \/ Fifo!Discard \/ UNCHANGED <<Pending, ended>>
<1>1. ASSUME NEW w \in 1 .. ChunkSize, SendvTakes(w)
      PROVE  Fifo!Leave \/ UNCHANGED <<Pending, ended>>
  <2>1. Busy /\ w \in 1 .. Chunk(job.m) BY <1>1 DEF SendvTakes
  <2>2. EndsRecord(w) <=> left[job.m] = w BY <2>1, EndsWhenDone
  <2>3. CASE left[job.m] = w
    <3>1. Done("sent") /\ ended' = Append(ended, job.m)
      BY <1>1, <2>2, <2>3 DEF SendvTakes
    <3>2. QED BY <2>1, <3>1, DonePending, PendingFirst DEF Fifo!Leave
  <2>4. CASE left[job.m] # w BY <1>1, <2>2, <2>4 DEF SendvTakes, Pending
  <2>5. QED BY <2>3, <2>4
<1>2. ASSUME SendvAgain
      PROVE  UNCHANGED <<Pending, ended>>
  <2>1. Busy /\ job' = NoJob /\ ended' = ended BY <1>2 DEF SendvAgain
  <2>2. Pending' = queue' BY <2>1, NoJobFrom DEF Pending
  <2>3. CASE job.from = "app"
    <3>1. queue' = Append(queue, job.m) BY <1>2, <2>3 DEF SendvAgain, Defer
    <3>2. queue = <<>> /\ Pending = <<job.m>> BY <2>3, PendingValue
    <3>3. Append(<<>>, job.m) = <<job.m>> OBVIOUS
    <3>4. QED BY <2>1, <2>2, <3>1, <3>2, <3>3
  <2>4. CASE job.from # "app"
    BY <1>2, <2>1, <2>2, <2>4, PendingValue DEF SendvAgain
  <2>5. QED BY <2>3, <2>4
<1>3. ASSUME SendvFails
      PROVE  Fifo!Discard
  <2>1. PICK result : Done(result) BY <1>3 DEF SendvFails
  <2>2. Busy /\ ended' = ended BY <1>3 DEF SendvFails
  <2>3. QED BY <2>1, <2>2, DonePending, PendingFirst DEF Fifo!Discard
<1>4. QED BY <1>1, <1>2, <1>3 DEF Sendv

LEMMA EventFifo ==
  ASSUME Inv, Inv', CommUp \/ WriteEvent \/ Closed
  PROVE  UNCHANGED <<Pending, ended>>
<1>1. /\ job = NoJob /\ queue' = queue /\ ended' = ended
      /\ job' = NextJob(queue) \/ job' = job
  BY DEF CommUp, WriteEvent, Closed, Busy
<1>2. job'.from # "app"
  BY <1>1, NextJobType, NoJobFrom DEF Inv, TypeOK
<1>3. QED BY <1>1, <1>2, NoJobFrom DEF Pending

(* Whatever is cut, deferred and resumed, messages leave in the order in     *)
(* which they were handed over, each once and as one record; the rest are    *)
(* discarded when their turn comes.                                          *)
THEOREM FifoCorrect == Spec => FifoSpec
<1>1. Init => Fifo!Init
  <2> SUFFICES ASSUME Init PROVE Fifo!Init OBVIOUS
  <2>1. Pending = <<>> /\ ended = <<>> BY NoJobFrom DEF Init, Pending
  <2>2. QED BY <2>1 DEF Fifo!Init
<1>2. Inv /\ Inv' /\ [Next]_vars => [Fifo!Next]_<<Pending, ended>>
  <2> SUFFICES ASSUME Inv, Inv', [Next]_vars
               PROVE  Fifo!Next \/ UNCHANGED <<Pending, ended>>
    OBVIOUS
  <2>1. CASE UNCHANGED vars BY <2>1 DEF vars, Pending
  <2>2. ASSUME NEW m \in Messages, Send(m)
        PROVE  Fifo!Next \/ UNCHANGED <<Pending, ended>>
    BY <2>2, SendFifo DEF Fifo!Next
  <2>3. CASE Sendv BY <2>3, SendvFifo DEF Fifo!Next
  <2>4. CASE CommUp \/ WriteEvent \/ Closed BY <2>4, EventFifo
  <2>5. QED BY <2>1, <2>2, <2>3, <2>4 DEF Next
<1>3. QED BY <1>1, <1>2, InvCorrect, PTL DEF Spec, FifoSpec, Fifo!Spec

(***************************************************************************)
(* Framing                                                                 *)
(***************************************************************************)
(* g adds up the bytes of m on the wire; what has been added up is what is  *)
(* no longer left.                                                          *)
IsSum(m, g) ==
  g = [i \in 0 .. Len(wire) |->
         IF i = 0 THEN 0
         ELSE g[i - 1] + IF wire[i].m = m THEN wire[i].n ELSE 0]

Sums ==
  \A m \in Messages :
    /\ \E g : IsSum(m, g)
    /\ \A g : IsSum(m, g) => g[Len(wire)] = Payload(m) - left[m]

LastEnds(m, i) ==
  /\ wire[i].m = m /\ wire[i].eor
  /\ \A j \in i + 1 .. Len(wire) : wire[j].m # m

(* A record is ended by the last piece of a message of which nothing is     *)
(* left, and such a message has been sent; the first piece takes something. *)
EndsSound ==
  /\ \A m \in Messages : left[m] =< Payload(m)
  /\ \A i \in 1 .. Len(wire) :
       /\ left[wire[i].m] < Payload(wire[i].m)
       /\ wire[i].eor =>
            fate[wire[i].m] = "sent" /\ LastEnds(wire[i].m, i)
  /\ \A m \in Messages :
       fate[m] = "sent" =>
         left[m] = 0 /\ \E i \in 1 .. Len(wire) : LastEnds(m, i)

LEMMA PayloadType == \A m \in Messages : Payload(m) \in Nat \ {0}
BY SizeAssumption DEF Payload

(* What the recursive function of Taken comes to, without an induction: the *)
(* equation has a solution and all its solutions end in the same number.    *)
LEMMA TakenValue ==
  ASSUME Sums, NEW m \in Messages
  PROVE  Taken(m) = Payload(m) - left[m]
<1> DEFINE f == CHOOSE g : IsSum(m, g)
<1>1. IsSum(m, f) BY DEF Sums
<1>2. f[Len(wire)] = Payload(m) - left[m] BY <1>1 DEF Sums
<1>3. Taken(m) = f[Len(wire)] BY DEF Taken, IsSum
<1>4. QED BY <1>2, <1>3

LEMMA InitFramed == Init => Sums /\ EndsSound
<1> SUFFICES ASSUME Init PROVE Sums /\ EndsSound OBVIOUS
<1>1. /\ Len(wire) = 0 /\ \A m \in Messages : left[m] = Payload(m)
      /\ \A m \in Messages : fate[m] = "unsent"
  BY DEF Init
<1>2. ASSUME NEW m \in Messages
      PROVE  /\ \E g : IsSum(m, g)
             /\ \A g : IsSum(m, g) => g[Len(wire)] = Payload(m) - left[m]
  <2> DEFINE z == [i \in 0 .. 0 |-> 0]
  <2>1. IsSum(m, z)
    <3>1. z = [i \in 0 .. 0 |->
                 IF i = 0 THEN 0
                 ELSE z[i - 1] + IF wire[i].m = m THEN wire[i].n ELSE 0]
      OBVIOUS
    <3> HIDE DEF z
    <3>2. QED BY <1>1, <3>1 DEF IsSum
  <2>2. ASSUME NEW g, IsSum(m, g) PROVE g[0] = 0
    BY <1>1, <2>2 DEF IsSum
  <2>3. QED BY <1>1, <2>1, <2>2, PayloadType
<1>3. Sums BY <1>2 DEF Sums
<1>4. EndsSound BY <1>1, PayloadType DEF EndsSound
<1>5. QED BY <1>3, <1>4

(* A step that leaves the wire alone sends no message.                      *)
LEMMA QuietFramed ==
  ASSUME Sums, EndsSound, UNCHANGED <<wire, left>>,
         \A m \in Messages : fate'[m] = "sent" <=> fate[m] = "sent",
         \A i \in 1 .. Len(wire) : wire[i].m \in Messages
  PROVE  Sums' /\ EndsSound'
<1>1. wire' = wire /\ left' = left OBVIOUS
<1>3. Sums'
  <2> SUFFICES ASSUME NEW m \in Messages
               PROVE  /\ \E g : IsSum(m, g)'
                      /\ \A g : IsSum(m, g)' =>
                           g[Len(wire')] = Payload(m) - left'[m]
    BY DEF Sums, Payload
  <2>1. \A g : IsSum(m, g)' <=> IsSum(m, g) BY <1>1 DEF IsSum
  <2>2. QED BY <1>1, <2>1 DEF Sums
<1>2. EndsSound' BY DEF EndsSound, LastEnds, Payload
<1>4. QED BY <1>2, <1>3

LEMMA TakesSums ==
  ASSUME Inv, Sums, NEW w \in 1 .. ChunkSize, SendvTakes(w)
  PROVE  Sums'
<1> DEFINE n == Len(wire)
           piece == [m |-> job.m, n |-> w, eor |-> EndsRecord(w)]
<1>1. Busy /\ w \in 1 .. Chunk(job.m) BY DEF SendvTakes
<1>2. job.m \in Messages BY <1>1, BusySound
<1>3. w \in Nat \ {0} /\ left[job.m] - w \in Nat BY <1>1, EndsWhenDone
<1>4. piece \in [m : Messages, n : Nat \ {0}, eor : BOOLEAN]
  <2>1. EndsRecord(w) \in BOOLEAN BY DEF EndsRecord
  <2>2. QED BY <1>2, <1>3, <2>1
<1>5. wire' = Append(wire, piece) BY DEF SendvTakes
<1>6. /\ n \in Nat /\ Len(wire') = n + 1
      /\ \A i \in 1 .. n : wire'[i] = wire[i]
      /\ wire'[n + 1] = piece
  BY <1>4, <1>5, AppendType DEF Inv, TypeOK
<1>7. left \in [Messages -> Nat] BY DEF Inv, TypeOK
<1>8. left' = [left EXCEPT ![job.m] = @ - w] BY DEF SendvTakes
<1> SUFFICES ASSUME NEW u \in Messages
             PROVE  /\ \E g : IsSum(u, g)'
                    /\ \A g : IsSum(u, g)' =>
                         g[Len(wire')] = Payload(u) - left'[u]
  BY DEF Sums, Payload
<1> DEFINE add == IF job.m = u THEN w ELSE 0
           T(i) == IF wire[i].m = u THEN wire[i].n ELSE 0
           U(i) == IF wire'[i].m = u THEN wire'[i].n ELSE 0
<1>9. add \in Nat BY <1>3
<1>10. /\ \A i \in 1 .. n : U(i) = T(i)
       /\ U(n + 1) = add
  BY <1>6
<1>11. left'[u] = left[u] - add BY <1>2, <1>3, <1>7, <1>8
<1>12. /\ \A g : IsSum(u, g) <=>
               g = [i \in 0 .. n |-> IF i = 0 THEN 0 ELSE g[i - 1] + T(i)]
       /\ \A g : IsSum(u, g)' <=>
               g = [i \in 0 .. n + 1 |-> IF i = 0 THEN 0 ELSE g[i - 1] + U(i)]
  BY <1>6 DEF IsSum
<1>13. Payload(u) \in Nat /\ left[u] \in Nat BY <1>7, PayloadType
<1> HIDE DEF n, piece, add, T, U
<1>14. PICK g : g = [i \in 0 .. n |-> IF i = 0 THEN 0 ELSE g[i - 1] + T(i)]
  BY <1>12 DEF Sums
<1>15. \E h : IsSum(u, h)'
  <2> DEFINE h == [i \in 0 .. n + 1 |-> IF i = n + 1 THEN g[n] + add ELSE g[i]]
  <2>1. ASSUME NEW i \in 0 .. n + 1
        PROVE  h[i] = IF i = 0 THEN 0 ELSE h[i - 1] + U(i)
    <3>1. CASE i = 0 BY <1>6, <1>14, <3>1
    <3>2. CASE i = n + 1
      <4>1. i # 0 /\ i - 1 = n /\ n \in 0 .. n + 1 /\ n # n + 1 BY <1>6, <3>2
      <4>2. h[i] = g[n] + add /\ h[i - 1] = g[n] BY <3>2, <4>1
      <4>3. QED BY <1>10, <3>2, <4>1, <4>2
    <3>3. CASE i \in 1 .. n
      <4>1. /\ i # 0 /\ i # n + 1 /\ i - 1 # n + 1
            /\ i - 1 \in 0 .. n + 1 /\ i \in 0 .. n
        BY <1>6, <3>3
      <4>2. h[i] = g[i] /\ h[i - 1] = g[i - 1] BY <4>1
      <4>3. g[i] = g[i - 1] + T(i) BY <1>14, <4>1
      <4>4. QED BY <1>10, <3>3, <4>1, <4>2, <4>3
    <3>4. QED BY <1>6, <3>1, <3>2, <3>3
  <2>2. h = [i \in 0 .. n + 1 |-> h[i]] OBVIOUS
  <2> HIDE DEF h
  <2>3. h = [i \in 0 .. n + 1 |-> IF i = 0 THEN 0 ELSE h[i - 1] + U(i)]
    BY <2>1, <2>2
  <2>4. QED BY <1>12, <2>3
<1>16. ASSUME NEW h, IsSum(u, h)'
       PROVE  h[n + 1] = Payload(u) - left'[u]
  <2> DEFINE r == [i \in 0 .. n |-> h[i]]
  <2>1. h = [i \in 0 .. n + 1 |-> IF i = 0 THEN 0 ELSE h[i - 1] + U(i)]
    BY <1>12, <1>16
  <2>2. ASSUME NEW i \in 0 .. n
        PROVE  r[i] = IF i = 0 THEN 0 ELSE r[i - 1] + T(i)
    <3>1. i \in 0 .. n + 1 /\ r[i] = h[i] BY <1>6
    <3>2. CASE i = 0 BY <2>1, <3>1, <3>2
    <3>3. CASE i # 0
      <4>1. i \in 1 .. n /\ i - 1 \in 0 .. n BY <1>6, <3>3
      <4>2. r[i - 1] = h[i - 1] BY <4>1
      <4>3. h[i] = h[i - 1] + U(i) BY <2>1, <3>1, <3>3
      <4>4. QED BY <1>10, <3>1, <3>3, <4>1, <4>2, <4>3
    <3>4. QED BY <3>2, <3>3
  <2>3. r = [i \in 0 .. n |-> r[i]] OBVIOUS
  <2>4. n \in 0 .. n /\ r[n] = h[n] BY <1>6
  <2> HIDE DEF r
  <2>5. r = [i \in 0 .. n |-> IF i = 0 THEN 0 ELSE r[i - 1] + T(i)]
    BY <2>2, <2>3
  <2>6. r[n] = Payload(u) - left[u] BY <1>12, <2>5 DEF Sums, n
  <2>7. n + 1 \in 0 .. n + 1 /\ n + 1 # 0 /\ (n + 1) - 1 = n BY <1>6
  <2>8. h[n + 1] = h[n] + add BY <1>10, <2>1, <2>7
  <2> DEFINE p == Payload(u)
             l == left[u]
  <2>9. p \in Nat /\ l \in Nat /\ h[n + 1] = (p - l) + add
        /\ left'[u] = l - add
    BY <1>11, <1>13, <2>4, <2>6, <2>8
  <2> HIDE DEF p, l
  <2>10. (p - l) + add = p - (l - add) BY <1>9, <2>9
  <2>11. QED BY <2>9, <2>10 DEF p
<1>17. QED BY <1>6, <1>15, <1>16

LEMMA TakesEnds ==
  ASSUME Inv, EndsSound, NEW w \in 1 .. ChunkSize, SendvTakes(w)
  PROVE  EndsSound'
<1>0. PICK m : m = job.m OBVIOUS
<1> DEFINE n == Len(wire)
           piece == [m |-> m, n |-> w, eor |-> EndsRecord(w)]
           Ends(u, i) ==
             /\ wire'[i].m = u /\ wire'[i].eor
             /\ \A j \in i + 1 .. n + 1 : wire'[j].m # u
<1>1. Busy /\ w \in 1 .. Chunk(m) BY <1>0 DEF SendvTakes
<1>2. m \in Messages /\ fate[m] \in {"sending", "deferred"}
  BY <1>0, <1>1, BusySound
<1>3. /\ EndsRecord(w) <=> left[m] = w
      /\ w \in Nat \ {0} /\ left[m] - w \in Nat
  BY <1>0, <1>1, EndsWhenDone
<1>4. piece \in [m : Messages, n : Nat \ {0}, eor : BOOLEAN]
  <2>1. EndsRecord(w) \in BOOLEAN BY DEF EndsRecord
  <2>2. QED BY <1>2, <1>3, <2>1
<1>5. wire' = Append(wire, piece) BY <1>0 DEF SendvTakes
<1>6. /\ n \in Nat /\ Len(wire') = n + 1
      /\ \A i \in 1 .. n : wire'[i] = wire[i]
      /\ wire'[n + 1] = piece
  BY <1>4, <1>5, AppendType DEF Inv, TypeOK
<1>7. wire'[n + 1].m = m /\ (wire'[n + 1].eor <=> left[m] = w)
  BY <1>3, <1>6
<1>8. left \in [Messages -> Nat] /\ fate \in [Messages -> Fates]
  BY DEF Inv, TypeOK
<1>9. /\ left'[m] = left[m] - w
      /\ \A u \in Messages \ {m} : left'[u] = left[u]
  BY <1>0, <1>2, <1>8 DEF SendvTakes
<1>10. /\ fate'[m] = "sent" <=> left[m] = w
       /\ \A u \in Messages \ {m} : fate'[u] = fate[u]
  <2>1. CASE left[m] = w
    <3>1. fate' = [fate EXCEPT ![m] = "sent"]
      BY <1>0, <2>1 DEF SendvTakes, Done
    <3>2. QED BY <1>2, <1>8, <2>1, <3>1
  <2>2. CASE left[m] # w
    <3>1. fate' = fate BY <1>0, <2>2 DEF SendvTakes
    <3>2. QED BY <1>2, <2>2, <3>1
  <2>3. QED BY <2>1, <2>2
<1>11. \A i \in 1 .. n : wire[i].m \in Messages BY WireType DEF Inv
<1>12. \A u \in Messages : Payload(u) \in Nat \ {0} BY PayloadType
<1> HIDE DEF n, piece
<1>13. \A i \in 1 .. n + 1 : i \in 1 .. n \/ i = n + 1 BY <1>6
<1>14. \A u \in Messages : left'[u] =< Payload(u) /\ left'[u] =< left[u]
  <2> SUFFICES ASSUME NEW u \in Messages
               PROVE  left'[u] =< Payload(u) /\ left'[u] =< left[u]
    OBVIOUS
  <2>1. left[u] \in Nat /\ left[u] =< Payload(u) BY <1>8 DEF EndsSound
  <2>2. CASE u = m BY <1>3, <1>9, <1>12, <2>1, <2>2
  <2>3. CASE u # m BY <1>9, <2>1, <2>3
  <2>4. QED BY <2>2, <2>3
<1>15. left'[m] < Payload(m)
  BY <1>2, <1>3, <1>8, <1>9, <1>12 DEF EndsSound
(* A record that was ended before is of another message.                    *)
<1>16. ASSUME NEW u \in Messages \ {m}, NEW i \in 1 .. n, LastEnds(u, i)
       PROVE  Ends(u, i)
  <2>1. wire'[i].m = u /\ wire'[i].eor BY <1>6, <1>16 DEF LastEnds
  <2>2. ASSUME NEW j \in i + 1 .. n + 1 PROVE wire'[j].m # u
    <3>1. CASE j = n + 1 BY <1>7, <3>1
    <3>2. CASE j # n + 1
      <4>1. j \in i + 1 .. n /\ j \in 1 .. n BY <1>6, <3>2
      <4>2. QED BY <1>6, <1>16, <4>1 DEF LastEnds, n
    <3>3. QED BY <3>1, <3>2
  <2>3. QED BY <1>6, <2>1, <2>2
<1>17. ASSUME left[m] = w PROVE Ends(m, n + 1)
  <2>1. (n + 1) + 1 .. n + 1 = {} BY <1>6
  <2>2. QED BY <1>6, <1>7, <1>17, <2>1
<1>18. ASSUME NEW i \in 1 .. n + 1
       PROVE  /\ left'[wire'[i].m] < Payload(wire'[i].m)
              /\ wire'[i].eor =>
                   fate'[wire'[i].m] = "sent" /\ Ends(wire'[i].m, i)
  <2>1. CASE i = n + 1 BY <1>7, <1>10, <1>15, <1>17, <2>1
  <2>2. CASE i \in 1 .. n
    <3>1. wire'[i] = wire[i] /\ wire[i].m \in Messages BY <1>6, <1>11, <2>2
    <3>2. left'[wire[i].m] < Payload(wire[i].m)
      <4>1. left[wire[i].m] < Payload(wire[i].m)
        BY <2>2 DEF EndsSound, n
      <4>2. CASE wire[i].m = m BY <1>15, <4>2
      <4>3. CASE wire[i].m # m BY <1>9, <3>1, <4>1, <4>3
      <4>4. QED BY <4>2, <4>3
    <3>3. ASSUME wire[i].eor
          PROVE  fate'[wire[i].m] = "sent" /\ Ends(wire[i].m, i)
      <4>1. fate[wire[i].m] = "sent" /\ LastEnds(wire[i].m, i)
        BY <2>2, <3>3 DEF EndsSound, n
      <4>2. wire[i].m # m BY <1>2, <4>1
      <4>3. QED BY <1>10, <1>16, <2>2, <3>1, <4>1, <4>2
    <3>4. QED BY <3>1, <3>2, <3>3
  <2>3. QED BY <1>13, <2>1, <2>2
<1>19. ASSUME NEW u \in Messages, fate'[u] = "sent"
       PROVE  left'[u] = 0 /\ \E i \in 1 .. n + 1 : Ends(u, i)
  <2>1. CASE u = m
    <3>1. left[m] = w BY <1>10, <1>19, <2>1
    <3>2. left'[m] = 0 BY <1>3, <1>9, <3>1
    <3>3. n + 1 \in 1 .. n + 1 BY <1>6
    <3>4. QED BY <1>17, <2>1, <3>1, <3>2, <3>3
  <2>2. CASE u # m
    <3>1. fate[u] = "sent" BY <1>10, <1>19, <2>2
    <3>2. left[u] = 0 /\ \E i \in 1 .. n : LastEnds(u, i)
      BY <3>1 DEF EndsSound, n
    <3>3. PICK i \in 1 .. n : LastEnds(u, i) BY <3>2
    <3>4. i \in 1 .. n + 1 BY <1>6
    <3>5. Ends(u, i) BY <1>16, <2>2, <3>3
    <3>6. QED BY <1>9, <2>2, <3>2, <3>4, <3>5
  <2>3. QED BY <2>1, <2>2
<1>20. \A u, i : LastEnds(u, i)' <=> Ends(u, i) BY <1>6 DEF LastEnds
<1>21. QED BY <1>6, <1>14, <1>18, <1>19, <1>20 DEF EndsSound, LastEnds, Payload

LEMMA NextFramed ==
  ASSUME Inv, Sums, EndsSound, [Next]_vars
  PROVE  Sums' /\ EndsSound'
<1>0. /\ \A i \in 1 .. Len(wire) : wire[i].m \in Messages
      /\ fate \in [Messages -> Fates]
  BY WireType DEF Inv, TypeOK
<1>1. ASSUME NEW m \in Messages, Send(m) PROVE Sums' /\ EndsSound'
  <2>1. /\ fate[m] = "unsent" /\ UNCHANGED <<left, wire>>
        /\ \E f \in {"refused", "sending", "deferred"} :
             fate' = [fate EXCEPT ![m] = f]
    BY <1>1 DEF Send
  <2>2. \A u \in Messages : fate'[u] = "sent" <=> fate[u] = "sent"
    BY <1>0, <2>1
  <2>3. QED BY <1>0, <2>1, <2>2, QuietFramed
<1>2. ASSUME NEW w \in 1 .. ChunkSize, SendvTakes(w) PROVE Sums' /\ EndsSound'
  BY <1>2, TakesSums, TakesEnds
<1>3. CASE SendvAgain
  <2>1. Busy /\ UNCHANGED <<left, wire>> BY <1>3 DEF SendvAgain
  <2>2. fate' = fate \/ fate' = [fate EXCEPT ![job.m] = "deferred"]
    BY <1>3 DEF SendvAgain
  <2>3. job.m \in Messages /\ fate[job.m] # "sent" BY <2>1, BusySound
  <2>4. \A u \in Messages : fate'[u] = "sent" <=> fate[u] = "sent"
    BY <1>0, <2>2, <2>3
  <2>5. QED BY <1>0, <2>1, <2>4, QuietFramed
<1>4. CASE SendvFails
  <2>1. Busy /\ UNCHANGED <<left, wire>> BY <1>4 DEF SendvFails
  <2>2. \E f \in {"refused", "dropped"} : fate' = [fate EXCEPT ![job.m] = f]
    BY <1>4 DEF SendvFails, Done
  <2>3. job.m \in Messages /\ fate[job.m] # "sent" BY <2>1, BusySound
  <2>4. \A u \in Messages : fate'[u] = "sent" <=> fate[u] = "sent"
    BY <1>0, <2>2, <2>3
  <2>5. QED BY <1>0, <2>1, <2>4, QuietFramed
<1>5. CASE CommUp \/ WriteEvent \/ Closed \/ UNCHANGED vars
  <2>1. UNCHANGED <<left, wire, fate>>
    BY <1>5 DEF CommUp, WriteEvent, Closed, vars
  <2>2. QED BY <1>0, <2>1, QuietFramed
<1>6. QED BY <1>1, <1>2, <1>3, <1>4, <1>5 DEF Next, Sendv

(* Two pieces that follow each other on a stream.                           *)
LEMMA Framing ==
  ASSUME Inv, Sums, EndsSound,
         NEW i \in 1 .. Len(wire), NEW j \in 1 .. Len(wire), i < j,
         OnStream(j, StreamOf[wire[i].m]),
         \A k \in i + 1 .. j - 1 : ~OnStream(k, StreamOf[wire[i].m]),
         \A m \in Messages : StreamOf[m] = StreamOf[wire[i].m] => ~Torn(m)
  PROVE  wire[i].eor <=> wire[i].m # wire[j].m
<1> DEFINE m == wire[i].m
           n == Len(wire)
<1>0. n \in Nat /\ m \in Messages BY WireType DEF Inv
<1>1. ASSUME wire[i].eor PROVE m # wire[j].m
  BY <1>0, <1>1 DEF EndsSound, LastEnds
<1>2. ASSUME m # wire[j].m PROVE wire[i].eor
  <2>1. ASSUME NEW k \in 1 .. n, i < k, wire[k].m = m PROVE FALSE
    <3>1. CASE k < j
      <4>1. k \in i + 1 .. j - 1 BY <2>1, <3>1
      <4>2. QED BY <2>1, <4>1 DEF OnStream
    <3>2. CASE k >= j
      <4>1. j \in i .. k BY <3>2
      <4>2. wire[j].m = m BY <2>1, <4>1 DEF Inv, Contiguous
      <4>3. QED BY <1>2, <4>2
    <3>3. QED BY <3>1, <3>2
  <2>2. fate[m] \notin {"sending", "deferred"}
    <3>1. n \in 1 .. n /\ i < n BY <1>0
    <3>2. wire[n].m # m BY <2>1, <3>1
    <3>3. QED BY <3>2 DEF Inv, WireSound
  <2>3. fate[m] \notin {"refused", "dropped"}
    <3>1. ~Torn(m) BY <1>0
    <3>2. Taken(m) = Payload(m) - left[m] BY <1>0, TakenValue
    <3>3. left[m] < Payload(m) /\ left[m] \in Nat /\ Payload(m) \in Nat
      BY <1>0, PayloadType DEF EndsSound, Inv, TypeOK
    <3>4. Taken(m) > 0 BY <3>2, <3>3
    <3>5. QED BY <3>1, <3>4 DEF Torn
  <2>4. fate[m] = "sent"
    <3>1. fate[m] # "unsent" /\ fate[m] \in Fates
      BY <1>0 DEF Inv, WireSound, TypeOK
    <3>2. QED BY <2>2, <2>3, <3>1 DEF Fates
  <2>5. PICK e \in 1 .. n : LastEnds(m, e) BY <1>0, <2>4 DEF EndsSound
  <2>6. wire[e].m = m /\ wire[e].eor BY <2>5 DEF LastEnds
  <2>7. ~(e < i)
    <3>1. ASSUME e < i PROVE FALSE
      <4>1. i \in e + 1 .. n BY <1>0, <3>1
      <4>2. QED BY <2>5, <4>1 DEF LastEnds
    <3>2. QED BY <3>1
  <2>8. ~(i < e) BY <2>1, <2>6
  <2>9. e = i BY <2>7, <2>8
  <2>10. QED BY <2>6, <2>9
<1>3. QED BY <1>1, <1>2

(* What the peer makes of a stream is what was sent, whatever usrsctp takes *)
(* of each chunk: records end where messages end, and a message reported as *)
(* sent is on its way completely, no byte of it twice; for any messages,    *)
(* sizes and chunk size.                                                    *)
THEOREM FramedCorrect == Spec => []FramedAsSent
<1>1. Inv /\ Sums /\ EndsSound => FramedAsSent
  <2> SUFFICES ASSUME Inv, Sums, EndsSound PROVE FramedAsSent OBVIOUS
  <2>1. ASSUME NEW i \in 1 .. Len(wire), NEW j \in 1 .. Len(wire), i < j,
               OnStream(j, StreamOf[wire[i].m]),
               \A k \in i + 1 .. j - 1 : ~OnStream(k, StreamOf[wire[i].m]),
               \A m \in Messages : StreamOf[m] = StreamOf[wire[i].m] => ~Torn(m)
        PROVE  wire[i].eor <=> wire[i].m # wire[j].m
    BY <2>1, Framing
  <2>2. ASSUME NEW m \in Messages, fate[m] = "sent"
        PROVE  /\ Taken(m) = Payload(m)
               /\ \E i \in 1 .. Len(wire) : LastEnds(m, i)
    <3>1. left[m] = 0 /\ \E i \in 1 .. Len(wire) : LastEnds(m, i)
      BY <2>2 DEF EndsSound
    <3>2. Taken(m) = Payload(m) - left[m] BY TakenValue
    <3>3. Payload(m) \in Nat BY PayloadType
    <3>4. QED BY <3>1, <3>2, <3>3
  <2>3. QED BY <2>1, <2>2 DEF FramedAsSent, LastEnds
<1>2. Init => Sums /\ EndsSound BY InitFramed
<1>3. Inv /\ Sums /\ EndsSound /\ [Next]_vars => (Sums /\ EndsSound)'
  BY NextFramed
<1>4. QED BY <1>1, <1>2, <1>3, InvCorrect, PTL DEF Spec
==============================================================================
