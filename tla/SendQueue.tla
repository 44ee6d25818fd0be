------------------------------- MODULE SendQueue -------------------------------
(***************************************************************************)
(* How a message gets into usrsctp (sctp_transport/transport.c): it is cut *)
(* into chunks, each handed to usrsctp_sendv with the end-of-record flag   *)
(* on the last one.  usrsctp may take a part of a chunk only, or nothing;  *)
(* what is left of the message is then deferred in                         *)
(* buffered_messages_outgoing and sent when the socket becomes writable.   *)
(*                                                                         *)
(* A step is one call of usrsctp_sendv.  Nothing of the application runs   *)
(* between two calls for the same message or flush.                        *)
(***************************************************************************)
EXTENDS Integers, Sequences, FiniteSets

CONSTANTS
  Messages,   \* messages, each sent at most once, in a buffer of its own
  Dcep,       \* those that are DCEP messages
  StreamOf,   \* the SID of each message
  Size,       \* its number of bytes
  ChunkSize,  \* rawrtcdc_global.usrsctp_chunk_size
  MaxSize,    \* transport->remote_maximum_message_size, 0 if unlimited
  Failures    \* TRUE if usrsctp may refuse a chunk for good, or report the
              \* socket writable before the association is up

ASSUME DcepAssumption  == Dcep \subseteq Messages
ASSUME SizeAssumption  == Size \in [Messages -> Nat]
ASSUME ChunkAssumption == ChunkSize \in Nat \ {0} /\ MaxSize \in Nat
ASSUME FailuresAssumption == Failures \in BOOLEAN

VARIABLES
  state,  \* of the transport, "connecting" standing for "new", too
  queue,  \* buffered_messages_outgoing
  left,   \* mbuf_get_left of the buffer of each message
  eor,    \* SCTP_EOR in the send info of each message
  job,    \* the message that sctp_transport_send is busy with
  fate,   \* what has become of each message
  wire,   \* history: what usrsctp took, piece by piece
  ended   \* history: the messages whose record was ended, in that order

vars == <<state, queue, left, eor, job, fate, wire, ended>>

(* An empty message is sent as one byte under a PPID of its own.            *)
Payload(m) == IF Size[m] = 0 THEN 1 ELSE Size[m]

Origins == {"app", "queue"}
NoJob == [from |-> "none"]
Jobs == [from : Origins, m : Messages, eorSet : BOOLEAN]
Job(from, m) == [from |-> from, m |-> m, eorSet |-> eor[m]]
Fates == {"unsent", "sending", "deferred", "sent", "refused", "dropped"}

Init ==
  /\ state = "connecting"
  /\ queue = <<>>
  /\ left = [m \in Messages |-> Payload(m)]
  /\ eor = [m \in Messages |-> TRUE]
  /\ job = NoJob
  /\ fate = [m \in Messages |-> "unsent"]
  /\ wire = <<>>
  /\ ended = <<>>

(***************************************************************************)
(* Handing a message over.                                                 *)
(***************************************************************************)
TooLong(m) == m \notin Dcep /\ MaxSize # 0 /\ Size[m] > MaxSize

(* Mutant: the queue is not looked at.                                      *)
DirectAlways == state = "connected"
Direct == state = "connected" /\ queue = <<>>

(* Mutant: the message is put in front of the others.                       *)
DeferInFront(m) == queue' = <<m>> \o queue
Defer(m) == queue' = Append(queue, m)

(* Channels are open on a connected transport only, DCEP messages are sent  *)
(* before, too.                                                             *)
Send(m) ==
  /\ job = NoJob
  /\ fate[m] = "unsent"
  /\ state = "connected" \/ (m \in Dcep /\ state # "closed")
  /\ \/ /\ TooLong(m)
        /\ fate' = [fate EXCEPT ![m] = "refused"]
        /\ UNCHANGED <<queue, job>>
     \/ /\ ~TooLong(m)
        /\ Direct
        /\ job' = Job("app", m)
        /\ fate' = [fate EXCEPT ![m] = "sending"]
        /\ UNCHANGED queue
     \/ /\ ~TooLong(m)
        /\ ~Direct
        /\ Defer(m)
        /\ fate' = [fate EXCEPT ![m] = "deferred"]
        /\ UNCHANGED job
  /\ UNCHANGED <<state, left, eor, wire, ended>>

(***************************************************************************)
(* sctp_transport_send: one call of usrsctp_sendv.                         *)
(***************************************************************************)
(* Mutant: a full chunk is handed over even if less is left.                *)
FullChunk(m) == ChunkSize
Chunk(m) == IF left[m] > ChunkSize THEN ChunkSize ELSE left[m]

Last(m) == left[m] <= ChunkSize
Flag == Last(job.m) /\ (job.eorSet \/ eor[job.m])

(* The flag as the function leaves it.  Mutant: it is not put back.          *)
FlagLeft == Flag
FlagAfter == job.eorSet \/ Flag

(* The next message of the queue, once the first has been dealt with.       *)
NextJob(q) == IF q = <<>> THEN NoJob ELSE Job("queue", Head(q))

Busy == job # NoJob

(* The message is done with, `result' being what has become of it.          *)
Done(result) ==
  /\ fate' = [fate EXCEPT ![job.m] = result]
  /\ eor' = [eor EXCEPT ![job.m] = FlagAfter]
  /\ IF job.from = "queue"
       THEN queue' = Tail(queue) /\ job' = NextJob(Tail(queue))
       ELSE UNCHANGED queue /\ job' = NoJob

(* usrsctp takes w bytes.  It ends the record only if it took all of a      *)
(* chunk that is flagged.                                                   *)
EndsRecord(w) == Flag /\ w = Chunk(job.m)

SendvTakes(w) ==
  /\ Busy
  /\ state = "connected"
  /\ w \in 1 .. Chunk(job.m)
  /\ wire' = Append(wire, [m |-> job.m, n |-> w, eor |-> EndsRecord(w)])
  /\ ended' = IF EndsRecord(w) THEN Append(ended, job.m) ELSE ended
  /\ left' = [left EXCEPT ![job.m] = @ - w]
  /\ IF left[job.m] = w
       THEN Done("sent")
       ELSE /\ eor' = [eor EXCEPT ![job.m] = Flag]
            /\ UNCHANGED <<queue, job, fate>>
  /\ UNCHANGED state

(* usrsctp has no room: the message is deferred, or stays first in the      *)
(* queue, and the flush ends.                                               *)
SendvAgain ==
  /\ Busy
  /\ state = "connected"
  /\ eor' = [eor EXCEPT ![job.m] = FlagAfter]
  /\ job' = NoJob
  /\ \/ /\ job.from = "app"
        /\ Defer(job.m)
        /\ fate' = [fate EXCEPT ![job.m] = "deferred"]
     \/ /\ job.from = "queue"
        /\ UNCHANGED <<queue, fate>>
  /\ UNCHANGED <<state, left, wire, ended>>

(* usrsctp refuses for good, or the transport is not connected: the caller  *)
(* gets an error, a deferred message is dropped and the flush goes on.      *)
SendvFails ==
  /\ Busy
  /\ Failures \/ state # "connected"
  /\ Done(IF job.from = "app" THEN "refused" ELSE "dropped")
  /\ UNCHANGED <<state, left, wire, ended>>

(***************************************************************************)
(* Events of usrsctp.                                                      *)
(***************************************************************************)
CommUp ==
  /\ ~Busy
  /\ state = "connecting"
  /\ state' = "connected"
  /\ job' = NextJob(queue)
  /\ UNCHANGED <<queue, left, eor, fate, wire, ended>>

(* Mutant: a single message is left alone.                                  *)
FlushableBeyondOne == Len(queue) > 1
Flushable == queue # <<>>

WriteEvent ==
  /\ ~Busy
  /\ state = "connected" \/ (Failures /\ state = "connecting")
  /\ Flushable
  /\ job' = NextJob(queue)
  /\ UNCHANGED <<state, queue, left, eor, fate, wire, ended>>

(* The transport is closed; what is deferred stays where it is.             *)
Closed ==
  /\ ~Busy
  /\ state # "closed"
  /\ state' = "closed"
  /\ UNCHANGED <<queue, left, eor, job, fate, wire, ended>>

Sendv == (\E w \in 1 .. ChunkSize : SendvTakes(w)) \/ SendvAgain \/ SendvFails

Next == (\E m \in Messages : Send(m)) \/ Sendv \/ CommUp \/ WriteEvent \/ Closed

Spec == Init /\ [][Next]_vars

(* The library runs on; while messages are deferred the socket becomes      *)
(* writable again and again, and then takes something now and then.         *)
FairSpec ==
  /\ Spec
  /\ WF_vars(Sendv)
  /\ WF_vars(WriteEvent)
  /\ SF_vars(\E w \in 1 .. ChunkSize : SendvTakes(w))

-----------------------------------------------------------------------------
(* Every variable keeps its type; no buffer is read beyond its end.         *)
TypeOK ==
  /\ state \in {"connecting", "connected", "closed"}
  /\ queue \in Seq(Messages)
  /\ left \in [Messages -> Nat]
  /\ eor \in [Messages -> BOOLEAN]
  /\ job \in Jobs \cup {NoJob}
  /\ fate \in [Messages -> Fates]
  /\ wire \in Seq([m : Messages, n : Nat \ {0}, eor : BOOLEAN])
  /\ ended \in Seq(Messages)

(* Bytes of m that usrsctp has taken.                                       *)
Taken(m) ==
  LET f[i \in 0 .. Len(wire)] ==
        IF i = 0 THEN 0
        ELSE f[i - 1] + IF wire[i].m = m THEN wire[i].n ELSE 0
  IN  f[Len(wire)]

(* A part of m is on its way and the rest will never follow.                *)
Torn(m) == fate[m] \in {"refused", "dropped"} /\ Taken(m) > 0

OnStream(i, s) == StreamOf[wire[i].m] = s

(* What the peer makes of a stream is what was sent: on each stream that    *)
(* no torn message spoils, a record ends exactly where a message ends, be   *)
(* it cut, deferred halfway or resumed; and a message reported as sent is   *)
(* on its way completely, no byte of it twice.                              *)
FramedAsSent ==
  /\ \A i, j \in 1 .. Len(wire) :
       LET s == StreamOf[wire[i].m]
       IN  (/\ i < j
            /\ OnStream(j, s)
            /\ \A k \in i + 1 .. j - 1 : ~OnStream(k, s)
            /\ \A m \in Messages : StreamOf[m] = s => ~Torn(m))
           => (wire[i].eor <=> wire[i].m # wire[j].m)
  /\ \A m \in Messages :
       fate[m] = "sent" =>
         /\ Taken(m) = Payload(m)
         /\ \E i \in 1 .. Len(wire) :
              /\ wire[i].m = m /\ wire[i].eor
              /\ \A j \in i + 1 .. Len(wire) : wire[j].m # m

(* No message gets between the pieces of another one, although a deferred   *)
(* message may wait long for its rest to be taken and the application goes  *)
(* on sending.                                                              *)
Contiguous ==
  \A i, k \in 1 .. Len(wire) :
    i < k /\ wire[i].m = wire[k].m =>
      \A j \in i .. k : wire[j].m = wire[i].m

(* A message that is deferred on a connected transport leaves, unless the   *)
(* transport is closed first.                                               *)
DeferredLeaves ==
  \A m \in Messages :
    (fate[m] = "deferred" /\ state = "connected")
      ~> (fate[m] \in {"sent", "dropped"} \/ state = "closed")

(* Messages leave in the order in which they were handed over: MessageFifo. *)
Pending == IF job.from = "app" THEN <<job.m>> \o queue ELSE queue
Fifo == INSTANCE MessageFifo WITH pending <- Pending, sent <- ended
FifoSpec == Fifo!Spec
=============================================================================
