------------------------------- MODULE BodyProofs -------------------------------
(***************************************************************************)
(* Proofs about where the bytes of requests and responses begin and end.   *)
(* BodyStream: for every number of producers, every buffer, coalescing     *)
(* limit and piece size, and bodies of any length. StaticFiles: for any    *)
(* lengths, requests and number of changes of the file, a range gets what  *)
(* it asks for, a 304 confirms only what is there, and a copy put together *)
(* from parts is one version of the file. InputScan: for input of any      *)
(* length, cut in any way, and any limits, what is decoded is the body,    *)
(* and the next request begins where it does for uncut input.              *)
(***************************************************************************)
EXTENDS BodyStream, StaticFiles, InputScan, SequenceTheorems, WellFoundedInduction, TLAPS

(* The inductive invariant, beyond the properties themselves.               *)

\* Chunks are not empty and do not overlap; the last ends where the next byte
\* that send accepts goes.  Stated for every pair of chunks, so that the bytes
\* of any run can be bounded without adding up the chunks between its ends.
Orderly(q) ==
    /\ \A i \in 1..Len(q) : q[i].len > 0
    /\ \A i \in 1..Len(q) - 1 : q[i + 1].at = q[i].at + q[i].len
    /\ \A i, j \in 1..Len(q) : i < j => q[i].at + q[i].len <= q[j].at

QueueShape ==
    /\ Orderly(queue)
    /\ queue # <<>> => queue[Len(queue)].at + queue[Len(queue)].len = accepted
    /\ rxGone => queue = <<>> /\ queued = 0

\* What the connection thread's position says of the rest.
Phases ==
    /\ rt \in {"respond", "flush", "polled", "write", "sleep", "probe", "collect"}
          => ~rxGone /\ tail = "none"
    /\ rt \in {"flush", "polled", "write", "sleep", "probe"}
          => waker /\ framing # "collect"
    /\ rt = "collect" => framing = "collect"
    /\ rt \in {"polled", "write"} => batch.len > 0
    /\ rt \notin {"polled", "write"} => batch = NoBytes
    /\ rt # "done" => client = "open"

\* Nobody is inside send once the body has ended, and a piece has bytes.
Senders ==
    \A p \in Producers : pc[p] = "send" => end = "open" /\ arg[p] > 0

\* The promise of a complete body is made when it is true, and stays true.
Promise ==
    /\ tail = "terminator" => /\ end = "finished" /\ arrived = accepted
                              /\ framing # "close"
    /\ client = "terminated" => tail = "terminator"
    /\ framing = "collect" => tail # "close" /\ client # "closed"

IInv == BodyTypeOK /\ InOrder /\ QueueShape /\ Phases /\ Senders /\ Promise

-----------------------------------------------------------------------------
(* Runs of adjacent chunks.                                                 *)

\* A non-empty queue in order spans from its first byte to its last.
LEMMA BytesOfQueue ==
    ASSUME NEW q \in Seq(Chunk), Orderly(q)
    PROVE  /\ Bytes(q) \in Nat
           /\ q = <<>> => Bytes(q) = 0
           /\ q # <<>> => Bytes(q) = q[Len(q)].at + q[Len(q)].len - q[1].at
           /\ q # <<>> => Bytes(q) > 0
<1>1. CASE q = <<>>
  BY <1>1 DEF Bytes
<1>2. CASE q # <<>>
  <2>1. Len(q) \in Nat \ {0} /\ q[1] \in Chunk /\ q[Len(q)] \in Chunk
    BY <1>2
  <2>2. q[1].len > 0 /\ q[Len(q)].len > 0
    BY <2>1 DEF Orderly
  <2>3. q[1].at <= q[Len(q)].at
    <3>1. CASE Len(q) = 1
      BY <3>1, <2>1 DEF Chunk
    <3>2. CASE Len(q) > 1
      BY <3>2, <2>1, <2>2 DEF Orderly, Chunk
    <3> QED BY <3>1, <3>2, <2>1
  <2> QED BY <1>2, <2>1, <2>2, <2>3 DEF Bytes, Chunk
<1> QED BY <1>1, <1>2

\* Taking the first k chunks leaves a queue in order, and splits its bytes.
LEMMA TakeChunks ==
    ASSUME NEW q \in Seq(Chunk), Orderly(q), NEW k \in 1..Len(q)
    PROVE  LET front == SubSeq(q, 1, k)
               rest  == SubSeq(q, k + 1, Len(q))
           IN  /\ rest \in Seq(Chunk) /\ Orderly(rest)
               /\ Len(rest) = Len(q) - k
               /\ rest # <<>> => rest[1] = q[k + 1]
               /\ rest # <<>> => rest[Len(rest)] = q[Len(q)]
               /\ Bytes(front) \in Nat \ {0}
               /\ Bytes(front) = q[k].at + q[k].len - q[1].at
               /\ Bytes(q) = Bytes(front) + Bytes(rest)
<1> DEFINE front == SubSeq(q, 1, k)
           rest  == SubSeq(q, k + 1, Len(q))
<1>1. /\ front \in Seq(Chunk) /\ Len(front) = k
      /\ \A i \in 1..k : front[i] = q[i]
  OBVIOUS
<1>2. /\ rest \in Seq(Chunk) /\ Len(rest) = Len(q) - k
      /\ \A i \in 1..Len(q) - k : rest[i] = q[k + i]
  OBVIOUS
<1> HIDE DEF front, rest
<1>0. Len(q) \in Nat /\ k \in Nat /\ 1 <= k /\ k <= Len(q)
  OBVIOUS
<1>3. Orderly(front)
  <2>1. \A i \in 1..k : front[i].len > 0
    BY <1>0, <1>1 DEF Orderly
  <2>2. \A i \in 1..k - 1 : front[i + 1].at = front[i].at + front[i].len
    <3> SUFFICES ASSUME NEW i \in 1..k - 1
                 PROVE  front[i + 1].at = front[i].at + front[i].len
      OBVIOUS
    <3>1. i \in 1..Len(q) - 1 /\ i \in 1..k /\ i + 1 \in 1..k
      BY <1>0
    <3>2. q[i + 1].at = q[i].at + q[i].len
      BY <3>1 DEF Orderly
    <3> QED BY <3>1, <3>2, <1>1
  <2>3. \A i, j \in 1..k : i < j => front[i].at + front[i].len <= front[j].at
    <3> SUFFICES ASSUME NEW i \in 1..k, NEW j \in 1..k, i < j
                 PROVE  front[i].at + front[i].len <= front[j].at
      OBVIOUS
    <3>1. i \in 1..Len(q) /\ j \in 1..Len(q)
      BY <1>0
    <3>2. q[i].at + q[i].len <= q[j].at
      BY <3>1 DEF Orderly
    <3> QED BY <3>2, <1>1
  <2> QED BY <2>1, <2>2, <2>3, <1>1 DEF Orderly
<1>4. Orderly(rest)
  <2>1. \A i \in 1..Len(rest) : k + i \in 1..Len(q) /\ rest[i] = q[k + i]
    BY <1>2
  <2>2. \A i \in 1..Len(rest) - 1 : k + i \in 1..Len(q) - 1 /\ rest[i + 1] = q[(k + i) + 1]
    BY <1>2
  <2>3. \A i \in 1..Len(rest) - 1 : rest[i + 1].at = rest[i].at + rest[i].len
    <3> SUFFICES ASSUME NEW i \in 1..Len(rest) - 1
                 PROVE  rest[i + 1].at = rest[i].at + rest[i].len
      OBVIOUS
    <3>1. i \in 1..Len(rest)
      BY <1>0, <1>2
    <3>2. rest[i] = q[k + i] /\ rest[i + 1] = q[(k + i) + 1] /\ k + i \in 1..Len(q) - 1
      BY <2>1, <2>2, <3>1
    <3>3. q[(k + i) + 1].at = q[k + i].at + q[k + i].len
      BY <3>2 DEF Orderly
    <3> QED BY <3>2, <3>3
  <2>4. \A i, j \in 1..Len(rest) : i < j => rest[i].at + rest[i].len <= rest[j].at
    <3> SUFFICES ASSUME NEW i \in 1..Len(rest), NEW j \in 1..Len(rest), i < j
                 PROVE  rest[i].at + rest[i].len <= rest[j].at
      OBVIOUS
    <3>1. k + i \in 1..Len(q) /\ k + j \in 1..Len(q) /\ k + i < k + j
      BY <2>1, <1>2
    <3> QED BY <2>1, <3>1 DEF Orderly
  <2> QED BY <2>1, <2>3, <2>4 DEF Orderly
<1>5. Bytes(front) \in Nat \ {0} /\ Bytes(front) = q[k].at + q[k].len - q[1].at
  <2>1. front # <<>> /\ front[1] = q[1] /\ front[Len(front)] = q[k]
    BY <1>1
  <2>2. Bytes(front) \in Nat /\ Bytes(front) > 0
        /\ Bytes(front) = front[Len(front)].at + front[Len(front)].len - front[1].at
    BY <2>1, <1>1, <1>3, BytesOfQueue
  <2> QED BY <2>1, <2>2
<1>6. Bytes(q) = Bytes(front) + Bytes(rest)
  <2>0. /\ q # <<>> /\ q[1] \in Chunk /\ q[k] \in Chunk /\ q[Len(q)] \in Chunk
        /\ Bytes(q) = q[Len(q)].at + q[Len(q)].len - q[1].at
    BY BytesOfQueue
  <2>1. CASE k = Len(q)
    <3>1. rest = <<>>
      BY <2>1, <1>2
    <3>2. Bytes(rest) = 0
      BY <3>1 DEF Bytes
    <3> QED BY <3>2, <2>0, <2>1, <1>5
  <2>2. CASE k < Len(q)
    <3>1. /\ rest # <<>> /\ rest[1] = q[k + 1] /\ rest[Len(rest)] = q[Len(q)]
          /\ q[k + 1] \in Chunk
      <4>1. Len(rest) \in Nat /\ Len(rest) > 0 /\ k + 1 \in 1..Len(q)
        BY <2>2, <1>0, <1>2
      <4>2. rest[1] = q[k + 1] /\ rest[Len(rest)] = q[k + Len(rest)]
        BY <4>1, <1>2
      <4>3. k + Len(rest) = Len(q)
        BY <1>0, <1>2
      <4> QED BY <4>1, <4>2, <4>3
    <3>2. q[k + 1].at = q[k].at + q[k].len
      BY <2>2, <1>0 DEF Orderly
    <3>3. Bytes(rest) = q[Len(q)].at + q[Len(q)].len - q[k + 1].at
      BY <3>1 DEF Bytes
    <3>4. /\ q[1].at \in Nat /\ q[k].at \in Nat /\ q[k].len \in Nat
          /\ q[k + 1].at \in Nat /\ q[Len(q)].at \in Nat /\ q[Len(q)].len \in Nat
      BY <2>0, <3>1 DEF Chunk
    <3>5. Bytes(front) = q[k + 1].at - q[1].at
      BY <3>2, <3>4, <1>5
    <3>6. \A a, b, c, d \in Nat : (a - b) + ((c + d) - a) = (c + d) - b
      OBVIOUS
    <3> QED BY <2>0, <3>3, <3>4, <3>5, <3>6
  <2> QED BY <2>1, <2>2
<1>7. /\ rest # <<>> => rest[1] = q[k + 1]
      /\ rest # <<>> => rest[Len(rest)] = q[Len(q)]
  BY <1>2
<1> QED BY <1>2, <1>4, <1>5, <1>6, <1>7 DEF front, rest

\* A piece put behind the last byte keeps the queue in order.
LEMMA PutChunk ==
    ASSUME NEW q \in Seq(Chunk), Orderly(q), NEW first \in Nat, NEW len \in Nat, len > 0,
           q # <<>> => q[Len(q)].at + q[Len(q)].len = first
    PROVE  LET longer == Append(q, [at |-> first, len |-> len])
           IN  /\ longer \in Seq(Chunk) /\ Orderly(longer)
               /\ longer # <<>> /\ Len(longer) = Len(q) + 1
               /\ longer[1] = IF q = <<>> THEN [at |-> first, len |-> len] ELSE q[1]
               /\ longer[Len(longer)] = [at |-> first, len |-> len]
               /\ Bytes(longer) = Bytes(q) + len
<1> DEFINE c == [at |-> first, len |-> len]
           longer == Append(q, c)
<1>0. c \in Chunk /\ c.at = first /\ c.len = len
  BY DEF Chunk
<1> HIDE DEF c
<1>1. /\ longer \in Seq(Chunk) /\ Len(longer) = Len(q) + 1
      /\ \A i \in 1..Len(q) : longer[i] = q[i]
      /\ longer[Len(q) + 1] = c
      /\ longer # <<>>
  <2>1. longer \in Seq(Chunk) /\ Len(longer) = Len(q) + 1
    BY <1>0
  <2>2. (\A i \in 1..Len(q) : longer[i] = q[i]) /\ longer[Len(q) + 1] = c
    BY <1>0
  <2> QED BY <2>1, <2>2
<1> HIDE DEF longer
<1>2. \A i \in 1..Len(q) : /\ q[i] \in Chunk /\ q[i].at + q[i].len <= first
                           /\ q[i].at \in Nat /\ q[i].len \in Nat
  <2> SUFFICES ASSUME NEW i \in 1..Len(q)
               PROVE  /\ q[i] \in Chunk /\ q[i].at + q[i].len <= first
                      /\ q[i].at \in Nat /\ q[i].len \in Nat
    OBVIOUS
  <2>1. q[i] \in Chunk /\ q[Len(q)] \in Chunk /\ Len(q) \in 1..Len(q) /\ q # <<>>
    OBVIOUS
  <2>2. i < Len(q) => q[i].at + q[i].len <= q[Len(q)].at
    BY <2>1 DEF Orderly
  <2>3. q[i].at \in Nat /\ q[i].len \in Nat /\ q[Len(q)].at \in Nat /\ q[Len(q)].len > 0
    BY <2>1 DEF Chunk, Orderly
  <2>4. i < Len(q) \/ i = Len(q)
    OBVIOUS
  <2>5. q[i].at + q[i].len <= first
    BY <2>1, <2>2, <2>3, <2>4 DEF Chunk
  <2> QED BY <2>3, <2>5
<1>3. Orderly(longer)
  <2>1. \A i \in 1..Len(longer) : longer[i].len > 0
    BY <1>0, <1>1 DEF Orderly
  <2>2. \A i \in 1..Len(longer) - 1 : longer[i + 1].at = longer[i].at + longer[i].len
    <3> SUFFICES ASSUME NEW i \in 1..Len(longer) - 1
                 PROVE  longer[i + 1].at = longer[i].at + longer[i].len
      OBVIOUS
    <3>1. CASE i = Len(q)
      BY <3>1, <1>0, <1>1
    <3>2. CASE i < Len(q)
      BY <3>2, <1>1 DEF Orderly
    <3> QED BY <3>1, <3>2, <1>1
  <2>3. \A i, j \in 1..Len(longer) : i < j => longer[i].at + longer[i].len <= longer[j].at
    <3> SUFFICES ASSUME NEW i \in 1..Len(longer), NEW j \in 1..Len(longer), i < j
                 PROVE  longer[i].at + longer[i].len <= longer[j].at
      OBVIOUS
    <3>1. CASE j = Len(q) + 1
      BY <3>1, <1>0, <1>1, <1>2
    <3>2. CASE j <= Len(q)
      <4>1. i \in 1..Len(q) /\ j \in 1..Len(q) /\ longer[i] = q[i] /\ longer[j] = q[j]
        BY <3>2, <1>1
      <4> QED BY <4>1 DEF Orderly
    <3> QED BY <3>1, <3>2, <1>1
  <2> QED BY <2>1, <2>2, <2>3 DEF Orderly
<1>4. longer[1] = IF q = <<>> THEN c ELSE q[1]
  BY <1>1
<1>5. Bytes(longer) = Bytes(q) + len
  <2>1. CASE q = <<>>
    BY <2>1, <1>0, <1>1 DEF Bytes
  <2>2. CASE q # <<>>
    <3>1. q[1] \in Chunk /\ longer[1] = q[1] /\ q[Len(q)] \in Chunk
      BY <2>2, <1>1
    <3> QED BY <2>2, <3>1, <1>0, <1>1 DEF Bytes, Chunk
  <2> QED BY <2>1, <2>2
<1> QED BY <1>1, <1>3, <1>4, <1>5 DEF longer, c

-----------------------------------------------------------------------------
(* The invariant holds initially and every step preserves it.               *)

LEMMA InitInv == BodyInit => IInv
<1> SUFFICES ASSUME BodyInit PROVE IInv
  OBVIOUS
<1> USE DEF BodyInit
<1>1. BodyTypeOK
  <2>1. queue \in Seq(Chunk) /\ batch \in Chunk
    BY DEF Chunk, NoBytes
  <2>2. framing \in {"chunked", "close", "collect"} /\ arg \in [Producers -> 0..MaxSize]
    BY BodyAssumption
  <2> QED BY <2>1, <2>2 DEF BodyTypeOK
<1>2. InOrder
  BY DEF InOrder, Bytes, NoBytes
<1>3. QueueShape
  BY DEF QueueShape, Orderly
<1>4. Phases /\ Senders /\ Promise
  BY DEF Phases, Senders, Promise
<1> QED BY <1>1, <1>2, <1>3, <1>4 DEF IInv

LEMMA ProducerInv ==
    ASSUME IInv, NEW p \in Producers,
           CallSend(p) \/ End(p) \/ ProducerStep(p)
    PROVE  IInv'
<1> USE DEF IInv, channel, producer, socket
<1>1. CASE CallSend(p)
  BY <1>1, BodyAssumption
     DEF CallSend, BodyTypeOK, InOrder, QueueShape, Phases, Senders, Promise
<1>2. CASE Block(p)
  BY <1>2 DEF Block, BodyTypeOK, InOrder, QueueShape, Phases, Senders, Promise
<1>3. CASE Push(p)
  <2> USE <1>3 DEF Push
  <2>1. /\ queue \in Seq(Chunk) /\ Orderly(queue) /\ accepted \in Nat
        /\ arg[p] \in Nat /\ arg[p] > 0 /\ ~rxGone /\ end = "open"
        /\ queue # <<>> => queue[Len(queue)].at + queue[Len(queue)].len = accepted
    BY BodyAssumption DEF BodyTypeOK, QueueShape, Senders
  <2>2. /\ queue' \in Seq(Chunk) /\ Orderly(queue') /\ queue' # <<>>
        /\ queue'[1] = IF queue = <<>> THEN [at |-> accepted, len |-> arg[p]] ELSE queue[1]
        /\ queue'[Len(queue')] = [at |-> accepted, len |-> arg[p]]
        /\ Bytes(queue') = Bytes(queue) + arg[p]
    BY <2>1, PutChunk
  <2>3. BodyTypeOK'
    BY <2>1, <2>2 DEF BodyTypeOK
  <2>4. QueueShape'
    BY <2>1, <2>2 DEF QueueShape
  <2>5. InOrder'
    <3>1. \A i \in 1..Len(queue') - 1 : queue'[i + 1].at = queue'[i].at + queue'[i].len
      BY <2>2 DEF Orderly
    <3>2. (rt \in {"polled", "write"} => batch.at = arrived)'
      BY DEF InOrder
    <3>3. ASSUME ~rxGone', tail' # "lost"
          PROVE  /\ accepted' = arrived' + batch'.len + queued'
                 /\ queued' = Bytes(queue')
                 /\ queue' # <<>> => queue'[1].at = arrived' + batch'.len
      <4>1. /\ accepted = arrived + batch.len + queued /\ queued = Bytes(queue)
            /\ queue # <<>> => queue[1].at = arrived + batch.len
        BY <3>3 DEF InOrder
      <4>2. queued \in Nat /\ arrived \in Nat /\ batch.len \in Nat
        BY DEF BodyTypeOK, Chunk
      <4>3. queue = <<>> => accepted = arrived + batch.len
        BY <4>1, <4>2 DEF Bytes
      <4>4. /\ accepted' = arrived' + batch'.len + queued'
            /\ queued' = Bytes(queue')
        BY <4>1, <4>2, <2>1, <2>2
      <4>5. queue'[1].at = arrived' + batch'.len
        BY <4>1, <4>3, <2>2
      <4> QED BY <4>4, <4>5
    <3> QED BY <3>1, <3>2, <3>3 DEF InOrder
  <2>6. Phases' /\ Senders' /\ Promise'
    BY <2>1 DEF Phases, Senders, Promise, BodyTypeOK
  <2> QED BY <2>3, <2>4, <2>5, <2>6
<1>4. CASE BrokenPipe(p)
  BY <1>4 DEF BrokenPipe, BodyTypeOK, InOrder, QueueShape, Phases, Senders, Promise
<1>5. CASE End(p)
  BY <1>5 DEF End, BodyTypeOK, InOrder, QueueShape, Phases, Senders, Promise
<1>6. CASE NotifyAll(p)
  BY <1>6 DEF NotifyAll, BodyTypeOK, InOrder, QueueShape, Phases, Senders, Promise
<1>7. CASE CallWaker(p)
  BY <1>7 DEF CallWaker, BodyTypeOK, InOrder, QueueShape, Phases, Senders, Promise
<1> QED BY <1>1, <1>2, <1>3, <1>4, <1>5, <1>6, <1>7 DEF ProducerStep, Send

LEMMA ConnectionInv ==
    ASSUME IInv, Connection
    PROVE  IInv'
<1> USE DEF IInv, channel, producer, socket
<1>1. CASE SetWaker
  BY <1>1 DEF SetWaker, BodyTypeOK, InOrder, QueueShape, Phases, Senders, Promise
<1>2. CASE OmitBody
  BY <1>2 DEF OmitBody, BodyTypeOK, InOrder, QueueShape, Phases, Senders, Promise
<1>3. CASE StartCollect
  BY <1>3 DEF StartCollect, BodyTypeOK, InOrder, QueueShape, Phases, Senders, Promise
<1>4. CASE PollData
  <2> USE <1>4 DEF PollData
  <2>1. PICK k \in 1..Len(queue) :
            /\ batch' = [at |-> queue[1].at, len |-> Bytes(SubSeq(queue, 1, k))]
            /\ queue' = SubSeq(queue, k + 1, Len(queue))
            /\ queued' = queued - Bytes(SubSeq(queue, 1, k))
    BY DEF Left, Freed
  <2>2. /\ queue \in Seq(Chunk) /\ Orderly(queue) /\ queue # <<>>
        /\ queue[1] \in Chunk /\ queue[k] \in Chunk
        /\ queued \in Nat /\ accepted \in Nat /\ arrived \in Nat
        /\ queue[Len(queue)].at + queue[Len(queue)].len = accepted
    BY DEF BodyTypeOK, QueueShape
  <2>3. ~rxGone /\ tail = "none" /\ batch = NoBytes /\ batch.len = 0
    BY DEF Phases, NoBytes
  <2>4. /\ accepted = arrived + queued /\ queued = Bytes(queue) /\ queue[1].at = arrived
    BY <2>2, <2>3 DEF InOrder
  <2>5. /\ queue' \in Seq(Chunk) /\ Orderly(queue')
        /\ queue' # <<>> => queue'[1] = queue[k + 1] /\ k + 1 \in 1..Len(queue)
        /\ queue' # <<>> => queue'[Len(queue')] = queue[Len(queue)]
        /\ batch'.len \in Nat /\ batch'.len > 0
        /\ batch'.len = queue[k].at + queue[k].len - queue[1].at
        /\ Bytes(queue) = batch'.len + Bytes(queue')
        /\ Bytes(queue') \in Nat
    <3>1. /\ queue' \in Seq(Chunk) /\ Orderly(queue')
          /\ Len(queue') = Len(queue) - k
          /\ queue' # <<>> => queue'[1] = queue[k + 1]
          /\ queue' # <<>> => queue'[Len(queue')] = queue[Len(queue)]
      BY <2>1, <2>2, TakeChunks
    <3>2. /\ batch'.len = Bytes(SubSeq(queue, 1, k))
          /\ Bytes(SubSeq(queue, 1, k)) \in Nat \ {0}
          /\ Bytes(SubSeq(queue, 1, k)) = queue[k].at + queue[k].len - queue[1].at
          /\ Bytes(queue) = Bytes(SubSeq(queue, 1, k)) + Bytes(queue')
      BY <2>1, <2>2, TakeChunks
    <3>3. Bytes(queue') \in Nat
      BY <3>1, BytesOfQueue
    <3>4. queue' # <<>> => k + 1 \in 1..Len(queue)
      BY <3>1, <2>2
    <3> QED BY <3>1, <3>2, <3>3, <3>4
  <2>6. batch' \in Chunk /\ batch'.at = arrived
    BY <2>1, <2>2, <2>4, <2>5 DEF Chunk
  <2>7. queued' = Bytes(queue') /\ queued' \in Nat /\ accepted = arrived + batch'.len + queued'
    BY <2>1, <2>2, <2>4, <2>5
  <2>8. queue' # <<>> => queue'[1].at = arrived + batch'.len
    <3> SUFFICES ASSUME queue' # <<>> PROVE queue'[1].at = arrived + batch'.len
      OBVIOUS
    <3>1. queue[k + 1].at = queue[k].at + queue[k].len
      BY <2>2, <2>5 DEF Orderly
    <3>2. queue[k].at \in Nat /\ queue[k].len \in Nat /\ queue[1].at \in Nat
      BY <2>2 DEF Chunk
    <3>3. batch'.len = queue[k].at + queue[k].len - queue[1].at /\ queue'[1] = queue[k + 1]
      BY <2>5
    <3>4. queue[k + 1].at = queue[1].at + batch'.len
      BY <3>1, <3>2, <3>3
    <3> QED BY <3>3, <3>4, <2>4
  <2>9. BodyTypeOK'
    BY <2>5, <2>6, <2>7 DEF BodyTypeOK
  <2>10. InOrder'
    BY <2>5, <2>6, <2>7, <2>8 DEF InOrder, Orderly
  <2>11. QueueShape'
    BY <2>2, <2>3, <2>5 DEF QueueShape
  <2>12. Phases' /\ Senders' /\ Promise'
    BY <2>3, <2>5 DEF Phases, Senders, Promise
  <2> QED BY <2>9, <2>10, <2>11, <2>12
<1>5. CASE PollNotify
  BY <1>5 DEF PollNotify, BodyTypeOK, InOrder, QueueShape, Phases, Senders, Promise
<1>6. CASE WriteOut
  BY <1>6 DEF WriteOut, BodyTypeOK, InOrder, QueueShape, Phases, Senders, Promise, NoBytes, Chunk
<1>7. CASE WriteFails
  BY <1>7 DEF WriteFails, BodyTypeOK, InOrder, QueueShape, Phases, Senders, Promise, NoBytes, Chunk
<1>8. CASE PollPending
  BY <1>8 DEF PollPending, BodyTypeOK, InOrder, QueueShape, Phases, Senders, Promise, IsEnded
<1>9. CASE PollEnd
  BY <1>9 DEF PollEnd, BodyTypeOK, InOrder, QueueShape, Phases, Senders, Promise, Closing, Bytes, NoBytes
<1>10. CASE Awake
  BY <1>10 DEF Awake, BodyTypeOK, InOrder, QueueShape, Phases, Senders, Promise
<1>11. CASE WaitTimeout
  BY <1>11 DEF WaitTimeout, BodyTypeOK, InOrder, QueueShape, Phases, Senders, Promise
<1>12. CASE ProbeIdle
  BY <1>12 DEF ProbeIdle, BodyTypeOK, InOrder, QueueShape, Phases, Senders, Promise
<1>13. CASE ProbeClosed
  BY <1>13 DEF ProbeClosed, BodyTypeOK, InOrder, QueueShape, Phases, Senders, Promise
<1>14. CASE Collect
  <2> USE <1>14 DEF Collect
  <2>1. /\ queue \in Seq(Chunk) /\ Orderly(queue) /\ queued \in Nat
        /\ accepted \in Nat /\ arrived \in Nat
    BY DEF BodyTypeOK, QueueShape
  <2>2. ~rxGone /\ tail = "none" /\ batch = NoBytes /\ batch.len = 0
        /\ framing = "collect" /\ client = "open"
    BY DEF Phases, NoBytes
  <2>3. accepted = arrived + queued /\ queued = Bytes(queue) /\ Bytes(queue) \in Nat
    BY <2>1, <2>2, BytesOfQueue DEF InOrder
  <2>4. queue' = <<>> /\ Bytes(queue') = 0 /\ queued' = 0 /\ arrived' = accepted
    BY <2>1, <2>3 DEF Bytes
  <2>5. /\ tail' \in {"none", "terminator", "lost"}
        /\ tail' = "terminator" => end = "finished"
        /\ rt' = "collect" => tail' = "none"
        /\ rt' \in {"collect", "drop"}
    BY <2>2 DEF IsEnded
  <2>6. BodyTypeOK'
    <3>1. tail' \in {"none", "terminator", "close", "lost"} /\ arrived' \in Nat /\ queued' \in Nat
      BY <2>1, <2>4, <2>5
    <3>2. queue' \in Seq(Chunk) /\ parked' \subseteq Producers \cup {Rx}
      BY <2>4
    <3> QED BY <3>1, <3>2, <2>5 DEF BodyTypeOK
  <2>7. InOrder'
    BY <2>1, <2>2, <2>4, <2>5 DEF InOrder
  <2>8. QueueShape'
    BY <2>4, <2>2 DEF QueueShape, Orderly
  <2>9. Phases' /\ Senders' /\ Promise'
    BY <2>2, <2>4, <2>5 DEF Phases, Senders, Promise
  <2> QED BY <2>6, <2>7, <2>8, <2>9
<1>15. CASE DropRx
  <2> USE <1>15 DEF DropRx
  <2>1. BodyTypeOK'
    <3>1. queue' \in Seq(Chunk)
      OBVIOUS
    <3> QED BY <3>1 DEF BodyTypeOK
  <2>2. InOrder' /\ QueueShape'
    BY DEF InOrder, QueueShape, Orderly
  <2>3. Phases' /\ Senders' /\ Promise'
    BY DEF Phases, Senders, Promise
  <2> QED BY <2>1, <2>2, <2>3
<1>16. CASE DropNotify
  BY <1>16 DEF DropNotify, BodyTypeOK, InOrder, QueueShape, Phases, Senders, Promise
<1>17. CASE Farewell
  BY <1>17 DEF Farewell, BodyTypeOK, InOrder, QueueShape, Phases, Senders, Promise
<1> QED BY <1>1, <1>2, <1>3, <1>4, <1>5, <1>6, <1>7, <1>8, <1>9, <1>10, <1>11, <1>12, <1>13, <1>14, <1>15, <1>16, <1>17
   DEF Connection

LEMMA NextInv == IInv /\ [BodyNext]_bodyVars => IInv'
<1> SUFFICES ASSUME IInv, [BodyNext]_bodyVars PROVE IInv'
  OBVIOUS
<1> USE DEF bodyVars, channel, producer, socket
<1>1. CASE \E p \in Producers : CallSend(p) \/ End(p) \/ ProducerStep(p)
  BY <1>1, ProducerInv
<1>2. CASE \E t \in Producers \cup {Rx} : SpuriousWakeup(t)
  BY <1>2 DEF SpuriousWakeup, IInv, BodyTypeOK, InOrder, QueueShape, Phases, Senders, Promise
<1>3. CASE Connection
  BY <1>3, ConnectionInv
<1>4. CASE BodyTerminated \/ UNCHANGED bodyVars
  BY <1>4 DEF BodyTerminated, IInv, BodyTypeOK, InOrder, QueueShape, Phases, Senders, Promise
<1> QED BY <1>1, <1>2, <1>3, <1>4 DEF BodyNext

LEMMA Inductive == BodySpec => []IInv
BY InitInv, NextInv, PTL DEF BodySpec

-----------------------------------------------------------------------------
(* The theorems.                                                            *)

\* The types hold; in particular `queued', an unsigned counter in the code,
\* never goes below zero when poll, collect_blocking or a drop subtract from it.
THEOREM TypeCorrect == BodySpec => []BodyTypeOK
<1>1. IInv => BodyTypeOK
  BY DEF IInv
<1> QED BY <1>1, Inductive, PTL

\* No byte is lost, duplicated or reordered between send and the socket.
THEOREM DeliveredInOrder == BodySpec => []InOrder
<1>1. IInv => InOrder
  BY DEF IInv
<1> QED BY <1>1, Inductive, PTL

\* A chunked or collected body that the peer takes for complete was finished by
\* its producer and has arrived to the last byte.
THEOREM CompleteBodies == BodySpec => []CompleteMeansAll
<1>1. IInv => CompleteMeansAll
  BY DEF IInv, Promise, BodyTypeOK, CompleteMeansAll, PeerBelievesComplete
<1> QED BY <1>1, Inductive, PTL

\* However many producers share the sender, the buffer overshoots by less than
\* one piece.
THEOREM BoundedBuffer == BodySpec => []Backpressure
<1>1. BodyInit => Backpressure
  BY BodyAssumption DEF BodyInit, Backpressure
<1>2. IInv /\ Backpressure /\ [BodyNext]_bodyVars => Backpressure'
  <2> SUFFICES ASSUME IInv, Backpressure, [BodyNext]_bodyVars PROVE Backpressure'
    OBVIOUS
  <2> USE DEF Backpressure, channel, producer, socket
  <2>0. queued \in Nat /\ queue \in Seq(Chunk) /\ Orderly(queue)
    BY DEF IInv, BodyTypeOK, QueueShape
  <2>1. ASSUME NEW p \in Producers, Push(p) PROVE Backpressure'
    BY <2>0, <2>1, BodyAssumption DEF Push, Full, IInv, BodyTypeOK
  <2>2. CASE PollData
    <3>1. PICK k \in 1..Len(queue) : queued' = queued - Bytes(SubSeq(queue, 1, k))
      BY <2>2 DEF PollData, Freed
    <3>2. Bytes(SubSeq(queue, 1, k)) \in Nat
      BY <2>0, TakeChunks
    <3> QED BY <2>0, <3>1, <3>2, BodyAssumption
  <2>3. CASE Collect
    <3>1. Bytes(queue) \in Nat /\ queued' = queued - Bytes(queue)
      BY <2>0, <2>3, BytesOfQueue DEF Collect
    <3> QED BY <2>0, <3>1, BodyAssumption
  <2>4. CASE DropRx
    BY <2>4, BodyAssumption DEF DropRx
  <2>5. CASE UNCHANGED queued
    BY <2>5
  <2> QED
    BY <2>1, <2>2, <2>3, <2>4, <2>5
    DEF BodyNext, ProducerStep, Send, Connection, CallSend, Block, BrokenPipe, End, NotifyAll,
        CallWaker, SpuriousWakeup, SetWaker, OmitBody, StartCollect, PollNotify, WriteOut,
        WriteFails, PollPending, PollEnd, Awake, WaitTimeout, ProbeIdle, ProbeClosed,
        DropNotify, Farewell, BodyTerminated, bodyVars
<1> QED BY <1>1, <1>2, Inductive, PTL DEF BodySpec

\* Nobody waits on the condition variable for what is already there, unless the
\* notify_all that will tell him is on its way.
THEOREM Unstranded == BodySpec => []NobodyStranded
<1>1. BodyInit => NobodyStranded
  BY DEF BodyInit, NobodyStranded
<1>2. IInv /\ NobodyStranded /\ [BodyNext]_bodyVars => NobodyStranded'
  <2> SUFFICES ASSUME IInv, NobodyStranded, [BodyNext]_bodyVars PROVE NobodyStranded'
    OBVIOUS
  <2> USE DEF NobodyStranded, channel, producer, socket
  <2>0. /\ pc \in [Producers -> {"idle", "send", "notify", "waking"}]
        /\ parked \subseteq Producers \cup {Rx} /\ Rx \notin Producers
        /\ queued \in Nat /\ arg \in [Producers -> Nat] /\ STREAM_BUFFER \in Nat
    BY BodyAssumption DEF IInv, BodyTypeOK
  <2>1. ASSUME NEW p \in Producers, CallSend(p) \/ End(p) \/ ProducerStep(p)
        PROVE  NobodyStranded'
    <3>1. CASE CallSend(p)
      BY <2>0, <3>1 DEF CallSend
    <3>2. CASE Block(p)
      BY <2>0, <3>2 DEF Block, Full
    <3>3. CASE Push(p)
      BY <2>0, <3>3 DEF Push
    <3>4. CASE BrokenPipe(p)
      BY <2>0, <3>4 DEF BrokenPipe
    <3>5. CASE End(p)
      BY <2>0, <3>5 DEF End
    <3>6. CASE NotifyAll(p)
      BY <3>6 DEF NotifyAll
    <3>7. CASE CallWaker(p)
      BY <2>0, <3>7 DEF CallWaker
    <3> QED BY <2>1, <3>1, <3>2, <3>3, <3>4, <3>5, <3>6, <3>7 DEF ProducerStep, Send
  <2>2. CASE \E t \in Producers \cup {Rx} : SpuriousWakeup(t)
    BY <2>2 DEF SpuriousWakeup
  <2>3. CASE PollData \/ DropRx
    BY <2>3 DEF PollData, DropRx
  <2>4. CASE PollNotify \/ DropNotify
    BY <2>4 DEF PollNotify, DropNotify
  <2>5. CASE Collect
    BY <2>0, <2>5 DEF Collect, IsEnded
  <2>6. CASE Connection /\ UNCHANGED <<queue, queued, end, rxGone, parked, pc>>
                        /\ rt \notin {"polled", "dropped"}
    BY <2>6
  <2>7. CASE BodyTerminated \/ UNCHANGED bodyVars
    BY <2>7 DEF BodyTerminated, bodyVars
  <2> QED
    BY <2>1, <2>2, <2>3, <2>4, <2>5, <2>6, <2>7
    DEF BodyNext, Connection, SetWaker, OmitBody, StartCollect, WriteOut, WriteFails, PollPending,
        PollEnd, Awake, WaitTimeout, ProbeIdle, ProbeClosed, Farewell
<1> QED BY <1>1, <1>2, Inductive, PTL DEF BodySpec

\* The connection thread does not sleep through bytes or the end of a body: its
\* flag is set, or a producer holds the waker and is about to set it.
THEOREM WakesUp == BodySpec => []NoLostWakeup
<1>1. BodyInit => NoLostWakeup
  BY DEF BodyInit, NoLostWakeup
<1>2. IInv /\ NoLostWakeup /\ [BodyNext]_bodyVars => NoLostWakeup'
  <2> SUFFICES ASSUME IInv, NoLostWakeup, [BodyNext]_bodyVars PROVE NoLostWakeup'
    OBVIOUS
  <2> USE DEF NoLostWakeup, channel, producer, socket
  <2>0. /\ pc \in [Producers -> {"idle", "send", "notify", "waking"}]
        /\ hold \in [Producers -> BOOLEAN]
        /\ rt = "sleep" => waker = TRUE
    BY DEF IInv, BodyTypeOK, Phases
  <2>1. ASSUME NEW p \in Producers, CallSend(p) \/ End(p) \/ ProducerStep(p)
        PROVE  NoLostWakeup'
    <3>1. CASE CallSend(p)
      BY <2>0, <3>1 DEF CallSend
    <3>2. CASE Block(p)
      BY <2>0, <3>2 DEF Block
    <3>3. CASE Push(p)
      BY <2>0, <3>3 DEF Push
    <3>4. CASE BrokenPipe(p)
      BY <2>0, <3>4 DEF BrokenPipe
    <3>5. CASE End(p)
      BY <2>0, <3>5 DEF End
    <3>6. CASE NotifyAll(p)
      BY <2>0, <3>6 DEF NotifyAll
    <3>7. CASE CallWaker(p)
      BY <3>7 DEF CallWaker
    <3> QED BY <2>1, <3>1, <3>2, <3>3, <3>4, <3>5, <3>6, <3>7 DEF ProducerStep, Send
  <2>2. CASE \E t \in Producers \cup {Rx} : SpuriousWakeup(t)
    BY <2>2 DEF SpuriousWakeup
  <2>3. CASE PollPending
    BY <2>3 DEF PollPending, IsEnded
  <2>4. CASE Connection /\ rt' # "sleep"
    BY <2>4
  <2>5. CASE BodyTerminated \/ UNCHANGED bodyVars
    BY <2>5 DEF BodyTerminated, bodyVars
  <2> QED
    BY <2>1, <2>2, <2>3, <2>4, <2>5
    DEF BodyNext, Connection, SetWaker, OmitBody, StartCollect, PollData, PollNotify, WriteOut,
        WriteFails, PollEnd, Awake, WaitTimeout, ProbeIdle, ProbeClosed, Collect, DropRx,
        DropNotify, Farewell
<1> QED BY <1>1, <1>2, Inductive, PTL DEF BodySpec

\* Chunked and collected bodies implement the byte stream: every step of the
\* channel, the waker and the connection is one step of it or none.
THEOREM Refinement == BodySpec => ImplementsByteStream
<1>1. BodyInit => Abstract!Init
  BY DEF BodyInit, Abstract!Init, PeerBelievesComplete
<1>2. IInv /\ framing # "close" /\ [BodyNext]_bodyVars => [Abstract!Next]_Abstract!vars
  <2> SUFFICES ASSUME IInv, framing # "close", [BodyNext]_bodyVars
               PROVE  [Abstract!Next]_Abstract!vars
    OBVIOUS
  <2> USE DEF channel, producer, socket
  <2>0. /\ BodyTypeOK /\ InOrder /\ Phases /\ Senders /\ Promise
        /\ queue \in Seq(Chunk) /\ Orderly(queue)
    BY DEF IInv, BodyTypeOK, QueueShape
  <2>1. ASSUME NEW p \in Producers, Push(p) PROVE Abstract!Write
    <3>1. /\ accepted \in Nat /\ arg[p] \in Nat /\ arg[p] > 0 /\ end = "open"
      BY <2>0, <2>1, BodyAssumption DEF Push, Senders, BodyTypeOK
    <3> QED BY <2>1, <3>1 DEF Push, Abstract!Write, PeerBelievesComplete
  <2>2. ASSUME NEW p \in Producers, End(p)
        PROVE  Abstract!Finish \/ UNCHANGED Abstract!vars
    BY <2>2 DEF End, Abstract!Finish, Abstract!vars, PeerBelievesComplete
  <2>3. CASE WriteOut
    <3>1. /\ batch.len \in Nat /\ batch.len > 0 /\ arrived \in Nat /\ queued \in Nat
          /\ accepted = arrived + batch.len + queued /\ client = "open"
      BY <2>0, <2>3 DEF WriteOut, Phases, InOrder, BodyTypeOK, Chunk
    <3>2. Abstract!Deliver
      BY <2>3, <3>1 DEF WriteOut, Abstract!Deliver, PeerBelievesComplete
    <3> QED BY <3>2 DEF Abstract!Next
  <2>4. CASE WriteFails
    <3>1. /\ batch.len \in Nat /\ arrived \in Nat /\ queued \in Nat
          /\ accepted = arrived + batch.len + queued /\ client = "open"
      BY <2>0, <2>4 DEF WriteFails, Phases, InOrder, BodyTypeOK, Chunk
    <3>2. Abstract!Deliver \/ UNCHANGED Abstract!vars
      BY <2>4, <3>1 DEF WriteFails, Abstract!Deliver, Abstract!vars, PeerBelievesComplete
    <3> QED BY <3>2 DEF Abstract!Next
  <2>5. CASE Collect
    <3>1. /\ Bytes(queue) \in Nat /\ arrived \in Nat /\ queued = Bytes(queue)
          /\ accepted = arrived + queued /\ client = "open"
      BY <2>0, <2>5, BytesOfQueue DEF Collect, Phases, InOrder, BodyTypeOK, NoBytes
    <3>2. Abstract!Deliver \/ UNCHANGED Abstract!vars
      BY <2>5, <3>1 DEF Collect, Abstract!Deliver, Abstract!vars, PeerBelievesComplete
    <3> QED BY <3>2 DEF Abstract!Next
  <2>6. CASE Farewell
    <3>1. /\ client = "open" /\ tail \in {"none", "terminator", "close", "lost"}
          /\ tail = "terminator" => end = "finished" /\ arrived = accepted
      BY <2>0, <2>6 DEF Farewell, Phases, Promise, BodyTypeOK
    <3>2. \/ client' = "open"
          \/ client' \in {"closed", "lost"}
          \/ client' = "terminated" /\ tail = "terminator"
      BY <2>6, <3>1 DEF Farewell
    <3>3. UNCHANGED <<accepted, end, arrived, framing>>
      BY <2>6 DEF Farewell
    <3>4. Abstract!Complete \/ Abstract!Cut \/ UNCHANGED Abstract!vars
      BY <3>1, <3>2, <3>3
      DEF Abstract!Complete, Abstract!Cut, Abstract!vars, PeerBelievesComplete
    <3> QED BY <3>4 DEF Abstract!Next
  <2>7. CASE UNCHANGED <<accepted, end, arrived, framing, client>>
    BY <2>7 DEF Abstract!vars, PeerBelievesComplete
  <2> QED
    BY <2>1, <2>2, <2>3, <2>4, <2>5, <2>6, <2>7
    DEF Abstract!Next, BodyNext, ProducerStep, Send, Connection, CallSend, Block, BrokenPipe,
        NotifyAll, CallWaker, SpuriousWakeup, SetWaker, OmitBody, StartCollect, PollData,
        PollNotify, PollPending, PollEnd, Awake, WaitTimeout, ProbeIdle, ProbeClosed, DropRx,
        DropNotify, BodyTerminated, bodyVars
<1>3. BodyInit => (framing # "close" => Abstract!Init)
  BY <1>1
<1>4. IInv /\ [BodyNext]_bodyVars => [framing # "close" => Abstract!Next]_Abstract!vars
  BY <1>2
<1> QED
  BY <1>3, <1>4, Inductive, PTL DEF BodySpec, ImplementsByteStream

----------------------------------------------------------------------------
(* Static files: the inductive invariant.                                   *)

Byte == [of : Nat, at : Nat]

Heads == [status : Nat, etag : (Nat \X Nat) \cup {None}, since : Nat \cup {None}, total : Nat,
          start : Nat, length : Nat]

Copies == [etag : (Nat \X Nat) \cup {None}, since : Nat \cup {None}, total : Nat, bytes : Seq(Byte)]

Places == {"idle", "metadata", "open beneath", "fstat", "metadata again", "within root", "open",
           "respond", "send", "done"}

Types ==
    /\ versions \in Seq([len : Nat, mtime : Nat]) /\ Len(versions) \in Nat \ {0}
    /\ inode \in Seq(1..Len(versions))
    /\ name \in (1..Len(inode)) \cup {None}
    /\ rewritten \in BOOLEAN /\ confined \in BOOLEAN /\ cut \in BOOLEAN
    /\ at \in Places
    /\ at # "idle" => req \in Requests
    /\ meta \in (1..Len(versions)) \cup {None}
    /\ file \in (1..Len(inode)) \cup {None}
    /\ at \in {"within root", "open", "respond", "send"} => meta # None
    /\ at \in {"fstat", "respond", "send"} => file # None
    /\ at \in {"send", "done"} => resp \in Heads
    /\ got \in Seq(Byte) /\ copy \in Copies

\* openat2 is used and no inode is written to: what an inode holds, it always held.
Steady == confined /\ ~rewritten

\* The last change of the file is what its name leads to.
Newest == name # None => inode[name] = Len(versions)

\* Of the bytes the client keeps, none is newer than what it is about to be sent.
UpTo(bytes, v) == \A k \in DOMAIN bytes : bytes[k].of <= v

NoneNewer ==
    /\ UpTo(copy.bytes, Len(versions))
    /\ meta # None => UpTo(copy.bytes, meta)
    /\ file # None => UpTo(copy.bytes, inode[file])
    /\ meta # None /\ file # None => meta <= inode[file]

\* Metadata and file are there from the step that gets them on.
Fetched ==
    /\ at \in {"idle", "metadata", "open beneath", "fstat", "metadata again"} => meta = None
    /\ at \in {"idle", "metadata", "open beneath", "metadata again", "within root", "open"} => file = None

\* Behind openat2 the metadata are those of the open file.
Confinement ==
    /\ at \in {"open beneath", "fstat"} => confined
    /\ at \in {"metadata again", "within root", "open"} => ~confined
    /\ Steady /\ meta # None => file # None /\ meta = inode[file]

\* Bytes that were read from offset start on, of version v or of a later one.
Reads(bytes, start, v) ==
    /\ \A k \in DOMAIN bytes : bytes[k].at = start + k - 1 /\ v <= bytes[k].of
    /\ Steady => \A k \in DOMAIN bytes : bytes[k].of = v

Tags(head, v) ==
    head.etag = ETag(v) /\ head.since = versions[v].mtime /\ head.total = versions[v].len

\* The response under way.
Sending ==
    /\ at \notin {"send", "done"} => got = <<>> /\ ~cut
    /\ at = "send" => resp.status \in {200, 206} /\ ~cut
    /\ at \in {"send", "done"} /\ resp.status \in {200, 206} =>
          /\ meta # None /\ file # None /\ Tags(resp, meta)
          /\ Reads(got, resp.start, meta) /\ UpTo(got, Len(versions)) /\ Len(got) <= resp.length
          /\ resp.status = 200 => resp.start = 0
          /\ at = "done" /\ ~cut /\ req.method = "GET" => Len(got) = resp.length
    /\ at = "done" /\ resp.status = 304 => meta # None /\ ConditionalHit

\* A whole copy, and only it, is revalidated.
Keeping ==
    /\ Distinct /\ copy # NoCopy => \E v \in DOMAIN versions : Tags(copy, v) /\ Reads(copy.bytes, 0, v)
    /\ at # "idle" /\ req.match \in {"etag", "since"} => Whole

\* The range, by the head alone.
Ranged ==
    at \in {"send", "done"} /\ resp.status \in {200, 206, 416} /\ req.range.form \in {"suffix", "from", "between"} =>
        LET wanted == Wanted(req.range, resp.total)
        IN  IF wanted = {} THEN resp.status = 416
            ELSE resp.status = 206 /\ resp.start..(resp.start + resp.length - 1) = wanted

FInv == Types /\ Newest /\ NoneNewer /\ Fetched /\ Confinement /\ Sending /\ Keeping /\ Ranged

-----------------------------------------------------------------------------
(***************************************************************************)
(* The operators of the model.                                             *)
(***************************************************************************)
LEMMA MinTwo ==
    ASSUME NEW a \in Int, NEW b \in Int
    PROVE  Min({a, b}) = IF a <= b THEN a ELSE b
<1> DEFINE m == IF a <= b THEN a ELSE b
<1>1. m \in {a, b} /\ \A y \in {a, b} : m <= y
  OBVIOUS
<1>2. ASSUME NEW x \in {a, b}, \A y \in {a, b} : x <= y PROVE x = m
  BY <1>2
<1> QED BY <1>1, <1>2 DEF Min

\* The ranges R are the one from a to b, if that is one.
IsRange(R, a, b) == \A e : e \in R <=> e = <<a, b>> /\ a <= b

\* The ranges R of a file of that length are none or W.
AreRange(R, W, total) ==
    /\ R = {} => W = {}
    /\ \A e \in R : e[1] \in Nat /\ e[2] \in Nat /\ e[1] <= e[2] /\ e[2] < total /\ e[1]..e[2] = W

LEMMA OneRange ==
    ASSUME NEW R, NEW total \in Nat, NEW a \in Nat, NEW b \in Int, b < total, IsRange(R, a, b)
    PROVE  AreRange(R, a..b, total)
<1>1. R = {} => ~(a <= b)
  BY DEF IsRange
<1>2. ~(a <= b) => a..b = {}
  OBVIOUS
<1>3. ASSUME NEW e \in R
      PROVE  e[1] \in Nat /\ e[2] \in Nat /\ e[1] <= e[2] /\ e[2] < total /\ e[1]..e[2] = a..b
  <2>1. e = <<a, b>> /\ a <= b
    BY DEF IsRange
  <2>2. e[1] = a /\ e[2] = b
    BY <2>1
  <2> QED BY <2>1, <2>2
<1> QED BY <1>1, <1>2, <1>3 DEF AreRange

\* parse_single_range finds the range there is, and the range is what was asked for.
LEMMA RangeFound ==
    ASSUME NEW r \in Requests, NEW total \in Nat, r.range.form \in {"suffix", "from", "between"}
    PROVE  AreRange(SingleRange(r.range, total), Wanted(r.range, total), total)
<1> DEFINE q == r.range
           W == Wanted(q, total)
<1>1. CASE q.form = "suffix"
  <2>1. q.n \in Nat
    BY <1>1, FilesAssumption
  <2>2. Min({q.n, total}) = IF q.n <= total THEN q.n ELSE total
    BY <2>1, MinTwo
  <2> DEFINE a == total - Min({q.n, total})
  <2>3. a \in Nat /\ a <= total /\ (a = total => q.n = 0 \/ total = 0) /\ (a < total => q.n > 0)
        /\ \A k \in 0..total - 1 : k >= total - q.n <=> a <= k
    BY <2>1, <2>2
  <2>4. W = {k \in 0..total - 1 : k >= total - q.n}
    BY <1>1 DEF Wanted
  <2> HIDE DEF a
  <2>5. W = a..total - 1
    BY <2>3, <2>4
  <2>6. \A e : e \in SingleRange(q, total) <=>
                  e = <<a, total - 1>> /\ 1 \in 1..q.n /\ total # 0 /\ a <= total - 1 /\ a < total
    BY <1>1 DEF SingleRange, a
  <2>7. 1 \in 1..q.n /\ total # 0 /\ a <= total - 1 /\ a < total <=> a <= total - 1
    BY <2>1, <2>3
  <2>8. \A e : e \in SingleRange(q, total) <=> e = <<a, total - 1>> /\ a <= total - 1
    BY <2>6, <2>7
  <2>9. total - 1 \in Int /\ total - 1 < total
    OBVIOUS
  <2> DEFINE R == SingleRange(q, total)
             z == total - 1
  <2> HIDE DEF R, z
  <2>10. AreRange(R, a..z, total)
    <3>1. a \in Nat /\ z \in Int /\ z < total /\ IsRange(R, a, z)
      BY <2>3, <2>8, <2>9 DEF IsRange, R, z
    <3> QED BY <3>1, OneRange
  <2> QED BY <2>5, <2>10 DEF R, z
<1>2. CASE q.form = "from"
  <2>1. q.a \in Nat
    BY <1>2, FilesAssumption
  <2>2. W = {k \in 0..total - 1 : k >= q.a}
    BY <1>2 DEF Wanted
  <2>3. W = q.a..total - 1
    BY <2>1, <2>2
  <2>4. \A e : e \in SingleRange(q, total) <=>
                  e = <<q.a, total - 1>> /\ total # 0 /\ q.a <= total - 1 /\ q.a < total
    BY <1>2 DEF SingleRange
  <2>5. total # 0 /\ q.a <= total - 1 /\ q.a < total <=> q.a <= total - 1
    BY <2>1
  <2>6. \A e : e \in SingleRange(q, total) <=> e = <<q.a, total - 1>> /\ q.a <= total - 1
    BY <2>4, <2>5
  <2>7. total - 1 \in Int /\ total - 1 < total
    OBVIOUS
  <2> DEFINE R == SingleRange(q, total)
             z == total - 1
             a == q.a
  <2> HIDE DEF R, z, a
  <2>8. AreRange(R, a..z, total)
    <3>1. a \in Nat /\ z \in Int /\ z < total /\ IsRange(R, a, z)
      BY <2>1, <2>6, <2>7 DEF IsRange, R, z, a
    <3> QED BY <3>1, OneRange
  <2> QED BY <2>3, <2>8 DEF R, z, a
<1>3. CASE q.form = "between"
  <2>1. q.a \in Nat /\ q.b \in Nat
    BY <1>3, FilesAssumption
  <2>2. W = {k \in 0..total - 1 : q.a <= k /\ k <= q.b}
    BY <1>3 DEF Wanted
  <2> DEFINE b == LastByte(q.b, total)
  <2>3. b = IF q.b <= total - 1 THEN q.b ELSE total - 1
    BY <2>1, MinTwo DEF LastByte
  <2>4. b \in Int /\ b < total /\ (total # 0 => b \in Nat)
        /\ \A k \in 0..total - 1 : k <= q.b <=> k <= b
    BY <2>1, <2>3
  <2>5. \A e : e \in SingleRange(q, total) <=>
                  e = <<q.a, b>> /\ total # 0 /\ q.a <= b /\ q.a < total
    BY <1>3 DEF SingleRange
  <2> HIDE DEF b
  <2>6. W = q.a..b
    BY <2>1, <2>2, <2>4
  <2>7. total # 0 /\ q.a <= b /\ q.a < total <=> q.a <= b
    BY <2>1, <2>4
  <2>8. \A e : e \in SingleRange(q, total) <=> e = <<q.a, b>> /\ q.a <= b
    BY <2>5, <2>7
  <2> DEFINE R == SingleRange(q, total)
             a == q.a
  <2> HIDE DEF R, a
  <2>9. AreRange(R, a..b, total)
    <3>1. a \in Nat /\ b \in Int /\ b < total /\ IsRange(R, a, b)
      BY <2>1, <2>4, <2>8 DEF IsRange, R, a
    <3> QED BY <3>1, OneRange
  <2> QED BY <2>6, <2>9 DEF R, a
<1> QED BY <1>1, <1>2, <1>3

LEMMA VersionType ==
    ASSUME Types, NEW w \in 1..Len(versions)
    PROVE  versions[w].len \in Nat /\ versions[w].mtime \in Nat
<1>1. versions \in Seq([len : Nat, mtime : Nat])
  BY DEF Types
<1>2. versions[w] \in [len : Nat, mtime : Nat]
  BY <1>1, ElementOfSeq
<1> QED BY <1>2

\* What is read of version w of the file, once the response is at offset.
LEMMA PieceRead ==
    ASSUME Types, NEW w \in 1..Len(versions), NEW offset \in Nat, NEW want \in Nat
    PROVE  LET whole == Contents(w)
               piece == SubSeq(whole, offset + 1, Min({offset + want, Len(whole)}))
           IN  /\ piece \in Seq(Byte) /\ Len(piece) \in Nat /\ Len(piece) <= want
               /\ \A k \in 1..Len(piece) : piece[k] = [of |-> w, at |-> offset + k - 1]
<1> DEFINE whole == Contents(w)
           stop == Min({offset + want, Len(whole)})
           piece == SubSeq(whole, offset + 1, stop)
           n == versions[w].len
<1>1. n \in Nat
  BY VersionType
<1>2. whole = [k \in 1..n |-> [of |-> w, at |-> k - 1]]
  BY DEF Contents
<1> HIDE DEF whole, n
<1>3. whole \in Seq(Byte) /\ Len(whole) = n /\ \A k \in 1..n : whole[k] = [of |-> w, at |-> k - 1]
  <2>1. \A k \in 1..n : [of |-> w, at |-> k - 1] \in Byte
    BY DEF Byte
  <2> QED BY <1>1, <1>2, <2>1
<1>4. stop = IF offset + want <= n THEN offset + want ELSE n
  BY <1>1, <1>3, MinTwo
<1>5. stop \in Nat /\ stop <= n /\ stop <= offset + want
  BY <1>1, <1>4
<1> HIDE DEF stop
<1>6. \A i \in offset + 1..stop : whole[i] \in Byte
  BY <1>1, <1>3, <1>5
<1>7. /\ piece \in Seq(Byte)
      /\ Len(piece) = IF offset + 1 <= stop THEN stop - (offset + 1) + 1 ELSE 0
      /\ \A i \in 1..stop - (offset + 1) + 1 : piece[i] = whole[offset + 1 + i - 1]
  BY <1>5, <1>6, SubSeqProperties
<1> HIDE DEF piece
<1>8. Len(piece) \in Nat /\ Len(piece) <= want
  BY <1>5, <1>7
<1>9. ASSUME NEW k \in 1..Len(piece) PROVE piece[k] = [of |-> w, at |-> offset + k - 1]
  <2>1. k \in 1..stop - (offset + 1) + 1 /\ offset + 1 + k - 1 = offset + k /\ offset + k \in 1..n
    BY <1>1, <1>5, <1>7, <1>9
  <2> QED BY <1>3, <1>7, <2>1
<1> QED BY <1>7, <1>8, <1>9 DEF piece, stop, whole

-----------------------------------------------------------------------------
(***************************************************************************)
(* The file system, at any point of a request.                             *)
(***************************************************************************)
Versions == Seq([len : Nat, mtime : Nat])

\* A later content of the file never replaces an earlier one in the list, and an inode
\* holds another content only once it has been written to.
Moves ==
    /\ versions' \in Versions /\ Len(versions') \in Nat /\ Len(versions) <= Len(versions')
    /\ \A v \in 1..Len(versions) : versions'[v] = versions[v]
    /\ inode' \in Seq(1..Len(versions')) /\ Len(inode) <= Len(inode')
    /\ \A i \in 1..Len(inode) : inode[i] <= inode'[i] /\ (~rewritten' => inode'[i] = inode[i])
    /\ name' \in (1..Len(inode')) \cup {None} /\ Newest'
    /\ rewritten' \in BOOLEAN /\ (rewritten => rewritten')
    /\ UNCHANGED <<confined, at, req, meta, file, resp, got, cut, copy>>

LEMMA UpToLater ==
    ASSUME NEW bytes \in Seq(Byte), NEW v \in Int, NEW w \in Int, v <= w, UpTo(bytes, v)
    PROVE  UpTo(bytes, w)
<1>1. ASSUME NEW k \in DOMAIN bytes PROVE bytes[k].of \in Nat
  <2>1. bytes[k] \in Byte
    BY LenProperties, ElementOfSeq
  <2> QED BY <2>1 DEF Byte
<1> QED BY <1>1 DEF UpTo

LEMMA DiskTypes ==
    ASSUME Types
    PROVE  /\ versions \in Versions /\ Len(versions) \in Nat /\ Len(inode) \in Nat
           /\ inode \in Seq(1..Len(versions)) /\ name \in (1..Len(inode)) \cup {None}
           /\ meta \in (1..Len(versions)) \cup {None} /\ file \in (1..Len(inode)) \cup {None}
           /\ \A i \in 1..Len(inode) : inode[i] \in 1..Len(versions)
           /\ \A i \in Nat : i # None
<1>1. inode \in Seq(1..Len(versions)) /\ versions \in Versions
  BY DEF Types, Versions
<1>2. Len(inode) \in Nat /\ \A i \in 1..Len(inode) : inode[i] \in 1..Len(versions)
  BY <1>1, LenProperties, ElementOfSeq
<1> QED BY <1>1, <1>2, FilesAssumption DEF Types

LEMMA ChangesAppends ==
    ASSUME Types, NEW u, Changes(u)
    PROVE  /\ u = Len(versions) + 1 /\ versions' \in Versions /\ Len(versions') = Len(versions) + 1
           /\ \A v \in 1..Len(versions) : versions'[v] = versions[v]
           /\ UNCHANGED <<confined, at, req, meta, file, resp, got, cut, copy>>
<1>1. PICK len \in Lengths, second \in {0, 1} :
          versions' = Append(versions, [len |-> len, mtime |-> versions[Len(versions)].mtime + second])
  BY DEF Changes
<1>2. versions[Len(versions)].mtime \in Nat
  <2>1. Len(versions) \in Nat \ {0}
    BY DEF Types
  <2>2. Len(versions) \in 1..Len(versions)
    BY <2>1
  <2> QED BY <2>2, VersionType
<1> DEFINE new == [len |-> len, mtime |-> versions[Len(versions)].mtime + second]
<1>3. new \in [len : Nat, mtime : Nat]
  BY <1>2, FilesAssumption
<1> HIDE DEF new
<1>4. versions \in Seq([len : Nat, mtime : Nat])
  BY DEF Types
<1>5. /\ Append(versions, new) \in Seq([len : Nat, mtime : Nat])
      /\ Len(Append(versions, new)) = Len(versions) + 1
      /\ \A v \in 1..Len(versions) : Append(versions, new)[v] = versions[v]
  BY <1>3, <1>4, AppendProperties
<1>6. versions' = Append(versions, new)
  BY <1>1 DEF new
<1> QED BY <1>5, <1>6 DEF Changes, Versions

LEMMA FileMoves ==
    ASSUME Types, Newest, Replace \/ Rewrite \/ Remove
    PROVE  Moves
<1> DEFINE n == Len(versions)
<1>1. n \in Nat /\ Len(inode) \in Nat /\ inode \in Seq(1..n)
      /\ \A i \in 1..Len(inode) : inode[i] \in 1..n /\ inode[i] \in Int /\ inode[i] <= inode[i] /\ inode[i] <= n + 1
  BY DiskTypes
<1>2. CASE Replace
  <2>1. PICK u \in 2..MaxVersions : Changes(u) /\ inode' = Append(inode, u) /\ name' = Len(inode')
                                    /\ rewritten' = rewritten
    BY <1>2 DEF Replace
  <2>2. /\ u = n + 1 /\ versions' \in Versions /\ Len(versions') = n + 1
        /\ \A v \in 1..n : versions'[v] = versions[v]
        /\ UNCHANGED <<confined, at, req, meta, file, resp, got, cut, copy>>
    BY <2>1, ChangesAppends
  <2>3. inode \in Seq(1..n + 1) /\ u \in 1..n + 1
    <3>1. 1..n \subseteq 1..n + 1
      BY <1>1
    <3> QED BY <1>1, <2>2, <3>1, SeqMonotonic
  <2>4. /\ inode' \in Seq(1..n + 1) /\ Len(inode') = Len(inode) + 1
        /\ \A i \in 1..Len(inode) : inode'[i] = inode[i]
        /\ inode'[Len(inode) + 1] = u
    BY <2>1, <2>3, AppendProperties
  <2>5. name' \in 1..Len(inode') /\ inode'[name'] = Len(versions')
    BY <1>1, <2>1, <2>2, <2>4
  <2>6. rewritten' \in BOOLEAN /\ (rewritten => rewritten')
    BY <2>1 DEF Types
  <2>7. n <= Len(versions') /\ Len(inode) <= Len(inode') /\ \A i \in 1..Len(inode) : inode[i] <= inode'[i]
    BY <1>1, <2>2, <2>4
  <2> QED BY <1>1, <2>2, <2>4, <2>5, <2>6, <2>7 DEF Moves, Newest
<1>3. CASE Rewrite
  <2>1. PICK u \in 2..MaxVersions : name # None /\ Changes(u) /\ inode' = [inode EXCEPT ![name] = u]
                                    /\ rewritten' = TRUE /\ name' = name
    BY <1>3 DEF Rewrite
  <2>2. /\ u = n + 1 /\ versions' \in Versions /\ Len(versions') = n + 1
        /\ \A v \in 1..n : versions'[v] = versions[v]
        /\ UNCHANGED <<confined, at, req, meta, file, resp, got, cut, copy>>
    BY <2>1, ChangesAppends
  <2>3. inode \in Seq(1..n + 1) /\ u \in 1..n + 1
    <3>1. 1..n \subseteq 1..n + 1
      BY <1>1
    <3> QED BY <1>1, <2>2, <3>1, SeqMonotonic
  <2>4. name \in 1..Len(inode)
    BY <2>1, DiskTypes
  <2>5. /\ inode' \in Seq(1..n + 1) /\ Len(inode') = Len(inode)
        /\ \A i \in 1..Len(inode) : inode'[i] = IF i = name THEN u ELSE inode[i]
    BY <2>1, <2>3, <2>4, ExceptSeq
  <2>6. inode'[name'] = Len(versions')
    BY <2>1, <2>2, <2>4, <2>5
  <2>7. n <= Len(versions') /\ Len(inode) <= Len(inode')
    BY <1>1, <2>2, <2>5
  <2>8. ASSUME NEW i \in 1..Len(inode) PROVE inode[i] <= inode'[i]
    <3>1. CASE i = name
      BY <1>1, <2>2, <2>5, <3>1
    <3>2. CASE i # name
      BY <1>1, <2>5, <3>2
    <3> QED BY <3>1, <3>2
  <2>9. Newest'
    BY <2>2, <2>6 DEF Newest
  <2> QED BY <1>1, <2>1, <2>2, <2>4, <2>5, <2>7, <2>8, <2>9 DEF Moves
<1>4. CASE Remove
  <2>1. UNCHANGED <<versions, inode, rewritten, confined, at, req, meta, file, resp, got, cut, copy>>
        /\ name' = None
    BY <1>4 DEF Remove
  <2>2. rewritten \in BOOLEAN
    BY DEF Types
  <2> QED BY <1>1, <2>1, <2>2, DiskTypes DEF Moves, Newest
<1> QED BY <1>2, <1>3, <1>4

LEMMA MovesTypes == ASSUME Types, Moves PROVE Types'
<1>1. /\ Len(versions) \in Nat \ {0} /\ Len(versions') \in Nat /\ Len(versions) <= Len(versions')
      /\ Len(inode) \in Nat /\ Len(inode') \in Nat /\ Len(inode) <= Len(inode')
  BY DiskTypes, LenProperties DEF Types, Moves
<1>2. (1..Len(versions)) \subseteq 1..Len(versions') /\ (1..Len(inode)) \subseteq 1..Len(inode')
      /\ Len(versions') \in Nat \ {0}
  BY <1>1
<1> QED BY <1>2 DEF Types, Moves, Versions

LEMMA MovesKeep == ASSUME FInv, Moves PROVE FInv'
<1>1. Types /\ Types'
  BY MovesTypes DEF FInv
<1>2. UNCHANGED <<confined, at, req, meta, file, resp, got, cut, copy>>
  BY DEF Moves
<1>3. /\ Len(versions) \in Nat /\ Len(versions') \in Nat /\ Len(versions) <= Len(versions')
      /\ copy.bytes \in Seq(Byte) /\ got \in Seq(Byte)
  BY <1>1, DiskTypes DEF Moves, Types, Copies
<1>4. \A bytes \in Seq(Byte) : UpTo(bytes, Len(versions)) => UpTo(bytes, Len(versions'))
  BY <1>3, UpToLater
<1>5. meta # None => meta \in 1..Len(versions) /\ meta \in Int
  BY <1>1, DiskTypes
<1>6. ASSUME file # None
      PROVE  /\ file \in 1..Len(inode) /\ inode[file] \in Int /\ inode'[file] \in Int
             /\ inode[file] <= inode'[file] /\ (~rewritten' => inode'[file] = inode[file])
  <2>1. file \in 1..Len(inode) /\ file' \in 1..Len(inode')
    BY <1>1, <1>2, <1>6 DEF Types
  <2>2. inode[file] \in 1..Len(versions) /\ inode'[file'] \in 1..Len(versions')
    <3>1. inode' \in Seq(1..Len(versions'))
      BY DEF Moves
    <3> QED BY <1>1, <2>1, <3>1, DiskTypes, ElementOfSeq
  <2> QED BY <1>2, <1>3, <2>1, <2>2 DEF Moves
<1>7. Steady' => Steady
  <2>1. (rewritten => rewritten') /\ confined' = confined
    BY <1>2 DEF Moves
  <2> QED BY <2>1 DEF Steady
<1>8. \A v \in 1..Len(versions) : ETag(v)' = ETag(v) /\ versions'[v] = versions[v]
  BY DEF Moves, ETag
<1>9. \A bytes, start, v : Reads(bytes, start, v) => (Steady' => Steady) /\
        (\A k \in DOMAIN bytes : bytes[k].at = start + k - 1 /\ v <= bytes[k].of)
        /\ (Steady' => \A k \in DOMAIN bytes : bytes[k].of = v)
  BY <1>7 DEF Reads
<1>10. NoneNewer'
  <2>1. UpTo(copy.bytes, Len(versions')) /\ (meta # None => UpTo(copy.bytes, meta))
    BY <1>3, <1>4 DEF FInv, NoneNewer
  <2>2. ASSUME file # None PROVE UpTo(copy.bytes, inode'[file])
    BY <1>3, <1>6, <2>2, UpToLater DEF FInv, NoneNewer
  <2>3. ASSUME meta # None, file # None PROVE meta <= inode'[file]
    BY <1>5, <1>6, <2>3 DEF FInv, NoneNewer
  <2> QED BY <1>2, <2>1, <2>2, <2>3 DEF NoneNewer, UpTo
<1>11. Confinement'
  BY <1>2, <1>6, <1>7 DEF FInv, Confinement, Steady
<1>15. Fetched'
  BY <1>2 DEF FInv, Fetched
<1>12. Sending'
  <2>1. ASSUME at \in {"send", "done"}, resp.status \in {200, 206}
        PROVE  /\ Tags(resp, meta)' /\ Reads(got, resp.start, meta)' /\ UpTo(got, Len(versions))'
    <3>1. meta # None /\ Tags(resp, meta) /\ Reads(got, resp.start, meta) /\ UpTo(got, Len(versions))
      BY <2>1 DEF FInv, Sending
    <3>2. Tags(resp, meta)'
      BY <1>2, <1>5, <1>8, <3>1 DEF Tags
    <3>3. Reads(got, resp.start, meta)'
      BY <1>2, <1>7, <3>1 DEF Reads
    <3>4. UpTo(got, Len(versions))'
      BY <1>2, <1>3, <1>4, <3>1 DEF UpTo
    <3> QED BY <3>2, <3>3, <3>4
  <2>2. ASSUME at = "done", resp.status = 304 PROVE ConditionalHit'
    <3>1. meta \in 1..Len(versions) /\ ConditionalHit
      BY <1>5, <2>2 DEF FInv, Sending
    <3> QED BY <1>2, <1>8, <3>1 DEF ConditionalHit
  <2> QED BY <1>2, <2>1, <2>2 DEF FInv, Sending
<1>13. Keeping'
  <2>1. DOMAIN versions = 1..Len(versions) /\ DOMAIN versions' = 1..Len(versions')
    BY <1>1, DiskTypes, LenProperties DEF Moves, Versions
  <2>2. Distinct' => Distinct
    <3>1. \A v \in DOMAIN versions : v \in DOMAIN versions' /\ versions'[v] = versions[v]
      BY <1>3, <1>8, <2>1
    <3> QED BY <3>1 DEF Distinct
  <2>3. ASSUME Distinct', copy # NoCopy
        PROVE  \E v \in DOMAIN versions' : Tags(copy, v)' /\ Reads(copy.bytes, 0, v)'
    <3>1. PICK v \in DOMAIN versions : Tags(copy, v) /\ Reads(copy.bytes, 0, v)
      BY <2>2, <2>3 DEF FInv, Keeping
    <3>2. v \in DOMAIN versions' /\ Tags(copy, v)'
      BY <1>2, <1>3, <1>8, <2>1, <3>1 DEF Tags
    <3>3. Reads(copy.bytes, 0, v)'
      BY <1>2, <1>7, <3>1 DEF Reads
    <3> QED BY <3>2, <3>3
  <2>4. Whole' = Whole
    BY <1>2 DEF Whole, NoCopy
  <2> QED BY <1>2, <2>3, <2>4 DEF FInv, Keeping, NoCopy
<1>14. Ranged'
  <2>1. Ranged
    BY DEF FInv
  <2>2. at' = at /\ resp' = resp /\ req' = req
    BY <1>2
  <2> QED BY <2>1, <2>2 DEF Ranged
<1> QED BY <1>1, <1>10, <1>11, <1>12, <1>13, <1>14, <1>15 DEF FInv, Moves

-----------------------------------------------------------------------------
(***************************************************************************)
(* serve, up to the response.                                              *)
(***************************************************************************)
\* A step of serve before it has a response, or that refuses the request.
Walks ==
    /\ UNCHANGED <<disk, confined, got, cut, copy>>
    /\ at \notin {"send", "done"} /\ at' \in Places \ {"idle", "send"}
    /\ at' = "done" => \E status \in {301, 404, 405, 500} : resp' = Answer(status)
    /\ req' \in Requests /\ (req'.match \in {"etag", "since"} => Whole)

LEMMA WalksTypes ==
    ASSUME Types, Walks,
           meta' \in (1..Len(versions)) \cup {None}, file' \in (1..Len(inode)) \cup {None},
           at' \in {"within root", "open", "respond"} => meta' # None,
           at' \in {"fstat", "respond"} => file' # None
    PROVE  Types'
<1>1. /\ versions' = versions /\ inode' = inode /\ name' = name /\ rewritten' = rewritten
      /\ confined' = confined /\ got' = got /\ cut' = cut /\ copy' = copy
  BY DEF Walks, disk
<1>2. at' \in Places /\ at' \notin {"idle", "send"} /\ req' \in Requests
  BY DEF Walks
<1>3. at' = "done" => resp' \in Heads
  BY DEF Walks, Answer, Heads
<1> QED BY <1>1, <1>2, <1>3 DEF Types

LEMMA WalksKeep ==
    ASSUME FInv, Walks, Types', Fetched', NoneNewer', Confinement'
    PROVE  FInv'
<1>1. /\ versions' = versions /\ inode' = inode /\ name' = name /\ rewritten' = rewritten
      /\ confined' = confined /\ got' = got /\ cut' = cut /\ copy' = copy
  BY DEF Walks, disk
<1>2. Newest'
  BY <1>1 DEF FInv, Newest
<1>3. at \notin {"send", "done"} /\ at' \notin {"send", "idle"} /\ got = <<>> /\ ~cut
  BY DEF Walks, FInv, Sending
<1>4. at' = "done" => resp'.status \in {301, 404, 405, 500}
  BY DEF Walks, Answer
<1>5. Sending'
  BY <1>1, <1>3, <1>4 DEF Sending
<1>6. Keeping'
  <2>1. (Distinct <=> Distinct') /\ Whole' = Whole
    BY <1>1 DEF Distinct, Whole, NoCopy
  <2>2. \A v : (Tags(copy, v) => Tags(copy, v)') /\ (Reads(copy.bytes, 0, v) => Reads(copy.bytes, 0, v)')
    BY <1>1 DEF Tags, ETag, Reads, Steady
  <2>3. Distinct' /\ copy' # NoCopy' =>
            \E v \in DOMAIN versions' : Tags(copy, v)' /\ Reads(copy.bytes, 0, v)'
    BY <1>1, <2>1, <2>2 DEF FInv, Keeping, NoCopy
  <2> QED BY <2>1, <2>3 DEF Keeping, Walks
<1>7. Ranged'
  BY <1>3, <1>4 DEF Ranged
<1> QED BY <1>2, <1>5, <1>6, <1>7 DEF FInv

LEMMA AsksKeeps == ASSUME FInv, NEW r \in Requests, Asks(r) PROVE FInv'
<1>1. at = "idle" /\ req' = r /\ at' \in {"done", "metadata"} /\ (r.match \in {"etag", "since"} => Whole)
      /\ UNCHANGED <<disk, confined, meta, file, got, cut, copy>>
      /\ (at' = "done" => \E status \in {301, 404, 405, 500} : resp' = Answer(status))
  <2>1. \/ at' = "done" /\ \E status \in {301, 404, 405, 500} : resp' = Answer(status)
        \/ at' = "metadata"
    BY DEF Asks
  <2> QED BY <2>1 DEF Asks
<1>2. Walks
  <2>1. at \notin {"send", "done"} /\ at' \in Places \ {"idle", "send"}
    BY <1>1 DEF Places
  <2>2. req' \in Requests /\ (req'.match \in {"etag", "since"} => Whole)
    BY <1>1
  <2> QED BY <1>1, <2>1, <2>2 DEF Walks
<1>3. meta = None /\ file = None /\ meta' = None /\ file' = None
  BY <1>1 DEF FInv, Fetched
<1>4. Types'
  BY <1>1, <1>2, <1>3, WalksTypes DEF FInv
<1>5. Fetched'
  BY <1>3 DEF Fetched
<1>6. NoneNewer' /\ Confinement'
  BY <1>1, <1>3 DEF FInv, NoneNewer, UpTo, Confinement, disk
<1> QED BY <1>2, <1>4, <1>5, <1>6, WalksKeep

\* serve is between the check of the method and the response.
InServe == at \in Places \ {"idle", "send", "done"}

LEMMA ServeWalks ==
    ASSUME FInv, InServe, Kept, at' \in Places \ {"idle", "send"},
           at' = "done" => \E status \in {301, 404, 405, 500} : resp' = Answer(status)
    PROVE  Walks
<1>1. UNCHANGED <<disk, confined, req, got, cut, copy>>
  BY DEF Kept
<1>2. req \in Requests /\ (req.match \in {"etag", "since"} => Whole)
  BY DEF FInv, Types, Keeping, InServe
<1> QED BY <1>1, <1>2 DEF Walks, InServe

LEMMA RefusesKeeps ==
    ASSUME FInv, InServe, NEW status \in {301, 404, 500}, Refuses(status) PROVE FInv'
<1>1. at' = "done" /\ resp' = Answer(status) /\ meta' = meta /\ file' = file /\ Kept
  BY DEF Refuses
<1>2. Walks
  BY <1>1, ServeWalks DEF Places
<1>3. versions' = versions /\ inode' = inode /\ copy' = copy /\ confined' = confined /\ rewritten' = rewritten
  BY <1>1 DEF Kept, disk
<1>4. Types'
  BY <1>1, <1>2, WalksTypes DEF FInv, Types
<1>5. Fetched'
  BY <1>1 DEF Fetched
<1>6. NoneNewer'
  BY <1>1, <1>3 DEF FInv, NoneNewer, UpTo
<1>7. Confinement'
  BY <1>1, <1>3 DEF FInv, Confinement, Steady
<1> QED BY <1>2, <1>4, <1>5, <1>6, <1>7, WalksKeep

Later == {"open beneath", "fstat", "metadata again", "within root", "open", "respond"}

\* A step of serve that goes on, with the metadata and the file it then has.
LEMMA GoesKeeps ==
    ASSUME FInv, InServe, NEW place \in Later, Goes(place),
           meta' \in (1..Len(versions)) \cup {None}, file' \in (1..Len(inode)) \cup {None},
           place \in {"within root", "open", "respond"} => meta' # None,
           place \in {"fstat", "respond"} => file' # None,
           place \in {"open beneath", "fstat", "metadata again"} => meta' = None,
           place \in {"open beneath", "metadata again", "within root", "open"} => file' = None,
           place \in {"open beneath", "fstat"} => confined,
           place \in {"metadata again", "within root", "open"} => ~confined,
           meta' # None => UpTo(copy.bytes, meta'),
           file' # None => UpTo(copy.bytes, inode[file']),
           meta' # None /\ file' # None => meta' <= inode[file'],
           Steady /\ meta' # None => file' # None /\ meta' = inode[file']
    PROVE  FInv'
<1>1. at' = place /\ Kept
  BY DEF Goes
<1>2. versions' = versions /\ inode' = inode /\ copy' = copy /\ confined' = confined /\ rewritten' = rewritten
  BY <1>1 DEF Kept, disk
<1>3. Walks
  <2>1. at' \in Places \ {"idle", "send"} /\ at' # "done"
    BY <1>1 DEF Places, Later
  <2> QED BY <1>1, <2>1, ServeWalks
<1>4. Types'
  BY <1>1, <1>3, WalksTypes DEF FInv
<1>5. Fetched'
  BY <1>1 DEF Fetched, Later
<1>6. NoneNewer'
  BY <1>2 DEF FInv, NoneNewer, UpTo
<1>7. Confinement'
  BY <1>1, <1>2 DEF Confinement, Steady, Later
<1> QED BY <1>3, <1>4, <1>5, <1>6, <1>7, WalksKeep

LEMMA PathKeeps ==
    ASSUME FInv, Metadata \/ OpenBeneath \/ Fstat \/ MetadataAgain \/ WithinRoot \/ OpenByName
    PROVE  FInv'
<1>1. /\ InServe
      /\ at \in {"metadata", "open beneath", "fstat", "metadata again"} => meta = None
      /\ at \in {"metadata", "open beneath", "metadata again", "within root", "open"} => file = None
      /\ at \in {"open beneath", "fstat"} => confined
      /\ at \in {"metadata again", "within root", "open"} => ~confined
      /\ at \in {"within root", "open"} => meta # None
      /\ at = "fstat" => file # None
  BY DEF FInv, Types, Fetched, Confinement, InServe, Places, Metadata, OpenBeneath, Fstat, MetadataAgain,
         WithinRoot, OpenByName
<1>2. /\ meta \in (1..Len(versions)) \cup {None} /\ file \in (1..Len(inode)) \cup {None}
      /\ name \in (1..Len(inode)) \cup {None} /\ Len(versions) \in Nat
      /\ \A i \in 1..Len(inode) : inode[i] \in 1..Len(versions)
  BY DiskTypes DEF FInv
<1>3. /\ name # None => inode[name] = Len(versions)
      /\ UpTo(copy.bytes, Len(versions))
      /\ meta # None => UpTo(copy.bytes, meta)
      /\ file # None => UpTo(copy.bytes, inode[file])
  BY DEF FInv, Newest, NoneNewer
<1>4. \A v \in 1..Len(versions) : v # None /\ v <= v /\ v <= Len(versions)
  BY <1>2, FilesAssumption
<1>5. CASE \E status \in {301, 404, 500} : Refuses(status)
  BY <1>1, <1>5, RefusesKeeps
<1>6. CASE ~\E status \in {301, 404, 500} : Refuses(status)
  <2>1. ~Refuses(301) /\ ~Refuses(404) /\ ~Refuses(500)
    BY <1>6
  <2>2. CASE Metadata
    <3>1. at = "metadata" /\ meta' = meta /\ file' = file
          /\ \E place \in {"open beneath", "metadata again"} :
                Goes(place) /\ (place = "open beneath" <=> confined)
      <4>1. confined \in BOOLEAN
        BY DEF FInv, Types
      <4> QED BY <2>1, <2>2, <4>1 DEF Metadata
    <3>2. PICK place \in {"open beneath", "metadata again"} :
                Goes(place) /\ (place = "open beneath" <=> confined)
      BY <3>1
    <3>3. place \in Later
      BY DEF Later
    <3> QED BY <1>1, <3>1, <3>2, <3>3, GoesKeeps
  <2>3. CASE OpenBeneath
    <3>1. at = "open beneath" /\ name # None /\ file' = name /\ Goes("fstat") /\ meta' = meta
      BY <2>1, <2>3 DEF OpenBeneath
    <3>2. "fstat" \in Later
      BY DEF Later
    <3> QED BY <1>1, <1>2, <1>3, <3>1, <3>2, GoesKeeps
  <2>4. CASE Fstat
    <3>1. at = "fstat" /\ meta' = inode[file] /\ Goes("respond") /\ file' = file
      BY <2>4 DEF Fstat, MetadataOfFile
    <3>2. "respond" \in Later
      BY DEF Later
    <3>3. file \in 1..Len(inode) /\ meta' \in 1..Len(versions) /\ meta' <= inode[file] /\ meta' # None
          /\ UpTo(copy.bytes, meta')
      BY <1>3, <1>1, <1>2, <1>4, <3>1
    <3> QED BY <1>1, <1>2, <1>3, <3>1, <3>2, <3>3, GoesKeeps
  <2>5. CASE MetadataAgain
    <3>1. at = "metadata again" /\ name # None /\ meta' = inode[name] /\ Goes("within root") /\ file' = file
      BY <2>1, <2>5 DEF MetadataAgain
    <3>2. "within root" \in Later
      BY DEF Later
    <3>3. meta' \in 1..Len(versions) /\ meta' = Len(versions) /\ meta' # None
      BY <1>2, <1>3, <1>4, <3>1
    <3> QED BY <1>1, <1>2, <1>3, <3>1, <3>2, <3>3, GoesKeeps DEF Steady
  <2>6. CASE WithinRoot
    <3>1. at = "within root" /\ Goes("open") /\ file' = file /\ meta' = meta
      BY <2>1, <2>6 DEF WithinRoot
    <3>2. "open" \in Later
      BY DEF Later
    <3> QED BY <1>1, <1>2, <1>3, <3>1, <3>2, GoesKeeps DEF Steady
  <2>7. CASE OpenByName
    <3>1. at = "open" /\ name # None /\ file' = name /\ Goes("respond") /\ meta' = meta
      BY <2>1, <2>7 DEF OpenByName
    <3>2. "respond" \in Later
      BY DEF Later
    <3>3. meta' \in 1..Len(versions) /\ meta' <= inode[file']
      BY <1>1, <1>2, <1>3, <1>4, <3>1
    <3> QED BY <1>1, <1>2, <1>3, <3>1, <3>2, <3>3, GoesKeeps DEF Steady
  <2> QED BY <2>2, <2>3, <2>4, <2>5, <2>6, <2>7
<1> QED BY <1>5, <1>6

-----------------------------------------------------------------------------
(***************************************************************************)
(* The response.                                                           *)
(***************************************************************************)
LEMMA ByteOf ==
    ASSUME NEW bytes \in Seq(Byte), NEW k \in 1..Len(bytes)
    PROVE  bytes[k].of \in Nat /\ bytes[k].at \in Nat
<1>1. bytes[k] \in Byte
  BY ElementOfSeq
<1> QED BY <1>1 DEF Byte

\* A body that goes on where another ends.
LEMMA ReadsOn ==
    ASSUME NEW b \in Seq(Byte), NEW c \in Seq(Byte), NEW start \in Nat, NEW v \in Nat, NEW w \in Nat,
           Reads(b, start, v), Reads(c, start + Len(b), v), UpTo(b, w), UpTo(c, w)
    PROVE  /\ b \o c \in Seq(Byte) /\ Len(b \o c) = Len(b) + Len(c) /\ Len(c) \in Nat
           /\ Reads(b \o c, start, v) /\ UpTo(b \o c, w)
<1> DEFINE d == b \o c
<1>1. /\ d \in Seq(Byte) /\ Len(d) = Len(b) + Len(c) /\ Len(b) \in Nat /\ Len(c) \in Nat
      /\ \A i \in 1..Len(b) + Len(c) : d[i] = IF i <= Len(b) THEN b[i] ELSE c[i - Len(b)]
      /\ DOMAIN d = 1..Len(d) /\ DOMAIN b = 1..Len(b) /\ DOMAIN c = 1..Len(c)
  BY ConcatProperties, LenProperties
<1> HIDE DEF d
<1>2. ASSUME NEW k \in DOMAIN d
      PROVE  d[k].at = start + k - 1 /\ v <= d[k].of /\ d[k].of <= w /\ (Steady => d[k].of = v)
  <2>1. CASE k <= Len(b)
    <3>1. k \in DOMAIN b /\ d[k] = b[k]
      BY <1>1, <1>2, <2>1
    <3> QED BY <3>1 DEF Reads, UpTo
  <2>2. CASE ~(k <= Len(b))
    <3>1. k \in Nat /\ k - Len(b) \in DOMAIN c /\ d[k] = c[k - Len(b)]
      BY <1>1, <1>2, <2>2
    <3>2. start + Len(b) + (k - Len(b)) - 1 = start + k - 1
      BY <1>1, <3>1
    <3>3. c[k - Len(b)].at = start + Len(b) + (k - Len(b)) - 1 /\ v <= c[k - Len(b)].of /\ c[k - Len(b)].of <= w
          /\ (Steady => c[k - Len(b)].of = v)
      BY <3>1 DEF Reads, UpTo
    <3> QED BY <3>1, <3>2, <3>3
  <2> QED BY <2>1, <2>2
<1>3. Reads(d, start, v) /\ UpTo(d, w)
  BY <1>2 DEF Reads, UpTo
<1> QED BY <1>1, <1>3 DEF d

\* From the response on, the metadata, the file and the copy stay as they are.
Answers ==
    /\ at \in {"respond", "send"} /\ at' \in {"send", "done"}
    /\ UNCHANGED <<disk, confined, req, meta, file, copy>>

LEMMA AnswersKeep ==
    ASSUME FInv, Answers, resp' \in Heads, got' \in Seq(Byte), cut' \in BOOLEAN, Sending', Ranged'
    PROVE  FInv'
<1>1. /\ versions' = versions /\ inode' = inode /\ name' = name /\ rewritten' = rewritten
      /\ confined' = confined /\ req' = req /\ meta' = meta /\ file' = file /\ copy' = copy
      /\ at' \in {"send", "done"} /\ at \in {"respond", "send"}
  BY DEF Answers, disk
<1>2. Types'
  <2>1. req \in Requests /\ meta # None /\ file # None /\ at' \in Places /\ at' # "within root"
        /\ at' \notin {"open", "respond", "fstat"}
    BY <1>1 DEF FInv, Types, Places
  <2> QED BY <1>1, <2>1 DEF FInv, Types
<1>3. Newest' /\ Fetched'
  BY <1>1 DEF FInv, Newest, Fetched
<1>4. NoneNewer'
  BY <1>1 DEF FInv, NoneNewer, UpTo
<1>5. Confinement'
  BY <1>1 DEF FInv, Confinement, Steady
<1>6. Keeping'
  <2>1. (Distinct <=> Distinct') /\ Whole' = Whole
    BY <1>1 DEF Distinct, Whole, NoCopy
  <2>2. \A v : (Tags(copy, v) => Tags(copy, v)') /\ (Reads(copy.bytes, 0, v) => Reads(copy.bytes, 0, v)')
    BY <1>1 DEF Tags, ETag, Reads, Steady
  <2>3. Distinct' /\ copy' # NoCopy' =>
            \E v \in DOMAIN versions' : Tags(copy, v)' /\ Reads(copy.bytes, 0, v)'
    BY <1>1, <2>1, <2>2 DEF FInv, Keeping, NoCopy
  <2>4. req'.match \in {"etag", "since"} => Whole'
    BY <1>1, <2>1 DEF FInv, Keeping
  <2> QED BY <2>3, <2>4 DEF Keeping
<1> QED BY <1>2, <1>3, <1>4, <1>5, <1>6 DEF FInv

LEMMA HeadKeeps ==
    ASSUME FInv, at = "respond", Kept, meta' = meta, file' = file, at' \in {"send", "done"}, resp' \in Heads,
           at' = "send" <=> resp'.status \in {200, 206},
           resp'.status \in {200, 206} => Tags(resp', meta),
           resp'.status = 200 => resp'.start = 0,
           resp'.status = 304 => ConditionalHit,
           Ranged'
    PROVE  FInv'
<1>1. Answers /\ versions' = versions /\ got' = got /\ cut' = cut /\ copy' = copy /\ req' = req
  BY DEF Answers, Kept, disk
<1>2. got = <<>> /\ ~cut /\ meta # None /\ file # None /\ cut \in BOOLEAN
  BY DEF FInv, Sending, Types
<1>3. <<>> \in Seq(Byte) /\ Len(<<>>) = 0 /\ DOMAIN <<>> = {}
  BY EmptySeq
<1>4. Reads(got, resp.start, meta)' /\ UpTo(got, Len(versions))'
  BY <1>1, <1>2, <1>3 DEF Reads, UpTo
<1>5. Len(got') <= resp'.length
  BY <1>1, <1>2, <1>3 DEF Heads
<1>6. resp'.status \in {200, 206} => Tags(resp, meta)'
  BY <1>1 DEF Tags, ETag
<1>7. resp'.status = 304 => ConditionalHit'
  BY <1>1 DEF ConditionalHit, ETag
<1>8. Sending'
  BY <1>1, <1>2, <1>4, <1>5, <1>6, <1>7 DEF Sending
<1> QED BY <1>1, <1>2, <1>3, <1>8, AnswersKeep

LEMMA RespondKeeps == ASSUME FInv, Respond PROVE FInv'
<1> DEFINE total == versions[meta].len
           ranges == SingleRange(req.range, total)
           tagged == [status |-> 200, etag |-> ETag(meta), since |-> versions[meta].mtime,
                      total |-> total, start |-> 0, length |-> 0]
           head(s, a, n) == [status |-> s, etag |-> ETag(meta), since |-> versions[meta].mtime,
                             total |-> total, start |-> a, length |-> n]
           form == req.range.form
<1>1. /\ at = "respond" /\ meta' = meta /\ file' = file /\ Kept
      /\ req' = req /\ req \in Requests /\ meta \in 1..Len(versions) /\ Types
  BY DEF Respond, Kept, FInv, Types
<1>2. total \in Nat /\ versions[meta].mtime \in Nat /\ ETag(meta) \in Nat \X Nat
  BY <1>1, VersionType DEF ETag
<1>3. [Answer(200) EXCEPT !.etag = ETag(meta), !.since = versions[meta].mtime, !.total = total] = tagged
  <2> DEFINE q == [Answer(200) EXCEPT !.etag = ETag(meta), !.since = versions[meta].mtime, !.total = total]
  <2> HIDE DEF q, total
  <2>1. q = [Answer(200) EXCEPT !.etag = ETag(meta), !.since = versions[meta].mtime, !.total = total]
    BY DEF q
  <2>2. q = tagged
    BY <2>1 DEF Answer
  <2> QED BY <2>2 DEF q
<1>4. form \in {"suffix", "from", "between"} => AreRange(ranges, Wanted(req.range, total), total)
  BY <1>1, <1>2, RangeFound
<1>5. form \notin {"suffix", "from", "between"} => ranges = {}
  BY DEF SingleRange
<1> DEFINE W == Wanted(req.range, total)
<1> HIDE DEF total, ranges, W
<1>6. /\ at' \in {"send", "done"}
      /\ \/ ConditionalHit /\ resp' = [tagged EXCEPT !.status = 304] /\ at' = "done"
         \/ /\ \E e \in ranges :
                  resp' = [tagged EXCEPT !.status = 206, !.start = e[1], !.length = e[2] - e[1] + 1]
            /\ at' = "send"
         \/ /\ ranges = {} /\ form \notin {"none", "other"}
            /\ resp' = [Answer(416) EXCEPT !.total = total] /\ at' = "done"
         \/ /\ ranges = {} /\ form \in {"none", "other"}
            /\ resp' = [tagged EXCEPT !.length = total] /\ at' = "send"
  BY <1>3 DEF Respond, total, ranges
<1>7. \A s, a, n \in Nat : head(s, a, n) \in Heads /\ Tags(head(s, a, n), meta)
  BY <1>2 DEF Heads, Tags, total
<1>8. CASE ConditionalHit /\ resp' = [tagged EXCEPT !.status = 304] /\ at' = "done"
  <2>1. resp' = head(304, 0, 0)
    BY <1>8
  <2>2. resp' \in Heads /\ resp'.status = 304
    BY <1>7, <2>1
  <2>3. Ranged'
    BY <2>2 DEF Ranged
  <2> QED BY <1>1, <1>8, <2>2, <2>3, HeadKeeps
<1>9. CASE /\ \E e \in ranges :
                  resp' = [tagged EXCEPT !.status = 206, !.start = e[1], !.length = e[2] - e[1] + 1]
           /\ at' = "send"
  <2>1. PICK e \in ranges :
            resp' = [tagged EXCEPT !.status = 206, !.start = e[1], !.length = e[2] - e[1] + 1]
    BY <1>9
  <2>2. resp' = head(206, e[1], e[2] - e[1] + 1)
    BY <2>1
  <2>3. form \in {"suffix", "from", "between"} /\ AreRange(ranges, W, total)
    BY <1>4, <1>5 DEF W
  <2>4. e[1] \in Nat /\ e[2] \in Nat /\ e[1] <= e[2] /\ e[1]..e[2] = W
    BY <2>3 DEF AreRange
  <2>5. e[2] - e[1] + 1 \in Nat /\ e[1] + (e[2] - e[1] + 1) - 1 = e[2] /\ W # {}
    <3>1. \A a, b \in Nat : a <= b => b - a + 1 \in Nat /\ a + (b - a + 1) - 1 = b /\ a \in a..b
      OBVIOUS
    <3> QED BY <2>4, <3>1
  <2>6. resp' \in Heads /\ Tags(resp', meta)
    BY <1>7, <2>2, <2>4, <2>5
  <2>7. resp'.status = 206 /\ resp'.total = total /\ resp'.start = e[1] /\ resp'.length = e[2] - e[1] + 1
    BY <2>2
  <2>8. resp'.start..(resp'.start + resp'.length - 1) = W /\ W # {} /\ Wanted(req'.range, resp'.total) = W
    BY <1>1, <2>4, <2>5, <2>7 DEF W
  <2>9. Ranged'
    BY <2>7, <2>8 DEF Ranged
  <2> QED BY <1>1, <1>9, <2>6, <2>7, <2>9, HeadKeeps
<1>10. CASE /\ ranges = {} /\ form \notin {"none", "other"}
            /\ resp' = [Answer(416) EXCEPT !.total = total] /\ at' = "done"
  <2>1. resp' = [status |-> 416, etag |-> None, since |-> None, total |-> total, start |-> 0, length |-> 0]
    BY <1>10 DEF Answer
  <2>2. resp' \in Heads /\ resp'.status = 416 /\ resp'.total = total
    BY <1>2, <2>1 DEF Heads, total
  <2>3. form \in {"suffix", "from", "between"} => Wanted(req'.range, resp'.total) = {}
    BY <1>1, <1>4, <1>10, <2>2 DEF AreRange
  <2>4. Ranged'
    BY <1>1, <2>2, <2>3 DEF Ranged
  <2> QED BY <1>1, <1>10, <2>2, <2>4, HeadKeeps
<1>11. CASE /\ ranges = {} /\ form \in {"none", "other"}
            /\ resp' = [tagged EXCEPT !.length = total] /\ at' = "send"
  <2>1. resp' = head(200, 0, total)
    BY <1>11
  <2>2. resp' \in Heads /\ Tags(resp', meta) /\ resp'.status = 200 /\ resp'.start = 0
    <3>1. 200 \in Nat /\ 0 \in Nat /\ total \in Nat
      BY <1>2 DEF total
    <3> QED BY <1>7, <2>1, <3>1
  <2>3. Ranged'
    BY <1>1, <1>11 DEF Ranged
  <2> QED BY <1>1, <1>11, <2>2, <2>3, HeadKeeps
<1> QED BY <1>6, <1>8, <1>9, <1>10, <1>11

-----------------------------------------------------------------------------
(***************************************************************************)
(* The drain of the body, and the client.                                  *)
(***************************************************************************)
LEMMA TakeFileKeeps == ASSUME FInv, TakeFile PROVE FInv'
<1> DEFINE offset == resp.start + Len(got)
           want == Min({resp.length - Len(got), STREAM_CHUNK})
           whole == Contents(inode[file])
           piece == SubSeq(whole, offset + 1, Min({offset + want, Len(whole)}))
<1>1. /\ at = "send" /\ at' \in {"send", "done"} /\ resp' = resp /\ versions' = versions /\ inode' = inode
      /\ req' = req /\ meta' = meta /\ file' = file /\ Answers /\ confined' = confined /\ rewritten' = rewritten
  BY DEF TakeFile, Answers, disk
<1>2. /\ Types /\ resp \in Heads /\ got \in Seq(Byte) /\ cut \in BOOLEAN /\ Len(got) \in Nat
      /\ meta \in 1..Len(versions) /\ inode[file] \in 1..Len(versions) /\ meta <= inode[file]
      /\ Len(versions) \in Nat
  <2>1. meta # None /\ file # None /\ Types /\ resp \in Heads
    BY <1>1 DEF FInv, Types
  <2>2. file \in 1..Len(inode)
    BY <2>1 DEF Types
  <2> QED BY <2>1, <2>2, DiskTypes, LenProperties DEF FInv, NoneNewer, Types
<1>3. /\ resp.status \in {200, 206} /\ ~cut /\ Tags(resp, meta) /\ Reads(got, resp.start, meta)
      /\ UpTo(got, Len(versions)) /\ Len(got) <= resp.length /\ (resp.status = 200 => resp.start = 0)
      /\ meta # None /\ file # None
  BY <1>1 DEF FInv, Sending
<1>4. Ranged'
  BY <1>1 DEF FInv, Ranged
<1>5. Tags(resp, meta)'
  BY <1>1, <1>3 DEF Tags, ETag
<1>6. resp.start \in Nat /\ resp.length \in Nat
  BY <1>2 DEF Heads
<1>7. CASE (req.method = "HEAD" \/ resp.length = 0) /\ at' = "done" /\ UNCHANGED <<got, cut>>
  <2>1. req.method = "GET" => Len(got) = resp.length
    BY <1>2, <1>3, <1>6, <1>7
  <2>2. Reads(got, resp.start, meta)' /\ UpTo(got, Len(versions))'
    BY <1>1, <1>3, <1>7 DEF Reads, UpTo, Steady
  <2>3. Sending'
    BY <1>1, <1>3, <1>5, <1>7, <2>1, <2>2 DEF Sending
  <2> QED BY <1>1, <1>2, <1>4, <1>7, <2>3, AnswersKeep
<1>8. CASE /\ got' = got \o piece
           /\ cut' = (Len(piece) < want)
           /\ at' = IF Len(piece) < want \/ Len(got') = resp.length THEN "done" ELSE "send"
  <2>1. offset \in Nat
    BY <1>2, <1>6
  <2>2. want \in Nat /\ want <= resp.length - Len(got)
    <3>1. STREAM_CHUNK \in Nat /\ resp.length - Len(got) \in Nat
      BY <1>2, <1>3, <1>6, ChunkAssumption
    <3>2. want = IF resp.length - Len(got) <= STREAM_CHUNK THEN resp.length - Len(got) ELSE STREAM_CHUNK
      BY <3>1, MinTwo
    <3> QED BY <3>1, <3>2
  <2> HIDE DEF want, offset
  <2>3. /\ piece \in Seq(Byte) /\ Len(piece) \in Nat /\ Len(piece) <= want
        /\ \A k \in 1..Len(piece) : piece[k] = [of |-> inode[file], at |-> offset + k - 1]
    BY <1>2, <2>1, <2>2, PieceRead
  <2>4. DOMAIN piece = 1..Len(piece)
    BY <2>3, LenProperties
  <2> HIDE DEF piece
  <2>5. Reads(piece, resp.start + Len(got), meta) /\ UpTo(piece, Len(versions))
    <3>1. Steady => meta = inode[file]
      BY <1>3 DEF FInv, Confinement
    <3>2. ASSUME NEW k \in DOMAIN piece
          PROVE  piece[k].at = resp.start + Len(got) + k - 1 /\ piece[k].of = inode[file]
      <4>1. piece[k] = [of |-> inode[file], at |-> offset + k - 1]
        BY <2>3, <2>4
      <4>2. piece[k].of = inode[file] /\ piece[k].at = offset + k - 1
        BY <4>1
      <4> QED BY <4>2 DEF offset
    <3>3. inode[file] <= Len(versions)
      BY <1>2
    <3> QED BY <1>2, <3>1, <3>2, <3>3 DEF Reads, UpTo
  <2>6. /\ got' \in Seq(Byte) /\ Len(got') = Len(got) + Len(piece) /\ Len(piece) \in Nat
        /\ Reads(got', resp.start, meta) /\ UpTo(got', Len(versions))
    <3>1. meta \in Nat
      BY <1>2
    <3> QED BY <1>2, <1>3, <1>6, <1>8, <2>3, <2>5, <3>1, ReadsOn
  <2>7. Len(got') <= resp.length
    BY <1>2, <1>6, <2>2, <2>3, <2>6
  <2>8. at' = "done" /\ ~cut' => Len(got') = resp.length
    BY <1>8
  <2>9. at' = "send" => ~cut'
    BY <1>8
  <2>10. cut' \in BOOLEAN
    BY <1>8
  <2>11. Reads(got, resp.start, meta)' /\ UpTo(got, Len(versions))'
    BY <1>1, <2>6 DEF Reads, UpTo, Steady
  <2>12. Sending'
    BY <1>1, <1>3, <1>5, <2>7, <2>8, <2>9, <2>11 DEF Sending
  <2> QED BY <1>1, <1>2, <1>4, <2>6, <2>10, <2>12, AnswersKeep
<1> QED BY <1>7, <1>8 DEF TakeFile

LEMMA ConnectionLostKeeps == ASSUME FInv, ConnectionLost PROVE FInv'
<1>1. /\ at = "send" /\ at' = "done" /\ cut' = TRUE /\ resp' = resp /\ versions' = versions /\ inode' = inode
      /\ req' = req /\ meta' = meta /\ file' = file /\ got' = got /\ Answers
      /\ confined' = confined /\ rewritten' = rewritten
  BY DEF ConnectionLost, Answers, disk
<1>2. resp \in Heads /\ got \in Seq(Byte) /\ cut' \in BOOLEAN
  BY <1>1 DEF FInv, Types
<1>3. /\ resp.status \in {200, 206} /\ Tags(resp, meta) /\ Reads(got, resp.start, meta)
      /\ UpTo(got, Len(versions)) /\ Len(got) <= resp.length /\ (resp.status = 200 => resp.start = 0)
      /\ meta # None /\ file # None
  BY <1>1 DEF FInv, Sending
<1>4. Tags(resp, meta)' /\ Reads(got, resp.start, meta)' /\ UpTo(got, Len(versions))'
  BY <1>1, <1>3 DEF Tags, ETag, Reads, UpTo, Steady
<1>5. Sending'
  BY <1>1, <1>3, <1>4 DEF Sending
<1>6. Ranged'
  BY <1>1 DEF FInv, Ranged
<1> QED BY <1>1, <1>2, <1>5, <1>6, AnswersKeep

LEMMA ReceiveKeeps == ASSUME FInv, Receive PROVE FInv'
<1>1. /\ at = "done" /\ at' = "idle" /\ meta' = None /\ file' = None /\ got' = <<>> /\ cut' = FALSE
      /\ versions' = versions /\ inode' = inode /\ name' = name /\ rewritten' = rewritten
      /\ confined' = confined
  BY DEF Receive, disk
<1>2. /\ Types /\ resp \in Heads /\ got \in Seq(Byte) /\ copy \in Copies /\ copy.bytes \in Seq(Byte)
      /\ Len(versions) \in Nat /\ UpTo(copy.bytes, Len(versions)) /\ <<>> \in Seq(Byte)
  BY <1>1, DiskTypes, EmptySeq DEF FInv, Types, Copies, NoneNewer
<1>3. ASSUME resp.status \in {200, 206}
      PROVE  /\ meta \in 1..Len(versions) /\ Tags(resp, meta) /\ Reads(got, resp.start, meta)
             /\ UpTo(got, Len(versions)) /\ resp.etag # None
             /\ resp.status = 200 => resp.start = 0
  <2>1. /\ meta # None /\ Tags(resp, meta) /\ Reads(got, resp.start, meta) /\ UpTo(got, Len(versions))
        /\ (resp.status = 200 => resp.start = 0)
    BY <1>1, <1>3 DEF FInv, Sending
  <2>2. meta \in 1..Len(versions)
    BY <1>2, <2>1 DEF Types
  <2>3. resp.etag \in Nat \X Nat
    BY <1>2, <2>1, <2>2, VersionType DEF Tags, ETag
  <2> QED BY <2>1, <2>2, <2>3, FilesAssumption
\* What the client then has: every byte it had or got, and as many copies of one version.
<1> DEFINE KeptAs(v) == Tags(copy', v) /\ Reads(copy'.bytes, 0, v)
<1>4. /\ copy' \in Copies /\ UpTo(copy'.bytes, Len(versions))
      /\ Distinct /\ copy' # NoCopy => \E v \in DOMAIN versions : KeptAs(v)
  <2>1. DOMAIN versions = 1..Len(versions)
    BY <1>2, DiskTypes, LenProperties DEF Versions
  <2>2. CASE req.method = "GET" /\ resp.status = 200
    <3>1. copy' = [etag |-> resp.etag, since |-> resp.since, total |-> resp.total, bytes |-> got]
      BY <2>2 DEF Receive
    <3>2. copy' \in Copies /\ copy'.bytes = got
      BY <1>2, <3>1 DEF Copies, Heads
    <3>3. KeptAs(meta)
      BY <1>3, <2>2, <3>1 DEF Tags
    <3> QED BY <1>3, <2>1, <2>2, <3>2, <3>3
  <2>3. CASE req.method = "GET" /\ resp.status = 206 /\ Continues
    <3>1. copy' = [copy EXCEPT !.bytes = copy.bytes \o got]
      BY <2>3 DEF Receive
    <3>2. /\ copy.bytes \o got \in Seq(Byte) /\ copy' \in Copies /\ copy'.bytes = copy.bytes \o got
          /\ copy'.etag = copy.etag /\ copy'.since = copy.since /\ copy'.total = copy.total
      BY <1>2, <3>1, ConcatProperties DEF Copies
    <3>3. copy.etag = resp.etag /\ resp.start = Len(copy.bytes) /\ copy # NoCopy
      BY <1>3, <2>3 DEF Continues, NoCopy
    <3>4. Len(copy.bytes) \in Nat
      BY <1>2, LenProperties
    <3>5. UpTo(copy'.bytes, Len(versions))
      <4> DEFINE d == copy.bytes \o got
      <4>1. /\ Len(copy.bytes) \in Nat /\ Len(got) \in Nat /\ DOMAIN copy.bytes = 1..Len(copy.bytes)
            /\ DOMAIN got = 1..Len(got) /\ DOMAIN d = 1..Len(d) /\ Len(d) = Len(copy.bytes) + Len(got)
            /\ \A i \in 1..Len(copy.bytes) + Len(got) :
                  d[i] = IF i <= Len(copy.bytes) THEN copy.bytes[i] ELSE got[i - Len(copy.bytes)]
        BY <1>2, <3>2, ConcatProperties, LenProperties
      <4>2. UpTo(copy.bytes, Len(versions)) /\ UpTo(got, Len(versions))
        BY <1>2, <1>3, <2>3
      <4> HIDE DEF d
      <4>3. ASSUME NEW k \in DOMAIN d PROVE d[k].of <= Len(versions)
        <5>1. CASE k <= Len(copy.bytes)
          BY <4>1, <4>2, <4>3, <5>1 DEF UpTo
        <5>2. CASE ~(k <= Len(copy.bytes))
          <6>1. k - Len(copy.bytes) \in DOMAIN got /\ d[k] = got[k - Len(copy.bytes)]
            BY <4>1, <4>3, <5>2
          <6> QED BY <4>2, <6>1 DEF UpTo
        <5> QED BY <5>1, <5>2
      <4> QED BY <3>2, <4>3 DEF UpTo, d
    <3>6. ASSUME Distinct PROVE \E v \in DOMAIN versions : KeptAs(v)
      <4>1. PICK v \in DOMAIN versions : Tags(copy, v) /\ Reads(copy.bytes, 0, v)
        BY <3>3, <3>6 DEF FInv, Keeping
      <4>2. v = meta
        <5>1. ETag(v) = ETag(meta) /\ meta \in DOMAIN versions
          BY <1>3, <2>1, <2>3, <3>3, <4>1 DEF Tags
        <5>2. versions[v].mtime = versions[meta].mtime
          BY <5>1 DEF ETag
        <5> QED BY <3>6, <5>1, <5>2 DEF Distinct
      <4>3. 0 + Len(copy.bytes) = resp.start /\ meta \in Nat /\ 0 \in Nat
        BY <1>2, <1>3, <2>3, <3>3, <3>4
      <4>4. Reads(copy.bytes \o got, 0, meta)
        BY <1>2, <1>3, <2>3, <4>1, <4>2, <4>3, ReadsOn
      <4>5. KeptAs(meta)
        BY <3>2, <4>1, <4>2, <4>4 DEF Tags
      <4> QED BY <4>1, <4>2, <4>5
    <3> QED BY <3>2, <3>5, <3>6
  <2>4. CASE copy' = copy
    BY <1>2, <2>4 DEF FInv, Keeping
  <2> QED BY <2>2, <2>3, <2>4 DEF Receive
<1> HIDE DEF KeptAs
<1>5. Types'
  <2>1. at' \in Places /\ meta' \in (1..Len(versions)) \cup {None} /\ file' \in (1..Len(inode)) \cup {None}
        /\ got' \in Seq(Byte) /\ cut' \in BOOLEAN
    BY <1>1, <1>2 DEF Places
  <2> QED BY <1>1, <1>2, <1>4, <2>1 DEF Types
<1>6. Newest' /\ Fetched'
  BY <1>1 DEF FInv, Newest, Fetched
<1>7. NoneNewer'
  BY <1>1, <1>4 DEF NoneNewer, UpTo
<1>8. Confinement'
  BY <1>1 DEF Confinement
<1>9. Sending'
  BY <1>1 DEF Sending
<1>10. Keeping'
  <2>1. ASSUME Distinct', copy' # NoCopy'
        PROVE  \E v \in DOMAIN versions' : Tags(copy, v)' /\ Reads(copy.bytes, 0, v)'
    <3>1. Distinct /\ NoCopy' = NoCopy
      BY <1>1, <2>1 DEF Distinct, NoCopy
    <3>2. PICK v \in DOMAIN versions : KeptAs(v)
      BY <1>4, <2>1, <3>1
    <3>3. Tags(copy, v)' /\ Reads(copy.bytes, 0, v)'
      BY <1>1, <3>2 DEF KeptAs, Tags, ETag, Reads, Steady
    <3> QED BY <1>1, <3>3
  <2> QED BY <1>1, <2>1 DEF Keeping
<1>11. Ranged'
  BY <1>1 DEF Ranged
<1> QED BY <1>5, <1>6, <1>7, <1>8, <1>9, <1>10, <1>11 DEF FInv

-----------------------------------------------------------------------------
LEMMA InitFInv == FilesInit => FInv
<1> SUFFICES ASSUME FilesInit PROVE FInv
  OBVIOUS
<1>1. PICK len \in Lengths : versions = <<[len |-> len, mtime |-> 0]>>
  BY DEF FilesInit
<1>2. /\ inode = <<1>> /\ name = 1 /\ rewritten = FALSE /\ confined \in BOOLEAN /\ at = "idle"
      /\ meta = None /\ file = None /\ got = <<>> /\ cut = FALSE /\ copy = NoCopy
  BY DEF FilesInit
<1>3. /\ versions \in Seq([len : Nat, mtime : Nat]) /\ Len(versions) = 1
      /\ inode \in Seq(1..1) /\ Len(inode) = 1 /\ inode[1] = 1
  BY <1>1, <1>2, FilesAssumption
<1>4. <<>> \in Seq(Byte) /\ DOMAIN <<>> = {} /\ NoCopy \in Copies /\ NoCopy.bytes = <<>>
  BY EmptySeq DEF NoCopy, Copies
<1>5. Types
  <2>1. "idle" \in Places
    BY DEF Places
  <2>2. 1 \in 1..1 /\ 1 \in Nat \ {0} /\ FALSE \in BOOLEAN
    OBVIOUS
  <2>3. name \in 1..Len(inode) /\ inode \in Seq(1..Len(versions)) /\ Len(versions) \in Nat \ {0}
    BY <1>2, <1>3, <2>2
  <2>4. got \in Seq(Byte) /\ copy \in Copies /\ rewritten \in BOOLEAN /\ cut \in BOOLEAN
    BY <1>2, <1>4, <2>2
  <2> QED BY <1>2, <1>3, <2>1, <2>3, <2>4 DEF Types
<1>6. Newest /\ Fetched /\ Confinement /\ Sending /\ Ranged
  BY <1>2, <1>3 DEF Newest, Fetched, Confinement, Sending, Ranged
<1>7. NoneNewer
  BY <1>2, <1>4 DEF NoneNewer, UpTo
<1>8. Keeping
  BY <1>2 DEF Keeping
<1> QED BY <1>5, <1>6, <1>7, <1>8 DEF FInv

LEMMA NextFInv == FInv /\ [FilesNext]_fileVars => FInv'
<1> SUFFICES ASSUME FInv, [FilesNext]_fileVars PROVE FInv'
  OBVIOUS
<1>1. CASE Replace \/ Rewrite \/ Remove
  <2>1. Moves
    BY <1>1, FileMoves DEF FInv
  <2> QED BY <2>1, MovesKeep
<1>2. CASE \E r \in Requests : Asks(r)
  BY <1>2, AsksKeeps
<1>3. CASE Metadata \/ OpenBeneath \/ Fstat \/ MetadataAgain \/ WithinRoot \/ OpenByName
  BY <1>3, PathKeeps
<1>4. CASE Respond
  BY <1>4, RespondKeeps
<1>5. CASE TakeFile
  BY <1>5, TakeFileKeeps
<1>6. CASE ConnectionLost
  BY <1>6, ConnectionLostKeeps
<1>7. CASE Receive
  BY <1>7, ReceiveKeeps
<1>8. CASE UNCHANGED fileVars
  <2>1. UNCHANGED <<versions, inode, name, rewritten, confined, at, req, meta, file, resp, got, cut, copy>>
    BY <1>8 DEF fileVars, disk
  <2>2. \A i \in 1..Len(inode) : inode[i] <= inode[i]
    BY DiskTypes DEF FInv
  <2>3. Len(versions) <= Len(versions) /\ Len(inode) <= Len(inode)
    BY DiskTypes DEF FInv
  <2>4. Newest' /\ rewritten \in BOOLEAN
    BY <2>1 DEF FInv, Newest, Types
  <2>5. Moves
    BY <2>1, <2>2, <2>3, <2>4, DiskTypes DEF FInv, Moves
  <2> QED BY <2>5, MovesKeep
<1> QED BY <1>1, <1>2, <1>3, <1>4, <1>5, <1>6, <1>7, <1>8 DEF FilesNext

LEMMA HoldsFInv == FilesSpec => []FInv
BY InitFInv, NextFInv, PTL DEF FilesSpec

\* parse_single_range and the drain of the body: a single range gets what it asks for,
\* or a 416 if that is nothing, and a body that was not cut has the promised bytes.
THEOREM RangesAnswered == FilesSpec => []AnswersTheRange
<1>1. FInv => AnswersTheRange
  <2> SUFFICES ASSUME FInv PROVE AnswersTheRange
    OBVIOUS
  <2>1. (/\ at \in {"send", "done"} /\ resp.status \in {200, 206, 416}
         /\ req.range.form \in {"suffix", "from", "between"}) =>
           LET wanted == Wanted(req.range, resp.total)
           IN  IF wanted = {} THEN resp.status = 416
               ELSE resp.status = 206 /\ resp.start..(resp.start + resp.length - 1) = wanted
    BY DEF FInv, Ranged
  <2>2. ASSUME at = "done", ~cut, req.method = "GET", resp.status \in {200, 206}
        PROVE  [k \in DOMAIN got |-> got[k].at] = [k \in 1..resp.length |-> resp.start + k - 1]
    <3>1. got \in Seq(Byte) /\ Len(got) = resp.length /\ Reads(got, resp.start, meta)
      BY <2>2 DEF FInv, Types, Sending
    <3>2. DOMAIN got = 1..resp.length /\ \A k \in DOMAIN got : got[k].at = resp.start + k - 1
      BY <3>1, LenProperties DEF Reads
    <3> QED BY <3>2
  <2> QED BY <2>1, <2>2 DEF AnswersTheRange
<1> QED BY <1>1, HoldsFInv, PTL

\* A copy whose bytes are those of version v, and no others.
LEMMA WholeIs ==
    ASSUME Types, NEW v \in DOMAIN versions, Tags(copy, v), Reads(copy.bytes, 0, v), Whole,
           \A k \in DOMAIN copy.bytes : copy.bytes[k].of = v
    PROVE  copy.bytes = Contents(v)
<1>1. copy.bytes \in Seq(Byte) /\ Len(copy.bytes) = versions[v].len /\ Len(copy.bytes) \in Nat
      /\ DOMAIN copy.bytes = 1..Len(copy.bytes)
  <2>1. copy.bytes \in Seq(Byte)
    BY DEF Types, Copies
  <2> QED BY <2>1, LenProperties DEF Tags, Whole
<1> DEFINE b == copy.bytes
           n == versions[v].len
<1>2. b = [k \in 1..n |-> b[k]]
  BY <1>1
<1>3. ASSUME NEW k \in 1..n PROVE b[k] = [of |-> v, at |-> k - 1]
  <2>1. b[k] \in Byte /\ b[k].of = v /\ b[k].at = 0 + k - 1 /\ k \in Nat
    BY <1>1, ElementOfSeq DEF Reads
  <2> QED BY <2>1 DEF Byte
<1> QED BY <1>2, <1>3 DEF Contents

\* serve behind openat2: what a client put together from parts is one version of the file.
THEOREM CopyIsOneVersion == FilesSpec => []OneVersion
<1>1. FInv => OneVersion
  <2> SUFFICES ASSUME FInv, Whole, confined, ~rewritten, Distinct
               PROVE  \E v \in DOMAIN versions : copy.bytes = Contents(v) /\ copy.etag = ETag(v)
    BY DEF OneVersion
  <2>1. PICK v \in DOMAIN versions : Tags(copy, v) /\ Reads(copy.bytes, 0, v)
    BY DEF FInv, Keeping, Whole
  <2>2. copy.bytes = Contents(v)
    BY <2>1, WholeIs DEF FInv, Reads, Steady
  <2> QED BY <2>1, <2>2 DEF Tags
<1> QED BY <1>1, HoldsFInv, PTL

\* ETag, Last-Modified and the order of stat, open and read: a 304 confirms only a copy
\* that is the file as it stands, with or without openat2.
THEOREM ConfirmsTheCurrent == FilesSpec => []ConfirmedIsCurrent
<1>1. FInv => ConfirmedIsCurrent
  <2> SUFFICES ASSUME FInv, at = "done", resp.status = 304, req.match # "any", Distinct
               PROVE  copy.bytes = Contents(meta)
    BY DEF ConfirmedIsCurrent
  <2>1. meta # None /\ ConditionalHit
    BY DEF FInv, Sending
  <2>2. Whole
    BY <2>1 DEF FInv, Keeping, ConditionalHit
  <2>3. PICK v \in DOMAIN versions : Tags(copy, v) /\ Reads(copy.bytes, 0, v)
    BY <2>2 DEF FInv, Keeping, Whole
  <2>4. v = meta /\ meta \in Nat
    <3>1. DOMAIN versions = 1..Len(versions) /\ meta \in 1..Len(versions)
      BY <2>1, DiskTypes, LenProperties DEF FInv, Versions
    <3>2. versions[v].mtime = versions[meta].mtime
      BY <2>1, <2>3 DEF ConditionalHit, Tags, ETag
    <3> QED BY <3>1, <3>2 DEF Distinct
  <2>5. ASSUME NEW k \in DOMAIN copy.bytes PROVE copy.bytes[k].of = v
    <3>1. copy.bytes[k].of <= meta /\ v <= copy.bytes[k].of
      BY <2>1, <2>3 DEF FInv, NoneNewer, UpTo, Reads
    <3>2. copy.bytes[k].of \in Nat
      <4>1. copy.bytes \in Seq(Byte)
        BY DEF FInv, Types, Copies
      <4> QED BY <4>1, ByteOf, LenProperties
    <3> QED BY <2>4, <3>1, <3>2
  <2> QED BY <2>2, <2>3, <2>4, <2>5, WholeIs DEF FInv
<1> QED BY <1>1, HoldsFInv, PTL

----------------------------------------------------------------------------
(* The scanners of requests.                                                *)

\* A set of natural numbers that is not empty has a least element.
LEMMA LeastNat ==
    ASSUME NEW T, T \subseteq Nat, T # {}
    PROVE  \E n \in T : \A m \in T : n <= m
<1> DEFINE R == {p \in Nat \X Nat : p[1] < p[2]}
<1>1. IsWellFoundedOn(R, Nat)
  <2>1. IsWellFoundedOn(OpToRel(<, Nat), Nat)
    BY NatLessThanWellFounded
  <2>2. R \cap (Nat \X Nat) \subseteq OpToRel(<, Nat)
    BY DEF OpToRel
  <2>. QED BY <2>1, <2>2, IsWellFoundedOnSubrelation
<1>2. PICK n \in T : \A m \in T : ~(<<m, n>> \in R)
  <2>. HIDE DEF R
  <2>. QED BY <1>1, WFMin
<1>3. ASSUME NEW m \in T PROVE n <= m
  <2>1. <<m, n>> \notin R
    BY <1>2
  <2>. QED BY <2>1
<1>. QED BY <1>3

\* Induction on the natural numbers, as a statement about a set.
LEMMA SetInduction ==
    ASSUME NEW T, 0 \in T, \A n \in Nat : n \in T => n + 1 \in T
    PROVE  Nat \subseteq T
<1>. DEFINE U == {n \in Nat : n \notin T}
<1>. SUFFICES ASSUME U # {} PROVE FALSE
  OBVIOUS
<1>1. PICK n \in U : \A m \in U : n <= m
  <2>1. U \subseteq Nat OBVIOUS
  <2>. HIDE DEF U
  <2>. QED BY <2>1, LeastNat
<1>2. n # 0 /\ n - 1 \in Nat
  OBVIOUS
<1>3. n - 1 \notin U
  BY <1>1, <1>2
<1>. QED BY <1>2, <1>3

\* e is d with more bytes behind it.
Grows(d, e) ==
    /\ d \in Seq(BodyBytes) /\ e \in Seq(BodyBytes)
    /\ Len(d) <= Len(e)
    /\ \A i \in 1..Len(d) : e[i] = d[i]

\* The first of some offsets.
LEMMA LeastIs ==
    ASSUME NEW S, S \subseteq Nat, S # {}
    PROVE  Least(S) \in S /\ \A m \in S : Least(S) <= m
<1>1. \E n \in S : \A m \in S : n <= m
  BY LeastNat
<1>. QED BY <1>1 DEF Least

\* An offset that no other comes before is the first.
LEMMA LeastOnly ==
    ASSUME NEW S, S \subseteq Nat, NEW n \in S, \A m \in S : n <= m
    PROVE  Least(S) = n
<1>1. Least(S) \in S /\ \A m \in S : Least(S) <= m
  BY LeastIs
<1>2. Least(S) <= n /\ n <= Least(S) /\ Least(S) \in Nat
  BY <1>1
<1>. QED BY <1>2

\* The first of some offsets of a range that has them is in the range.
LEMMA LeastWithin ==
    ASSUME NEW a \in Nat, NEW b \in Nat, NEW S, S \subseteq a..b, b \in S
    PROVE  Least(S) \in a..b
<1>1. S \subseteq Nat
  OBVIOUS
<1>. QED BY <1>1, LeastIs

\* More bytes bring no line end before those that were there.
LEMMA CrLfsGrow ==
    ASSUME NEW d, NEW e, Grows(d, e), NEW from \in Nat
    PROVE  /\ CrLfs(d, from) = {k \in CrLfs(e, from) : k + 2 <= Len(d)}
           /\ CrLfs(e, from) \subseteq Nat
<1>1. Len(d) \in Nat /\ Len(e) \in Nat /\ Len(d) <= Len(e)
  BY DEF Grows
<1>2. ASSUME NEW k \in Nat, k + 2 <= Len(d)
      PROVE  At(e, k) = At(d, k) /\ At(e, k + 1) = At(d, k + 1)
  BY <1>1, <1>2 DEF Grows, At
<1>3. ASSUME NEW k \in CrLfs(d, from) PROVE k \in CrLfs(e, from) /\ k + 2 <= Len(d)
  <2>1. k \in Nat /\ k + 2 <= Len(d) /\ k \in from..Len(d) - 2
    BY <1>1 DEF CrLfs
  <2>2. k \in from..Len(e) - 2
    BY <2>1, <1>1
  <2>. QED BY <2>1, <2>2, <1>2 DEF CrLfs
<1>4. ASSUME NEW k \in CrLfs(e, from), k + 2 <= Len(d) PROVE k \in CrLfs(d, from)
  <2>1. k \in Nat /\ k \in from..Len(d) - 2
    BY <1>4, <1>1 DEF CrLfs
  <2>. QED BY <2>1, <1>4, <1>2 DEF CrLfs
<1>5. CrLfs(e, from) \subseteq Nat
  BY <1>1 DEF CrLfs
<1>. QED BY <1>3, <1>4, <1>5

\* A line's end is within the bytes.
LEMMA CrLfsAreOffsets ==
    ASSUME NEW d \in Seq(BodyBytes), NEW from \in Nat
    PROVE  /\ CrLfs(d, from) \subseteq Nat
           /\ \A k \in CrLfs(d, from) : from <= k /\ k + 2 <= Len(d)
BY DEF CrLfs

\* Bytes with none behind them count as grown.
LEMMA GrowsSelf ==
    ASSUME NEW d \in Seq(BodyBytes)
    PROVE  Grows(d, d)
BY DEF Grows

\* The first line end stays where it is.
LEMMA LineEndStays ==
    ASSUME NEW d, NEW e, Grows(d, e), NEW from \in Nat, CrLfs(d, from) # {}
    PROVE  /\ CrLfs(e, from) # {}
           /\ Least(CrLfs(e, from)) = Least(CrLfs(d, from))
<1>. DEFINE n == Least(CrLfs(d, from))
<1>1. CrLfs(d, from) = {k \in CrLfs(e, from) : k + 2 <= Len(d)} /\ CrLfs(e, from) \subseteq Nat
  BY CrLfsGrow
<1>2. n \in CrLfs(d, from) /\ \A m \in CrLfs(d, from) : n <= m
  <2>1. CrLfs(d, from) \subseteq Nat
    BY <1>1
  <2>. QED BY <2>1, LeastIs
<1>3. n \in CrLfs(e, from) /\ n + 2 <= Len(d) /\ n \in Nat /\ Len(d) \in Nat
  BY <1>1, <1>2 DEF Grows
<1>4. ASSUME NEW m \in CrLfs(e, from) PROVE n <= m
  <2>. HIDE DEF n
  <2>1. CASE m + 2 <= Len(d)
    BY <2>1, <1>1, <1>2
  <2>2. CASE ~(m + 2 <= Len(d))
    <3>1. m \in Nat
      BY <1>1
    <3>. QED BY <3>1, <2>2, <1>3
  <2>. QED BY <2>1, <2>2
<1>5. Least(CrLfs(e, from)) = n
  <2>. HIDE DEF n
  <2>. QED BY <1>1, <1>3, <1>4, LeastOnly
<1>. QED BY <1>3, <1>5

\* The line that ends at `to' is the first one from `from' on.
LEMMA LineIs ==
    ASSUME NEW d \in Seq(BodyBytes), NEW from \in Nat, NEW to \in Nat
    PROVE  /\ IsLine(d, from, to) <=> CrLfs(d, from) # {} /\ to = Least(CrLfs(d, from)) + 2
           /\ IsLine(d, from, to) => from + 2 <= to /\ to <= Len(d)
<1>1. CrLfs(d, from) \subseteq Nat /\ \A k \in CrLfs(d, from) : from <= k /\ k + 2 <= Len(d)
  BY CrLfsAreOffsets
<1>2. ASSUME IsLine(d, from, to)
      PROVE  CrLfs(d, from) # {} /\ to = Least(CrLfs(d, from)) + 2 /\ from + 2 <= to /\ to <= Len(d)
  <2>1. to - 2 \in CrLfs(d, from) /\ \A m \in CrLfs(d, from) : to - 2 <= m
    BY <1>2 DEF IsLine
  <2>2. Least(CrLfs(d, from)) = to - 2
    BY <2>1, <1>1, LeastOnly
  <2>3. from <= to - 2 /\ (to - 2) + 2 <= Len(d) /\ to - 2 \in Nat
    BY <2>1, <1>1
  <2>. QED BY <2>1, <2>2, <2>3
<1>3. ASSUME CrLfs(d, from) # {}, to = Least(CrLfs(d, from)) + 2
      PROVE  IsLine(d, from, to)
  <2>1. Least(CrLfs(d, from)) \in CrLfs(d, from) /\ \A m \in CrLfs(d, from) : Least(CrLfs(d, from)) <= m
    BY <1>1, <1>3, LeastIs
  <2>2. to - 2 = Least(CrLfs(d, from))
    BY <2>1, <1>1, <1>3
  <2>. QED BY <2>1, <2>2 DEF IsLine
<1>. QED BY <1>2, <1>3

\* A line stays one, whatever comes behind it.
LEMMA LineStays ==
    ASSUME NEW d, NEW e, Grows(d, e), NEW from \in Nat, NEW to \in Nat, to <= Len(d)
    PROVE  IsLine(e, from, to) <=> IsLine(d, from, to)
<1>. USE DEF Grows
<1>1. ASSUME IsLine(d, from, to) PROVE IsLine(e, from, to)
  BY <1>1, LineIs, LineEndStays
<1>2. ASSUME IsLine(e, from, to) PROVE IsLine(d, from, to)
  <2>1. to - 2 \in CrLfs(e, from)
    BY <1>2 DEF IsLine
  <2>2. CrLfs(d, from) = {k \in CrLfs(e, from) : k + 2 <= Len(d)} /\ Len(d) \in Nat
    BY CrLfsGrow
  <2>3. to - 2 \in CrLfs(d, from)
    BY <2>1, <2>2
  <2>4. \A m \in CrLfs(d, from) : to - 2 <= m
    BY <2>2, <1>2 DEF IsLine
  <2>. QED BY <2>3, <2>4 DEF IsLine
<1>. QED BY <1>1, <1>2

\* What is read of d is read of e.
LEMMA SubSeqStays ==
    ASSUME NEW d, NEW e, Grows(d, e), NEW from \in Nat, NEW n \in Nat, n <= Len(d)
    PROVE  /\ SubSeq(e, from + 1, n) = SubSeq(d, from + 1, n)
           /\ SubSeq(d, from + 1, n) \in Seq(BodyBytes)
<1>1. Len(d) \in Nat /\ Len(e) \in Nat /\ Len(d) <= Len(e) /\ d \in Seq(BodyBytes) /\ e \in Seq(BodyBytes)
      /\ \A i \in 1..Len(d) : e[i] = d[i]
  BY DEF Grows
<1>2. ASSUME NEW i \in from + 1..n PROVE e[i] = d[i] /\ d[i] \in BodyBytes /\ e[i] \in BodyBytes
  <2>1. i \in 1..Len(d)
    BY <1>1
  <2>. QED BY <1>1, <2>1, ElementOfSeq
<1>3. /\ SubSeq(d, from + 1, n) \in Seq(BodyBytes)
      /\ Len(SubSeq(d, from + 1, n)) = IF from + 1 <= n THEN n - (from + 1) + 1 ELSE 0
      /\ \A i \in 1..n - (from + 1) + 1 : SubSeq(d, from + 1, n)[i] = d[from + 1 + i - 1]
  BY <1>2, SubSeqProperties
<1>4. /\ SubSeq(e, from + 1, n) \in Seq(BodyBytes)
      /\ Len(SubSeq(e, from + 1, n)) = IF from + 1 <= n THEN n - (from + 1) + 1 ELSE 0
      /\ \A i \in 1..n - (from + 1) + 1 : SubSeq(e, from + 1, n)[i] = e[from + 1 + i - 1]
  BY <1>2, SubSeqProperties
<1>5. ASSUME NEW i \in 1..Len(SubSeq(d, from + 1, n))
      PROVE  SubSeq(e, from + 1, n)[i] = SubSeq(d, from + 1, n)[i]
  <2>1. i \in 1..n - (from + 1) + 1 /\ from + 1 + i - 1 \in from + 1..n
    BY <1>3
  <2>. QED BY <2>1, <1>2, <1>3, <1>4
<1>. QED BY <1>3, <1>4, <1>5, SeqEqual

\* The digits of a size line, and their value.
LEMMA DigitsStay ==
    ASSUME NEW d, NEW e, Grows(d, e), NEW from \in Nat, NEW eol \in Nat, from <= eol, eol <= Len(d)
    PROVE  /\ Digits(e, from, eol) = Digits(d, from, eol)
           /\ Digits(d, from, eol) \in Seq(BodyBytes)
<1>1. Len(d) \in Nat /\ Len(e) \in Nat /\ Len(d) <= Len(e) /\ d \in Seq(BodyBytes) /\ e \in Seq(BodyBytes)
      /\ \A i \in 1..Len(d) : e[i] = d[i]
  BY DEF Grows
<1>2. ASSUME NEW k \in Nat, k < eol PROVE At(e, k) = At(d, k)
  <2>1. k + 1 \in 1..Len(d)
    BY <1>1, <1>2
  <2>. QED BY <2>1, <1>1 DEF At
<1>. DEFINE E == {k \in from..eol : k = eol \/ At(d, k) = ";"}
            stop == Least(E)
<1>3. stop \in from..eol
  <2>1. E \subseteq from..eol
    OBVIOUS
  <2>2. eol \in E
    OBVIOUS
  <2>. HIDE DEF E
  <2>. QED BY <2>1, <2>2, LeastWithin
<1>4. {k \in from..eol : k = eol \/ At(e, k) = ";"} = E
  <2>. HIDE DEF stop
  <2>1. ASSUME NEW k \in from..eol PROVE k = eol \/ At(e, k) = At(d, k)
    BY <1>2
  <2>. QED BY <2>1
<1>. HIDE DEF E
<1>. HIDE DEF stop
<1>. DEFINE L == {k \in from..stop : \A j \in k..stop - 1 : At(d, j) \in Blanks}
            last == Least(L)
<1>5. last \in from..stop
  <2>0. stop \in Nat /\ from <= stop
    BY <1>3
  <2>1. L \subseteq from..stop
    OBVIOUS
  <2>2. stop \in L
    BY <2>0
  <2>. HIDE DEF L
  <2>. QED BY <2>0, <2>1, <2>2, LeastWithin
<1>6. {k \in from..stop : \A j \in k..stop - 1 : At(e, j) \in Blanks} = L
  <2>. HIDE DEF last
  <2>1. ASSUME NEW k \in from..stop, NEW j \in k..stop - 1 PROVE At(e, j) = At(d, j)
    <3>1. j \in Nat /\ j < eol
      BY <1>3
    <3>. QED BY <3>1, <1>2
  <2>. QED BY <2>1
<1>. HIDE DEF L
<1>. HIDE DEF last
<1>. DEFINE F == {k \in from..last : k = last \/ At(d, k) \notin Blanks}
            first == Least(F)
<1>7. first \in from..last
  <2>0. last \in Nat /\ from <= last
    BY <1>3, <1>5
  <2>1. F \subseteq from..last
    OBVIOUS
  <2>2. last \in F
    BY <2>0
  <2>. HIDE DEF F
  <2>. QED BY <2>0, <2>1, <2>2, LeastWithin
<1>9. {k \in from..last : k = last \/ At(e, k) \notin Blanks} = F
  <2>. HIDE DEF first
  <2>1. ASSUME NEW k \in from..last PROVE k = last \/ At(e, k) = At(d, k)
    <3>1. k \in Nat /\ (k # last => k < eol)
      BY <1>3, <1>5
    <3>. QED BY <3>1, <1>2
  <2>. QED BY <2>1
<1>. HIDE DEF F
<1>. HIDE DEF first
<1>10. Digits(d, from, eol) = SubSeq(d, first + 1, last)
  BY DEF Digits, E, L, F, stop, last, first
<1>11. Digits(e, from, eol) = SubSeq(e, first + 1, last)
  BY <1>4, <1>6, <1>9 DEF Digits, stop, last, first
<1>8. first \in Nat /\ last \in Nat /\ last <= Len(d)
  BY <1>1, <1>3, <1>5, <1>7
<1>12. SubSeq(e, first + 1, last) = SubSeq(d, first + 1, last) /\ SubSeq(d, first + 1, last) \in Seq(BodyBytes)
  BY <1>8, SubSeqStays
<1>. QED BY <1>10, <1>11, <1>12

\* The value of the digits is a number.
LEMMA HexValueIsNat ==
    ASSUME NEW line \in Seq(BodyBytes)
    PROVE  HexValue(line) \in Nat
<1>. DEFINE Of(f, i) == IF i = 0 THEN 0 ELSE 16 * f[i - 1] + (IF line[i] = "1" THEN 1 ELSE 0)
            Is(f, m) == f = [i \in 0..m |-> Of(f, i)]
            T == {m \in Nat : \E f : Is(f, m) /\ \A i \in 0..m : f[i] \in Nat}
<1>1. 0 \in T
  <2>. DEFINE g == [i \in 0..0 |-> 0]
  <2>1. Is(g, 0) /\ \A i \in 0..0 : g[i] \in Nat
    OBVIOUS
  <2>2. \E h : Is(h, 0) /\ \A i \in 0..0 : h[i] \in Nat
    <3>. HIDE DEF Is, g
    <3>. QED BY <2>1
  <2>. QED BY <2>2
<1>2. ASSUME NEW m \in Nat, m \in T PROVE m + 1 \in T
  <2>1. PICK f : Is(f, m) /\ \A i \in 0..m : f[i] \in Nat
    BY <1>2
  <2>. DEFINE next == 16 * f[m] + (IF line[m + 1] = "1" THEN 1 ELSE 0)
              g == [i \in 0..m + 1 |-> IF i <= m THEN f[i] ELSE next]
  <2>2. ASSUME NEW i \in 0..m + 1 PROVE g[i] = Of(g, i)
    BY <2>1
  <2>3. Is(g, m + 1)
    BY <2>2
  <2>4. \A i \in 0..m + 1 : g[i] \in Nat
    BY <2>1
  <2>5. \E h : Is(h, m + 1) /\ \A i \in 0..m + 1 : h[i] \in Nat
    <3>. HIDE DEF Is, g
    <3>. QED BY <2>3, <2>4
  <2>. HIDE DEF Is
  <2>. QED BY <2>5
<1>3. Len(line) \in T
  <2>. HIDE DEF T
  <2>. QED BY <1>1, <1>2, SetInduction
<1>4. PICK f : Is(f, Len(line)) /\ \A i \in 0..Len(line) : f[i] \in Nat
  BY <1>3
<1>. DEFINE F == CHOOSE h : Is(h, Len(line))
<1>5. Is(F, Len(line))
  BY <1>4
<1>6. HexValue(line) = F[Len(line)]
  BY DEF HexValue
<1>. DEFINE U == {m \in Nat : m <= Len(line) => F[m] \in Nat}
<1>6a. \A i \in 0..Len(line) : F[i] = Of(F, i)
  BY <1>5
<1>. HIDE DEF F
<1>7. 0 \in U
  BY <1>6a
<1>8. ASSUME NEW m \in Nat, m \in U PROVE m + 1 \in U
  <2>. SUFFICES ASSUME m + 1 <= Len(line) PROVE F[m + 1] \in Nat
    OBVIOUS
  <2>1. F[m] \in Nat
    BY <1>8
  <2>2. F[m + 1] = 16 * F[m] + (IF line[m + 1] = "1" THEN 1 ELSE 0)
    BY <1>6a
  <2>. QED BY <2>1, <2>2
<1>9. Len(line) \in U
  <2>. HIDE DEF U
  <2>. QED BY <1>7, <1>8, SetInduction
<1>. QED BY <1>6, <1>9


----------------------------------------------------------------------------
\* A size line of d is one of e, with the same value.
LEMMA SizeLineStays ==
    ASSUME NEW d, NEW e, Grows(d, e), NEW from \in Nat, NEW to \in Nat, to <= Len(d)
    PROVE  /\ IsSizeLine(e, from, to) <=> IsSizeLine(d, from, to)
           /\ IsSizeLine(d, from, to) => /\ SizeOf(e, from, to) = SizeOf(d, from, to)
                                         /\ SizeOf(d, from, to) \in Nat
                                         /\ from + 2 <= to
<1>1. IsLine(e, from, to) <=> IsLine(d, from, to)
  BY LineStays
<1>2. ASSUME IsLine(d, from, to)
      PROVE  /\ Digits(e, from, to - 2) = Digits(d, from, to - 2)
             /\ Digits(d, from, to - 2) \in Seq(BodyBytes)
             /\ from + 2 <= to
  <2>0. d \in Seq(BodyBytes) /\ Len(d) \in Nat
    BY DEF Grows
  <2>1. from + 2 <= to
    BY <2>0, <1>2, LineIs
  <2>2. to - 2 \in Nat /\ to - 2 <= Len(d) /\ from <= to - 2
    BY <2>0, <2>1
  <2>3. Digits(e, from, to - 2) = Digits(d, from, to - 2) /\ Digits(d, from, to - 2) \in Seq(BodyBytes)
    BY <2>2, DigitsStay
  <2>. QED BY <2>1, <2>3
<1>3. ASSUME IsLine(d, from, to) PROVE SizeOf(d, from, to) \in Nat
  BY <1>2, <1>3, HexValueIsNat DEF SizeOf
<1>. QED BY <1>1, <1>2, <1>3 DEF IsSizeLine, SizeOf

\* From one offset there is one line, and so at most one chunk.
LEMMA OneLine ==
    ASSUME NEW d \in Seq(BodyBytes), NEW from \in Nat, NEW i \in Nat, NEW j \in Nat,
           IsLine(d, from, i), IsLine(d, from, j)
    PROVE  i = j
BY LineIs

ChunkIn(d, from, c) ==
    /\ c = [first |-> c.first, end |-> c.end]
    /\ c.first \in Nat /\ c.end \in Nat
    /\ from + 2 <= c.first /\ c.first < c.end /\ c.end + 2 <= Len(d)
    /\ IsSizeLine(d, from, c.first) /\ c.end = c.first + SizeOf(d, from, c.first)
    /\ c.end \in CrLfs(d, 0)

\* A chunk, said of its size line, its data and the line end behind them.
LEMMA ChunkIs ==
    ASSUME NEW d \in Seq(BodyBytes), NEW from \in Nat, NEW c
    PROVE  c \in Chunks(d, from) <=> ChunkIn(d, from, c)
<1>0. Len(d) \in Nat
  OBVIOUS
<1>1. ASSUME c \in Chunks(d, from) PROVE ChunkIn(d, from, c)
  <2>1. PICK k \in from..Len(d) :
          /\ IsSizeLine(d, from, k) /\ SizeOf(d, from, k) > 0
          /\ k + SizeOf(d, from, k) \in CrLfs(d, 0)
          /\ c = [first |-> k, end |-> k + SizeOf(d, from, k)]
    BY <1>1 DEF Chunks
  <2>2. k \in Nat /\ k <= Len(d)
    BY <1>0
  <2>3. from + 2 <= k /\ SizeOf(d, from, k) \in Nat
    BY <2>1, <2>2, GrowsSelf, SizeLineStays
  <2>4. (k + SizeOf(d, from, k)) + 2 <= Len(d)
    BY <2>1, CrLfsAreOffsets
  <2>5. c.first = k /\ c.end = k + SizeOf(d, from, k)
    BY <2>1
  <2>. QED BY <2>1, <2>2, <2>3, <2>4, <2>5 DEF ChunkIn
<1>2. ASSUME ChunkIn(d, from, c) PROVE c \in Chunks(d, from)
  <2>1. c.first \in from..Len(d)
    BY <1>2, <1>0 DEF ChunkIn
  <2>2. SizeOf(d, from, c.first) \in Nat
    <3>1. c.first \in Nat /\ c.first <= Len(d) /\ IsSizeLine(d, from, c.first)
      BY <2>1, <1>2, <1>0 DEF ChunkIn
    <3>. QED BY <3>1, GrowsSelf, SizeLineStays
  <2>3. SizeOf(d, from, c.first) > 0
    BY <1>2, <2>2 DEF ChunkIn
  <2>4. c.first + SizeOf(d, from, c.first) \in CrLfs(d, 0)
    BY <1>2 DEF ChunkIn
  <2>5. c = [first |-> c.first, end |-> c.first + SizeOf(d, from, c.first)]
    BY <1>2 DEF ChunkIn
  <2>. QED BY <2>1, <2>3, <2>4, <2>5, <1>2 DEF Chunks, ChunkIn
<1>. QED BY <1>1, <1>2

\* At an offset at most one chunk begins.
LEMMA OneChunk ==
    ASSUME NEW d \in Seq(BodyBytes), NEW from \in Nat,
           NEW b \in Chunks(d, from), NEW c \in Chunks(d, from)
    PROVE  b = c
<1>1. ChunkIn(d, from, b) /\ ChunkIn(d, from, c)
  BY ChunkIs
<1>2. b.first = c.first
  BY <1>1, OneLine DEF ChunkIn, IsSizeLine
<1>3. b.end = c.end
  BY <1>1, <1>2 DEF ChunkIn
<1>. QED BY <1>1, <1>2, <1>3 DEF ChunkIn

\* The chunks of some bytes are those of more bytes that end within them.
LEMMA ChunksStay ==
    ASSUME NEW d, NEW e, Grows(d, e), NEW from \in Nat
    PROVE  Chunks(d, from) = {c \in Chunks(e, from) : c.end + 2 <= Len(d)}
<1>0. d \in Seq(BodyBytes) /\ e \in Seq(BodyBytes) /\ Len(d) \in Nat /\ Len(e) \in Nat /\ Len(d) <= Len(e)
  BY DEF Grows
<1>1. CrLfs(d, 0) = {k \in CrLfs(e, 0) : k + 2 <= Len(d)}
  BY CrLfsGrow
<1>2. ASSUME NEW c, ChunkIn(d, from, c) PROVE ChunkIn(e, from, c) /\ c.end + 2 <= Len(d)
  <2>1. /\ c = [first |-> c.first, end |-> c.end] /\ c.first \in Nat /\ c.end \in Nat
        /\ from + 2 <= c.first /\ c.first < c.end /\ c.end + 2 <= Len(d)
        /\ IsSizeLine(d, from, c.first) /\ c.end = c.first + SizeOf(d, from, c.first)
        /\ c.end \in CrLfs(d, 0)
    BY <1>2 DEF ChunkIn
  <2>2. c.first <= Len(d) /\ c.end + 2 <= Len(e)
    BY <2>1, <1>0
  <2>3. IsSizeLine(e, from, c.first) /\ SizeOf(e, from, c.first) = SizeOf(d, from, c.first)
    BY <2>1, <2>2, SizeLineStays
  <2>4. c.end \in CrLfs(e, 0)
    BY <2>1, <1>1
  <2>. QED BY <2>1, <2>2, <2>3, <2>4 DEF ChunkIn
<1>3. ASSUME NEW c, ChunkIn(e, from, c), c.end + 2 <= Len(d) PROVE ChunkIn(d, from, c)
  <2>1. /\ c = [first |-> c.first, end |-> c.end] /\ c.first \in Nat /\ c.end \in Nat
        /\ from + 2 <= c.first /\ c.first < c.end
        /\ IsSizeLine(e, from, c.first) /\ c.end = c.first + SizeOf(e, from, c.first)
        /\ c.end \in CrLfs(e, 0)
    BY <1>3 DEF ChunkIn
  <2>2. c.first <= Len(d)
    BY <2>1, <1>0, <1>3
  <2>3. IsSizeLine(d, from, c.first) /\ SizeOf(e, from, c.first) = SizeOf(d, from, c.first)
    BY <2>1, <2>2, SizeLineStays
  <2>4. c.end \in CrLfs(d, 0)
    BY <2>1, <1>1, <1>3
  <2>. QED BY <2>1, <2>2, <2>3, <2>4, <1>3 DEF ChunkIn
<1>4. ASSUME NEW c PROVE c \in Chunks(d, from) <=> c \in Chunks(e, from) /\ c.end + 2 <= Len(d)
  <2>1. c \in Chunks(d, from) <=> ChunkIn(d, from, c)
    BY <1>0, ChunkIs
  <2>2. c \in Chunks(e, from) <=> ChunkIn(e, from, c)
    BY <1>0, ChunkIs
  <2>. QED BY <2>1, <2>2, <1>2, <1>3
<1>. QED BY <1>4

----------------------------------------------------------------------------
\* The recursive definition of Content is what its equation says.
ContentsOf(d, f, i) ==
    IF i = 0 THEN {<<>>} ELSE UNION {Extended(d, f[m], m, i) : m \in 0..i - 1}

IsContents(d, f, n) == f = [i \in 0..n |-> ContentsOf(d, f, i)]

\* The content up to an offset depends on that up to earlier ones only.
LEMMA ContentsOfSame ==
    ASSUME NEW d, NEW f, NEW g, NEW i \in Nat, \A j \in 0..i - 1 : f[j] = g[j]
    PROVE  ContentsOf(d, f, i) = ContentsOf(d, g, i)
BY DEF ContentsOf

\* Two functions that satisfy the equations of Content agree where both are defined.
LEMMA ContentsAgree ==
    ASSUME NEW d, NEW f, NEW g, NEW m \in Nat, NEW n \in Nat,
           IsContents(d, f, m), IsContents(d, g, n)
    PROVE  \A i \in 0..m : i <= n => f[i] = g[i]
<1>. DEFINE U == {i \in 0..m : i <= n /\ f[i] # g[i]}
<1>. SUFFICES ASSUME U # {} PROVE FALSE
  OBVIOUS
<1>1. PICK i \in U : \A j \in U : i <= j
  <2>1. U \subseteq Nat
    OBVIOUS
  <2>. HIDE DEF U
  <2>. QED BY <2>1, LeastNat
<1>2. i \in 0..m /\ i \in 0..n /\ f[i] # g[i]
  OBVIOUS
<1>3. ASSUME NEW j \in 0..i - 1 PROVE f[j] = g[j]
  <2>1. j \notin U
    BY <1>1, <1>2
  <2>2. j \in 0..m /\ j <= n
    BY <1>2
  <2>. QED BY <2>1, <2>2
<1>4. ContentsOf(d, f, i) = ContentsOf(d, g, i)
  <2>1. i \in Nat
    BY <1>2
  <2>. HIDE DEF U
  <2>. QED BY <2>1, <1>3, ContentsOfSame
<1>5. f[i] = ContentsOf(d, f, i) /\ g[i] = ContentsOf(d, g, i)
  BY <1>2 DEF IsContents
<1>. QED BY <1>2, <1>4, <1>5

\* There is a function that satisfies the equations of Content, for every length.
LEMMA ContentsExist ==
    ASSUME NEW d, NEW n \in Nat
    PROVE  \E f : f = [i \in 0..n |-> ContentsOf(d, f, i)]
<1>. DEFINE Is(f, m) == f = [i \in 0..m |-> ContentsOf(d, f, i)]
            T == {m \in Nat : \E f : Is(f, m)}
<1>1. 0 \in T
  <2>. DEFINE g == [i \in 0..0 |-> {<<>>}]
  <2>1. Is(g, 0)
    BY DEF ContentsOf
  <2>2. \E h : Is(h, 0)
    <3>. HIDE DEF Is, g
    <3>. QED BY <2>1
  <2>. QED BY <2>2
<1>2. ASSUME NEW m \in Nat, m \in T PROVE m + 1 \in T
  <2>1. PICK f : Is(f, m)
    BY <1>2
  <2>. DEFINE last == ContentsOf(d, f, m + 1)
              g == [i \in 0..m + 1 |-> IF i <= m THEN f[i] ELSE last]
  <2>2. ASSUME NEW i \in 0..m + 1 PROVE g[i] = ContentsOf(d, g, i)
    <3>1. ASSUME NEW j \in 0..i - 1 PROVE g[j] = f[j]
      <4>. HIDE DEF last
      <4>. QED OBVIOUS
    <3>2. ContentsOf(d, g, i) = ContentsOf(d, f, i)
      <4>. HIDE DEF g
      <4>. QED BY <3>1 DEF ContentsOf
    <3>3. CASE i <= m
      <4>1. g[i] = f[i]
        <5>. HIDE DEF last
        <5>. QED BY <3>3
      <4>2. f[i] = ContentsOf(d, f, i)
        BY <2>1, <3>3
      <4>. QED BY <4>1, <4>2, <3>2
    <3>4. CASE i = m + 1
      <4>1. g[i] = last
        <5>. HIDE DEF last
        <5>. QED BY <3>4
      <4>. QED BY <4>1, <3>2, <3>4
    <3>. QED BY <3>3, <3>4
  <2>3. Is(g, m + 1)
    <3>1. g = [i \in 0..m + 1 |-> g[i]]
      OBVIOUS
    <3>. HIDE DEF g
    <3>. QED BY <2>2, <3>1
  <2>4. \E h : Is(h, m + 1)
    <3>. HIDE DEF Is, g
    <3>. QED BY <2>3
  <2>. HIDE DEF Is
  <2>. QED BY <2>4
<1>3. n \in T
  <2>. HIDE DEF T
  <2>. QED BY <1>1, <1>2, SetInduction
<1>. QED BY <1>3

\* Content satisfies its recursive definition.
LEMMA ContentsUnfold ==
    ASSUME NEW d, NEW n \in Nat
    PROVE  Content(d, n) = IF n = 0 THEN {<<>>}
                            ELSE UNION {Extended(d, Content(d, m), m, n) : m \in 0..n - 1}
<1>. DEFINE F(m) == CHOOSE f : f = [i \in 0..m |-> ContentsOf(d, f, i)]
<1>1. ASSUME NEW m \in Nat PROVE F(m) = [i \in 0..m |-> ContentsOf(d, F(m), i)]
  BY ContentsExist
<1>2. ASSUME NEW m \in Nat PROVE Content(d, m) = F(m)[m]
  BY DEF Content, ContentsOf
<1>. HIDE DEF F
<1>3. ASSUME NEW m \in 0..n PROVE F(n)[m] = Content(d, m)
  <2>0. m \in Nat
    OBVIOUS
  <2>. DEFINE f == F(n)
              g == F(m)
  <2>1. IsContents(d, f, n) /\ IsContents(d, g, m)
    BY <1>1, <2>0 DEF IsContents
  <2>2. \A i \in 0..n : i <= m => f[i] = g[i]
    <3>. HIDE DEF f, g
    <3>. QED BY <2>0, <2>1, ContentsAgree
  <2>. QED BY <2>0, <2>2, <1>2
<1>4. Content(d, n) = ContentsOf(d, F(n), n)
  <2>1. F(n)[n] = ContentsOf(d, F(n), n)
    BY <1>1
  <2>. QED BY <2>1, <1>2
<1>5. CASE n = 0
  BY <1>5, <1>4 DEF ContentsOf
<1>6. CASE n # 0
  BY <1>6, <1>3, <1>4 DEF ContentsOf
<1>. QED BY <1>5, <1>6

\* An extension is some content before a chunk, with the data of the chunk.
LEMMA ExtendedIs ==
    ASSUME NEW d, NEW before, NEW m, NEW n, NEW x
    PROVE  x \in Extended(d, before, m, n) <=>
              \E c \in Chunks(d, m) : /\ c.end + 2 = n
                                       /\ \E body \in before : x = Joined(d, body, c)
BY DEF Extended

\* What precedes an offset is not changed by what follows it.
LEMMA ContentsStay ==
    ASSUME NEW d, NEW e, Grows(d, e)
    PROVE  \A n \in 0..Len(d) : Content(e, n) = Content(d, n)
<1>0. d \in Seq(BodyBytes) /\ e \in Seq(BodyBytes) /\ Len(d) \in Nat
  BY DEF Grows
<1>. DEFINE U == {n \in 0..Len(d) : Content(e, n) # Content(d, n)}
<1>. SUFFICES ASSUME U # {} PROVE FALSE
  OBVIOUS
<1>1. PICK n \in U : \A m \in U : n <= m
  <2>1. U \subseteq Nat
    BY <1>0
  <2>. HIDE DEF U
  <2>. QED BY <2>1, LeastNat
<1>2. n \in 0..Len(d) /\ n \in Nat /\ Content(e, n) # Content(d, n)
  BY <1>0
<1>3. ASSUME NEW m \in 0..n - 1 PROVE Content(e, m) = Content(d, m)
  <2>1. m \notin U
    BY <1>1, <1>2
  <2>2. m \in 0..Len(d)
    BY <1>2, <1>0
  <2>. QED BY <2>1, <2>2
<1>4. ASSUME NEW m \in 0..n - 1
      PROVE  Extended(e, Content(e, m), m, n) = Extended(d, Content(d, m), m, n)
  <2>1. Chunks(d, m) = {c \in Chunks(e, m) : c.end + 2 <= Len(d)} /\ m \in Nat
    BY <1>2, ChunksStay
  <2>2. {c \in Chunks(e, m) : c.end + 2 = n} = {c \in Chunks(d, m) : c.end + 2 = n}
    BY <2>1, <1>2, <1>0
  <2>3. ASSUME NEW c \in Chunks(d, m)
        PROVE  \A body : Joined(e, body, c) = Joined(d, body, c)
    <3>1. c.first \in Nat /\ c.end \in Nat /\ c.end <= Len(d)
      BY <2>1, <1>0, ChunkIs DEF ChunkIn
    <3>. QED BY <3>1, SubSeqStays DEF Joined
  <2>4. ASSUME NEW x
        PROVE  x \in Extended(e, Content(e, m), m, n) <=> x \in Extended(d, Content(d, m), m, n)
    <3>1. ASSUME NEW c PROVE c \in Chunks(e, m) /\ c.end + 2 = n <=> c \in Chunks(d, m) /\ c.end + 2 = n
      BY <2>2
    <3>2. Content(e, m) = Content(d, m)
      BY <1>3
    <3>3. ASSUME x \in Extended(e, Content(e, m), m, n) PROVE x \in Extended(d, Content(d, m), m, n)
      <4>1. PICK c \in Chunks(e, m) : /\ c.end + 2 = n
                                      /\ \E body \in Content(e, m) : x = Joined(e, body, c)
        BY <3>3, ExtendedIs
      <4>2. c \in Chunks(d, m)
        BY <4>1, <3>1
      <4>3. \A body : Joined(e, body, c) = Joined(d, body, c)
        BY <4>2, <2>3
      <4>. QED BY <4>1, <4>2, <4>3, <3>2, ExtendedIs
    <3>4. ASSUME x \in Extended(d, Content(d, m), m, n) PROVE x \in Extended(e, Content(e, m), m, n)
      <4>1. PICK c \in Chunks(d, m) : /\ c.end + 2 = n
                                      /\ \E body \in Content(d, m) : x = Joined(d, body, c)
        BY <3>4, ExtendedIs
      <4>2. c \in Chunks(e, m)
        BY <4>1, <3>1
      <4>3. \A body : Joined(e, body, c) = Joined(d, body, c)
        BY <2>3
      <4>. QED BY <4>1, <4>2, <4>3, <3>2, ExtendedIs
    <3>. QED BY <3>3, <3>4
  <2>. QED BY <2>4
<1>5. Content(e, n) = Content(d, n)
  <2>1. CASE n = 0
    BY <2>1, ContentsUnfold
  <2>2. CASE n # 0
    <3>1. Content(e, n) = UNION {Extended(e, Content(e, m), m, n) : m \in 0..n - 1}
      BY <2>2, <1>2, ContentsUnfold
    <3>2. Content(d, n) = UNION {Extended(d, Content(d, m), m, n) : m \in 0..n - 1}
      BY <2>2, <1>2, ContentsUnfold
    <3>. QED BY <3>1, <3>2, <1>4
  <2>. QED BY <2>1, <2>2
<1>. QED BY <1>2, <1>5


----------------------------------------------------------------------------
\* The first p bytes are chunks with the content body, and no chunks lead elsewhere.
Passed(d, p, body) ==
    /\ p \in 0..Len(d)
    /\ Content(d, p) = {body}
    /\ \A q \in 0..p - 1 : Content(d, q) # {} => \E c \in Chunks(d, q) : c.end + 2 <= p

\* What leads to an offset is a chunk behind an earlier one that chunks lead to.
LEMMA LedTo ==
    ASSUME NEW d, NEW n \in Nat, n # 0, NEW x
    PROVE  x \in Content(d, n) <=>
              \E m \in 0..n - 1 : \E c \in Chunks(d, m) :
                 c.end + 2 = n /\ \E body \in Content(d, m) : x = Joined(d, body, c)
<1>1. x \in Content(d, n) <=> \E m \in 0..n - 1 : x \in Extended(d, Content(d, m), m, n)
  BY ContentsUnfold
<1>2. ASSUME NEW m PROVE x \in Extended(d, Content(d, m), m, n) <=>
              \E c \in Chunks(d, m) : /\ c.end + 2 = n
                                      /\ \E body \in Content(d, m) : x = Joined(d, body, c)
  BY ExtendedIs
<1>. QED BY <1>1, <1>2

\* Behind the chunks passed no chunk ends before the next one does.
LEMMA NothingBetween ==
    ASSUME NEW d \in Seq(BodyBytes), NEW p, NEW body, Passed(d, p, body), NEW limit \in Nat,
           \A c \in Chunks(d, p) : limit <= c.end + 2
    PROVE  \A m \in p + 1..limit - 1 : Content(d, m) = {}
<1>0. p \in Nat /\ Len(d) \in Nat /\ p <= Len(d)
  BY DEF Passed
<1>. DEFINE U == {m \in p + 1..limit - 1 : Content(d, m) # {}}
<1>. SUFFICES ASSUME U # {} PROVE FALSE
  OBVIOUS
<1>1. PICK n \in U : \A m \in U : n <= m
  <2>1. U \subseteq Nat
    BY <1>0
  <2>. HIDE DEF U
  <2>. QED BY <2>1, LeastNat
<1>2. n \in p + 1..limit - 1 /\ n \in Nat /\ n # 0 /\ Content(d, n) # {}
  BY <1>0
<1>3. PICK m \in 0..n - 1 : \E c \in Chunks(d, m) : c.end + 2 = n /\ Content(d, m) # {}
  <2>1. PICK x : x \in Content(d, n)
    BY <1>2
  <2>2. PICK m \in 0..n - 1 : \E c \in Chunks(d, m) :
                 c.end + 2 = n /\ \E before \in Content(d, m) : x = Joined(d, before, c)
    BY <2>1, <1>2, LedTo
  <2>. QED BY <2>2
<1>4. PICK c \in Chunks(d, m) : c.end + 2 = n /\ Content(d, m) # {}
  BY <1>3
<1>. HIDE DEF U
<1>5. m \in Nat /\ m < n
  BY <1>2
<1>6. CASE m < p
  <2>1. PICK b \in Chunks(d, m) : b.end + 2 <= p
    BY <1>4, <1>5, <1>6, <1>0 DEF Passed
  <2>2. b = c
    BY <1>5, OneChunk
  <2>. QED BY <2>1, <2>2, <1>4, <1>2, <1>0
<1>7. CASE m = p
  BY <1>7, <1>4, <1>2
<1>8. CASE m > p
  <2>1. m \in U
    BY <1>8, <1>4, <1>5, <1>2, <1>0 DEF U
  <2>. QED BY <2>1, <1>1, <1>5, <1>2
<1>. QED BY <1>5, <1>6, <1>7, <1>8, <1>0

\* Past one more chunk.
LEMMA PassedOn ==
    ASSUME NEW d \in Seq(BodyBytes), NEW p, NEW body, Passed(d, p, body), NEW c \in Chunks(d, p)
    PROVE  Passed(d, c.end + 2, Joined(d, body, c))
<1>0. p \in Nat /\ Len(d) \in Nat /\ p <= Len(d)
  BY DEF Passed
<1>1. c.end \in Nat /\ p < c.end /\ c.end + 2 <= Len(d)
  <2>1. ChunkIn(d, p, c)
    BY <1>0, ChunkIs
  <2>. QED BY <2>1, <1>0 DEF ChunkIn
<1>. DEFINE n == c.end + 2
<1>2. n \in 0..Len(d) /\ n \in Nat /\ n # 0 /\ p < n
  BY <1>0, <1>1
<1>3. \A b \in Chunks(d, p) : b = c
  BY <1>0, OneChunk
<1>4. \A m \in p + 1..n - 1 : Content(d, m) = {}
  <2>1. \A b \in Chunks(d, p) : n <= b.end + 2
    BY <1>3, <1>1
  <2>. HIDE DEF n
  <2>. QED BY <2>1, <1>2, NothingBetween
<1>5. Joined(d, body, c) \in Content(d, n)
  <2>1. p \in 0..n - 1 /\ body \in Content(d, p)
    BY <1>0, <1>1 DEF Passed
  <2>2. \E m \in 0..n - 1 : \E b \in Chunks(d, m) :
           b.end + 2 = n /\ \E o \in Content(d, m) : Joined(d, body, c) = Joined(d, o, b)
    BY <2>1
  <2>. HIDE DEF n
  <2>. QED BY <2>2, <1>2, LedTo
<1>6. ASSUME NEW x \in Content(d, n) PROVE x = Joined(d, body, c)
  <2>1. PICK m \in 0..n - 1 : \E b \in Chunks(d, m) :
           b.end + 2 = n /\ \E o \in Content(d, m) : x = Joined(d, o, b)
    <3>. HIDE DEF n
    <3>. QED BY <1>2, <1>6, LedTo
  <2>2. PICK b \in Chunks(d, m) : b.end + 2 = n /\ \E o \in Content(d, m) : x = Joined(d, o, b)
    BY <2>1
  <2>3. m \in Nat /\ m < n
    BY <1>2
  <2>. HIDE DEF n
  <2>4. CASE m < p
    <3>1. PICK a \in Chunks(d, m) : a.end + 2 <= p
      BY <2>2, <2>3, <2>4, <1>0 DEF Passed
    <3>2. a = b
      BY <2>3, OneChunk
    <3>. QED BY <3>1, <3>2, <2>2, <1>2, <1>0
  <2>5. CASE m = p
    BY <2>5, <2>2, <1>3 DEF Passed
  <2>6. CASE m > p
    <3>1. Content(d, m) = {}
      BY <2>6, <2>3, <1>4, <1>2, <1>0
    <3>. QED BY <3>1, <2>2
  <2>. QED BY <2>3, <2>4, <2>5, <2>6, <1>0
<1>7. ASSUME NEW q \in 0..n - 1, Content(d, q) # {}
      PROVE  \E b \in Chunks(d, q) : b.end + 2 <= n
  <2>1. CASE q < p
    <3>1. PICK b \in Chunks(d, q) : b.end + 2 <= p
      BY <2>1, <1>7, <1>2, <1>0 DEF Passed
    <3>2. b.end \in Nat
      <4>1. q \in Nat
        BY <1>2
      <4>. QED BY <4>1, ChunkIs DEF ChunkIn
    <3>3. b.end + 2 <= n
      <4>. HIDE DEF n
      <4>. QED BY <3>1, <3>2, <1>2, <1>0
    <3>. QED BY <3>3
  <2>2. CASE q = p
    BY <2>2, <1>1
  <2>3. CASE q > p
    <3>1. q \in p + 1..n - 1
      <4>. HIDE DEF n
      <4>. QED BY <2>3, <1>2, <1>0
    <3>. QED BY <3>1, <1>4, <1>7
  <2>4. q \in Nat
    BY <1>2
  <2>. QED BY <2>1, <2>2, <2>3, <2>4, <1>0
<1>8. Content(d, n) = {Joined(d, body, c)}
  BY <1>5, <1>6
<1>. HIDE DEF n
<1>9. Passed(d, n, Joined(d, body, c))
  BY <1>2, <1>7, <1>8 DEF Passed
<1>. QED BY <1>9 DEF n

\* Chunks that were passed stay so, whatever comes behind them.
LEMMA PassedStays ==
    ASSUME NEW d, NEW e, Grows(d, e), NEW p, NEW body, Passed(d, p, body)
    PROVE  Passed(e, p, body)
<1>0. d \in Seq(BodyBytes) /\ e \in Seq(BodyBytes) /\ Len(d) \in Nat /\ Len(e) \in Nat /\ Len(d) <= Len(e)
      /\ p \in Nat /\ p <= Len(d)
  BY DEF Grows, Passed
<1>1. \A n \in 0..Len(d) : Content(e, n) = Content(d, n)
  BY ContentsStay
<1>2. Content(e, p) = {body}
  BY <1>0, <1>1 DEF Passed
<1>3. ASSUME NEW q \in 0..p - 1, Content(e, q) # {}
      PROVE  \E c \in Chunks(e, q) : c.end + 2 <= p
  <2>1. Content(d, q) # {} /\ q \in Nat
    BY <1>0, <1>1, <1>3
  <2>2. PICK c \in Chunks(d, q) : c.end + 2 <= p
    BY <2>1, <1>0 DEF Passed
  <2>3. c \in Chunks(e, q)
    BY <2>1, ChunksStay
  <2>. QED BY <2>2, <2>3
<1>. QED BY <1>0, <1>2, <1>3 DEF Passed

\* Nothing is the content of nothing.
LEMMA PassedNothing ==
    ASSUME NEW d \in Seq(BodyBytes)
    PROVE  Passed(d, 0, <<>>)
<1>1. Content(d, 0) = {<<>>}
  BY ContentsUnfold
<1>2. 0 \in 0..Len(d) /\ 0..0 - 1 = {}
  OBVIOUS
<1>. QED BY <1>1, <1>2 DEF Passed

----------------------------------------------------------------------------
\* A line of the trailer does not begin between the two bytes of a line's end.
LEMMA NoLineInside ==
    ASSUME NEW d \in Seq(BodyBytes), NEW from \in Nat, NEW pos \in Nat,
           pos = from \/ pos - 2 \in CrLfs(d, from), NEW k \in CrLfs(d, from)
    PROVE  k # pos - 1
<1>1. from <= k /\ At(d, k) = "CR"
  BY CrLfsAreOffsets DEF CrLfs
<1>2. CASE pos = from
  BY <1>1, <1>2
<1>3. CASE pos - 2 \in CrLfs(d, from)
  <2>1. At(d, (pos - 2) + 1) = "LF"
    BY <1>3 DEF CrLfs
  <2>2. (pos - 2) + 1 = pos - 1
    OBVIOUS
  <2>. QED BY <2>1, <2>2, <1>1
<1>. QED BY <1>2, <1>3

\* The empty lines of some bytes are those of more bytes that end within them.
LEMMA EmptyLinesStay ==
    ASSUME NEW d, NEW e, Grows(d, e), NEW from \in Nat
    PROVE  /\ EmptyLines(d, from) = {k \in EmptyLines(e, from) : k + 2 <= Len(d)}
           /\ EmptyLines(e, from) \subseteq Nat
<1>1. CrLfs(d, from) = {k \in CrLfs(e, from) : k + 2 <= Len(d)} /\ CrLfs(e, from) \subseteq Nat
  BY CrLfsGrow
<1>2. Len(d) \in Nat
  BY DEF Grows
<1>3. ASSUME NEW k \in CrLfs(d, from) PROVE k - 2 \in CrLfs(d, from) <=> k - 2 \in CrLfs(e, from)
  <2>1. k \in Nat /\ k + 2 <= Len(d)
    BY <1>1
  <2>2. (k - 2) + 2 <= Len(d)
    BY <2>1, <1>2
  <2>. QED BY <2>2, <1>1
<1>. QED BY <1>1, <1>3 DEF EmptyLines

\* A trailer stays one, whatever comes behind it.
LEMMA TrailerStays ==
    ASSUME NEW d, NEW e, Grows(d, e), NEW from \in Nat, NEW to \in Nat, to <= Len(d)
    PROVE  IsTrailer(d, from, to) => IsTrailer(e, from, to)
<1>. SUFFICES ASSUME IsTrailer(d, from, to) PROVE IsTrailer(e, from, to)
  OBVIOUS
<1>1. /\ EmptyLines(d, from) = {k \in EmptyLines(e, from) : k + 2 <= Len(d)}
      /\ EmptyLines(e, from) \subseteq Nat /\ Len(d) \in Nat
  BY EmptyLinesStay DEF Grows
<1>2. to - 2 \in EmptyLines(d, from) /\ \A k \in EmptyLines(d, from) : to - 2 <= k
  BY DEF IsTrailer
<1>3. ASSUME NEW k \in EmptyLines(e, from) PROVE to - 2 <= k
  <2>1. CASE k + 2 <= Len(d)
    BY <2>1, <1>1, <1>2
  <2>2. CASE ~(k + 2 <= Len(d))
    <3>1. k \in Nat
      BY <1>1
    <3>. QED BY <3>1, <2>2, <1>1
  <2>. QED BY <2>1, <2>2
<1>. QED BY <1>1, <1>2, <1>3 DEF IsTrailer

\* A last chunk with its trailer stays one, whatever comes behind it.
LEMMA LastStays ==
    ASSUME NEW d, NEW e, Grows(d, e), NEW from \in Nat, NEW to \in Nat, to <= Len(d),
           IsLast(d, from, to)
    PROVE  IsLast(e, from, to)
<1>1. PICK k \in from..to : IsSizeLine(d, from, k) /\ SizeOf(d, from, k) = 0 /\ IsTrailer(d, k, to)
  BY DEF IsLast
<1>2. k \in Nat /\ k <= Len(d) /\ Len(d) \in Nat
  BY DEF Grows
<1>3. IsSizeLine(e, from, k) /\ SizeOf(e, from, k) = 0
  BY <1>1, <1>2, SizeLineStays
<1>4. IsTrailer(e, k, to)
  BY <1>1, <1>2, TrailerStays
<1>. QED BY <1>3, <1>4 DEF IsLast

\* Past the last chunk there is one body, the content of the chunks before.
LEMMA OneBody ==
    ASSUME NEW d \in Seq(BodyBytes), NEW p, NEW body, Passed(d, p, body), NEW to \in 0..Len(d),
           IsLast(d, p, to)
    PROVE  Bodies(d, to) = {body}
<1>0. p \in Nat /\ Len(d) \in Nat /\ p <= Len(d) /\ to \in Nat
  BY DEF Passed
<1>1. PICK k \in p..to : IsSizeLine(d, p, k) /\ SizeOf(d, p, k) = 0
  BY DEF IsLast
<1>2. p <= to /\ p \in 0..to
  BY <1>0
<1>3. Chunks(d, p) = {}
  <2>. SUFFICES ASSUME NEW c \in Chunks(d, p) PROVE FALSE
    OBVIOUS
  <2>1. ChunkIn(d, p, c)
    BY <1>0, ChunkIs
  <2>2. c.first = k
    BY <2>1, <1>0, <1>1, OneLine DEF ChunkIn, IsSizeLine
  <2>. QED BY <2>1, <2>2, <1>1 DEF ChunkIn
<1>4. ASSUME NEW n \in 0..to, IsLast(d, n, to), Content(d, n) # {} PROVE n = p
  <2>0. n \in Nat
    BY <1>0
  <2>1. CASE n < p
    <3>1. PICK c \in Chunks(d, n) : c.end + 2 <= p
      BY <2>0, <2>1, <1>0, <1>4 DEF Passed
    <3>2. ChunkIn(d, n, c)
      BY <2>0, ChunkIs
    <3>3. PICK j \in n..to : IsSizeLine(d, n, j) /\ SizeOf(d, n, j) = 0
      BY <1>4 DEF IsLast
    <3>4. c.first = j
      BY <3>2, <3>3, <2>0, <1>0, OneLine DEF ChunkIn, IsSizeLine
    <3>. QED BY <3>2, <3>3, <3>4 DEF ChunkIn
  <2>2. CASE n > p
    <3>1. \A m \in p + 1..(to + 1) - 1 : Content(d, m) = {}
      <4>1. to + 1 \in Nat /\ \A c \in Chunks(d, p) : to + 1 <= c.end + 2
        BY <1>0, <1>3
      <4>. QED BY <4>1, NothingBetween
    <3>2. n \in p + 1..(to + 1) - 1
      BY <2>0, <2>2, <1>0
    <3>. QED BY <3>1, <3>2, <1>4
  <2>. QED BY <2>0, <2>1, <2>2, <1>0
<1>5. ASSUME NEW x PROVE x \in Bodies(d, to) <=> x = body
  <2>1. x \in Bodies(d, to) <=> \E n \in 0..to : IsLast(d, n, to) /\ x \in Content(d, n)
    BY DEF Bodies
  <2>2. x \in Content(d, p) <=> x = body
    BY DEF Passed
  <2>. QED BY <2>1, <2>2, <1>2, <1>4
<1>. QED BY <1>5


----------------------------------------------------------------------------
\* The decoder while it is in a body, and how far it may have to go.
Decoders(d) ==
    [state : {"size", "data", "dataCrlf", "trailer"}, pos : 0..Len(d), out : Seq(BodyBytes), left : Nat]

Errors == {Failed(400), Failed(413)}

Measure(d, c) == IF c.state \in {"size", "data", "dataCrlf", "trailer"} THEN Len(d) + 1 - c.pos ELSE 0

\* Inside a chunk: before it, chunks; of its data, what lies before the cursor.
InChunk(d, c) ==
    \E p \in 0..Len(d), k \in 0..Len(d), before \in Seq(BodyBytes) :
        /\ Passed(d, p, before)
        /\ IsSizeLine(d, p, k) /\ SizeOf(d, p, k) > 0
        /\ k <= c.pos /\ c.pos + c.left = k + SizeOf(d, p, k)
        /\ c.out = before \o SubSeq(d, k + 1, c.pos)

\* In the trailer, at the beginning of a line, with no empty one before it.
InTrailer(d, c) ==
    /\ \E p \in 0..Len(d) : /\ Passed(d, p, c.out)
                            /\ IsSizeLine(d, p, c.left) /\ SizeOf(d, p, c.left) = 0
    /\ c.left <= c.pos
    /\ c.pos = c.left \/ c.pos - 2 \in CrLfs(d, c.left)
    /\ \A k \in EmptyLines(d, c.left) : c.pos <= k

InBody(d, c) ==
    /\ c \in Decoders(d)
    /\ CASE c.state = "size" -> Passed(d, c.pos, c.out) /\ Len(c.out) <= MaxBody
         [] c.state = "data" -> InChunk(d, c) /\ c.left > 0 /\ Len(c.out) + c.left <= MaxBody
         [] c.state = "dataCrlf" -> InChunk(d, c) /\ c.left = 0 /\ Len(c.out) <= MaxBody
         [] OTHER -> InTrailer(d, c) /\ Len(c.out) <= MaxBody

PastBody(d, c) ==
    /\ c = [state |-> "done", pos |-> c.pos, out |-> c.out]
    /\ c.pos \in 0..Len(d) /\ Len(c.out) <= MaxBody
    /\ \E p \in 0..Len(d) : Passed(d, p, c.out) /\ IsLast(d, p, c.pos)

Decoded(d, c) == InBody(d, c) \/ PastBody(d, c) \/ c \in Errors

\* A decoder is the record of its four fields.
LEMMA DecoderRecords ==
    ASSUME NEW A, NEW B, NEW C, NEW D
    PROVE  /\ \A c \in [state : A, pos : B, out : C, left : D] :
                 /\ c = Decoder(c.state, c.pos, c.out, c.left)
                 /\ c.state \in A /\ c.pos \in B /\ c.out \in C /\ c.left \in D
           /\ \A s \in A, p \in B, o \in C, l \in D :
                 Decoder(s, p, o, l) \in [state : A, pos : B, out : C, left : D]
BY DEF Decoder

\* The fields of a decoder have their types, and make it up.
LEMMA DecoderFields ==
    ASSUME NEW d \in Seq(BodyBytes), NEW c \in Decoders(d)
    PROVE  /\ c = Decoder(c.state, c.pos, c.out, c.left)
           /\ c.state \in {"size", "data", "dataCrlf", "trailer"}
           /\ c.pos \in Nat /\ c.pos <= Len(d) /\ Len(d) \in Nat
           /\ c.out \in Seq(BodyBytes) /\ Len(c.out) \in Nat /\ c.left \in Nat
<1>1. c \in [state : {"size", "data", "dataCrlf", "trailer"}, pos : 0..Len(d), out : Seq(BodyBytes), left : Nat]
  BY DEF Decoders
<1>2. /\ c = Decoder(c.state, c.pos, c.out, c.left)
      /\ c.state \in {"size", "data", "dataCrlf", "trailer"} /\ c.pos \in 0..Len(d)
      /\ c.out \in Seq(BodyBytes) /\ c.left \in Nat
  BY <1>1 DEF Decoder
<1>3. c.state \in {"size", "data", "dataCrlf", "trailer"}
  BY <1>2
<1>4. Len(c.out) \in Nat /\ Len(d) \in Nat /\ c.out \in Seq(BodyBytes) /\ c.left \in Nat
  BY <1>2, LenProperties
<1>5. c.pos \in 0..Len(d)
  BY <1>2
<1>6. c.pos \in Nat /\ c.pos <= Len(d)
  BY <1>5, <1>4
<1>. QED BY <1>2, <1>3, <1>4, <1>6

\* Each field of a decoder is what it was made of.
LEMMA FieldsOfDecoder ==
    ASSUME NEW state, NEW pos, NEW body, NEW left
    PROVE  /\ Decoder(state, pos, body, left).state = state
           /\ Decoder(state, pos, body, left).pos = pos
           /\ Decoder(state, pos, body, left).out = body
           /\ Decoder(state, pos, body, left).left = left
BY DEF Decoder

\* What is made of a state, a position, bytes and a count is a decoder.
LEMMA IsDecoder ==
    ASSUME NEW d \in Seq(BodyBytes),
           NEW state \in {"size", "data", "dataCrlf", "trailer"}, NEW pos \in Nat, pos <= Len(d),
           NEW body \in Seq(BodyBytes), NEW left \in Nat
    PROVE  Decoder(state, pos, body, left) \in Decoders(d)
<1>1. pos \in 0..Len(d)
  <2>1. Len(d) \in Nat
    BY LenProperties
  <2>. QED BY <2>1
<1>. QED BY <1>1, DecoderRecords DEF Decoders

\* An error refuses the body.
LEMMA ErrorsEnd ==
    ASSUME NEW c \in Errors
    PROVE  c.state = "refused"
BY DEF Errors, Failed

----------------------------------------------------------------------------
\* The size line.
LEMMA SizeStepIs ==
    ASSUME NEW d \in Seq(BodyBytes), NEW c \in Decoders(d), c.state = "size",
           NEW y, y = SizeStep(d, c)
    PROVE  \/ y \in Errors
           \/ y = c /\ CrLfs(d, c.pos) = {}
           \/ \E k \in Nat :
                 /\ k <= Len(d) /\ IsSizeLine(d, c.pos, k)
                 /\ \/ SizeOf(d, c.pos, k) = 0 /\ y = Decoder("trailer", k, c.out, k)
                    \/ /\ SizeOf(d, c.pos, k) > 0 /\ Len(c.out) + SizeOf(d, c.pos, k) <= MaxBody
                       /\ y = Decoder("data", k, c.out, SizeOf(d, c.pos, k))
<1>. DEFINE ends == CrLfs(d, c.pos)
            eol  == Least(ends)
            line == Digits(d, c.pos, eol)
            size == HexValue(line)
<1>0. c = Decoder(c.state, c.pos, c.out, c.left) /\ c.pos \in Nat /\ Len(c.out) \in Nat /\ MaxBody \in Nat
      /\ MAX_CHUNK_LINE_BYTES \in Nat /\ Len(d) \in Nat /\ c.pos <= Len(d)
  BY DecoderFields, ScanAssumption
<1>1. CASE ends = {}
  <2>1. y = IF Len(d) - c.pos > MAX_CHUNK_LINE_BYTES THEN Failed(400) ELSE c
    BY <1>1, <1>0 DEF SizeStep
  <2>. QED BY <2>1, <1>1 DEF Errors
<1>2. CASE ends # {}
  <2>1. eol \in ends /\ ends \subseteq Nat /\ \A m \in ends : c.pos <= m /\ m + 2 <= Len(d)
    BY <1>0, <1>2, LeastIs, CrLfsAreOffsets
  <2>2. eol \in Nat /\ c.pos <= eol /\ eol + 2 <= Len(d) /\ eol + 2 \in Nat /\ (eol + 2) - 2 = eol
    <3>. HIDE DEF eol, ends
    <3>. QED BY <2>1
  <2>3. IsLine(d, c.pos, eol + 2)
    BY <1>0, <1>2, <2>2, LineIs
  <2>4. IsSizeLine(d, c.pos, eol + 2) <=> IsHex(line)
    BY <2>2, <2>3 DEF IsSizeLine
  <2>5. SizeOf(d, c.pos, eol + 2) = size
    BY <2>2 DEF SizeOf
  <2>6. size \in Nat
    <3>1. line \in Seq(BodyBytes)
      <4>. HIDE DEF eol
      <4>1. eol <= Len(d)
        BY <2>2, <1>0
      <4>. QED BY <4>1, <2>2, <1>0, GrowsSelf, DigitsStay
    <3>. QED BY <3>1, HexValueIsNat
  <2>7. CASE eol - c.pos > MAX_CHUNK_LINE_BYTES \/ ~IsHex(line)
    <3>1. y = Failed(400)
      <4>. HIDE DEF line, size
      <4>. QED BY <1>2, <2>7 DEF SizeStep, line, size
    <3>. QED BY <3>1 DEF Errors
  <2>8. CASE ~(eol - c.pos > MAX_CHUNK_LINE_BYTES) /\ IsHex(line)
    <3>1. CASE size > 0 /\ Len(c.out) + size > MaxBody
      <4>1. y = Failed(413)
        BY <1>2, <2>8, <3>1 DEF SizeStep
      <4>. QED BY <4>1 DEF Errors
    <3>2. CASE size = 0
      <4>1. y = Decoder("trailer", eol + 2, c.out, eol + 2)
        BY <1>2, <2>8, <3>2 DEF SizeStep
      <4>. HIDE DEF eol, line, size
      <4>. QED BY <4>1, <3>2, <2>2, <2>4, <2>5, <2>8
    <3>3. CASE size > 0 /\ ~(Len(c.out) + size > MaxBody)
      <4>1. y = Decoder("data", eol + 2, c.out, size)
        BY <1>2, <2>8, <3>3 DEF SizeStep
      <4>. HIDE DEF eol, line, size
      <4>2. size > 0 /\ Len(c.out) + size <= MaxBody
        BY <3>3, <2>6, <1>0
      <4>. QED BY <4>1, <4>2, <2>2, <2>4, <2>5, <2>8
    <3>. HIDE DEF eol, line, size
    <3>. QED BY <3>1, <3>2, <3>3, <2>6
  <2>. QED BY <2>7, <2>8
<1>. QED BY <1>1, <1>2

\* With more bytes behind it, a size line is read the same.
LEMMA SizeStepStays ==
    ASSUME NEW d, NEW e, Grows(d, e), NEW c \in Decoders(d), c.state = "size",
           CrLfs(d, c.pos) # {}
    PROVE  SizeStep(e, c) = SizeStep(d, c)
<1>. DEFINE eol == Least(CrLfs(d, c.pos))
<1>0. c.pos \in Nat /\ d \in Seq(BodyBytes) /\ Len(d) \in Nat
  BY DecoderFields DEF Grows
<1>1. CrLfs(e, c.pos) # {} /\ Least(CrLfs(e, c.pos)) = eol
  BY <1>0, LineEndStays
<1>2. eol \in Nat /\ c.pos <= eol /\ eol <= Len(d)
  <2>1. /\ eol \in CrLfs(d, c.pos) /\ CrLfs(d, c.pos) \subseteq Nat
        /\ \A m \in CrLfs(d, c.pos) : c.pos <= m /\ m + 2 <= Len(d)
    BY <1>0, LeastIs, CrLfsAreOffsets
  <2>. HIDE DEF eol
  <2>. QED BY <2>1, <1>0
<1>3. Digits(e, c.pos, eol) = Digits(d, c.pos, eol)
  <2>. HIDE DEF eol
  <2>1. c.pos \in Nat
    BY <1>0
  <2>. QED BY <2>1, <1>2, DigitsStay
<1>. QED BY <1>1, <1>3 DEF SizeStep

\* Reading a size line keeps the decoder in order, and consumes bytes or waits.
LEMMA SizeStepHolds ==
    ASSUME NEW d \in Seq(BodyBytes), NEW c, InBody(d, c), c.state = "size", NEW y, y = SizeStep(d, c)
    PROVE  Decoded(d, y) /\ (y = c \/ Measure(d, y) < Measure(d, c))
<1>0. /\ c \in Decoders(d) /\ Passed(d, c.pos, c.out) /\ Len(c.out) <= MaxBody
      /\ c.pos \in Nat /\ c.pos <= Len(d) /\ Len(d) \in Nat /\ c.out \in Seq(BodyBytes) /\ Len(c.out) \in Nat
  BY DecoderFields DEF InBody
<1>1. Measure(d, c) = Len(d) + 1 - c.pos
  BY DEF Measure
<1>2. CASE y \in Errors
  <2>1. Measure(d, y) = 0
    BY <1>2, ErrorsEnd DEF Measure
  <2>. QED BY <2>1, <1>0, <1>1, <1>2 DEF Decoded
<1>3. CASE y = c
  BY <1>3 DEF Decoded
<1>4. ASSUME NEW k \in Nat, k <= Len(d), IsSizeLine(d, c.pos, k),
             SizeOf(d, c.pos, k) = 0, y = Decoder("trailer", k, c.out, k)
      PROVE  Decoded(d, y) /\ Measure(d, y) < Measure(d, c)
  <2>1. c.pos + 2 <= k
    BY <1>0, <1>4, GrowsSelf, SizeLineStays
  <2>2. y \in Decoders(d) /\ y.state = "trailer" /\ y.pos = k /\ y.out = c.out /\ y.left = k
    <3>1. Decoder("trailer", k, c.out, k) \in Decoders(d)
      BY <1>0, <1>4, IsDecoder
    <3>. QED BY <3>1, <1>4, FieldsOfDecoder
  <2>3. \A m \in EmptyLines(d, k) : k <= m
    BY CrLfsAreOffsets DEF EmptyLines
  <2>4. InTrailer(d, y)
    <3>1. c.pos \in 0..Len(d)
      BY <1>0
    <3>. QED BY <3>1, <2>2, <2>3, <1>0, <1>4 DEF InTrailer
  <2>5. InBody(d, y)
    BY <2>2, <2>4, <1>0 DEF InBody
  <2>6. Measure(d, y) = Len(d) + 1 - k
    BY <2>2 DEF Measure
  <2>. QED BY <2>1, <2>5, <2>6, <1>0, <1>1 DEF Decoded
<1>5. ASSUME NEW k \in Nat, k <= Len(d), IsSizeLine(d, c.pos, k),
             SizeOf(d, c.pos, k) > 0, Len(c.out) + SizeOf(d, c.pos, k) <= MaxBody,
             y = Decoder("data", k, c.out, SizeOf(d, c.pos, k))
      PROVE  Decoded(d, y) /\ Measure(d, y) < Measure(d, c)
  <2>1. c.pos + 2 <= k /\ SizeOf(d, c.pos, k) \in Nat
    BY <1>0, <1>5, GrowsSelf, SizeLineStays
  <2>2. y \in Decoders(d) /\ y.state = "data" /\ y.pos = k /\ y.out = c.out /\ y.left = SizeOf(d, c.pos, k)
    <3>1. Decoder("data", k, c.out, SizeOf(d, c.pos, k)) \in Decoders(d)
      BY <1>0, <1>5, <2>1, IsDecoder
    <3>. QED BY <3>1, <1>5, FieldsOfDecoder
  <2>3. c.out = c.out \o SubSeq(d, k + 1, k)
    <3>1. SubSeq(d, k + 1, k) = <<>>
      BY SubSeqEmpty
    <3>. QED BY <3>1, <1>0, ConcatEmptySeq
  <2>4. InChunk(d, y)
    <3>1. c.pos \in 0..Len(d) /\ k \in 0..Len(d)
      BY <1>0, <1>5
    <3>2. k <= y.pos /\ y.pos + y.left = k + SizeOf(d, c.pos, k)
      BY <2>2
    <3>3. y.out = c.out \o SubSeq(d, k + 1, y.pos)
      BY <2>2, <2>3
    <3>. QED BY <3>1, <3>2, <3>3, <1>0, <1>5 DEF InChunk
  <2>5. InBody(d, y)
    BY <2>2, <2>4, <1>0, <1>5 DEF InBody
  <2>6. Measure(d, y) = Len(d) + 1 - k
    BY <2>2 DEF Measure
  <2>. QED BY <2>1, <2>5, <2>6, <1>0, <1>1 DEF Decoded
<1>. QED BY <1>0, <1>2, <1>3, <1>4, <1>5, SizeStepIs


----------------------------------------------------------------------------
\* The data.
\* Appending is associative.
LEMMA Regroup ==
    ASSUME NEW a \in Seq(BodyBytes), NEW b \in Seq(BodyBytes), NEW c \in Seq(BodyBytes)
    PROVE  (a \o b) \o c = a \o (b \o c)
<1>. DEFINE l == (a \o b) \o c
            r == a \o (b \o c)
<1>1. a \o b \in Seq(BodyBytes) /\ Len(a \o b) = Len(a) + Len(b)
      /\ \A i \in 1..Len(a) + Len(b) : (a \o b)[i] = IF i <= Len(a) THEN a[i] ELSE b[i - Len(a)]
  BY ConcatProperties
<1>2. b \o c \in Seq(BodyBytes) /\ Len(b \o c) = Len(b) + Len(c)
      /\ \A i \in 1..Len(b) + Len(c) : (b \o c)[i] = IF i <= Len(b) THEN b[i] ELSE c[i - Len(b)]
  BY ConcatProperties
<1>. DEFINE ab == a \o b
            bc == b \o c
<1>3. l \in Seq(BodyBytes) /\ Len(l) = Len(ab) + Len(c)
      /\ \A i \in 1..Len(ab) + Len(c) : l[i] = IF i <= Len(ab) THEN ab[i] ELSE c[i - Len(ab)]
  <2>. HIDE DEF ab
  <2>1. ab \in Seq(BodyBytes) /\ l = ab \o c
    BY <1>1 DEF ab
  <2>. HIDE DEF l
  <2>. QED BY <2>1, ConcatProperties
<1>4. r \in Seq(BodyBytes) /\ Len(r) = Len(a) + Len(bc)
      /\ \A i \in 1..Len(a) + Len(bc) : r[i] = IF i <= Len(a) THEN a[i] ELSE bc[i - Len(a)]
  <2>. HIDE DEF bc
  <2>1. bc \in Seq(BodyBytes) /\ r = a \o bc
    BY <1>2 DEF bc
  <2>. HIDE DEF r
  <2>. QED BY <2>1, ConcatProperties
<1>5. Len(a) \in Nat /\ Len(b) \in Nat /\ Len(c) \in Nat
  BY LenProperties
<1>. HIDE DEF l, r, ab, bc
<1>6. Len(l) = Len(r) /\ Len(ab) = Len(a) + Len(b) /\ Len(bc) = Len(b) + Len(c)
      /\ Len(r) = Len(a) + Len(b) + Len(c)
  BY <1>1, <1>2, <1>3, <1>4, <1>5 DEF ab, bc
<1>7. ASSUME NEW i \in 1..Len(l) PROVE l[i] = r[i]
  <2>0. i \in Nat /\ i > 0 /\ i <= Len(a) + Len(b) + Len(c)
    BY <1>5, <1>6
  <2>1. CASE i <= Len(a)
    <3>1. l[i] = ab[i] /\ ab[i] = a[i] /\ r[i] = a[i]
      BY <2>0, <2>1, <1>1, <1>3, <1>4, <1>5, <1>6 DEF ab
    <3>. QED BY <3>1
  <2>2. CASE ~(i <= Len(a)) /\ i <= Len(a) + Len(b)
    <3>1. l[i] = ab[i] /\ ab[i] = b[i - Len(a)]
      BY <2>0, <2>2, <1>1, <1>3, <1>5, <1>6 DEF ab
    <3>2. r[i] = bc[i - Len(a)] /\ bc[i - Len(a)] = b[i - Len(a)]
      BY <2>0, <2>2, <1>2, <1>4, <1>5, <1>6 DEF bc
    <3>. QED BY <3>1, <3>2
  <2>3. CASE ~(i <= Len(a) + Len(b))
    <3>1. l[i] = c[i - (Len(a) + Len(b))]
      BY <2>0, <2>3, <1>3, <1>5, <1>6
    <3>2. r[i] = bc[i - Len(a)] /\ bc[i - Len(a)] = c[(i - Len(a)) - Len(b)]
      BY <2>0, <2>3, <1>2, <1>4, <1>5, <1>6 DEF bc
    <3>3. i - (Len(a) + Len(b)) = (i - Len(a)) - Len(b)
      BY <2>0, <1>5
    <3>. QED BY <3>1, <3>2, <3>3
  <2>. QED BY <2>0, <2>1, <2>2, <2>3, <1>5
<1>8. l = r
  BY <1>3, <1>4, <1>6, <1>7, SeqEqual
<1>. QED BY <1>8 DEF l, r

\* Two adjacent pieces are one.
LEMMA SplitSubSeq ==
    ASSUME NEW d \in Seq(BodyBytes), NEW i \in Nat, NEW j \in Nat, NEW k \in Nat,
           i <= j, j <= k, k <= Len(d)
    PROVE  SubSeq(d, i + 1, j) \o SubSeq(d, j + 1, k) = SubSeq(d, i + 1, k)
<1>1. Len(d) \in Nat
  BY LenProperties
<1>2. i + 1 \in 1..Len(d) + 1 /\ j \in (i + 1) - 1..Len(d) /\ k \in j..Len(d)
  BY <1>1
<1>. QED BY <1>2, ConcatAdjacentSubSeq

\* What a step takes of the data.
Takes(d, c, y, take) ==
    /\ take = c.left \/ take = Len(d) - c.pos
    /\ c.pos + take \in Nat /\ c.pos + take <= Len(d) /\ take <= c.left
    /\ y \in Decoders(d)
    /\ (c.left = take /\ y.state = "dataCrlf") \/ (c.left # take /\ y.state = "data")
    /\ y.pos = c.pos + take
    /\ y.out = c.out \o SubSeq(d, c.pos + 1, c.pos + take)
    /\ y.left = c.left - take
    /\ Len(y.out) = Len(c.out) + take

\* Taking data moves some bytes from the input to the content, no more than are left.
LEMMA DataStepIs ==
    ASSUME NEW d \in Seq(BodyBytes), NEW c \in Decoders(d), c.left > 0,
           NEW y, y = DataStep(d, c)
    PROVE  \E take \in Nat : Takes(d, c, y, take)
<1>. DEFINE take == IF c.left < Len(d) - c.pos THEN c.left ELSE Len(d) - c.pos
            state == IF c.left = take THEN "dataCrlf" ELSE "data"
            more == SubSeq(d, c.pos + 1, c.pos + take)
<1>0. /\ c.pos \in Nat /\ c.pos <= Len(d) /\ Len(d) \in Nat
      /\ c.out \in Seq(BodyBytes) /\ Len(c.out) \in Nat /\ c.left \in Nat
  BY DecoderFields
<1>1. take \in Nat /\ c.pos + take \in Nat /\ c.pos + take <= Len(d) /\ take <= c.left /\ c.left - take \in Nat
  BY <1>0
<1>2. y = Decoder(state, c.pos + take, c.out \o more, c.left - take)
  BY DEF DataStep
<1>3. state \in {"size", "data", "dataCrlf", "trailer"}
  OBVIOUS
<1>4. more \in Seq(BodyBytes) /\ Len(more) = take
  <2>. HIDE DEF take
  <2>1. more \in Seq(BodyBytes)
    BY <1>0, <1>1, GrowsSelf, SubSeqStays
  <2>2. \A n \in c.pos + 1..c.pos + take : d[n] \in BodyBytes
    <3>1. \A n \in c.pos + 1..c.pos + take : n \in 1..Len(d)
      BY <1>0, <1>1
    <3>. QED BY <3>1, ElementOfSeq
  <2>3. Len(more) = IF c.pos + 1 <= c.pos + take THEN (c.pos + take) - (c.pos + 1) + 1 ELSE 0
    BY <1>0, <1>1, <2>2, SubSeqProperties
  <2>4. c.pos \in Nat /\ take \in Nat
    BY <1>0, <1>1
  <2>5. Len(more) = take
    <3>. HIDE DEF more
    <3>. QED BY <2>3, <2>4
  <2>. QED BY <2>1, <2>5
<1>5. c.out \o more \in Seq(BodyBytes) /\ Len(c.out \o more) = Len(c.out) + take
  <2>. HIDE DEF more, take
  <2>. QED BY <1>0, <1>4, ConcatProperties
<1>. HIDE DEF more, state
<1>6. y \in Decoders(d)
  <2>. HIDE DEF take
  <2>. QED BY <1>1, <1>2, <1>3, <1>5, IsDecoder
<1>8. take = c.left \/ take = Len(d) - c.pos
  OBVIOUS
<1>. HIDE DEF take
<1>7. y.state = state /\ y.pos = c.pos + take /\ y.out = c.out \o more /\ y.left = c.left - take
  <2>. DEFINE pos == c.pos + take
              body == c.out \o more
              left == c.left - take
  <2>1. y = Decoder(state, pos, body, left)
    BY <1>2
  <2>2. y.state = state /\ y.pos = pos /\ y.out = body /\ y.left = left
    <3>. HIDE DEF pos, body, left
    <3>. QED BY <2>1, FieldsOfDecoder
  <2>. QED BY <2>2
<1>9. (c.left = take /\ y.state = "dataCrlf") \/ (c.left # take /\ y.state = "data")
  BY <1>7 DEF state
<1>10. Takes(d, c, y, take)
  BY <1>1, <1>5, <1>6, <1>7, <1>8, <1>9 DEF more, Takes
<1>. QED BY <1>1, <1>10

\* Taking data keeps the decoder in order, and consumes bytes or waits.
LEMMA DataStepHolds ==
    ASSUME NEW d \in Seq(BodyBytes), NEW c, InBody(d, c), c.state = "data", NEW y, y = DataStep(d, c)
    PROVE  Decoded(d, y) /\ (y = c \/ Measure(d, y) < Measure(d, c))
<1>0. /\ c \in Decoders(d) /\ InChunk(d, c) /\ c.left > 0 /\ Len(c.out) + c.left <= MaxBody
      /\ c.pos \in Nat /\ c.pos <= Len(d) /\ Len(d) \in Nat /\ c.left \in Nat
      /\ c.out \in Seq(BodyBytes) /\ Len(c.out) \in Nat
      /\ c = Decoder(c.state, c.pos, c.out, c.left)
  BY DecoderFields DEF InBody
<1>a. PICK take \in Nat : Takes(d, c, y, take)
  <2>1. c \in Decoders(d) /\ c.left > 0
    BY <1>0
  <2>. QED BY <2>1, DataStepIs
<1>1. /\ take = c.left \/ take = Len(d) - c.pos
      /\ c.pos + take \in Nat /\ c.pos + take <= Len(d) /\ take <= c.left
      /\ y \in Decoders(d)
      /\ (c.left = take /\ y.state = "dataCrlf") \/ (c.left # take /\ y.state = "data")
      /\ y.pos = c.pos + take
      /\ y.out = c.out \o SubSeq(d, c.pos + 1, c.pos + take)
      /\ y.left = c.left - take
      /\ Len(y.out) = Len(c.out) + take
  BY <1>a DEF Takes
<1>2. /\ take = c.left \/ take = Len(d) - c.pos
      /\ c.pos + take \in Nat /\ c.pos + take <= Len(d) /\ c.pos <= c.pos + take /\ take <= c.left
      /\ y.pos = c.pos + take /\ y.left = c.left - take /\ y.left \in Nat
      /\ Len(y.out) = Len(c.out) + take /\ Len(y.out) \in Nat
  <2>1. c.pos \in Nat /\ c.left \in Nat /\ Len(c.out) \in Nat /\ take \in Nat
    BY <1>0
  <2>2. /\ take = c.left \/ take = Len(d) - c.pos
        /\ c.pos + take \in Nat /\ c.pos + take <= Len(d) /\ take <= c.left
        /\ y.pos = c.pos + take /\ y.left = c.left - take
        /\ Len(y.out) = Len(c.out) + take
    BY <1>1
  <2>. QED BY <2>1, <2>2
<1>3. PICK p \in 0..Len(d), k \in 0..Len(d), before \in Seq(BodyBytes) :
        /\ Passed(d, p, before)
        /\ IsSizeLine(d, p, k) /\ SizeOf(d, p, k) > 0
        /\ k <= c.pos /\ c.pos + c.left = k + SizeOf(d, p, k)
        /\ c.out = before \o SubSeq(d, k + 1, c.pos)
  BY <1>0 DEF InChunk
<1>4. y.out = before \o SubSeq(d, k + 1, y.pos)
  <2>1. k \in Nat
    BY <1>0
  <2>2. SubSeq(d, k + 1, c.pos) \in Seq(BodyBytes) /\ SubSeq(d, c.pos + 1, c.pos + take) \in Seq(BodyBytes)
    BY <2>1, <1>0, <1>1, GrowsSelf, SubSeqStays
  <2>3. y.out = before \o (SubSeq(d, k + 1, c.pos) \o SubSeq(d, c.pos + 1, c.pos + take))
    <3>1. y.out = (before \o SubSeq(d, k + 1, c.pos)) \o SubSeq(d, c.pos + 1, c.pos + take)
      <4>1. y.out = c.out \o SubSeq(d, c.pos + 1, c.pos + take)
        BY <1>1
      <4>. QED BY <4>1, <1>3
    <3>. DEFINE had == SubSeq(d, k + 1, c.pos)
                more == SubSeq(d, c.pos + 1, c.pos + take)
    <3>2. (before \o had) \o more = before \o (had \o more)
      <4>1. had \in Seq(BodyBytes) /\ more \in Seq(BodyBytes) /\ before \in Seq(BodyBytes)
        BY <2>2
      <4>. HIDE DEF had, more
      <4>. QED BY <4>1, Regroup
    <3>. QED BY <3>1, <3>2
  <2>4. SubSeq(d, k + 1, c.pos) \o SubSeq(d, c.pos + 1, c.pos + take) = SubSeq(d, k + 1, c.pos + take)
    <3>1. k <= c.pos /\ c.pos <= c.pos + take /\ c.pos + take <= Len(d)
          /\ c.pos \in Nat /\ c.pos + take \in Nat
      BY <1>0, <1>2, <1>3
    <3>. QED BY <3>1, <2>1, SplitSubSeq
  <2>. QED BY <2>3, <2>4, <1>1
<1>5. InChunk(d, y)
  <2>1. k <= y.pos /\ y.pos + y.left = k + SizeOf(d, p, k)
    <3>1. k \in Nat /\ y.pos + y.left = c.pos + c.left
      BY <1>0, <1>1
    <3>. QED BY <3>1, <1>0, <1>1, <1>3
  <2>. QED BY <2>1, <1>3, <1>4 DEF InChunk
<1>6. Len(y.out) + y.left = Len(c.out) + c.left /\ MaxBody \in Nat /\ y.left \in Nat
      /\ Len(y.out) \in Nat
  <2>1. MaxBody \in Nat
    BY ScanAssumption
  <2>2. Len(c.out) \in Nat /\ c.left \in Nat
    BY <1>0
  <2>. QED BY <1>2, <2>1, <2>2
<1>7. InBody(d, y)
  <2>1. CASE c.left = take
    <3>1. y.state = "dataCrlf" /\ y.left = 0
      BY <2>1, <1>1, <1>0
    <3>2. Len(y.out) <= MaxBody
      BY <3>1, <1>6, <1>0
    <3>. QED BY <3>1, <3>2, <1>1, <1>5 DEF InBody
  <2>2. CASE c.left # take
    <3>1. y.state = "data" /\ y.left > 0
      BY <2>2, <1>1, <1>0
    <3>2. Len(y.out) + y.left <= MaxBody
      BY <1>6, <1>0
    <3>. QED BY <3>1, <3>2, <1>1, <1>5 DEF InBody
  <2>. QED BY <2>1, <2>2
<1>8. CASE take = 0
  <2>1. c.pos + take = c.pos /\ c.left - take = c.left /\ c.left # take
    BY <1>8, <1>0
  <2>2. SubSeq(d, c.pos + 1, c.pos + take) = <<>>
    BY <2>1, <1>0, SubSeqEmpty
  <2>3. c.out \o SubSeq(d, c.pos + 1, c.pos + take) = c.out
    BY <2>2, <1>0, ConcatEmptySeq
  <2>4. y = c
    <3>1. y.pos = c.pos /\ y.left = c.left
      BY <2>1, <1>2
    <3>2. y.out = c.out
      BY <2>3, <1>1
    <3>3. y.state = "data"
      BY <2>1, <1>1
    <3>4. y = Decoder(y.state, y.pos, y.out, y.left)
      BY <1>1, DecoderFields
    <3>5. c = Decoder(c.state, c.pos, c.out, c.left)
      BY <1>0
    <3>. QED BY <3>1, <3>2, <3>3, <3>4, <3>5
  <2>. QED BY <2>4, <1>7 DEF Decoded
<1>9. CASE take # 0
  <2>1. Measure(d, c) = Len(d) + 1 - c.pos
    BY DEF Measure
  <2>2. Measure(d, y) = Len(d) + 1 - y.pos
    <3>1. y.state \in {"size", "data", "dataCrlf", "trailer"}
      BY <1>1, DecoderFields
    <3>. QED BY <3>1 DEF Measure
  <2>3. Measure(d, y) < Measure(d, c)
    <3>1. c.pos \in Nat /\ Len(d) \in Nat
      BY <1>0
    <3>. QED BY <2>1, <2>2, <3>1, <1>2, <1>9
  <2>. QED BY <2>3, <1>7 DEF Decoded
<1>. QED BY <1>8, <1>9

\* The line end behind the data.
LEMMA DataCrlfStepHolds ==
    ASSUME NEW d \in Seq(BodyBytes), NEW c, InBody(d, c), c.state = "dataCrlf", NEW y, y = DataCrlfStep(d, c)
    PROVE  Decoded(d, y) /\ (y = c \/ Measure(d, y) < Measure(d, c))
<1>0. /\ c \in Decoders(d) /\ InChunk(d, c) /\ c.left = 0 /\ Len(c.out) <= MaxBody
      /\ c.pos \in Nat /\ c.pos <= Len(d) /\ Len(d) \in Nat /\ c.out \in Seq(BodyBytes)
  BY DecoderFields DEF InBody
<1>1. Measure(d, c) = Len(d) + 1 - c.pos
  BY DEF Measure
<1>2. CASE Len(d) < c.pos + 2
  <2>1. y = c
    BY <1>0, <1>2 DEF DataCrlfStep
  <2>. QED BY <2>1 DEF Decoded
<1>3. CASE ~(Len(d) < c.pos + 2) /\ c.pos \notin CrLfs(d, c.pos)
  <2>1. y = Failed(400)
    BY <1>0, <1>3 DEF DataCrlfStep
  <2>2. y \in Errors
    BY <2>1 DEF Errors
  <2>3. Measure(d, y) = 0
    BY <2>2, ErrorsEnd DEF Measure
  <2>. QED BY <2>2, <2>3, <1>0, <1>1 DEF Decoded
<1>4. CASE ~(Len(d) < c.pos + 2) /\ c.pos \in CrLfs(d, c.pos)
  <2>1. y = Decoder("size", c.pos + 2, c.out, c.left)
    BY <1>0, <1>4 DEF DataCrlfStep
  <2>2. c.pos + 2 \in Nat /\ c.pos + 2 <= Len(d) /\ c.left \in Nat
    BY <1>0, <1>4
  <2>3. y \in Decoders(d) /\ y.state = "size" /\ y.pos = c.pos + 2 /\ y.out = c.out
    <3>1. Decoder("size", c.pos + 2, c.out, c.left) \in Decoders(d)
      BY <2>2, <1>0, IsDecoder
    <3>. QED BY <3>1, <2>1, FieldsOfDecoder
  <2>4. PICK p \in 0..Len(d), k \in 0..Len(d), before \in Seq(BodyBytes) :
        /\ Passed(d, p, before)
        /\ IsSizeLine(d, p, k) /\ SizeOf(d, p, k) > 0
        /\ k <= c.pos /\ c.pos + c.left = k + SizeOf(d, p, k)
        /\ c.out = before \o SubSeq(d, k + 1, c.pos)
    BY <1>0 DEF InChunk
  <2>5. p \in Nat /\ k \in Nat /\ k <= Len(d)
    BY <1>0
  <2>6. p + 2 <= k /\ SizeOf(d, p, k) \in Nat
    BY <2>4, <2>5, GrowsSelf, SizeLineStays
  <2>. DEFINE b == [first |-> k, end |-> c.pos]
  <2>7. b \in Chunks(d, p)
    <3>1. c.pos \in CrLfs(d, 0)
      BY <1>0, <1>4 DEF CrLfs
    <3>2. c.pos = k + SizeOf(d, p, k) /\ k < c.pos
      BY <1>0, <2>4, <2>5, <2>6
    <3>3. b.first = k /\ b.end = c.pos /\ b = [first |-> b.first, end |-> b.end]
      OBVIOUS
    <3>. HIDE DEF b
    <3>4. ChunkIn(d, p, b)
      BY <3>1, <3>2, <3>3, <2>2, <2>4, <2>5, <2>6, <1>0 DEF ChunkIn
    <3>. QED BY <3>4, <2>5, ChunkIs
  <2>8. Joined(d, before, b) = c.out
    BY <2>4 DEF Joined
  <2>9. Passed(d, c.pos + 2, c.out)
    <3>1. b.end = c.pos
      OBVIOUS
    <3>. HIDE DEF b
    <3>. QED BY <3>1, <2>4, <2>7, <2>8, PassedOn
  <2>10. InBody(d, y)
    BY <2>3, <2>9, <1>0 DEF InBody
  <2>11. Measure(d, y) = Len(d) + 1 - (c.pos + 2)
    BY <2>3 DEF Measure
  <2>. QED BY <2>10, <2>11, <1>0, <1>1 DEF Decoded
<1>. QED BY <1>2, <1>3, <1>4


----------------------------------------------------------------------------
\* The trailer. Past a line that is not empty there is no empty one yet.
LEMMA NextTrailerLine ==
    ASSUME NEW d \in Seq(BodyBytes), NEW from \in Nat, NEW pos \in Nat, from <= pos,
           pos = from \/ pos - 2 \in CrLfs(d, from),
           \A k \in EmptyLines(d, from) : pos <= k,
           NEW eol \in CrLfs(d, pos), \A k \in CrLfs(d, pos) : eol <= k, eol # pos
    PROVE  eol \in CrLfs(d, from) /\ \A k \in EmptyLines(d, from) : eol + 2 <= k
<1>1. eol \in Nat /\ pos < eol /\ eol + 2 <= Len(d) /\ Len(d) \in Nat
  BY CrLfsAreOffsets
<1>2. /\ CrLfs(d, from) \subseteq Nat
      /\ \A k \in Nat : k \in CrLfs(d, from) /\ pos <= k => k \in CrLfs(d, pos)
      /\ CrLfs(d, pos) \subseteq CrLfs(d, from)
  BY <1>1 DEF CrLfs
<1>3. ASSUME NEW k \in EmptyLines(d, from) PROVE eol + 2 <= k
  <2>1. k \in CrLfs(d, from) /\ k \in Nat /\ pos <= k /\ (k = from \/ k - 2 \in CrLfs(d, from))
    BY <1>2 DEF EmptyLines
  <2>2. eol <= k
    BY <2>1, <1>2
  <2>3. k # eol
    <3>. SUFFICES ASSUME k = eol PROVE FALSE
      OBVIOUS
    <3>1. eol - 2 \in CrLfs(d, from)
      BY <2>1, <1>1
    <3>2. ~(pos <= eol - 2)
      <4>1. eol - 2 \in Nat
        BY <3>1, <1>2
      <4>2. pos <= eol - 2 => eol <= eol - 2
        BY <3>1, <4>1, <1>2
      <4>. QED BY <4>2, <1>1
    <3>3. eol - 2 = pos - 1
      BY <3>2, <1>1
    <3>. QED BY <3>1, <3>3, NoLineInside
  <2>4. k # eol + 1
    <3>1. At(d, eol + 1) = "LF" /\ At(d, k) = "CR"
      BY <2>1 DEF CrLfs
    <3>. QED BY <3>1
  <2>. QED BY <2>1, <2>2, <2>3, <2>4, <1>1
<1>. QED BY <1>2, <1>3

\* Reading a line of the trailer keeps the decoder in order, and consumes bytes or waits.
LEMMA TrailerStepHolds ==
    ASSUME NEW d \in Seq(BodyBytes), NEW c, InBody(d, c), c.state = "trailer", NEW y, y = TrailerStep(d, c)
    PROVE  Decoded(d, y) /\ (y = c \/ Measure(d, y) < Measure(d, c))
<1>. DEFINE ends == CrLfs(d, c.pos)
            eol == Least(ends)
<1>0. /\ c \in Decoders(d) /\ InTrailer(d, c) /\ Len(c.out) <= MaxBody
      /\ c.pos \in Nat /\ c.pos <= Len(d) /\ Len(d) \in Nat /\ c.out \in Seq(BodyBytes) /\ c.left \in Nat
      /\ MAX_TRAILER_BYTES \in Nat
  BY DecoderFields, ScanAssumption DEF InBody
<1>1. Measure(d, c) = Len(d) + 1 - c.pos
  BY DEF Measure
<1>2. ASSUME y = Failed(400) PROVE Decoded(d, y) /\ Measure(d, y) < Measure(d, c)
  <2>1. y \in Errors
    BY <1>2 DEF Errors
  <2>2. Measure(d, y) = 0
    BY <2>1, ErrorsEnd DEF Measure
  <2>. QED BY <2>1, <2>2, <1>0, <1>1 DEF Decoded
<1>3. CASE c.pos - c.left > MAX_TRAILER_BYTES
  <2>1. y = Failed(400)
    BY <1>0, <1>3 DEF TrailerStep
  <2>. QED BY <2>1, <1>2
<1>4. CASE ~(c.pos - c.left > MAX_TRAILER_BYTES) /\ ends = {}
  <2>1. y = IF Len(d) - c.left > MAX_TRAILER_BYTES THEN Failed(400) ELSE c
    BY <1>0, <1>4 DEF TrailerStep
  <2>2. y = Failed(400) \/ y = c
    BY <2>1
  <2>. QED BY <2>2, <1>2 DEF Decoded
<1>5. CASE ~(c.pos - c.left > MAX_TRAILER_BYTES) /\ ends # {}
  <2>1. eol \in ends /\ \A m \in ends : eol <= m
    BY <1>0, <1>5, LeastIs, CrLfsAreOffsets
  <2>2. eol \in Nat /\ c.pos <= eol /\ eol + 2 <= Len(d)
    <3>. HIDE DEF eol
    <3>. QED BY <2>1, <1>0, CrLfsAreOffsets
  <2>3. y = IF eol = c.pos THEN [state |-> "done", pos |-> c.pos + 2, out |-> c.out]
            ELSE Decoder("trailer", eol + 2, c.out, c.left)
    BY <1>0, <1>5 DEF TrailerStep
  <2>4. PICK p \in 0..Len(d) : /\ Passed(d, p, c.out)
                               /\ IsSizeLine(d, p, c.left) /\ SizeOf(d, p, c.left) = 0
    BY <1>0 DEF InTrailer
  <2>5. /\ c.left <= c.pos
        /\ c.pos = c.left \/ c.pos - 2 \in CrLfs(d, c.left)
        /\ \A k \in EmptyLines(d, c.left) : c.pos <= k
    BY <1>0 DEF InTrailer
  <2>. HIDE DEF eol
  <2>6. CASE eol = c.pos
    <3>1. y = [state |-> "done", pos |-> c.pos + 2, out |-> c.out]
      BY <2>3, <2>6
    <3>2. y.pos = c.pos + 2 /\ y.out = c.out /\ y.state = "done" /\ y = [state |-> "done", pos |-> y.pos, out |-> y.out]
      BY <3>1
    <3>3. c.pos \in CrLfs(d, c.left)
      BY <2>1, <2>5, <2>6, <1>0 DEF CrLfs
    <3>4. (c.pos + 2) - 2 = c.pos
      BY <1>0
    <3>5. IsTrailer(d, c.left, c.pos + 2)
      BY <3>3, <3>4, <2>5 DEF IsTrailer, EmptyLines
    <3>6. IsLast(d, p, c.pos + 2)
      <4>1. p + 2 <= c.left
        <5>1. p \in Nat /\ c.left <= Len(d)
          BY <1>0, <2>5
        <5>. QED BY <5>1, <2>4, <1>0, GrowsSelf, SizeLineStays
      <4>2. c.left \in p..c.pos + 2
        BY <4>1, <1>0, <2>5
      <4>. QED BY <4>2, <2>4, <3>5 DEF IsLast
    <3>7. y.pos \in 0..Len(d)
      BY <3>2, <2>2, <2>6, <1>0
    <3>8. PastBody(d, y)
      BY <3>2, <3>6, <3>7, <2>4, <1>0 DEF PastBody
    <3>9. Measure(d, y) = 0
      BY <3>2 DEF Measure
    <3>. QED BY <3>8, <3>9, <1>0, <1>1 DEF Decoded
  <2>7. CASE eol # c.pos
    <3>1. y = Decoder("trailer", eol + 2, c.out, c.left)
      BY <2>3, <2>7
    <3>2. y \in Decoders(d) /\ y.state = "trailer" /\ y.pos = eol + 2 /\ y.out = c.out /\ y.left = c.left
      <4>1. Decoder("trailer", eol + 2, c.out, c.left) \in Decoders(d)
        BY <2>2, <1>0, IsDecoder
      <4>. QED BY <4>1, <3>1, FieldsOfDecoder
    <3>3. eol \in CrLfs(d, c.left) /\ \A k \in EmptyLines(d, c.left) : eol + 2 <= k
      BY <2>1, <2>5, <2>7, <1>0, NextTrailerLine
    <3>4. (eol + 2) - 2 = eol /\ c.left <= eol + 2
      BY <2>2, <2>5, <1>0
    <3>5. InTrailer(d, y)
      BY <3>2, <3>3, <3>4, <2>4 DEF InTrailer
    <3>6. InBody(d, y)
      BY <3>2, <3>5, <1>0 DEF InBody
    <3>7. Measure(d, y) = Len(d) + 1 - (eol + 2)
      BY <3>2 DEF Measure
    <3>. QED BY <3>6, <3>7, <2>2, <1>0, <1>1 DEF Decoded
  <2>. QED BY <2>6, <2>7
<1>. QED BY <1>3, <1>4, <1>5

----------------------------------------------------------------------------
\* Any turn of the loop.
LEMMA StepIs ==
    ASSUME NEW d, NEW c
    PROVE  /\ c.state = "size" => Step(d, c) = SizeStep(d, c)
           /\ c.state = "data" => Step(d, c) = DataStep(d, c)
           /\ c.state = "dataCrlf" => Step(d, c) = DataCrlfStep(d, c)
           /\ c.state = "trailer" => Step(d, c) = TrailerStep(d, c)
           /\ c.state \notin {"size", "data", "dataCrlf", "trailer"} => Step(d, c) = c
BY DEF Step

\* Every step of the decoder keeps it in order, and consumes bytes or waits.
LEMMA StepHolds ==
    ASSUME NEW d \in Seq(BodyBytes), NEW c, Decoded(d, c)
    PROVE  /\ Decoded(d, Step(d, c))
           /\ Step(d, c) = c \/ Measure(d, Step(d, c)) < Measure(d, c)
<1>1. CASE InBody(d, c)
  <2>1. c.state \in {"size", "data", "dataCrlf", "trailer"}
    BY <1>1, DecoderFields DEF InBody
  <2>2. CASE c.state = "size"
    BY <2>2, <1>1, StepIs, SizeStepHolds
  <2>3. CASE c.state = "data"
    BY <2>3, <1>1, StepIs, DataStepHolds
  <2>4. CASE c.state = "dataCrlf"
    BY <2>4, <1>1, StepIs, DataCrlfStepHolds
  <2>5. CASE c.state = "trailer"
    BY <2>5, <1>1, StepIs, TrailerStepHolds
  <2>. QED BY <2>1, <2>2, <2>3, <2>4, <2>5
<1>2. CASE PastBody(d, c) \/ c \in Errors
  <2>1. c.state \in {"done", "refused"}
    BY <1>2, ErrorsEnd DEF PastBody
  <2>2. Step(d, c) = c
    BY <2>1, StepIs
  <2>. QED BY <2>2
<1>. QED BY <1>1, <1>2 DEF Decoded

\* As long as it is not at its end, the decoder has bytes to go.
LEMMA MeasureIs ==
    ASSUME NEW d \in Seq(BodyBytes), NEW c, Decoded(d, c)
    PROVE  /\ Measure(d, c) \in 0..Len(d) + 1
           /\ Measure(d, c) = 0 => Step(d, c) = c
<1>1. CASE InBody(d, c)
  <2>1. c.state \in {"size", "data", "dataCrlf", "trailer"} /\ c.pos \in Nat /\ c.pos <= Len(d) /\ Len(d) \in Nat
    BY <1>1, DecoderFields DEF InBody
  <2>2. Measure(d, c) = Len(d) + 1 - c.pos
    BY <2>1 DEF Measure
  <2>. QED BY <2>1, <2>2
<1>2. CASE PastBody(d, c) \/ c \in Errors
  <2>1. c.state \in {"done", "refused"}
    BY <1>2, ErrorsEnd DEF PastBody
  <2>2. Step(d, c) = c /\ Measure(d, c) = 0
    BY <2>1, StepIs DEF Measure
  <2>3. Len(d) \in Nat
    BY LenProperties
  <2>. QED BY <2>2, <2>3
<1>. QED BY <1>1, <1>2 DEF Decoded

\* What is decoded stays decoded when more bytes come.
LEMMA DecodedStays ==
    ASSUME NEW d, NEW e, Grows(d, e), NEW c, Decoded(d, c)
    PROVE  Decoded(e, c)
<1>0. d \in Seq(BodyBytes) /\ e \in Seq(BodyBytes) /\ Len(d) \in Nat /\ Len(e) \in Nat /\ Len(d) <= Len(e)
  BY DEF Grows
<1>1. 0..Len(d) \subseteq 0..Len(e) /\ 0..Len(d) \subseteq Nat
  BY <1>0
<1>2. CASE InBody(d, c)
  <2>1. /\ c \in Decoders(d) /\ c = Decoder(c.state, c.pos, c.out, c.left)
        /\ c.state \in {"size", "data", "dataCrlf", "trailer"}
        /\ c.pos \in Nat /\ c.pos <= Len(d) /\ c.out \in Seq(BodyBytes) /\ c.left \in Nat
    BY <1>0, <1>2, DecoderFields DEF InBody
  <2>2. c \in Decoders(e)
    <3>1. c.pos <= Len(e)
      BY <2>1, <1>0
    <3>. QED BY <3>1, <2>1, <1>0, IsDecoder
  <2>3. CASE c.state = "size"
    BY <2>2, <2>3, <1>2, PassedStays DEF InBody, Decoded
  <2>4. ASSUME InChunk(d, c) PROVE InChunk(e, c)
    <3>1. PICK p \in 0..Len(d), k \in 0..Len(d), before \in Seq(BodyBytes) :
        /\ Passed(d, p, before)
        /\ IsSizeLine(d, p, k) /\ SizeOf(d, p, k) > 0
        /\ k <= c.pos /\ c.pos + c.left = k + SizeOf(d, p, k)
        /\ c.out = before \o SubSeq(d, k + 1, c.pos)
      BY <2>4 DEF InChunk
    <3>2. p \in Nat /\ k \in Nat /\ k <= Len(d)
      BY <1>0
    <3>3. IsSizeLine(e, p, k) /\ SizeOf(e, p, k) = SizeOf(d, p, k)
      BY <3>1, <3>2, SizeLineStays
    <3>4. Passed(e, p, before)
      BY <3>1, PassedStays
    <3>5. SubSeq(e, k + 1, c.pos) = SubSeq(d, k + 1, c.pos)
      <4>1. k \in Nat /\ c.pos \in Nat /\ c.pos <= Len(d)
        BY <3>2, <2>1
      <4>. DEFINE n == c.pos
      <4>2. n \in Nat /\ n <= Len(d)
        BY <4>1
      <4>. HIDE DEF n
      <4>3. SubSeq(e, k + 1, n) = SubSeq(d, k + 1, n)
        BY <4>1, <4>2, SubSeqStays
      <4>. QED BY <4>3 DEF n
    <3>. QED BY <3>1, <3>3, <3>4, <3>5, <1>1 DEF InChunk
  <2>5. CASE c.state \in {"data", "dataCrlf"}
    BY <2>2, <2>4, <2>5, <1>2 DEF InBody, Decoded
  <2>6. CASE c.state = "trailer"
    <3>1. InTrailer(d, c) /\ Len(c.out) <= MaxBody
      BY <2>6, <1>2 DEF InBody
    <3>2. PICK p \in 0..Len(d) : /\ Passed(d, p, c.out)
                                 /\ IsSizeLine(d, p, c.left) /\ SizeOf(d, p, c.left) = 0
      BY <3>1 DEF InTrailer
    <3>3. /\ c.left <= c.pos
          /\ c.pos = c.left \/ c.pos - 2 \in CrLfs(d, c.left)
          /\ \A k \in EmptyLines(d, c.left) : c.pos <= k
      BY <3>1 DEF InTrailer
    <3>4. Passed(e, p, c.out) /\ IsSizeLine(e, p, c.left) /\ SizeOf(e, p, c.left) = 0
      <4>1. c.left <= Len(d) /\ p \in Nat
        BY <3>3, <2>1, <1>0
      <4>. QED BY <4>1, <3>2, <2>1, PassedStays, SizeLineStays
    <3>5. CrLfs(d, c.left) \subseteq CrLfs(e, c.left)
      BY <2>1, CrLfsGrow
    <3>6. ASSUME NEW k \in EmptyLines(e, c.left) PROVE c.pos <= k
      <4>1. /\ EmptyLines(d, c.left) = {m \in EmptyLines(e, c.left) : m + 2 <= Len(d)}
            /\ k \in Nat /\ k \in CrLfs(e, c.left)
        BY <2>1, EmptyLinesStay DEF EmptyLines
      <4>2. CASE k + 2 <= Len(d)
        BY <4>1, <4>2, <3>3
      <4>3. CASE ~(k + 2 <= Len(d))
        <5>1. k # c.pos - 1
          BY <4>1, <3>3, <3>5, <2>1, <1>0, NoLineInside
        <5>. QED BY <5>1, <4>1, <4>3, <2>1, <1>0
      <4>. QED BY <4>2, <4>3
    <3>7. InTrailer(e, c)
      BY <3>2, <3>3, <3>4, <3>5, <3>6, <1>1 DEF InTrailer
    <3>. QED BY <3>1, <3>7, <2>2, <2>6 DEF InBody, Decoded
  <2>. QED BY <2>1, <2>3, <2>5, <2>6
<1>3. CASE PastBody(d, c)
  <2>1. PICK p \in 0..Len(d) : Passed(d, p, c.out) /\ IsLast(d, p, c.pos)
    BY <1>3 DEF PastBody
  <2>2. c.pos \in 0..Len(d)
    BY <1>3 DEF PastBody
  <2>3. Passed(e, p, c.out) /\ IsLast(e, p, c.pos)
    BY <2>1, <2>2, <1>0, PassedStays, LastStays
  <2>4. PastBody(e, c)
    BY <2>3, <2>2, <1>1, <1>3 DEF PastBody
  <2>. QED BY <2>4 DEF Decoded
<1>. QED BY <1>2, <1>3 DEF Decoded


----------------------------------------------------------------------------
(* Resumption: a turn taken with fewer bytes is one that would be taken with *)
(* more, or a part of it.                                                    *)

\* As much is taken in two turns as in one.
LEMMA TakenTwice ==
    ASSUME NEW size \in Nat, NEW later \in Nat, size <= later, NEW pos \in Nat, NEW left \in Nat,
           NEW a \in Nat, a = size - pos, a < left,
           NEW b \in Nat, b = left \/ b = later - pos, b <= left, pos + b <= later,
           NEW t \in Nat, t = left - a \/ t = later - size, t <= left - a, size + t <= later
    PROVE  b = a + t
OBVIOUS

\* The data taken in two parts is taken.
LEMMA DataStepResumes ==
    ASSUME NEW d, NEW e, Grows(d, e), NEW c \in Decoders(d), c.state = "data", c.left > 0,
           NEW y, y = DataStep(d, c)
    PROVE  DataStep(e, c) = y \/ (y.state = "data" /\ DataStep(e, c) = DataStep(e, y))
<1>0. d \in Seq(BodyBytes) /\ e \in Seq(BodyBytes) /\ Len(d) \in Nat /\ Len(e) \in Nat /\ Len(d) <= Len(e)
  BY DEF Grows
<1>1. /\ c.pos \in Nat /\ c.pos <= Len(d)
      /\ c.out \in Seq(BodyBytes) /\ Len(c.out) \in Nat /\ c.left \in Nat
      /\ c = Decoder(c.state, c.pos, c.out, c.left)
  BY <1>0, DecoderFields
<1>2. c \in Decoders(e)
  <2>1. c.pos <= Len(e)
    BY <1>0, <1>1
  <2>. QED BY <2>1, <1>0, <1>1, IsDecoder
<1>. DEFINE z == DataStep(e, c)
<1>3. PICK a \in Nat : Takes(d, c, y, a)
  BY <1>0, DataStepIs
<1>4. PICK b \in Nat : Takes(e, c, z, b)
  BY <1>0, <1>2, DataStepIs
<1>5. /\ a = c.left \/ a = Len(d) - c.pos
      /\ c.pos + a \in Nat /\ c.pos + a <= Len(d) /\ a <= c.left
      /\ y \in Decoders(d)
      /\ (c.left = a /\ y.state = "dataCrlf") \/ (c.left # a /\ y.state = "data")
      /\ y.pos = c.pos + a /\ y.left = c.left - a
      /\ y.out = c.out \o SubSeq(d, c.pos + 1, c.pos + a)
  BY <1>3 DEF Takes
<1>6. /\ b = c.left \/ b = Len(e) - c.pos
      /\ c.pos + b \in Nat /\ c.pos + b <= Len(e) /\ b <= c.left
      /\ z \in Decoders(e)
      /\ (c.left = b /\ z.state = "dataCrlf") \/ (c.left # b /\ z.state = "data")
      /\ z.pos = c.pos + b /\ z.left = c.left - b
      /\ z.out = c.out \o SubSeq(e, c.pos + 1, c.pos + b)
  BY <1>4 DEF Takes
<1>7. SubSeq(e, c.pos + 1, c.pos + a) = SubSeq(d, c.pos + 1, c.pos + a)
  <2>. DEFINE from == c.pos
              n == c.pos + a
  <2>1. from \in Nat /\ n \in Nat /\ n <= Len(d)
    BY <1>1, <1>5
  <2>2. SubSeq(e, from + 1, n) = SubSeq(d, from + 1, n)
    <3>. HIDE DEF from, n
    <3>. QED BY <2>1, SubSeqStays
  <2>. QED BY <2>2
<1>8. z = Decoder(z.state, z.pos, z.out, z.left) /\ y = Decoder(y.state, y.pos, y.out, y.left)
  BY <1>0, <1>5, <1>6, DecoderFields
<1>. HIDE DEF z
<1>9. CASE c.left = a
  <2>1. b = a
    <3>1. a \in Nat /\ b \in Nat
      OBVIOUS
    <3>2. /\ b = c.left \/ b = Len(e) - c.pos
          /\ c.pos + a <= Len(d) /\ b <= c.left
      BY <1>5, <1>6
    <3>. QED BY <3>1, <3>2, <1>0, <1>1, <1>9
  <2>2. z.state = y.state /\ z.pos = y.pos /\ z.left = y.left
    BY <2>1, <1>5, <1>6, <1>9
  <2>3. z.out = y.out
    BY <2>1, <1>5, <1>6, <1>7
  <2>. QED BY <2>2, <2>3, <1>8 DEF z
<1>10. CASE c.left # a
  <2>1. a = Len(d) - c.pos /\ a < c.left /\ c.pos + a = Len(d) /\ y.state = "data" /\ y.pos = Len(d)
        /\ y.left = c.left - a /\ y.left > 0 /\ a <= b
    <3>0. Len(d) \in Nat /\ Len(e) \in Nat /\ Len(d) <= Len(e) /\ c.pos \in Nat /\ c.left \in Nat /\ c.pos <= Len(d)
      BY <1>0, <1>1
    <3>1. a \in Nat /\ b \in Nat
      OBVIOUS
    <3>2. /\ a = c.left \/ a = Len(d) - c.pos
          /\ a <= c.left /\ y.pos = c.pos + a /\ y.left = c.left - a
          /\ b = c.left \/ b = Len(e) - c.pos
      BY <1>5, <1>6
    <3>3. y.state = "data"
      BY <1>5, <1>10
    <3>4. a = Len(d) - c.pos
      BY <3>2, <1>10
    <3>5. a < c.left /\ c.left - a > 0
      <4>1. a <= c.left /\ a # c.left
        BY <3>2, <1>10
      <4>. QED BY <4>1, <3>0, <3>1
    <3>6. c.pos + a = Len(d)
      BY <3>0, <3>4
    <3>7. a <= b
      <4>1. CASE b = c.left
        BY <4>1, <3>2
      <4>2. CASE b = Len(e) - c.pos
        BY <4>2, <3>0, <3>4
      <4>. QED BY <4>1, <4>2, <3>2
    <3>8. y.pos = Len(d)
      BY <3>2, <3>6
    <3>9. y.left = c.left - a /\ y.left > 0
      BY <3>2, <3>5
    <3>. QED BY <3>3, <3>4, <3>5, <3>6, <3>7, <3>8, <3>9
  <2>2. y \in Decoders(e)
    <3>1. /\ y.state \in {"size", "data", "dataCrlf", "trailer"} /\ y.pos \in Nat /\ y.pos <= Len(d)
          /\ y.out \in Seq(BodyBytes) /\ y.left \in Nat
      BY <1>0, <1>5, DecoderFields
    <3>2. y.pos <= Len(e)
      BY <3>1, <1>0
    <3>. QED BY <3>1, <3>2, <1>0, <1>8, IsDecoder
  <2>. DEFINE x == DataStep(e, y)
  <2>3. PICK t \in Nat : Takes(e, y, x, t)
    BY <2>1, <2>2, <1>0, DataStepIs
  <2>4. /\ t = y.left \/ t = Len(e) - y.pos
        /\ y.pos + t \in Nat /\ y.pos + t <= Len(e) /\ t <= y.left
        /\ x \in Decoders(e)
        /\ (y.left = t /\ x.state = "dataCrlf") \/ (y.left # t /\ x.state = "data")
        /\ x.pos = y.pos + t /\ x.left = y.left - t
        /\ x.out = y.out \o SubSeq(e, y.pos + 1, y.pos + t)
    BY <2>3 DEF Takes
  <2>5. x = Decoder(x.state, x.pos, x.out, x.left)
    BY <1>0, <2>4, DecoderFields
  <2>. HIDE DEF x
  <2>6. b = a + t
    <3>0. Len(d) \in Nat /\ Len(e) \in Nat /\ Len(d) <= Len(e) /\ c.pos \in Nat /\ c.left \in Nat /\ c.pos <= Len(d)
      BY <1>0, <1>1
    <3>1. a \in Nat /\ b \in Nat /\ t \in Nat
      OBVIOUS
    <3>2. /\ t = y.left \/ t = Len(e) - y.pos
          /\ t <= y.left /\ y.pos + t <= Len(e)
          /\ b = c.left \/ b = Len(e) - c.pos
          /\ b <= c.left /\ c.pos + b <= Len(e)
      BY <2>4, <1>6
    <3>3. a = Len(d) - c.pos /\ y.pos = Len(d) /\ y.left = c.left - a
      BY <2>1
    <3>4. t = c.left - a \/ t = Len(e) - Len(d)
      BY <3>2, <3>3
    <3>5. t <= c.left - a /\ Len(d) + t <= Len(e) /\ b <= c.left /\ c.pos + b <= Len(e)
      BY <3>2, <3>3
    <3>6. b = c.left \/ b = Len(e) - c.pos
      BY <3>2
    <3>7. a < c.left
      BY <2>1
    <3>. DEFINE size == Len(d)
                later == Len(e)
                pos == c.pos
                left == c.left
    <3>8. /\ size \in Nat /\ later \in Nat /\ size <= later /\ pos \in Nat /\ left \in Nat
          /\ a = size - pos /\ a < left
          /\ b = left \/ b = later - pos
          /\ b <= left /\ pos + b <= later
          /\ t = left - a \/ t = later - size
          /\ t <= left - a /\ size + t <= later
      BY <3>0, <3>3, <3>4, <3>5, <3>6, <3>7
    <3>. HIDE DEF size, later, pos, left
    <3>. QED BY <3>1, <3>8, TakenTwice
  <2>7. x.pos = z.pos /\ x.left = z.left
    <3>1. a \in Nat /\ b \in Nat /\ t \in Nat
      OBVIOUS
    <3>2. /\ x.pos = y.pos + t /\ x.left = y.left - t
          /\ z.pos = c.pos + b /\ z.left = c.left - b
          /\ y.pos = c.pos + a /\ y.left = c.left - a
      BY <2>4, <1>5, <1>6
    <3>. QED BY <3>1, <3>2, <2>6, <1>1
  <2>8. x.state = z.state
    <3>1. y.left = t <=> c.left = b
      <4>1. y.left = c.left - a
        BY <1>5
      <4>. QED BY <4>1, <2>6, <1>1
    <3>. QED BY <3>1, <2>4, <1>6
  <2>9. x.out = z.out
    <3>. DEFINE i == c.pos
                j == c.pos + a
                k == c.pos + b
                first == SubSeq(e, i + 1, j)
                then == SubSeq(e, j + 1, k)
                old == c.out
    <3>1. i \in Nat /\ j \in Nat /\ k \in Nat /\ i <= j /\ j <= k /\ k <= Len(e) /\ j <= Len(e)
      <4>1. a \in Nat /\ b \in Nat /\ c.pos + b <= Len(e)
        BY <1>6
      <4>2. Len(e) \in Nat /\ c.pos \in Nat
        BY <1>0, <1>1
      <4>3. a <= b
        BY <2>1
      <4>. QED BY <4>1, <4>2, <4>3
    <3>2. first \in Seq(BodyBytes) /\ then \in Seq(BodyBytes) /\ old \in Seq(BodyBytes)
      <4>1. old \in Seq(BodyBytes)
        BY <1>1
      <4>. HIDE DEF i, j, k, old
      <4>. QED BY <3>1, <4>1, <1>0, GrowsSelf, SubSeqStays
    <3>3. first \o then = SubSeq(e, i + 1, k)
      <4>. HIDE DEF i, j, k
      <4>. QED BY <3>1, <1>0, SplitSubSeq
    <3>4. y.pos = j /\ y.pos + t = k
      <4>1. y.pos = c.pos + a
        BY <1>5
      <4>. QED BY <4>1, <2>6, <1>1
    <3>5. x.out = (old \o first) \o then
      <4>1. x.out = y.out \o SubSeq(e, y.pos + 1, y.pos + t)
        BY <2>4
      <4>2. y.out = old \o first
        BY <1>5, <1>7
      <4>. QED BY <4>1, <4>2, <3>4
    <3>6. z.out = old \o SubSeq(e, i + 1, k)
      BY <1>6
    <3>7. (old \o first) \o then = old \o (first \o then)
      <4>. HIDE DEF old, first, then
      <4>. QED BY <3>2, Regroup
    <3>. QED BY <3>3, <3>5, <3>6, <3>7
  <2>. QED BY <2>1, <2>5, <2>7, <2>8, <2>9, <1>8 DEF x, z
<1>. QED BY <1>9, <1>10

\* A step taken with fewer bytes does not lead elsewhere: with more bytes the same
\* step is taken, or the one that goes on from where it led.
LEMMA StepResumes ==
    ASSUME NEW d, NEW e, Grows(d, e), NEW c, Decoded(d, c), Step(d, c).state # "refused"
    PROVE  Step(e, c) = Step(d, c) \/ Step(e, c) = Step(e, Step(d, c))
<1>. DEFINE y == Step(d, c)
<1>0. d \in Seq(BodyBytes) /\ e \in Seq(BodyBytes) /\ Len(d) \in Nat /\ Len(e) \in Nat /\ Len(d) <= Len(e)
  BY DEF Grows
<1>1. CASE InBody(d, c)
  <2>1. /\ c \in Decoders(d) /\ c.state \in {"size", "data", "dataCrlf", "trailer"}
        /\ c.pos \in Nat /\ c.pos <= Len(d)
    BY <1>0, <1>1, DecoderFields DEF InBody
  <2>2. CASE c.state = "size"
    <3>1. y = SizeStep(d, c) /\ Step(e, c) = SizeStep(e, c)
      BY <2>2, StepIs
    <3>2. CASE CrLfs(d, c.pos) = {}
      <4>1. y = Failed(400) \/ y = c
        BY <3>1, <3>2, <2>1, <1>0, ScanAssumption DEF SizeStep
      <4>. QED BY <4>1 DEF Failed
    <3>3. CASE CrLfs(d, c.pos) # {}
      BY <3>1, <3>3, <2>1, <2>2, SizeStepStays
    <3>. QED BY <3>2, <3>3
  <2>3. CASE c.state = "data"
    <3>1. y = DataStep(d, c) /\ Step(e, c) = DataStep(e, c)
      BY <2>3, StepIs
    <3>2. c.left > 0
      BY <2>3, <1>1 DEF InBody
    <3>3. DataStep(e, c) = y \/ (y.state = "data" /\ DataStep(e, c) = DataStep(e, y))
      BY <3>1, <3>2, <2>1, <2>3, DataStepResumes
    <3>4. y.state = "data" => Step(e, y) = DataStep(e, y)
      BY StepIs
    <3>. QED BY <3>1, <3>3, <3>4
  <2>4. CASE c.state = "dataCrlf"
    <3>1. y = DataCrlfStep(d, c) /\ Step(e, c) = DataCrlfStep(e, c)
      BY <2>4, StepIs
    <3>2. CASE Len(d) < c.pos + 2
      <4>1. y = c
        BY <3>1, <3>2, <2>1, <1>0 DEF DataCrlfStep
      <4>. QED BY <4>1
    <3>3. CASE ~(Len(d) < c.pos + 2)
      <4>1. c.pos \in CrLfs(d, c.pos)
        <5>. SUFFICES ASSUME c.pos \notin CrLfs(d, c.pos) PROVE FALSE
          OBVIOUS
        <5>1. y = Failed(400)
          BY <3>1, <3>3, <2>1, <1>0 DEF DataCrlfStep
        <5>. QED BY <5>1 DEF Failed
      <4>2. c.pos \in CrLfs(e, c.pos)
        BY <4>1, <2>1, CrLfsGrow
      <4>3. ~(Len(e) < c.pos + 2)
        BY <3>3, <2>1, <1>0
      <4>4. y = Decoder("size", c.pos + 2, c.out, c.left)
        BY <3>1, <3>3, <4>1, <2>1, <1>0 DEF DataCrlfStep
      <4>5. Step(e, c) = Decoder("size", c.pos + 2, c.out, c.left)
        BY <3>1, <4>2, <4>3, <2>1, <1>0 DEF DataCrlfStep
      <4>. QED BY <4>4, <4>5
    <3>. QED BY <3>2, <3>3
  <2>5. CASE c.state = "trailer"
    <3>1. y = TrailerStep(d, c) /\ Step(e, c) = TrailerStep(e, c)
      BY <2>5, StepIs
    <3>2. CASE CrLfs(d, c.pos) = {}
      <4>0. c.left \in Nat /\ MAX_TRAILER_BYTES \in Nat
        BY <2>1, <1>0, DecoderFields, ScanAssumption
      <4>1. y = Failed(400) \/ y = c
        BY <3>1, <3>2, <4>0, <2>1, <1>0 DEF TrailerStep
      <4>. QED BY <4>1 DEF Failed
    <3>3. CASE CrLfs(d, c.pos) # {}
      <4>1. CrLfs(e, c.pos) # {} /\ Least(CrLfs(e, c.pos)) = Least(CrLfs(d, c.pos))
        BY <3>3, <2>1, LineEndStays
      <4>0. c.left \in Nat /\ MAX_TRAILER_BYTES \in Nat
        BY <2>1, <1>0, DecoderFields, ScanAssumption
      <4>2. TrailerStep(e, c) = TrailerStep(d, c)
        BY <4>0, <4>1, <3>3, <2>1 DEF TrailerStep
      <4>. QED BY <3>1, <4>2
    <3>. QED BY <3>2, <3>3
  <2>. QED BY <2>1, <2>2, <2>3, <2>4, <2>5
<1>2. CASE PastBody(d, c) \/ c \in Errors
  <2>1. c.state \in {"done", "refused"}
    BY <1>2, ErrorsEnd DEF PastBody
  <2>2. y = c
    BY <2>1, StepIs
  <2>. QED BY <2>2
<1>. QED BY <1>1, <1>2 DEF Decoded


----------------------------------------------------------------------------
\* The turns of the loop of advance.
Turns(d, c, t, n) == t[0] = c /\ \A i \in 1..n : t[i] = Step(d, t[i - 1])

\* The turns of the loop are determined by where they begin.
LEMMA TurnsAgree ==
    ASSUME NEW d, NEW c, NEW s, NEW t, NEW n \in Nat, Turns(d, c, s, n), Turns(d, c, t, n)
    PROVE  s[n] = t[n]
<1>. DEFINE T == {i \in Nat : i <= n => s[i] = t[i]}
<1>1. 0 \in T
  BY DEF Turns
<1>2. ASSUME NEW i \in Nat, i \in T PROVE i + 1 \in T
  <2>. SUFFICES ASSUME i + 1 <= n PROVE s[i + 1] = t[i + 1]
    OBVIOUS
  <2>1. i + 1 \in 1..n /\ (i + 1) - 1 = i
    OBVIOUS
  <2>2. s[i + 1] = Step(d, s[(i + 1) - 1]) /\ t[i + 1] = Step(d, t[(i + 1) - 1])
    BY <2>1 DEF Turns
  <2>3. s[i] = t[i]
    BY <1>2
  <2>. QED BY <2>1, <2>2, <2>3
<1>3. n \in T
  <2>. HIDE DEF T
  <2>. QED BY <1>1, <1>2, SetInduction
<1>. QED BY <1>3

\* What the recursive definition in Advance asks for.
TurnOf(d, c, f, i) == IF i = 0 THEN c ELSE Step(d, f[i - 1])

IsTurn(d, c, f, n) == f = [i \in 0..n |-> TurnOf(d, c, f, i)]

\* There is a function that satisfies the equations of the turns, for every length.
LEMMA TurnExists ==
    ASSUME NEW d, NEW c, NEW n \in Nat
    PROVE  \E f : f = [i \in 0..n |-> TurnOf(d, c, f, i)]
<1>. DEFINE Is(f, m) == f = [i \in 0..m |-> TurnOf(d, c, f, i)]
            T == {m \in Nat : \E f : Is(f, m)}
<1>1. 0 \in T
  <2>. DEFINE g == [i \in 0..0 |-> c]
  <2>1. Is(g, 0)
    BY DEF TurnOf
  <2>2. \E h : Is(h, 0)
    <3>. HIDE DEF Is, g
    <3>. QED BY <2>1
  <2>. QED BY <2>2
<1>2. ASSUME NEW m \in Nat, m \in T PROVE m + 1 \in T
  <2>1. PICK f : Is(f, m)
    BY <1>2
  <2>. DEFINE last == Step(d, f[m])
              g == [i \in 0..m + 1 |-> IF i <= m THEN f[i] ELSE last]
  <2>2. ASSUME NEW i \in 0..m + 1 PROVE g[i] = TurnOf(d, c, g, i)
    <3>1. CASE i = 0
      <4>1. f[i] = TurnOf(d, c, f, i) /\ g[i] = f[i]
        BY <3>1, <2>1
      <4>. QED BY <4>1, <3>1 DEF TurnOf
    <3>2. CASE i # 0 /\ i <= m
      <4>1. g[i] = f[i] /\ g[i - 1] = f[i - 1]
        <5>. HIDE DEF last
        <5>. QED BY <3>2
      <4>2. f[i] = TurnOf(d, c, f, i)
        BY <2>1, <3>2
      <4>. QED BY <4>1, <4>2, <3>2 DEF TurnOf
    <3>3. CASE i = m + 1
      <4>1. g[i] = last /\ g[i - 1] = f[m]
        <5>. HIDE DEF last
        <5>. QED BY <3>3
      <4>. HIDE DEF g
      <4>. QED BY <4>1, <3>3 DEF TurnOf
    <3>. QED BY <3>1, <3>2, <3>3
  <2>3. Is(g, m + 1)
    <3>1. g = [i \in 0..m + 1 |-> g[i]]
      OBVIOUS
    <3>. HIDE DEF g
    <3>. QED BY <2>2, <3>1
  <2>4. \E h : Is(h, m + 1)
    <3>. HIDE DEF Is, g
    <3>. QED BY <2>3
  <2>. HIDE DEF Is
  <2>. QED BY <2>4
<1>3. n \in T
  <2>. HIDE DEF T
  <2>. QED BY <1>1, <1>2, SetInduction
<1>. QED BY <1>3

\* A function that satisfies the equations lists the turns.
LEMMA TurnsOfTurn ==
    ASSUME NEW d, NEW c, NEW f, NEW n \in Nat, IsTurn(d, c, f, n)
    PROVE  Turns(d, c, f, n)
<1>1. ASSUME NEW i \in 0..n PROVE f[i] = IF i = 0 THEN c ELSE Step(d, f[i - 1])
  BY DEF IsTurn, TurnOf
<1>2. 0 \in 0..n /\ 1..n \subseteq 0..n
  OBVIOUS
<1>3. f[0] = c
  BY <1>1, <1>2
<1>4. ASSUME NEW i \in 1..n PROVE f[i] = Step(d, f[i - 1])
  BY <1>1, <1>2
<1>. QED BY <1>3, <1>4 DEF Turns

\* The loop has any number of turns.
LEMMA TurnsExist ==
    ASSUME NEW d, NEW c, NEW n \in Nat
    PROVE  \E t : Turns(d, c, t, n)
<1>1. PICK f : f = [i \in 0..n |-> TurnOf(d, c, f, i)]
  BY TurnExists
<1>2. IsTurn(d, c, f, n)
  BY <1>1 DEF IsTurn
<1>. QED BY <1>2, TurnsOfTurn

\* advance ends where the last turn leads, whatever function lists the turns.
LEMMA AdvanceTurns ==
    ASSUME NEW d \in Seq(BodyBytes), NEW c, NEW t, Turns(d, c, t, Len(d) + 1)
    PROVE  Advance(d, c) = t[Len(d) + 1]
<1>. DEFINE n == Len(d) + 1
            F == CHOOSE f : f = [i \in 0..Len(d) + 1 |-> TurnOf(d, c, f, i)]
<1>0. n \in Nat
  OBVIOUS
<1>1. Advance(d, c) = F[n]
  BY DEF Advance, TurnOf
<1>2. F = [i \in 0..n |-> TurnOf(d, c, F, i)]
  <2>1. \E f : f = [i \in 0..Len(d) + 1 |-> TurnOf(d, c, f, i)]
    BY <1>0, TurnExists
  <2>. QED BY <2>1
<1>3. IsTurn(d, c, F, n)
  <2>. HIDE DEF F
  <2>. QED BY <1>2 DEF IsTurn
<1>. HIDE DEF F
<1>4. Turns(d, c, F, n)
  <2>. HIDE DEF n
  <2>. QED BY <1>0, <1>3, TurnsOfTurn
<1>5. F[n] = t[n]
  <2>1. Turns(d, c, t, n)
    OBVIOUS
  <2>. HIDE DEF n
  <2>. QED BY <1>0, <1>4, <2>1, TurnsAgree
<1>. QED BY <1>1, <1>5

\* After n turns the decoder is where it was or has n bytes less to go.
LEMMA TurnsHold ==
    ASSUME NEW d \in Seq(BodyBytes), NEW c, Decoded(d, c), NEW n \in Nat, NEW t, Turns(d, c, t, n)
    PROVE  /\ Decoded(d, t[n])
           /\ Step(d, t[n]) = t[n] \/ Measure(d, t[n]) + n <= Len(d) + 1
<1>. DEFINE T == {i \in Nat : i <= n => /\ Decoded(d, t[i])
                                        /\ Step(d, t[i]) = t[i] \/ Measure(d, t[i]) + i <= Len(d) + 1}
<1>0. Len(d) \in Nat
  OBVIOUS
<1>1. 0 \in T
  <2>1. t[0] = c
    BY DEF Turns
  <2>2. Measure(d, c) \in 0..Len(d) + 1
    BY MeasureIs
  <2>3. Measure(d, t[0]) + 0 <= Len(d) + 1
    BY <2>1, <2>2, <1>0
  <2>. QED BY <2>1, <2>3
<1>2. ASSUME NEW i \in Nat, i \in T PROVE i + 1 \in T
  <2>. SUFFICES ASSUME i + 1 <= n
                PROVE  /\ Decoded(d, t[i + 1])
                       /\ Step(d, t[i + 1]) = t[i + 1] \/ Measure(d, t[i + 1]) + (i + 1) <= Len(d) + 1
    OBVIOUS
  <2>1. i + 1 \in 1..n /\ (i + 1) - 1 = i
    OBVIOUS
  <2>. DEFINE x == t[i]
              y == t[i + 1]
  <2>2. y = Step(d, x)
    BY <2>1 DEF Turns
  <2>3. Decoded(d, x) /\ (Step(d, x) = x \/ Measure(d, x) + i <= Len(d) + 1)
    BY <1>2
  <2>. HIDE DEF x, y
  <2>4. Decoded(d, y) /\ (y = x \/ Measure(d, y) < Measure(d, x))
    BY <2>2, <2>3, StepHolds
  <2>5. CASE y = x
    BY <2>2, <2>4, <2>5 DEF x, y
  <2>6. CASE y # x
    <3>1. Measure(d, x) + i <= Len(d) + 1 /\ Measure(d, y) < Measure(d, x)
      BY <2>2, <2>3, <2>4, <2>6
    <3>2. Measure(d, x) \in 0..Len(d) + 1 /\ Measure(d, y) \in 0..Len(d) + 1
      BY <2>3, <2>4, MeasureIs
    <3>. DEFINE mx == Measure(d, x)
                my == Measure(d, y)
    <3>3. my + (i + 1) <= Len(d) + 1
      <4>1. mx \in 0..Len(d) + 1 /\ my \in 0..Len(d) + 1 /\ mx + i <= Len(d) + 1 /\ my < mx
        BY <3>1, <3>2
      <4>. HIDE DEF mx, my
      <4>. QED BY <4>1, <1>0
    <3>. QED BY <3>3, <2>4 DEF x, y
  <2>. QED BY <2>5, <2>6
<1>3. n \in T
  <2>. HIDE DEF T
  <2>. QED BY <1>1, <1>2, SetInduction
<1>. QED BY <1>3

\* The loop goes as far as the bytes do.
LEMMA AdvanceHolds ==
    ASSUME NEW d \in Seq(BodyBytes), NEW c, Decoded(d, c)
    PROVE  /\ Decoded(d, Advance(d, c))
           /\ Step(d, Advance(d, c)) = Advance(d, c)
<1>. DEFINE n == Len(d) + 1
<1>0. n \in Nat /\ Len(d) \in Nat
  OBVIOUS
<1>1. PICK t : Turns(d, c, t, n)
  BY <1>0, TurnsExist
<1>. DEFINE x == t[n]
<1>2. Advance(d, c) = x
  BY <1>1, AdvanceTurns
<1>3. Decoded(d, x) /\ (Step(d, x) = x \/ Measure(d, x) + n <= Len(d) + 1)
  <2>. HIDE DEF n
  <2>. QED BY <1>0, <1>1, TurnsHold
<1>. HIDE DEF x
<1>4. Measure(d, x) \in 0..Len(d) + 1 /\ (Measure(d, x) = 0 => Step(d, x) = x)
  BY <1>3, MeasureIs
<1>5. Step(d, x) = x
  <2>. DEFINE m == Measure(d, x)
  <2>1. m \in 0..Len(d) + 1 /\ (m = 0 => Step(d, x) = x) /\ (Step(d, x) = x \/ m + (Len(d) + 1) <= Len(d) + 1)
    BY <1>3, <1>4
  <2>. HIDE DEF m
  <2>. QED BY <2>1, <1>0
<1>. QED BY <1>2, <1>3, <1>5

\* A turn more before the loop makes no difference: it has turns enough.
LEMMA AdvanceStep ==
    ASSUME NEW d \in Seq(BodyBytes), NEW c, Decoded(d, c)
    PROVE  Advance(d, Step(d, c)) = Advance(d, c)
<1>. DEFINE n == Len(d) + 1
<1>0. n \in Nat /\ n + 1 \in Nat
  OBVIOUS
<1>1. PICK t : Turns(d, c, t, n + 1)
  BY <1>0, TurnsExist
<1>. DEFINE s == [i \in 0..n |-> t[i + 1]]
<1>2. t[0] = c /\ \A i \in 1..n + 1 : t[i] = Step(d, t[i - 1])
  BY <1>1 DEF Turns
<1>3. Turns(d, c, t, n)
  <2>1. 1..n \subseteq 1..n + 1
    BY <1>0
  <2>. HIDE DEF n
  <2>. QED BY <1>2, <2>1 DEF Turns
<1>4. Turns(d, Step(d, c), s, n)
  <2>1. s[0] = Step(d, c)
    <3>1. 0 \in 0..n /\ 1 \in 1..n + 1 /\ 0 + 1 = 1 /\ 1 - 1 = 0
      BY <1>0
    <3>2. s[0] = t[1]
      BY <3>1
    <3>. HIDE DEF s, n
    <3>. QED BY <3>1, <3>2, <1>2
  <2>2. ASSUME NEW i \in 1..n PROVE s[i] = Step(d, s[i - 1])
    <3>1. i \in 0..n /\ i - 1 \in 0..n /\ i + 1 \in 1..n + 1 /\ (i + 1) - 1 = i /\ (i - 1) + 1 = i
      BY <1>0
    <3>2. s[i] = t[i + 1] /\ s[i - 1] = t[i]
      BY <3>1
    <3>3. t[i + 1] = Step(d, t[(i + 1) - 1])
      BY <3>1, <1>2
    <3>. QED BY <3>1, <3>2, <3>3
  <2>. HIDE DEF s
  <2>. QED BY <2>1, <2>2 DEF Turns
<1>5. Advance(d, c) = t[n]
  BY <1>3, AdvanceTurns
<1>6. Advance(d, Step(d, c)) = s[n]
  <2>. HIDE DEF s
  <2>. QED BY <1>4, AdvanceTurns
<1>7. s[n] = t[n + 1] /\ t[n + 1] = Step(d, t[n])
  <2>1. n \in 0..n /\ n + 1 \in 1..n + 1 /\ (n + 1) - 1 = n
    BY <1>0
  <2>2. s[n] = t[n + 1]
    BY <2>1
  <2>. HIDE DEF s, n
  <2>. QED BY <2>1, <2>2, <1>2
<1>8. Step(d, Advance(d, c)) = Advance(d, c)
  BY AdvanceHolds
<1>. HIDE DEF s, n
<1>. QED BY <1>5, <1>6, <1>7, <1>8

\* A decoder that has stopped is not moved.
LEMMA AdvanceEnded ==
    ASSUME NEW d \in Seq(BodyBytes), NEW c, Step(d, c) = c
    PROVE  Advance(d, c) = c
<1>. DEFINE n == Len(d) + 1
            t == [i \in 0..n |-> c]
<1>0. n \in Nat
  OBVIOUS
<1>1. Turns(d, c, t, n)
  <2>1. t[0] = c /\ \A i \in 1..n : t[i] = c /\ t[i - 1] = c
    BY <1>0
  <2>. HIDE DEF t
  <2>. QED BY <2>1 DEF Turns
<1>2. t[n] = c
  BY <1>0
<1>. HIDE DEF t
<1>. QED BY <1>1, <1>2, AdvanceTurns

\* However the bytes are cut, the decoder comes to the same end.
LEMMA AdvanceResumes ==
    ASSUME NEW d, NEW e, Grows(d, e), NEW c, Decoded(d, c), Advance(d, c).state # "refused"
    PROVE  Advance(e, Advance(d, c)) = Advance(e, c)
<1>. DEFINE n == Len(d) + 1
<1>0. n \in Nat /\ d \in Seq(BodyBytes) /\ e \in Seq(BodyBytes)
  BY DEF Grows
<1>1. PICK t : Turns(d, c, t, n)
  BY <1>0, TurnsExist
<1>2. Advance(d, c) = t[n]
  BY <1>0, <1>1, AdvanceTurns
<1>. HIDE DEF n
<1>3. t[0] = c /\ \A i \in 1..n : t[i] = Step(d, t[i - 1])
  BY <1>1 DEF Turns
<1>4. ASSUME NEW i \in 0..n PROVE Decoded(d, t[i])
  <2>1. i \in Nat /\ 1..i \subseteq 1..n
    BY <1>0
  <2>2. Turns(d, c, t, i)
    BY <2>1, <1>3 DEF Turns
  <2>. QED BY <2>1, <2>2, <1>0, TurnsHold
<1>5. ASSUME NEW i \in 0..n PROVE t[i].state # "refused"
  <2>. SUFFICES ASSUME t[i].state = "refused" PROVE FALSE
    OBVIOUS
  <2>. DEFINE T == {j \in Nat : i + j <= n => t[i + j] = t[i]}
  <2>0. i \in Nat
    BY <1>0
  <2>1. 0 \in T
    BY <2>0
  <2>2. ASSUME NEW j \in Nat, j \in T PROVE j + 1 \in T
    <3>. SUFFICES ASSUME i + (j + 1) <= n PROVE t[i + (j + 1)] = t[i]
      OBVIOUS
    <3>1. i + (j + 1) \in 1..n /\ (i + (j + 1)) - 1 = i + j /\ i + j <= n
      BY <2>0, <1>0
    <3>2. t[i + (j + 1)] = Step(d, t[(i + (j + 1)) - 1])
      BY <3>1, <1>3
    <3>3. t[i + j] = t[i]
      BY <3>1, <2>2
    <3>4. Step(d, t[i]) = t[i]
      BY StepIs
    <3>. QED BY <3>1, <3>2, <3>3, <3>4
  <2>3. n - i \in T
    <3>1. n - i \in Nat
      BY <1>0
    <3>. HIDE DEF T
    <3>. QED BY <3>1, <2>1, <2>2, SetInduction
  <2>4. t[n] = t[i]
    <3>1. i + (n - i) = n
      BY <2>0, <1>0
    <3>2. i + (n - i) <= n => t[i + (n - i)] = t[i]
      BY <2>3
    <3>3. n <= n
      BY <1>0
    <3>. QED BY <3>1, <3>2, <3>3
  <2>. QED BY <2>4, <1>2
<1>6. ASSUME NEW i \in 1..n PROVE Advance(e, t[i]) = Advance(e, t[i - 1])
  <2>0. i - 1 \in 0..n /\ i \in 0..n
    BY <1>0
  <2>. DEFINE x == t[i - 1]
              y == t[i]
  <2>1. y = Step(d, x) /\ Decoded(d, x) /\ Decoded(d, y) /\ y.state # "refused"
    BY <2>0, <1>3, <1>4, <1>5
  <2>. HIDE DEF x, y
  <2>2. Decoded(e, x) /\ Decoded(e, y)
    BY <2>1, DecodedStays
  <2>3. Step(e, x) = y \/ Step(e, x) = Step(e, y)
    BY <2>1, StepResumes
  <2>4. Advance(e, Step(e, x)) = Advance(e, x) /\ Advance(e, Step(e, y)) = Advance(e, y)
    BY <2>2, <1>0, AdvanceStep
  <2>5. Advance(e, y) = Advance(e, x)
    BY <2>3, <2>4
  <2>. QED BY <2>5 DEF x, y
<1>. DEFINE U == {i \in Nat : i <= n => Advance(e, t[i]) = Advance(e, c)}
<1>7. 0 \in U
  BY <1>3
<1>8. ASSUME NEW i \in Nat, i \in U PROVE i + 1 \in U
  <2>. SUFFICES ASSUME i + 1 <= n PROVE Advance(e, t[i + 1]) = Advance(e, c)
    OBVIOUS
  <2>1. i + 1 \in 1..n /\ (i + 1) - 1 = i /\ i <= n
    BY <1>0
  <2>2. Advance(e, t[i + 1]) = Advance(e, t[(i + 1) - 1])
    BY <2>1, <1>6
  <2>3. Advance(e, t[i]) = Advance(e, c)
    BY <2>1, <1>8
  <2>. QED BY <2>1, <2>2, <2>3
<1>9. n \in U
  <2>. HIDE DEF U
  <2>. QED BY <1>0, <1>7, <1>8, SetInduction
<1>10. n <= n
  BY <1>0
<1>. QED BY <1>2, <1>9, <1>10


----------------------------------------------------------------------------
\* The heads. More bytes bring no end of a head before those that were there.
LEMMA StrictEndIs ==
    ASSUME NEW d \in Seq(BodyBytes), NEW from \in Nat, NEW x
    PROVE  x \in StrictEnds(d, from) <=>
              \E k \in CrLfs(d, from) : k + 2 \in CrLfs(d, from) /\ x = [end |-> k, body |-> k + 4]
<1>1. \A k \in CrLfs(d, from) : k \in 0..Len(d)
  BY CrLfsAreOffsets
<1>. QED BY <1>1 DEF StrictEnds

\* An end of a head for the lenient scan: a line feed before an empty line.
LenientEnd(d, from, lf, x) ==
    /\ lf \in from..Len(d) - 1 /\ At(d, lf) = "LF"
    /\ x.end = LineEnd(d, lf) /\ x = [end |-> x.end, body |-> x.body]
    /\ \/ lf + 1 \in from..Len(d) - 1 /\ At(d, lf + 1) = "LF" /\ x.body = lf + 2
       \/ lf + 1 \in CrLfs(d, from) /\ x.body = lf + 3

\* An end for the lenient scan, said of the line feed before the empty line.
LEMMA LenientEndIs ==
    ASSUME NEW d \in Seq(BodyBytes), NEW from \in Nat, NEW x
    PROVE  x \in LenientEnds(d, from) <=> \E lf \in Nat : LenientEnd(d, from, lf, x)
<1>. DEFINE lfs == {k \in from..Len(d) - 1 : At(d, k) = "LF"}
            A == {[end |-> LineEnd(d, lf), body |-> lf + 2] : lf \in {k \in lfs : k + 1 \in lfs}}
            B == {[end |-> LineEnd(d, lf), body |-> lf + 3] : lf \in {k \in lfs : k + 1 \in CrLfs(d, from)}}
<1>0. Len(d) \in Nat
  OBVIOUS
<1>1. LenientEnds(d, from) = A \cup B
  BY DEF LenientEnds
<1>2. ASSUME x \in A PROVE \E lf \in Nat : LenientEnd(d, from, lf, x)
  <2>1. PICK lf \in lfs : lf + 1 \in lfs /\ x = [end |-> LineEnd(d, lf), body |-> lf + 2]
    BY <1>2
  <2>2. lf \in Nat /\ lf \in from..Len(d) - 1 /\ At(d, lf) = "LF"
        /\ lf + 1 \in from..Len(d) - 1 /\ At(d, lf + 1) = "LF"
    BY <2>1, <1>0
  <2>. HIDE DEF lfs
  <2>. QED BY <2>1, <2>2 DEF LenientEnd
<1>3. ASSUME x \in B PROVE \E lf \in Nat : LenientEnd(d, from, lf, x)
  <2>1. PICK lf \in lfs : lf + 1 \in CrLfs(d, from) /\ x = [end |-> LineEnd(d, lf), body |-> lf + 3]
    BY <1>3
  <2>2. lf \in Nat /\ lf \in from..Len(d) - 1 /\ At(d, lf) = "LF"
    BY <2>1, <1>0
  <2>. HIDE DEF lfs
  <2>. QED BY <2>1, <2>2 DEF LenientEnd
<1>4. ASSUME NEW lf \in Nat, LenientEnd(d, from, lf, x) PROVE x \in A \cup B
  <2>1. /\ lf \in lfs
        /\ x.end = LineEnd(d, lf) /\ x = [end |-> x.end, body |-> x.body]
        /\ \/ lf + 1 \in lfs /\ x.body = lf + 2
           \/ lf + 1 \in CrLfs(d, from) /\ x.body = lf + 3
    BY <1>4 DEF LenientEnd
  <2>. HIDE DEF lfs
  <2>2. CASE lf + 1 \in lfs /\ x.body = lf + 2
    <3>1. x = [end |-> LineEnd(d, lf), body |-> lf + 2]
      BY <2>1, <2>2
    <3>. QED BY <3>1, <2>1, <2>2
  <2>3. CASE lf + 1 \in CrLfs(d, from) /\ x.body = lf + 3
    <3>1. x = [end |-> LineEnd(d, lf), body |-> lf + 3]
      BY <2>1, <2>3
    <3>. QED BY <3>1, <2>1, <2>3
  <2>. QED BY <2>1, <2>2, <2>3
<1>. HIDE DEF A, B
<1>. QED BY <1>1, <1>2, <1>3, <1>4

\* What follows a head begins at an offset.
LEMMA EndsAreOffsets ==
    ASSUME NEW d \in Seq(BodyBytes), NEW from \in Nat, NEW x \in Ends(d, from)
    PROVE  x.body \in Nat
<1>1. CASE mode = "lenient"
  <2>1. PICK lf \in Nat : LenientEnd(d, from, lf, x)
    BY <1>1, LenientEndIs DEF Ends
  <2>. QED BY <2>1 DEF LenientEnd
<1>2. CASE mode # "lenient"
  <2>1. PICK k \in CrLfs(d, from) : x = [end |-> k, body |-> k + 4]
    BY <1>2, StrictEndIs DEF Ends
  <2>2. k \in Nat
    BY CrLfsAreOffsets
  <2>. QED BY <2>1, <2>2
<1>. QED BY <1>1, <1>2

\* An end of a head within the bytes was one before more of them came.
LEMMA EndsStay ==
    ASSUME NEW d, NEW e, Grows(d, e), NEW x \in Ends(e, 0), x.body <= Len(d)
    PROVE  x \in Ends(d, 0)
<1>0. d \in Seq(BodyBytes) /\ e \in Seq(BodyBytes) /\ Len(d) \in Nat /\ Len(e) \in Nat
      /\ \A i \in 1..Len(d) : e[i] = d[i]
  BY DEF Grows
<1>1. CrLfs(d, 0) = {k \in CrLfs(e, 0) : k + 2 <= Len(d)} /\ CrLfs(e, 0) \subseteq Nat
  BY CrLfsGrow
<1>2. CASE mode = "lenient"
  <2>1. PICK lf \in Nat : LenientEnd(e, 0, lf, x)
    BY <1>0, <1>2, LenientEndIs DEF Ends
  <2>2. ASSUME NEW k \in Nat, k + 1 <= Len(d) PROVE At(e, k) = At(d, k)
    <3>1. k + 1 \in 1..Len(d)
      BY <2>2, <1>0
    <3>. QED BY <3>1, <1>0 DEF At
  <2>3. lf + 2 <= Len(d) /\ lf \in 0..Len(d) - 1
    BY <2>1, <1>0 DEF LenientEnd
  <2>4. LineEnd(d, lf) = LineEnd(e, lf)
    <3>1. lf > 0 => At(e, lf - 1) = At(d, lf - 1)
      <4>1. lf > 0 => lf - 1 \in Nat /\ (lf - 1) + 1 <= Len(d)
        BY <2>3, <1>0
      <4>. QED BY <4>1, <2>2
    <3>. QED BY <3>1 DEF LineEnd
  <2>5. /\ At(e, lf) = "LF" /\ x.end = LineEnd(e, lf) /\ x = [end |-> x.end, body |-> x.body]
        /\ \/ lf + 1 \in 0..Len(e) - 1 /\ At(e, lf + 1) = "LF" /\ x.body = lf + 2
           \/ lf + 1 \in CrLfs(e, 0) /\ x.body = lf + 3
    BY <2>1 DEF LenientEnd
  <2>6. At(d, lf) = "LF"
    <3>1. lf + 1 <= Len(d)
      BY <2>3, <1>0
    <3>. QED BY <3>1, <2>2, <2>5
  <2>7. \/ lf + 1 \in 0..Len(d) - 1 /\ At(d, lf + 1) = "LF" /\ x.body = lf + 2
        \/ lf + 1 \in CrLfs(d, 0) /\ x.body = lf + 3
    <3>1. CASE lf + 1 \in 0..Len(e) - 1 /\ At(e, lf + 1) = "LF" /\ x.body = lf + 2
      <4>1. lf + 1 \in Nat /\ (lf + 1) + 1 <= Len(d) /\ lf + 1 \in 0..Len(d) - 1
        BY <2>3, <1>0
      <4>2. At(e, lf + 1) = At(d, lf + 1)
        BY <4>1, <2>2
      <4>. QED BY <3>1, <4>1, <4>2
    <3>2. CASE lf + 1 \in CrLfs(e, 0) /\ x.body = lf + 3
      <4>1. (lf + 1) + 2 <= Len(d)
        BY <3>2, <1>0
      <4>2. lf + 1 \in CrLfs(d, 0)
        BY <4>1, <3>2, <1>1
      <4>. QED BY <4>2, <3>2
    <3>. QED BY <3>1, <3>2, <2>5
  <2>8. LenientEnd(d, 0, lf, x)
    BY <2>3, <2>4, <2>5, <2>6, <2>7 DEF LenientEnd
  <2>. QED BY <2>8, <1>0, <1>2, LenientEndIs DEF Ends
<1>3. CASE mode # "lenient"
  <2>1. PICK k \in CrLfs(e, 0) : k + 2 \in CrLfs(e, 0) /\ x = [end |-> k, body |-> k + 4]
    BY <1>0, <1>3, StrictEndIs DEF Ends
  <2>2. k \in Nat /\ k + 4 <= Len(d)
    BY <2>1, <1>1
  <2>3. k + 2 <= Len(d) /\ (k + 2) + 2 <= Len(d)
    BY <2>2, <1>0
  <2>4. k \in CrLfs(d, 0) /\ k + 2 \in CrLfs(d, 0)
    BY <2>1, <2>3, <1>1
  <2>. QED BY <2>1, <2>4, <1>0, <1>3, StrictEndIs DEF Ends
<1>. QED BY <1>2, <1>3

\* Three bytes back is far enough.
LEMMA EndsResume ==
    ASSUME NEW d \in Seq(BodyBytes), NEW from \in Nat,
           NEW scanned \in Nat, from = (IF scanned > 3 THEN scanned - 3 ELSE 0),
           \A x \in Ends(d, 0) : scanned < x.body
    PROVE  Ends(d, from) = Ends(d, 0)
<1>0. Len(d) \in Nat /\ (from = 0 \/ from = scanned - 3)
  OBVIOUS
<1>1. /\ \A k \in CrLfs(d, from) : k \in CrLfs(d, 0)
      /\ \A k \in CrLfs(d, 0) : k \in Nat /\ (from <= k => k \in CrLfs(d, from))
  BY <1>0 DEF CrLfs
<1>2. CASE mode = "lenient"
  <2>1. ASSUME NEW x, NEW lf \in Nat, LenientEnd(d, from, lf, x) PROVE LenientEnd(d, 0, lf, x)
    <3>1. from..Len(d) - 1 \subseteq 0..Len(d) - 1
      BY <1>0
    <3>. QED BY <3>1, <2>1, <1>1 DEF LenientEnd
  <2>2. ASSUME NEW x \in Ends(d, 0), NEW lf \in Nat, LenientEnd(d, 0, lf, x)
        PROVE  LenientEnd(d, from, lf, x)
    <3>1. scanned < x.body /\ (x.body = lf + 2 \/ x.body = lf + 3)
      BY <2>2 DEF LenientEnd
    <3>2. from <= lf
      BY <3>1, <1>0
    <3>3. \A k \in {lf, lf + 1} : k \in 0..Len(d) - 1 => k \in from..Len(d) - 1
      BY <3>2, <1>0
    <3>4. lf + 1 \in CrLfs(d, 0) => lf + 1 \in CrLfs(d, from)
      BY <3>2, <1>1
    <3>. QED BY <3>3, <3>4, <2>2 DEF LenientEnd
  <2>3. ASSUME NEW x PROVE x \in Ends(d, from) <=> x \in Ends(d, 0)
    <3>1. x \in Ends(d, from) <=> \E lf \in Nat : LenientEnd(d, from, lf, x)
      BY <1>2, LenientEndIs DEF Ends
    <3>2. x \in Ends(d, 0) <=> \E lf \in Nat : LenientEnd(d, 0, lf, x)
      BY <1>2, LenientEndIs DEF Ends
    <3>. QED BY <3>1, <3>2, <2>1, <2>2
  <2>. QED BY <2>3 DEF Ends
<1>3. CASE mode # "lenient"
  <2>1. ASSUME NEW x \in Ends(d, from) PROVE x \in Ends(d, 0)
    <3>1. PICK k \in CrLfs(d, from) : k + 2 \in CrLfs(d, from) /\ x = [end |-> k, body |-> k + 4]
      BY <1>3, StrictEndIs DEF Ends
    <3>2. k \in CrLfs(d, 0) /\ k + 2 \in CrLfs(d, 0)
      BY <3>1, <1>1
    <3>. QED BY <3>1, <3>2, <1>3, StrictEndIs DEF Ends
  <2>2. ASSUME NEW x \in Ends(d, 0) PROVE x \in Ends(d, from)
    <3>1. PICK k \in CrLfs(d, 0) : k + 2 \in CrLfs(d, 0) /\ x = [end |-> k, body |-> k + 4]
      BY <1>3, StrictEndIs DEF Ends
    <3>2. k \in Nat /\ scanned < k + 4
      BY <3>1, <1>1
    <3>3. from <= k /\ from <= k + 2
      BY <3>2, <1>0
    <3>4. k \in CrLfs(d, from) /\ k + 2 \in CrLfs(d, from)
      BY <3>1, <3>3, <1>1
    <3>. QED BY <3>1, <3>4, <1>3, StrictEndIs DEF Ends
  <2>3. ASSUME NEW x PROVE x \in Ends(d, from) <=> x \in Ends(d, 0)
    BY <2>1, <2>2
  <2>. QED BY <2>3 DEF Ends
<1>. QED BY <1>2, <1>3

\* The end that the scan reports is one, and none comes before it.
LEMMA FirstIs ==
    ASSUME NEW d \in Seq(BodyBytes), Ends(d, 0) # {}
    PROVE  /\ First(Ends(d, 0)) \in Ends(d, 0)
           /\ \A x \in Ends(d, 0) : First(Ends(d, 0)).body <= x.body
<1>. DEFINE ends == Ends(d, 0)
            bodies == {x.body : x \in ends}
<1>1. PICK n \in bodies : \A m \in bodies : n <= m
  <2>1. bodies \subseteq Nat
    BY EndsAreOffsets
  <2>2. bodies # {}
    OBVIOUS
  <2>. HIDE DEF bodies
  <2>. QED BY <2>1, <2>2, LeastNat
<1>2. \E x \in ends : \A y \in ends : x.body <= y.body
  <2>. HIDE DEF ends
  <2>. QED BY <1>1
<1>. HIDE DEF ends
<1>3. First(ends) \in ends /\ \A x \in ends : First(ends).body <= x.body
  BY <1>2 DEF First
<1>. QED BY <1>3 DEF ends

\* A resumed search finds what one of all the bytes finds.
LEMMA PollHeadIs ==
    ASSUME NEW d \in Seq(BodyBytes), NEW scanned \in 0..Len(d),
           \A x \in Ends(d, 0) : scanned < x.body,
           NEW s, s = [state |-> "search", scanned |-> scanned], NEW y, y = PollHead(d, s)
    PROVE  \/ y.state = "refused"
           \/ y = [state |-> "search", scanned |-> Len(d)] /\ Ends(d, 0) = {}
           \/ /\ y.state = "found" /\ y = PollHead(d, FreshHead) /\ Ends(d, 0) # {}
              /\ y.end = First(Ends(d, 0)).end /\ y.body = First(Ends(d, 0)).body
<1>. DEFINE from == IF s.scanned > 3 THEN s.scanned - 3 ELSE 0
<1>0. scanned \in Nat /\ s.scanned = scanned
  BY LenProperties
<1>1. from \in Nat /\ from = (IF scanned > 3 THEN scanned - 3 ELSE 0)
  BY <1>0
<1>2. Ends(d, from) = Ends(d, 0)
  <2>. HIDE DEF from
  <2>. QED BY <1>0, <1>1, EndsResume
<1>3. y = IF Ends(d, 0) = {}
          THEN IF Len(d) > MaxHeader THEN [state |-> "refused"]
               ELSE [s EXCEPT !.scanned = Len(d)]
          ELSE IF First(Ends(d, 0)).end > MaxHeader THEN [state |-> "refused"]
               ELSE [state |-> "found", end |-> First(Ends(d, 0)).end, body |-> First(Ends(d, 0)).body]
  BY <1>2 DEF PollHead
<1>4. PollHead(d, FreshHead) =
          IF Ends(d, 0) = {}
          THEN IF Len(d) > MaxHeader THEN [state |-> "refused"]
               ELSE [FreshHead EXCEPT !.scanned = Len(d)]
          ELSE IF First(Ends(d, 0)).end > MaxHeader THEN [state |-> "refused"]
               ELSE [state |-> "found", end |-> First(Ends(d, 0)).end, body |-> First(Ends(d, 0)).body]
  <2>1. (IF FreshHead.scanned > 3 THEN FreshHead.scanned - 3 ELSE 0) = 0
    BY DEF FreshHead
  <2>. QED BY <2>1 DEF PollHead
<1>5. CASE Ends(d, 0) = {}
  <2>1. y.state = "refused" \/ y = [s EXCEPT !.scanned = Len(d)]
    BY <1>3, <1>5
  <2>2. [s EXCEPT !.scanned = Len(d)] = [state |-> "search", scanned |-> Len(d)]
    OBVIOUS
  <2>. QED BY <2>1, <2>2, <1>5
<1>6. CASE Ends(d, 0) # {}
  <2>1. y = PollHead(d, FreshHead)
    BY <1>3, <1>4, <1>6
  <2>2. \/ y = [state |-> "refused"]
        \/ y = [state |-> "found", end |-> First(Ends(d, 0)).end, body |-> First(Ends(d, 0)).body]
    BY <1>3, <1>6
  <2>. QED BY <2>1, <2>2, <1>6
<1>. QED BY <1>5, <1>6


----------------------------------------------------------------------------
(* The inductive invariant: what the scanner knows is true of the bytes it  *)
(* has seen, and however they go on, it ends as one that starts afresh.     *)
HeadInv(d, s) ==
    \/ s.state = "refused"
    \/ \E n \in 0..Len(d) : s = [state |-> "search", scanned |-> n] /\ \A x \in Ends(d, 0) : n < x.body
    \/ /\ s.state = "found" /\ s = PollHead(d, FreshHead) /\ Ends(d, 0) # {}
       /\ s.end = First(Ends(d, 0)).end /\ s.body = First(Ends(d, 0)).body

BodyInv(d, s) ==
    /\ Decoded(d, s)
    /\ s.state # "refused" => \A e : Grows(d, e) => Advance(e, s) = Advance(e, FreshBody)

ScanInv ==
    /\ mode \in {"strict", "lenient", "body"}
    /\ data \in Seq(BodyBytes)
    /\ IF mode = "body" THEN BodyInv(data, scan) ELSE HeadInv(data, scan)

\* The decoder is in order before the first byte.
LEMMA FreshIsDecoded ==
    ASSUME NEW d \in Seq(BodyBytes)
    PROVE  Decoded(d, FreshBody)
<1>1. Passed(d, 0, <<>>)
  BY PassedNothing
<1>2. /\ FreshBody.state = "size" /\ FreshBody.pos = 0 /\ FreshBody.out = <<>> /\ FreshBody.left = 0
  BY FieldsOfDecoder DEF FreshBody
<1>3. FreshBody \in Decoders(d)
  <2>1. 0 \in Nat /\ 0 <= Len(d) /\ <<>> \in Seq(BodyBytes)
    OBVIOUS
  <2>. QED BY <2>1, IsDecoder DEF FreshBody
<1>4. Len(<<>>) <= MaxBody
  BY ScanAssumption
<1>. QED BY <1>1, <1>2, <1>3, <1>4 DEF Decoded, InBody

\* Growing twice is growing.
LEMMA GrowsOn ==
    ASSUME NEW c, NEW d, NEW e, Grows(c, d), Grows(d, e)
    PROVE  Grows(c, e)
<1>1. Len(c) \in Nat /\ Len(d) \in Nat /\ Len(e) \in Nat
  BY DEF Grows
<1>2. ASSUME NEW i \in 1..Len(c) PROVE e[i] = c[i]
  <2>1. i \in 1..Len(d)
    BY <1>1 DEF Grows
  <2>. QED BY <2>1 DEF Grows
<1>. QED BY <1>1, <1>2 DEF Grows

\* A byte that arrives makes the bytes grow.
LEMMA FeedGrows ==
    ASSUME NEW d \in Seq(BodyBytes), NEW b \in BodyBytes
    PROVE  Grows(d, Append(d, b))
<1>1. /\ Append(d, b) \in Seq(BodyBytes) /\ Len(Append(d, b)) = Len(d) + 1
      /\ \A i \in 1..Len(d) : Append(d, b)[i] = d[i]
  BY AppendProperties
<1>. QED BY <1>1 DEF Grows

\* The invariant holds before the first byte.
LEMMA ScanInitially ==
    ScanInit => ScanInv
<1>. SUFFICES ASSUME ScanInit PROVE ScanInv
  OBVIOUS
<1>1. mode \in {"strict", "lenient", "body"} /\ data = <<>> /\ data \in Seq(BodyBytes)
  BY DEF ScanInit
<1>2. CASE mode = "body"
  <2>1. scan = FreshBody
    BY <1>2 DEF ScanInit, Fresh
  <2>2. BodyInv(data, scan)
    BY <2>1, <1>1, FreshIsDecoded DEF BodyInv
  <2>. QED BY <2>2, <1>1, <1>2 DEF ScanInv
<1>3. CASE mode # "body"
  <2>1. scan = [state |-> "search", scanned |-> 0]
    BY <1>3 DEF ScanInit, Fresh, FreshHead
  <2>2. \A x \in Ends(data, 0) : 0 < x.body
    <3>. SUFFICES ASSUME NEW x \in Ends(data, 0) PROVE FALSE
      OBVIOUS
    <3>1. Len(data) = 0
      BY <1>1
    <3>2. CASE mode = "lenient"
      <4>1. PICK lf \in Nat : LenientEnd(data, 0, lf, x)
        BY <3>2, <1>1, LenientEndIs DEF Ends
      <4>. QED BY <4>1, <3>1 DEF LenientEnd
    <3>3. CASE mode # "lenient"
      <4>1. PICK k \in CrLfs(data, 0) : TRUE
        BY <3>3, <1>1, StrictEndIs DEF Ends
      <4>2. k \in Nat /\ k + 2 <= Len(data)
        <5>1. data \in Seq(BodyBytes)
          BY <1>1
        <5>. QED BY <5>1, CrLfsAreOffsets
      <4>. QED BY <4>2, <3>1
    <3>. QED BY <3>2, <3>3
  <2>3. 0 \in 0..Len(data)
    BY <1>1
  <2>4. HeadInv(data, scan)
    BY <2>1, <2>2, <2>3 DEF HeadInv
  <2>. QED BY <2>4, <1>1, <1>3 DEF ScanInv
<1>. QED BY <1>2, <1>3

\* A byte that arrives keeps the invariant.
LEMMA FeedKeeps ==
    ASSUME ScanInv, NEW b \in IF mode = "body" THEN BodyBytes ELSE HeadBytes, Feed(b)
    PROVE  ScanInv'
<1>1. /\ mode \in {"strict", "lenient", "body"} /\ data \in Seq(BodyBytes)
      /\ scan.state \notin {"found", "done", "refused"}
      /\ data' = Append(data, b) /\ mode' = mode /\ scan' = scan
  BY DEF ScanInv, Feed, Ended
<1>2. b \in BodyBytes
  BY DEF BodyBytes, HeadBytes
<1>3. Grows(data, data') /\ data' \in Seq(BodyBytes)
  BY <1>1, <1>2, FeedGrows DEF Grows
<1>4. CASE mode = "body"
  <2>1. BodyInv(data, scan)
    BY <1>4 DEF ScanInv
  <2>2. Decoded(data', scan)
    BY <2>1, <1>3, DecodedStays DEF BodyInv
  <2>3. ASSUME NEW e, Grows(data', e) PROVE Advance(e, scan) = Advance(e, FreshBody)
    <3>1. Grows(data, e)
      BY <1>3, <2>3, GrowsOn
    <3>. QED BY <3>1, <2>1, <1>1 DEF BodyInv
  <2>4. BodyInv(data', scan)
    BY <2>2, <2>3 DEF BodyInv
  <2>. QED BY <2>4, <1>1, <1>3, <1>4 DEF ScanInv
<1>5. CASE mode # "body"
  <2>1. HeadInv(data, scan)
    BY <1>5 DEF ScanInv
  <2>2. PICK n \in 0..Len(data) : scan = [state |-> "search", scanned |-> n] /\ \A x \in Ends(data, 0) : n < x.body
    BY <2>1, <1>1 DEF HeadInv
  <2>3. n \in Nat /\ n <= Len(data) /\ Len(data) \in Nat /\ n \in 0..Len(data')
    BY <1>1, <1>3 DEF Grows
  <2>4. ASSUME NEW x \in Ends(data', 0) PROVE n < x.body
    <3>1. x.body \in Nat
      BY <1>3, EndsAreOffsets
    <3>2. CASE x.body <= Len(data)
      BY <3>2, <2>2, <1>3, EndsStay
    <3>3. CASE ~(x.body <= Len(data))
      BY <3>1, <3>3, <2>3
    <3>. QED BY <3>2, <3>3
  <2>5. \A x \in Ends(data, 0)' : n < x.body
    BY <2>4, <1>1 DEF Ends
  <2>6. HeadInv(data, scan)'
    BY <2>2, <2>3, <2>5, <1>1 DEF HeadInv
  <2>. QED BY <2>6, <1>1, <1>3, <1>5 DEF ScanInv
<1>. QED BY <1>4, <1>5

\* The heads' part of the invariant speaks of the bytes and of the scanner.
LEMMA HeadInvStays ==
    ASSUME NEW s, HeadInv(data, s), mode' = mode, data' = data, scan' = s
    PROVE  HeadInv(data, scan)'
<1>1. Ends(data, 0)' = Ends(data, 0)
  BY DEF Ends
<1>2. PollHead(data, FreshHead)' = PollHead(data, FreshHead)
  BY DEF PollHead, Ends, FreshHead
<1>. QED BY <1>1, <1>2 DEF HeadInv

\* A poll keeps the invariant.
LEMMA PollKeeps ==
    ASSUME ScanInv, PollRequest
    PROVE  ScanInv'
<1>1. /\ mode \in {"strict", "lenient", "body"} /\ data \in Seq(BodyBytes)
      /\ scan.state \notin {"found", "done", "refused"}
      /\ data' = data /\ mode' = mode /\ scan' = Poll(data, scan)
  BY DEF ScanInv, PollRequest, Ended
<1>4. CASE mode = "body"
  <2>1. BodyInv(data, scan) /\ scan' = Advance(data, scan)
    BY <1>1, <1>4 DEF ScanInv, Poll
  <2>. DEFINE y == Advance(data, scan)
  <2>2. Decoded(data, y)
    BY <2>1, <1>1, AdvanceHolds DEF BodyInv
  <2>3. ASSUME y.state # "refused", NEW e, Grows(data, e) PROVE Advance(e, y) = Advance(e, FreshBody)
    <3>1. Advance(e, y) = Advance(e, scan)
      BY <2>1, <2>3, AdvanceResumes DEF BodyInv
    <3>2. Advance(e, scan) = Advance(e, FreshBody)
      BY <2>1, <2>3, <1>1 DEF BodyInv
    <3>. QED BY <3>1, <3>2
  <2>. HIDE DEF y
  <2>4. BodyInv(data, y)
    BY <2>2, <2>3 DEF BodyInv
  <2>5. scan' = y
    BY <2>1 DEF y
  <2>. QED BY <2>4, <2>5, <1>1, <1>4 DEF ScanInv
<1>5. CASE mode # "body"
  <2>1. HeadInv(data, scan) /\ scan' = PollHead(data, scan)
    BY <1>1, <1>5 DEF ScanInv, Poll
  <2>2. PICK n \in 0..Len(data) : scan = [state |-> "search", scanned |-> n] /\ \A x \in Ends(data, 0) : n < x.body
    BY <2>1, <1>1 DEF HeadInv
  <2>. DEFINE y == PollHead(data, scan)
  <2>3. \/ y.state = "refused"
        \/ y = [state |-> "search", scanned |-> Len(data)] /\ Ends(data, 0) = {}
        \/ /\ y.state = "found" /\ y = PollHead(data, FreshHead) /\ Ends(data, 0) # {}
           /\ y.end = First(Ends(data, 0)).end /\ y.body = First(Ends(data, 0)).body
    BY <2>2, <1>1, PollHeadIs
  <2>. HIDE DEF y
  <2>4. HeadInv(data, y)
    <3>1. Len(data) \in 0..Len(data)
      BY <1>1, LenProperties
    <3>. QED BY <2>3, <3>1 DEF HeadInv
  <2>5. scan' = y
    BY <2>1 DEF y
  <2>6. HeadInv(data, scan)'
    BY <2>4, <2>5, <1>1, HeadInvStays
  <2>. QED BY <2>6, <1>1, <1>5 DEF ScanInv
<1>. QED BY <1>4, <1>5

\* What is no step of the scanner keeps the invariant.
LEMMA StutterKeeps ==
    ASSUME ScanInv, UNCHANGED scanVars
    PROVE  ScanInv'
<1>1. mode' = mode /\ data' = data /\ scan' = scan
  BY DEF scanVars
<1>2. CASE mode = "body"
  <2>1. BodyInv(data, scan)
    BY <1>2 DEF ScanInv
  <2>. QED BY <2>1, <1>1, <1>2 DEF ScanInv
<1>3. CASE mode # "body"
  <2>1. HeadInv(data, scan)
    BY <1>3 DEF ScanInv
  <2>2. HeadInv(data, scan)'
    BY <2>1, <1>1, HeadInvStays
  <2>. QED BY <2>2, <1>1, <1>3 DEF ScanInv
<1>. QED BY <1>2, <1>3

\* The invariant holds in every behaviour.
LEMMA ScanInvariant ==
    ScanSpec => []ScanInv
<1>1. ScanInv /\ [ScanNext]_scanVars => ScanInv'
  <2>. SUFFICES ASSUME ScanInv, [ScanNext]_scanVars PROVE ScanInv'
    OBVIOUS
  <2>1. ASSUME NEW b \in IF mode = "body" THEN BodyBytes ELSE HeadBytes, Feed(b) PROVE ScanInv'
    BY <2>1, FeedKeeps
  <2>2. CASE PollRequest
    BY <2>2, PollKeeps
  <2>3. CASE UNCHANGED scanVars
    BY <2>3, StutterKeeps
  <2>. QED BY <2>1, <2>2, <2>3 DEF ScanNext
<1>. QED BY <1>1, ScanInitially, PTL DEF ScanSpec

\* What ChunkDecoder delivers is the body: the bytes consumed are a chunked
\* body by the grammar of RFC 9112, and what was decoded is its content, for
\* every input and every way to cut it (ChunkDecoder::advance).
THEOREM BodyIsDecoded ==
    ScanSpec => []DecodesTheBody
<1>1. ScanInv => DecodesTheBody
  <2>. SUFFICES ASSUME ScanInv, mode = "body", scan.state = "done"
                PROVE  Bodies(data, scan.pos) = {scan.out} /\ Len(scan.out) <= MaxBody
    BY DEF DecodesTheBody
  <2>1. data \in Seq(BodyBytes) /\ Decoded(data, scan)
    BY DEF ScanInv, BodyInv
  <2>2. ~InBody(data, scan)
    <3>. SUFFICES ASSUME InBody(data, scan) PROVE FALSE
      OBVIOUS
    <3>1. scan \in Decoders(data)
      BY DEF InBody
    <3>2. scan.state \in {"size", "data", "dataCrlf", "trailer"}
      BY <3>1, <2>1, DecoderFields
    <3>. QED BY <3>2
  <2>3. scan \notin Errors
    BY ErrorsEnd
  <2>4. PastBody(data, scan)
    BY <2>1, <2>2, <2>3 DEF Decoded
  <2>5. PICK p \in 0..Len(data) : Passed(data, p, scan.out) /\ IsLast(data, p, scan.pos)
    BY <2>4 DEF PastBody
  <2>6. scan.pos \in 0..Len(data) /\ Len(scan.out) <= MaxBody
    BY <2>4 DEF PastBody
  <2>. QED BY <2>1, <2>5, <2>6, OneBody
<1>. QED BY <1>1, ScanInvariant, PTL

\* However the input is cut, a scanner that ends without refusing ends as if
\* the input had come in one piece (poll_request, resumed three bytes back;
\* ChunkDecoder::advance, resumed where it stopped).
THEOREM CutsAreNotMisread ==
    ScanSpec => []CutsNeverMisread
<1>1. ScanInv => CutsNeverMisread
  <2>. SUFFICES ASSUME ScanInv, scan.state \in {"found", "done"} PROVE scan = Poll(data, Fresh)
    BY DEF CutsNeverMisread
  <2>0. data \in Seq(BodyBytes)
    BY DEF ScanInv
  <2>1. CASE mode = "body"
    <3>1. Decoded(data, scan) /\ Advance(data, scan) = Advance(data, FreshBody)
      BY <2>0, <2>1, GrowsSelf DEF ScanInv, BodyInv
    <3>2. Step(data, scan) = scan
      BY StepIs
    <3>3. Advance(data, scan) = scan
      BY <2>0, <3>2, AdvanceEnded
    <3>. QED BY <2>1, <3>1, <3>3 DEF Poll, Fresh
  <2>2. CASE mode # "body"
    <3>1. HeadInv(data, scan)
      BY <2>2 DEF ScanInv
    <3>2. scan = PollHead(data, FreshHead)
      BY <3>1 DEF HeadInv
    <3>. QED BY <2>2, <3>2 DEF Poll, Fresh
  <2>. QED BY <2>1, <2>2
<1>. QED BY <1>1, ScanInvariant, PTL

\* A head that the strict scan accepts, with no bare line feed in it, ends at
\* the same place for the lenient one (set_lenient: "Everything else stays
\* strict").
THEOREM LenientAgreesWithStrict ==
    ScanSpec => []LenientAgrees
<1>1. ScanInv => LenientAgrees
  <2>. SUFFICES ASSUME ScanInv, mode = "strict", scan.state = "found", ~BareLf(data, scan.end)
                PROVE  \E e \in LenientEnds(data, 0) :
                          /\ e = [end |-> scan.end, body |-> scan.body]
                          /\ \A f \in LenientEnds(data, 0) : e.body <= f.body
    BY DEF LenientAgrees
  <2>0. data \in Seq(BodyBytes) /\ HeadInv(data, scan) /\ Len(data) \in Nat
    BY LenProperties DEF ScanInv
  <2>1. Ends(data, 0) # {} /\ scan.end = First(Ends(data, 0)).end /\ scan.body = First(Ends(data, 0)).body
    BY <2>0 DEF HeadInv
  <2>2. First(Ends(data, 0)) \in Ends(data, 0) /\ \A x \in Ends(data, 0) : First(Ends(data, 0)).body <= x.body
    BY <2>0, <2>1, FirstIs
  <2>3. Ends(data, 0) = StrictEnds(data, 0)
    BY DEF Ends
  <2>4. PICK k \in CrLfs(data, 0) : k + 2 \in CrLfs(data, 0) /\ First(Ends(data, 0)) = [end |-> k, body |-> k + 4]
    BY <2>0, <2>2, <2>3, StrictEndIs
  <2>5. scan.end = k /\ scan.body = k + 4
    BY <2>1, <2>4
  <2>6. k \in Nat /\ k + 2 <= Len(data) /\ At(data, k) = "CR" /\ At(data, k + 1) = "LF" /\ At(data, k + 2) = "CR"
    BY <2>0, <2>4 DEF CrLfs
  <2>. DEFINE e == [end |-> k, body |-> k + 4]
  <2>7. e \in LenientEnds(data, 0)
    <3>1. LineEnd(data, k + 1) = k
      <4>1. k + 1 > 0 /\ (k + 1) - 1 = k
        BY <2>6
      <4>. QED BY <4>1, <2>6 DEF LineEnd
    <3>2. k + 1 \in 0..Len(data) - 1 /\ k + 1 \in Nat /\ (k + 1) + 1 = k + 2 /\ k + 4 = (k + 1) + 3
      BY <2>0, <2>6
    <3>3. e.end = k /\ e.body = k + 4 /\ e = [end |-> e.end, body |-> e.body]
      OBVIOUS
    <3>. HIDE DEF e
    <3>4. LenientEnd(data, 0, k + 1, e)
      BY <3>1, <3>2, <3>3, <2>4, <2>6 DEF LenientEnd
    <3>. QED BY <3>2, <3>4, <2>0, LenientEndIs
  <2>8. ASSUME NEW f \in LenientEnds(data, 0) PROVE k + 4 <= f.body
    <3>1. PICK lf \in Nat : LenientEnd(data, 0, lf, f)
      BY <2>0, LenientEndIs
    <3>2. /\ lf \in 0..Len(data) - 1 /\ At(data, lf) = "LF"
          /\ \/ lf + 1 \in 0..Len(data) - 1 /\ At(data, lf + 1) = "LF" /\ f.body = lf + 2
             \/ lf + 1 \in CrLfs(data, 0) /\ f.body = lf + 3
      BY <3>1 DEF LenientEnd
    <3>3. lf # k
      BY <3>2, <2>6
    <3>4. ASSUME NEW j \in Nat, j < k, At(data, j) = "LF"
          PROVE  j > 0 /\ j - 1 \in Nat /\ At(data, j - 1) = "CR"
      <4>1. j \in 0..k - 1
        BY <3>4, <2>6
      <4>2. j # 0 /\ At(data, j - 1) = "CR"
        BY <3>4, <4>1, <2>5 DEF BareLf
      <4>. QED BY <4>2
    <3>5. CASE lf + 1 \in 0..Len(data) - 1 /\ At(data, lf + 1) = "LF" /\ f.body = lf + 2
      <4>. SUFFICES ASSUME ~(k + 4 <= f.body) PROVE FALSE
        OBVIOUS
      <4>1. lf + 1 # k /\ lf + 1 # k + 2
        BY <3>5, <2>6
      <4>2. lf + 1 \in Nat /\ lf + 1 < k
        BY <4>1, <3>3, <3>5, <2>6
      <4>3. At(data, (lf + 1) - 1) = "CR"
        BY <4>2, <3>4, <3>5
      <4>4. (lf + 1) - 1 = lf
        OBVIOUS
      <4>. QED BY <4>3, <4>4, <3>2
    <3>6. CASE lf + 1 \in CrLfs(data, 0) /\ f.body = lf + 3
      <4>. SUFFICES ASSUME ~(k + 4 <= f.body) PROVE FALSE
        OBVIOUS
      <4>1. lf < k
        BY <3>3, <3>6, <2>6
      <4>2. lf - 1 \in Nat /\ At(data, lf - 1) = "CR"
        BY <4>1, <3>2, <3>4
      <4>3. (lf - 1) + 1 = lf /\ (lf - 1) + 2 = lf + 1 /\ lf - 1 \in 0..Len(data) - 2
        BY <4>2, <3>2, <2>0
      <4>4. lf - 1 \in CrLfs(data, 0) /\ (lf - 1) + 2 \in CrLfs(data, 0)
        BY <4>2, <4>3, <3>2, <3>6 DEF CrLfs
      <4>. DEFINE g == [end |-> lf - 1, body |-> (lf - 1) + 4]
      <4>5. g \in Ends(data, 0)
        BY <4>4, <2>0, <2>3, StrictEndIs
      <4>6. k + 4 <= (lf - 1) + 4
        <5>1. First(Ends(data, 0)).body = k + 4 /\ g.body = (lf - 1) + 4
          BY <2>4
        <5>. HIDE DEF g
        <5>. QED BY <5>1, <4>5, <2>2
      <4>. QED BY <4>1, <4>6, <2>6
    <3>. QED BY <3>2, <3>5, <3>6
  <2>9. e = [end |-> scan.end, body |-> scan.body] /\ e.body = k + 4
    BY <2>5
  <2>. HIDE DEF e
  <2>. QED BY <2>7, <2>8, <2>9
<1>. QED BY <1>1, ScanInvariant, PTL
=================================================================================
