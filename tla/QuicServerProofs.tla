---------------------------- MODULE QuicServerProofs ----------------------------
(***************************************************************************)
(* Proofs about QuicServer and the engine it drives, H3Conn, for any       *)
(* number of clients and streams, any limits, timeouts, credit and         *)
(* responses: the tables stay within their limits, a FIN means that all    *)
(* that was written of a response has arrived, and nothing that could be   *)
(* sent is left behind without a wake-up on its way, but for a body whose  *)
(* abort a poll has dropped.                                               *)
(*                                                                         *)
(* The loops of the engine are recursive functions. That such a function   *)
(* is what its equation says, and what it computes, is shown by induction  *)
(* over the turns (SetInduction, from the well-founded order on Nat).      *)
(***************************************************************************)
EXTENDS QuicServer, FiniteSetTheorems, WellFoundedInduction, TLAPS

\* A set of natural numbers that is not empty has a least element.
LEMMA LeastNat ==
    ASSUME NEW T, T \subseteq Nat, T # {}
    PROVE  \E n \in T : \A m \in T : n <= m
<1> DEFINE R == {p \in Nat \X Nat : p[1] < p[2]}
<1>1. IsWellFoundedOn(R, Nat)
  <2>1. IsWellFoundedOn(OpToRel(<, Nat), Nat)
    BY NatLessThanWellFounded
  <2>2. R \cap (Nat \X Nat) \subseteq OpToRel(<, Nat)
    BY DEF OpToRel
  <2>. QED BY <2>1, <2>2, IsWellFoundedOnSubrelation
<1>2. PICK n \in T : \A m \in T : ~(<<m, n>> \in R)
  <2>. HIDE DEF R
  <2>. QED BY <1>1, WFMin
<1>3. ASSUME NEW m \in T PROVE n <= m
  <2>1. <<m, n>> \notin R
    BY <1>2
  <2>. QED BY <2>1
<1>. QED BY <1>3

\* Induction on the natural numbers, as a statement about a set.
LEMMA SetInduction ==
    ASSUME NEW T, 0 \in T, \A n \in Nat : n \in T => n + 1 \in T
    PROVE  Nat \subseteq T
<1>. DEFINE U == {n \in Nat : n \notin T}
<1>. SUFFICES ASSUME U # {} PROVE FALSE
  OBVIOUS
<1>1. PICK n \in U : \A m \in U : n <= m
  <2>1. U \subseteq Nat OBVIOUS
  <2>. HIDE DEF U
  <2>. QED BY <2>1, LeastNat
<1>2. n # 0 /\ n - 1 \in Nat
  OBVIOUS
<1>3. n - 1 \notin U
  BY <1>1, <1>2
<1>. QED BY <1>2, <1>3

----------------------------------------------------------------------------
IsTable(f, S, V) == DOMAIN f \subseteq S /\ f \in [DOMAIN f -> V]

Parts == [frames : Seq(Frames), fin : BOOLEAN]

BodyRecords ==
    [kind : {"bytes", "file", "stream"}, left : Nat,
     over : {"open", "finished", "aborted"}, readable : Int, ended : BOOLEAN]

StreamRecords ==
    [inbuf : Seq(Frames), fin : BOOLEAN, delivered : BOOLEAN, out : Nat,
     body : BodyRecords \cup {None}, finishAfter : BOOLEAN]

SeenRecords ==
    [got : Nat, due : Nat, end : {"no", "fin", "reset"}, up : BOOLEAN, cut : BOOLEAN]

QuicType(q) ==
    /\ q = [complete |-> q.complete, closed |-> q.closed, hello |-> q.hello,
            readable |-> q.readable, credit |-> q.credit, seen |-> q.seen]
    /\ q.complete \in BOOLEAN /\ q.closed \in BOOLEAN /\ q.hello \subseteq Hellos
    /\ IsTable(q.readable, Streams, Parts)
    /\ q.credit \in [Streams -> Nat] /\ q.seen \in [Streams -> SeenRecords]

H3Type(h) ==
    /\ h = [started |-> h.started, reqs |-> h.reqs]
    /\ h.started \in BOOLEAN /\ IsTable(h.reqs, Streams, StreamRecords)

ConnType(c) ==
    /\ c = [quic |-> c.quic, h3 |-> c.h3, silent |-> c.silent, probe |-> c.probe]
    /\ c.silent \in Nat /\ c.probe \in Seq(Datagrams) \cup {None}

\* What is still owed of a response: what is framed and what is left of the body.
Owed(r) == r.out + r.body.left

\* A stream in the table has not been finished, though it may have been reset; one
\* that has not been reset owes what the client has not got.
StreamOwes(r, seen) ==
    /\ seen.end # "fin"
    /\ r.fin => ~seen.up
    /\ r.delivered <=> r.body # None
    /\ r.finishAfter <=> r.delivered
    /\ ~r.delivered => r.out = 0 /\ (seen.end = "no" => seen.got = 0)
    /\ r.delivered => /\ r.fin
                      /\ seen.end = "no" => seen.due = seen.got + Owed(r)
                      /\ r.body.over # "open" => r.body.kind = "stream"

\* A finished stream: the client has all of the response, and has ended its half.
Whole(seen) == seen.got = seen.due /\ ~seen.up

EngineOK(h3, quic) ==
    /\ H3Type(h3) /\ QuicType(quic)
    /\ IsFiniteSet(DOMAIN h3.reqs) /\ Cardinality(DOMAIN h3.reqs) <= MAX_REQ_STREAMS
    /\ \A s \in DOMAIN h3.reqs : StreamOwes(h3.reqs[s], quic.seen[s])
    /\ \A s \in Streams \ DOMAIN h3.reqs : quic.seen[s].end = "no" => quic.seen[s].got = 0
    /\ \A s \in Streams : quic.seen[s].end = "fin" => Whole(quic.seen[s])

ConnOK(c) ==
    /\ ConnType(c) /\ EngineOK(c.h3, c.quic)
    /\ DOMAIN c.quic.readable = {}
    /\ ~c.quic.complete => DOMAIN c.h3.reqs = {}
    /\ \A s \in DOMAIN c.h3.reqs : c.h3.reqs[s].fin => c.h3.reqs[s].delivered

Waits(r, credit, seen) ==
    seen.end = "no" /\ ~Dropped(r.body) =>
        \/ r.out > 0 /\ credit = 0
        \/ r.out = 0 /\ PollAvail(r.body) = "pending"

\* A stream waits, or its producer has woken the listener and it will be looked for.
SettledIf(c, woken) ==
    \A s \in DOMAIN c.h3.reqs : c.h3.reqs[s].fin =>
        \/ Waits(c.h3.reqs[s], c.quic.credit[s], c.quic.seen[s])
        \/ woken /\ IsPendingStream(c.h3.reqs[s].body)

Settled(c) ==
    \A s \in DOMAIN c.h3.reqs :
        c.h3.reqs[s].fin => Waits(c.h3.reqs[s], c.quic.credit[s], c.quic.seen[s])

ConnsOK(f, woken) ==
    /\ f = [p \in DOMAIN f |-> f[p]]
    /\ IsFiniteSet(DOMAIN f) /\ Cardinality(DOMAIN f) <= MAX_CONNS
    /\ \A p \in DOMAIN f : ConnOK(f[p]) /\ SettledIf(f[p], woken)

PendingOK(f) ==
    /\ f = [p \in DOMAIN f |-> f[p]]
    /\ IsFiniteSet(DOMAIN f) /\ Cardinality(DOMAIN f) <= MAX_PENDING_INITIALS
    /\ \A p \in DOMAIN f :
          /\ f[p] \in [waited : Nat, datagrams : Seq(Datagrams)]
          /\ Len(f[p].datagrams) <= SNI_PROBE_MAX
          /\ Peek(f[p].datagrams) = "more"

TablesOK(t, woken) ==
    /\ t = [conns |-> t.conns, pending |-> t.pending, evicted |-> t.evicted]
    /\ ConnsOK(t.conns, woken) /\ PendingOK(t.pending)
    /\ DOMAIN t.conns \cap DOMAIN t.pending = {}

IInv ==
    /\ certs \in {"static", "acme"} /\ dirty \in BOOLEAN
    /\ TablesOK(Tables, dirty)

----------------------------------------------------------------------------
LoopState == [r : StreamRecords, credit : Nat, seen : SeenRecords, turn : {"again", "stop", "gone"}]

Turn(x) == IF x.turn = "again" THEN FlushTurn(x) ELSE x

\* The loop of flush is a sequence of turns, each from where the last one ended.
LEMMA FlushLoopUnfolds ==
    ASSUME NEW x, NEW n \in Nat,
           n = IF x.r.body = None THEN 1 ELSE x.r.body.left + 1
    PROVE  \E f : /\ f = [i \in 0..n |-> IF i = 0 THEN x ELSE Turn(f[i - 1])]
                  /\ FlushLoop(x) = f[n]
<1>. DEFINE Is(f, m) == f = [i \in 0..m |-> IF i = 0 THEN x ELSE Turn(f[i - 1])]
            T == {m \in Nat : \E f : Is(f, m)}
<1>1. 0 \in T
  <2>. Is([i \in 0..0 |-> x], 0)
    OBVIOUS
  <2>. QED OBVIOUS
<1>2. ASSUME NEW m \in Nat, m \in T PROVE m + 1 \in T
  <2>1. PICK f : Is(f, m)
    BY <1>2
  <2>. DEFINE g == [i \in 0..m + 1 |-> IF i <= m THEN f[i] ELSE Turn(f[m])]
  <2>2. ASSUME NEW i \in 0..m + 1 PROVE g[i] = IF i = 0 THEN x ELSE Turn(g[i - 1])
    BY <2>1
  <2>3. Is(g, m + 1)
    BY <2>2
  <2>4. \E h : Is(h, m + 1)
    <3>. HIDE DEF Is, g
    <3>. QED BY <2>3
  <2>. QED BY <2>4
<1>3. n \in T
  <2>. HIDE DEF T
  <2>. QED BY <1>1, <1>2, SetInduction
<1>. DEFINE F == CHOOSE f : Is(f, n)
<1>4. Is(F, n)
  BY <1>3
<1>5. FlushLoop(x) = F[n]
  BY DEF FlushLoop, Turn
<1>. QED BY <1>4, <1>5

Holds(x) == x \in LoopState /\ StreamOwes(x.r, x.seen)

\* A body is there or not.
LEMMA NoneIsNoBody == \A b \in BodyRecords : b # None
BY H3Assumption DEF BodyRecords

\* The fields of the records, for the steps that update some of them.
LEMMA BodyFields ==
    ASSUME NEW b \in BodyRecords
    PROVE  /\ b = [kind |-> b.kind, left |-> b.left, over |-> b.over, readable |-> b.readable,
                   ended |-> b.ended]
           /\ b.kind \in {"bytes", "file", "stream"} /\ b.left \in Nat
           /\ b.over \in {"open", "finished", "aborted"} /\ b.readable \in Int
           /\ b.ended \in BOOLEAN
BY DEF BodyRecords

\* A poll leaves the body, but for what it has read of its end; a body that was over
\* or waiting is over or waiting still.
LEMMA PolledFields ==
    ASSUME NEW b \in BodyRecords
    PROVE  /\ Polled(b) \in BodyRecords
           /\ Polled(b).left = b.left /\ Polled(b).kind = b.kind /\ Polled(b).over = b.over
           /\ PollAvail(b) \in {"pending", "end"} => PollAvail(Polled(b)) = PollAvail(b)
<1>. DEFINE e == b.ended \/ (b.left = 0 /\ b.kind = "stream" /\ b.over # "open")
            d == [kind |-> b.kind, left |-> b.left, over |-> b.over, readable |-> b.readable,
                  ended |-> e]
<1>1. Polled(b) = d
  <2>1. Polled(b) = [b EXCEPT !.ended = e]
    BY DEF Polled
  <2>. HIDE DEF e
  <2>. QED BY <2>1, BodyFields
<1>2. e \in BOOLEAN
  BY BodyFields
<1>3. PollAvail(b) = "pending" => ~e
  BY BodyFields DEF PollAvail, IsPendingStream
<1>4. PollAvail(b) = "end" => b.left = 0 /\ (b.kind # "stream" \/ e)
  BY BodyFields DEF PollAvail
<1>5. b.ended => e
  OBVIOUS
<1>. HIDE DEF e
<1>6. /\ d \in BodyRecords /\ d.left = b.left /\ d.kind = b.kind /\ d.over = b.over
      /\ d.ended = e
  BY <1>2, BodyFields DEF BodyRecords
<1>. HIDE DEF d
<1>7. PollAvail(b) = "pending" => PollAvail(d) = "pending"
  <2>. SUFFICES ASSUME PollAvail(b) = "pending" PROVE PollAvail(d) = "pending"
    OBVIOUS
  <2>1. b.left = 0 /\ b.kind = "stream" /\ b.over = "open" /\ d # None
    BY <1>6, NoneIsNoBody, BodyFields DEF PollAvail, IsPendingStream
  <2>. QED BY <1>3, <1>6, <2>1 DEF PollAvail, IsPendingStream
<1>8. PollAvail(b) = "end" => PollAvail(d) = "end"
  <2>. SUFFICES ASSUME PollAvail(b) = "end" PROVE PollAvail(d) = "end"
    OBVIOUS
  <2>1. d.left = 0 /\ (d.kind # "stream" \/ d.ended)
    BY <1>4, <1>6
  <2>2. ~IsPendingStream(d)
    BY <2>1, <1>2, <1>6 DEF IsPendingStream
  <2>. QED BY <2>1, <2>2 DEF PollAvail
<1>. QED BY <1>1, <1>6, <1>7, <1>8

\* A chunk taken off a body leaves the rest of it.
LEMMA TakeChunkFields ==
    ASSUME NEW b \in BodyRecords, NEW n \in Nat, n <= b.left
    PROVE  /\ TakeChunk(b, n) \in BodyRecords
           /\ TakeChunk(b, n).left = b.left - n
           /\ TakeChunk(b, n).over = b.over /\ TakeChunk(b, n).kind = b.kind
<1>. DEFINE d == [kind |-> b.kind, left |-> b.left - n, over |-> b.over,
                  readable |-> b.readable - n, ended |-> b.ended]
<1>1. b.left - n \in Nat /\ b.readable - n \in Int
  BY BodyFields
<1>2. TakeChunk(b, n) = d
  <2>. DEFINE c == [b EXCEPT !.left = b.left - n]
  <2>1. c = [kind |-> b.kind, left |-> b.left - n, over |-> b.over,
             readable |-> b.readable, ended |-> b.ended]
    BY BodyFields
  <2>2. TakeChunk(b, n) = [c EXCEPT !.readable = b.readable - n]
    BY DEF TakeChunk
  <2>. HIDE DEF c
  <2>. QED BY <2>1, <2>2
<1>3. d \in BodyRecords
  BY <1>1, BodyFields DEF BodyRecords
<1>. QED BY <1>2, <1>3

LEMMA StreamFields ==
    ASSUME NEW r \in StreamRecords
    PROVE  /\ r = [inbuf |-> r.inbuf, fin |-> r.fin, delivered |-> r.delivered, out |-> r.out,
                   body |-> r.body, finishAfter |-> r.finishAfter]
           /\ r.inbuf \in Seq(Frames) /\ r.fin \in BOOLEAN /\ r.delivered \in BOOLEAN
           /\ r.out \in Nat /\ r.body \in BodyRecords \cup {None} /\ r.finishAfter \in BOOLEAN
BY DEF StreamRecords

LEMMA SeenFields ==
    ASSUME NEW s \in SeenRecords
    PROVE  /\ s = [got |-> s.got, due |-> s.due, end |-> s.end, up |-> s.up, cut |-> s.cut]
           /\ s.got \in Nat /\ s.due \in Nat /\ s.end \in {"no", "fin", "reset"}
           /\ s.up \in BOOLEAN /\ s.cut \in BOOLEAN
BY DEF SeenRecords

LEMMA LoopFields ==
    ASSUME NEW x \in LoopState
    PROVE  /\ x = [r |-> x.r, credit |-> x.credit, seen |-> x.seen, turn |-> x.turn]
           /\ x.r \in StreamRecords /\ x.credit \in Nat /\ x.seen \in SeenRecords
           /\ x.turn \in {"again", "stop", "gone"}
BY DEF LoopState

\* A stream that leaves the table, field by field.
LEMMA GoneFields ==
    ASSUME NEW x \in LoopState, NEW end
    PROVE  Gone(x, end) = [r |-> x.r, credit |-> x.credit, turn |-> "gone",
                           seen |-> [got |-> x.seen.got, due |-> x.seen.due, end |-> end,
                                     up |-> x.seen.up, cut |-> x.seen.cut]]
<1>1. /\ x = [r |-> x.r, credit |-> x.credit, seen |-> x.seen, turn |-> x.turn]
      /\ x.seen = [got |-> x.seen.got, due |-> x.seen.due, end |-> x.seen.end,
                   up |-> x.seen.up, cut |-> x.seen.cut]
  BY LoopFields, SeenFields
<1>2. Gone(x, end) = [x EXCEPT !.turn = "gone", !.seen = [x.seen EXCEPT !.end = end]]
  BY <1>1 DEF Gone
<1>. QED BY <1>1, <1>2

\* Writing moves units from the stream to the client; what remains has no credit.
LEMMA WriteOutHolds ==
    ASSUME NEW x, Holds(x)
    PROVE  /\ Holds(WriteOut(x))
           /\ WriteOut(x).r = [x.r EXCEPT !.out = WriteOut(x).r.out]
           /\ WriteOut(x).turn = x.turn
           /\ WriteOut(x).r.out > 0 /\ WriteOut(x).seen.end = "no" => WriteOut(x).credit = 0
<1>. DEFINE n == IF x.seen.end = "no" THEN Least(x.r.out, x.credit) ELSE 0
            w == [r |-> [x.r EXCEPT !.out = x.r.out - n], credit |-> x.credit - n,
                  seen |-> [x.seen EXCEPT !.got = x.seen.got + n], turn |-> x.turn]
<1>1. /\ x \in LoopState /\ x.r \in StreamRecords /\ x.seen \in SeenRecords
      /\ x.r.out \in Nat /\ x.credit \in Nat /\ x.seen.got \in Nat
  BY DEF Holds, LoopState, StreamRecords, SeenRecords
<1>2. /\ n \in Nat /\ n <= x.r.out /\ n <= x.credit
      /\ n < x.r.out /\ x.seen.end = "no" => n = x.credit
      /\ x.seen.end # "no" => n = 0
  BY <1>1 DEF Least
<1>3. WriteOut(x) = w
  <2>1. x = [r |-> x.r, credit |-> x.credit, seen |-> x.seen, turn |-> x.turn]
    BY <1>1 DEF LoopState
  <2>2. WriteOut(x) = [x EXCEPT !.r = [x.r EXCEPT !.out = @ - n], !.credit = @ - n,
                                !.seen = [x.seen EXCEPT !.got = @ + n]]
    BY DEF WriteOut
  <2>. HIDE DEF n
  <2>. QED BY <2>1, <2>2
<1>. HIDE DEF n
<1>4. w \in LoopState
  <2>1. x.r.out - n \in Nat /\ x.credit - n \in Nat /\ x.seen.got + n \in Nat
    BY <1>1, <1>2
  <2>2. [x.r EXCEPT !.out = x.r.out - n] \in StreamRecords
    BY <1>1, <2>1 DEF StreamRecords
  <2>3. [x.seen EXCEPT !.got = x.seen.got + n] \in SeenRecords
    BY <1>1, <2>1 DEF SeenRecords
  <2>4. x.turn \in {"again", "stop", "gone"}
    BY <1>1, LoopFields
  <2>. QED BY <2>1, <2>2, <2>3, <2>4 DEF LoopState
<1>5. /\ w.r.out = x.r.out - n /\ w.seen.got = x.seen.got + n /\ w.seen.end = x.seen.end
      /\ w.seen.due = x.seen.due /\ w.credit = x.credit - n /\ w.seen.up = x.seen.up
      /\ w.r = [x.r EXCEPT !.out = w.r.out]
      /\ w.r.body = x.r.body /\ w.r.delivered = x.r.delivered /\ w.r.fin = x.r.fin
      /\ w.r.finishAfter = x.r.finishAfter
  BY <1>1, <1>2 DEF LoopState, StreamRecords, SeenRecords
<1>6. StreamOwes(w.r, w.seen)
  <2>1. StreamOwes(x.r, x.seen)
    BY DEF Holds
  <2>2. x.seen.due \in Nat /\ (x.r.delivered => x.r.body \in BodyRecords /\ x.r.body.left \in Nat)
    BY <1>1, <2>1 DEF StreamOwes, StreamRecords, SeenRecords, BodyRecords
  <2>. HIDE DEF w
  <2>3. ~w.r.delivered => w.r.out = 0 /\ (w.seen.end = "no" => w.seen.got = 0)
    <3>. SUFFICES ASSUME ~x.r.delivered
                  PROVE  w.r.out = 0 /\ (w.seen.end = "no" => w.seen.got = 0)
      BY <1>5
    <3>1. x.r.out = 0 /\ (x.seen.end = "no" => x.seen.got = 0)
      BY <2>1 DEF StreamOwes
    <3>2. n = 0
      BY <3>1, <1>2
    <3>. QED BY <3>1, <3>2, <1>5
  <2>4. CASE x.r.delivered
    <3>1. x.seen.end = "no" => x.seen.due = x.seen.got + (x.r.out + x.r.body.left)
      BY <2>1, <2>4 DEF StreamOwes, Owed
    <3>2. w.seen.end = "no" => w.seen.due = w.seen.got + (w.r.out + w.r.body.left)
      BY <3>1, <2>2, <2>4, <1>1, <1>2, <1>5
    <3>. QED BY <3>2, <1>5, <2>1, <2>3, <2>4 DEF StreamOwes, Owed
  <2>5. CASE ~x.r.delivered
    BY <1>5, <2>1, <2>3, <2>5 DEF StreamOwes
  <2>. QED BY <2>4, <2>5
<1>7. w.r.out > 0 /\ w.seen.end = "no" => w.credit = 0
  BY <1>1, <1>2, <1>5
<1>. HIDE DEF w
<1>. QED BY <1>3, <1>4, <1>5, <1>6, <1>7 DEF Holds, w

\* What the loop leaves when it stops.
Still(x) ==
    \/ x.r.out > 0 /\ (x.seen.end = "no" => x.credit = 0)
    \/ x.r.out = 0 /\ (x.r.body = None \/ PollAvail(x.r.body) \in {"pending", "end"})

TurnHolds(x, y) ==
    /\ y \in LoopState
    /\ y.turn # "gone" => StreamOwes(y.r, y.seen)
    /\ y.turn = "gone" => y.seen.end = "reset"
    /\ y.turn = "stop" => Still(y)
    /\ y.turn = "again" => /\ x.r.body # None /\ y.r.body # None
                           /\ y.r.body.left < x.r.body.left
    /\ y.r.fin = x.r.fin /\ y.r.delivered = x.r.delivered

\* One turn keeps what is owed, and stops only where the stream waits or is over.
LEMMA FlushTurnHolds ==
    ASSUME NEW x, Holds(x), x.turn = "again"
    PROVE  TurnHolds(x, FlushTurn(x))
<1>. DEFINE w == WriteOut(x)
            y == FlushTurn(x)
            body == w.r.body
            n == Least(body.left, H3_STREAM_CHUNK)
<1>. SUFFICES TurnHolds(x, y)
  OBVIOUS
<1>1. /\ Holds(w) /\ w.turn = "again"
      /\ w.r.out > 0 /\ w.seen.end = "no" => w.credit = 0
      /\ w.r = [x.r EXCEPT !.out = w.r.out]
  BY WriteOutHolds
<1>. HIDE DEF w
<1>2. /\ w \in LoopState /\ w.r \in StreamRecords /\ w.seen \in SeenRecords
      /\ w.r.out \in Nat /\ w.credit \in Nat /\ w.seen.got \in Nat /\ w.seen.due \in Nat
      /\ StreamOwes(w.r, w.seen)
      /\ x.r \in StreamRecords
  <2>1. /\ w \in LoopState /\ w.r \in StreamRecords /\ w.seen \in SeenRecords
        /\ w.credit \in Nat /\ StreamOwes(w.r, w.seen) /\ x.r \in StreamRecords
    BY <1>1, LoopFields DEF Holds
  <2>2. w.r.out \in Nat
    BY <2>1 DEF StreamRecords
  <2>3. w.seen.got \in Nat /\ w.seen.due \in Nat
    BY <2>1 DEF SeenRecords
  <2>. QED BY <2>1, <2>2, <2>3
<1>3. w.r.body = x.r.body /\ w.r.fin = x.r.fin /\ w.r.delivered = x.r.delivered
  BY <1>1, <1>2 DEF StreamRecords
<1>6. w = [r |-> w.r, credit |-> w.credit, seen |-> w.seen, turn |-> w.turn]
  BY <1>2, LoopFields
<1>7. w.r = [inbuf |-> w.r.inbuf, fin |-> w.r.fin, delivered |-> w.r.delivered, out |-> w.r.out,
             body |-> w.r.body, finishAfter |-> w.r.finishAfter]
  BY <1>2, StreamFields
<1>8. w.seen = [got |-> w.seen.got, due |-> w.seen.due, end |-> w.seen.end,
                up |-> w.seen.up, cut |-> w.seen.cut]
  BY <1>2, SeenFields
<1>4. CASE w.r.out > 0 \/ body = None
  <2>1. y = [w EXCEPT !.turn = "stop"]
    BY <1>4 DEF FlushTurn, Stay, w
  <2>2. /\ y \in LoopState /\ y.r = w.r /\ y.seen = w.seen /\ y.credit = w.credit
        /\ y.turn = "stop"
    BY <2>1, <1>2 DEF LoopState
  <2>. HIDE DEF y
  <2>. QED BY <2>2, <1>1, <1>2, <1>3, <1>4 DEF Still, TurnHolds
<1>5. CASE w.r.out = 0 /\ body # None
  <2>1. body \in BodyRecords /\ body.left \in Nat
    BY <1>2, <1>5 DEF StreamRecords, BodyRecords
  <2>2. CASE PollAvail(body) = "data" /\ Readable(body, n)
    <3>1. y = [w EXCEPT !.r.body = TakeChunk(body, n), !.r.out = n]
      BY <1>5, <2>2, <1>2 DEF FlushTurn, w
    <3>2. body.left > 0
      BY <2>1, <2>2 DEF PollAvail
    <3>3. n \in Nat /\ n > 0 /\ n <= body.left
      BY <2>1, <3>2, H3Assumption DEF Least
    <3>. DEFINE b == TakeChunk(body, n)
    <3>4. /\ b \in BodyRecords /\ b.left = body.left - n /\ b.over = body.over
          /\ b.kind = body.kind
      <4>. HIDE DEF n, body
      <4>. QED BY <2>1, <3>3, TakeChunkFields
    <3>. HIDE DEF n, b
    <3>5. /\ y \in LoopState /\ y.r.body = b /\ y.r.out = n /\ y.seen = w.seen
          /\ y.turn = "again" /\ y.r.fin = w.r.fin /\ y.r.delivered = w.r.delivered
          /\ y.r.finishAfter = w.r.finishAfter
      <4>1. y = [r |-> [inbuf |-> w.r.inbuf, fin |-> w.r.fin, delivered |-> w.r.delivered,
                        out |-> n, body |-> b, finishAfter |-> w.r.finishAfter],
                 credit |-> w.credit, seen |-> w.seen, turn |-> w.turn]
        BY <3>1, <1>2, <1>6, <1>7 DEF b
      <4>2. y.r \in StreamRecords
        BY <4>1, <3>3, <3>4, <1>2, StreamFields DEF StreamRecords
      <4>. HIDE DEF y
      <4>. QED BY <4>1, <4>2, <1>1, <1>2, LoopFields DEF LoopState
    <3>6. b # None
      BY <3>4, NoneIsNoBody
    <3>7. StreamOwes(y.r, y.seen)
      <4>. HIDE DEF y
      <4>. QED BY <3>3, <3>4, <3>5, <3>6, <1>2, <1>5, <2>1 DEF StreamOwes, Owed
    <3>. HIDE DEF y
    <3>. QED BY <3>3, <3>4, <3>5, <3>6, <3>7, <1>3, <1>5, <2>1 DEF TurnHolds
  <2>3. CASE PollAvail(body) \in {"pending", "end"}
    <3>. DEFINE b == Polled(body)
    <3>1. y = [[w EXCEPT !.r.body = b] EXCEPT !.turn = "stop"]
      BY <1>5, <2>3, <1>2 DEF FlushTurn, Stay, w
    <3>2. /\ b \in BodyRecords /\ b.left = body.left /\ b.kind = body.kind
          /\ b.over = body.over /\ PollAvail(b) = PollAvail(body) /\ b # None
      <4>. HIDE DEF body
      <4>. QED BY <2>1, <2>3, PolledFields, NoneIsNoBody
    <3>. HIDE DEF b
    <3>3. /\ y \in LoopState /\ y.r.body = b /\ y.r.out = w.r.out /\ y.seen = w.seen
          /\ y.credit = w.credit /\ y.turn = "stop" /\ y.r.fin = w.r.fin
          /\ y.r.delivered = w.r.delivered /\ y.r.finishAfter = w.r.finishAfter
      <4>0. [w EXCEPT !.r.body = b] =
                [r |-> [inbuf |-> w.r.inbuf, fin |-> w.r.fin, delivered |-> w.r.delivered,
                        out |-> w.r.out, body |-> b, finishAfter |-> w.r.finishAfter],
                 credit |-> w.credit, seen |-> w.seen, turn |-> w.turn]
        BY <1>6, <1>7
      <4>1. y = [r |-> [inbuf |-> w.r.inbuf, fin |-> w.r.fin, delivered |-> w.r.delivered,
                        out |-> w.r.out, body |-> b, finishAfter |-> w.r.finishAfter],
                 credit |-> w.credit, seen |-> w.seen, turn |-> "stop"]
        BY <3>1, <4>0
      <4>2. y.r \in StreamRecords
        BY <4>1, <3>2, <1>2, StreamFields DEF StreamRecords
      <4>. HIDE DEF y
      <4>. QED BY <4>1, <4>2, <1>2, LoopFields DEF LoopState
    <3>. HIDE DEF y
    <3>4. StreamOwes(y.r, y.seen)
      BY <3>2, <3>3, <1>2, <1>5 DEF StreamOwes, Owed
    <3>5. Still(y)
      BY <3>2, <3>3, <1>5, <2>3 DEF Still
    <3>. QED BY <3>3, <3>4, <3>5, <1>3 DEF TurnHolds
  <2>4. CASE ~(PollAvail(body) = "data" /\ Readable(body, n))
             /\ PollAvail(body) \notin {"pending", "end"}
    <3>1. y = [w EXCEPT !.turn = "gone", !.seen.end = "reset"]
      BY <1>5, <2>4, <1>2 DEF FlushTurn, Gone, w
    <3>2. y \in LoopState /\ y.r = w.r /\ y.turn = "gone" /\ y.seen.end = "reset"
      <4>1. y = [r |-> w.r, credit |-> w.credit, turn |-> "gone",
                 seen |-> [got |-> w.seen.got, due |-> w.seen.due, end |-> "reset",
                           up |-> w.seen.up, cut |-> w.seen.cut]]
        BY <3>1, <1>2, <1>6, <1>8
      <4>. HIDE DEF y
      <4>. QED BY <4>1, <1>2, SeenFields DEF LoopState, SeenRecords
    <3>. HIDE DEF y
    <3>. QED BY <3>2, <1>3 DEF TurnHolds
  <2>. QED BY <2>2, <2>3, <2>4
<1>. QED BY <1>2, <1>4, <1>5

\* What the loop over a stream that began with r leaves.
LoopHolds(r, y) ==
    /\ y \in LoopState
    /\ y.turn # "gone" => StreamOwes(y.r, y.seen)
    /\ y.turn = "gone" => y.seen.end = "reset"
    /\ y.turn = "stop" => Still(y)
    /\ y.r.fin = r.fin /\ y.r.delivered = r.delivered

\* Each turn takes a unit of the body, or is the last.
TurnsLeft(i, x, y) ==
    y.turn = "again" => \/ i = 0 /\ y = x
                        \/ /\ x.r.body # None /\ y.r.body # None
                           /\ y.r.body.left + i <= x.r.body.left

\* All turns over a stream: they come to a stop, with nothing forgotten.
LEMMA FlushLoopHolds ==
    ASSUME NEW x, Holds(x), x.turn = "again"
    PROVE  LoopHolds(x.r, FlushLoop(x)) /\ FlushLoop(x).turn # "again"
<1>. DEFINE n == IF x.r.body = None THEN 1 ELSE x.r.body.left + 1
<1>1. /\ x \in LoopState /\ x.r \in StreamRecords /\ x.r.body \in BodyRecords \cup {None}
      /\ x.r.body # None => x.r.body.left \in Nat
  BY LoopFields, StreamFields, BodyFields DEF Holds
<1>2. n \in Nat /\ n >= 1
  BY <1>1
<1>3. PICK f : /\ f = [i \in 0..n |-> IF i = 0 THEN x ELSE Turn(f[i - 1])]
               /\ FlushLoop(x) = f[n]
  <2>. HIDE DEF n
  <2>1. \A m \in Nat : m = n => \E f : /\ f = [i \in 0..m |-> IF i = 0 THEN x ELSE Turn(f[i - 1])]
                                       /\ FlushLoop(x) = f[m]
    BY FlushLoopUnfolds DEF n
  <2>. QED BY <1>2, <2>1
<1>. HIDE DEF n
<1>4. f[0] = x /\ \A i \in Nat : i + 1 <= n => f[i + 1] = Turn(f[i])
  <2>1. ASSUME NEW i \in Nat, i + 1 <= n PROVE f[i + 1] = Turn(f[i])
    <3>1. i + 1 \in 0..n /\ i + 1 # 0 /\ (i + 1) - 1 = i
      BY <2>1, <1>2
    <3>. QED BY <1>3, <3>1
  <2>. QED BY <1>2, <1>3, <2>1
<1>. DEFINE Inv(i) == LoopHolds(x.r, f[i]) /\ TurnsLeft(i, x, f[i])
            T == {i \in Nat : i <= n => Inv(i)}
<1>5. 0 \in T
  BY <1>1, <1>4 DEF LoopHolds, TurnsLeft, Holds
<1>6. ASSUME NEW i \in Nat, i \in T PROVE i + 1 \in T
  <2>. SUFFICES ASSUME i + 1 <= n PROVE Inv(i + 1)
    OBVIOUS
  <2>. DEFINE y == f[i]
              z == f[i + 1]
  <2>1. LoopHolds(x.r, y) /\ TurnsLeft(i, x, y) /\ z = Turn(y)
    BY <1>2, <1>4, <1>6
  <2>. HIDE DEF y, z
  <2>2. CASE y.turn # "again"
    <3>1. z = y /\ LoopHolds(x.r, z) /\ TurnsLeft(i + 1, x, z)
      BY <2>1, <2>2 DEF Turn, TurnsLeft
    <3>. QED BY <3>1 DEF z
  <2>3. CASE y.turn = "again"
    <3>1. Holds(y) /\ z = FlushTurn(y)
      BY <2>1, <2>3 DEF Holds, LoopHolds, Turn
    <3>2. TurnHolds(y, z)
      BY <3>1, <2>3, FlushTurnHolds
    <3>3. LoopHolds(x.r, z)
      BY <2>1, <3>2 DEF LoopHolds, TurnHolds
    <3>4. TurnsLeft(i + 1, x, z)
      <4>. SUFFICES ASSUME z.turn = "again"
                    PROVE  /\ x.r.body # None /\ z.r.body # None
                           /\ z.r.body.left + (i + 1) <= x.r.body.left
        BY DEF TurnsLeft
      <4>1. y.r.body # None /\ z.r.body # None /\ z.r.body.left < y.r.body.left
        BY <3>2 DEF TurnHolds
      <4>2. x.r.body # None /\ y.r.body.left + i <= x.r.body.left
        <5>1. y = x => y.r.body.left + 0 <= x.r.body.left
          BY <1>1, <4>1
        <5>. QED BY <2>1, <2>3, <4>1, <5>1 DEF TurnsLeft
      <4>3. y.r.body.left \in Nat /\ z.r.body.left \in Nat /\ x.r.body.left \in Nat
        <5>1. y.r.body \in BodyRecords /\ z.r.body \in BodyRecords /\ x.r.body \in BodyRecords
          BY <1>1, <4>1, <4>2, <2>1, <3>2, LoopFields, StreamFields DEF LoopHolds, TurnHolds
        <5>. QED BY <5>1, BodyFields
      <4>. QED BY <4>1, <4>2, <4>3
    <3>. QED BY <3>3, <3>4 DEF z
  <2>. QED BY <2>2, <2>3 DEF z
<1>7. Inv(n)
  <2>1. Nat \subseteq T
    <3>. HIDE DEF T
    <3>. QED BY <1>5, <1>6, SetInduction
  <2>. QED BY <2>1, <1>2
<1>8. f[n].turn # "again"
  <2>. SUFFICES ASSUME f[n].turn = "again" PROVE FALSE
    OBVIOUS
  <2>1. x.r.body # None /\ f[n].r.body # None /\ f[n].r.body.left + n <= x.r.body.left
    BY <1>2, <1>7 DEF TurnsLeft
  <2>2. f[n].r.body.left \in Nat
    BY <1>7, <2>1, LoopFields, StreamFields, BodyFields DEF LoopHolds
  <2>. QED BY <1>1, <2>1, <2>2 DEF n
<1>. QED BY <1>3, <1>7, <1>8

\* A stream that the flush leaves in the engine waits for credit or its producer.
FlushedHolds(r, y) ==
    /\ y \in LoopState
    /\ y.turn # "gone" => StreamOwes(y.r, y.seen)
    /\ y.turn # "gone" /\ y.r.delivered => Waits(y.r, y.credit, y.seen)
    /\ y.turn = "gone" => /\ y.seen.end # "no"
                          /\ y.seen.end = "fin" => Whole(y.seen)
    /\ y.r.fin = r.fin /\ y.r.delivered = r.delivered

\* The poll that follows the loop changes a body and nothing else of the stream.
LEMMA RepolledHolds ==
    ASSUME NEW y \in LoopState, StreamOwes(y.r, y.seen)
    PROVE  /\ Repolled(y) \in LoopState /\ Repolled(y).turn = y.turn
           /\ Repolled(y).credit = y.credit /\ Repolled(y).seen = y.seen
           /\ Repolled(y).r.out = y.r.out /\ Repolled(y).r.fin = y.r.fin
           /\ Repolled(y).r.delivered = y.r.delivered
           /\ StreamOwes(Repolled(y).r, y.seen)
           /\ PollAvail(y.r.body) = "pending" /\ y.r.body # None =>
                 PollAvail(Repolled(y).r.body) = "pending"
<1>1. /\ y = [r |-> y.r, credit |-> y.credit, seen |-> y.seen, turn |-> y.turn]
      /\ y.r \in StreamRecords /\ y.credit \in Nat /\ y.seen \in SeenRecords
  BY LoopFields
<1>2. y.r = [inbuf |-> y.r.inbuf, fin |-> y.r.fin, delivered |-> y.r.delivered, out |-> y.r.out,
             body |-> y.r.body, finishAfter |-> y.r.finishAfter]
  BY <1>1, StreamFields
<1>3. CASE y.r.body = None
  <2>1. Repolled(y) = y
    BY <1>3 DEF Repolled
  <2>. QED BY <1>3, <2>1
<1>4. CASE y.r.body # None
  <2>. DEFINE b == Polled(y.r.body)
              z == [r |-> [inbuf |-> y.r.inbuf, fin |-> y.r.fin, delivered |-> y.r.delivered,
                           out |-> y.r.out, body |-> b, finishAfter |-> y.r.finishAfter],
                    credit |-> y.credit, seen |-> y.seen, turn |-> y.turn]
  <2>1. Repolled(y) = [y EXCEPT !.r.body = b]
    BY <1>4 DEF Repolled
  <2>2. y.r.body \in BodyRecords
    BY <1>1, <1>4, StreamFields
  <2>3. /\ b \in BodyRecords /\ b.left = y.r.body.left /\ b.over = y.r.body.over
        /\ b.kind = y.r.body.kind /\ b # None
        /\ PollAvail(y.r.body) = "pending" => PollAvail(b) = "pending"
    BY <2>2, PolledFields, NoneIsNoBody
  <2>. HIDE DEF b
  <2>4. Repolled(y) = z
    BY <1>1, <1>2, <2>1
  <2>5. z.r \in StreamRecords
    BY <1>1, <2>3, StreamFields DEF StreamRecords
  <2>6. /\ z.r.out = y.r.out /\ z.r.fin = y.r.fin /\ z.r.delivered = y.r.delivered
        /\ z.r.body = b /\ z.r.finishAfter = y.r.finishAfter
        /\ z.turn = y.turn /\ z.credit = y.credit /\ z.seen = y.seen
    OBVIOUS
  <2>7. z \in LoopState
    BY <1>1, <2>5, LoopFields DEF LoopState
  <2>. HIDE DEF z
  <2>8. StreamOwes(z.r, y.seen)
    BY <1>4, <2>3, <2>6 DEF StreamOwes, Owed
  <2>. QED BY <2>3, <2>4, <2>6, <2>7, <2>8
<1>. QED BY <1>3, <1>4

\* A stream after flush: finished whole, reset, or waiting for credit or its producer.
LEMMA FlushStreamHolds ==
    ASSUME NEW r \in StreamRecords, NEW credit \in Nat, NEW seen \in SeenRecords,
           StreamOwes(r, seen)
    PROVE  FlushedHolds(r, FlushStream(r, credit, seen))
<1>. DEFINE x == [r |-> r, credit |-> credit, seen |-> seen, turn |-> "again"]
            y == FlushLoop(x)
            whole == y.r.finishAfter /\ y.r.out = 0 /\ BodyDone(y) /\ y.seen.end = "no"
<1>1. Holds(x) /\ x.turn = "again" /\ x.r = r
  BY DEF Holds, LoopState
<1>. HIDE DEF x
<1>2. LoopHolds(r, y) /\ y.turn # "again"
  BY <1>1, FlushLoopHolds
<1>3. FlushStream(r, credit, seen) = IF y.turn = "gone" THEN y
                                     ELSE IF whole THEN Gone(y, "fin") ELSE Repolled(y)
  BY DEF FlushStream, FinishWhole, x
<1>. HIDE DEF y
<1>4. y \in LoopState /\ y.r \in StreamRecords /\ y.seen \in SeenRecords /\ y.credit \in Nat
  BY <1>2, LoopFields DEF LoopHolds
<1>5. CASE y.turn = "gone"
  <2>1. FlushedHolds(r, y)
    BY <1>2, <1>4, <1>5 DEF FlushedHolds, LoopHolds
  <2>. QED BY <1>3, <1>5, <2>1
<1>6. CASE y.turn # "gone" /\ whole
  <2>. DEFINE z == Gone(y, "fin")
  <2>1. z = [r |-> y.r, credit |-> y.credit, turn |-> "gone",
             seen |-> [got |-> y.seen.got, due |-> y.seen.due, end |-> "fin",
                       up |-> y.seen.up, cut |-> y.seen.cut]]
    BY <1>4, GoneFields
  <2>2. /\ StreamOwes(y.r, y.seen) /\ y.r.delivered /\ y.r.body # None
        /\ PollAvail(y.r.body) = "end" /\ y.seen.end = "no"
    BY <1>2, <1>6 DEF LoopHolds, StreamOwes, BodyDone
  <2>3. y.r.body \in BodyRecords
    BY <1>4, <2>2, StreamFields
  <2>4. y.r.body.left = 0
    BY <2>2, <2>3, BodyFields DEF PollAvail
  <2>5. y.seen.got = y.seen.due /\ ~y.seen.up
    BY <2>2, <2>4, <1>4, <1>6, SeenFields DEF StreamOwes, Owed
  <2>6. z \in LoopState
    BY <2>1, <1>4, SeenFields DEF LoopState, SeenRecords
  <2>7. FlushedHolds(r, z)
    <3>. HIDE DEF z
    <3>. QED BY <2>1, <2>5, <2>6, <1>2, <1>4 DEF FlushedHolds, LoopHolds, Whole
  <2>. QED BY <1>3, <1>6, <2>7
<1>7. CASE y.turn # "gone" /\ ~whole
  <2>. DEFINE z == Repolled(y)
  <2>1. FlushStream(r, credit, seen) = z
    BY <1>3, <1>7
  <2>2. StreamOwes(y.r, y.seen) /\ Still(y)
    BY <1>2, <1>4, <1>7, LoopFields DEF LoopHolds
  <2>3. /\ z \in LoopState /\ z.turn = y.turn /\ z.credit = y.credit /\ z.seen = y.seen
        /\ z.r.out = y.r.out /\ z.r.fin = y.r.fin /\ z.r.delivered = y.r.delivered
        /\ StreamOwes(z.r, z.seen)
        /\ PollAvail(y.r.body) = "pending" /\ y.r.body # None => PollAvail(z.r.body) = "pending"
    BY <1>4, <2>2, RepolledHolds
  <2>. HIDE DEF z
  <2>4. ASSUME z.r.delivered PROVE Waits(z.r, z.credit, z.seen)
    <3>. SUFFICES ASSUME y.seen.end = "no"
                  PROVE  \/ y.r.out > 0 /\ y.credit = 0
                         \/ y.r.out = 0 /\ PollAvail(z.r.body) = "pending"
      BY <2>3 DEF Waits
    <3>1. y.r.finishAfter /\ y.r.body # None
      BY <2>2, <2>3, <2>4 DEF StreamOwes
    <3>. QED BY <1>7, <2>2, <2>3, <3>1 DEF Still, BodyDone
  <2>5. FlushedHolds(r, z)
    BY <1>2, <1>7, <2>3, <2>4 DEF FlushedHolds, LoopHolds
  <2>. QED BY <2>1, <2>5
<1>. QED BY <1>5, <1>6, <1>7

----------------------------------------------------------------------------
\* The records, with some of their fields updated.
WithSent(q, credit, seen) == [q EXCEPT !.credit = credit, !.seen = seen]

LEMMA QuicFlushed ==
    ASSUME NEW q, NEW credit, NEW seen, QuicType(q)
    PROVE  WithSent(q, credit, seen)
             = [complete |-> q.complete, closed |-> q.closed, hello |-> q.hello,
                readable |-> q.readable, credit |-> credit, seen |-> seen]
<1>. DEFINE q1 == [q EXCEPT !.credit = credit]
<1>1. q1 = [complete |-> q.complete, closed |-> q.closed, hello |-> q.hello,
            readable |-> q.readable, credit |-> credit, seen |-> q.seen]
  BY DEF QuicType
<1>2. WithSent(q, credit, seen) = [q1 EXCEPT !.seen = seen]
  BY DEF WithSent
<1>. HIDE DEF q1
<1>. QED BY <1>1, <1>2

\* One connection before and after: what only its datagrams change.
SameOf(q, z) == /\ z.complete = q.complete /\ z.closed = q.closed /\ z.hello = q.hello
                /\ z.readable = q.readable

\* All streams of a connection are flushed.
FlushHoldsFor(h, q, o) ==
    /\ EngineOK(o.h3, o.quic) /\ SameOf(q, o.quic)
    /\ DOMAIN o.h3.reqs \subseteq DOMAIN h.reqs
    /\ \A s \in DOMAIN o.h3.reqs : o.h3.reqs[s].fin =>
          /\ o.h3.reqs[s].delivered
          /\ Waits(o.h3.reqs[s], o.quic.credit[s], o.quic.seen[s])

\* After flush every stream that is left waits for credit or for its producer.
LEMMA FlushHolds ==
    ASSUME NEW h, NEW q, EngineOK(h, q),
           \A s \in DOMAIN h.reqs : h.reqs[s].fin => h.reqs[s].delivered
    PROVE  FlushHoldsFor(h, q, Flush(h, q))
<1>. DEFINE D == DOMAIN h.reqs
            x == [s \in D |-> FlushStream(h.reqs[s], q.credit[s], q.seen[s])]
            kept == {s \in D : x[s].turn # "gone"}
            reqs == [s \in kept |-> x[s].r]
            credit == [s \in Streams |-> IF s \in D THEN x[s].credit ELSE q.credit[s]]
            seen == [s \in Streams |-> IF s \in D THEN x[s].seen ELSE q.seen[s]]
            h2 == [started |-> h.started, reqs |-> reqs]
            q2 == [complete |-> q.complete, closed |-> q.closed, hello |-> q.hello,
                   readable |-> q.readable, credit |-> credit, seen |-> seen]
<1>1. /\ H3Type(h) /\ QuicType(q) /\ D \subseteq Streams
      /\ h = [started |-> h.started, reqs |-> h.reqs]
      /\ q = [complete |-> q.complete, closed |-> q.closed, hello |-> q.hello,
              readable |-> q.readable, credit |-> q.credit, seen |-> q.seen]
  BY DEF EngineOK, H3Type, QuicType, IsTable
<1>2. Flush(h, q) = [h3 |-> h2, quic |-> q2]
  <2>1. Flush(h, q) = [h3 |-> [h EXCEPT !.reqs = reqs],
                       quic |-> WithSent(q, credit, seen)]
    BY DEF Flush, PutBack, Outcome, WithSent
  <2>. HIDE DEF reqs, credit, seen
  <2>2. [h EXCEPT !.reqs = reqs] = h2
    BY <1>1
  <2>3. WithSent(q, credit, seen) = q2
    BY <1>1, QuicFlushed
  <2>. QED BY <2>1, <2>2, <2>3
<1>3. ASSUME NEW s \in D PROVE FlushedHolds(h.reqs[s], x[s])
  <2>1. /\ h.reqs[s] \in StreamRecords /\ q.credit[s] \in Nat /\ q.seen[s] \in SeenRecords
        /\ StreamOwes(h.reqs[s], q.seen[s])
    BY <1>1 DEF EngineOK, H3Type, QuicType, IsTable
  <2>. QED BY <2>1, FlushStreamHolds
<1>. HIDE DEF x
<1>4. ASSUME NEW s \in D
      PROVE  /\ x[s].r \in StreamRecords /\ x[s].credit \in Nat /\ x[s].seen \in SeenRecords
  BY <1>3, LoopFields DEF FlushedHolds
<1>5. kept \subseteq D
  OBVIOUS
<1>6. H3Type(h2)
  BY <1>1, <1>4, <1>5 DEF H3Type, IsTable
<1>7. QuicType(q2)
  <2>1. credit \in [Streams -> Nat] /\ seen \in [Streams -> SeenRecords]
    BY <1>1, <1>4 DEF QuicType
  <2>. HIDE DEF credit, seen
  <2>. QED BY <2>1, <1>1 DEF QuicType
<1>8. IsFiniteSet(kept) /\ Cardinality(kept) <= MAX_REQ_STREAMS
  <2>1. IsFiniteSet(D) /\ Cardinality(D) <= MAX_REQ_STREAMS
    BY DEF EngineOK
  <2>2. IsFiniteSet(kept) /\ Cardinality(kept) <= Cardinality(D)
    BY <2>1, <1>5, FS_Subset
  <2>. QED BY <2>1, <2>2, FS_CardinalityType, H3Assumption
<1>9. EngineOK(h2, q2)
  <2>1. DOMAIN h2.reqs = kept
    OBVIOUS
  <2>2. \A s \in kept : StreamOwes(h2.reqs[s], q2.seen[s])
    BY <1>1, <1>3, <1>5 DEF FlushedHolds
  <2>3. \A s \in Streams \ kept : q2.seen[s].end = "no" => q2.seen[s].got = 0
    BY <1>1, <1>3, <1>5 DEF FlushedHolds, EngineOK
  <2>4. \A s \in Streams : q2.seen[s].end = "fin" => Whole(q2.seen[s])
    BY <1>1, <1>3, <1>5 DEF FlushedHolds, EngineOK, StreamOwes
  <2>. HIDE DEF h2, q2
  <2>. QED BY <2>1, <2>2, <2>3, <2>4, <1>6, <1>7, <1>8 DEF EngineOK
<1>10. ASSUME NEW s \in kept, h2.reqs[s].fin
       PROVE  h2.reqs[s].delivered /\ Waits(h2.reqs[s], q2.credit[s], q2.seen[s])
  BY <1>1, <1>3, <1>5, <1>10 DEF FlushedHolds
<1>. DEFINE o == [h3 |-> h2, quic |-> q2]
<1>11. o.h3 = h2 /\ o.quic = q2 /\ DOMAIN h2.reqs = kept /\ SameOf(q, q2)
  BY DEF SameOf
<1>. HIDE DEF o, h2, q2
<1>12. FlushHoldsFor(h, q, o)
  BY <1>5, <1>9, <1>10, <1>11 DEF FlushHoldsFor
<1>. QED BY <1>2, <1>12 DEF o

----------------------------------------------------------------------------
\* The responses of the handlers.
LEMMA OutBodyHolds ==
    ASSUME NEW response \in Responses
    PROVE  /\ OutBody(response) \in BodyRecords /\ OutBody(response).over = "open"
           /\ OutBody(response).left \in Nat
BY QuicAssumption DEF OutBody, BodyRecords

\* A handler has some response to give.
LEMMA AnyResponseIsOne == AnyResponse \in Responses
BY QuicAssumption DEF AnyResponse

\* An answered request owes its response, and no more.
LEMMA AnsweredOwes ==
    ASSUME NEW r \in StreamRecords, NEW seen \in SeenRecords, StreamOwes(r, seen),
           r.fin, ~r.delivered, NEW response \in Responses
    PROVE  LET z == Answered(r, response)
               due == [seen EXCEPT !.due = 1 + OutBody(response).left]
           IN  /\ z \in StreamRecords /\ due \in SeenRecords /\ z.delivered
               /\ StreamOwes(z, due)
<1>. DEFINE b == OutBody(response)
            z == Answered(r, response)
            due == [seen EXCEPT !.due = 1 + b.left]
<1>1. b \in BodyRecords /\ b.over = "open" /\ b.left \in Nat /\ b # None
  BY OutBodyHolds, NoneIsNoBody
<1>. HIDE DEF b
<1>2. due = [got |-> seen.got, due |-> 1 + b.left, end |-> seen.end, up |-> seen.up,
             cut |-> seen.cut]
  BY SeenFields
<1>3. z = [inbuf |-> <<>>, fin |-> r.fin, delivered |-> TRUE, out |-> 1, body |-> b,
           finishAfter |-> TRUE]
  BY DEF Answered, b
<1>4. z \in StreamRecords
  BY <1>1, <1>3, StreamFields DEF StreamRecords
<1>5. due \in SeenRecords
  BY <1>1, <1>2, SeenFields DEF SeenRecords
<1>6. seen.end # "fin" /\ (seen.end = "no" => seen.got = 0) /\ ~seen.up
  BY DEF StreamOwes
<1>. HIDE DEF z, due
<1>7. StreamOwes(z, due)
  BY <1>1, <1>2, <1>3, <1>6 DEF StreamOwes, Owed
<1>. QED BY <1>3, <1>4, <1>5, <1>7 DEF z, due, b

LEMMA QuicSeen ==
    ASSUME NEW q, NEW seen, QuicType(q)
    PROVE  [q EXCEPT !.seen = seen]
             = [complete |-> q.complete, closed |-> q.closed, hello |-> q.hello,
                readable |-> q.readable, credit |-> q.credit, seen |-> seen]
BY DEF QuicType

LEMMA H3Started ==
    ASSUME NEW h, H3Type(h), NEW x
    PROVE  [h EXCEPT !.started = x] = [started |-> x, reqs |-> h.reqs]
BY DEF H3Type

LEMMA H3Reqs ==
    ASSUME NEW h, NEW reqs, H3Type(h)
    PROVE  [h EXCEPT !.reqs = reqs] = [started |-> h.started, reqs |-> reqs]
BY DEF H3Type

\* What has arrived is answered.
HandledHolds(h, q, o) ==
    /\ EngineOK(o.h3, o.quic) /\ SameOf(q, o.quic)
    /\ DOMAIN o.h3.reqs \subseteq DOMAIN h.reqs
    /\ \A s \in DOMAIN o.h3.reqs : o.h3.reqs[s].fin => o.h3.reqs[s].delivered

\* Once the ready requests are handled none is left unanswered.
LEMMA HandleRequestsHold ==
    ASSUME NEW h, NEW q, EngineOK(h, q), NEW response \in Responses, NEW ready,
           ready = {s \in DOMAIN h.reqs : h.reqs[s].fin /\ ~h.reqs[s].delivered}
    PROVE  HandledHolds(h, q, HandleRequests(h, q, ready, response))
<1>. DEFINE D == DOMAIN h.reqs
            refused == {s \in ready : ~Parses(h.reqs[s].inbuf)}
            reqs == [s \in D \ refused |->
                        IF s \in ready THEN Answered(h.reqs[s], response) ELSE h.reqs[s]]
            seen == [s \in Streams |->
                        CASE s \in refused -> [q.seen[s] EXCEPT !.end = "reset"]
                          [] s \in ready \ refused ->
                                [q.seen[s] EXCEPT !.due = 1 + OutBody(response).left]
                          [] OTHER -> q.seen[s]]
            h2 == [started |-> h.started, reqs |-> reqs]
            q2 == [complete |-> q.complete, closed |-> q.closed, hello |-> q.hello,
                   readable |-> q.readable, credit |-> q.credit, seen |-> seen]
<1>1. /\ H3Type(h) /\ QuicType(q) /\ D \subseteq Streams
      /\ IsFiniteSet(D) /\ Cardinality(D) <= MAX_REQ_STREAMS
  BY DEF EngineOK, H3Type, IsTable
<1>2. HandleRequests(h, q, ready, response) = [h3 |-> h2, quic |-> q2]
  <2>1. HandleRequests(h, q, ready, response)
          = [h3 |-> [h EXCEPT !.reqs = reqs], quic |-> [q EXCEPT !.seen = seen]]
    BY DEF HandleRequests, Outcome
  <2>. HIDE DEF reqs, seen
  <2>. QED BY <1>1, <2>1, H3Reqs, QuicSeen
<1>3. ASSUME NEW s \in D
      PROVE  h.reqs[s] \in StreamRecords /\ q.seen[s] \in SeenRecords /\ StreamOwes(h.reqs[s], q.seen[s])
  BY <1>1 DEF EngineOK, H3Type, QuicType, IsTable
<1>4. ASSUME NEW s \in D \ refused
      PROVE  /\ reqs[s] \in StreamRecords /\ seen[s] \in SeenRecords
             /\ StreamOwes(reqs[s], seen[s]) /\ (reqs[s].fin => reqs[s].delivered)
  <2>0. s \in D /\ s \in Streams /\ s \notin refused
    BY <1>1
  <2>1. CASE s \in ready
    <3>1. /\ reqs[s] = Answered(h.reqs[s], response)
          /\ seen[s] = [q.seen[s] EXCEPT !.due = 1 + OutBody(response).left]
      BY <2>0, <2>1
    <3>2. h.reqs[s].fin /\ ~h.reqs[s].delivered
      BY <2>1
    <3>. HIDE DEF reqs, seen, refused, D
    <3>. QED BY <1>3, <2>0, <3>1, <3>2, AnsweredOwes
  <2>2. CASE s \notin ready
    <3>1. reqs[s] = h.reqs[s] /\ seen[s] = q.seen[s]
      BY <2>0, <2>2
    <3>2. h.reqs[s].fin => h.reqs[s].delivered
      <4>1. h.reqs[s].fin \in BOOLEAN /\ h.reqs[s].delivered \in BOOLEAN
        BY <1>3, <2>0, StreamFields
      <4>. QED BY <2>0, <2>2, <4>1
    <3>. HIDE DEF reqs, seen, refused
    <3>. QED BY <1>3, <2>0, <3>1, <3>2
  <2>. QED BY <2>1, <2>2
<1>5. ASSUME NEW s \in Streams, s \in refused \/ s \notin D
      PROVE  /\ seen[s] \in SeenRecords
             /\ s \in refused => seen[s].end = "reset"
             /\ s \notin refused => seen[s] = q.seen[s]
  <2>1. q.seen[s] \in SeenRecords
    BY <1>1 DEF QuicType
  <2>2. CASE s \in refused
    <3>1. seen[s] = [q.seen[s] EXCEPT !.end = "reset"]
      BY <2>2
    <3>2. seen[s] = [got |-> q.seen[s].got, due |-> q.seen[s].due, end |-> "reset",
                     up |-> q.seen[s].up, cut |-> q.seen[s].cut]
      BY <3>1, <2>1, SeenFields
    <3>. HIDE DEF seen
    <3>3. seen[s] \in SeenRecords
      BY <2>1, <3>2, SeenFields DEF SeenRecords
    <3>. QED BY <2>2, <3>2, <3>3
  <2>3. CASE s \notin refused
    <3>1. s \notin ready
      BY <1>5, <2>3
    <3>2. seen[s] = q.seen[s]
      BY <2>3, <3>1
    <3>. HIDE DEF seen
    <3>. QED BY <2>1, <2>3, <3>2
  <2>. QED BY <2>2, <2>3
<1>6. DOMAIN reqs = D \ refused
  OBVIOUS
<1>. HIDE DEF reqs
<1>7. \A s \in Streams : seen[s] \in SeenRecords
  BY <1>1, <1>4, <1>5
<1>8. QuicType(q2)
  <2>1. seen \in [Streams -> SeenRecords]
    BY <1>7
  <2>. HIDE DEF seen
  <2>. QED BY <1>1, <2>1 DEF QuicType
<1>. HIDE DEF seen
<1>9. H3Type(h2)
  <2>1. h.started \in BOOLEAN
    BY <1>1 DEF H3Type
  <2>2. IsTable(reqs, Streams, StreamRecords)
    <3>1. reqs = [s \in D \ refused |-> reqs[s]]
      BY DEF reqs
    <3>. HIDE DEF D, refused
    <3>. QED BY <1>1, <1>4, <1>6, <3>1 DEF IsTable
  <2>. QED BY <2>1, <2>2 DEF H3Type
<1>10. IsFiniteSet(D \ refused) /\ Cardinality(D \ refused) <= MAX_REQ_STREAMS
  <2>. HIDE DEF D, refused
  <2>1. IsFiniteSet(D \ refused) /\ Cardinality(D \ refused) <= Cardinality(D)
    <3>1. D \ refused \subseteq D
      OBVIOUS
    <3>. QED BY <1>1, <3>1, FS_Subset
  <2>. QED BY <1>1, <2>1, FS_CardinalityType, H3Assumption
<1>11. \A s \in Streams \ (D \ refused) : seen[s].end = "no" => seen[s].got = 0
  <2>. SUFFICES ASSUME NEW s \in Streams \ (D \ refused), seen[s].end = "no" PROVE seen[s].got = 0
    OBVIOUS
  <2>1. s \notin refused /\ s \notin D /\ seen[s] = q.seen[s]
    BY <1>5
  <2>. QED BY <2>1 DEF EngineOK
<1>12. \A s \in Streams : seen[s].end = "fin" => Whole(seen[s])
  <2>. SUFFICES ASSUME NEW s \in Streams, seen[s].end = "fin" PROVE Whole(seen[s])
    OBVIOUS
  <2>1. s \notin D \ refused
    BY <1>4 DEF StreamOwes
  <2>2. seen[s] = q.seen[s]
    BY <1>5, <2>1
  <2>. QED BY <2>2 DEF EngineOK
<1>13. EngineOK(h2, q2)
  <2>1. h2.reqs = reqs /\ q2.seen = seen
    OBVIOUS
  <2>. HIDE DEF h2, q2, D, refused
  <2>. QED BY <1>4, <1>6, <1>8, <1>9, <1>10, <1>11, <1>12, <2>1 DEF EngineOK
<1>. DEFINE o == [h3 |-> h2, quic |-> q2]
<1>14. o.h3 = h2 /\ o.quic = q2 /\ h2.reqs = reqs /\ SameOf(q, q2)
  BY DEF SameOf
<1>. HIDE DEF o, h2, q2, refused
<1>15. HandledHolds(h, q, o)
  BY <1>4, <1>6, <1>13, <1>14 DEF HandledHolds
<1>. QED BY <1>2, <1>15 DEF o

----------------------------------------------------------------------------
\* What has arrived is read.
LEMMA ReqFields ==
    ASSUME NEW h, NEW q, EngineOK(h, q)
    PROVE  /\ H3Type(h) /\ QuicType(q) /\ DOMAIN h.reqs \subseteq Streams
           /\ IsFiniteSet(DOMAIN h.reqs) /\ Cardinality(DOMAIN h.reqs) \in Nat
           /\ Cardinality(DOMAIN h.reqs) <= MAX_REQ_STREAMS
           /\ \A s \in DOMAIN h.reqs :
                 /\ h.reqs[s] \in StreamRecords /\ q.seen[s] \in SeenRecords
                 /\ StreamOwes(h.reqs[s], q.seen[s])
           /\ \A s \in Streams : q.seen[s] \in SeenRecords
           /\ q.seen \in [Streams -> SeenRecords] /\ q.credit \in [Streams -> Nat]
           /\ h.reqs = [s \in DOMAIN h.reqs |-> h.reqs[s]]
           /\ h.started \in BOOLEAN
BY FS_CardinalityType DEF EngineOK, H3Type, QuicType, IsTable

\* The engine without a stream.
LEMMA DropFields ==
    ASSUME NEW h, NEW sid, H3Type(h)
    PROVE  Drop(h, sid) = [started |-> h.started,
                           reqs |-> [s \in DOMAIN h.reqs \ {sid} |-> h.reqs[s]]]
<1>. DEFINE reqs == Restrict(h.reqs, DOMAIN h.reqs \ {sid})
<1>1. Drop(h, sid) = [h EXCEPT !.reqs = reqs]
  BY DEF Drop
<1>2. reqs = [s \in DOMAIN h.reqs \ {sid} |-> h.reqs[s]]
  BY DEF Restrict
<1>. HIDE DEF reqs
<1>3. Drop(h, sid) = [started |-> h.started, reqs |-> reqs]
  BY <1>1, H3Reqs
<1>. QED BY <1>2, <1>3

\* A reset changes how one stream has ended, and nothing else.
LEMMA ResetFields ==
    ASSUME NEW q, NEW sid \in Streams, QuicType(q)
    PROVE  /\ QuicType(Reset(q, sid)) /\ SameOf(q, Reset(q, sid))
           /\ Reset(q, sid).seen[sid].end = "reset"
           /\ \A s \in Streams \ {sid} : Reset(q, sid).seen[s] = q.seen[s]
<1>. DEFINE ended == [q.seen[sid] EXCEPT !.end = "reset"]
            seen == [q.seen EXCEPT ![sid] = ended]
            z == [complete |-> q.complete, closed |-> q.closed, hello |-> q.hello,
                  readable |-> q.readable, credit |-> q.credit, seen |-> seen]
<1>1. q.seen \in [Streams -> SeenRecords] /\ q.seen[sid] \in SeenRecords
  BY DEF QuicType
<1>2. ended = [got |-> q.seen[sid].got, due |-> q.seen[sid].due, end |-> "reset",
               up |-> q.seen[sid].up, cut |-> q.seen[sid].cut]
  BY <1>1, SeenFields
<1>3. ended \in SeenRecords
  BY <1>1, <1>2, SeenFields DEF SeenRecords
<1>4. Reset(q, sid) = [q EXCEPT !.seen = seen]
  BY DEF Reset
<1>5. /\ seen \in [Streams -> SeenRecords] /\ seen[sid].end = "reset"
      /\ \A s \in Streams \ {sid} : seen[s] = q.seen[s]
  <2>1. ended.end = "reset"
    BY <1>2
  <2>. HIDE DEF ended
  <2>. QED BY <1>1, <1>3, <2>1
<1>. HIDE DEF seen
<1>6. Reset(q, sid) = z
  BY <1>4, QuicSeen
<1>7. QuicType(z)
  BY <1>5 DEF QuicType
<1>8. SameOf(q, z) /\ z.seen = seen
  BY DEF SameOf
<1>. HIDE DEF z
<1>. QED BY <1>5, <1>6, <1>7, <1>8

\* Dropping a stream and resetting it keeps the engine in order.
LEMMA DropHolds ==
    ASSUME NEW h, NEW q, EngineOK(h, q), NEW sid \in Streams
    PROVE  EngineOK(Drop(h, sid), Reset(q, sid))
<1>. DEFINE D == DOMAIN h.reqs \ {sid}
            h2 == Drop(h, sid)
            q2 == Reset(q, sid)
<1>0. /\ IsFiniteSet(DOMAIN h.reqs) /\ Cardinality(DOMAIN h.reqs) \in Nat
      /\ Cardinality(DOMAIN h.reqs) <= MAX_REQ_STREAMS /\ DOMAIN h.reqs \subseteq Streams
      /\ \A s \in DOMAIN h.reqs : StreamOwes(h.reqs[s], q.seen[s])
  BY ReqFields
<1>1. h2 = [started |-> h.started, reqs |-> [s \in D |-> h.reqs[s]]]
  BY DropFields, ReqFields
<1>2. h2.started = h.started /\ h2.reqs = [s \in D |-> h.reqs[s]] /\ DOMAIN h2.reqs = D
  BY <1>1
<1>3. /\ QuicType(q2) /\ q2.seen[sid].end = "reset"
      /\ \A s \in Streams \ {sid} : q2.seen[s] = q.seen[s]
  BY ResetFields, ReqFields
<1>. HIDE DEF h2, q2
<1>4. H3Type(h2)
  BY <1>1, <1>2, ReqFields DEF H3Type, IsTable
<1>5. IsFiniteSet(D) /\ Cardinality(D) <= MAX_REQ_STREAMS
  <2>1. IsFiniteSet(D) /\ Cardinality(D) <= Cardinality(DOMAIN h.reqs)
    BY <1>0, FS_Subset
  <2>. HIDE DEF D
  <2>. QED BY <2>1, <1>0, FS_CardinalityType, H3Assumption
<1>6. \A s \in D : StreamOwes(h2.reqs[s], q2.seen[s])
  BY <1>0, <1>2, <1>3
<1>7. \A s \in Streams \ D : q2.seen[s].end = "no" => q2.seen[s].got = 0
  BY <1>3 DEF EngineOK
<1>8. \A s \in Streams : q2.seen[s].end = "fin" => Whole(q2.seen[s])
  BY <1>3 DEF EngineOK
<1>9. EngineOK(h2, q2)
  BY <1>2, <1>3, <1>4, <1>5, <1>6, <1>7, <1>8 DEF EngineOK
<1>. QED BY <1>9 DEF h2, q2

\* A stream the engine does not have is refused.
LEMMA RefuseHolds ==
    ASSUME NEW h, NEW q, EngineOK(h, q), NEW sid \in Streams, sid \notin DOMAIN h.reqs
    PROVE  EngineOK(h, Reset(q, sid))
<1>1. Drop(h, sid) = [started |-> h.started,
                      reqs |-> [s \in DOMAIN h.reqs \ {sid} |-> h.reqs[s]]]
  BY DropFields, ReqFields
<1>2. DOMAIN h.reqs \ {sid} = DOMAIN h.reqs
  OBVIOUS
<1>3. Drop(h, sid) = [started |-> h.started, reqs |-> h.reqs]
  BY <1>1, <1>2, ReqFields
<1>4. Drop(h, sid) = h
  BY <1>3, ReqFields DEF H3Type
<1>. QED BY <1>4, DropHolds

ReadHolds(q, o) ==
    /\ EngineOK(o.h3, o.quic) /\ SameOf(q, o.quic)

\* read_request keeps the table within its limit, and refuses what does not fit.
LEMMA ReadRequestHolds ==
    ASSUME NEW h, NEW q, EngineOK(h, q), NEW sid \in Streams, NEW got \in Parts,
           q.seen[sid].end # "fin", got.fin => ~q.seen[sid].up
    PROVE  ReadHolds(q, ReadRequest(h, q, sid, got))
<1>. DEFINE D == DOMAIN h.reqs
            known == sid \in D
            old == IF known THEN h.reqs[sid] ELSE NewStream
            new == [old EXCEPT !.inbuf = @ \o got.frames, !.fin = @ \/ got.fin]
            nothing == got.frames = <<>> /\ ~got.fin
            full == ~known /\ Cardinality(D) >= MAX_REQ_STREAMS
            o == ReadRequest(h, q, sid, got)
<1>1. /\ H3Type(h) /\ QuicType(q) /\ D \subseteq Streams
      /\ IsFiniteSet(D) /\ Cardinality(D) \in Nat /\ Cardinality(D) <= MAX_REQ_STREAMS
      /\ \A s \in D : h.reqs[s] \in StreamRecords /\ StreamOwes(h.reqs[s], q.seen[s])
      /\ h.started \in BOOLEAN
  BY ReqFields
<1>2. got.frames \in Seq(Frames) /\ got.fin \in BOOLEAN
  BY DEF Parts
<1>3. ReadHolds(q, Outcome(h, q))
  BY DEF ReadHolds, Outcome, SameOf
<1>4. ReadHolds(q, Outcome(Drop(h, sid), Reset(q, sid)))
  <2>1. EngineOK(Drop(h, sid), Reset(q, sid)) /\ SameOf(q, Reset(q, sid))
    BY <1>1, DropHolds, ResetFields
  <2>. QED BY <2>1 DEF ReadHolds, Outcome
<1>5. ASSUME ~known PROVE ReadHolds(q, Outcome(h, Reset(q, sid)))
  <2>1. EngineOK(h, Reset(q, sid)) /\ SameOf(q, Reset(q, sid))
    BY <1>1, <1>5, RefuseHolds, ResetFields
  <2>. QED BY <2>1 DEF ReadHolds, Outcome
<1>6. ASSUME ~full
      PROVE  ReadHolds(q, Outcome([h EXCEPT !.reqs = Put(h.reqs, sid, new)], q))
  <2>. DEFINE reqs == Put(h.reqs, sid, new)
              h2 == [started |-> h.started, reqs |-> reqs]
  <2>1. /\ old \in StreamRecords
        /\ StreamOwes(old, q.seen[sid])
    <3>1. CASE known
      BY <1>1, <3>1
    <3>2. CASE ~known
      <4>1. q.seen[sid].end = "no" => q.seen[sid].got = 0
        BY <3>2 DEF EngineOK
      <4>. QED BY <3>2, <4>1 DEF NewStream, StreamRecords, StreamOwes
    <3>. QED BY <3>1, <3>2
  <2>. HIDE DEF old
  <2>2. new = [inbuf |-> old.inbuf \o got.frames, fin |-> old.fin \/ got.fin,
               delivered |-> old.delivered, out |-> old.out, body |-> old.body,
               finishAfter |-> old.finishAfter]
    <3>. DEFINE a == old.inbuf \o got.frames
                b == old.fin \/ got.fin
                n1 == [old EXCEPT !.inbuf = a]
    <3>1. n1 = [inbuf |-> a, fin |-> old.fin, delivered |-> old.delivered, out |-> old.out,
                body |-> old.body, finishAfter |-> old.finishAfter]
      <4>. HIDE DEF a
      <4>. QED BY <2>1, StreamFields
    <3>2. new = [n1 EXCEPT !.fin = b]
      OBVIOUS
    <3>. HIDE DEF n1, a, b
    <3>3. new = [inbuf |-> a, fin |-> b, delivered |-> old.delivered, out |-> old.out,
                body |-> old.body, finishAfter |-> old.finishAfter]
      BY <3>1, <3>2
    <3>. QED BY <3>3 DEF a, b
  <2>. HIDE DEF new
  <2>3. new \in StreamRecords
    BY <1>2, <2>1, <2>2, StreamFields DEF StreamRecords
  <2>4. StreamOwes(new, q.seen[sid])
    BY <1>2, <2>1, <2>2, StreamFields DEF StreamOwes, Owed
  <2>5. /\ DOMAIN reqs = D \cup {sid} /\ reqs[sid] = new
        /\ \A s \in D \ {sid} : reqs[s] = h.reqs[s]
        /\ reqs = [s \in DOMAIN reqs |-> reqs[s]]
    BY DEF Put
  <2>. HIDE DEF reqs
  <2>6. [h EXCEPT !.reqs = reqs] = h2
    BY <1>1, H3Reqs
  <2>7. IsTable(reqs, Streams, StreamRecords)
    BY <1>1, <2>3, <2>5 DEF IsTable
  <2>8. IsFiniteSet(D \cup {sid}) /\ Cardinality(D \cup {sid}) <= MAX_REQ_STREAMS
    <3>. HIDE DEF D
    <3>1. IsFiniteSet(D \cup {sid})
          /\ Cardinality(D \cup {sid}) = IF known THEN Cardinality(D) ELSE Cardinality(D) + 1
      BY <1>1, FS_AddElement
    <3>. QED BY <1>1, <1>6, <3>1, H3Assumption
  <2>9. h2.reqs = reqs /\ h2.started = h.started
    OBVIOUS
  <2>10. H3Type(h2)
    BY <1>1, <2>7 DEF H3Type
  <2>. HIDE DEF h2
  <2>11. \A s \in DOMAIN reqs : StreamOwes(reqs[s], q.seen[s])
    <3>. SUFFICES ASSUME NEW s \in DOMAIN reqs PROVE StreamOwes(reqs[s], q.seen[s])
      OBVIOUS
    <3>1. CASE s = sid
      BY <2>4, <2>5, <3>1
    <3>2. CASE s # sid
      <4>. HIDE DEF D
      <4>. QED BY <1>1, <2>5, <3>2
    <3>. QED BY <3>1, <3>2
  <2>12. EngineOK(h2, q)
    BY <2>5, <2>8, <2>9, <2>10, <2>11 DEF EngineOK
  <2>13. ReadHolds(q, Outcome(h2, q))
    BY <2>12 DEF ReadHolds, Outcome, SameOf
  <2>. QED BY <2>6, <2>13 DEF reqs
<1>7. \/ o = Outcome(h, q)
      \/ o = Outcome(Drop(h, sid), Reset(q, sid))
      \/ ~known /\ o = Outcome(h, Reset(q, sid))
      \/ ~full /\ o = Outcome([h EXCEPT !.reqs = Put(h.reqs, sid, new)], q)
  <2>1. CASE nothing /\ known
    BY <2>1 DEF ReadRequest
  <2>2. CASE nothing /\ ~known
    BY <2>2 DEF ReadRequest
  <2>3. CASE ~nothing /\ full
    BY <2>3 DEF ReadRequest
  <2>4. CASE ~nothing /\ ~full /\ Len(new.inbuf) > MaxRequest
    BY <2>4 DEF ReadRequest
  <2>5. CASE ~nothing /\ ~full /\ ~(Len(new.inbuf) > MaxRequest)
    BY <2>5 DEF ReadRequest
  <2>. QED BY <2>1, <2>2, <2>3, <2>4, <2>5
<1>. HIDE DEF new, full, D, o
<1>8. ReadHolds(q, o)
  BY <1>3, <1>4, <1>5, <1>6, <1>7
<1>. QED BY <1>8 DEF o

\* One stream can be read in an iteration at most, since it takes one datagram.
AtMostOne(S) == S = {} \/ \E s : S = {s}

\* At most one stream is readable at a time, so the order of the others is no question.
LEMMA ReadIds ==
    ASSUME NEW S, AtMostOne(S)
    PROVE  \/ S = {} /\ Len(SetToSeq(S)) = 0
           \/ S = {SetToSeq(S)[1]} /\ Len(SetToSeq(S)) = 1
<1>1. CASE S = {}
  <2>1. Cardinality(S) = 0
    BY <1>1, FS_EmptySet
  <2>. DEFINE f == [i \in 1..0 |-> 0]
  <2>2. f \in [1..Cardinality(S) -> S] /\ IsInjective(f)
    BY <2>1 DEF IsInjective
  <2>3. SetToSeq(S) \in [1..Cardinality(S) -> S]
    <3>. HIDE DEF f
    <3>. QED BY <2>2 DEF SetToSeq
  <2>4. SetToSeq(S) = <<>>
    BY <1>1, <2>1, <2>3
  <2>. QED BY <1>1, <2>4
<1>2. CASE \E s : S = {s}
  <2>1. PICK s : S = {s}
    BY <1>2
  <2>2. Cardinality(S) = 1
    BY <2>1, FS_Singleton
  <2>. DEFINE f == [i \in 1..1 |-> s]
  <2>3. f \in [1..Cardinality(S) -> S] /\ IsInjective(f)
    BY <2>1, <2>2 DEF IsInjective
  <2>4. SetToSeq(S) \in [1..Cardinality(S) -> S]
    <3>. HIDE DEF f
    <3>. QED BY <2>3 DEF SetToSeq
  <2>. QED BY <2>1, <2>2, <2>4
<1>. QED BY <1>1, <1>2 DEF AtMostOne

ReadOver(q, o) ==
    /\ EngineOK(o.h3, o.quic) /\ DOMAIN o.quic.readable = {}
    /\ o.quic.complete = q.complete /\ o.quic.closed = q.closed /\ o.quic.hello = q.hello

\* What arrives on a stream comes from a client that had not ended its half.
Arrives(q) ==
    \A s \in DOMAIN q.readable : /\ q.seen[s].end # "fin"
                                 /\ q.readable[s].fin => ~q.seen[s].up

\* Reading what has arrived leaves nothing readable and the engine in order.
LEMMA ReadStreamsHolds ==
    ASSUME NEW h, NEW q, EngineOK(h, q), AtMostOne(DOMAIN q.readable), Arrives(q)
    PROVE  ReadOver(q, ReadStreams(h, q))
<1>. DEFINE ids == SetToSeq(DOMAIN q.readable)
            none == Restrict(q.readable, {})
            start == Outcome(h, [q EXCEPT !.readable = none])
            step(o, i) == ReadRequest(o.h3, o.quic, ids[i], q.readable[ids[i]])
            Is(f, n) == f = [i \in 0..n |-> IF i = 0 THEN start ELSE step(f[i - 1], i)]
            n == Len(ids)
            F == CHOOSE f : Is(f, n)
            z == [complete |-> q.complete, closed |-> q.closed, hello |-> q.hello,
                  readable |-> none, credit |-> q.credit, seen |-> q.seen]
<1>1. ReadStreams(h, q) = F[n]
  BY DEF ReadStreams
<1>2. \/ DOMAIN q.readable = {} /\ n = 0
      \/ DOMAIN q.readable = {ids[1]} /\ n = 1
  BY ReadIds
<1>3. start = [h3 |-> h, quic |-> z]
  <2>1. QuicType(q)
    BY DEF EngineOK
  <2>. HIDE DEF none
  <2>2. [q EXCEPT !.readable = none] = z
    BY <2>1 DEF QuicType
  <2>. QED BY <2>2 DEF Outcome
<1>4. EngineOK(h, z) /\ DOMAIN none = {}
  <2>1. IsTable(none, Streams, Parts) /\ DOMAIN none = {}
    BY DEF none, Restrict, IsTable
  <2>. HIDE DEF none
  <2>2. QuicType(z)
    BY <2>1 DEF EngineOK, QuicType
  <2>3. z.seen = q.seen
    OBVIOUS
  <2>. HIDE DEF z
  <2>. QED BY <2>1, <2>2, <2>3 DEF EngineOK
<1>5. /\ z.readable = none /\ z.seen = q.seen /\ z.complete = q.complete
      /\ z.closed = q.closed /\ z.hello = q.hello
  OBVIOUS
<1>6. start.h3 = h /\ start.quic = z
  BY <1>3
<1>. HIDE DEF start, z, none, step
<1>7. CASE n = 0
  <2>. DEFINE f == [i \in 0..0 |-> start]
  <2>1. Is(f, n)
    BY <1>7
  <2>2. Is(F, n)
    <3>. HIDE DEF f, Is, n
    <3>. QED BY <2>1
  <2>3. F[0] = start
    <3>. HIDE DEF F, n
    <3>. QED BY <1>7, <2>2
  <2>. HIDE DEF F
  <2>. QED BY <1>1, <1>4, <1>5, <1>6, <1>7, <2>3 DEF ReadOver
<1>8. CASE n = 1 /\ DOMAIN q.readable = {ids[1]}
  <2>. DEFINE f == [i \in 0..1 |-> IF i = 0 THEN start ELSE step(start, 1)]
  <2>0. Is(f, 1)
    OBVIOUS
  <2>1. Is(f, n)
    <3>. HIDE DEF f, Is, n
    <3>. QED BY <1>8, <2>0
  <2>2. Is(F, n)
    <3>. HIDE DEF f, Is, n
    <3>. QED BY <2>1
  <2>3. F[1] = step(start, 1)
    <3>. HIDE DEF F, n
    <3>1. F[0] = start /\ F[1] = step(F[0], 1)
      BY <1>8, <2>2
    <3>. QED BY <3>1
  <2>. HIDE DEF F, ids
  <2>4. /\ ids[1] \in Streams /\ q.readable[ids[1]] \in Parts /\ z.seen[ids[1]].end # "fin"
        /\ q.readable[ids[1]].fin => ~z.seen[ids[1]].up
    BY <1>5, <1>8 DEF EngineOK, QuicType, IsTable, Arrives
  <2>5. ReadHolds(z, ReadRequest(h, z, ids[1], q.readable[ids[1]]))
    BY <1>4, <2>4, ReadRequestHolds
  <2>6. ReadHolds(z, F[1])
    BY <2>3, <2>5, <1>6 DEF step
  <2>. QED BY <1>1, <1>4, <1>5, <1>8, <2>6 DEF ReadHolds, SameOf, ReadOver
<1>. QED BY <1>2, <1>7, <1>8

----------------------------------------------------------------------------
\* What an iteration hands to the engine of a connection, and what it gets back.
ConnFed(c) ==
    /\ ConnType(c) /\ EngineOK(c.h3, c.quic) /\ AtMostOne(DOMAIN c.quic.readable)
    /\ Arrives(c.quic)
    /\ ~c.quic.complete => DOMAIN c.h3.reqs = {} /\ DOMAIN c.quic.readable = {}

\* A connection at rest has nothing to read.
LEMMA ConnOKFed ==
    ASSUME NEW c, ConnOK(c)
    PROVE  ConnFed(c)
BY DEF ConnOK, ConnFed, AtMostOne, Arrives

\* drive: afterwards every request is answered and flushed.
LEMMA DriveHolds ==
    ASSUME NEW h, NEW q, EngineOK(h, q), AtMostOne(DOMAIN q.readable),
           Arrives(q), q.complete, NEW response \in Responses
    PROVE  LET o == Drive(h, q, response)
           IN  /\ ReadOver(q, o)
               /\ \A s \in DOMAIN o.h3.reqs : o.h3.reqs[s].fin =>
                     /\ o.h3.reqs[s].delivered
                     /\ Waits(o.h3.reqs[s], o.quic.credit[s], o.quic.seen[s])
<1>. DEFINE h1 == [h EXCEPT !.started = TRUE]
            read == ReadStreams(h1, q)
            ready == {s \in DOMAIN read.h3.reqs : read.h3.reqs[s].fin /\ ~read.h3.reqs[s].delivered}
            handled == HandleRequests(read.h3, read.quic, ready, response)
            o == Flush(handled.h3, handled.quic)
<1>1. Drive(h, q, response) = o
  <2>1. Drive(h, q, response) = IF q.complete THEN o ELSE Outcome(h, q)
    BY DEF Drive
  <2>. HIDE DEF o
  <2>. QED BY <2>1
<1>2. EngineOK(h1, q)
  <2>1. h1 = [started |-> TRUE, reqs |-> h.reqs]
    BY H3Started DEF EngineOK
  <2>2. h1.reqs = h.reqs /\ h1.started = TRUE
    BY <2>1
  <2>. HIDE DEF h1
  <2>. QED BY <2>1, <2>2 DEF EngineOK, H3Type
<1>. HIDE DEF h1
<1>3. ReadOver(q, read)
  BY <1>2, ReadStreamsHolds
<1>. HIDE DEF read
<1>4. HandledHolds(read.h3, read.quic, handled)
  BY <1>3, HandleRequestsHold DEF ReadOver
<1>. HIDE DEF handled
<1>5. FlushHoldsFor(handled.h3, handled.quic, o)
  BY <1>4, FlushHolds DEF HandledHolds
<1>. HIDE DEF o
<1>6. ReadOver(q, o)
  BY <1>3, <1>4, <1>5 DEF ReadOver, HandledHolds, FlushHoldsFor, SameOf
<1>. QED BY <1>1, <1>5, <1>6 DEF FlushHoldsFor

\* service leaves the connection settled.
LEMMA ServiceHolds ==
    ASSUME NEW c, ConnFed(c), NEW response \in Responses
    PROVE  /\ ConnOK(Service(c, response)) /\ Settled(Service(c, response))
           /\ Service(c, response).quic.closed = c.quic.closed
<1>. DEFINE o == Drive(c.h3, c.quic, response)
            z == [quic |-> o.quic, h3 |-> o.h3, silent |-> c.silent, probe |-> c.probe]
<1>1. Service(c, response) = z
  <2>. DEFINE z1 == [c EXCEPT !.h3 = o.h3]
  <2>1. Service(c, response) = [z1 EXCEPT !.quic = o.quic]
    BY DEF Service, With
  <2>. HIDE DEF o
  <2>2. z1 = [quic |-> c.quic, h3 |-> o.h3, silent |-> c.silent, probe |-> c.probe]
    BY DEF ConnFed, ConnType
  <2>. HIDE DEF z1
  <2>. QED BY <2>1, <2>2
<1>2. CASE c.quic.complete
  <2>1. /\ ReadOver(c.quic, o)
        /\ \A s \in DOMAIN o.h3.reqs : o.h3.reqs[s].fin =>
              /\ o.h3.reqs[s].delivered
              /\ Waits(o.h3.reqs[s], o.quic.credit[s], o.quic.seen[s])
    BY <1>2, DriveHolds DEF ConnFed
  <2>. HIDE DEF o
  <2>2. z.quic = o.quic /\ z.h3 = o.h3 /\ ConnType(z)
    BY DEF ConnFed, ConnType
  <2>. HIDE DEF z
  <2>. QED BY <1>1, <1>2, <2>1, <2>2 DEF ConnOK, Settled, ReadOver
<1>3. CASE ~c.quic.complete
  <2>1. o = [h3 |-> c.h3, quic |-> c.quic]
    BY <1>3 DEF Drive, Outcome
  <2>. HIDE DEF o
  <2>2. z.quic = c.quic /\ z.h3 = c.h3 /\ ConnType(z)
    BY <2>1 DEF ConnFed, ConnType
  <2>. HIDE DEF z
  <2>. QED BY <1>1, <1>3, <2>2 DEF ConnFed, ConnOK, Settled
<1>. QED BY <1>2, <1>3

----------------------------------------------------------------------------
\* What a datagram does to a connection before the engine runs.
LEMMA QuicUpdates ==
    ASSUME NEW q, QuicType(q), NEW x
    PROVE  /\ [q EXCEPT !.complete = x]
                = [complete |-> x, closed |-> q.closed, hello |-> q.hello,
                   readable |-> q.readable, credit |-> q.credit, seen |-> q.seen]
           /\ [q EXCEPT !.closed = x]
                = [complete |-> q.complete, closed |-> x, hello |-> q.hello,
                   readable |-> q.readable, credit |-> q.credit, seen |-> q.seen]
           /\ [q EXCEPT !.hello = x]
                = [complete |-> q.complete, closed |-> q.closed, hello |-> x,
                   readable |-> q.readable, credit |-> q.credit, seen |-> q.seen]
           /\ [q EXCEPT !.readable = x]
                = [complete |-> q.complete, closed |-> q.closed, hello |-> q.hello,
                   readable |-> x, credit |-> q.credit, seen |-> q.seen]
           /\ [q EXCEPT !.credit = x]
                = [complete |-> q.complete, closed |-> q.closed, hello |-> q.hello,
                   readable |-> q.readable, credit |-> x, seen |-> q.seen]
BY DEF QuicType

LEMMA ConnUpdates ==
    ASSUME NEW c, ConnType(c), NEW x
    PROVE  /\ [c EXCEPT !.quic = x]
                = [quic |-> x, h3 |-> c.h3, silent |-> c.silent, probe |-> c.probe]
           /\ [c EXCEPT !.silent = x]
                = [quic |-> c.quic, h3 |-> c.h3, silent |-> x, probe |-> c.probe]
           /\ [c EXCEPT !.probe = x]
                = [quic |-> c.quic, h3 |-> c.h3, silent |-> c.silent, probe |-> x]
BY DEF ConnType

\* The fields of a datagram.
LEMMA DatagramFields ==
    ASSUME NEW dg \in Datagrams
    PROVE  /\ dg.frames \in Seq(Frames) /\ dg.fin \in BOOLEAN
           /\ dg.kind \in {"stream", "credit"} => dg.sid \in Streams
<1>1. /\ dg.sid \in Streams \cup {None} /\ dg.fin \in BOOLEAN
      /\ dg.frames = <<>> \/ \E f \in Frames : dg.frames = <<f>>
      /\ dg.sid # None <=> dg.kind \in {"credit", "stream"}
  BY DEF Datagrams
<1>2. dg.frames \in Seq(Frames)
  <2>1. CASE \E f \in Frames : dg.frames = <<f>>
    BY <2>1
  <2>2. CASE dg.frames = <<>>
    BY <2>2
  <2>. QED BY <1>1, <2>1, <2>2
<1>3. dg.kind \in {"stream", "credit"} => dg.sid \in Streams
  BY <1>1
<1>. QED BY <1>1, <1>2, <1>3

\* The engine's invariant looks at what the client has seen, and at types.
LEMMA SameSeen ==
    ASSUME NEW h, NEW q, EngineOK(h, q), NEW z, QuicType(z), z.seen = q.seen
    PROVE  EngineOK(h, z)
BY DEF EngineOK

\* A client that had more to send on a stream may end its half.
LEMMA LowerUp ==
    ASSUME NEW h, NEW q, EngineOK(h, q), NEW sid \in Streams, q.seen[sid].up, NEW z, QuicType(z),
           \A s \in Streams \ {sid} : z.seen[s] = q.seen[s],
           z.seen[sid].got = q.seen[sid].got, z.seen[sid].due = q.seen[sid].due,
           z.seen[sid].end = q.seen[sid].end
    PROVE  EngineOK(h, z) /\ z.seen[sid].end # "fin"
<1>1. /\ \A s \in DOMAIN h.reqs : StreamOwes(h.reqs[s], q.seen[s])
      /\ \A s \in Streams \ DOMAIN h.reqs : q.seen[s].end = "no" => q.seen[s].got = 0
      /\ \A s \in Streams : q.seen[s].end = "fin" => Whole(q.seen[s])
      /\ DOMAIN h.reqs \subseteq Streams /\ \A s \in DOMAIN h.reqs : h.reqs[s] \in StreamRecords
  BY ReqFields DEF EngineOK
<1>2. z.seen[sid].end # "fin"
  BY <1>1 DEF Whole
<1>3. ASSUME NEW s \in DOMAIN h.reqs PROVE StreamOwes(h.reqs[s], z.seen[s])
  <2>1. CASE s = sid
    <3>1. ~h.reqs[s].fin
      BY <1>1, <1>3, <2>1, StreamFields DEF StreamOwes
    <3>. QED BY <1>1, <1>3, <2>1, <3>1 DEF StreamOwes
  <2>2. CASE s # sid
    BY <1>1, <1>3, <2>2
  <2>. QED BY <2>1, <2>2
<1>4. ASSUME NEW s \in Streams \ DOMAIN h.reqs, z.seen[s].end = "no" PROVE z.seen[s].got = 0
  BY <1>1, <1>4
<1>5. ASSUME NEW s \in Streams, z.seen[s].end = "fin" PROVE Whole(z.seen[s])
  BY <1>1, <1>2, <1>5
<1>. QED BY <1>2, <1>3, <1>4, <1>5 DEF EngineOK

FeedKeeps(h, q, dg, z) ==
    /\ EngineOK(h, z) /\ Arrives(z)
    /\ q.complete => z.complete
    /\ DOMAIN z.readable = IF dg.kind = "stream" THEN {dg.sid} ELSE {}

\* What a datagram changes: at most one stream becomes readable or gets credit.
LEMMA FeedHolds ==
    ASSUME NEW h, NEW q, EngineOK(h, q), DOMAIN q.readable = {}, NEW dg \in Datagrams,
           dg.kind = "stream" => q.seen[dg.sid].up
    PROVE  FeedKeeps(h, q, dg, Feed(q, dg))
<1>1. QuicType(q)
  BY DEF EngineOK
<1>2. /\ dg.frames \in Seq(Frames) /\ dg.fin \in BOOLEAN
      /\ dg.kind \in {"stream", "credit"} => dg.sid \in Streams
  BY DatagramFields
<1>3. CASE dg.kind \in Hellos
  <2>. DEFINE x == q.hello \cup {dg.kind}
              z == [complete |-> q.complete, closed |-> q.closed, hello |-> x,
                    readable |-> q.readable, credit |-> q.credit, seen |-> q.seen]
  <2>0. x \subseteq Hellos
    BY <1>1, <1>3 DEF QuicType
  <2>1. Feed(q, dg) = [q EXCEPT !.hello = x] /\ x \subseteq Hellos
    BY <2>0, <1>3 DEF Feed, Hellos
  <2>. HIDE DEF x
  <2>2. Feed(q, dg) = z
    BY <1>1, <2>1, QuicUpdates
  <2>3. QuicType(z)
    BY <1>1, <2>1 DEF QuicType
  <2>4. z.seen = q.seen /\ z.complete = q.complete /\ z.readable = q.readable
    OBVIOUS
  <2>. HIDE DEF z
  <2>. QED BY <1>3, <2>2, <2>3, <2>4, SameSeen DEF FeedKeeps, Arrives, Hellos
<1>4. CASE dg.kind = "finished"
  <2>. DEFINE x == q.complete \/ q.hello = Hellos
              z == [complete |-> x, closed |-> q.closed, hello |-> q.hello,
                    readable |-> q.readable, credit |-> q.credit, seen |-> q.seen]
  <2>1. Feed(q, dg) = [q EXCEPT !.complete = x]
    BY <1>4 DEF Feed, Hellos
  <2>2. x \in BOOLEAN /\ (q.complete => x)
    OBVIOUS
  <2>. HIDE DEF x
  <2>3. Feed(q, dg) = z
    BY <1>1, <2>1, QuicUpdates
  <2>4. QuicType(z)
    BY <1>1, <2>2 DEF QuicType
  <2>5. z.seen = q.seen /\ z.complete = x /\ z.readable = q.readable
    OBVIOUS
  <2>. HIDE DEF z
  <2>. QED BY <1>4, <2>2, <2>3, <2>4, <2>5, SameSeen DEF FeedKeeps, Arrives
<1>5. CASE dg.kind = "stream"
  <2>. DEFINE sid == dg.sid
              was == q.seen[sid]
              up == dg.frames # <<>> /\ ~dg.fin
              x == Put(q.readable, sid, [frames |-> dg.frames, fin |-> dg.fin])
              n == [got |-> was.got, due |-> was.due, end |-> was.end, up |-> up, cut |-> was.cut]
              seen == [q.seen EXCEPT ![sid] = n]
              z == [complete |-> q.complete, closed |-> q.closed, hello |-> q.hello,
                    readable |-> x, credit |-> q.credit, seen |-> seen]
  <2>1. was \in SeenRecords /\ was.up /\ sid \in Streams /\ up \in BOOLEAN /\ (dg.fin => ~up)
    BY <1>1, <1>2, <1>5 DEF QuicType
  <2>2. /\ DOMAIN x = {sid} /\ IsTable(x, Streams, Parts) /\ x[sid].fin = dg.fin
    BY <1>2, <1>5 DEF Put, IsTable, Parts
  <2>3. Feed(q, dg) = [q EXCEPT !.readable = x, !.seen[sid].up = up]
    BY <1>5 DEF Feed, Hellos
  <2>. HIDE DEF x, up
  <2>4. n = [was EXCEPT !.up = up]
    <3>. HIDE DEF was
    <3>. QED BY <2>1, SeenFields
  <2>5. n \in SeenRecords /\ n.got = was.got /\ n.due = was.due /\ n.end = was.end /\ n.up = up
    <3>. HIDE DEF was
    <3>. QED BY <2>1, SeenFields DEF SeenRecords
  <2>6. Feed(q, dg) = z
    <3>. DEFINE q1 == [complete |-> q.complete, closed |-> q.closed, hello |-> q.hello,
                       readable |-> x, credit |-> q.credit, seen |-> q.seen]
    <3>1. [q EXCEPT !.readable = x] = q1
      BY <1>1, QuicUpdates
    <3>2. Feed(q, dg) = [[q EXCEPT !.readable = x] EXCEPT !.seen[sid].up = up]
      BY <2>3
    <3>3. Feed(q, dg) = [q1 EXCEPT !.seen[sid].up = up]
      BY <3>1, <3>2
    <3>4. Feed(q, dg) = [q1 EXCEPT !.seen = seen]
      BY <2>4, <3>3
    <3>. HIDE DEF seen
    <3>. QED BY <3>4
  <2>. HIDE DEF n
  <2>7. /\ seen \in [Streams -> SeenRecords] /\ seen[sid] = n
        /\ \A s \in Streams \ {sid} : seen[s] = q.seen[s]
    BY <1>1, <2>1, <2>5 DEF QuicType
  <2>. HIDE DEF seen
  <2>8. QuicType(z)
    BY <1>1, <2>2, <2>7 DEF QuicType
  <2>9. z.seen = seen /\ z.complete = q.complete /\ z.readable = x
    OBVIOUS
  <2>. HIDE DEF z
  <2>10. EngineOK(h, z) /\ z.seen[sid].end # "fin"
    BY <2>1, <2>5, <2>7, <2>8, <2>9, LowerUp
  <2>11. Arrives(z)
    BY <2>1, <2>2, <2>5, <2>7, <2>9, <2>10 DEF Arrives
  <2>. QED BY <1>5, <2>2, <2>6, <2>9, <2>10, <2>11 DEF FeedKeeps
<1>6. CASE dg.kind = "credit"
  <2>. DEFINE x == [q.credit EXCEPT ![dg.sid] = @ + 1]
              z == [complete |-> q.complete, closed |-> q.closed, hello |-> q.hello,
                    readable |-> q.readable, credit |-> x, seen |-> q.seen]
  <2>1. Feed(q, dg) = [q EXCEPT !.credit = x]
    BY <1>6 DEF Feed, Hellos
  <2>2. x \in [Streams -> Nat]
    BY <1>1, <1>2, <1>6 DEF QuicType
  <2>. HIDE DEF x
  <2>3. Feed(q, dg) = z
    BY <1>1, <2>1, QuicUpdates
  <2>4. QuicType(z)
    BY <1>1, <2>2 DEF QuicType
  <2>5. z.seen = q.seen /\ z.complete = q.complete /\ z.readable = q.readable
    OBVIOUS
  <2>. HIDE DEF z
  <2>. QED BY <1>6, <2>2, <2>3, <2>4, <2>5, SameSeen DEF FeedKeeps, Arrives
<1>7. CASE dg.kind = "close"
  <2>. DEFINE x == TRUE
              z == [complete |-> q.complete, closed |-> x, hello |-> q.hello,
                    readable |-> q.readable, credit |-> q.credit, seen |-> q.seen]
  <2>1. Feed(q, dg) = [q EXCEPT !.closed = x] /\ x \in BOOLEAN
    BY <1>7 DEF Feed, Hellos
  <2>. HIDE DEF x
  <2>2. Feed(q, dg) = z
    BY <1>1, <2>1, QuicUpdates
  <2>3. QuicType(z)
    BY <1>1, <2>1 DEF QuicType
  <2>4. z.seen = q.seen /\ z.complete = q.complete /\ z.readable = q.readable
    OBVIOUS
  <2>. HIDE DEF z
  <2>. QED BY <1>7, <2>2, <2>3, <2>4, SameSeen DEF FeedKeeps, Arrives
<1>8. CASE dg.kind \notin Hellos /\ dg.kind \notin {"finished", "stream", "credit", "close"}
  <2>1. Feed(q, dg) = q
    BY <1>8 DEF Feed
  <2>. QED BY <1>8, <2>1 DEF FeedKeeps, Arrives
<1>. QED BY <1>3, <1>4, <1>5, <1>6, <1>7, <1>8

\* The probe for the server name leaves the connection alone.
LEMMA ProbeSniHolds ==
    ASSUME NEW c, ConnType(c), NEW dg \in Datagrams
    PROVE  LET z == ProbeSni(c, dg)
           IN  ConnType(z) /\ z.quic = c.quic /\ z.h3 = c.h3 /\ z.silent = c.silent
<1>1. ProbeSni(c, dg) = c \/ \E x \in Seq(Datagrams) \cup {None} :
        ProbeSni(c, dg) = [c EXCEPT !.probe = x]
  <2>1. c.probe # None => Append(c.probe, dg) \in Seq(Datagrams)
    BY DEF ConnType
  <2>. QED BY <2>1 DEF ProbeSni
<1>2. ASSUME NEW x \in Seq(Datagrams) \cup {None}, ProbeSni(c, dg) = [c EXCEPT !.probe = x]
      PROVE  /\ ConnType(ProbeSni(c, dg)) /\ ProbeSni(c, dg).quic = c.quic
             /\ ProbeSni(c, dg).h3 = c.h3 /\ ProbeSni(c, dg).silent = c.silent
  <2>. DEFINE z == [quic |-> c.quic, h3 |-> c.h3, silent |-> c.silent, probe |-> x]
  <2>1. ProbeSni(c, dg) = z
    BY <1>2, ConnUpdates
  <2>2. ConnType(z)
    BY DEF ConnType
  <2>. QED BY <2>1, <2>2
<1>. QED BY <1>1, <1>2

----------------------------------------------------------------------------
\* A datagram of a peer that has a connection.
LEMMA KnownHolds ==
    ASSUME NEW c, ConnOK(c), NEW dg \in Datagrams, NEW response \in Responses,
           dg.kind = "stream" => c.quic.complete /\ c.quic.seen[dg.sid].up
    PROVE  ConnOK(Service(Fed(c, dg), response)) /\ Settled(Service(Fed(c, dg), response))
<1>. DEFINE probed == ProbeSni(c, dg)
            fed == [probed EXCEPT !.quic = Feed(@, dg), !.silent = 0]
            q == Feed(c.quic, dg)
            z == [quic |-> q, h3 |-> c.h3, silent |-> 0, probe |-> probed.probe]
<1>1. /\ ConnType(probed) /\ probed.quic = c.quic /\ probed.h3 = c.h3
  BY ProbeSniHolds DEF ConnOK
<1>2. FeedKeeps(c.h3, c.quic, dg, q)
  BY FeedHolds DEF ConnOK
<1>. HIDE DEF probed, q
<1>3. fed = z
  <2>. DEFINE f1 == [probed EXCEPT !.quic = q]
  <2>0. Feed(probed.quic, dg) = q
    BY <1>1 DEF q
  <2>1. fed = [f1 EXCEPT !.silent = 0]
    <3>1. fed = [[probed EXCEPT !.quic = Feed(probed.quic, dg)] EXCEPT !.silent = 0]
      OBVIOUS
    <3>. QED BY <2>0, <3>1
  <2>2. f1 = [quic |-> q, h3 |-> c.h3, silent |-> probed.silent, probe |-> probed.probe]
    <3>1. \A x : [probed EXCEPT !.quic = x] = [quic |-> x, h3 |-> probed.h3,
                      silent |-> probed.silent, probe |-> probed.probe]
      BY <1>1, ConnUpdates
    <3>. QED BY <1>1, <3>1
  <2>. HIDE DEF f1
  <2>. QED BY <2>1, <2>2
<1>4. ConnFed(z)
  <2>1. z.quic = q /\ z.h3 = c.h3 /\ z.silent = 0 /\ z.probe = probed.probe
    OBVIOUS
  <2>2. ConnType(z)
    BY <1>1 DEF ConnType
  <2>. HIDE DEF z
  <2>3. c.quic.complete \in BOOLEAN /\ q.complete \in BOOLEAN
    BY <1>2 DEF ConnOK, EngineOK, QuicType, FeedKeeps
  <2>4. ~q.complete => DOMAIN c.h3.reqs = {} /\ DOMAIN q.readable = {}
    BY <1>2, <2>3 DEF FeedKeeps, ConnOK
  <2>. QED BY <1>2, <2>1, <2>2, <2>4 DEF ConnFed, FeedKeeps, AtMostOne
<1>. HIDE DEF z
<1>5. Fed(c, dg) = fed
  BY DEF Fed, probed
<1>. HIDE DEF fed
<1>6. ConnOK(Service(fed, response)) /\ Settled(Service(fed, response))
  BY <1>3, <1>4, ServiceHolds
<1>. QED BY <1>5, <1>6

----------------------------------------------------------------------------
\* A new connection is fed the datagrams that were held.
LEMMA FedAllUnfolds ==
    ASSUME NEW held, NEW n \in Nat, n = Len(held)
    PROVE  \E f : /\ f = [i \in 0..n |-> IF i = 0 THEN NewQuic ELSE Feed(f[i - 1], held[i])]
                  /\ FedAll(held) = f[n]
<1>. DEFINE Is(f, m) == f = [i \in 0..m |-> IF i = 0 THEN NewQuic ELSE Feed(f[i - 1], held[i])]
            T == {m \in Nat : \E f : Is(f, m)}
<1>1. 0 \in T
  <2>. Is([i \in 0..0 |-> NewQuic], 0)
    OBVIOUS
  <2>. QED OBVIOUS
<1>2. ASSUME NEW m \in Nat, m \in T PROVE m + 1 \in T
  <2>1. PICK f : Is(f, m)
    BY <1>2
  <2>. DEFINE g == [i \in 0..m + 1 |-> IF i <= m THEN f[i] ELSE Feed(f[m], held[m + 1])]
  <2>2. ASSUME NEW i \in 0..m + 1 PROVE g[i] = IF i = 0 THEN NewQuic ELSE Feed(g[i - 1], held[i])
    BY <2>1
  <2>3. Is(g, m + 1)
    BY <2>2
  <2>4. \E h : Is(h, m + 1)
    <3>. HIDE DEF Is, g
    <3>. QED BY <2>3
  <2>. QED BY <2>4
<1>3. n \in T
  <2>. HIDE DEF T
  <2>. QED BY <1>1, <1>2, SetInduction
<1>. DEFINE F == CHOOSE f : Is(f, n)
<1>4. Is(F, n)
  BY <1>3
<1>5. FedAll(held) = F[n]
  BY DEF FedAll
<1>. QED BY <1>4, <1>5

NewQuicHolds(q) == EngineOK(NewH3, q) /\ DOMAIN q.readable = {}

\* A new connection owes nothing.
LEMMA NewHolds == NewQuicHolds(NewQuic)
<1>1. QuicType(NewQuic) /\ DOMAIN NewQuic.readable = {}
  BY DEF NewQuic, QuicType, IsTable, SeenRecords
<1>2. H3Type(NewH3) /\ DOMAIN NewH3.reqs = {}
  BY DEF NewH3, H3Type, IsTable
<1>3. \A s \in Streams : NewQuic.seen[s] = [got |-> 0, due |-> 0, end |-> "no",
                                         up |-> TRUE, cut |-> FALSE]
  BY DEF NewQuic
<1>4. IsFiniteSet({}) /\ Cardinality({}) <= MAX_REQ_STREAMS
  BY FS_EmptySet, H3Assumption
<1>. QED BY <1>1, <1>2, <1>3, <1>4 DEF NewQuicHolds, EngineOK

\* A connection that is fed the datagrams of a ClientHello owes nothing.
LEMMA FedAllHolds ==
    ASSUME NEW held \in Seq(Datagrams),
           \A i \in 1..Len(held) : held[i].kind \notin {"stream", "credit"}
    PROVE  NewQuicHolds(FedAll(held))
<1>. DEFINE n == Len(held)
<1>1. n \in Nat /\ \A i \in 1..n : held[i] \in Datagrams
  OBVIOUS
<1>. HIDE DEF n
<1>2. PICK f : /\ f = [i \in 0..n |-> IF i = 0 THEN NewQuic ELSE Feed(f[i - 1], held[i])]
               /\ FedAll(held) = f[n]
  BY <1>1, FedAllUnfolds DEF n
<1>3. f[0] = NewQuic /\ \A i \in Nat : i + 1 <= n => f[i + 1] = Feed(f[i], held[i + 1])
  <2>1. ASSUME NEW i \in Nat, i + 1 <= n PROVE f[i + 1] = Feed(f[i], held[i + 1])
    <3>1. i + 1 \in 0..n /\ i + 1 # 0 /\ (i + 1) - 1 = i
      BY <2>1, <1>1
    <3>. QED BY <1>2, <3>1
  <2>2. f[0] = NewQuic
    <3>1. 0 \in 0..n
      BY <1>1
    <3>. QED BY <1>2, <3>1
  <2>. QED BY <2>1, <2>2
<1>. DEFINE T == {i \in Nat : i <= n => NewQuicHolds(f[i])}
<1>4. 0 \in T
  BY <1>3, NewHolds
<1>5. ASSUME NEW i \in Nat, i \in T PROVE i + 1 \in T
  <2>. SUFFICES ASSUME i + 1 <= n PROVE NewQuicHolds(f[i + 1])
    OBVIOUS
  <2>1. /\ NewQuicHolds(f[i]) /\ f[i + 1] = Feed(f[i], held[i + 1])
        /\ held[i + 1] \in Datagrams /\ held[i + 1].kind # "stream"
    BY <1>1, <1>3, <1>5 DEF n
  <2>2. FeedKeeps(NewH3, f[i], held[i + 1], f[i + 1])
    BY <2>1, FeedHolds DEF NewQuicHolds
  <2>. QED BY <2>1, <2>2 DEF FeedKeeps, NewQuicHolds
<1>6. Nat \subseteq T
  <2>. HIDE DEF T
  <2>. QED BY <1>4, <1>5, SetInduction
<1>. QED BY <1>1, <1>2, <1>6

\* A connection just inserted is in order.
LEMMA NewConnHolds ==
    ASSUME NEW q, NewQuicHolds(q), NEW probe \in Seq(Datagrams) \cup {None}
    PROVE  LET c == [NewConn(probe) EXCEPT !.quic = q] IN ConnOK(c) /\ Settled(c)
<1>. DEFINE c == [quic |-> q, h3 |-> NewH3, silent |-> 0, probe |-> probe]
<1>1. [NewConn(probe) EXCEPT !.quic = q] = c
  BY DEF NewConn
<1>2. c.quic = q /\ c.h3 = NewH3 /\ ConnType(c) /\ DOMAIN NewH3.reqs = {}
  BY DEF ConnType, NewH3
<1>. HIDE DEF c
<1>3. ConnOK(c) /\ Settled(c)
  BY <1>2 DEF ConnOK, Settled, NewQuicHolds
<1>. QED BY <1>1, <1>3

----------------------------------------------------------------------------
\* A connection that is settled is settled whether the listener was woken or not, and
\* one that no producer can wake is settled.
LEMMA SettledHolds ==
    ASSUME NEW c, NEW woken
    PROVE  /\ Settled(c) => SettledIf(c, woken)
           /\ SettledIf(c, woken) /\ (woken => ~IsStreaming(c.h3)) => Settled(c)
BY DEF Settled, SettledIf, IsStreaming

\* The tables.
LEMMA PutConn ==
    ASSUME NEW f, NEW woken, ConnsOK(f, woken), NEW c, ConnOK(c), Settled(c), NEW p,
           p \in DOMAIN f \/ Cardinality(DOMAIN f) < MAX_CONNS
    PROVE  ConnsOK(Put(f, p, c), woken) /\ DOMAIN Put(f, p, c) = DOMAIN f \cup {p}
<1>. DEFINE g == Put(f, p, c)
            D == DOMAIN f
<1>1. /\ g = [x \in DOMAIN g |-> g[x]] /\ DOMAIN g = D \cup {p} /\ g[p] = c
      /\ \A x \in D \ {p} : g[x] = f[x]
  BY DEF Put
<1>2. IsFiniteSet(D \cup {p}) /\ Cardinality(D \cup {p}) <= MAX_CONNS
  <2>1. IsFiniteSet(D) /\ Cardinality(D) <= MAX_CONNS /\ Cardinality(D) \in Nat
    BY FS_CardinalityType DEF ConnsOK
  <2>. HIDE DEF D
  <2>2. IsFiniteSet(D \cup {p})
        /\ Cardinality(D \cup {p}) = IF p \in D THEN Cardinality(D) ELSE Cardinality(D) + 1
    BY <2>1, FS_AddElement
  <2>. QED BY <2>1, <2>2, QuicAssumption DEF D
<1>. HIDE DEF g
<1>3. ASSUME NEW x \in DOMAIN g
      PROVE  ConnOK(g[x]) /\ SettledIf(g[x], woken)
  <2>1. CASE x = p
    BY <1>1, <2>1, SettledHolds
  <2>2. CASE x # p
    <3>1. x \in D /\ g[x] = f[x]
      BY <1>1, <2>2
    <3>. QED BY <3>1 DEF ConnsOK
  <2>. QED BY <2>1, <2>2
<1>. QED BY <1>1, <1>2, <1>3 DEF ConnsOK, g

\* Connections that are dropped do not disturb the others.
LEMMA RestrictConns ==
    ASSUME NEW f, NEW woken, ConnsOK(f, woken), NEW S \in SUBSET DOMAIN f
    PROVE  ConnsOK(Restrict(f, S), woken) /\ DOMAIN Restrict(f, S) = S
<1>. DEFINE g == Restrict(f, S)
<1>1. g = [x \in DOMAIN g |-> g[x]] /\ DOMAIN g = S /\ \A x \in S : g[x] = f[x]
  BY DEF Restrict
<1>2. IsFiniteSet(S) /\ Cardinality(S) <= MAX_CONNS
  <2>1. IsFiniteSet(DOMAIN f) /\ Cardinality(DOMAIN f) <= MAX_CONNS
    BY DEF ConnsOK
  <2>2. IsFiniteSet(S) /\ Cardinality(S) <= Cardinality(DOMAIN f)
    BY <2>1, FS_Subset
  <2>. QED BY <2>1, <2>2, FS_CardinalityType, QuicAssumption
<1>. HIDE DEF g
<1>3. ConnsOK(g, woken)
  BY <1>1, <1>2 DEF ConnsOK
<1>. QED BY <1>1, <1>3 DEF g

\* The same for held Initials.
LEMMA RestrictPending ==
    ASSUME NEW f, PendingOK(f), NEW S \in SUBSET DOMAIN f
    PROVE  PendingOK(Restrict(f, S)) /\ DOMAIN Restrict(f, S) = S
<1>. DEFINE g == Restrict(f, S)
<1>1. g = [x \in DOMAIN g |-> g[x]] /\ DOMAIN g = S /\ \A x \in S : g[x] = f[x]
  BY DEF Restrict
<1>2. IsFiniteSet(S) /\ Cardinality(S) <= MAX_PENDING_INITIALS
  <2>1. IsFiniteSet(DOMAIN f) /\ Cardinality(DOMAIN f) <= MAX_PENDING_INITIALS
    BY DEF PendingOK
  <2>2. IsFiniteSet(S) /\ Cardinality(S) <= Cardinality(DOMAIN f)
    BY <2>1, FS_Subset
  <2>. QED BY <2>1, <2>2, FS_CardinalityType, QuicAssumption
<1>. HIDE DEF g
<1>3. PendingOK(g)
  BY <1>1, <1>2 DEF PendingOK
<1>. QED BY <1>1, <1>3 DEF g

\* A held Initial fits the table it is put into.
LEMMA PutPending ==
    ASSUME NEW f, PendingOK(f), NEW p, Cardinality(DOMAIN f) < MAX_PENDING_INITIALS,
           NEW held \in Seq(Datagrams), Len(held) <= SNI_PROBE_MAX, Peek(held) = "more"
    PROVE  LET g == Put(f, p, [waited |-> 0, datagrams |-> held])
           IN  PendingOK(g) /\ DOMAIN g = DOMAIN f \cup {p}
<1>. DEFINE g == Put(f, p, [waited |-> 0, datagrams |-> held])
            D == DOMAIN f
<1>1. /\ g = [x \in DOMAIN g |-> g[x]] /\ DOMAIN g = D \cup {p}
      /\ g[p] = [waited |-> 0, datagrams |-> held]
      /\ \A x \in D \ {p} : g[x] = f[x]
  BY DEF Put
<1>2. IsFiniteSet(D \cup {p}) /\ Cardinality(D \cup {p}) <= MAX_PENDING_INITIALS
  <2>1. IsFiniteSet(D) /\ Cardinality(D) < MAX_PENDING_INITIALS /\ Cardinality(D) \in Nat
    BY FS_CardinalityType DEF PendingOK
  <2>. HIDE DEF D
  <2>2. IsFiniteSet(D \cup {p})
        /\ Cardinality(D \cup {p}) = IF p \in D THEN Cardinality(D) ELSE Cardinality(D) + 1
    BY <2>1, FS_AddElement
  <2>. QED BY <2>1, <2>2, QuicAssumption
<1>. HIDE DEF g
<1>3. ASSUME NEW x \in DOMAIN g
      PROVE  /\ g[x] \in [waited : Nat, datagrams : Seq(Datagrams)]
             /\ Len(g[x].datagrams) <= SNI_PROBE_MAX /\ Peek(g[x].datagrams) = "more"
  <2>1. CASE x = p
    BY <1>1, <2>1
  <2>2. CASE x # p
    <3>1. x \in D /\ g[x] = f[x]
      BY <1>1, <2>2
    <3>. QED BY <3>1 DEF PendingOK
  <2>. QED BY <2>1, <2>2
<1>. QED BY <1>1, <1>2, <1>3 DEF PendingOK, g

\* A tables record, with one table replaced.
LEMMA TablesUpdates ==
    ASSUME NEW t, NEW woken, TablesOK(t, woken), NEW x
    PROVE  /\ [t EXCEPT !.conns = x] = [conns |-> x, pending |-> t.pending, evicted |-> t.evicted]
           /\ [t EXCEPT !.pending = x] = [conns |-> t.conns, pending |-> x, evicted |-> t.evicted]
BY DEF TablesOK

\* The table of connections and that of held Initials keep apart.
LEMMA WithConns ==
    ASSUME NEW t, NEW woken, NEW w2, TablesOK(t, woken), NEW f, ConnsOK(f, w2),
           DOMAIN f \cap DOMAIN t.pending = {}
    PROVE  TablesOK([t EXCEPT !.conns = f], w2)
<1>. DEFINE z == [conns |-> f, pending |-> t.pending, evicted |-> t.evicted]
<1>1. [t EXCEPT !.conns = f] = z
  BY TablesUpdates
<1>2. z.conns = f /\ z.pending = t.pending /\ z.evicted = t.evicted
  OBVIOUS
<1>3. TablesOK(z, w2)
  BY <1>2 DEF TablesOK
<1>. QED BY <1>1, <1>3

\* The same, for a new table of held Initials.
LEMMA WithPending ==
    ASSUME NEW t, NEW woken, TablesOK(t, woken), NEW f, PendingOK(f),
           DOMAIN t.conns \cap DOMAIN f = {}
    PROVE  TablesOK([t EXCEPT !.pending = f], woken) /\ [t EXCEPT !.pending = f].conns = t.conns
           /\ [t EXCEPT !.pending = f].pending = f
<1>. DEFINE z == [conns |-> t.conns, pending |-> f, evicted |-> t.evicted]
<1>1. [t EXCEPT !.pending = f] = z
  BY TablesUpdates
<1>2. z.conns = t.conns /\ z.pending = f /\ z.evicted = t.evicted
  OBVIOUS
<1>3. TablesOK(z, woken)
  BY <1>2 DEF TablesOK
<1>. QED BY <1>1, <1>2, <1>3

----------------------------------------------------------------------------
\* What a datagram does to the tables.
LEMMA FromKnownHolds ==
    ASSUME NEW t, NEW woken, TablesOK(t, woken), NEW p \in DOMAIN t.conns,
           NEW dg \in Datagrams, NEW response \in Responses,
           dg.kind = "stream" => /\ t.conns[p].quic.complete
                                 /\ t.conns[p].quic.seen[dg.sid].up,
           NEW u \in FromKnown(t, p, dg, response)
    PROVE  TablesOK(u, woken)
<1>. DEFINE c == Service(Fed(t.conns[p], dg), response)
<1>1. ConnsOK(t.conns, woken) /\ ConnOK(t.conns[p]) /\ DOMAIN t.conns \cap DOMAIN t.pending = {}
  BY DEF TablesOK, ConnsOK
<1>. DEFINE f == WithoutPeer(t.conns, p)
            g == Put(t.conns, p, c)
<1>2. \/ u = [t EXCEPT !.conns = f]
      \/ u = [t EXCEPT !.conns = g]
  BY DEF FromKnown
<1>3. ConnOK(c) /\ Settled(c)
  BY <1>1, KnownHolds
<1>. HIDE DEF c
<1>4. ConnsOK(f, woken) /\ DOMAIN f \subseteq DOMAIN t.conns
  <2>1. DOMAIN t.conns \ {p} \in SUBSET DOMAIN t.conns
    OBVIOUS
  <2>. QED BY <1>1, <2>1, RestrictConns DEF WithoutPeer
<1>5. ConnsOK(g, woken) /\ DOMAIN g \subseteq DOMAIN t.conns
  BY <1>1, <1>3, PutConn
<1>. HIDE DEF f, g
<1>6. DOMAIN f \cap DOMAIN t.pending = {} /\ DOMAIN g \cap DOMAIN t.pending = {}
  BY <1>1, <1>4, <1>5
<1>. QED BY <1>2, <1>4, <1>5, <1>6, WithConns

\* An eviction makes room for one connection.
LEMMA MakeRoomHolds ==
    ASSUME NEW t, NEW woken, TablesOK(t, woken), NEW u \in MakeRoom(t)
    PROVE  /\ TablesOK(u, woken) /\ Cardinality(DOMAIN u.conns) < MAX_CONNS
           /\ DOMAIN u.conns \subseteq DOMAIN t.conns /\ u.pending = t.pending
<1>1. CASE Cardinality(DOMAIN t.conns) < MAX_CONNS
  BY <1>1 DEF MakeRoom
<1>2. CASE ~(Cardinality(DOMAIN t.conns) < MAX_CONNS)
  <2>1. PICK p \in Victims(t) : u = Evict(t, p)
    BY <1>2 DEF MakeRoom
  <2>2. p \in DOMAIN t.conns
    BY <2>1 DEF Victims, Silent
  <2>. DEFINE f == WithoutPeer(t.conns, p)
              e == t.evicted \/ (t.conns[p].quic.complete /\ ~t.conns[p].quic.closed)
              D == DOMAIN t.conns
  <2>3. ConnsOK(f, woken) /\ DOMAIN f = D \ {p}
    BY RestrictConns DEF TablesOK, WithoutPeer
  <2>4. u = [conns |-> f, pending |-> t.pending, evicted |-> e]
    <3>. DEFINE v == [t EXCEPT !.conns = f]
    <3>1. v = [conns |-> f, pending |-> t.pending, evicted |-> t.evicted]
      BY TablesUpdates
    <3>2. u = [v EXCEPT !.evicted = e]
      BY <2>1 DEF Evict
    <3>. HIDE DEF v, f, e
    <3>. QED BY <3>1, <3>2
  <2>. HIDE DEF f, e
  <2>5. u.conns = f /\ u.pending = t.pending /\ u.evicted = e
    BY <2>4
  <2>6. Cardinality(D \ {p}) < MAX_CONNS
    <3>1. IsFiniteSet(D) /\ Cardinality(D) <= MAX_CONNS /\ p \in D
      BY <2>2 DEF TablesOK, ConnsOK
    <3>. HIDE DEF D
    <3>2. Cardinality(D) \in Nat /\ Cardinality(D \ {p}) = Cardinality(D) - 1
      BY <3>1, FS_RemoveElement, FS_CardinalityType
    <3>. QED BY <3>1, <3>2, QuicAssumption
  <2>7. TablesOK(u, woken)
    BY <2>3, <2>4, <2>5 DEF TablesOK
  <2>. QED BY <2>3, <2>5, <2>6, <2>7
<1>. QED BY <1>1, <1>2

\* Bytes and credit come to a connection only.
Openings == {s \in Seq(Datagrams) : \A i \in 1..Len(s) : s[i].kind \notin {"stream", "credit"}}

\* A new connection takes the room that was made.
LEMMA InsertHolds ==
    ASSUME NEW t, NEW woken, TablesOK(t, woken), Cardinality(DOMAIN t.conns) < MAX_CONNS,
           NEW p, p \notin DOMAIN t.pending, NEW held \in Openings,
           NEW u \in Insert(t, p, held)
    PROVE  TablesOK(u, woken)
<1>. DEFINE probe == IF Peek(held) = "name" THEN None ELSE held
            q == FedAll(held)
            c == [NewConn(probe) EXCEPT !.quic = q]
            f == Put(t.conns, p, c)
<1>1. u = t \/ u = [t EXCEPT !.conns = f]
  BY DEF Insert
<1>2. ConnOK(c) /\ Settled(c)
  <2>1. NewQuicHolds(q) /\ probe \in Seq(Datagrams) \cup {None}
    BY FedAllHolds DEF Openings
  <2>. HIDE DEF q, probe
  <2>. QED BY <2>1, NewConnHolds
<1>. HIDE DEF c
<1>3. ConnsOK(f, woken) /\ DOMAIN f = DOMAIN t.conns \cup {p}
  BY <1>2, PutConn DEF TablesOK
<1>. HIDE DEF f
<1>4. TablesOK([t EXCEPT !.conns = f], woken)
  <2>1. DOMAIN f \cap DOMAIN t.pending = {}
    BY <1>3 DEF TablesOK
  <2>. QED BY <1>3, <2>1, WithConns
<1>. QED BY <1>1, <1>4

\* An Initial is held in the place of the oldest when the table is full.
LEMMA HoldInitialHolds ==
    ASSUME NEW t, NEW woken, TablesOK(t, woken), NEW p, p \notin DOMAIN t.conns,
           NEW held \in Seq(Datagrams), Len(held) <= SNI_PROBE_MAX, Peek(held) = "more",
           NEW u \in HoldInitial(t, p, held)
    PROVE  TablesOK(u, woken)
<1>. DEFINE D == DOMAIN t.pending
            oldest == {q \in D : \A r \in D : t.pending[q].waited >= t.pending[r].waited}
            room == IF Cardinality(D) >= MAX_PENDING_INITIALS
                    THEN {WithoutPeer(t.pending, q) : q \in oldest} ELSE {t.pending}
<1>1. PICK f \in room : u = [t EXCEPT !.pending = Put(f, p, [waited |-> 0, datagrams |-> held])]
  BY DEF HoldInitial
<1>2. PendingOK(t.pending) /\ DOMAIN t.conns \cap D = {}
  BY DEF TablesOK
<1>3. IsFiniteSet(D) /\ Cardinality(D) \in Nat /\ Cardinality(D) <= MAX_PENDING_INITIALS
  BY <1>2, FS_CardinalityType DEF PendingOK
<1>4. PendingOK(f) /\ Cardinality(DOMAIN f) < MAX_PENDING_INITIALS /\ DOMAIN f \subseteq D
  <2>1. CASE Cardinality(D) >= MAX_PENDING_INITIALS
    <3>1. PICK q \in D : f = WithoutPeer(t.pending, q)
      BY <1>1, <2>1
    <3>2. D \ {q} \in SUBSET D
      OBVIOUS
    <3>3. PendingOK(f) /\ DOMAIN f = D \ {q}
      BY <1>2, <3>1, <3>2, RestrictPending DEF WithoutPeer
    <3>. HIDE DEF D
    <3>4. Cardinality(D \ {q}) = Cardinality(D) - 1
      BY <1>3, FS_RemoveElement
    <3>. QED BY <1>3, <3>3, <3>4, QuicAssumption
  <2>2. CASE ~(Cardinality(D) >= MAX_PENDING_INITIALS)
    <3>1. f = t.pending
      BY <1>1, <2>2
    <3>. QED BY <1>2, <1>3, <2>2, <3>1, QuicAssumption
  <2>. QED BY <2>1, <2>2
<1>. DEFINE g == Put(f, p, [waited |-> 0, datagrams |-> held])
<1>5. PendingOK(g) /\ DOMAIN g = DOMAIN f \cup {p}
  BY <1>4, PutPending
<1>6. u = [t EXCEPT !.pending = g]
  BY <1>1
<1>. HIDE DEF g
<1>7. DOMAIN t.conns \cap DOMAIN g = {}
  BY <1>2, <1>4, <1>5
<1>. QED BY <1>5, <1>6, <1>7, WithPending

\* What is held of a peer that has no connection.
HeldOf(t, p, dg) ==
    LET before == IF p \in DOMAIN t.pending THEN t.pending[p].datagrams ELSE <<>>
        all == Append(before, dg)
    IN  IF Len(all) > SNI_PROBE_MAX THEN Tail(all) ELSE all

\* The datagrams of a ClientHello, with the one that has just come.
LEMMA HeldHolds ==
    ASSUME NEW t, NEW woken, TablesOK(t, woken), NEW p, NEW dg \in Datagrams,
           dg.kind \notin {"stream", "credit"}
    PROVE  HeldOf(t, p, dg) \in Openings /\ Len(HeldOf(t, p, dg)) <= SNI_PROBE_MAX
<1>. DEFINE before == IF p \in DOMAIN t.pending THEN t.pending[p].datagrams ELSE <<>>
            all == Append(before, dg)
<1>1. /\ before \in Seq(Datagrams) /\ Len(before) <= SNI_PROBE_MAX
      /\ \A i \in 1..Len(before) : before[i].kind \in Hellos
  <2>1. CASE p \in DOMAIN t.pending
    <3>1. /\ before \in Seq(Datagrams) /\ Len(before) <= SNI_PROBE_MAX /\ Peek(before) = "more"
      BY <2>1 DEF TablesOK, PendingOK
    <3>. HIDE DEF before
    <3>2. ~\E i \in DOMAIN before : before[i].kind \notin Hellos
      BY <3>1 DEF Peek
    <3>. QED BY <3>1, <3>2
  <2>2. CASE p \notin DOMAIN t.pending
    BY <2>2, QuicAssumption
  <2>. QED BY <2>1, <2>2
<1>2. HeldOf(t, p, dg) = IF Len(all) > SNI_PROBE_MAX THEN Tail(all) ELSE all
  BY DEF HeldOf
<1>. HIDE DEF before
<1>3. all \in Openings /\ Len(all) <= SNI_PROBE_MAX + 1
  <2>1. \A i \in 1..Len(before) : before[i].kind \notin {"stream", "credit"}
    BY <1>1 DEF Hellos
  <2>2. Len(before) \in Nat /\ SNI_PROBE_MAX \in Nat
    BY <1>1, QuicAssumption
  <2>3. /\ all \in Seq(Datagrams) /\ Len(all) = Len(before) + 1
        /\ \A i \in 1..Len(before) : all[i] = before[i]
        /\ all[Len(before) + 1] = dg
    BY <1>1
  <2>. HIDE DEF all
  <2>4. ASSUME NEW i \in 1..Len(all) PROVE all[i].kind \notin {"stream", "credit"}
    <3>1. i \in 1..Len(before) \/ i = Len(before) + 1
      BY <2>2, <2>3
    <3>. QED BY <2>1, <2>3, <3>1
  <2>5. Len(all) <= SNI_PROBE_MAX + 1
    BY <1>1, <2>2, <2>3
  <2>. QED BY <2>3, <2>4, <2>5 DEF Openings
<1>. HIDE DEF all
<1>4. CASE Len(all) > SNI_PROBE_MAX
  <2>1. all \in Seq(Datagrams) /\ all # <<>> /\ Len(all) \in Nat
    BY <1>3, <1>4, QuicAssumption DEF Openings
  <2>2. Tail(all) \in Seq(Datagrams) /\ Len(Tail(all)) = Len(all) - 1
        /\ \A i \in 1..Len(Tail(all)) : Tail(all)[i] = all[i + 1]
    BY <2>1
  <2>3. \A i \in 1..Len(Tail(all)) : i + 1 \in 1..Len(all)
    BY <2>1, <2>2
  <2>. DEFINE rest == Tail(all)
  <2>4. ASSUME NEW i \in 1..Len(rest) PROVE rest[i].kind \notin {"stream", "credit"}
    BY <1>3, <2>2, <2>3 DEF Openings
  <2>5. rest \in Openings
    BY <2>2, <2>4 DEF Openings
  <2>6. Len(rest) <= SNI_PROBE_MAX
    BY <1>3, <2>1, <2>2, QuicAssumption
  <2>. QED BY <1>2, <1>4, <2>5, <2>6
<1>5. CASE ~(Len(all) > SNI_PROBE_MAX)
  <2>1. Len(all) \in Nat
    BY <1>3 DEF Openings
  <2>. QED BY <1>2, <1>3, <1>5, <2>1, QuicAssumption
<1>. QED BY <1>4, <1>5

\* A datagram of an unknown client: held, inserted or dropped.
LEMMA FromNewHolds ==
    ASSUME NEW t, NEW woken, TablesOK(t, woken), NEW p, p \notin DOMAIN t.conns,
           NEW dg \in Datagrams, dg.kind \notin {"stream", "credit"},
           certs \in {"static", "acme"},
           NEW u \in FromNew(t, p, dg)
    PROVE  TablesOK(u, woken)
<1>. DEFINE held == HeldOf(t, p, dg)
            g == WithoutPeer(t.pending, p)
            rest == [t EXCEPT !.pending = g]
            opened == UNION {Insert(v, p, held) : v \in MakeRoom(rest)}
<1>1. held \in Openings /\ held \in Seq(Datagrams) /\ Len(held) <= SNI_PROBE_MAX
  BY HeldHolds DEF Openings
<1>2. \/ u \in opened
      \/ u = rest
      \/ Peek(held) = "more" /\ u \in HoldInitial(rest, p, held)
  <2>1. FromNew(t, p, dg) =
          CASE certs = "static" -> opened
            [] certs = "acme" /\ Peek(held) = "name" -> opened \cup {rest}
            [] certs = "acme" /\ Peek(held) = "more" -> HoldInitial(rest, p, held)
            [] OTHER -> {rest}
    BY DEF FromNew, HeldOf
  <2>. HIDE DEF held, rest, opened
  <2>. QED BY <2>1
<1>. HIDE DEF held
<1>3. PendingOK(g) /\ DOMAIN g = DOMAIN t.pending \ {p}
  <2>1. DOMAIN t.pending \ {p} \in SUBSET DOMAIN t.pending
    OBVIOUS
  <2>. QED BY <2>1, RestrictPending DEF TablesOK, WithoutPeer
<1>. HIDE DEF g
<1>4. TablesOK(rest, woken) /\ rest.conns = t.conns /\ rest.pending = g
  <2>1. DOMAIN t.conns \cap DOMAIN g = {}
    BY <1>3 DEF TablesOK
  <2>. QED BY <1>3, <2>1, WithPending
<1>. HIDE DEF rest
<1>5. CASE u \in opened
  <2>1. PICK v \in MakeRoom(rest) : u \in Insert(v, p, held)
    BY <1>5
  <2>2. /\ TablesOK(v, woken) /\ Cardinality(DOMAIN v.conns) < MAX_CONNS
        /\ v.pending = rest.pending
    BY <1>4, MakeRoomHolds
  <2>3. p \notin DOMAIN v.pending
    BY <1>3, <1>4, <2>2
  <2>. QED BY <1>1, <2>1, <2>2, <2>3, InsertHolds
<1>6. CASE Peek(held) = "more" /\ u \in HoldInitial(rest, p, held)
  BY <1>1, <1>4, <1>6, HoldInitialHolds
<1>. QED BY <1>2, <1>4, <1>5, <1>6

\* on_datagram keeps both tables in order.
LEMMA OnDatagramHolds ==
    ASSUME NEW t, NEW woken, TablesOK(t, woken), NEW p, NEW dg \in Datagrams,
           NEW response \in Responses, certs \in {"static", "acme"},
           dg.kind \in {"stream", "credit"} => p \in DOMAIN t.conns,
           dg.kind = "stream" => /\ t.conns[p].quic.complete
                                 /\ t.conns[p].quic.seen[dg.sid].up,
           NEW u \in OnDatagram(t, p, dg, response)
    PROVE  TablesOK(u, woken)
<1>1. CASE p \in DOMAIN t.conns
  <2>1. u \in FromKnown(t, p, dg, response)
    BY <1>1 DEF OnDatagram
  <2>. QED BY <1>1, <2>1, FromKnownHolds
<1>2. CASE p \notin DOMAIN t.conns
  <2>1. u \in FromNew(t, p, dg)
    BY <1>2 DEF OnDatagram
  <2>2. dg.kind \notin {"stream", "credit"}
    BY <1>2
  <2>. QED BY <1>2, <2>1, <2>2, FromNewHolds
<1>. QED BY <1>1, <1>2

----------------------------------------------------------------------------
\* The rest of an iteration.
LEMMA MapConns ==
    ASSUME NEW f, NEW woken, ConnsOK(f, woken), NEW w2, NEW g, DOMAIN g = DOMAIN f,
           g = [p \in DOMAIN g |-> g[p]],
           \A p \in DOMAIN f : ConnOK(g[p]) /\ SettledIf(g[p], w2)
    PROVE  ConnsOK(g, w2)
BY DEF ConnsOK

\* A timer that fires leaves its connection settled.
LEMMA TimerHolds ==
    ASSUME NEW c, ConnOK(c), NEW idle \in BOOLEAN
    PROVE  ConnOK(Fired(c, idle)) /\ Settled(Fired(c, idle))
<1>. DEFINE x == c.quic.closed \/ idle
            q == [c.quic EXCEPT !.closed = x]
            d == [quic |-> q, h3 |-> c.h3, silent |-> c.silent, probe |-> c.probe]
            q2 == [complete |-> c.quic.complete, closed |-> x, hello |-> c.quic.hello,
                   readable |-> c.quic.readable, credit |-> c.quic.credit, seen |-> c.quic.seen]
<1>1. ConnType(c) /\ QuicType(c.quic) /\ EngineOK(c.h3, c.quic)
  BY DEF ConnOK, EngineOK
<1>0. Fired(c, idle) = Service([c EXCEPT !.quic.closed = x], AnyResponse) /\ x \in BOOLEAN
  BY DEF Fired
<1>. HIDE DEF x
<1>2. q = q2
  BY <1>1, QuicUpdates
<1>3. [c EXCEPT !.quic.closed = x] = d
  <2>1. [c EXCEPT !.quic.closed = x] = [c EXCEPT !.quic = q]
    OBVIOUS
  <2>. HIDE DEF q
  <2>. QED BY <1>1, <2>1, ConnUpdates
<1>4. QuicType(q2)
  BY <1>0, <1>1 DEF QuicType
<1>5. /\ q2.seen = c.quic.seen /\ q2.complete = c.quic.complete
      /\ q2.readable = c.quic.readable
  OBVIOUS
<1>. HIDE DEF q, q2
<1>6. d.quic = q /\ d.h3 = c.h3 /\ ConnType(d)
  BY <1>1 DEF ConnType
<1>7. EngineOK(c.h3, q)
  BY <1>1, <1>2, <1>4, <1>5, SameSeen
<1>. HIDE DEF d
<1>8. ConnFed(d)
  BY <1>2, <1>5, <1>6, <1>7 DEF ConnFed, ConnOK, AtMostOne, Arrives
<1>9. ConnOK(Service(d, AnyResponse)) /\ Settled(Service(d, AnyResponse))
  BY <1>8, ServiceHolds, AnyResponseIsOne
<1>. QED BY <1>0, <1>3, <1>9

\* fire_timers keeps both tables in order.
LEMMA FireTimersHolds ==
    ASSUME NEW t, NEW woken, TablesOK(t, woken), NEW due, NEW idle
    PROVE  TablesOK(FireTimers(t, due, idle), woken)
<1>. DEFINE f == t.conns
            g == [p \in DOMAIN f |->
                    IF p \in due THEN Fired(f[p], p \in idle) ELSE f[p]]
<1>1. FireTimers(t, due, idle) = [t EXCEPT !.conns = g]
  BY DEF FireTimers
<1>2. ConnsOK(f, woken) /\ DOMAIN f \cap DOMAIN t.pending = {}
  BY DEF TablesOK
<1>3. ASSUME NEW p \in DOMAIN f
      PROVE  ConnOK(g[p]) /\ SettledIf(g[p], woken)
  <2>1. CASE p \in due
    <3>. DEFINE x == p \in idle
    <3>1. x \in BOOLEAN /\ ConnOK(f[p])
      BY <1>2 DEF ConnsOK
    <3>2. g[p] = Fired(f[p], x)
      BY <2>1
    <3>. HIDE DEF x, f, g
    <3>3. ConnOK(g[p]) /\ Settled(g[p])
      BY <3>1, <3>2, TimerHolds
    <3>. QED BY <3>3, SettledHolds
  <2>2. CASE p \notin due
    BY <1>2, <2>2 DEF ConnsOK
  <2>. QED BY <2>1, <2>2
<1>4. DOMAIN g = DOMAIN f /\ g = [p \in DOMAIN g |-> g[p]]
  OBVIOUS
<1>. HIDE DEF g
<1>5. ConnsOK(g, woken)
  BY <1>2, <1>3, <1>4, MapConns
<1>. QED BY <1>1, <1>2, <1>4, <1>5, WithConns

\* After a wake-up is worked off, no streamed body waits without cause.
LEMMA ServeDirtyHolds ==
    ASSUME NEW t, dirty \in BOOLEAN, TablesOK(t, dirty), NEW woken, ~woken
    PROVE  TablesOK(ServeDirty(t), woken)
<1>. DEFINE f == t.conns
            g == [p \in DOMAIN f |->
                    IF IsStreaming(f[p].h3) THEN Service(f[p], AnyResponse) ELSE f[p]]
<1>1. ConnsOK(f, dirty) /\ DOMAIN f \cap DOMAIN t.pending = {}
  BY DEF TablesOK
<1>2. CASE ~dirty
  <2>1. ServeDirty(t) = t
    BY <1>2 DEF ServeDirty
  <2>2. ConnsOK(f, woken)
    BY <1>1, <1>2 DEF ConnsOK, SettledIf
  <2>3. /\ t = [conns |-> f, pending |-> t.pending, evicted |-> t.evicted]
        /\ PendingOK(t.pending)
    BY DEF TablesOK
  <2>4. TablesOK(t, woken)
    BY ONLY <1>1, <2>2, <2>3 DEF TablesOK
  <2>. QED BY ONLY <2>1, <2>4
<1>3. CASE dirty
  <2>1. ServeDirty(t) = [t EXCEPT !.conns = g]
    BY <1>3 DEF ServeDirty
  <2>2. ASSUME NEW p \in DOMAIN f PROVE ConnOK(g[p]) /\ Settled(g[p])
    <3>1. ConnOK(f[p]) /\ (Settled(f[p]) \/ IsStreaming(f[p].h3))
      BY <1>1, SettledHolds DEF ConnsOK
    <3>2. ConnOK(Service(f[p], AnyResponse)) /\ Settled(Service(f[p], AnyResponse))
      BY <3>1, ConnOKFed, ServiceHolds, AnyResponseIsOne
    <3>3. g[p] = IF IsStreaming(f[p].h3) THEN Service(f[p], AnyResponse) ELSE f[p]
      OBVIOUS
    <3>. HIDE DEF g, f
    <3>. QED BY <3>1, <3>2, <3>3
  <2>3. DOMAIN g = DOMAIN f /\ g = [p \in DOMAIN g |-> g[p]]
    OBVIOUS
  <2>. HIDE DEF g
  <2>4. ConnsOK(g, woken)
    BY <1>1, <2>2, <2>3, MapConns, SettledHolds
  <2>. QED BY <1>1, <2>1, <2>3, <2>4, WithConns
<1>. QED BY <1>2, <1>3

\* Reaping keeps both tables in order.
LEMMA ReapHolds ==
    ASSUME NEW t, NEW woken, TablesOK(t, woken)
    PROVE  TablesOK(Reap(t), woken)
<1>. DEFINE S == {p \in DOMAIN t.conns :
                    ~t.conns[p].quic.closed /\ t.conns[p].silent < CONN_IDLE_TIMEOUT}
            P == {p \in DOMAIN t.pending : t.pending[p].waited < PENDING_INITIAL_TTL}
            f == Restrict(t.conns, S)
            g == Restrict(t.pending, P)
            u == [conns |-> f, pending |-> g, evicted |-> t.evicted]
<1>1. ConnsOK(f, woken) /\ DOMAIN f = S
  BY RestrictConns DEF TablesOK
<1>2. PendingOK(g) /\ DOMAIN g = P
  BY RestrictPending DEF TablesOK
<1>3. Reap(t) = u
  BY DEF Reap
<1>. HIDE DEF f, g
<1>4. /\ S \subseteq DOMAIN t.conns /\ P \subseteq DOMAIN t.pending
      /\ DOMAIN t.conns \cap DOMAIN t.pending = {}
  BY DEF TablesOK
<1>. HIDE DEF S, P
<1>5. u.conns = f /\ u.pending = g /\ u.evicted = t.evicted
  OBVIOUS
<1>6. TablesOK(u, woken)
  BY <1>1, <1>2, <1>4, <1>5 DEF TablesOK
<1>. QED BY <1>3, <1>6

\* The end of every turn of the loop keeps both tables in order.
LEMMA FinishHolds ==
    ASSUME NEW t, dirty \in BOOLEAN, TablesOK(t, dirty), NEW due, NEW idle,
           Finish(t, due, idle)
    PROVE  TablesOK(Tables', dirty') /\ dirty' \in BOOLEAN
<1>. DEFINE v == FireTimers(t, due, idle)
            w == ServeDirty(v)
            u == Reap(w)
            woken == dirty'
<1>1. /\ conns' = u.conns /\ pending' = u.pending /\ evicted' = u.evicted
      /\ dirty' = FALSE
  BY DEF Finish
<1>2. ~woken
  BY <1>1
<1>. HIDE DEF woken
<1>3. TablesOK(v, dirty)
  BY FireTimersHolds
<1>. HIDE DEF v
<1>4. TablesOK(w, woken)
  BY <1>2, <1>3, ServeDirtyHolds
<1>. HIDE DEF w
<1>5. TablesOK(u, woken)
  BY <1>4, ReapHolds
<1>. HIDE DEF u
<1>6. Tables' = [conns |-> u.conns, pending |-> u.pending, evicted |-> u.evicted]
  BY <1>1 DEF Tables
<1>7. Tables' = u
  BY <1>5, <1>6 DEF TablesOK
<1>. QED BY <1>1, <1>5, <1>7 DEF woken

----------------------------------------------------------------------------
\* A producer's step: what it adds to the body is owed to the client, and its stream
\* is one that a wake-up serves, unless a poll has dropped its abort.
LEMMA WrittenHolds ==
    ASSUME NEW c, ConnOK(c), NEW s \in DOMAIN c.h3.reqs, IsPendingStream(c.h3.reqs[s].body),
           NEW body \in BodyRecords, body.kind = "stream", NEW more \in Nat, NEW cut \in BOOLEAN,
           body.left = c.h3.reqs[s].body.left + more, NEW w1, NEW w2, SettledIf(c, w1), w1 => w2,
           (w2 /\ ~body.ended) \/ Dropped(body)
    PROVE  LET z == Written(c, s, body, more, cut) IN ConnOK(z) /\ SettledIf(z, w2)
<1>. DEFINE D == DOMAIN c.h3.reqs
            old == c.h3.reqs[s]
            r == [old EXCEPT !.body = body]
            reqs == [c.h3.reqs EXCEPT ![s] = r]
            h == [started |-> c.h3.started, reqs |-> reqs]
            was == c.quic.seen[s]
            n == [was EXCEPT !.due = @ + more, !.cut = cut]
            seen == [c.quic.seen EXCEPT ![s] = n]
            q == [complete |-> c.quic.complete, closed |-> c.quic.closed, hello |-> c.quic.hello,
                  readable |-> c.quic.readable, credit |-> c.quic.credit, seen |-> seen]
            z == [quic |-> q, h3 |-> h, silent |-> c.silent, probe |-> c.probe]
<1>1. /\ ConnType(c) /\ EngineOK(c.h3, c.quic) /\ H3Type(c.h3) /\ QuicType(c.quic)
      /\ D \subseteq Streams /\ s \in Streams /\ old \in StreamRecords /\ was \in SeenRecords
      /\ StreamOwes(old, was)
      /\ c.h3.reqs = [x \in D |-> c.h3.reqs[x]] /\ c.quic.seen \in [Streams -> SeenRecords]
  <2>1. ConnType(c) /\ EngineOK(c.h3, c.quic)
    BY DEF ConnOK
  <2>. QED BY <2>1, ReqFields
<1>2. r = [inbuf |-> old.inbuf, fin |-> old.fin, delivered |-> old.delivered, out |-> old.out,
           body |-> body, finishAfter |-> old.finishAfter]
  <2>. HIDE DEF old
  <2>. QED BY <1>1, StreamFields
<1>3. n = [got |-> was.got, due |-> was.due + more, end |-> was.end, up |-> was.up, cut |-> cut]
  <2>1. n = [[was EXCEPT !.due = was.due + more] EXCEPT !.cut = cut]
    OBVIOUS
  <2>2. was = [got |-> was.got, due |-> was.due, end |-> was.end, up |-> was.up, cut |-> was.cut]
    <3>. HIDE DEF was
    <3>. QED BY <1>1, SeenFields
  <2>. HIDE DEF was, n
  <2>. QED BY <2>1, <2>2
<1>4. Written(c, s, body, more, cut) = z
  <2>1. [c.h3 EXCEPT !.reqs[s].body = body] = h
    <3>1. [c.h3 EXCEPT !.reqs[s].body = body] = [c.h3 EXCEPT !.reqs = reqs]
      OBVIOUS
    <3>. HIDE DEF reqs
    <3>. QED BY <1>1, <3>1, H3Reqs
  <2>. DEFINE q1 == [c.quic EXCEPT !.seen[s].due = @ + more, !.seen[s].cut = cut]
  <2>2. q1 = q
    <3>. DEFINE n1 == [was EXCEPT !.due = was.due + more]
                seen1 == [c.quic.seen EXCEPT ![s] = n1]
                q0 == [complete |-> c.quic.complete, closed |-> c.quic.closed,
                       hello |-> c.quic.hello, readable |-> c.quic.readable,
                       credit |-> c.quic.credit, seen |-> seen1]
    <3>1. [c.quic EXCEPT !.seen = seen1] = q0
      <4>. HIDE DEF seen1
      <4>. QED BY <1>1, QuicSeen
    <3>2. q1 = [[c.quic EXCEPT !.seen = seen1] EXCEPT !.seen[s].cut = cut]
      OBVIOUS
    <3>3. q1 = [q0 EXCEPT !.seen[s].cut = cut]
      BY <3>1, <3>2
    <3>4. q0.seen = seen1
      OBVIOUS
    <3>5. [q0 EXCEPT !.seen[s].cut = cut]
            = [q0 EXCEPT !.seen = [seen1 EXCEPT ![s] = [seen1[s] EXCEPT !.cut = cut]]]
      BY <3>4
    <3>6. [seen1 EXCEPT ![s] = [seen1[s] EXCEPT !.cut = cut]] = seen
      <4>1. seen1[s] = n1
        BY <1>1
      <4>2. [n1 EXCEPT !.cut = cut] = n
        OBVIOUS
      <4>3. seen1 = [c.quic.seen EXCEPT ![s] = n1]
        OBVIOUS
      <4>. HIDE DEF seen1, n1, n
      <4>. QED BY <1>1, <4>1, <4>2, <4>3
    <3>. HIDE DEF seen, seen1
    <3>. QED BY <3>3, <3>5, <3>6
  <2>. DEFINE c1 == [c EXCEPT !.h3 = h]
  <2>3. Written(c, s, body, more, cut) = [c1 EXCEPT !.quic = q]
    <3>1. Written(c, s, body, more, cut) = [c EXCEPT !.h3 = [c.h3 EXCEPT !.reqs[s].body = body],
                                                    !.quic = q1]
      BY DEF Written
    <3>. HIDE DEF q1
    <3>. QED BY <2>1, <2>2, <3>1
  <2>. HIDE DEF h, q
  <2>4. c1 = [quic |-> c.quic, h3 |-> h, silent |-> c.silent, probe |-> c.probe]
    BY <1>1 DEF ConnType
  <2>. HIDE DEF c1
  <2>. QED BY <2>3, <2>4
<1>. HIDE DEF old, was, r, n
<1>5. r \in StreamRecords /\ r.body = body /\ r.delivered = old.delivered /\ r.fin = old.fin
      /\ r.out = old.out /\ r.finishAfter = old.finishAfter
  BY <1>1, <1>2, StreamFields DEF StreamRecords
<1>6. /\ n \in SeenRecords /\ n.end = was.end /\ n.got = was.got /\ n.due = was.due + more
      /\ n.up = was.up
  BY <1>1, <1>3, SeenFields DEF SeenRecords
<1>7. StreamOwes(r, n) /\ r.body = body /\ old.delivered
  <2>1. old.body # None /\ body # None /\ old.body.left + more = body.left
    BY NoneIsNoBody DEF IsPendingStream, old
  <2>2. /\ old.delivered /\ old.fin /\ old.finishAfter /\ was.end # "fin" /\ ~was.up
        /\ was.end = "no" => was.due = was.got + (old.out + old.body.left)
    BY <1>1, <2>1, StreamFields DEF StreamOwes, Owed
  <2>3. /\ old.out \in Nat /\ old.body.left \in Nat /\ body.left \in Nat
        /\ was.due \in Nat /\ was.got \in Nat
    BY <1>1, <2>1, StreamFields, BodyFields, SeenFields
  <2>4. n.end = "no" => n.due = n.got + (r.out + r.body.left)
    BY <1>5, <1>6, <2>1, <2>2, <2>3
  <2>. QED BY <1>5, <1>6, <2>1, <2>2, <2>4 DEF StreamOwes, Owed
<1>8. /\ DOMAIN reqs = D /\ reqs[s] = r /\ \A x \in D \ {s} : reqs[x] = c.h3.reqs[x]
      /\ reqs \in [D -> StreamRecords]
  BY <1>1, <1>5, ReqFields
<1>9. /\ seen \in [Streams -> SeenRecords] /\ seen[s] = n
      /\ \A x \in Streams \ {s} : seen[x] = c.quic.seen[x]
  BY <1>1, <1>6
<1>. HIDE DEF reqs, seen
<1>10. h.reqs = reqs /\ h.started = c.h3.started /\ H3Type(h)
  BY <1>1, <1>8 DEF H3Type, IsTable
<1>11. /\ QuicType(q) /\ q.seen = seen /\ q.complete = c.quic.complete
       /\ q.readable = c.quic.readable /\ q.credit = c.quic.credit
  BY <1>1, <1>9 DEF QuicType
<1>. HIDE DEF h, q
<1>12. z.quic = q /\ z.h3 = h /\ ConnType(z)
  BY <1>1 DEF ConnType
<1>. HIDE DEF z
<1>13. EngineOK(h, q)
  <2>1. \A x \in D : StreamOwes(reqs[x], seen[x])
    <3>. SUFFICES ASSUME NEW x \in D PROVE StreamOwes(reqs[x], seen[x])
      OBVIOUS
    <3>1. CASE x = s
      BY <1>7, <1>8, <1>9, <3>1
    <3>2. CASE x # s
      <4>1. reqs[x] = c.h3.reqs[x] /\ seen[x] = c.quic.seen[x]
        BY <1>1, <1>8, <1>9, <3>2
      <4>. QED BY <1>1, <4>1 DEF EngineOK
    <3>. QED BY <3>1, <3>2
  <2>2. \A x \in Streams \ D : seen[x] = c.quic.seen[x]
    BY <1>9
  <2>3. \A x \in Streams : seen[x].end = "fin" => Whole(seen[x])
    <3>. SUFFICES ASSUME NEW x \in Streams, seen[x].end = "fin" PROVE Whole(seen[x])
      OBVIOUS
    <3>1. x # s
      BY <1>7, <1>9 DEF StreamOwes
    <3>. QED BY <1>1, <1>9, <3>1 DEF EngineOK
  <2>4. /\ IsFiniteSet(D) /\ Cardinality(D) <= MAX_REQ_STREAMS
        /\ \A x \in Streams \ D : c.quic.seen[x].end = "no" => c.quic.seen[x].got = 0
    BY <1>1 DEF EngineOK
  <2>. QED BY <1>8, <1>10, <1>11, <2>1, <2>2, <2>3, <2>4 DEF EngineOK
<1>14. \A x \in DOMAIN h.reqs : h.reqs[x].fin => h.reqs[x].delivered
  <2>. SUFFICES ASSUME NEW x \in D, reqs[x].fin PROVE reqs[x].delivered
    BY <1>8, <1>10
  <2>1. CASE x = s
    BY <1>5, <1>7, <1>8, <2>1
  <2>2. CASE x # s
    BY <1>8, <2>2 DEF ConnOK
  <2>. QED BY <2>1, <2>2
<1>15. ConnOK(z)
  <2>1. DOMAIN q.readable = {} /\ (~q.complete => DOMAIN h.reqs = {})
    BY <1>8, <1>10, <1>11 DEF ConnOK
  <2>. QED BY <1>12, <1>13, <1>14, <2>1 DEF ConnOK
<1>16. SettledIf(z, w2)
  <2>. SUFFICES ASSUME NEW x \in D, reqs[x].fin
                PROVE  \/ Waits(reqs[x], c.quic.credit[x], seen[x])
                       \/ w2 /\ IsPendingStream(reqs[x].body)
    BY <1>8, <1>10, <1>11, <1>12 DEF SettledIf
  <2>1. CASE x = s
    <3>1. Dropped(body) => Waits(r, c.quic.credit[s], n)
      BY <1>7 DEF Waits
    <3>2. ~body.ended => IsPendingStream(body)
      BY NoneIsNoBody DEF IsPendingStream
    <3>. QED BY <1>7, <1>8, <1>9, <2>1, <3>1, <3>2
  <2>2. CASE x # s
    <3>1. reqs[x] = c.h3.reqs[x] /\ seen[x] = c.quic.seen[x]
      BY <1>1, <1>8, <1>9, <2>2
    <3>. QED BY <3>1 DEF SettledIf
  <2>. QED BY <2>1, <2>2
<1>. QED BY <1>4, <1>15, <1>16

----------------------------------------------------------------------------
\* The steps.
LEMMA TablesFields ==
    /\ Tables.conns = conns /\ Tables.pending = pending /\ Tables.evicted = evicted
    /\ Tables = [conns |-> Tables.conns, pending |-> Tables.pending, evicted |-> Tables.evicted]
BY DEF Tables

\* The invariant holds when the loop begins.
LEMMA InitHolds ==
    ASSUME Init
    PROVE  IInv
<1>1. DOMAIN conns = {} /\ DOMAIN pending = {}
  BY DEF Init
<1>2. conns = [p \in DOMAIN conns |-> conns[p]] /\ pending = [p \in DOMAIN pending |-> pending[p]]
  BY DEF Init
<1>3. IsFiniteSet({}) /\ Cardinality({}) <= MAX_CONNS /\ Cardinality({}) <= MAX_PENDING_INITIALS
  BY FS_EmptySet, QuicAssumption
<1>4. ConnsOK(conns, dirty) /\ PendingOK(pending)
  BY <1>1, <1>2, <1>3 DEF ConnsOK, PendingOK
<1>5. TablesOK(Tables, dirty)
  BY <1>1, <1>4, TablesFields DEF TablesOK
<1>. QED BY <1>5 DEF Init, IInv

\* A turn with a datagram keeps the invariant.
LEMMA ReceiveHolds ==
    ASSUME IInv, NEW p \in Peers, NEW dg \in Datagrams, Receive(p, dg)
    PROVE  IInv'
<1>1. certs \in {"static", "acme"} /\ dirty \in BOOLEAN /\ TablesOK(Tables, dirty)
  BY DEF IInv
<1>2. PICK response \in Responses : \E t \in OnDatagram(Tables, p, dg, response) : Finish(t, {}, {})
  BY AnyResponseIsOne DEF Receive
<1>3. PICK t \in OnDatagram(Tables, p, dg, response) : Finish(t, {}, {})
  BY <1>2
<1>4. /\ dg.kind \in {"stream", "credit"} => p \in DOMAIN Tables.conns
      /\ dg.kind = "stream" => /\ Tables.conns[p].quic.complete
                               /\ Tables.conns[p].quic.seen[dg.sid].up
  BY TablesFields DEF Receive, Sendable
<1>5. TablesOK(t, dirty)
  BY <1>1, <1>3, <1>4, OnDatagramHolds
<1>6. TablesOK(Tables', dirty') /\ dirty' \in BOOLEAN
  BY <1>1, <1>3, <1>5, FinishHolds
<1>7. certs' = certs
  BY DEF Receive
<1>. QED BY <1>1, <1>6, <1>7 DEF IInv

\* Time that passes keeps both tables in order.
LEMMA TickedHolds ==
    ASSUME NEW t, NEW woken, TablesOK(t, woken), NEW tick \in Nat
    PROVE  TablesOK(Ticked(t, tick), woken)
<1>. DEFINE f == [p \in DOMAIN t.conns |-> [t.conns[p] EXCEPT !.silent = @ + tick]]
            g == [p \in DOMAIN t.pending |-> [t.pending[p] EXCEPT !.waited = @ + tick]]
            u == [conns |-> f, pending |-> g, evicted |-> t.evicted]
<1>1. /\ ConnsOK(t.conns, woken) /\ PendingOK(t.pending)
      /\ DOMAIN t.conns \cap DOMAIN t.pending = {}
  BY DEF TablesOK
<1>2. ASSUME NEW p \in DOMAIN t.conns
      PROVE  ConnOK(f[p]) /\ SettledIf(f[p], woken)
  <2>. DEFINE c == t.conns[p]
              x == c.silent + tick
              d == [quic |-> c.quic, h3 |-> c.h3, silent |-> x, probe |-> c.probe]
  <2>1. ConnOK(c) /\ SettledIf(c, woken)
    BY <1>1 DEF ConnsOK
  <2>2. f[p] = [c EXCEPT !.silent = x]
    OBVIOUS
  <2>3. ConnType(c) /\ x \in Nat
    BY <2>1 DEF ConnOK, ConnType
  <2>. HIDE DEF c, x, f
  <2>4. f[p] = d
    BY <2>2, <2>3, ConnUpdates
  <2>5. d.quic = c.quic /\ d.h3 = c.h3 /\ ConnType(d)
    BY <2>3 DEF ConnType
  <2>. HIDE DEF d
  <2>. QED BY <2>1, <2>4, <2>5 DEF ConnOK, SettledIf
<1>3. ASSUME NEW p \in DOMAIN t.pending
      PROVE  /\ g[p] \in [waited : Nat, datagrams : Seq(Datagrams)]
             /\ g[p].datagrams = t.pending[p].datagrams
  BY <1>1 DEF PendingOK
<1>4. /\ DOMAIN f = DOMAIN t.conns /\ f = [p \in DOMAIN f |-> f[p]]
      /\ DOMAIN g = DOMAIN t.pending /\ g = [p \in DOMAIN g |-> g[p]]
  OBVIOUS
<1>5. Ticked(t, tick) = u
  BY DEF Ticked
<1>. HIDE DEF f, g
<1>6. ConnsOK(f, woken)
  BY <1>1, <1>2, <1>4, MapConns
<1>7. PendingOK(g)
  BY <1>1, <1>3, <1>4 DEF PendingOK
<1>8. u.conns = f /\ u.pending = g /\ u.evicted = t.evicted
  OBVIOUS
<1>9. TablesOK(u, woken)
  BY <1>1, <1>4, <1>6, <1>7, <1>8 DEF TablesOK
<1>. QED BY <1>5, <1>9

\* A turn without a datagram keeps the invariant.
LEMMA TimedOutHolds ==
    ASSUME IInv, NEW tick \in Nat, TimedOut(tick)
    PROVE  IInv'
<1>1. certs \in {"static", "acme"} /\ dirty \in BOOLEAN /\ TablesOK(Tables, dirty)
  BY DEF IInv
<1>. DEFINE t == Ticked(Tables, tick)
<1>2. PICK due, idle : Finish(t, due, idle)
  BY DEF TimedOut
<1>3. TablesOK(t, dirty)
  BY <1>1, TickedHolds
<1>. HIDE DEF t
<1>4. TablesOK(Tables', dirty') /\ dirty' \in BOOLEAN
  BY <1>1, <1>2, <1>3, FinishHolds
<1>5. certs' = certs
  BY DEF TimedOut
<1>. QED BY <1>1, <1>4, <1>5 DEF IInv

\* A producer's step changes its own connection, and takes back no wake-up.
LEMMA ProducerHolds ==
    ASSUME IInv, NEW p \in DOMAIN conns, NEW c, ConnOK(c), SettledIf(c, dirty'),
           conns' = [conns EXCEPT ![p] = c], dirty' \in BOOLEAN, dirty => dirty',
           UNCHANGED <<certs, pending, at, evicted>>
    PROVE  IInv'
<1>1. certs \in {"static", "acme"} /\ dirty \in BOOLEAN /\ TablesOK(Tables, dirty)
  BY DEF IInv
<1>2. /\ ConnsOK(conns, dirty) /\ PendingOK(pending) /\ DOMAIN conns \cap DOMAIN pending = {}
  BY <1>1, TablesFields DEF TablesOK
<1>. DEFINE f == [conns EXCEPT ![p] = c]
            woken == dirty'
<1>3. (dirty => woken) /\ SettledIf(c, woken)
  OBVIOUS
<1>4. /\ DOMAIN f = DOMAIN conns /\ f = [x \in DOMAIN f |-> f[x]] /\ f[p] = c
      /\ \A x \in DOMAIN conns \ {p} : f[x] = conns[x]
  OBVIOUS
<1>5. conns' = f /\ pending' = pending /\ evicted' = evicted /\ certs' = certs
  OBVIOUS
<1>. HIDE DEF f, woken
<1>6. ASSUME NEW x \in DOMAIN conns
      PROVE  ConnOK(f[x]) /\ SettledIf(f[x], woken)
  <2>1. CASE x = p
    BY <1>3, <1>4, <2>1
  <2>2. CASE x # p
    BY <1>2, <1>3, <1>4, <2>2 DEF ConnsOK, SettledIf
  <2>. QED BY <2>1, <2>2
<1>7. ConnsOK(f, woken)
  BY <1>2, <1>4, <1>6, MapConns
<1>. DEFINE u == [conns |-> f, pending |-> pending, evicted |-> evicted]
<1>8. Tables' = u
  BY <1>5 DEF Tables
<1>9. u.conns = f /\ u.pending = pending /\ u.evicted = evicted
  OBVIOUS
<1>10. TablesOK(u, woken)
  BY <1>2, <1>4, <1>7, <1>9 DEF TablesOK
<1>. HIDE DEF u
<1>11. TablesOK(Tables', dirty')
  BY <1>8, <1>10 DEF woken
<1>12. dirty' \in BOOLEAN
  OBVIOUS
<1>. QED BY <1>1, <1>5, <1>11, <1>12 DEF IInv

\* A producer writes to a stream body that is open.
LEMMA ProducesFields ==
    ASSUME IInv, NEW p, NEW s, Produces(p, s)
    PROVE  /\ p \in DOMAIN conns /\ ConnOK(conns[p]) /\ s \in DOMAIN conns[p].h3.reqs
           /\ IsPendingStream(Body(p, s)) /\ Body(p, s).over = "open"
           /\ Body(p, s) \in BodyRecords /\ Body(p, s).kind = "stream"
           /\ conns[p].h3.reqs[s] \in StreamRecords
           /\ SettledIf(conns[p], dirty) /\ dirty \in BOOLEAN /\ ~Body(p, s).ended
<1>1. /\ p \in DOMAIN conns /\ s \in DOMAIN conns[p].h3.reqs
      /\ IsPendingStream(Body(p, s)) /\ Body(p, s).over = "open"
  BY DEF Produces
<1>2. ConnOK(conns[p]) /\ SettledIf(conns[p], dirty) /\ dirty \in BOOLEAN
  BY <1>1, TablesFields DEF IInv, TablesOK, ConnsOK
<1>3. conns[p].h3.reqs[s] \in StreamRecords
  BY <1>1, <1>2, ReqFields DEF ConnOK
<1>4. Body(p, s) \in BodyRecords
  BY <1>1, <1>3, StreamFields DEF Body, IsPendingStream
<1>. QED BY <1>1, <1>2, <1>3, <1>4 DEF IsPendingStream

\* A producer that writes keeps the invariant: a wake-up is on its way.
LEMMA ProduceHolds ==
    ASSUME IInv, NEW p, NEW s, Produce(p, s)
    PROVE  IInv'
<1>. DEFINE old == Body(p, s)
            body == [old EXCEPT !.left = @ + 1]
            c == Written(conns[p], s, body, 1, FALSE)
<1>1. /\ p \in DOMAIN conns /\ ConnOK(conns[p]) /\ s \in DOMAIN conns[p].h3.reqs
      /\ IsPendingStream(old) /\ old \in BodyRecords /\ old.kind = "stream" /\ ~old.ended
      /\ SettledIf(conns[p], dirty) /\ dirty \in BOOLEAN
  BY ProducesFields DEF Produce
<1>2. /\ conns' = [conns EXCEPT ![p] = c] /\ dirty' = TRUE
      /\ UNCHANGED <<certs, pending, at, evicted>>
  BY DEF Produce
<1>3. old = conns[p].h3.reqs[s].body
  BY DEF Body
<1>. HIDE DEF old
<1>4. body \in BodyRecords /\ body.kind = "stream" /\ body.left = old.left + 1 /\ ~body.ended
  <2>1. body = [kind |-> old.kind, left |-> old.left + 1, over |-> old.over,
                readable |-> old.readable, ended |-> old.ended]
    BY <1>1, BodyFields
  <2>. QED BY <1>1, <2>1, BodyFields DEF BodyRecords
<1>. HIDE DEF body
<1>. DEFINE woken == dirty'
<1>5. woken = TRUE
  BY <1>2
<1>. HIDE DEF woken
<1>6. ConnOK(c) /\ SettledIf(c, woken)
  BY <1>1, <1>3, <1>4, <1>5, WrittenHolds
<1>. HIDE DEF c
<1>. QED BY <1>1, <1>2, <1>6, ProducerHolds DEF woken

\* A producer that ends or aborts its body keeps the invariant: a wake-up is on its way.
LEMMA EndBodyHolds ==
    ASSUME IInv, NEW p, NEW s, EndBody(p, s)
    PROVE  IInv'
<1>. DEFINE old == Body(p, s)
<1>1. /\ p \in DOMAIN conns /\ ConnOK(conns[p]) /\ s \in DOMAIN conns[p].h3.reqs
      /\ IsPendingStream(old) /\ old \in BodyRecords /\ old.kind = "stream" /\ ~old.ended
      /\ SettledIf(conns[p], dirty) /\ dirty \in BOOLEAN
  BY ProducesFields DEF EndBody
<1>2. PICK over \in {"finished", "aborted"} :
        conns' = [conns EXCEPT ![p] = Written(@, s, [old EXCEPT !.over = over], 0,
                                              over = "aborted")]
  BY DEF EndBody
<1>. DEFINE body == [old EXCEPT !.over = over]
            cut == over = "aborted"
            c == Written(conns[p], s, body, 0, cut)
<1>3. /\ conns' = [conns EXCEPT ![p] = c] /\ dirty' = TRUE
      /\ UNCHANGED <<certs, pending, at, evicted>>
  BY <1>2 DEF EndBody
<1>4. old = conns[p].h3.reqs[s].body
  BY DEF Body
<1>. HIDE DEF old
<1>5. body \in BodyRecords /\ body.kind = "stream" /\ body.left = old.left + 0 /\ ~body.ended
  <2>1. body = [kind |-> old.kind, left |-> old.left, over |-> over,
                readable |-> old.readable, ended |-> old.ended]
    BY <1>1, BodyFields
  <2>. QED BY <1>1, <2>1, BodyFields DEF BodyRecords
<1>6. cut \in BOOLEAN
  OBVIOUS
<1>. HIDE DEF body, cut
<1>. DEFINE woken == dirty'
<1>7. woken = TRUE
  BY <1>3
<1>. HIDE DEF woken
<1>8. ConnOK(c) /\ SettledIf(c, woken)
  BY <1>1, <1>4, <1>5, <1>6, <1>7, WrittenHolds
<1>. HIDE DEF c
<1>. QED BY <1>1, <1>3, <1>8, ProducerHolds DEF woken

\* An abort that falls between two polls keeps the invariant: its stream is one whose
\* abort has been dropped.
LEMMA AbortBetweenPollsHolds ==
    ASSUME IInv, NEW p, NEW s, AbortBetweenPolls(p, s)
    PROVE  IInv'
<1>. DEFINE old == Body(p, s)
            aborted == [old EXCEPT !.over = "aborted"]
            body == Polled(aborted)
            c == Written(conns[p], s, body, 0, TRUE)
<1>1. /\ p \in DOMAIN conns /\ ConnOK(conns[p]) /\ s \in DOMAIN conns[p].h3.reqs
      /\ IsPendingStream(old) /\ old \in BodyRecords /\ old.kind = "stream" /\ ~old.ended
      /\ SettledIf(conns[p], dirty) /\ dirty \in BOOLEAN
  BY ProducesFields DEF AbortBetweenPolls
<1>2. /\ conns' = [conns EXCEPT ![p] = c] /\ dirty' \in {dirty, TRUE} /\ old.left = 0
      /\ UNCHANGED <<certs, pending, at, evicted>>
  BY DEF AbortBetweenPolls
<1>3. old = conns[p].h3.reqs[s].body
  BY DEF Body
<1>. HIDE DEF old
<1>4. aborted = [kind |-> old.kind, left |-> old.left, over |-> "aborted",
                 readable |-> old.readable, ended |-> old.ended]
  BY <1>1, BodyFields
<1>5. /\ aborted \in BodyRecords /\ aborted.kind = "stream" /\ aborted.left = old.left
      /\ aborted.over = "aborted" /\ aborted.ended \in BOOLEAN
  BY <1>1, <1>4, BodyFields DEF BodyRecords
<1>. HIDE DEF aborted
<1>6. /\ body \in BodyRecords /\ body.left = aborted.left /\ body.kind = aborted.kind
      /\ body.over = aborted.over
  BY <1>5, PolledFields
<1>7. body.ended
  <2>. DEFINE e == aborted.ended \/ (aborted.left = 0 /\ aborted.kind = "stream"
                                    /\ aborted.over # "open")
  <2>1. e = TRUE
    BY <1>2, <1>5
  <2>2. body = [aborted EXCEPT !.ended = e]
    BY DEF Polled
  <2>. HIDE DEF e
  <2>. QED BY <1>4, <2>1, <2>2
<1>8. Dropped(body)
  BY <1>5, <1>6, <1>7, NoneIsNoBody DEF Dropped
<1>9. body.left = old.left + 0 /\ body.kind = "stream"
  BY <1>1, <1>5, <1>6, BodyFields
<1>. HIDE DEF body
<1>. DEFINE woken == dirty'
<1>10. woken \in BOOLEAN /\ (dirty => woken)
  BY <1>1, <1>2
<1>. HIDE DEF woken
<1>11. ConnOK(c) /\ SettledIf(c, woken)
  BY <1>1, <1>3, <1>6, <1>8, <1>9, <1>10, WrittenHolds
<1>. HIDE DEF c
<1>. QED BY <1>1, <1>2, <1>10, <1>11, ProducerHolds DEF woken

\* Every step keeps the invariant.
LEMMA NextHolds ==
    ASSUME IInv, [Next]_vars
    PROVE  IInv'
<1>1. ASSUME NEW p \in Peers, NEW dg \in Datagrams, Receive(p, dg) PROVE IInv'
  BY <1>1, ReceiveHolds
<1>2. CASE TimedOut(0)
  BY <1>2, TimedOutHolds
<1>3. CASE TimedOut(1)
  BY <1>3, TimedOutHolds
<1>4. CASE Stop
  BY <1>4 DEF Stop, IInv, Tables
<1>5. ASSUME NEW p \in Peers, NEW s \in Streams, Produce(p, s) PROVE IInv'
  BY <1>5, ProduceHolds
<1>6. ASSUME NEW p \in Peers, NEW s \in Streams, EndBody(p, s) PROVE IInv'
  BY <1>6, EndBodyHolds
<1>7. ASSUME NEW p \in Peers, NEW s \in Streams, AbortBetweenPolls(p, s) PROVE IInv'
  BY <1>7, AbortBetweenPollsHolds
<1>8. CASE UNCHANGED vars
  BY <1>8 DEF vars, IInv, Tables
<1>. QED BY <1>1, <1>2, <1>3, <1>4, <1>5, <1>6, <1>7, <1>8 DEF Next

\* The inductive invariant: both tables are within their limits and apart, every
\* stream owes its client what it has not sent, and what a stream waits for is
\* missing or has a wake-up on its way, unless its abort was dropped (src/rt/quic.rs, src/h3/conn.rs).
THEOREM QuicInvariant == Spec => []IInv
<1>1. Init => IInv
  BY InitHolds
<1>2. IInv /\ [Next]_vars => IInv'
  BY NextHolds
<1>. QED BY <1>1, <1>2, PTL DEF Spec

\* However the datagrams come, the tables of the listener and of each connection
\* stay within their limits, and no client is in both (src/rt/quic.rs: on_datagram,
\* hold_initial, evict_one; src/h3/conn.rs: read_request).
THEOREM TablesKept == Spec => []TablesBounded
<1>1. IInv => TablesBounded
  <2>. SUFFICES ASSUME IInv PROVE TablesBounded
    OBVIOUS
  <2>1. ConnsOK(conns, dirty) /\ PendingOK(pending) /\ DOMAIN conns \cap DOMAIN pending = {}
    BY TablesFields DEF IInv, TablesOK
  <2>2. \A p \in DOMAIN conns : EngineOK(conns[p].h3, conns[p].quic)
    BY <2>1 DEF ConnsOK, ConnOK
  <2>3. \A p \in DOMAIN conns : Cardinality(DOMAIN conns[p].h3.reqs) <= MAX_REQ_STREAMS
    BY <2>2 DEF EngineOK
  <2>. QED BY <2>1, <2>3 DEF ConnsOK, PendingOK, TablesBounded
<1>. QED BY <1>1, QuicInvariant, PTL

\* A response that ends with FIN has reached the client as far as its handler and its
\* producer wrote it, whatever the credit, the chunks and the files did (src/h3/conn.rs:
\* flush). Whether the producer had aborted it is another matter: AbortIsDetectable.
THEOREM FinIsWhole == Spec => []FinMeansWhole
<1>1. IInv => FinMeansWhole
  <2>. SUFFICES ASSUME IInv PROVE FinMeansWhole
    OBVIOUS
  <2>1. ConnsOK(conns, dirty)
    BY TablesFields DEF IInv, TablesOK
  <2>2. \A p \in DOMAIN conns : EngineOK(conns[p].h3, conns[p].quic)
    BY <2>1 DEF ConnsOK, ConnOK
  <2>. QED BY <2>2 DEF EngineOK, FinMeansWhole, Whole
<1>. QED BY <1>1, QuicInvariant, PTL

\* With no wake-up on its way, every request that has arrived is answered, and its
\* response, unless it was reset or a poll dropped its abort, waits for credit or for
\* its producer only (src/rt/quic.rs: run, on_datagram; src/h3/conn.rs: drive).
THEOREM NothingUnsent == Spec => []NothingLeftUnsent
<1>1. IInv => NothingLeftUnsent
  <2>. SUFFICES ASSUME IInv PROVE NothingLeftUnsent
    OBVIOUS
  <2>1. ConnsOK(conns, dirty) /\ dirty \in BOOLEAN
    BY TablesFields DEF IInv, TablesOK
  <2>. SUFFICES ASSUME ~dirty, NEW p \in DOMAIN conns, NEW s \in DOMAIN conns[p].h3.reqs,
                       conns[p].h3.reqs[s].fin
                PROVE  /\ conns[p].h3.reqs[s].delivered
                       /\ Waits(conns[p].h3.reqs[s], conns[p].quic.credit[s],
                                conns[p].quic.seen[s])
    BY DEF NothingLeftUnsent, Waits
  <2>2. ConnOK(conns[p]) /\ SettledIf(conns[p], dirty)
    BY <2>1 DEF ConnsOK
  <2>. QED BY <2>2 DEF ConnOK, SettledIf
<1>. QED BY <1>1, QuicInvariant, PTL
================================================================================
