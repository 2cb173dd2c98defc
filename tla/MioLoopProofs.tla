----------------------------- MODULE MioLoopProofs -----------------------------
(***************************************************************************)
(* Proofs about MioLoop for any number of clients, any limits and any      *)
(* bodies: no wake-up of a producer, no client in the backlog and no       *)
(* socket is lost to the edge-triggered poll.                              *)
(***************************************************************************)
EXTENDS MioLoop, TLAPS

Conn == [tracked : {TRUE}, out : Int, readClosed : BOOLEAN, age : Int, writable : BOOLEAN,
         asked : Int, ready : Nat, body : {None, "file", "stream"}, left : Int, avail : Nat,
         over : {"open", "finished", "aborted"}, closed : BOOLEAN]

Sock == [asked : Int, total : Int, eof : BOOLEAN, err : BOOLEAN, sent : Int]

Typed == conn \in [Clients -> Conn \cup {NoConn}] /\ sock \in [Clients -> Sock]

\* A body that has something to send, or an end to announce.
Ready(e) == IsStreaming(e) /\ (e.avail > 0 \/ e.over # "open")
Due(c)   == conn[c].tracked /\ conn[c].out = 0 /\ Ready(conn[c])

HasEvent(t) == \E e \in events : e.token = t

\* What is due has its producer before the list, or its token on the list, or among
\* the events, or the loop's attention.
Attended ==
    \A c \in Clients : Due(c) =>
        \/ producer[c] = "list" \/ c \in pending \/ HasEvent(c)
        \/ at = "pump" /\ turn = c

\* A token on the list has its signal coming.
Signalled ==
    \A c \in pending : producer[c] = "signal" \/ Waker \in edge \/ HasEvent(Waker)

Places ==
    /\ at \in {"top", "poll"} => events = {}
    /\ at = "pump" => turn \in Tracked
    /\ pending \subseteq Clients

Producers == producer \in [Clients -> {"free", "list", "signal"}]

IInv == Typed /\ Producers /\ Attended /\ Signalled /\ Places

-----------------------------------------------------------------------------
(* The session: what is left when nothing comes out.                         *)

LEMMA WithBody ==
    ASSUME NEW e \in Conn, NEW b \in {None, "file", "stream"}
    PROVE  [e EXCEPT !.body = b] \in Conn /\ [e EXCEPT !.body = b].body = b
BY DEF Conn

LEMMA WithClosed ==
    ASSUME NEW e \in Conn
    PROVE  [e EXCEPT !.closed = TRUE] \in Conn /\ [e EXCEPT !.closed = TRUE].body = e.body
BY DEF Conn

LEMMA WithLeft == ASSUME NEW e \in Conn, NEW n \in Int PROVE [e EXCEPT !.left = n] \in Conn
BY DEF Conn

LEMMA WithReady == ASSUME NEW e \in Conn, NEW n \in Nat PROVE [e EXCEPT !.ready = n] \in Conn
BY DEF Conn

LEMMA WithAvail == ASSUME NEW e \in Conn, NEW n \in Nat PROVE [e EXCEPT !.avail = n] \in Conn
BY DEF Conn

LEMMA WithOut == ASSUME NEW e \in Conn, NEW n \in Int
                 PROVE [e EXCEPT !.out = n] \in Conn /\ [e EXCEPT !.out = n].out = n
BY DEF Conn

LEMMA WithAge ==
    ASSUME NEW e \in Conn, NEW n \in Int
    PROVE  LET f == [e EXCEPT !.age = n]
           IN  /\ f \in Conn /\ f.out = e.out /\ (Ready(f) <=> Ready(e))
               /\ f.readClosed = e.readClosed /\ f.writable = e.writable
BY DEF Conn, Ready, IsStreaming

LEMMA Numbers ==
    /\ ROOM \in Int /\ IO_TIMEOUT \in Int
    /\ \A e \in Conn : e.out \in Int /\ e.age \in Int /\ e.asked \in Int /\ e.tracked
    /\ \A s \in Sock : s.asked \in Int /\ s.sent \in Int /\ s.eof \in BOOLEAN
<1>1. ROOM \in Int /\ IO_TIMEOUT \in Int
  BY MioAssumption
<1>2. \A e \in Conn : e.out \in Int /\ e.age \in Int /\ e.asked \in Int /\ e.tracked
  BY DEF Conn
<1>3. \A s \in Sock : s.asked \in Int /\ s.sent \in Int /\ s.eof \in BOOLEAN
  BY DEF Sock
<1> QED BY <1>1, <1>2, <1>3

LEMMA LesserType == ASSUME NEW m \in Int, NEW n \in Int PROVE Lesser(m, n) \in Int
BY DEF Lesser

LEMMA WithAsked == ASSUME NEW e \in Conn, NEW n \in Int PROVE [e EXCEPT !.asked = n] \in Conn
BY DEF Conn

LEMMA WithReadClosed ==
    ASSUME NEW e \in Conn, NEW b \in BOOLEAN PROVE [e EXCEPT !.readClosed = b] \in Conn
BY DEF Conn

LEMMA WithWritable ==
    ASSUME NEW e \in Conn, NEW b \in BOOLEAN
    PROVE  LET f == [e EXCEPT !.writable = b]
           IN  /\ f \in Conn /\ f.out = e.out /\ (Ready(f) <=> Ready(e))
               /\ f.readClosed = e.readClosed /\ f.writable = b
BY DEF Conn, Ready, IsStreaming

LEMMA TakeOutLeaves ==
    ASSUME NEW e \in Conn
    PROVE  /\ TakeOut(e).conn \in Conn /\ TakeOut(e).bytes \in Nat
           /\ TakeOut(e).bytes = 0 => ~Ready(TakeOut(e).conn)
<1> USE SizeAssumption
<1>1. CASE e.ready > 0
  <2> DEFINE g == [e EXCEPT !.ready = 0]
  <2>1. TakeOut(e) = [conn |-> g, bytes |-> e.ready]
    BY <1>1 DEF TakeOut, Conn
  <2>2. g \in Conn /\ e.ready \in Nat
    BY WithReady DEF Conn
  <2> HIDE DEF g
  <2>3. TakeOut(e).conn = g /\ TakeOut(e).bytes = e.ready
    BY <2>1
  <2> QED BY <1>1, <2>2, <2>3
<1>2. CASE e.ready = 0 /\ e.body = "file"
  <2> DEFINE b == IF e.left = 1 THEN None ELSE e.body
             g == [e EXCEPT !.left = e.left - 1]
             f == [g EXCEPT !.body = b]
  <2>1. TakeOut(e) = [conn |-> f, bytes |-> 1]
    <3>1. CASE e.left = 1
      <4>1. TakeOut(e) = [conn |-> [[e EXCEPT !.left = e.left - 1] EXCEPT !.body = None], bytes |-> 1]
        BY <1>2, <3>1 DEF TakeOut, Conn, IsStreaming
      <4> QED BY <3>1, <4>1
    <3>2. CASE e.left # 1
      <4>1. TakeOut(e) = [conn |-> [[e EXCEPT !.left = e.left - 1] EXCEPT !.body = e.body], bytes |-> 1]
        BY <1>2, <3>2 DEF TakeOut, Conn, IsStreaming
      <4> QED BY <3>2, <4>1
    <3> QED BY <3>1, <3>2
  <2>2. b \in {None, "file", "stream"}
    BY <1>2
  <2>3. e.left - 1 \in Int
    BY DEF Conn
  <2>4. g \in Conn
    BY <2>3, WithLeft
  <2> HIDE DEF b, g
  <2>5. f \in Conn
    BY <2>2, <2>4, WithBody
  <2> HIDE DEF f
  <2> QED BY <2>1, <2>5
<1>3. CASE e.ready = 0 /\ e.body = "stream" /\ e.avail > 0
  <2> DEFINE g == [e EXCEPT !.avail = 0]
  <2>1. TakeOut(e) = [conn |-> g, bytes |-> e.avail]
    BY <1>3 DEF TakeOut, Conn, IsStreaming
  <2>2. g \in Conn /\ e.avail \in Nat
    BY WithAvail DEF Conn
  <2> HIDE DEF g
  <2>3. TakeOut(e).conn = g /\ TakeOut(e).bytes = e.avail
    BY <2>1
  <2> QED BY <1>3, <2>2, <2>3
<1>4. CASE e.ready = 0 /\ e.body = "stream" /\ e.avail = 0 /\ e.over = "finished"
  <2> DEFINE g == [e EXCEPT !.body = None]
  <2>1. TakeOut(e) = [conn |-> g, bytes |-> 1]
    BY <1>4 DEF TakeOut, Conn, IsStreaming
  <2>2. g \in Conn
    BY WithBody DEF Conn
  <2> HIDE DEF g
  <2>3. TakeOut(e).conn = g /\ TakeOut(e).bytes = 1
    BY <2>1
  <2> QED BY <1>4, <2>2, <2>3
<1>5. CASE e.ready = 0 /\ e.body = "stream" /\ e.avail = 0 /\ e.over = "aborted"
  <2> DEFINE g == [e EXCEPT !.body = None]
             f == [g EXCEPT !.closed = TRUE]
  <2>1. TakeOut(e) = [conn |-> f, bytes |-> 0]
    BY <1>5 DEF TakeOut, Conn, IsStreaming
  <2>2. g \in Conn /\ g.body = None
    BY WithBody
  <2> HIDE DEF g
  <2>3. f \in Conn /\ f.body = None
    BY <2>2, WithClosed
  <2> HIDE DEF f
  <2>4. TakeOut(e).conn = f /\ TakeOut(e).bytes = 0
    BY <2>1
  <2> QED BY SizeAssumption, <2>3, <2>4 DEF Ready, IsStreaming
<1>6. CASE e.ready = 0 /\ e.body = "stream" /\ e.avail = 0 /\ e.over = "open"
  <2>1. TakeOut(e) = [conn |-> e, bytes |-> 0]
    BY <1>6 DEF TakeOut, Conn, IsStreaming
  <2> QED BY <1>6, <2>1 DEF Ready
<1>7. CASE e.ready = 0 /\ e.body = None
  <2>1. TakeOut(e) = [conn |-> e, bytes |-> 0]
    BY <1>7 DEF TakeOut, Conn, IsStreaming
  <2> QED BY <1>7, <2>1 DEF Ready, IsStreaming
<1>8. e.ready \in Nat /\ e.avail \in Nat /\ e.body \in {None, "file", "stream"}
      /\ e.over \in {"open", "finished", "aborted"}
  BY DEF Conn
<1> QED BY <1>1, <1>2, <1>3, <1>4, <1>5, <1>6, <1>7, <1>8

Wants == [source : {"file", "stream"}, close : BOOLEAN]

LEMMA ServeType == ASSUME NEW e \in Conn, NEW w \in Wants PROVE Serve(e, w) \in Conn
<1>1. CASE e.body # None \/ e.asked = 0 \/ e.closed
  BY <1>1 DEF Serve
<1>2. CASE ~(e.body # None \/ e.asked = 0 \/ e.closed)
  <2>1. SIZE \in Int
    BY SizeAssumption
  <2>2. e.asked - 1 \in Int /\ e.ready + 1 \in Nat
    BY DEF Conn
  <2> QED BY <1>2, <2>1, <2>2 DEF Serve, Conn, Wants
<1> QED BY <1>1, <1>2

\* to_send gives something, or leaves nothing that is due.
LEMMA ToSendLeaves ==
    ASSUME NEW e \in Conn, NEW w \in Wants
    PROVE  /\ ToSend(e, w).conn \in Conn /\ ToSend(e, w).bytes \in Nat
           /\ ToSend(e, w).bytes = 0 => ~Ready(ToSend(e, w).conn)
<1> DEFINE first  == TakeOut(e)
           served == Serve(first.conn, w)
           next   == TakeOut(served)
           o      == ToSend(e, w)
<1>1. first.conn \in Conn /\ first.bytes \in Nat
      /\ (first.bytes = 0 => ~Ready(first.conn))
  BY TakeOutLeaves
<1>2. CASE HasOutput(first.conn)
  <2>1. o = first
    BY <1>2 DEF ToSend
  <2> HIDE DEF first, o
  <2> QED BY <1>1, <2>1 DEF o
<1>3. CASE ~HasOutput(first.conn)
  <2>1. o = [next EXCEPT !.bytes = @ + first.bytes]
    BY <1>3 DEF ToSend
  <2>2. next.conn \in Conn /\ next.bytes \in Nat /\ (next.bytes = 0 => ~Ready(next.conn))
    BY <1>1, ServeType, TakeOutLeaves
  <2>3. next = [conn |-> next.conn, bytes |-> next.bytes]
    BY DEF TakeOut
  <2>4. o.conn = next.conn /\ o.bytes = next.bytes + first.bytes
    BY <2>1, <2>3
  <2> HIDE DEF first, served, next, o
  <2> QED BY <1>1, <2>2, <2>4 DEF o
<1> QED BY <1>2, <1>3

-----------------------------------------------------------------------------
(* The invariant.                                                            *)

LEMMA ProducedType ==
    ASSUME NEW e \in Conn, NEW f \in Produced(e)
    PROVE  f \in Conn /\ f.out = e.out /\ f.readClosed = e.readClosed /\ f.writable = e.writable
<1>1. CASE f = [e EXCEPT !.over = "aborted"]
  BY <1>1 DEF Conn
<1>2. CASE f = [e EXCEPT !.left = @ - 1, !.avail = @ + 1]
  <2> DEFINE g == [e EXCEPT !.left = e.left - 1]
  <2>1. e.left - 1 \in Int /\ e.avail + 1 \in Nat
    BY DEF Conn
  <2>2. g \in Conn /\ g.out = e.out /\ g.readClosed = e.readClosed /\ g.writable = e.writable
    BY <2>1, WithLeft DEF Conn
  <2>3. f = [g EXCEPT !.avail = e.avail + 1]
    BY <1>2
  <2> HIDE DEF g
  <2>4. f.out = g.out /\ f.readClosed = g.readClosed /\ f.writable = g.writable
    BY <2>2, <2>3 DEF Conn
  <2> QED BY <2>1, <2>2, <2>3, <2>4, WithAvail
<1>3. CASE f = [e EXCEPT !.over = "finished"]
  BY <1>3 DEF Conn
<1> QED BY <1>1, <1>2, <1>3 DEF Produced

LEMMA TrackedType == ASSUME Typed, NEW c \in Tracked PROVE conn[c] \in Conn
BY DEF Typed, Tracked, NoConn

LEMMA InitIInv == Init => IInv
<1> SUFFICES ASSUME Init PROVE IInv
  OBVIOUS
<1>1. conn = [c \in Clients |-> NoConn]
  BY DEF Init
<1>2. pending = {} /\ events = {} /\ at = "top"
  BY DEF Init
<1>3. sock \in [Clients -> Sock]
  <2>1. NoSock \in Sock
    BY DEF NoSock, Sock
  <2> QED BY <2>1 DEF Init
<1>4. Typed
  BY <1>1, <1>3 DEF Typed
<1>5. Attended
  BY <1>1 DEF Attended, Due, NoConn
<1>6. Producers
  BY DEF Init, Producers
<1> QED BY <1>2, <1>4, <1>5, <1>6 DEF IInv, Signalled, Places

\* A step outside the loop's attention, after which nothing more is due.
LEMMA Aside ==
    ASSUME IInv, Typed', UNCHANGED <<producer, pending, events, at, turn>>,
           \A c \in Clients : Due(c)' => Due(c),
           Waker \in edge => Waker \in edge', Tracked \subseteq Tracked'
    PROVE  IInv'
<1>1. Attended'
  BY DEF IInv, Attended, HasEvent
<1>2. Signalled'
  BY DEF IInv, Signalled, HasEvent
<1>3. Places' /\ Producers'
  BY DEF IInv, Places, Producers
<1> QED BY <1>1, <1>2, <1>3 DEF IInv

\* Clients' steps leave the connections alone.
LEMMA ClientStep ==
    ASSUME IInv, NEW c \in Clients, Knock(c) \/ Ask(c) \/ Shut(c) \/ Reset(c) \/ Take(c)
    PROVE  IInv'
<1>1. sock[c] \in Sock
  BY DEF IInv, Typed
<1>2. sock' \in [Clients -> Sock]
  <2>1. CASE Ask(c)
    <3> DEFINE f == [sock[c] EXCEPT !.asked = @ + 1]
    <3>1. sock[c].asked + 1 \in Int /\ sock[c].total + 1 \in Int
      BY <1>1 DEF Sock
    <3>2. f \in Sock
      BY <1>1, <3>1 DEF Sock
    <3>3. [f EXCEPT !.total = sock[c].total + 1] \in Sock
      <4> HIDE DEF f
      <4> QED BY <3>1, <3>2 DEF Sock
    <3> QED BY <2>1, <3>3 DEF Ask, Happens, IInv, Typed
  <2>2. CASE Shut(c)
    <3>1. [sock[c] EXCEPT !.eof = TRUE] \in Sock
      BY <1>1 DEF Sock
    <3> QED BY <2>2, <3>1 DEF Shut, Happens, IInv, Typed
  <2>3. CASE Reset(c)
    <3>1. [sock[c] EXCEPT !.err = TRUE] \in Sock
      BY <1>1 DEF Sock
    <3> QED BY <2>3, <3>1 DEF Reset, Happens, IInv, Typed
  <2>4. CASE Take(c)
    <3>1. sock[c].sent - 1 \in Int
      BY <1>1 DEF Sock
    <3>2. [sock[c] EXCEPT !.sent = sock[c].sent - 1] \in Sock
      BY <1>1, <3>1 DEF Sock
    <3> QED BY <2>4, <3>2 DEF Take, Happens, IInv, Typed
  <2>5. CASE Knock(c)
    BY <2>5 DEF Knock, IInv, Typed
  <2> QED BY <2>1, <2>2, <2>3, <2>4, <2>5
<1>3. /\ UNCHANGED <<conn, producer, pending, events, at, turn>>
      /\ Waker \in edge => Waker \in edge'
  BY DEF Knock, Ask, Shut, Reset, Take, Happens, wakeups
<1>4. Typed'
  BY <1>2, <1>3 DEF IInv, Typed
<1>5. \A d \in Clients : Due(d)' => Due(d)
  BY <1>3 DEF Due, Ready, IsStreaming
<1>6. Tracked' = Tracked
  BY <1>3 DEF Tracked
<1> QED BY <1>3, <1>4, <1>5, <1>6, Aside

LEMMA ProduceStep == ASSUME IInv, NEW c \in Clients, Produce(c) PROVE IInv'
<1>1. c \in Tracked /\ conn[c] \in Conn
  BY TrackedType DEF Produce, Tracked, IInv
<1>2. PICK f \in Produced(conn[c]) : conn' = [conn EXCEPT ![c] = f]
  BY DEF Produce
<1>3. f \in Conn
  BY <1>1, ProducedType
<1>4. /\ producer[c] = "free" /\ producer' = [producer EXCEPT ![c] = "list"]
      /\ UNCHANGED <<sock, pending, edge, at, events, turn>>
  BY DEF Produce, clients
<1>5. Typed'
  BY <1>2, <1>3, <1>4 DEF IInv, Typed
<1>6. \A d \in Clients \ {c} : conn'[d] = conn[d] /\ producer'[d] = producer[d]
  BY <1>2, <1>4 DEF IInv, Typed
<1>7. Attended'
  <2>1. ASSUME NEW d \in Clients, d # c, Due(d)' PROVE Due(d)
    BY <1>6, <2>1 DEF Due, Ready, IsStreaming
  <2>2. c \in DOMAIN producer => producer'[c] = "list"
    BY <1>4
  <2>3. c \in DOMAIN producer
    BY DEF IInv, Producers
  <2> QED BY <1>4, <1>6, <2>1, <2>2, <2>3 DEF IInv, Attended, HasEvent
<1>8. Signalled'
  BY <1>4, <1>6 DEF IInv, Signalled, HasEvent, Places
<1>9. Places'
  <2>1. Tracked \subseteq Tracked'
    BY <1>1, <1>2, <1>3 DEF IInv, Typed, Tracked, Conn
  <2> QED BY <1>4, <2>1 DEF IInv, Places
<1>10. Producers'
  BY <1>4 DEF IInv, Producers
<1> QED BY <1>5, <1>7, <1>8, <1>9, <1>10 DEF IInv

LEMMA WakeStep == ASSUME IInv, NEW c \in Clients, Wake(c) PROVE IInv'
<1>1. UNCHANGED <<conn, sock, at, events, turn>>
  BY DEF Wake, clients
<1>2. Typed' /\ Tracked' = Tracked
  BY <1>1 DEF IInv, Typed, Tracked
<1>3. \A d \in Clients : Due(d)' <=> Due(d)
  BY <1>1 DEF Due, Ready, IsStreaming
<1>4. Producers' /\ \A d \in Clients \ {c} : producer'[d] = producer[d]
  BY DEF IInv, Producers, Wake
<1>5. CASE producer[c] = "list"
  <2>1. producer'[c] = "signal" /\ pending' = pending \cup {c} /\ edge' = edge
    BY <1>5 DEF Wake, IInv, Producers
  <2>2. Attended'
    BY <1>1, <1>3, <1>4, <2>1 DEF IInv, Attended, HasEvent
  <2>3. Signalled'
    BY <1>1, <1>4, <2>1 DEF IInv, Signalled, HasEvent, Places
  <2>4. Places'
    BY <1>1, <1>2, <2>1 DEF IInv, Places
  <2> QED BY <1>2, <1>4, <2>2, <2>3, <2>4 DEF IInv
<1>6. CASE producer[c] = "signal"
  <2>1. producer'[c] = "free" /\ pending' = pending /\ edge' = edge \cup {Waker}
    BY <1>6 DEF Wake, IInv, Producers
  <2>2. Attended'
    BY <1>1, <1>3, <1>4, <1>6, <2>1 DEF IInv, Attended, HasEvent
  <2>3. Signalled'
    BY <2>1 DEF Signalled
  <2>4. Places'
    BY <1>1, <1>2, <2>1 DEF IInv, Places
  <2> QED BY <1>2, <1>4, <2>2, <2>3, <2>4 DEF IInv
<1> QED BY <1>5, <1>6 DEF Wake

LEMMA TickStep == ASSUME IInv, Tick PROVE IInv'
<1> DEFINE age(c) == Lesser(conn[c].age + 1, IO_TIMEOUT + 1)
<1>1. /\ UNCHANGED <<producer, pending, events, at, turn, edge, sock>>
      /\ conn' = [c \in Clients |->
                    IF c \in Tracked THEN [conn[c] EXCEPT !.age = age(c)] ELSE conn[c]]
  BY DEF Tick, wakeups, clients
<1>2. ASSUME NEW c \in Tracked
      PROVE  /\ [conn[c] EXCEPT !.age = age(c)] \in Conn
             /\ c \in Tracked'
             /\ Due(c)' => Due(c)
  <2>1. conn[c] \in Conn /\ c \in Clients
    BY TrackedType DEF IInv, Tracked
  <2>2. age(c) \in Int
    <3>1. conn[c].age + 1 \in Int /\ IO_TIMEOUT + 1 \in Int
      BY <2>1, Numbers
    <3> QED BY <3>1, LesserType
  <2> HIDE DEF age
  <2>3. [conn[c] EXCEPT !.age = age(c)] \in Conn
    BY <2>1, <2>2, WithAge
  <2>4. conn'[c] = [conn[c] EXCEPT !.age = age(c)]
    BY <1>1, <2>1
  <2>5. conn'[c].out = conn[c].out /\ (Ready(conn'[c]) <=> Ready(conn[c]))
    BY <2>1, <2>2, <2>4, WithAge
  <2>6. conn[c].tracked /\ conn'[c].tracked
    BY <2>1, <2>3, <2>4, Numbers
  <2>7. Due(c)' => Due(c)
    BY <2>5, <2>6 DEF Due, Ready, IsStreaming
  <2> QED BY <2>1, <2>3, <2>6, <2>7 DEF Tracked
<1> HIDE DEF age
<1>3. Typed'
  BY <1>1, <1>2 DEF IInv, Typed
<1>4. ASSUME NEW c \in Clients, Due(c)' PROVE Due(c)
  <2>1. CASE c \in Tracked
    BY <1>2, <1>4, <2>1
  <2>2. CASE c \notin Tracked
    <3>1. conn'[c] = conn[c]
      BY <1>1, <2>2
    <3> QED BY <1>4, <3>1 DEF Due, Ready, IsStreaming
  <2> QED BY <2>1, <2>2
<1> QED BY <1>1, <1>2, <1>3, <1>4, Aside

-----------------------------------------------------------------------------
(* The steps of the loop.                                                    *)

\* The loop goes from one place to another and leaves connections alone.
LEMMA LoopMoves ==
    ASSUME IInv, UNCHANGED <<conn, sock, producer, pending>>, at # "pump", at' # "pump",
           Waker \in edge => Waker \in edge' \/ HasEvent(Waker)',
           \A t \in Clients \cup {Waker} : HasEvent(t) => HasEvent(t)',
           at' \in {"top", "poll"} => events' = {}
    PROVE  IInv'
<1>1. Typed' /\ Producers'
  BY DEF IInv, Typed, Producers
<1>2. Attended'
  BY DEF IInv, Attended, Due, Ready, IsStreaming
<1>3. Signalled'
  BY DEF IInv, Signalled
<1>4. Places'
  BY DEF IInv, Places
<1> QED BY <1>1, <1>2, <1>3, <1>4 DEF IInv

LEMMA PollStep == ASSUME IInv, PollWait PROVE IInv'
<1>1. /\ UNCHANGED <<conn, sock, producer, pending>> /\ at = "poll" /\ at' = "events"
      /\ events' = {e \in Delivered : e.token = Listener => backoff # "on" /\ grace = None}
  BY DEF PollWait, clients, wakeups
<1>2. events = {}
  BY <1>1 DEF IInv, Places
<1>3. Waker \in edge => HasEvent(Waker)'
  <2> SUFFICES ASSUME Waker \in edge PROVE \E e \in events' : e.token = Waker
    BY DEF HasEvent
  <2>1. Holds(Waker)
    BY MioAssumption DEF Holds
  <2> DEFINE e == [token |-> Waker, readable |-> Waker \in Clients /\ Readable(Waker)]
  <2>2. e \in Delivered
    BY <2>1 DEF Delivered
  <2>3. e.token = Waker
    OBVIOUS
  <2> HIDE DEF e
  <2> QED BY <1>1, <2>2, <2>3, MioAssumption
<1>4. \A t \in Clients \cup {Waker} : ~HasEvent(t)
  BY <1>2 DEF HasEvent
<1> QED BY <1>1, <1>3, <1>4, LoopMoves

LEMMA AcceptStep ==
    ASSUME IInv, \/ AcceptDone \/ AcceptFails \/ (\E c \in Clients : AcceptOne(c))
                 \/ (\E e \in events : OnListener(e))
    PROVE  IInv'
<1>1. CASE AcceptDone \/ AcceptFails
  <2>1. UNCHANGED <<conn, sock, producer, pending, edge, events>> /\ at = "accept" /\ at' = "events"
    BY <1>1 DEF AcceptDone, AcceptFails, clients, wakeups
  <2>2. \A t \in Clients \cup {Waker} : HasEvent(t) => HasEvent(t)'
    BY <2>1 DEF HasEvent
  <2> QED BY <2>1, <2>2, LoopMoves
<1>2. CASE \E e \in events : OnListener(e)
  <2>1. PICK e \in events : OnListener(e)
    BY <1>2
  <2>2. /\ UNCHANGED <<conn, sock, producer, pending, edge>> /\ events' = events \ {e}
        /\ e.token = Listener /\ at = "events" /\ at' = "accept"
    BY <2>1 DEF OnListener, Goes, clients, wakeups
  <2>3. \A t \in Clients \cup {Waker} : HasEvent(t) => HasEvent(t)'
    BY <2>2, MioAssumption DEF HasEvent
  <2> QED BY <2>2, <2>3, LoopMoves
<1>3. CASE \E c \in Clients : AcceptOne(c)
  <2>1. PICK c \in Clients : AcceptOne(c)
    BY <1>3
  <2>2. /\ UNCHANGED <<producer, pending, events, turn>> /\ at = "accept" /\ at' = "accept"
        /\ Waker \in edge => Waker \in edge'
    BY <2>1 DEF AcceptOne, Accepted, wakeups
  <2>3. sock' \in [Clients -> Sock]
    <3>1. NoSock \in Sock
      BY DEF NoSock, Sock
    <3> QED BY <2>1, <3>1 DEF AcceptOne, Accepted, IInv, Typed
  <2>4. NewConn \in Conn /\ ~Ready(NewConn)
    BY SizeAssumption DEF NewConn, Conn, Ready, IsStreaming
  <2>5. conn' = conn \/ conn' = [conn EXCEPT ![c] = NewConn]
    BY <2>1 DEF AcceptOne
  <2>6. Typed'
    BY <2>3, <2>4, <2>5 DEF IInv, Typed
  <2>7. ASSUME NEW d \in Clients, Due(d)' PROVE Due(d)
    <3>1. d # c \/ conn' = conn
      BY <2>4, <2>5, <2>7 DEF Due, IInv, Typed
    <3>2. conn'[d] = conn[d]
      BY <2>5, <3>1 DEF IInv, Typed
    <3> QED BY <2>7, <3>2 DEF Due, Ready, IsStreaming
  <2>8. Tracked \subseteq Tracked'
    BY <2>4, <2>5 DEF Tracked, IInv, Typed, Conn
  <2> QED BY <2>2, <2>6, <2>7, <2>8, Aside
<1> QED BY <1>1, <1>2, <1>3

\* The list is taken only together with the signal's event; its tokens become events.
LEMMA WakerStep == ASSUME IInv, NEW e \in events, OnWaker(e) PROVE IInv'
<1>1. /\ UNCHANGED <<conn, sock, producer, edge, turn>> /\ pending' = {} /\ e.token = Waker
      /\ at = "events" /\ at' = "events"
      /\ events' = (events \ {e}) \cup {[token |-> c, readable |-> FALSE] : c \in pending}
  BY DEF OnWaker, Goes, clients
<1>2. Typed' /\ Producers' /\ Tracked' = Tracked
  BY <1>1 DEF IInv, Typed, Producers, Tracked
<1>3. ASSUME NEW c \in Clients, HasEvent(c) \/ c \in pending PROVE HasEvent(c)'
  <2>1. CASE HasEvent(c)
    BY <1>1, <2>1, MioAssumption DEF HasEvent
  <2>2. CASE c \in pending
    <3> DEFINE f == [token |-> c, readable |-> FALSE]
    <3>1. f \in events' /\ f.token = c
      BY <1>1, <2>2
    <3> HIDE DEF f
    <3> QED BY <3>1 DEF HasEvent
  <2> QED BY <1>3, <2>1, <2>2
<1>4. Attended'
  BY <1>1, <1>3 DEF IInv, Attended, Due, Ready, IsStreaming
<1>5. Signalled' /\ Places'
  BY <1>1 DEF Signalled, Places
<1> QED BY <1>2, <1>4, <1>5 DEF IInv

\* A step of the loop about one connection: it is dropped, has the loop's attention
\* from now on, or has nothing due; it takes at most its own event.
LEMMA OneConn ==
    ASSUME IInv, NEW c \in Clients, Typed', UNCHANGED <<producer, pending>>,
           \A d \in Clients \ {c} : conn'[d] = conn[d],
           \A t \in Clients \cup {Waker} : t # c /\ HasEvent(t) => HasEvent(t)',
           Waker \in edge => Waker \in edge',
           at = "pump" => turn = c,
           \/ at' = "pump" /\ turn' = c /\ c \in Tracked'
           \/ at' = "events" /\ ~Due(c)'
    PROVE  IInv'
<1>1. Attended'
  <2> SUFFICES ASSUME NEW d \in Clients, Due(d)'
               PROVE  \/ producer'[d] = "list" \/ d \in pending' \/ HasEvent(d)'
                      \/ at' = "pump" /\ turn' = d
    BY DEF Attended
  <2>1. CASE d = c
    BY <2>1
  <2>2. CASE d # c
    <3>1. Due(d)
      BY <2>2 DEF Due, Ready, IsStreaming
    <3> QED BY <2>2, <3>1 DEF IInv, Attended
  <2> QED BY <2>1, <2>2
<1>2. Signalled'
  <2>1. Waker # c
    BY MioAssumption
  <2> QED BY <2>1 DEF IInv, Signalled
<1>3. Places' /\ Producers'
  BY DEF IInv, Places, Producers
<1> QED BY <1>1, <1>2, <1>3 DEF IInv

LEMMA DropGives ==
    ASSUME Typed, NEW c \in Clients, Drop(c)
    PROVE  /\ Typed' /\ ~Due(c)' /\ \A d \in Clients \ {c} : conn'[d] = conn[d]
           /\ Waker \in edge => Waker \in edge'
<1>1. NoSock \in Sock
  BY DEF NoSock, Sock
<1>2. Typed'
  BY <1>1 DEF Drop, Typed
<1>3. conn'[c] = NoConn
  BY DEF Drop, Typed
<1>4. ~Due(c)'
  BY <1>3 DEF Due, NoConn
<1> QED BY <1>2, <1>4, MioAssumption DEF Drop, Typed

LEMMA ConnStep == ASSUME IInv, NEW e \in events, OnConn(e) PROVE IInv'
<1> DEFINE c == e.token
           read == [[conn[c] EXCEPT !.asked = conn[c].asked + sock[c].asked]
                       EXCEPT !.readClosed = sock[c].eof]
           o == ToSend(Serve(read, Want[c]), Want[c])
<1>1. /\ c \in Clients /\ events' = events \ {e} /\ UNCHANGED <<producer, pending>>
      /\ at = "events"
  BY DEF OnConn, wakeups
<1>2. \A t \in Clients \cup {Waker} : t # c /\ HasEvent(t) => HasEvent(t)'
  BY <1>1 DEF HasEvent
<1>3. CASE c \notin Tracked /\ UNCHANGED <<conn, door, sock, edge, at, turn>>
  <2>1. Typed' /\ ~Due(c)'
    BY <1>3, <1>1 DEF IInv, Typed, Due, Tracked
  <2> QED BY <1>1, <1>2, <1>3, <2>1, OneConn
<1>4. CASE Drop(c) /\ UNCHANGED <<at, turn>>
  BY <1>1, <1>2, <1>4, DropGives, OneConn DEF IInv
<1>5. CASE /\ c \in Tracked
           /\ \E a : conn' = [conn EXCEPT ![c] = [[o.conn EXCEPT !.out = o.conn.out + o.bytes] EXCEPT !.age = a]]
                     /\ a \in {0, o.conn.age}
           /\ sock' = [sock EXCEPT ![c].asked = 0] /\ at' = "pump" /\ turn' = c /\ UNCHANGED edge
  <2>1. conn[c] \in Conn /\ sock[c] \in Sock /\ Want[c] \in Wants
    BY <1>1, <1>5, TrackedType, MioAssumption DEF IInv, Typed, Wants
  <2>2. conn[c].asked + sock[c].asked \in Int /\ sock[c].eof \in BOOLEAN
    BY <2>1, Numbers
  <2>3. read \in Conn
    BY <2>1, <2>2, WithAsked, WithReadClosed
  <2>4. o.conn \in Conn /\ o.bytes \in Nat
    <3> HIDE DEF read
    <3> QED BY <2>1, <2>3, ServeType, ToSendLeaves
  <2>5. PICK a : /\ conn' = [conn EXCEPT ![c] = [[o.conn EXCEPT !.out = o.conn.out + o.bytes] EXCEPT !.age = a]]
                 /\ a \in {0, o.conn.age}
    BY <1>5
  <2> DEFINE f == [[o.conn EXCEPT !.out = o.conn.out + o.bytes] EXCEPT !.age = a]
  <2>6. f \in Conn
    <3> HIDE DEF o
    <3>1. o.conn.out + o.bytes \in Int /\ a \in Int
      <4>1. o.conn.out \in Int /\ o.conn.age \in Int
        BY <2>4, Numbers
      <4> QED BY <2>4, <2>5, <4>1
    <3>2. [o.conn EXCEPT !.out = o.conn.out + o.bytes] \in Conn
      BY <2>4, <3>1, WithOut
    <3> QED BY <3>1, <3>2, WithAge
  <2>7. conn' = [conn EXCEPT ![c] = f]
    BY <2>5
  <2> HIDE DEF f, o, read
  <2>8. sock' \in [Clients -> Sock]
    BY <1>1, <1>5, <2>1 DEF IInv, Typed, Sock
  <2>9. Typed' /\ c \in Tracked'
    BY <1>1, <2>6, <2>7, <2>8 DEF IInv, Typed, Tracked, Conn
  <2>10. \A d \in Clients \ {c} : conn'[d] = conn[d]
    BY <2>7 DEF IInv, Typed
  <2> QED BY <1>1, <1>2, <1>5, <2>9, <2>10, OneConn
<1>6. CASE /\ c \in Tracked /\ at' = "pump" /\ turn' = c
           /\ UNCHANGED <<conn, door, sock, edge>>
  <2>1. Typed' /\ c \in Tracked'
    BY <1>6 DEF IInv, Typed, Tracked
  <2> QED BY <1>1, <1>2, <1>6, <2>1, OneConn
<1> QED BY <1>3, <1>4, <1>5, <1>6 DEF OnConn

\* A connection that is settled has nothing due.
LEMMA SettleGives ==
    ASSUME Typed, NEW c \in Clients, NEW e \in Conn, NEW n \in Int, Settle(c, e, n),
           e.out = 0 => ~Ready(e)
    PROVE  /\ Typed' /\ ~Due(c)' /\ at' = "events"
           /\ \A d \in Clients \ {c} : conn'[d] = conn[d]
           /\ Waker \in edge => Waker \in edge'
<1>1. CASE IsDone(e)
  BY <1>1, DropGives DEF Settle
<1>2. CASE ~IsDone(e)
  <2> DEFINE f == [e EXCEPT !.writable = Interest(e)]
  <2>1. f \in Conn /\ f.out = e.out /\ (Ready(f) <=> Ready(e))
    <3>1. Interest(e) \in BOOLEAN
      BY DEF Interest
    <3> QED BY <3>1, WithWritable
  <2>2. conn' = [conn EXCEPT ![c] = f] /\ sock' = [sock EXCEPT ![c].sent = n] /\ at' = "events"
        /\ (Waker \in edge => Waker \in edge')
    BY <1>2 DEF Settle
  <2> HIDE DEF f
  <2>3. sock' \in [Clients -> Sock]
    BY <2>2 DEF Typed, Sock
  <2>4. Typed' /\ conn'[c] = f /\ \A d \in Clients \ {c} : conn'[d] = conn[d]
    BY <2>1, <2>2, <2>3 DEF Typed
  <2>5. ~Due(c)'
    BY <2>1, <2>4 DEF Due, Ready, IsStreaming
  <2> QED BY <2>2, <2>4, <2>5
<1> QED BY <1>1, <1>2

LEMMA PumpStep == ASSUME IInv, Pump PROVE IInv'
<1>1. PICK c \in Clients : c = turn /\ c \in Tracked
  BY DEF Pump, IInv, Places, Tracked
<1> DEFINE n == Lesser(conn[c].out, ROOM - sock[c].sent)
           flushed == [conn[c] EXCEPT !.out = conn[c].out - n]
           o == ToSend(flushed, Want[c])
           sent == sock[c].sent + n
<1>2. conn[c] \in Conn /\ sock[c] \in Sock /\ Want[c] \in Wants
  BY <1>1, TrackedType, MioAssumption DEF IInv, Typed, Wants
<1>3. n \in Int /\ conn[c].out - n \in Int /\ sent \in Int
  <2>1. conn[c].out \in Int /\ sock[c].sent \in Int /\ ROOM \in Int
    BY <1>2, Numbers
  <2>2. ROOM - sock[c].sent \in Int
    BY <2>1
  <2>3. n \in Int
    BY <2>1, <2>2, LesserType
  <2> HIDE DEF n
  <2> QED BY <2>1, <2>3
<1>4. flushed \in Conn
  <2> HIDE DEF n
  <2> QED BY <1>2, <1>3, WithOut
<1>5. o.conn \in Conn /\ o.bytes \in Nat /\ (o.bytes = 0 => ~Ready(o.conn))
  <2> HIDE DEF flushed
  <2> QED BY <1>2, <1>4, ToSendLeaves
<1>6. /\ UNCHANGED <<producer, pending, events>> /\ at = "pump"
      /\ \/ Drop(c) /\ at' = "events"
         \/ (flushed.out > 0 \/ ~HasOutput(flushed)) /\ Settle(c, flushed, sent)
         \/ o.bytes = 0 /\ Settle(c, o.conn, sent)
         \/ /\ conn' = [conn EXCEPT ![c] = [o.conn EXCEPT !.out = o.bytes]]
            /\ sock' = [sock EXCEPT ![c].sent = sent]
            /\ UNCHANGED <<door, edge, at, turn>>
  BY <1>1 DEF Pump, wakeups
<1> HIDE DEF o, flushed, sent, n
<1>7. \A t \in Clients \cup {Waker} : HasEvent(t) => HasEvent(t)'
  BY <1>6 DEF HasEvent
<1>8. CASE Drop(c) /\ at' = "events"
  BY <1>1, <1>6, <1>7, <1>8, DropGives, OneConn DEF IInv
<1>9. CASE (flushed.out > 0 \/ ~HasOutput(flushed)) /\ Settle(c, flushed, sent)
  <2>1. flushed.out = 0 => ~Ready(flushed)
    <3>1. ~HasOutput(flushed) => ~Ready(flushed)
      BY SizeAssumption DEF HasOutput, Ready, IsStreaming
    <3> QED BY <1>9, <3>1
  <2> QED BY <1>1, <1>3, <1>4, <1>6, <1>7, <1>9, <2>1, SettleGives, OneConn DEF IInv
<1>10. CASE o.bytes = 0 /\ Settle(c, o.conn, sent)
  BY <1>1, <1>3, <1>5, <1>6, <1>7, <1>10, SettleGives, OneConn DEF IInv
<1>11. CASE /\ conn' = [conn EXCEPT ![c] = [o.conn EXCEPT !.out = o.bytes]]
            /\ sock' = [sock EXCEPT ![c].sent = sent]
            /\ UNCHANGED <<door, edge, at, turn>>
  <2>1. [o.conn EXCEPT !.out = o.bytes] \in Conn
    BY <1>5, WithOut
  <2>2. sock' \in [Clients -> Sock]
    BY <1>2, <1>3, <1>11 DEF IInv, Typed, Sock
  <2>3. Typed' /\ c \in Tracked'
    BY <1>1, <1>11, <2>1, <2>2 DEF IInv, Typed, Tracked, Conn
  <2>4. \A d \in Clients \ {c} : conn'[d] = conn[d]
    BY <1>11 DEF IInv, Typed
  <2> QED BY <1>1, <1>6, <1>7, <1>11, <2>3, <2>4, OneConn
<1> QED BY <1>6, <1>8, <1>9, <1>10, <1>11

LEMMA SweepStep == ASSUME IInv, Sweep PROVE IInv'
<1> DEFINE kept == {c \in Tracked : IsStreaming(conn[c]) \/ conn[c].age <= IO_TIMEOUT}
           gone == IF sweepDue THEN Tracked \ kept ELSE {}
           swept(c) == CASE c \in gone -> NoConn
                         [] c \in Tracked \ gone /\ sweepDue /\ IsStreaming(conn[c]) ->
                              [conn[c] EXCEPT !.age = 0]
                         [] OTHER -> conn[c]
<1>1. /\ at = "events" /\ at' = "top" /\ events = {} /\ gone \subseteq Clients
      /\ conn' = [c \in Clients |-> swept(c)]
      /\ sock' = [c \in Clients |-> IF c \in gone THEN NoSock ELSE sock[c]]
      /\ edge' = edge \ gone /\ UNCHANGED <<producer, pending, events>>
  BY DEF Sweep, wakeups, Tracked
<1>2. ASSUME NEW c \in Clients
      PROVE  swept(c) \in Conn \cup {NoConn} /\ (Due(c)' => Due(c))
  <2>1. conn'[c] = swept(c)
    BY <1>1
  <2>2. CASE c \in gone
    <3>1. swept(c) = NoConn
      BY <2>2
    <3> HIDE DEF swept
    <3> QED BY <2>1, <3>1 DEF Due, NoConn
  <2>3. CASE c \notin gone /\ c \in Tracked \ gone /\ sweepDue /\ IsStreaming(conn[c])
    <3>1. swept(c) = [conn[c] EXCEPT !.age = 0]
      BY <2>3
    <3>2. conn[c] \in Conn
      BY <2>3, TrackedType DEF IInv
    <3>3. /\ [conn[c] EXCEPT !.age = 0] \in Conn
          /\ [conn[c] EXCEPT !.age = 0].out = conn[c].out
          /\ Ready([conn[c] EXCEPT !.age = 0]) <=> Ready(conn[c])
      BY <3>2, WithAge
    <3>4. conn[c].tracked
      BY <3>2, Numbers
    <3> HIDE DEF swept
    <3>5. conn'[c] = [conn[c] EXCEPT !.age = 0]
      BY <2>1, <3>1
    <3>6. Due(c)' => Due(c)
      BY <3>3, <3>4, <3>5 DEF Due, Ready, IsStreaming
    <3> QED BY <3>1, <3>3, <3>6
  <2>4. CASE c \notin gone /\ ~(c \in Tracked \ gone /\ sweepDue /\ IsStreaming(conn[c]))
    <3>1. swept(c) = conn[c]
      BY <2>4
    <3> HIDE DEF swept
    <3> QED BY <2>1, <3>1 DEF Due, Ready, IsStreaming, IInv, Typed
  <2> QED BY <2>2, <2>3, <2>4
<1> HIDE DEF swept, gone
<1>3. Typed'
  <2>1. NoSock \in Sock
    BY DEF NoSock, Sock
  <2> QED BY <1>1, <1>2, <2>1 DEF IInv, Typed
<1>4. Attended'
  BY <1>1, <1>2 DEF IInv, Attended, HasEvent
<1>5. Signalled'
  BY <1>1, MioAssumption DEF IInv, Signalled, HasEvent
<1>6. Places' /\ Producers'
  BY <1>1 DEF IInv, Places, Producers
<1> QED BY <1>3, <1>4, <1>5, <1>6 DEF IInv

LEMMA NextIInv == ASSUME IInv, [Next]_vars PROVE IInv'
<1>1. CASE Top
  <2>1. /\ UNCHANGED <<conn, sock, producer, pending, edge, events>> /\ at = "top"
        /\ at' \in {"stopped", "poll"}
    BY <1>1 DEF Top, clients, wakeups
  <2>2. events = {}
    BY <2>1 DEF IInv, Places
  <2>3. \A t \in Clients \cup {Waker} : HasEvent(t) => HasEvent(t)'
    BY <2>1 DEF HasEvent
  <2> QED BY <2>1, <2>2, <2>3, LoopMoves
<1>2. CASE PollWait
  BY <1>2, PollStep
<1>3. CASE AcceptDone \/ AcceptFails \/ (\E c \in Clients : AcceptOne(c))
           \/ (\E e \in events : OnListener(e))
  BY <1>3, AcceptStep
<1>4. CASE \E e \in events : OnWaker(e)
  BY <1>4, WakerStep
<1>5. CASE \E e \in events : OnConn(e)
  BY <1>5, ConnStep
<1>6. CASE Pump
  BY <1>6, PumpStep
<1>7. CASE Sweep
  BY <1>7, SweepStep
<1>8. CASE \E c \in Clients : Knock(c) \/ Ask(c) \/ Shut(c) \/ Reset(c) \/ Take(c)
  BY <1>8, ClientStep
<1>9. CASE \E c \in Clients : Produce(c) \/ Wake(c)
  BY <1>9, ProduceStep, WakeStep
<1>10. CASE Tick
  BY <1>10, TickStep
<1>11. CASE Trigger \/ UNCHANGED vars
  <2>1. UNCHANGED <<conn, sock, producer, pending, edge, events, at, turn>>
    BY <1>11 DEF Trigger, vars, clients, wakeups
  <2>2. Typed' /\ Tracked' = Tracked
    BY <2>1 DEF IInv, Typed, Tracked
  <2>3. \A c \in Clients : Due(c)' => Due(c)
    BY <2>1 DEF Due, Ready, IsStreaming
  <2> QED BY <2>1, <2>2, <2>3, Aside
<1> QED BY <1>1, <1>2, <1>3, <1>4, <1>5, <1>6, <1>7, <1>8, <1>9, <1>10, <1>11
        DEF Next, EventLoop, Environment

\* When the loop waits, whatever a streamed body has to send has a wake-up on its way
\* (rt/mio.rs, Wakeups and the waker's event), however the steps of the producers fall
\* between the loop's.
THEOREM NoWakeLost == Spec => []WakeNotLost
<1>1. IInv => WakeNotLost
  <2> SUFFICES ASSUME IInv, Waiting, NEW c \in Tracked, Due(c), producer[c] = "free"
               PROVE  c \in pending /\ Waker \in edge
    BY DEF WakeNotLost, Due, Ready, Tracked
  <2>1. events = {} /\ at = "poll" /\ c \in Clients
    BY DEF Waiting, Tracked
  <2>2. c \in pending
    BY <2>1 DEF IInv, Attended, HasEvent
  <2>3. Waker \in edge
    BY <2>1, <2>2 DEF IInv, Signalled, HasEvent
  <2> QED BY <2>2, <2>3
<1> QED BY <1>1, InitIInv, NextIInv, PTL DEF Spec

-----------------------------------------------------------------------------
(* The backlog.                                                              *)

ListenerEvent == [token |-> Listener, readable |-> FALSE]

\* Unless the accept has failed or the drain begun, whoever waits to be accepted has an
\* event coming, or one at hand, or the loop's attention; and no such event comes while
\* the loop backs off.
Waited ==
    /\ ~failed /\ grace = None /\ Backlog # {} =>
          Listener \in edge \/ HasEvent(Listener) \/ at = "accept"
    /\ backoff = "on" => failed
    /\ HasEvent(Listener) \/ at = "accept" => backoff # "on"
    /\ at = "accept" => ~HasEvent(Listener)
    /\ \A e \in events : e.token = Listener => e = ListenerEvent

Doors == door \in [Clients -> {"away", "knocking", "open", "gone"}]

Drains == grace \in Int \cup {None}

BInv == Waited /\ Doors /\ Drains

\* A step that brings no client to the backlog and handles no listener event.
LEMMA Elsewhere ==
    ASSUME BInv, Doors', Backlog' \subseteq Backlog, UNCHANGED <<failed, backoff, grace>>,
           Listener \in edge => Listener \in edge',
           \A e \in events \cup events' : e.token = Listener => (e \in events <=> e \in events'),
           at = "accept" <=> at' = "accept"
    PROVE  BInv'
<1>1. HasEvent(Listener)' <=> HasEvent(Listener)
  BY DEF HasEvent
<1>2. \A e \in events' : e.token = Listener => e = ListenerEvent
  BY DEF BInv, Waited
<1> QED BY <1>1, <1>2 DEF BInv, Waited, ListenerEvent, Drains

LEMMA DropLeaves ==
    ASSUME Doors, NEW c \in Clients, Drop(c)
    PROVE  Doors' /\ Backlog' \subseteq Backlog /\ (Listener \in edge => Listener \in edge')
BY MioAssumption DEF Drop, Doors, Backlog

LEMMA ConnBInv == ASSUME Places, BInv, NEW e \in events, OnConn(e) PROVE BInv'
<1>1. /\ e.token \in Clients /\ events' = events \ {e} /\ at = "events"
      /\ UNCHANGED <<failed, backoff, grace>> /\ at' # "accept"
  BY DEF OnConn, time
<1>2. Doors' /\ Backlog' \subseteq Backlog /\ (Listener \in edge => Listener \in edge')
  <2>1. Drop(e.token) \/ UNCHANGED <<door, edge>>
    BY DEF OnConn
  <2>2. CASE Drop(e.token)
    BY <1>1, <2>2, DropLeaves DEF BInv
  <2>3. CASE UNCHANGED <<door, edge>>
    BY <2>3 DEF BInv, Doors, Backlog
  <2> QED BY <2>1, <2>2, <2>3
<1>3. e.token # Listener
  BY <1>1, MioAssumption
<1> QED BY <1>1, <1>2, <1>3, Elsewhere

LEMMA PumpBInv == ASSUME Places, BInv, Pump PROVE BInv'
<1>1. PICK c \in Clients : c = turn
  BY DEF Pump, Places, Tracked
<1>2. /\ UNCHANGED <<events, failed, backoff, grace>> /\ at = "pump" /\ at' # "accept"
      /\ Drop(c) \/ (UNCHANGED door /\ (Listener \in edge => Listener \in edge'))
  BY <1>1 DEF Pump, Settle, time
<1>3. Doors' /\ Backlog' \subseteq Backlog /\ (Listener \in edge => Listener \in edge')
  <2>1. CASE Drop(c)
    BY <2>1, DropLeaves DEF BInv
  <2>2. CASE UNCHANGED door /\ (Listener \in edge => Listener \in edge')
    BY <2>2 DEF BInv, Doors, Backlog
  <2> QED BY <1>2, <2>1, <2>2
<1> QED BY <1>2, <1>3, Elsewhere

LEMMA SweepBInv == ASSUME BInv, Sweep PROVE BInv'
<1>1. PICK gone \in SUBSET Clients :
        /\ door' = [c \in Clients |-> IF c \in gone THEN "gone" ELSE door[c]]
        /\ edge' = edge \ gone
  BY DEF Sweep, Tracked
<1>2. UNCHANGED <<events, failed, backoff, grace>> /\ at = "events" /\ at' = "top"
  BY DEF Sweep
<1>3. Doors' /\ Backlog' \subseteq Backlog /\ (Listener \in edge => Listener \in edge')
  BY <1>1, MioAssumption DEF BInv, Doors, Backlog
<1> QED BY <1>2, <1>3, Elsewhere

LEMMA PollBInv == ASSUME Places, BInv, PollWait PROVE BInv'
<1>1. /\ UNCHANGED <<door, failed, grace>> /\ at = "poll" /\ at' = "events" /\ edge' = {}
      /\ events' = {e \in Delivered : e.token = Listener => backoff # "on" /\ grace = None}
      /\ backoff' = (IF backoff = "past" THEN "none" ELSE backoff)
  BY DEF PollWait, clients
<1>2. events = {}
  BY <1>1 DEF Places
<1>3. Doors' /\ Backlog' = Backlog
  BY <1>1 DEF BInv, Doors, Backlog
<1>4. ASSUME ~failed, grace = None, Backlog # {} PROVE HasEvent(Listener)'
  <2>1. Listener \in edge /\ backoff # "on"
    BY <1>1, <1>2, <1>4 DEF BInv, Waited, HasEvent
  <2>2. Holds(Listener)
    BY <1>4 DEF Holds
  <2> DEFINE e == [token |-> Listener, readable |-> Listener \in Clients /\ Readable(Listener)]
  <2>3. e \in Delivered
    BY <2>1, <2>2 DEF Delivered
  <2>4. e.token = Listener
    OBVIOUS
  <2> HIDE DEF e
  <2>5. e \in events'
    BY <1>1, <1>4, <2>1, <2>3
  <2> QED BY <2>4, <2>5 DEF HasEvent
<1>5. \A e \in events' : e.token = Listener => e = ListenerEvent
  <2> SUFFICES ASSUME NEW e \in Delivered, e.token = Listener PROVE e = ListenerEvent
    BY <1>1
  <2>1. PICK t \in edge : e = [token |-> t, readable |-> t \in Clients /\ Readable(t)]
    BY DEF Delivered
  <2>2. t = Listener
    BY <2>1
  <2>3. (t \in Clients /\ Readable(t)) = FALSE
    BY <2>2, MioAssumption
  <2> QED BY <2>1, <2>2, <2>3 DEF ListenerEvent
<1>6. HasEvent(Listener)' => backoff' # "on"
  BY <1>1 DEF HasEvent
<1> QED BY <1>1, <1>3, <1>4, <1>5, <1>6 DEF BInv, Waited, ListenerEvent, Drains

LEMMA NextBInv == ASSUME Places, BInv, [Next]_vars PROVE BInv'
<1>1. CASE \E c \in Clients : Knock(c)
  <2>1. PICK c \in Clients : Knock(c)
    BY <1>1
  <2>2. /\ Listener \in edge' /\ UNCHANGED <<events, at, failed, backoff, grace>>
        /\ door' = [door EXCEPT ![c] = "knocking"]
    BY <2>1 DEF Knock, time
  <2>3. Doors'
    BY <2>2 DEF BInv, Doors
  <2> QED BY <2>2, <2>3 DEF BInv, Waited, HasEvent, ListenerEvent, Drains
<1>2. CASE \/ \E c \in Clients : Ask(c) \/ Shut(c) \/ Reset(c) \/ Take(c) \/ Produce(c) \/ Wake(c)
           \/ Trigger \/ UNCHANGED vars
  <2>1. /\ UNCHANGED <<door, events, at, failed, backoff, grace>>
        /\ Listener \in edge => Listener \in edge'
    BY <1>2 DEF Ask, Shut, Reset, Take, Happens, Produce, Wake, Trigger, vars, clients, time
  <2>2. Doors' /\ Backlog' = Backlog
    BY <2>1 DEF BInv, Doors, Backlog
  <2> QED BY <2>1, <2>2, Elsewhere
<1>3. CASE Tick
  <2>1. /\ UNCHANGED <<door, edge, events, at, failed>>
        /\ grace' = (IF grace = None \/ grace = 0 THEN grace ELSE grace - 1)
        /\ backoff' = (IF backoff = "on" THEN "past" ELSE backoff)
    BY <1>3 DEF Tick, clients
  <2>3. Drains' /\ (grace' = None => grace = None)
    BY <2>1, MioAssumption DEF BInv, Drains
  <2>2. Doors' /\ Backlog' = Backlog
    BY <2>1 DEF BInv, Doors, Backlog
  <2> QED BY <2>1, <2>2, <2>3 DEF BInv, Waited, HasEvent, ListenerEvent, Drains
<1>4. CASE Top
  <2>1. /\ UNCHANGED <<door, edge, events, failed, backoff>>
        /\ grace' = (IF shutdown /\ grace = None THEN SHUTDOWN_GRACE ELSE grace)
        /\ at = "top" /\ at' # "accept"
    BY <1>4 DEF Top, clients
  <2>3. Drains' /\ (grace' = None => grace = None)
    BY <2>1, MioAssumption DEF BInv, Drains
  <2>2. Doors' /\ Backlog' = Backlog
    BY <2>1 DEF BInv, Doors, Backlog
  <2> QED BY <2>1, <2>2, <2>3 DEF BInv, Waited, HasEvent, ListenerEvent, Drains
<1>5. CASE PollWait
  BY <1>5, PollBInv
<1>6. CASE \E e \in events : OnListener(e)
  <2>1. PICK e \in events : OnListener(e)
    BY <1>6
  <2>2. /\ UNCHANGED <<door, edge, failed, backoff, grace>> /\ events' = events \ {e}
        /\ e.token = Listener /\ at' = "accept"
    BY <2>1 DEF OnListener, Goes, clients, time
  <2>3. ~HasEvent(Listener)' /\ HasEvent(Listener)
    BY <2>2 DEF BInv, Waited, HasEvent
  <2>4. Doors'
    BY <2>2 DEF BInv, Doors
  <2> QED BY <2>2, <2>3, <2>4 DEF BInv, Waited, ListenerEvent, Drains
<1>7. CASE \E e \in events : OnWaker(e)
  <2>1. PICK e \in events : OnWaker(e)
    BY <1>7
  <2>2. /\ UNCHANGED <<door, edge, failed, backoff, grace>> /\ e.token = Waker
        /\ at = "events" /\ at' = "events"
        /\ events' = (events \ {e}) \cup {[token |-> c, readable |-> FALSE] : c \in pending}
    BY <2>1 DEF OnWaker, Goes, clients, time
  <2>3. Doors' /\ Backlog' = Backlog
    BY <2>2 DEF BInv, Doors, Backlog
  <2>4. \A f \in events \cup events' : f.token = Listener => (f \in events <=> f \in events')
    BY <2>2, MioAssumption DEF Places
  <2> QED BY <2>2, <2>3, <2>4, Elsewhere
<1>8. CASE \E c \in Clients : AcceptOne(c)
  <2>1. PICK c \in Clients : AcceptOne(c)
    BY <1>8
  <2>2. /\ UNCHANGED <<events, failed, backoff, grace>> /\ at = "accept" /\ at' = "accept"
        /\ Listener \in edge => Listener \in edge'
        /\ \/ door' = [door EXCEPT ![c] = "gone"]
           \/ door' = [door EXCEPT ![c] = "open"]
    BY <2>1 DEF AcceptOne, Accepted, time
  <2>3. Doors' /\ Backlog' \subseteq Backlog
    BY <2>2 DEF BInv, Doors, Backlog
  <2> QED BY <2>2, <2>3, Elsewhere
<1>9. CASE AcceptDone \/ AcceptFails
  <2>1. /\ UNCHANGED <<door, edge, events>> /\ at = "accept" /\ at' = "events"
        /\ \/ failed' /\ ~HasEvent(Listener)
           \/ ~failed' /\ backoff' = backoff /\ Backlog = {}
    BY <1>9 DEF AcceptDone, AcceptFails, clients, BInv, Waited
  <2>2. Doors' /\ Backlog' = Backlog
    BY <2>1 DEF BInv, Doors, Backlog
  <2>3. Waited'
    <3>1. CASE failed' /\ ~HasEvent(Listener)
      BY <2>1, <3>1 DEF Waited, HasEvent
    <3>2. CASE ~failed' /\ backoff' = backoff /\ Backlog = {}
      BY <2>1, <2>2, <3>2 DEF BInv, Waited, HasEvent, ListenerEvent
    <3> QED BY <2>1, <3>1, <3>2
  <2>4. Drains'
    BY <1>9 DEF AcceptDone, AcceptFails, BInv, Drains
  <2> QED BY <2>2, <2>3, <2>4 DEF BInv
<1>10. CASE \E e \in events : OnConn(e)
  BY <1>10, ConnBInv
<1>11. CASE Pump
  BY <1>11, PumpBInv
<1>12. CASE Sweep
  BY <1>12, SweepBInv
<1> QED BY <1>1, <1>2, <1>3, <1>4, <1>5, <1>6, <1>7, <1>8, <1>9, <1>10, <1>11, <1>12
        DEF Next, EventLoop, Environment

LEMMA InitBInv == Init => BInv
<1> SUFFICES ASSUME Init PROVE BInv
  OBVIOUS
<1>1. Doors
  BY DEF Init, Doors
<1>2. Backlog = {}
  BY DEF Init, Backlog
<1>3. events = {} /\ backoff = "none" /\ at = "top" /\ grace = None
  BY DEF Init
<1> QED BY <1>1, <1>2, <1>3 DEF BInv, Waited, Drains, HasEvent

\* Clients in the backlog have an event coming when the loop waits, unless an accept
\* has failed or the drain has begun (rt/mio.rs, accept_ready and the back-off).
THEOREM BacklogNotForgotten == Spec => []BacklogSeen
<1>1. IInv => Places
  BY DEF IInv
<1>2. BInv /\ Places => BacklogSeen
  BY DEF BInv, Waited, BacklogSeen, Waiting, HasEvent
<1>3. Places /\ BInv /\ [Next]_vars => BInv'
  BY NextBInv
<1> QED BY <1>1, <1>2, <1>3, InitBInv, InitIInv, NextIInv, PTL DEF Spec

-----------------------------------------------------------------------------
(* The sockets.                                                              *)

\* What a connection's socket has for it, or has room for, has an event coming or at
\* hand, unless the loop is busy with that connection.
Seen(c) ==
    conn[c].tracked /\ ~(at = "pump" /\ turn = c) =>
        /\ Readable(c) /\ ~conn[c].readClosed =>
              c \in edge \/ \E e \in events : e.token = c /\ e.readable
        /\ conn[c].out > 0 => conn[c].writable
        /\ conn[c].out > 0 /\ Writable(c) => c \in edge \/ HasEvent(c)

SInv == \A c \in Clients : Seen(c)

\* A connection that a step does not concern.
LEMMA StillSeen ==
    ASSUME NEW d \in Clients, Seen(d), sock'[d] = sock[d], d \in edge => d \in edge',
           conn'[d].tracked => /\ conn[d].tracked /\ conn'[d].out = conn[d].out
                               /\ conn'[d].readClosed = conn[d].readClosed
                               /\ conn'[d].writable = conn[d].writable,
           \A e \in events : e.token = d => e \in events',
           at = "pump" /\ turn = d => at' = "pump" /\ turn' = d
    PROVE  Seen(d)'
<1>1. Readable(d)' <=> Readable(d)
  BY DEF Readable
<1>2. Writable(d)' <=> Writable(d)
  BY DEF Writable
<1> QED BY <1>1, <1>2 DEF Seen, HasEvent

LEMMA ClientSInv ==
    ASSUME IInv, SInv, NEW c \in Clients, Knock(c) \/ Ask(c) \/ Shut(c) \/ Reset(c) \/ Take(c)
    PROVE  SInv'
<1>1. /\ UNCHANGED <<conn, events, at, turn>> /\ edge \subseteq edge'
  BY DEF Knock, Ask, Shut, Reset, Take, Happens
<1>2. ASSUME NEW d \in Clients, d # c PROVE Seen(d)'
  <2>1. sock'[d] = sock[d]
    BY <1>2 DEF Knock, Ask, Shut, Reset, Take, Happens, IInv, Typed
  <2> QED BY <1>1, <2>1, StillSeen DEF SInv
<1>3. Seen(c)'
  <2>1. CASE Knock(c)
    BY <1>1, <2>1, StillSeen DEF SInv, Knock
  <2>2. CASE Ask(c) \/ Shut(c) \/ Reset(c)
    <3>1. conn[c].tracked => c \in edge'
      BY <2>2 DEF Ask, Shut, Reset, Happens
    <3> QED BY <1>1, <3>1 DEF SInv, Seen
  <2>3. CASE Take(c)
    <3>1. conn[c].tracked /\ conn[c].writable => c \in edge'
      BY <2>3 DEF Take, Happens
    <3>2. sock[c] \in Sock /\ sock'[c] = [sock[c] EXCEPT !.sent = sock[c].sent - 1]
      BY <2>3 DEF Take, Happens, IInv, Typed
    <3>3. sock'[c].asked = sock[c].asked /\ sock'[c].eof = sock[c].eof /\ sock'[c].err = sock[c].err
      BY <3>2 DEF Sock
    <3>4. Readable(c)' <=> Readable(c)
      BY <3>3 DEF Readable
    <3> QED BY <1>1, <3>1, <3>4 DEF SInv, Seen
  <2> QED BY <2>1, <2>2, <2>3
<1> QED BY <1>2, <1>3 DEF SInv

LEMMA ProducerSInv == ASSUME IInv, SInv, NEW c \in Clients, Produce(c) \/ Wake(c) PROVE SInv'
<1>1. /\ UNCHANGED <<sock, events, at, turn>> /\ edge \subseteq edge'
  BY DEF Produce, Wake, clients
<1>2. ASSUME NEW d \in Clients
      PROVE  conn'[d].tracked => /\ conn[d].tracked /\ conn'[d].out = conn[d].out
                                 /\ conn'[d].readClosed = conn[d].readClosed
                                 /\ conn'[d].writable = conn[d].writable
  <2>1. CASE Produce(c) /\ d = c
    <3>1. conn[c] \in Conn
      BY <2>1, TrackedType DEF Produce, Tracked, IInv
    <3>2. PICK f \in Produced(conn[c]) : conn' = [conn EXCEPT ![c] = f]
      BY <2>1 DEF Produce
    <3>3. f.out = conn[c].out /\ f.readClosed = conn[c].readClosed /\ f.writable = conn[c].writable
      BY <3>1, ProducedType
    <3>4. conn'[c] = f
      BY <3>2 DEF IInv, Typed
    <3> QED BY <2>1, <3>3, <3>4 DEF Produce
  <2>2. CASE ~(Produce(c) /\ d = c)
    <3>1. conn'[d] = conn[d]
      BY <2>2 DEF Produce, Wake, IInv, Typed
    <3> QED BY <3>1
  <2> QED BY <2>1, <2>2
<1> QED BY <1>1, <1>2, StillSeen DEF SInv

LEMMA TickSInv == ASSUME IInv, SInv, Tick PROVE SInv'
<1>1. UNCHANGED <<sock, edge, events, at, turn>>
  BY DEF Tick, clients
<1>2. ASSUME NEW d \in Clients
      PROVE  conn'[d].tracked => /\ conn[d].tracked /\ conn'[d].out = conn[d].out
                                 /\ conn'[d].readClosed = conn[d].readClosed
                                 /\ conn'[d].writable = conn[d].writable
  <2>1. CASE d \in Tracked
    <3> DEFINE age == Lesser(conn[d].age + 1, IO_TIMEOUT + 1)
    <3>1. conn[d] \in Conn /\ conn'[d] = [conn[d] EXCEPT !.age = age]
      BY <2>1, TrackedType DEF Tick, IInv
    <3>2. age \in Int
      <4>1. conn[d].age + 1 \in Int /\ IO_TIMEOUT + 1 \in Int
        BY <3>1, Numbers
      <4> QED BY <4>1, LesserType
    <3> HIDE DEF age
    <3> QED BY <3>1, <3>2, WithAge, Numbers
  <2>2. CASE d \notin Tracked
    BY <2>2 DEF Tick
  <2> QED BY <2>1, <2>2
<1> QED BY <1>1, <1>2, StillSeen DEF SInv

LEMMA PollSInv == ASSUME IInv, SInv, PollWait PROVE SInv'
<1>1. /\ UNCHANGED <<conn, sock>> /\ at = "poll" /\ at' = "events"
      /\ events' = {e \in Delivered : e.token = Listener => backoff # "on" /\ grace = None}
  BY DEF PollWait, clients
<1>2. events = {}
  BY <1>1 DEF IInv, Places
<1>3. ASSUME NEW c \in Clients PROVE Seen(c)'
  <2> DEFINE e == [token |-> c, readable |-> c \in Clients /\ Readable(c)]
  <2>1. c # Listener /\ c # Waker
    BY MioAssumption
  <2>2. c \in edge /\ Holds(c) => e \in events'
    <3>1. c \in edge /\ Holds(c) => e \in Delivered
      BY DEF Delivered
    <3>2. e.token # Listener
      BY <2>1
    <3> HIDE DEF e
    <3> QED BY <1>1, <3>1, <3>2
  <2>3. Holds(c) <=> (Readable(c) \/ (conn[c].writable /\ Writable(c)))
    BY <2>1 DEF Holds
  <2>4. e.token = c /\ (Readable(c) => e.readable)
    OBVIOUS
  <2>5. (Readable(c)' <=> Readable(c)) /\ (Writable(c)' <=> Writable(c))
    BY <1>1 DEF Readable, Writable
  <2>6. c \in edge /\ Readable(c) => \E f \in events' : f.token = c /\ f.readable
    <3> HIDE DEF e
    <3> QED BY <2>2, <2>3, <2>4
  <2>7. c \in edge /\ conn[c].writable /\ Writable(c) => \E f \in events' : f.token = c
    <3> HIDE DEF e
    <3> QED BY <2>2, <2>3, <2>4
  <2> HIDE DEF e
  <2> QED BY <1>1, <1>2, <2>5, <2>6, <2>7 DEF SInv, Seen, HasEvent
<1> QED BY <1>3 DEF SInv

\* A connection that is tracked was let in, and its client is not in the backlog.
Inside == \A c \in Clients : conn[c].tracked => door[c] = "open"

LEMMA AcceptSInv ==
    ASSUME IInv, SInv, Inside, NEW c \in Clients, AcceptOne(c) PROVE SInv'
<1>1. /\ UNCHANGED <<events, turn>> /\ at = "accept" /\ at' = "accept" /\ edge \subseteq edge'
  BY DEF AcceptOne, Accepted
<1>2. ASSUME NEW d \in Clients, d # c PROVE Seen(d)'
  <2>1. sock'[d] = sock[d] /\ conn'[d] = conn[d]
    BY <1>2 DEF AcceptOne, Accepted, IInv, Typed
  <2> QED BY <1>1, <2>1, StillSeen DEF SInv
<1>3. Seen(c)'
  <2>1. CASE UNCHANGED conn
    <3>1. ~conn[c].tracked
      BY DEF AcceptOne, Inside, Backlog
    <3> QED BY <2>1, <3>1 DEF Seen
  <2>2. CASE /\ sock' = sock /\ conn' = [conn EXCEPT ![c] = NewConn]
             /\ edge' = IF Readable(c) THEN edge \cup {c} ELSE edge
    <3>1. conn'[c] = NewConn /\ (Readable(c)' <=> Readable(c))
      BY <2>2 DEF IInv, Typed, Readable
    <3>2. ~(NewConn.out > 0)
      BY DEF NewConn
    <3> QED BY <2>2, <3>1, <3>2 DEF Seen
  <2> QED BY <2>1, <2>2 DEF AcceptOne, Accepted
<1> QED BY <1>2, <1>3 DEF SInv

LEMMA DropSeen ==
    ASSUME Typed, SInv, NEW c \in Clients, Drop(c), at' # "pump",
           at = "pump" => turn = c,
           \A e \in events : e.token # c => e \in events'
    PROVE  SInv'
<1>1. ASSUME NEW d \in Clients, d # c PROVE Seen(d)'
  <2>1. sock'[d] = sock[d] /\ conn'[d] = conn[d] /\ (d \in edge => d \in edge')
    BY <1>1 DEF Drop, Typed
  <2>2. \A e \in events : e.token = d => e \in events'
    BY <1>1
  <2>3. ~(at = "pump" /\ turn = d)
    BY <1>1
  <2> QED BY <2>1, <2>2, <2>3, StillSeen DEF SInv
<1>2. Seen(c)'
  <2>1. ~conn'[c].tracked
    BY DEF Drop, Typed, NoConn
  <2> QED BY <2>1 DEF Seen
<1> QED BY <1>1, <1>2 DEF SInv

LEMMA ConnSInv == ASSUME IInv, SInv, NEW e \in events, OnConn(e) PROVE SInv'
<1> DEFINE c == e.token
<1>1. c \in Clients /\ events' = events \ {e} /\ at = "events"
  BY DEF OnConn
<1>2. CASE c \notin Tracked /\ UNCHANGED <<conn, sock, edge, at>>
  <2>1. ASSUME NEW d \in Clients, d # c PROVE Seen(d)'
    BY <1>1, <1>2, <2>1, StillSeen DEF SInv
  <2>2. Seen(c)'
    BY <1>1, <1>2 DEF Seen, Tracked
  <2> QED BY <2>1, <2>2 DEF SInv
<1>3. CASE Drop(c) /\ UNCHANGED <<at, turn>>
  BY <1>1, <1>3, DropSeen DEF IInv
<1>4. CASE /\ at' = "pump" /\ turn' = c /\ UNCHANGED edge
           /\ \A d \in Clients \ {c} : conn'[d] = conn[d] /\ sock'[d] = sock[d]
  <2>1. ASSUME NEW d \in Clients, d # c PROVE Seen(d)'
    BY <1>1, <1>4, <2>1, StillSeen DEF SInv
  <2>2. Seen(c)'
    BY <1>4 DEF Seen
  <2> QED BY <2>1, <2>2 DEF SInv
<1>5. \/ c \notin Tracked /\ UNCHANGED <<conn, sock, edge, at>>
      \/ Drop(c) /\ UNCHANGED <<at, turn>>
      \/ /\ at' = "pump" /\ turn' = c /\ UNCHANGED edge
         /\ \A d \in Clients \ {c} : conn'[d] = conn[d] /\ sock'[d] = sock[d]
  BY DEF OnConn, IInv, Typed
<1> QED BY <1>2, <1>3, <1>4, <1>5

\* A connection that is settled is registered anew, for what holds now.
LEMMA SettleSeen ==
    ASSUME Typed, SInv, NEW c \in Clients, NEW e \in Conn, NEW n \in Int, Settle(c, e, n),
           at = "pump", turn = c, UNCHANGED events
    PROVE  SInv'
<1>1. CASE IsDone(e)
  BY <1>1, DropSeen DEF Settle
<1>2. CASE ~IsDone(e)
  <2> DEFINE f == [e EXCEPT !.writable = Interest(e)]
  <2>1. /\ conn' = [conn EXCEPT ![c] = f] /\ sock' = [sock EXCEPT ![c].sent = n]
        /\ edge' = (IF Readable(c) \/ (Interest(e) /\ n < ROOM) THEN edge \cup {c} ELSE edge)
        /\ at' = "events"
    BY <1>2 DEF Settle
  <2>2. f \in Conn /\ f.out = e.out /\ f.writable = Interest(e)
    <3>1. Interest(e) \in BOOLEAN
      BY DEF Interest
    <3> QED BY <3>1, WithWritable
  <2> HIDE DEF f
  <2>3. ASSUME NEW d \in Clients, d # c PROVE Seen(d)'
    <3>1. sock'[d] = sock[d] /\ conn'[d] = conn[d] /\ (d \in edge => d \in edge')
      BY <2>1, <2>3 DEF Typed
    <3> QED BY <2>3, <3>1, StillSeen DEF SInv
  <2>4. Seen(c)'
    <3>1. conn'[c] = f /\ sock'[c] = [sock[c] EXCEPT !.sent = n] /\ sock[c] \in Sock
      BY <2>1 DEF Typed
    <3>2. /\ sock'[c].asked = sock[c].asked /\ sock'[c].eof = sock[c].eof
          /\ sock'[c].err = sock[c].err /\ sock'[c].sent = n
      BY <3>1 DEF Sock
    <3>3. (Readable(c)' <=> Readable(c)) /\ (Writable(c)' <=> n < ROOM \/ sock[c].err)
      BY <3>2 DEF Readable, Writable
    <3>4. sock[c].err => Readable(c)
      BY DEF Readable
    <3>5. f.out > 0 <=> Interest(e)
      BY <2>2 DEF Interest
    <3> QED BY <2>1, <2>2, <3>1, <3>3, <3>4, <3>5 DEF Seen
  <2> QED BY <2>3, <2>4 DEF SInv
<1> QED BY <1>1, <1>2

LEMMA PumpSInv == ASSUME IInv, SInv, Pump PROVE SInv'
<1>1. PICK c \in Clients : c = turn /\ c \in Tracked
  BY DEF Pump, IInv, Places, Tracked
<1> DEFINE n == Lesser(conn[c].out, ROOM - sock[c].sent)
           flushed == [conn[c] EXCEPT !.out = conn[c].out - n]
           o == ToSend(flushed, Want[c])
           sent == sock[c].sent + n
<1>2. conn[c] \in Conn /\ sock[c] \in Sock /\ Want[c] \in Wants
  BY <1>1, TrackedType, MioAssumption DEF IInv, Typed, Wants
<1>3. n \in Int /\ conn[c].out - n \in Int /\ sent \in Int
  <2>1. conn[c].out \in Int /\ sock[c].sent \in Int /\ ROOM \in Int
    BY <1>2, Numbers
  <2>2. ROOM - sock[c].sent \in Int
    BY <2>1
  <2>3. n \in Int
    BY <2>1, <2>2, LesserType
  <2> HIDE DEF n
  <2> QED BY <2>1, <2>3
<1>4. flushed \in Conn
  <2> HIDE DEF n
  <2> QED BY <1>2, <1>3, WithOut
<1>5. o.conn \in Conn
  <2> HIDE DEF flushed
  <2> QED BY <1>2, <1>4, ToSendLeaves
<1>6. /\ UNCHANGED events /\ at = "pump"
      /\ \/ Drop(c) /\ at' = "events"
         \/ Settle(c, flushed, sent)
         \/ Settle(c, o.conn, sent)
         \/ /\ conn' = [conn EXCEPT ![c] = [o.conn EXCEPT !.out = o.bytes]]
            /\ sock' = [sock EXCEPT ![c].sent = sent]
            /\ UNCHANGED <<edge, at, turn>>
  BY <1>1 DEF Pump
<1> HIDE DEF o, flushed, sent, n
<1>7. CASE Drop(c) /\ at' = "events"
  BY <1>1, <1>6, <1>7, DropSeen DEF IInv
<1>8. CASE Settle(c, flushed, sent) \/ Settle(c, o.conn, sent)
  BY <1>1, <1>3, <1>4, <1>5, <1>6, <1>8, SettleSeen DEF IInv
<1>9. CASE /\ conn' = [conn EXCEPT ![c] = [o.conn EXCEPT !.out = o.bytes]]
           /\ sock' = [sock EXCEPT ![c].sent = sent]
           /\ UNCHANGED <<edge, at, turn>>
  <2>1. ASSUME NEW d \in Clients, d # c PROVE Seen(d)'
    <3>1. sock'[d] = sock[d] /\ conn'[d] = conn[d]
      BY <1>9, <2>1 DEF IInv, Typed
    <3> QED BY <1>6, <1>9, <3>1, StillSeen DEF SInv
  <2>2. Seen(c)'
    BY <1>1, <1>6, <1>9 DEF Seen
  <2> QED BY <2>1, <2>2 DEF SInv
<1> QED BY <1>6, <1>7, <1>8, <1>9

LEMMA SweepSInv == ASSUME IInv, SInv, Sweep PROVE SInv'
<1> DEFINE kept == {c \in Tracked : IsStreaming(conn[c]) \/ conn[c].age <= IO_TIMEOUT}
           gone == IF sweepDue THEN Tracked \ kept ELSE {}
           swept(c) == CASE c \in gone -> NoConn
                         [] c \in Tracked \ gone /\ sweepDue /\ IsStreaming(conn[c]) ->
                              [conn[c] EXCEPT !.age = 0]
                         [] OTHER -> conn[c]
<1>1. /\ at = "events" /\ at' = "top" /\ UNCHANGED events
      /\ conn' = [c \in Clients |-> swept(c)]
      /\ sock' = [c \in Clients |-> IF c \in gone THEN NoSock ELSE sock[c]]
      /\ edge' = edge \ gone
  BY DEF Sweep
<1>2. ASSUME NEW c \in Clients PROVE Seen(c)'
  <2>1. conn'[c] = swept(c)
    BY <1>1
  <2>2. CASE c \in gone
    <3>1. swept(c) = NoConn
      BY <2>2
    <3> HIDE DEF swept
    <3> QED BY <2>1, <3>1 DEF Seen, NoConn
  <2>3. CASE c \notin gone
    <3>1. sock'[c] = sock[c] /\ (c \in edge => c \in edge')
      BY <1>1, <2>3
    <3>2. conn'[c].tracked => /\ conn[c].tracked /\ conn'[c].out = conn[c].out
                              /\ conn'[c].readClosed = conn[c].readClosed
                              /\ conn'[c].writable = conn[c].writable
      <4>1. CASE c \in Tracked \ gone /\ sweepDue /\ IsStreaming(conn[c])
        <5>1. swept(c) = [conn[c] EXCEPT !.age = 0]
          BY <2>3, <4>1
        <5>2. conn[c] \in Conn
          BY <4>1, TrackedType DEF IInv
        <5> HIDE DEF swept, gone
        <5>3. conn'[c] = [conn[c] EXCEPT !.age = 0]
          BY <2>1, <5>1
        <5> QED BY <5>2, <5>3, WithAge, Numbers
      <4>2. CASE ~(c \in Tracked \ gone /\ sweepDue /\ IsStreaming(conn[c]))
        <5>1. swept(c) = conn[c]
          BY <2>3, <4>2
        <5> HIDE DEF swept, gone
        <5> QED BY <2>1, <5>1
      <4> QED BY <4>1, <4>2
    <3> HIDE DEF swept, gone
    <3> QED BY <1>1, <3>1, <3>2, StillSeen DEF SInv
  <2> QED BY <2>2, <2>3
<1> QED BY <1>2 DEF SInv

LEMMA NextSInv == ASSUME IInv, SInv, Inside, [Next]_vars PROVE SInv'
<1>1. CASE \/ Top \/ AcceptDone \/ AcceptFails \/ Trigger \/ UNCHANGED vars
           \/ \E e \in events : OnListener(e) \/ OnWaker(e)
  <2>1. /\ UNCHANGED <<conn, sock, edge>>
        /\ at = "pump" => at' = "pump" /\ turn' = turn
        /\ \A e \in events : e.token \in Clients => e \in events'
    BY <1>1, MioAssumption
       DEF Top, AcceptDone, AcceptFails, Trigger, vars, OnListener, OnWaker, Goes, clients
  <2> QED BY <2>1, StillSeen DEF SInv
<1>2. CASE PollWait
  BY <1>2, PollSInv
<1>3. CASE \E c \in Clients : AcceptOne(c)
  BY <1>3, AcceptSInv
<1>4. CASE \E e \in events : OnConn(e)
  BY <1>4, ConnSInv
<1>5. CASE Pump
  BY <1>5, PumpSInv
<1>6. CASE Sweep
  BY <1>6, SweepSInv
<1>7. CASE \E c \in Clients : Knock(c) \/ Ask(c) \/ Shut(c) \/ Reset(c) \/ Take(c)
  BY <1>7, ClientSInv
<1>8. CASE \E c \in Clients : Produce(c) \/ Wake(c)
  BY <1>8, ProducerSInv
<1>9. CASE Tick
  BY <1>9, TickSInv
<1> QED BY <1>1, <1>2, <1>3, <1>4, <1>5, <1>6, <1>7, <1>8, <1>9
        DEF Next, EventLoop, Environment

\* Connections are opened with their doors, and closed with them.
LEMMA NextInside == ASSUME IInv, Doors, Inside, [Next]_vars PROVE Inside'
<1>1. ASSUME \A c \in Clients : conn'[c].tracked => conn[c].tracked /\ door'[c] = door[c]
      PROVE  Inside'
  BY <1>1 DEF Inside
<1>2. CASE \E c \in Clients : Knock(c)
  <2>1. PICK c \in Clients : Knock(c)
    BY <1>2
  <2>2. conn' = conn /\ door[c] # "open" /\ \A d \in Clients \ {c} : door'[d] = door[d]
    BY <2>1 DEF Knock, Doors
  <2> QED BY <2>2 DEF Inside
<1>3. CASE \E c \in Clients : AcceptOne(c)
  <2>1. PICK c \in Clients : AcceptOne(c)
    BY <1>3
  <2>2. \A d \in Clients \ {c} : conn'[d] = conn[d] /\ door'[d] = door[d]
    BY <2>1 DEF AcceptOne, Accepted, Doors, IInv, Typed
  <2>3. ~conn[c].tracked
    BY <2>1 DEF AcceptOne, Inside, Backlog
  <2>4. conn' = conn \/ door'[c] = "open"
    BY <2>1 DEF AcceptOne, Accepted, Doors
  <2> QED BY <2>2, <2>3, <2>4 DEF Inside
<1>4. ASSUME NEW c \in Clients, Drop(c) PROVE Inside'
  BY <1>4 DEF Drop, Inside, Doors, IInv, Typed, NoConn
<1>5. ASSUME NEW c \in Tracked, UNCHANGED door, \A d \in Clients \ {c} : conn'[d] = conn[d]
      PROVE  Inside'
  BY <1>5 DEF Inside, Tracked
<1>6. CASE \E e \in events : OnConn(e)
  <2>1. PICK e \in events : OnConn(e)
    BY <1>6
  <2>2. \/ UNCHANGED <<conn, door>> \/ Drop(e.token)
        \/ e.token \in Tracked /\ UNCHANGED door
           /\ \A d \in Clients \ {e.token} : conn'[d] = conn[d]
    BY <2>1 DEF OnConn, IInv, Typed
  <2>3. e.token \in Clients
    BY <2>1 DEF OnConn
  <2> QED BY <1>1, <1>4, <1>5, <2>2, <2>3
<1>7. CASE Pump
  <2>1. turn \in Tracked
    BY <1>7 DEF Pump, IInv, Places
  <2>2. PICK c \in Clients : c = turn
    BY <2>1 DEF Tracked
  <2>3. Drop(c) \/ (UNCHANGED door /\ \A d \in Clients \ {c} : conn'[d] = conn[d])
    BY <1>7, <2>2 DEF Pump, Settle, IInv, Typed
  <2> QED BY <1>4, <1>5, <2>1, <2>2, <2>3
<1>8. CASE Sweep
  <2> DEFINE kept == {c \in Tracked : IsStreaming(conn[c]) \/ conn[c].age <= IO_TIMEOUT}
             gone == IF sweepDue THEN Tracked \ kept ELSE {}
  <2>1. /\ door' = [c \in Clients |-> IF c \in gone THEN "gone" ELSE door[c]]
        /\ \A c \in Clients : c \in gone => conn'[c] = NoConn
        /\ \A c \in Clients : c \notin Tracked => conn'[c] \in {NoConn, conn[c]}
    BY <1>8 DEF Sweep
  <2> HIDE DEF gone
  <2> QED BY <1>1, <2>1 DEF Tracked, NoConn
<1>9. CASE \/ \E c \in Clients : Produce(c)
           \/ Tick
  <2>1. UNCHANGED door /\ \A c \in Clients : c \notin Tracked => conn'[c] = conn[c]
    BY <1>9 DEF Produce, Tick, clients, Tracked, IInv, Typed
  <2> QED BY <1>1, <2>1 DEF Tracked
<1>10. CASE \/ \E c \in Clients : Ask(c) \/ Shut(c) \/ Reset(c) \/ Take(c) \/ Wake(c)
            \/ Top \/ PollWait \/ AcceptDone \/ AcceptFails \/ Trigger \/ UNCHANGED vars
            \/ \E e \in events : OnListener(e) \/ OnWaker(e)
  <2>1. UNCHANGED <<conn, door>>
    BY <1>10 DEF Ask, Shut, Reset, Take, Happens, Wake, Top, PollWait, AcceptDone, AcceptFails,
                 Trigger, vars, OnListener, OnWaker, Goes, clients
  <2> QED BY <1>1, <2>1
<1> QED BY <1>2, <1>3, <1>6, <1>7, <1>8, <1>9, <1>10 DEF Next, EventLoop, Environment

\* When the loop waits, a connection with input to read, or with output and room for it,
\* has an event coming, although the poll reports each once (rt/mio.rs, pump_writes and
\* the registration at the end of handle_conn).
THEOREM NoSocketForgotten == Spec => []SocketsSeen
<1>1. Init => SInv /\ Inside
  <2> SUFFICES ASSUME Init PROVE SInv /\ Inside
    OBVIOUS
  <2>1. \A c \in Clients : ~conn[c].tracked
    BY DEF Init, NoConn
  <2> QED BY <2>1 DEF SInv, Seen, Inside
<1>2. SInv => SocketsSeen
  BY DEF SInv, Seen, SocketsSeen, Waiting, HasEvent, Tracked
<1>3. IInv => Places
  BY DEF IInv
<1>4. BInv => Doors
  BY DEF BInv
<1>5. IInv /\ SInv /\ Inside /\ [Next]_vars => SInv'
  BY NextSInv
<1>6. IInv /\ Doors /\ Inside /\ [Next]_vars => Inside'
  BY NextInside
<1>7. Places /\ BInv /\ [Next]_vars => BInv'
  BY NextBInv
<1> QED BY <1>1, <1>2, <1>3, <1>4, <1>5, <1>6, <1>7, InitIInv, InitBInv, NextIInv, PTL DEF Spec
=================================================================================
