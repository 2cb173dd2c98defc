------------------------------- MODULE QuicServer -------------------------------
(***************************************************************************)
(* The QUIC listener (src/rt/quic.rs): one thread, one UDP socket, a table *)
(* of connections keyed by the address of the peer, a table of first       *)
(* datagrams that wait for the rest of a ClientHello, and the HTTP/3       *)
(* engine of each connection (H3Conn).                                     *)
(*                                                                         *)
(* An iteration of the loop is one step: it takes a datagram or times out, *)
(* fires the timers that are due, serves the streams whose producer woke   *)
(* it and reaps. Producers run between iterations. A datagram is one of    *)
(* the two parts of a ClientHello, the client's last handshake message,    *)
(* bytes or the reset of a request stream, credit, a close, or one QUIC    *)
(* refuses. UDP loses, repeats and reorders: any datagram may come next.   *)
(***************************************************************************)
EXTENDS H3Conn

CONSTANTS
    Peers,
    MAX_CONNS, MAX_PENDING_INITIALS, SNI_PROBE_MAX,
    PENDING_INITIAL_TTL, CONN_IDLE_TIMEOUT,   \* in ticks
    Frames,                 \* frames of a request
    Responses,              \* what a handler may answer
    MaxCredit,              \* bound: credit a stream has at once
    MaxProduced             \* bound: pieces a producer writes

ASSUME QuicAssumption ==
    /\ {MAX_CONNS, MAX_PENDING_INITIALS, SNI_PROBE_MAX} \subseteq Nat
    /\ {PENDING_INITIAL_TTL, CONN_IDLE_TIMEOUT, MaxCredit, MaxProduced} \subseteq Nat
    /\ Responses # {}
    /\ \A r \in Responses :
          r \in [bodyless : BOOLEAN, kind : {"bytes", "file", "stream"}, len : Nat, readable : Nat]

VARIABLES
    certs,      \* CertSource, constant
    conns,      \* peer |-> Conn
    pending,    \* peer |-> PendingInitial
    dirty,      \* stream_dirty
    at,         \* "loop", or "stopped" once run has returned
    evicted     \* history: the handshake of the last victim was complete

vars == <<certs, conns, pending, dirty, at, evicted>>

Hellos == {"part1", "part2"}

\* The peek sees the name once both parts of the ClientHello are there.
Peek(datagrams) ==
    IF \E i \in DOMAIN datagrams : datagrams[i].kind \notin Hellos THEN "unreadable"
    ELSE IF \A p \in Hellos : \E i \in DOMAIN datagrams : datagrams[i].kind = p THEN "name"
    ELSE "more"

Tables == [conns |-> conns, pending |-> pending, evicted |-> evicted]

WithoutPeer(f, p) == Restrict(f, DOMAIN f \ {p})

----------------------------------------------------------------------------
NewQuic == [complete |-> FALSE, closed |-> FALSE, hello |-> {},
            readable |-> [s \in {} |-> [frames |-> <<>>, fin |-> FALSE]],
            credit |-> [s \in Streams |-> 0],
            seen |-> [s \in Streams |->
                        [got |-> 0, due |-> 0, end |-> "no", up |-> TRUE, cut |-> FALSE]]]

\* "seen" is what the client knows of a stream: units received, units of its
\* response, how the response ended, whether the client has more to send, and
\* whether the producer of the response has aborted it.

\* The QUIC library takes a datagram of the peer's.
Feed(quic, dg) ==
    CASE dg.kind \in Hellos -> [quic EXCEPT !.hello = @ \cup {dg.kind}]
      [] dg.kind = "finished" -> [quic EXCEPT !.complete = @ \/ quic.hello = Hellos]
      [] dg.kind = "stream" ->
              [quic EXCEPT !.readable = Put(@, dg.sid, [frames |-> dg.frames, fin |-> dg.fin]),
                           !.seen[dg.sid].up = dg.frames # <<>> /\ ~dg.fin]
      [] dg.kind = "credit" -> [quic EXCEPT !.credit[dg.sid] = @ + 1]
      [] dg.kind = "close" -> [quic EXCEPT !.closed = TRUE]
      [] OTHER -> quic

NewConn(probe) == [quic |-> NewQuic, h3 |-> NewH3, silent |-> 0, probe |-> probe]

\* What the engine leaves is in the connection.
With(conn, o) == [conn EXCEPT !.h3 = o.h3, !.quic = o.quic]

\* service: the engine, then the datagrams it produced, all of them. Where an error
\* of it ends the connection the caller says so; where it is ignored (fire_timers,
\* the wake-up) only a datagram can have failed to go out, and QUIC sends it again.
Service(conn, response) == With(conn, Drive(conn.h3, conn.quic, response))

\* probe_sni
ProbeSni(conn, dg) ==
    IF conn.probe = None THEN conn
    ELSE IF conn.quic.complete \/ Len(conn.probe) >= SNI_PROBE_MAX
         THEN [conn EXCEPT !.probe = None]
    ELSE IF Peek(Append(conn.probe, dg)) = "name" THEN [conn EXCEPT !.probe = None]
    ELSE [conn EXCEPT !.probe = Append(@, dg)]

\* hold_initial: the client held the longest makes room.
HoldInitial(t, p, held) ==
    LET oldest == {q \in DOMAIN t.pending :
                     \A r \in DOMAIN t.pending : t.pending[q].waited >= t.pending[r].waited}
        room == IF Cardinality(DOMAIN t.pending) >= MAX_PENDING_INITIALS
                THEN {WithoutPeer(t.pending, q) : q \in oldest} ELSE {t.pending}
    IN  {[t EXCEPT !.pending = Put(f, p, [waited |-> 0, datagrams |-> held])] : f \in room}

\* evict_one: a closed connection, else the half-open one silent for longest,
\* else any other silent for longest.
Silent(t, S) == {p \in S : \A q \in S : t.conns[p].silent >= t.conns[q].silent}

Victims(t) ==
    LET closed == {p \in DOMAIN t.conns : t.conns[p].quic.closed}
        halfOpen == {p \in DOMAIN t.conns : ~t.conns[p].quic.complete}
    IN  IF closed # {} THEN closed
        ELSE IF halfOpen # {} THEN Silent(t, halfOpen)
        ELSE Silent(t, DOMAIN t.conns)

Evict(t, p) == [t EXCEPT !.conns = WithoutPeer(@, p),
                         !.evicted = @ \/ (t.conns[p].quic.complete /\ ~t.conns[p].quic.closed)]

MakeRoom(t) ==
    IF Cardinality(DOMAIN t.conns) < MAX_CONNS THEN {t}
    ELSE {Evict(t, p) : p \in Victims(t)}

FedAll(held) ==
    LET fed[i \in 0..Len(held)] == IF i = 0 THEN NewQuic ELSE Feed(fed[i - 1], held[i])
    IN  fed[Len(held)]

\* The new connection, or none: QUIC refuses a datagram, the certificate gives no
\* configuration, or an answer cannot be sent.
Insert(t, p, held) ==
    LET probe == IF Peek(held) = "name" THEN None ELSE held
        new == [NewConn(probe) EXCEPT !.quic = FedAll(held)]
    IN  {t} \cup (IF \E i \in DOMAIN held : held[i].kind = "refused" THEN {}
                  ELSE {[t EXCEPT !.conns = Put(@, p, new)]})

----------------------------------------------------------------------------
(***************************************************************************)
(* on_datagram: the tables it may leave.                                   *)
(***************************************************************************)
\* Mutant: what a client had waiting stays there.
FromNewKept(t, p, dg) ==
    LET before == IF p \in DOMAIN t.pending THEN t.pending[p].datagrams ELSE <<>>
        all == Append(before, dg)
        held == IF Len(all) > SNI_PROBE_MAX THEN Tail(all) ELSE all
        opened == UNION {Insert(u, p, held) : u \in MakeRoom(t)}
    IN  CASE certs = "static" -> opened
          [] certs = "acme" /\ Peek(held) = "name" -> opened \cup {t}
          [] certs = "acme" /\ Peek(held) = "more" -> HoldInitial(t, p, held)
          [] OTHER -> {t}

FromNew(t, p, dg) ==
    LET before == IF p \in DOMAIN t.pending THEN t.pending[p].datagrams ELSE <<>>
        all == Append(before, dg)
        held == IF Len(all) > SNI_PROBE_MAX THEN Tail(all) ELSE all
        rest == [t EXCEPT !.pending = WithoutPeer(@, p)]
        opened == UNION {Insert(u, p, held) : u \in MakeRoom(rest)}
    IN  CASE certs = "static" -> opened
          [] certs = "acme" /\ Peek(held) = "name" -> opened \cup {rest}
          [] certs = "acme" /\ Peek(held) = "more" -> HoldInitial(rest, p, held)
          [] OTHER -> {rest}

Fed(conn, dg) == [ProbeSni(conn, dg) EXCEPT !.quic = Feed(@, dg), !.silent = 0]

\* An error of QUIC, of the engine or of the socket costs the peer its connection.
FromKnown(t, p, dg, response) ==
    LET gone == [t EXCEPT !.conns = WithoutPeer(@, p)]
        served == [t EXCEPT !.conns = Put(@, p, Service(Fed(@[p], dg), response))]
    IN  IF dg.kind = "refused" THEN {gone} ELSE {gone, served}

OnDatagram(t, p, dg, response) ==
    IF p \in DOMAIN t.conns THEN FromKnown(t, p, dg, response) ELSE FromNew(t, p, dg)

\* What is served without a datagram has no new request for a handler.
AnyResponse == CHOOSE r \in Responses : TRUE

\* fire_timers: of the connections whose timer is due, QUIC closes the idle ones.
Fired(conn, idle) == Service([conn EXCEPT !.quic.closed = @ \/ idle], AnyResponse)

FireTimers(t, due, idle) ==
    [t EXCEPT !.conns = [p \in DOMAIN @ |->
        IF p \in due THEN Fired(@[p], p \in idle) ELSE @[p]]]

\* Mutant: the wake-up is noted and nothing is served.
ServeDirtyLost(t) == t

ServeDirty(t) ==
    IF ~dirty THEN t
    ELSE [t EXCEPT !.conns = [p \in DOMAIN @ |->
            IF IsStreaming(@[p].h3) THEN Service(@[p], AnyResponse) ELSE @[p]]]

Reap(t) ==
    LET live == {p \in DOMAIN t.conns :
                   ~t.conns[p].quic.closed /\ t.conns[p].silent < CONN_IDLE_TIMEOUT}
        fresh == {p \in DOMAIN t.pending : t.pending[p].waited < PENDING_INITIAL_TTL}
    IN  [conns |-> Restrict(t.conns, live), pending |-> Restrict(t.pending, fresh),
         evicted |-> t.evicted]

\* The rest of an iteration, after the datagram or the timeout.
Finish(t, due, idle) ==
    LET u == Reap(ServeDirty(FireTimers(t, due, idle)))
    IN  /\ conns' = u.conns /\ pending' = u.pending /\ evicted' = u.evicted
        /\ dirty' = FALSE

----------------------------------------------------------------------------
\* Only bytes and credit name a stream, and only bytes have frames and an end.
Datagrams ==
    {dg \in [kind : Hellos \cup {"finished", "close", "refused", "credit", "stream"},
             sid : Streams \cup {None}, frames : {<<>>} \cup {<<f>> : f \in Frames},
             fin : BOOLEAN] :
        /\ dg.sid # None <=> dg.kind \in {"credit", "stream"}
        /\ dg.kind # "stream" => dg.frames = <<>> /\ ~dg.fin}

Init ==
    /\ certs \in {"static", "acme"}
    /\ conns = [p \in {} |-> NewConn(None)]
    /\ pending = [p \in {} |-> [waited |-> 0, datagrams |-> <<>>]]
    /\ dirty = FALSE /\ at = "loop" /\ evicted = FALSE

\* Request streams are used once the handshake is complete. The client sends until
\* it has ended its half or reset it, also on a stream the server has reset; credit
\* says something as long as there is a response to come.
Sendable(p, dg) ==
    dg.kind \in {"stream", "credit"} =>
        /\ p \in DOMAIN conns
        /\ conns[p].quic.complete
        /\ dg.kind = "stream" => conns[p].quic.seen[dg.sid].up
        /\ dg.kind = "credit" => /\ conns[p].quic.seen[dg.sid].end = "no"
                                 /\ conns[p].quic.credit[dg.sid] < MaxCredit

Receive(p, dg) ==
    /\ at = "loop" /\ Sendable(p, dg)
    /\ \E response \in IF dg.fin THEN Responses ELSE {AnyResponse} :
          \E t \in OnDatagram(Tables, p, dg, response) : Finish(t, {}, {})
    /\ UNCHANGED <<certs, at>>

\* The read times out, with or without a tick, and timers may be due.
Ticked(t, tick) ==
    [conns |-> [p \in DOMAIN t.conns |-> [t.conns[p] EXCEPT !.silent = @ + tick]],
     pending |-> [p \in DOMAIN t.pending |-> [t.pending[p] EXCEPT !.waited = @ + tick]],
     evicted |-> t.evicted]

TimedOut(tick) ==
    /\ at = "loop"
    /\ \E due \in SUBSET DOMAIN conns : \E idle \in SUBSET due :
          Finish(Ticked(Tables, tick), due, idle)
    /\ UNCHANGED <<certs, at>>

\* The shutdown is triggered: what was queued has been sent already.
Stop == at = "loop" /\ at' = "stopped" /\ UNCHANGED <<certs, conns, pending, dirty, evicted>>

Body(p, s) == conns[p].h3.reqs[s].body

Produces(p, s) ==
    /\ p \in DOMAIN conns /\ s \in DOMAIN conns[p].h3.reqs
    /\ IsPendingStream(Body(p, s)) /\ Body(p, s).over = "open"

\* A producer has changed its body: more of it is to come, or it has been cut.
Written(conn, s, body, more, cut) ==
    LET h3 == [conn.h3 EXCEPT !.reqs[s].body = body]
        quic == [conn.quic EXCEPT !.seen[s].due = @ + more, !.seen[s].cut = cut]
    IN  [conn EXCEPT !.h3 = h3, !.quic = quic]

\* A producer writes a piece, or ends its body, and wakes the listener.
Produce(p, s) ==
    /\ Produces(p, s) /\ conns[p].quic.seen[s].due <= MaxProduced
    /\ conns' = [conns EXCEPT ![p] = Written(@, s, [Body(p, s) EXCEPT !.left = @ + 1], 1, FALSE)]
    /\ dirty' = TRUE
    /\ UNCHANGED <<certs, pending, at, evicted>>

EndBody(p, s) ==
    /\ Produces(p, s)
    /\ \E over \in {"finished", "aborted"} :
          conns' = [conns EXCEPT ![p] = Written(@, s, [Body(p, s) EXCEPT !.over = over], 0,
                                                over = "aborted")]
    /\ dirty' = TRUE
    /\ UNCHANGED <<certs, pending, at, evicted>>

\* The one step of a producer that falls inside an iteration and is neither before
\* nor after it: the loop of flush found the body waiting, and the poll that comes
\* after it reads the abort. The wake-up may have been taken with that iteration.
AbortBetweenPolls(p, s) ==
    /\ Produces(p, s) /\ Body(p, s).left = 0 /\ conns[p].h3.reqs[s].out = 0
    /\ conns' = [conns EXCEPT ![p] =
                   Written(@, s, Polled([Body(p, s) EXCEPT !.over = "aborted"]), 0, TRUE)]
    /\ dirty' \in {dirty, TRUE}
    /\ UNCHANGED <<certs, pending, at, evicted>>

Next ==
    \/ \E p \in Peers, dg \in Datagrams : Receive(p, dg)
    \/ TimedOut(0) \/ TimedOut(1) \/ Stop
    \/ \E p \in Peers, s \in Streams :
          Produce(p, s) \/ EndBody(p, s) \/ AbortBetweenPolls(p, s)

Spec == Init /\ [][Next]_vars

----------------------------------------------------------------------------
(***************************************************************************)
(* Properties.                                                             *)
(***************************************************************************)
\* However the datagrams come, the tables stay within their limits, and a client
\* is in one of them at most: what was held is given to the connection or dropped.
TablesBounded ==
    /\ Cardinality(DOMAIN conns) <= MAX_CONNS
    /\ Cardinality(DOMAIN pending) <= MAX_PENDING_INITIALS
    /\ DOMAIN conns \cap DOMAIN pending = {}
    /\ \A p \in DOMAIN pending : /\ Len(pending[p].datagrams) <= SNI_PROBE_MAX
                                 /\ Peek(pending[p].datagrams) = "more"
    /\ \A p \in DOMAIN conns : Cardinality(DOMAIN conns[p].h3.reqs) <= MAX_REQ_STREAMS

\* A response ends with FIN only when the client has received all that its handler
\* and its producer have written: what is framed and waits for credit is not
\* forgotten, and a file that has shrunk ends with a reset.
FinMeansWhole ==
    \A p \in DOMAIN conns, s \in Streams :
        LET seen == conns[p].quic.seen[s] IN seen.end = "fin" => seen.got = seen.due

\* Between iterations, with no wake-up on its way, a request that has arrived is
\* answered, and a response that has not been reset waits only for credit or for
\* its producer. Not so a body whose abort a poll has read and dropped: see
\* AbortIsDetectable.
Dropped(body) == body # None /\ body.over = "aborted" /\ body.ended

NothingLeftUnsent ==
    ~dirty => \A p \in DOMAIN conns : \A s \in DOMAIN conns[p].h3.reqs :
        LET r == conns[p].h3.reqs[s]
            seen == conns[p].quic.seen[s]
        IN  r.fin => /\ r.delivered
                     /\ seen.end = "no" /\ ~Dropped(r.body) =>
                          \/ r.out > 0 /\ conns[p].quic.credit[s] = 0
                          \/ r.out = 0 /\ PollAvail(r.body) = "pending"

\* "Abort the body: the response is cut short in a way the client can detect (...
\* or a stream reset on HTTP/2 and HTTP/3)" (stream.rs:124-126): a response whose
\* producer has aborted never ends with a FIN.
AbortIsDetectable ==
    \A p \in DOMAIN conns, s \in Streams :
        LET seen == conns[p].quic.seen[s] IN seen.cut => seen.end # "fin"

\* "try to reclaim a closed/stuck connection; if none can be reclaimed, drop this
\* Initial" (quic.rs:311-313): an established connection makes way for no Initial.
EstablishedStays == ~evicted

=================================================================================
