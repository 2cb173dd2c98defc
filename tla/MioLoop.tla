--------------------------------- MODULE MioLoop ---------------------------------
(***************************************************************************)
(* The mio runtime (src/rt/mio.rs): one thread, an edge-triggered poll, a  *)
(* listener, the connections, a waker that the producers of streamed       *)
(* bodies use, an idle sweep and a drain.                                  *)
(*                                                                         *)
(* A socket carries requests in and units of response out; the session is  *)
(* LoopSession's. A client connects once, so it is its token.              *)
(***************************************************************************)
EXTENDS LoopSession, FiniteSets

CONSTANTS Clients,
          Listener, Waker,   \* the two tokens that are no connection's
          MAX_CONNS,
          IO_TIMEOUT,        \* in sweep intervals
          SHUTDOWN_GRACE,    \* in sweep intervals
          ROOM,              \* units the socket buffers take
          Want,              \* what each client asks for
          MaxAsked           \* bound: requests a client sends

ASSUME MioAssumption ==
    /\ IsFiniteSet(Clients)
    /\ None \notin Int /\ None \notin Clients
    /\ Listener \notin Clients /\ Waker \notin Clients
    /\ Listener # Waker
    /\ {MAX_CONNS, ROOM} \subseteq Nat \ {0}
    /\ {IO_TIMEOUT, SHUTDOWN_GRACE, MaxAsked} \subseteq Nat
    /\ Want \in [Clients -> [source : {"file", "stream"}, close : BOOLEAN]]

VARIABLES
    door,      \* "away", "knocking", "open" or "gone"
    sock,      \* each client's socket
    conn,      \* the connections: [Clients -> Conn], NoConn if not tracked
    producer,  \* where the producer of a streamed body is: "free", "list", "signal"
    edge,      \* tokens epoll has an event for
    pending,   \* Wakeups.pending
    at,        \* where the loop is
    events,    \* the events it still has to handle
    turn,      \* the connection it is writing to
    backoff,   \* accept_backoff_until: "none", "on", or "past"
    failed,    \* an accept has failed since the backlog was last empty
    sweepDue,  \* next_sweep has passed
    shutdown,
    grace      \* drain_deadline: None, or what is left of it

clients == <<door, sock>>
wakeups == <<producer, pending>>
time    == <<backoff, failed, sweepDue, shutdown, grace>>
vars    == <<clients, conn, wakeups, edge, at, events, turn, time>>

NoConn == [tracked |-> FALSE]
NoSock == [asked |-> 0, total |-> 0, eof |-> FALSE, err |-> FALSE, sent |-> 0]

\* A connection and its session.
NewConn == [tracked |-> TRUE, out |-> 0, readClosed |-> FALSE, age |-> 0, writable |-> FALSE,
            asked |-> 0, ready |-> 0, body |-> None, left |-> 0, avail |-> 0, over |-> "open",
            closed |-> FALSE]

Tracked == {c \in Clients : conn[c].tracked}
Backlog == {c \in Clients : door[c] = "knocking"}

----------------------------------------------------------------------------
(***************************************************************************)
(* epoll, edge-triggered: an event is queued when something happens to a   *)
(* socket or its registration is changed, and delivered if it still holds. *)
(***************************************************************************)
Readable(c) == sock[c].asked > 0 \/ sock[c].eof \/ sock[c].err
Writable(c) == sock[c].sent < ROOM \/ sock[c].err

Holds(t) ==
    CASE t = Listener -> Backlog # {}
      [] t = Waker -> TRUE
      [] OTHER -> Readable(t) \/ (conn[t].writable /\ Writable(t))

Delivered == {[token |-> t, readable |-> t \in Clients /\ Readable(t)] : t \in {u \in edge : Holds(u)}}

----------------------------------------------------------------------------
(***************************************************************************)
(* Clients, producers, time and the operator.                              *)
(***************************************************************************)
Knock(c) ==
    /\ door[c] = "away"
    /\ door' = [door EXCEPT ![c] = "knocking"]
    /\ edge' = edge \cup {Listener}
    /\ UNCHANGED <<sock, conn, wakeups, at, events, turn, time>>

\* Something happens to a client's socket; a connection that is registered
\* hears of it, of room to write only if it asked.
Happens(c, s, heard) ==
    /\ door[c] # "gone" /\ ~sock[c].err
    /\ sock' = [sock EXCEPT ![c] = s]
    /\ edge' = IF conn[c].tracked /\ heard THEN edge \cup {c} ELSE edge
    /\ UNCHANGED <<door, conn, wakeups, at, events, turn, time>>

Ask(c) ==
    /\ door[c] # "away" /\ ~sock[c].eof /\ sock[c].total < MaxAsked
    /\ Happens(c, [sock[c] EXCEPT !.asked = @ + 1, !.total = @ + 1], TRUE)

\* Bound: a client closes, one way or both, only once it has been accepted.
Shut(c)  == door[c] = "open" /\ ~sock[c].eof /\ Happens(c, [sock[c] EXCEPT !.eof = TRUE], TRUE)
Reset(c) == door[c] = "open" /\ Happens(c, [sock[c] EXCEPT !.err = TRUE], TRUE)

Take(c) ==
    /\ sock[c].sent > 0
    /\ Happens(c, [sock[c] EXCEPT !.sent = @ - 1], conn[c].tracked /\ conn[c].writable)

\* A producer writes to its channel or ends it, then wakes the loop.
Produce(c) ==
    /\ conn[c].tracked /\ IsStreaming(conn[c]) /\ conn[c].over = "open" /\ producer[c] = "free"
    /\ \E e \in Produced(conn[c]) : conn' = [conn EXCEPT ![c] = e]
    /\ producer' = [producer EXCEPT ![c] = "list"]
    /\ UNCHANGED <<clients, pending, edge, at, events, turn, time>>

\* Mutant: the loop is woken before the token is on the list.
WakeSignalsFirst(c) ==
    /\ \/ /\ producer[c] = "list"
          /\ producer' = [producer EXCEPT ![c] = "signal"]
          /\ edge' = edge \cup {Waker} /\ UNCHANGED pending
       \/ /\ producer[c] = "signal"
          /\ producer' = [producer EXCEPT ![c] = "free"]
          /\ pending' = pending \cup {c} /\ UNCHANGED edge
    /\ UNCHANGED <<clients, conn, at, events, turn, time>>

\* Wakeups::wake: the token goes on the list, then the loop is woken.
Wake(c) ==
    /\ \/ /\ producer[c] = "list"
          /\ producer' = [producer EXCEPT ![c] = "signal"]
          /\ pending' = pending \cup {c} /\ UNCHANGED edge
       \/ /\ producer[c] = "signal"
          /\ producer' = [producer EXCEPT ![c] = "free"]
          /\ edge' = edge \cup {Waker} /\ UNCHANGED pending
    /\ UNCHANGED <<clients, conn, at, events, turn, time>>

\* A sweep interval passes (bound: only while the loop waits and nothing new
\* comes); ages and the grace period stop where they count. A client that has
\* shut its side down and takes nothing makes its connection readable whenever
\* it is registered anew, so that the poll returns at once again and again.
Tick ==
    /\ at = "poll" /\ ~sweepDue
    /\ \A e \in Delivered : e.token \in Tracked /\ conn[e.token].readClosed
    /\ conn' = [c \in Clients |->
                  IF c \in Tracked THEN [conn[c] EXCEPT !.age = Lesser(@ + 1, IO_TIMEOUT + 1)]
                  ELSE conn[c]]
    /\ backoff' = IF backoff = "on" THEN "past" ELSE backoff
    /\ sweepDue' = TRUE
    /\ grace' = IF grace = None \/ grace = 0 THEN grace ELSE grace - 1
    /\ UNCHANGED <<clients, wakeups, edge, at, events, turn, failed, shutdown>>

Trigger ==
    /\ ~shutdown /\ shutdown' = TRUE
    /\ UNCHANGED <<clients, conn, wakeups, edge, at, events, turn, backoff, failed, sweepDue, grace>>

----------------------------------------------------------------------------
(***************************************************************************)
(* The loop: shutdown and drain, the poll, the events, the sweep.          *)
(***************************************************************************)
Top ==
    /\ at = "top"
    /\ grace' = IF shutdown /\ grace = None THEN SHUTDOWN_GRACE ELSE grace
    /\ at' = IF grace' # None /\ (Tracked = {} \/ grace' = 0) THEN "stopped" ELSE "poll"
    /\ UNCHANGED <<clients, conn, wakeups, edge, events, turn, backoff, failed, sweepDue, shutdown>>

\* The poll returns with the events there are, or at the deadline: the sweep's or
\* the backoff's (that of a drain is sooner, to the same effect). Listener events
\* are skipped during a backoff or a drain.
PollWait ==
    /\ at = "poll"
    /\ Delivered # {} \/ sweepDue \/ backoff = "past"
    /\ events' = {e \in Delivered : e.token = Listener => backoff # "on" /\ grace = None}
    /\ edge' = {}
    /\ backoff' = IF backoff = "past" THEN "none" ELSE backoff
    /\ at' = "events"
    /\ UNCHANGED <<clients, conn, wakeups, turn, failed, sweepDue, shutdown, grace>>

Goes(place) == at' = place /\ UNCHANGED <<time, clients>>

\* accept_ready runs until the backlog is empty.
OnListener(e) ==
    /\ at = "events" /\ e \in events /\ e.token = Listener
    /\ events' = events \ {e}
    /\ Goes("accept")
    /\ UNCHANGED <<conn, wakeups, edge, turn>>

OnWaker(e) ==
    /\ at = "events" /\ e \in events /\ e.token = Waker
    /\ events' = (events \ {e}) \cup {[token |-> c, readable |-> FALSE] : c \in pending}
    /\ pending' = {}
    /\ Goes("events")
    /\ UNCHANGED <<conn, producer, edge, turn>>

Accepted(c, place) ==
    /\ door' = [door EXCEPT ![c] = place]
    /\ sock' = IF place = "gone" THEN [sock EXCEPT ![c] = NoSock] ELSE sock
    /\ at' = "accept"
    /\ UNCHANGED <<wakeups, events, turn, time>>

\* Mutant: one client is accepted for an event.
AcceptOneOnly(c) ==
    /\ at = "accept" /\ c \in Backlog /\ at' = "events"
    /\ Cardinality(Tracked) < MAX_CONNS
    /\ door' = [door EXCEPT ![c] = "open"]
    /\ conn' = [conn EXCEPT ![c] = NewConn]
    /\ edge' = IF Readable(c) THEN edge \cup {c} ELSE edge
    /\ UNCHANGED <<sock, wakeups, events, turn, time>>

\* Mutant: the cap is tested once for a whole backlog.
AcceptOneUncapped(c) ==
    /\ at = "accept" /\ c \in Backlog
    /\ Accepted(c, "open")
    /\ conn' = [conn EXCEPT ![c] = NewConn]
    /\ edge' = IF Readable(c) THEN edge \cup {c} ELSE edge

\* A client is accepted: shed at the cap, refused by the limiter or by a session
\* or a registration that fails, or tracked; the loop goes on.
AcceptOne(c) ==
    /\ at = "accept" /\ c \in Backlog
    /\ \/ /\ Accepted(c, "gone")
          /\ UNCHANGED <<conn, edge>>
       \/ /\ Cardinality(Tracked) < MAX_CONNS
          /\ Accepted(c, "open")
          /\ conn' = [conn EXCEPT ![c] = NewConn]
          /\ edge' = IF Readable(c) THEN edge \cup {c} ELSE edge

AcceptDone ==
    /\ at = "accept" /\ Backlog = {}
    /\ at' = "events" /\ failed' = FALSE
    /\ UNCHANGED <<clients, conn, wakeups, edge, events, turn, backoff, sweepDue, shutdown, grace>>

\* accept fails: for want of descriptors, and the loop backs off, or otherwise.
AcceptFails ==
    /\ at = "accept" /\ Backlog # {}
    /\ at' = "events" /\ failed' = TRUE
    /\ backoff' \in {"on", backoff}
    /\ UNCHANGED <<clients, conn, wakeups, edge, events, turn, sweepDue, shutdown, grace>>

\* A connection is removed and its socket closed.
Drop(c) ==
    /\ conn' = [conn EXCEPT ![c] = NoConn]
    /\ door' = [door EXCEPT ![c] = "gone"]
    /\ sock' = [sock EXCEPT ![c] = NoSock]
    /\ edge' = edge \ {c}

\* handle_conn, drive: what the socket holds is read and given to the session,
\* which may refuse it.
OnConn(e) ==
    LET c == e.token
        read == [conn[c] EXCEPT !.asked = @ + sock[c].asked, !.readClosed = sock[c].eof]
    IN  /\ at = "events" /\ e \in events /\ c \in Clients
        /\ events' = events \ {e}
        /\ \/ /\ c \notin Tracked
              /\ UNCHANGED <<conn, door, sock, edge, at, turn>>
           \/ /\ c \in Tracked /\ e.readable /\ ~conn[c].readClosed
              /\ sock[c].err \/ sock[c].asked > 0
              /\ Drop(c) /\ UNCHANGED <<at, turn>>
           \/ /\ c \in Tracked /\ e.readable /\ ~conn[c].readClosed /\ ~sock[c].err
              /\ \E floor \in BOOLEAN :   \* MIN_PROGRESS bytes have come
                    LET o == ToSend(Serve(read, Want[c]), Want[c])
                    IN  conn' = [conn EXCEPT ![c] =
                          [o.conn EXCEPT !.out = @ + o.bytes,
                             !.age = IF floor /\ sock[c].asked > 0 THEN 0 ELSE @]]
              /\ sock' = [sock EXCEPT ![c].asked = 0]
              /\ at' = "pump" /\ turn' = c
              /\ UNCHANGED <<door, edge>>
           \/ /\ c \in Tracked /\ (~e.readable \/ conn[c].readClosed)
              /\ at' = "pump" /\ turn' = c
              /\ UNCHANGED <<conn, door, sock, edge>>
        /\ UNCHANGED <<wakeups, time>>

IsDone(e) == e.out = 0 /\ (WantsClose(e) \/ e.readClosed)

\* Mutant: interest in room to write is never registered.
InterestReadable(e) == FALSE

\* Conn::interest: in room to write, if there is output.
Interest(e) == e.out > 0

\* pump_writes and the end of handle_conn: flush; when all is written, the next
\* output; when there is none or the socket is full, the connection is dropped
\* if it is done, and registered anew if not.
Settle(c, e, sent) ==
    /\ at' = "events" /\ turn' = None
    /\ IF IsDone(e) THEN Drop(c)
       ELSE /\ sock' = [sock EXCEPT ![c].sent = sent]
            /\ conn' = [conn EXCEPT ![c] = [e EXCEPT !.writable = Interest(e)]]
            /\ edge' = IF Readable(c) \/ (Interest(e) /\ sent < ROOM)
                       THEN edge \cup {c} ELSE edge
            /\ UNCHANGED door

Pump ==
    LET c == turn
        n == Lesser(conn[c].out, ROOM - sock[c].sent)
        flushed == [conn[c] EXCEPT !.out = @ - n]
        o == ToSend(flushed, Want[c])
    IN  /\ at = "pump"
        /\ IF sock[c].err /\ conn[c].out > 0
           THEN Drop(c) /\ at' = "events" /\ turn' = None
           ELSE IF flushed.out > 0 \/ ~HasOutput(flushed)
           THEN Settle(c, flushed, sock[c].sent + n)
           ELSE IF o.bytes = 0 THEN Settle(c, o.conn, sock[c].sent + n)
           ELSE /\ conn' = [conn EXCEPT ![c] = [o.conn EXCEPT !.out = o.bytes]]
                /\ sock' = [sock EXCEPT ![c].sent = @ + n]
                /\ UNCHANGED <<door, edge, at, turn>>
        /\ UNCHANGED <<wakeups, events, time>>

\* sweep_idle, if it is due after the events: a streaming connection starts a
\* new window.
Sweep ==
    /\ at = "events" /\ events = {}
    /\ LET kept == {c \in Tracked : IsStreaming(conn[c]) \/ conn[c].age <= IO_TIMEOUT}
           gone == IF sweepDue THEN Tracked \ kept ELSE {}
       IN  /\ conn' = [c \in Clients |->
                         CASE c \in gone -> NoConn
                           [] c \in Tracked \ gone /\ sweepDue /\ IsStreaming(conn[c]) ->
                                [conn[c] EXCEPT !.age = 0]
                           [] OTHER -> conn[c]]
           /\ door' = [c \in Clients |-> IF c \in gone THEN "gone" ELSE door[c]]
           /\ sock' = [c \in Clients |-> IF c \in gone THEN NoSock ELSE sock[c]]
           /\ edge' = edge \ gone
    /\ sweepDue' = FALSE /\ at' = "top"
    /\ UNCHANGED <<wakeups, events, turn, backoff, failed, shutdown, grace>>

EventLoop ==
    \/ Top \/ PollWait \/ AcceptDone \/ AcceptFails \/ Pump \/ Sweep
    \/ \E c \in Clients : AcceptOne(c)
    \/ \E e \in events : OnListener(e) \/ OnWaker(e) \/ OnConn(e)

Init ==
    /\ door = [c \in Clients |-> "away"]
    /\ sock = [c \in Clients |-> NoSock]
    /\ conn = [c \in Clients |-> NoConn]
    /\ producer = [c \in Clients |-> "free"]
    /\ edge = {} /\ pending = {} /\ at = "top" /\ events = {} /\ turn = None
    /\ backoff = "none" /\ failed = FALSE /\ sweepDue = FALSE
    /\ shutdown = FALSE /\ grace = None

Environment ==
    \/ \E c \in Clients : Knock(c) \/ Ask(c) \/ Shut(c) \/ Reset(c) \/ Take(c)
    \/ \E c \in Clients : Produce(c) \/ Wake(c)
    \/ Tick \/ Trigger

Next == EventLoop \/ Environment

Spec == Init /\ [][Next]_vars

----------------------------------------------------------------------------
(***************************************************************************)
(* Properties.                                                             *)
(***************************************************************************)
Waiting == at = "poll" /\ events = {}

\* The cap on connections holds, and a connection is one that was let in.
TypeOK ==
    /\ Cardinality(Tracked) <= MAX_CONNS
    /\ \A c \in Tracked : door[c] = "open" /\ conn[c].out \in Nat /\ conn[c].left \in 0..SIZE
    /\ \A c \in Clients : sock[c].sent \in 0..ROOM
    /\ at = "pump" <=> turn \in Tracked

\* Edge-triggered events are not repeated: when the loop waits, a connection
\* with input to read, or with output and room for it, has one coming.
SocketsSeen ==
    Waiting => \A c \in Tracked :
        (Readable(c) /\ ~conn[c].readClosed) \/ (conn[c].out > 0 /\ Writable(c)) => c \in edge

\* When the loop waits, whatever a streamed body has that could be sent has a
\* wake-up on its way, however the producer's steps fell between the loop's.
WakeNotLost ==
    Waiting => \A c \in Tracked :
        /\ conn[c].out = 0 /\ IsStreaming(conn[c]) /\ (conn[c].avail > 0 \/ conn[c].over # "open")
        => producer[c] # "free" \/ (c \in pending /\ Waker \in edge)

\* When the loop waits, clients in the backlog have an event coming, unless the
\* drain has begun or an accept has failed: then they wait for the next client.
BacklogSeen ==
    Waiting /\ grace = None /\ ~failed => (Backlog # {} => Listener \in edge)

\* "the next poll (...) will re-deliver the readiness once we are ready to accept
\* again" (mio.rs:238-240): as above, also after a failed accept, once its back-off
\* is over.
ReadinessIsRedelivered ==
    Waiting /\ grace = None /\ backoff = "none" => (Backlog # {} => Listener \in edge)

\* "A connection streaming a response body is legitimately quiet on input"
\* (mio.rs:277): the sweep takes no connection whose client has just made room
\* for more of the body it is being sent.
Downloading(c) == conn[c].body # None /\ sock[c].sent < ROOM /\ ~sock[c].err

DownloadsAreNotIdle ==
    [][\A c \in Tracked :
         at = "events" /\ events = {} /\ ~conn'[c].tracked => ~Downloading(c)]_vars
==================================================================================
