------------------------------- MODULE TokioRuntime -------------------------------
(***************************************************************************)
(* The tokio runtime (src/rt/tokio.rs): an accept loop that counts the     *)
(* connections being served, a task per connection that reads, runs the    *)
(* handler, and writes until nothing is left, and the drain at shutdown.   *)
(* A client connects once.                                                 *)
(***************************************************************************)
EXTENDS LoopSession, FiniteSets

CONSTANTS Clients,
          Addresses,        \* the addresses they may have: functions on Clients
          MAX_INFLIGHT,
          MAX_PER_IP,
          IO_TIMEOUT,       \* in ticks
          SHUTDOWN_GRACE,   \* in ticks
          ROOM,             \* units the socket buffers take
          Want              \* what each client asks for, and (bound) how many times

ASSUME TokioAssumption ==
    /\ IsFiniteSet(Clients) /\ None \notin Clients
    /\ \A a \in Addresses : DOMAIN a = Clients
    /\ {MAX_INFLIGHT, MAX_PER_IP, ROOM} \subseteq Nat \ {0}
    /\ {IO_TIMEOUT, SHUTDOWN_GRACE} \subseteq Nat
    /\ Want \in [Clients -> [source : {"file", "stream"}, close : BOOLEAN, requests : Nat]]

VARIABLES
    ip,        \* each client's address
    sock,      \* each client's socket
    task,      \* where each client's task is, "away" or "knocking" before it has one
    sess,      \* its session
    streaming, \* what it took is_streaming to be before it waited
    out,       \* what is left of the write_all it is in
    window,    \* ticks since its throughput window began
    permit,    \* its Notify has a permit
    producer,  \* its body's producer is about to notify
    at,        \* where the accept loop is
    guest,     \* the client it has just accepted
    inflight,
    shutdown,
    grace      \* what is left of the drain's deadline

taskVars == <<task, sess, streaming, out, window>>
wake     == <<permit, producer>>
loop     == <<at, guest, grace>>
vars     == <<ip, sock, taskVars, wake, loop, inflight, shutdown>>

NoSock == [asked |-> 0, total |-> 0, eof |-> FALSE, err |-> FALSE, sent |-> 0]

\* Tasks that hold a slot of the limiter, those that are served, and those whose
\* handler has panicked.
Guarded == {c \in Clients : task[c] \in {"top", "select", "flush", "write", "leave", "guard"}}
Serving == {c \in Clients : task[c] \in {"top", "select", "flush", "write", "leave"}}
Panicked == {c \in Clients : task[c] = "panicked"}

\* PeerLimiter.counts: the guards that live.
SlotsOf(p) == Cardinality({c \in Guarded : ip[c] = p})

Backlog == {c \in Clients : task[c] = "knocking"}

----------------------------------------------------------------------------
(***************************************************************************)
(* Clients, producers, time and the operator.                              *)
(***************************************************************************)
Knock(c) ==
    /\ task[c] = "away"
    /\ task' = [task EXCEPT ![c] = "knocking"]
    /\ UNCHANGED <<ip, sock, sess, streaming, out, window, wake, loop, inflight, shutdown>>

Happens(c, s) ==
    /\ c \in Serving /\ ~sock[c].err
    /\ sock' = [sock EXCEPT ![c] = s]
    /\ UNCHANGED <<ip, taskVars, wake, loop, inflight, shutdown>>

Ask(c) ==
    /\ ~sock[c].eof /\ sock[c].total < Want[c].requests
    /\ Happens(c, [sock[c] EXCEPT !.asked = @ + 1, !.total = @ + 1])

Shut(c)  == ~sock[c].eof /\ Happens(c, [sock[c] EXCEPT !.eof = TRUE])
\* Bound: only while the task writes, elsewhere it is as good as the end of input.
Reset(c) == task[c] = "write" /\ Happens(c, [sock[c] EXCEPT !.err = TRUE])
Take(c)  == sock[c].sent > 0 /\ Happens(c, [sock[c] EXCEPT !.sent = @ - 1])

Produce(c) ==
    /\ c \in Serving /\ IsStreaming(sess[c]) /\ sess[c].over = "open" /\ ~producer[c]
    /\ \E e \in Produced(sess[c]) : sess' = [sess EXCEPT ![c] = e]
    /\ producer' = [producer EXCEPT ![c] = TRUE]
    /\ UNCHANGED <<ip, sock, task, streaming, out, window, permit, loop, inflight, shutdown>>

\* notify_one leaves a permit when nobody waits.
Notify(c) ==
    /\ producer[c]
    /\ producer' = [producer EXCEPT ![c] = FALSE] /\ permit' = [permit EXCEPT ![c] = TRUE]
    /\ UNCHANGED <<ip, sock, taskVars, loop, inflight, shutdown>>

\* A tick passes, whatever a task is doing: time spent writing counts too.
Tick ==
    /\ window' = [c \in Clients |-> IF c \in Serving THEN Lesser(window[c] + 1, IO_TIMEOUT)
                                    ELSE window[c]]
    /\ grace' = IF grace = None \/ grace = 0 THEN grace ELSE grace - 1
    /\ UNCHANGED <<ip, sock, task, sess, streaming, out, wake, at, guest, inflight, shutdown>>

Trigger ==
    /\ ~shutdown /\ shutdown' = TRUE
    /\ UNCHANGED <<ip, sock, taskVars, wake, loop, inflight>>

----------------------------------------------------------------------------
(***************************************************************************)
(* The accept loop.                                                        *)
(***************************************************************************)
Check ==
    /\ at = "check"
    /\ IF shutdown THEN at' = "drain" /\ grace' = SHUTDOWN_GRACE
       ELSE at' = "accept" /\ UNCHANGED grace
    /\ UNCHANGED <<ip, sock, taskVars, wake, guest, inflight, shutdown>>

\* The accept times out after SHUTDOWN_POLL, or fails.
AcceptNothing ==
    /\ at = "accept" /\ at' = "check"
    /\ UNCHANGED <<ip, sock, taskVars, wake, guest, grace, inflight, shutdown>>

\* Mutant: the connection that finds the counter at the cap is served.
ClaimOneMore(c) ==
    /\ at = "accept" /\ c \in Backlog
    /\ task' = [task EXCEPT ![c] = "accepted"] /\ guest' = c
    /\ inflight' = inflight + 1
    /\ at' = IF inflight > MAX_INFLIGHT THEN "refuse" ELSE "admit"
    /\ UNCHANGED <<ip, sock, sess, streaming, out, window, wake, grace, shutdown>>

\* fetch_add, and the cap on what it was before.
Claim(c) ==
    /\ at = "accept" /\ c \in Backlog
    /\ task' = [task EXCEPT ![c] = "accepted"] /\ guest' = c
    /\ inflight' = inflight + 1
    /\ at' = IF inflight >= MAX_INFLIGHT THEN "refuse" ELSE "admit"
    /\ UNCHANGED <<ip, sock, sess, streaming, out, window, wake, grace, shutdown>>

\* The limiter's slot, and the task; a session that cannot be built ends it.
Admit ==
    /\ at = "admit"
    /\ \/ /\ SlotsOf(ip[guest]) >= MAX_PER_IP
          /\ at' = "refuse" /\ UNCHANGED <<taskVars, guest>>
       \/ /\ SlotsOf(ip[guest]) < MAX_PER_IP
          /\ at' = "check" /\ guest' = None
          /\ task' \in {[task EXCEPT ![guest] = "top"], [task EXCEPT ![guest] = "leave"]}
          /\ sess' = [sess EXCEPT ![guest] = NewSession]
          /\ window' = [window EXCEPT ![guest] = 0]
          /\ UNCHANGED <<streaming, out>>
    /\ UNCHANGED <<ip, sock, wake, grace, inflight, shutdown>>

Refuse ==
    /\ at = "refuse" /\ at' = "check" /\ guest' = None
    /\ task' = [task EXCEPT ![guest] = "ended"]
    /\ inflight' = inflight - 1
    /\ UNCHANGED <<ip, sock, sess, streaming, out, window, wake, grace, shutdown>>

\* Mutant: the drain waits until the count is zero.
DrainPatiently ==
    /\ at = "drain" /\ inflight <= 0
    /\ at' = "stopped"
    /\ UNCHANGED <<ip, sock, taskVars, wake, guest, grace, inflight, shutdown>>

\* Nobody is served any more, or the grace period is over.
Drain ==
    /\ at = "drain" /\ (inflight <= 0 \/ grace = 0)
    /\ at' = "stopped"
    /\ UNCHANGED <<ip, sock, taskVars, wake, guest, grace, inflight, shutdown>>

AcceptLoop == Check \/ AcceptNothing \/ Admit \/ Refuse \/ Drain \/ \E c \in Clients : Claim(c)

----------------------------------------------------------------------------
(***************************************************************************)
(* serve: what a task does between two waits.                              *)
(***************************************************************************)
Goes(c, place) == task' = [task EXCEPT ![c] = place]

\* A panic of the handler unwinds the task: what it held is dropped, and the
\* fetch_sub that follows serve does not run.
Panics(c) ==
    /\ Goes(c, "panicked")
    /\ sock' = [sock EXCEPT ![c] = NoSock] /\ sess' = [sess EXCEPT ![c] = NewSession]
    /\ window' = [window EXCEPT ![c] = 0]

\* While a body streams the window is held open.
ServeTop(c) ==
    /\ task[c] = "top"
    /\ Goes(c, "select")
    /\ streaming' = [streaming EXCEPT ![c] = IsStreaming(sess[c])]
    /\ window' = [window EXCEPT ![c] = IF IsStreaming(sess[c]) THEN 0 ELSE @]
    /\ UNCHANGED <<ip, sock, sess, out, wake, loop, inflight, shutdown>>

\* What the socket holds is read: requests, of MIN_PROGRESS bytes together or
\* less; the end; an error. A handler may panic; the session may refuse what it
\* is given.
Read(c) ==
    /\ task[c] = "select"
    /\ \/ /\ ~sock[c].err /\ sock[c].asked > 0
          /\ Goes(c, "flush")
          /\ sock' = [sock EXCEPT ![c].asked = 0]
          /\ sess' = [sess EXCEPT ![c] = Serve([sess[c] EXCEPT !.asked = @ + sock[c].asked], Want[c])]
          /\ window' \in {window, [window EXCEPT ![c] = 0]}
       \/ /\ ~sock[c].err /\ sock[c].asked > 0
          /\ Panics(c)
       \/ /\ sock[c].err \/ sock[c].eof \/ sock[c].asked > 0
          /\ Goes(c, "leave") /\ UNCHANGED <<sock, sess, window>>
    /\ UNCHANGED <<ip, streaming, out, wake, loop, inflight, shutdown>>

\* The window ends before anything can be read.
WindowExpires(c) ==
    /\ task[c] = "select" /\ window[c] >= IO_TIMEOUT
    /\ sock[c].asked = 0 /\ ~sock[c].eof /\ ~sock[c].err
    /\ Goes(c, IF streaming[c] THEN "top" ELSE "leave")
    /\ UNCHANGED <<ip, sock, sess, streaming, out, window, wake, loop, inflight, shutdown>>

Notified(c) ==
    /\ task[c] = "select" /\ streaming[c] /\ permit[c]
    /\ permit' = [permit EXCEPT ![c] = FALSE]
    /\ Goes(c, "flush")
    /\ UNCHANGED <<ip, sock, sess, streaming, out, window, producer, loop, inflight, shutdown>>

AfterFlush(e) == IF WantsClose(e) THEN "leave" ELSE "top"

\* Where a body has ended, to_send runs the handler of the next request.
RunsHandler(e) ==
    LET conn == TakeOut(e).conn
    IN  ~HasOutput(conn) /\ conn.asked > 0 /\ ~conn.closed

\* The next output, if there is any. A handler that to_send runs may panic, and the
\* encryption of the output may fail.
Flush(c) ==
    LET o == ToSend(sess[c], Want[c])
    IN  /\ task[c] = "flush"
        /\ \/ /\ sess' = [sess EXCEPT ![c] = o.conn]
              /\ out' = [out EXCEPT ![c] = o.bytes]
              /\ Goes(c, IF o.bytes = 0 THEN AfterFlush(o.conn) ELSE "write")
              /\ UNCHANGED <<sock, window>>
           \/ /\ RunsHandler(sess[c])
              /\ Panics(c) /\ UNCHANGED out
           \/ /\ Goes(c, "leave") /\ UNCHANGED <<sock, sess, out, window>>
        /\ UNCHANGED <<ip, streaming, wake, loop, inflight, shutdown>>

\* Mutant: one flush after each read.
WrittenOnce(e) == AfterFlush(e)

\* Where the task goes once a write_all is done.
Written(e) == IF HasOutput(e) THEN "flush" ELSE AfterFlush(e)

\* write_all waits for room, for as long as it takes.
WriteAll(c) ==
    LET n == Lesser(out[c], ROOM - sock[c].sent)
    IN  /\ task[c] = "write"
        /\ \/ /\ sock[c].err
              /\ Goes(c, "leave") /\ UNCHANGED <<sock, out>>
           \/ /\ ~sock[c].err /\ n > 0
              /\ sock' = [sock EXCEPT ![c].sent = @ + n]
              /\ out' = [out EXCEPT ![c] = @ - n]
              /\ Goes(c, IF n < out[c] THEN "write" ELSE Written(sess[c]))
        /\ UNCHANGED <<ip, sess, streaming, window, wake, loop, inflight, shutdown>>

\* The socket and the session are dropped with serve's frame; then fetch_sub,
\* then the guard.
Leave(c) ==
    /\ task[c] = "leave"
    /\ Goes(c, "guard")
    /\ inflight' = inflight - 1
    /\ sock' = [sock EXCEPT ![c] = NoSock]
    /\ sess' = [sess EXCEPT ![c] = NewSession] /\ out' = [out EXCEPT ![c] = 0]
    /\ window' = [window EXCEPT ![c] = 0] /\ streaming' = [streaming EXCEPT ![c] = FALSE]
    /\ UNCHANGED <<ip, wake, loop, shutdown>>

DropGuard(c) ==
    /\ task[c] = "guard" /\ Goes(c, "ended")
    /\ UNCHANGED <<ip, sock, sess, streaming, out, window, wake, loop, inflight, shutdown>>

Task(c) ==
    \/ ServeTop(c) \/ Read(c) \/ WindowExpires(c) \/ Notified(c)
    \/ Flush(c) \/ WriteAll(c) \/ Leave(c) \/ DropGuard(c)

Init ==
    /\ ip \in Addresses
    /\ sock = [c \in Clients |-> NoSock]
    /\ task = [c \in Clients |-> "away"]
    /\ sess = [c \in Clients |-> NewSession]
    /\ streaming = [c \in Clients |-> FALSE]
    /\ out = [c \in Clients |-> 0] /\ window = [c \in Clients |-> 0]
    /\ permit = [c \in Clients |-> FALSE] /\ producer = [c \in Clients |-> FALSE]
    /\ at = "check" /\ guest = None /\ grace = None
    /\ inflight = 0 /\ shutdown = FALSE

Next ==
    \/ AcceptLoop
    \/ \E c \in Clients : Task(c)
    \/ \E c \in Clients : Knock(c) \/ Ask(c) \/ Shut(c) \/ Reset(c) \/ Take(c)
    \/ \E c \in Clients : Produce(c) \/ Notify(c)
    \/ Tick \/ Trigger

\* The runtime polls the accept loop and every task that can go on, and time
\* passes; clients and producers need do nothing.
Fairness ==
    /\ WF_vars(AcceptLoop) /\ WF_vars(Tick)
    /\ \A c \in Clients : WF_vars(Task(c))

Spec == Init /\ [][Next]_vars /\ Fairness

----------------------------------------------------------------------------
(***************************************************************************)
(* Properties.                                                             *)
(***************************************************************************)
Places == {"away", "knocking", "accepted", "top", "select", "flush", "write", "leave", "guard",
           "ended", "panicked"}

\* Every variable has its type.
TypeOK ==
    /\ task \in [Clients -> Places]
    /\ at \in {"check", "accept", "admit", "refuse", "drain", "stopped"}
    /\ guest \in Clients \cup {None}
    /\ inflight \in Int /\ shutdown \in BOOLEAN
    /\ grace \in 0..SHUTDOWN_GRACE \cup {None}

\* The accept loop counts a connection before it knows whether it will be served.
Claimed == IF at \in {"admit", "refuse"} THEN 1 ELSE 0

\* "Number of connections currently being served (gated by [`MAX_INFLIGHT`])"
\* (tokio.rs:35): at any time, but for the one the accept loop has in hand.
InflightIsServed == inflight = Cardinality(Serving) + Claimed

\* However accepts, ends and panics interleave, no more connections are served at
\* once than the cap allows, and the server stops before its deadline only when
\* none is being served.
ServedBounded ==
    /\ Cardinality(Serving) <= MAX_INFLIGHT
    /\ at = "stopped" => Serving = {} \/ grace = 0

\* A task waits only when all it could send is sent: a file body in full, the
\* requests that came before it served, and of a streamed body what there is, or
\* a notification is on its way; and what it took is_streaming to be still holds.
FlushedBeforeWaiting ==
    \A c \in Clients : task[c] = "select" =>
        /\ streaming[c] = IsStreaming(sess[c])
        /\ sess[c].ready = 0 /\ sess[c].body # "file"
        /\ sess[c].body = None => sess[c].asked = 0
        /\ IsStreaming(sess[c]) /\ (sess[c].avail > 0 \/ sess[c].over # "open")
             => producer[c] \/ permit[c]

\* A shutdown ends the server, whatever clients, producers and panics do.
DrainEnds == shutdown ~> at = "stopped"
===================================================================================
