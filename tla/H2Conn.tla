--------------------------------- MODULE H2Conn ---------------------------------
(***************************************************************************)
(* One HTTP/2 connection: the engine (src/h2/conn.rs, H2Conn), the session *)
(* that hands its requests to the handler (src/session.rs, drive,          *)
(* serve_ready, to_send) and the client at the other end.                  *)
(*                                                                         *)
(* conn is the struct; each handler of the source is an operator from a    *)
(* conn to the conn it leaves behind, so a handler that calls another is   *)
(* the composition of both. A frame of the client is one step; so is each  *)
(* turn of the loop in pump_out. A header block counts as many octets as   *)
(* it has frames, and is decoded into a request, or is "malformed"         *)
(* (request_head refuses it), "large" (the decoded list is over            *)
(* max_header_bytes) or "garbage" (HPACK cannot decode it).                *)
(***************************************************************************)
EXTENDS Integers, Sequences, FiniteSets

CONSTANTS
    Sids,                     \* stream identifiers a client may open, odd
    DEFAULT_WINDOW, MAX_WINDOW, MAX_FRAME, MAX_CONCURRENT_STREAMS,
    MAX_CONTINUATION_FRAMES, RST_FLOOD_MIN, RST_ABSOLUTE_CAP,
    MAX_CONTROL_ACKS_PER_PASS,
    MaxHeader, MaxBody,       \* Limits
    InitialWindows,           \* what a client may ask for in SETTINGS
    Increments,               \* what a WINDOW_UPDATE may add
    Responses,                \* what a handler may answer
    MaxFrames,                \* bound: frames a client sends
    MaxProduced,              \* bound: pieces a producer adds to a stream body
    None

ASSUME H2Assumption ==
    /\ Sids \subseteq Nat \ {0}
    /\ DEFAULT_WINDOW \in Nat /\ MAX_WINDOW \in Nat /\ DEFAULT_WINDOW <= MAX_WINDOW
    /\ MAX_FRAME \in Nat \ {0} /\ MAX_CONCURRENT_STREAMS \in Nat
    /\ InitialWindows \subseteq Nat /\ Increments \subseteq Nat
    /\ None \notin [kind : {"bytes", "file", "stream"}, left : Nat,
                   over : {"open", "finished", "aborted"}, readable : Int]
    /\ \A r \in Responses : /\ r.bodyless \in BOOLEAN
                            /\ r.kind \in {"bytes", "file", "stream"}
                            /\ r.len \in Nat /\ r.readable \in Nat

VARIABLES
    conn,      \* H2Conn, and in conn.seen the client's view of it
    at,        \* what the connection's thread is doing
    visit,     \* the stream pump_out is at
    then,      \* what follows pump_out
    woken,     \* a producer fired the waker since the last to_send
    bound      \* what the client and the producers may still do

vars == <<conn, at, visit, then, woken, bound>>

----------------------------------------------------------------------------
(***************************************************************************)
(* The client reads what is written, in order: the state each stream is in *)
(* for it, the credit it has given and not yet seen used, the stream whose *)
(* header block it is in the middle of, and the octets of DATA it sent     *)
(* that the connection's window was not given back.                        *)
(***************************************************************************)
Frame(type, sid, n, end, last) ==
    [type |-> type, sid |-> sid, n |-> n, end |-> end, last |-> last]

\* What frame f does to the stream it is on; anything else breaks the framing.
After(seen, f) ==
    CASE seen.block \notin {0, f.sid} \/ (seen.block # 0) # (f.type = "CONTINUATION") -> "broken"
      [] f.type = "CONTINUATION" -> seen.state[f.sid]
      [] f.type = "HEADERS" /\ seen.state[f.sid] = "idle" -> IF f.end THEN "ended" ELSE "open"
      [] f.type = "DATA" /\ seen.state[f.sid] = "open" -> IF f.end THEN "ended" ELSE "open"
      [] f.type = "RST_STREAM" /\ seen.state[f.sid] \in {"idle", "open"} -> "reset"
      [] OTHER -> "broken"

Reads(seen, f) ==
    IF f.type = "WINDOW_UPDATE"
    THEN [seen EXCEPT !.owed = @ - IF f.sid = 0 THEN f.n ELSE 0]
    ELSE [seen EXCEPT
            !.state[f.sid] = After(seen, f),
            !.block = IF f.type \in {"HEADERS", "CONTINUATION"} /\ ~f.last THEN f.sid ELSE 0,
            !.credit = @ - IF f.type = "DATA" THEN f.n ELSE 0,
            !.stream[f.sid] = @ - IF f.type = "DATA" THEN f.n ELSE 0]

\* What frame f of the client's own does to its accounts.
Gives(seen, f, initial) ==
    CASE ~f.ok -> seen
      [] f.ok /\ f.type = "SETTINGS" ->
            [seen EXCEPT !.stream = [s \in Sids |-> @[s] + f.n - initial]]
      [] f.ok /\ f.type = "WINDOW_UPDATE" /\ f.sid = 0 -> [seen EXCEPT !.credit = @ + f.n]
      [] f.ok /\ f.type = "WINDOW_UPDATE" /\ f.sid # 0 -> [seen EXCEPT !.stream[f.sid] = @ + f.n]
      [] f.ok /\ f.type = "DATA" -> [seen EXCEPT !.owed = @ + f.n]
      [] OTHER -> seen

----------------------------------------------------------------------------
(***************************************************************************)
(* Output, errors and the removal of a stream.                             *)
(***************************************************************************)
Write(c, frame) == [c EXCEPT !.seen = Reads(@, frame)]

WriteReset(c, sid) == Write(c, Frame("RST_STREAM", sid, 0, FALSE, FALSE))

WriteCredit(c, sid, n) ==
    IF n > 0 THEN Write(c, Frame("WINDOW_UPDATE", sid, n, FALSE, FALSE)) ELSE c

ConnError(c) == [c EXCEPT !.closed = TRUE]

Without(f, sid) == [s \in DOMAIN f \ {sid} |-> f[s]]

\* The stream and the head it waits with go together everywhere.
Remove(c, sid) ==
    [c EXCEPT !.streams = Without(@, sid), !.pending = @ \ {sid}]

\* Work that was thrown away before it was answered.
Churn(c, sid) ==
    IF c.streams[sid].delivered THEN c ELSE [c EXCEPT !.churned = @ + 1]

NewStream(c) ==
    [assembling |-> FALSE, size |-> 0, ended |-> FALSE, delivered |-> FALSE,
     refused |-> Cardinality(DOMAIN c.streams) >= MAX_CONCURRENT_STREAMS,
     got |-> 0, window |-> c.initial, body |-> None]

----------------------------------------------------------------------------
(***************************************************************************)
(* The frames of the client.                                               *)
(***************************************************************************)
NoteControlAck(c) ==
    IF c.acks + 1 > MAX_CONTROL_ACKS_PER_PASS
    THEN ConnError([c EXCEPT !.acks = @ + 1]) ELSE [c EXCEPT !.acks = @ + 1]

\* Mutant: a new INITIAL_WINDOW_SIZE is for the streams still to come.
OnSettingsNewOnly(c, f) ==
    IF ~f.ok \/ f.n > MAX_WINDOW THEN ConnError(c)
    ELSE NoteControlAck([c EXCEPT !.initial = f.n])

\* A new INITIAL_WINDOW_SIZE moves the window of every stream, below zero too.
OnSettings(c, f) ==
    LET delta == f.n - c.initial
        moved == [c EXCEPT !.initial = f.n,
                           !.streams = [s \in DOMAIN c.streams |->
                                          [c.streams[s] EXCEPT !.window = @ + delta]]]
    IN  IF ~f.ok \/ f.n > MAX_WINDOW THEN ConnError(c)
        ELSE IF \E s \in DOMAIN moved.streams : moved.streams[s].window > MAX_WINDOW
             THEN ConnError(moved)
        ELSE NoteControlAck(moved)

OnWindowUpdate(c, f) ==
    LET more == [c EXCEPT !.streams[f.sid].window = @ + f.n]
    IN  IF ~f.ok \/ f.n = 0 THEN ConnError(c)
        ELSE IF f.sid = 0
             THEN IF c.window + f.n > MAX_WINDOW
                  THEN ConnError([c EXCEPT !.window = @ + f.n])
                  ELSE [c EXCEPT !.window = @ + f.n]
        ELSE IF f.sid \notin DOMAIN c.streams THEN c
        ELSE IF more.streams[f.sid].window > MAX_WINDOW
             THEN Remove(WriteReset(more, f.sid), f.sid)
        ELSE more

Deliver(c, sid) ==
    LET done == [c EXCEPT !.streams[sid].delivered = TRUE,
                          !.completed = @ + 1,
                          !.ready = Append(@, sid)]
    IN  IF Len(done.ready) > MAX_CONCURRENT_STREAMS THEN ConnError(done) ELSE done

FinishHeaders(c, sid, block) ==
    LET d == [c EXCEPT !.streams[sid].assembling = FALSE, !.streams[sid].size = 0]
    IN  CASE block = "garbage" -> ConnError(d)
          [] block = "large" -> Remove(Churn(WriteReset(d, sid), sid), sid)
          [] block \in {"request", "malformed"} /\ d.streams[sid].refused ->
                Remove(WriteReset(d, sid), sid)
          [] block = "request" /\ ~d.streams[sid].refused /\ d.streams[sid].ended ->
                Deliver(d, sid)
          [] block = "request" /\ ~d.streams[sid].refused /\ ~d.streams[sid].ended ->
                [d EXCEPT !.pending = @ \cup {sid}]
          [] OTHER -> Remove(WriteReset(d, sid), sid)

\* Mutant: a stream that has ended takes more.
IsOverNever(c, sid) == FALSE

\* A stream that has ended or was delivered takes nothing more from the client.
IsOver(c, sid) ==
    sid \in DOMAIN c.streams /\ (c.streams[sid].ended \/ c.streams[sid].delivered)

StreamClosed(c, sid) == Remove(Churn(WriteReset(c, sid), sid), sid)

OpenStream(c, sid) ==
    IF sid \in DOMAIN c.streams THEN c
    ELSE [c EXCEPT !.last = sid,
                   !.streams = [s \in DOMAIN c.streams \cup {sid} |->
                                  IF s = sid THEN NewStream(c) ELSE c.streams[s]]]

OnHeaders(c, f) ==
    LET sid == f.sid
        opened == OpenStream(c, sid)
        stream == [opened.streams[sid] EXCEPT !.size = @ + 1, !.assembling = TRUE,
                                              !.ended = @ \/ f.end]
        started == [opened EXCEPT !.conts = 0, !.streams[sid] = stream]
    IN  IF sid \notin Sids \/ ~f.ok THEN ConnError(c)
        ELSE IF IsOver(c, sid) THEN StreamClosed(c, sid)
        ELSE IF sid \notin DOMAIN c.streams /\ sid <= c.last THEN ConnError(c)
        ELSE IF started.streams[sid].size > MaxHeader THEN ConnError(started)
        ELSE IF f.last THEN FinishHeaders(started, sid, f.block)
        ELSE [started EXCEPT !.continuation = sid]

OnContinuation(c, f) ==
    LET counted == [c EXCEPT !.conts = @ + 1]
        grown == [counted EXCEPT !.streams[f.sid].size = @ + 1]
    IN  IF counted.conts > MAX_CONTINUATION_FRAMES THEN ConnError(counted)
        ELSE IF f.sid \notin DOMAIN c.streams THEN ConnError(counted)
        ELSE IF ~c.streams[f.sid].assembling THEN ConnError(counted)
        ELSE IF grown.streams[f.sid].size > MaxHeader THEN ConnError(grown)
        ELSE IF f.last
             THEN FinishHeaders([grown EXCEPT !.continuation = 0], f.sid, f.block)
        ELSE grown

OnData(c, f) ==
    LET sid == f.sid
        stream == [c.streams[sid] EXCEPT !.got = @ + f.n, !.ended = @ \/ f.end]
        taken == [c EXCEPT !.streams[sid] = stream]
        credited == WriteCredit(WriteCredit(taken, 0, f.n), sid, f.n)
    IN  IF ~f.ok THEN ConnError(c)
        ELSE IF IsOver(c, sid) THEN WriteCredit(StreamClosed(c, sid), 0, f.n)
        ELSE IF sid \notin DOMAIN c.streams THEN c
        ELSE IF taken.streams[sid].got > MaxBody
             THEN WriteCredit(Remove(WriteReset(taken, sid), sid), 0, f.n)
        ELSE IF f.end /\ sid \in c.pending
             THEN Deliver([credited EXCEPT !.pending = @ \ {sid},
                                           !.streams[sid].got = 0], sid)
        ELSE credited

OnReset(c, f) ==
    LET gone == [Remove(Churn(c, f.sid), f.sid) EXCEPT !.resets = @ + 1,
                                                       !.seen.state[f.sid] = "reset"]
    IN  IF f.sid \notin DOMAIN c.streams THEN c
        ELSE IF \/ gone.resets > RST_FLOOD_MIN /\ gone.resets > 2 * gone.completed
                \/ gone.churned > RST_ABSOLUTE_CAP /\ gone.churned > gone.completed
             THEN ConnError(gone)
        ELSE gone

\* parse_frames, for one frame.
OnFrame(c, f) ==
    IF c.continuation # 0 /\ (f.type # "CONTINUATION" \/ f.sid # c.continuation)
    THEN ConnError(c)
    ELSE CASE f.type = "SETTINGS"      -> OnSettings(c, f)
           [] f.type = "WINDOW_UPDATE" -> OnWindowUpdate(c, f)
           [] f.type = "PING"          -> IF f.ok THEN NoteControlAck(c) ELSE c
           [] f.type = "HEADERS"       -> OnHeaders(c, f)
           [] f.type = "CONTINUATION"  -> OnContinuation(c, f)
           [] f.type = "DATA"          -> OnData(c, f)
           [] f.type = "RST_STREAM"    -> OnReset(c, f)
           [] f.type = "GOAWAY"        -> [c EXCEPT !.closed = TRUE]
           [] OTHER                    -> c

----------------------------------------------------------------------------
(***************************************************************************)
(* Responses.                                                              *)
(***************************************************************************)
HasBody(body) == body.kind = "stream" \/ body.left > 0

OutBody(r) ==
    IF r.bodyless THEN [kind |-> "bytes", left |-> 0, over |-> "open", readable |-> 0]
    ELSE [kind |-> r.kind, left |-> r.len, over |-> "open", readable |-> r.readable]

\* The frames of a head of one or two parts; a head without a body ends the
\* stream on its first frame, if that is its last too.
WriteHead(c, sid, parts, body) ==
    IF parts = 1 THEN Write(c, Frame("HEADERS", sid, 0, ~HasBody(body), TRUE))
    ELSE Write(Write(c, Frame("HEADERS", sid, 0, FALSE, FALSE)),
               Frame("CONTINUATION", sid, 0, FALSE, TRUE))

\* respond and emit_headers: a stream that is gone is not answered.
Answer(c, sid, r) ==
    IF sid \notin DOMAIN c.streams THEN c
    ELSE WriteHead([c EXCEPT !.streams[sid].body = OutBody(r)], sid, r.head, OutBody(r))

Least(S) == CHOOSE x \in S : \A y \in S : x <= y

Allowed(c, sid) == Least({c.window, c.streams[sid].window, MAX_FRAME})

\* OutBody::poll_avail
Avail(body) ==
    CASE body.left > 0 -> "data"
      [] body.left = 0 /\ body.kind # "stream" -> "end"
      [] body.left = 0 /\ body.kind = "stream" /\ body.over = "open" -> "pending"
      [] body.left = 0 /\ body.kind = "stream" /\ body.over = "finished" -> "end"
      [] OTHER -> "failed"

\* A turn of pump_out's loop over stream sid would not break.
Turns(c, sid) ==
    /\ sid \in DOMAIN c.streams
    /\ c.streams[sid].body # None
    /\ \/ Avail(c.streams[sid].body) \in {"end", "failed"}
       \/ Avail(c.streams[sid].body) = "data" /\ Allowed(c, sid) > 0

SendData(c, sid) ==
    LET body == c.streams[sid].body
        n == Least({body.left, Allowed(c, sid)})
        end == body.kind # "stream" /\ n = body.left
        rest == [body EXCEPT !.left = @ - n, !.readable = @ - n]
        stream == [c.streams[sid] EXCEPT !.window = @ - n, !.body = rest]
        sent == Write([c EXCEPT !.window = @ - n, !.streams[sid] = stream],
                      Frame("DATA", sid, n, end, FALSE))
    IN  IF body.kind = "file" /\ body.readable < n
        THEN Remove(WriteReset(c, sid), sid)
        ELSE IF end THEN Remove(sent, sid)
        ELSE sent

\* Mutants: every body ends with an empty DATA frame; a stream whose producer
\* aborted is dropped without a word.
PumpTurnAlwaysEnds(c, sid) ==
    CASE Avail(c.streams[sid].body) = "end" ->
            Remove(Write(c, Frame("DATA", sid, 0, TRUE, FALSE)), sid)
      [] Avail(c.streams[sid].body) = "failed" -> Remove(WriteReset(c, sid), sid)
      [] OTHER -> SendData(c, sid)

PumpTurnNoReset(c, sid) ==
    CASE Avail(c.streams[sid].body) = "end" ->
            Remove(IF c.streams[sid].body.kind = "stream"
                   THEN Write(c, Frame("DATA", sid, 0, TRUE, FALSE)) ELSE c, sid)
      [] Avail(c.streams[sid].body) = "failed" -> Remove(c, sid)
      [] OTHER -> SendData(c, sid)

PumpTurn(c, sid) ==
    CASE Avail(c.streams[sid].body) = "end" ->
            Remove(IF c.streams[sid].body.kind = "stream"
                   THEN Write(c, Frame("DATA", sid, 0, TRUE, FALSE)) ELSE c, sid)
      [] Avail(c.streams[sid].body) = "failed" -> Remove(WriteReset(c, sid), sid)
      [] OTHER -> SendData(c, sid)

\* is_streaming
IsStreaming(c) ==
    \E s \in DOMAIN c.streams :
        /\ c.streams[s].body # None
        /\ c.streams[s].body.kind = "stream"

----------------------------------------------------------------------------
(***************************************************************************)
(* The steps.                                                              *)
(***************************************************************************)
ClientFrame(type, sid, n, end, last, block, ok) ==
    [type |-> type, sid |-> sid, n |-> n, end |-> end, last |-> last,
     block |-> block, ok |-> ok]

Blocks == {"request", "malformed", "large", "garbage"}

ClientFrames ==
    { ClientFrame("HEADERS", s, 0, end, TRUE, b, TRUE) :
        s \in Sids, end \in BOOLEAN, b \in Blocks }
    \cup { ClientFrame("HEADERS", s, 0, end, FALSE, "request", TRUE) :
        s \in Sids, end \in BOOLEAN }
    \cup { ClientFrame("HEADERS", 0, 0, TRUE, TRUE, "request", TRUE) }
    \cup { ClientFrame("CONTINUATION", s, 0, FALSE, last, "request", TRUE) :
        s \in Sids, last \in BOOLEAN }
    \cup { ClientFrame("DATA", s, n, end, FALSE, "request", TRUE) :
        s \in Sids, n \in 0..1, end \in BOOLEAN }
    \cup { ClientFrame("RST_STREAM", s, 0, FALSE, FALSE, "request", TRUE) : s \in Sids }
    \cup { ClientFrame("SETTINGS", 0, n, FALSE, FALSE, "request", TRUE) : n \in InitialWindows }
    \cup { ClientFrame("WINDOW_UPDATE", s, n, FALSE, FALSE, "request", TRUE) :
        s \in Sids \cup {0}, n \in Increments }
    \cup { ClientFrame("PING", 0, 0, FALSE, FALSE, "request", ok) : ok \in BOOLEAN }
    \cup { ClientFrame("GOAWAY", 0, 0, FALSE, FALSE, "request", TRUE),
           ClientFrame("PRIORITY", 0, 0, FALSE, FALSE, "request", TRUE) }
    \cup { ClientFrame(type, s, 0, FALSE, TRUE, "request", FALSE) :
        type \in {"HEADERS", "DATA", "SETTINGS", "WINDOW_UPDATE"}, s \in Sids }

NewConn ==
    [streams |-> [s \in {} |-> None], pending |-> {}, ready |-> <<>>,
     window |-> DEFAULT_WINDOW, initial |-> DEFAULT_WINDOW,
     continuation |-> 0, conts |-> 0, acks |-> 0, resets |-> 0, churned |-> 0,
     completed |-> 0, last |-> 0, closed |-> FALSE,
     seen |-> [state |-> [s \in Sids |-> "idle"], credit |-> DEFAULT_WINDOW,
               stream |-> [s \in Sids |-> DEFAULT_WINDOW], block |-> 0, owed |-> 0]]

Init ==
    /\ conn = NewConn
    /\ at = "preface" /\ visit = 0 /\ then = "serve" /\ woken = FALSE
    /\ bound = [frames |-> MaxFrames, pieces |-> MaxProduced]

\* received, before the first frame.
Preface ==
    /\ at = "preface"
    /\ \/ at' = "wait" /\ UNCHANGED conn
       \/ at' = "closed" /\ conn' = ConnError(conn)
    /\ UNCHANGED <<visit, then, woken, bound>>

\* received and parse_frames: a pass takes as many frames as have arrived.
Receive(f) ==
    /\ at \in {"wait", "parse"} /\ ~conn.closed /\ bound.frames > 0
    /\ LET c == IF at = "wait" THEN [conn EXCEPT !.acks = 0] ELSE conn
       IN  conn' = OnFrame([c EXCEPT !.seen = Gives(@, f, c.initial)], f)
    /\ bound' = [bound EXCEPT !.frames = @ - 1]
    /\ at' = "parse"
    /\ UNCHANGED <<visit, then, woken>>

Pump(next) == at' = "pump" /\ visit' = 0 /\ then' = next

EndPass == at = "parse" /\ Pump("serve") /\ UNCHANGED <<conn, woken, bound>>

\* Mutant: one turn for each stream.
ToPumpOnce == {s \in Sids : s > visit /\ Turns(conn, s)}

\* A turn of pump_out: the streams in order, each until it would wait.
ToPump == {s \in Sids : s >= visit /\ Turns(conn, s)}

PumpOut ==
    /\ at = "pump"
    /\ \/ ToPump = {} /\ at' = then /\ UNCHANGED <<conn, visit>>
       \/ \E sid \in ToPump :
             /\ \A s \in ToPump : sid <= s
             /\ visit' = sid /\ conn' = PumpTurn(conn, sid) /\ UNCHANGED at
    /\ UNCHANGED <<then, woken, bound>>

\* serve_ready, one request: the handler, then respond.
Serve ==
    /\ at = "serve" /\ conn.ready # <<>>
    /\ \E r \in Responses :
          conn' = Answer([conn EXCEPT !.ready = Tail(@)], Head(conn.ready), r)
    /\ Pump("serve")
    /\ UNCHANGED <<woken, bound>>

\* to_send: take_out pumps once more, unless the connection is closed.
ToSend ==
    /\ at = "serve" /\ conn.ready = <<>>
    /\ IF conn.closed THEN at' = "sent" /\ UNCHANGED <<visit, then>> ELSE Pump("sent")
    /\ UNCHANGED <<conn, woken, bound>>

\* The loop wrote what it had: it closes, or waits for the client or a producer.
Sent ==
    /\ at = "sent"
    /\ at' = IF conn.closed THEN "closed" ELSE "wait"
    /\ UNCHANGED <<conn, visit, then, woken, bound>>

Wake ==
    /\ at = "wait" /\ woken /\ IsStreaming(conn)
    /\ woken' = FALSE
    /\ Pump("sent")
    /\ UNCHANGED <<conn, bound>>

\* A producer sends a piece, finishes or aborts, and fires the waker.
Produces(s) ==
    /\ s \in DOMAIN conn.streams
    /\ conn.streams[s].body # None
    /\ conn.streams[s].body.kind = "stream" /\ conn.streams[s].body.over = "open"

Produce(s) ==
    /\ Produces(s) /\ bound.pieces > 0
    /\ conn' = [conn EXCEPT !.streams[s].body.left = @ + 1]
    /\ bound' = [bound EXCEPT !.pieces = @ - 1]
    /\ woken' = TRUE
    /\ UNCHANGED <<at, visit, then>>

EndBody(s) ==
    /\ Produces(s)
    /\ \E how \in {"finished", "aborted"} : conn' = [conn EXCEPT !.streams[s].body.over = how]
    /\ woken' = TRUE
    /\ UNCHANGED <<at, visit, then, bound>>

Next ==
    \/ Preface \/ EndPass \/ PumpOut \/ Serve \/ ToSend \/ Sent \/ Wake
    \/ \E f \in ClientFrames : Receive(f)
    \/ \E s \in Sids : Produce(s) \/ EndBody(s)

Spec == Init /\ [][Next]_vars

----------------------------------------------------------------------------
(***************************************************************************)
(* Properties.                                                             *)
(***************************************************************************)
\* Every stream of the table was opened by the client; windows stay integers.
TypeOK ==
    /\ DOMAIN conn.streams \subseteq Sids
    /\ at \in {"preface", "wait", "parse", "pump", "serve", "sent", "closed"}
    /\ conn.window \in Int /\ conn.initial \in 0..MAX_WINDOW
    /\ \A s \in DOMAIN conn.streams : conn.streams[s].window \in Int

\* The tables agree: a head that waits for a body has a stream that was not refused,
\* and what is ready was received whole, is there once and has no answer yet.
\* Requests of refused streams and of streams past the cap never reach the handler.
RequestsOnce ==
    /\ conn.pending \subseteq DOMAIN conn.streams
    /\ \A s \in conn.pending : ~conn.streams[s].refused
    /\ \A i, j \in DOMAIN conn.ready : conn.ready[i] = conn.ready[j] => i = j
    /\ \A i \in DOMAIN conn.ready : conn.ready[i] \in DOMAIN conn.streams =>
          LET s == conn.streams[conn.ready[i]]
          IN  s.delivered /\ s.ended /\ ~s.refused /\ s.body = None
    /\ Cardinality({s \in DOMAIN conn.streams : conn.streams[s].delivered})
            <= MAX_CONCURRENT_STREAMS

\* A frame of DATA fits the credit the client has left, on its stream and on the
\* connection, although SETTINGS may have taken credit back and made it negative.
WindowsRespected ==
    [][(at' # "parse" /\ ~conn.closed) =>
          /\ conn.seen.credit' < conn.seen.credit => conn.seen.credit' >= 0
          /\ \A s \in Sids : conn.seen.stream[s]' < conn.seen.stream[s]
                                => conn.seen.stream[s]' >= 0]_vars

\* Each stream is one header block, then DATA, then one end: nothing follows an
\* END_STREAM or a reset, and nothing comes between the parts of a header block.
StreamsWellFramed == \A s \in Sids : conn.seen.state[s] # "broken"

\* A response that has begun is never forgotten: as long as the client sees the
\* stream open, the server still has something to send on it.
AnswersEnd ==
    at = "wait" => \A s \in Sids : conn.seen.state[s] = "open" => s \in DOMAIN conn.streams

\* Nothing that could be sent is left behind when the thread waits: what remains
\* is out of credit, waits for its producer, or the wake-up is on its way.
NothingLeftBehind ==
    (at = "wait" /\ ~woken) => \A s \in Sids : ~Turns(conn, s)

\* "A sized body's END_STREAM rode on its HEADERS (empty body) or last DATA frame"
\* (conn.rs:844-845): of a sized body of which nothing is left the client has the end.
EndHasRidden ==
    \A s \in DOMAIN conn.streams :
        LET body == conn.streams[s].body
        IN  body # None =>
                (body.kind # "stream" /\ body.left = 0 => conn.seen.state[s] = "ended")

\* "Return the octets to the connection window only (the stream is gone) so
\* connection-level flow control stays consistent" (conn.rs:711-712).
CreditReturned == (at = "wait" /\ ~conn.closed) => conn.seen.owed = 0

=================================================================================
