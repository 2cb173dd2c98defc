--------------------------------- MODULE H1Conn ---------------------------------
(***************************************************************************)
(* One HTTP/1 connection from the peer's bytes to the peer's responses:    *)
(* the engine (src/proto/conn.rs, H1Conn), the session around it           *)
(* (src/session.rs) and the blocking loop that drives both                 *)
(* (src/rt/common.rs, serve_blocking_window).                              *)
(*                                                                         *)
(* The peer pipelines a script of requests. Its bytes are a sequence of    *)
(* units that may be cut anywhere: TLS handshake records, the bytes of a   *)
(* head, the TermLen bytes of the blank line that ends it, and the bytes   *)
(* of a body, a chunked one with its last chunk. Output is a sequence of   *)
(* frames: a head with the way the body is delimited, a piece of body, the *)
(* end of a chunked body, an interim 100.                                  *)
(***************************************************************************)
EXTENDS RequestHead, SequencesExt

CONSTANTS Requests,     \* the requests a peer may send
          MaxRequests,  \* how many of them
          Responses,    \* the responses a handler may give
          TermLen,      \* bytes of the empty line that ends a head
          MaxHeader,    \* Limits.max_header_bytes
          MaxBody,      \* Limits.max_body_bytes
          Handshake,    \* TLS records before the first request, 0 on plain HTTP
          Lenient,      \* SessionConfig.lenient_h1
          MaxProduced,  \* bound: pieces a stream's producer writes
          None          \* no body, no decoder

\* The body that follows a head is the one the head announces: whatever else came
\* there would be the next request.
Consistent(request) ==
    LET framing == BodyFraming(request.fields)
    IN  /\ request.size \in Nat /\ request.body \in Nat /\ request.chunks \in BOOLEAN
        /\ framing.kind = "none" => request.body = 0
        /\ framing.kind = "length" => request.body = framing.len
        /\ framing.kind # "refused" => request.chunks = (framing.kind = "chunked")

ASSUME H1Assumption ==
    /\ MaxRequests \in Nat /\ MaxHeader \in Nat /\ MaxBody \in Nat
    /\ TermLen \in Nat \ {0} /\ Handshake \in Nat /\ MaxProduced \in Nat
    /\ Lenient \in BOOLEAN
    /\ \A request \in Requests : Consistent(request)
    /\ Responses \subseteq [raw : BOOLEAN, bodyless : BOOLEAN,
                           kind : {"bytes", "file", "stream"}, len : Nat]
    /\ None \notin Nat
    /\ None \notin [kind : {"file"}, req : Nat, left : Nat]
    /\ None \notin [kind : {"stream"}, req : Nat, chunked : BOOLEAN]

VARIABLES
    script,    \* the requests the peer sends, constant
    wire,      \* their bytes, constant
    fed,       \* how many units have been received
    engine,    \* Session.engine is Some
    taken,     \* how many units were drained from inbuf
    outbuf,    \* H1Conn.outbuf
    body,      \* H1Conn.body_stream
    pending,   \* H1Conn.pending: the number of the request, 0 for none
    scanned,   \* H1Conn.head_scanned
    chunk,     \* H1Conn.chunk: how far the decoder is, or None
    closed,    \* H1Conn.closed
    interim,   \* H1Conn.interim_sent
    stream,    \* what the producer of a stream body has given so far
    out,       \* what to_send is about to return
    failed,    \* received returned an error
    at,        \* where the loop is
    sent       \* history: what was written to the peer

peer == <<script, wire>>
h1   == <<taken, outbuf, body, pending, scanned, chunk, closed, interim>>
vars == <<peer, fed, engine, h1, stream, out, failed, at, sent>>

(***************************************************************************)
(* The peer's bytes.                                                       *)
(***************************************************************************)
Repeat(unit, n) == [i \in 1..n |-> unit]

Unit(i, part) == [req |-> i, part |-> part]

UnitsOf(i, request) ==
    Repeat(Unit(i, "head"), request.size)
        \o Repeat(Unit(i, "blank"), TermLen)
        \o Repeat(Unit(i, "body"), request.body)
        \o Repeat(Unit(i, "last"), IF request.chunks THEN 1 ELSE 0)

WireOf(requests) ==
    Repeat(Unit(0, "handshake"), Handshake)
        \o FlattenSeq([i \in DOMAIN requests |-> UnitsOf(i, requests[i])])

Received(i) == \A k \in fed + 1..Len(wire) : wire[k].req # i

----------------------------------------------------------------------------
(***************************************************************************)
(* poll_request.                                                           *)
(***************************************************************************)
Buffered == fed - taken          \* inbuf.len()

InBuf(k) == wire[taken + k]

\* find_subslice for the end of the head, resumed three bytes back.
SearchFrom == IF scanned > TermLen - 1 THEN scanned - (TermLen - 1) ELSE 0

HeadEnds ==
    {e \in SearchFrom..(Buffered - TermLen) :
        \A k \in 1..TermLen : InBuf(e + k).part = "blank"}

HeadEnd == CHOOSE e \in HeadEnds : \A f \in HeadEnds : e <= f

BodyStart == HeadEnd + TermLen

Current == InBuf(1).req          \* the request at the front of the buffer

Framing == BodyFraming(script[Current].fields)

\* ChunkDecoder::advance from where the last poll left it: the first last chunk
\* it can see, and the chunks before that, all of them data.
Decoded == IF chunk = None THEN 0 ELSE chunk

LastChunks == {k \in BodyStart + Decoded + 1..Buffered : InBuf(k).part = "last"}

DecoderAt == IF LastChunks = {} THEN Buffered - BodyStart
             ELSE (CHOOSE k \in LastChunks : \A m \in LastChunks : k <= m) - BodyStart - 1

\* What is wrong with the request that can be seen so far; the order of the
\* checks is the code's.
Refused ==
    IF HeadEnds = {} THEN Buffered > MaxHeader
    ELSE \/ HeadEnd > MaxHeader
         \/ ParseFails(script[Current], Lenient)
         \/ script[Current].version = "other"
         \/ Framing.kind = "refused"
         \/ Framing.kind = "length" /\ Framing.len > MaxBody
         \/ Framing.kind = "chunked" /\ DecoderAt > MaxBody

BodyComplete ==
    CASE Framing.kind = "none"    -> TRUE
      [] Framing.kind = "length"  -> Buffered >= BodyStart + Framing.len
      [] Framing.kind = "chunked" -> LastChunks # {}
      [] OTHER -> FALSE

Consumed ==
    CASE Framing.kind = "none"    -> BodyStart
      [] Framing.kind = "length"  -> BodyStart + Framing.len
      [] Framing.kind = "chunked" -> BodyStart + DecoderAt + 1
      [] OTHER -> 0

\* Mutant: pipelined requests are parsed while a body is being sent.
NotNowBody == closed \/ pending # 0

\* poll_request returns None without looking at the input.
NotNow == closed \/ pending # 0 \/ body # None

----------------------------------------------------------------------------
(***************************************************************************)
(* Responses.                                                              *)
(***************************************************************************)
HeadFrame(i, mode, n, keep) ==
    [req |-> i, part |-> "head", mode |-> mode, len |-> n, keep |-> keep]

Frame(i, part) == [req |-> i, part |-> part]

\* fail: an error page of one piece, then the connection is over.
Fail ==
    /\ outbuf' = outbuf \o <<HeadFrame(Current, "length", 1, FALSE), Frame(Current, "data")>>
    /\ pending' = 0 /\ scanned' = 0 /\ chunk' = None /\ closed' = TRUE
    /\ UNCHANGED <<taken, body, interim>>

\* Mutant: interim_sent is not looked at.
ContinueAgain ==
    IF Expects100(script[Current].fields)
    THEN /\ outbuf' = Append(outbuf, Frame(Current, "100"))
         /\ interim' = TRUE
    ELSE UNCHANGED <<outbuf, interim>>

\* maybe_send_continue.
Continue ==
    IF ~interim /\ Expects100(script[Current].fields)
    THEN /\ outbuf' = Append(outbuf, Frame(Current, "100"))
         /\ interim' = TRUE
    ELSE UNCHANGED <<outbuf, interim>>

\* poll_request returns None: more bytes are needed.
Wait ==
    IF HeadEnds = {}
    THEN /\ scanned' = Buffered
         /\ UNCHANGED <<taken, outbuf, body, pending, chunk, closed, interim>>
    ELSE /\ scanned' = HeadEnd + TermLen - 1
         /\ chunk' = IF Framing.kind = "chunked" THEN DecoderAt ELSE None
         /\ Continue
         /\ UNCHANGED <<taken, body, pending, closed>>

\* Mutant: the scan cursor survives the bytes it pointed into.
DeliverKeepsCursor ==
    /\ taken' = taken + Consumed
    /\ chunk' = None /\ interim' = FALSE
    /\ pending' = Current
    /\ UNCHANGED <<outbuf, body, closed, scanned>>

\* poll_request returns the request.
Deliver ==
    /\ taken' = taken + Consumed
    /\ scanned' = 0 /\ chunk' = None /\ interim' = FALSE
    /\ pending' = Current
    /\ UNCHANGED <<outbuf, body, closed>>

NewStream == [ready |-> 0, made |-> 0, end |-> "open"]

\* Where the rest of a response's body comes from once its head is written.
BodySource(i, resp, chunked) ==
    CASE resp.kind = "file" /\ resp.len > 0 -> [kind |-> "file", req |-> i, left |-> resp.len]
      [] resp.kind = "stream" -> [kind |-> "stream", req |-> i, chunked |-> chunked]
      [] OTHER -> None

InlineBody(i, resp) == Repeat(Frame(i, "data"), IF resp.kind = "bytes" THEN resp.len ELSE 0)

\* serialize_raw: the handler's own head, ended by closing.
SerializeRaw(i, resp) ==
    /\ outbuf' = outbuf \o <<HeadFrame(i, "close", 0, FALSE)>> \o InlineBody(i, resp)
    /\ body' = BodySource(i, resp, FALSE)
    /\ closed' = TRUE

\* serialize: the framing is the engine's.
Serialize(i, resp) ==
    LET req            == script[i]
        omitBody       == resp.bodyless \/ req.isHead
        chunked        == resp.kind = "stream" /\ req.version = "1.1"
        closeDelimited == resp.kind = "stream" /\ ~chunked /\ ~omitBody
        keep           == KeepAlive(req.version, req.fields) /\ ~closed /\ ~closeDelimited
        mode           == CASE omitBody -> "none"
                            [] closeDelimited -> "close"
                            [] chunked /\ ~omitBody -> "chunked"
                            [] OTHER -> "length"
    IN  /\ outbuf' = outbuf \o <<HeadFrame(i, mode, resp.len, keep)>>
                        \o (IF omitBody THEN <<>> ELSE InlineBody(i, resp))
        /\ body' = IF omitBody THEN None ELSE BodySource(i, resp, chunked)
        /\ closed' = (closed \/ ~keep)

\* respond, for whatever the handler returns.
Respond(resp) ==
    /\ pending # 0
    /\ IF resp.raw THEN SerializeRaw(pending, resp) ELSE Serialize(pending, resp)
    /\ stream' = IF resp.kind = "stream" THEN NewStream ELSE stream
    /\ pending' = 0
    /\ UNCHANGED <<taken, scanned, chunk, interim>>

----------------------------------------------------------------------------
(***************************************************************************)
(* take_out. TakeOut(bytes) holds if it returns bytes.                     *)
(***************************************************************************)
TakeBuffer(bytes) ==
    /\ outbuf # <<>>
    /\ bytes = outbuf
    /\ outbuf' = <<>>
    /\ UNCHANGED <<body, closed, stream>>

TakeNothing(bytes) ==
    /\ outbuf = <<>> /\ body = None
    /\ bytes = <<>>
    /\ UNCHANGED <<outbuf, body, closed, stream>>

TakeFile(bytes) ==
    /\ outbuf = <<>> /\ body # None /\ body.kind = "file"
    /\ bytes = <<Frame(body.req, "data")>>
    /\ body' = IF body.left = 1 THEN None ELSE [body EXCEPT !.left = @ - 1]
    /\ UNCHANGED <<outbuf, closed, stream>>

\* The file shrank or cannot be read.
TakeFileShort(bytes) ==
    /\ outbuf = <<>> /\ body # None /\ body.kind = "file"
    /\ bytes = <<>>
    /\ body' = None /\ closed' = TRUE
    /\ UNCHANGED <<outbuf, stream>>

Streaming == body # None /\ body.kind = "stream"     \* is_streaming

TakeData(bytes) ==
    /\ outbuf = <<>> /\ Streaming /\ stream.ready > 0
    /\ bytes = <<Frame(body.req, "data")>>
    /\ stream' = [stream EXCEPT !.ready = 0]
    /\ UNCHANGED <<outbuf, body, closed>>

TakePending(bytes) ==
    /\ outbuf = <<>> /\ Streaming /\ stream.ready = 0 /\ stream.end = "open"
    /\ bytes = <<>>
    /\ UNCHANGED <<outbuf, body, closed, stream>>

TakeEnd(bytes) ==
    /\ outbuf = <<>> /\ Streaming /\ stream.ready = 0 /\ stream.end = "finished"
    /\ bytes = IF body.chunked THEN <<Frame(body.req, "end")>> ELSE <<>>
    /\ body' = None
    /\ UNCHANGED <<outbuf, closed, stream>>

TakeAborted(bytes) ==
    /\ outbuf = <<>> /\ Streaming /\ stream.ready = 0 /\ stream.end = "aborted"
    /\ bytes = <<>>
    /\ body' = None /\ closed' = TRUE
    /\ UNCHANGED <<outbuf, stream>>

TakeOut(bytes) ==
    /\ \/ TakeBuffer(bytes) \/ TakeNothing(bytes) \/ TakeFile(bytes)
       \/ TakeFileShort(bytes) \/ TakeData(bytes) \/ TakePending(bytes)
       \/ TakeEnd(bytes) \/ TakeAborted(bytes)
    /\ UNCHANGED <<taken, pending, scanned, chunk, interim>>

HasOutput == outbuf # <<>> \/ body # None

----------------------------------------------------------------------------
(***************************************************************************)
(* The loop. serve_ready runs twice in it: from received, and from to_send *)
(* once nothing is left to send, when `at' is "again".                     *)
(***************************************************************************)
Serving == at \in {"serve", "again"}

Served == at' = IF at = "serve" THEN "check" ELSE "append"

PollLater ==
    /\ Serving /\ NotNow /\ pending = 0
    /\ Served
    /\ UNCHANGED <<peer, fed, engine, h1, stream, out, failed, sent>>

PollRefused ==
    /\ Serving /\ ~NotNow /\ Refused
    /\ Fail
    /\ Served
    /\ UNCHANGED <<peer, fed, engine, stream, out, failed, sent>>

PollMore ==
    /\ Serving /\ ~NotNow /\ ~Refused
    /\ HeadEnds # {} => ~BodyComplete
    /\ Wait
    /\ Served
    /\ UNCHANGED <<peer, fed, engine, stream, out, failed, sent>>

PollRequest ==
    /\ Serving /\ ~NotNow /\ ~Refused
    /\ HeadEnds # {} /\ BodyComplete
    /\ Deliver
    /\ UNCHANGED <<peer, fed, engine, stream, out, failed, at, sent>>

\* run_handler and respond.
Handle ==
    /\ Serving
    /\ \E resp \in Responses : Respond(resp)
    /\ UNCHANGED <<peer, fed, engine, out, failed, at, sent>>

\* read returns n bytes: received decrypts them, chooses the engine when the
\* handshake is over, and feeds it what was decrypted.
Read(n) ==
    /\ at = "read"
    /\ fed + n <= Len(wire)
    /\ fed' = fed + n
    /\ engine' = (engine \/ fed' >= Handshake)
    /\ at' = IF engine' /\ fed' > Handshake THEN "serve" ELSE "check"
    /\ UNCHANGED <<peer, h1, stream, out, failed, sent>>

\* received fails: the TLS layer refuses the record.
ReadBroken ==
    /\ at = "read" /\ Handshake > 0
    /\ failed' = TRUE
    /\ at' = "check"
    /\ UNCHANGED <<peer, fed, engine, h1, stream, out, sent>>

\* The peer closed, reset, or said nothing for IO_TIMEOUT.
ReadLost ==
    /\ at = "read"
    /\ at' = "lost"
    /\ UNCHANGED <<peer, fed, engine, h1, stream, out, failed, sent>>

\* While a body streams: woken by the producer or after STREAM_INPUT_POLL, with
\* nothing to read.
StreamTick ==
    /\ at = "read" /\ Streaming
    /\ at' = "check"
    /\ UNCHANGED <<peer, fed, engine, h1, stream, out, failed, sent>>

\* The throughput window: time is left out, so it may have passed or not.
Check ==
    /\ at = "check"
    /\ at' \in {"flush", "lost"}
    /\ UNCHANGED <<peer, fed, engine, h1, stream, out, failed, sent>>

\* Mutant: to_send does not look for requests that waited for the body's end.
FlushOnly ==
    /\ at = "flush" /\ engine
    /\ TakeOut(out')
    /\ at' = "write"
    /\ UNCHANGED <<peer, fed, engine, failed, sent>>

\* to_send up to its first take_out; without an engine there is only the
\* handshake's own output.
Flush ==
    /\ at = "flush" /\ engine
    /\ TakeOut(out')
    /\ at' = IF ~HasOutput' /\ pending = 0 THEN "again" ELSE "write"
    /\ UNCHANGED <<peer, fed, engine, failed, sent>>

FlushHandshake ==
    /\ at = "flush" /\ ~engine
    /\ at' = "after"
    /\ UNCHANGED <<peer, fed, engine, h1, stream, out, failed, sent>>

\* The second take_out of to_send finds a buffer or nothing: every response
\* begins with a head.
TakeMore ==
    /\ at = "append"
    /\ out' = out \o outbuf
    /\ outbuf' = <<>>
    /\ at' = "write"
    /\ UNCHANGED <<peer, fed, engine, taken, body, pending, scanned, chunk, closed,
                   interim, stream, failed, sent>>

Write ==
    /\ at = "write"
    /\ sent' = sent \o out
    /\ out' = <<>>
    /\ at' = IF out # <<>> /\ HasOutput THEN "flush" ELSE "after"
    /\ UNCHANGED <<peer, fed, engine, h1, stream, failed>>

WriteLost ==
    /\ at = "write" /\ out # <<>>
    /\ at' = "lost"
    /\ UNCHANGED <<peer, fed, engine, h1, stream, out, failed, sent>>

After ==
    /\ at = "after"
    /\ at' = CASE failed -> "lost"
                [] ~failed /\ engine /\ closed /\ body = None -> "closed"   \* wants_close
                [] OTHER -> "read"
    /\ UNCHANGED <<peer, fed, engine, h1, stream, out, failed, sent>>

\* The producer of a stream body, on another thread.
Produce ==
    /\ Streaming /\ stream.end = "open" /\ stream.made < MaxProduced
    /\ stream' = [stream EXCEPT !.ready = 1, !.made = @ + 1]
    /\ UNCHANGED <<peer, fed, engine, h1, out, failed, at, sent>>

ProducerEnds ==
    /\ Streaming /\ stream.end = "open"
    /\ \E end \in {"finished", "aborted"} : stream' = [stream EXCEPT !.end = end]
    /\ UNCHANGED <<peer, fed, engine, h1, out, failed, at, sent>>

Over == at \in {"closed", "lost"}

Terminated == Over /\ UNCHANGED vars

Init ==
    /\ script \in UNION {[1..n -> Requests] : n \in 1..MaxRequests}
    /\ wire = WireOf(script)
    /\ fed = 0 /\ engine = (Handshake = 0)
    /\ taken = Handshake /\ outbuf = <<>> /\ body = None /\ pending = 0
    /\ scanned = 0 /\ chunk = None /\ closed = FALSE /\ interim = FALSE
    /\ stream = NewStream
    /\ out = <<>> /\ failed = FALSE /\ at = "read" /\ sent = <<>>

\* What the connection's thread does without anything from outside.
Loop ==
    \/ PollLater \/ PollRefused \/ PollMore \/ PollRequest \/ Handle
    \/ StreamTick \/ Check \/ Flush \/ FlushHandshake \/ TakeMore \/ Write \/ After

Next ==
    \/ Loop
    \/ \E n \in 1..Len(wire) : Read(n)
    \/ ReadBroken \/ ReadLost \/ WriteLost
    \/ Produce \/ ProducerEnds
    \/ Terminated

\* The thread runs, and a handler ends the bodies it streams; nothing is
\* assumed of the peer.
Spec == Init /\ [][Next]_vars /\ WF_vars(Loop) /\ WF_vars(ProducerEnds)

----------------------------------------------------------------------------
(***************************************************************************)
(* Properties.                                                             *)
(***************************************************************************)
\* Types, and the cursors into inbuf stay within it (conn.rs: head_scanned
\* "MUST be reset to 0 whenever consumed bytes are drained").
TypeOK ==
    /\ fed \in 0..Len(wire) /\ taken \in Handshake..Len(wire)
    /\ engine => taken <= fed /\ scanned \in 0..Buffered
    /\ chunk # None => chunk + BodyStart <= Buffered
    /\ pending \in 0..Len(script)
    /\ {closed, interim, failed, engine} \subseteq BOOLEAN
    /\ at \in {"read", "serve", "check", "flush", "again", "append", "write", "after",
               "closed", "lost"}

HeadsIn(frames) == {k \in DOMAIN frames : frames[k].part = "head"}

\* The frames that follow head k up to the next head, interim answers aside.
BodyOf(frames, k) ==
    {j \in k + 1..Len(frames) :
        /\ frames[j].part # "100"
        /\ ~\E h \in HeadsIn(frames) : k < h /\ h <= j}

IsLast(frames, k) == \A h \in HeadsIn(frames) : h <= k

\* What the client may read after head k, the way that head announces it, and
\* what it reads when the response is whole.
BodyLegal(frames, k) ==
    LET ends == {j \in BodyOf(frames, k) : frames[j].part = "end"}
    IN  CASE frames[k].mode = "none"    -> BodyOf(frames, k) = {}
          [] frames[k].mode = "length"  -> Cardinality(BodyOf(frames, k)) <= frames[k].len
          [] frames[k].mode = "chunked" -> \A e \in ends : \A j \in BodyOf(frames, k) : j <= e
          [] OTHER -> ends = {}

BodyWhole(frames, k) ==
    CASE frames[k].mode = "none"    -> TRUE
      [] frames[k].mode = "length"  -> Cardinality(BodyOf(frames, k)) = frames[k].len
      [] frames[k].mode = "chunked" -> \E j \in BodyOf(frames, k) : frames[j].part = "end"
      [] OTHER -> FALSE

\* The client can match responses to requests: the n-th head answers the n-th
\* request, the frames after it are that response's and no more than its head
\* announces, and another head comes only when that body is complete and the
\* connection was to persist (H1Conn: "responses must not interleave").
ResponsesIntact ==
    \A k \in HeadsIn(sent) :
        /\ sent[k].req = Cardinality({h \in HeadsIn(sent) : h <= k})
        /\ \A j \in BodyOf(sent, k) : sent[j].req = sent[k].req
        /\ BodyLegal(sent, k)
        /\ ~IsLast(sent, k) => sent[k].keep /\ BodyWhole(sent, k)

\* 100 Continue is sent at most once for a request and never after its answer.
ContinueInTime ==
    \A k \in DOMAIN sent : sent[k].part = "100" =>
        \A j \in DOMAIN sent \ {k} : sent[j].req = sent[k].req => j > k

\* A request that has arrived whole is answered, unless the connection ends:
\* nothing pipelined is forgotten while a body is sent or received.
EveryRequestAnswered ==
    \A i \in 1..MaxRequests :
        (i \in DOMAIN script /\ Received(i))
            ~> (Over \/ \E k \in HeadsIn(sent) : sent[k].req = i)
================================================================================
