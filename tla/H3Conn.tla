--------------------------------- MODULE H3Conn ---------------------------------
(***************************************************************************)
(* The HTTP/3 engine of one QUIC connection (src/h3/conn.rs, H3Conn) and   *)
(* the send side of a response body (src/proto/response.rs, OutBody).      *)
(*                                                                         *)
(* As in H2Conn each function of the source is an operator on the record   *)
(* it changes. A request stream holds a sequence of frames; a body is a    *)
(* number of units, and so is the credit QUIC gives to a stream. The QUIC  *)
(* connection itself is outside the repository: what it must tell the      *)
(* engine (what a stream has received, what it lets a stream send) is in   *)
(* the records that come in and in "quic".                                 *)
(***************************************************************************)
EXTENDS Integers, SequencesExt

CONSTANTS
    Streams,             \* the request streams a client may open
    MAX_REQ_STREAMS,
    H3_STREAM_CHUNK,
    MaxRequest,          \* Limits.max_body_bytes + Limits.max_header_bytes
    None

ASSUME H3Assumption ==
    /\ MAX_REQ_STREAMS \in Nat /\ MaxRequest \in Nat
    /\ H3_STREAM_CHUNK \in Nat \ {0}
    /\ None \notin [kind : {"bytes", "file", "stream"}, left : Nat,
                    over : {"open", "finished", "aborted"}, readable : Int, ended : BOOLEAN]

\* A table with an entry for k.
Put(f, k, v) == [x \in DOMAIN f \cup {k} |-> IF x = k THEN v ELSE f[x]]

----------------------------------------------------------------------------
(***************************************************************************)
(* OutBody. "over" is what the producer has said of a stream, "ended" that *)
(* a poll has read it. poll_avail answers and notes: PollAvail is the      *)
(* answer, Polled the body after it.                                       *)
(***************************************************************************)
OutBody(r) ==
    IF r.bodyless
    THEN [kind |-> "bytes", left |-> 0, over |-> "open", readable |-> 0, ended |-> FALSE]
    ELSE [kind |-> r.kind, left |-> r.len, over |-> "open", readable |-> r.readable,
          ended |-> FALSE]

IsPendingStream(body) == body # None /\ body.kind = "stream" /\ ~body.ended

\* An abort is told by one poll; the polls after that one say that the body has
\* come to its end.
PollAvail(body) ==
    CASE body.left > 0 -> "data"
      [] body.left = 0 /\ (body.kind # "stream" \/ body.ended \/ body.over = "finished") -> "end"
      [] body.left = 0 /\ IsPendingStream(body) /\ body.over = "open" -> "pending"
      [] OTHER -> "failed"

Polled(body) ==
    [body EXCEPT !.ended = @ \/ (body.left = 0 /\ body.kind = "stream" /\ body.over # "open")]

\* A file that has shrunk gives nothing of a chunk it cannot give whole.
Readable(body, n) == body.kind = "file" => body.readable >= n

TakeChunk(body, n) == [body EXCEPT !.left = @ - n, !.readable = @ - n]

----------------------------------------------------------------------------
(***************************************************************************)
(* Request streams.                                                        *)
(***************************************************************************)
NewStream == [inbuf |-> <<>>, fin |-> FALSE, delivered |-> FALSE, out |-> 0,
              body |-> None, finishAfter |-> FALSE]

NewH3 == [started |-> FALSE, reqs |-> [s \in {} |-> NewStream]]

Drop(h3, sid) == [h3 EXCEPT !.reqs = Restrict(@, DOMAIN @ \ {sid})]

IsStreaming(h3) == \E s \in DOMAIN h3.reqs : IsPendingStream(h3.reqs[s].body)

Outcome(h3, quic) == [h3 |-> h3, quic |-> quic]

\* Resetting a stream stops what the server sends on it, not what the client sends.
Reset(quic, sid) == [quic EXCEPT !.seen[sid].end = "reset"]

\* read_request: got is what the stream has received since it was last read.
ReadRequest(h3, quic, sid, got) ==
    LET known   == sid \in DOMAIN h3.reqs
        old     == IF known THEN h3.reqs[sid] ELSE NewStream
        new     == [old EXCEPT !.inbuf = @ \o got.frames, !.fin = @ \/ got.fin]
        nothing == got.frames = <<>> /\ ~got.fin
        full    == ~known /\ Cardinality(DOMAIN h3.reqs) >= MAX_REQ_STREAMS
    IN  CASE nothing /\ known -> Outcome(Drop(h3, sid), Reset(quic, sid))
          [] nothing /\ ~known -> Outcome(h3, quic)
          [] ~nothing /\ full -> Outcome(h3, Reset(quic, sid))
          [] ~nothing /\ ~full /\ Len(new.inbuf) > MaxRequest ->
                Outcome(Drop(h3, sid), Reset(quic, sid))
          [] OTHER -> Outcome([h3 EXCEPT !.reqs = Put(@, sid, new)], quic)

\* parse_request: the first HEADERS frame is the head, wherever it stands, and a
\* frame cut short refuses the request. "bad headers" are too large, cannot be
\* decoded, or are no request head.
Parses(frames) ==
    LET heads == SelectSeq(frames, LAMBDA f : f \in {"headers", "bad headers"})
    IN  /\ ~Contains(frames, "cut")
        /\ heads # <<>> /\ Head(heads) = "headers"

\* handle_request, with the response the handler gives, for every stream of
\* ready: what it does to one stream does not depend on the others.
Answered(r, response) ==
    [inbuf |-> <<>>, fin |-> r.fin, delivered |-> TRUE, out |-> 1,
     body |-> OutBody(response), finishAfter |-> TRUE]

HandleRequests(h3, quic, ready, response) ==
    LET refused == {s \in ready : ~Parses(h3.reqs[s].inbuf)}
    IN  Outcome([h3 EXCEPT !.reqs = [s \in DOMAIN @ \ refused |->
                    IF s \in ready THEN Answered(@[s], response) ELSE @[s]]],
                [quic EXCEPT !.seen = [s \in Streams |->
                    CASE s \in refused -> [@[s] EXCEPT !.end = "reset"]
                      [] s \in ready \ refused ->
                            [@[s] EXCEPT !.due = 1 + OutBody(response).left]
                      [] OTHER -> @[s]]])

----------------------------------------------------------------------------
(***************************************************************************)
(* flush. A stream is taken out of the engine and the QUIC connection for  *)
(* it: x has its record, its credit, what the client has seen of it, and   *)
(* whether the loop takes another turn, stops, or the stream is gone.      *)
(***************************************************************************)
Least(a, b) == IF a < b THEN a ELSE b

\* What is framed goes out as far as the credit of the stream allows; a stream that
\* the server has reset takes nothing.
WriteOut(x) ==
    LET n == IF x.seen.end = "no" THEN Least(x.r.out, x.credit) ELSE 0
    IN  [x EXCEPT !.r.out = @ - n, !.credit = @ - n, !.seen.got = @ + n]

Stay(x) == [x EXCEPT !.turn = "stop"]

Gone(x, end) == [x EXCEPT !.turn = "gone", !.seen.end = end]

\* One turn of the loop over a stream: write, then frame the next chunk.
FlushTurn(x) ==
    LET w == WriteOut(x)
        body == w.r.body
        n == Least(body.left, H3_STREAM_CHUNK)
    IN  IF w.r.out > 0 \/ body = None THEN Stay(w)
        ELSE CASE PollAvail(body) = "data" /\ Readable(body, n) ->
                     [w EXCEPT !.r.body = TakeChunk(@, n), !.r.out = n]
               [] PollAvail(body) \in {"pending", "end"} ->
                     Stay([w EXCEPT !.r.body = Polled(@)])
               [] OTHER -> Gone(w, "reset")

\* All turns over a stream: each takes a unit of the body, or is the last.
FlushLoop(x) ==
    LET turns == IF x.r.body = None THEN 1 ELSE x.r.body.left + 1
        after[i \in 0..turns] ==
            IF i = 0 THEN x
            ELSE LET y == after[i - 1] IN IF y.turn = "again" THEN FlushTurn(y) ELSE y
    IN  after[turns]

\* The body of a stream that is left is polled once more, whatever the loop stopped
\* for, and only "end" is looked at: that poll may be the one that reads an abort.
\* A stream that has been sent whole is finished, unless it has been reset.
Repolled(x) == IF x.r.body = None THEN x ELSE [x EXCEPT !.r.body = Polled(@)]

BodyDone(x) == x.r.body = None \/ PollAvail(x.r.body) = "end"

\* Mutant: what is framed and has no credit is forgotten.
FinishWholeEarly(x) ==
    IF x.turn = "gone" THEN x
    ELSE IF x.r.finishAfter /\ BodyDone(x) /\ x.seen.end = "no" THEN Gone(x, "fin")
    ELSE Repolled(x)

FinishWhole(x) ==
    IF x.turn = "gone" THEN x
    ELSE IF x.r.finishAfter /\ x.r.out = 0 /\ BodyDone(x) /\ x.seen.end = "no"
         THEN Gone(x, "fin")
    ELSE Repolled(x)

FlushStream(r, credit, seen) ==
    FinishWhole(FlushLoop([r |-> r, credit |-> credit, seen |-> seen, turn |-> "again"]))

\* The streams go back to where they were taken from.
PutBack(h3, quic, x) ==
    LET kept == {s \in DOMAIN x : x[s].turn # "gone"}
    IN  Outcome([h3 EXCEPT !.reqs = [s \in kept |-> x[s].r]],
                [quic EXCEPT
                    !.credit = [s \in Streams |-> IF s \in DOMAIN x THEN x[s].credit ELSE @[s]],
                    !.seen = [s \in Streams |-> IF s \in DOMAIN x THEN x[s].seen ELSE @[s]]])

Flush(h3, quic) ==
    PutBack(h3, quic,
            [s \in DOMAIN h3.reqs |-> FlushStream(h3.reqs[s], quic.credit[s], quic.seen[s])])

\* What has arrived on the readable streams is read, one after the other.
ReadStreams(h3, quic) ==
    LET ids == SetToSeq(DOMAIN quic.readable)
        after[i \in 0..Len(ids)] ==
            IF i = 0 THEN Outcome(h3, [quic EXCEPT !.readable = Restrict(@, {})])
            ELSE ReadRequest(after[i - 1].h3, after[i - 1].quic, ids[i], quic.readable[ids[i]])
    IN  after[Len(ids)]

\* drive: nothing before the handshake is complete; then what has arrived is
\* read, every whole request is handled and all is flushed.
Drive(h3, quic, response) ==
    LET read == ReadStreams([h3 EXCEPT !.started = TRUE], quic)
        ready == {s \in DOMAIN read.h3.reqs : read.h3.reqs[s].fin /\ ~read.h3.reqs[s].delivered}
        handled == HandleRequests(read.h3, read.quic, ready, response)
    IN  IF quic.complete THEN Flush(handled.h3, handled.quic) ELSE Outcome(h3, quic)

=================================================================================
