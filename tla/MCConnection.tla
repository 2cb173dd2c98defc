----------------------------- MODULE MCConnection -----------------------------
(* Two sides of one HTTP/1 connection, each with a part of the behaviours of    *)
(* its own. "body" is one body that two producers write and a connection thread *)
(* sends: pieces of one and of three bytes, a buffer and a coalescing limit of  *)
(* two, so that a piece may overshoot the buffer, two pieces may coalesce, and  *)
(* three may not. "requests" is up to two pipelined requests over TLS or in the *)
(* clear: every branch of the engine, each way a body is delimited on the way   *)
(* in and out, both versions, HEAD, an expected 100, a refused head, a head and *)
(* bodies at the limits.                                                        *)
EXTENDS BodyStream, H1Conn

VARIABLE part  \* "body" or "requests"

mcVars == <<part, bodyVars, vars>>

MCSizes == {1, 3}

Plain(fields) == [requestLine |-> TRUE, version |-> "1.1", isHead |-> FALSE, fields |-> fields,
                  size |-> 1, body |-> 0, chunks |-> FALSE]

Te == Line("te", <<"chunked">>)
Cl(n) == Line("cl", n)
Keep == Line("connection", {"keep-alive"})
Close == Line("connection", {"close"})
Expect == Line("expect", 0)

MCRequests == {
    Plain(<<>>),
    [Plain(<<Close>>) EXCEPT !.isHead = TRUE, !.size = 2],
    [Plain(<<Keep>>) EXCEPT !.version = "1.0"],
    [Plain(<<Cl(2), Expect>>) EXCEPT !.body = 2],
    [Plain(<<Te, Expect>>) EXCEPT !.body = 1, !.chunks = TRUE],
    [Plain(<<Te>>) EXCEPT !.body = 3, !.chunks = TRUE],
    Plain(<<Te, Cl(1)>>),
    [Plain(<<>>) EXCEPT !.size = 4] }

Resp(kind, n) == [raw |-> FALSE, bodyless |-> FALSE, kind |-> kind, len |-> n]

MCResponses == {
    Resp("bytes", 1), Resp("file", 2), Resp("stream", 0),
    [Resp("stream", 0) EXCEPT !.raw = TRUE],
    [Resp("file", 1) EXCEPT !.bodyless = TRUE] }

\* The part that does not run rests in one of its first states.
MCInit ==
    /\ BodyInit /\ Init
    /\ \/ part = "body" /\ script = <<Plain(<<>>)>>
       \/ part = "requests" /\ framing = "chunked"

MCNext ==
    \/ part = "body" /\ BodyNext /\ UNCHANGED <<part, vars>>
    \/ part = "requests" /\ Next /\ UNCHANGED <<part, bodyVars>>

\* The fairness of both specifications, for the part that runs.
MCFairness ==
    /\ \A p \in Producers : WF_bodyVars(part = "body" /\ ProducerStep(p))
    /\ WF_bodyVars(part = "body" /\ Connection)
    /\ WF_vars(part = "requests" /\ Loop)
    /\ WF_vars(part = "requests" /\ ProducerEnds)

MCSpec == MCInit /\ [][MCNext]_mcVars /\ MCFairness
===============================================================================
