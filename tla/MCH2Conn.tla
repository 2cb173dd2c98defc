-------------------------------- MODULE MCH2Conn --------------------------------
(* Two streams and the answers that take every way out of pump_out.              *)
EXTENDS H2Conn

Resp(head, kind, n, readable) ==
    [head |-> head, bodyless |-> FALSE, kind |-> kind, len |-> n, readable |-> readable]

MCResponses == {
    [Resp(1, "stream", 0, 0) EXCEPT !.bodyless = TRUE],
    Resp(2, "bytes", 2, 2),
    Resp(1, "file", 2, 1),
    Resp(2, "stream", 0, 0) }

\* A response without a body whose head takes two frames.
MCLongHead == {[Resp(2, "stream", 0, 0) EXCEPT !.bodyless = TRUE]}
=================================================================================
