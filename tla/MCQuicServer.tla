------------------------------ MODULE MCQuicServer ------------------------------
(* Two clients compete for one connection and one place to wait.                 *)
EXTENDS QuicServer

Resp(kind, n, readable) ==
    [bodyless |-> FALSE, kind |-> kind, len |-> n, readable |-> readable]

MCResponses == {
    [Resp("stream", 0, 0) EXCEPT !.bodyless = TRUE],
    Resp("file", 2, 1), Resp("stream", 0, 0) }

Symmetry == Permutations(Peers) \cup Permutations(Streams)
=================================================================================
