------------------------------- MODULE MCMioLoop -------------------------------
(* Two clients and one place, so that one may be shed while the other is served. *)
EXTENDS MioLoop

CONSTANTS c1, c2

\* One has its body from a producer and keeps the connection.
MCWant == [c \in Clients |-> IF c = c1 THEN [source |-> "stream", close |-> FALSE]
                             ELSE [source |-> "file", close |-> TRUE]]
=================================================================================
