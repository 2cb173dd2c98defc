----------------------------- MODULE MCTokioRuntime -----------------------------
(* Two clients and one place.                                                    *)
EXTENDS TokioRuntime

CONSTANTS c1, c2

\* They share an address, or do not.
MCAddresses == {[c \in Clients |-> c1], [c \in Clients |-> c]}

\* One has its bodies from a producer and keeps the connection.
MCWant == [c \in Clients |->
    IF c = c1 THEN [source |-> "stream", close |-> FALSE, requests |-> 2]
    ELSE [source |-> "file", close |-> TRUE, requests |-> 1]]
=================================================================================
