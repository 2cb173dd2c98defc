------------------------------- MODULE LoopSession -------------------------------
(***************************************************************************)
(* A session (src/session.rs) as far as an event loop that drives it can   *)
(* tell. How requests are parsed and bodies framed is the subject of       *)
(* H1Conn; here a session owes for each request a head and a body of SIZE  *)
(* units, from a file or from a producer on another thread.                *)
(***************************************************************************)
EXTENDS Integers

CONSTANTS None,
          SIZE   \* units of a response body

ASSUME SizeAssumption == SIZE \in Nat \ {0} /\ None \notin {"file", "stream"}

Lesser(m, n) == IF m < n THEN m ELSE n

\* Requests read and not served, units of output ready, the body being sent, what
\* its producer has yet to write, what its channel holds, how its producer ended.
NewSession == [asked |-> 0, ready |-> 0, body |-> None, left |-> 0, avail |-> 0, over |-> "open",
               closed |-> FALSE]

\* The handler answers the next request, one at a time; w is what it asks for.
Serve(e, w) ==
    IF e.body # None \/ e.asked = 0 \/ e.closed THEN e
    ELSE [e EXCEPT !.asked = @ - 1, !.ready = @ + 1, !.closed = w.close,
                   !.body = w.source, !.left = SIZE, !.avail = 0, !.over = "open"]

HasOutput(e)   == e.ready > 0 \/ e.body # None
IsStreaming(e) == e.body = "stream"
WantsClose(e)  == e.closed /\ e.body = None

\* take_out: the head, then a chunk of the file or what the channel holds.
TakeOut(e) ==
    CASE e.ready > 0 -> [conn |-> [e EXCEPT !.ready = 0], bytes |-> e.ready]
      [] e.ready = 0 /\ e.body = "file" ->
            [conn |-> [e EXCEPT !.left = @ - 1, !.body = IF e.left = 1 THEN None ELSE @], bytes |-> 1]
      [] e.ready = 0 /\ IsStreaming(e) /\ e.avail > 0 ->
            [conn |-> [e EXCEPT !.avail = 0], bytes |-> e.avail]
      [] e.ready = 0 /\ IsStreaming(e) /\ e.avail = 0 /\ e.over = "finished" ->
            [conn |-> [e EXCEPT !.body = None], bytes |-> 1]
      [] e.ready = 0 /\ IsStreaming(e) /\ e.avail = 0 /\ e.over = "aborted" ->
            [conn |-> [e EXCEPT !.body = None, !.closed = TRUE], bytes |-> 0]
      [] OTHER -> [conn |-> e, bytes |-> 0]

\* to_send: when a body is done, the next request that is waiting is served.
ToSend(e, w) ==
    LET first == TakeOut(e)
        next  == TakeOut(Serve(first.conn, w))
    IN  IF HasOutput(first.conn) THEN first
        ELSE [next EXCEPT !.bytes = @ + first.bytes]

\* A producer's next step: it writes a unit, finishes, or aborts.
Produced(e) ==
    {[e EXCEPT !.over = "aborted"],
     IF e.left > 0 THEN [e EXCEPT !.left = @ - 1, !.avail = @ + 1]
     ELSE [e EXCEPT !.over = "finished"]}
==================================================================================
