------------------------------- MODULE ByteStream -------------------------------
(***************************************************************************)
(* What a streamed response body promises, without its buffer, its         *)
(* threads or its wake-ups: bytes reach the peer in the order they were    *)
(* written, none is skipped, and the peer is told "this is all of it" only *)
(* when the writer finished and every byte has arrived.  It may be cut     *)
(* short at any moment, and never says more after either.                  *)
(***************************************************************************)
EXTENDS Naturals

VARIABLES written,   \* bytes the writer has handed over, numbered from 0
          finished,  \* the writer has declared the body complete
          received,  \* the peer holds exactly the bytes 0 .. received - 1
          fate       \* "open", "complete" (peer was told so) or "cut"

vars == <<written, finished, received, fate>>

Init ==
    /\ written = 0
    /\ finished = FALSE
    /\ received = 0
    /\ fate = "open"

Write ==
    /\ ~finished
    /\ written' \in Nat /\ written' > written
    /\ UNCHANGED <<finished, received, fate>>

Finish ==
    /\ finished' = TRUE
    /\ UNCHANGED <<written, received, fate>>

Deliver ==
    /\ fate = "open"
    /\ received' \in Nat /\ received < received' /\ received' <= written
    /\ UNCHANGED <<written, finished, fate>>

Complete ==
    /\ fate = "open"
    /\ finished /\ received = written
    /\ fate' = "complete"
    /\ UNCHANGED <<written, finished, received>>

Cut ==
    /\ fate = "open"
    /\ fate' = "cut"
    /\ UNCHANGED <<written, finished, received>>

Next == Write \/ Finish \/ Deliver \/ Complete \/ Cut

Spec == Init /\ [][Next]_vars
=================================================================================
