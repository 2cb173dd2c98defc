--------------------------- MODULE TokioRuntimeProofs ---------------------------
(***************************************************************************)
(* Proofs about TokioRuntime for any number of clients and addresses, any  *)
(* limits and any bodies.                                                  *)
(***************************************************************************)
EXTENDS TokioRuntime, FiniteSetTheorems, TLAPS

Counted == Serving \cup Panicked

\* Who the accept loop has in hand is nobody's yet.
Types ==
    /\ task \in [Clients -> Places]
    /\ at \in {"check", "accept", "admit", "refuse", "drain", "stopped"}
    /\ at \in {"admit", "refuse"} => guest \in Clients /\ task[guest] = "accepted"
    /\ guest \in Clients \cup {None}
    /\ inflight \in Int /\ shutdown \in BOOLEAN
    /\ grace \in 0..SHUTDOWN_GRACE \cup {None}

\* The counter, by one set; and room for the one that is about to be served.
Counts == inflight = Cardinality(Counted) + Claimed

Room == Cardinality(Counted) + (IF at = "admit" THEN 1 ELSE 0) <= MAX_INFLIGHT

IInv == Types /\ Counts /\ Room

LEMMA FiniteSets ==
    /\ IsFiniteSet(Serving) /\ IsFiniteSet(Panicked) /\ IsFiniteSet(Counted)
    /\ Cardinality(Serving) \in Nat /\ Cardinality(Panicked) \in Nat
    /\ Cardinality(Counted) \in Nat
<1>1. Serving \in SUBSET Clients /\ Panicked \in SUBSET Clients /\ Counted \in SUBSET Clients
  BY DEF Serving, Panicked, Counted
<1> QED BY <1>1, FS_Subset, FS_CardinalityType, TokioAssumption

LEMMA Apart == Cardinality(Counted) = Cardinality(Serving) + Cardinality(Panicked)
<1>1. Serving \cap Panicked = {}
  BY DEF Serving, Panicked
<1>2. Cardinality(Serving \cap Panicked) = 0
  BY <1>1, FS_EmptySet
<1> QED BY <1>2, FiniteSets, FS_Union DEF Counted

LEMMA InitScalars == Init => grace = None /\ guest = None /\ at = "check" /\ inflight = 0 /\ shutdown = FALSE
<1>1. Init => grace = None
  BY DEF Init
<1>2. Init => guest = None
  BY DEF Init
<1>3. Init => at = "check"
  BY DEF Init
<1>4. Init => inflight = 0
  BY DEF Init
<1>5. Init => shutdown = FALSE
  BY DEF Init
<1> QED BY <1>1, <1>2, <1>3, <1>4, <1>5

LEMMA InitIInv == Init => IInv
<1> SUFFICES ASSUME Init PROVE IInv
  OBVIOUS
<1>1. Types
  <2>1. task \in [Clients -> Places]
    BY DEF Init, Places
  <2>2. grace \in 0..SHUTDOWN_GRACE \cup {None} /\ guest \in Clients \cup {None}
    <3> HIDE DEF Init
    <3> QED BY InitScalars
  <2>3. at = "check" /\ shutdown = FALSE
    BY InitScalars
  <2>4. inflight \in Int
    <3> HIDE DEF Init
    <3> QED BY InitScalars
  <2> QED BY <2>1, <2>2, <2>3, <2>4 DEF Types
<1>2. Counted = {}
  BY DEF Init, Counted, Serving, Panicked
<1>3. Cardinality(Counted) = 0
  BY <1>2, FS_EmptySet
<1>4. MAX_INFLIGHT >= 0 /\ MAX_INFLIGHT \in Nat
  BY TokioAssumption
<1> QED BY <1>1, <1>3, <1>4, InitScalars DEF IInv, Counts, Room, Claimed

\* A step that counts nobody in or out.
LEMMA Aside ==
    ASSUME IInv, Types', Counted' = Counted, inflight' = inflight,
           \/ at' = at
           \/ at \notin {"admit", "refuse"} /\ at' \notin {"admit", "refuse"}
           \/ at = "admit" /\ at' = "refuse"
    PROVE  IInv'
<1>1. Claimed' = Claimed
  BY DEF Claimed
<1>2. Counts'
  BY <1>1 DEF IInv, Counts
<1>3. MAX_INFLIGHT \in Nat /\ Cardinality(Counted) \in Nat
  BY TokioAssumption, FiniteSets
<1>4. Room'
  BY <1>3 DEF IInv, Room
<1> QED BY <1>2, <1>4 DEF IInv

\* A task of one client moves on; it is counted as before.
LEMMA Moves ==
    ASSUME IInv, NEW c \in Clients, NEW place \in Places, Goes(c, place),
           task[c] # "accepted",
           UNCHANGED <<at, guest, grace, inflight, shutdown>>,
           task[c] \in {"top", "select", "flush", "write", "leave", "panicked"}
             <=> place \in {"top", "select", "flush", "write", "leave", "panicked"}
    PROVE  IInv'
<1>1. Types'
  BY DEF IInv, Types, Goes
<1>2. Counted' = Counted
  BY DEF IInv, Types, Goes, Counted, Serving, Panicked
<1>3. at' = at /\ inflight' = inflight
  OBVIOUS
<1> QED BY <1>1, <1>2, <1>3, Aside

LEMMA TaskStep == ASSUME IInv, NEW c \in Clients, Task(c) PROVE IInv'
<1>1. CASE ServeTop(c)
  BY <1>1, Moves DEF ServeTop, loop, Places
<1>2. CASE Read(c)
  BY <1>2, Moves DEF Read, Panics, loop, Places
<1>3. CASE WindowExpires(c)
  BY <1>3, Moves DEF WindowExpires, loop, Places
<1>4. CASE Notified(c)
  BY <1>4, Moves DEF Notified, loop, Places
<1>5. CASE Flush(c)
  BY <1>5, Moves DEF Flush, Panics, AfterFlush, loop, Places
<1>6. CASE WriteAll(c)
  BY <1>6, Moves DEF WriteAll, Written, AfterFlush, loop, Places
<1>7. CASE Leave(c)
  <2>1. Types'
    BY <1>7 DEF Leave, Goes, loop, IInv, Types, Places
  <2>2. c \in Counted /\ Counted' = Counted \ {c}
    BY <1>7 DEF Leave, Goes, IInv, Types, Counted, Serving, Panicked
  <2>3. Cardinality(Counted') = Cardinality(Counted) - 1
    BY <2>2, FiniteSets, FS_RemoveElement
  <2>4. at' = at /\ inflight' = inflight - 1
    BY <1>7 DEF Leave, loop
  <2>5. MAX_INFLIGHT \in Nat /\ Cardinality(Counted) \in Nat /\ inflight \in Int
    BY TokioAssumption, FiniteSets DEF IInv, Types
  <2>6. Counts'
    BY <2>3, <2>4, <2>5 DEF IInv, Counts, Claimed
  <2>7. Room'
    BY <2>3, <2>4, <2>5 DEF IInv, Room
  <2> QED BY <2>1, <2>6, <2>7 DEF IInv
<1>8. CASE DropGuard(c)
  BY <1>8, Moves DEF DropGuard, loop, Places
<1> QED BY <1>1, <1>2, <1>3, <1>4, <1>5, <1>6, <1>7, <1>8 DEF Task

LEMMA AcceptStep == ASSUME IInv, AcceptLoop PROVE IInv'
<1>1. CASE Check \/ AcceptNothing \/ Drain
  <2>1. Types'
    BY <1>1, TokioAssumption DEF Check, AcceptNothing, Drain, taskVars, IInv, Types
  <2>2. Counted' = Counted
    BY <1>1 DEF Check, AcceptNothing, Drain, taskVars, Counted, Serving, Panicked
  <2>3. inflight' = inflight /\ at \notin {"admit", "refuse"} /\ at' \notin {"admit", "refuse"}
    BY <1>1 DEF Check, AcceptNothing, Drain
  <2> QED BY <2>1, <2>2, <2>3, Aside
<1>2. CASE \E c \in Clients : Claim(c)
  <2>1. PICK c \in Clients : Claim(c)
    BY <1>2
  <2>2. Types'
    BY <2>1 DEF Claim, Backlog, IInv, Types, Places
  <2>3. Counted' = Counted
    BY <2>1 DEF Claim, Backlog, IInv, Types, Counted, Serving, Panicked
  <2>4. MAX_INFLIGHT \in Nat /\ Cardinality(Counted) \in Nat /\ inflight \in Int
    BY TokioAssumption, FiniteSets DEF IInv, Types
  <2>5. inflight = Cardinality(Counted) /\ inflight' = inflight + 1
    BY <2>1, <2>4 DEF Claim, IInv, Counts, Claimed
  <2>6. at' = (IF inflight >= MAX_INFLIGHT THEN "refuse" ELSE "admit")
    BY <2>1 DEF Claim
  <2>7. Counts'
    BY <2>3, <2>4, <2>5, <2>6 DEF Counts, Claimed
  <2>8. Room'
    BY <2>1, <2>3, <2>4, <2>5, <2>6 DEF Claim, IInv, Room
  <2> QED BY <2>2, <2>7, <2>8 DEF IInv
<1>3. CASE Admit
  <2>1. CASE at' = "refuse"
    <3>1. Types' /\ Counted' = Counted
      BY <1>3, <2>1 DEF Admit, taskVars, IInv, Types, Counted, Serving, Panicked
    <3> QED BY <1>3, <2>1, <3>1, Aside DEF Admit
  <2>2. CASE at' = "check"
    <3>1. Types'
      BY <1>3, <2>2 DEF Admit, IInv, Types, Places
    <3>2. guest \in Clients /\ guest \notin Counted /\ Counted' = Counted \cup {guest}
      BY <1>3, <2>2 DEF Admit, IInv, Types, Places, Counted, Serving, Panicked
    <3>3. Cardinality(Counted') = Cardinality(Counted) + 1
      BY <3>2, FiniteSets, FS_AddElement
    <3>4. at = "admit" /\ inflight' = inflight
      BY <1>3 DEF Admit
    <3>5. MAX_INFLIGHT \in Nat /\ Cardinality(Counted) \in Nat /\ inflight \in Int
      BY TokioAssumption, FiniteSets DEF IInv, Types
    <3>6. Counts'
      BY <2>2, <3>3, <3>4, <3>5 DEF IInv, Counts, Claimed
    <3>7. Room'
      BY <2>2, <3>3, <3>4, <3>5 DEF IInv, Room
    <3> QED BY <3>1, <3>6, <3>7 DEF IInv
  <2> QED BY <1>3, <2>1, <2>2 DEF Admit
<1>4. CASE Refuse
  <2>1. Types'
    BY <1>4 DEF Refuse, IInv, Types, Places
  <2>2. Counted' = Counted
    BY <1>4 DEF Refuse, IInv, Types, Places, Counted, Serving, Panicked
  <2>3. at = "refuse" /\ at' = "check" /\ inflight' = inflight - 1
    BY <1>4 DEF Refuse
  <2>4. MAX_INFLIGHT \in Nat /\ Cardinality(Counted) \in Nat /\ inflight \in Int
    BY TokioAssumption, FiniteSets DEF IInv, Types
  <2>5. Counts'
    BY <2>2, <2>3, <2>4 DEF IInv, Counts, Claimed
  <2>6. Room'
    BY <2>2, <2>3, <2>4 DEF IInv, Room
  <2> QED BY <2>1, <2>5, <2>6 DEF IInv
<1> QED BY <1>1, <1>2, <1>3, <1>4 DEF AcceptLoop

LEMMA NextIInv == ASSUME IInv, [Next]_vars PROVE IInv'
<1>1. CASE AcceptLoop
  BY <1>1, AcceptStep
<1>2. CASE \E c \in Clients : Task(c)
  BY <1>2, TaskStep
<1>3. CASE \E c \in Clients : Knock(c)
  <2>1. PICK c \in Clients : Knock(c)
    BY <1>3
  <2> QED BY <2>1, Moves DEF Knock, Goes, loop, Places
<1>4. CASE /\ task' = task /\ UNCHANGED <<at, guest, inflight>> /\ shutdown' \in BOOLEAN
           /\ grace' \in 0..SHUTDOWN_GRACE \cup {None}
  <2>1. Types' /\ Counted' = Counted
    BY <1>4 DEF IInv, Types, Counted, Serving, Panicked
  <2>2. at' = at /\ inflight' = inflight
    BY <1>4
  <2> QED BY <2>1, <2>2, Aside
<1>5. CASE \E c \in Clients : Ask(c) \/ Shut(c) \/ Reset(c) \/ Take(c) \/ Produce(c) \/ Notify(c)
  BY <1>4, <1>5 DEF Ask, Shut, Reset, Take, Happens, Produce, Notify, taskVars, loop, IInv, Types
<1>6. CASE Tick
  <2>1. grace' \in 0..SHUTDOWN_GRACE \cup {None}
    BY <1>6, TokioAssumption DEF Tick, IInv, Types
  <2> QED BY <1>4, <1>6, <2>1 DEF Tick, IInv, Types
<1>7. CASE Trigger
  BY <1>4, <1>7 DEF Trigger, taskVars, loop, IInv, Types
<1>8. CASE UNCHANGED vars
  BY <1>4, <1>8 DEF vars, taskVars, loop, IInv, Types
<1> QED BY <1>1, <1>2, <1>3, <1>5, <1>6, <1>7, <1>8 DEF Next

LEMMA Invariant == Spec => []IInv
BY InitIInv, NextIInv, PTL DEF Spec

THEOREM TypeCorrect == Spec => []TypeOK
<1>1. IInv => TypeOK
  BY DEF IInv, Types, TypeOK
<1> QED BY <1>1, Invariant, PTL

\* A handler that panics keeps its place for good: the counter stands for the
\* connections being served, the one in the accept loop's hands, and every one whose
\* handler has panicked (rt/tokio.rs:85 is skipped by the unwinding).
THEOREM PanicsKeepPlaces ==
    Spec => [](inflight = Cardinality(Serving) + Cardinality(Panicked) + Claimed)
<1>. DEFINE Held == inflight = Cardinality(Serving) + Cardinality(Panicked) + Claimed
<1>1. IInv => Held
  BY Apart DEF IInv, Counts
<1> QED BY <1>1, Invariant, PTL

\* Once the server has stopped, nobody is served or the deadline has passed.
Stopped == at = "stopped" => Serving = {} \/ grace = 0

LEMMA NextStopped ==
    ASSUME IInv, Stopped, [Next]_vars
    PROVE  Stopped'
<1> SUFFICES ASSUME at' = "stopped" PROVE Serving' = {} \/ grace' = 0
  BY DEF Stopped
<1>1. CASE Drain
  <2>1. grace = 0 => grace' = 0
    BY <1>1 DEF Drain
  <2>2. ASSUME inflight <= 0 PROVE Serving' = {}
    <3>1. inflight = Cardinality(Counted)
      BY <1>1, FiniteSets DEF Drain, IInv, Counts, Claimed
    <3>2. Cardinality(Counted) = 0
      BY <2>2, <3>1, FiniteSets
    <3>3. Counted = {}
      BY <3>2, FiniteSets, FS_EmptySet
    <3> QED BY <1>1, <3>3 DEF Drain, taskVars, Counted, Serving
  <2> QED BY <1>1, <2>1, <2>2 DEF Drain
<1>2. ASSUME ~Drain PROVE Serving' = {} \/ grace' = 0
  <2>1. at = "stopped" /\ at' = at
    BY <1>2 DEF Next, AcceptLoop, Check, AcceptNothing, Claim, Admit, Refuse, Task, ServeTop, Read,
       WindowExpires, Notified, Flush, WriteAll, Leave, DropGuard, Knock, Ask, Shut, Reset, Take,
       Happens, Produce, Notify, Tick, Trigger, loop, vars
  <2>2. grace = 0 => grace' = 0
    BY <2>1 DEF Next, AcceptLoop, Check, AcceptNothing, Claim, Admit, Refuse, Drain, Task, ServeTop,
       Read, WindowExpires, Notified, Flush, WriteAll, Leave, DropGuard, Knock, Ask, Shut, Reset,
       Take, Happens, Produce, Notify, Tick, Trigger, loop, vars
  <2>3. ASSUME NEW c \in Clients, c \in Serving' PROVE c \in Serving
    <3>1. task \in [Clients -> Places]
      BY DEF IInv, Types
    <3>2. CASE \E d \in Clients : Task(d)
      BY <2>3, <3>1, <3>2 DEF Task, ServeTop, Read, WindowExpires, Notified, Flush, WriteAll, Leave,
         DropGuard, Goes, Panics, Serving
    <3>3. CASE \E d \in Clients : Knock(d)
      BY <2>3, <3>1, <3>3 DEF Knock, Serving
    <3>4. CASE task' = task
      BY <2>3, <3>4 DEF Serving
    <3>5. \/ \E d \in Clients : Task(d)
          \/ \E d \in Clients : Knock(d)
          \/ task' = task
      BY <2>1 DEF Next, AcceptLoop, Check, AcceptNothing, Claim, Admit, Refuse, Drain, Ask, Shut,
         Reset, Take, Happens, Produce, Notify, Tick, Trigger, taskVars, vars
    <3> QED BY <3>2, <3>3, <3>4, <3>5
  <2>4. Serving' \subseteq Serving
    BY <2>3 DEF Serving
  <2> QED BY <2>1, <2>2, <2>4 DEF Stopped
<1> QED BY <1>1, <1>2

\* However accepts, ends and panics interleave, the cap holds, and the server stops
\* before its deadline only when it serves nobody (rt/tokio.rs:62-75, 101-104).
THEOREM CapHolds == Spec => []ServedBounded
<1>1. IInv => Cardinality(Serving) <= MAX_INFLIGHT
  <2> SUFFICES ASSUME IInv PROVE Cardinality(Serving) <= MAX_INFLIGHT
    OBVIOUS
  <2>1. MAX_INFLIGHT \in Nat
    BY TokioAssumption
  <2> QED BY <2>1, Apart, FiniteSets DEF IInv, Room
<1>2. Init => Stopped
  <2> SUFFICES ASSUME Init PROVE Stopped
    OBVIOUS
  <2> QED BY InitScalars DEF Stopped
<1>3. IInv /\ Stopped /\ [Next]_vars => Stopped'
  BY NextStopped
<1>4. IInv /\ Stopped => ServedBounded
  BY <1>1 DEF Stopped, ServedBounded
<1> QED BY <1>2, <1>3, <1>4, Invariant, PTL DEF Spec

-----------------------------------------------------------------------------
(* What a session has to send when its task waits.                          *)

Session == [asked : Nat, ready : Nat, body : {None, "file", "stream"}, left : Int, avail : Nat,
            over : {"open", "finished", "aborted"}, closed : BOOLEAN]

Wants == [source : {"file", "stream"}, close : BOOLEAN, requests : Nat]

LEMMA NewSessionType == NewSession \in Session
BY DEF NewSession, Session

LEMMA ServeType == ASSUME NEW e \in Session, NEW w \in Wants PROVE Serve(e, w) \in Session
<1>1. CASE e.body # None \/ e.asked = 0 \/ e.closed
  BY <1>1 DEF Serve
<1>2. CASE ~(e.body # None \/ e.asked = 0 \/ e.closed)
  <2>1. SIZE \in Int
    BY SizeAssumption
  <2>2. e.asked - 1 \in Nat /\ e.ready + 1 \in Nat
    BY <1>2 DEF Session
  <2> QED BY <1>2, <2>1, <2>2 DEF Serve, Session, Wants
<1> QED BY <1>1, <1>2

LEMMA WithBody ==
    ASSUME NEW e \in Session, NEW b \in {None, "file", "stream"}
    PROVE  /\ [e EXCEPT !.body = b] \in Session
           /\ [e EXCEPT !.body = b].body = b
           /\ [e EXCEPT !.body = b].ready = e.ready
BY DEF Session

LEMMA WithClosed ==
    ASSUME NEW e \in Session
    PROVE  /\ [e EXCEPT !.closed = TRUE] \in Session
           /\ [e EXCEPT !.closed = TRUE].body = e.body
           /\ [e EXCEPT !.closed = TRUE].ready = e.ready
BY DEF Session

LEMMA WithLeft ==
    ASSUME NEW e \in Session, NEW n \in Int
    PROVE  /\ [e EXCEPT !.left = n] \in Session
           /\ [e EXCEPT !.left = n].ready = e.ready
BY DEF Session

\* What take_out gives, and what it leaves.
LEMMA TakeOutLeaves ==
    ASSUME NEW e \in Session
    PROVE  /\ TakeOut(e).conn \in Session /\ TakeOut(e).bytes \in Nat
           /\ TakeOut(e).conn.ready = 0
           /\ e.ready > 0 => TakeOut(e).conn.body = e.body
           /\ e.ready = 0 /\ e.body = None => TakeOut(e).conn = e
           /\ TakeOut(e).bytes = 0 =>
                 /\ TakeOut(e).conn.body # "file"
                 /\ TakeOut(e).conn.body = "stream" =>
                       TakeOut(e).conn.avail = 0 /\ TakeOut(e).conn.over = "open"
<1> USE SizeAssumption
<1>1. CASE e.ready > 0
  <2>1. TakeOut(e) = [conn |-> [e EXCEPT !.ready = 0], bytes |-> e.ready]
    BY <1>1 DEF TakeOut, Session
  <2> QED BY <1>1, <2>1 DEF Session
<1>2. CASE e.ready = 0 /\ e.body = "file"
  <2> DEFINE b == IF e.left = 1 THEN None ELSE e.body
             g == [e EXCEPT !.left = e.left - 1]
             f == [g EXCEPT !.body = b]
  <2>1. TakeOut(e) = [conn |-> f, bytes |-> 1]
    <3>1. CASE e.left = 1
      <4>1. TakeOut(e) = [conn |-> [[e EXCEPT !.left = e.left - 1] EXCEPT !.body = None], bytes |-> 1]
        BY <1>2, <3>1 DEF TakeOut, Session, IsStreaming
      <4> QED BY <3>1, <4>1
    <3>2. CASE e.left # 1
      <4>1. TakeOut(e) = [conn |-> [[e EXCEPT !.left = e.left - 1] EXCEPT !.body = e.body], bytes |-> 1]
        BY <1>2, <3>2 DEF TakeOut, Session, IsStreaming
      <4> QED BY <3>2, <4>1
    <3> QED BY <3>1, <3>2
  <2>2. b \in {None, "file", "stream"} /\ b # "stream"
    BY <1>2
  <2>3. e.left - 1 \in Int
    BY DEF Session
  <2>4. g \in Session /\ g.ready = e.ready
    BY <2>3, WithLeft
  <2> HIDE DEF b, g
  <2>5. f \in Session /\ f.ready = g.ready /\ f.body = b
    BY <2>2, <2>4, WithBody
  <2> HIDE DEF f
  <2>6. TakeOut(e).conn = f /\ TakeOut(e).bytes = 1
    BY <2>1
  <2> QED BY <1>2, <2>4, <2>5, <2>6
<1>3. CASE e.ready = 0 /\ e.body = "stream" /\ e.avail > 0
  <2>1. TakeOut(e) = [conn |-> [e EXCEPT !.avail = 0], bytes |-> e.avail]
    BY <1>3 DEF TakeOut, Session, IsStreaming
  <2> QED BY <1>3, <2>1 DEF Session
<1>4. CASE e.ready = 0 /\ e.body = "stream" /\ e.avail = 0 /\ e.over = "finished"
  <2>1. TakeOut(e) = [conn |-> [e EXCEPT !.body = None], bytes |-> 1]
    BY <1>4 DEF TakeOut, Session, IsStreaming
  <2> QED BY <1>4, <2>1 DEF Session
<1>5. CASE e.ready = 0 /\ e.body = "stream" /\ e.avail = 0 /\ e.over = "aborted"
  <2> DEFINE g == [e EXCEPT !.body = None]
             f == [g EXCEPT !.closed = TRUE]
  <2>1. TakeOut(e) = [conn |-> f, bytes |-> 0]
    BY <1>5 DEF TakeOut, Session, IsStreaming
  <2>2. g \in Session /\ g.ready = e.ready /\ g.body = None
    BY WithBody
  <2> HIDE DEF g
  <2>3. f \in Session /\ f.ready = g.ready /\ f.body = g.body
    BY <2>2, WithClosed
  <2> HIDE DEF f
  <2>4. TakeOut(e).conn = f /\ TakeOut(e).bytes = 0
    BY <2>1
  <2> QED BY <1>5, <2>2, <2>3, <2>4
<1>6. CASE e.ready = 0 /\ e.body = "stream" /\ e.avail = 0 /\ e.over = "open"
  <2>1. TakeOut(e) = [conn |-> e, bytes |-> 0]
    BY <1>6 DEF TakeOut, Session, IsStreaming
  <2> QED BY <1>6, <2>1 DEF Session
<1>7. CASE e.ready = 0 /\ e.body = None
  <2>1. TakeOut(e) = [conn |-> e, bytes |-> 0]
    BY <1>7 DEF TakeOut, Session, IsStreaming
  <2> QED BY <1>7, <2>1 DEF Session
<1>8. e.ready \in Nat /\ e.avail \in Nat /\ e.body \in {None, "file", "stream"}
      /\ e.over \in {"open", "finished", "aborted"}
  BY DEF Session
<1> QED BY <1>1, <1>2, <1>3, <1>4, <1>5, <1>6, <1>7, <1>8

\* After to_send nothing is left that could be sent at once, unless it gave something;
\* and a request is held back only by a body.
LEMMA ToSendLeaves ==
    ASSUME NEW e \in Session, NEW w \in Wants
    PROVE  LET o == ToSend(e, w)
           IN  /\ o.conn \in Session /\ o.bytes \in Nat
               /\ o.conn.ready = 0
               /\ o.conn.body = None => o.conn.asked = 0 \/ o.conn.closed
               /\ o.bytes = 0 =>
                     /\ o.conn.body # "file"
                     /\ o.conn.body = "stream" => o.conn.avail = 0 /\ o.conn.over = "open"
<1> DEFINE first  == TakeOut(e)
           served == Serve(first.conn, w)
           next   == TakeOut(served)
           o      == ToSend(e, w)
<1>1. first.conn \in Session /\ first.bytes \in Nat /\ first.conn.ready = 0
      /\ (first.bytes = 0 => /\ first.conn.body # "file"
                             /\ first.conn.body = "stream" =>
                                   first.conn.avail = 0 /\ first.conn.over = "open")
  BY TakeOutLeaves
<1>2. CASE HasOutput(first.conn)
  <2>1. o = first
    BY <1>2 DEF ToSend
  <2>2. first.conn.body # None
    BY <1>1, <1>2 DEF HasOutput
  <2> HIDE DEF first, o
  <2> QED BY <1>1, <2>1, <2>2 DEF o
<1>3. CASE ~HasOutput(first.conn)
  <2>1. o = [next EXCEPT !.bytes = @ + first.bytes]
    BY <1>3 DEF ToSend
  <2>2. served \in Session
    BY <1>1, ServeType
  <2>3. /\ next.conn \in Session /\ next.bytes \in Nat /\ next.conn.ready = 0
        /\ served.ready > 0 => next.conn.body = served.body
        /\ served.ready = 0 /\ served.body = None => next.conn = served
        /\ next.bytes = 0 =>
              /\ next.conn.body # "file"
              /\ next.conn.body = "stream" => next.conn.avail = 0 /\ next.conn.over = "open"
    BY <2>2, TakeOutLeaves
  <2>4. next = [conn |-> next.conn, bytes |-> next.bytes]
    BY DEF TakeOut
  <2>5. o.conn = next.conn /\ o.bytes = next.bytes + first.bytes
    BY <2>1, <2>4
  <2>6. next.conn.body = None => next.conn.asked = 0 \/ next.conn.closed
    <3>1. first.conn.body = None
      BY <1>3 DEF HasOutput
    <3>2. CASE first.conn.asked = 0 \/ first.conn.closed
      <4>1. served = first.conn
        BY <3>2 DEF Serve
      <4> HIDE DEF first, served, next
      <4> QED BY <1>1, <2>3, <3>1, <3>2, <4>1
    <3>3. CASE ~(first.conn.asked = 0 \/ first.conn.closed)
      <4>1. served.ready = first.conn.ready + 1 /\ served.body = w.source
        BY <1>1, <3>1, <3>3 DEF Serve, Session
      <4>2. w.source # None
        BY SizeAssumption DEF Wants
      <4> HIDE DEF first, served, next
      <4> QED BY <1>1, <2>3, <4>1, <4>2
    <3> QED BY <3>2, <3>3
  <2>7. o.bytes = 0 => next.bytes = 0
    <3> HIDE DEF first, next, o
    <3> QED BY <1>1, <2>3, <2>5
  <2> HIDE DEF first, served, next, o
  <2>8. o.bytes \in Nat
    BY <1>1, <2>3, <2>5
  <2> QED BY <2>3, <2>5, <2>6, <2>7, <2>8 DEF o
<1> QED BY <1>2, <1>3

LEMMA ProducedType ==
    ASSUME NEW e \in Session, NEW f \in Produced(e)
    PROVE  f \in Session /\ f.ready = e.ready /\ f.body = e.body /\ f.asked = e.asked
           /\ f.closed = e.closed
<1>1. CASE f = [e EXCEPT !.over = "aborted"]
  BY <1>1 DEF Session
<1>2. CASE e.left > 0 /\ f = [e EXCEPT !.left = @ - 1, !.avail = @ + 1]
  <2> DEFINE g == [e EXCEPT !.left = e.left - 1]
  <2>1. e.left - 1 \in Int /\ e.avail + 1 \in Nat
    BY DEF Session
  <2>2. /\ g \in Session /\ g.ready = e.ready /\ g.body = e.body /\ g.asked = e.asked
        /\ g.closed = e.closed /\ g.avail = e.avail
    BY <2>1 DEF Session
  <2>3. f = [g EXCEPT !.avail = e.avail + 1]
    BY <1>2
  <2> HIDE DEF g
  <2> QED BY <2>1, <2>2, <2>3 DEF Session
<1>3. CASE f = [e EXCEPT !.over = "finished"]
  BY <1>3 DEF Session
<1> QED BY <1>1, <1>2, <1>3 DEF Produced

LEMMA AskedType ==
    ASSUME NEW e \in Session, NEW n \in Nat
    PROVE  [e EXCEPT !.asked = @ + n] \in Session
<1>1. e.asked + n \in Nat
  BY DEF Session
<1> QED BY <1>1 DEF Session

Sock == [asked : Nat, total : Int, eof : BOOLEAN, err : BOOLEAN, sent : Int]

Typed ==
    /\ sess \in [Clients -> Session] /\ sock \in [Clients -> Sock]
    /\ streaming \in [Clients -> BOOLEAN] /\ out \in [Clients -> Int]
    /\ permit \in [Clients -> BOOLEAN] /\ producer \in [Clients -> BOOLEAN]

\* Nothing to send but what a producer has yet to give.
Settled(e) == e.ready = 0 /\ e.body # "file" /\ (e.body = None => e.asked = 0)

Due(e) == IsStreaming(e) /\ (e.avail > 0 \/ e.over # "open")

\* What holds of a client's session where its task is.
Waits(c) ==
    /\ task[c] \in {"top", "select"} =>
          Settled(sess[c]) /\ (Due(sess[c]) => producer[c] \/ permit[c])
    /\ task[c] = "select" => streaming[c] = IsStreaming(sess[c])
    /\ task[c] = "write" =>
          sess[c].ready = 0 /\ (sess[c].body = None => sess[c].asked = 0 \/ sess[c].closed)

FInv == Typed /\ \A c \in Clients : Waits(c)

LEMMA InitFInv == Init => FInv
<1> SUFFICES ASSUME Init PROVE FInv
  OBVIOUS
<1>1. sess \in [Clients -> Session]
  BY NewSessionType DEF Init
<1>2. sock \in [Clients -> Sock]
  <2>1. NoSock \in Sock
    BY DEF NoSock, Sock
  <2> QED BY <2>1 DEF Init
<1>3. streaming \in [Clients -> BOOLEAN] /\ out \in [Clients -> Int]
  BY DEF Init
<1>4. permit \in [Clients -> BOOLEAN] /\ producer \in [Clients -> BOOLEAN]
  BY DEF Init
<1>5. ASSUME NEW c \in Clients PROVE task[c] = "away"
  BY DEF Init
<1> QED BY <1>1, <1>2, <1>3, <1>4, <1>5 DEF FInv, Typed, Waits

\* A step that concerns one client's task, session and notifications.
LEMMA OneClient ==
    ASSUME FInv, Typed', NEW c \in Clients, Waits(c)',
           \A d \in Clients \ {c} :
              /\ task'[d] = task[d] /\ sess'[d] = sess[d] /\ streaming'[d] = streaming[d]
              /\ permit'[d] = permit[d] /\ producer'[d] = producer[d]
    PROVE  FInv'
<1>1. ASSUME NEW d \in Clients \ {c} PROVE Waits(d)'
  BY <1>1 DEF FInv, Waits, Settled, Due, IsStreaming
<1> QED BY <1>1 DEF FInv

\* A step that leaves alone what the tasks of all clients wait for.
LEMMA NoClient ==
    ASSUME FInv, Typed', UNCHANGED <<task, sess, streaming, permit, producer>>
    PROVE  FInv'
BY DEF FInv, Waits, Settled, Due, IsStreaming

LEMMA TaskFInv == ASSUME Types, FInv, NEW c \in Clients, Task(c) PROVE FInv'
<1> USE DEF Goes
<1>1. /\ sess[c] \in Session /\ sock[c] \in Sock /\ Want[c] \in Wants
      /\ out[c] \in Int /\ Waits(c) /\ Typed /\ task \in [Clients -> Places]
  BY TokioAssumption DEF FInv, Typed, Wants, Types
<1>2. CASE ServeTop(c)
  <2>1. Typed'
    BY <1>1, <1>2 DEF ServeTop, Typed, IsStreaming, wake
  <2>2. Waits(c)'
    BY <1>1, <1>2 DEF ServeTop, Typed, Waits, Settled, Due, IsStreaming, wake
  <2> QED BY <1>1, <1>2, <2>1, <2>2, OneClient DEF ServeTop, Typed, wake
<1>3. CASE Read(c)
  <2>1. NewSession \in Session /\ NoSock \in Sock
    BY NewSessionType DEF NoSock, Sock
  <2> DEFINE e == Serve([sess[c] EXCEPT !.asked = @ + sock[c].asked], Want[c])
  <2>2. e \in Session
    BY <1>1, AskedType, ServeType DEF Sock
  <2>3. [sock EXCEPT ![c].asked = 0] \in [Clients -> Sock]
    BY <1>1 DEF Typed, Sock
  <2>4. Typed'
    <3>1. sess' \in [Clients -> Session]
      <4>1. \/ sess' = [sess EXCEPT ![c] = e] \/ sess' = [sess EXCEPT ![c] = NewSession]
            \/ sess' = sess
        BY <1>3 DEF Read, Panics
      <4> HIDE DEF e
      <4> QED BY <1>1, <2>1, <2>2, <4>1 DEF Typed
    <3>2. sock' \in [Clients -> Sock]
      BY <1>1, <1>3, <2>1, <2>3 DEF Read, Panics, Typed
    <3>3. UNCHANGED <<streaming, out, permit, producer>>
      BY <1>3 DEF Read, Panics, wake
    <3> QED BY <1>1, <3>1, <3>2, <3>3 DEF Typed
  <2>5. task'[c] \in {"flush", "panicked", "leave"}
    BY <1>1, <1>3 DEF Read, Panics
  <2> QED BY <1>1, <1>3, <2>4, <2>5, OneClient DEF Read, Panics, Typed, Waits, wake
<1>4. CASE WindowExpires(c)
  <2>1. Typed'
    BY <1>1, <1>4 DEF WindowExpires, Typed, wake
  <2>2. Waits(c)'
    BY <1>1, <1>4 DEF WindowExpires, Typed, Waits, Settled, Due, IsStreaming, wake
  <2> QED BY <1>1, <1>4, <2>1, <2>2, OneClient DEF WindowExpires, Typed, wake
<1>5. CASE Notified(c)
  <2>1. Typed'
    BY <1>1, <1>5 DEF Notified, Typed
  <2>2. task'[c] = "flush"
    BY <1>1, <1>5 DEF Notified
  <2> QED BY <1>1, <1>5, <2>1, <2>2, OneClient DEF Notified, Typed, Waits
<1>6. CASE Flush(c)
  <2> DEFINE o == ToSend(sess[c], Want[c])
             Sends == /\ sess' = [sess EXCEPT ![c] = o.conn] /\ out' = [out EXCEPT ![c] = o.bytes]
                      /\ task' = [task EXCEPT ![c] =
                                    IF o.bytes = 0 THEN AfterFlush(o.conn) ELSE "write"]
                      /\ UNCHANGED <<sock, streaming, permit, producer>>
  <2>1. NewSession \in Session /\ NoSock \in Sock
    BY NewSessionType DEF NoSock, Sock
  <2>2. \/ Sends
        \/ /\ task' = [task EXCEPT ![c] = "panicked"] /\ sock' = [sock EXCEPT ![c] = NoSock]
           /\ sess' = [sess EXCEPT ![c] = NewSession]
           /\ UNCHANGED <<out, streaming, permit, producer>>
        \/ /\ task' = [task EXCEPT ![c] = "leave"]
           /\ UNCHANGED <<sock, sess, out, streaming, permit, producer>>
    BY <1>6 DEF Flush, Panics, wake
  <2>3. CASE Sends
    <3>1. /\ o.conn \in Session /\ o.bytes \in Nat /\ o.conn.ready = 0
          /\ o.conn.body = None => o.conn.asked = 0 \/ o.conn.closed
          /\ o.bytes = 0 =>
                /\ o.conn.body # "file"
                /\ o.conn.body = "stream" => o.conn.avail = 0 /\ o.conn.over = "open"
      BY <1>1, ToSendLeaves
    <3>2. /\ sess' = [sess EXCEPT ![c] = o.conn] /\ out' = [out EXCEPT ![c] = o.bytes]
          /\ task' = [task EXCEPT ![c] = IF o.bytes = 0 THEN AfterFlush(o.conn) ELSE "write"]
          /\ UNCHANGED <<sock, streaming, permit, producer>>
      BY <2>3
    <3> HIDE DEF o
    <3>3. Typed'
      BY <1>1, <3>1, <3>2 DEF Typed
    <3>4. sess'[c] = o.conn
      BY <1>1, <3>2 DEF Typed
    <3>5. CASE o.bytes = 0
      <4>1. task'[c] = AfterFlush(o.conn)
        BY <1>1, <3>2, <3>5
      <4>2. ~Due(o.conn)
        BY <3>1, <3>5 DEF Due, IsStreaming, Session
      <4>3. AfterFlush(o.conn) = "top" => Settled(o.conn)
        BY <3>1, <3>5 DEF AfterFlush, WantsClose, Settled
      <4>4. AfterFlush(o.conn) \in {"top", "leave"}
        BY DEF AfterFlush
      <4>5. Waits(c)'
        BY <3>4, <4>1, <4>2, <4>3, <4>4 DEF Waits
      <4> QED BY <1>1, <3>2, <3>3, <4>5, OneClient DEF Typed
    <3>6. CASE o.bytes # 0
      <4>1. task'[c] = "write"
        BY <1>1, <3>2, <3>6
      <4>2. Waits(c)'
        BY <3>1, <3>4, <4>1 DEF Waits
      <4> QED BY <1>1, <3>2, <3>3, <4>2, OneClient DEF Typed
    <3> QED BY <3>5, <3>6
  <2>4. CASE ~Sends
    <3>1. Typed'
      BY <1>1, <2>1, <2>2, <2>4 DEF Typed
    <3>2. task'[c] \in {"panicked", "leave"}
      BY <1>1, <2>2, <2>4
    <3>3. Waits(c)'
      BY <3>2 DEF Waits
    <3>4. UNCHANGED <<streaming, permit, producer>>
      BY <2>2, <2>4
    <3> QED BY <1>1, <2>2, <2>4, <3>1, <3>3, <3>4, OneClient DEF Typed
  <2> QED BY <2>3, <2>4
<1>7. CASE WriteAll(c)
  <2> DEFINE n == Lesser(out[c], ROOM - sock[c].sent)
  <2>1. n \in Int
    BY <1>1, TokioAssumption DEF Lesser, Sock
  <2>2. /\ UNCHANGED <<sess, streaming, permit, producer>>
        /\ \/ sock' = sock /\ out' = out
           \/ sock' = [sock EXCEPT ![c].sent = @ + n] /\ out' = [out EXCEPT ![c] = @ - n]
        /\ task' = [task EXCEPT ![c] = "leave"] \/ task' = [task EXCEPT ![c] = "write"]
              \/ task' = [task EXCEPT ![c] = Written(sess[c])]
        /\ task[c] = "write"
    BY <1>7 DEF WriteAll, wake
  <2> HIDE DEF n
  <2>3. sock' \in [Clients -> Sock]
    <3>1. CASE sock' = [sock EXCEPT ![c].sent = @ + n]
      <4>1. sock[c].sent + n \in Int
        BY <1>1, <2>1 DEF Sock
      <4> QED BY <1>1, <3>1, <4>1 DEF Typed, Sock
    <3> QED BY <1>1, <2>2, <3>1 DEF Typed
  <2>4. out' \in [Clients -> Int]
    BY <1>1, <2>1, <2>2 DEF Typed
  <2>5. Typed'
    BY <1>1, <2>2, <2>3, <2>4 DEF Typed
  <2>6. sess[c].ready = 0 /\ (sess[c].body = None => sess[c].asked = 0 \/ sess[c].closed)
    BY <1>1, <2>2 DEF Waits
  <2>7. Written(sess[c]) \in {"flush", "leave", "top"}
    BY DEF Written, AfterFlush
  <2>8. Written(sess[c]) = "top" => Settled(sess[c]) /\ ~Due(sess[c])
    <3>1. Written(sess[c]) = "top" => sess[c].body = None /\ ~sess[c].closed
      BY DEF Written, AfterFlush, HasOutput, WantsClose
    <3>2. None # "file" /\ None # "stream"
      BY SizeAssumption
    <3> QED BY <2>6, <3>1, <3>2 DEF Settled, Due, IsStreaming
  <2>9. task'[c] \in {"leave", "write", Written(sess[c])} /\ sess'[c] = sess[c]
    BY <1>1, <2>2
  <2>10. Waits(c)'
    BY <2>6, <2>7, <2>8, <2>9 DEF Waits
  <2> QED BY <1>1, <2>2, <2>5, <2>10, OneClient
<1>8. CASE Leave(c)
  <2>1. NewSession \in Session /\ NoSock \in Sock
    BY NewSessionType DEF NoSock, Sock
  <2>2. Typed'
    BY <1>1, <1>8, <2>1 DEF Leave, Typed, wake
  <2>3. task'[c] = "guard"
    BY <1>1, <1>8 DEF Leave
  <2> QED BY <1>1, <1>8, <2>2, <2>3, OneClient DEF Leave, Typed, Waits, wake
<1>9. CASE DropGuard(c)
  <2>1. Typed'
    BY <1>1, <1>9 DEF DropGuard, Typed, wake
  <2>2. task'[c] = "ended"
    BY <1>1, <1>9 DEF DropGuard
  <2> QED BY <1>1, <1>9, <2>1, <2>2, OneClient DEF DropGuard, Typed, Waits, wake
<1> QED BY <1>2, <1>3, <1>4, <1>5, <1>6, <1>7, <1>8, <1>9 DEF Task

LEMMA AcceptFInv == ASSUME Types, FInv, AcceptLoop PROVE FInv'
<1>1. Typed /\ task \in [Clients -> Places]
  BY DEF FInv, Types
<1>2. CASE Check \/ AcceptNothing \/ Drain
  <2>1. UNCHANGED <<task, sess, streaming, permit, producer, sock, out>>
    BY <1>2 DEF Check, AcceptNothing, Drain, taskVars, wake
  <2> QED BY <1>1, <2>1, NoClient DEF Typed
<1>3. CASE \E c \in Clients : Claim(c)
  <2>1. PICK c \in Clients : Claim(c)
    BY <1>3
  <2>2. Typed' /\ task'[c] = "accepted"
    BY <1>1, <2>1 DEF Claim, Typed, wake
  <2> QED BY <1>1, <2>1, <2>2, OneClient DEF Claim, Waits, wake
<1>4. CASE Admit
  <2>1. CASE UNCHANGED taskVars
    BY <1>1, <1>4, <2>1, NoClient DEF Admit, taskVars, Typed, wake
  <2>2. CASE ~UNCHANGED taskVars
    <3>1. PICK g \in Clients : g = guest
      BY <1>4 DEF Admit, Types
    <3>2. /\ task' = [task EXCEPT ![g] = "top"] \/ task' = [task EXCEPT ![g] = "leave"]
          /\ sess' = [sess EXCEPT ![g] = NewSession]
          /\ UNCHANGED <<sock, streaming, out, permit, producer>>
      BY <1>4, <2>2, <3>1 DEF Admit, wake
    <3>3. Typed'
      BY <1>1, <3>1, <3>2, NewSessionType DEF Typed
    <3>4. sess'[g] = NewSession /\ task'[g] \in {"top", "leave"}
      BY <1>1, <3>1, <3>2 DEF Typed
    <3>5. Settled(NewSession) /\ ~Due(NewSession)
      BY SizeAssumption DEF Settled, Due, IsStreaming, NewSession
    <3>6. Waits(g)'
      BY <3>4, <3>5 DEF Waits
    <3> QED BY <1>1, <3>1, <3>2, <3>3, <3>6, OneClient DEF Typed
  <2> QED BY <2>1, <2>2
<1>5. CASE Refuse
  <2>1. PICK g \in Clients : g = guest
    BY <1>5 DEF Refuse, Types
  <2>2. Typed' /\ task'[g] = "ended"
    BY <1>1, <1>5, <2>1 DEF Refuse, Typed, wake
  <2> QED BY <1>1, <1>5, <2>1, <2>2, OneClient DEF Refuse, Waits, wake
<1> QED BY <1>2, <1>3, <1>4, <1>5 DEF AcceptLoop

LEMMA NextFInv == ASSUME Types, FInv, [Next]_vars PROVE FInv'
<1>1. Typed /\ task \in [Clients -> Places]
  BY DEF FInv, Types
<1>2. CASE AcceptLoop
  BY <1>2, AcceptFInv
<1>3. CASE \E c \in Clients : Task(c)
  BY <1>3, TaskFInv
<1>4. CASE \E c \in Clients : Knock(c)
  <2>1. PICK c \in Clients : Knock(c)
    BY <1>4
  <2>2. Typed' /\ task'[c] = "knocking"
    BY <1>1, <2>1 DEF Knock, Typed, wake
  <2> QED BY <1>1, <2>1, <2>2, OneClient DEF Knock, Waits, wake
<1>5. CASE \E c \in Clients : Ask(c) \/ Shut(c) \/ Reset(c) \/ Take(c)
  <2>1. PICK c \in Clients : Ask(c) \/ Shut(c) \/ Reset(c) \/ Take(c)
    BY <1>5
  <2>2. sock[c] \in Sock
    BY <1>1 DEF Typed
  <2>3. PICK s \in Sock : Happens(c, s)
    <3>1. CASE Ask(c)
      <4> DEFINE f == [sock[c] EXCEPT !.asked = @ + 1]
      <4>1. sock[c].asked + 1 \in Nat /\ sock[c].total + 1 \in Int
        BY <2>2 DEF Sock
      <4>2. f \in Sock
        BY <2>2, <4>1 DEF Sock
      <4>3. [f EXCEPT !.total = sock[c].total + 1] \in Sock
        <5> HIDE DEF f
        <5> QED BY <4>1, <4>2 DEF Sock
      <4> QED BY <3>1, <4>3 DEF Ask
    <3>2. CASE Shut(c)
      BY <2>2, <3>2 DEF Shut, Sock
    <3>3. CASE Reset(c)
      BY <2>2, <3>3 DEF Reset, Sock
    <3>4. CASE Take(c)
      BY <2>2, <3>4 DEF Take, Sock
    <3> QED BY <2>1, <3>1, <3>2, <3>3, <3>4
  <2>4. Typed' /\ UNCHANGED <<task, sess, streaming, permit, producer>>
    BY <1>1, <2>3 DEF Happens, Typed, taskVars, wake
  <2> QED BY <2>4, NoClient
<1>6. CASE \E c \in Clients : Produce(c)
  <2>1. PICK c \in Clients : Produce(c)
    BY <1>6
  <2>2. sess[c] \in Session /\ Waits(c)
    BY <1>1 DEF FInv, Typed
  <2>3. PICK f \in Produced(sess[c]) : sess' = [sess EXCEPT ![c] = f]
    BY <2>1 DEF Produce
  <2>4. f \in Session /\ f.ready = sess[c].ready /\ f.body = sess[c].body
        /\ f.asked = sess[c].asked /\ f.closed = sess[c].closed
    BY <2>2, ProducedType
  <2>5. UNCHANGED <<task, streaming, sock, out, permit>> /\ producer' = [producer EXCEPT ![c] = TRUE]
    BY <2>1 DEF Produce
  <2>6. Typed'
    BY <1>1, <2>3, <2>4, <2>5 DEF Typed
  <2>7. sess'[c] = f /\ producer'[c]
    BY <1>1, <2>3, <2>5 DEF Typed
  <2>8. Waits(c)'
    BY <2>2, <2>4, <2>5, <2>7 DEF Waits, Settled, Due, IsStreaming
  <2> QED BY <1>1, <2>3, <2>5, <2>6, <2>8, OneClient DEF Typed
<1>7. CASE \E c \in Clients : Notify(c)
  <2>1. PICK c \in Clients : Notify(c)
    BY <1>7
  <2>2. /\ UNCHANGED <<task, sess, streaming, sock, out>>
        /\ producer' = [producer EXCEPT ![c] = FALSE] /\ permit' = [permit EXCEPT ![c] = TRUE]
    BY <2>1 DEF Notify, taskVars
  <2>3. Typed' /\ permit'[c]
    BY <1>1, <2>2 DEF Typed
  <2>4. Waits(c)'
    BY <2>2, <2>3 DEF FInv, Waits
  <2> QED BY <1>1, <2>2, <2>3, <2>4, OneClient DEF Typed
<1>8. CASE Tick \/ Trigger \/ UNCHANGED vars
  <2>1. UNCHANGED <<task, sess, streaming, permit, producer, sock, out>>
    BY <1>8 DEF Tick, Trigger, vars, taskVars, wake
  <2> QED BY <1>1, <2>1, NoClient DEF Typed
<1> QED BY <1>2, <1>3, <1>4, <1>5, <1>6, <1>7, <1>8 DEF Next

\* A task waits only when all it could send is sent, or a notification is on its way
\* (rt/tokio.rs, the loop of serve and flush).
THEOREM FlushedFirst == Spec => []FlushedBeforeWaiting
<1>1. IInv => Types
  BY DEF IInv
<1>2. FInv => FlushedBeforeWaiting
  BY DEF FInv, Waits, Settled, Due, FlushedBeforeWaiting
<1>3. FInv /\ Types /\ [Next]_vars => FInv'
  BY NextFInv
<1> QED BY <1>1, <1>2, <1>3, InitFInv, Invariant, PTL DEF Spec
=================================================================================
