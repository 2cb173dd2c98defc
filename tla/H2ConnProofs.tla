------------------------------ MODULE H2ConnProofs ------------------------------
(***************************************************************************)
(* Proofs about H2Conn for any streams, windows, frames and responses: the *)
(* server never sends more DATA than the client gave it credit for, on a   *)
(* stream or on the connection; a request reaches the handler once and     *)
(* whole; each response is well framed and comes to its end; and nothing   *)
(* that could be sent is left behind when the thread waits.                *)
(***************************************************************************)
EXTENDS H2Conn, FiniteSetTheorems, TLAPS

States == {"idle", "open", "ended", "reset", "broken"}

Bodies == [kind : {"bytes", "file", "stream"}, left : Nat, over : {"open", "finished", "aborted"},
           readable : Int]

Stream == [assembling : BOOLEAN, size : Int, ended : BOOLEAN, delivered : BOOLEAN,
           refused : BOOLEAN, got : Int, window : Int, body : Bodies \cup {None}]

Tables == UNION {[S -> Stream] : S \in SUBSET Sids}

Seen == [state : [Sids -> States], credit : Int, stream : [Sids -> Int], block : Int, owed : Int]

Conn == [streams : Tables, pending : SUBSET Sids, ready : Seq(Sids), window : Int, initial : Int,
         continuation : Int, conts : Int, acks : Int, resets : Int, churned : Int,
         completed : Int, last : Int, closed : BOOLEAN, seen : Seen]

\* The client's accounts have at least what the server's windows say: of the connection,
\* of each stream there is, and of each that may still be opened. A stream that is gone
\* is not opened again.
Fits(c) ==
    /\ c.seen.credit >= c.window
    /\ \A s \in DOMAIN c.streams : s <= c.last /\ c.seen.stream[s] >= c.streams[s].window
    /\ \A s \in Sids : s > c.last => c.seen.stream[s] >= c.initial

\* Once the connection is closed the client's accounts no longer matter.
Sound(c) == c \in Conn /\ (~c.closed => Fits(c))

IInv == Sound(conn)

\* What most handlers do: they may remove streams, and leave all windows as they are.
Keeps(c, d) ==
    /\ d \in Conn
    /\ d.window = c.window /\ d.initial = c.initial /\ d.last = c.last
    /\ d.seen.credit = c.seen.credit /\ d.seen.stream = c.seen.stream
    /\ c.closed => d.closed
    /\ DOMAIN d.streams \subseteq DOMAIN c.streams
    /\ \A s \in DOMAIN d.streams : d.streams[s].window = c.streams[s].window

LEMMA KeepsFits == ASSUME NEW c, NEW d, Keeps(c, d), Fits(c) PROVE Fits(d)
BY DEF Keeps, Fits

LEMMA KeepsSound == ASSUME NEW c, NEW d, Keeps(c, d), Fits(c) PROVE Sound(d)
BY KeepsFits DEF Keeps, Sound

LEMMA ClosedSound == ASSUME NEW c \in Conn, c.closed PROVE Sound(c)
BY DEF Sound

LEMMA KeepsAll == ASSUME NEW c \in Conn PROVE Keeps(c, c)
BY DEF Keeps

LEMMA KeepsBoth == ASSUME NEW c, NEW d, NEW e, Keeps(c, d), Keeps(d, e) PROVE Keeps(c, e)
BY DEF Keeps

LEMMA KeepsType == ASSUME NEW c, NEW d, Keeps(c, d) PROVE d \in Conn
BY DEF Keeps

-----------------------------------------------------------------------------
(* Tables of streams.                                                        *)

LEMMA TableType ==
    ASSUME NEW t \in Tables
    PROVE  DOMAIN t \subseteq Sids /\ \A s \in DOMAIN t : t[s] \in Stream
BY DEF Tables

LEMMA ConnType ==
    ASSUME NEW c \in Conn
    PROVE  /\ c.streams \in Tables /\ c.seen \in Seen
           /\ DOMAIN c.streams \subseteq Sids
           /\ \A s \in DOMAIN c.streams : c.streams[s] \in Stream /\ c.streams[s].window \in Int
           /\ c.window \in Int /\ c.initial \in Int /\ c.last \in Int
           /\ c.seen.credit \in Int /\ c.seen.stream \in [Sids -> Int]
<1>1. c.streams \in Tables /\ c.seen \in Seen /\ c.window \in Int /\ c.initial \in Int /\ c.last \in Int
  BY DEF Conn
<1>2. DOMAIN c.streams \subseteq Sids /\ \A s \in DOMAIN c.streams : c.streams[s] \in Stream
  BY <1>1, TableType
<1>3. \A x \in Stream : x.window \in Int
  BY DEF Stream
<1>4. c.seen.credit \in Int /\ c.seen.stream \in [Sids -> Int]
  BY <1>1 DEF Seen
<1> QED BY <1>1, <1>2, <1>3, <1>4

LEMMA ChangedTable ==
    ASSUME NEW t \in Tables, NEW sid \in DOMAIN t, NEW x \in Stream
    PROVE  /\ [t EXCEPT ![sid] = x] \in Tables /\ DOMAIN [t EXCEPT ![sid] = x] = DOMAIN t
           /\ [t EXCEPT ![sid] = x][sid] = x
           /\ \A s \in DOMAIN t \ {sid} : [t EXCEPT ![sid] = x][s] = t[s]
BY DEF Tables

LEMMA SmallerTable ==
    ASSUME NEW t \in Tables, NEW sid
    PROVE  /\ Without(t, sid) \in Tables /\ DOMAIN Without(t, sid) = DOMAIN t \ {sid}
           /\ \A s \in DOMAIN t \ {sid} : Without(t, sid)[s] = t[s]
<1>1. PICK S \in SUBSET Sids : t \in [S -> Stream]
  BY DEF Tables
<1>2. DOMAIN t = S /\ \A s \in S : t[s] \in Stream
  BY <1>1
<1>3. Without(t, sid) \in [S \ {sid} -> Stream] /\ S \ {sid} \in SUBSET Sids
  BY <1>2 DEF Without
<1>4. Without(t, sid) \in Tables
  BY <1>3 DEF Tables
<1> QED BY <1>2, <1>4 DEF Without

LEMMA TableKeeps ==
    ASSUME NEW c \in Conn, NEW t \in Tables, DOMAIN t \subseteq DOMAIN c.streams,
           \A s \in DOMAIN t : t[s].window = c.streams[s].window
    PROVE  Keeps(c, [c EXCEPT !.streams = t]) /\ [c EXCEPT !.streams = t].streams = t
BY DEF Keeps, Conn

\* One stream changes, and its window does not.
LEMMA StreamKeeps ==
    ASSUME NEW c \in Conn, NEW sid \in DOMAIN c.streams, NEW x \in Stream,
           x.window = c.streams[sid].window
    PROVE  LET d == [c EXCEPT !.streams[sid] = x]
           IN  /\ Keeps(c, d) /\ DOMAIN d.streams = DOMAIN c.streams /\ d.streams[sid] = x
               /\ d = [c EXCEPT !.streams = [c.streams EXCEPT ![sid] = x]]
<1> DEFINE t == [c.streams EXCEPT ![sid] = x]
           d == [c EXCEPT !.streams = t]
<1>1. c.streams \in Tables
  BY ConnType
<1>2. t \in Tables /\ DOMAIN t = DOMAIN c.streams /\ t[sid] = x
      /\ \A s \in DOMAIN t : t[s].window = c.streams[s].window
  BY <1>1, ChangedTable
<1>3. [c EXCEPT !.streams[sid] = x] = d
  BY DEF Conn
<1> HIDE DEF t
<1>4. Keeps(c, d) /\ d.streams = t
  BY <1>2, TableKeeps
<1> QED BY <1>2, <1>3, <1>4 DEF t

-----------------------------------------------------------------------------
(* Fields of the connection that no window depends on.                       *)

LEMMA FieldsKeep ==
    ASSUME NEW c \in Conn
    PROVE  /\ Keeps(c, ConnError(c)) /\ ConnError(c).closed
           /\ Keeps(c, [c EXCEPT !.closed = TRUE])
           /\ \A n \in Int : /\ Keeps(c, [c EXCEPT !.acks = n])
                             /\ Keeps(c, [c EXCEPT !.conts = n])
                             /\ Keeps(c, [c EXCEPT !.resets = n])
                             /\ Keeps(c, [c EXCEPT !.churned = n])
                             /\ Keeps(c, [c EXCEPT !.completed = n])
                             /\ Keeps(c, [c EXCEPT !.continuation = n])
           /\ \A p \in SUBSET Sids : Keeps(c, [c EXCEPT !.pending = p])
           /\ \A q \in Seq(Sids) : Keeps(c, [c EXCEPT !.ready = q])
<1>1. Keeps(c, ConnError(c)) /\ ConnError(c).closed /\ Keeps(c, [c EXCEPT !.closed = TRUE])
  BY DEF Keeps, ConnError, Conn
<1>2. ASSUME NEW n \in Int PROVE Keeps(c, [c EXCEPT !.acks = n])
  BY DEF Keeps, Conn
<1>3. ASSUME NEW n \in Int PROVE Keeps(c, [c EXCEPT !.conts = n])
  BY DEF Keeps, Conn
<1>4. ASSUME NEW n \in Int PROVE Keeps(c, [c EXCEPT !.resets = n])
  BY DEF Keeps, Conn
<1>5. ASSUME NEW n \in Int PROVE Keeps(c, [c EXCEPT !.churned = n])
  BY DEF Keeps, Conn
<1>6. ASSUME NEW n \in Int PROVE Keeps(c, [c EXCEPT !.completed = n])
  BY DEF Keeps, Conn
<1>7. ASSUME NEW n \in Int PROVE Keeps(c, [c EXCEPT !.continuation = n])
  BY DEF Keeps, Conn
<1>8. ASSUME NEW p \in SUBSET Sids PROVE Keeps(c, [c EXCEPT !.pending = p])
  BY DEF Keeps, Conn
<1>9. ASSUME NEW q \in Seq(Sids) PROVE Keeps(c, [c EXCEPT !.ready = q])
  BY DEF Keeps, Conn
<1> QED BY <1>1, <1>2, <1>3, <1>4, <1>5, <1>6, <1>7, <1>8, <1>9

\* A change of what the client has seen that leaves its accounts alone.
LEMMA SeenKeeps ==
    ASSUME NEW c \in Conn, NEW z \in Seen, z.credit = c.seen.credit, z.stream = c.seen.stream
    PROVE  Keeps(c, [c EXCEPT !.seen = z])
BY DEF Keeps, Conn

LEMMA Numbers ==
    ASSUME NEW c \in Conn
    PROVE  /\ c.acks \in Int /\ c.conts \in Int /\ c.resets \in Int /\ c.churned \in Int
           /\ c.completed \in Int /\ c.pending \in SUBSET Sids /\ c.ready \in Seq(Sids)
BY DEF Conn

-----------------------------------------------------------------------------
(* Output.                                                                   *)

LEMMA AfterType == ASSUME NEW z \in Seen, NEW f, f.sid \in Sids PROVE After(z, f) \in States
<1>1. z.state[f.sid] \in States
  BY DEF Seen
<1> QED BY <1>1 DEF After, States

\* The client's accounts after k octets of DATA on stream sid.
Debits(z, y, sid, k) ==
    /\ y \in Seen /\ y.credit = z.credit - k
    /\ y.stream = [z.stream EXCEPT ![sid] = z.stream[sid] - k]

LEMMA DebitType ==
    ASSUME NEW z \in Seen, NEW sid \in Sids, NEW a \in States, NEW b \in Int, NEW k \in Int
    PROVE  Debits(z, [z EXCEPT !.state[sid] = a, !.block = b, !.credit = z.credit - k,
                               !.stream[sid] = z.stream[sid] - k], sid, k)
<1> DEFINE A == [z.state EXCEPT ![sid] = a]
           B == [z.stream EXCEPT ![sid] = z.stream[sid] - k]
<1>1. z.credit - k \in Int /\ z.stream[sid] - k \in Int
  BY DEF Seen
<1>2. [z EXCEPT !.state[sid] = a, !.block = b, !.credit = z.credit - k,
                !.stream[sid] = z.stream[sid] - k]
      = [z EXCEPT !.state = A, !.block = b, !.credit = z.credit - k, !.stream = B]
  BY DEF Seen
<1>3. A \in [Sids -> States] /\ B \in [Sids -> Int]
  BY <1>1 DEF Seen
<1> HIDE DEF A, B
<1>4. LET x == [z EXCEPT !.state = A, !.block = b, !.credit = z.credit - k, !.stream = B]
      IN  x \in Seen /\ x.credit = z.credit - k /\ x.stream = B
  BY <1>1, <1>3 DEF Seen
<1> QED BY <1>2, <1>4 DEF B, Debits

\* What the client reads: its accounts change by the octets of DATA.
LEMMA ReadsType ==
    ASSUME NEW z \in Seen, NEW type, type # "WINDOW_UPDATE", NEW sid \in Sids,
           NEW n \in Int, NEW end \in BOOLEAN, NEW last \in BOOLEAN
    PROVE  /\ type = "DATA" => Debits(z, Reads(z, Frame(type, sid, n, end, last)), sid, n)
           /\ type # "DATA" => Debits(z, Reads(z, Frame(type, sid, n, end, last)), sid, 0)
<1> DEFINE f == Frame(type, sid, n, end, last)
           k == IF type = "DATA" THEN n ELSE 0
           b == IF type \in {"HEADERS", "CONTINUATION"} /\ ~last THEN sid ELSE 0
           a == After(z, f)
<1>1. f.type = type /\ f.sid = sid /\ f.n = n /\ f.last = last
  BY DEF Frame
<1>2. a \in States
  BY <1>1, AfterType
<1>3. b \in Int /\ k \in Int
  BY H2Assumption
<1>4. Reads(z, f) = [z EXCEPT !.state[sid] = a, !.block = b, !.credit = z.credit - k,
                              !.stream[sid] = z.stream[sid] - k]
  BY <1>1 DEF Reads, Seen
<1>5. (type = "DATA" => k = n) /\ (type # "DATA" => k = 0)
  OBVIOUS
<1> HIDE DEF f, a, b, k
<1>6. Debits(z, Reads(z, f), sid, k)
  <2>1. Debits(z, [z EXCEPT !.state[sid] = a, !.block = b, !.credit = z.credit - k,
                            !.stream[sid] = z.stream[sid] - k], sid, k)
    BY <1>2, <1>3, DebitType, Zenon
  <2> QED BY <1>4, <2>1, Zenon
<1> QED BY <1>5, <1>6 DEF f

\* Frames that take no credit.
LEMMA WriteKeeps ==
    ASSUME NEW c \in Conn, NEW type \in {"HEADERS", "CONTINUATION", "RST_STREAM", "DATA"},
           NEW sid \in Sids, NEW n \in Int, type = "DATA" => n = 0,
           NEW end \in BOOLEAN, NEW last \in BOOLEAN
    PROVE  Keeps(c, Write(c, Frame(type, sid, n, end, last)))
<1> DEFINE y == Reads(c.seen, Frame(type, sid, n, end, last))
<1>1. c.seen \in Seen /\ c.seen.stream \in [Sids -> Int] /\ c.seen.credit \in Int
  BY ConnType
<1>2. Debits(c.seen, y, sid, 0)
  <2>1. type # "WINDOW_UPDATE"
    OBVIOUS
  <2> QED BY <1>1, <2>1, ReadsType
<1> HIDE DEF y
<1>3. y \in Seen /\ y.credit = c.seen.credit /\ y.stream = c.seen.stream
  BY <1>1, <1>2 DEF Debits
<1>4. Write(c, Frame(type, sid, n, end, last)) = [c EXCEPT !.seen = y]
  BY DEF Write, y
<1> QED BY <1>3, <1>4, SeenKeeps

LEMMA ResetKeeps == ASSUME NEW c \in Conn, NEW sid \in Sids PROVE Keeps(c, WriteReset(c, sid))
<1>1. FALSE \in BOOLEAN /\ 0 \in Int
  OBVIOUS
<1>2. Keeps(c, Write(c, Frame("RST_STREAM", sid, 0, FALSE, FALSE)))
  BY <1>1, WriteKeeps
<1> QED BY <1>2 DEF WriteReset

LEMMA CreditKeeps ==
    ASSUME NEW c \in Conn, NEW sid, NEW n \in Int PROVE Keeps(c, WriteCredit(c, sid, n))
<1>1. CASE n > 0
  <2> DEFINE k == IF sid = 0 THEN n ELSE 0
             y == [c.seen EXCEPT !.owed = c.seen.owed - k]
  <2>1. c.seen \in Seen
    BY ConnType
  <2>2. y \in Seen /\ y.credit = c.seen.credit /\ y.stream = c.seen.stream
    BY <2>1 DEF Seen
  <2>3. WriteCredit(c, sid, n) = [c EXCEPT !.seen = y]
    BY <1>1 DEF WriteCredit, Write, Reads, Frame
  <2> HIDE DEF y
  <2> QED BY <2>2, <2>3, SeenKeeps
<1>2. CASE ~(n > 0)
  BY <1>2, KeepsAll DEF WriteCredit
<1> QED BY <1>1, <1>2

LEMMA RemoveKeeps == ASSUME NEW c \in Conn, NEW sid PROVE Keeps(c, Remove(c, sid))
<1> DEFINE t == Without(c.streams, sid)
           d == [c EXCEPT !.streams = t]
<1>1. t \in Tables /\ DOMAIN t = DOMAIN c.streams \ {sid}
      /\ \A s \in DOMAIN t : t[s] = c.streams[s]
  BY ConnType, SmallerTable
<1> HIDE DEF t
<1>2. Keeps(c, d)
  BY <1>1, TableKeeps
<1>3. d \in Conn /\ d.pending = c.pending
  BY <1>2 DEF Keeps, Conn
<1>4. Keeps(d, [d EXCEPT !.pending = c.pending \ {sid}])
  <2>1. c.pending \ {sid} \in SUBSET Sids
    BY Numbers
  <2> HIDE DEF d
  <2> QED BY <1>3, <2>1, FieldsKeep
<1>5. Remove(c, sid) = [d EXCEPT !.pending = c.pending \ {sid}]
  BY DEF Remove, t, Conn
<1> HIDE DEF d
<1> QED BY <1>2, <1>4, <1>5, KeepsBoth

LEMMA ChurnKeeps == ASSUME NEW c \in Conn, NEW sid PROVE Keeps(c, Churn(c, sid))
<1>1. c.churned + 1 \in Int
  BY Numbers
<1> QED BY <1>1, FieldsKeep, KeepsAll DEF Churn

\* A stream is reset and forgotten.
LEMMA ResetRemoveKeeps ==
    ASSUME NEW c \in Conn, NEW sid \in Sids
    PROVE  /\ Keeps(c, Remove(WriteReset(c, sid), sid))
           /\ Keeps(c, Remove(Churn(WriteReset(c, sid), sid), sid))
<1> DEFINE d == WriteReset(c, sid)
           e == Churn(d, sid)
<1>1. Keeps(c, d) /\ d \in Conn
  BY ResetKeeps, KeepsType
<1> HIDE DEF d
<1>2. Keeps(c, Remove(d, sid))
  BY <1>1, RemoveKeeps, KeepsBoth
<1>3. Keeps(c, e) /\ e \in Conn
  BY <1>1, ChurnKeeps, KeepsBoth, KeepsType
<1> HIDE DEF e
<1>4. Keeps(c, Remove(e, sid))
  BY <1>3, RemoveKeeps, KeepsBoth
<1> QED BY <1>2, <1>4 DEF d, e

-----------------------------------------------------------------------------
(* The handlers that change no window.                                       *)

\* Fields of a stream that are not its window change.
LEMMA StreamFields ==
    ASSUME NEW x \in Stream
    PROVE  /\ \A p \in BOOLEAN :
                 /\ [x EXCEPT !.delivered = p] \in Stream /\ [x EXCEPT !.delivered = p].window = x.window
                 /\ [x EXCEPT !.assembling = p] \in Stream /\ [x EXCEPT !.assembling = p].window = x.window
                 /\ [x EXCEPT !.ended = p] \in Stream /\ [x EXCEPT !.ended = p].window = x.window
           /\ \A n \in Int :
                 /\ [x EXCEPT !.got = n] \in Stream /\ [x EXCEPT !.got = n].window = x.window
                 /\ [x EXCEPT !.size = n] \in Stream /\ [x EXCEPT !.size = n].window = x.window
BY DEF Stream

LEMMA Keeps_delivered ==
    ASSUME NEW c \in Conn, NEW sid \in DOMAIN c.streams, NEW p \in BOOLEAN
    PROVE  /\ Keeps(c, [c EXCEPT !.streams[sid].delivered = p])
           /\ DOMAIN [c EXCEPT !.streams[sid].delivered = p].streams = DOMAIN c.streams
<1> DEFINE x == c.streams[sid]
           y == [x EXCEPT !.delivered = p]
<1>1. x \in Stream
  BY ConnType
<1>2. y \in Stream /\ y.window = x.window
  BY <1>1, StreamFields
<1>3. [c EXCEPT !.streams[sid].delivered = p] = [c EXCEPT !.streams[sid] = y]
  BY DEF Conn
<1> HIDE DEF y
<1> QED BY <1>2, <1>3, StreamKeeps

LEMMA Keeps_got ==
    ASSUME NEW c \in Conn, NEW sid \in DOMAIN c.streams, NEW n \in Int
    PROVE  /\ Keeps(c, [c EXCEPT !.streams[sid].got = n])
           /\ DOMAIN [c EXCEPT !.streams[sid].got = n].streams = DOMAIN c.streams
<1> DEFINE x == c.streams[sid]
           y == [x EXCEPT !.got = n]
<1>1. x \in Stream
  BY ConnType
<1>2. y \in Stream /\ y.window = x.window
  BY <1>1, StreamFields
<1>3. [c EXCEPT !.streams[sid].got = n] = [c EXCEPT !.streams[sid] = y]
  BY DEF Conn
<1> HIDE DEF y
<1> QED BY <1>2, <1>3, StreamKeeps

LEMMA Keeps_size ==
    ASSUME NEW c \in Conn, NEW sid \in DOMAIN c.streams, NEW n \in Int
    PROVE  /\ Keeps(c, [c EXCEPT !.streams[sid].size = n])
           /\ DOMAIN [c EXCEPT !.streams[sid].size = n].streams = DOMAIN c.streams
<1> DEFINE x == c.streams[sid]
           y == [x EXCEPT !.size = n]
<1>1. x \in Stream
  BY ConnType
<1>2. y \in Stream /\ y.window = x.window
  BY <1>1, StreamFields
<1>3. [c EXCEPT !.streams[sid].size = n] = [c EXCEPT !.streams[sid] = y]
  BY DEF Conn
<1> HIDE DEF y
<1> QED BY <1>2, <1>3, StreamKeeps

LEMMA Keeps_assembling ==
    ASSUME NEW c \in Conn, NEW sid \in DOMAIN c.streams, NEW p \in BOOLEAN
    PROVE  /\ Keeps(c, [c EXCEPT !.streams[sid].assembling = p])
           /\ DOMAIN [c EXCEPT !.streams[sid].assembling = p].streams = DOMAIN c.streams
<1> DEFINE x == c.streams[sid]
           y == [x EXCEPT !.assembling = p]
<1>1. x \in Stream
  BY ConnType
<1>2. y \in Stream /\ y.window = x.window
  BY <1>1, StreamFields
<1>3. [c EXCEPT !.streams[sid].assembling = p] = [c EXCEPT !.streams[sid] = y]
  BY DEF Conn
<1> HIDE DEF y
<1> QED BY <1>2, <1>3, StreamKeeps

LEMMA Keeps_ended ==
    ASSUME NEW c \in Conn, NEW sid \in DOMAIN c.streams, NEW p \in BOOLEAN
    PROVE  /\ Keeps(c, [c EXCEPT !.streams[sid].ended = p])
           /\ DOMAIN [c EXCEPT !.streams[sid].ended = p].streams = DOMAIN c.streams
<1> DEFINE x == c.streams[sid]
           y == [x EXCEPT !.ended = p]
<1>1. x \in Stream
  BY ConnType
<1>2. y \in Stream /\ y.window = x.window
  BY <1>1, StreamFields
<1>3. [c EXCEPT !.streams[sid].ended = p] = [c EXCEPT !.streams[sid] = y]
  BY DEF Conn
<1> HIDE DEF y
<1> QED BY <1>2, <1>3, StreamKeeps

LEMMA AckKeeps == ASSUME NEW c \in Conn PROVE Keeps(c, NoteControlAck(c))
<1> DEFINE d == [c EXCEPT !.acks = c.acks + 1]
<1>1. Keeps(c, d) /\ d \in Conn
  <2>1. c.acks + 1 \in Int
    BY Numbers
  <2>2. Keeps(c, d)
    BY <2>1, FieldsKeep
  <2> QED BY <2>2, KeepsType
<1>2. NoteControlAck(c) \in {d, ConnError(d)}
  BY DEF NoteControlAck
<1> HIDE DEF d
<1>3. Keeps(c, ConnError(d))
  BY <1>1, FieldsKeep, KeepsBoth
<1> QED BY <1>1, <1>2, <1>3

LEMMA DeliverKeeps ==
    ASSUME NEW c \in Conn, NEW sid \in DOMAIN c.streams PROVE Keeps(c, Deliver(c, sid))
<1> DEFINE d1 == [c EXCEPT !.streams[sid].delivered = TRUE]
           d2 == [d1 EXCEPT !.completed = c.completed + 1]
           d3 == [d2 EXCEPT !.ready = Append(c.ready, sid)]
<1>1. Keeps(c, d1) /\ d1 \in Conn
  <2>1. Keeps(c, d1)
    BY Keeps_delivered
  <2> QED BY <2>1, KeepsType
<1>2. Deliver(c, sid) \in {d3, ConnError(d3)}
  BY DEF Deliver, Conn
<1>3. c.completed + 1 \in Int /\ Append(c.ready, sid) \in Seq(Sids)
  BY ConnType, Numbers
<1> HIDE DEF d1
<1>4. Keeps(c, d2) /\ d2 \in Conn
  BY <1>1, <1>3, FieldsKeep, KeepsBoth, KeepsType
<1> HIDE DEF d2
<1>5. Keeps(c, d3) /\ d3 \in Conn
  BY <1>3, <1>4, FieldsKeep, KeepsBoth, KeepsType
<1> HIDE DEF d3
<1>6. Keeps(c, ConnError(d3))
  BY <1>5, FieldsKeep, KeepsBoth
<1> QED BY <1>2, <1>5, <1>6

LEMMA FinishKeeps ==
    ASSUME NEW c \in Conn, NEW sid \in DOMAIN c.streams, NEW block
    PROVE  Keeps(c, FinishHeaders(c, sid, block))
<1> DEFINE d1 == [c EXCEPT !.streams[sid].assembling = FALSE]
           d == [d1 EXCEPT !.streams[sid].size = 0]
<1>1. Keeps(c, d1) /\ d1 \in Conn /\ DOMAIN d1.streams = DOMAIN c.streams
  <2>1. Keeps(c, d1) /\ DOMAIN d1.streams = DOMAIN c.streams
    BY Keeps_assembling
  <2> QED BY <2>1, KeepsType
<1>2. [c EXCEPT !.streams[sid].assembling = FALSE, !.streams[sid].size = 0] = d
  BY DEF Conn
<1> HIDE DEF d1
<1>3. Keeps(c, d) /\ d \in Conn /\ DOMAIN d.streams = DOMAIN c.streams
  <2>1. Keeps(d1, d) /\ DOMAIN d.streams = DOMAIN d1.streams
    BY <1>1, Keeps_size
  <2> HIDE DEF d
  <2> QED BY <1>1, <2>1, KeepsBoth, KeepsType
<1>4. FinishHeaders(c, sid, block) \in
        {ConnError(d), Remove(Churn(WriteReset(d, sid), sid), sid), Remove(WriteReset(d, sid), sid),
         Deliver(d, sid), [d EXCEPT !.pending = d.pending \cup {sid}]}
  BY <1>2 DEF FinishHeaders
<1> HIDE DEF d
<1>5. sid \in Sids /\ d.pending \cup {sid} \in SUBSET Sids
  BY <1>3, ConnType, Numbers
<1>6. \A e \in {ConnError(d), Remove(Churn(WriteReset(d, sid), sid), sid),
                Remove(WriteReset(d, sid), sid), Deliver(d, sid),
                [d EXCEPT !.pending = d.pending \cup {sid}]} : Keeps(d, e)
  BY <1>3, <1>5, FieldsKeep, ResetRemoveKeeps, DeliverKeeps
<1> QED BY <1>3, <1>4, <1>6, KeepsBoth

LEMMA OverClosed == ASSUME NEW c \in Conn, NEW sid, IsOver(c, sid) PROVE Keeps(c, StreamClosed(c, sid))
<1>1. sid \in Sids
  BY ConnType DEF IsOver
<1> QED BY <1>1, ResetRemoveKeeps DEF StreamClosed

\* A stream is opened with the credit the client gave to streams not yet opened.
LEMMA OpenSound ==
    ASSUME NEW c \in Conn, Fits(c), NEW sid \in Sids, sid \in DOMAIN c.streams \/ ~(sid <= c.last)
    PROVE  LET d == OpenStream(c, sid)
           IN  d \in Conn /\ Fits(d) /\ sid \in DOMAIN d.streams
<1>1. CASE sid \in DOMAIN c.streams
  BY <1>1 DEF OpenStream
<1>2. CASE sid \notin DOMAIN c.streams
  <2> DEFINE t == [s \in DOMAIN c.streams \cup {sid} |->
                     IF s = sid THEN NewStream(c) ELSE c.streams[s]]
             d == [c EXCEPT !.last = sid, !.streams = t]
  <2>1. NewStream(c) \in Stream /\ NewStream(c).window = c.initial
    BY ConnType DEF NewStream, Stream
  <2>2. PICK S \in SUBSET Sids : c.streams \in [S -> Stream]
    BY ConnType DEF Tables
  <2>3. t \in [S \cup {sid} -> Stream] /\ S \cup {sid} \in SUBSET Sids
    BY <2>1, <2>2
  <2>4. t \in Tables /\ DOMAIN t = DOMAIN c.streams \cup {sid}
    BY <2>3 DEF Tables
  <2>5. t[sid].window = c.initial /\ \A s \in DOMAIN c.streams : t[s] = c.streams[s]
    BY <1>2, <2>1
  <2> HIDE DEF t
  <2>6. sid \in Int /\ c.last \in Int /\ sid > c.last /\ \A s \in Sids : s \in Int
    BY <1>2, ConnType, H2Assumption
  <2>7. d \in Conn /\ d.streams = t /\ d.last = sid /\ d.window = c.window
        /\ d.initial = c.initial /\ d.seen = c.seen
    BY <2>4, <2>6 DEF Conn
  <2> HIDE DEF d
  <2>8. Fits(d)
    <3>1. d.seen.credit >= d.window
      BY <2>7 DEF Fits
    <3>2. ASSUME NEW s \in DOMAIN d.streams
          PROVE  s <= d.last /\ d.seen.stream[s] >= d.streams[s].window
      <4>1. CASE s = sid
        <5>1. c.seen.stream[sid] >= c.initial
          BY <2>6 DEF Fits
        <5> QED BY <4>1, <5>1, <2>5, <2>6, <2>7
      <4>2. CASE s \in DOMAIN c.streams
        <5>1. s <= c.last /\ c.seen.stream[s] >= c.streams[s].window /\ s \in Int
          BY <4>2, <2>6, ConnType DEF Fits
        <5>2. s <= sid
          BY <5>1, <2>6
        <5> QED BY <4>2, <5>1, <5>2, <2>5, <2>7
      <4> QED BY <3>2, <4>1, <4>2, <2>4, <2>7
    <3>3. ASSUME NEW s \in Sids, s > d.last PROVE d.seen.stream[s] >= d.initial
      <4>1. s > c.last
        BY <3>3, <2>6, <2>7
      <4> QED BY <4>1, <2>7 DEF Fits
    <3> QED BY <3>1, <3>2, <3>3 DEF Fits
  <2> QED BY <1>2, <2>4, <2>7, <2>8 DEF OpenStream, d, t
<1> QED BY <1>1, <1>2

LEMMA HeadersSound ==
    ASSUME NEW c \in Conn, Fits(c), NEW f, f.sid \in Sids \cup {0}
    PROVE  Sound(OnHeaders(c, f))
<1> DEFINE sid == f.sid
           o == OpenStream(c, sid)
           d1 == [o EXCEPT !.conts = 0]
           n == o.streams[sid].size + 1
           b == o.streams[sid].ended \/ f.end
           x == [o.streams[sid] EXCEPT !.size = n, !.assembling = TRUE, !.ended = b]
           d == [d1 EXCEPT !.streams[sid] = x]
<1>1. CASE sid \notin Sids \/ ~f.ok \/ IsOver(c, sid) \/ (sid \notin DOMAIN c.streams /\ sid <= c.last)
  <2>1. OnHeaders(c, f) = ConnError(c) \/ (IsOver(c, sid) /\ OnHeaders(c, f) = StreamClosed(c, sid))
    BY <1>1 DEF OnHeaders
  <2>2. Keeps(c, ConnError(c)) /\ (IsOver(c, sid) => Keeps(c, StreamClosed(c, sid)))
    BY FieldsKeep, OverClosed
  <2> QED BY <2>1, <2>2, KeepsSound
<1>2. CASE sid \in Sids /\ (sid \in DOMAIN c.streams \/ ~(sid <= c.last)) /\ f.ok /\ ~IsOver(c, sid)
  <2>1. o \in Conn /\ Fits(o) /\ sid \in DOMAIN o.streams
    BY <1>2, OpenSound
  <2>2. OnHeaders(c, f) \in {ConnError(d), FinishHeaders(d, sid, f.block), [d EXCEPT !.continuation = sid]}
    <3>1. [o EXCEPT !.conts = 0, !.streams[sid] = x] = d
      <4> HIDE DEF o, x
      <4> QED BY <2>1 DEF Conn
    <3> HIDE DEF d
    <3> QED BY <1>2, <3>1 DEF OnHeaders, o
  <2> HIDE DEF o
  <2>3. Keeps(o, d1) /\ d1 \in Conn /\ d1.streams = o.streams
    <3>1. 0 \in Int
      OBVIOUS
    <3>2. Keeps(o, d1)
      BY <2>1, <3>1, FieldsKeep
    <3>3. d1.streams = o.streams
      BY <2>1 DEF Conn
    <3> QED BY <3>2, <3>3, KeepsType
  <2> HIDE DEF d1
  <2>4. x \in Stream /\ x.window = d1.streams[sid].window
    <3>1. o.streams[sid] \in Stream
      BY <2>1, ConnType
    <3>2. n \in Int /\ b \in BOOLEAN
      BY <3>1 DEF Stream
    <3> HIDE DEF n, b
    <3> QED BY <2>3, <3>1, <3>2 DEF Stream
  <2> HIDE DEF x
  <2>6. Keeps(o, d) /\ d \in Conn /\ sid \in DOMAIN d.streams
    <3>1. Keeps(d1, d) /\ DOMAIN d.streams = DOMAIN d1.streams
      BY <2>1, <2>3, <2>4, StreamKeeps
    <3> HIDE DEF d
    <3> QED BY <2>1, <2>3, <3>1, KeepsBoth, KeepsType
  <2> HIDE DEF d
  <2>7. \A e \in {ConnError(d), FinishHeaders(d, sid, f.block), [d EXCEPT !.continuation = sid]} :
           Keeps(d, e)
    <3>1. sid \in Int
      <4>1. \A s \in Sids : s \in Int
        BY H2Assumption
      <4> QED BY <1>2, <4>1
    <3>2. Keeps(d, ConnError(d)) /\ Keeps(d, [d EXCEPT !.continuation = sid])
      BY <2>6, <3>1, FieldsKeep
    <3>3. Keeps(d, FinishHeaders(d, sid, f.block))
      BY <2>6, FinishKeeps
    <3> QED BY <3>2, <3>3
  <2> QED BY <2>1, <2>2, <2>6, <2>7, KeepsBoth, KeepsSound
<1> QED BY <1>1, <1>2

LEMMA ContinuationKeeps == ASSUME NEW c \in Conn, NEW f PROVE Keeps(c, OnContinuation(c, f))
<1> DEFINE sid == f.sid
           d1 == [c EXCEPT !.conts = c.conts + 1]
           d2 == [d1 EXCEPT !.streams[sid].size = d1.streams[sid].size + 1]
           d3 == [d2 EXCEPT !.continuation = 0]
<1>1. Keeps(c, d1) /\ d1 \in Conn /\ d1.streams = c.streams
  <2>1. c.conts + 1 \in Int
    BY Numbers
  <2>2. Keeps(c, d1)
    BY <2>1, FieldsKeep
  <2>3. d1.streams = c.streams
    BY DEF Conn
  <2> QED BY <2>2, <2>3, KeepsType
<1>2. \/ OnContinuation(c, f) = ConnError(d1)
      \/ /\ sid \in DOMAIN c.streams
         /\ OnContinuation(c, f) \in {ConnError(d2), FinishHeaders(d3, sid, f.block), d2}
  BY DEF OnContinuation
<1> HIDE DEF d1
<1>3. Keeps(c, ConnError(d1))
  BY <1>1, FieldsKeep, KeepsBoth
<1>4. ASSUME sid \in DOMAIN c.streams
      PROVE  \A e \in {ConnError(d2), FinishHeaders(d3, sid, f.block), d2} : Keeps(c, e)
  <2>1. Keeps(c, d2) /\ d2 \in Conn /\ DOMAIN d2.streams = DOMAIN c.streams
    <3>1. d1.streams[sid].size + 1 \in Int
      BY <1>1, <1>4, ConnType DEF Stream
    <3>2. Keeps(d1, d2) /\ DOMAIN d2.streams = DOMAIN d1.streams
      BY <1>1, <1>4, <3>1, Keeps_size
    <3> HIDE DEF d2
    <3> QED BY <1>1, <3>2, KeepsBoth, KeepsType
  <2> HIDE DEF d2
  <2>2. Keeps(c, d3) /\ d3 \in Conn /\ d3.streams = d2.streams
    <3>1. 0 \in Int
      OBVIOUS
    <3>2. Keeps(d2, d3)
      BY <2>1, <3>1, FieldsKeep
    <3>3. d3.streams = d2.streams
      BY <2>1 DEF Conn
    <3> HIDE DEF d3
    <3> QED BY <2>1, <3>2, <3>3, KeepsBoth, KeepsType
  <2> HIDE DEF d3
  <2>3. Keeps(c, FinishHeaders(d3, sid, f.block))
    BY <1>4, <2>1, <2>2, FinishKeeps, KeepsBoth
  <2>4. Keeps(c, ConnError(d2))
    BY <2>1, FieldsKeep, KeepsBoth
  <2> QED BY <2>1, <2>3, <2>4
<1> QED BY <1>2, <1>3, <1>4

LEMMA DataKeeps ==
    ASSUME NEW c \in Conn, NEW f, f.n \in Int PROVE Keeps(c, OnData(c, f))
<1> DEFINE sid == f.sid
           n == c.streams[sid].got + f.n
           b == c.streams[sid].ended \/ f.end
           x == [c.streams[sid] EXCEPT !.got = n, !.ended = b]
           t == [c EXCEPT !.streams[sid] = x]
           k == WriteCredit(WriteCredit(t, 0, f.n), sid, f.n)
           d1 == [k EXCEPT !.pending = k.pending \ {sid}]
           d == [d1 EXCEPT !.streams[sid].got = 0]
<1>1. CASE ~f.ok
  BY <1>1, FieldsKeep DEF OnData
<1>2. CASE f.ok /\ IsOver(c, sid)
  <2>1. Keeps(c, StreamClosed(c, sid)) /\ StreamClosed(c, sid) \in Conn
    BY <1>2, OverClosed, KeepsType
  <2>2. Keeps(StreamClosed(c, sid), WriteCredit(StreamClosed(c, sid), 0, f.n))
    BY <2>1, CreditKeeps
  <2> QED BY <1>2, <2>1, <2>2, KeepsBoth DEF OnData
<1>3. CASE f.ok /\ ~IsOver(c, sid) /\ sid \notin DOMAIN c.streams
  BY <1>3, KeepsAll DEF OnData
<1>4. CASE f.ok /\ ~IsOver(c, sid) /\ sid \in DOMAIN c.streams
  <2>1. OnData(c, f) \in {WriteCredit(Remove(WriteReset(t, sid), sid), 0, f.n), Deliver(d, sid), k}
    <3>1. [k EXCEPT !.pending = k.pending \ {sid}, !.streams[sid].got = 0] = d
      <4> HIDE DEF k
      <4> QED OBVIOUS
    <3> HIDE DEF d
    <3> QED BY <1>4, <3>1 DEF OnData
  <2>2. Keeps(c, t) /\ t \in Conn /\ DOMAIN t.streams = DOMAIN c.streams
    <3>1. c.streams[sid] \in Stream
      BY <1>4, ConnType
    <3>2. n \in Int /\ b \in BOOLEAN
      BY <3>1 DEF Stream
    <3> HIDE DEF n, b
    <3>3. x \in Stream /\ x.window = c.streams[sid].window
      BY <3>1, <3>2 DEF Stream
    <3> HIDE DEF x
    <3>4. Keeps(c, t) /\ DOMAIN t.streams = DOMAIN c.streams
      BY <1>4, <3>3, StreamKeeps
    <3> HIDE DEF t
    <3> QED BY <3>4, KeepsType
  <2> HIDE DEF t
  <2>3. Keeps(c, WriteCredit(Remove(WriteReset(t, sid), sid), 0, f.n))
    <3>1. sid \in Sids
      BY <1>4, ConnType
    <3>2. Keeps(t, Remove(WriteReset(t, sid), sid)) /\ Remove(WriteReset(t, sid), sid) \in Conn
      BY <2>2, <3>1, ResetRemoveKeeps, KeepsType
    <3>3. Keeps(Remove(WriteReset(t, sid), sid), WriteCredit(Remove(WriteReset(t, sid), sid), 0, f.n))
      BY <3>2, CreditKeeps
    <3> QED BY <2>2, <3>2, <3>3, KeepsBoth
  <2>4. Keeps(c, k) /\ k \in Conn /\ DOMAIN k.streams = DOMAIN c.streams
    <3>1. Keeps(t, WriteCredit(t, 0, f.n)) /\ WriteCredit(t, 0, f.n) \in Conn
      BY <2>2, CreditKeeps, KeepsType
    <3>2. Keeps(WriteCredit(t, 0, f.n), k)
      BY <3>1, CreditKeeps
    <3>3. k.streams = t.streams
      BY <2>2 DEF WriteCredit, Write, Conn
    <3> HIDE DEF k
    <3> QED BY <2>2, <3>1, <3>2, <3>3, KeepsBoth, KeepsType
  <2> HIDE DEF k
  <2>5. Keeps(c, d1) /\ d1 \in Conn /\ DOMAIN d1.streams = DOMAIN c.streams
    <3>1. k.pending \ {sid} \in SUBSET Sids
      BY <2>4, Numbers
    <3>2. Keeps(k, d1)
      BY <2>4, <3>1, FieldsKeep
    <3>3. d1.streams = k.streams
      BY <2>4 DEF Conn
    <3> HIDE DEF d1
    <3> QED BY <2>4, <3>2, <3>3, KeepsBoth, KeepsType
  <2> HIDE DEF d1
  <2>6. Keeps(c, d) /\ d \in Conn /\ DOMAIN d.streams = DOMAIN c.streams
    <3>1. 0 \in Int
      OBVIOUS
    <3>2. Keeps(d1, d) /\ DOMAIN d.streams = DOMAIN d1.streams
      BY <1>4, <2>5, <3>1, Keeps_got
    <3> HIDE DEF d
    <3> QED BY <2>5, <3>2, KeepsBoth, KeepsType
  <2> HIDE DEF d
  <2>7. Keeps(c, Deliver(d, sid))
    BY <1>4, <2>6, DeliverKeeps, KeepsBoth
  <2> QED BY <2>1, <2>3, <2>4, <2>7
<1> QED BY <1>1, <1>2, <1>3, <1>4

LEMMA OnResetKeeps == ASSUME NEW c \in Conn, NEW f PROVE Keeps(c, OnReset(c, f))
<1> DEFINE sid == f.sid
           g == Remove(Churn(c, sid), sid)
           d1 == [g EXCEPT !.resets = g.resets + 1]
           z == [d1.seen EXCEPT !.state[sid] = "reset"]
           d == [d1 EXCEPT !.seen = z]
<1>1. OnReset(c, f) = c \/ (sid \in DOMAIN c.streams /\ OnReset(c, f) \in {d, ConnError(d)})
  <2>1. [g EXCEPT !.resets = g.resets + 1, !.seen.state[sid] = "reset"] = d
    <3> HIDE DEF g
    <3> QED OBVIOUS
  <2> HIDE DEF d
  <2> QED BY <2>1 DEF OnReset
<1>2. Keeps(c, g) /\ g \in Conn
  BY ChurnKeeps, RemoveKeeps, KeepsBoth, KeepsType
<1> HIDE DEF g
<1>3. Keeps(c, d1) /\ d1 \in Conn
  <2>1. g.resets + 1 \in Int
    BY <1>2, Numbers
  <2>2. Keeps(g, d1)
    BY <1>2, <2>1, FieldsKeep
  <2> HIDE DEF d1
  <2> QED BY <1>2, <2>2, KeepsBoth, KeepsType
<1> HIDE DEF d1
<1>4. ASSUME sid \in DOMAIN c.streams PROVE Keeps(c, d) /\ d \in Conn
  <2>1. d1.seen \in Seen
    BY <1>3, ConnType
  <2>2. z \in Seen /\ z.credit = d1.seen.credit /\ z.stream = d1.seen.stream
    BY <2>1 DEF Seen, States
  <2> HIDE DEF z
  <2>3. Keeps(d1, d)
    BY <1>3, <2>2, SeenKeeps
  <2> HIDE DEF d
  <2> QED BY <1>3, <2>3, KeepsBoth, KeepsType
<1> HIDE DEF d
<1>5. sid \in DOMAIN c.streams => Keeps(c, ConnError(d))
  BY <1>4, FieldsKeep, KeepsBoth
<1> QED BY <1>1, <1>4, <1>5, KeepsAll

-----------------------------------------------------------------------------
(* The frames that move windows: the client changes its accounts as it sends *)
(* one, and the server its windows as it takes it.                           *)

IsFrame(f) == f.sid \in Sids \cup {0} /\ f.n \in Nat

LEMMA FrameType == ASSUME NEW f \in ClientFrames PROVE IsFrame(f)
<1>1. f.sid \in Sids \cup {0}
  BY DEF ClientFrames, ClientFrame
<1>2. f.n \in Nat
  BY H2Assumption DEF ClientFrames, ClientFrame
<1> QED BY <1>1, <1>2 DEF IsFrame

\* What the client's own frame does to its accounts.
Moves(z, y, f, initial) ==
    /\ (~f.ok \/ f.type \notin {"SETTINGS", "WINDOW_UPDATE"}) =>
          y.credit = z.credit /\ y.stream = z.stream
    /\ f.ok /\ f.type = "SETTINGS" =>
          /\ y.credit = z.credit
          /\ y.stream = [s \in Sids |-> z.stream[s] + f.n - initial]
    /\ f.ok /\ f.type = "WINDOW_UPDATE" /\ f.sid = 0 =>
          y.credit = z.credit + f.n /\ y.stream = z.stream
    /\ f.ok /\ f.type = "WINDOW_UPDATE" /\ f.sid # 0 =>
          /\ y.credit = z.credit
          /\ y.stream = [z.stream EXCEPT ![f.sid] = z.stream[f.sid] + f.n]

LEMMA GivesType ==
    ASSUME NEW z \in Seen, NEW f, IsFrame(f), NEW initial \in Int
    PROVE  Gives(z, f, initial) \in Seen /\ Moves(z, Gives(z, f, initial), f, initial)
<1> DEFINE n == f.n
           sid == f.sid
           S1 == [z EXCEPT !.stream = [s \in Sids |-> z.stream[s] + n - initial]]
           S2 == [z EXCEPT !.credit = z.credit + n]
           S3 == [z EXCEPT !.stream[sid] = z.stream[sid] + n]
           S4 == [z EXCEPT !.owed = z.owed + n]
<1>1. n \in Int /\ sid \in Sids \cup {0}
  BY DEF IsFrame
<1>2. S1 \in Seen /\ S1.credit = z.credit
      /\ S1.stream = [s \in Sids |-> z.stream[s] + n - initial]
  BY <1>1 DEF Seen
<1>3. S2 \in Seen /\ S2.credit = z.credit + n /\ S2.stream = z.stream
  BY <1>1 DEF Seen
<1>4. sid # 0 => S3 \in Seen /\ S3.credit = z.credit
      /\ S3.stream = [z.stream EXCEPT ![sid] = z.stream[sid] + n]
  BY <1>1 DEF Seen
<1>5. S4 \in Seen /\ S4.credit = z.credit /\ S4.stream = z.stream
  BY <1>1 DEF Seen
<1>6. Gives(z, f, initial) =
        CASE ~f.ok -> z
          [] f.ok /\ f.type = "SETTINGS" -> S1
          [] f.ok /\ f.type = "WINDOW_UPDATE" /\ sid = 0 -> S2
          [] f.ok /\ f.type = "WINDOW_UPDATE" /\ sid # 0 -> S3
          [] f.ok /\ f.type = "DATA" -> S4
          [] OTHER -> z
  BY DEF Gives
<1> HIDE DEF S1, S2, S3, S4
<1> QED BY <1>1, <1>2, <1>3, <1>4, <1>5, <1>6 DEF Moves

\* The state in which a frame is handled: the client has already changed its accounts.
Given(c, f) == [c EXCEPT !.seen = Gives(c.seen, f, c.initial)]

LEMMA GivenType ==
    ASSUME NEW c \in Conn, NEW f, IsFrame(f)
    PROVE  /\ Given(c, f) \in Conn /\ Moves(c.seen, Given(c, f).seen, f, c.initial)
           /\ Given(c, f).streams = c.streams /\ Given(c, f).window = c.window
           /\ Given(c, f).initial = c.initial /\ Given(c, f).last = c.last
<1> DEFINE y == Gives(c.seen, f, c.initial)
<1>1. c.seen \in Seen /\ c.initial \in Int
  BY ConnType
<1>2. y \in Seen /\ Moves(c.seen, y, f, c.initial)
  BY <1>1, GivesType
<1> HIDE DEF y
<1>3. LET g == [c EXCEPT !.seen = y]
      IN  /\ g \in Conn /\ g.seen = y /\ g.streams = c.streams /\ g.window = c.window
          /\ g.initial = c.initial /\ g.last = c.last
  BY <1>2 DEF Conn
<1> QED BY <1>2, <1>3 DEF Given, y

LEMMA PlainSound ==
    ASSUME NEW c \in Conn, Fits(c), NEW f, IsFrame(f),
           f.type \notin {"SETTINGS", "WINDOW_UPDATE"} \/ ~f.ok
    PROVE  Keeps(c, Given(c, f)) /\ Given(c, f) \in Conn /\ Fits(Given(c, f))
<1> DEFINE g == Given(c, f)
<1>1. g \in Conn /\ Moves(c.seen, g.seen, f, c.initial) /\ g.streams = c.streams
      /\ g.window = c.window /\ g.initial = c.initial /\ g.last = c.last
  BY GivenType
<1>2. g.closed = c.closed
  BY DEF Given, Conn
<1> HIDE DEF g
<1>3. g.seen.credit = c.seen.credit /\ g.seen.stream = c.seen.stream
  BY <1>1 DEF Moves
<1>4. Keeps(c, g)
  BY <1>1, <1>2, <1>3 DEF Keeps
<1> QED BY <1>1, <1>4, KeepsFits DEF g

LEMMA SettingsSound ==
    ASSUME NEW c \in Conn, Fits(c), NEW f, IsFrame(f), f.type = "SETTINGS"
    PROVE  Sound(OnSettings(Given(c, f), f))
<1> DEFINE g == Given(c, f)
           delta == f.n - g.initial
           t == [s \in DOMAIN g.streams |-> [g.streams[s] EXCEPT !.window = @ + delta]]
           d == [g EXCEPT !.initial = f.n, !.streams = t]
<1>1. g \in Conn /\ g.streams = c.streams /\ g.window = c.window /\ g.initial = c.initial
      /\ g.last = c.last /\ f.n \in Int /\ c.initial \in Int
  BY GivenType, ConnType DEF IsFrame
<1>2. OnSettings(g, f) \in {ConnError(g), ConnError(d), NoteControlAck(d)}
      /\ (~f.ok => OnSettings(g, f) = ConnError(g))
  BY DEF OnSettings
<1>3. Sound(ConnError(g))
  BY <1>1, FieldsKeep, KeepsType, ClosedSound
<1>4. ASSUME f.ok PROVE d \in Conn /\ Fits(d)
  <2>1. \A s \in DOMAIN c.streams : c.streams[s] \in Stream /\ c.streams[s].window \in Int
    BY ConnType
  <2>2. t \in Tables /\ DOMAIN t = DOMAIN c.streams
    <3>1. PICK S \in SUBSET Sids : c.streams \in [S -> Stream]
      BY ConnType DEF Tables
    <3>2. \A s \in S : [c.streams[s] EXCEPT !.window = @ + delta] \in Stream
      BY <1>1, <3>1 DEF Stream
    <3>3. t \in [S -> Stream]
      BY <1>1, <3>1, <3>2
    <3> QED BY <3>1, <3>3 DEF Tables
  <2>3. \A s \in DOMAIN c.streams : t[s].window = c.streams[s].window + delta
    BY <1>1, <2>1 DEF Stream
  <2> HIDE DEF t
  <2>4. d \in Conn /\ d.streams = t /\ d.window = c.window /\ d.initial = f.n /\ d.last = c.last
        /\ d.seen = g.seen
    BY <1>1, <2>2 DEF Conn
  <2>5. g.seen.credit = c.seen.credit
        /\ g.seen.stream = [s \in Sids |-> c.seen.stream[s] + f.n - c.initial]
    BY <1>4, GivenType DEF Moves
  <2>6. \A s \in Sids : c.seen.stream[s] \in Int
    BY ConnType
  <2>7. DOMAIN c.streams \subseteq Sids
    BY ConnType
  <2> HIDE DEF d, g
  <2>8. d.seen.credit >= d.window
    BY <2>4, <2>5 DEF Fits
  <2>9. ASSUME NEW s \in DOMAIN d.streams
        PROVE  s <= d.last /\ d.seen.stream[s] >= d.streams[s].window
    <3>1. s <= c.last /\ c.seen.stream[s] >= c.streams[s].window
      BY <2>2, <2>4, <2>9 DEF Fits
    <3>2. d.seen.stream[s] = c.seen.stream[s] + f.n - c.initial
      BY <2>2, <2>4, <2>5, <2>7, <2>9
    <3>3. d.streams[s].window = c.streams[s].window + f.n - c.initial
      BY <1>1, <2>1, <2>2, <2>3, <2>4, <2>9
    <3> QED BY <1>1, <2>1, <2>2, <2>4, <2>6, <2>7, <2>9, <3>1, <3>2, <3>3
  <2>10. ASSUME NEW s \in Sids, s > d.last PROVE d.seen.stream[s] >= d.initial
    <3>1. c.seen.stream[s] >= c.initial
      BY <2>4, <2>10 DEF Fits
    <3> QED BY <1>1, <2>4, <2>5, <2>6, <3>1
  <2> QED BY <2>4, <2>8, <2>9, <2>10 DEF Fits
<1> HIDE DEF d, g
<1>5. ASSUME f.ok PROVE Sound(ConnError(d)) /\ Sound(NoteControlAck(d))
  <2>1. Keeps(d, ConnError(d)) /\ Keeps(d, NoteControlAck(d))
    BY <1>4, <1>5, FieldsKeep, AckKeeps
  <2> QED BY <1>4, <1>5, <2>1, KeepsSound
<1> QED BY <1>2, <1>3, <1>5 DEF g

LEMMA WindowUpdateSound ==
    ASSUME NEW c \in Conn, Fits(c), NEW f, IsFrame(f), f.type = "WINDOW_UPDATE"
    PROVE  Sound(OnWindowUpdate(Given(c, f), f))
<1> DEFINE g == Given(c, f)
           sid == f.sid
           w == [g EXCEPT !.window = g.window + f.n]
           m == [g EXCEPT !.streams[sid].window = g.streams[sid].window + f.n]
<1>1. g \in Conn /\ Moves(c.seen, g.seen, f, c.initial) /\ g.streams = c.streams
      /\ g.window = c.window /\ g.initial = c.initial /\ g.last = c.last
  BY GivenType
<1>2. f.n \in Nat /\ c.seen.credit \in Int /\ (\A s \in Sids : c.seen.stream[s] \in Int)
      /\ c.window \in Int /\ c.initial \in Int /\ DOMAIN c.streams \subseteq Sids
      /\ c.seen.stream \in [Sids -> Int]
      /\ (\A s \in DOMAIN c.streams : c.streams[s] \in Stream /\ c.streams[s].window \in Int)
  BY ConnType DEF IsFrame
<1> HIDE DEF g
<1>3. Keeps(g, ConnError(g)) /\ ConnError(g).closed /\ ConnError(g) \in Conn
  BY <1>1, FieldsKeep, KeepsType
<1>4. CASE ~f.ok \/ f.n = 0
  <2>1. OnWindowUpdate(g, f) = ConnError(g)
    BY <1>4 DEF OnWindowUpdate
  <2> QED BY <1>3, <2>1, ClosedSound DEF g
<1>5. CASE f.ok /\ f.n # 0 /\ sid = 0
  <2>1. OnWindowUpdate(g, f) \in {w, ConnError(w)}
    BY <1>5 DEF OnWindowUpdate
  <2>2. g.seen.credit = c.seen.credit + f.n /\ g.seen.stream = c.seen.stream
    BY <1>1, <1>5 DEF Moves
  <2>3. w \in Conn /\ w.window = c.window + f.n /\ w.seen = g.seen /\ w.streams = c.streams
        /\ w.initial = c.initial /\ w.last = c.last
    <3> DEFINE n == g.window + f.n
    <3>1. n \in Int /\ n = c.window + f.n
      BY <1>1, <1>2
    <3> HIDE DEF n
    <3>2. w = [g EXCEPT !.window = n]
      BY DEF n
    <3> HIDE DEF w
    <3> QED BY <1>1, <3>1, <3>2 DEF Conn
  <2> HIDE DEF w
  <2>4. c.seen.credit + f.n >= c.window + f.n
    BY <1>2 DEF Fits
  <2>5. Fits(w)
    BY <2>2, <2>3, <2>4 DEF Fits
  <2>6. Keeps(w, w) /\ Keeps(w, ConnError(w))
    BY <2>3, KeepsAll, FieldsKeep
  <2> QED BY <2>1, <2>5, <2>6, KeepsSound DEF g
<1>6. CASE f.ok /\ f.n # 0 /\ sid # 0
  <2>1. g.seen.credit = c.seen.credit
        /\ g.seen.stream = [c.seen.stream EXCEPT ![sid] = c.seen.stream[sid] + f.n]
    BY <1>1, <1>6 DEF Moves
  <2>2. sid \in Sids
    BY <1>6 DEF IsFrame
  <2>3. g.seen.stream[sid] = c.seen.stream[sid] + f.n
        /\ \A s \in Sids : g.seen.stream[s] >= c.seen.stream[s]
    BY <1>2, <2>1, <2>2
  <2>4. \A s \in Sids : g.seen.stream[s] \in Int
    BY <1>1, ConnType
  <2>5. Fits(g)
    <3>1. ASSUME NEW s \in DOMAIN g.streams
          PROVE  s <= g.last /\ g.seen.stream[s] >= g.streams[s].window
      BY <1>1, <1>2, <2>3, <2>4, <3>1 DEF Fits
    <3>2. ASSUME NEW s \in Sids, s > g.last PROVE g.seen.stream[s] >= g.initial
      BY <1>1, <1>2, <2>3, <2>4, <3>2 DEF Fits
    <3>3. g.seen.credit >= g.window
      BY <1>1, <2>1 DEF Fits
    <3> QED BY <3>1, <3>2, <3>3 DEF Fits
  <2>6. CASE sid \notin DOMAIN g.streams
    <3>1. OnWindowUpdate(g, f) = g
      BY <1>6, <2>6 DEF OnWindowUpdate
    <3> QED BY <1>1, <2>5, <3>1 DEF Sound, g
  <2>7. CASE sid \in DOMAIN g.streams
    <3>1. OnWindowUpdate(g, f) \in {m, Remove(WriteReset(m, sid), sid)}
      BY <1>6, <2>7 DEF OnWindowUpdate
    <3> DEFINE n == g.streams[sid].window + f.n
               x == [g.streams[sid] EXCEPT !.window = n]
               t == [g.streams EXCEPT ![sid] = x]
               d == [g EXCEPT !.streams = t]
    <3>2. m = d
      BY <1>1, <2>7 DEF Conn
    <3> HIDE DEF m
    <3>3. n \in Int
      BY <1>1, <1>2, <2>7
    <3> HIDE DEF n
    <3>4. x \in Stream /\ x.window = n
      BY <1>1, <1>2, <2>7, <3>3 DEF Stream
    <3> HIDE DEF x
    <3>5. t \in Tables /\ DOMAIN t = DOMAIN g.streams /\ t[sid] = x
          /\ \A s \in DOMAIN g.streams \ {sid} : t[s] = g.streams[s]
      <4>1. g.streams \in Tables
        BY <1>1, ConnType
      <4> QED BY <2>7, <3>4, <4>1, ChangedTable
    <3> HIDE DEF t
    <3>6. d \in Conn /\ d.streams = t /\ d.seen = g.seen /\ d.window = g.window
          /\ d.initial = g.initial /\ d.last = g.last
      BY <1>1, <3>5 DEF Conn
    <3> HIDE DEF d
    <3>7. Fits(d)
      <4>1. ASSUME NEW s \in DOMAIN d.streams
            PROVE  s <= d.last /\ d.seen.stream[s] >= d.streams[s].window
        <5>1. s \in DOMAIN g.streams /\ s <= g.last /\ g.seen.stream[s] >= g.streams[s].window
          BY <2>5, <3>5, <3>6, <4>1 DEF Fits
        <5>2. CASE s = sid
          <6>1. c.seen.stream[sid] >= c.streams[sid].window
            BY <1>1, <2>7 DEF Fits
          <6>2. d.streams[s].window = c.streams[sid].window + f.n
            BY <1>1, <3>4, <3>5, <3>6, <5>2 DEF n
          <6> QED BY <1>1, <1>2, <2>3, <2>7, <3>6, <5>1, <5>2, <6>1, <6>2
        <5>3. CASE s # sid
          BY <3>5, <3>6, <5>1, <5>3
        <5> QED BY <5>2, <5>3
      <4>2. ASSUME NEW s \in Sids, s > d.last PROVE d.seen.stream[s] >= d.initial
        BY <2>5, <3>6, <4>2 DEF Fits
      <4>3. d.seen.credit >= d.window
        BY <2>5, <3>6 DEF Fits
      <4> QED BY <4>1, <4>2, <4>3 DEF Fits
    <3>8. Keeps(d, d) /\ Keeps(d, Remove(WriteReset(d, sid), sid))
      BY <2>2, <3>6, KeepsAll, ResetRemoveKeeps
    <3> QED BY <3>1, <3>2, <3>7, <3>8, KeepsSound DEF g
  <2> QED BY <2>6, <2>7
<1> QED BY <1>4, <1>5, <1>6

\* Each frame of the client leaves the accounts and the windows in step, or closes.
LEMMA FrameSound ==
    ASSUME NEW c \in Conn, Fits(c), NEW f, IsFrame(f) PROVE Sound(OnFrame(Given(c, f), f))
<1> DEFINE g == Given(c, f)
<1>1. g \in Conn
  BY GivenType
<1>2. Sound(ConnError(g))
  BY <1>1, FieldsKeep, KeepsType, ClosedSound
<1>3. CASE g.continuation # 0 /\ (f.type # "CONTINUATION" \/ f.sid # g.continuation)
  BY <1>2, <1>3 DEF OnFrame
<1>4. CASE ~(g.continuation # 0 /\ (f.type # "CONTINUATION" \/ f.sid # g.continuation))
  <2>1. CASE f.type = "SETTINGS"
    BY <1>4, <2>1, SettingsSound DEF OnFrame
  <2>2. CASE f.type = "WINDOW_UPDATE"
    BY <1>4, <2>2, WindowUpdateSound DEF OnFrame
  <2>3. CASE f.type \notin {"SETTINGS", "WINDOW_UPDATE"}
    <3>1. Fits(g)
      BY <2>3, PlainSound
    <3>2. f.n \in Int /\ f.sid \in Sids \cup {0}
      BY DEF IsFrame
    <3> HIDE DEF g
    <3>3. Sound(NoteControlAck(g)) /\ Sound(g) /\ Sound(OnHeaders(g, f)) /\ Sound(OnContinuation(g, f))
          /\ Sound(OnData(g, f)) /\ Sound(OnReset(g, f)) /\ Sound([g EXCEPT !.closed = TRUE])
      <4>1. Keeps(g, NoteControlAck(g)) /\ Keeps(g, g) /\ Keeps(g, OnContinuation(g, f))
            /\ Keeps(g, OnReset(g, f))
        BY <1>1, AckKeeps, KeepsAll, ContinuationKeeps, OnResetKeeps
      <4>2. Keeps(g, OnData(g, f)) /\ Keeps(g, [g EXCEPT !.closed = TRUE])
        BY <1>1, <3>2, DataKeeps, FieldsKeep
      <4>3. Sound(OnHeaders(g, f))
        BY <1>1, <3>1, <3>2, HeadersSound
      <4> QED BY <3>1, <4>1, <4>2, <4>3, KeepsSound
    <3>4. OnFrame(g, f) \in {NoteControlAck(g), g, OnHeaders(g, f), OnContinuation(g, f), OnData(g, f),
                             OnReset(g, f), [g EXCEPT !.closed = TRUE]}
      BY <1>4, <2>3 DEF OnFrame
    <3> QED BY <3>3, <3>4 DEF g
  <2> QED BY <2>1, <2>2, <2>3
<1> QED BY <1>3, <1>4

LEMMA ReceiveSound ==
    ASSUME conn \in Conn, ~conn.closed => Fits(conn), NEW f \in ClientFrames, Receive(f)
    PROVE  Sound(conn')
<1> DEFINE a == [conn EXCEPT !.acks = 0]
           c == IF at = "wait" THEN a ELSE conn
<1>1. Keeps(conn, c)
  <2>1. 0 \in Int
    OBVIOUS
  <2>2. Keeps(conn, a) /\ Keeps(conn, conn)
    BY <2>1, FieldsKeep, KeepsAll
  <2> QED BY <2>2
<1>2. conn' = OnFrame([c EXCEPT !.seen = Gives(c.seen, f, c.initial)], f) /\ ~conn.closed
  BY DEF Receive
<1> HIDE DEF c
<1>3. c \in Conn /\ Fits(c)
  BY <1>1, <1>2, KeepsType, KeepsFits
<1>4. conn' = OnFrame(Given(c, f), f)
  BY <1>2 DEF Given
<1> QED BY <1>3, <1>4, FrameType, FrameSound

-----------------------------------------------------------------------------
(* Responses.                                                                *)

LEMMA LeastOf ==
    ASSUME NEW S, NEW x \in S, S \subseteq Int, \A y \in S : x <= y
    PROVE  Least(S) \in S /\ \A y \in S : Least(S) <= y
BY DEF Least

LEMMA LeastTwo ==
    ASSUME NEW a \in Int, NEW b \in Int
    PROVE  Least({a, b}) \in {a, b} /\ Least({a, b}) <= a /\ Least({a, b}) <= b
<1>1. CASE a <= b
  BY <1>1, LeastOf
<1>2. CASE b <= a
  BY <1>2, LeastOf
<1> QED BY <1>1, <1>2

LEMMA LeastThree ==
    ASSUME NEW a \in Int, NEW b \in Int, NEW c \in Int
    PROVE  /\ Least({a, b, c}) \in {a, b, c} /\ Least({a, b, c}) <= a
           /\ Least({a, b, c}) <= b /\ Least({a, b, c}) <= c
<1>1. CASE a <= b /\ a <= c
  BY <1>1, LeastOf
<1>2. CASE b <= a /\ b <= c
  BY <1>2, LeastOf
<1>3. CASE c <= a /\ c <= b
  BY <1>3, LeastOf
<1> QED BY <1>1, <1>2, <1>3

\* What a step spends of the client's credit, it had.
Spends(c, d) ==
    /\ d.seen.credit < c.seen.credit => d.seen.credit >= 0
    /\ \A s \in Sids : d.seen.stream[s] < c.seen.stream[s] => d.seen.stream[s] >= 0

\* A step of the server.
Serves(c, d) ==
    /\ d \in Conn /\ (c.closed => d.closed)
    /\ Fits(c) => Fits(d) /\ Spends(c, d)

LEMMA KeepsServes == ASSUME NEW c \in Conn, NEW d, Keeps(c, d) PROVE Serves(c, d)
<1>1. d \in Conn /\ (c.closed => d.closed) /\ d.seen.credit = c.seen.credit /\ d.seen.stream = c.seen.stream
  BY DEF Keeps
<1>2. c.seen.credit \in Int /\ \A s \in Sids : c.seen.stream[s] \in Int
  BY ConnType
<1>3. Spends(c, d)
  BY <1>1, <1>2 DEF Spends
<1> QED BY <1>1, <1>3, KeepsFits DEF Serves

LEMMA HeadKeeps ==
    ASSUME NEW c \in Conn, NEW sid \in Sids, NEW parts, NEW body
    PROVE  Keeps(c, WriteHead(c, sid, parts, body))
<1> DEFINE end == ~HasBody(body)
           d == Write(c, Frame("HEADERS", sid, 0, FALSE, FALSE))
<1>1. end \in BOOLEAN /\ TRUE \in BOOLEAN /\ FALSE \in BOOLEAN /\ 0 \in Int
  OBVIOUS
<1>2. WriteHead(c, sid, parts, body) \in
        {Write(c, Frame("HEADERS", sid, 0, end, TRUE)),
         Write(d, Frame("CONTINUATION", sid, 0, FALSE, TRUE))}
  BY DEF WriteHead
<1> HIDE DEF end
<1>3. Keeps(c, Write(c, Frame("HEADERS", sid, 0, end, TRUE))) /\ Keeps(c, d)
  BY <1>1, WriteKeeps
<1>4. d \in Conn
  BY <1>3, KeepsType
<1> HIDE DEF d
<1>5. Keeps(d, Write(d, Frame("CONTINUATION", sid, 0, FALSE, TRUE)))
  BY <1>1, <1>4, WriteKeeps
<1>6. Keeps(c, Write(d, Frame("CONTINUATION", sid, 0, FALSE, TRUE)))
  BY <1>3, <1>5, KeepsBoth
<1> QED BY <1>2, <1>3, <1>6

LEMMA AnswerKeeps ==
    ASSUME NEW c \in Conn, NEW sid, NEW r \in Responses PROVE Keeps(c, Answer(c, sid, r))
<1> DEFINE b == OutBody(r)
           d == [c EXCEPT !.streams[sid].body = b]
           x == [c.streams[sid] EXCEPT !.body = b]
<1>1. CASE sid \notin DOMAIN c.streams
  BY <1>1, KeepsAll DEF Answer
<1>2. CASE sid \in DOMAIN c.streams
  <2>1. b \in Bodies
    BY H2Assumption DEF OutBody, Bodies
  <2> HIDE DEF b
  <2>2. x \in Stream /\ x.window = c.streams[sid].window
    BY <1>2, <2>1, ConnType DEF Stream
  <2>3. d = [c EXCEPT !.streams[sid] = x]
    BY DEF Conn
  <2> HIDE DEF x
  <2>4. Keeps(c, d) /\ d \in Conn
    BY <1>2, <2>2, <2>3, StreamKeeps, KeepsType
  <2>5. Answer(c, sid, r) = WriteHead(d, sid, r.head, b)
    BY <1>2 DEF Answer, b
  <2> HIDE DEF d
  <2>6. sid \in Sids
    BY <1>2, ConnType
  <2> QED BY <2>4, <2>5, <2>6, HeadKeeps, KeepsBoth
<1> QED BY <1>1, <1>2

\* A body changes; the window of its stream does not.
LEMMA BodyKeeps ==
    ASSUME NEW c \in Conn, NEW sid \in DOMAIN c.streams, NEW b \in Bodies
    PROVE  Keeps(c, [c EXCEPT !.streams[sid].body = b])
<1> DEFINE x == [c.streams[sid] EXCEPT !.body = b]
<1>1. x \in Stream /\ x.window = c.streams[sid].window
  BY ConnType DEF Stream
<1>2. [c EXCEPT !.streams[sid].body = b] = [c EXCEPT !.streams[sid] = x]
  BY DEF Conn
<1> HIDE DEF x
<1> QED BY <1>1, <1>2, StreamKeeps

\* A DATA frame is no longer than the windows, and so than the credit.
LEMMA DataServes ==
    ASSUME NEW c \in Conn, NEW sid \in DOMAIN c.streams, c.streams[sid].body # None,
           c.streams[sid].body.left > 0, Allowed(c, sid) > 0
    PROVE  Serves(c, SendData(c, sid))
<1> DEFINE body == c.streams[sid].body
           n == Least({body.left, Allowed(c, sid)})
           end == body.kind # "stream" /\ n = body.left
           rest == [body EXCEPT !.left = body.left - n, !.readable = body.readable - n]
           x == [c.streams[sid] EXCEPT !.window = c.streams[sid].window - n, !.body = rest]
           d == [c EXCEPT !.window = c.window - n, !.streams[sid] = x]
           z == Reads(c.seen, Frame("DATA", sid, n, end, FALSE))
           e == [d EXCEPT !.seen = z]
<1>1. /\ sid \in Sids /\ c.streams[sid] \in Stream /\ c.streams[sid].window \in Int /\ c.window \in Int
      /\ c.seen \in Seen /\ c.streams \in Tables
  BY ConnType
<1>2. body \in Bodies
  BY <1>1 DEF Stream
<1>3. n \in Int /\ n > 0 /\ n <= body.left /\ n <= c.window /\ n <= c.streams[sid].window
  <2>1. body.left \in Int /\ MAX_FRAME \in Int
    BY <1>2, H2Assumption DEF Bodies
  <2>2. Allowed(c, sid) \in Int /\ Allowed(c, sid) <= c.window
        /\ Allowed(c, sid) <= c.streams[sid].window
    BY <1>1, <2>1, LeastThree DEF Allowed
  <2>3. n \in {body.left, Allowed(c, sid)} /\ n <= body.left /\ n <= Allowed(c, sid)
    BY <2>1, <2>2, LeastTwo
  <2> HIDE DEF n
  <2> QED BY <1>1, <2>1, <2>2, <2>3
<1>4. SendData(c, sid) \in {Remove(WriteReset(c, sid), sid), Remove(e, sid), e}
  BY DEF SendData, Write
<1>5. end \in BOOLEAN
  OBVIOUS
<1> HIDE DEF n, end
<1>6. rest \in Bodies
  <2>1. body.left - n \in Nat /\ body.readable - n \in Int
    BY <1>2, <1>3 DEF Bodies
  <2> QED BY <1>2, <2>1 DEF Bodies
<1> HIDE DEF rest, body
<1>7. x \in Stream /\ x.window = c.streams[sid].window - n
  <2> DEFINE v == c.streams[sid].window - n
  <2>1. v \in Int
    BY <1>1, <1>3
  <2> HIDE DEF v
  <2>2. [c.streams[sid] EXCEPT !.window = v, !.body = rest] \in Stream
        /\ [c.streams[sid] EXCEPT !.window = v, !.body = rest].window = v
    BY <1>1, <1>6, <2>1 DEF Stream
  <2> QED BY <2>2 DEF v
<1> HIDE DEF x
<1>8. z \in Seen /\ z.credit = c.seen.credit - n
      /\ z.stream = [c.seen.stream EXCEPT ![sid] = c.seen.stream[sid] - n]
  <2>1. FALSE \in BOOLEAN /\ "DATA" # "WINDOW_UPDATE"
    OBVIOUS
  <2>2. Debits(c.seen, z, sid, n)
    BY <1>1, <1>3, <1>5, <2>1, ReadsType
  <2> HIDE DEF z
  <2> QED BY <2>2 DEF Debits
<1> HIDE DEF z
<1> DEFINE t == [c.streams EXCEPT ![sid] = x]
           w == c.window - n
<1>9. t \in Tables /\ DOMAIN t = DOMAIN c.streams /\ t[sid] = x
      /\ \A s \in DOMAIN c.streams \ {sid} : t[s] = c.streams[s]
  BY <1>1, <1>7, ChangedTable
<1>10. e \in Conn /\ e.streams = t /\ e.window = w /\ e.initial = c.initial /\ e.last = c.last
       /\ e.closed = c.closed /\ e.seen = z
  <2>1. d = [c EXCEPT !.window = w, !.streams = t]
    BY DEF Conn
  <2>2. w \in Int
    BY <1>1, <1>3
  <2> HIDE DEF d, t, w
  <2> QED BY <1>8, <1>9, <2>1, <2>2 DEF Conn
<1> HIDE DEF e, d, t, w
<1>11. c.seen.credit \in Int /\ (\A s \in Sids : c.seen.stream[s] \in Int) /\ c.initial \in Int
       /\ c.seen.stream \in [Sids -> Int]
       /\ DOMAIN c.streams \subseteq Sids /\ \A s \in DOMAIN c.streams : c.streams[s].window \in Int
  BY ConnType
<1>12. z.stream[sid] = c.seen.stream[sid] - n /\ \A s \in Sids \ {sid} : z.stream[s] = c.seen.stream[s]
  BY <1>1, <1>8, <1>11
<1>13. ASSUME Fits(c) PROVE Fits(e) /\ Spends(c, e)
  <2>1. c.seen.credit >= c.window /\ c.seen.stream[sid] >= c.streams[sid].window /\ sid <= c.last
    BY <1>13 DEF Fits
  <2>2. z.credit >= w /\ z.credit >= 0 /\ z.stream[sid] >= x.window /\ z.stream[sid] >= 0
    BY <1>1, <1>3, <1>7, <1>8, <1>11, <1>12, <2>1 DEF w
  <2>3. ASSUME NEW s \in DOMAIN e.streams
        PROVE  s <= e.last /\ e.seen.stream[s] >= e.streams[s].window
    <3>1. CASE s = sid
      BY <1>9, <1>10, <2>1, <2>2, <3>1
    <3>2. CASE s # sid
      BY <1>9, <1>10, <1>11, <1>12, <1>13, <2>3, <3>2 DEF Fits
    <3> QED BY <3>1, <3>2
  <2>4. ASSUME NEW s \in Sids, s > e.last PROVE e.seen.stream[s] >= e.initial
    <3>1. s # sid
      <4>1. \A i \in Sids : i \in Int
        BY H2Assumption
      <4>2. c.last \in Int
        BY ConnType
      <4> QED BY <1>1, <1>10, <2>1, <2>4, <4>1, <4>2
    <3> QED BY <1>10, <1>12, <1>13, <2>4, <3>1 DEF Fits
  <2>5. Fits(e)
    BY <1>10, <2>2, <2>3, <2>4 DEF Fits
  <2>6. Spends(c, e)
    BY <1>10, <1>11, <1>12, <2>2 DEF Spends
  <2> QED BY <2>5, <2>6
<1>14. Serves(c, e)
  BY <1>10, <1>13 DEF Serves
<1>15. Serves(c, Remove(e, sid))
  <2>1. Keeps(e, Remove(e, sid))
    BY <1>10, RemoveKeeps
  <2>2. Fits(e) => Fits(Remove(e, sid))
    BY <2>1, KeepsFits
  <2> QED BY <1>14, <2>1, <2>2 DEF Serves, Keeps, Spends
<1>16. Serves(c, Remove(WriteReset(c, sid), sid))
  BY <1>1, ResetRemoveKeeps, KeepsServes
<1> QED BY <1>4, <1>14, <1>15, <1>16

LEMMA TurnServes ==
    ASSUME NEW c \in Conn, NEW sid, Turns(c, sid) PROVE Serves(c, PumpTurn(c, sid))
<1> DEFINE body == c.streams[sid].body
           d == Write(c, Frame("DATA", sid, 0, TRUE, FALSE))
<1>1. sid \in DOMAIN c.streams /\ sid \in Sids /\ body # None
      /\ (Avail(body) \in {"end", "failed"} \/ (Avail(body) = "data" /\ Allowed(c, sid) > 0))
  BY ConnType DEF Turns
<1>2. Keeps(c, Remove(d, sid)) /\ Keeps(c, Remove(c, sid)) /\ Keeps(c, Remove(WriteReset(c, sid), sid))
  <2>1. TRUE \in BOOLEAN /\ FALSE \in BOOLEAN /\ 0 \in Int
    OBVIOUS
  <2>2. Keeps(c, d)
    BY <1>1, <2>1, WriteKeeps
  <2>3. d \in Conn
    BY <2>2, KeepsType
  <2> HIDE DEF d
  <2> QED BY <1>1, <2>2, <2>3, RemoveKeeps, KeepsBoth, ResetRemoveKeeps
<1>3. CASE Avail(body) \in {"end", "failed"}
  <2>1. PumpTurn(c, sid) \in {Remove(d, sid), Remove(c, sid), Remove(WriteReset(c, sid), sid)}
    BY <1>3 DEF PumpTurn
  <2> HIDE DEF d
  <2> QED BY <1>2, <2>1, KeepsServes
<1>4. CASE Avail(body) = "data" /\ Allowed(c, sid) > 0
  <2>1. PumpTurn(c, sid) = SendData(c, sid)
    BY <1>4 DEF PumpTurn
  <2>2. body \in Bodies
    BY <1>1, ConnType DEF Stream
  <2>3. body.left > 0
    BY <1>4, <2>2 DEF Avail, Bodies
  <2> QED BY <1>1, <1>4, <2>1, <2>3, DataServes
<1> QED BY <1>1, <1>3, <1>4

-----------------------------------------------------------------------------
(* The steps.                                                                *)

LEMMA AnswersServe == ASSUME conn \in Conn, Serve PROVE Serves(conn, conn')
<1> DEFINE q == Tail(conn.ready)
           d == [conn EXCEPT !.ready = q]
<1>1. PICK r \in Responses : conn' = Answer(d, Head(conn.ready), r)
  BY DEF Serve
<1>2. q \in Seq(Sids)
  BY Numbers DEF Serve
<1> HIDE DEF q
<1>3. Keeps(conn, d)
  BY <1>2, FieldsKeep
<1>4. d \in Conn
  BY <1>3, KeepsType
<1> HIDE DEF d
<1>5. Keeps(d, conn')
  BY <1>1, <1>4, AnswerKeeps
<1> QED BY <1>3, <1>5, KeepsBoth, KeepsServes

LEMMA ProducersServe ==
    ASSUME conn \in Conn, NEW s \in Sids, Produce(s) \/ EndBody(s) PROVE Serves(conn, conn')
<1> DEFINE body == conn.streams[s].body
           With(b) == [conn EXCEPT !.streams[s].body = b]
<1>1. s \in DOMAIN conn.streams /\ body # None
  BY DEF Produce, EndBody, Produces
<1>2. body \in Bodies
  BY <1>1, ConnType DEF Stream
<1>3. ASSUME NEW b \in Bodies PROVE Serves(conn, With(b))
  BY <1>1, BodyKeeps, KeepsServes
<1>4. CASE Produce(s)
  <2> DEFINE b == [body EXCEPT !.left = body.left + 1]
  <2>1. conn' = With(b)
    BY <1>4 DEF Produce, Conn
  <2>2. b \in Bodies
    BY <1>2 DEF Bodies
  <2> HIDE DEF b, With
  <2> QED BY <1>3, <2>1, <2>2
<1>5. CASE EndBody(s)
  <2>1. PICK how \in {"finished", "aborted"} : conn' = [conn EXCEPT !.streams[s].body.over = how]
    BY <1>5 DEF EndBody
  <2> DEFINE b == [body EXCEPT !.over = how]
  <2>2. conn' = With(b)
    BY <2>1 DEF Conn
  <2>3. b \in Bodies
    BY <1>2 DEF Bodies
  <2> HIDE DEF b, With
  <2> QED BY <1>3, <2>2, <2>3
<1> QED BY <1>4, <1>5

\* Every step but the arrival of a frame is the server's.
LEMMA StepServes ==
    ASSUME conn \in Conn, [Next]_vars
    PROVE  Serves(conn, conn') \/ \E f \in ClientFrames : Receive(f)
<1>1. Serves(conn, conn) /\ Serves(conn, ConnError(conn))
  BY KeepsAll, FieldsKeep, KeepsServes
<1>2. CASE Preface
  BY <1>1, <1>2 DEF Preface
<1>3. CASE EndPass \/ ToSend \/ Sent \/ Wake \/ UNCHANGED vars
  BY <1>1, <1>3 DEF EndPass, ToSend, Sent, Wake, vars
<1>4. CASE PumpOut
  <2>1. conn' = conn \/ \E sid \in Sids : Turns(conn, sid) /\ conn' = PumpTurn(conn, sid)
    BY <1>4 DEF PumpOut, ToPump
  <2> QED BY <1>1, <2>1, TurnServes
<1>5. CASE Serve
  BY <1>5, AnswersServe
<1>6. CASE \E s \in Sids : Produce(s) \/ EndBody(s)
  BY <1>6, ProducersServe
<1> QED BY <1>2, <1>3, <1>4, <1>5, <1>6 DEF Next

LEMMA InitIInv == Init => IInv
<1> SUFFICES ASSUME Init PROVE IInv
  OBVIOUS
<1> DEFINE t == [s \in {} |-> None]
           z == [state |-> [s \in Sids |-> "idle"], credit |-> DEFAULT_WINDOW,
                 stream |-> [s \in Sids |-> DEFAULT_WINDOW], block |-> 0, owed |-> 0]
<1>1. t \in Tables /\ DOMAIN t = {}
  <2>1. t \in [{} -> Stream] /\ {} \in SUBSET Sids
    OBVIOUS
  <2> QED BY <2>1 DEF Tables
<1>2. z \in Seen /\ z.credit = DEFAULT_WINDOW /\ \A s \in Sids : z.stream[s] = DEFAULT_WINDOW
  BY H2Assumption DEF Seen, States
<1>3. conn = [streams |-> t, pending |-> {}, ready |-> <<>>,
              window |-> DEFAULT_WINDOW, initial |-> DEFAULT_WINDOW,
              continuation |-> 0, conts |-> 0, acks |-> 0, resets |-> 0, churned |-> 0,
              completed |-> 0, last |-> 0, closed |-> FALSE, seen |-> z]
  BY DEF Init, NewConn
<1> HIDE DEF t, z
<1>4. DEFAULT_WINDOW \in Int /\ <<>> \in Seq(Sids)
  BY H2Assumption
<1>5. conn \in Conn /\ conn.streams = t /\ conn.window = DEFAULT_WINDOW
      /\ conn.initial = DEFAULT_WINDOW /\ conn.seen = z
  BY <1>1, <1>2, <1>3, <1>4 DEF Conn
<1>6. Fits(conn)
  BY <1>1, <1>2, <1>4, <1>5 DEF Fits
<1> QED BY <1>5, <1>6 DEF IInv, Sound

LEMMA NextIInv == IInv /\ [Next]_vars => IInv'
<1> SUFFICES ASSUME IInv, [Next]_vars PROVE IInv'
  OBVIOUS
<1>1. conn \in Conn /\ (~conn.closed => Fits(conn))
  BY DEF IInv, Sound
<1>2. CASE Serves(conn, conn')
  BY <1>1, <1>2 DEF Serves, IInv, Sound
<1>3. CASE \E f \in ClientFrames : Receive(f)
  BY <1>1, <1>3, ReceiveSound DEF IInv
<1> QED BY <1>1, <1>2, <1>3, StepServes

\* Each account of the client has at least what the server's window for it says
\* (src/h2/conn.rs, conn_window and the streams' windows), until the connection closes.
THEOREM AccountsFit == Spec => []IInv
BY InitIInv, NextIInv, PTL DEF Spec

\* pump_out never sends more DATA than the client gave credit for, on the connection
\* or on a stream, whatever SETTINGS and WINDOW_UPDATE came between.
THEOREM WindowsHold == Spec => WindowsRespected
<1> DEFINE Step == (at' # "parse" /\ ~conn.closed) =>
                      /\ conn.seen.credit' < conn.seen.credit => conn.seen.credit' >= 0
                      /\ \A s \in Sids : conn.seen.stream[s]' < conn.seen.stream[s]
                                           => conn.seen.stream[s]' >= 0
<1>1. IInv /\ [Next]_vars => [Step]_vars
  <2> SUFFICES ASSUME IInv, [Next]_vars, at' # "parse", ~conn.closed PROVE Step
    OBVIOUS
  <2>1. conn \in Conn /\ Fits(conn)
    BY DEF IInv, Sound
  <2>2. ~ \E f \in ClientFrames : Receive(f)
    BY DEF Receive
  <2>3. Spends(conn, conn')
    BY <2>1, <2>2, StepServes DEF Serves
  <2> QED BY <2>3 DEF Spends
<1> QED BY <1>1, AccountsFit, PTL DEF Spec, WindowsRespected

-----------------------------------------------------------------------------
(***************************************************************************)
(* The tables and what the client reads: each request is handed over once, *)
(* and each stream is one well-framed response. Both need the same         *)
(* invariant, Tidy, because a stream may be reset or answered only in the  *)
(* state the tables say the client sees it in.                             *)
(***************************************************************************)
\* Nothing is left of a body that does not wait for a producer.
Spent(body) == body.left = 0 /\ body.kind # "stream"

\* The head of a response without a body fits one frame: emit_headers puts
\* END_STREAM on a first frame that is the last one too.
ShortHeads == \A r \in Responses : HasBody(OutBody(r)) \/ r.head = 1

\* The state z in which the client sees a stream follows from its entry x.
Told(x, z) ==
    /\ x.delivered => x.ended /\ ~x.refused
    /\ x.body = None => z = "idle"
    /\ x.body # None => /\ x.delivered
                        /\ z = "open" \/ (z = "ended" /\ Spent(x.body))
                        /\ ShortHeads /\ Spent(x.body) => z = "ended"

\* What is ready was received whole, is ready once, and its stream is not opened again.
Queued(c) ==
    /\ \A i \in DOMAIN c.ready : c.ready[i] <= c.last
    /\ \A i, j \in DOMAIN c.ready : c.ready[i] = c.ready[j] => i = j
    /\ \A i \in DOMAIN c.ready : c.ready[i] \in DOMAIN c.streams =>
          c.streams[c.ready[i]].delivered /\ c.streams[c.ready[i]].body = None

Accepted(c) == {s \in DOMAIN c.streams : ~c.streams[s].refused}

\* Only streams within the cap are accepted.
Room(c) == IsFiniteSet(DOMAIN c.streams) /\ Cardinality(Accepted(c)) <= MAX_CONCURRENT_STREAMS

Waiting(c) == c.pending \subseteq Accepted(c)

\* The client is between frames of no header block, and nothing it read broke the framing.
Framed(c) ==
    /\ c.seen.block = 0
    /\ \A s \in Sids : c.seen.state[s] # "broken" /\ (s > c.last => c.seen.state[s] = "idle")
    /\ \A s \in DOMAIN c.streams : s <= c.last /\ Told(c.streams[s], c.seen.state[s])
    /\ ShortHeads => \A s \in Sids \ DOMAIN c.streams : c.seen.state[s] # "open"

Tidy(c) == Queued(c) /\ Room(c) /\ Waiting(c) /\ Framed(c)

\* Only the streams of A are in the middle of a header block.
Assembling(c, A) ==
    \A s \in DOMAIN c.streams : c.streams[s].assembling => s \in A /\ ~c.streams[s].delivered

NoneSpent(c) == \A s \in DOMAIN c.streams : c.streams[s].body # None => ~Spent(c.streams[s].body)

\* What pump_out has passed is sent as far as it goes, or a producer came since.
Passed(s) == Turns(conn, s) => woken

Pumped ==
    /\ then \in {"serve", "sent"} /\ visit \in Nat
    /\ at # "pump" => NoneSpent(conn)
    /\ at = "pump" => \A s \in DOMAIN conn.streams : s < visit =>
          /\ Passed(s)
          /\ conn.streams[s].body # None => ~Spent(conn.streams[s].body)
    /\ at \in {"preface", "serve", "sent", "wait"} => \A s \in DOMAIN conn.streams : Passed(s)

JInv ==
    /\ IInv /\ Tidy(conn) /\ Pumped
    /\ ~conn.closed => Assembling(conn, {conn.continuation})

-----------------------------------------------------------------------------
(***************************************************************************)
(* The relations between a connection and the next that the handlers stay  *)
(* in, and what each of them preserves of Tidy.                            *)
(***************************************************************************)
\* No table and nothing the client sees of the streams changes, except that a stream
\* may have ended.
Agree(c, d) ==
    /\ d \in Conn
    /\ d.pending = c.pending /\ d.ready = c.ready /\ d.last = c.last
    /\ d.continuation = c.continuation
    /\ d.seen.state = c.seen.state /\ d.seen.block = c.seen.block
    /\ DOMAIN d.streams = DOMAIN c.streams
    /\ \A s \in DOMAIN c.streams :
          /\ d.streams[s].delivered = c.streams[s].delivered
          /\ d.streams[s].refused = c.streams[s].refused
          /\ d.streams[s].body = c.streams[s].body
          /\ c.streams[s].ended => d.streams[s].ended

\* No header block begins, either.
Alike(c, d) ==
    /\ Agree(c, d)
    /\ \A s \in DOMAIN c.streams : d.streams[s].assembling => c.streams[s].assembling

\* Stream sid is gone, and z is the last the client sees of it.
Dropped(c, d, sid, z) ==
    /\ d \in Conn
    /\ d.pending = c.pending \ {sid} /\ d.ready = c.ready /\ d.last = c.last
    /\ d.continuation = c.continuation
    /\ d.seen.state = [c.seen.state EXCEPT ![sid] = z] /\ d.seen.block = c.seen.block
    /\ DOMAIN d.streams = DOMAIN c.streams \ {sid}
    /\ \A s \in DOMAIN d.streams : d.streams[s] = c.streams[s]

\* What holds while the frames of the client are handled.
Fine(c, A) == Tidy(c) /\ NoneSpent(c) /\ Assembling(c, A)

LEMMA AlikeBoth == ASSUME NEW c, NEW d, NEW e, Alike(c, d), Alike(d, e) PROVE Alike(c, e)
BY DEF Alike, Agree

LEMMA AlikeType == ASSUME NEW c, NEW d, Alike(c, d) PROVE d \in Conn
BY DEF Alike, Agree

LEMMA AlikeTold ==
    ASSUME NEW x, NEW y, NEW z, Told(x, z), y.delivered = x.delivered, y.refused = x.refused,
           y.body = x.body, x.ended => y.ended
    PROVE  Told(y, z)
BY DEF Told

LEMMA AgreeTidy ==
    ASSUME NEW c, NEW d, Agree(c, d), Tidy(c)
    PROVE  Tidy(d) /\ (NoneSpent(c) => NoneSpent(d))
<1>1. Queued(d)
  BY DEF Agree, Tidy, Queued
<1>2. Accepted(d) = Accepted(c)
  BY DEF Agree, Accepted
<1>3. Room(d) /\ Waiting(d)
  BY <1>2 DEF Agree, Tidy, Room, Waiting
<1>4. Framed(d)
  <2>1. \A s \in DOMAIN d.streams : s <= d.last /\ Told(d.streams[s], d.seen.state[s])
    BY AlikeTold DEF Agree, Tidy, Framed
  <2> QED BY <2>1 DEF Agree, Tidy, Framed
<1>5. NoneSpent(c) => NoneSpent(d)
  BY DEF Agree, NoneSpent
<1> QED BY <1>1, <1>3, <1>4, <1>5 DEF Tidy

LEMMA AlikeAssembling ==
    ASSUME NEW c, NEW d, Alike(c, d), NEW A, Assembling(c, A) PROVE Assembling(d, A)
BY DEF Alike, Agree, Assembling

LEMMA AlikeFine == ASSUME NEW c, NEW d, Alike(c, d), NEW A, Fine(c, A) PROVE Fine(d, A)
BY AgreeTidy, AlikeAssembling DEF Alike, Fine

LEMMA DroppedTidy ==
    ASSUME NEW c \in Conn, NEW sid \in DOMAIN c.streams, NEW z, NEW d, Dropped(c, d, sid, z), Tidy(c),
           \/ z \in {"reset", "ended"}
           \/ z = c.seen.state[sid] /\ (ShortHeads => z # "open")
    PROVE  Tidy(d)
<1>1. sid \in Sids /\ c.seen.state \in [Sids -> States] /\ DOMAIN c.streams \subseteq Sids
  BY ConnType DEF Seen
<1>2. Queued(d)
  BY DEF Dropped, Tidy, Queued
<1>3. Accepted(d) = Accepted(c) \ {sid}
  BY DEF Dropped, Accepted
<1>4. Room(d) /\ Waiting(d)
  <2>1. IsFiniteSet(DOMAIN c.streams) /\ Accepted(c) \subseteq DOMAIN c.streams
        /\ Cardinality(Accepted(c)) <= MAX_CONCURRENT_STREAMS
    BY DEF Tidy, Room, Accepted
  <2>2. IsFiniteSet(Accepted(c)) /\ IsFiniteSet(DOMAIN d.streams)
    BY <2>1, FS_Subset DEF Dropped
  <2>3. Cardinality(Accepted(d)) <= Cardinality(Accepted(c)) /\ Cardinality(Accepted(c)) \in Nat
        /\ Cardinality(Accepted(d)) \in Nat
    BY <1>3, <2>2, FS_Subset, FS_CardinalityType
  <2>4. Room(d)
    BY <2>1, <2>2, <2>3, H2Assumption DEF Room
  <2> QED BY <1>3, <2>4 DEF Dropped, Tidy, Waiting
<1>5. Framed(d)
  <2>1. \A s \in Sids : d.seen.state[s] = IF s = sid THEN z ELSE c.seen.state[s]
    BY <1>1 DEF Dropped
  <2>2. d.last = c.last /\ sid <= c.last /\ sid \in Int /\ c.last \in Int
    BY <1>1, ConnType, H2Assumption DEF Dropped, Tidy, Framed
  <2>3. z # "broken" /\ (ShortHeads => z # "open")
    BY <1>1 DEF Tidy, Framed
  <2>4. ASSUME NEW s \in Sids
        PROVE  d.seen.state[s] # "broken" /\ (s > d.last => d.seen.state[s] = "idle")
    <3>1. CASE s = sid
      BY <2>1, <2>2, <2>3, <3>1
    <3>2. CASE s # sid
      BY <2>1, <2>2, <3>2 DEF Tidy, Framed
    <3> QED BY <3>1, <3>2
  <2>5. \A s \in DOMAIN d.streams : s <= d.last /\ Told(d.streams[s], d.seen.state[s])
    BY <1>1, <2>1 DEF Dropped, Tidy, Framed
  <2>6. ShortHeads => \A s \in Sids \ DOMAIN d.streams : d.seen.state[s] # "open"
    BY <2>1, <2>3 DEF Dropped, Tidy, Framed
  <2>7. d.seen.block = 0
    BY DEF Dropped, Tidy, Framed
  <2> QED BY <2>4, <2>5, <2>6, <2>7 DEF Framed
<1> QED BY <1>2, <1>4, <1>5 DEF Tidy

LEMMA DroppedAssembling ==
    ASSUME NEW c, NEW d, NEW sid, NEW z, Dropped(c, d, sid, z), NEW A, Assembling(c, A)
    PROVE  Assembling(d, A)
BY DEF Dropped, Assembling

LEMMA DroppedFine ==
    ASSUME NEW c \in Conn, NEW sid \in DOMAIN c.streams, NEW z \in {"reset", "ended"}, NEW d,
           Dropped(c, d, sid, z), NEW A, Fine(c, A)
    PROVE  Fine(d, A)
<1>1. Tidy(d)
  BY DroppedTidy DEF Fine
<1>2. NoneSpent(d)
  BY DEF Dropped, Fine, NoneSpent
<1> QED BY <1>1, <1>2, DroppedAssembling DEF Fine

-----------------------------------------------------------------------------
LEMMA FieldsAlike ==
    ASSUME NEW c \in Conn
    PROVE  /\ Alike(c, c) /\ Alike(c, ConnError(c)) /\ Alike(c, [c EXCEPT !.closed = TRUE])
           /\ \A n \in Int : /\ Alike(c, [c EXCEPT !.acks = n])
                             /\ Alike(c, [c EXCEPT !.conts = n])
                             /\ Alike(c, [c EXCEPT !.resets = n])
                             /\ Alike(c, [c EXCEPT !.churned = n])
                             /\ Alike(c, [c EXCEPT !.completed = n])
                             /\ Alike(c, [c EXCEPT !.window = n])
<1>1. Alike(c, c) /\ Alike(c, ConnError(c)) /\ Alike(c, [c EXCEPT !.closed = TRUE])
  BY DEF Alike, Agree, ConnError, Conn
<1>2. ASSUME NEW n \in Int PROVE Alike(c, [c EXCEPT !.acks = n])
  BY DEF Alike, Agree, Conn
<1>3. ASSUME NEW n \in Int PROVE Alike(c, [c EXCEPT !.conts = n])
  BY DEF Alike, Agree, Conn
<1>4. ASSUME NEW n \in Int PROVE Alike(c, [c EXCEPT !.resets = n])
  BY DEF Alike, Agree, Conn
<1>5. ASSUME NEW n \in Int PROVE Alike(c, [c EXCEPT !.churned = n])
  BY DEF Alike, Agree, Conn
<1>6. ASSUME NEW n \in Int PROVE Alike(c, [c EXCEPT !.completed = n])
  BY DEF Alike, Agree, Conn
<1>7. ASSUME NEW n \in Int PROVE Alike(c, [c EXCEPT !.window = n])
  BY DEF Alike, Agree, Conn
<1> QED BY <1>1, <1>2, <1>3, <1>4, <1>5, <1>6, <1>7

LEMMA SeenAlike ==
    ASSUME NEW c \in Conn, NEW z \in Seen, z.state = c.seen.state, z.block = c.seen.block
    PROVE  Alike(c, [c EXCEPT !.seen = z])
BY DEF Alike, Agree, Conn

LEMMA TableAlike ==
    ASSUME NEW c \in Conn, NEW t \in Tables, DOMAIN t = DOMAIN c.streams,
           \A s \in DOMAIN t : /\ t[s].delivered = c.streams[s].delivered
                               /\ t[s].refused = c.streams[s].refused
                               /\ t[s].body = c.streams[s].body
                               /\ t[s].assembling => c.streams[s].assembling
                               /\ c.streams[s].ended => t[s].ended
    PROVE  Alike(c, [c EXCEPT !.streams = t])
BY DEF Alike, Agree, Conn

\* One stream changes.
LEMMA StreamAlike ==
    ASSUME NEW c \in Conn, NEW sid \in DOMAIN c.streams, NEW x \in Stream,
           x.delivered = c.streams[sid].delivered, x.refused = c.streams[sid].refused,
           x.body = c.streams[sid].body, x.assembling => c.streams[sid].assembling,
           c.streams[sid].ended => x.ended
    PROVE  Alike(c, [c EXCEPT !.streams[sid] = x])
<1> DEFINE t == [c.streams EXCEPT ![sid] = x]
<1>1. t \in Tables /\ DOMAIN t = DOMAIN c.streams /\ t[sid] = x
      /\ \A s \in DOMAIN c.streams \ {sid} : t[s] = c.streams[s]
  BY ConnType, ChangedTable
<1>2. [c EXCEPT !.streams[sid] = x] = [c EXCEPT !.streams = t]
  BY DEF Conn
<1> HIDE DEF t
<1> QED BY <1>1, <1>2, TableAlike

LEMMA CreditAlike ==
    ASSUME NEW c \in Conn, NEW sid, NEW n \in Int PROVE Alike(c, WriteCredit(c, sid, n))
<1>1. CASE n > 0
  <2> DEFINE k == IF sid = 0 THEN n ELSE 0
             y == [c.seen EXCEPT !.owed = c.seen.owed - k]
  <2>1. c.seen \in Seen
    BY ConnType
  <2>2. y \in Seen /\ y.state = c.seen.state /\ y.block = c.seen.block
    BY <2>1 DEF Seen
  <2>3. WriteCredit(c, sid, n) = [c EXCEPT !.seen = y]
    BY <1>1 DEF WriteCredit, Write, Reads, Frame
  <2> HIDE DEF y
  <2> QED BY <2>2, <2>3, SeenAlike
<1>2. CASE ~(n > 0)
  BY <1>2, FieldsAlike DEF WriteCredit
<1> QED BY <1>1, <1>2

LEMMA GivenAlike == ASSUME NEW c \in Conn, NEW f, IsFrame(f) PROVE Alike(c, Given(c, f))
<1> DEFINE y == Gives(c.seen, f, c.initial)
<1>1. c.seen \in Seen /\ c.initial \in Int
  BY ConnType
<1>2. y \in Seen
  BY <1>1, GivesType
<1>3. y.state = c.seen.state /\ y.block = c.seen.block
  BY <1>1 DEF Gives, Seen
<1> HIDE DEF y
<1>4. Alike(c, [c EXCEPT !.seen = y])
  BY <1>2, <1>3, SeenAlike
<1> QED BY <1>4 DEF Given, y

LEMMA AckAlike == ASSUME NEW c \in Conn PROVE Alike(c, NoteControlAck(c))
<1> DEFINE d == [c EXCEPT !.acks = c.acks + 1]
<1>1. c.acks + 1 \in Int
  BY Numbers
<1>2. Alike(c, d) /\ d \in Conn
  <2>1. Alike(c, d)
    BY <1>1, FieldsAlike
  <2> QED BY <2>1, AlikeType
<1>3. NoteControlAck(c) \in {d, ConnError(d)}
  BY DEF NoteControlAck
<1> HIDE DEF d
<1>4. Alike(c, ConnError(d))
  BY <1>2, FieldsAlike, AlikeBoth
<1> QED BY <1>2, <1>3, <1>4

-----------------------------------------------------------------------------
\* The client has read something of stream sid; the tables are as they were.
Marked(c, d, sid, z) ==
    /\ d \in Conn
    /\ d.streams = c.streams /\ d.pending = c.pending /\ d.ready = c.ready /\ d.last = c.last
    /\ d.continuation = c.continuation
    /\ d.seen.state = [c.seen.state EXCEPT ![sid] = z] /\ d.seen.block = c.seen.block

\* The client has read a frame of stream sid, which may leave a header block unfinished.
Shows(z, y, sid, a, more) ==
    /\ y \in Seen /\ y.state = [z.state EXCEPT ![sid] = a]
    /\ (more => y.block = sid) /\ (~more => y.block = 0)

LEMMA ReadsState ==
    ASSUME NEW z \in Seen, NEW type, type # "WINDOW_UPDATE", NEW sid \in Sids,
           NEW n \in Int, NEW end \in BOOLEAN, NEW last \in BOOLEAN
    PROVE  Shows(z, Reads(z, Frame(type, sid, n, end, last)), sid,
                 After(z, Frame(type, sid, n, end, last)),
                 type \in {"HEADERS", "CONTINUATION"} /\ ~last)
<1> DEFINE f == Frame(type, sid, n, end, last)
           a == After(z, f)
           b == IF type \in {"HEADERS", "CONTINUATION"} /\ ~last THEN sid ELSE 0
           k == IF type = "DATA" THEN n ELSE 0
           y == Reads(z, f)
<1>1. f.type = type /\ f.sid = sid /\ f.n = n /\ f.last = last
  BY DEF Frame
<1>2. y \in Seen
  BY ReadsType DEF Debits
<1>3. y = [z EXCEPT !.state[sid] = a, !.block = b, !.credit = z.credit - k,
                    !.stream[sid] = z.stream[sid] - k]
  BY <1>1 DEF Reads, Seen
<1> HIDE DEF a, b, k, f
<1>4. y.state = [z.state EXCEPT ![sid] = a] /\ y.block = b
  BY <1>3 DEF Seen
<1>5. Shows(z, y, sid, a, type \in {"HEADERS", "CONTINUATION"} /\ ~last)
  BY <1>2, <1>4 DEF Shows, b
<1> QED BY <1>5 DEF a, f

LEMMA ResetMarks ==
    ASSUME NEW c \in Conn, NEW sid \in Sids, c.seen.block = 0, c.seen.state[sid] \in {"idle", "open"}
    PROVE  Marked(c, WriteReset(c, sid), sid, "reset")
<1> DEFINE f == Frame("RST_STREAM", sid, 0, FALSE, FALSE)
           y == Reads(c.seen, f)
<1>1. FALSE \in BOOLEAN /\ 0 \in Int /\ "RST_STREAM" # "WINDOW_UPDATE" /\ c.seen \in Seen
  BY ConnType
<1>2. After(c.seen, f) = "reset"
  BY DEF After, Frame
<1>3. y \in Seen /\ y.state = [c.seen.state EXCEPT ![sid] = "reset"] /\ y.block = 0
  <2>1. Shows(c.seen, y, sid, After(c.seen, f),
              "RST_STREAM" \in {"HEADERS", "CONTINUATION"} /\ ~FALSE)
    BY <1>1, ReadsState
  <2> QED BY <1>2, <2>1 DEF Shows
<1>4. WriteReset(c, sid) = [c EXCEPT !.seen = y]
  BY DEF WriteReset, Write
<1> HIDE DEF y
<1> QED BY <1>3, <1>4 DEF Marked, Conn

LEMMA ChurnMarks ==
    ASSUME NEW c, NEW d, NEW sid, NEW z, Marked(c, d, sid, z)
    PROVE  Marked(c, Churn(d, sid), sid, z)
<1>1. d \in Conn /\ d.churned + 1 \in Int
  BY Numbers DEF Marked
<1> QED BY <1>1 DEF Marked, Churn, Conn

LEMMA MarkedDropped ==
    ASSUME NEW c, NEW d, NEW sid, NEW z, Marked(c, d, sid, z)
    PROVE  Dropped(c, Remove(d, sid), sid, z)
<1> DEFINE t == Without(d.streams, sid)
           p == d.pending \ {sid}
<1>1. d \in Conn
  BY DEF Marked
<1>2. t \in Tables /\ DOMAIN t = DOMAIN d.streams \ {sid}
      /\ \A s \in DOMAIN t : t[s] = d.streams[s]
  BY <1>1, ConnType, SmallerTable
<1>3. p \in SUBSET Sids
  BY <1>1, Numbers
<1>4. Remove(d, sid) = [d EXCEPT !.streams = t, !.pending = p]
  BY DEF Remove
<1>5. p = c.pending \ {sid}
  BY DEF Marked
<1> HIDE DEF t, p
<1> QED BY <1>1, <1>2, <1>3, <1>4, <1>5 DEF Marked, Dropped, Conn

\* A stream may be reset: the client sees it idle, or open.
LEMMA MayReset ==
    ASSUME NEW c \in Conn, NEW sid \in DOMAIN c.streams, Tidy(c), NoneSpent(c)
    PROVE  sid \in Sids /\ c.seen.block = 0 /\ c.seen.state[sid] \in {"idle", "open"}
<1>1. Told(c.streams[sid], c.seen.state[sid]) /\ c.seen.block = 0
  BY DEF Tidy, Framed
<1> QED BY <1>1, ConnType DEF Told, NoneSpent

LEMMA ResetDrops ==
    ASSUME NEW c \in Conn, NEW sid \in DOMAIN c.streams, Tidy(c), NoneSpent(c)
    PROVE  /\ Dropped(c, Remove(WriteReset(c, sid), sid), sid, "reset")
           /\ Dropped(c, Remove(Churn(WriteReset(c, sid), sid), sid), sid, "reset")
BY MayReset, ResetMarks, ChurnMarks, MarkedDropped

LEMMA ResetFine ==
    ASSUME NEW c \in Conn, NEW sid \in DOMAIN c.streams, NEW A, Fine(c, A)
    PROVE  /\ Fine(Remove(WriteReset(c, sid), sid), A)
           /\ Fine(Remove(Churn(WriteReset(c, sid), sid), sid), A)
BY ResetDrops, DroppedFine DEF Fine

-----------------------------------------------------------------------------
(***************************************************************************)
(* The client's frames that open no stream, and the end of a request.      *)
(***************************************************************************)
LEMMA SettingsFine ==
    ASSUME NEW c \in Conn, NEW f, f.n \in Int, NEW A, Fine(c, A)
    PROVE  Fine(OnSettings(c, f), A)
<1> DEFINE delta == f.n - c.initial
           t == [s \in DOMAIN c.streams |-> [c.streams[s] EXCEPT !.window = @ + delta]]
           d1 == [c EXCEPT !.streams = t]
           d == [d1 EXCEPT !.initial = f.n]
<1>1. c.initial \in Int /\ c.streams \in Tables
      /\ \A s \in DOMAIN c.streams : c.streams[s] \in Stream /\ c.streams[s].window \in Int
  BY ConnType
<1>2. OnSettings(c, f) \in {ConnError(c), ConnError(d), NoteControlAck(d)}
  <2>1. [c EXCEPT !.initial = f.n, !.streams = t] = d
    <3> HIDE DEF t
    <3> QED BY DEF Conn
  <2> HIDE DEF d
  <2> QED BY <2>1 DEF OnSettings
<1>3. \A s \in DOMAIN c.streams : LET x == [c.streams[s] EXCEPT !.window = @ + delta]
        IN  /\ x \in Stream /\ x.delivered = c.streams[s].delivered
            /\ x.refused = c.streams[s].refused /\ x.body = c.streams[s].body
            /\ x.assembling = c.streams[s].assembling /\ x.ended = c.streams[s].ended
  BY <1>1 DEF Stream
<1>4. t \in Tables /\ DOMAIN t = DOMAIN c.streams
  <2>1. PICK S \in SUBSET Sids : c.streams \in [S -> Stream]
    BY <1>1 DEF Tables
  <2>2. t \in [S -> Stream]
    BY <1>3, <2>1
  <2> QED BY <2>1, <2>2 DEF Tables
<1>5. \A s \in DOMAIN t : /\ t[s].delivered = c.streams[s].delivered
                          /\ t[s].refused = c.streams[s].refused
                          /\ t[s].body = c.streams[s].body
                          /\ t[s].assembling = c.streams[s].assembling
                          /\ t[s].ended = c.streams[s].ended
  BY <1>3
<1> HIDE DEF t
<1>6. Alike(c, d1)
  BY <1>4, <1>5, TableAlike
<1>7. d1 \in Conn
  BY <1>6, AlikeType
<1> HIDE DEF d1
<1>8. Alike(d1, d)
  BY <1>7 DEF Alike, Agree, Conn
<1>9. d \in Conn
  BY <1>8, AlikeType
<1> HIDE DEF d
<1>10. Alike(d, ConnError(d)) /\ Alike(d, NoteControlAck(d)) /\ Alike(c, ConnError(c))
  BY <1>9, FieldsAlike, AckAlike
<1>11. Fine(ConnError(c), A) /\ Fine(d, A)
  BY <1>6, <1>8, <1>10, AlikeFine
<1> QED BY <1>2, <1>10, <1>11, AlikeFine

LEMMA WindowUpdateFine ==
    ASSUME NEW c \in Conn, NEW f, f.n \in Int, NEW A, Fine(c, A)
    PROVE  Fine(OnWindowUpdate(c, f), A)
<1> DEFINE sid == f.sid
           n == c.window + f.n
           w == [c EXCEPT !.window = n]
           k == c.streams[sid].window + f.n
           x == [c.streams[sid] EXCEPT !.window = k]
           m == [c EXCEPT !.streams[sid] = x]
<1>1. Alike(c, c) /\ Alike(c, ConnError(c))
  BY FieldsAlike
<1>2. Alike(c, w) /\ w \in Conn
  <2>1. n \in Int
    BY ConnType
  <2>2. Alike(c, w)
    BY <2>1, FieldsAlike
  <2> QED BY <2>2, AlikeType
<1>3. sid \in DOMAIN c.streams => Alike(c, m)
  <2> SUFFICES ASSUME sid \in DOMAIN c.streams PROVE Alike(c, m)
    OBVIOUS
  <2>1. c.streams[sid] \in Stream /\ k \in Int
    BY ConnType
  <2> HIDE DEF k
  <2>2. x \in Stream /\ x.delivered = c.streams[sid].delivered
        /\ x.refused = c.streams[sid].refused /\ x.body = c.streams[sid].body
        /\ x.assembling = c.streams[sid].assembling /\ x.ended = c.streams[sid].ended
    BY <2>1 DEF Stream
  <2> HIDE DEF x
  <2> QED BY <2>2, StreamAlike
<1>4. \/ OnWindowUpdate(c, f) \in {c, ConnError(c), w, ConnError(w)}
      \/ /\ sid \in DOMAIN c.streams
         /\ OnWindowUpdate(c, f) \in {m, Remove(WriteReset(m, sid), sid)}
  <2>1. [c EXCEPT !.streams[sid].window = c.streams[sid].window + f.n] = m
    BY DEF Conn
  <2> HIDE DEF m
  <2> QED BY <2>1 DEF OnWindowUpdate
<1> HIDE DEF w, m
<1>5. Fine(c, A) /\ Fine(ConnError(c), A) /\ Fine(w, A) /\ Fine(ConnError(w), A)
  <2>1. Alike(w, ConnError(w))
    BY <1>2, FieldsAlike
  <2> QED BY <1>1, <1>2, <2>1, AlikeFine
<1>6. ASSUME sid \in DOMAIN c.streams PROVE Fine(m, A) /\ Fine(Remove(WriteReset(m, sid), sid), A)
  <2>1. Fine(m, A) /\ m \in Conn /\ sid \in DOMAIN m.streams
    BY <1>3, <1>6, AlikeFine DEF Alike, Agree
  <2> QED BY <2>1, ResetFine
<1> QED BY <1>4, <1>5, <1>6

\* A request that was received whole is handed over.
LEMMA DeliverFine ==
    ASSUME NEW c \in Conn, NEW sid \in DOMAIN c.streams, NEW A, Fine(c, A),
           c.streams[sid].ended, ~c.streams[sid].refused, ~c.streams[sid].delivered,
           ~c.streams[sid].assembling
    PROVE  Fine(Deliver(c, sid), A)
<1> DEFINE x == [c.streams[sid] EXCEPT !.delivered = TRUE]
           t == [c.streams EXCEPT ![sid] = x]
           n == c.completed + 1
           q == Append(c.ready, sid)
           d == [c EXCEPT !.streams = t, !.completed = n, !.ready = q]
<1>1. c.streams \in Tables /\ c.streams[sid] \in Stream /\ sid \in Sids /\ n \in Int
      /\ c.ready \in Seq(Sids)
  BY ConnType, Numbers
<1>2. x \in Stream /\ x.delivered /\ x.ended = c.streams[sid].ended
      /\ x.refused = c.streams[sid].refused /\ x.body = c.streams[sid].body
      /\ x.assembling = c.streams[sid].assembling
  BY <1>1 DEF Stream
<1>3. c.streams[sid].body = None /\ c.seen.state[sid] = "idle" /\ sid <= c.last
  BY DEF Fine, Tidy, Framed, Told
<1>4. Deliver(c, sid) \in {d, ConnError(d)}
  <2>1. [c EXCEPT !.streams[sid].delivered = TRUE, !.completed = n, !.ready = q] = d
    <3> HIDE DEF n, q
    <3> QED BY DEF Conn
  <2> HIDE DEF d
  <2> QED BY <2>1 DEF Deliver
<1> HIDE DEF x
<1>5. t \in Tables /\ DOMAIN t = DOMAIN c.streams /\ t[sid] = x
      /\ \A s \in DOMAIN c.streams \ {sid} : t[s] = c.streams[s]
  BY <1>1, <1>2, ChangedTable
<1>6. q \in Seq(Sids) /\ Len(q) = Len(c.ready) + 1 /\ q[Len(q)] = sid
      /\ DOMAIN q = 1..Len(q) /\ DOMAIN c.ready = 1..Len(c.ready) /\ Len(c.ready) \in Nat
      /\ \A i \in DOMAIN c.ready : q[i] = c.ready[i]
  BY <1>1
<1> HIDE DEF t, q, n
<1>7. d \in Conn /\ d.streams = t /\ d.ready = q /\ d.pending = c.pending /\ d.last = c.last
      /\ d.seen = c.seen
  BY <1>1, <1>5, <1>6 DEF Conn
<1> HIDE DEF d
<1>8. Queued(d)
  <2>1. Queued(c)
    BY DEF Fine, Tidy
  <2>2. \A i \in DOMAIN q : i \in DOMAIN c.ready \/ i = Len(q)
    BY <1>6
  <2>3. \A i \in DOMAIN c.ready : c.ready[i] # sid
    BY <2>1 DEF Queued
  <2>4. \A i \in DOMAIN q : q[i] <= c.last
    BY <1>3, <1>6, <2>1, <2>2 DEF Queued
  <2>5. ASSUME NEW i \in DOMAIN q, NEW j \in DOMAIN q, q[i] = q[j] PROVE i = j
    BY <1>6, <2>1, <2>2, <2>3, <2>5 DEF Queued
  <2>6. ASSUME NEW i \in DOMAIN q, q[i] \in DOMAIN t
        PROVE  t[q[i]].delivered /\ t[q[i]].body = None
    <3>1. CASE i = Len(q)
      BY <1>2, <1>3, <1>5, <1>6, <3>1
    <3>2. CASE i \in DOMAIN c.ready
      BY <1>5, <1>6, <2>1, <2>3, <2>6, <3>2 DEF Queued
    <3> QED BY <2>2, <3>1, <3>2
  <2> QED BY <1>7, <2>4, <2>5, <2>6 DEF Queued
<1>9. Room(d) /\ Waiting(d)
  <2>1. Accepted(d) = Accepted(c)
    BY <1>2, <1>5, <1>7 DEF Accepted
  <2> QED BY <1>5, <1>7, <2>1 DEF Fine, Tidy, Room, Waiting
<1>10. Framed(d)
  <2>1. ASSUME NEW s \in DOMAIN t PROVE s <= c.last /\ Told(t[s], c.seen.state[s])
    <3>1. CASE s = sid
      BY <1>2, <1>3, <1>5, <3>1 DEF Told
    <3>2. CASE s # sid
      BY <1>5, <3>2 DEF Fine, Tidy, Framed
    <3> QED BY <3>1, <3>2
  <2> QED BY <1>5, <1>7, <2>1 DEF Fine, Tidy, Framed
<1>11. NoneSpent(d)
  BY <1>2, <1>5, <1>7 DEF Fine, NoneSpent
<1>12. Assembling(d, A)
  BY <1>2, <1>5, <1>7 DEF Fine, Assembling
<1>13. Fine(d, A) /\ Alike(d, ConnError(d))
  BY <1>7, <1>8, <1>9, <1>10, <1>11, <1>12, FieldsAlike DEF Fine, Tidy
<1> QED BY <1>4, <1>13, AlikeFine

\* The stream of a finished header block waits for its body, is handed over, or is gone.
LEMMA FinishFine ==
    ASSUME NEW c \in Conn, NEW sid \in DOMAIN c.streams, NEW block, Fine(c, {sid}),
           ~c.streams[sid].delivered
    PROVE  Fine(FinishHeaders(c, sid, block), {})
<1> DEFINE x == [c.streams[sid] EXCEPT !.assembling = FALSE, !.size = 0]
           d == [c EXCEPT !.streams[sid] = x]
           p == d.pending \cup {sid}
           e == [d EXCEPT !.pending = p]
<1>1. c.streams[sid] \in Stream
  BY ConnType
<1>2. x \in Stream /\ ~x.assembling /\ x.delivered = c.streams[sid].delivered
      /\ x.refused = c.streams[sid].refused /\ x.body = c.streams[sid].body
      /\ x.ended = c.streams[sid].ended
  <2>1. FALSE \in BOOLEAN /\ 0 \in Int
    OBVIOUS
  <2> QED BY <1>1, <2>1 DEF Stream
<1>3. [c EXCEPT !.streams[sid].assembling = FALSE, !.streams[sid].size = 0] = d
  BY DEF Conn
<1> HIDE DEF x
<1>4. d.streams = [c.streams EXCEPT ![sid] = x] /\ d.streams[sid] = x
  BY ConnType, ChangedTable DEF Conn
<1>5. Alike(c, d)
  BY <1>2, StreamAlike
<1>6. \/ FinishHeaders(c, sid, block) \in {ConnError(d), Remove(Churn(WriteReset(d, sid), sid), sid),
                                           Remove(WriteReset(d, sid), sid)}
      \/ x.ended /\ ~x.refused /\ FinishHeaders(c, sid, block) = Deliver(d, sid)
      \/ ~x.refused /\ FinishHeaders(c, sid, block) = e
  <2> HIDE DEF d
  <2> QED BY <1>3, <1>4 DEF FinishHeaders
<1> HIDE DEF d
<1>7. d \in Conn /\ sid \in DOMAIN d.streams
  BY <1>5 DEF Alike, Agree
<1>8. Fine(d, {})
  <2>1. Fine(d, {sid})
    BY <1>5, AlikeFine
  <2> QED BY <1>2, <1>4, <2>1 DEF Fine, Assembling
<1>9. Fine(ConnError(d), {})
  BY <1>7, <1>8, FieldsAlike, AlikeFine
<1>10. Fine(Remove(Churn(WriteReset(d, sid), sid), sid), {}) /\ Fine(Remove(WriteReset(d, sid), sid), {})
  BY <1>7, <1>8, ResetFine
<1>11. x.ended /\ ~x.refused => Fine(Deliver(d, sid), {})
  BY <1>2, <1>4, <1>7, <1>8, DeliverFine
<1>12. ASSUME ~x.refused PROVE Fine(e, {})
  <2>1. e.pending = p /\ e.streams = d.streams /\ e.ready = d.ready /\ e.last = d.last /\ e.seen = d.seen
    BY <1>7 DEF Conn
  <2>2. Accepted(e) = Accepted(d) /\ sid \in Accepted(d)
    BY <1>4, <1>7, <1>12, <2>1 DEF Accepted
  <2>3. Waiting(e)
    BY <1>8, <2>1, <2>2 DEF Waiting, Fine, Tidy
  <2>4. Queued(e) /\ Room(e) /\ Framed(e)
    BY <1>8, <2>1, <2>2 DEF Queued, Room, Framed, Fine, Tidy
  <2>5. NoneSpent(e) /\ Assembling(e, {})
    BY <1>8, <2>1 DEF Fine, NoneSpent, Assembling
  <2> QED BY <2>3, <2>4, <2>5 DEF Fine, Tidy
<1> QED BY <1>6, <1>9, <1>10, <1>11, <1>12

-----------------------------------------------------------------------------
(***************************************************************************)
(* Streams are opened, within the cap or refused.                          *)
(***************************************************************************)
\* A stream is opened, within the cap or refused.
LEMMA OpenTidy ==
    ASSUME NEW c \in Conn, NEW sid \in Sids, sid \notin DOMAIN c.streams, ~(sid <= c.last), Fine(c, {}),
           NEW d \in Conn, d.last = sid, d.pending = c.pending, d.ready = c.ready, d.seen = c.seen,
           DOMAIN d.streams = DOMAIN c.streams \cup {sid}, d.streams[sid] = NewStream(c),
           \A s \in DOMAIN c.streams : d.streams[s] = c.streams[s]
    PROVE  Fine(d, {}) /\ ~d.streams[sid].delivered
<1>1. /\ sid \in Int /\ c.last \in Int /\ DOMAIN c.streams \subseteq Sids /\ \A s \in Sids : s \in Int
      /\ c.ready \in Seq(Sids)
  BY ConnType, Numbers, H2Assumption
<1>2. /\ ~d.streams[sid].delivered /\ ~d.streams[sid].assembling /\ d.streams[sid].body = None
      /\ d.streams[sid].refused = (Cardinality(DOMAIN c.streams) >= MAX_CONCURRENT_STREAMS)
  BY DEF NewStream
<1>3. Queued(c) /\ Room(c) /\ Waiting(c) /\ Framed(c)
  BY DEF Fine, Tidy
<1>4. Queued(d)
  <2>1. \A i \in DOMAIN c.ready : c.ready[i] \in Sids /\ c.ready[i] <= c.last
    BY <1>1, <1>3 DEF Queued
  <2>2. \A i \in DOMAIN c.ready : c.ready[i] <= sid /\ c.ready[i] # sid
    BY <1>1, <2>1
  <2> QED BY <1>3, <2>2 DEF Queued
<1>5. Accepted(d) = Accepted(c) \cup (IF d.streams[sid].refused THEN {} ELSE {sid})
  BY DEF Accepted
<1>6. Room(d)
  <2>1. IsFiniteSet(DOMAIN c.streams) /\ Cardinality(Accepted(c)) <= MAX_CONCURRENT_STREAMS
        /\ Accepted(c) \subseteq DOMAIN c.streams
    BY <1>3 DEF Room, Accepted
  <2>2. /\ IsFiniteSet(Accepted(c)) /\ Cardinality(Accepted(c)) <= Cardinality(DOMAIN c.streams)
        /\ IsFiniteSet(DOMAIN d.streams)
        /\ Cardinality(DOMAIN c.streams) \in Nat /\ Cardinality(Accepted(c)) \in Nat
    BY <2>1, FS_Subset, FS_AddElement, FS_CardinalityType
  <2>3. CASE d.streams[sid].refused
    BY <1>5, <2>1, <2>2, <2>3 DEF Room
  <2>4. CASE ~d.streams[sid].refused
    <3>1. Accepted(d) = Accepted(c) \cup {sid} /\ sid \notin Accepted(c)
      BY <1>5, <2>4 DEF Accepted
    <3>2. Cardinality(Accepted(d)) = Cardinality(Accepted(c)) + 1
      BY <2>2, <3>1, FS_AddElement
    <3>3. ~(Cardinality(DOMAIN c.streams) >= MAX_CONCURRENT_STREAMS)
      BY <1>2, <2>4
    <3> HIDE <1>2
    <3>4. Cardinality(Accepted(d)) <= MAX_CONCURRENT_STREAMS
      BY <2>2, <3>2, <3>3, H2Assumption
    <3> QED BY <2>2, <3>4 DEF Room
  <2> QED BY <2>3, <2>4
<1>7. Waiting(d)
  BY <1>3, <1>5 DEF Waiting
<1>8. Framed(d)
  <2>1. \A s \in Sids : d.seen.state[s] # "broken" /\ (s > d.last => d.seen.state[s] = "idle")
    BY <1>1, <1>3 DEF Framed
  <2>2. c.seen.state[sid] = "idle"
    BY <1>1, <1>3 DEF Framed
  <2>3. ASSUME NEW s \in DOMAIN d.streams PROVE s <= d.last /\ Told(d.streams[s], d.seen.state[s])
    <3>1. CASE s = sid
      BY <1>1, <1>2, <2>2, <3>1 DEF Told
    <3>2. CASE s \in DOMAIN c.streams
      <4>1. s <= c.last /\ s \in Int
        BY <1>1, <1>3, <3>2 DEF Framed
      <4>2. s <= d.last
        BY <1>1, <4>1
      <4> QED BY <1>3, <3>2, <4>2 DEF Framed
    <3> QED BY <3>1, <3>2
  <2> QED BY <1>3, <2>1, <2>3 DEF Framed
<1>9. NoneSpent(d) /\ Assembling(d, {})
  BY <1>2 DEF Fine, NoneSpent, Assembling
<1> QED BY <1>2, <1>4, <1>6, <1>7, <1>8, <1>9 DEF Fine, Tidy

LEMMA OpenFine ==
    ASSUME NEW c \in Conn, NEW sid \in Sids, sid \in DOMAIN c.streams \/ ~(sid <= c.last),
           ~IsOver(c, sid), Fine(c, {})
    PROVE  LET d == OpenStream(c, sid)
           IN  d \in Conn /\ sid \in DOMAIN d.streams /\ Fine(d, {}) /\ ~d.streams[sid].delivered
<1>1. CASE sid \in DOMAIN c.streams
  BY <1>1 DEF OpenStream, IsOver
<1>2. CASE sid \notin DOMAIN c.streams
  <2> DEFINE t == [s \in DOMAIN c.streams \cup {sid} |->
                     IF s = sid THEN NewStream(c) ELSE c.streams[s]]
             d == [c EXCEPT !.last = sid, !.streams = t]
  <2>1. NewStream(c) \in Stream
    BY ConnType DEF NewStream, Stream
  <2>2. PICK S \in SUBSET Sids : c.streams \in [S -> Stream]
    BY ConnType DEF Tables
  <2>3. t \in [S \cup {sid} -> Stream] /\ S \cup {sid} \in SUBSET Sids
    BY <2>1, <2>2
  <2>4. t \in Tables /\ DOMAIN t = DOMAIN c.streams \cup {sid} /\ t[sid] = NewStream(c)
        /\ \A s \in DOMAIN c.streams : t[s] = c.streams[s]
    BY <1>2, <2>3 DEF Tables
  <2> HIDE DEF t
  <2>5. sid \in Int
    BY H2Assumption
  <2>6. d \in Conn /\ d.streams = t /\ d.last = sid /\ d.pending = c.pending /\ d.ready = c.ready
        /\ d.seen = c.seen
    BY <2>4, <2>5 DEF Conn
  <2> HIDE DEF d
  <2>7. Fine(d, {}) /\ ~d.streams[sid].delivered
    BY <1>2, <2>4, <2>6, OpenTidy
  <2>8. OpenStream(c, sid) = d
    BY <1>2 DEF OpenStream, d, t
  <2> QED BY <2>4, <2>6, <2>7, <2>8
<1> QED BY <1>1, <1>2

\* A frame leaves only the stream the client continues in the middle of a header block.
Handled(d) == Tidy(d) /\ NoneSpent(d) /\ (~d.closed => Assembling(d, {d.continuation}))

LEMMA FineHandled == ASSUME NEW d, Fine(d, {}) PROVE Handled(d)
BY DEF Fine, Handled, Assembling

LEMMA ClosedHandled == ASSUME NEW c \in Conn, NEW A, Fine(c, A) PROVE Handled(ConnError(c))
<1>1. Fine(ConnError(c), A) /\ ConnError(c).closed
  BY FieldsAlike, AlikeFine, FieldsKeep
<1> QED BY <1>1 DEF Fine, Handled

LEMMA HeadersHandled ==
    ASSUME NEW c \in Conn, NEW f, Fine(c, {}) PROVE Handled(OnHeaders(c, f))
<1> DEFINE sid == f.sid
           o == OpenStream(c, sid)
           n == o.streams[sid].size + 1
           b == o.streams[sid].ended \/ f.end
           x == [o.streams[sid] EXCEPT !.size = n, !.assembling = TRUE, !.ended = b]
           d1 == [o EXCEPT !.conts = 0]
           d == [d1 EXCEPT !.streams[sid] = x]
           e == [d EXCEPT !.continuation = sid]
<1>1. CASE sid \notin Sids \/ ~f.ok \/ IsOver(c, sid) \/ (sid \notin DOMAIN c.streams /\ sid <= c.last)
  <2>1. OnHeaders(c, f) = ConnError(c) \/ (IsOver(c, sid) /\ OnHeaders(c, f) = StreamClosed(c, sid))
    BY <1>1 DEF OnHeaders
  <2>2. IsOver(c, sid) => Fine(StreamClosed(c, sid), {})
    BY ResetFine DEF IsOver, StreamClosed
  <2> QED BY <2>1, <2>2, FineHandled, ClosedHandled
<1>2. CASE sid \in Sids /\ (sid \in DOMAIN c.streams \/ ~(sid <= c.last)) /\ f.ok /\ ~IsOver(c, sid)
  <2>1. o \in Conn /\ sid \in DOMAIN o.streams /\ Fine(o, {}) /\ ~o.streams[sid].delivered
    BY <1>2, OpenFine
  <2>2. OnHeaders(c, f) \in {ConnError(d), FinishHeaders(d, sid, f.block), e}
    <3>1. [o EXCEPT !.conts = 0, !.streams[sid] = x] = d
      <4> HIDE DEF o, x
      <4> QED BY <2>1 DEF Conn
    <3> HIDE DEF d
    <3> QED BY <1>2, <3>1 DEF OnHeaders, o
  <2> HIDE DEF o
  <2>3. o.streams[sid] \in Stream /\ o.streams \in Tables
    BY <2>1, ConnType
  <2>4. n \in Int /\ b \in BOOLEAN /\ TRUE \in BOOLEAN /\ 0 \in Int
    BY <2>3 DEF Stream
  <2>5. o.streams[sid].ended => b
    OBVIOUS
  <2> HIDE DEF n, b
  <2>6. /\ x \in Stream /\ x.delivered = o.streams[sid].delivered
        /\ x.refused = o.streams[sid].refused /\ x.body = o.streams[sid].body
        /\ (o.streams[sid].ended => x.ended)
    BY <2>3, <2>4, <2>5 DEF Stream
  <2> HIDE DEF x
  <2>7. Alike(o, d1) /\ d1 \in Conn /\ d1.streams = o.streams
    <3>1. Alike(o, d1)
      BY <2>1, <2>4, FieldsAlike
    <3> QED BY <2>1, <3>1, AlikeType DEF Conn
  <2> HIDE DEF d1
  <2> DEFINE t == [d1.streams EXCEPT ![sid] = x]
  <2>8. t \in Tables /\ DOMAIN t = DOMAIN o.streams /\ t[sid] = x
        /\ \A s \in DOMAIN o.streams \ {sid} : t[s] = o.streams[s]
    BY <2>1, <2>3, <2>6, <2>7, ChangedTable
  <2>9. d = [d1 EXCEPT !.streams = t]
    BY <2>7 DEF Conn
  <2> HIDE DEF t
  <2>10. Agree(d1, d) /\ d.streams = t
    BY <2>6, <2>7, <2>8, <2>9 DEF Agree, Conn
  <2> HIDE DEF d
  <2>11. d \in Conn /\ sid \in DOMAIN d.streams /\ ~d.streams[sid].delivered
    BY <2>1, <2>6, <2>8, <2>10 DEF Agree
  <2>12. Fine(d, {sid})
    <3>1. Fine(d1, {})
      BY <2>1, <2>7, AlikeFine
    <3>2. Assembling(d, {sid})
      BY <2>1, <2>6, <2>8, <2>10 DEF Fine, Assembling
    <3> QED BY <2>10, <3>1, <3>2, AgreeTidy DEF Fine
  <2>13. Handled(ConnError(d)) /\ Handled(FinishHeaders(d, sid, f.block))
    BY <2>11, <2>12, ClosedHandled, FinishFine, FineHandled
  <2>14. Handled(e)
    <3>1. e.continuation = sid /\ e.streams = d.streams /\ e.pending = d.pending
          /\ e.ready = d.ready /\ e.last = d.last /\ e.seen = d.seen
      BY <2>11 DEF Conn
    <3> HIDE DEF e
    <3>2. Tidy(e)
      BY <2>12, <3>1 DEF Fine, Tidy, Queued, Room, Waiting, Framed, Accepted
    <3> QED BY <2>12, <3>1, <3>2 DEF Fine, Handled, NoneSpent, Assembling
  <2> QED BY <2>2, <2>13, <2>14
<1> QED BY <1>1, <1>2

-----------------------------------------------------------------------------
(***************************************************************************)
(* The other frames, and Receive as a whole.                               *)
(***************************************************************************)
LEMMA ContinuationHandled ==
    ASSUME NEW c \in Conn, NEW f, Fine(c, {c.continuation})
    PROVE  Handled(OnContinuation(c, f))
<1> DEFINE sid == f.sid
           n == c.conts + 1
           d1 == [c EXCEPT !.conts = n]
           k == d1.streams[sid].size + 1
           x == [d1.streams[sid] EXCEPT !.size = k]
           d2 == [d1 EXCEPT !.streams[sid] = x]
           d3 == [d2 EXCEPT !.continuation = 0]
<1>1. Alike(c, d1) /\ d1 \in Conn /\ d1.streams = c.streams
  <2>1. n \in Int
    BY Numbers
  <2>2. Alike(c, d1)
    BY <2>1, FieldsAlike
  <2>3. d1.streams = c.streams
    BY DEF Conn
  <2> QED BY <2>2, <2>3, AlikeType
<1>2. \/ OnContinuation(c, f) = ConnError(d1)
      \/ /\ sid \in DOMAIN c.streams /\ c.streams[sid].assembling
         /\ OnContinuation(c, f) \in {ConnError(d2), FinishHeaders(d3, sid, f.block), d2}
  <2>1. [d1 EXCEPT !.streams[sid].size = k] = d2
    <3> HIDE DEF k
    <3> QED BY <1>1 DEF Conn
  <2> HIDE DEF d2
  <2> QED BY <2>1 DEF OnContinuation
<1> HIDE DEF d1
<1>3. Fine(d1, {c.continuation})
  BY <1>1, AlikeFine
<1>4. Handled(ConnError(d1))
  BY <1>1, <1>3, ClosedHandled
<1>5. ASSUME sid \in DOMAIN c.streams, c.streams[sid].assembling
      PROVE  Handled(ConnError(d2)) /\ Handled(FinishHeaders(d3, sid, f.block)) /\ Handled(d2)
  <2>1. c.continuation = sid /\ ~c.streams[sid].delivered
    BY <1>5 DEF Fine, Assembling
  <2>2. d1.streams[sid] \in Stream
    BY <1>1, <1>5, ConnType
  <2>3. k \in Int
    BY <2>2 DEF Stream
  <2> HIDE DEF k
  <2>4. /\ x \in Stream /\ x.delivered = d1.streams[sid].delivered
        /\ x.refused = d1.streams[sid].refused /\ x.body = d1.streams[sid].body
        /\ x.assembling = d1.streams[sid].assembling /\ x.ended = d1.streams[sid].ended
    BY <2>2, <2>3 DEF Stream
  <2> HIDE DEF x
  <2>5. Alike(d1, d2)
    BY <1>1, <1>5, <2>4, StreamAlike
  <2>6. d2 \in Conn /\ sid \in DOMAIN d2.streams /\ ~d2.streams[sid].delivered /\ d2.continuation = sid
    BY <1>1, <1>5, <2>1, <2>5 DEF Alike, Agree
  <2> HIDE DEF d2
  <2>7. Fine(d2, {sid})
    BY <1>3, <2>1, <2>5, AlikeFine
  <2>8. Handled(d2) /\ Handled(ConnError(d2))
    BY <2>6, <2>7, ClosedHandled DEF Fine, Handled
  <2>9. d3 \in Conn /\ d3.streams = d2.streams /\ d3.pending = d2.pending
        /\ d3.ready = d2.ready /\ d3.last = d2.last /\ d3.seen = d2.seen
    <3>1. 0 \in Int
      OBVIOUS
    <3> QED BY <2>6, <3>1 DEF Conn
  <2> HIDE DEF d3
  <2>10. Fine(d3, {sid})
    <3>1. Tidy(d3)
      BY <2>7, <2>9 DEF Fine, Tidy, Queued, Room, Waiting, Framed, Accepted
    <3> QED BY <2>7, <2>9, <3>1 DEF Fine, NoneSpent, Assembling
  <2>11. Handled(FinishHeaders(d3, sid, f.block))
    BY <2>6, <2>9, <2>10, FinishFine, FineHandled
  <2> QED BY <2>8, <2>11
<1> QED BY <1>2, <1>4, <1>5

LEMMA DataFine ==
    ASSUME NEW c \in Conn, NEW f, f.n \in Int, Fine(c, {}) PROVE Fine(OnData(c, f), {})
<1> DEFINE sid == f.sid
           n == c.streams[sid].got + f.n
           b == c.streams[sid].ended \/ f.end
           x == [c.streams[sid] EXCEPT !.got = n, !.ended = b]
           t == [c EXCEPT !.streams[sid] = x]
           k == WriteCredit(WriteCredit(t, 0, f.n), sid, f.n)
           p == k.pending \ {sid}
           d1 == [k EXCEPT !.pending = p]
           y == [d1.streams[sid] EXCEPT !.got = 0]
           d == [d1 EXCEPT !.streams[sid] = y]
<1>1. CASE ~f.ok
  BY <1>1, FieldsAlike, AlikeFine DEF OnData
<1>2. CASE f.ok /\ IsOver(c, sid)
  <2>1. sid \in DOMAIN c.streams
    BY <1>2 DEF IsOver
  <2>2. Fine(StreamClosed(c, sid), {}) /\ StreamClosed(c, sid) \in Conn
    BY <2>1, ResetFine, ResetDrops DEF StreamClosed, Fine, Dropped
  <2>3. Alike(StreamClosed(c, sid), WriteCredit(StreamClosed(c, sid), 0, f.n))
    BY <2>2, CreditAlike
  <2> QED BY <1>2, <2>2, <2>3, AlikeFine DEF OnData
<1>3. CASE f.ok /\ ~IsOver(c, sid) /\ sid \notin DOMAIN c.streams
  BY <1>3 DEF OnData
<1>4. CASE f.ok /\ ~IsOver(c, sid) /\ sid \in DOMAIN c.streams
  <2>1. c.streams[sid] \in Stream /\ ~c.streams[sid].delivered /\ c.streams[sid].body = None
    BY <1>4, ConnType DEF IsOver, Fine, Tidy, Framed, Told
  <2>2. n \in Int /\ b \in BOOLEAN /\ 0 \in Int
    BY <2>1 DEF Stream
  <2>3. t.streams[sid] = x /\ (c.streams[sid].ended => b) /\ (f.end => b)
    BY <1>4, ConnType, ChangedTable DEF Conn
  <2>4. \/ OnData(c, f) \in {WriteCredit(Remove(WriteReset(t, sid), sid), 0, f.n), k}
        \/ OnData(c, f) = Deliver(d, sid) /\ f.end /\ sid \in c.pending
    <3>1. [k EXCEPT !.pending = p, !.streams[sid].got = 0] = d
      <4> HIDE DEF k, p
      <4> QED OBVIOUS
    <3> HIDE DEF d
    <3> QED BY <1>4, <3>1 DEF OnData
  <2> HIDE DEF n, b
  <2>5. /\ x \in Stream /\ x.delivered = c.streams[sid].delivered
        /\ x.refused = c.streams[sid].refused /\ x.body = c.streams[sid].body
        /\ x.assembling = c.streams[sid].assembling /\ x.ended = b
    BY <2>1, <2>2 DEF Stream
  <2>6. Alike(c, t)
    <3>1. c.streams[sid].ended => x.ended
      BY <2>3, <2>5
    <3> HIDE DEF x
    <3> QED BY <1>4, <2>5, <3>1, StreamAlike
  <2> HIDE DEF x
  <2>7. t \in Conn /\ sid \in DOMAIN t.streams /\ Fine(t, {})
    BY <1>4, <2>6, AlikeFine DEF Alike, Agree
  <2> HIDE DEF t
  <2>8. Fine(WriteCredit(Remove(WriteReset(t, sid), sid), 0, f.n), {})
    <3>1. Fine(Remove(WriteReset(t, sid), sid), {}) /\ Remove(WriteReset(t, sid), sid) \in Conn
      BY <2>7, ResetFine, ResetDrops DEF Fine, Dropped
    <3>2. Alike(Remove(WriteReset(t, sid), sid), WriteCredit(Remove(WriteReset(t, sid), sid), 0, f.n))
      BY <3>1, CreditAlike
    <3> QED BY <3>1, <3>2, AlikeFine
  <2>9. Alike(t, k) /\ k \in Conn /\ k.streams = t.streams
    <3>1. Alike(t, WriteCredit(t, 0, f.n)) /\ WriteCredit(t, 0, f.n) \in Conn
      BY <2>7, CreditAlike, AlikeType
    <3>2. Alike(WriteCredit(t, 0, f.n), k)
      BY <3>1, CreditAlike
    <3>3. k.streams = t.streams
      BY <2>7 DEF WriteCredit, Write, Conn
    <3> HIDE DEF k
    <3> QED BY <3>1, <3>2, <3>3, AlikeBoth, AlikeType
  <2> HIDE DEF k
  <2>10. Fine(k, {})
    BY <2>7, <2>9, AlikeFine
  <2>11. ASSUME f.end, sid \in c.pending PROVE Fine(Deliver(d, sid), {})
    <3>1. ~c.streams[sid].refused
      BY <2>11 DEF Fine, Tidy, Waiting, Accepted
    <3>2. d1 \in Conn /\ d1.pending = p /\ d1.streams = k.streams /\ d1.ready = k.ready
          /\ d1.last = k.last /\ d1.seen = k.seen
      <4>1. p \in SUBSET Sids
        BY <2>9, Numbers
      <4> HIDE DEF p
      <4> QED BY <2>9, <4>1 DEF Conn
    <3> HIDE DEF d1
    <3>3. Fine(d1, {})
      <4>1. Accepted(d1) = Accepted(k)
        BY <3>2 DEF Accepted
      <4>2. Waiting(d1) /\ Queued(d1) /\ Room(d1) /\ Framed(d1)
        BY <2>10, <3>2, <4>1 DEF Fine, Tidy, Waiting, Queued, Room, Framed
      <4> QED BY <2>10, <3>2, <4>2 DEF Fine, Tidy, NoneSpent, Assembling
    <3>4. d1.streams[sid] = x /\ sid \in DOMAIN d1.streams
      BY <2>3, <2>7, <2>9, <3>2
    <3>5. /\ y \in Stream /\ y.delivered = x.delivered /\ y.refused = x.refused /\ y.body = x.body
          /\ y.assembling = x.assembling /\ y.ended = x.ended
      BY <2>2, <2>5, <3>4 DEF Stream
    <3> HIDE DEF y
    <3>6. Alike(d1, d) /\ d.streams[sid] = y
      <4>1. Alike(d1, d)
        BY <3>2, <3>4, <3>5, StreamAlike
      <4>2. d.streams[sid] = y
        BY <3>2, <3>4, ConnType, ChangedTable DEF Conn
      <4> QED BY <4>1, <4>2
    <3>7. d \in Conn /\ sid \in DOMAIN d.streams /\ Fine(d, {})
      BY <3>3, <3>4, <3>6, AlikeFine DEF Alike, Agree
    <3> HIDE DEF d
    <3>8. y.ended /\ ~y.refused /\ ~y.delivered
      BY <2>1, <2>3, <2>5, <2>11, <3>1, <3>5
    <3>9. ~y.assembling
      BY <3>6, <3>7 DEF Fine, Assembling
    <3> QED BY <3>6, <3>7, <3>8, <3>9, DeliverFine
  <2> QED BY <2>4, <2>8, <2>10, <2>11
<1> QED BY <1>1, <1>2, <1>3, <1>4

LEMMA ResetByClientFine ==
    ASSUME NEW c \in Conn, NEW f, Fine(c, {}) PROVE Fine(OnReset(c, f), {})
<1> DEFINE sid == f.sid
           h == Churn(c, sid)
           g == Remove(h, sid)
           n == g.resets + 1
           z == [g.seen EXCEPT !.state[sid] = "reset"]
           d == [g EXCEPT !.resets = n, !.seen = z]
<1>1. OnReset(c, f) = c \/ (sid \in DOMAIN c.streams /\ OnReset(c, f) \in {d, ConnError(d)})
  <2>1. [g EXCEPT !.resets = g.resets + 1, !.seen.state[sid] = "reset"] = d
    <3> HIDE DEF g
    <3> QED OBVIOUS
  <2> HIDE DEF d
  <2> QED BY <2>1 DEF OnReset
<1>2. ASSUME sid \in DOMAIN c.streams PROVE d \in Conn /\ Dropped(c, d, sid, "reset")
  <2>1. sid \in Sids /\ c.seen \in Seen /\ c.seen.state \in [Sids -> States]
    BY <1>2, ConnType DEF Seen
  <2>2. Marked(c, c, sid, c.seen.state[sid])
    BY <2>1 DEF Marked
  <2>3. Marked(c, h, sid, c.seen.state[sid])
    BY <2>2, ChurnMarks
  <2>4. h.seen = c.seen
    BY DEF Churn, Conn
  <2> HIDE DEF h
  <2>5. Dropped(c, g, sid, c.seen.state[sid])
    BY <2>3, MarkedDropped
  <2>6. g.seen = h.seen
    BY <2>3 DEF Remove, Marked, Conn
  <2>7. g \in Conn
    BY <2>5 DEF Dropped
  <2>8. n \in Int
    BY <2>7, Numbers
  <2> HIDE DEF g, n
  <2>9. z \in Seen /\ z.state = [c.seen.state EXCEPT ![sid] = "reset"] /\ z.block = c.seen.block
    BY <2>1, <2>4, <2>6 DEF Seen, States
  <2> HIDE DEF z
  <2> QED BY <2>5, <2>7, <2>8, <2>9 DEF Dropped, Conn
<1> HIDE DEF d
<1>3. sid \in DOMAIN c.streams => Fine(d, {}) /\ Fine(ConnError(d), {})
  <2> SUFFICES ASSUME sid \in DOMAIN c.streams PROVE Fine(d, {}) /\ Fine(ConnError(d), {})
    OBVIOUS
  <2>1. Fine(d, {})
    BY <1>2, DroppedFine
  <2> QED BY <1>2, <2>1, FieldsAlike, AlikeFine
<1> QED BY <1>1, <1>3

LEMMA FrameHandled ==
    ASSUME NEW c \in Conn, NEW f, f.n \in Int, Handled(c), ~c.closed
    PROVE  Handled(OnFrame(c, f))
<1>1. Fine(c, {c.continuation})
  BY DEF Handled, Fine
<1>2. CASE c.continuation # 0 /\ (f.type # "CONTINUATION" \/ f.sid # c.continuation)
  BY <1>1, <1>2, ClosedHandled DEF OnFrame
<1>3. CASE f.type = "CONTINUATION" /\ ~(c.continuation # 0 /\ f.sid # c.continuation)
  BY <1>1, <1>3, ContinuationHandled DEF OnFrame
<1>4. CASE f.type # "CONTINUATION" /\ c.continuation = 0
  <2>1. Fine(c, {})
    <3>1. 0 \notin DOMAIN c.streams
      BY ConnType, H2Assumption
    <3> QED BY <1>1, <1>4, <3>1 DEF Fine, Assembling
  <2>2. Handled(c) /\ Handled(NoteControlAck(c)) /\ Handled([c EXCEPT !.closed = TRUE])
    BY <2>1, FieldsAlike, AckAlike, AlikeFine, FineHandled
  <2>3. Handled(OnSettings(c, f)) /\ Handled(OnWindowUpdate(c, f)) /\ Handled(OnHeaders(c, f))
        /\ Handled(OnData(c, f)) /\ Handled(OnReset(c, f))
    BY <2>1, SettingsFine, WindowUpdateFine, HeadersHandled, DataFine, ResetByClientFine, FineHandled
  <2>4. OnFrame(c, f) \in {NoteControlAck(c), c, OnSettings(c, f), OnWindowUpdate(c, f), OnHeaders(c, f),
                           OnData(c, f), OnReset(c, f), [c EXCEPT !.closed = TRUE]}
    BY <1>4 DEF OnFrame
  <2> QED BY <2>2, <2>3, <2>4
<1> QED BY <1>2, <1>3, <1>4

LEMMA ReceiveHandled ==
    ASSUME conn \in Conn, Handled(conn), NEW f \in ClientFrames, Receive(f)
    PROVE  Handled(conn')
<1> DEFINE a == [conn EXCEPT !.acks = 0]
           c == IF at = "wait" THEN a ELSE conn
<1>1. Alike(conn, c)
  <2>1. 0 \in Int
    OBVIOUS
  <2>2. Alike(conn, a) /\ Alike(conn, conn)
    BY <2>1, FieldsAlike
  <2> QED BY <2>2
<1>2. conn' = OnFrame([c EXCEPT !.seen = Gives(c.seen, f, c.initial)], f) /\ ~conn.closed
  BY DEF Receive
<1>3. c.closed = conn.closed
  BY DEF Conn
<1> HIDE DEF c
<1>4. c \in Conn /\ IsFrame(f)
  BY <1>1, AlikeType, FrameType
<1> DEFINE g == Given(c, f)
<1>5. conn' = OnFrame(g, f)
  BY <1>2 DEF Given
<1>6. Alike(c, g) /\ g \in Conn
  BY <1>4, GivenAlike, AlikeType
<1>7. g.closed = c.closed
  BY <1>4 DEF Given, Conn
<1> HIDE DEF g
<1>8. Alike(conn, g) /\ g.continuation = conn.continuation
  BY <1>1, <1>6, AlikeBoth DEF Alike, Agree
<1>9. Fine(conn, {conn.continuation})
  BY <1>2 DEF Handled, Fine
<1>10. Fine(g, {conn.continuation})
  BY <1>8, <1>9, AlikeFine
<1>11. Handled(g)
  BY <1>8, <1>10 DEF Fine, Handled
<1>12. f.n \in Int
  BY <1>4 DEF IsFrame
<1> QED BY <1>2, <1>3, <1>5, <1>6, <1>7, <1>11, <1>12, FrameHandled

-----------------------------------------------------------------------------
(***************************************************************************)
(* A turn of pump_out on one stream.                                       *)
(***************************************************************************)
\* Stream sid goes on, and the client sees it in state z.
Moved(c, d, sid, z) ==
    /\ d \in Conn
    /\ d.pending = c.pending /\ d.ready = c.ready /\ d.last = c.last
    /\ d.continuation = c.continuation
    /\ d.seen.state = [c.seen.state EXCEPT ![sid] = z] /\ d.seen.block = c.seen.block
    /\ DOMAIN d.streams = DOMAIN c.streams
    /\ \A s \in DOMAIN c.streams \ {sid} : d.streams[s] = c.streams[s]
    /\ d.streams[sid].delivered = c.streams[sid].delivered
    /\ d.streams[sid].refused = c.streams[sid].refused
    /\ d.streams[sid].ended = c.streams[sid].ended
    /\ d.streams[sid].assembling = c.streams[sid].assembling

LEMMA MovedTidy ==
    ASSUME NEW c \in Conn, NEW sid \in DOMAIN c.streams, NEW z, z # "broken", NEW d,
           Moved(c, d, sid, z), Tidy(c), Told(d.streams[sid], z),
           \A i \in DOMAIN c.ready : c.ready[i] # sid
    PROVE  Tidy(d)
<1>1. sid \in Sids /\ c.seen.state \in [Sids -> States] /\ DOMAIN c.streams \subseteq Sids
      /\ sid \in Int /\ c.last \in Int
  <2>1. c.seen.state \in [Sids -> States]
    BY ConnType DEF Seen
  <2>2. \A s \in Sids : s \in Int
    BY H2Assumption
  <2> QED BY <2>1, <2>2, ConnType
<1>2. Queued(d)
  BY DEF Moved, Tidy, Queued
<1>3. Accepted(d) = Accepted(c)
  BY DEF Moved, Accepted
<1>4. Room(d) /\ Waiting(d)
  BY <1>3 DEF Moved, Tidy, Room, Waiting
<1>5. Framed(d)
  <2>1. \A s \in Sids : d.seen.state[s] = IF s = sid THEN z ELSE c.seen.state[s]
    BY <1>1 DEF Moved
  <2>2. sid <= c.last /\ d.last = c.last
    BY DEF Moved, Tidy, Framed
  <2>3. ASSUME NEW s \in Sids
        PROVE  d.seen.state[s] # "broken" /\ (s > d.last => d.seen.state[s] = "idle")
    <3>1. CASE s = sid
      BY <1>1, <2>1, <2>2, <3>1
    <3>2. CASE s # sid
      BY <2>1, <2>2, <3>2 DEF Tidy, Framed
    <3> QED BY <3>1, <3>2
  <2>4. ASSUME NEW s \in DOMAIN d.streams
        PROVE  s <= d.last /\ Told(d.streams[s], d.seen.state[s])
    <3>1. CASE s = sid
      BY <1>1, <2>1, <2>2, <3>1
    <3>2. CASE s # sid
      BY <1>1, <2>1, <2>2, <3>2 DEF Moved, Tidy, Framed
    <3> QED BY <3>1, <3>2
  <2>5. ShortHeads => \A s \in Sids \ DOMAIN d.streams : d.seen.state[s] # "open"
    BY <2>1 DEF Moved, Tidy, Framed
  <2>6. d.seen.block = 0
    BY DEF Moved, Tidy, Framed
  <2> QED BY <2>3, <2>4, <2>5, <2>6 DEF Framed
<1> QED BY <1>2, <1>4, <1>5 DEF Tidy

LEMMA MovedAssembling ==
    ASSUME NEW c, NEW sid \in DOMAIN c.streams, NEW z, NEW d, Moved(c, d, sid, z),
           NEW A, Assembling(c, A)
    PROVE  Assembling(d, A)
BY DEF Moved, Assembling

LEMMA NoBody == \A b \in Bodies : b # None
BY H2Assumption DEF Bodies

\* A step of the server: the streams but sid, which may go, are as they were.
Turned(c, d, sid) ==
    /\ Tidy(d)
    /\ \A A : Assembling(c, A) => Assembling(d, A)
    /\ d.continuation = c.continuation
    /\ d.window <= c.window
    /\ DOMAIN d.streams \subseteq DOMAIN c.streams
    /\ \A s \in DOMAIN d.streams \ {sid} : d.streams[s] = c.streams[s]

LEMMA DroppedTurned ==
    ASSUME NEW c \in Conn, NEW sid \in DOMAIN c.streams, NEW z, NEW d, Dropped(c, d, sid, z), Tidy(c),
           \/ z \in {"reset", "ended"}
           \/ z = c.seen.state[sid] /\ (ShortHeads => z # "open"),
           d.window <= c.window
    PROVE  Turned(c, d, sid)
<1>1. Tidy(d)
  BY DroppedTidy
<1>2. \A A : Assembling(c, A) => Assembling(d, A)
  BY DroppedAssembling
<1> QED BY <1>1, <1>2 DEF Dropped, Turned

\* The client reads DATA on a stream it sees open.
LEMMA DataMarks ==
    ASSUME NEW c \in Conn, NEW sid \in Sids, c.seen.block = 0, c.seen.state[sid] = "open",
           NEW n \in Int, NEW end \in BOOLEAN
    PROVE  LET d == Write(c, Frame("DATA", sid, n, end, FALSE))
           IN  Marked(c, d, sid, IF end THEN "ended" ELSE "open") /\ d.window = c.window
<1> DEFINE f == Frame("DATA", sid, n, end, FALSE)
           y == Reads(c.seen, f)
           z == IF end THEN "ended" ELSE "open"
<1>1. FALSE \in BOOLEAN /\ "DATA" # "WINDOW_UPDATE" /\ c.seen \in Seen
  BY ConnType
<1>2. After(c.seen, f) = z
  BY DEF After, Frame
<1>3. y \in Seen /\ y.state = [c.seen.state EXCEPT ![sid] = z] /\ y.block = 0
  <2>1. Shows(c.seen, y, sid, After(c.seen, f), "DATA" \in {"HEADERS", "CONTINUATION"} /\ ~FALSE)
    BY <1>1, ReadsState
  <2> HIDE DEF z
  <2> QED BY <1>2, <2>1 DEF Shows
<1>4. Write(c, f) = [c EXCEPT !.seen = y]
  BY DEF Write
<1> HIDE DEF y, z
<1>5. Marked(c, Write(c, f), sid, z) /\ Write(c, f).window = c.window
  BY <1>3, <1>4 DEF Marked, Conn
<1> QED BY <1>5 DEF z, f

LEMMA DataTurned ==
    ASSUME NEW c \in Conn, NEW sid \in DOMAIN c.streams, Tidy(c), c.streams[sid].body # None,
           c.streams[sid].body.left > 0, Allowed(c, sid) > 0
    PROVE  Turned(c, SendData(c, sid), sid)
<1> DEFINE body == c.streams[sid].body
           n == Least({body.left, Allowed(c, sid)})
           end == body.kind # "stream" /\ n = body.left
           rest == [body EXCEPT !.left = body.left - n, !.readable = body.readable - n]
           w == c.window - n
           x == [c.streams[sid] EXCEPT !.window = c.streams[sid].window - n, !.body = rest]
           d == [c EXCEPT !.window = w, !.streams[sid] = x]
           e == Write(d, Frame("DATA", sid, n, end, FALSE))
           z == IF end THEN "ended" ELSE "open"
<1>1. /\ sid \in Sids /\ c.streams[sid] \in Stream /\ c.streams[sid].window \in Int /\ c.window \in Int
      /\ c.seen \in Seen /\ c.streams \in Tables
  BY ConnType
<1>2. body \in Bodies /\ body.left \in Int
  <2>1. body \in Bodies
    BY <1>1 DEF Stream
  <2> QED BY <2>1 DEF Bodies
<1>3. n \in Int /\ n > 0 /\ n <= body.left
  <2>1. MAX_FRAME \in Int
    BY H2Assumption
  <2>2. Allowed(c, sid) \in Int
    <3>1. Allowed(c, sid) \in {c.window, c.streams[sid].window, MAX_FRAME}
      BY <1>1, <2>1, LeastThree DEF Allowed
    <3> HIDE DEF Allowed
    <3> QED BY <1>1, <2>1, <3>1
  <2>3. n \in {body.left, Allowed(c, sid)} /\ n <= body.left
    BY <1>2, <2>2, LeastTwo
  <2> HIDE DEF n
  <2> QED BY <1>1, <1>2, <2>2, <2>3
<1>4. SendData(c, sid) = IF body.kind = "file" /\ body.readable < n
                         THEN Remove(WriteReset(c, sid), sid)
                         ELSE IF end THEN Remove(e, sid) ELSE e
  BY DEF SendData
<1>5. /\ c.seen.block = 0 /\ Told(c.streams[sid], c.seen.state[sid]) /\ c.seen.state[sid] = "open"
      /\ ~Spent(body)
  BY <1>2 DEF Tidy, Framed, Told, Spent
<1>6. end \in BOOLEAN /\ (end <=> (body.kind # "stream" /\ n = body.left))
  OBVIOUS
<1> HIDE DEF n, end
<1>7. /\ rest \in Bodies /\ rest.left = body.left - n /\ rest.kind = body.kind
  <2>1. body.left - n \in Nat /\ body.readable - n \in Int
    BY <1>2, <1>3 DEF Bodies
  <2> QED BY <1>2, <2>1 DEF Bodies
<1>8. ~end => ~Spent(rest)
  BY <1>2, <1>3, <1>6, <1>7 DEF Spent
<1>9. rest # None
  BY <1>7, NoBody
<1> HIDE DEF rest, body
<1>10. /\ x \in Stream /\ x.body = rest /\ x.delivered = c.streams[sid].delivered
       /\ x.refused = c.streams[sid].refused /\ x.ended = c.streams[sid].ended
       /\ x.assembling = c.streams[sid].assembling
  <2> DEFINE v == c.streams[sid].window - n
  <2>1. v \in Int
    BY <1>1, <1>3
  <2>2. x = [c.streams[sid] EXCEPT !.window = v, !.body = rest]
    OBVIOUS
  <2> HIDE DEF v, x
  <2>3. x \in Stream /\ x.body = rest
    BY <1>1, <1>7, <2>1, <2>2 DEF Stream
  <2>4. /\ x.delivered = c.streams[sid].delivered /\ x.refused = c.streams[sid].refused
        /\ x.ended = c.streams[sid].ended /\ x.assembling = c.streams[sid].assembling
    BY <1>1, <2>2 DEF Stream
  <2> QED BY <2>3, <2>4
<1> HIDE DEF x
<1> DEFINE t == [c.streams EXCEPT ![sid] = x]
<1>11. t \in Tables /\ DOMAIN t = DOMAIN c.streams /\ t[sid] = x
       /\ \A s \in DOMAIN c.streams \ {sid} : t[s] = c.streams[s]
  BY <1>1, <1>10, ChangedTable
<1>12. d = [c EXCEPT !.window = w, !.streams = t]
  BY DEF Conn
<1>13. w \in Int /\ w <= c.window
  BY <1>1, <1>3
<1> HIDE DEF t, w
<1>14. /\ d \in Conn /\ d.streams = t /\ d.pending = c.pending /\ d.ready = c.ready /\ d.last = c.last
       /\ d.continuation = c.continuation /\ d.seen = c.seen /\ d.window = w
  BY <1>11, <1>12, <1>13 DEF Conn
<1> HIDE DEF d
<1>15. Marked(d, e, sid, z) /\ e.window = w
  BY <1>1, <1>3, <1>5, <1>6, <1>14, DataMarks
<1>16. z # "broken" /\ (end => z = "ended") /\ (~end => z = "open")
  OBVIOUS
<1> HIDE DEF e, z
<1>17. CASE body.kind = "file" /\ body.readable < n
  <2>1. Dropped(c, Remove(WriteReset(c, sid), sid), sid, "reset")
    BY <1>1, <1>5, ResetMarks, MarkedDropped
  <2>2. Remove(WriteReset(c, sid), sid).window = c.window
    BY <1>1, ResetRemoveKeeps DEF Keeps
  <2>3. Turned(c, Remove(WriteReset(c, sid), sid), sid)
    BY <1>1, <2>1, <2>2, DroppedTurned
  <2> QED BY <1>4, <1>17, <2>3
<1>18. CASE ~(body.kind = "file" /\ body.readable < n) /\ end
  <2>1. Dropped(d, Remove(e, sid), sid, "ended")
    BY <1>15, <1>16, <1>18, MarkedDropped
  <2>2. Dropped(c, Remove(e, sid), sid, "ended")
    BY <1>11, <1>14, <2>1 DEF Dropped
  <2>3. e \in Conn
    BY <1>15 DEF Marked
  <2>4. Remove(e, sid).window = w
    BY <1>15, <2>3, RemoveKeeps DEF Keeps
  <2>5. Turned(c, Remove(e, sid), sid)
    BY <1>1, <1>13, <2>2, <2>4, DroppedTurned
  <2> QED BY <1>4, <1>18, <2>5
<1>19. CASE ~(body.kind = "file" /\ body.readable < n) /\ ~end
  <2>1. Moved(c, e, sid, "open")
    BY <1>10, <1>11, <1>14, <1>15, <1>16, <1>19 DEF Marked, Moved
  <2>2. e.streams[sid] = x
    BY <1>11, <1>14, <1>15 DEF Marked
  <2>3. Told(x, "open")
    BY <1>5, <1>8, <1>9, <1>10, <1>19 DEF Told
  <2>4. \A i \in DOMAIN c.ready : c.ready[i] # sid
    BY DEF Tidy, Queued
  <2>5. Tidy(e)
    BY <2>1, <2>2, <2>3, <2>4, MovedTidy
  <2>6. \A A : Assembling(c, A) => Assembling(e, A)
    BY <2>1, MovedAssembling
  <2>7. Turned(c, e, sid)
    BY <1>13, <1>15, <2>1, <2>5, <2>6 DEF Moved, Turned
  <2> QED BY <1>4, <1>19, <2>7
<1> QED BY <1>17, <1>18, <1>19

-----------------------------------------------------------------------------
(***************************************************************************)
(* Which streams wait for a turn, and the head of a response.              *)
(***************************************************************************)
LEMMA AvailOf ==
    ASSUME NEW body \in Bodies
    PROVE  /\ Avail(body) = "end" => body.left = 0
           /\ Avail(body) = "failed" => body.kind = "stream"
           /\ Avail(body) = "data" => body.left > 0
           /\ Spent(body) <=> Avail(body) = "end" /\ body.kind # "stream"
BY DEF Avail, Bodies, Spent

LEMMA TurnTurned ==
    ASSUME NEW c \in Conn, NEW sid, Turns(c, sid), Tidy(c) PROVE Turned(c, PumpTurn(c, sid), sid)
<1> DEFINE body == c.streams[sid].body
           d == Write(c, Frame("DATA", sid, 0, TRUE, FALSE))
<1>1. /\ sid \in DOMAIN c.streams /\ sid \in Sids /\ body # None
      /\ (Avail(body) \in {"end", "failed"} \/ (Avail(body) = "data" /\ Allowed(c, sid) > 0))
  BY ConnType DEF Turns
<1>2. body \in Bodies
  BY <1>1, ConnType DEF Stream
<1>3. /\ c.seen.block = 0 /\ Told(c.streams[sid], c.seen.state[sid]) /\ c.window \in Int
      /\ (~Spent(body) => c.seen.state[sid] = "open")
      /\ (ShortHeads /\ Spent(body) => c.seen.state[sid] # "open")
      /\ c.seen.state \in [Sids -> States]
  BY <1>1, ConnType DEF Tidy, Framed, Told, Seen
<1>4. CASE Avail(body) = "end" /\ body.kind = "stream"
  <2>1. PumpTurn(c, sid) = Remove(d, sid)
    BY <1>4 DEF PumpTurn
  <2>2. ~Spent(body)
    BY <1>4 DEF Spent
  <2>3. Marked(c, d, sid, "ended") /\ d.window = c.window
    <3>1. 0 \in Int /\ TRUE \in BOOLEAN
      OBVIOUS
    <3>2. Marked(c, d, sid, IF TRUE THEN "ended" ELSE "open") /\ d.window = c.window
      BY <1>1, <1>3, <2>2, <3>1, DataMarks
    <3> QED BY <3>2
  <2> HIDE DEF d
  <2>4. Dropped(c, Remove(d, sid), sid, "ended") /\ d \in Conn
    BY <2>3, MarkedDropped DEF Marked
  <2>5. Remove(d, sid).window = c.window
    BY <2>3, <2>4, RemoveKeeps DEF Keeps
  <2> QED BY <1>1, <1>3, <2>1, <2>4, <2>5, DroppedTurned
<1>5. CASE Avail(body) = "end" /\ body.kind # "stream"
  <2>1. PumpTurn(c, sid) = Remove(c, sid)
    BY <1>5 DEF PumpTurn
  <2>2. Spent(body)
    BY <1>2, <1>5, AvailOf
  <2>3. Marked(c, c, sid, c.seen.state[sid])
    BY <1>1, <1>3 DEF Marked
  <2>4. Dropped(c, Remove(c, sid), sid, c.seen.state[sid])
    BY <2>3, MarkedDropped
  <2>5. Remove(c, sid).window = c.window
    BY RemoveKeeps DEF Keeps
  <2> QED BY <1>1, <1>3, <2>1, <2>2, <2>4, <2>5, DroppedTurned
<1>6. CASE Avail(body) = "failed"
  <2>1. PumpTurn(c, sid) = Remove(WriteReset(c, sid), sid)
    BY <1>6 DEF PumpTurn
  <2>2. ~Spent(body)
    BY <1>2, <1>6, AvailOf DEF Spent
  <2>3. Dropped(c, Remove(WriteReset(c, sid), sid), sid, "reset")
    BY <1>1, <1>3, <2>2, ResetMarks, MarkedDropped
  <2>4. Remove(WriteReset(c, sid), sid).window = c.window
    BY <1>1, ResetRemoveKeeps DEF Keeps
  <2> QED BY <1>1, <1>3, <2>1, <2>3, <2>4, DroppedTurned
<1>7. CASE Avail(body) = "data" /\ Allowed(c, sid) > 0
  <2>1. PumpTurn(c, sid) = SendData(c, sid)
    BY <1>7 DEF PumpTurn
  <2> QED BY <1>1, <1>2, <1>7, <2>1, AvailOf, DataTurned
<1> QED BY <1>1, <1>4, <1>5, <1>6, <1>7

\* A stream that could not go on still cannot once another was served: the window of the
\* connection only shrinks.
LEMMA StillWaits ==
    ASSUME NEW c \in Conn, NEW d \in Conn, d.window <= c.window, NEW s \in DOMAIN c.streams,
           s \in DOMAIN d.streams, d.streams[s] = c.streams[s], Turns(d, s)
    PROVE  Turns(c, s)
<1>1. c.window \in Int /\ d.window \in Int /\ c.streams[s].window \in Int /\ MAX_FRAME \in Int
      /\ d.streams[s].window \in Int
  BY ConnType, H2Assumption
<1>2. ASSUME Allowed(d, s) > 0 PROVE Allowed(c, s) > 0
  <2>1. Allowed(d, s) \in {d.window, d.streams[s].window, MAX_FRAME}
        /\ Allowed(d, s) <= d.window /\ Allowed(d, s) <= d.streams[s].window
        /\ Allowed(d, s) <= MAX_FRAME
    BY <1>1, LeastThree DEF Allowed
  <2>2. Allowed(c, s) \in {c.window, c.streams[s].window, MAX_FRAME}
    BY <1>1, LeastThree DEF Allowed
  <2> HIDE DEF Allowed
  <2> QED BY <1>1, <1>2, <2>1, <2>2
<1> QED BY <1>2 DEF Turns

\* A stream that cannot go on has something left to send.
LEMMA WaitsUnspent ==
    ASSUME NEW c \in Conn, NEW s \in DOMAIN c.streams, ~Turns(c, s), c.streams[s].body # None
    PROVE  ~Spent(c.streams[s].body)
<1>1. c.streams[s].body \in Bodies
  BY ConnType DEF Stream
<1> QED BY <1>1, AvailOf DEF Turns

\* The client reads the head of a response.
LEMMA HeadMarks ==
    ASSUME NEW c \in Conn, NEW sid \in Sids, c.seen.block = 0, c.seen.state[sid] = "idle",
           NEW parts, NEW body
    PROVE  Marked(c, WriteHead(c, sid, parts, body), sid,
                  IF parts = 1 /\ ~HasBody(body) THEN "ended" ELSE "open")
<1> DEFINE end == ~HasBody(body)
           f1 == Frame("HEADERS", sid, 0, end, TRUE)
           f2 == Frame("HEADERS", sid, 0, FALSE, FALSE)
           f3 == Frame("CONTINUATION", sid, 0, FALSE, TRUE)
           d == Write(c, f2)
<1>1. end \in BOOLEAN /\ TRUE \in BOOLEAN /\ FALSE \in BOOLEAN /\ 0 \in Int /\ c.seen \in Seen
      /\ c.seen.state \in [Sids -> States]
      /\ "HEADERS" # "WINDOW_UPDATE" /\ "CONTINUATION" # "WINDOW_UPDATE"
  BY ConnType DEF Seen
<1> HIDE DEF end
<1>2. CASE parts = 1
  <2> DEFINE y == Reads(c.seen, f1)
             z == IF end THEN "ended" ELSE "open"
  <2>1. After(c.seen, f1) = z
    BY DEF After, Frame
  <2>2. Shows(c.seen, y, sid, After(c.seen, f1), "HEADERS" \in {"HEADERS", "CONTINUATION"} /\ ~TRUE)
    BY <1>1, ReadsState
  <2> HIDE DEF z
  <2>3. y \in Seen /\ y.state = [c.seen.state EXCEPT ![sid] = z] /\ y.block = 0
    BY <2>1, <2>2 DEF Shows
  <2>4. WriteHead(c, sid, parts, body) = [c EXCEPT !.seen = y]
    BY <1>2 DEF WriteHead, Write, end
  <2> HIDE DEF y
  <2>5. Marked(c, WriteHead(c, sid, parts, body), sid, z)
    BY <2>3, <2>4 DEF Marked, Conn
  <2> QED BY <1>2, <2>5 DEF z, end
<1>3. CASE parts # 1
  <2> DEFINE y == Reads(c.seen, f2)
             x == Reads(y, f3)
  <2>1. After(c.seen, f2) = "open"
    BY DEF After, Frame
  <2>2. Shows(c.seen, y, sid, After(c.seen, f2), "HEADERS" \in {"HEADERS", "CONTINUATION"} /\ ~FALSE)
    BY <1>1, ReadsState
  <2>3. y \in Seen /\ y.state = [c.seen.state EXCEPT ![sid] = "open"] /\ y.block = sid
    BY <2>1, <2>2 DEF Shows
  <2> HIDE DEF y
  <2>4. After(y, f3) = "open"
    <3>1. y.state[sid] = "open" /\ sid # 0
      BY <1>1, <2>3, H2Assumption
    <3> QED BY <2>3, <3>1 DEF After, Frame
  <2>5. Shows(y, x, sid, After(y, f3), "CONTINUATION" \in {"HEADERS", "CONTINUATION"} /\ ~TRUE)
    BY <1>1, <2>3, ReadsState
  <2>6. x \in Seen /\ x.state = [c.seen.state EXCEPT ![sid] = "open"] /\ x.block = 0
    BY <1>1, <2>3, <2>4, <2>5 DEF Shows
  <2>7. WriteHead(c, sid, parts, body) = [c EXCEPT !.seen = x]
    BY <1>3 DEF WriteHead, Write, y, Conn
  <2> HIDE DEF x
  <2>8. Marked(c, WriteHead(c, sid, parts, body), sid, "open")
    BY <2>6, <2>7 DEF Marked, Conn
  <2> QED BY <1>3, <2>8
<1> QED BY <1>2, <1>3

-----------------------------------------------------------------------------
(***************************************************************************)
(* The body of one stream: Serve and the producers.                        *)
(***************************************************************************)
\* The body of one stream changes.
LEMMA BodyMoves ==
    ASSUME NEW c \in Conn, NEW sid \in DOMAIN c.streams, NEW b \in Bodies
    PROVE  LET d == [c EXCEPT !.streams[sid].body = b]
           IN  Moved(c, d, sid, c.seen.state[sid]) /\ d.streams[sid].body = b /\ d.seen = c.seen
<1> DEFINE x == [c.streams[sid] EXCEPT !.body = b]
           t == [c.streams EXCEPT ![sid] = x]
           d == [c EXCEPT !.streams = t]
<1>1. c.streams[sid] \in Stream /\ sid \in Sids /\ c.seen.state \in [Sids -> States]
  BY ConnType DEF Seen
<1>2. /\ x \in Stream /\ x.body = b /\ x.delivered = c.streams[sid].delivered
      /\ x.refused = c.streams[sid].refused /\ x.ended = c.streams[sid].ended
      /\ x.assembling = c.streams[sid].assembling
  BY <1>1 DEF Stream
<1> HIDE DEF x
<1>3. t \in Tables /\ DOMAIN t = DOMAIN c.streams /\ t[sid] = x
      /\ \A s \in DOMAIN c.streams \ {sid} : t[s] = c.streams[s]
  BY <1>2, ConnType, ChangedTable
<1>4. [c EXCEPT !.streams[sid].body = b] = d
  BY DEF Conn, x
<1> HIDE DEF t
<1>5. d.streams = t /\ d.seen = c.seen
  BY DEF Conn
<1>6. Moved(c, d, sid, c.seen.state[sid])
  BY <1>1, <1>2, <1>3 DEF Moved, Conn
<1> QED BY <1>2, <1>3, <1>4, <1>5, <1>6

\* A request that is no longer ready is answered once.
LEMMA AnswerTidy ==
    ASSUME NEW c \in Conn, Tidy(c), NEW sid, NEW r \in Responses,
           \A i \in DOMAIN c.ready : c.ready[i] # sid,
           sid \in DOMAIN c.streams => c.streams[sid].delivered /\ c.streams[sid].body = None
    PROVE  LET d == Answer(c, sid, r)
           IN  /\ Tidy(d) /\ d.continuation = c.continuation
               /\ \A A : Assembling(c, A) => Assembling(d, A)
<1>1. CASE sid \notin DOMAIN c.streams
  BY <1>1 DEF Answer
<1>2. CASE sid \in DOMAIN c.streams
  <2> DEFINE b == OutBody(r)
             d == [c EXCEPT !.streams[sid].body = b]
             e == WriteHead(d, sid, r.head, b)
             z == IF r.head = 1 /\ ~HasBody(b) THEN "ended" ELSE "open"
  <2>1. b \in Bodies
    BY H2Assumption DEF OutBody, Bodies
  <2>2. ShortHeads => HasBody(b) \/ r.head = 1
    BY DEF ShortHeads
  <2> HIDE DEF b
  <2>3. HasBody(b) <=> ~Spent(b)
    BY <2>1 DEF HasBody, Spent, Bodies
  <2>4. c.seen.state[sid] = "idle" /\ c.seen.block = 0 /\ sid \in Sids
        /\ c.seen.state \in [Sids -> States] /\ Told(c.streams[sid], c.seen.state[sid])
    BY <1>2, ConnType DEF Tidy, Framed, Told, Seen
  <2>5. Moved(c, d, sid, c.seen.state[sid]) /\ d.streams[sid].body = b /\ d.seen = c.seen
    BY <1>2, <2>1, BodyMoves
  <2> HIDE DEF d
  <2>6. d \in Conn
    BY <2>5 DEF Moved
  <2>7. Marked(d, e, sid, z)
    BY <2>4, <2>5, <2>6, HeadMarks
  <2>8. Answer(c, sid, r) = e
    BY <1>2 DEF Answer, b, d
  <2>9. z # "broken" /\ (z = "open" \/ z = "ended") /\ (z = "ended" <=> r.head = 1 /\ ~HasBody(b))
    OBVIOUS
  <2> HIDE DEF e, z
  <2>10. e.streams[sid].body = b
    BY <2>5, <2>7 DEF Marked
  <2>11. Moved(c, e, sid, z)
    BY <2>4, <2>5, <2>7 DEF Moved, Marked
  <2>12. Told(e.streams[sid], z)
    <3>1. e.streams[sid].delivered /\ e.streams[sid].ended /\ ~e.streams[sid].refused
      BY <1>2, <2>4, <2>11 DEF Moved, Told
    <3>2. b # None
      BY <2>1, NoBody
    <3>3. ShortHeads /\ Spent(b) => z = "ended"
      BY <2>2, <2>3, <2>9
    <3> QED BY <2>3, <2>9, <2>10, <3>1, <3>2, <3>3 DEF Told
  <2>13. Tidy(e)
    BY <1>2, <2>9, <2>11, <2>12, MovedTidy
  <2>14. \A A : Assembling(c, A) => Assembling(e, A)
    BY <1>2, <2>11, MovedAssembling
  <2> QED BY <2>8, <2>11, <2>13, <2>14 DEF Moved
<1> QED BY <1>1, <1>2

LEMMA ServeTidy ==
    ASSUME conn \in Conn, Tidy(conn), Serve
    PROVE  /\ Tidy(conn') /\ conn'.continuation = conn.continuation
           /\ \A A : Assembling(conn, A) => Assembling(conn', A)
<1> DEFINE q == Tail(conn.ready)
           d == [conn EXCEPT !.ready = q]
           sid == Head(conn.ready)
<1>1. PICK r \in Responses : conn' = Answer(d, sid, r)
  BY DEF Serve
<1>2. conn.ready \in Seq(Sids) /\ conn.ready # <<>>
  BY Numbers DEF Serve
<1>3. /\ q \in Seq(Sids) /\ Len(conn.ready) \in Nat \ {0}
      /\ sid = conn.ready[1] /\ DOMAIN q = 1..(Len(conn.ready) - 1)
      /\ DOMAIN conn.ready = 1..Len(conn.ready)
      /\ \A i \in DOMAIN q : q[i] = conn.ready[i + 1]
  BY <1>2
<1> HIDE DEF q, sid
<1>4. /\ d \in Conn /\ d.ready = q /\ d.streams = conn.streams /\ d.pending = conn.pending
      /\ d.last = conn.last /\ d.seen = conn.seen /\ d.continuation = conn.continuation
  BY <1>3 DEF Conn
<1> HIDE DEF d
<1>5. Queued(conn)
  BY DEF Tidy
<1>6. \A i \in DOMAIN q : i + 1 \in DOMAIN conn.ready /\ i + 1 # 1 /\ i \in Int
  BY <1>3
<1>7. 1 \in DOMAIN conn.ready
  BY <1>3
<1>8. Queued(d)
  <2>1. ASSUME NEW i \in DOMAIN q, NEW j \in DOMAIN q, q[i] = q[j] PROVE i = j
    <3>1. i + 1 = j + 1
      BY <1>3, <1>5, <1>6, <2>1 DEF Queued
    <3> QED BY <1>6, <3>1
  <2> QED BY <1>3, <1>4, <1>5, <1>6, <2>1 DEF Queued
<1>9. Tidy(d)
  <2>1. Accepted(d) = Accepted(conn)
    BY <1>4 DEF Accepted
  <2> QED BY <1>4, <1>8, <2>1 DEF Tidy, Room, Waiting, Framed
<1>10. \A i \in DOMAIN d.ready : d.ready[i] # sid
  BY <1>3, <1>4, <1>5, <1>6, <1>7 DEF Queued
<1>11. sid \in DOMAIN d.streams => d.streams[sid].delivered /\ d.streams[sid].body = None
  BY <1>3, <1>4, <1>5, <1>7 DEF Queued
<1>12. /\ Tidy(conn') /\ conn'.continuation = d.continuation
       /\ \A A : Assembling(d, A) => Assembling(conn', A)
  BY <1>1, <1>4, <1>9, <1>10, <1>11, AnswerTidy
<1>13. \A A : Assembling(conn, A) => Assembling(d, A)
  BY <1>4 DEF Assembling
<1> QED BY <1>4, <1>12, <1>13

LEMMA ProducerTidy ==
    ASSUME conn \in Conn, Tidy(conn), NEW s \in Sids, Produce(s) \/ EndBody(s)
    PROVE  /\ Tidy(conn') /\ conn'.continuation = conn.continuation
           /\ \A A : Assembling(conn, A) => Assembling(conn', A)
           /\ DOMAIN conn'.streams = DOMAIN conn.streams
           /\ \A i \in DOMAIN conn.streams \ {s} : conn'.streams[i] = conn.streams[i]
           /\ s \in DOMAIN conn.streams /\ ~Spent(conn'.streams[s].body)
<1> DEFINE body == conn.streams[s].body
           With(b) == [conn EXCEPT !.streams[s].body = b]
<1>1. s \in DOMAIN conn.streams /\ body # None /\ body.kind = "stream"
  BY DEF Produce, EndBody, Produces
<1>2. body \in Bodies
  BY <1>1, ConnType DEF Stream
<1>3. PICK b \in Bodies : conn' = With(b) /\ b.kind = "stream"
  <2>1. CASE Produce(s)
    <3> DEFINE b == [body EXCEPT !.left = body.left + 1]
    <3>1. conn' = With(b)
      BY <2>1 DEF Produce, Conn
    <3>2. b \in Bodies /\ b.kind = "stream"
      BY <1>1, <1>2 DEF Bodies
    <3> HIDE DEF b, With
    <3> QED BY <3>1, <3>2
  <2>2. CASE EndBody(s)
    <3>1. PICK how \in {"finished", "aborted"} : conn' = [conn EXCEPT !.streams[s].body.over = how]
      BY <2>2 DEF EndBody
    <3> DEFINE b == [body EXCEPT !.over = how]
    <3>2. conn' = With(b)
      BY <3>1 DEF Conn
    <3>3. b \in Bodies /\ b.kind = "stream"
      BY <1>1, <1>2 DEF Bodies
    <3> HIDE DEF b, With
    <3> QED BY <3>2, <3>3
  <2> QED BY <2>1, <2>2
<1> DEFINE z == conn.seen.state[s]
<1>4. Moved(conn, conn', s, z) /\ conn'.streams[s].body = b
  BY <1>1, <1>3, BodyMoves
<1>5. /\ Told(conn.streams[s], z) /\ z # "broken" /\ s \in Sids
      /\ \A i \in DOMAIN conn.ready : conn.ready[i] # s
  BY <1>1 DEF Tidy, Framed, Queued
<1>6. z = "open" /\ ~Spent(b) /\ b # None
  BY <1>1, <1>3, <1>5, NoBody DEF Told, Spent
<1> HIDE DEF z
<1>7. Told(conn'.streams[s], z)
  BY <1>1, <1>4, <1>5, <1>6 DEF Moved, Told
<1>8. Tidy(conn')
  BY <1>1, <1>4, <1>5, <1>7, MovedTidy
<1>9. \A A : Assembling(conn, A) => Assembling(conn', A)
  BY <1>1, <1>4, MovedAssembling
<1> QED BY <1>1, <1>4, <1>6, <1>8, <1>9 DEF Moved

-----------------------------------------------------------------------------
(***************************************************************************)
(* pump_out from stream to stream, and what a pass leaves behind.          *)
(***************************************************************************)
\* Stream s is sent as far as it goes.
SentOut(s) == Passed(s) /\ (conn.streams[s].body # None => ~Spent(conn.streams[s].body))

\* What each turn of pump_out leaves of the streams it has passed.
LEMMA PumpOutPumped ==
    ASSUME conn \in Conn, conn' \in Conn, Tidy(conn), Pumped, PumpOut
    PROVE  /\ Tidy(conn') /\ Pumped' /\ conn'.continuation = conn.continuation
           /\ \A A : Assembling(conn, A) => Assembling(conn', A)
<1>1. /\ at = "pump" /\ then' = then /\ woken' = woken /\ visit \in Nat
      /\ then \in {"serve", "sent"} /\ DOMAIN conn.streams \subseteq Sids /\ \A s \in Sids : s \in Nat
  BY ConnType, H2Assumption DEF PumpOut, Pumped
<1>2. \A s \in DOMAIN conn.streams : s < visit => SentOut(s)
  BY <1>1 DEF Pumped, SentOut
<1>3. ASSUME NEW s \in DOMAIN conn.streams, ~Turns(conn, s) PROVE SentOut(s)
  BY <1>3, WaitsUnspent DEF SentOut, Passed
<1>4. CASE ToPump = {} /\ at' = then /\ UNCHANGED <<conn, visit>>
  <2>1. \A s \in DOMAIN conn.streams : s >= visit => ~Turns(conn, s)
    BY <1>1, <1>4 DEF ToPump
  <2>2. \A s \in DOMAIN conn.streams : SentOut(s)
    BY <1>1, <1>2, <1>3, <2>1
  <2>3. Pumped'
    BY <1>1, <1>4, <2>2 DEF Pumped, SentOut, Passed, NoneSpent
  <2> QED BY <1>4, <2>3
<1>5. CASE \E sid \in ToPump : /\ \A s \in ToPump : sid <= s
                               /\ visit' = sid /\ conn' = PumpTurn(conn, sid) /\ UNCHANGED at
  <2>1. PICK sid \in ToPump : /\ \A s \in ToPump : sid <= s
                              /\ visit' = sid /\ conn' = PumpTurn(conn, sid) /\ at' = at
    BY <1>5
  <2>2. sid \in Sids /\ Turns(conn, sid) /\ sid \in Nat
    BY <1>1 DEF ToPump
  <2>3. Turned(conn, conn', sid)
    BY <2>1, <2>2, TurnTurned
  <2>4. ASSUME NEW s \in DOMAIN conn.streams, s < sid PROVE SentOut(s)
    <3>1. CASE s < visit
      BY <1>2, <3>1
    <3>2. CASE ~(s < visit)
      <4>0. s \in Nat /\ visit \in Nat /\ sid \in Nat
        BY <1>1, <2>2
      <4>1. s >= visit /\ ~(sid <= s)
        BY <2>4, <3>2, <4>0
      <4>2. ~Turns(conn, s)
        BY <1>1, <2>1, <4>1 DEF ToPump
      <4> QED BY <1>3, <4>2
    <3> QED BY <3>1, <3>2
  <2>5. ASSUME NEW s \in DOMAIN conn'.streams, s < sid
        PROVE  Passed(s)' /\ (conn'.streams[s].body # None => ~Spent(conn'.streams[s].body))
    <3>1. s \in DOMAIN conn.streams /\ s # sid /\ conn'.streams[s] = conn.streams[s]
          /\ conn'.window <= conn.window
      BY <2>2, <2>3, <2>5 DEF Turned
    <3>2. SentOut(s)
      BY <2>4, <2>5, <3>1
    <3>3. Turns(conn', s) => Turns(conn, s)
      BY <2>5, <3>1, StillWaits
    <3>4. Turns(conn', s) => woken'
      BY <1>1, <3>2, <3>3 DEF SentOut, Passed
    <3>5. Passed(s)'
      BY <3>4 DEF Passed
    <3> QED BY <3>1, <3>2, <3>5 DEF SentOut
  <2>6. Pumped'
    BY <1>1, <2>1, <2>2, <2>5 DEF Pumped
  <2> QED BY <2>3, <2>6 DEF Turned
<1> QED BY <1>4, <1>5 DEF PumpOut

\* pump_out begins again at the first stream.
LEMMA BeginsPumped ==
    ASSUME conn' \in Conn, NEW next \in {"serve", "sent"}, Pump(next) PROVE Pumped'
<1>1. at' = "pump" /\ visit' = 0 /\ then' = next
  BY DEF Pump
<1>2. \A s \in DOMAIN conn'.streams : ~(s < 0)
  <2>1. DOMAIN conn'.streams \subseteq Sids
    BY ConnType
  <2>2. \A s \in Sids : ~(s < 0)
    BY H2Assumption
  <2> QED BY <2>1, <2>2
<1> QED BY <1>1, <1>2 DEF Pumped

LEMMA InitJInv == Init => JInv
<1> SUFFICES ASSUME Init PROVE JInv
  OBVIOUS
<1>1. IInv
  BY InitIInv
<1>2. /\ DOMAIN conn.streams = {} /\ conn.ready = <<>> /\ conn.pending = {} /\ conn.last = 0
      /\ conn.seen.block = 0 /\ \A s \in Sids : conn.seen.state[s] = "idle"
  BY DEF Init, NewConn
<1>3. Queued(conn) /\ Waiting(conn)
  BY <1>2 DEF Queued, Waiting
<1>4. Room(conn)
  <2>1. Accepted(conn) = {}
    BY <1>2 DEF Accepted
  <2>2. IsFiniteSet({}) /\ Cardinality({}) = 0
    BY FS_EmptySet
  <2> QED BY <1>2, <2>1, <2>2, H2Assumption DEF Room
<1>5. Framed(conn)
  BY <1>2 DEF Framed
<1>6. Pumped
  BY <1>2 DEF Pumped, NoneSpent, Init
<1>7. Assembling(conn, {conn.continuation})
  BY <1>2 DEF Assembling
<1> QED BY <1>1, <1>3, <1>4, <1>5, <1>6, <1>7 DEF JInv, Tidy

LEMMA NextJInv == JInv /\ [Next]_vars => JInv'
<1> SUFFICES ASSUME JInv, [Next]_vars PROVE JInv'
  OBVIOUS
<1>1. /\ conn \in Conn /\ Tidy(conn) /\ Pumped /\ IInv
      /\ ~conn.closed => Assembling(conn, {conn.continuation})
  BY DEF JInv, IInv, Sound
<1>2. IInv' /\ conn' \in Conn
  <2>1. IInv'
    BY <1>1, NextIInv
  <2> QED BY <2>1 DEF IInv, Sound
\* A step of the server leaves the connection closed and adds no header block.
<1>3. ASSUME Tidy(conn'), Pumped', conn'.continuation = conn.continuation, conn.closed => conn'.closed,
             \A A : Assembling(conn, A) => Assembling(conn', A)
      PROVE  JInv'
  BY <1>1, <1>2, <1>3 DEF JInv
<1>4. (\E f \in ClientFrames : Receive(f)) \/ (conn.closed => conn'.closed)
  BY <1>1, StepServes DEF Serves
<1>5. CASE Preface
  <2>1. conn' = conn \/ conn' = ConnError(conn)
    BY <1>5 DEF Preface
  <2>2. Alike(conn, conn')
    BY <1>1, <2>1, FieldsAlike
  <2>3. Tidy(conn') /\ conn'.continuation = conn.continuation
        /\ (\A A : Assembling(conn, A) => Assembling(conn', A))
        /\ (NoneSpent(conn) => NoneSpent(conn'))
    BY <1>1, <2>2, AgreeTidy, AlikeAssembling DEF Alike, Agree
  <2>4. Pumped'
    BY <1>1, <1>5, <2>3 DEF Preface, Pumped, Passed
  <2>5. conn.closed => conn'.closed
    BY <1>4, <1>5 DEF Preface, Receive
  <2> QED BY <1>3, <2>3, <2>4, <2>5
<1>6. CASE EndPass \/ Wake \/ ToSend \/ Sent
  <2>1. conn' = conn
    BY <1>6 DEF EndPass, Wake, ToSend, Sent
  <2>2. Pumped'
    <3>1. CASE EndPass \/ Wake \/ (ToSend /\ ~conn.closed)
      BY <1>2, <3>1, BeginsPumped DEF EndPass, Wake, ToSend
    <3>2. CASE (ToSend /\ conn.closed) \/ Sent
      BY <1>1, <2>1, <3>2 DEF ToSend, Sent, Pumped, Passed, NoneSpent
    <3> QED BY <1>6, <3>1, <3>2
  <2> QED BY <1>1, <1>3, <2>1, <2>2
<1>7. CASE PumpOut
  <2>1. conn.closed => conn'.closed
    BY <1>4, <1>7 DEF PumpOut, Receive
  <2> QED BY <1>1, <1>2, <1>3, <1>7, <2>1, PumpOutPumped
<1>8. CASE Serve
  <2>1. Pumped'
    BY <1>2, <1>8, BeginsPumped DEF Serve
  <2>2. conn.closed => conn'.closed
    BY <1>4, <1>8 DEF Serve, Receive
  <2> QED BY <1>1, <1>3, <1>8, <2>1, <2>2, ServeTidy
<1>9. CASE \E f \in ClientFrames : Receive(f)
  <2>1. PICK f \in ClientFrames : Receive(f)
    BY <1>9
  <2>2. ~conn.closed /\ at # "pump" /\ at' = "parse" /\ visit' = visit /\ then' = then
    BY <2>1 DEF Receive
  <2>3. Handled(conn)
    BY <1>1, <2>2 DEF Handled, Pumped
  <2>4. Handled(conn')
    BY <1>1, <2>1, <2>3, ReceiveHandled
  <2>5. Pumped'
    BY <1>1, <2>2, <2>4 DEF Handled, Pumped
  <2> QED BY <1>2, <2>4, <2>5 DEF Handled, JInv
<1>10. CASE \E s \in Sids : Produce(s) \/ EndBody(s)
  <2>1. PICK s \in Sids : Produce(s) \/ EndBody(s)
    BY <1>10
  <2>2. /\ Tidy(conn') /\ conn'.continuation = conn.continuation
        /\ \A A : Assembling(conn, A) => Assembling(conn', A)
        /\ DOMAIN conn'.streams = DOMAIN conn.streams
        /\ \A i \in DOMAIN conn.streams \ {s} : conn'.streams[i] = conn.streams[i]
        /\ s \in DOMAIN conn.streams /\ ~Spent(conn'.streams[s].body)
    BY <1>1, <2>1, ProducerTidy
  <2>3. woken' /\ at' = at /\ visit' = visit /\ then' = then /\ conn.closed = conn'.closed
    <3>1. conn.closed = conn'.closed
      BY <1>1, <2>1 DEF Produce, EndBody, Conn
    <3> QED BY <2>1, <3>1 DEF Produce, EndBody
  <2>4. Pumped'
    BY <1>1, <2>2, <2>3 DEF Pumped, Passed, NoneSpent
  <2> QED BY <1>3, <2>2, <2>3, <2>4
<1>11. CASE UNCHANGED vars
  <2>1. conn' = conn /\ Pumped'
    BY <1>1, <1>11 DEF vars, Pumped, Passed, NoneSpent
  <2> QED BY <1>1, <1>3, <2>1
<1> QED BY <1>5, <1>6, <1>7, <1>8, <1>9, <1>10, <1>11 DEF Next

LEMMA HoldsJInv == Spec => []JInv
BY InitJInv, NextJInv, PTL DEF Spec

\* A request reaches the handler once, whole, and within the cap on streams
\* (finish_headers, on_data, deliver).
THEOREM EachRequestOnce == Spec => []RequestsOnce
<1>1. JInv => RequestsOnce
  <2> SUFFICES ASSUME JInv PROVE RequestsOnce
    OBVIOUS
  <2>1. conn \in Conn /\ Queued(conn) /\ Room(conn) /\ Waiting(conn) /\ Framed(conn)
    BY DEF JInv, IInv, Sound, Tidy
  <2>2. \A s \in DOMAIN conn.streams :
           conn.streams[s].delivered => conn.streams[s].ended /\ ~conn.streams[s].refused
    BY <2>1 DEF Framed, Told
  <2> DEFINE D == {s \in DOMAIN conn.streams : conn.streams[s].delivered}
  <2>3. D \subseteq Accepted(conn) /\ Accepted(conn) \subseteq DOMAIN conn.streams
    BY <2>2 DEF Accepted
  <2>4. IsFiniteSet(Accepted(conn)) /\ Cardinality(Accepted(conn)) <= MAX_CONCURRENT_STREAMS
    BY <2>1, <2>3, FS_Subset DEF Room
  <2>5. Cardinality(D) <= MAX_CONCURRENT_STREAMS
    <3>1. Cardinality(D) <= Cardinality(Accepted(conn)) /\ IsFiniteSet(D)
      BY <2>3, <2>4, FS_Subset
    <3>2. Cardinality(D) \in Nat /\ Cardinality(Accepted(conn)) \in Nat
      BY <2>4, <3>1, FS_CardinalityType
    <3> HIDE DEF D
    <3> QED BY <2>4, <3>1, <3>2, H2Assumption
  <2>6. conn.pending \subseteq DOMAIN conn.streams /\ \A s \in conn.pending : ~conn.streams[s].refused
    BY <2>1 DEF Waiting, Accepted
  <2> QED BY <2>1, <2>2, <2>5, <2>6 DEF RequestsOnce, Queued
<1> QED BY <1>1, HoldsJInv, PTL

\* Whatever the client sends and when, what it reads on each stream is well framed
\* (write_reset, emit_headers, pump_out).
THEOREM WellFramed == Spec => []StreamsWellFramed
<1>1. JInv => StreamsWellFramed
  BY DEF JInv, Tidy, Framed, StreamsWellFramed
<1> QED BY <1>1, HoldsJInv, PTL

\* When the thread waits, whatever pump_out left is out of credit or waits for its producer,
\* although a pass goes over the streams once and each turn spends the connection's credit
\* (pump_out, Session::to_send).
THEOREM NothingLeft == Spec => []NothingLeftBehind
<1>1. JInv => NothingLeftBehind
  BY DEF JInv, Pumped, Passed, NothingLeftBehind, Turns
<1> QED BY <1>1, HoldsJInv, PTL

\* Every response that began comes to its end or its stream is still in the table, as
\* long as the heads of responses without a body fit one frame.
THEOREM ResponsesEnd == ASSUME ShortHeads PROVE Spec => []AnswersEnd
<1>1. JInv => AnswersEnd
  BY DEF JInv, Tidy, Framed, AnswersEnd
<1> QED BY <1>1, HoldsJInv, PTL

\* A sized body's END_STREAM rides on its HEADERS or on its last DATA frame (emit_headers,
\* pump_out), as long as the heads of responses without a body fit one frame.
THEOREM EndRides == ASSUME ShortHeads PROVE Spec => []EndHasRidden
<1>1. JInv => EndHasRidden
  <2> SUFFICES ASSUME JInv, NEW s \in DOMAIN conn.streams, conn.streams[s].body # None,
                      conn.streams[s].body.kind # "stream", conn.streams[s].body.left = 0
               PROVE  conn.seen.state[s] = "ended"
    BY DEF EndHasRidden
  <2>1. Told(conn.streams[s], conn.seen.state[s])
    BY DEF JInv, Tidy, Framed
  <2> QED BY <2>1 DEF Told, Spent
<1> QED BY <1>1, HoldsJInv, PTL

=============================================================================
