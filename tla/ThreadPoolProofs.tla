---------------------------- MODULE ThreadPoolProofs ----------------------------
(***************************************************************************)
(* Proofs about ThreadPool for any number of connections, workers and      *)
(* addresses and any limits.                                               *)
(***************************************************************************)
EXTENDS ThreadPool, FiniteSetTheorems, TLAPS

Busy(w)   == worker[w] \in {"serve", "release"}
InHand(c) == conn[c] \in {"accepted", "admitted", "counted", "over", "shed"}

\* Every connection at the main listener that was admitted is in one pair of
\* hands: the accept loop's, the queue's or a worker's.
Owners ==
    /\ \A c \in Conns : conn[c] = "queued" => \E i \in DOMAIN queue : queue[i] = c
    /\ \A i \in DOMAIN queue : conn[queue[i]] = "queued" /\ door[queue[i]] = "main"
    /\ \A i, j \in DOMAIN queue : queue[i] = queue[j] => i = j
    /\ \A c \in Conns : door[c] = "main" /\ conn[c] \in {"serving", "served"}
                           => \E w \in Workers : Busy(w) /\ job[w] = c
    /\ \A w \in Workers : Busy(w) => /\ job[w] \in Conns /\ door[job[w]] = "main"
                                     /\ conn[job[w]] = IF worker[w] = "serve" THEN "serving"
                                                                             ELSE "served"
    /\ \A v, w \in Workers : Busy(v) /\ Busy(w) /\ job[v] = job[w] => v = w
    /\ \A c \in Conns : conn[c] \in {"counted", "over", "shed", "panicked", "ending"}
                           => door[c] = "http"

\* An accept loop has at most one connection in hand, and then only while busy.
Hands ==
    /\ \A c \in Conns : InHand(c) => loop[door[c]] = "busy"
    /\ \A c, d \in Conns : InHand(c) /\ InHand(d) /\ door[c] = door[d] => c = d

\* Workers leave when the channel is closed and empty, and are joined.
Leaving ==
    /\ \A w \in Workers : worker[w] = "gone" => queue = <<>> /\ loop["main"] \in {"drain", "returned"}
    /\ loop["main"] = "returned" => \A w \in Workers : worker[w] = "gone"

Types ==
    /\ door \in [Conns -> Doors] /\ ip \in [Conns -> Peers \cup {None}]
    /\ conn \in [Conns -> {"away", "arrived", "accepted", "admitted", "queued", "serving", "served",
                           "counted", "over", "shed", "panicked", "ending", "closed"}]
    /\ loop \in [Doors -> {"check", "accept", "busy", "drain", "returned", "ended"}]
    /\ queue \in Seq(Conns) /\ rxLock \in Workers \cup {None}
    /\ worker \in [Workers -> {"lock", "recv", "serve", "release", "gone"}]
    /\ job \in [Workers -> Conns \cup {None}] /\ shutdown \in BOOLEAN

-----------------------------------------------------------------------------
(* Who holds what.                                                          *)

Structure == Types /\ Owners /\ Hands /\ Leaving

LEMMA StructureInit == Init => Structure
<1> SUFFICES ASSUME Init PROVE Structure
  OBVIOUS
<1>1. Types
  <2>1. queue \in Seq(Conns)
    BY DEF Init
  <2> QED BY <2>1 DEF Init, Types, Doors
<1>2. \A c \in Conns : conn[c] = "away"
  BY DEF Init
<1>3. queue = <<>> /\ \A w \in Workers : worker[w] = "lock"
  BY DEF Init
<1>4. loop["main"] = "check"
  BY DEF Init, Doors
<1> QED BY <1>1, <1>2, <1>3, <1>4 DEF Structure, Owners, Hands, Leaving, Busy, InHand

\* One connection moves between states no queue and no worker knows about.
LEMMA Aside ==
    ASSUME Structure, NEW c \in Conns, NEW s, Becomes(c, s),
           UNCHANGED <<client, queue, worker, job>>,
           conn[c] # "queued", s # "queued",
           conn[c] \in {"serving", "served"} => door[c] = "http",
           s \in {"serving", "served"} => door[c] = "http",
           s \in {"counted", "over", "shed", "panicked", "ending"} => door[c] = "http"
    PROVE  Owners'
<1>1. \A d \in Conns : conn'[d] = IF d = c THEN s ELSE conn[d]
  BY DEF Becomes, Structure, Types
<1>2. UNCHANGED <<door, queue, worker, job>>
  BY DEF client
<1>3. \A i \in DOMAIN queue : queue[i] \in Conns /\ queue[i] # c
  BY DEF Structure, Types, Owners
<1>4. \A w \in Workers : Busy(w) => job[w] # c
  BY DEF Structure, Owners, Busy
<1>5. \A w \in Workers : Busy(w)' <=> Busy(w)
  BY <1>2 DEF Busy
<1>6. (\A d \in Conns : conn[d] = "queued" => \E i \in DOMAIN queue : queue[i] = d)'
  BY <1>1, <1>2 DEF Structure, Owners
<1>7. (\A i \in DOMAIN queue : conn[queue[i]] = "queued" /\ door[queue[i]] = "main")'
  BY <1>1, <1>2, <1>3 DEF Structure, Owners
<1>8. (\A d \in Conns : door[d] = "main" /\ conn[d] \in {"serving", "served"}
                           => \E w \in Workers : Busy(w) /\ job[w] = d)'
  BY <1>1, <1>2, <1>5 DEF Structure, Owners
<1>9. (\A w \in Workers : Busy(w) => /\ job[w] \in Conns /\ door[job[w]] = "main"
                                     /\ conn[job[w]] = IF worker[w] = "serve" THEN "serving"
                                                                             ELSE "served")'
  BY <1>1, <1>2, <1>4, <1>5 DEF Structure, Owners
<1>10. (\A d \in Conns : conn[d] \in {"counted", "over", "shed", "panicked", "ending"}
                           => door[d] = "http")'
  BY <1>1, <1>2 DEF Structure, Owners
<1>11. (\A i, j \in DOMAIN queue : queue[i] = queue[j] => i = j)'
  BY <1>2 DEF Structure, Owners
<1>12. (\A v, w \in Workers : Busy(v) /\ Busy(w) /\ job[v] = job[w] => v = w)'
  BY <1>2, <1>5 DEF Structure, Owners
<1> QED BY <1>6, <1>7, <1>8, <1>9, <1>10, <1>11, <1>12 DEF Owners

\* A connection that an accept loop has in hand stays there or is let go of.
LEMMA HandKept ==
    ASSUME Structure, NEW c \in Conns, NEW s, Becomes(c, s), UNCHANGED client,
           \/ loop' = loop
           \/ InHand(c) /\ \E at : Loop(door[c], at),
           InHand(c)' => InHand(c) /\ loop' = loop
    PROVE  Hands'
<1>1. \A e \in Conns : conn'[e] = IF e = c THEN s ELSE conn[e]
  BY DEF Becomes, Structure, Types
<1>2. \A e \in Conns : InHand(e)' => InHand(e)
  BY <1>1 DEF InHand
<1>3. door' = door
  BY DEF client
<1>4. CASE loop' = loop
  BY <1>2, <1>3, <1>4 DEF Hands, Structure
<1>5. CASE InHand(c) /\ ~InHand(c)' /\ \E at : Loop(door[c], at)
  <2>1. \A e \in Conns : InHand(e)' => door[e] # door[c]
    BY <1>2, <1>5 DEF Hands, Structure
  <2>2. \A e \in Conns : InHand(e)' => loop'[door[e]] = "busy"
    BY <1>2, <1>5, <2>1 DEF Hands, Structure, Loop, Types
  <2> QED BY <1>2, <1>3, <2>2 DEF Hands, Structure
<1> QED BY <1>4, <1>5

\* A loop with nothing in hand goes on.
LEMMA HandsEmpty ==
    ASSUME Structure, NEW d \in Doors, NEW at, loop[d] # "busy", Loop(d, at), UNCHANGED <<client, conn>>
    PROVE  Hands'
<1>1. \A e \in Conns : InHand(e) => loop[door[e]] = "busy" /\ door[e] # d /\ door[e] \in Doors
  BY DEF Structure, Hands, Types
<1>2. \A e \in Conns : InHand(e) => loop'[door[e]] = "busy"
  BY <1>1 DEF Loop, Structure, Types
<1>3. \A e \in Conns : InHand(e)' <=> InHand(e)
  BY DEF InHand
<1> QED BY <1>2, <1>3 DEF Hands, Structure, client

LEMMA StructureLoop ==
    ASSUME Structure, NEW d \in Doors, Check(d) \/ AcceptNothing(d) \/ (d = "main" /\ Join)
    PROVE  Structure'
<1>1. UNCHANGED <<client, conn, pool>> /\ shutdown' = shutdown
  BY DEF Check, AcceptNothing, Join
<1>2. PICK at \in {"check", "accept", "drain", "returned", "ended"} : Loop(d, at) /\ loop[d] # "busy"
  BY DEF Check, AcceptNothing, Join
<1>3. Types'
  BY <1>1, <1>2 DEF Structure, Types, Loop, client, pool
<1>4. Hands'
  BY <1>1, <1>2, HandsEmpty
<1>5. Owners'
  BY <1>1 DEF Structure, Owners, Busy, client, pool
<1>6. Leaving'
  <2>1. UNCHANGED <<queue, worker>>
    BY <1>1 DEF pool
  <2>2. CASE Check(d) \/ AcceptNothing(d)
    <3>1. \/ loop'["main"] = loop["main"]
          \/ loop["main"] \in {"check", "accept"} /\ loop'["main"] \in {"check", "accept", "drain"}
      BY <2>2 DEF Check, AcceptNothing, Loop, Structure, Types, Doors
    <3> QED BY <2>1, <3>1 DEF Leaving, Structure
  <2>3. CASE Join
    <3>1. loop'["main"] = "returned"
      BY <2>3 DEF Join, Loop, Structure, Types, Doors
    <3> QED BY <2>1, <2>3, <3>1 DEF Leaving, Structure, Join
  <2> QED BY <2>2, <2>3
<1> QED BY <1>3, <1>4, <1>5, <1>6 DEF Structure

\* The steps of one connection outside the queue and the workers.
LEMMA StructureConn ==
    ASSUME Structure, NEW c \in Conns,
           \/ Arrive(c) \/ Accept(c) \/ Admit(c) \/ Refuse(c) \/ Count(c) \/ Shed(c)
           \/ DropShed(c) \/ Spawn(c) \/ SpawnFails(c) \/ HttpServed(c) \/ Uncount(c) \/ End(c)
    PROVE  Structure'
<1>1. UNCHANGED <<client, pool, shutdown>>
  BY DEF Arrive, Accept, Admit, Refuse, Count, Shed, DropShed, Spawn, SpawnFails, HttpServed,
         Uncount, End
<1>2. UNCHANGED <<door, ip, queue, rxLock, worker, job>>
  BY <1>1 DEF client, pool
<1>3. PICK s \in {"arrived", "accepted", "admitted", "closed", "counted", "over", "shed", "serving",
                 "served", "panicked", "ending"} :
        /\ Becomes(c, s)
        /\ conn[c] # "queued"
        /\ conn[c] \in {"serving", "served"} => door[c] = "http"
        /\ s \in {"counted", "over", "shed", "panicked", "ending"} => door[c] = "http"
        /\ s \in {"serving", "served"} => door[c] = "http"
  <2>1. CASE Arrive(c) \/ Accept(c) \/ Admit(c) \/ Refuse(c)
    BY <2>1 DEF Arrive, Accept, Admit, Refuse
  <2>2. CASE Count(c) \/ HttpServed(c) \/ Uncount(c)
    BY <2>2 DEF Count, HttpServed, Uncount
  <2>3. CASE Shed(c) \/ DropShed(c) \/ Spawn(c) \/ SpawnFails(c) \/ End(c)
    BY <2>3 DEF Shed, DropShed, Spawn, SpawnFails, End, Structure, Owners
  <2> QED BY <2>1, <2>2, <2>3
<1>4. Owners'
  BY <1>1, <1>3, Aside DEF pool
<1>5. \A e \in Conns : conn'[e] = IF e = c THEN s ELSE conn[e]
  BY <1>3 DEF Becomes, Structure, Types
<1>6. door[c] \in Doors
  BY DEF Structure, Types
<1>7. Hands'
  <2>1. CASE Arrive(c) \/ Admit(c) \/ Count(c) \/ Shed(c) \/ HttpServed(c) \/ Uncount(c) \/ End(c)
    <3>1. loop' = loop
      BY <2>1 DEF Arrive, Admit, Count, Shed, HttpServed, Uncount, End
    <3>2. InHand(c)' => InHand(c)
      BY <2>1 DEF Arrive, Admit, Count, Shed, HttpServed, Uncount, End, InHand, Becomes, Structure,
                  Types
    <3> QED BY <1>1, <1>3, <3>1, <3>2, HandKept
  <2>2. CASE Refuse(c) \/ DropShed(c) \/ Spawn(c) \/ SpawnFails(c)
    <3>1. InHand(c) /\ ~InHand(c)'
      BY <2>2 DEF Refuse, DropShed, Spawn, SpawnFails, InHand, Becomes, Structure, Types
    <3>2. \E at : Loop(door[c], at)
      BY <2>2 DEF Refuse, DropShed, Spawn, SpawnFails, Structure, Owners
    <3> QED BY <1>1, <1>3, <3>1, <3>2, HandKept
  <2>3. CASE Accept(c)
    <3>1. \A e \in Conns : InHand(e) => door[e] # door[c] /\ door[e] \in Doors
      BY <2>3 DEF Accept, Structure, Hands, Types
    <3>2. loop' = [loop EXCEPT ![door[c]] = "busy"]
      BY <2>3 DEF Accept, Loop
    <3>3. \A e \in Conns : e # c => (InHand(e)' <=> InHand(e))
      BY <1>5 DEF InHand
    <3>4. \A e \in Conns : InHand(e) => loop[door[e]] = "busy"
      BY DEF Structure, Hands
    <3>5. \A e \in Conns : InHand(e)' => loop'[door[e]] = "busy"
      BY <3>1, <3>2, <3>3, <3>4, <1>6 DEF Structure, Types
    <3>6. \A e, d \in Conns : InHand(e)' /\ InHand(d)' /\ door[e] = door[d] => e = d
      BY <3>1, <3>3 DEF Structure, Hands
    <3> QED BY <1>2, <3>5, <3>6 DEF Hands
  <2> QED BY <2>1, <2>2, <2>3
<1>8. /\ loop' \in [Doors -> {"check", "accept", "busy", "drain", "returned", "ended"}]
      /\ loop'["main"] = loop["main"]
            \/ (loop["main"] \notin {"drain", "returned"} /\ loop'["main"] \notin {"drain", "returned"})
  <2>1. CASE loop' = loop
    BY <2>1 DEF Structure, Types
  <2>2. CASE Accept(c)
    BY <2>2, <1>6 DEF Accept, Loop, Structure, Types, Doors
  <2>3. CASE Refuse(c)
    <3>1. loop[door[c]] = "busy"
      BY <2>3 DEF Refuse, Structure, Hands, InHand
    <3> QED BY <2>3, <3>1, <1>6 DEF Refuse, Loop, Structure, Types, Doors
  <2>4. CASE DropShed(c) \/ Spawn(c) \/ SpawnFails(c)
    BY <2>4 DEF DropShed, Spawn, SpawnFails, Loop, Structure, Types, Doors
  <2> QED BY <2>1, <2>2, <2>3, <2>4
          DEF Arrive, Admit, Count, Shed, HttpServed, Uncount, End
<1>9. Types'
  BY <1>1, <1>2, <1>3, <1>8 DEF Structure, Types, Becomes
<1>10. Leaving'
  BY <1>2, <1>8 DEF Structure, Leaving
<1> QED BY <1>4, <1>7, <1>9, <1>10 DEF Structure

LEMMA StructureSend ==
    ASSUME Structure, NEW c \in Conns, Send(c)
    PROVE  Structure'
<1>1. /\ conn[c] = "admitted" /\ door[c] = "main" /\ queue' = Append(queue, c)
      /\ Becomes(c, "queued") /\ Loop("main", "check")
      /\ UNCHANGED <<door, ip, rxLock, worker, job, shutdown>>
  BY DEF Send, client
<1>2. \A e \in Conns : conn'[e] = IF e = c THEN "queued" ELSE conn[e]
  BY <1>1 DEF Becomes, Structure, Types
<1>3. queue \in Seq(Conns) /\ queue' \in Seq(Conns)
  BY <1>1 DEF Structure, Types
<1>4. /\ DOMAIN queue' = 1..Len(queue) + 1 /\ DOMAIN queue = 1..Len(queue) /\ Len(queue) \in Nat
      /\ queue'[Len(queue) + 1] = c
      /\ \A i \in DOMAIN queue : queue'[i] = queue[i] /\ i \in DOMAIN queue'
  BY <1>1, <1>3
<1>5. \A i \in DOMAIN queue : queue[i] \in Conns /\ queue[i] # c
  BY <1>1, <1>3 DEF Structure, Owners
<1>6. Types'
  BY <1>1, <1>3 DEF Structure, Types, Becomes, Loop
<1>7. loop["main"] = "busy" /\ loop'["main"] = "check"
  BY <1>1 DEF Structure, Hands, InHand, Loop, Types, Doors
<1>8. Hands'
  <2>1. InHand(c) /\ ~InHand(c)' /\ Loop(door[c], "check")
    BY <1>1, <1>2 DEF InHand
  <2> QED BY <1>1, <2>1, HandKept DEF client
<1>9. Leaving'
  BY <1>1, <1>7 DEF Structure, Leaving
<1>10. \A w \in Workers : (Busy(w)' <=> Busy(w)) /\ (Busy(w) => job[w] # c)
  BY <1>1 DEF Structure, Owners, Busy
<1>11. Owners'
  <2>1. (\A e \in Conns : conn[e] = "queued" => \E i \in DOMAIN queue : queue[i] = e)'
    <3> SUFFICES ASSUME NEW e \in Conns, conn'[e] = "queued"
                 PROVE  \E i \in DOMAIN queue' : queue'[i] = e
      OBVIOUS
    <3>1. CASE e = c
      BY <3>1, <1>4
    <3>2. CASE e # c
      BY <3>2, <1>2, <1>4 DEF Structure, Owners
    <3> QED BY <3>1, <3>2
  <2>2. (\A i \in DOMAIN queue : conn[queue[i]] = "queued" /\ door[queue[i]] = "main")'
    BY <1>1, <1>2, <1>4, <1>5 DEF Structure, Owners
  <2>3. (\A i, j \in DOMAIN queue : queue[i] = queue[j] => i = j)'
    BY <1>4, <1>5 DEF Structure, Owners
  <2>4. (\A e \in Conns : door[e] = "main" /\ conn[e] \in {"serving", "served"}
                           => \E w \in Workers : Busy(w) /\ job[w] = e)'
    BY <1>1, <1>2, <1>10 DEF Structure, Owners
  <2>5. (\A w \in Workers : Busy(w) => /\ job[w] \in Conns /\ door[job[w]] = "main"
                                     /\ conn[job[w]] = IF worker[w] = "serve" THEN "serving"
                                                                             ELSE "served")'
    BY <1>1, <1>2, <1>10 DEF Structure, Owners
  <2>6. (\A v, w \in Workers : Busy(v) /\ Busy(w) /\ job[v] = job[w] => v = w)'
    BY <1>1, <1>10 DEF Structure, Owners
  <2>7. (\A e \in Conns : conn[e] \in {"counted", "over", "shed", "panicked", "ending"}
                           => door[e] = "http")'
    BY <1>1, <1>2 DEF Structure, Owners
  <2> QED BY <2>1, <2>2, <2>3, <2>4, <2>5, <2>6, <2>7 DEF Owners
<1> QED BY <1>6, <1>8, <1>9, <1>11 DEF Structure

LEMMA StructureReceive ==
    ASSUME Structure, NEW w \in Workers, Receive(w)
    PROVE  Structure'
<1>0. PICK c : c = Head(queue)
  OBVIOUS
<1>1. /\ worker[w] = "recv" /\ queue # <<>> /\ queue' = Tail(queue)
      /\ job' = [job EXCEPT ![w] = c] /\ worker' = [worker EXCEPT ![w] = "serve"]
      /\ Becomes(c, "serving") /\ rxLock' = None
      /\ UNCHANGED <<door, ip, loop, shutdown>>
  BY <1>0 DEF Receive, client
<1>2. queue \in Seq(Conns)
  BY DEF Structure, Types
<1>3. /\ 1 \in DOMAIN queue /\ c = queue[1] /\ c \in Conns
      /\ queue' \in Seq(Conns) /\ Len(queue) \in Nat
      /\ DOMAIN queue = 1..Len(queue) /\ DOMAIN queue' = 1..Len(queue) - 1
      /\ \A i \in DOMAIN queue' : queue'[i] = queue[i + 1] /\ i + 1 \in DOMAIN queue
  BY <1>0, <1>1, <1>2
<1>4. conn[c] = "queued" /\ door[c] = "main"
  BY <1>3 DEF Structure, Owners
<1>5. \A e \in Conns : conn'[e] = IF e = c THEN "serving" ELSE conn[e]
  BY <1>1 DEF Becomes, Structure, Types
<1>6. \A i \in DOMAIN queue' : queue'[i] # c /\ queue'[i] \in Conns
  <2> SUFFICES ASSUME NEW i \in DOMAIN queue' PROVE queue'[i] # c /\ queue'[i] \in Conns
    OBVIOUS
  <2>1. i + 1 # 1 /\ i + 1 \in DOMAIN queue /\ queue'[i] = queue[i + 1]
    BY <1>3
  <2> QED BY <2>1, <1>2, <1>3 DEF Structure, Owners
<1>7. Types'
  BY <1>1, <1>3 DEF Structure, Types, Becomes
<1>8. Hands'
  <2>1. InHand(c)' => InHand(c)
    BY <1>3, <1>5 DEF InHand
  <2> QED BY <1>1, <1>3, <2>1, HandKept DEF client
<1>9. Leaving'
  <2>1. \A v \in Workers : worker[v] # "gone"
    BY <1>1 DEF Structure, Leaving
  <2>2. \A v \in Workers : worker'[v] # "gone"
    BY <1>1, <2>1 DEF Structure, Types
  <2>3. loop["main"] # "returned"
    BY <1>1 DEF Structure, Leaving
  <2> QED BY <1>1, <2>2, <2>3 DEF Leaving
<1>10. /\ worker'[w] = "serve" /\ job'[w] = c /\ ~Busy(w)
       /\ \A v \in Workers : v # w => worker'[v] = worker[v] /\ job'[v] = job[v]
  BY <1>1 DEF Structure, Types, Busy
<1>11. \A v \in Workers : Busy(v) => job[v] # c
  BY <1>4 DEF Structure, Owners, Busy
<1>12. Owners'
  <2>1. (\A e \in Conns : conn[e] = "queued" => \E i \in DOMAIN queue : queue[i] = e)'
    <3> SUFFICES ASSUME NEW e \in Conns, conn[e] = "queued", e # c
                 PROVE  \E i \in DOMAIN queue' : queue'[i] = e
      BY <1>5
    <3>1. PICK k \in DOMAIN queue : queue[k] = e
      BY DEF Structure, Owners
    <3>2. k - 1 \in DOMAIN queue' /\ (k - 1) + 1 = k
      BY <1>3, <3>1
    <3> QED BY <1>3, <3>1, <3>2
  <2>2. (\A i \in DOMAIN queue : conn[queue[i]] = "queued" /\ door[queue[i]] = "main")'
    BY <1>1, <1>3, <1>5, <1>6 DEF Structure, Owners
  <2>3. (\A i, j \in DOMAIN queue : queue[i] = queue[j] => i = j)'
    <3> SUFFICES ASSUME NEW i \in DOMAIN queue', NEW j \in DOMAIN queue', queue'[i] = queue'[j]
                 PROVE  i = j
      OBVIOUS
    <3>1. i + 1 = j + 1
      BY <1>3 DEF Structure, Owners
    <3> QED BY <1>3, <3>1
  <2>4. (\A e \in Conns : door[e] = "main" /\ conn[e] \in {"serving", "served"}
                           => \E v \in Workers : Busy(v) /\ job[v] = e)'
    <3> SUFFICES ASSUME NEW e \in Conns, door[e] = "main", conn'[e] \in {"serving", "served"}
                 PROVE  \E v \in Workers : Busy(v)' /\ job'[v] = e
      BY <1>1
    <3>1. CASE e = c
      BY <3>1, <1>10 DEF Busy
    <3>2. CASE e # c
      <4>1. PICK v \in Workers : Busy(v) /\ job[v] = e
        BY <3>2, <1>5 DEF Structure, Owners
      <4> QED BY <4>1, <1>10 DEF Busy
    <3> QED BY <3>1, <3>2
  <2>5. (\A v \in Workers : Busy(v) => /\ job[v] \in Conns /\ door[job[v]] = "main"
                                     /\ conn[job[v]] = IF worker[v] = "serve" THEN "serving"
                                                                             ELSE "served")'
    <3> SUFFICES ASSUME NEW v \in Workers, Busy(v)'
                 PROVE  /\ job'[v] \in Conns /\ door[job'[v]] = "main"
                        /\ conn'[job'[v]] = IF worker'[v] = "serve" THEN "serving" ELSE "served"
      BY <1>1
    <3>1. CASE v = w
      BY <3>1, <1>3, <1>4, <1>5, <1>10
    <3>2. CASE v # w
      BY <3>2, <1>5, <1>10, <1>11 DEF Structure, Owners, Busy
    <3> QED BY <3>1, <3>2
  <2>6. (\A u, v \in Workers : Busy(u) /\ Busy(v) /\ job[u] = job[v] => u = v)'
    BY <1>10, <1>11 DEF Structure, Owners, Busy
  <2>7. (\A e \in Conns : conn[e] \in {"counted", "over", "shed", "panicked", "ending"}
                           => door[e] = "http")'
    BY <1>1, <1>5 DEF Structure, Owners
  <2> QED BY <2>1, <2>2, <2>3, <2>4, <2>5, <2>6, <2>7 DEF Owners
<1> QED BY <1>7, <1>8, <1>9, <1>12 DEF Structure

\* A worker that is not serving comes or goes.
LEMMA StructureTurn ==
    ASSUME Structure, NEW w \in Workers, LockRx(w) \/ Leave(w)
    PROVE  Structure'
<1>1. UNCHANGED <<door, ip, conn, loop, queue, job, shutdown>> /\ ~Busy(w)
  BY DEF LockRx, Leave, client, Busy
<1>2. PICK s \in {"recv", "gone"} :
         /\ worker' = [worker EXCEPT ![w] = s] /\ rxLock' \in Workers \cup {None}
         /\ s = "gone" => queue = <<>> /\ loop["main"] = "drain"
         /\ worker[w] # "gone"
  BY DEF LockRx, Leave
<1>3. \A v \in Workers : worker'[v] = IF v = w THEN s ELSE worker[v]
  BY <1>2 DEF Structure, Types
<1>4. \A v \in Workers : Busy(v)' <=> Busy(v)
  BY <1>1, <1>3 DEF Busy
<1>5. Types'
  BY <1>1, <1>2 DEF Structure, Types
<1>6. Owners'
  BY <1>1, <1>3, <1>4 DEF Structure, Owners
<1>7. Hands'
  BY <1>1 DEF Structure, Hands, InHand
<1>8. Leaving'
  BY <1>1, <1>2, <1>3 DEF Structure, Leaving
<1> QED BY <1>5, <1>6, <1>7, <1>8 DEF Structure

\* The end of a connection on a worker, and of the worker's slot for it.
LEMMA StructureServed ==
    ASSUME Structure, NEW w \in Workers, Served(w) \/ Release(w)
    PROVE  Structure'
<1>0. PICK c : c = job[w]
  OBVIOUS
<1>1. /\ Busy(w) /\ c \in Conns /\ door[c] = "main" /\ conn[c] \in {"serving", "served"}
      /\ UNCHANGED <<door, ip, loop, queue, rxLock, shutdown>>
  BY <1>0 DEF Served, Release, Busy, Structure, Owners, client
<1>2. PICK s \in {"served", "closed"} : Becomes(c, s)
  BY <1>0 DEF Served, Release
<1>3. \A e \in Conns : conn'[e] = IF e = c THEN s ELSE conn[e]
  BY <1>2 DEF Becomes, Structure, Types
<1>4. \A i \in DOMAIN queue : queue[i] # c
  BY <1>1 DEF Structure, Owners
<1>5. \A v \in Workers : v # w => worker'[v] = worker[v] /\ job'[v] = job[v]
                                /\ (Busy(v) => job[v] # c)
  BY <1>0, <1>1 DEF Served, Release, Structure, Types, Owners
<1>6. \/ s = "served" /\ worker'[w] = "release" /\ job'[w] = c
      \/ s = "closed" /\ worker'[w] = "lock"
  <2>1. CASE Served(w)
    <3>1. worker'[w] = "release" /\ job'[w] = c
      BY <1>0, <2>1 DEF Served, Structure, Types
    <3>2. conn'[c] = "served"
      BY <1>0, <1>1, <2>1 DEF Served, Becomes, Structure, Types
    <3> QED BY <1>1, <1>3, <3>1, <3>2
  <2>2. CASE Release(w)
    <3>1. worker'[w] = "lock"
      BY <2>2 DEF Release, Structure, Types
    <3>2. conn'[c] = "closed"
      BY <1>0, <1>1, <2>2 DEF Release, Becomes, Structure, Types
    <3> QED BY <1>1, <1>3, <3>1, <3>2
  <2> QED BY <2>1, <2>2
<1>7. Types'
  <2>1. /\ worker' \in [Workers -> {"lock", "recv", "serve", "release", "gone"}]
        /\ job' \in [Workers -> Conns \cup {None}]
    BY DEF Served, Release, Structure, Types
  <2> QED BY <1>1, <1>2, <2>1 DEF Structure, Types, Becomes
<1>8. Hands'
  <2>1. InHand(c)' => InHand(c)
    BY <1>1, <1>3 DEF InHand
  <2> QED BY <1>1, <1>2, <2>1, HandKept DEF client
<1>9. Leaving'
  <2>1. \A v \in Workers : worker'[v] = "gone" => worker[v] = "gone"
    BY <1>5, <1>6
  <2>2. worker[w] # "gone"
    BY <1>1 DEF Busy
  <2>3. loop["main"] # "returned"
    BY <2>2 DEF Structure, Leaving
  <2> QED BY <1>1, <2>1, <2>3 DEF Structure, Leaving
<1>10. \A v \in Workers : v # w => (Busy(v)' <=> Busy(v))
  BY <1>5 DEF Busy
<1>11. Owners'
  <2>1. (\A e \in Conns : conn[e] = "queued" => \E i \in DOMAIN queue : queue[i] = e)'
    BY <1>1, <1>3 DEF Structure, Owners
  <2>2. (\A i \in DOMAIN queue : conn[queue[i]] = "queued" /\ door[queue[i]] = "main")'
    BY <1>1, <1>3, <1>4 DEF Structure, Owners, Types
  <2>3. (\A i, j \in DOMAIN queue : queue[i] = queue[j] => i = j)'
    BY <1>1 DEF Structure, Owners
  <2>4. (\A e \in Conns : door[e] = "main" /\ conn[e] \in {"serving", "served"}
                           => \E v \in Workers : Busy(v) /\ job[v] = e)'
    <3> SUFFICES ASSUME NEW e \in Conns, door[e] = "main", conn'[e] \in {"serving", "served"}
                 PROVE  \E v \in Workers : Busy(v)' /\ job'[v] = e
      BY <1>1
    <3>1. CASE e = c
      BY <3>1, <1>3, <1>6 DEF Busy
    <3>2. CASE e # c
      <4>1. PICK v \in Workers : Busy(v) /\ job[v] = e
        BY <3>2, <1>3 DEF Structure, Owners
      <4> QED BY <4>1, <3>2, <1>0, <1>5, <1>10
    <3> QED BY <3>1, <3>2
  <2>5. (\A v \in Workers : Busy(v) => /\ job[v] \in Conns /\ door[job[v]] = "main"
                                     /\ conn[job[v]] = IF worker[v] = "serve" THEN "serving"
                                                                             ELSE "served")'
    <3> SUFFICES ASSUME NEW v \in Workers, Busy(v)'
                 PROVE  /\ job'[v] \in Conns /\ door[job'[v]] = "main"
                        /\ conn'[job'[v]] = IF worker'[v] = "serve" THEN "serving" ELSE "served"
      BY <1>1
    <3>1. CASE v = w
      BY <3>1, <1>1, <1>3, <1>6 DEF Busy
    <3>2. CASE v # w
      BY <3>2, <1>3, <1>5, <1>10 DEF Structure, Owners
    <3> QED BY <3>1, <3>2
  <2>6. (\A u, v \in Workers : Busy(u) /\ Busy(v) /\ job[u] = job[v] => u = v)'
    BY <1>5, <1>6, <1>10 DEF Structure, Owners, Busy
  <2>7. (\A e \in Conns : conn[e] \in {"counted", "over", "shed", "panicked", "ending"}
                           => door[e] = "http")'
    BY <1>1, <1>3 DEF Structure, Owners
  <2> QED BY <2>1, <2>2, <2>3, <2>4, <2>5, <2>6, <2>7 DEF Owners
<1> QED BY <1>7, <1>8, <1>9, <1>11 DEF Structure

LEMMA StructureNext == Structure /\ [Next]_vars => Structure'
<1> SUFFICES ASSUME Structure, [Next]_vars PROVE Structure'
  OBVIOUS
<1>1. ASSUME NEW c \in Conns, Arrive(c) \/ HttpServed(c) \/ Uncount(c) \/ End(c) PROVE Structure'
  BY <1>1, StructureConn
<1>2. ASSUME NEW d \in Doors, AcceptLoop(d) PROVE Structure'
  BY <1>2, StructureConn, StructureSend, StructureLoop DEF AcceptLoop
<1>3. ASSUME NEW w \in Workers, WorkerStep(w) \/ Served(w) PROVE Structure'
  BY <1>3, StructureTurn, StructureReceive, StructureServed DEF WorkerStep
<1>4. CASE Trigger \/ UNCHANGED vars
  <2>1. UNCHANGED <<door, ip, conn, loop, queue, rxLock, worker, job>> /\ shutdown' \in BOOLEAN
    BY <1>4 DEF Trigger, vars, client, pool, Structure, Types
  <2> QED BY <2>1 DEF Structure, Types, Owners, Hands, Leaving, Busy, InHand
<1> QED BY <1>1, <1>2, <1>3, <1>4 DEF Next, Terminated

LEMMA StructureAlways == Spec => []Structure
BY StructureInit, StructureNext, PTL DEF Spec

\* A worker never leaves the pool but for a shutdown, whatever its connections do.
THEOREM PoolKeeps == Spec => []PoolHolds
<1>1. Structure => PoolHolds
  BY DEF Structure, Leaving, PoolHolds
<1> QED BY <1>1, StructureAlways, PTL

\* When run returns, every connection it admitted has been served to its end.
THEOREM ServedToTheEnd == Spec => []NothingDropped
<1>1. Structure => NothingDropped
  <2> SUFFICES ASSUME Structure, loop["main"] = "returned", NEW c \in Conns, door[c] = "main"
               PROVE  conn[c] \in {"away", "arrived", "closed"}
    BY DEF NothingDropped
  <2>1. \A w \in Workers : worker[w] = "gone"
    BY DEF Structure, Leaving
  <2>2. queue = <<>>
    BY <2>1, PoolAssumption DEF Structure, Leaving
  <2>3. conn[c] # "queued"
    BY <2>2 DEF Structure, Owners
  <2>4. conn[c] \notin {"serving", "served"}
    BY <2>1 DEF Structure, Owners, Busy
  <2>5. conn[c] \notin {"accepted", "admitted"}
    BY DEF Structure, Hands, InHand
  <2> QED BY <2>3, <2>4, <2>5 DEF Structure, Owners, Types
<1> QED BY <1>1, StructureAlways, PTL

-----------------------------------------------------------------------------
(* Slots and counts.                                                        *)

Uncharged == {"away", "arrived", "accepted", "closed"}

\* The connections of K that are in one of the states P.
Tally(K, P) == {e \in K : conn[e] \in P}

\* What the move of a connection does to a tally.
LEMMA CountMoves ==
    ASSUME Structure, NEW c \in Conns, NEW s, Becomes(c, s), NEW K \in SUBSET Conns, NEW P
    PROVE  /\ IsFiniteSet(Tally(K, P)) /\ Cardinality(Tally(K, P)) \in Nat
           /\ c \notin K \/ (conn[c] \in P <=> s \in P) => Tally(K, P)' = Tally(K, P)
           /\ c \in K /\ conn[c] \notin P /\ s \in P
                 => Cardinality(Tally(K, P)') = Cardinality(Tally(K, P)) + 1
           /\ c \in K /\ conn[c] \in P /\ s \notin P
                 => /\ Cardinality(Tally(K, P)') = Cardinality(Tally(K, P)) - 1
                    /\ Cardinality(Tally(K, P)) >= 1
<1> DEFINE A == Tally(K, P)
<1>1. \A e \in Conns : conn'[e] = IF e = c THEN s ELSE conn[e]
  BY DEF Becomes, Structure, Types
<1>2. IsFiniteSet(A) /\ Cardinality(A) \in Nat
  BY PoolAssumption, FS_Subset, FS_CardinalityType DEF Tally
<1>3. c \notin K \/ (conn[c] \in P <=> s \in P) => A' = A
  BY <1>1 DEF Tally
<1>4. ASSUME c \in K, conn[c] \notin P, s \in P PROVE Cardinality(A') = Cardinality(A) + 1
  <2>1. A' = A \cup {c} /\ c \notin A
    BY <1>1, <1>4 DEF Tally
  <2> QED BY <2>1, <1>2, FS_AddElement
<1>5. ASSUME c \in K, conn[c] \in P, s \notin P
      PROVE  Cardinality(A') = Cardinality(A) - 1 /\ Cardinality(A) >= 1
  <2>1. A' = A \ {c} /\ c \in A
    BY <1>1, <1>5 DEF Tally
  <2>2. Cardinality(A') = Cardinality(A) - 1
    BY <2>1, <1>2, FS_RemoveElement
  <2>3. Cardinality(A) # 0
    BY <2>1, <1>2, FS_EmptySet
  <2> QED BY <2>2, <2>3, <1>2
<1> QED BY <1>2, <1>3, <1>4, <1>5

\* SlotsMatch with the type it needs.
Slots == counts \in [Peers -> Nat] /\ SlotsMatch

\* Unless a connection is admitted or ends, the charges stay.
LEMMA SlotsKept ==
    ASSUME Structure, Slots, NEW c \in Conns, NEW s, Becomes(c, s), UNCHANGED <<client, counts>>,
           conn[c] \in Uncharged <=> s \in Uncharged
    PROVE  Slots'
<1>1. \A i : Charged(i)' = Charged(i)
  <2>1. \A e \in Conns : conn'[e] \in Uncharged <=> conn[e] \in Uncharged
    BY DEF Becomes, Structure, Types
  <2> QED BY <2>1 DEF Charged, Uncharged, client
<1> QED BY <1>1 DEF Slots, SlotsMatch

\* The connections of an address, and how many of them are charged.
LEMMA ChargeMoves ==
    ASSUME Structure, NEW c \in Conns, NEW s, Becomes(c, s), UNCHANGED client, NEW i
    PROVE  /\ Cardinality(Charged(i)) \in Nat
           /\ ip[c] # i => Charged(i)' = Charged(i)
           /\ ip[c] = i /\ conn[c] \in Uncharged /\ s \notin Uncharged
                 => Cardinality(Charged(i)') = Cardinality(Charged(i)) + 1
           /\ ip[c] = i /\ conn[c] \notin Uncharged /\ s \in Uncharged
                 => /\ Cardinality(Charged(i)') = Cardinality(Charged(i)) - 1
                    /\ Cardinality(Charged(i)) >= 1
<1> DEFINE States == {"away", "arrived", "accepted", "admitted", "queued", "serving", "served",
                      "counted", "over", "shed", "panicked", "ending", "closed", s}
<1>1. PICK K : K = {e \in Conns : ip[e] = i}
  OBVIOUS
<1>2. PICK P : P = States \ Uncharged
  OBVIOUS
<1>3. conn \in [Conns -> States] /\ \A e \in Conns : conn'[e] \in States
  BY DEF Structure, Types, Becomes
<1>4. ip' = ip
  BY DEF client
<1>5. Charged(i) = Tally(K, P) /\ Charged(i)' = Tally(K, P)'
  BY <1>1, <1>2, <1>3, <1>4 DEF Charged, Uncharged, Tally
<1>6. /\ K \in SUBSET Conns /\ (c \in K <=> ip[c] = i)
      /\ (conn[c] \in P <=> conn[c] \notin Uncharged) /\ (s \in P <=> s \notin Uncharged)
  BY <1>1, <1>2, <1>3
<1> HIDE DEF States
<1> QED BY <1>5, <1>6, CountMoves

LEMMA SlotTaken ==
    ASSUME Structure, Slots, NEW c \in Conns, Admit(c)
    PROVE  Slots'
<1>1. /\ conn[c] \in Uncharged /\ "admitted" \notin Uncharged
      /\ Becomes(c, "admitted") /\ UNCHANGED client /\ TakeSlot(c) /\ RoomFor(c)
  BY DEF Admit, Uncharged
<1>2. CASE ~Limited(c)
  <2>1. counts' = counts
    BY <1>1, <1>2 DEF TakeSlot
  <2>2. MAX_PER_IP > 0 => \A i \in Peers : ip[c] # i
    BY <1>2, PoolAssumption DEF Limited
  <2>3. \A i \in Peers : ip[c] # i => Charged(i)' = Charged(i)
    BY <1>1, ChargeMoves
  <2> QED BY <2>1, <2>2, <2>3 DEF Slots, SlotsMatch
<1>3. CASE Limited(c)
  <2>1. ip[c] \in Peers /\ counts' = [counts EXCEPT ![ip[c]] = @ + 1] /\ counts[ip[c]] < MAX_PER_IP
    BY <1>1, <1>3 DEF TakeSlot, RoomFor, Limited, Structure, Types
  <2>2. counts' \in [Peers -> Nat]
    BY <2>1 DEF Slots
  <2>3. ASSUME NEW i \in Peers, MAX_PER_IP > 0
        PROVE  counts'[i] = Cardinality(Charged(i)') /\ counts'[i] <= MAX_PER_IP
    <3>1. counts[i] = Cardinality(Charged(i)) /\ counts[i] <= MAX_PER_IP /\ counts[i] \in Nat
      BY <2>3 DEF Slots, SlotsMatch
    <3>2. CASE ip[c] # i
      BY <1>1, <2>1, <3>1, <3>2, ChargeMoves DEF Slots
    <3>3. CASE ip[c] = i
      <4>1. Cardinality(Charged(i)') = Cardinality(Charged(i)) + 1
        BY <1>1, <3>3, ChargeMoves
      <4>2. counts'[i] = counts[i] + 1 /\ counts[i] < MAX_PER_IP
        BY <2>1, <3>3 DEF Slots
      <4> QED BY <3>1, <4>1, <4>2, PoolAssumption
    <3> QED BY <3>2, <3>3
  <2> QED BY <2>2, <2>3 DEF Slots, SlotsMatch
<1> QED BY <1>2, <1>3

LEMMA SlotDropped ==
    ASSUME Structure, Slots, NEW c \in Conns, conn[c] \notin Uncharged, Becomes(c, "closed"),
           UNCHANGED client, DropSlot(c)
    PROVE  Slots'
<1>1. "closed" \in Uncharged
  BY DEF Uncharged
<1>2. CASE ~Limited(c)
  <2>1. counts' = counts
    BY <1>2 DEF DropSlot
  <2>2. MAX_PER_IP > 0 => \A i \in Peers : ip[c] # i
    BY <1>2, PoolAssumption DEF Limited
  <2>3. \A i \in Peers : ip[c] # i => Charged(i)' = Charged(i)
    BY ChargeMoves
  <2> QED BY <2>1, <2>2, <2>3 DEF Slots, SlotsMatch
<1>3. CASE Limited(c)
  <2>1. /\ ip[c] \in Peers /\ counts' = [counts EXCEPT ![ip[c]] = @ - 1] /\ MAX_PER_IP > 0
    BY <1>3 DEF DropSlot, Limited, Structure, Types
  <2>2. ASSUME NEW i \in Peers
        PROVE  /\ counts'[i] = Cardinality(Charged(i)') /\ counts'[i] <= MAX_PER_IP
               /\ counts'[i] \in Nat
    <3>1. counts[i] = Cardinality(Charged(i)) /\ counts[i] <= MAX_PER_IP /\ counts[i] \in Nat
      BY <2>1 DEF Slots, SlotsMatch
    <3>2. CASE ip[c] # i
      BY <2>1, <3>1, <3>2, ChargeMoves DEF Slots
    <3>3. CASE ip[c] = i
      <4>1. /\ Cardinality(Charged(i)') = Cardinality(Charged(i)) - 1
            /\ Cardinality(Charged(i)) >= 1
        BY <1>1, <3>3, ChargeMoves
      <4>2. counts'[i] = counts[i] - 1
        BY <2>1, <3>3 DEF Slots
      <4> QED BY <3>1, <4>1, <4>2, PoolAssumption
    <3> QED BY <3>2, <3>3
  <2>3. counts' \in [Peers -> Nat]
    BY <2>1, <2>2 DEF Slots
  <2> QED BY <2>2, <2>3 DEF Slots, SlotsMatch
<1> QED BY <1>2, <1>3

LEMMA SlotsNext == Structure /\ Slots /\ [Next]_vars => Slots'
<1> SUFFICES ASSUME Structure, Slots, [Next]_vars PROVE Slots'
  OBVIOUS
<1>1. ASSUME NEW c \in Conns, Arrive(c) \/ Accept(c) \/ Refuse(c) PROVE Slots'
  <2>1. PICK s \in Uncharged : Becomes(c, s)
    BY <1>1 DEF Arrive, Accept, Refuse, Uncharged
  <2>2. conn[c] \in Uncharged /\ UNCHANGED <<client, counts>>
    BY <1>1 DEF Arrive, Accept, Refuse, Uncharged
  <2> QED BY <2>1, <2>2, SlotsKept
<1>2. ASSUME NEW c \in Conns, Send(c) \/ Count(c) \/ Shed(c) \/ Spawn(c) \/ SpawnFails(c)
                              \/ HttpServed(c) \/ Uncount(c)
      PROVE  Slots'
  <2>1. /\ \E s : Becomes(c, s) /\ s \notin Uncharged
        /\ conn[c] \notin Uncharged /\ UNCHANGED <<client, counts>>
    BY <1>2 DEF Send, Count, Shed, Spawn, SpawnFails, HttpServed, Uncount, Uncharged
  <2> QED BY <2>1, SlotsKept
<1>3. ASSUME NEW w \in Workers, Receive(w) PROVE Slots'
  <2>1. PICK c \in Conns : c = Head(queue) /\ conn[c] = "queued"
    <3>1. queue \in Seq(Conns) /\ queue # <<>>
      BY <1>3 DEF Receive, Structure, Types
    <3>2. 1 \in DOMAIN queue /\ Head(queue) = queue[1] /\ Head(queue) \in Conns
      BY <3>1
    <3> QED BY <3>2 DEF Structure, Owners
  <2>2. Becomes(c, "serving") /\ UNCHANGED <<client, counts>>
    BY <1>3, <2>1 DEF Receive
  <2> QED BY <2>1, <2>2, SlotsKept DEF Uncharged
<1>4. ASSUME NEW w \in Workers, Served(w) PROVE Slots'
  <2>1. PICK c \in Conns : c = job[w] /\ conn[c] = "serving"
    BY <1>4 DEF Served, Structure, Owners, Busy
  <2>2. Becomes(c, "served") /\ UNCHANGED <<client, counts>>
    BY <1>4, <2>1 DEF Served
  <2> QED BY <2>1, <2>2, SlotsKept DEF Uncharged
<1>5. ASSUME NEW w \in Workers, Release(w) PROVE Slots'
  <2>1. PICK c \in Conns : c = job[w] /\ conn[c] = "served"
    BY <1>5 DEF Release, Structure, Owners, Busy
  <2>2. Becomes(c, "closed") /\ DropSlot(c) /\ UNCHANGED client
    BY <1>5, <2>1 DEF Release
  <2> QED BY <2>1, <2>2, SlotDropped DEF Uncharged
<1>6. ASSUME NEW c \in Conns, DropShed(c) \/ End(c) PROVE Slots'
  BY <1>6, SlotDropped DEF DropShed, End, Uncharged
<1>7. ASSUME UNCHANGED <<client, conn, counts>> PROVE Slots'
  <2>1. \A i : Charged(i)' = Charged(i)
    BY <1>7 DEF Charged, client
  <2> QED BY <1>7, <2>1 DEF Slots, SlotsMatch
<1>8. ASSUME NEW d \in Doors, Check(d) \/ AcceptNothing(d) \/ Join PROVE Slots'
  BY <1>8, <1>7 DEF Check, AcceptNothing, Join
<1>9. ASSUME NEW w \in Workers, LockRx(w) \/ Leave(w) PROVE Slots'
  BY <1>9, <1>7 DEF LockRx, Leave
<1>10. CASE Trigger \/ Terminated \/ UNCHANGED vars
  BY <1>10, <1>7 DEF Trigger, Terminated, vars
<1> QED BY <1>1, <1>2, <1>3, <1>4, <1>5, <1>6, <1>8, <1>9, <1>10, SlotTaken
        DEF Next, AcceptLoop, WorkerStep

\* Whatever ends a connection, at either listener, its address is charged for it
\* from its admission to its end and for no longer, and never above the cap.
THEOREM SlotsCounted == Spec => []SlotsMatch
<1>1. Init => Slots
  <2> SUFFICES ASSUME Init PROVE Slots
    OBVIOUS
  <2>1. \A i \in Peers : counts[i] = 0 /\ Charged(i) = {}
    BY DEF Init, Charged
  <2>2. counts \in [Peers -> Nat]
    BY DEF Init
  <2> QED BY <2>1, <2>2, FS_EmptySet, PoolAssumption DEF Slots, SlotsMatch
<1>2. Slots => SlotsMatch
  BY DEF Slots
<1> QED BY <1>1, <1>2, SlotsNext, StructureAlways, PTL DEF Spec

\* The counter covers every connection that counts on it; a panic leaves it too
\* high, never too low.
Threaded == {"counted", "serving", "served"}
Counting ==
    /\ inflight \in Nat
    /\ Cardinality(Http(Threaded \cup {"over"})) <= inflight
    /\ Cardinality(Http(Threaded)) <= MAX_INFLIGHT

\* The tally of the plain-HTTP connections, after one of them moves.
LEMMA HttpMoves ==
    ASSUME Structure, NEW c \in Conns, NEW s, Becomes(c, s), UNCHANGED client, NEW P
    PROVE  /\ IsFiniteSet(Http(P)) /\ Cardinality(Http(P)) \in Nat
           /\ door[c] # "http" \/ (conn[c] \in P <=> s \in P) => Http(P)' = Http(P)
           /\ door[c] = "http" /\ conn[c] \notin P /\ s \in P
                 => Cardinality(Http(P)') = Cardinality(Http(P)) + 1
           /\ door[c] = "http" /\ conn[c] \in P /\ s \notin P
                 => /\ Cardinality(Http(P)') = Cardinality(Http(P)) - 1
                    /\ Cardinality(Http(P)) >= 1
<1>1. PICK K : K = {e \in Conns : door[e] = "http"}
  OBVIOUS
<1>2. Http(P) = Tally(K, P) /\ Http(P)' = Tally(K, P)'
  BY <1>1 DEF Http, Tally, client
<1>3. K \in SUBSET Conns /\ (c \in K <=> door[c] = "http")
  BY <1>1
<1> QED BY <1>2, <1>3, CountMoves

\* A move that leaves the counter alone, and no new thread behind it.
LEMMA CountingKept ==
    ASSUME Structure, Counting, NEW c \in Conns, NEW s, Becomes(c, s), UNCHANGED client,
           inflight' = inflight,
           \/ door[c] = "main"
           \/ s \in Threaded => conn[c] \in Threaded,
           s # "over"
    PROVE  Counting'
<1>1. ASSUME NEW P, door[c] = "main" \/ (s \in P => conn[c] \in P)
      PROVE  /\ Cardinality(Http(P)) \in Nat /\ Cardinality(Http(P)') \in Nat
             /\ Cardinality(Http(P)') <= Cardinality(Http(P))
  <2>1. CASE door[c] # "http" \/ (conn[c] \in P <=> s \in P)
    BY <2>1, HttpMoves
  <2>2. CASE door[c] = "http" /\ conn[c] \in P /\ s \notin P
    <3>1. /\ Cardinality(Http(P)') = Cardinality(Http(P)) - 1
          /\ Cardinality(Http(P)) >= 1 /\ Cardinality(Http(P)) \in Nat
      BY <2>2, HttpMoves
    <3> QED BY <3>1
  <2> QED BY <1>1, <2>1, <2>2
<1>2. \/ door[c] = "main"
      \/ s \in Threaded \cup {"over"} => conn[c] \in Threaded \cup {"over"}
  OBVIOUS
<1>3. /\ Cardinality(Http(Threaded \cup {"over"})') <= Cardinality(Http(Threaded \cup {"over"}))
      /\ Cardinality(Http(Threaded \cup {"over"})) \in Nat
      /\ Cardinality(Http(Threaded \cup {"over"})') \in Nat
  BY <1>1, <1>2
<1>4. /\ Cardinality(Http(Threaded)') <= Cardinality(Http(Threaded))
      /\ Cardinality(Http(Threaded)) \in Nat /\ Cardinality(Http(Threaded)') \in Nat
  BY <1>1
<1> QED BY <1>3, <1>4, PoolAssumption DEF Counting, Threaded

LEMMA Counted ==
    ASSUME Structure, Counting, NEW c \in Conns, Count(c)
    PROVE  Counting'
<1> DEFINE s == IF inflight >= MAX_INFLIGHT THEN "over" ELSE "counted"
           All == Threaded \cup {"over"}
<1>1. /\ conn[c] = "admitted" /\ door[c] = "http" /\ inflight' = inflight + 1
      /\ Becomes(c, s) /\ UNCHANGED client
  BY DEF Count
<1>2. conn[c] \notin All /\ conn[c] \notin Threaded /\ s \in All /\ "over" \notin Threaded
  BY <1>1 DEF Threaded
<1>3. /\ Cardinality(Http(All)) \in Nat /\ Cardinality(Http(Threaded)) \in Nat
      /\ Cardinality(Http(All)') = Cardinality(Http(All)) + 1
  BY <1>1, <1>2, HttpMoves
<1>4. Cardinality(Http(Threaded)) <= Cardinality(Http(All))
  <2>1. Http(Threaded) \subseteq Http(All)
    BY DEF Http
  <2>2. IsFiniteSet(Http(All))
    BY <1>1, HttpMoves
  <2> QED BY <2>1, <2>2, FS_Subset
<1>5. Cardinality(Http(Threaded)') <= MAX_INFLIGHT
  <2>1. CASE inflight >= MAX_INFLIGHT
    <3>1. Http(Threaded)' = Http(Threaded)
      BY <1>1, <1>2, <2>1, HttpMoves
    <3> QED BY <3>1 DEF Counting
  <2>2. CASE ~(inflight >= MAX_INFLIGHT)
    <3>1. Cardinality(Http(Threaded)') = Cardinality(Http(Threaded)) + 1
      BY <1>1, <1>2, <2>2, HttpMoves DEF Threaded
    <3> QED BY <3>1, <2>2, <1>3, <1>4, PoolAssumption DEF Counting
  <2> QED BY <2>1, <2>2
<1>6. inflight' \in Nat /\ Cardinality(Http(All)') <= inflight'
  BY <1>1, <1>3 DEF Counting
<1> HIDE DEF s
<1> QED BY <1>5, <1>6 DEF Counting, Threaded

LEMMA Uncounted ==
    ASSUME Structure, Counting, NEW c \in Conns, Shed(c) \/ Uncount(c)
    PROVE  Counting'
<1> DEFINE All == Threaded \cup {"over"}
<1>1. PICK s \in {"shed", "ending"} : Becomes(c, s)
  BY DEF Shed, Uncount
<1>2. /\ conn[c] \in All /\ s \notin All /\ s \notin Threaded /\ door[c] = "http"
      /\ inflight' = inflight - 1 /\ UNCHANGED client
  BY <1>1 DEF Shed, Uncount, Threaded, Structure, Owners
<1>3. /\ Cardinality(Http(All)) \in Nat /\ Cardinality(Http(All)) >= 1
      /\ Cardinality(Http(All)') = Cardinality(Http(All)) - 1
  BY <1>1, <1>2, HttpMoves
<1>4. \/ Http(Threaded)' = Http(Threaded)
      \/ Cardinality(Http(Threaded)') = Cardinality(Http(Threaded)) - 1
  BY <1>1, <1>2, HttpMoves
<1>5. Cardinality(Http(Threaded)) \in Nat
  BY <1>1, <1>2, HttpMoves
<1>6. Cardinality(Http(Threaded)') <= MAX_INFLIGHT
  BY <1>4, <1>5, PoolAssumption DEF Counting
<1>7. inflight' \in Nat /\ Cardinality(Http(All)') <= inflight'
  BY <1>2, <1>3 DEF Counting
<1> QED BY <1>6, <1>7 DEF Counting

LEMMA CountingNext == Structure /\ Counting /\ [Next]_vars => Counting'
<1> SUFFICES ASSUME Structure, Counting, [Next]_vars PROVE Counting'
  OBVIOUS
<1>1. ASSUME NEW c \in Conns, Arrive(c) \/ Accept(c) \/ Admit(c) \/ Refuse(c) \/ Send(c)
                              \/ DropShed(c) \/ End(c)
      PROVE  Counting'
  <2>1. /\ \E s : Becomes(c, s) /\ s \notin Threaded \cup {"over"}
        /\ UNCHANGED client /\ inflight' = inflight
    BY <1>1 DEF Arrive, Accept, Admit, Refuse, Send, DropShed, End, Threaded
  <2> QED BY <2>1, CountingKept
<1>2. ASSUME NEW c \in Conns, Spawn(c) \/ SpawnFails(c) \/ HttpServed(c) PROVE Counting'
  <2>1. /\ \E s : Becomes(c, s) /\ s # "over"
        /\ conn[c] \in Threaded
        /\ UNCHANGED client /\ inflight' = inflight
    BY <1>2 DEF Spawn, SpawnFails, HttpServed, Threaded
  <2> QED BY <2>1, CountingKept
<1>3. ASSUME NEW w \in Workers, Receive(w) PROVE Counting'
  <2>1. PICK c \in Conns : c = Head(queue) /\ door[c] = "main"
    <3>1. queue \in Seq(Conns) /\ queue # <<>>
      BY <1>3 DEF Receive, Structure, Types
    <3>2. 1 \in DOMAIN queue /\ Head(queue) = queue[1] /\ Head(queue) \in Conns
      BY <3>1
    <3> QED BY <3>2 DEF Structure, Owners
  <2>2. Becomes(c, "serving") /\ UNCHANGED client /\ inflight' = inflight
    BY <1>3, <2>1 DEF Receive
  <2> QED BY <2>1, <2>2, CountingKept
<1>4. ASSUME NEW w \in Workers, Served(w) \/ Release(w) PROVE Counting'
  <2>1. PICK c \in Conns : c = job[w] /\ door[c] = "main"
    BY <1>4 DEF Served, Release, Structure, Owners, Busy
  <2>2. /\ \E s : Becomes(c, s) /\ s # "over"
        /\ UNCHANGED client /\ inflight' = inflight
    BY <1>4, <2>1 DEF Served, Release
  <2> QED BY <2>1, <2>2, CountingKept
<1>5. ASSUME UNCHANGED <<client, conn, inflight>> PROVE Counting'
  <2>1. \A P : Http(P)' = Http(P)
    BY <1>5 DEF Http, client
  <2> QED BY <1>5, <2>1 DEF Counting, Threaded
<1>6. ASSUME NEW d \in Doors, Check(d) \/ AcceptNothing(d) \/ Join PROVE Counting'
  BY <1>6, <1>5 DEF Check, AcceptNothing, Join
<1>7. ASSUME NEW w \in Workers, LockRx(w) \/ Leave(w) PROVE Counting'
  BY <1>7, <1>5 DEF LockRx, Leave
<1>8. CASE Trigger \/ Terminated \/ UNCHANGED vars
  BY <1>8, <1>5 DEF Trigger, Terminated, vars
<1> QED BY <1>1, <1>2, <1>3, <1>4, <1>6, <1>7, <1>8, Counted, Uncounted
        DEF Next, AcceptLoop, WorkerStep

\* However the accept loop and the threads race on the counter, and whatever
\* panics, no more than MAX_INFLIGHT plain-HTTP connections have a thread.
THEOREM ThreadsCapped == Spec => []CapHolds
<1>1. Init => Counting
  <2> SUFFICES ASSUME Init PROVE Counting
    OBVIOUS
  <2>1. Http(Threaded \cup {"over"}) = {} /\ Http(Threaded) = {}
    BY DEF Init, Http, Threaded
  <2>2. inflight = 0
    BY DEF Init
  <2> QED BY <2>1, <2>2, FS_EmptySet, PoolAssumption DEF Counting
<1>2. Counting => CapHolds
  BY DEF Counting, CapHolds, Threaded
<1> QED BY <1>1, <1>2, CountingNext, StructureAlways, PTL DEF Spec

\* Every variable keeps its type; neither counter ever goes below zero.
THEOREM TypeCorrect == Spec => []TypeOK
<1>1. Init => Slots /\ Counting
  <2> SUFFICES ASSUME Init PROVE Slots /\ Counting
    OBVIOUS
  <2>1. /\ Http(Threaded \cup {"over"}) = {} /\ Http(Threaded) = {} /\ inflight = 0
        /\ \A i \in Peers : counts[i] = 0 /\ Charged(i) = {}
        /\ counts \in [Peers -> Nat]
    BY DEF Init, Http, Threaded, Charged
  <2> QED BY <2>1, FS_EmptySet, PoolAssumption DEF Slots, SlotsMatch, Counting
<1>2. Structure /\ Slots /\ Counting => TypeOK
  BY DEF Structure, Types, Slots, Counting, TypeOK
<1> QED BY <1>1, <1>2, SlotsNext, CountingNext, StructureAlways, PTL DEF Spec
=================================================================================
