------------------------------- MODULE ThreadPool -------------------------------
(***************************************************************************)
(* The thread-pool runtime (src/rt/threadpool.rs) and the per-address      *)
(* limiter it shares with the plain-HTTP listener (src/rt/common.rs): two  *)
(* accept loops, a bounded queue of accepted connections, the workers that *)
(* take turns to receive from it, a thread per plain-HTTP connection, and  *)
(* shutdown.  What happens on a connection is left out: it ends, well or   *)
(* by a panic of the handler, or goes on.  A failed accept changes nothing *)
(* but the pace of the loop.                                               *)
(***************************************************************************)
EXTENDS Integers, Sequences, FiniteSets

CONSTANTS Conns,         \* connections that clients may open
          Workers,       \* the pool
          Peers,         \* client addresses
          None,          \* no address, no connection, no worker
          BACKLOG,       \* capacity of the queue of accepted connections
          MAX_PER_IP,    \* connections per address, 0 for no limit
          MAX_INFLIGHT   \* plain-HTTP connections served at once

ASSUME PoolAssumption ==
    /\ IsFiniteSet(Conns) /\ IsFiniteSet(Workers) /\ Workers # {}
    /\ None \notin Conns \cup Workers \cup Peers
    /\ BACKLOG \in Nat \ {0} /\ MAX_PER_IP \in Nat /\ MAX_INFLIGHT \in Nat

VARIABLES
    door,      \* the listener a connection comes to: "main" or "http"
    ip,        \* the address it comes from, None if peer_addr fails
    conn,      \* how far it has got
    loop,      \* where each accept loop is
    queue,     \* the channel between the main loop and the workers
    rxLock,    \* the worker inside the mutex around the receiving end
    worker,    \* where each worker is
    job,       \* the connection it serves
    counts,    \* PeerLimiter.counts, 0 for no entry
    inflight,  \* the plain-HTTP listener's counter
    shutdown   \* Shutdown.flag

client == <<door, ip>>
pool   == <<queue, rxLock, worker, job>>
vars   == <<client, conn, loop, pool, counts, inflight, shutdown>>

Doors == {"main", "http"}

Init ==
    /\ door \in [Conns -> Doors] /\ ip \in [Conns -> Peers \cup {None}]
    /\ conn = [c \in Conns |-> "away"]
    /\ loop = [d \in Doors |-> "check"]
    /\ queue = <<>> /\ rxLock = None
    /\ worker = [w \in Workers |-> "lock"] /\ job = [w \in Workers |-> None]
    /\ counts = [i \in Peers |-> 0] /\ inflight = 0 /\ shutdown = FALSE

Becomes(c, state) == conn' = [conn EXCEPT ![c] = state]
Loop(d, at)       == loop' = [loop EXCEPT ![d] = at]

-----------------------------------------------------------------------------
(* Clients and the operator.                                                *)

Arrive(c) ==
    /\ conn[c] = "away"
    /\ Becomes(c, "arrived")
    /\ UNCHANGED <<client, loop, pool, counts, inflight, shutdown>>

Trigger ==
    /\ ~shutdown
    /\ shutdown' = TRUE
    /\ UNCHANGED <<client, conn, loop, pool, counts, inflight>>

-----------------------------------------------------------------------------
(* PeerLimiter: admit, and the drop of the PeerGuard it returns.            *)

Limited(c) == ip[c] # None /\ MAX_PER_IP > 0

\* Mutant: the test lets one more in.
RoomForOneMore(c) == Limited(c) => counts[ip[c]] <= MAX_PER_IP

RoomFor(c) == Limited(c) => counts[ip[c]] < MAX_PER_IP

TakeSlot(c) == counts' = IF Limited(c) THEN [counts EXCEPT ![ip[c]] = @ + 1] ELSE counts
DropSlot(c) == counts' = IF Limited(c) THEN [counts EXCEPT ![ip[c]] = @ - 1] ELSE counts

-----------------------------------------------------------------------------
(* Both accept loops.                                                       *)

\* Mutant: the flag is looked at only before the loop.
CheckOnce(d) ==
    /\ loop[d] = "check"
    /\ Loop(d, "accept")
    /\ UNCHANGED <<client, conn, pool, counts, inflight, shutdown>>

\* The main loop goes on to drain, which closes the channel.
Check(d) ==
    /\ loop[d] = "check"
    /\ Loop(d, IF ~shutdown THEN "accept" ELSE IF d = "main" THEN "drain" ELSE "ended")
    /\ UNCHANGED <<client, conn, pool, counts, inflight, shutdown>>

Accept(c) ==
    /\ loop[door[c]] = "accept" /\ conn[c] = "arrived"
    /\ Becomes(c, "accepted") /\ Loop(door[c], "busy")
    /\ UNCHANGED <<client, pool, counts, inflight, shutdown>>

\* No connection to accept, or no descriptor for it: sleep and look again.
AcceptNothing(d) ==
    /\ loop[d] = "accept"
    /\ Loop(d, "check")
    /\ UNCHANGED <<client, conn, pool, counts, inflight, shutdown>>

Admit(c) ==
    /\ conn[c] = "accepted" /\ RoomFor(c)
    /\ Becomes(c, "admitted") /\ TakeSlot(c)
    /\ UNCHANGED <<client, loop, pool, inflight, shutdown>>

\* Over the cap of its address: closed without an answer.
Refuse(c) ==
    /\ conn[c] = "accepted" /\ ~RoomFor(c)
    /\ Becomes(c, "closed") /\ Loop(door[c], "check")
    /\ UNCHANGED <<client, pool, counts, inflight, shutdown>>

-----------------------------------------------------------------------------
(* The main listener: the queue and the workers.                            *)

\* SyncSender::send blocks while the queue is full.
Send(c) ==
    /\ conn[c] = "admitted" /\ door[c] = "main" /\ Len(queue) < BACKLOG
    /\ queue' = Append(queue, c)
    /\ Becomes(c, "queued") /\ Loop("main", "check")
    /\ UNCHANGED <<client, rxLock, worker, job, counts, inflight, shutdown>>

LockRx(w) ==
    /\ worker[w] = "lock" /\ rxLock = None
    /\ rxLock' = w
    /\ worker' = [worker EXCEPT ![w] = "recv"]
    /\ UNCHANGED <<client, conn, loop, queue, job, counts, inflight, shutdown>>

\* recv, in the mutex, and out of it with the job.
Receive(w) ==
    /\ worker[w] = "recv" /\ queue # <<>>
    /\ job' = [job EXCEPT ![w] = Head(queue)] /\ queue' = Tail(queue)
    /\ rxLock' = None /\ worker' = [worker EXCEPT ![w] = "serve"]
    /\ Becomes(Head(queue), "serving")
    /\ UNCHANGED <<client, loop, counts, inflight, shutdown>>

\* Mutant: a closed channel is left at once.
LeaveAtOnce(w) ==
    /\ worker[w] = "recv" /\ loop["main"] = "drain"
    /\ rxLock' = None /\ worker' = [worker EXCEPT ![w] = "gone"]
    /\ UNCHANGED <<client, conn, loop, queue, job, counts, inflight, shutdown>>

\* recv fails once the sender is dropped and nothing is queued.
Leave(w) ==
    /\ worker[w] = "recv" /\ queue = <<>> /\ loop["main"] = "drain"
    /\ rxLock' = None /\ worker' = [worker EXCEPT ![w] = "gone"]
    /\ UNCHANGED <<client, conn, loop, queue, job, counts, inflight, shutdown>>

\* Mutant: a panic takes the worker with it.
ServedUncaught(w) ==
    /\ worker[w] = "serve"
    /\ \/ worker' = [worker EXCEPT ![w] = "release"] /\ Becomes(job[w], "served")
       \/ worker' = [worker EXCEPT ![w] = "gone"] /\ Becomes(job[w], "panicked")
    /\ UNCHANGED <<client, loop, queue, rxLock, job, counts, inflight, shutdown>>

\* handle returns, or panics: catch_unwind makes no difference between them.
Served(w) ==
    /\ worker[w] = "serve"
    /\ worker' = [worker EXCEPT ![w] = "release"] /\ Becomes(job[w], "served")
    /\ UNCHANGED <<client, loop, queue, rxLock, job, counts, inflight, shutdown>>

Release(w) ==
    /\ worker[w] = "release"
    /\ DropSlot(job[w]) /\ Becomes(job[w], "closed")
    /\ job' = [job EXCEPT ![w] = None] /\ worker' = [worker EXCEPT ![w] = "lock"]
    /\ UNCHANGED <<client, loop, queue, rxLock, inflight, shutdown>>

\* run joins the workers and returns.
Join ==
    /\ loop["main"] = "drain" /\ \A w \in Workers : worker[w] = "gone"
    /\ Loop("main", "returned")
    /\ UNCHANGED <<client, conn, pool, counts, inflight, shutdown>>

-----------------------------------------------------------------------------
(* The plain-HTTP listener: a thread per connection, counted.               *)

\* Mutant: `>' in place of `>='.
CountOneMore(c) ==
    /\ conn[c] = "admitted" /\ door[c] = "http"
    /\ inflight' = inflight + 1
    /\ Becomes(c, IF inflight > MAX_INFLIGHT THEN "over" ELSE "counted")
    /\ UNCHANGED <<client, loop, pool, counts, shutdown>>

Count(c) ==
    /\ conn[c] = "admitted" /\ door[c] = "http"
    /\ inflight' = inflight + 1
    /\ Becomes(c, IF inflight >= MAX_INFLIGHT THEN "over" ELSE "counted")
    /\ UNCHANGED <<client, loop, pool, counts, shutdown>>

\* Mutant: taken back by hand and again by a guard.
ShedTwice(c) ==
    /\ conn[c] = "over"
    /\ inflight' = inflight - 2
    /\ Becomes(c, "shed")
    /\ UNCHANGED <<client, loop, pool, counts, shutdown>>

\* Over the cap: the count is taken back, then guard and socket are dropped.
Shed(c) ==
    /\ conn[c] = "over"
    /\ inflight' = inflight - 1
    /\ Becomes(c, "shed")
    /\ UNCHANGED <<client, loop, pool, counts, shutdown>>

DropShed(c) ==
    /\ conn[c] = "shed"
    /\ DropSlot(c) /\ Becomes(c, "closed") /\ Loop("http", "check")
    /\ UNCHANGED <<client, pool, inflight, shutdown>>

Spawn(c) ==
    /\ conn[c] = "counted"
    /\ Becomes(c, "serving") /\ Loop("http", "check")
    /\ UNCHANGED <<client, pool, counts, inflight, shutdown>>

\* thread::spawn panics when the system has no thread left, and the accept
\* loop with it; the connection goes with the closure.
SpawnFails(c) ==
    /\ conn[c] = "counted"
    /\ Becomes(c, "panicked") /\ Loop("http", "ended")
    /\ UNCHANGED <<client, pool, counts, inflight, shutdown>>

HttpServed(c) ==
    /\ conn[c] = "serving" /\ door[c] = "http"
    /\ \E state \in {"served", "panicked"} : Becomes(c, state)
    /\ UNCHANGED <<client, loop, pool, counts, inflight, shutdown>>

\* serve has returned; a panic skips this.
Uncount(c) ==
    /\ conn[c] = "served" /\ door[c] = "http"
    /\ inflight' = inflight - 1
    /\ Becomes(c, "ending")
    /\ UNCHANGED <<client, loop, pool, counts, shutdown>>

\* Mutant: the slot is given back where the count is, which a panic skips.
EndUnlessPanicked(c) ==
    /\ conn[c] \in {"ending", "panicked"}
    /\ IF conn[c] = "ending" THEN DropSlot(c) ELSE UNCHANGED counts
    /\ Becomes(c, "closed")
    /\ UNCHANGED <<client, loop, pool, inflight, shutdown>>

\* The thread's guard is dropped, by its return or by the unwinding.
End(c) ==
    /\ conn[c] \in {"ending", "panicked"}
    /\ DropSlot(c) /\ Becomes(c, "closed")
    /\ UNCHANGED <<client, loop, pool, inflight, shutdown>>

-----------------------------------------------------------------------------
AcceptLoop(d) ==
    \/ Check(d) \/ AcceptNothing(d)
    \/ \E c \in Conns :
          /\ door[c] = d
          /\ \/ Accept(c) \/ Admit(c) \/ Refuse(c) \/ Send(c)
             \/ Count(c) \/ Shed(c) \/ DropShed(c) \/ Spawn(c) \/ SpawnFails(c)
    \/ d = "main" /\ Join

WorkerStep(w) == LockRx(w) \/ Receive(w) \/ Leave(w) \/ Release(w)

\* Both loops have ended: the only state the runtime may stop in.  Threads of
\* the plain-HTTP listener are not joined and may be cut off.
Terminated ==
    /\ loop["main"] = "returned" /\ loop["http"] = "ended"
    /\ UNCHANGED vars

Next ==
    \/ \E c \in Conns : Arrive(c) \/ HttpServed(c) \/ Uncount(c) \/ End(c)
    \/ \E d \in Doors : AcceptLoop(d)
    \/ \E w \in Workers : WorkerStep(w) \/ Served(w)
    \/ Trigger \/ Terminated

\* Threads that can run do.  Nothing makes a connection end.
Fairness ==
    /\ \A d \in Doors : WF_vars(AcceptLoop(d))
    /\ \A w \in Workers : WF_vars(WorkerStep(w))
    /\ \A c \in Conns : WF_vars(Uncount(c) \/ End(c))

Spec == Init /\ [][Next]_vars /\ Fairness

\* Under the assumption that every connection ends.  The runtime bounds how long
\* a peer may stall, not how many requests it may make.
EndingSpec ==
    Spec /\ (\A w \in Workers : WF_vars(Served(w))) /\ (\A c \in Conns : WF_vars(HttpServed(c)))

-----------------------------------------------------------------------------
(* Correctness.                                                             *)

\* Every variable holds a value of its type; no counter goes below zero.
TypeOK ==
    /\ door \in [Conns -> Doors] /\ ip \in [Conns -> Peers \cup {None}]
    /\ conn \in [Conns -> {"away", "arrived", "accepted", "admitted", "queued", "serving", "served",
                           "counted", "over", "shed", "panicked", "ending", "closed"}]
    /\ loop \in [Doors -> {"check", "accept", "busy", "drain", "returned", "ended"}]
    /\ queue \in Seq(Conns) /\ rxLock \in Workers \cup {None}
    /\ worker \in [Workers -> {"lock", "recv", "serve", "release", "gone"}]
    /\ job \in [Workers -> Conns \cup {None}]
    /\ counts \in [Peers -> Nat] /\ inflight \in Nat /\ shutdown \in BOOLEAN

\* An address is charged for exactly its connections that were admitted and have
\* not ended, at either listener and however they end, and never for more than
\* the cap.
Charged(i) == {c \in Conns : ip[c] = i /\ conn[c] \notin {"away", "arrived", "accepted", "closed"}}
SlotsMatch ==
    MAX_PER_IP > 0 => \A i \in Peers : /\ counts[i] = Cardinality(Charged(i))
                                       /\ counts[i] <= MAX_PER_IP

\* However loop and threads race on the counter, no more than MAX_INFLIGHT
\* plain-HTTP connections have a thread.
Http(states) == {c \in Conns : door[c] = "http" /\ conn[c] \in states}
CapHolds == Cardinality(Http({"counted", "serving", "served"})) <= MAX_INFLIGHT

\* The pool never shrinks: a worker leaves only for a shutdown, whatever happens
\* to the connections it serves.
PoolHolds == \A w \in Workers : worker[w] = "gone" => loop["main"] \in {"drain", "returned"}

\* run returns with nothing half done: every connection it admitted was served.
NothingDropped ==
    loop["main"] = "returned" =>
        \A c \in Conns : door[c] = "main" => conn[c] \in {"away", "arrived", "closed"}

\* "Maximum redirect connections served concurrently; excess is shed"
\* (threadpool.rs:225): one is shed only while that many have a thread.
ShedAtCap ==
    [][\A c \in Conns : conn[c] # "over" /\ conn'[c] = "over" =>
          Cardinality(Http({"serving", "served", "panicked", "ending"})) >= MAX_INFLIGHT]_vars

\* If connections end, the queue is worked off: no worker keeps the receiving end
\* to itself, or takes a connection and leaves with it.
Queued == {c \in Conns : conn[c] = "queued"}
QueuedIsServed == Queued # {} ~> Queued = {}

\* If connections end, a shutdown ends: the loop notices it even when the queue
\* was full, and the workers it waits for come to their end.
Drains == shutdown ~> loop["main"] = "returned"
=================================================================================
