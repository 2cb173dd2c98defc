------------------------------- MODULE BodyStream -------------------------------
(***************************************************************************)
(* A streamed response body (src/proto/stream.rs) between the producer     *)
(* threads that share a BodySender and the blocking connection loop that   *)
(* drains it (src/rt/common.rs, through Session and H1Conn::take_out).     *)
(* One critical section of the channel's mutex is one action; notify_all   *)
(* and the call of the waker happen after the unlock and are actions of    *)
(* their own.                                                              *)
(*                                                                         *)
(* Bytes are numbered by their position in the body, in the order send     *)
(* accepted them: a chunk is the interval that starts at `at' and holds    *)
(* `len' bytes, and concatenating adjacent chunks is the interval from the *)
(* first to the end of the last.                                           *)
(***************************************************************************)
EXTENDS Integers, Sequences, StreamChunk

CONSTANTS Producers,      \* the threads that share one BodySender
          Rx,             \* the connection's thread
          STREAM_BUFFER,  \* bytes queued before send blocks
          Sizes,          \* sizes of the pieces producers send
          MaxSize,        \* the largest of them
          MaxAccepted,    \* bound on the bytes a producer starts to send
          Framings        \* how the body may be consumed

ASSUME BodyAssumption ==
    /\ Rx \notin Producers
    /\ STREAM_BUFFER \in Nat \ {0}
    /\ MaxSize \in Nat
    /\ Sizes \subseteq 1..MaxSize     \* an empty piece changes no state
    /\ MaxAccepted \in Nat
    /\ Framings \subseteq {"chunked",   \* HTTP/1.1 chunks
                            "close",     \* HTTP/1.0, raw head: until the close
                            "collect"}   \* gathered by collect_blocking

VARIABLES
    queue,     \* State.queue
    queued,    \* State.queued
    end,       \* State.end
    rxGone,    \* State.rx_gone
    waker,     \* State.waker is set
    parked,    \* threads waiting on Shared.cond
    pc,        \* where each producer is in send or end
    arg,       \* the size of the piece a producer is sending
    hold,      \* the producer cloned a waker before unlocking
    wake,      \* Wake.flag, the connection loop's one-shot flag
    rt,        \* where the connection thread is
    batch,     \* bytes taken from the channel, not written to the socket yet
    tail,      \* what the connection does to the body once rx is dropped
    framing,   \* how the peer learns where the body ends
    client,    \* what the peer has seen of the end: see Farewell
    arrived,   \* how many bytes the peer has received
    accepted   \* history: how many bytes send has accepted

channel  == <<queue, queued, end, rxGone, waker>>
producer == <<pc, arg, hold>>
socket   == <<batch, tail, framing, client, arrived>>
bodyVars == <<channel, parked, producer, wake, rt, socket, accepted>>

Chunk   == [at : Nat, len : Nat]
NoBytes == [at |-> 0, len |-> 0]

\* The length of a run of adjacent chunks.
Bytes(run) ==
    IF run = <<>> THEN 0
    ELSE run[Len(run)].at + run[Len(run)].len - run[1].at

BodyInit ==
    /\ queue = <<>> /\ queued = 0 /\ end = "open" /\ rxGone = FALSE
    /\ waker = FALSE /\ parked = {} /\ wake = FALSE
    /\ pc = [p \in Producers |-> "idle"]
    /\ arg = [p \in Producers |-> 0]
    /\ hold = [p \in Producers |-> FALSE]
    /\ rt = "respond" /\ batch = NoBytes /\ tail = "none"
    /\ framing \in Framings
    /\ client = "open" /\ arrived = 0 /\ accepted = 0

-----------------------------------------------------------------------------
(* The producing half.                                                      *)

CallSend(p) ==
    /\ pc[p] = "idle" /\ end = "open"
    /\ \E size \in Sizes :
          /\ accepted + size <= MaxAccepted
          /\ arg' = [arg EXCEPT ![p] = size]
    /\ pc' = [pc EXCEPT ![p] = "send"]
    /\ UNCHANGED <<channel, parked, hold, wake, rt, socket, accepted>>

\* Mutant: one more piece goes into a full buffer.
FullOffByOne == queued > STREAM_BUFFER

Full == queued >= STREAM_BUFFER

\* `while st.queued >= STREAM_BUFFER && !st.rx_gone' finds the buffer full.
Block(p) ==
    /\ pc[p] = "send" /\ p \notin parked
    /\ Full /\ ~rxGone
    /\ parked' = parked \cup {p}
    /\ UNCHANGED <<channel, producer, wake, rt, socket, accepted>>

Push(p) ==
    /\ pc[p] = "send" /\ p \notin parked
    /\ ~Full /\ ~rxGone
    /\ queue' = Append(queue, [at |-> accepted, len |-> arg[p]])
    /\ queued' = queued + arg[p]
    /\ accepted' = accepted + arg[p]
    /\ hold' = [hold EXCEPT ![p] = waker]
    /\ pc' = [pc EXCEPT ![p] = "notify"]
    /\ UNCHANGED <<end, rxGone, waker, parked, arg, wake, rt, socket>>

BrokenPipe(p) ==
    /\ pc[p] = "send" /\ p \notin parked
    /\ rxGone
    /\ pc' = [pc EXCEPT ![p] = "idle"]
    /\ UNCHANGED <<channel, parked, arg, hold, wake, rt, socket, accepted>>

\* Mutant: the drop that follows finish ends the body a second time.
EndTwice(p) ==
    /\ \A q \in Producers : pc[q] = "idle"
    /\ end' \in {"finished", "aborted"}
    /\ hold' = [hold EXCEPT ![p] = waker]
    /\ pc' = [pc EXCEPT ![p] = "notify"]
    /\ UNCHANGED <<queue, queued, rxGone, waker, parked, arg, wake, rt, socket, accepted>>

\* finish, abort, or the drop of the sender; it takes the sender by value, so
\* no other thread is inside send.
End(p) ==
    /\ \A q \in Producers : pc[q] = "idle"
    /\ end = "open"
    /\ end' \in {"finished", "aborted"}
    /\ hold' = [hold EXCEPT ![p] = waker]
    /\ pc' = [pc EXCEPT ![p] = "notify"]
    /\ UNCHANGED <<queue, queued, rxGone, waker, parked, arg, wake, rt, socket, accepted>>

NotifyAll(p) ==
    /\ pc[p] = "notify"
    /\ parked' = {}
    /\ pc' = [pc EXCEPT ![p] = IF hold[p] THEN "waking" ELSE "idle"]
    /\ UNCHANGED <<channel, arg, hold, wake, rt, socket, accepted>>

CallWaker(p) ==
    /\ pc[p] = "waking"
    /\ wake' = TRUE
    /\ hold' = [hold EXCEPT ![p] = FALSE]
    /\ pc' = [pc EXCEPT ![p] = "idle"]
    /\ UNCHANGED <<channel, parked, arg, rt, socket, accepted>>

\* A condition variable may wake a waiter for no reason.
SpuriousWakeup(t) ==
    /\ t \in parked
    /\ parked' = parked \ {t}
    /\ UNCHANGED <<channel, producer, wake, rt, socket, accepted>>

-----------------------------------------------------------------------------
(* The connection thread, from the handler's return to the end of the body. *)

\* run_handler registers the waker, respond installs the body stream.
SetWaker ==
    /\ rt = "respond" /\ framing # "collect"
    /\ waker' = TRUE
    /\ rt' = "flush"
    /\ UNCHANGED <<queue, queued, end, rxGone, parked, producer, wake, socket, accepted>>

\* A HEAD or bodyless response drops the receiver instead.
OmitBody ==
    /\ rt = "respond" /\ framing # "collect"
    /\ rt' = "drop"
    /\ UNCHANGED <<channel, parked, producer, wake, socket, accepted>>

\* Body::into_bytes gathers the whole stream with collect_blocking; the peer
\* is then its caller.
StartCollect ==
    /\ rt = "respond" /\ framing = "collect"
    /\ rt' = "collect"
    /\ UNCHANGED <<channel, parked, producer, wake, socket, accepted>>

\* poll takes the first chunk and those after it while they fit.
Coalesces(k) ==
    /\ k > 1 => Bytes(SubSeq(queue, 1, k)) <= STREAM_CHUNK
    /\ k < Len(queue) => Bytes(SubSeq(queue, 1, k + 1)) > STREAM_CHUNK

\* Mutants: the chunk that did not fit is lost; the room freed counts framing.
LeftSkipsOne(k)     == SubSeq(queue, k + 2, Len(queue))
FreedWithFraming(k) == Bytes(SubSeq(queue, 1, k)) + 1

Left(k)  == SubSeq(queue, k + 1, Len(queue))
Freed(k) == Bytes(SubSeq(queue, 1, k))

PollData ==
    /\ rt = "flush"
    /\ \E k \in 1..Len(queue) :
          /\ Coalesces(k)
          /\ batch' = [at |-> queue[1].at, len |-> Bytes(SubSeq(queue, 1, k))]
          /\ queue' = Left(k)
          /\ queued' = queued - Freed(k)
    /\ rt' = "polled"
    /\ UNCHANGED <<end, rxGone, waker, parked, producer, wake>>
    /\ UNCHANGED <<tail, framing, client, arrived, accepted>>

\* Mutant: notify_one in place of notify_all.
PollNotifyOne ==
    /\ rt = "polled"
    /\ IF parked = {} THEN parked' = {} ELSE \E t \in parked : parked' = parked \ {t}
    /\ rt' = "write"
    /\ UNCHANGED <<channel, producer, wake, socket, accepted>>

\* Room was freed: wake the producers blocked on it.
PollNotify ==
    /\ rt = "polled"
    /\ parked' = {}
    /\ rt' = "write"
    /\ UNCHANGED <<channel, producer, wake, socket, accepted>>

WriteOut ==
    /\ rt = "write"
    /\ arrived' = arrived + batch.len
    /\ batch' = NoBytes
    /\ rt' = "flush"
    /\ UNCHANGED <<channel, parked, producer, wake, tail, framing, client, accepted>>

\* The write times out or the peer resets, after any part of it: the session is
\* dropped.
WriteFails ==
    /\ rt = "write"
    /\ arrived' \in arrived..arrived + batch.len
    /\ batch' = NoBytes
    /\ tail' = "lost"
    /\ rt' = "drop"
    /\ UNCHANGED <<channel, parked, producer, wake, framing, client, accepted>>

\* Mutant: an aborted body is waited for like an open one.
EndedIfFinished == end = "finished"

IsEnded == end # "open"

\* Nothing queued and the producer still writing: back to waiting on the flag.
PollPending ==
    /\ rt = "flush" /\ queue = <<>> /\ ~IsEnded
    /\ rt' = "sleep"
    /\ UNCHANGED <<channel, parked, producer, wake, socket, accepted>>

\* Mutant: an aborted body is ended like a finished one.
ClosingIgnoresAbort == IF framing = "chunked" THEN "terminator" ELSE "close"

Closing == IF end = "finished" /\ framing = "chunked" THEN "terminator" ELSE "close"

\* The body has ended: take_out gives up the receiver and, when the producer
\* finished, says so the way the framing can.
PollEnd ==
    /\ rt = "flush" /\ queue = <<>> /\ IsEnded
    /\ tail' = Closing
    /\ rt' = "drop"
    /\ UNCHANGED <<channel, parked, producer, wake, batch, framing, client, arrived, accepted>>

\* Mutant: the flag is cleared on the way to sleep, not after it.
AwakeSleepsOn ==
    /\ rt = "sleep" /\ wake
    /\ wake' = FALSE
    /\ UNCHANGED <<channel, parked, producer, rt, socket, accepted>>

\* Wake::wait returns on the flag or after STREAM_INPUT_POLL and clears the
\* flag either way.
Awake ==
    /\ rt = "sleep" /\ wake
    /\ wake' = FALSE
    /\ rt' = "probe"
    /\ UNCHANGED <<channel, parked, producer, socket, accepted>>

WaitTimeout ==
    /\ rt = "sleep" /\ ~wake
    /\ rt' = "probe"
    /\ UNCHANGED <<channel, parked, producer, wake, socket, accepted>>

\* The quick look at the socket finds nothing, or input the engine holds back
\* while a body is being sent.
ProbeIdle ==
    /\ rt = "probe"
    /\ rt' = "flush"
    /\ UNCHANGED <<channel, parked, producer, wake, socket, accepted>>

ProbeClosed ==
    /\ rt = "probe"
    /\ tail' = "lost"
    /\ rt' = "drop"
    /\ UNCHANGED <<channel, parked, producer, wake, batch, framing, client, arrived, accepted>>

\* One turn of collect_blocking's loop, which holds the mutex from the wait on.
Collect ==
    /\ rt = "collect" /\ Rx \notin parked
    /\ arrived' = arrived + Bytes(queue)
    /\ queue' = <<>>
    /\ queued' = queued - Bytes(queue)
    /\ parked' = IF IsEnded THEN {} ELSE {Rx}
    /\ rt' = IF IsEnded THEN "drop" ELSE "collect"
    /\ tail' = CASE ~IsEnded -> tail
                 [] end = "finished" -> "terminator"
                 [] OTHER -> "lost"
    /\ UNCHANGED <<end, rxGone, waker, producer, wake, batch, framing, client, accepted>>

DropRx ==
    /\ rt = "drop"
    /\ rxGone' = TRUE
    /\ queue' = <<>> /\ queued' = 0 /\ waker' = FALSE
    /\ rt' = "dropped"
    /\ UNCHANGED <<end, parked, producer, wake, socket, accepted>>

\* Mutant: the receiver goes away without telling the blocked producers.
DropSilently ==
    /\ rt = "dropped"
    /\ rt' = "farewell"
    /\ UNCHANGED <<channel, parked, producer, wake, socket, accepted>>

DropNotify ==
    /\ rt = "dropped"
    /\ parked' = {}
    /\ rt' = "farewell"
    /\ UNCHANGED <<channel, producer, wake, socket, accepted>>

\* The end the peer sees: the chunked terminator (Ok from collect_blocking),
\* the close of the connection, a reset (Err), or, for a body that was omitted,
\* nothing.
Farewell ==
    /\ rt = "farewell"
    /\ client' \in CASE tail = "terminator" -> IF framing = "chunked" THEN {"terminated", "lost"}
                                                              ELSE {"terminated"}
                   [] tail = "close" -> {"closed"}
                   [] tail = "lost" -> IF framing = "collect" THEN {"lost"}
                                                              ELSE {"closed", "lost"}
                   [] tail = "none" -> {"open"}
    /\ rt' = "done"
    /\ UNCHANGED <<channel, parked, producer, wake, batch, tail, framing, arrived, accepted>>

-----------------------------------------------------------------------------
\* Everybody is through: the only state the system may stop in.
BodyTerminated ==
    /\ rt = "done" /\ end # "open" /\ \A p \in Producers : pc[p] = "idle"
    /\ UNCHANGED bodyVars

Send(p) == Block(p) \/ Push(p) \/ BrokenPipe(p)

ProducerStep(p) == Send(p) \/ NotifyAll(p) \/ CallWaker(p)

Connection ==
    \/ SetWaker \/ OmitBody \/ StartCollect
    \/ PollData \/ PollNotify \/ WriteOut \/ WriteFails
    \/ PollPending \/ PollEnd \/ Awake \/ WaitTimeout \/ ProbeIdle \/ ProbeClosed
    \/ Collect \/ DropRx \/ DropNotify \/ Farewell

BodyNext ==
    \/ \E p \in Producers : CallSend(p) \/ End(p) \/ ProducerStep(p)
    \/ \E t \in Producers \cup {Rx} : SpuriousWakeup(t)
    \/ Connection
    \/ BodyTerminated

\* Threads that can run do.  Nothing makes a producer send or end its body.
BodyFairness ==
    /\ \A p \in Producers : WF_bodyVars(ProducerStep(p))
    /\ WF_bodyVars(Connection)

BodySpec == BodyInit /\ [][BodyNext]_bodyVars /\ BodyFairness
-----------------------------------------------------------------------------
(* Correctness.                                                             *)

\* Every variable holds a value of its type.
BodyTypeOK ==
    /\ queue \in Seq(Chunk) /\ queued \in Nat
    /\ end \in {"open", "finished", "aborted"}
    /\ rxGone \in BOOLEAN /\ waker \in BOOLEAN /\ wake \in BOOLEAN
    /\ parked \subseteq Producers \cup {Rx}
    /\ pc \in [Producers -> {"idle", "send", "notify", "waking"}]
    /\ arg \in [Producers -> 0..MaxSize]
    /\ hold \in [Producers -> BOOLEAN]
    /\ rt \in {"respond", "flush", "polled", "write", "sleep", "probe",
               "collect", "drop", "dropped", "farewell", "done"}
    /\ batch \in Chunk
    /\ tail \in {"none", "terminator", "close", "lost"}
    /\ framing \in {"chunked", "close", "collect"}
    /\ client \in {"open", "terminated", "closed", "lost"}
    /\ arrived \in Nat /\ accepted \in Nat

\* While the receiver exists and no write has failed, the bytes accepted by send are, in order and
\* without a gap, those the peer has, those in the connection thread's hands
\* and those queued; `queued' counts the latter exactly.
InOrder ==
    /\ \A i \in 1..Len(queue) - 1 : queue[i + 1].at = queue[i].at + queue[i].len
    /\ rt \in {"polled", "write"} => batch.at = arrived
    /\ ~rxGone /\ tail # "lost" =>
                  /\ accepted = arrived + batch.len + queued
                  /\ queued = Bytes(queue)
                  /\ queue # <<>> => queue[1].at = arrived + batch.len

\* Memory stays bounded however slowly the peer reads: the buffer overshoots
\* STREAM_BUFFER by less than one piece, whatever the number of producers.
Backpressure == queued < STREAM_BUFFER + MaxSize

\* A producer waits only for room: either the buffer is full and the receiver
\* there, or a notify_all is on its way.  The collecting receiver waits only
\* for bytes or the end.
NobodyStranded ==
    LET notifying == \/ \E p \in Producers : pc[p] = "notify"
                     \/ rt \in {"polled", "dropped"}
    IN  /\ parked \cap Producers # {} => ((queued >= STREAM_BUFFER /\ ~rxGone) \/ notifying)
        /\ Rx \in parked => ((queue = <<>> /\ end = "open") \/ notifying)

\* The connection thread never sleeps on bytes or on the end of the body
\* without the flag being set or about to be: whatever the producers did
\* before, during or after the waker's registration.
NoLostWakeup ==
    rt = "sleep" /\ ~wake /\ (queue # <<>> \/ end # "open")
        => \E p \in Producers : pc[p] = "waking" \/ (pc[p] = "notify" /\ hold[p])

\* What a peer takes for a complete body.
PeerBelievesComplete ==
    client = IF framing = "close" THEN "closed" ELSE "terminated"

\* A body that looks complete is complete: the producer finished it and the
\* peer has every byte send accepted.  A body that lasts until the connection
\* closes cannot promise that: an abort closes it just as a finish does.
CompleteMeansAll ==
    framing # "close" /\ PeerBelievesComplete => end = "finished" /\ arrived = accepted

\* The channel, the waker and the connection loop implement a byte stream, for
\* chunked and collected bodies.
Abstract == INSTANCE ByteStream WITH
    written  <- accepted,
    finished <- end = "finished",
    received <- arrived,
    fate     <- IF PeerBelievesComplete THEN "complete"
                ELSE IF client = "open" THEN "open" ELSE "cut"

ImplementsByteStream ==
    /\ framing # "close" => Abstract!Init
    /\ [][framing # "close" => Abstract!Next]_Abstract!vars

\* send returns: a producer blocked on a full buffer gets room, or learns that
\* the receiver is gone.
SendReturns == \A p \in Producers : pc[p] = "send" ~> pc[p] # "send"

\* Once the producer has ended the body, the response ends.
EndedBodyIsOver == end # "open" ~> rt = "done"
=================================================================================
