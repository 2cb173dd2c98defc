# A formal model of httpsd

TLA+ modules that model httpsd's concurrent and stateful parts, the TLC
configurations that check them on small instances, and theorems about them that
the TLA+ proof system (TLAPS) checks for every value of the constants. Paths are
relative to the crate (`src/...`); `PROJECT.json` maps every definition to the
lines it translates.

## The system

httpsd is an HTTP/1.1, HTTP/2 and HTTP/3 server with automatic certificates. A
connection's protocol is a *sans-I/O* state machine (`Session` over an engine);
a *runtime* moves bytes between it and a socket. The thread-pool runtime is the
one the command line uses; tokio and mio runtimes and a QUIC loop exist beside it.

| Component | State it keeps | Operations | What is hard about it | What makes it correct |
|---|---|---|---|---|
| Streamed body channel, `proto/stream.rs` | queue, byte count, end, receiver gone, waker | `send`, `finish`, `abort`, drop; `set_waker`, `poll`, `collect_blocking`, drop | notifications after the unlock, one condition variable for both directions, the waker registered late | order, bounded buffer, no lost wake-up, a truncated body never looks whole |
| Blocking connection loop, `rt/common.rs` | wake flag, throughput window, probing | `serve_blocking_window` | waits on two sources, a deadline moved by some delays and not by others | flushes everything, drops only a slow peer |
| Per-address limiter, `rt/common.rs` | address -> count | `admit`, drop of the guard | shared by two listeners and all their threads, released by unwinding | count = live connections |
| Thread-pool runtime, `rt/threadpool.rs` | queue of accepted connections, workers, plain-HTTP count | accept loops, `worker_loop`, drain | blocking send, panics, racing counter, shutdown at any moment | caps hold, the pool does not shrink, the drain loses nothing and ends |
| Shutdown, `rt/shutdown.rs` | a flag | `trigger`, `is_triggered` | polled by loops that may be blocked | noticed |
| ACME manager, `acme/manager.rs` | certificate cache, negative cache, per-host locks, permits, challenge maps | `get_or_issue`, `choose_cached`, `reload` | check-lock-recheck across minutes, locks created and destroyed, time read early | one order per host, caps, cooldown, the challenge in place |
| ACME store, `acme/store.rs` | two files per host, account key | `load_cert`, `save_cert` | two renames, crashes, readers without the lock | a chain comes with its key |
| ACME client, `acme/client.rs` | nonce, account, directory | `issue`, `do_authorization`, polls | fails at every step | cleans up after itself |
| HTTP/1.1 engine, `proto/conn.rs` | input and output buffers, pending request, chunk decoder, body stream, closed | `feed`, `poll_request`, `respond`, `take_out` | pipelining, bodies cut anywhere, close at the right byte | each request answered once and in order |
| Session, `session.rs` | TLS transport, engine | `received`, `to_send` | engine chosen late; held requests served after a body | no request forgotten |
| HTTP/2 engine, `h2/conn.rs`, `h2/frame.rs` | streams, windows, HPACK, flood counters | frame handlers, `respond`, `pump_out` | many counters at their limits, resets in any order | windows respected, caps hold, a stream ends once |
| HTTP/3 and QUIC, `h3/conn.rs`, `rt/quic.rs` | connections by address, pending Initials | `on_datagram`, timers, eviction | reordered and lost datagrams, caps, one thread | bounded, no live connection starved |
| tokio runtime, `rt/tokio.rs` | in-flight count | accept, `serve`, drain | a panic in a task, select between read and wake-up | cap holds, nothing waits unflushed, the drain ends |
| mio runtime, `rt/mio.rs` | connections, wake-ups, back-off | event loop, sweep, drain | edge-triggered readiness, one thread | no connection forgotten |
| TLS, `tls.rs` | the current acceptor | `accept`, `reload` | two files read while replaced | certificate and key match |
| Certificate routing, `rt/route.rs`, `net/clienthello.rs` | none | `read_client_hello`, `choose` | blocks a worker | - |
| Redirect, `rt/redirect.rs`, `net/gdns.rs` | none | `serve`, `respond` | runs the user's handler with `allow_http` | - |
| Builder, config, reload handle, `rt/mod.rs`, `config.rs` | settings | `run*`, `reload` | - | - |
| Command line and privilege drop, `bin/httpsd.rs`, `privdrop.rs` | listener threads, signal flags | start, bind, drop, watch | any thread may fail before it is bound | never serves as root, drops only when all are bound |
| Responses, headers, requests, `proto/*` | data | - | - | - |
| Static files, `static_files.rs` | none | resolve, ranges, conditions | confinement, arithmetic on ranges | - |
| Router, compression, interop, ACME encodings | none | pure functions | - | - |

How they interact: the accept loop admits a connection through the limiter and
queues it; a worker takes it, chooses a certificate (which may run an ACME order
on that worker) and runs the connection loop; the loop feeds the session, which
runs the handler inline; the handler may give the producing half of a body to
other threads, whose writes wake the loop through the waker. The plain-HTTP
listener and the TLS router read the manager's challenge maps while another worker's
order is being validated. The QUIC thread reads the manager's cache and the disk.
SIGHUP reloads the manager and the static certificates; SIGTERM sets the shutdown flag.

## The modules

| Module | Models | Run |
|---|---|---|
| `ByteStream` | what a streamed body promises: bytes in order, "complete" only if it is | refined by `BodyStream` |
| `BodyStream` | the channel, the wake flag and the connection loop while a body is sent | `connection` |
| `AcmeManager` | the manager with its threads, the disk, the QUIC thread, reload, crashes and time | `acme_two_hosts`, `process` |
| `ThreadPool` | both listeners of the thread-pool runtime, limiter, workers, shutdown | `pool` |
| `RequestHead` | the decisions on a request's head: does it parse, how is its body delimited, does the connection persist | with `H1Conn` |
| `H1Conn` | one HTTP/1 connection from the peer's bytes to its responses: engine, session, blocking loop | `connection` |
| `InputScan` | the scanners of heads and chunked bodies, byte by byte, resumed anywhere | `requests` |
| `StaticFiles` | serving one file, system call by system call, while it changes; resuming and revalidating | `requests` |
| `H2Conn` | one HTTP/2 connection: engine, session, client | `h2_conn`, `h2_long_head` |
| `H3Conn` | the HTTP/3 engine of one QUIC connection | with `QuicServer` |
| `QuicServer` | the QUIC listener's thread: tables, held Initials, eviction, timers, wake-ups, shutdown | `quic`, `quic_cut_body` |
| `LoopSession` | an HTTP/1 session as far as an event loop can tell | with the next two |
| `MioLoop` | the mio runtime: edge-triggered poll, accept and back-off, waker, sweep, drain | `mio` |
| `TokioRuntime` | the tokio runtime: accept loop, count, task per connection, drain | `tokio`, `tokio_panic_leak` |
| `Startup` | the process: bind, drop privileges, signals, reload of the static certificate, exit | `process` |
| `MC...` | constants for TLC, and symmetry sets | |
| `StreamChunk` | `STREAM_CHUNK`, the piece in which bodies are read, shared by `BodyStream` and `StaticFiles` | |
| `BodyProofs` | theorems about `BodyStream`, `StaticFiles` and `InputScan` | |
| `ProcessProofs` | theorems about `AcmeManager` and `Startup` | |
| other `...Proofs` | theorems about the module they are named for (`QuicServerProofs`: and `H3Conn`) | |

What composes what: `H1Conn` takes `RequestHead`'s decisions; `QuicServer` runs one `H3Conn` per connection; `MioLoop` and
`TokioRuntime` drive `LoopSession`s; `BodyStream` implements `ByteStream`. Three runs have two modules that share nothing, and a behaviour of theirs is of one or of the other, with the fairness of
that one: `MCRequests` (`InputScan`, `StaticFiles`), `MCConnection` (`BodyStream`, `H1Conn`) and `MCProcess` (`AcmeManager`, `Startup`).

Mutant operators (comment `Mutant:`) stand beside the definition they would
replace: a plausible slip in that code. They are used by no specification; each
property of a passing run is known to fail when the mutant listed for it in
`PROJECT.json` takes the definition's place.

### BodyStream

One critical section of the channel's mutex is one action; `notify_all` and the
waker's call come after the unlock in the code and are actions of their own
(`NotifyAll`, `CallWaker`, `PollNotify`, `DropNotify`). A thread on the condition variable is
in `parked` and may wake spuriously; on waking it re-evaluates the loop's condition.
`rt` is the position of the connection thread: `SetWaker` (or `OmitBody` for HEAD) after the
handler, `PollData`/`PollNotify`/`WriteOut` while there are bytes,
`PollPending` and then the wait on the flag (`Awake`, `WaitTimeout`), the 1 ms look at the socket (`ProbeIdle`,
`ProbeClosed`), `PollEnd`, and the drop of the receiver, reached also from a failed
write. A body is chunked, close-delimited, or gathered by `collect_blocking`. Bytes are their
positions, a chunk an interval of them, so that order, gaps and counts are visible
and contents are not. Ending a body consumes the sender, so `End` requires every producer to be outside `send`;
producers may share a sender by reference, as `send` takes `&self`.

Left out: what a peer sends while a body streams (the engine holds it back), TLS, the
header, the write's internal retries.

### AcmeManager

`pc` follows a connection thread through `choose` and `get_or_issue`: cache, negative
cache, `host_lock`, lock, both looks again, disk, permit, order, challenge, authorization,
cleanup, finalization, the two renames, cache, `clear_failure` or
`record_failure`, unlock, `release_host_lock`, and last the drop of its own clone of
the lock. Every use of a mutex is one action, so is every file operation and every
exchange with the CA. The reference count of a lock is computed from who holds
clones (`StrongCount`). `now` is the clock when the thread came in, used to the end as the code
does. The QUIC thread (`quic`) takes no host lock and reads the two files one by one.
`ReloadCache` and `ReloadFailures` are the two statements of `reload`. `Crash`
keeps the disk only. A certificate is a generation number and an expiry; a key
is the generation it belongs to.

Left out: names (validated before), the whitelist, the account key, nonces and
signatures, several authorizations in one order (the manager orders for one host).

### ThreadPool

`conn` follows a connection: it arrives at one of two listeners, is accepted, admitted or
refused by the limiter, then queued and served by a worker, or counted and served by a
thread. `loop` is where each accept loop is; while it has a connection in
hand it is `busy`. `SyncSender::send` blocks while the queue is full (`Send` is not enabled). A
worker locks the receiver, receives inside the lock (`LockRx`, `Receive`), serves,
and drops the guard; it leaves when the channel is closed and empty. A panic of the
handler ends the connection: on a worker like a return (`catch_unwind`), on a
plain-HTTP thread by unwinding past the decrement. `SpawnFails` is the panic of
`thread::spawn` when no thread can be made. Shutdown may be
triggered at any moment.

Left out: what is said on the connection, TLS and ACME, the sleeps of the accept loops.

### H1Conn and RequestHead

The peer's bytes are a sequence of units cut anywhere: handshake records, the bytes of a head, the bytes that end it,
and the bytes or chunks of a body. `fed` and `taken` are two positions in it, and the input buffer is what lies between. `Receive`
is `session.received` followed by `drive`; `drive`, `serve_ready` and `run_handler` are operators that return the
session they leave, since the code runs them to the end. A request is refused as the code refuses it (too
large, a head that does not parse, lengths that contradict each other), and the error is queued behind the
responses before it. Responses are of every body kind and close the connection or not. `RequestHead` has the rules on
a head as functions of its lines: what the strict and the lenient mode forgive, several `Content-Length` and
`Transfer-Encoding` fields, the `Connection` tokens.

Left out: header contents, the text of errors, TLS records after the handshake, the throughput window.

### InputScan

`data` is what has been buffered, `scan` the resume position the code keeps between polls
(`head_scan`, and the decoder's state). Bytes are an alphabet of those the scanners tell apart. After any byte at most `MaxBurst`
later a poll may come; the run enumerates the inputs and every way to cut them. The properties compare the resumed scanners with
one-shot definitions of a head's end and of a chunked body on the whole input, and the strict scanner with the lenient one. `Advance` is the
loop of `ChunkDecoder::advance` as a recursive function of its turns; the grammar of a chunked body (`Chunks`, `Content`, `IsLast`, `Bodies`) is stated
without a decoder. In one point it is the decoder's and not RFC 9112's: `hex.trim()` (861) drops blanks around the digits of a size line, among them
CR and LF that are not the line's end, so the grammar allows them there (`Digits`).

### StaticFiles

A handler's steps are the system calls `serve` makes (metadata by name, then `openat2` and `fstat`, or the fallback's second look, test of the root and open by name), then the chunks
the HTTP/1 engine reads. Between any two of them somebody may rename a new file into place, write into the
old one, or remove it. A file's content is a version number; a byte is (version, offset), so that a mixture shows. The client keeps
what it got with its validators, asks for the rest with a range, and revalidates.

Left out: path cleaning, MIME types, directory listings. An index file is followed, a directory without one is not found.

### H2Conn

`conn` is the struct of `h2/conn.rs`, and every handler is an operator from a `conn` to a `conn`. A step is a frame of the
client (any frame on any stream, in any order, with lengths at the limits), a turn of the loop of `pump_out` over the streams,
a response of the handler, or a piece of a body from its producer. `conn.seen` is the client's side, from which the
properties are stated: windows it granted, frames per stream, bodies and their ends. HPACK's
verdict on a header block (good, malformed, too large, undecodable) is an input.

Left out: contents of headers, padding and priority (lengths the handlers strip), PING payloads.

Two things in this code were met on the way that no property is about. `on_headers` (496-505) skips the HPACK decoder for a block
on a stream that has ended, where 586-588 decodes to keep the table in step. A GOAWAY from the
client (353-355) ends the session at once, streams in progress with it.

### H3Conn and QuicServer

A connection of QUIC is external: what it has received on a stream, and the credit it gives, are in the records that come in.
`H3Conn` has `drive`, `read_request`, `handle_request` and `flush` as operators on a connection; `QuicServer` has
the table of connections, the table of first datagrams held until their ClientHello is complete, eviction from
both, timers, the set of streams woken by producers, and shutdown. An iteration of the
loop is one step, since one thread runs it; any datagram may be lost, repeated or late, so any datagram may come next.

`OutBody` has the code's `ended`: `PollAvail` is what `poll_avail` answers, `Polled` the body it leaves, and only one poll says that a
producer has aborted. `flush` polls in its loop (`FlushTurn`) and once more behind it (`Repolled`), for `End` only. A producer's step falls between iterations, save one that would be
seen there by nobody: an abort between these two polls (`AbortBetweenPolls`). `seen` is the client's side: what it has got, what its handler and
producer have written (`due`), whether the producer has aborted (`cut`), whether it may still send (`up`). A reset of the server stops its own half only, so bytes that come later
make a new entry in the table of request streams, as `entry().or_default()` does; that entry may keep its place until the connection ends.
An error of QUIC, of the engine or of the socket drops the connection of a datagram's sender (`FromKnown`); timers and wake-ups ignore it.

Also met: timers far off delay the look at the shutdown flag (`rt/quic.rs:210-216`), and a write error is taken for
flow control (`h3/conn.rs:363`).

### LoopSession, MioLoop and TokioRuntime

`LoopSession` is `Session` over HTTP/1, cut down to what a loop sees: requests unanswered, output ready, a body from a file or a
producer, whether it wants to close. An HTTP/2 session, which sends several bodies at once, is in `H2Conn` only, under the blocking loop. Both loops call `ToSend` and `Serve` as the code calls `to_send` and `received`.

`MioLoop` makes the edge explicit: `edge` holds tokens something has happened to since they were last reported or registered, and the
poll reports those whose condition still holds and forgets the rest. Every statement between two looks at the
outside is a step: a poll, one event, one client accepted, one turn of `pump_writes`, the sweep. The wake-up of a producer is three steps
(write, list, signal) that fall anywhere between them. Accept may fail for want of descriptors, with its back-off, or otherwise. A comment (`rt/mio.rs:237-240`) says that readiness skipped during
a back-off is delivered again; under edge triggering it is not, and the clients in the backlog wait for the next one to come. `BacklogSeen` is about a loop in
which no accept has failed and no drain has begun, and so does not contradict this; `MioBackoff` (below) does.

`TokioRuntime` has the accept loop (claim a place, limiter, spawn), a task per client (`select!` between socket and `Notify`, handler,
`write_all`), the throughput window, panics, and the drain. `permit` is `Notify`'s stored permit. A handler may panic where input is read and where `to_send` runs
the next one; its task is then `panicked`, its socket and its slot of the limiter are given back by unwinding, and its place in `inflight` is not.

Also met: with mio, a client that has shut its side and takes nothing makes the loop turn without rest (about
`rt/mio.rs:411`), and one handler's time is charged to the idle time of all (266); with tokio, `write_all` (`rt/tokio.rs:192`) has no timeout.

### Startup

`cfg` is chosen in `Init`: which listeners, whether to chroot, change group or user, whether started by root. Each listener
thread binds its sockets, signals through the channel and serves, and may fail at each of these. The main
thread collects readiness, looking at the threads between two waits, calls `chroot`, `chdir`, `setgroups`, `setgid` and `setuid` one by one (each
may fail), verifies, installs the signal handlers and waits for the threads. SIGTERM and SIGHUP set flags that the watcher polls. A reload reads the certificate and the key in two steps while
the files may be replaced between them, and each is half written in between (`Torn`); reading or parsing either may fail, which keeps the acceptor and goes on to the next handle
(`Fails`). After the drop of privileges both may be unreadable, or the key alone. On a shutdown the QUIC and redirect loops return at once; the TCP server goes into its drain (`Stop`),
which ends with its last connection (`Drained`). What happens in between is `ThreadPool`'s.

## What the runs show

| Run | Instance | Shows |
|---|---|---|
| `connection` | a body: 2 producers, pieces of 1 or 3 bytes, buffer and coalescing limit 2, at most 5 bytes, all framings. Or requests: 2 pipelined ones of every framing, responses of every kind, 1 handshake record; 402 k states | bytes in order, none lost or doubled; no producer and no collector waits in vain; the loop never sleeps through bytes or an end; delimited bodies implement `ByteStream`; an ended body ends its response. Responses arrive whole, in order and delimited; `100 Continue` at most once and never after the answer; every request that arrived is answered |
| `acme_two_hosts` | 2 threads, 2 hosts, clock 0..1, room for one permit, one certificate, one failure; or a reload at clock 0 while the QUIC thread rests; 2.2 M states | one thread past a host's lock; no order in the cooldown; permits counted |
| `pool` | 3 connections over 2 listeners, 1 worker, queue of 1, one slot per address; 564 k states | slots = live connections; an admitted connection is not lost; a queued connection is served; a shutdown completes |
| `requests` | inputs of up to 17 bytes, of which at most 2 are odd in a chunked body, polls at most 2 bytes apart; a file of 0, 1 or 3 bytes with 3 versions; 4.2 M states | the chunk decoder equals its one-shot definition; no cut makes it read something else; lenient and strict agree on heads without a bare LF; a range is answered with the bytes it names; a 304 only confirms what is current; a copy put together from parts is one version, if files are only replaced, behind `openat2`, and each change falls in a second of its own (times are in seconds) |
| `h2_conn` | 3 streams, any 4 frames, windows 0 to 2, 2 streams at once, every flood limit 1; 3.5 M states | the tables of streams, pending and ready requests agree and no request of a refused stream is delivered; frames of a stream in a legal order; an answer ends; nothing sendable is left behind; windows respected in every step |
| `quic` | 2 peers for 1 connection and 1 held Initial, 2 request streams for 1 place; 219 k states | tables bounded; a FIN only behind all that handler and producer wrote; between iterations a response waits for credit or its producer only, unless an abort of it was dropped |
| `mio` | 2 clients for 1 place, socket of 1 unit; 1.0 M states | when the loop waits, each socket, each wake-up and the backlog that need it have an event coming |
| `tokio` | 2 clients for 1 place, each address shared or not; 478 k states | never more served than the cap allows, and none cut off before the deadline, whatever panics; a task flushes before it waits; the drain ends |
| `process` | all command lines that differ, 1 replacement of the files, each half written in between. Or an ACME order: 2 threads, 1 host, a reload; 297 k states | privileges fall after the last bind, as asked and for good; a signal ends the process, if the TCP server's connections end; a reload ends with the certificate and key that are on disk; a host lock is released |

Three runs end in a violation, each of what a comment of the code says.

`h2_long_head`: `pump_out` removes the stream of a sized body
of which nothing is left, since its END_STREAM "rode on its HEADERS (empty body) or last DATA frame" (`h2/conn.rs:844`). `emit_headers` sets it on a
frame that is both the first and the last of the head only (817), so a response without a body whose head takes two frames
never ends for the client. `h2_conn` therefore has no such response among its own, and `ResponsesEnd` and `EndRides` have the hypothesis `ShortHeads`.

`quic_cut_body`: a producer aborts its body while a chunk that is framed waits for credit. `flush` leaves its loop for want of credit and polls the body once more
(`h3/conn.rs:394-397`), which is the one poll that is told of the abort (`response.rs:403-406`); it looks for `End` only. With the next credit the rest of the chunk goes out, the body says `End` (390) and the
stream is finished with a FIN. A client takes the truncated response for whole, against `stream.rs:124-126`: "the response is cut short in a way the client can detect (... or a
stream reset on HTTP/2 and HTTP/3)". The same poll makes `is_pending_stream` false, so that the wake-up of the abort (`rt/quic.rs:246-252`) passes by a connection that still owes an
end. `FinMeansWhole` and `NothingLeftUnsent` are therefore worded so as not to promise this: the first says that a FIN forgets nothing that was written, the second leaves out a body whose abort was
dropped. HTTP/2 looks at `Failed` in the one place it polls and resets (`AnswersEnd`, `StreamsWellFramed`).

`tokio_panic_leak`: a task lowers the count with a statement behind `serve` (`rt/tokio.rs:85`), which the panic of a handler unwinds past, so that the counter is not
the "Number of connections currently being served" (35) but that and every panic since the start. `MAX_INFLIGHT` panics later the server refuses everybody, and after any panic the drain waits for its
whole grace period. The theorem `PanicsKeepPlaces` says that this is all that leaks. `ThreadPoolShed` below is the same slip in the thread-pool runtime.

### Other configurations

Each of these checks one statement that does not hold, and why is worth knowing:

| Configuration | Statement | What happens |
|---|---|---|
| `AcmeLockLeak` | `manager.rs:351`, lock entries are dropped when unreferenced | two threads release in a row, each counts the other's clone, which is dropped after the mutex: the entry stays |
| `AcmeCooldown` | `manager.rs:31`, no attempt for this long after a failure | the cooldown is counted from before the wait and the order |
| `AcmePair` | `store.rs:30`, the certificate's private key | a reader, or a crash, between the two renames |
| `AcmeReload` | `manager.rs:193`, the next connection re-reads from disk | what was read before a reload is cached after it |
| `H2ConnCredit` | `h2/conn.rs:711`, octets for a stream that is gone go back to the connection window "so connection-level flow control stays consistent" | DATA for a stream that was gone *before* the frame came returns at line 704 without giving them back: the window shrinks for good |
| `ThreadPoolShed` | `threadpool.rs:225`, the excess over the maximum is shed | a panicked handler is counted for ever |
| `StaticRanges` | `static_files.rs:140`, a request for many ranges gets the whole file | it is answered as unsatisfiable (405-408) |
| `InputScanCuts` | `conn.rs`, `ChunkDecoder::advance`: every check matches the one-shot decoder, only the incrementality differs | a line without its end is refused by the bytes that are buffered (826-829, 847-855), so a cut decides whether an input near the limit is refused |
| `MioBackoff` | `mio.rs:237-240`, listener readiness skipped during a back-off is delivered again | after an accept that failed, with or without a back-off, the backlog waits for the next client: epoll reports the edge once |
| `MioDownload` | `mio.rs:277`, a connection that downloads is not idle | only streamed bodies are spared by the sweep, a slow download of a file is not |
| `StartupDrains`, of `Startup` itself | `httpsd.rs:162`, SIGTERM drains every listener | without a drop of privileges the QUIC thread is not joined, and the redirect listener never is: the process may end while they serve |
| `StartupReload`, of `Startup` itself | `httpsd.rs:776`, SIGHUP reloads every certificate source | after `chroot` or `setuid` the files can no longer be read |

Two statements that do not hold have no configuration. `SignalEnds` is checked under `ConnectionsEnd`; of `StartupSpec` alone it is false, for
"the join is bounded" (`rt/threadpool.rs:126`) takes each connection to end within `IO_TIMEOUT`, and a peer that keeps asking keeps its worker. A counterexample would only show a drain that waits, since nothing in the repository makes
such a peer go away. And `evict_one` (`quic.rs:400-427`) may take an established connection that is neither closed nor stuck (`EstablishedStays`), where
`quic.rs:311-313` would drop the Initial; its own comment says so.

### Bounds

Limits of the code (buffer sizes, caps, cooldowns, windows) are set to one or two units, so that they are reached with one more actor.
Every one of them is a constant of its module, with the code's name in capitals where it has one. Bounds that are
the model's own: `MaxAccepted`, `MaxSize` (bytes that producers send, of a piece), `MaxClock`, `MaxIssued`, `MaxReload`
(ACME), `MaxRequests`, `MaxProduced`, `MaxFrames`, `MaxCredit`, `MaxAsked`, `MaxInput`, `MaxBurst`, `MaxOdd`, `MaxVersions`, `Renewals`, and the
finite `Conns`, `Clients`, `Peers` and `Sids`. In `MioLoop` and `TokioRuntime` a client connects once, in the former time passes only when the loop has
nothing to do, and ages stop counting one past their limit. `MioLoop`'s clients close only after they were accepted. Four HTTP/2 frames open a stream,
fill it, block it on a window and reset or unblock it; with a request of two frames more need not happen at once. `MaxOdd` bounds the bytes of a chunked body that are neither digits nor part of a CRLF: two are enough for an extension
with an odd byte in it, for a blank on either side of the digits, and for a chunk's data that look like a line's end; 17 bytes hold two chunks, a last one and a trailer of one line.
Symmetry is used in runs without liveness only. One run has a constraint: in `acme_two_hosts` the clock and the
QUIC thread stand still once there is a reload (`ReloadAlone`); what the two do to a reload is `AcmeReload`'s subject.

Deadlock is checked in `connection`, `pool` and `acme_two_hosts`: `BodyStream`, `ThreadPool` and `H1Conn` have a step of their own for
the states they may stop in, and no other state is without a successor. `AcmeManager` can always crash, so there the check says little and
`LockReleased` of `process` stands in its place. It is off (`CHECK_DEADLOCK FALSE`) in `requests`, `h2_conn`, `quic`, `mio`, `tokio` and `process`,
whose systems really stop: the input is used up, the connection is closed, the server or process has ended. There `NothingLeftBehind`, `NothingLeftUnsent`,
`SocketsSeen`, `WakeNotLost`, `BacklogSeen`, `DrainEnds` and `SignalEnds` say that they do not stop early.

## Fairness

`BodyStream`: a thread that can take a step does (weak fairness per producer and for
the connection thread, whose waits have timeouts or are on sockets with a write
timeout); nothing makes a producer send or end. `AcmeManager`: each connection thread, since
every exchange with the CA is bounded by a deadline (`client.rs:244`, `265`) and the HTTP
client's timeouts; waiting for a mutex is weakly fair only, and no property
asks that a waiter gets in. `ThreadPool`: the two accept loops, the workers' own steps
and the ends of plain-HTTP threads. That a connection being served ever
ends is *not* assumed by `Spec`: the runtime bounds how long a peer may stall, not how
many requests it may send. `EndingSpec` adds it, and `QueuedIsServed` and `Drains` of run `pool` are
conditional on it. `H1Conn`: the connection's loop, and that a producer ends the body it was given (`EveryRequestAnswered` is
about requests behind it); nothing makes the peer send or read. `TokioRuntime`: the accept loop, the passing of time, and each task.
`Startup`: the main thread, the watcher (a loop with a sleep) and each listener thread, whose loop looks at the shutdown flag every so often; the QUIC loop's receive need not fail. The TCP server is the
exception: that its loop sees a shutdown (it may be in a `send` to a full queue, `threadpool.rs:109`) and that its workers end (127-130) depends on its connections, and `StartupSpec` does not assume it.
`StartupEndingSpec` does (`ConnectionsEnd`), as `EndingSpec` does for the pool, and `SignalEnds` is conditional on it; `ReloadConverges` needs the watcher only.
`H2Conn`, `QuicServer`, `MioLoop` and `MCRequests` assume none: their properties are invariants and action properties.

## Proofs

All theorems hold for arbitrary constants satisfying the named assumptions (`BodyAssumption`, `ChunkAssumption`, `FilesAssumption`, `ScanAssumption`, `AcmeAssumption`,
`StartupAssumption`, `PoolAssumption`, `HeadAssumption`, `H1Assumption`, `H2Assumption`, `H3Assumption`, `QuicAssumption`, `SizeAssumption`, `TokioAssumption`, `MioAssumption`), which
TLC evaluates in every run. Most say only that limits are numbers. `H1Assumption` says of the requests and responses that are the input what the code's types
say, and that the body which follows a head is the one the head announces (`Consistent`); bodies that are not are `InputScan`'s subject.

Every loop that a theorem is about is a recursive function on numbers. What such a function computes is proved by induction over a *set* of numbers (`SetInduction`, from
the well-founded order on `Nat`), since the library's induction theorems take a predicate, which the provers cannot instantiate.

* `BodyProofs`, on `BodyStream`: `TypeCorrect`, `DeliveredInOrder`, `CompleteBodies`, `BoundedBuffer`,
  `Unstranded`, `WakesUp`, `Refinement`. The inductive invariant `IInv` adds to the
  properties: chunks are non-empty and adjacent for every pair, so that the bytes of any run
  follow from its ends (`QueueShape`); what the connection thread's position implies
  (`Phases`: e.g. while it can sleep the waker is registered); nobody is inside `send`
  once the body has ended (`Senders`); "complete" is announced only when true, and
  stays true because nothing is accepted after the end (`Promise`).
  `Refinement` maps a response to `ByteStream` under the framings that delimit the body, a condition that is part of
  the property: on a close-delimited one an abort cannot be told from the end.
* `ProcessProofs`, on `AcmeManager`: `OneAtATime`, `OwnChallenge`, `CooldownKept`, `PermitsLimited`, `CachesBounded`, `AcmeTypes`. `LockInv` says that whoever
  has a clone of a lock and has not begun to release it has the one the map holds for its host, and past
  the mutex is its holder. Its crux is `LastReference`: if the count is two, the releasing
  thread and the map are the only references, so removing the entry strands nobody. The others rest on it:
  only the thread inside the host lock writes the challenge and the failure of its host. `CachesBounded` needs that a host is cached
  once (`Once`), for it is a host's only entry that `put` takes out before it adds one (`WithoutIs`), and that each of the three ways
  `record_failure` makes room leaves a place free or needs none (`FailureFits`).
* `ThreadPoolProofs`: `PoolKeeps`, `ServedToTheEnd`, `SlotsCounted`, `ThreadsCapped`, `TypeCorrect`.
  `Structure` says in whose hands each connection is (one accept loop, the queue
  once, or one worker); `Slots` and `Counting` equate the counters with the cardinality of the sets of connections
  they stand for. `Counting` counts panicked connections too, which is the defect `ThreadPoolShed` shows:
  the cap still holds, but is reached too soon.
* `ProcessProofs`, on `Startup`: `PrivilegesLast`, `DroppedAsAsked`, `RefusalsJustified`. `IInv` says what the readiness channel
  and the count of bound listeners amount to (`Counting`: signals in the channel and those counted are exactly the listeners that bound), what
  the main thread's place says of them (`Waiting`), and which credentials go with each call (`Dropping`). `RefusalsJustified` adds
  that a closed channel, or a thread found finished, before all have signalled means that one of the listeners has failed.
* `TokioRuntimeProofs`: `TypeCorrect`, `PanicsKeepPlaces`, `CapHolds`, `FlushedFirst`. The counter is the cardinality of a
  set (`Counted`, by `Counts`): the connections being served, the one in the accept loop's hands, and those ended by a panic. So it is never less than what is served: the cap holds (`Room`) and a count of zero means that nobody is
  served (`Stopped`); and never more than the panics explain, which is `PanicsKeepPlaces`. `FlushedFirst` needs per client that a task past its flush has nothing due (`Settled`), that what becomes due afterwards has a permit or a
  producer about to give one (`Due`, `Waits`), and lemmas on `TakeOut` and `ToSend`: when they give nothing, nothing can be given.
* `MioLoopProofs`: `NoWakeLost`, `BacklogNotForgotten`, `NoSocketForgotten`: all that `mio` checks. None of the three is
  inductive, since they speak of the moment the loop waits. The invariants follow each obligation through the loop: what a body has to send has its producer
  before the list, its token on the list or among the events, or the loop's attention, and a token on the list has a signal coming
  (`Attended`, `Signalled`); a backlog has its event in the poll, at hand, or is being accepted (`Waited`); a socket's event is in the
  poll or at hand, and interest in room is registered whenever there is output (`Seen`), which needs that no client is
  tracked and in the backlog at once (`Inside`).
* `H2ConnProofs`: `AccountsFit`, `WindowsHold`, `EachRequestOnce`, `WellFramed`, `NothingLeft`, `ResponsesEnd`, `EndRides`: all that `h2_conn` checks.
  For the windows, the client's accounts and the server's windows are two pieces of state that
  frames move one after the other: `Fits` says that each account has at least what the window says, for a stream not yet
  opened too, since a SETTINGS frame moves its account before there is a window. Most handlers leave windows and accounts alone
  and may only remove streams (`Keeps`), which composes as the handlers do; SETTINGS, WINDOW_UPDATE, the opening of a
  stream and `SendData` are argued by themselves. An error leaves a window past its maximum behind but closes the connection,
  after which nothing is claimed. For the tables and the framing, `Tidy` ties the table of streams, the two lists of requests and what the client has
  seen of each stream together: the entry of a stream tells the state the client sees it in (`Told`), so that a reset, a head or a piece
  of a body always comes in a state that allows it; what is ready has no answer yet and its number is not used again (`Queued`); the streams accepted are within
  the cap (`Room`), which has to be counted over the accepted streams and not over the delivered ones, for it is the opening that checks it.
  That only the stream of the open header block is being assembled (`Assembling`) is what makes a CONTINUATION go where its HEADERS went.
  `Pumped` follows the loop of `pump_out`: of the streams it has passed none can send, and a later stream can only take credit from them.
  `ResponsesEnd` and `EndRides` are about responses whose head, if there is no body, fits one frame (`ShortHeads`); without it they are false.
* `BodyProofs`, on `StaticFiles`: `RangesAnswered`, `CopyIsOneVersion`, `ConfirmsTheCurrent`: all that `requests` checks of static files. `RangeFound` says
  that `parse_single_range` finds exactly the wanted octets, `PieceRead` what a chunk of the open file holds. The crux of the other two is an order in
  time: the name leads to the newest version (`Newest`), and no byte the client kept is newer than the metadata or the file of the request under way (`NoneNewer`), while each
  byte is at least as new as the tag it came under (`Reads`). Behind `openat2`, with files only replaced (`Steady`), it is of that very version. What the file system does is one
  relation (`Moves`), and so is a step of `serve` (`Walks`) and of the answer (`Answers`); each is shown to keep the invariant once.

* `BodyProofs`, on `InputScan`: `BodyIsDecoded`, `CutsAreNotMisread`, `LenientAgreesWithStrict`: all that `requests` checks of the scanners, for input of any length.
  Two things are shown of a decoder state. What it has consumed is part of a chunked body: up to an offset the bytes are chunks with a certain content, and no chunks lead elsewhere
  (`Passed`), then comes part of a chunk (`InChunk`) or of the trailer (`InTrailer`); all of it stays true whatever bytes follow (`Grows`, `ChunksStay`, `PassedStays`, `LastStays`).
  And it resumes: for *every* way the bytes may go on, to continue from the saved state ends where a decoder does that starts afresh (`BodyInv`). A single state cannot say this of
  one more byte only, since the next poll may see many. It rests on `StepResumes`, that a step taken with fewer bytes is either the step that more bytes
  would take or is made up by the next one, and on `Measure`, that the loop has turns enough. A head is simpler: ends that were not there before
  end behind the last poll, and none of them begins more than three bytes before it (`EndsResume`), which is why the code steps back three.
* `H1ConnProofs`: `ResponsesStayIntact`, `ContinuesInTime`, `TypesKept`: the invariants of `connection` on `H1Conn`. The peer's bytes are laid out first: where each request begins in `wire` and what
  `poll_request` can see of the one in front (`Cursor`). What the client reads is one sequence, of what was sent and what waits to be sent, and `Intact` and `InTime` are
  said of the whole; they are shown for a head, a piece, an end and a 100 added to it. `Owes` says how the last response may still go on: what is left of its body, whether it
  delimits itself, whether the connection closes behind it. `Turn` ties it to whose turn it is, the engine's or the handler's.
* `QuicServerProofs`: `TablesKept`, `FinIsWhole`, `NothingUnsent`: all that `quic` checks. The iteration of the loop is a composition of loops over connections, each of loops over streams.
  `StreamOwes` says for one stream what has reached the client of its response and what may still come; `Settled` says of a connection that nothing is left that could be
  sent unless a wake-up is on its way or its abort was dropped, and it holds between iterations though not within. `FinIsWhole` does not say that the producer had finished,
  which is false (`quic_cut_body`): what is whole is what was written. An eviction keeps all of it, as it only takes an entry out of a table.

Only model-checked: all liveness (`LockReleased`, `EndedBodyIsOver`, `QueuedIsServed`, `Drains`, `EveryRequestAnswered`, `DrainEnds`, `SignalEnds`, `ReloadConverges`), which is out of the
proof system's reach, as is the absence of deadlock.

Some definitions are in no run's list because a theorem has them for every instance (`Backpressure`, `CompleteMeansAll`, `ChallengeStands`,
`PoolHolds`, `RefusedForCause`, `Bounded`), or because they serve the reader and larger instances (each module's `TypeOK`, `SendReturns`).

## Not modelled, and why

* Certificate routing, router, compression, ACME encodings, `http` interoperability: functions of their input without
  state or concurrency; parsing of ClientHello, JSON and command-line options byte by byte. Tests reach them better.
* HPACK and QPACK, TLS, QUIC: external libraries, here verdicts and records that come in.
* The account key of the ACME manager and its nonces and signatures.
* The throughput window of the blocking loop (`rt/common.rs`): it counts real time against bytes; the same window is in `TokioRuntime` and its sweep
  in `MioLoop`. What a slow handler does to it is stated nowhere in the repository.
* A pool whose every worker orders a certificate while the validation needs another: `ThreadPool` and `AcmeManager` in one model are beyond TLC.

## What could come next

1. The account key in `AcmeManager`, and the choice between host locks for it.
2. A small pool of workers around one host lock, for the validation that needs a free worker.
