------------------------------- MODULE Startup -------------------------------
(***************************************************************************)
(* The life of the httpsd process (src/bin/httpsd.rs): the threads that    *)
(* bind and serve, the wait for their readiness, the drop of privileges    *)
(* (src/privdrop.rs), the signal handlers and their watcher, and the       *)
(* reload of a certificate and key from their files (src/tls.rs).          *)
(* At first the options are parsed and the shared acceptor was built.      *)
(***************************************************************************)
EXTENDS Integers, FiniteSets

CONSTANTS Unset,      \* not named, not read, not over
          Renewals    \* bound: how often the certificate files are replaced

ASSUME StartupAssumption ==
    /\ Renewals \in Nat
    /\ Unset \notin {"root", "user", "ok", "failed", "refused", "killed"}

VARIABLES
    cfg,       \* what the command line asked for, and who started the process
    main,      \* where the main thread is
    at,        \* where each listening thread is
    opened,    \* listening sockets bound so far
    mailbox,   \* readiness signals in the channel
    bound,     \* those the main thread has counted
    cred,      \* the credentials of the process
    handlers,  \* the signal handlers are installed
    request,   \* the flags the handlers set
    watcher,   \* where the signal watcher is
    left,      \* reload handles it has still to go through
    pending,   \* the certificate it has read and not yet used
    shutdown,  \* the Shutdown handle
    files,     \* version of the certificate and of the key on disk
    current,   \* versions of the acceptor in effect
    exit       \* how the process ended

threads     == <<at, opened, mailbox>>
signals     == <<handlers, request>>
reload      == <<watcher, left, pending, current>>
startupVars == <<cfg, main, threads, bound, cred, signals, reload, shutdown, files, exit>>

Servers  == {"tcp", "udp", "redirect"}
Running  == exit = Unset
Finished(t) == at[t] \in {"refused", "failed", "done"}

\* resolve_privdrop: a user or a chroot directory was named.
Privileged == cfg.user # Unset \/ cfg.chroot

\* open: the files of the certificate that another user may read, told apart only
\* where another will want to and they can be reached.
Configs == {c \in [h3 : BOOLEAN, http : BOOLEAN, user : {Unset, "root", "user"}, group : BOOLEAN,
                   chroot : BOOLEAN, uid : {"root", "user"},
                   open : {{}, {"cert"}, {"cert", "key"}}] :
               /\ c.group => c.user # Unset
               /\ c.open # {} => c.uid = "root" /\ c.user = "user" /\ ~c.chroot}

\* What the process starts with: uid, group and supplementary groups of who
\* started it, and the whole file system.
Initial == [uid |-> cfg.uid, gid |-> "first", groups |-> "first", root |-> "/", cwd |-> "outside"]

----------------------------------------------------------------------------
(***************************************************************************)
(* The listening threads: Server::run and Server::run_h3.                  *)
(***************************************************************************)
Moves(t, place) == at' = [at EXCEPT ![t] = place]

\* The TCP server binds its listener and then the redirect listener, whose
\* thread starts at once; the QUIC server picks its certificates and binds.
Bind(t) ==
    /\ Running /\ at[t] = "bind"
    /\ \/ Moves(t, "refused") /\ UNCHANGED opened
       \/ /\ opened' = opened \cup {t}
          /\ Moves(t, IF t = "tcp" /\ cfg.http THEN "second" ELSE "ready")
    /\ UNCHANGED <<cfg, main, mailbox, bound, cred, signals, reload, shutdown, files, exit>>

BindRedirect ==
    /\ Running /\ at["tcp"] = "second"
    /\ \/ Moves("tcp", "refused") /\ UNCHANGED opened
       \/ /\ opened' = opened \cup {"redirect"}
          /\ at' = [at EXCEPT !["tcp"] = "ready", !["redirect"] = "serve"]
    /\ UNCHANGED <<cfg, main, mailbox, bound, cred, signals, reload, shutdown, files, exit>>

\* The last that may fail before the signal, and the signal, if there is somebody
\* to send it to; the sender is dropped with it.
Ready(t) ==
    /\ Running /\ at[t] = "ready"
    /\ \/ Moves(t, "refused") /\ UNCHANGED mailbox
       \/ Moves(t, "serve") /\ mailbox' = IF Privileged THEN mailbox + 1 ELSE mailbox
    /\ UNCHANGED <<cfg, main, opened, bound, cred, signals, reload, shutdown, files, exit>>

\* The loop sees the shutdown. The TCP server has its workers to join; the QUIC
\* server and the redirect listener return at once, whoever is connected.
Stop(t) ==
    /\ Running /\ at[t] = "serve" /\ shutdown
    /\ Moves(t, IF t = "tcp" THEN "drain" ELSE "done")
    /\ UNCHANGED <<cfg, main, opened, mailbox, bound, cred, signals, reload, shutdown, files, exit>>

\* The last worker has ended, and with it the last connection.
Drained ==
    /\ Running /\ at["tcp"] = "drain" /\ Moves("tcp", "done")
    /\ UNCHANGED <<cfg, main, opened, mailbox, bound, cred, signals, reload, shutdown, files, exit>>

\* The receive of the QUIC loop may fail at any time.
PollFails ==
    /\ Running /\ at["udp"] = "serve" /\ Moves("udp", "failed")
    /\ UNCHANGED <<cfg, main, opened, mailbox, bound, cred, signals, reload, shutdown, files, exit>>

Listener(t) ==
    \/ Bind(t) \/ Ready(t) \/ Stop(t)
    \/ t = "tcp" /\ (BindRedirect \/ Drained)
    \/ t = "udp" /\ PollFails

----------------------------------------------------------------------------
(***************************************************************************)
(* The main thread up to the drop: run and run_with_privdrop.              *)
(***************************************************************************)
Ends(how) == exit' = how /\ UNCHANGED main

Continues(place) == main' = place /\ UNCHANGED exit

BuildFails ==
    /\ Running /\ main \in {"spawn h3", "spawn tcp"}
    /\ Ends("failed")
    /\ UNCHANGED <<cfg, threads, bound, cred, signals, reload, shutdown, files>>

SpawnH3 ==
    /\ Running /\ main = "spawn h3"
    /\ Continues("spawn tcp")
    /\ IF cfg.h3 THEN Moves("udp", "bind") ELSE UNCHANGED at
    /\ UNCHANGED <<cfg, opened, mailbox, bound, cred, signals, reload, shutdown, files>>

\* With a drop to come the TCP server has a thread of its own; without, it runs on
\* the main thread, after the handlers are installed.
SpawnTcp ==
    /\ Running /\ main = "spawn tcp"
    /\ IF Privileged THEN Continues("wait") /\ Moves("tcp", "bind")
       ELSE Continues("install") /\ UNCHANGED at
    /\ UNCHANGED <<cfg, opened, mailbox, bound, cred, signals, reload, shutdown, files>>

\* Mutant: the HTTP/3 server is not waited for.
ExpectedTcp == 1

Expected == IF cfg.h3 THEN 2 ELSE 1

\* Threads that still hold a sender.
Senders == {t \in {"tcp", "udp"} : at[t] \in {"bind", "second", "ready"}}

\* Mutant: a quarter of a second without a signal counts as a failure.
QuietIsFailure(n) == n = 0

\* recv_timeout fails for good when nobody is left to send.
Disconnected(n) == n = 0 /\ Senders = {}

\* One turn of the wait, up to the look at the threads.
WaitBound ==
    /\ Running /\ main = "wait" /\ bound < Expected
    /\ IF mailbox > 0
       THEN bound' = bound + 1 /\ mailbox' = mailbox - 1 /\ Continues("look")
       ELSE /\ UNCHANGED <<bound, mailbox>>
            /\ Continues(IF Disconnected(mailbox) THEN "refuse" ELSE "look")
    /\ UNCHANGED <<cfg, at, opened, cred, signals, reload, shutdown, files>>

LookAtThreads ==
    /\ Running /\ main = "look"
    /\ Continues(IF bound < Expected /\ \E t \in {"tcp", "udp"} : Finished(t)
                 THEN "refuse" ELSE "wait")
    /\ UNCHANGED <<cfg, threads, bound, cred, signals, reload, shutdown, files>>

\* Some listener failed to bind.
RefuseToDrop ==
    /\ Running /\ main = "refuse"
    /\ Ends("refused")
    /\ UNCHANGED <<cfg, threads, bound, cred, signals, reload, shutdown, files>>

AllBound ==
    /\ Running /\ main = "wait" /\ bound >= Expected
    /\ Continues("chroot")
    /\ UNCHANGED <<cfg, threads, bound, cred, signals, reload, shutdown, files>>

----------------------------------------------------------------------------
(***************************************************************************)
(* The drop: PrivDrop::apply. A system call may fail, and does for a       *)
(* process that is not root, save a setuid to the user it has already.     *)
(***************************************************************************)
Calls(next, asked, allowed, after) ==
    /\ \/ ~asked /\ Continues(next) /\ UNCHANGED cred
       \/ asked /\ allowed /\ Continues(next) /\ cred' = after
       \/ asked /\ Ends("failed") /\ UNCHANGED cred
    /\ UNCHANGED <<cfg, threads, bound, signals, reload, shutdown, files>>

IsRoot == cred.uid = "root"

Chroot ==
    /\ Running /\ main = "chroot"
    /\ Calls("chdir", cfg.chroot, IsRoot, [cred EXCEPT !.root = "jail"])

Chdir ==
    /\ Running /\ main = "chdir"
    /\ Calls("setgroups", cfg.chroot, TRUE, [cred EXCEPT !.cwd = "inside"])

SetGroups ==
    /\ Running /\ main = "setgroups"
    /\ Calls("setgid", cfg.group, IsRoot, [cred EXCEPT !.groups = "asked"])

SetGid ==
    /\ Running /\ main = "setgid"
    /\ Calls("setuid", cfg.group, IsRoot, [cred EXCEPT !.gid = "asked"])

SetUid ==
    /\ Running /\ main = "setuid"
    /\ Calls("verify", cfg.user # Unset, IsRoot \/ cfg.user = cred.uid, [cred EXCEPT !.uid = cfg.user])

\* Mutant: a drop is taken at its word.
TrustTheDrop(uid) == FALSE

\* A drop was asked for, the process is root, and root was not asked for.
StillRootAfterDrop(uid) == Privileged /\ uid = "root" /\ cfg.user # "root"

\* The checks of uid and gid read back what the calls have set.
VerifyDrop ==
    /\ Running /\ main = "verify"
    /\ IF StillRootAfterDrop(cred.uid) THEN Ends("failed") ELSE Continues("install")
    /\ UNCHANGED <<cfg, threads, bound, cred, signals, reload, shutdown, files>>

Drop == Chroot \/ Chdir \/ SetGroups \/ SetGid \/ SetUid \/ VerifyDrop

----------------------------------------------------------------------------
(***************************************************************************)
(* The main thread after the drop, signals and the watcher.                *)
(***************************************************************************)
InstallHandlers ==
    /\ Running /\ main = "install"
    /\ Continues("watch") /\ handlers' = TRUE
    /\ UNCHANGED <<cfg, threads, bound, cred, request, reload, shutdown, files>>

\* Without a drop the main thread becomes the TCP server's.
SpawnWatcher ==
    /\ Running /\ main = "watch"
    /\ Continues("join") /\ watcher' = "sleep"
    /\ IF Privileged THEN UNCHANGED at ELSE Moves("tcp", "bind")
    /\ UNCHANGED <<cfg, opened, mailbox, bound, cred, signals, left, pending, current, shutdown, files>>

\* join_all, or the return of the server that ran here: the QUIC thread of a
\* process without a drop, and the redirect listener's of any, are not waited for.
Joined == IF Privileged THEN {t \in {"tcp", "udp"} : at[t] # "off"} ELSE {"tcp"}

JoinAll ==
    /\ Running /\ main = "join"
    /\ \A t \in Joined : Finished(t)
    /\ Ends(IF \A t \in Joined : at[t] = "done" THEN "ok" ELSE "failed")
    /\ UNCHANGED <<cfg, threads, bound, cred, signals, reload, shutdown, files>>

Main ==
    \/ BuildFails \/ SpawnH3 \/ SpawnTcp \/ WaitBound \/ LookAtThreads \/ RefuseToDrop \/ AllBound
    \/ Drop \/ InstallHandlers \/ SpawnWatcher \/ JoinAll

\* A signal sets its flag; before the handlers are installed it kills.
Signal(flag) ==
    /\ Running
    /\ IF handlers THEN request' = [request EXCEPT ![flag] = TRUE] /\ UNCHANGED exit
       ELSE exit' = "killed" /\ UNCHANGED request
    /\ UNCHANGED <<cfg, main, threads, bound, cred, handlers, reload, shutdown, files>>

\* A version that is odd is a file half written.
Torn(version) == version % 2 = 1

\* Somebody writes the certificate anew, and then its key.
Renew ==
    /\ Running
    /\ \/ files.cert < 2 * Renewals /\ (files.cert = files.key \/ Torn(files.cert))
          /\ files' = [files EXCEPT !.cert = @ + 1]
       \/ files.key < files.cert /\ ~Torn(files.cert)
          /\ files' = [files EXCEPT !.key = @ + 1]
    /\ UNCHANGED <<cfg, main, threads, bound, cred, signals, reload, shutdown, exit>>

Unwatched == UNCHANGED <<cfg, main, threads, bound, cred, handlers, files, exit>>

WatchShutdown ==
    /\ Running /\ watcher = "sleep" /\ request.down
    /\ shutdown' = TRUE /\ watcher' = "ended"
    /\ UNCHANGED <<request, left, pending, current>> /\ Unwatched

\* swap(false).
WatchReload ==
    /\ Running /\ watcher = "sleep" /\ ~request.down /\ request.reload
    /\ request' = [request EXCEPT !.reload = FALSE]
    /\ watcher' = "cert" /\ left' = Expected
    /\ UNCHANGED <<pending, current, shutdown>> /\ Unwatched

\* The file is where it was, and the user may read it.
Readable(file) == cred.root = "/" /\ (cred.uid = cfg.uid \/ file \in cfg.open)

\* After the last handle the watcher sleeps again; an error is logged.
AfterHandle == IF left > 1 THEN "cert" ELSE "sleep"

\* Mutant: a reload that fails ends the watcher.
GivesUp == "ended"

AfterFailure == AfterHandle

Fails ==
    /\ watcher' = AfterFailure /\ left' = left - 1 /\ pending' = Unset
    /\ UNCHANGED current

\* Each handle reads the certificate, then the key, parses them and puts both into
\* the one shared acceptor; nothing compares them.
ReadCert ==
    /\ Running /\ watcher = "cert"
    /\ IF Readable("cert")
       THEN pending' = files.cert /\ watcher' = "key" /\ UNCHANGED <<left, current>>
       ELSE Fails
    /\ UNCHANGED <<request, shutdown>> /\ Unwatched

Replaces ==
    /\ watcher' = AfterHandle /\ left' = left - 1 /\ pending' = Unset
    /\ current' = [cert |-> pending, key |-> files.key]

\* A key that is half written is not parsed; a chain that is may have its leaf and
\* not yet what follows.
KeyOutcome ==
    \/ Readable("key") /\ ~Torn(files.key) /\ Replaces
    \/ (~Readable("key") \/ Torn(files.key) \/ Torn(pending)) /\ Fails

\* Mutant: the flag is lowered when the reload is done.
ReadKeyClears ==
    /\ Running /\ watcher = "key" /\ KeyOutcome
    /\ request' = [request EXCEPT !.reload = FALSE]
    /\ UNCHANGED shutdown /\ Unwatched

ReadKey ==
    /\ Running /\ watcher = "key" /\ KeyOutcome
    /\ UNCHANGED <<request, shutdown>> /\ Unwatched

Watcher == WatchShutdown \/ WatchReload \/ ReadCert \/ ReadKey

StartupInit ==
    /\ cfg \in Configs
    /\ main = "spawn h3" /\ at = [t \in Servers |-> "off"] /\ opened = {}
    /\ mailbox = 0 /\ bound = 0
    /\ cred = Initial
    /\ handlers = FALSE /\ request = [down |-> FALSE, reload |-> FALSE]
    /\ watcher = "off" /\ left = 0 /\ pending = Unset /\ shutdown = FALSE
    /\ files = [cert |-> 0, key |-> 0] /\ current = files
    /\ exit = Unset

StartupNext ==
    \/ Main \/ Watcher \/ Renew
    \/ \E t \in Servers : Listener(t)
    \/ \E flag \in {"down", "reload"} : Signal(flag)

\* Every thread of the process runs; nobody has to send a signal or renew, and no
\* receive has to fail. The TCP server sees a shutdown, and its workers end, only as
\* its connections do: until a worker is free its loop may be waiting in a send to
\* the queue (threadpool.rs:109), and then it joins them all (127-130).
Advance(t) == Bind(t) \/ Ready(t) \/ (t # "tcp" /\ Stop(t)) \/ (t = "tcp" /\ BindRedirect)

StartupFairness ==
    /\ WF_startupVars(Main) /\ WF_startupVars(Watcher)
    /\ \A t \in Servers : WF_startupVars(Advance(t))

StartupSpec == StartupInit /\ [][StartupNext]_startupVars /\ StartupFairness

\* An assumption about the peers, as EndingSpec of ThreadPool: every connection of
\* the TCP server ends. Nothing in the code makes a peer that keeps asking go away.
ConnectionsEnd == WF_startupVars(Stop("tcp") \/ Drained)

StartupEndingSpec == StartupSpec /\ ConnectionsEnd

----------------------------------------------------------------------------
(***************************************************************************)
(* Properties.                                                             *)
(***************************************************************************)
\* notify_bound's promise: the process gives up a privilege only when every
\* listener is bound, the redirect listener of the TCP server among them
\* (mod.rs:315-320).
DropsAfterBinds ==
    cred # Initial =>
        {"tcp"} \cup (IF cfg.h3 THEN {"udp"} ELSE {}) \cup (IF cfg.http THEN {"redirect"} ELSE {})
            \subseteq opened

\* A process that goes on after a drop is what was asked for: in the jail and
\* nowhere outside, with the asked groups, and root only if root was asked for
\* (privdrop.rs:155-159).
Dropped ==
    Privileged /\ main \in {"install", "watch", "join"} =>
        /\ cred.uid = IF cfg.user = Unset THEN cfg.uid ELSE cfg.user
        /\ cred.uid = "root" => cfg.user = "root"
        /\ cfg.group => cred.gid = "asked" /\ cred.groups = "asked"
        /\ cfg.chroot => cred.root = "jail" /\ cred.cwd = "inside"

\* The drop is refused only when a listener has failed, however its signals, the
\* timeouts and the ends of the threads interleave.
RefusedForCause == main = "refuse" \/ exit = "refused" => \E t \in {"tcp", "udp"} : Finished(t)

\* A SIGTERM or SIGINT that is handled ends the process, even in the middle of
\* a reload that fails; of StartupEndingSpec, where the connections of the TCP
\* server end. Of StartupSpec it does not hold: the join has no bound
\* (threadpool.rs:127-130).
SignalEnds == request.down ~> ~Running

\* A SIGHUP after the files were replaced brings the last certificate and its key
\* into effect, even one that comes while another is being worked off; unless the
\* process is ending, or may no longer read them. Only the watcher has to run.
Settled == files = [cert |-> 2 * Renewals, key |-> 2 * Renewals]
ReloadConverges ==
    (request.reload /\ Settled /\ Readable("cert") /\ Readable("key")) ~> (current = files \/ request.down \/ ~Running)

\* "on SIGHUP it reloads every certificate source" (httpsd.rs:776): as above, for
\* any process that went on to install its handlers after a drop.
ReloadsEverySource ==
    (request.reload /\ Settled) ~> (current = files \/ request.down \/ ~Running)

\* "a SIGTERM/SIGINT drains every listener" (httpsd.rs:162): a process that ends
\* without an error has no listener still serving.
ExitDrainsAll == exit = "ok" => \A t \in Servers : at[t] \notin {"serve", "drain"}
===================================================================================
