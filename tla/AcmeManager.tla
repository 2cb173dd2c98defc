------------------------------ MODULE AcmeManager ------------------------------
(***************************************************************************)
(* On-demand certificates (src/acme/manager.rs, store.rs, client.rs).      *)
(* Connection threads run get_or_issue; the single QUIC thread runs        *)
(* choose_cached, which takes no host lock.  Every use of one of the       *)
(* manager's mutexes, every file read or rename and every exchange with    *)
(* the CA is an action of its own, so that threads interleave between any  *)
(* two of them.  A crash loses everything but the disk.                    *)
(*                                                                         *)
(* A certificate is its generation and expiry.  A fresh key is generated   *)
(* with each, so a key is the generation of the certificate it belongs to. *)
(***************************************************************************)
EXTENDS Integers, Sequences, FiniteSets

CONSTANTS Threads,         \* connection threads
          Hosts,           \* host names, validated and whitelisted
          Locks,           \* identities of the Arc<Mutex<()>> of the lock map
          None,            \* no lock, no thread, no host
          RENEW_BEFORE, NEG_CACHE_COOLDOWN,   \* in clock ticks
          CACHE_MAX, NEG_CACHE_MAX, MAX_INFLIGHT,
          Lifetime,        \* of an issued certificate, in clock ticks
          MaxClock,        \* bound on the clock
          MaxIssued,       \* bound on the certificates the CA issues per host
          MaxReload        \* bound on reloads

ASSUME AcmeAssumption ==
    /\ IsFiniteSet(Threads) /\ IsFiniteSet(Hosts)
    /\ None \notin Threads \cup Hosts \cup Locks
    /\ RENEW_BEFORE \in Nat /\ NEG_CACHE_COOLDOWN \in Nat \ {0}
    /\ CACHE_MAX \in Nat \ {0} /\ NEG_CACHE_MAX \in Nat \ {0} /\ MAX_INFLIGHT \in Nat
    /\ Lifetime \in Nat /\ MaxClock \in Nat /\ MaxIssued \in Nat /\ MaxReload \in Nat

VARIABLES
    clock,      \* now_secs()
    pc,         \* where each thread is in get_or_issue
    host,       \* the host it serves
    now,        \* the clock it read on entry
    stored,     \* what it loaded from disk
    arc,        \* its clone of the host's lock
    minted,     \* the certificate the CA gave it
    cache,      \* CertCache, least recently used first
    failures,   \* host -> earliest retry, 0 for no entry
    lockOf,     \* the lock map: host -> lock
    holder,     \* lock -> the thread inside
    inFlight,   \* in_flight
    alpn,       \* alpn_challenges: host -> the thread whose order it is for
    http,       \* http_challenges: the threads whose token is served
    chain,      \* fullchain.pem of each host
    key,        \* key.pem of each host
    issued,     \* generations handed out so far, per host
    quic,       \* the QUIC thread inside choose_cached
    epoch,      \* reloads begun
    reloading   \* a reload is between its two steps

memory   == <<cache, failures, lockOf, holder, inFlight, alpn, http>>
disk     == <<chain, key, issued>>
control  == <<epoch, reloading>>
vars     == <<clock, pc, host, now, stored, arc, minted, memory, disk, quic, control>>

NoCert == [gen |-> 0, until |-> 0]
Cert   == [gen : 0..MaxIssued, until : 0..MaxClock + Lifetime]
NoLoad == [cert |-> NoCert, key |-> 0, asOf |-> 0]
Load   == [cert : Cert, key : 0..MaxIssued, asOf : 0..MaxReload]

\* Positions in get_or_issue: talking to the CA for a host, holding a permit,
\* holding the host's lock, holding a clone of the Arc around it.
Ordering == {"issue", "present", "authorize", "authorized", "refused", "order", "chain", "key"}
Permits  == Ordering \cup {"putnew", "clearnew", "failed", "drop"}
Holding  == Permits \cup {"recache", "rebackoff", "disk", "put", "clear", "permit", "giveback",
                          "unlock"}
Refs     == Holding \cup {"lock", "release", "droparc"}
Step     == Refs \cup {"idle", "cache", "backoff", "getlock"}

QuicIdle == [pc |-> "idle", host |-> None, load |-> NoLoad]

Init ==
    /\ clock = 0
    /\ pc = [t \in Threads |-> "idle"] /\ host = [t \in Threads |-> None]
    /\ now = [t \in Threads |-> 0] /\ stored = [t \in Threads |-> NoLoad]
    /\ arc = [t \in Threads |-> None] /\ minted = [t \in Threads |-> NoCert]
    /\ cache = <<>> /\ failures = [h \in Hosts |-> 0]
    /\ lockOf = [h \in Hosts |-> None] /\ holder = [l \in Locks |-> None]
    /\ inFlight = 0 /\ alpn = [h \in Hosts |-> None] /\ http = {}
    /\ chain = [h \in Hosts |-> NoCert] /\ key = [h \in Hosts |-> 0]
    /\ issued = [h \in Hosts |-> 0]
    /\ quic = QuicIdle /\ epoch = 0 /\ reloading = FALSE

-----------------------------------------------------------------------------
(* Helpers.                                                                 *)

NearExpiry(cert, at) == at + RENEW_BEFORE >= cert.until

Cached(h)   == {i \in DOMAIN cache : cache[i].host = h}
Position(h) == CHOOSE i \in Cached(h) : TRUE
Entry(h)    == cache[Position(h)]

\* The cache is a map: it holds a host once.
Without(h) ==
    IF Cached(h) = {} THEN cache
    ELSE SubSeq(cache, 1, Position(h) - 1) \o SubSeq(cache, Position(h) + 1, Len(cache))

\* CertCache::get makes the entry the most recently used.
Touch(h) == cache' = IF Cached(h) = {} THEN cache ELSE Append(Without(h), Entry(h))

\* CertCache::put evicts the least recently used entry of a full cache.
CachePut(h, load) ==
    cache' = Append(IF Cached(h) = {} /\ Len(cache) >= CACHE_MAX THEN Tail(cache)
                                                                 ELSE Without(h),
                    [host |-> h, load |-> load])

StrongCount(l) ==
    Cardinality({t \in Threads : arc[t] = l}) + Cardinality({h \in Hosts : lockOf[h] = l})

\* Move on; the locals of get_or_issue end with it.
Goto(t, step) ==
    /\ pc' = [pc EXCEPT ![t] = step]
    /\ IF step = "idle"
       THEN host' = [host EXCEPT ![t] = None] /\ now' = [now EXCEPT ![t] = 0]
       ELSE UNCHANGED <<host, now>>

-----------------------------------------------------------------------------
(* get_or_issue: before the host lock.                                      *)

Choose(t) ==
    /\ pc[t] = "idle"
    /\ \E h \in Hosts : host' = [host EXCEPT ![t] = h]
    /\ now' = [now EXCEPT ![t] = clock]
    /\ pc' = [pc EXCEPT ![t] = "cache"]
    /\ UNCHANGED <<clock, stored, arc, minted, memory, disk, quic, control>>

Fresh(t) == Cached(host[t]) # {} /\ ~NearExpiry(Entry(host[t]).load.cert, now[t])

\* The look in the cache, before and after the wait for the host lock.
LookUp(t, from, hit, miss) ==
    /\ pc[t] = from
    /\ Touch(host[t])
    /\ Goto(t, IF Fresh(t) THEN hit ELSE miss)
    /\ UNCHANGED <<clock, stored, arc, minted, failures, lockOf, holder, inFlight, alpn, http,
                   disk, quic, control>>

\* in_backoff, which also purges an expired entry.
CheckBackoff(t, from, refuse, proceed) ==
    /\ pc[t] = from
    /\ Goto(t, IF failures[host[t]] > now[t] THEN refuse ELSE proceed)
    /\ failures' = IF failures[host[t]] > now[t] THEN failures
                   ELSE [failures EXCEPT ![host[t]] = 0]
    /\ UNCHANGED <<clock, stored, arc, minted, cache, lockOf, holder, inFlight, alpn, http,
                   disk, quic, control>>

LookInCache(t)   == LookUp(t, "cache", "idle", "backoff")
LookAtBackoff(t) == CheckBackoff(t, "backoff", "idle", "getlock")

HostLock(t) ==
    /\ pc[t] = "getlock"
    /\ \E l \in Locks :
          /\ IF lockOf[host[t]] # None THEN l = lockOf[host[t]] ELSE StrongCount(l) = 0
          /\ lockOf' = [lockOf EXCEPT ![host[t]] = l]
          /\ arc' = [arc EXCEPT ![t] = l]
    /\ Goto(t, "lock")
    /\ UNCHANGED <<clock, stored, minted, cache, failures, holder, inFlight, alpn, http, disk,
                   quic, control>>

Lock(t) ==
    /\ pc[t] = "lock" /\ holder[arc[t]] = None
    /\ holder' = [holder EXCEPT ![arc[t]] = t]
    /\ Goto(t, "recache")
    /\ UNCHANGED <<clock, stored, arc, minted, cache, failures, lockOf, inFlight, alpn, http,
                   disk, quic, control>>

-----------------------------------------------------------------------------
(* Under the host lock.                                                     *)

LookAgain(t)    == LookUp(t, "recache", "unlock", "rebackoff")

\* Mutant: the negative cache is not looked at again under the lock.
BackoffNotAgain(t) ==
    /\ pc[t] = "rebackoff"
    /\ Goto(t, "disk")
    /\ UNCHANGED <<clock, stored, arc, minted, memory, disk, quic, control>>

BackoffAgain(t) == CheckBackoff(t, "rebackoff", "unlock", "disk")

OnDisk(h) == chain[h].gen # 0 /\ key[h] # 0

\* try_issue reads both files.  One that does not read or parse ends it
\* with an error.
LoadStored(t) ==
    /\ pc[t] = "disk"
    /\ LET load == IF OnDisk(host[t])
                   THEN [cert |-> chain[host[t]], key |-> key[host[t]], asOf |-> epoch]
                   ELSE NoLoad
           good == load # NoLoad /\ ~NearExpiry(load.cert, now[t])
       IN  \/ /\ stored' = [stored EXCEPT ![t] = load]
              /\ Goto(t, IF good THEN "put" ELSE "permit")
           \/ Goto(t, "unlock") /\ UNCHANGED stored
    /\ UNCHANGED <<clock, arc, minted, memory, disk, quic, control>>

PutStored(t) ==
    /\ pc[t] = "put"
    /\ CachePut(host[t], stored[t])
    /\ Goto(t, "clear")
    /\ UNCHANGED <<clock, stored, arc, minted, failures, lockOf, holder, inFlight, alpn, http,
                   disk, quic, control>>

\* Mutant: `>' in place of `>='.
AcquireOneMore(t) ==
    /\ pc[t] = "permit"
    /\ inFlight' = inFlight + 1
    /\ Goto(t, IF inFlight > MAX_INFLIGHT THEN "giveback" ELSE "issue")
    /\ UNCHANGED <<clock, stored, arc, minted, cache, failures, lockOf, holder, alpn, http,
                   disk, quic, control>>

\* acquire_permit counts itself in and, over the limit, out again.
AcquirePermit(t) ==
    /\ pc[t] = "permit"
    /\ inFlight' = inFlight + 1
    /\ Goto(t, IF inFlight >= MAX_INFLIGHT THEN "giveback" ELSE "issue")
    /\ UNCHANGED <<clock, stored, arc, minted, cache, failures, lockOf, holder, alpn, http,
                   disk, quic, control>>

\* Mutant: given back by hand and again by the guard.
ReturnTwice(t) ==
    /\ pc[t] \in {"giveback", "drop"}
    /\ inFlight' = inFlight - 2
    /\ Goto(t, "unlock")
    /\ UNCHANGED <<clock, stored, arc, minted, cache, failures, lockOf, holder, alpn, http,
                   disk, quic, control>>

\* The permit is dropped, or was not to be had.
ReturnPermit(t) ==
    /\ pc[t] \in {"giveback", "drop"}
    /\ inFlight' = inFlight - 1
    /\ Goto(t, "unlock")
    /\ UNCHANGED <<clock, stored, arc, minted, cache, failures, lockOf, holder, alpn, http,
                   disk, quic, control>>

-----------------------------------------------------------------------------
(* issue, with AcmeClient::issue and do_authorization inside: everything from *)
(* the permit to the new certificate in the cache.                          *)

\* The order is placed; the CA asks for a challenge, unless it still holds a
\* valid authorization for the host.
NewOrder(t) ==
    /\ pc[t] = "issue"
    /\ \E next \in {"present", "order"} : Goto(t, next)
    /\ UNCHANGED <<clock, stored, arc, minted, memory, disk, quic, control>>

Present(t) ==
    /\ pc[t] = "present"
    /\ \/ alpn' = [alpn EXCEPT ![host[t]] = t] /\ UNCHANGED http
       \/ http' = http \cup {t} /\ UNCHANGED alpn
    /\ Goto(t, "authorize")
    /\ UNCHANGED <<clock, stored, arc, minted, cache, failures, lockOf, holder, inFlight, disk,
                   quic, control>>

\* The CA validates the challenge, refuses it, or does not answer in time.
Authorize(t) ==
    /\ pc[t] = "authorize"
    /\ \E next \in {"authorized", "refused"} : Goto(t, next)
    /\ UNCHANGED <<clock, stored, arc, minted, memory, disk, quic, control>>

\* Mutant: a refused authorization returns before the cleanup.
CleanupIfAuthorized(t) ==
    /\ pc[t] \in {"authorized", "refused"}
    /\ IF pc[t] = "refused" THEN UNCHANGED <<http, alpn>>
       ELSE IF t \in http THEN http' = http \ {t} /\ UNCHANGED alpn
                          ELSE alpn' = [alpn EXCEPT ![host[t]] = None] /\ UNCHANGED http
    /\ Goto(t, IF pc[t] = "authorized" THEN "order" ELSE "failed")
    /\ UNCHANGED <<clock, stored, arc, minted, cache, failures, lockOf, holder, inFlight, disk,
                   quic, control>>

Cleanup(t) ==
    /\ pc[t] \in {"authorized", "refused"}
    /\ IF t \in http THEN http' = http \ {t} /\ UNCHANGED alpn
                     ELSE alpn' = [alpn EXCEPT ![host[t]] = None] /\ UNCHANGED http
    /\ Goto(t, IF pc[t] = "authorized" THEN "order" ELSE "failed")
    /\ UNCHANGED <<clock, stored, arc, minted, cache, failures, lockOf, holder, inFlight, disk,
                   quic, control>>

\* The order is finalized with a fresh key and the certificate downloaded.
Finalize(t) ==
    /\ pc[t] = "order" /\ issued[host[t]] < MaxIssued
    /\ issued' = [issued EXCEPT ![host[t]] = @ + 1]
    /\ minted' = [minted EXCEPT ![t] = [gen |-> issued[host[t]] + 1, until |-> clock + Lifetime]]
    /\ Goto(t, "chain")
    /\ UNCHANGED <<clock, stored, arc, memory, chain, key, quic, control>>

\* save_cert renames two files into place, one after the other.
SaveChain(t) ==
    /\ pc[t] = "chain"
    /\ chain' = [chain EXCEPT ![host[t]] = minted[t]]
    /\ Goto(t, "key")
    /\ UNCHANGED <<clock, stored, arc, minted, memory, key, issued, quic, control>>

SaveKey(t) ==
    /\ pc[t] = "key"
    /\ key' = [key EXCEPT ![host[t]] = minted[t].gen]
    /\ Goto(t, "putnew")
    /\ UNCHANGED <<clock, stored, arc, minted, memory, chain, issued, quic, control>>

PutNew(t) ==
    /\ pc[t] = "putnew"
    /\ CachePut(host[t], [cert |-> minted[t], key |-> minted[t].gen, asOf |-> epoch])
    /\ Goto(t, "clearnew")
    /\ UNCHANGED <<clock, stored, arc, minted, failures, lockOf, holder, inFlight, alpn, http,
                   disk, quic, control>>

\* clear_failure, after a fresh certificate from the disk or from the CA.
ClearFailure(t) ==
    /\ pc[t] \in {"clear", "clearnew"}
    /\ failures' = [failures EXCEPT ![host[t]] = 0]
    /\ Goto(t, IF pc[t] = "clear" THEN "unlock" ELSE "drop")
    /\ UNCHANGED <<clock, stored, arc, minted, cache, lockOf, holder, inFlight, alpn, http,
                   disk, quic, control>>

\* No terms of service, no account, an error of the CA, a full disk, a
\* certificate that does not parse.
IssueFails(t) ==
    /\ pc[t] \in {"issue", "present", "order", "chain", "key", "putnew"}
    /\ Goto(t, "failed")
    /\ UNCHANGED <<clock, stored, arc, minted, memory, disk, quic, control>>

\* A failed renewal serves the certificate that is still valid, if it parses.
ServeStored(t) ==
    /\ pc[t] = "failed" /\ stored[t] # NoLoad /\ stored[t].cert.until > now[t]
    /\ CachePut(host[t], stored[t]) \/ UNCHANGED cache
    /\ Goto(t, "drop")
    /\ UNCHANGED <<clock, stored, arc, minted, failures, lockOf, holder, inFlight, alpn, http,
                   disk, quic, control>>

\* record_failure makes room in a full table: expired entries go, else the
\* soonest to expire.
Room(h, at) ==
    LET known  == {g \in Hosts : failures[g] # 0}
        live   == {g \in known : failures[g] > at}
        sooner == {g \in live : \A o \in live : failures[g] <= failures[o]}
    IN  IF h \in known \/ Cardinality(known) < NEG_CACHE_MAX THEN {known}
        ELSE IF Cardinality(live) < NEG_CACHE_MAX THEN {live}
        ELSE {live \ {g} : g \in sooner}

RecordFailure(t) ==
    /\ pc[t] = "failed" /\ ~(stored[t] # NoLoad /\ stored[t].cert.until > now[t])
    /\ \E kept \in Room(host[t], now[t]) :
          failures' = [h \in Hosts |-> IF h = host[t] THEN now[t] + NEG_CACHE_COOLDOWN
                                       ELSE IF h \in kept THEN failures[h] ELSE 0]
    /\ Goto(t, "drop")
    /\ UNCHANGED <<clock, stored, arc, minted, cache, lockOf, holder, inFlight, alpn, http,
                   disk, quic, control>>

-----------------------------------------------------------------------------
(* Leaving the host lock.                                                   *)

\* Mutant: the guard is leaked.
UnlockForgotten(t) ==
    /\ pc[t] = "unlock"
    /\ Goto(t, "release")
    /\ UNCHANGED <<clock, stored, arc, minted, memory, disk, quic, control>>

Unlock(t) ==
    /\ pc[t] = "unlock"
    /\ holder' = [holder EXCEPT ![arc[t]] = None]
    /\ Goto(t, "release")
    /\ UNCHANGED <<clock, stored, arc, minted, cache, failures, lockOf, inFlight, alpn, http,
                   disk, quic, control>>

\* Mutant: the entry is removed whoever else refers to the lock.
ReleaseUncounted(t) ==
    /\ pc[t] = "release"
    /\ lockOf' = [lockOf EXCEPT ![host[t]] = None]
    /\ Goto(t, "droparc")
    /\ UNCHANGED <<clock, stored, arc, minted, cache, failures, holder, inFlight, alpn, http,
                   disk, quic, control>>

\* release_host_lock looks at the count under the map's mutex; its own clone is
\* dropped after that mutex is released.
ReleaseHostLock(t) ==
    /\ pc[t] = "release"
    /\ lockOf' = IF StrongCount(arc[t]) = 2 THEN [lockOf EXCEPT ![host[t]] = None] ELSE lockOf
    /\ Goto(t, "droparc")
    /\ UNCHANGED <<clock, stored, arc, minted, cache, failures, holder, inFlight, alpn, http,
                   disk, quic, control>>

DropArc(t) ==
    /\ pc[t] = "droparc"
    /\ arc' = [arc EXCEPT ![t] = None]
    /\ stored' = [stored EXCEPT ![t] = NoLoad] /\ minted' = [minted EXCEPT ![t] = NoCert]
    /\ Goto(t, "idle")
    /\ UNCHANGED <<clock, memory, disk, quic, control>>

-----------------------------------------------------------------------------
(* choose_cached on the QUIC thread: no host lock, no look at the expiry of a *)
(* cached certificate, and the two files are read one after the other.      *)

QuicChoose ==
    /\ quic.pc = "idle"
    /\ \E h \in Hosts :
          /\ Touch(h)
          /\ quic' = IF Cached(h) # {} THEN quic ELSE [quic EXCEPT !.pc = "chain", !.host = h]
    /\ UNCHANGED <<clock, pc, host, now, stored, arc, minted, failures, lockOf, holder,
                   inFlight, alpn, http, disk, control>>

QuicReadChain ==
    /\ quic.pc = "chain"
    /\ quic' = [quic EXCEPT !.pc = "key", !.load.cert = chain[quic.host], !.load.asOf = epoch]
    /\ UNCHANGED <<clock, pc, host, now, stored, arc, minted, memory, disk, control>>

QuicReadKey ==
    /\ quic.pc = "key"
    /\ quic' = IF quic.load.cert.gen # 0 /\ key[quic.host] # 0
               THEN [quic EXCEPT !.pc = "put", !.load.key = key[quic.host]]
               ELSE QuicIdle
    /\ UNCHANGED <<clock, pc, host, now, stored, arc, minted, memory, disk, control>>

QuicPut ==
    /\ quic.pc = "put"
    /\ CachePut(quic.host, quic.load)
    /\ quic' = QuicIdle
    /\ UNCHANGED <<clock, pc, host, now, stored, arc, minted, failures, lockOf, holder,
                   inFlight, alpn, http, disk, control>>

-----------------------------------------------------------------------------
(* The operator and the world.                                              *)

ReloadCache ==
    /\ ~reloading /\ epoch < MaxReload
    /\ cache' = <<>>
    /\ epoch' = epoch + 1 /\ reloading' = TRUE
    /\ UNCHANGED <<clock, pc, host, now, stored, arc, minted, failures, lockOf, holder,
                   inFlight, alpn, http, disk, quic>>

ReloadFailures ==
    /\ reloading
    /\ failures' = [h \in Hosts |-> 0]
    /\ reloading' = FALSE
    /\ UNCHANGED <<clock, pc, host, now, stored, arc, minted, cache, lockOf, holder, inFlight,
                   alpn, http, disk, quic, epoch>>

Crash ==
    /\ pc' = [t \in Threads |-> "idle"] /\ host' = [t \in Threads |-> None]
    /\ now' = [t \in Threads |-> 0] /\ stored' = [t \in Threads |-> NoLoad]
    /\ arc' = [t \in Threads |-> None] /\ minted' = [t \in Threads |-> NoCert]
    /\ cache' = <<>> /\ failures' = [h \in Hosts |-> 0]
    /\ lockOf' = [h \in Hosts |-> None] /\ holder' = [l \in Locks |-> None]
    /\ inFlight' = 0 /\ alpn' = [h \in Hosts |-> None] /\ http' = {}
    /\ quic' = QuicIdle /\ reloading' = FALSE
    /\ UNCHANGED <<clock, disk, epoch>>

Tick ==
    /\ clock < MaxClock
    /\ clock' = clock + 1
    /\ UNCHANGED <<pc, host, now, stored, arc, minted, memory, disk, quic, control>>

-----------------------------------------------------------------------------
GetOrIssue(t) ==
    \/ LookInCache(t) \/ LookAtBackoff(t) \/ HostLock(t) \/ Lock(t)
    \/ LookAgain(t) \/ BackoffAgain(t) \/ LoadStored(t) \/ PutStored(t)
    \/ AcquirePermit(t) \/ ReturnPermit(t)
    \/ NewOrder(t) \/ Present(t) \/ Authorize(t) \/ Cleanup(t) \/ Finalize(t)
    \/ SaveChain(t) \/ SaveKey(t) \/ PutNew(t) \/ ClearFailure(t) \/ IssueFails(t)
    \/ ServeStored(t) \/ RecordFailure(t)
    \/ Unlock(t) \/ ReleaseHostLock(t) \/ DropArc(t)

QuicStep == QuicReadChain \/ QuicReadKey \/ QuicPut

Next ==
    \/ \E t \in Threads : Choose(t) \/ GetOrIssue(t)
    \/ QuicChoose \/ QuicStep
    \/ ReloadCache \/ ReloadFailures \/ Crash \/ Tick

\* Threads that can run do, and every exchange with the CA ends: the client's
\* polls have deadlines.
Fairness == \A t \in Threads : WF_vars(GetOrIssue(t))

Spec == Init /\ [][Next]_vars /\ Fairness

-----------------------------------------------------------------------------
(* Correctness.                                                             *)

\* Every variable holds a value of its type; in particular in_flight, which is
\* unsigned, does not go below zero.
TypeOK ==
    /\ clock \in 0..MaxClock
    /\ pc \in [Threads -> Step]
    /\ host \in [Threads -> Hosts \cup {None}]
    /\ now \in [Threads -> 0..MaxClock]
    /\ stored \in [Threads -> Load] /\ minted \in [Threads -> Cert]
    /\ arc \in [Threads -> Locks \cup {None}]
    /\ cache \in Seq([host : Hosts, load : Load])
    /\ failures \in [Hosts -> 0..MaxClock + NEG_CACHE_COOLDOWN]
    /\ lockOf \in [Hosts -> Locks \cup {None}]
    /\ holder \in [Locks -> Threads \cup {None}]
    /\ inFlight \in Nat
    /\ alpn \in [Hosts -> Threads \cup {None}] /\ http \subseteq Threads
    /\ chain \in [Hosts -> Cert] /\ key \in [Hosts -> 0..MaxIssued]
    /\ issued \in [Hosts -> 0..MaxIssued]
    /\ quic \in [pc : {"idle", "chain", "key", "put"}, host : Hosts \cup {None}, load : Load]
    /\ epoch \in 0..MaxReload /\ reloading \in BOOLEAN

\* At most one thread at a time is past the host lock of a host, however lock
\* entries come and go in the map: one order per host, one writer of its files.
SingleFlight ==
    \A t, u \in Threads :
        pc[t] \in Holding /\ pc[u] \in Holding /\ host[t] = host[u] => t = u

\* At most MAX_INFLIGHT orders are in progress, and every count is given back.
PermitsCounted ==
    /\ Cardinality({t \in Threads : pc[t] \in Permits}) <= MAX_INFLIGHT
    /\ inFlight = Cardinality({t \in Threads : pc[t] \in Permits \cup {"giveback"}})

\* While the CA validates a host its challenge is in place and is this order's
\* own; afterwards, whatever the outcome, it is gone.
Validating == {"authorize", "authorized", "refused"}
ChallengeStands ==
    /\ \A t \in Threads : pc[t] \in Validating => t \in http \/ alpn[host[t]] = t
    /\ \A t \in http : pc[t] \in Validating
    /\ \A h \in Hosts : alpn[h] # None => pc[alpn[h]] \in Validating /\ host[alpn[h]] = h

\* No order is placed for a host in its cooldown, as the thread sees the time:
\* a failure recorded while it waited for the host lock counts.
NoRetryInCooldown ==
    \A t \in Threads : pc[t] \in Ordering => failures[host[t]] <= now[t]

\* The two caches stay within their limits, and hold a host once.
Bounded ==
    /\ Len(cache) <= CACHE_MAX
    /\ \A i, j \in DOMAIN cache : cache[i].host = cache[j].host => i = j
    /\ Cardinality({h \in Hosts : failures[h] # 0}) <= NEG_CACHE_MAX

\* Whoever is past the host lock leaves it: an order that fails, or that the CA
\* never answers, does not shut the host's other connections out for good.
LockReleased == \A l \in Locks : holder[l] # None ~> holder[l] = None

\* "Drop the per-host lock entry if no other waiter still references it, so the
\* lock map cannot grow without bound" (manager.rs:351).
NoLeakedLock ==
    \A h \in Hosts : lockOf[h] # None => \E t \in Threads : arc[t] = lockOf[h]

\* "After an issuance failure for a host, refuse to re-attempt for this long"
\* (manager.rs:31).
FailureBacksOff ==
    [][\A h \in Hosts : failures'[h] > failures[h]
                          => failures'[h] >= clock + NEG_CACHE_COOLDOWN]_vars

\* A certificate is served with "the certificate's private key" (store.rs:30).
PairMatches ==
    \A i \in DOMAIN cache : cache[i].load.key = cache[i].load.cert.gen

\* After a reload "the next connection re-reads certificates from disk"
\* (manager.rs:193): nothing read before it is cached after it.
ReloadRereads == \A i \in DOMAIN cache : cache[i].load.asOf = epoch
=================================================================================
