----------------------------- MODULE ProcessProofs -----------------------------
(***************************************************************************)
(* Proofs about two things the threads of the process share.               *)
(*                                                                         *)
(* AcmeManager, for any finite sets of threads and hosts and any limits:   *)
(* one order per host at a time, and what rests on it. The invariant is    *)
(* about the map of host locks: all threads that want a host's lock        *)
(* contend for the same one. Then the permits, and the two caches within   *)
(* their limits.                                                           *)
(*                                                                         *)
(* Startup, for every command line and every way threads, system calls,    *)
(* signals and renewals may interleave: what has been bound and what has   *)
(* been given up when.                                                     *)
(***************************************************************************)
EXTENDS AcmeManager, Startup, FiniteSetTheorems, SequenceTheorems, TLAPS

\* The part of the types that the host lock is made of.
LockTypes ==
    /\ pc \in [Threads -> Step]
    /\ host \in [Threads -> Hosts \cup {None}]
    /\ arc \in [Threads -> Locks \cup {None}]
    /\ lockOf \in [Hosts -> Locks \cup {None}]
    /\ holder \in [Locks -> Threads \cup {None}]

\* A thread between host_lock and release_host_lock refers to the lock that the
\* map has for its host, so that all of them contend for the same mutex, and past
\* it the thread is the one inside.
LockInv ==
    /\ LockTypes
    /\ \A t \in Threads : pc[t] \in Refs => arc[t] \in Locks /\ host[t] \in Hosts
    /\ \A t \in Threads : pc[t] # "idle" => host[t] \in Hosts
    /\ \A t \in Threads : pc[t] \in Holding \cup {"lock", "release"} => lockOf[host[t]] = arc[t]
    /\ \A t \in Threads : pc[t] \in Holding => holder[arc[t]] = t

\* Positions: each belongs to what its name says and to nothing else.
LEMMA Positions ==
    /\ Ordering \subseteq Permits /\ Permits \subseteq Holding /\ Holding \subseteq Refs
    /\ Refs \subseteq Step
    /\ {"lock", "release", "droparc"} \subseteq Refs
    /\ {"lock", "release", "droparc"} \cap Holding = {}
    /\ {"idle", "cache", "backoff", "getlock"} \subseteq Step
    /\ {"idle", "cache", "backoff", "getlock"} \cap Refs = {}
BY DEF Ordering, Permits, Holding, Refs, Step

-----------------------------------------------------------------------------
(* The host lock.                                                           *)

\* A thread that moves without touching a lock keeps the invariant, as long as it
\* does not move into the locked region.
LEMMA MoveOn ==
    ASSUME LockInv, NEW t \in Threads, NEW s \in Step, Goto(t, s),
           UNCHANGED <<arc, lockOf, holder>>,
           pc[t] # "idle",
           s \in Holding => pc[t] \in Holding,
           s \in Refs => pc[t] \in Refs,
           s \notin {"lock", "release"}
    PROVE  LockInv'
<1>1. /\ pc' = [pc EXCEPT ![t] = s]
      /\ \A u \in Threads : u # t => host'[u] = host[u]
      /\ s # "idle" => host' = host
      /\ host' \in [Threads -> Hosts \cup {None}]
  BY DEF Goto, LockInv, LockTypes
<1>2. \A u \in Threads : pc'[u] = IF u = t THEN s ELSE pc[u]
  BY <1>1 DEF LockInv, LockTypes
<1>3. LockTypes'
  BY <1>1 DEF LockInv, LockTypes
<1>4. \A u \in Threads : pc'[u] # "idle" => host'[u] = host[u] /\ pc[u] # "idle"
  BY <1>1, <1>2
<1>5. "idle" \notin Refs /\ "idle" \notin Holding
  BY Positions
<1> QED BY <1>2, <1>3, <1>4, <1>5 DEF LockInv

LEMMA LockInvHostLock ==
    ASSUME LockInv, NEW t \in Threads, HostLock(t)
    PROVE  LockInv'
<1>1. PICK l \in Locks :
         /\ IF lockOf[host[t]] # None THEN l = lockOf[host[t]] ELSE StrongCount(l) = 0
         /\ lockOf' = [lockOf EXCEPT ![host[t]] = l]
         /\ arc' = [arc EXCEPT ![t] = l]
  BY DEF HostLock
<1>2. /\ pc[t] = "getlock" /\ pc' = [pc EXCEPT ![t] = "lock"] /\ host' = host /\ holder' = holder
      /\ host[t] \in Hosts
  BY DEF HostLock, Goto, LockInv
<1>3. LockTypes'
  BY <1>1, <1>2, Positions DEF LockInv, LockTypes
<1>4. \A u \in Threads : u # t => pc'[u] = pc[u] /\ arc'[u] = arc[u]
  BY <1>1, <1>2 DEF LockInv, LockTypes
<1>5. pc'[t] = "lock" /\ arc'[t] = l /\ lockOf'[host[t]] = l
  BY <1>1, <1>2 DEF LockInv, LockTypes
<1>6. \A h \in Hosts : lockOf[h] # None => lockOf'[h] = lockOf[h]
  BY <1>1, <1>2 DEF LockInv, LockTypes
<1>7. \A u \in Threads : u # t /\ pc[u] \in Holding \cup {"lock", "release"}
                            => lockOf'[host[u]] = arc[u]
  BY <1>6, AcmeAssumption, Positions DEF LockInv
<1> QED BY <1>2, <1>3, <1>4, <1>5, <1>7, Positions DEF LockInv

LEMMA LockInvLock ==
    ASSUME LockInv, NEW t \in Threads, Lock(t)
    PROVE  LockInv'
<1>1. /\ pc[t] = "lock" /\ holder[arc[t]] = None /\ arc[t] \in Locks
      /\ pc' = [pc EXCEPT ![t] = "recache"] /\ holder' = [holder EXCEPT ![arc[t]] = t]
      /\ UNCHANGED <<host, arc, lockOf>>
  BY Positions DEF Lock, Goto, LockInv
<1>2. LockTypes'
  BY <1>1, Positions DEF LockInv, LockTypes, Step, Refs, Holding
<1>3. \A u \in Threads : pc'[u] = IF u = t THEN "recache" ELSE pc[u]
  BY <1>1 DEF LockInv, LockTypes
<1>4. \A u \in Threads : u # t /\ pc[u] \in Holding => arc[u] # arc[t] /\ arc[u] \in Locks
  BY <1>1, AcmeAssumption, Positions DEF LockInv
<1>5. holder'[arc[t]] = t /\ \A u \in Threads : u # t /\ pc[u] \in Holding => holder'[arc[u]] = u
  BY <1>1, <1>4 DEF LockInv, LockTypes
<1>6. pc[t] \in Refs
  BY <1>1, Positions
<1> QED BY <1>1, <1>2, <1>3, <1>5, <1>6, Positions DEF LockInv

LEMMA LockInvUnlock ==
    ASSUME LockInv, NEW t \in Threads, Unlock(t)
    PROVE  LockInv'
<1>1. /\ pc[t] = "unlock" /\ pc[t] \in Holding /\ arc[t] \in Locks
      /\ pc' = [pc EXCEPT ![t] = "release"] /\ holder' = [holder EXCEPT ![arc[t]] = None]
      /\ UNCHANGED <<host, arc, lockOf>>
  BY Positions DEF Unlock, Goto, LockInv, Holding
<1>2. LockTypes'
  BY <1>1, Positions DEF LockInv, LockTypes
<1>3. \A u \in Threads : pc'[u] = IF u = t THEN "release" ELSE pc[u]
  BY <1>1 DEF LockInv, LockTypes
<1>4. \A u \in Threads : u # t /\ pc[u] \in Holding => arc[u] # arc[t] /\ arc[u] \in Locks
  BY <1>1, Positions DEF LockInv
<1>5. \A u \in Threads : u # t /\ pc[u] \in Holding => holder'[arc[u]] = u
  BY <1>1, <1>4 DEF LockInv, LockTypes
<1>6. pc[t] \in Refs
  BY <1>1, Positions
<1> QED BY <1>1, <1>2, <1>3, <1>5, <1>6, Positions DEF LockInv

\* A strong count of two, the map's clone and the caller's, leaves nobody else.
LEMMA LastReference ==
    ASSUME LockInv, NEW t \in Threads, pc[t] = "release", StrongCount(arc[t]) = 2
    PROVE  \A u \in Threads : arc[u] = arc[t] => u = t
<1> DEFINE T == {u \in Threads : arc[u] = arc[t]}
           H == {h \in Hosts : lockOf[h] = arc[t]}
<1>1. IsFiniteSet(T) /\ IsFiniteSet(H)
  BY AcmeAssumption, FS_Subset
<1>2. t \in T /\ host[t] \in H
  BY Positions DEF LockInv
<1>3. Cardinality(T) \in Nat /\ Cardinality(H) \in Nat
  BY <1>1, FS_CardinalityType
<1>4. Cardinality(T) # 0 /\ Cardinality(H) # 0
  BY <1>1, <1>2, FS_EmptySet
<1>5. Cardinality(T) + Cardinality(H) = 2
  BY DEF StrongCount
<1>6. Cardinality(T) = 1
  BY <1>3, <1>4, <1>5
<1>7. PICK x : T = {x}
  BY <1>1, <1>6, FS_Singleton
<1> QED BY <1>2, <1>7

LEMMA LockInvRelease ==
    ASSUME LockInv, NEW t \in Threads, ReleaseHostLock(t)
    PROVE  LockInv'
<1>1. /\ pc[t] = "release" /\ pc[t] \in Refs /\ pc' = [pc EXCEPT ![t] = "droparc"]
      /\ lockOf' = IF StrongCount(arc[t]) = 2 THEN [lockOf EXCEPT ![host[t]] = None] ELSE lockOf
      /\ UNCHANGED <<host, arc, holder>>
  BY Positions DEF ReleaseHostLock, Goto
<1>2. LockTypes'
  BY <1>1, Positions DEF LockInv, LockTypes
<1>3. \A u \in Threads : pc'[u] = IF u = t THEN "droparc" ELSE pc[u]
  BY <1>1 DEF LockInv, LockTypes
<1>4. \A u \in Threads : u # t /\ pc[u] \in Holding \cup {"lock", "release"}
                            => lockOf'[host[u]] = arc[u]
  <2> SUFFICES ASSUME NEW u \in Threads, u # t, pc[u] \in Holding \cup {"lock", "release"}
               PROVE  lockOf'[host[u]] = arc[u]
    OBVIOUS
  <2>1. host[u] \in Hosts /\ host[t] \in Hosts /\ lockOf[host[u]] = arc[u] /\ lockOf[host[t]] = arc[t]
    BY <1>1, Positions DEF LockInv
  <2>2. CASE StrongCount(arc[t]) = 2
    <3>1. host[u] # host[t]
      BY <1>1, <2>1, <2>2, LastReference
    <3> QED BY <1>1, <2>1, <2>2, <3>1 DEF LockInv, LockTypes
  <2>3. CASE StrongCount(arc[t]) # 2
    BY <1>1, <2>1, <2>3
  <2> QED BY <2>2, <2>3
<1> QED BY <1>1, <1>2, <1>3, <1>4, Positions DEF LockInv

LEMMA LockInvDropArc ==
    ASSUME LockInv, NEW t \in Threads, DropArc(t)
    PROVE  LockInv'
<1>1. /\ pc[t] = "droparc" /\ pc' = [pc EXCEPT ![t] = "idle"]
      /\ host' = [host EXCEPT ![t] = None] /\ arc' = [arc EXCEPT ![t] = None]
      /\ UNCHANGED <<lockOf, holder>>
  BY DEF DropArc, Goto, memory
<1>2. LockTypes'
  BY <1>1, Positions DEF LockInv, LockTypes
<1>3. \A u \in Threads : u # t => pc'[u] = pc[u] /\ host'[u] = host[u] /\ arc'[u] = arc[u]
  BY <1>1 DEF LockInv, LockTypes
<1>4. pc'[t] = "idle"
  BY <1>1 DEF LockInv, LockTypes
<1> QED BY <1>1, <1>2, <1>3, <1>4, Positions DEF LockInv

LEMMA LockInvChoose ==
    ASSUME LockInv, NEW t \in Threads, Choose(t)
    PROVE  LockInv'
<1>1. PICK h \in Hosts : host' = [host EXCEPT ![t] = h]
  BY DEF Choose
<1>2. /\ pc[t] = "idle" /\ pc' = [pc EXCEPT ![t] = "cache"]
      /\ UNCHANGED <<arc, lockOf, holder>>
  BY DEF Choose, memory
<1>3. LockTypes'
  BY <1>1, <1>2, Positions DEF LockInv, LockTypes
<1>4. \A u \in Threads : u # t => pc'[u] = pc[u] /\ host'[u] = host[u]
  BY <1>1, <1>2 DEF LockInv, LockTypes
<1>5. pc'[t] = "cache" /\ host'[t] = h
  BY <1>1, <1>2 DEF LockInv, LockTypes
<1> QED BY <1>2, <1>3, <1>4, <1>5, Positions DEF LockInv

\* The actions that touch no lock.
Unlocking(t) == Choose(t) \/ HostLock(t) \/ Lock(t) \/ Unlock(t) \/ ReleaseHostLock(t) \/ DropArc(t)

LEMMA LockInvElsewhere ==
    ASSUME LockInv, NEW t \in Threads, GetOrIssue(t), ~Unlocking(t)
    PROVE  LockInv'
<1> USE DEF memory
<1> DEFINE Steps(s) == /\ s \in Step /\ Goto(t, s) /\ pc[t] # "idle"
                       /\ s \in Holding => pc[t] \in Holding
                       /\ s \in Refs => pc[t] \in Refs
                       /\ s \notin {"lock", "release"}
<1>0. UNCHANGED <<arc, lockOf, holder>>
  BY DEF GetOrIssue, Unlocking, LookInCache, LookAtBackoff, LookAgain, BackoffAgain, LookUp,
         CheckBackoff, LoadStored, PutStored, AcquirePermit, ReturnPermit, NewOrder, Present,
         Authorize, Cleanup, Finalize, SaveChain, SaveKey, PutNew, ClearFailure, IssueFails,
         ServeStored, RecordFailure
<1>1. CASE LookInCache(t) \/ LookAgain(t)
  <2>1. \E s : Steps(s)
    BY <1>1 DEF LookInCache, LookAgain, LookUp, Step, Refs, Holding, Permits, Ordering
  <2> QED BY <1>0, <2>1, MoveOn
<1>2. CASE LookAtBackoff(t) \/ BackoffAgain(t)
  <2>1. \E s : Steps(s)
    BY <1>2 DEF LookAtBackoff, BackoffAgain, CheckBackoff, Step, Refs, Holding, Permits, Ordering
  <2> QED BY <1>0, <2>1, MoveOn
<1>3. CASE LoadStored(t) \/ PutStored(t)
  <2>1. \E s : Steps(s)
    BY <1>3 DEF LoadStored, PutStored, Step, Refs, Holding, Permits, Ordering
  <2> QED BY <1>0, <2>1, MoveOn
<1>4. CASE AcquirePermit(t) \/ ReturnPermit(t)
  <2>1. \E s : Steps(s)
    BY <1>4 DEF AcquirePermit, ReturnPermit, Step, Refs, Holding, Permits, Ordering
  <2> QED BY <1>0, <2>1, MoveOn
<1>5. CASE NewOrder(t) \/ Present(t) \/ Authorize(t) \/ Cleanup(t)
  <2>1. \E s : Steps(s)
    BY <1>5 DEF NewOrder, Present, Authorize, Cleanup, Step, Refs, Holding, Permits, Ordering
  <2> QED BY <1>0, <2>1, MoveOn
<1>6. CASE Finalize(t) \/ SaveChain(t) \/ SaveKey(t) \/ PutNew(t)
  <2>1. \E s : Steps(s)
    BY <1>6 DEF Finalize, SaveChain, SaveKey, PutNew, Step, Refs, Holding, Permits, Ordering
  <2> QED BY <1>0, <2>1, MoveOn
<1>7. CASE ClearFailure(t) \/ IssueFails(t) \/ ServeStored(t) \/ RecordFailure(t)
  <2>1. \E s : Steps(s)
    BY <1>7 DEF ClearFailure, IssueFails, ServeStored, RecordFailure, Step, Refs, Holding,
                Permits, Ordering
  <2> QED BY <1>0, <2>1, MoveOn
<1> QED BY <1>1, <1>2, <1>3, <1>4, <1>5, <1>6, <1>7 DEF GetOrIssue, Unlocking

LEMMA LockInvInit == Init => LockInv
<1> SUFFICES ASSUME Init PROVE LockInv
  OBVIOUS
<1>1. LockTypes
  BY Positions DEF Init, LockTypes
<1>2. \A t \in Threads : pc[t] = "idle"
  BY DEF Init
<1> QED BY <1>1, <1>2, Positions DEF LockInv

LEMMA LockInvNext == LockInv /\ [Next]_vars => LockInv'
<1> SUFFICES ASSUME LockInv, [Next]_vars PROVE LockInv'
  OBVIOUS
<1>1. ASSUME NEW t \in Threads, Choose(t) \/ GetOrIssue(t) PROVE LockInv'
  <2>1. CASE Choose(t)
    BY <2>1, LockInvChoose
  <2>2. CASE HostLock(t)
    BY <2>2, LockInvHostLock
  <2>3. CASE Lock(t)
    BY <2>3, LockInvLock
  <2>4. CASE Unlock(t)
    BY <2>4, LockInvUnlock
  <2>5. CASE ReleaseHostLock(t)
    BY <2>5, LockInvRelease
  <2>6. CASE DropArc(t)
    BY <2>6, LockInvDropArc
  <2>7. CASE GetOrIssue(t) /\ ~Unlocking(t)
    BY <2>7, LockInvElsewhere
  <2> QED BY <1>1, <2>1, <2>2, <2>3, <2>4, <2>5, <2>6, <2>7 DEF Unlocking
<1>2. CASE Crash
  <2>1. LockTypes'
    BY <1>2, Positions DEF Crash, LockTypes
  <2>2. \A t \in Threads : pc'[t] = "idle"
    BY <1>2 DEF Crash
  <2> QED BY <2>1, <2>2, Positions DEF LockInv
<1>3. CASE QuicChoose \/ QuicStep \/ ReloadCache \/ ReloadFailures \/ Tick \/ UNCHANGED vars
  <2>1. UNCHANGED <<pc, host, arc, lockOf, holder>>
    BY <1>3 DEF QuicChoose, QuicStep, QuicReadChain, QuicReadKey, QuicPut, ReloadCache,
                ReloadFailures, Tick, vars, memory
  <2> QED BY <2>1 DEF LockInv, LockTypes
<1> QED BY <1>1, <1>2, <1>3 DEF Next

LEMMA LockInvAlways == Spec => []LockInv
BY LockInvInit, LockInvNext, PTL DEF Spec

LEMMA OneHolder == LockInv => SingleFlight
BY Positions DEF LockInv, SingleFlight

\* For any number of threads and hosts, and however the lock map is trimmed, two
\* threads are never past the host lock of the same host.
THEOREM OneAtATime == Spec => []SingleFlight
BY LockInvAlways, OneHolder, PTL

-----------------------------------------------------------------------------
(* Challenges.                                                              *)

\* ChallengeStands and, for its steps, that an order has one challenge.
ChallengeInv ==
    /\ alpn \in [Hosts -> Threads \cup {None}] /\ http \subseteq Threads
    /\ ChallengeStands
    /\ \A t \in http : \A h \in Hosts : alpn[h] # t

\* The actions of a thread that keep the challenges and enter or leave no
\* validation.
Apart(t) == GetOrIssue(t) /\ ~(Present(t) \/ Authorize(t) \/ Cleanup(t))

\* What such an action does to the thread: it was not validating and is not.
LEMMA ApartStep ==
    ASSUME LockInv, NEW t \in Threads, Apart(t) \/ Choose(t)
    PROVE  /\ UNCHANGED <<alpn, http>>
           /\ pc[t] \notin Validating
           /\ \E s \in Step \ Validating : pc' = [pc EXCEPT ![t] = s]
           /\ \A u \in Threads : u # t => host'[u] = host[u]
<1> USE DEF memory, disk, Validating
<1>1. CASE Choose(t)
  BY <1>1 DEF Choose, LockInv, LockTypes, Step
<1>2. CASE LookInCache(t) \/ LookAgain(t)
  BY <1>2 DEF LookInCache, LookAgain, LookUp, Goto, Step, Refs, Holding, Permits, Ordering,
              LockInv, LockTypes
<1>3. CASE LookAtBackoff(t) \/ BackoffAgain(t)
  BY <1>3 DEF LookAtBackoff, BackoffAgain, CheckBackoff, Goto, Step, Refs, Holding, Permits,
              Ordering, LockInv, LockTypes
<1>4. CASE HostLock(t) \/ Lock(t) \/ Unlock(t)
  BY <1>4 DEF HostLock, Lock, Unlock, Goto, Step, Refs, Holding, LockInv, LockTypes
<1>5. CASE ReleaseHostLock(t) \/ DropArc(t)
  BY <1>5 DEF ReleaseHostLock, DropArc, Goto, Step, Refs, LockInv, LockTypes
<1>6. CASE LoadStored(t) \/ PutStored(t) \/ AcquirePermit(t) \/ ReturnPermit(t)
  BY <1>6 DEF LoadStored, PutStored, AcquirePermit, ReturnPermit, Goto, Step, Refs, Holding,
              Permits, Ordering, LockInv, LockTypes
<1>7. CASE Finalize(t) \/ SaveChain(t) \/ SaveKey(t) \/ PutNew(t) \/ ClearFailure(t)
  BY <1>7 DEF Finalize, SaveChain, SaveKey, PutNew, ClearFailure, Goto, Step, Refs, Holding,
              Permits, Ordering, LockInv, LockTypes
<1>8. CASE ServeStored(t) \/ RecordFailure(t)
  BY <1>8 DEF ServeStored, RecordFailure, Goto, Step, Refs, Holding, Permits, LockInv, LockTypes
<1>9. CASE NewOrder(t)
  BY <1>9 DEF NewOrder, Goto, Step, Refs, Holding, Permits, Ordering, LockInv, LockTypes
<1>10. CASE IssueFails(t)
  BY <1>10 DEF IssueFails, Goto, Step, Refs, Holding, Permits, Ordering, LockInv, LockTypes
<1> QED BY <1>1, <1>2, <1>3, <1>4, <1>5, <1>6, <1>7, <1>8, <1>9, <1>10 DEF Apart, GetOrIssue

LEMMA ChallengeApart ==
    ASSUME LockInv, ChallengeInv, NEW t \in Threads, Apart(t) \/ Choose(t)
    PROVE  ChallengeInv'
<1>1. PICK s \in Step \ Validating : pc' = [pc EXCEPT ![t] = s]
  BY ApartStep
<1>2. UNCHANGED <<alpn, http>> /\ pc[t] \notin Validating
  BY ApartStep
<1>3. \A u \in Threads : u # t => pc'[u] = pc[u] /\ host'[u] = host[u]
  BY <1>1, ApartStep DEF LockInv, LockTypes
<1>4. pc'[t] = s
  BY <1>1 DEF LockInv, LockTypes
<1>5. \A u \in http : u # t
  BY <1>2 DEF ChallengeInv, ChallengeStands
<1>6. \A h \in Hosts : alpn[h] # t
  BY <1>2, AcmeAssumption DEF ChallengeInv, ChallengeStands
<1>7. \A u \in Threads : pc'[u] \in Validating => u # t
  BY <1>4
<1>8. (\A u \in Threads : pc[u] \in Validating => u \in http \/ alpn[host[u]] = u)'
  BY <1>2, <1>3, <1>7 DEF ChallengeInv, ChallengeStands, Validating
<1>9. (\A u \in http : pc[u] \in Validating)'
  BY <1>2, <1>3, <1>5 DEF ChallengeInv, ChallengeStands, Validating
<1>10. (\A h \in Hosts : alpn[h] # None => pc[alpn[h]] \in Validating /\ host[alpn[h]] = h)'
  BY <1>2, <1>3, <1>6 DEF ChallengeInv, ChallengeStands, Validating
<1> QED BY <1>2, <1>8, <1>9, <1>10 DEF ChallengeInv, ChallengeStands

LEMMA ChallengePresent ==
    ASSUME LockInv, ChallengeInv, NEW t \in Threads, Present(t)
    PROVE  ChallengeInv'
<1>1. /\ pc[t] = "present" /\ pc' = [pc EXCEPT ![t] = "authorize"] /\ host' = host
      /\ host[t] \in Hosts
  BY DEF Present, Goto, LockInv
<1>2. \A u \in Threads : pc'[u] = IF u = t THEN "authorize" ELSE pc[u]
  BY <1>1 DEF LockInv, LockTypes
<1>3. t \notin http /\ \A h \in Hosts : alpn[h] # t
  BY <1>1, AcmeAssumption DEF ChallengeInv, ChallengeStands, Validating
<1>4. \A u \in Threads : u # t /\ pc[u] \in Validating => host[u] # host[t]
  <2>1. pc[t] \in Holding /\ Validating \subseteq Holding
    BY <1>1 DEF Validating, Holding, Permits, Ordering
  <2> QED BY <2>1, OneHolder DEF SingleFlight
<1>5. CASE alpn' = [alpn EXCEPT ![host[t]] = t] /\ http' = http
  <2>1. \A h \in Hosts : alpn'[h] = IF h = host[t] THEN t ELSE alpn[h]
    BY <1>5 DEF ChallengeInv
  <2>2. alpn' \in [Hosts -> Threads \cup {None}]
    BY <1>5 DEF ChallengeInv
  <2>3. (\A u \in Threads : pc[u] \in Validating => u \in http \/ alpn[host[u]] = u)'
    <3> SUFFICES ASSUME NEW u \in Threads, pc'[u] \in Validating, u \notin http
                 PROVE  alpn'[host[u]] = u
      BY <1>1, <1>5 DEF Validating
    <3>1. u # t => host[u] \in Hosts /\ alpn[host[u]] = u /\ host[u] # host[t]
      BY <1>2, <1>4 DEF ChallengeInv, ChallengeStands, LockInv, Validating
    <3> QED BY <1>1, <2>1, <3>1
  <2>4. (\A u \in http : pc[u] \in Validating)'
    BY <1>2, <1>3, <1>5 DEF ChallengeInv, ChallengeStands, Validating
  <2>5. (\A h \in Hosts : alpn[h] # None => pc[alpn[h]] \in Validating /\ host[alpn[h]] = h)'
    BY <1>1, <1>2, <1>3, <2>1 DEF ChallengeInv, ChallengeStands, Validating
  <2>6. (\A u \in http : \A h \in Hosts : alpn[h] # u)'
    BY <1>3, <1>5, <2>1 DEF ChallengeInv
  <2> QED BY <1>5, <2>2, <2>3, <2>4, <2>5, <2>6 DEF ChallengeInv, ChallengeStands
<1>6. CASE http' = http \cup {t} /\ alpn' = alpn
  <2>1. (\A u \in Threads : pc[u] \in Validating => u \in http \/ alpn[host[u]] = u)'
    BY <1>1, <1>2, <1>6 DEF ChallengeInv, ChallengeStands, Validating
  <2>2. (\A u \in http : pc[u] \in Validating)'
    BY <1>2, <1>6 DEF ChallengeInv, ChallengeStands, Validating
  <2>3. (\A h \in Hosts : alpn[h] # None => pc[alpn[h]] \in Validating /\ host[alpn[h]] = h)'
    BY <1>1, <1>2, <1>3, <1>6 DEF ChallengeInv, ChallengeStands, Validating
  <2> QED BY <1>3, <1>6, <2>1, <2>2, <2>3 DEF ChallengeInv, ChallengeStands
<1> QED BY <1>5, <1>6 DEF Present

LEMMA ChallengeCleanup ==
    ASSUME LockInv, ChallengeInv, NEW t \in Threads, Cleanup(t)
    PROVE  ChallengeInv'
<1>1. PICK s \in {"order", "failed"} : pc' = [pc EXCEPT ![t] = s] /\ host' = host
  BY DEF Cleanup, Goto
<1>2. pc[t] \in Validating /\ host[t] \in Hosts
  BY DEF Cleanup, Validating, LockInv
<1>3. \A u \in Threads : u # t => pc'[u] = pc[u]
  BY <1>1 DEF LockInv, LockTypes
<1>4. pc'[t] = s /\ s \notin Validating
  BY <1>1 DEF LockInv, LockTypes, Validating
<1>5. \A u \in Threads : u # t /\ pc[u] \in Validating => host[u] # host[t]
  <2>1. Validating \subseteq Holding
    BY DEF Validating, Holding, Permits, Ordering
  <2> QED BY <1>2, <2>1, OneHolder DEF SingleFlight
<1>6. CASE t \in http
  <2>1. http' = http \ {t} /\ alpn' = alpn
    BY <1>6 DEF Cleanup
  <2>2. (\A u \in Threads : pc[u] \in Validating => u \in http \/ alpn[host[u]] = u)'
    BY <1>1, <1>3, <1>4, <2>1 DEF ChallengeInv, ChallengeStands, Validating
  <2>3. (\A u \in http : pc[u] \in Validating)'
    BY <1>3, <2>1 DEF ChallengeInv, ChallengeStands, Validating
  <2>4. \A h \in Hosts : alpn[h] # t
    BY <1>6 DEF ChallengeInv
  <2>5. (\A h \in Hosts : alpn[h] # None => pc[alpn[h]] \in Validating /\ host[alpn[h]] = h)'
    BY <1>1, <1>3, <2>1, <2>4 DEF ChallengeInv, ChallengeStands, Validating
  <2> QED BY <2>1, <2>2, <2>3, <2>5 DEF ChallengeInv, ChallengeStands
<1>7. CASE t \notin http
  <2>1. http' = http /\ alpn' = [alpn EXCEPT ![host[t]] = None]
    BY <1>7 DEF Cleanup
  <2>2. \A h \in Hosts : alpn'[h] = IF h = host[t] THEN None ELSE alpn[h]
    BY <2>1 DEF ChallengeInv
  <2>3. alpn' \in [Hosts -> Threads \cup {None}]
    BY <2>1 DEF ChallengeInv
  <2>4. (\A u \in Threads : pc[u] \in Validating => u \in http \/ alpn[host[u]] = u)'
    <3> SUFFICES ASSUME NEW u \in Threads, pc'[u] \in Validating, u \notin http
                 PROVE  alpn'[host[u]] = u
      BY <1>1, <2>1 DEF Validating
    <3>1. u # t /\ pc[u] \in Validating
      BY <1>3, <1>4
    <3>2. host[u] \in Hosts /\ alpn[host[u]] = u /\ host[u] # host[t]
      BY <3>1, <1>5 DEF ChallengeInv, ChallengeStands, LockInv, Validating
    <3> QED BY <2>2, <3>2
  <2>5. (\A u \in http : pc[u] \in Validating)'
    BY <1>3, <1>7, <2>1 DEF ChallengeInv, ChallengeStands, Validating
  <2>6. (\A h \in Hosts : alpn[h] # None => pc[alpn[h]] \in Validating /\ host[alpn[h]] = h)'
    BY <1>1, <1>3, <2>2 DEF ChallengeInv, ChallengeStands, Validating
  <2>7. (\A u \in http : \A h \in Hosts : alpn[h] # u)'
    BY <2>1, <2>2, AcmeAssumption DEF ChallengeInv
  <2> QED BY <2>1, <2>3, <2>4, <2>5, <2>6, <2>7 DEF ChallengeInv, ChallengeStands
<1> QED BY <1>6, <1>7

LEMMA ChallengeNext == LockInv /\ ChallengeInv /\ [Next]_vars => ChallengeInv'
<1> SUFFICES ASSUME LockInv, ChallengeInv, [Next]_vars PROVE ChallengeInv'
  OBVIOUS
<1>1. ASSUME NEW t \in Threads, Choose(t) \/ GetOrIssue(t) PROVE ChallengeInv'
  <2>1. CASE Authorize(t)
    <3>1. PICK s \in {"authorized", "refused"} : pc' = [pc EXCEPT ![t] = s] /\ host' = host
      BY <2>1 DEF Authorize, Goto
    <3>2. UNCHANGED <<alpn, http>> /\ pc[t] = "authorize"
      BY <2>1 DEF Authorize, memory
    <3>3. \A u \in Threads : pc'[u] \in Validating <=> pc[u] \in Validating
      BY <3>1, <3>2 DEF LockInv, LockTypes, Validating
    <3> QED BY <3>1, <3>2, <3>3, AcmeAssumption DEF ChallengeInv, ChallengeStands, Validating
  <2> QED BY <1>1, <2>1, ChallengeApart, ChallengePresent, ChallengeCleanup DEF Apart
<1>2. CASE Crash
  BY <1>2 DEF Crash, ChallengeInv, ChallengeStands, Validating
<1>3. CASE QuicChoose \/ QuicStep \/ ReloadCache \/ ReloadFailures \/ Tick \/ UNCHANGED vars
  <2>1. UNCHANGED <<pc, host, alpn, http>>
    BY <1>3 DEF QuicChoose, QuicStep, QuicReadChain, QuicReadKey, QuicPut, ReloadCache,
                ReloadFailures, Tick, vars, memory
  <2> QED BY <2>1 DEF ChallengeInv, ChallengeStands, Validating
<1> QED BY <1>1, <1>2, <1>3 DEF Next

\* The challenge a thread put in place stays until that thread takes it away, and
\* is gone when its order is decided, for any number of threads and hosts.
THEOREM OwnChallenge == Spec => []ChallengeStands
<1>1. Init => ChallengeInv
  BY DEF Init, ChallengeInv, ChallengeStands, Validating
<1>2. ChallengeInv => ChallengeStands
  BY DEF ChallengeInv
<1> QED BY <1>1, <1>2, ChallengeNext, LockInvAlways, PTL DEF Spec

-----------------------------------------------------------------------------
(* The negative cache.                                                      *)

\* Past the second look at the negative cache.
Cleared == {"disk", "permit"} \cup Ordering

\* NoRetryInCooldown from the second look at the negative cache on.
BackoffInv ==
    /\ failures \in [Hosts -> Nat] /\ now \in [Threads -> Nat] /\ clock \in Nat
    /\ \A t \in Threads : pc[t] \in Cleared => failures[host[t]] <= now[t]

\* A thread that gets past that look only by looking, and leaves the failures of
\* the other hosts alone or forgets them.
LEMMA BackoffStep ==
    ASSUME LockInv, BackoffInv, NEW t \in Threads,
           now' \in [Threads -> Nat], failures' \in [Hosts -> Nat], clock' = clock,
           \A u \in Threads : u # t => pc'[u] = pc[u] /\ host'[u] = host[u] /\ now'[u] = now[u],
           \A h \in Hosts \ {host[t]} : failures'[h] <= failures[h],
           pc[t] \notin Holding => \A h \in Hosts : failures'[h] <= failures[h],
           pc'[t] \in Cleared => failures'[host'[t]] <= now'[t]
    PROVE  BackoffInv'
<1> SUFFICES ASSUME NEW u \in Threads, u # t, pc[u] \in Cleared
             PROVE  failures'[host[u]] <= now[u]
  BY DEF BackoffInv, Cleared, Ordering
<1>1. pc[u] \in Holding /\ host[u] \in Hosts
  BY DEF Cleared, Holding, Permits, Ordering, LockInv
<1>2. failures'[host[u]] <= failures[host[u]]
  BY <1>1, OneHolder DEF SingleFlight
<1>3. failures[host[u]] \in Nat /\ failures'[host[u]] \in Nat /\ now[u] \in Nat
  BY <1>1 DEF BackoffInv
<1> QED BY <1>2, <1>3 DEF BackoffInv

\* Actions of a thread that only go from one position to another.
LEMMA BackoffKept ==
    ASSUME LockInv, BackoffInv, NEW t \in Threads, NEW s \in Step, Goto(t, s),
           failures' = failures, clock' = clock, s \in Cleared => pc[t] \in Cleared
    PROVE  BackoffInv'
<1>1. pc' = [pc EXCEPT ![t] = s] /\ (s # "idle" => host' = host /\ now' = now)
  BY DEF Goto
<1>2. pc'[t] = s /\ \A u \in Threads : u # t => pc'[u] = pc[u]
  BY <1>1 DEF LockInv, LockTypes
<1>3. now' \in [Threads -> Nat]
      /\ \A u \in Threads : u # t => host'[u] = host[u] /\ now'[u] = now[u]
  BY DEF Goto, BackoffInv, LockInv, LockTypes
<1>4. s \in Cleared => failures'[host'[t]] <= now'[t]
  BY <1>1 DEF BackoffInv, Cleared, Ordering
<1>5. \A h \in Hosts : failures'[h] <= failures[h]
  BY DEF BackoffInv
<1> QED BY <1>2, <1>3, <1>4, <1>5, BackoffStep DEF BackoffInv

LEMMA BackoffNext == LockInv /\ BackoffInv /\ [Next]_vars => BackoffInv'
<1> SUFFICES ASSUME LockInv, BackoffInv, [Next]_vars PROVE BackoffInv'
  OBVIOUS
<1> USE DEF memory, disk
<1>1. ASSUME NEW t \in Threads, Choose(t) PROVE BackoffInv'
  <2>1. /\ pc' = [pc EXCEPT ![t] = "cache"] /\ now' = [now EXCEPT ![t] = clock]
        /\ \E h \in Hosts : host' = [host EXCEPT ![t] = h]
        /\ failures' = failures /\ clock' = clock
    BY <1>1 DEF Choose
  <2>2. pc'[t] = "cache" /\ "cache" \notin Cleared
    BY <2>1 DEF LockInv, LockTypes, Cleared, Ordering
  <2>3. \A u \in Threads : u # t => pc'[u] = pc[u] /\ host'[u] = host[u] /\ now'[u] = now[u]
    BY <2>1 DEF LockInv, LockTypes, BackoffInv
  <2>4. now' \in [Threads -> Nat] /\ \A h \in Hosts : failures'[h] <= failures[h]
    BY <2>1 DEF BackoffInv
  <2> QED BY <2>1, <2>2, <2>3, <2>4, BackoffStep DEF BackoffInv
<1>2. ASSUME NEW t \in Threads, LookAtBackoff(t) \/ BackoffAgain(t) PROVE BackoffInv'
  <2>1. PICK s \in {"idle", "getlock", "unlock", "disk"} :
           /\ Goto(t, s) /\ (s = "disk" => failures[host[t]] <= now[t])
           /\ (failures' = failures \/ failures' = [failures EXCEPT ![host[t]] = 0])
           /\ clock' = clock /\ host[t] \in Hosts
    BY <1>2 DEF LookAtBackoff, BackoffAgain, CheckBackoff, LockInv, BackoffInv
  <2>2. pc' = [pc EXCEPT ![t] = s] /\ (s # "idle" => host' = host /\ now' = now)
    BY <2>1 DEF Goto
  <2>3. pc'[t] = s /\ \A u \in Threads : u # t => pc'[u] = pc[u]
    BY <2>2 DEF LockInv, LockTypes
  <2>4. now' \in [Threads -> Nat]
        /\ \A u \in Threads : u # t => host'[u] = host[u] /\ now'[u] = now[u]
    BY <2>1 DEF Goto, BackoffInv, LockInv, LockTypes
  <2>5. failures' \in [Hosts -> Nat] /\ \A h \in Hosts : failures'[h] <= failures[h]
    BY <2>1 DEF BackoffInv
  <2>6. s \in Cleared => s = "disk"
    BY DEF Cleared, Ordering
  <2>7. s \in Cleared => failures'[host'[t]] <= now'[t]
    BY <2>1, <2>2, <2>5, <2>6 DEF BackoffInv
  <2> QED BY <2>1, <2>3, <2>4, <2>5, <2>7, BackoffStep
<1>3. ASSUME NEW t \in Threads, ClearFailure(t) PROVE BackoffInv'
  <2>1. PICK s \in {"unlock", "drop"} :
           /\ Goto(t, s) /\ failures' = [failures EXCEPT ![host[t]] = 0] /\ clock' = clock
           /\ host[t] \in Hosts
    BY <1>3 DEF ClearFailure, LockInv
  <2>2. pc' = [pc EXCEPT ![t] = s] /\ host' = host /\ now' = now
    BY <2>1 DEF Goto
  <2>3. pc'[t] \notin Cleared /\ \A u \in Threads : u # t => pc'[u] = pc[u]
    BY <2>2 DEF LockInv, LockTypes, Cleared, Ordering
  <2>4. failures' \in [Hosts -> Nat] /\ \A h \in Hosts : failures'[h] <= failures[h]
    BY <2>1 DEF BackoffInv
  <2> QED BY <2>1, <2>2, <2>3, <2>4, BackoffStep DEF BackoffInv
<1>4. ASSUME NEW t \in Threads, RecordFailure(t) PROVE BackoffInv'
  <2>1. PICK kept : failures' = [h \in Hosts |-> IF h = host[t] THEN now[t] + NEG_CACHE_COOLDOWN
                                              ELSE IF h \in kept THEN failures[h] ELSE 0]
    BY <1>4 DEF RecordFailure
  <2>2. /\ pc[t] = "failed" /\ pc' = [pc EXCEPT ![t] = "drop"] /\ host' = host /\ now' = now
        /\ clock' = clock
    BY <1>4 DEF RecordFailure, Goto
  <2>3. pc'[t] \notin Cleared /\ \A u \in Threads : u # t => pc'[u] = pc[u]
    BY <2>2 DEF LockInv, LockTypes, Cleared, Ordering
  <2>4. failures' \in [Hosts -> Nat] /\ \A h \in Hosts \ {host[t]} : failures'[h] <= failures[h]
    BY <2>1, AcmeAssumption DEF BackoffInv
  <2>5. pc[t] \in Holding
    BY <2>2 DEF Holding, Permits
  <2> QED BY <2>2, <2>3, <2>4, <2>5, BackoffStep DEF BackoffInv
<1>5. ASSUME NEW t \in Threads, LookInCache(t) \/ LookAgain(t) \/ HostLock(t) \/ Lock(t)
                                 \/ Unlock(t) \/ ReleaseHostLock(t) \/ DropArc(t)
      PROVE  BackoffInv'
  <2>1. PICK s \in Step \ Cleared : Goto(t, s) /\ failures' = failures /\ clock' = clock
    BY <1>5 DEF LookInCache, LookAgain, LookUp, HostLock, Lock, Unlock, ReleaseHostLock, DropArc,
                Step, Refs, Holding, Permits, Cleared, Ordering
  <2> QED BY <2>1, BackoffKept
<1>6. ASSUME NEW t \in Threads, LoadStored(t) \/ PutStored(t) \/ AcquirePermit(t) \/ ReturnPermit(t)
      PROVE  BackoffInv'
  <2>1. \E s \in Step : /\ Goto(t, s) /\ failures' = failures /\ clock' = clock
                        /\ s \in Cleared => pc[t] \in Cleared
    BY <1>6 DEF LoadStored, PutStored, AcquirePermit, ReturnPermit, Step, Refs, Holding, Permits,
                Cleared, Ordering
  <2> QED BY <2>1, BackoffKept
<1>7. ASSUME NEW t \in Threads, NewOrder(t) \/ Present(t) \/ Authorize(t) \/ Cleanup(t)
      PROVE  BackoffInv'
  <2>1. \E s \in Step : /\ Goto(t, s) /\ failures' = failures /\ clock' = clock
                        /\ s \in Cleared => pc[t] \in Cleared
    BY <1>7 DEF NewOrder, Present, Authorize, Cleanup, Step, Refs, Holding, Permits, Cleared,
                Ordering
  <2> QED BY <2>1, BackoffKept
<1>8. ASSUME NEW t \in Threads, Finalize(t) \/ SaveChain(t) \/ SaveKey(t) \/ PutNew(t)
                                 \/ IssueFails(t) \/ ServeStored(t)
      PROVE  BackoffInv'
  <2>1. \E s \in Step : /\ Goto(t, s) /\ failures' = failures /\ clock' = clock
                        /\ s \in Cleared => pc[t] \in Cleared
    BY <1>8 DEF Finalize, SaveChain, SaveKey, PutNew, IssueFails, ServeStored, Step, Refs,
                Holding, Permits, Cleared, Ordering
  <2> QED BY <2>1, BackoffKept
<1>9. CASE Crash \/ ReloadFailures
  <2>1. CASE Crash
    BY <2>1 DEF Crash, BackoffInv, Cleared, Ordering
  <2>2. CASE ReloadFailures
    <3>1. failures' = [h \in Hosts |-> 0] /\ UNCHANGED <<pc, host, now, clock>>
      BY <2>2 DEF ReloadFailures
    <3>2. \A t \in Threads : pc[t] \in Cleared => host[t] \in Hosts /\ now[t] \in Nat
      BY DEF LockInv, BackoffInv, Cleared, Ordering
    <3> QED BY <3>1, <3>2 DEF BackoffInv
  <2> QED BY <1>9, <2>1, <2>2
<1>10. CASE QuicChoose \/ QuicStep \/ ReloadCache \/ UNCHANGED vars
  <2>1. UNCHANGED <<pc, host, now, failures, clock>>
    BY <1>10 DEF QuicChoose, QuicStep, QuicReadChain, QuicReadKey, QuicPut, ReloadCache, vars
  <2> QED BY <2>1 DEF BackoffInv
<1>11. CASE Tick
  <2>1. UNCHANGED <<pc, host, now, failures>> /\ clock' \in Nat
    BY <1>11 DEF Tick, BackoffInv
  <2> QED BY <2>1 DEF BackoffInv
<1> QED BY <1>1, <1>2, <1>3, <1>4, <1>5, <1>6, <1>7, <1>8, <1>9, <1>10, <1>11
        DEF Next, GetOrIssue

\* A host whose issuance has just failed is not ordered for again by the threads
\* that waited for its lock meanwhile.
THEOREM CooldownKept == Spec => []NoRetryInCooldown
<1>1. Init => BackoffInv
  BY DEF Init, BackoffInv, Cleared, Ordering
<1>2. BackoffInv => NoRetryInCooldown
  BY DEF BackoffInv, NoRetryInCooldown, Cleared
<1> QED BY <1>1, <1>2, BackoffNext, LockInvAlways, PTL DEF Spec

-----------------------------------------------------------------------------
(* Permits.                                                                 *)

At(P)   == {t \in Threads : pc[t] \in P}
Counted == Permits \cup {"giveback"}

\* How the number of threads at certain positions changes when one moves.
LEMMA CountMoves ==
    ASSUME LockTypes, NEW t \in Threads, NEW s, pc' = [pc EXCEPT ![t] = s], NEW P
    PROVE  /\ Cardinality(At(P)) \in Nat
           /\ (s \in P <=> pc[t] \in P) => At(P)' = At(P)
           /\ s \in P /\ pc[t] \notin P => Cardinality(At(P)') = Cardinality(At(P)) + 1
           /\ s \notin P /\ pc[t] \in P => Cardinality(At(P)') = Cardinality(At(P)) - 1
<1>1. \A u \in Threads : pc'[u] = IF u = t THEN s ELSE pc[u]
  BY DEF LockTypes
<1>2. IsFiniteSet(At(P))
  BY AcmeAssumption, FS_Subset DEF At
<1>3. (s \in P <=> pc[t] \in P) => At(P)' = At(P)
  BY <1>1 DEF At
<1>4. ASSUME s \in P, pc[t] \notin P PROVE Cardinality(At(P)') = Cardinality(At(P)) + 1
  <2>1. At(P)' = At(P) \cup {t} /\ t \notin At(P)
    BY <1>1, <1>4 DEF At
  <2> QED BY <2>1, <1>2, FS_AddElement
<1>5. ASSUME s \notin P, pc[t] \in P PROVE Cardinality(At(P)') = Cardinality(At(P)) - 1
  <2>1. At(P)' = At(P) \ {t} /\ t \in At(P)
    BY <1>1, <1>5 DEF At
  <2> QED BY <2>1, <1>2, FS_RemoveElement
<1>6. Cardinality(At(P)) \in Nat
  BY <1>2, FS_CardinalityType
<1> QED BY <1>3, <1>4, <1>5, <1>6

LEMMA PermitKept ==
    ASSUME LockInv, PermitsCounted, NEW t \in Threads, NEW s, pc' = [pc EXCEPT ![t] = s],
           inFlight' = inFlight, s \in Permits <=> pc[t] \in Permits,
           s # "giveback", pc[t] # "giveback"
    PROVE  PermitsCounted'
<1>1. At(Permits)' = At(Permits) /\ At(Counted)' = At(Counted)
  BY CountMoves DEF LockInv, Counted
<1> QED BY <1>1 DEF PermitsCounted, At, Counted

LEMMA PermitAcquired ==
    ASSUME LockInv, PermitsCounted, NEW t \in Threads, AcquirePermit(t)
    PROVE  PermitsCounted'
<1> DEFINE s == IF inFlight >= MAX_INFLIGHT THEN "giveback" ELSE "issue"
<1>1. pc[t] = "permit" /\ inFlight' = inFlight + 1 /\ pc' = [pc EXCEPT ![t] = s]
  BY DEF AcquirePermit, Goto
<1>2. /\ pc[t] \notin Permits /\ pc[t] \notin Counted /\ s \in Counted
      /\ "giveback" \notin Permits /\ "issue" \in Permits
  BY <1>1 DEF Permits, Ordering, Counted
<1>3. /\ Cardinality(At(Permits)) \in Nat /\ Cardinality(At(Counted)) \in Nat
      /\ Cardinality(At(Counted)') = Cardinality(At(Counted)) + 1
  BY <1>1, <1>2, CountMoves DEF LockInv
<1>4. Cardinality(At(Permits)) <= Cardinality(At(Counted))
  <2>1. At(Permits) \subseteq At(Counted)
    BY DEF At, Counted
  <2>2. IsFiniteSet(At(Counted))
    BY AcmeAssumption, FS_Subset DEF At
  <2> QED BY <2>1, <2>2, FS_Subset
<1>5. inFlight = Cardinality(At(Counted)) /\ Cardinality(At(Permits)) <= MAX_INFLIGHT
  BY DEF PermitsCounted, At, Counted
<1>6. CASE inFlight >= MAX_INFLIGHT
  <2>1. At(Permits)' = At(Permits)
    BY <1>1, <1>2, <1>6, CountMoves DEF LockInv
  <2> QED BY <1>1, <1>3, <1>5, <2>1 DEF PermitsCounted, At, Counted
<1>7. CASE ~(inFlight >= MAX_INFLIGHT)
  <2>1. Cardinality(At(Permits)') = Cardinality(At(Permits)) + 1
    BY <1>1, <1>2, <1>7, CountMoves DEF LockInv
  <2>2. Cardinality(At(Permits)') <= MAX_INFLIGHT
    BY <1>3, <1>4, <1>5, <1>7, <2>1, AcmeAssumption
  <2> QED BY <1>1, <1>3, <1>5, <2>2 DEF PermitsCounted, At, Counted
<1> QED BY <1>6, <1>7

LEMMA PermitReturned ==
    ASSUME LockInv, PermitsCounted, NEW t \in Threads, ReturnPermit(t)
    PROVE  PermitsCounted'
<1>1. /\ pc[t] \in {"giveback", "drop"} /\ inFlight' = inFlight - 1
      /\ pc' = [pc EXCEPT ![t] = "unlock"]
  BY DEF ReturnPermit, Goto
<1>2. pc[t] \in Counted /\ "unlock" \notin Counted /\ "unlock" \notin Permits
  BY <1>1 DEF Permits, Ordering, Counted
<1>3. /\ Cardinality(At(Permits)) \in Nat /\ Cardinality(At(Counted)) \in Nat
      /\ Cardinality(At(Counted)') = Cardinality(At(Counted)) - 1
  BY <1>1, <1>2, CountMoves DEF LockInv
<1>4. \/ At(Permits)' = At(Permits)
      \/ Cardinality(At(Permits)') = Cardinality(At(Permits)) - 1
  BY <1>1, <1>2, CountMoves DEF LockInv
<1>5. inFlight = Cardinality(At(Counted)) /\ Cardinality(At(Permits)) <= MAX_INFLIGHT
  BY DEF PermitsCounted, At, Counted
<1>6. Cardinality(At(Permits)') <= MAX_INFLIGHT
  BY <1>3, <1>4, <1>5, AcmeAssumption
<1> QED BY <1>1, <1>3, <1>5, <1>6 DEF PermitsCounted, At, Counted

LEMMA PermitsNext == LockInv /\ PermitsCounted /\ [Next]_vars => PermitsCounted'
<1> SUFFICES ASSUME LockInv, PermitsCounted, [Next]_vars PROVE PermitsCounted'
  OBVIOUS
<1> USE DEF memory, disk
<1> DEFINE Keeps(t) == \E s : /\ pc' = [pc EXCEPT ![t] = s] /\ inFlight' = inFlight
                              /\ s \in Permits <=> pc[t] \in Permits
                              /\ s # "giveback" /\ pc[t] # "giveback"
<1>1. ASSUME NEW t \in Threads, Keeps(t) PROVE PermitsCounted'
  BY <1>1, PermitKept
<1>2. ASSUME NEW t \in Threads, Choose(t) \/ LookInCache(t) \/ LookAgain(t) \/ LookAtBackoff(t)
                                \/ BackoffAgain(t)
      PROVE  Keeps(t)
  BY <1>2 DEF Choose, LookInCache, LookAgain, LookUp, LookAtBackoff, BackoffAgain, CheckBackoff,
              Goto, Permits, Ordering
<1>3. ASSUME NEW t \in Threads, HostLock(t) \/ Lock(t) \/ Unlock(t) \/ ReleaseHostLock(t)
                                \/ DropArc(t)
      PROVE  Keeps(t)
  BY <1>3 DEF HostLock, Lock, Unlock, ReleaseHostLock, DropArc, Goto, Permits, Ordering
<1>4. ASSUME NEW t \in Threads, LoadStored(t) \/ PutStored(t) \/ NewOrder(t) \/ Present(t)
                                \/ Authorize(t) \/ Cleanup(t)
      PROVE  Keeps(t)
  BY <1>4 DEF LoadStored, PutStored, NewOrder, Present, Authorize, Cleanup, Goto, Permits, Ordering
<1>5. ASSUME NEW t \in Threads, Finalize(t) \/ SaveChain(t) \/ SaveKey(t) \/ PutNew(t)
      PROVE  Keeps(t)
  BY <1>5 DEF Finalize, SaveChain, SaveKey, PutNew, Goto, Permits, Ordering
<1>6. ASSUME NEW t \in Threads, ClearFailure(t) \/ IssueFails(t) \/ ServeStored(t)
                                \/ RecordFailure(t)
      PROVE  Keeps(t)
  BY <1>6 DEF ClearFailure, IssueFails, ServeStored, RecordFailure, Goto, Permits, Ordering
<1>7. CASE Crash
  <2>1. \A t \in Threads : pc'[t] = "idle"
    BY <1>7 DEF Crash
  <2>2. "idle" \notin Permits \cup {"giveback"}
    BY DEF Permits, Ordering
  <2>3. /\ {t \in Threads : pc'[t] \in Permits} = {}
        /\ {t \in Threads : pc'[t] \in Permits \cup {"giveback"}} = {}
    BY <2>1, <2>2
  <2>4. inFlight' = 0
    BY <1>7 DEF Crash
  <2> QED BY <2>3, <2>4, FS_EmptySet, AcmeAssumption DEF PermitsCounted
<1>8. CASE QuicChoose \/ QuicStep \/ ReloadCache \/ ReloadFailures \/ Tick \/ UNCHANGED vars
  <2>1. UNCHANGED <<pc, inFlight>>
    BY <1>8 DEF QuicChoose, QuicStep, QuicReadChain, QuicReadKey, QuicPut, ReloadCache,
                ReloadFailures, Tick, vars
  <2> QED BY <2>1 DEF PermitsCounted
<1> QED BY <1>1, <1>2, <1>3, <1>4, <1>5, <1>6, <1>7, <1>8, PermitAcquired, PermitReturned
        DEF Next, GetOrIssue

\* However threads race for permits, no more than MAX_INFLIGHT hold one, and the
\* counter returns to what it was.
THEOREM PermitsLimited == Spec => []PermitsCounted
<1>1. Init => PermitsCounted
  <2> SUFFICES ASSUME Init PROVE PermitsCounted
    OBVIOUS
  <2>1. /\ {t \in Threads : pc[t] \in Permits} = {}
        /\ {t \in Threads : pc[t] \in Permits \cup {"giveback"}} = {}
    BY DEF Init, Permits, Ordering
  <2>2. inFlight = 0
    BY DEF Init
  <2> QED BY <2>1, <2>2, FS_EmptySet, AcmeAssumption DEF PermitsCounted
<1> QED BY <1>1, PermitsNext, LockInvAlways, PTL DEF Spec

-----------------------------------------------------------------------------
(* The two caches and the other types.                                      *)

Entries == [host : Hosts, load : Load]
Once(s) == \A i, j \in DOMAIN s : s[i].host = s[j].host => i = j

\* CertCache: a host is cached once, in at most CACHE_MAX entries.
CacheInv == cache \in Seq(Entries) /\ Once(cache) /\ Len(cache) <= CACHE_MAX

\* An entry for a host that is not in a sequence goes at its end.
LEMMA OnceAppend ==
    ASSUME NEW s \in Seq(Entries), Once(s), NEW e \in Entries,
           \A i \in DOMAIN s : s[i].host # e.host
    PROVE  /\ Append(s, e) \in Seq(Entries) /\ Once(Append(s, e))
           /\ Len(Append(s, e)) = Len(s) + 1
<1> DEFINE a == Append(s, e)
<1>1. /\ a \in Seq(Entries) /\ Len(a) = Len(s) + 1 /\ a[Len(s) + 1] = e
      /\ \A i \in 1..Len(s) : a[i] = s[i]
  BY AppendProperties
<1>2. Len(s) \in Nat /\ DOMAIN s = 1..Len(s) /\ DOMAIN a = 1..Len(s) + 1
  BY <1>1, LenProperties
<1> HIDE DEF a
<1>3. ASSUME NEW i \in 1..Len(s), NEW j \in DOMAIN a, a[i].host = a[j].host PROVE i = j
  <2>1. a[i] = s[i] /\ s[i].host # e.host
    BY <1>1, <1>2
  <2>2. j # Len(s) + 1
    BY <1>1, <1>3, <2>1
  <2>3. j \in 1..Len(s)
    <3>1. j \in 1..Len(s) + 1 /\ Len(s) \in Nat
      BY <1>2
    <3> QED BY <2>2, <3>1
  <2>4. s[i].host = s[j].host
    BY <1>1, <1>3, <2>1, <2>3
  <2> QED BY <1>2, <2>3, <2>4 DEF Once
<1>4. Once(a)
  <2> SUFFICES ASSUME NEW i \in DOMAIN a, NEW j \in DOMAIN a, a[i].host = a[j].host PROVE i = j
    BY DEF Once
  <2>1. CASE i \in 1..Len(s)
    BY <1>3, <2>1
  <2>2. CASE j \in 1..Len(s)
    BY <1>3, <2>2
  <2>3. CASE i = Len(s) + 1 /\ j = Len(s) + 1
    BY <2>3
  <2> QED BY <1>2, <2>1, <2>2, <2>3
<1> QED BY <1>1, <1>4 DEF a

\* The cache without a host holds nothing of it, and one entry less if it held it.
LEMMA WithoutIs ==
    ASSUME CacheInv, NEW h \in Hosts
    PROVE  /\ Without(h) \in Seq(Entries) /\ Once(Without(h))
           /\ \A i \in DOMAIN Without(h) : Without(h)[i].host # h
           /\ Len(Without(h)) = IF Cached(h) = {} THEN Len(cache) ELSE Len(cache) - 1
<1> DEFINE n == Len(cache)
           p == Position(h)
           a == SubSeq(cache, 1, p - 1)
           b == SubSeq(cache, p + 1, n)
           w == a \o b
<1>1. n \in Nat /\ DOMAIN cache = 1..n /\ \A i \in 1..n : cache[i] \in Entries
  BY LenProperties, ElementOfSeq DEF CacheInv
<1>2. CASE Cached(h) = {}
  <2>1. Without(h) = cache
    BY <1>2 DEF Without
  <2>2. \A i \in DOMAIN cache : cache[i].host # h
    BY <1>2 DEF Cached
  <2> QED BY <1>2, <2>1, <2>2 DEF CacheInv
<1>3. CASE Cached(h) # {}
  <2>1. p \in 1..n /\ cache[p].host = h
    BY <1>1, <1>3 DEF Cached, Position
  <2>2. Without(h) = w
    BY <1>3 DEF Without
  <2> HIDE DEF p, n
  <2>3. p \in Int /\ p - 1 \in Int /\ p + 1 \in Int /\ n \in Int
    BY <1>1, <2>1
  <2>4. /\ \A i \in 1..p - 1 : cache[i] \in Entries
        /\ \A i \in p + 1..n : cache[i] \in Entries
    BY <1>1, <2>1
  <2>5. /\ a \in Seq(Entries) /\ Len(a) = IF 1 <= p - 1 THEN p - 1 - 1 + 1 ELSE 0
        /\ \A i \in 1..p - 1 - 1 + 1 : a[i] = cache[1 + i - 1]
    BY <2>3, <2>4, SubSeqProperties
  <2>6. /\ b \in Seq(Entries) /\ Len(b) = IF p + 1 <= n THEN n - (p + 1) + 1 ELSE 0
        /\ \A i \in 1..n - (p + 1) + 1 : b[i] = cache[p + 1 + i - 1]
    BY <2>3, <2>4, SubSeqProperties
  <2>7. Len(a) = p - 1 /\ Len(b) = n - p /\ Len(a) + Len(b) = n - 1
    BY <1>1, <2>1, <2>5, <2>6
  <2>8. /\ w \in Seq(Entries) /\ Len(w) = Len(a) + Len(b)
        /\ \A i \in 1..Len(a) + Len(b) : w[i] = IF i <= Len(a) THEN a[i] ELSE b[i - Len(a)]
    BY <2>5, <2>6, ConcatProperties
  <2> DEFINE from(i) == IF i < p THEN i ELSE i + 1
  <2>9. ASSUME NEW i \in 1..n - 1 PROVE w[i] = cache[from(i)] /\ from(i) \in (1..n) \ {p}
    <3>1. CASE i < p
      <4>1. i \in 1..p - 1 - 1 + 1 /\ 1 + i - 1 = i /\ i <= Len(a) /\ i \in 1..Len(a) + Len(b)
        BY <1>1, <2>1, <2>7, <2>9, <3>1
      <4> HIDE DEF a, b, w
      <4>2. w[i] = a[i] /\ a[i] = cache[i]
        BY <2>5, <2>8, <4>1
      <4> QED BY <2>9, <1>1, <3>1, <4>2
    <3>2. CASE i >= p
      <4>1. /\ i - (p - 1) \in 1..n - (p + 1) + 1 /\ p + 1 + (i - (p - 1)) - 1 = i + 1
            /\ ~(i <= Len(a)) /\ i \in 1..Len(a) + Len(b) /\ i - Len(a) = i - (p - 1)
        BY <1>1, <2>1, <2>7, <2>9, <3>2
      <4> HIDE DEF a, b, w
      <4>2. w[i] = b[i - (p - 1)] /\ b[i - (p - 1)] = cache[i + 1]
        BY <2>6, <2>8, <4>1
      <4> QED BY <2>9, <1>1, <2>1, <3>2, <4>2
    <3> QED BY <2>1, <1>1, <2>9, <3>1, <3>2
  <2>10. DOMAIN w = 1..n - 1
    BY <2>7, <2>8, LenProperties
  <2>11. ASSUME NEW i \in DOMAIN w PROVE w[i].host # h
    <3>1. w[i] = cache[from(i)] /\ from(i) \in 1..n /\ from(i) # p
      BY <2>9, <2>10
    <3> HIDE DEF from, w
    <3> QED BY <1>1, <2>1, <3>1 DEF CacheInv, Once
  <2>12. Once(w)
    <3> SUFFICES ASSUME NEW i \in DOMAIN w, NEW j \in DOMAIN w, w[i].host = w[j].host PROVE i = j
      BY DEF Once
    <3>1. /\ w[i] = cache[from(i)] /\ from(i) \in 1..n
          /\ w[j] = cache[from(j)] /\ from(j) \in 1..n
      BY <2>9, <2>10
    <3>2. from(i) = from(j)
      <4> HIDE DEF from, w
      <4> QED BY <1>1, <3>1 DEF CacheInv, Once
    <3>3. i \in Int /\ j \in Int
      BY <2>10
    <3> QED BY <2>3, <3>2, <3>3
  <2> HIDE DEF w
  <2> QED BY <1>3, <2>2, <2>7, <2>8, <2>11, <2>12 DEF n
<1> QED BY <1>2, <1>3

\* A full cache gives up its oldest entry.
LEMMA TailOnce ==
    ASSUME NEW s \in Seq(Entries), Once(s), s # <<>>, NEW h, \A i \in DOMAIN s : s[i].host # h
    PROVE  /\ Tail(s) \in Seq(Entries) /\ Once(Tail(s)) /\ Len(Tail(s)) = Len(s) - 1
           /\ \A i \in DOMAIN Tail(s) : Tail(s)[i].host # h
<1> DEFINE r == Tail(s)
<1>1. /\ r \in Seq(Entries) /\ Len(r) = Len(s) - 1
      /\ \A i \in 1..Len(r) : r[i] = s[i + 1]
  BY HeadTailProperties
<1>2. Len(s) \in Nat /\ DOMAIN s = 1..Len(s) /\ DOMAIN r = 1..Len(r)
  BY <1>1, LenProperties
<1> HIDE DEF r
<1>3. \A i \in DOMAIN r : i \in Int /\ i + 1 \in DOMAIN s /\ r[i] = s[i + 1]
  BY <1>1, <1>2
<1>4. Once(r)
  <2> SUFFICES ASSUME NEW i \in DOMAIN r, NEW j \in DOMAIN r, r[i].host = r[j].host PROVE i = j
    BY DEF Once
  <2>1. i + 1 = j + 1
    BY <1>3 DEF Once
  <2> QED BY <1>3, <2>1
<1>5. \A i \in DOMAIN r : r[i].host # h
  BY <1>3
<1> QED BY <1>1, <1>4, <1>5 DEF r

\* CertCache::put makes room before it inserts, and replaces what it has of the host.
LEMMA PutKeeps ==
    ASSUME CacheInv, NEW h \in Hosts, NEW load \in Load, CachePut(h, load)
    PROVE  CacheInv'
<1> DEFINE e == [host |-> h, load |-> load]
<1>1. e \in Entries /\ e.host = h
  BY DEF Entries
<1>2. Len(cache) \in Nat /\ CACHE_MAX \in Nat \ {0} /\ Len(cache) <= CACHE_MAX
  BY LenProperties, AcmeAssumption DEF CacheInv
<1>3. CASE Cached(h) = {} /\ Len(cache) >= CACHE_MAX
  <2>1. cache' = Append(Tail(cache), e)
    BY <1>3 DEF CachePut
  <2>2. cache # <<>> /\ \A i \in DOMAIN cache : cache[i].host # h
    BY <1>2, <1>3, EmptySeq DEF Cached
  <2>3. /\ Tail(cache) \in Seq(Entries) /\ Once(Tail(cache)) /\ Len(Tail(cache)) = Len(cache) - 1
        /\ \A i \in DOMAIN Tail(cache) : Tail(cache)[i].host # h
    BY <2>2, TailOnce DEF CacheInv
  <2> HIDE DEF e
  <2>4. cache' \in Seq(Entries) /\ Once(cache') /\ Len(cache') = Len(Tail(cache)) + 1
    BY <1>1, <2>1, <2>3, OnceAppend
  <2> QED BY <1>2, <2>3, <2>4 DEF CacheInv, Once
<1>4. CASE ~(Cached(h) = {} /\ Len(cache) >= CACHE_MAX)
  <2>1. cache' = Append(Without(h), e)
    BY <1>4 DEF CachePut
  <2>2. /\ Without(h) \in Seq(Entries) /\ Once(Without(h))
        /\ \A i \in DOMAIN Without(h) : Without(h)[i].host # h
        /\ Len(Without(h)) = IF Cached(h) = {} THEN Len(cache) ELSE Len(cache) - 1
    BY WithoutIs
  <2> HIDE DEF e
  <2>3. cache' \in Seq(Entries) /\ Once(cache') /\ Len(cache') = Len(Without(h)) + 1
    BY <1>1, <2>1, <2>2, OnceAppend
  <2>4. Len(cache') <= CACHE_MAX
    BY <1>2, <1>4, <2>2, <2>3
  <2> QED BY <2>3, <2>4 DEF CacheInv, Once
<1> QED BY <1>3, <1>4

\* CertCache::get only moves an entry to the end.
LEMMA TouchKeeps ==
    ASSUME CacheInv, NEW h \in Hosts, Touch(h)
    PROVE  CacheInv'
<1>1. CASE Cached(h) = {}
  BY <1>1 DEF Touch, CacheInv, Once
<1>2. CASE Cached(h) # {}
  <2>1. cache' = Append(Without(h), Entry(h))
    BY <1>2 DEF Touch
  <2>2. /\ Without(h) \in Seq(Entries) /\ Once(Without(h))
        /\ \A i \in DOMAIN Without(h) : Without(h)[i].host # h
        /\ Len(Without(h)) = Len(cache) - 1
    BY <1>2, WithoutIs
  <2>3. Len(cache) \in Nat /\ DOMAIN cache = 1..Len(cache)
    BY LenProperties DEF CacheInv
  <2>4. Position(h) \in 1..Len(cache) /\ Entry(h).host = h
    BY <1>2, <2>3 DEF Cached, Position, Entry
  <2>5. Entry(h) \in Entries
    BY <2>4, ElementOfSeq DEF Entry, CacheInv
  <2>6. cache' \in Seq(Entries) /\ Once(cache') /\ Len(cache') = Len(Without(h)) + 1
    BY <2>1, <2>2, <2>4, <2>5, OnceAppend
  <2> QED BY <2>2, <2>3, <2>6 DEF CacheInv, Once
<1> QED BY <1>1, <1>2

Failing == {h \in Hosts : failures[h] # 0}

\* The clock, what was read from it and what was reckoned from it.
Clocks ==
    /\ clock \in 0..MaxClock
    /\ now \in [Threads -> 0..MaxClock]
    /\ failures \in [Hosts -> 0..MaxClock + NEG_CACHE_COOLDOWN]
    /\ Cardinality(Failing) <= NEG_CACHE_MAX

\* What is on disk and what threads have read from it or got from the CA.
Certs ==
    /\ stored \in [Threads -> Load] /\ minted \in [Threads -> Cert]
    /\ chain \in [Hosts -> Cert] /\ key \in [Hosts -> 0..MaxIssued]
    /\ issued \in [Hosts -> 0..MaxIssued]
    /\ quic \in [pc : {"idle", "chain", "key", "put"}, host : Hosts \cup {None}, load : Load]
    /\ quic.pc # "idle" => quic.host \in Hosts
    /\ alpn \in [Hosts -> Threads \cup {None}] /\ http \subseteq Threads
    /\ epoch \in 0..MaxReload /\ reloading \in BOOLEAN

\* A thread that is serving has a host.
LEMMA HostOf == ASSUME LockInv, NEW t \in Threads, pc[t] # "idle" PROVE host[t] \in Hosts
BY DEF LockInv

\* The negative cache does not grow by hosts that were in it.
LEMMA FailingShrinks ==
    ASSUME Cardinality(Failing) <= NEG_CACHE_MAX, Failing' \subseteq Failing
    PROVE  Cardinality(Failing') <= NEG_CACHE_MAX
<1>1. IsFiniteSet(Failing)
  BY AcmeAssumption, FS_Subset DEF Failing
<1>2. /\ Cardinality(Failing') <= Cardinality(Failing)
      /\ Cardinality(Failing) \in Nat /\ Cardinality(Failing') \in Nat
  BY <1>1, FS_Subset, FS_CardinalityType
<1> QED BY <1>2, AcmeAssumption

\* record_failure makes room for the one it adds.
LEMMA FailureFits ==
    ASSUME Cardinality(Failing) <= NEG_CACHE_MAX, NEW h \in Hosts, NEW time,
           NEW kept \in Room(h, time), Failing' \subseteq kept \cup {h}
    PROVE  Cardinality(Failing') <= NEG_CACHE_MAX
<1> DEFINE live == {g \in Failing : failures[g] > time}
<1>1. IsFiniteSet(Failing) /\ IsFiniteSet(live) /\ live \subseteq Failing
  BY AcmeAssumption, FS_Subset DEF Failing
<1>2. /\ Cardinality(Failing) \in Nat /\ Cardinality(live) \in Nat
      /\ Cardinality(live) <= Cardinality(Failing)
  BY <1>1, FS_Subset, FS_CardinalityType
<1>3. NEG_CACHE_MAX \in Nat \ {0}
  BY AcmeAssumption
<1>4. \/ kept = Failing /\ (h \in Failing \/ Cardinality(Failing) < NEG_CACHE_MAX)
      \/ kept = live /\ Cardinality(live) < NEG_CACHE_MAX
      \/ \E g \in live : kept = live \ {g}
  BY DEF Room, Failing
<1> HIDE DEF live
<1>5. ASSUME NEW k, IsFiniteSet(k), Failing' \subseteq k, Cardinality(k) <= NEG_CACHE_MAX
      PROVE  Cardinality(Failing') <= NEG_CACHE_MAX
  <2>1. /\ Cardinality(Failing') <= Cardinality(k)
        /\ Cardinality(k) \in Nat /\ Cardinality(Failing') \in Nat
    BY <1>5, FS_Subset, FS_CardinalityType
  <2> QED BY <1>3, <1>5, <2>1
<1>6. ASSUME NEW k, IsFiniteSet(k), Failing' \subseteq k \cup {h}, Cardinality(k) < NEG_CACHE_MAX
      PROVE  Cardinality(Failing') <= NEG_CACHE_MAX
  <2>1. /\ IsFiniteSet(k \cup {h})
        /\ Cardinality(k \cup {h}) = IF h \in k THEN Cardinality(k) ELSE Cardinality(k) + 1
    BY <1>6, FS_AddElement
  <2>2. Cardinality(k) \in Nat /\ Cardinality(k \cup {h}) \in Nat
    BY <1>6, <2>1, FS_CardinalityType
  <2>3. Cardinality(k \cup {h}) <= NEG_CACHE_MAX
    BY <1>3, <1>6, <2>1, <2>2
  <2> QED BY <1>5, <1>6, <2>1, <2>3
<1>7. CASE kept = Failing /\ h \in Failing
  BY <1>1, <1>5, <1>7
<1>8. CASE kept = Failing /\ Cardinality(Failing) < NEG_CACHE_MAX
  BY <1>1, <1>6, <1>8
<1>9. CASE kept = live /\ Cardinality(live) < NEG_CACHE_MAX
  BY <1>1, <1>6, <1>9
<1>10. CASE \E g \in live : kept = live \ {g}
  <2>1. PICK g \in live : kept = live \ {g}
    BY <1>10
  <2>2. IsFiniteSet(kept) /\ Cardinality(kept) = Cardinality(live) - 1
    BY <1>1, <2>1, FS_RemoveElement
  <2>3. Cardinality(kept) < NEG_CACHE_MAX
    BY <1>2, <1>3, <2>2
  <2> QED BY <1>6, <2>2, <2>3
<1> QED BY <1>4, <1>7, <1>8, <1>9, <1>10

\* A step that leaves the cache alone.
LEMMA CacheKept == CacheInv /\ UNCHANGED cache => CacheInv'
BY DEF CacheInv, Once

\* Every use of the cache keeps its invariant.
LEMMA CacheNext == LockInv /\ Certs /\ CacheInv /\ [Next]_vars => CacheInv'
<1> SUFFICES ASSUME LockInv, Certs, CacheInv, [Next]_vars PROVE CacheInv'
  OBVIOUS
<1> USE DEF memory, disk
<1>1. ASSUME NEW t \in Threads, LookInCache(t) \/ LookAgain(t) PROVE CacheInv'
  <2>1. pc[t] # "idle" /\ Touch(host[t])
    BY <1>1 DEF LookInCache, LookAgain, LookUp
  <2> QED BY <2>1, HostOf, TouchKeeps
<1>2. ASSUME NEW t \in Threads, PutStored(t) \/ ServeStored(t) PROVE CacheInv'
  <2>1. pc[t] # "idle" /\ (CachePut(host[t], stored[t]) \/ UNCHANGED cache)
    BY <1>2 DEF PutStored, ServeStored
  <2>2. stored[t] \in Load /\ host[t] \in Hosts
    BY <2>1, HostOf DEF Certs
  <2> QED BY <2>1, <2>2, PutKeeps, CacheKept
<1>3. ASSUME NEW t \in Threads, PutNew(t) PROVE CacheInv'
  <2> DEFINE load == [cert |-> minted[t], key |-> minted[t].gen, asOf |-> epoch]
  <2>1. pc[t] # "idle" /\ CachePut(host[t], load)
    BY <1>3 DEF PutNew
  <2>2. load \in Load /\ host[t] \in Hosts
    BY <2>1, HostOf DEF Certs, Load, Cert
  <2> HIDE DEF load
  <2> QED BY <2>1, <2>2, PutKeeps
<1>4. CASE QuicChoose
  BY <1>4, TouchKeeps DEF QuicChoose
<1>5. CASE QuicPut
  <2>1. CachePut(quic.host, quic.load) /\ quic.host \in Hosts /\ quic.load \in Load
    BY <1>5 DEF QuicPut, Certs
  <2> QED BY <2>1, PutKeeps
<1>6. CASE ReloadCache \/ Crash
  <2>1. cache' = <<>>
    BY <1>6 DEF ReloadCache, Crash
  <2>2. cache' \in Seq(Entries) /\ Len(cache') = 0 /\ DOMAIN cache' = {}
    BY <2>1, EmptySeq
  <2> QED BY <2>2, AcmeAssumption DEF CacheInv, Once
<1>7. ASSUME NEW t \in Threads, Choose(t) \/ LookAtBackoff(t) \/ HostLock(t) \/ Lock(t)
                                \/ BackoffAgain(t) \/ LoadStored(t) \/ AcquirePermit(t)
                                \/ ReturnPermit(t)
      PROVE  UNCHANGED cache
  BY <1>7 DEF Choose, LookAtBackoff, BackoffAgain, CheckBackoff, HostLock, Lock, LoadStored,
              AcquirePermit, ReturnPermit
<1>8. ASSUME NEW t \in Threads, NewOrder(t) \/ Present(t) \/ Authorize(t) \/ Cleanup(t)
                                \/ Finalize(t) \/ SaveChain(t) \/ SaveKey(t) \/ ClearFailure(t)
      PROVE  UNCHANGED cache
  BY <1>8 DEF NewOrder, Present, Authorize, Cleanup, Finalize, SaveChain, SaveKey, ClearFailure
<1>9. ASSUME NEW t \in Threads, IssueFails(t) \/ RecordFailure(t) \/ Unlock(t)
                                \/ ReleaseHostLock(t) \/ DropArc(t)
      PROVE  UNCHANGED cache
  BY <1>9 DEF IssueFails, RecordFailure, Unlock, ReleaseHostLock, DropArc
<1>10. CASE QuicReadChain \/ QuicReadKey \/ ReloadFailures \/ Tick \/ UNCHANGED vars
  BY <1>10, CacheKept DEF QuicReadChain, QuicReadKey, ReloadFailures, Tick, vars
<1> QED BY <1>1, <1>2, <1>3, <1>4, <1>5, <1>6, <1>7, <1>8, <1>9, <1>10, CacheKept
        DEF Next, GetOrIssue, QuicStep

\* A thread's step that leaves the clock and the failures alone.
LEMMA ClocksKept ==
    ASSUME Clocks, clock' = clock, failures' = failures, now' \in [Threads -> 0..MaxClock]
    PROVE  Clocks'
BY DEF Clocks, Failing

\* The clock a thread read is read again or forgotten.
LEMMA NowKept ==
    ASSUME Clocks, NEW t, NEW s, Goto(t, s)
    PROVE  now' \in [Threads -> 0..MaxClock]
BY AcmeAssumption DEF Goto, Clocks

\* A host is forgotten by the negative cache, or by none.
LEMMA FailuresForgotten ==
    ASSUME Clocks, clock' = clock, now' \in [Threads -> 0..MaxClock],
           failures' \in [Hosts -> 0..MaxClock + NEG_CACHE_COOLDOWN],
           \A h \in Hosts : failures'[h] = failures[h] \/ failures'[h] = 0
    PROVE  Clocks'
<1>1. Failing' \subseteq Failing
  BY DEF Failing
<1> QED BY <1>1, FailingShrinks DEF Clocks

\* Every step keeps the clock's readings and the negative cache.
LEMMA ClocksNext == LockInv /\ Clocks /\ [Next]_vars => Clocks'
<1> SUFFICES ASSUME LockInv, Clocks, [Next]_vars PROVE Clocks'
  OBVIOUS
<1> USE DEF memory, disk
<1> DEFINE Keeps == clock' = clock /\ failures' = failures /\ \E t, s : Goto(t, s)
<1>1. ASSUME Keeps PROVE Clocks'
  BY <1>1, NowKept, ClocksKept
<1>2. ASSUME NEW t \in Threads, Choose(t) PROVE Clocks'
  <2>1. now' = [now EXCEPT ![t] = clock] /\ clock' = clock /\ failures' = failures
    BY <1>2 DEF Choose
  <2>2. now' \in [Threads -> 0..MaxClock]
    BY <2>1 DEF Clocks
  <2> QED BY <2>1, <2>2, ClocksKept
<1>3. ASSUME NEW t \in Threads, LookAtBackoff(t) \/ BackoffAgain(t) \/ ClearFailure(t)
      PROVE  Clocks'
  <2>1. /\ clock' = clock /\ (failures' = failures \/ failures' = [failures EXCEPT ![host[t]] = 0])
        /\ \E s : Goto(t, s)
    BY <1>3 DEF LookAtBackoff, BackoffAgain, CheckBackoff, ClearFailure
  <2>2. now' \in [Threads -> 0..MaxClock]
    BY <2>1, NowKept
  <2>3. 0 \in 0..MaxClock + NEG_CACHE_COOLDOWN
    BY AcmeAssumption
  <2>4. /\ failures' \in [Hosts -> 0..MaxClock + NEG_CACHE_COOLDOWN]
        /\ \A h \in Hosts : failures'[h] = failures[h] \/ failures'[h] = 0
    BY <2>1, <2>3 DEF Clocks
  <2> QED BY <2>1, <2>2, <2>4, FailuresForgotten
<1>4. ASSUME NEW t \in Threads, RecordFailure(t) PROVE Clocks'
  <2>1. pc[t] # "idle" /\ clock' = clock /\ \E s : Goto(t, s)
    BY <1>4 DEF RecordFailure
  <2>2. host[t] \in Hosts /\ now[t] \in 0..MaxClock /\ now' \in [Threads -> 0..MaxClock]
    BY <2>1, HostOf, NowKept DEF Clocks
  <2>3. PICK kept \in Room(host[t], now[t]) :
            failures' = [h \in Hosts |-> IF h = host[t] THEN now[t] + NEG_CACHE_COOLDOWN
                                         ELSE IF h \in kept THEN failures[h] ELSE 0]
    BY <1>4 DEF RecordFailure
  <2>4. /\ 0 \in 0..MaxClock + NEG_CACHE_COOLDOWN
        /\ now[t] + NEG_CACHE_COOLDOWN \in 0..MaxClock + NEG_CACHE_COOLDOWN
    BY <2>2, AcmeAssumption
  <2>5. failures' \in [Hosts -> 0..MaxClock + NEG_CACHE_COOLDOWN]
    BY <2>3, <2>4 DEF Clocks
  <2>6. Failing' \subseteq kept \cup {host[t]}
    BY <2>3 DEF Failing
  <2>7. Cardinality(Failing') <= NEG_CACHE_MAX
    BY <2>2, <2>3, <2>6, FailureFits DEF Clocks
  <2> QED BY <2>1, <2>2, <2>5, <2>7 DEF Clocks
<1>5. ASSUME NEW t \in Threads, LookInCache(t) \/ LookAgain(t) \/ HostLock(t) \/ Lock(t)
                                \/ LoadStored(t) \/ PutStored(t) \/ AcquirePermit(t)
                                \/ ReturnPermit(t)
      PROVE  Keeps
  BY <1>5 DEF LookInCache, LookAgain, LookUp, HostLock, Lock, LoadStored, PutStored,
              AcquirePermit, ReturnPermit
<1>6. ASSUME NEW t \in Threads, NewOrder(t) \/ Present(t) \/ Authorize(t) \/ Cleanup(t)
                                \/ Finalize(t) \/ SaveChain(t) \/ SaveKey(t) \/ PutNew(t)
      PROVE  Keeps
  BY <1>6 DEF NewOrder, Present, Authorize, Cleanup, Finalize, SaveChain, SaveKey, PutNew
<1>7. ASSUME NEW t \in Threads, IssueFails(t) \/ ServeStored(t) \/ Unlock(t)
                                \/ ReleaseHostLock(t) \/ DropArc(t)
      PROVE  Keeps
  BY <1>7 DEF IssueFails, ServeStored, Unlock, ReleaseHostLock, DropArc
<1>8. CASE ReloadFailures \/ Crash
  <2>1. /\ clock' = clock /\ failures' = [h \in Hosts |-> 0]
        /\ now' = now \/ now' = [t \in Threads |-> 0]
    BY <1>8 DEF ReloadFailures, Crash
  <2>2. 0 \in 0..MaxClock /\ 0 \in 0..MaxClock + NEG_CACHE_COOLDOWN
    BY AcmeAssumption
  <2>3. /\ now' \in [Threads -> 0..MaxClock]
        /\ failures' \in [Hosts -> 0..MaxClock + NEG_CACHE_COOLDOWN]
        /\ \A h \in Hosts : failures'[h] = 0
    BY <2>1, <2>2 DEF Clocks
  <2> QED BY <2>1, <2>3, FailuresForgotten
<1>9. CASE Tick
  <2>1. UNCHANGED <<now, failures>> /\ clock < MaxClock /\ clock' = clock + 1
    BY <1>9 DEF Tick
  <2>2. clock \in 0..MaxClock /\ MaxClock \in Nat
    BY AcmeAssumption DEF Clocks
  <2>3. clock' \in 0..MaxClock
    BY <2>1, <2>2
  <2> QED BY <2>1, <2>3 DEF Clocks, Failing
<1>10. CASE QuicChoose \/ QuicStep \/ ReloadCache \/ UNCHANGED vars
  <2>1. UNCHANGED <<clock, now, failures>>
    BY <1>10 DEF QuicChoose, QuicStep, QuicReadChain, QuicReadKey, QuicPut, ReloadCache, vars
  <2>2. now' \in [Threads -> 0..MaxClock]
    BY <2>1 DEF Clocks
  <2> QED BY <2>1, <2>2, ClocksKept
<1> HIDE DEF Keeps
<1> QED BY <1>1, <1>2, <1>3, <1>4, <1>5, <1>6, <1>7, <1>8, <1>9, <1>10 DEF Next, GetOrIssue

\* No certificate and nothing loaded are values of their types too.
LEMMA NothingLoaded == NoCert \in Cert /\ NoLoad \in Load
BY AcmeAssumption DEF NoCert, NoLoad, Cert, Load

\* A step that touches no file, challenge or loaded certificate.
LEMMA CertsKept ==
    ASSUME Certs, UNCHANGED <<stored, minted, disk, quic, alpn, http, control>>
    PROVE  Certs'
BY DEF Certs, disk, control

\* What the threads that serve a connection load, order and save.
LEMMA CertsMoved ==
    ASSUME LockInv, Clocks, Certs, NEW t \in Threads,
           \/ LoadStored(t) \/ Present(t) \/ Cleanup(t) \/ Finalize(t) \/ SaveChain(t)
           \/ SaveKey(t) \/ DropArc(t)
    PROVE  Certs'
<1> USE DEF memory, disk, control
<1>1. pc[t] # "idle" /\ host[t] \in Hosts
  <2>1. pc[t] # "idle"
    BY DEF LoadStored, Present, Cleanup, Finalize, SaveChain, SaveKey, DropArc
  <2> QED BY <2>1, HostOf
<1>2. NoCert \in Cert /\ NoLoad \in Load
  BY NothingLoaded
<1>3. CASE LoadStored(t)
  <2> DEFINE load == [cert |-> chain[host[t]], key |-> key[host[t]], asOf |-> epoch]
  <2>1. load \in Load
    BY <1>1 DEF Certs, Load
  <2>2. /\ stored' = stored \/ \E l \in {load, NoLoad} : stored' = [stored EXCEPT ![t] = l]
        /\ UNCHANGED <<minted, chain, key, issued, quic, alpn, http, epoch, reloading>>
    BY <1>3 DEF LoadStored
  <2> HIDE DEF load
  <2>3. stored' \in [Threads -> Load]
    BY <1>2, <2>1, <2>2 DEF Certs
  <2> QED BY <2>2, <2>3 DEF Certs
<1>4. CASE Present(t) \/ Cleanup(t)
  <2>1. UNCHANGED <<stored, minted, chain, key, issued, quic, epoch, reloading>>
    BY <1>4 DEF Present, Cleanup
  <2>2. /\ alpn' \in {alpn, [alpn EXCEPT ![host[t]] = t], [alpn EXCEPT ![host[t]] = None]}
        /\ http' \in {http, http \cup {t}, http \ {t}}
    BY <1>4 DEF Present, Cleanup
  <2>3. alpn' \in [Hosts -> Threads \cup {None}] /\ http' \subseteq Threads
    BY <2>2 DEF Certs
  <2> QED BY <2>1, <2>3 DEF Certs
<1>5. CASE Finalize(t)
  <2> DEFINE n == issued[host[t]]
             c == [gen |-> n + 1, until |-> clock + Lifetime]
  <2>1. /\ n < MaxIssued /\ issued' = [issued EXCEPT ![host[t]] = n + 1]
        /\ minted' = [minted EXCEPT ![t] = c]
        /\ UNCHANGED <<stored, chain, key, quic, alpn, http, epoch, reloading>>
    BY <1>5 DEF Finalize
  <2>2. n \in 0..MaxIssued /\ clock \in 0..MaxClock
    BY <1>1 DEF Certs, Clocks
  <2>3. MaxIssued \in Nat /\ MaxClock \in Nat /\ Lifetime \in Nat
    BY AcmeAssumption
  <2> HIDE DEF n
  <2>4. n + 1 \in 0..MaxIssued /\ clock + Lifetime \in 0..MaxClock + Lifetime
    BY <2>1, <2>2, <2>3
  <2>5. c \in Cert
    BY <2>4 DEF Cert
  <2> HIDE DEF c
  <2>6. issued' \in [Hosts -> 0..MaxIssued] /\ minted' \in [Threads -> Cert]
    BY <2>1, <2>4, <2>5 DEF Certs
  <2> QED BY <2>1, <2>6 DEF Certs
<1>6. CASE SaveChain(t)
  <2>1. /\ chain' = [chain EXCEPT ![host[t]] = minted[t]]
        /\ UNCHANGED <<stored, minted, key, issued, quic, alpn, http, epoch, reloading>>
    BY <1>6 DEF SaveChain
  <2>2. chain' \in [Hosts -> Cert]
    BY <2>1 DEF Certs
  <2> QED BY <2>1, <2>2 DEF Certs
<1>7. CASE SaveKey(t)
  <2>1. /\ key' = [key EXCEPT ![host[t]] = minted[t].gen]
        /\ UNCHANGED <<stored, minted, chain, issued, quic, alpn, http, epoch, reloading>>
    BY <1>7 DEF SaveKey
  <2>2. minted[t].gen \in 0..MaxIssued
    BY DEF Certs, Cert
  <2>3. key' \in [Hosts -> 0..MaxIssued]
    BY <2>1, <2>2 DEF Certs
  <2> QED BY <2>1, <2>3 DEF Certs
<1>8. CASE DropArc(t)
  <2>1. /\ stored' = [stored EXCEPT ![t] = NoLoad] /\ minted' = [minted EXCEPT ![t] = NoCert]
        /\ UNCHANGED <<chain, key, issued, quic, alpn, http, epoch, reloading>>
    BY <1>8 DEF DropArc
  <2>2. stored' \in [Threads -> Load] /\ minted' \in [Threads -> Cert]
    BY <1>2, <2>1 DEF Certs
  <2> QED BY <2>1, <2>2 DEF Certs
<1> QED BY <1>3, <1>4, <1>5, <1>6, <1>7, <1>8

\* What the QUIC thread reads.
LEMMA CertsQuic ==
    ASSUME Certs, QuicChoose \/ QuicReadChain \/ QuicReadKey \/ QuicPut
    PROVE  Certs'
<1> USE DEF memory, disk, control
<1> DEFINE Q == [pc : {"idle", "chain", "key", "put"}, host : Hosts \cup {None}, load : Load]
<1>1. UNCHANGED <<stored, minted, chain, key, issued, alpn, http, epoch, reloading>>
  BY DEF QuicChoose, QuicReadChain, QuicReadKey, QuicPut
<1>2. QuicIdle \in Q /\ QuicIdle.pc = "idle"
  <2>1. QuicIdle = [pc |-> "idle", host |-> None, load |-> NoLoad] /\ NoLoad \in Load
    BY NothingLoaded DEF QuicIdle
  <2> QED BY <2>1
<1>3. quic \in Q /\ (quic.pc # "idle" => quic.host \in Hosts)
  BY DEF Certs
<1>4. CASE QuicChoose
  <2>1. PICK h \in Hosts : quic' = quic \/ quic' = [quic EXCEPT !.pc = "chain", !.host = h]
    BY <1>4 DEF QuicChoose
  <2>2. CASE quic' = quic
    BY <1>1, <2>2 DEF Certs
  <2>3. CASE quic' = [quic EXCEPT !.pc = "chain", !.host = h]
    <3>1. quic' = [pc |-> "chain", host |-> h, load |-> quic.load] /\ quic.load \in Load
      BY <1>3, <2>3
    <3>2. quic' \in Q /\ quic'.host \in Hosts
      BY <3>1
    <3> QED BY <1>1, <3>2 DEF Certs
  <2> QED BY <2>1, <2>2, <2>3
<1>5. CASE QuicReadChain
  <2>1. /\ quic.pc = "chain"
        /\ quic' = [quic EXCEPT !.pc = "key", !.load.cert = chain[quic.host], !.load.asOf = epoch]
    BY <1>5 DEF QuicReadChain
  <2>2. chain[quic.host] \in Cert /\ epoch \in 0..MaxReload /\ quic.host \in Hosts
    BY <1>3, <2>1 DEF Certs
  <2>3. quic.load \in [cert : Cert, key : 0..MaxIssued, asOf : 0..MaxReload]
    BY <1>3 DEF Load
  <2>4. [quic.load EXCEPT !.cert = chain[quic.host], !.asOf = epoch] \in Load
    BY <2>2, <2>3 DEF Load
  <2>5. quic' = [pc |-> "key", host |-> quic.host,
                 load |-> [quic.load EXCEPT !.cert = chain[quic.host], !.asOf = epoch]]
    BY <1>3, <2>1
  <2>6. quic' \in Q /\ quic'.host \in Hosts
    BY <2>2, <2>4, <2>5
  <2> QED BY <1>1, <2>6 DEF Certs
<1>6. CASE QuicReadKey
  <2>1. CASE quic' = QuicIdle
    BY <1>1, <1>2, <2>1 DEF Certs
  <2>2. CASE quic' # QuicIdle
    <3>1. /\ quic.pc = "key"
          /\ quic' = [quic EXCEPT !.pc = "put", !.load.key = key[quic.host]]
      BY <1>6, <2>2 DEF QuicReadKey
    <3>2. key[quic.host] \in 0..MaxIssued /\ quic.host \in Hosts
      BY <1>3, <3>1 DEF Certs
    <3>3. quic.load \in [cert : Cert, key : 0..MaxIssued, asOf : 0..MaxReload]
      BY <1>3 DEF Load
    <3>4. [quic.load EXCEPT !.key = key[quic.host]] \in Load
      BY <3>2, <3>3 DEF Load
    <3>5. quic' = [pc |-> "put", host |-> quic.host,
                   load |-> [quic.load EXCEPT !.key = key[quic.host]]]
      BY <1>3, <3>1
    <3>6. quic' \in Q /\ quic'.host \in Hosts
      BY <3>2, <3>4, <3>5
    <3> QED BY <1>1, <3>6 DEF Certs
  <2> QED BY <2>1, <2>2
<1>7. CASE QuicPut
  BY <1>1, <1>2, <1>7 DEF QuicPut, Certs
<1> QED BY <1>4, <1>5, <1>6, <1>7

\* A crash leaves the disk, and nothing else.
LEMMA CertsCrash == ASSUME Certs, Crash PROVE Certs'
<1> USE DEF disk
<1>1. /\ stored' = [t \in Threads |-> NoLoad] /\ minted' = [t \in Threads |-> NoCert]
      /\ alpn' = [h \in Hosts |-> None] /\ http' = {} /\ quic' = QuicIdle /\ reloading' = FALSE
      /\ UNCHANGED <<chain, key, issued, epoch>>
  BY DEF Crash
<1>2. stored' \in [Threads -> Load] /\ minted' \in [Threads -> Cert]
  BY <1>1, NothingLoaded
<1>3. /\ quic' \in [pc : {"idle", "chain", "key", "put"}, host : Hosts \cup {None}, load : Load]
      /\ quic'.pc = "idle"
  BY <1>1, NothingLoaded DEF QuicIdle
<1> QED BY <1>1, <1>2, <1>3 DEF Certs

\* Every step keeps the files, and what was read or ordered, within their types.
LEMMA CertsNext == LockInv /\ Clocks /\ Certs /\ [Next]_vars => Certs'
<1> SUFFICES ASSUME LockInv, Clocks, Certs, [Next]_vars PROVE Certs'
  OBVIOUS
<1> USE DEF memory, disk, control
<1> DEFINE Keeps == UNCHANGED <<stored, minted, disk, quic, alpn, http, control>>
<1>1. ASSUME NEW t \in Threads, Choose(t) \/ LookInCache(t) \/ LookAgain(t) \/ LookAtBackoff(t)
                                \/ BackoffAgain(t) \/ HostLock(t) \/ Lock(t)
      PROVE  Keeps
  BY <1>1 DEF Choose, LookInCache, LookAgain, LookUp, LookAtBackoff, BackoffAgain, CheckBackoff,
              HostLock, Lock
<1>2. ASSUME NEW t \in Threads, PutStored(t) \/ AcquirePermit(t) \/ ReturnPermit(t)
                                \/ NewOrder(t) \/ Authorize(t) \/ PutNew(t) \/ ClearFailure(t)
      PROVE  Keeps
  BY <1>2 DEF PutStored, AcquirePermit, ReturnPermit, NewOrder, Authorize, PutNew, ClearFailure
<1>3. ASSUME NEW t \in Threads, IssueFails(t) \/ ServeStored(t) \/ RecordFailure(t) \/ Unlock(t)
                                \/ ReleaseHostLock(t)
      PROVE  Keeps
  BY <1>3 DEF IssueFails, ServeStored, RecordFailure, Unlock, ReleaseHostLock
<1>4. CASE ReloadCache
  <2>1. /\ epoch < MaxReload /\ epoch' = epoch + 1 /\ reloading' = TRUE
        /\ UNCHANGED <<stored, minted, chain, key, issued, quic, alpn, http>>
    BY <1>4 DEF ReloadCache
  <2>2. epoch \in 0..MaxReload /\ MaxReload \in Nat
    BY AcmeAssumption DEF Certs
  <2>3. epoch' \in 0..MaxReload
    BY <2>1, <2>2
  <2> QED BY <2>1, <2>3 DEF Certs
<1>5. CASE ReloadFailures
  BY <1>5 DEF ReloadFailures, Certs
<1>6. Keeps => Certs'
  BY CertsKept
<1>7. CASE Tick \/ UNCHANGED vars
  <2>1. Keeps
    BY <1>7 DEF Tick, vars
  <2> QED BY <1>6, <2>1
<1> HIDE DEF Keeps
<1> QED BY <1>1, <1>2, <1>3, <1>4, <1>5, <1>6, <1>7, CertsMoved, CertsQuic, CertsCrash
        DEF Next, GetOrIssue, QuicStep

Values == Clocks /\ Certs /\ CacheInv

\* Nothing is cached, saved or loaded to begin with.
LEMMA ValuesInit == Init => Values
<1> SUFFICES ASSUME Init PROVE Values
  OBVIOUS
<1>1. NoCert \in Cert /\ NoLoad \in Load
  BY NothingLoaded
<1>2. /\ 0 \in 0..MaxClock /\ 0 \in 0..MaxClock + NEG_CACHE_COOLDOWN /\ 0 \in 0..MaxIssued
      /\ 0 \in 0..MaxReload
  BY AcmeAssumption
<1>3. Clocks
  <2>1. Failing = {}
    BY DEF Init, Failing
  <2>2. Cardinality(Failing) <= NEG_CACHE_MAX
    BY <2>1, FS_EmptySet, AcmeAssumption
  <2> QED BY <1>2, <2>2 DEF Init, Clocks
<1>4. Certs
  <2>1. /\ quic \in [pc : {"idle", "chain", "key", "put"}, host : Hosts \cup {None}, load : Load]
        /\ quic.pc = "idle"
    BY <1>1 DEF Init, QuicIdle
  <2>2. stored \in [Threads -> Load] /\ minted \in [Threads -> Cert] /\ chain \in [Hosts -> Cert]
    BY <1>1 DEF Init
  <2> QED BY <1>2, <2>1, <2>2 DEF Init, Certs
<1>5. CacheInv
  <2>1. cache = <<>>
    BY DEF Init
  <2>2. cache \in Seq(Entries) /\ Len(cache) = 0 /\ DOMAIN cache = {}
    BY <2>1, EmptySeq
  <2> QED BY <2>2, AcmeAssumption DEF CacheInv, Once
<1> QED BY <1>3, <1>4, <1>5 DEF Values

\* The values keep their bounds in every reachable state.
LEMMA ValuesAlways == Spec => []Values
<1>1. LockInv /\ Values /\ [Next]_vars => Values'
  BY ClocksNext, CertsNext, CacheNext DEF Values
<1> QED BY <1>1, ValuesInit, LockInvAlways, PTL DEF Spec

\* However connections, the QUIC thread and reloads interleave, the certificate
\* cache and the negative cache stay within their limits, and no host is cached
\* twice.
THEOREM CachesBounded == Spec => []Bounded
<1>1. Values => Bounded
  BY DEF Values, CacheInv, Once, Clocks, Failing, Bounded
<1> QED BY <1>1, ValuesAlways, PTL

\* Every variable keeps its type: in particular in_flight, which is unsigned and
\* decremented from two places, never goes below zero.
THEOREM AcmeTypes == Spec => []TypeOK
<1>1. LockInv /\ PermitsCounted /\ Values => TypeOK
  <2> SUFFICES ASSUME LockInv, PermitsCounted, Values PROVE TypeOK
    OBVIOUS
  <2>1. inFlight \in Nat
    <3>1. IsFiniteSet({t \in Threads : pc[t] \in Permits \cup {"giveback"}})
      BY AcmeAssumption, FS_Subset
    <3> QED BY <3>1, FS_CardinalityType DEF PermitsCounted
  <2> QED BY <2>1 DEF TypeOK, LockInv, LockTypes, Values, Clocks, Certs, CacheInv, Entries
<1> QED BY <1>1, ValuesAlways, LockInvAlways, PermitsLimited, PTL

-----------------------------------------------------------------------------
(***************************************************************************)
(* Startup.                                                                *)
(***************************************************************************)
Places == {"off", "bind", "second", "ready", "serve", "drain", "refused", "failed", "done"}

Mains == {"spawn h3", "spawn tcp", "wait", "look", "refuse", "chroot", "chdir", "setgroups",
          "setgid", "setuid", "verify", "install", "watch", "join"}

\* Where the main thread is once each call of the drop has returned.
GoneOn        == {"install", "watch", "join"}
AfterSetUid   == GoneOn \cup {"verify"}
AfterSetGid   == AfterSetUid \cup {"setuid"}
AfterGroups   == AfterSetGid \cup {"setgid"}
AfterChdir    == AfterGroups \cup {"setgroups"}
AfterChroot   == AfterChdir \cup {"chdir"}
AfterWait     == AfterChroot \cup {"chroot"}

Credentials == [uid : {"root", "user"}, gid : {"first", "asked"}, groups : {"first", "asked"},
                root : {"/", "jail"}, cwd : {"outside", "inside"}]

Types ==
    /\ cfg \in Configs /\ main \in Mains
    /\ at \in [Servers -> Places]
    /\ mailbox \in Nat /\ bound \in Nat
    /\ cred \in Credentials

\* A thread past its signal has bound what it binds; only the two servers bind and
\* signal, and the QUIC server only if there is one.
Listening ==
    /\ at["tcp"] \in {"second", "ready", "serve", "drain", "done"} => "tcp" \in opened
    /\ at["tcp"] \in {"ready", "serve", "drain", "done"} => (cfg.http => "redirect" \in opened)
    /\ at["tcp"] # "failed"
    /\ at["udp"] \in {"ready", "serve", "failed", "done"} => "udp" \in opened
    /\ at["udp"] \notin {"second", "drain"}
    /\ at["redirect"] \in {"off", "serve", "done"}
    /\ at["udp"] # "off" => cfg.h3
    /\ main = "spawn h3" => at["udp"] = "off"
    /\ main \in {"spawn h3", "spawn tcp"} => at["tcp"] = "off"
    /\ ~Privileged /\ main \in {"spawn h3", "spawn tcp", "install", "watch"} => at["tcp"] = "off"

Signalled(t) == IF at[t] \in {"serve", "drain", "failed", "done"} THEN 1 ELSE 0

\* Every signal is in the channel or has been counted.
Counting == Privileged => bound + mailbox = Signalled("tcp") + Signalled("udp")

\* Only a process with something to give up waits, and it waits for all.
Waiting ==
    /\ main \in {"wait", "look", "refuse", "chroot", "chdir", "setgroups", "setgid", "setuid",
                 "verify"} => Privileged
    /\ Privileged /\ main \in AfterWait => bound >= Expected

\* What each call has done so far.
Dropping ==
    /\ ~Privileged \/ main \notin AfterChroot => cred = Initial
    /\ Privileged /\ main \in AfterChroot /\ cfg.chroot => cred.root = "jail"
    /\ Privileged /\ main \in AfterChdir /\ cfg.chroot => cred.cwd = "inside"
    /\ Privileged /\ main \in AfterGroups /\ cfg.group => cred.groups = "asked"
    /\ Privileged /\ main \in AfterSetGid /\ cfg.group => cred.gid = "asked"
    /\ main \notin AfterSetUid => cred.uid = cfg.uid
    /\ Privileged /\ main \in AfterSetUid =>
          cred.uid = IF cfg.user = Unset THEN cfg.uid ELSE cfg.user
    /\ Privileged /\ main \in GoneOn /\ cred.uid = "root" => cfg.user = "root"

IInv == Types /\ Listening /\ Counting /\ Waiting /\ Dropping

USE DEF Servers

LEMMA InitIInv == StartupInit => IInv
<1> SUFFICES ASSUME StartupInit PROVE IInv
  OBVIOUS
<1>1. Types
  BY DEF StartupInit, Types, Configs, Mains, Places, Credentials, Initial
<1>2. Listening
  BY DEF StartupInit, Listening
<1>3. Counting
  BY DEF StartupInit, Counting, Signalled
<1>4. Waiting
  BY DEF StartupInit, Waiting, AfterWait, AfterChroot, AfterChdir, AfterGroups, AfterSetGid,
         AfterSetUid, GoneOn
<1>5. Dropping
  BY DEF StartupInit, Dropping, AfterChroot, AfterChdir, AfterGroups, AfterSetGid, AfterSetUid,
         GoneOn, Initial
<1> QED BY <1>1, <1>2, <1>3, <1>4, <1>5 DEF IInv

\* A step that leaves alone what the invariant speaks of.
LEMMA Aside ==
    ASSUME IInv, UNCHANGED <<cfg, main, at, opened, mailbox, bound, cred>>
    PROVE  IInv'
<1>1. Types' /\ Listening'
  BY DEF IInv, Types, Listening, Privileged
<1>2. Counting'
  BY DEF IInv, Counting, Signalled, Privileged
<1>3. Waiting'
  BY DEF IInv, Waiting, Privileged, Expected
<1>4. Dropping'
  BY DEF IInv, Dropping, Privileged, Initial
<1> QED BY <1>1, <1>2, <1>3, <1>4 DEF IInv

\* A step of a listening thread: the main thread and what it has seen stay.
LEMMA Listens ==
    ASSUME IInv, UNCHANGED <<cfg, main, bound, cred>>, Types', Listening', Counting'
    PROVE  IInv'
BY DEF IInv, Waiting, Dropping, Privileged, Expected, Initial

LEMMA ListenerStep == ASSUME IInv, NEW t \in Servers, Listener(t) PROVE IInv'
<1> USE DEF IInv
<1>1. CASE Bind(t)
  <2>1. UNCHANGED <<cfg, main, bound, cred, mailbox>>
    BY <1>1 DEF Bind
  <2>2. Types'
    BY <1>1, <2>1 DEF Bind, Moves, Types, Places
  <2>3. Listening'
    BY <1>1, <2>1 DEF Bind, Moves, Types, Listening, Privileged
  <2>4. Counting'
    BY <1>1, <2>1 DEF Bind, Moves, Types, Listening, Counting, Signalled, Privileged
  <2> QED BY <2>1, <2>2, <2>3, <2>4, Listens
<1>2. CASE Ready(t)
  <2>1. UNCHANGED <<cfg, main, bound, cred, opened>> /\ t \in {"tcp", "udp"}
    BY <1>2 DEF Ready, Listening
  <2>2. Types'
    BY <1>2, <2>1 DEF Ready, Moves, Types, Places
  <2>3. Listening'
    BY <1>2, <2>1 DEF Ready, Moves, Types, Listening, Privileged
  <2>4. Counting'
    <3>1. CASE Moves(t, "refused") /\ UNCHANGED mailbox
      BY <1>2, <2>1, <3>1 DEF Ready, Moves, Types, Counting, Signalled, Privileged
    <3>2. CASE Moves(t, "serve") /\ mailbox' = (IF Privileged THEN mailbox + 1 ELSE mailbox)
      <4>1. CASE t = "tcp"
        BY <1>2, <2>1, <3>2, <4>1 DEF Ready, Moves, Types, Counting, Signalled, Privileged
      <4>2. CASE t = "udp"
        BY <1>2, <2>1, <3>2, <4>2 DEF Ready, Moves, Types, Counting, Signalled, Privileged
      <4> QED BY <2>1, <4>1, <4>2
    <3> QED BY <1>2, <3>1, <3>2 DEF Ready
  <2> QED BY <2>1, <2>2, <2>3, <2>4, Listens
<1>3. CASE Stop(t) \/ Drained \/ PollFails
  <2>1. UNCHANGED <<cfg, main, bound, cred, opened, mailbox>>
    BY <1>3 DEF Stop, Drained, PollFails
  <2>2. Types'
    BY <1>3, <2>1 DEF Stop, Drained, PollFails, Moves, Types, Places
  <2>3. Listening'
    BY <1>3, <2>1 DEF Stop, Drained, PollFails, Moves, Types, Listening, Privileged
  <2>4. Signalled("tcp")' = Signalled("tcp") /\ Signalled("udp")' = Signalled("udp")
    BY <1>3 DEF Stop, Drained, PollFails, Moves, Types, Signalled
  <2>5. Counting'
    BY <2>1, <2>4 DEF Counting, Privileged
  <2> QED BY <2>1, <2>2, <2>3, <2>5, Listens
<1>4. CASE BindRedirect
  <2>1. UNCHANGED <<cfg, main, bound, cred, mailbox>>
    BY <1>4 DEF BindRedirect
  <2>2. Types'
    BY <1>4, <2>1 DEF BindRedirect, Moves, Types, Places
  <2>3. Listening'
    BY <1>4, <2>1 DEF BindRedirect, Moves, Types, Listening, Privileged
  <2>4. Counting'
    BY <1>4, <2>1 DEF BindRedirect, Moves, Types, Listening, Counting, Signalled, Privileged
  <2> QED BY <2>1, <2>2, <2>3, <2>4, Listens
<1> QED BY <1>1, <1>2, <1>3, <1>4 DEF Listener

\* A step of the main thread from one place to the next, the threads as they were.
LEMMA Passes ==
    ASSUME IInv, UNCHANGED <<cfg, at, opened, mailbox, bound>>,
           main' \in Mains, main' \notin {"spawn h3", "spawn tcp"},
           Privileged, cred' \in Credentials, Dropping',
           main' \in AfterWait => main \in AfterWait \/ bound >= Expected
    PROVE  IInv'
<1>1. Types'
  BY DEF IInv, Types
<1>2. Listening'
  BY DEF IInv, Types, Listening, Privileged
<1>3. Counting'
  BY DEF IInv, Counting, Signalled, Privileged
<1>4. Waiting'
  BY DEF IInv, Waiting, Privileged, Expected
<1> QED BY <1>1, <1>2, <1>3, <1>4 DEF IInv

USE DEF AfterWait, AfterChroot, AfterChdir, AfterGroups, AfterSetGid, AfterSetUid, GoneOn

LEMMA Spawns == ASSUME IInv, SpawnH3 \/ SpawnTcp \/ SpawnWatcher \/ InstallHandlers PROVE IInv'
<1> USE DEF IInv
<1>1. UNCHANGED <<cfg, opened, mailbox, bound, cred>> /\ (Privileged' <=> Privileged)
  BY DEF SpawnH3, SpawnTcp, SpawnWatcher, InstallHandlers, threads, Privileged
<1>2. CASE SpawnH3
  <2>1. Types'
    BY <1>1, <1>2 DEF SpawnH3, Continues, Moves, Types, Mains, Places
  <2>2. Listening'
    BY <1>1, <1>2 DEF SpawnH3, Continues, Moves, Types, Listening
  <2>3. Counting'
    BY <1>1, <1>2 DEF SpawnH3, Continues, Moves, Types, Listening, Counting, Signalled
  <2>4. Waiting' /\ Dropping'
    BY <1>1, <1>2 DEF SpawnH3, Continues, Waiting, Dropping, Expected, Initial
  <2> QED BY <2>1, <2>2, <2>3, <2>4
<1>3. CASE SpawnTcp
  <2>1. Types'
    BY <1>1, <1>3 DEF SpawnTcp, Continues, Moves, Types, Mains, Places
  <2>2. Listening'
    BY <1>1, <1>3 DEF SpawnTcp, Continues, Moves, Types, Listening
  <2>3. Counting'
    BY <1>1, <1>3 DEF SpawnTcp, Continues, Moves, Types, Listening, Counting, Signalled
  <2>4. Waiting' /\ Dropping'
    BY <1>1, <1>3 DEF SpawnTcp, Continues, Waiting, Dropping, Expected, Initial
  <2> QED BY <2>1, <2>2, <2>3, <2>4
<1>4. CASE SpawnWatcher
  <2>1. Types'
    BY <1>1, <1>4 DEF SpawnWatcher, Continues, Moves, Types, Mains, Places
  <2>2. Listening'
    BY <1>1, <1>4 DEF SpawnWatcher, Continues, Moves, Types, Listening
  <2>3. Counting'
    BY <1>1, <1>4 DEF SpawnWatcher, Continues, Moves, Types, Counting, Signalled
  <2>4. Waiting' /\ Dropping'
    BY <1>1, <1>4 DEF SpawnWatcher, Continues, Waiting, Dropping, Expected, Initial
  <2> QED BY <2>1, <2>2, <2>3, <2>4
<1>5. CASE InstallHandlers
  <2>1. at' = at
    BY <1>5 DEF InstallHandlers, threads
  <2>2. Types' /\ Listening'
    BY <1>1, <1>5, <2>1 DEF InstallHandlers, Continues, Types, Mains, Listening
  <2>3. Counting'
    BY <1>1, <2>1 DEF Counting, Signalled
  <2>4. Waiting' /\ Dropping'
    BY <1>1, <1>5 DEF InstallHandlers, Continues, Waiting, Dropping, Expected, Initial
  <2> QED BY <2>2, <2>3, <2>4
<1> QED BY <1>2, <1>3, <1>4, <1>5

LEMMA Waits == ASSUME IInv, WaitBound \/ LookAtThreads \/ AllBound PROVE IInv'
<1> USE DEF IInv
<1>1. UNCHANGED <<cfg, at, opened, cred>> /\ (Privileged' <=> Privileged)
  BY DEF WaitBound, LookAtThreads, AllBound, threads, Privileged
<1>2. main \in {"wait", "look"} /\ Privileged
  BY DEF WaitBound, LookAtThreads, AllBound, Waiting
<1>3. main' \in {"wait", "look", "refuse", "chroot"} /\ (main' = "chroot" => AllBound)
  BY DEF WaitBound, LookAtThreads, AllBound, Continues
<1>4. CASE WaitBound
  <2> mailbox' \in Nat /\ bound' \in Nat
    BY <1>4 DEF WaitBound, Types
  <2>1. Types'
    BY <1>1, <1>3 DEF Types, Mains
  <2>2. Listening'
    BY <1>1, <1>2, <1>3 DEF Listening
  <2>3. Counting'
    <3>1. \/ mailbox > 0 /\ bound' = bound + 1 /\ mailbox' = mailbox - 1
          \/ bound' = bound /\ mailbox' = mailbox
      BY <1>4 DEF WaitBound
    <3>2. mailbox \in Nat /\ bound \in Nat
      BY DEF Types
    <3>3. bound' + mailbox' = bound + mailbox
      <4>1. CASE bound' = bound + 1 /\ mailbox' = mailbox - 1
        <5>1. \A m, n \in Nat : (n + 1) + (m - 1) = n + m
          OBVIOUS
        <5> QED BY <3>2, <4>1, <5>1
      <4>2. CASE bound' = bound /\ mailbox' = mailbox
        BY <4>2
      <4> QED BY <3>1, <4>1, <4>2
    <3> QED BY <1>1, <3>3 DEF Counting, Signalled
  <2>4. main' # "chroot"
    BY <1>4 DEF WaitBound, Continues
  <2>5. Waiting' /\ Dropping'
    BY <1>1, <1>2, <1>3, <2>4 DEF Waiting, Dropping, Initial
  <2> QED BY <2>1, <2>2, <2>3, <2>5
<1>5. CASE LookAtThreads \/ AllBound
  <2>1. UNCHANGED <<mailbox, bound>>
    BY <1>5 DEF LookAtThreads, AllBound, threads
  <2>2. Types' /\ Listening'
    BY <1>1, <1>2, <1>3, <2>1 DEF Types, Mains, Listening
  <2>3. Counting'
    BY <1>1, <2>1 DEF Counting, Signalled
  <2>4. main' = "chroot" => bound >= Expected
    BY <1>3 DEF AllBound
  <2>5. Waiting' /\ Dropping'
    BY <1>1, <1>2, <1>3, <2>1, <2>4 DEF Waiting, Dropping, Initial, Expected
  <2> QED BY <2>2, <2>3, <2>5
<1> QED BY <1>4, <1>5

LEMMA Drops == ASSUME IInv, Drop PROVE IInv'
<1> USE DEF IInv, Calls, Ends, Continues, threads
<1>1. main \in {"chroot", "chdir", "setgroups", "setgid", "setuid", "verify"} /\ Privileged
  BY DEF Drop, Chroot, Chdir, SetGroups, SetGid, SetUid, VerifyDrop, Waiting
<1>2. UNCHANGED <<cfg, at, opened, mailbox, bound>> /\ (Privileged' <=> Privileged)
  BY DEF Drop, Chroot, Chdir, SetGroups, SetGid, SetUid, VerifyDrop, Privileged
<1>3. main' \in {"chroot", "chdir", "setgroups", "setgid", "setuid", "verify", "install"}
  BY <1>1 DEF Drop, Chroot, Chdir, SetGroups, SetGid, SetUid, VerifyDrop
<1>4. cfg.uid \in {"root", "user"} /\ (cfg.user # Unset => cfg.user \in {"root", "user"})
  BY DEF Types, Configs
<1>5. cred \in Credentials
  BY DEF Types
<1>6. cred' \in Credentials /\ Dropping'
  <2>1. CASE Chroot
    BY <1>1, <1>2, <1>5, <2>1 DEF Chroot, Credentials, Dropping, Initial
  <2>2. CASE Chdir
    BY <1>1, <1>2, <1>5, <2>2 DEF Chdir, Credentials, Dropping, Initial
  <2>3. CASE SetGroups
    BY <1>1, <1>2, <1>5, <2>3 DEF SetGroups, Credentials, Dropping, Initial
  <2>4. CASE SetGid
    BY <1>1, <1>2, <1>5, <2>4 DEF SetGid, Credentials, Dropping, Initial
  <2>5. CASE SetUid
    BY <1>1, <1>2, <1>4, <1>5, <2>5 DEF SetUid, Credentials, Dropping, Initial
  <2>6. CASE VerifyDrop
    BY <1>1, <1>2, <1>5, <2>6 DEF VerifyDrop, StillRootAfterDrop, Dropping, Initial
  <2> QED BY <2>1, <2>2, <2>3, <2>4, <2>5, <2>6 DEF Drop
<1> QED BY <1>1, <1>2, <1>3, <1>6, Passes DEF Mains

LEMMA NextIInv == ASSUME IInv, [StartupNext]_startupVars PROVE IInv'
<1>1. CASE Main
  <2>1. CASE BuildFails \/ RefuseToDrop \/ JoinAll
    BY <2>1, Aside DEF BuildFails, RefuseToDrop, JoinAll, Ends, threads
  <2>2. CASE SpawnH3 \/ SpawnTcp \/ SpawnWatcher \/ InstallHandlers
    BY <2>2, Spawns
  <2>3. CASE WaitBound \/ LookAtThreads \/ AllBound
    BY <2>3, Waits
  <2>4. CASE Drop
    BY <2>4, Drops
  <2> QED BY <1>1, <2>1, <2>2, <2>3, <2>4 DEF Main
<1>2. CASE Watcher
  BY <1>2, Aside
  DEF Watcher, WatchShutdown, WatchReload, ReadCert, ReadKey, Unwatched, threads
<1>3. CASE Renew
  BY <1>3, Aside DEF Renew, threads
<1>4. CASE \E t \in Servers : Listener(t)
  BY <1>4, ListenerStep
<1>5. CASE \E flag \in {"down", "reload"} : Signal(flag)
  BY <1>5, Aside DEF Signal, threads
<1>6. CASE UNCHANGED startupVars
  BY <1>6, Aside DEF startupVars, threads
<1> QED BY <1>1, <1>2, <1>3, <1>4, <1>5, <1>6 DEF StartupNext

LEMMA Invariant == StartupSpec => []IInv
BY InitIInv, NextIInv, PTL DEF StartupSpec

\* Privileges are given up only after the last listener is bound.
LEMMA BoundFirst == IInv => DropsAfterBinds
<1> SUFFICES ASSUME IInv, cred # Initial
             PROVE  {"tcp"} \cup (IF cfg.h3 THEN {"udp"} ELSE {})
                            \cup (IF cfg.http THEN {"redirect"} ELSE {}) \subseteq opened
  BY DEF DropsAfterBinds
<1>1. Privileged /\ bound >= Expected
  BY DEF IInv, Dropping, Waiting
<1>2. bound + mailbox = Signalled("tcp") + Signalled("udp") /\ mailbox \in Nat /\ bound \in Nat
  BY <1>1 DEF IInv, Types, Counting
<1>3. Signalled("tcp") \in {0, 1} /\ Signalled("udp") \in {0, 1}
  BY DEF Signalled
<1> USE DEF IInv
<1>4. \A t \in Servers : Signalled(t) = 1 => at[t] \in {"serve", "drain", "failed", "done"}
  BY DEF Signalled
<1>5. CASE cfg.h3
  <2>1. Signalled("tcp") = 1 /\ Signalled("udp") = 1
    BY <1>1, <1>2, <1>3, <1>5 DEF Expected
  <2>2. "tcp" \in opened /\ "udp" \in opened /\ (cfg.http => "redirect" \in opened)
    BY <1>4, <2>1 DEF Listening
  <2>3. CASE cfg.http
    BY <1>5, <2>2, <2>3
  <2>4. CASE ~cfg.http
    BY <1>5, <2>2, <2>4
  <2> QED BY <2>3, <2>4
<1>6. CASE ~cfg.h3
  <2>1. Signalled("udp") = 0
    BY <1>6 DEF Listening, Signalled
  <2>2. Signalled("tcp") = 1
    BY <1>1, <1>2, <1>3, <1>6, <2>1 DEF Expected
  <2>3. "tcp" \in opened /\ (cfg.http => "redirect" \in opened)
    BY <1>4, <2>2 DEF Listening
  <2>4. CASE cfg.http
    BY <1>6, <2>3, <2>4
  <2>5. CASE ~cfg.http
    BY <1>6, <2>3, <2>5
  <2> QED BY <2>4, <2>5
<1> QED BY <1>5, <1>6

\* No process gives up a privilege while a listener it was asked for is unbound
\* (bin/httpsd.rs, run_with_privdrop), for any interleaving of threads and failures.
THEOREM PrivilegesLast == StartupSpec => []DropsAfterBinds
BY Invariant, BoundFirst, PTL

\* A process that goes on after the drop has exactly what was asked for
\* (privdrop.rs, PrivDrop::apply), whichever of the calls may fail.
THEOREM DroppedAsAsked == StartupSpec => []Dropped
<1>1. IInv => Dropped
  BY DEF IInv, Dropping, Dropped
<1> QED BY <1>1, Invariant, PTL

\* What has begun: a thread that was spawned is somewhere, and one that has ended
\* stays so.
Begun ==
    /\ Privileged /\ main \notin {"spawn h3", "spawn tcp"} => at["tcp"] # "off"
    /\ cfg.h3 /\ main # "spawn h3" => at["udp"] # "off"

RInv == Begun /\ RefusedForCause

LEMMA InitRInv == StartupInit => RInv
BY StartupAssumption DEF StartupInit, RInv, Begun, RefusedForCause, Privileged

\* Nobody has a sender left and the channel is empty, and not all have signalled.
LEMMA OneHasFailed ==
    ASSUME IInv, Begun, main = "wait", bound < Expected, Disconnected(mailbox)
    PROVE  \E t \in {"tcp", "udp"} : Finished(t)
<1> SUFFICES ASSUME ~Finished("tcp"), ~Finished("udp") PROVE FALSE
  OBVIOUS
<1>1. Privileged /\ mailbox = 0
  BY DEF IInv, Waiting, Disconnected
<1>2. at["tcp"] \in {"serve", "drain"} /\ (cfg.h3 => at["udp"] = "serve")
  BY <1>1 DEF Finished, Disconnected, Senders, IInv, Types, Places, Listening, Begun
<1>3. Signalled("tcp") = 1 /\ (cfg.h3 => Signalled("udp") = 1) /\ Signalled("udp") \in {0, 1}
  BY <1>2 DEF Signalled
<1>4. bound = Signalled("tcp") + Signalled("udp") /\ bound \in Nat
  BY <1>1, <1>3 DEF IInv, Types, Counting
<1> QED BY <1>3, <1>4 DEF Expected

LEMMA NextRInv == ASSUME IInv, RInv, [StartupNext]_startupVars PROVE RInv'
<1> USE DEF RInv
<1>1. CASE Main
  <2>1. Begun'
    <3>1. CASE SpawnH3
      BY <3>1 DEF IInv, Types, SpawnH3, Moves, Continues, Begun, Privileged
    <3>2. CASE SpawnTcp \/ SpawnWatcher
      BY <3>2 DEF IInv, Types, SpawnTcp, SpawnWatcher, Moves, Continues, Begun, Privileged
    <3>3. CASE ~SpawnH3 /\ ~SpawnTcp /\ ~SpawnWatcher
      <4>1. \/ UNCHANGED <<cfg, at>> /\ main \notin {"spawn h3", "spawn tcp"}
            \/ BuildFails
        BY <1>1, <3>3 DEF Main, Drop, BuildFails, WaitBound, LookAtThreads, RefuseToDrop,
           AllBound, Chroot, Chdir, SetGroups, SetGid, SetUid, VerifyDrop, Calls,
           InstallHandlers, JoinAll, threads
      <4> QED BY <4>1 DEF Begun, BuildFails, Ends, threads, Privileged
    <3> QED BY <3>1, <3>2, <3>3
  <2>2. RefusedForCause'
    <3>1. exit' = "refused" \/ main' = "refuse" => \E t \in {"tcp", "udp"} : Finished(t)
      <4>1. CASE WaitBound
        BY <4>1, OneHasFailed DEF WaitBound, Continues, RefusedForCause, Running
      <4>2. CASE LookAtThreads
        BY <4>2 DEF LookAtThreads, Continues, RefusedForCause
      <4>3. CASE RefuseToDrop
        BY <4>3 DEF RefuseToDrop, RefusedForCause
      <4>4. CASE Drop
        BY <4>4, StartupAssumption DEF Drop, Chroot, Chdir, SetGroups, SetGid, SetUid,
           VerifyDrop, Calls, Continues, Ends, RefusedForCause, Running
      <4>5. CASE BuildFails \/ JoinAll
        BY <4>5 DEF BuildFails, JoinAll, Ends, RefusedForCause
      <4>6. CASE SpawnH3 \/ SpawnTcp \/ AllBound \/ InstallHandlers \/ SpawnWatcher
        BY <4>6 DEF SpawnH3, SpawnTcp, AllBound, InstallHandlers, SpawnWatcher, Continues,
           RefusedForCause
      <4> QED BY <1>1, <4>1, <4>2, <4>3, <4>4, <4>5, <4>6 DEF Main
    <3>2. ASSUME NEW t \in {"tcp", "udp"}, Finished(t) PROVE Finished(t)' \/ main' = "join"
      <4>1. CASE SpawnH3
        BY <3>2, <4>1 DEF IInv, Types, Listening, Finished, SpawnH3, Moves
      <4>2. CASE SpawnTcp
        BY <3>2, <4>2 DEF IInv, Types, Listening, Finished, SpawnTcp, Moves
      <4>3. CASE SpawnWatcher
        BY <4>3 DEF SpawnWatcher, Continues
      <4>4. CASE ~SpawnH3 /\ ~SpawnTcp /\ ~SpawnWatcher
        <5>1. at' = at
          BY <1>1, <4>4 DEF Main, Drop, BuildFails, WaitBound, LookAtThreads, RefuseToDrop,
             AllBound, Chroot, Chdir, SetGroups, SetGid, SetUid, VerifyDrop, Calls,
             InstallHandlers, JoinAll, threads
        <5> QED BY <3>2, <5>1 DEF Finished
      <4> QED BY <4>1, <4>2, <4>3, <4>4
    <3>3. main' = "join" => exit' # "refused"
      BY <1>1, StartupAssumption DEF Main, Drop, BuildFails, WaitBound, LookAtThreads,
         RefuseToDrop, AllBound, Chroot, Chdir, SetGroups, SetGid, SetUid, VerifyDrop, Calls,
         InstallHandlers, JoinAll, SpawnH3, SpawnTcp, SpawnWatcher, Continues, Ends, Running
    <3> QED BY <3>1, <3>2, <3>3 DEF RefusedForCause
  <2> QED BY <2>1, <2>2
<1>2. CASE \E t \in Servers : Listener(t)
  <2>1. PICK t \in Servers : Listener(t)
    BY <1>2
  <2>2. UNCHANGED <<cfg, main, exit>>
    BY <2>1 DEF Listener, Bind, Ready, Stop, Drained, PollFails, BindRedirect
  <2>3. \A u \in {"tcp", "udp"} : /\ at[u] # "off" => at'[u] # "off"
                                  /\ Finished(u) => Finished(u)'
    BY <2>1 DEF IInv, Types, Listener, Bind, Ready, Stop, Drained, PollFails, BindRedirect, Moves,
       Finished
  <2> QED BY <2>2, <2>3 DEF Begun, RefusedForCause, Privileged
<1>3. CASE Watcher \/ Renew
  BY <1>3 DEF Watcher, WatchShutdown, WatchReload, ReadCert, ReadKey, Unwatched, Renew,
     threads, Begun, RefusedForCause, Privileged, Finished
<1>4. CASE \E flag \in {"down", "reload"} : Signal(flag)
  BY <1>4 DEF Signal, threads, Begun, RefusedForCause, Privileged, Finished
<1>5. CASE UNCHANGED startupVars
  BY <1>5 DEF startupVars, threads, Begun, RefusedForCause, Privileged, Finished
<1> QED BY <1>1, <1>2, <1>3, <1>4, <1>5 DEF StartupNext

\* The drop is refused only when a server has failed or ended (bin/httpsd.rs:739-760),
\* however signals, timeouts of the wait and the ends of the threads interleave.
THEOREM RefusalsJustified == StartupSpec => []RefusedForCause
<1>1. StartupInit => IInv /\ RInv
  BY InitIInv, InitRInv
<1>2. IInv /\ RInv /\ [StartupNext]_startupVars => (IInv /\ RInv)'
  BY NextIInv, NextRInv
<1>3. RInv => RefusedForCause
  BY DEF RInv
<1> QED BY <1>1, <1>2, <1>3, PTL DEF StartupSpec

================================================================================
