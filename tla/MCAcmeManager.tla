----------------------------- MODULE MCAcmeManager -----------------------------
(* A few connection threads, the QUIC thread and one or two hosts, with limits *)
(* small enough to be met.                                                    *)
EXTENDS AcmeManager, TLC

\* Threads are interchangeable, and so are hosts and lock identities; sound for
\* the runs without liveness.
MCSymmetry == Permutations(Threads) \cup Permutations(Hosts) \cup Permutations(Locks)

\* Bound: with a reload the clock stands and the QUIC thread rests.
ReloadAlone == epoch > 0 => clock = 0 /\ quic = QuicIdle
=================================================================================
