------------------------------ MODULE MCThreadPool ------------------------------
(* A pool of two workers behind a queue of one, and few enough connections and *)
(* addresses that every limit is met.                                        *)
EXTENDS ThreadPool, TLC

\* Connections, workers and addresses are interchangeable; sound for the runs
\* without liveness.
MCSymmetry == Permutations(Conns) \cup Permutations(Workers) \cup Permutations(Peers)
=================================================================================
