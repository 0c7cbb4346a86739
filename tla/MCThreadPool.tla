---------------------------- MODULE MCThreadPool ----------------------------
(* Small pools for TLC: two or three workers, two or three jobs.           *)
EXTENDS ThreadPool, TLC

\* Workers are interchangeable; sound for the safety runs, which use no liveness.
WorkerSymmetry == Permutations(Workers) \cup Permutations(Jobs)
=============================================================================
