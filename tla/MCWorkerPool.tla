---------------------------- MODULE MCWorkerPool ----------------------------
(* The worker pool with interchangeable workers, for the safety run. *)
EXTENDS WorkerPool, TLC

Workers == Permutations(Worker)
=============================================================================
