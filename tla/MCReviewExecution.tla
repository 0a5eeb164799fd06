-------------------------- MODULE MCReviewExecution --------------------------
(* ReviewExecution for TLC: the workers of one kind are interchangeable. *)
EXTENDS ReviewExecution, TLC

WorkerSymmetry == Permutations(DeliveryWorkers) \cup Permutations(ExecutionWorkers)
=============================================================================
