--------------------------- MODULE MCIngestionJobs ---------------------------
(* TLC instances of the job lifecycle. *)
EXTENDS IngestionJobs, TLC

PodRequestSymmetry == Permutations(Pods) \cup Permutations(Requests)
=============================================================================
