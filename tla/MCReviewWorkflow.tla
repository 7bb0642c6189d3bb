-------------------------- MODULE MCReviewWorkflow --------------------------
(* TLC instances of the review workflow. *)
EXTENDS ReviewWorkflow, TLC

\* Requests are interchangeable, and no run of this module checks liveness.
RequestSymmetry == Permutations(Requests)
=============================================================================
