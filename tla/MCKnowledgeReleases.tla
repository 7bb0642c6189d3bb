------------------------- MODULE MCKnowledgeReleases -------------------------
(* TLC instances of the releases of a knowledge base. *)
EXTENDS KnowledgeReleases, TLC

ReleaseSymmetry == Permutations(Releases) \cup Permutations(Calls) \cup Permutations(Runs)

=============================================================================
