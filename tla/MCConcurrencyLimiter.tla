------------------------ MODULE MCConcurrencyLimiter ------------------------
(* TLC instances of the per-tenant limiter. *)
EXTENDS ConcurrencyLimiter, TLC

HandlerSymmetry == Permutations(Handlers)
=============================================================================
