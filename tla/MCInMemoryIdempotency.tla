----------------------- MODULE MCInMemoryIdempotency -----------------------
(***************************************************************************)
(* Bounds for InMemoryIdempotency.  A second is two ticks, so a zero TTL   *)
(* and a TTL of one tick differ; a TTL of seven overflows MaxInstant and   *)
(* is halved.                                                              *)
(***************************************************************************)
EXTENDS InMemoryIdempotency, TLC

Symmetry == Permutations(Keys) \cup Permutations(Callers)
=============================================================================
