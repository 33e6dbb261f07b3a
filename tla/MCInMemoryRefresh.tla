-------------------------- MODULE MCInMemoryRefresh --------------------------
(***************************************************************************)
(* Bounds for InMemoryRefresh.  One session and three tokens make a chain  *)
(* of rotations with replays of every earlier token; two sessions let the  *)
(* successor of one be in use for the other.                               *)
(***************************************************************************)
EXTENDS InMemoryRefresh, TLC

Symmetry == Permutations(Tokens) \cup Permutations(Callers) \cup Permutations(Ids)
              \cup Permutations(Stamps)
=============================================================================
