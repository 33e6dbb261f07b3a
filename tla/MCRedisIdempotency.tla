------------------------- MODULE MCRedisIdempotency -------------------------
(***************************************************************************)
(* Bounds for RedisIdempotency: enough connections for two callers to dial *)
(* at once, and pipes deep enough for an abandoned command and its retry.  *)
(***************************************************************************)
EXTENDS RedisIdempotency, TLC

CONSTANTS k1    \* the one key everybody contends for

MCKeys == {k1}
MCTTLs == {1}
ContendingOps == {"claim_pending", "delete"}
AllOps == {"ping", "set_once", "claim_pending", "mark_completed", "delete", "exists"}

ContendingCommands == [op : ContendingOps, key : MCKeys, ttl : MCTTLs, by : Callers]
AllCommands == [op : AllOps, key : MCKeys, ttl : MCTTLs, by : Callers]
ClaimCommands == [op : {"claim_pending"}, key : MCKeys, ttl : MCTTLs, by : Callers]

Symmetry == Permutations(Callers) \cup Permutations(Conns)
=============================================================================
