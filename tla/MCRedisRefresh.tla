--------------------------- MODULE MCRedisRefresh ---------------------------
(***************************************************************************)
(* Bounds for RedisRefresh: one session that is opened, rotated to either  *)
(* of two successors, looked up and logged out.                            *)
(***************************************************************************)
EXTENDS RedisRefresh, TLC

CONSTANTS t1, t2, t3, s1, v1, v2

S(v) == [id |-> s1, stamp |-> v]

Login == [op |-> "set", token |-> t1, session |-> S(v1), ttl |-> 1]
Refresh == [op |-> "rotate", old |-> t1, new |-> t2, current |-> S(v1), next |-> S(v2), ttl |-> 1]
Again == [op |-> "rotate", old |-> t1, new |-> t3, current |-> S(v1), next |-> S(v2), ttl |-> 1]
Logout == [op |-> "delete", token |-> t1]
Lookup == [op |-> "get", token |-> t2]

MCTTLs == {1}
MCMinted == t1 :> 1 @@ t2 :> 2 @@ t3 :> 3
RacingCommands == {Login, Refresh, Again, Logout, Lookup}
TwoCommands == {Login, Refresh}

Symmetry == Permutations(Callers) \cup Permutations(Conns)
=============================================================================
