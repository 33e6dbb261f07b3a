----------------------------- MODULE WorldTime -----------------------------
(***************************************************************************)
(* Times, leases and retry policies of world-clock-core, world-cycle-core  *)
(* and delivery-core: the pure functions that the models of workers and    *)
(* deliveries share.                                                       *)
(*                                                                         *)
(* A Duration is counted in ticks, Second of which make a second, a store  *)
(* keeps Unix seconds in an i64.  Nothing in these crates wraps around:    *)
(* every sum and difference saturates.                                     *)
(***************************************************************************)
EXTENDS InstantMath

CONSTANTS None,       \* Option::None
          MaxI64,     \* i64::MAX; i64::MIN is one further below zero
          MaxCount    \* u32::MAX, where attempt counters saturate

ASSUME WorldTimeAssumption == /\ MaxI64 \in Nat \ {0} /\ MaxCount \in Nat \ {0}
                             /\ None \notin Int

i64(n) == IF n > MaxI64 THEN MaxI64 ELSE IF n < -MaxI64 - 1 THEN -MaxI64 - 1 ELSE n

(* A part of a second counts as one. *)
duration_to_i64_seconds(d) == i64((d \div Second) + (IF d % Second # 0 THEN 1 ELSE 0))

-----------------------------------------------------------------------------
(* Leases: a lease without an owner, or without an expiry, is not active.  *)
(***************************************************************************)
(* The state of a lease as products store it.                              *)
(***************************************************************************)
LeaseState(Owners) == [owner_id : Owners \cup {None}, expires_at : Int \cup {None}]

NoLease == [owner_id |-> None, expires_at |-> None]

lease_expiry_is_active(at, now) == at # None /\ at > now

is_active(lease, now) == lease.owner_id # None /\ lease_expiry_is_active(lease.expires_at, now)

is_active_for(lease, owner, now) ==
  lease.owner_id = owner /\ lease_expiry_is_active(lease.expires_at, now)

(* Mutant of claimable_by: whoever does not hold the lease may take it. *)
claimable_by_others(lease, owner, now) == ~is_active_for(lease, owner, now)

claimable_by(lease, owner, now) == ~is_active(lease, now) \/ lease.owner_id = owner

finalizing_lease_is_active(finalizing, at, now) == finalizing /\ lease_expiry_is_active(at, now)

(* LeasePolicy::new refuses a zero TTL. *)
valid_ttl(ttl) == ttl > 0

(* At least one second, so that a short lease is a lease. *)
ttl_seconds(ttl) ==
  LET seconds == duration_to_i64_seconds(ttl) IN IF seconds > 1 THEN seconds ELSE 1

lease_expires_at(now, ttl) == i64(now + ttl_seconds(ttl))

-----------------------------------------------------------------------------
(* Cadences and cutoffs.                                                   *)
next_due_after(last_due, cadence) == instant_saturating_add(last_due, cadence)

is_due(last_due, cadence, now) == now >= next_due_after(last_due, cadence)

stale_cutoff_unix_seconds(now, grace) == i64(now - duration_to_i64_seconds(grace))

(* Mutant of retention_cutoff_cycle: it counts the completed cycle twice. *)
retention_cutoff_late(completed, keep) == i64(completed - (keep - 2))

(* The oldest of keep cycles that end with completed. *)
retention_cutoff_cycle(completed, keep) == i64(completed - i64(keep - 1))

-----------------------------------------------------------------------------
(* Attempts and backoff.                                                   *)
(***************************************************************************)
(* What both backoff policies are made of, and when new accepts it.        *)
(***************************************************************************)
valid_backoff(p) == p.initial > 0 /\ p.max > 0 /\ p.multiplier > 0 /\ p.max >= p.initial

(* Attempts are counted from one, completed attempts from zero. *)
attempt_from_completed_count(completed) == IF completed < MaxCount THEN completed + 1 ELSE MaxCount

(* A database field is signed; a negative count is no count. *)
attempt_from_completed_count_i32(completed) ==
  IF completed < 0 THEN None ELSE attempt_from_completed_count(completed)

(* The delay after `rounds` multiplications, capped. *)
capped_power(p, rounds) ==
  LET delay == p.initial * p.multiplier^rounds IN IF delay < p.max THEN delay ELSE p.max

delay_for_attempt_index(p, index) == capped_power(p, index)

delay_for_attempt(p, attempt) == capped_power(p, IF attempt = 0 THEN 0 ELSE attempt - 1)

delay_for_completed_attempts(p, completed) ==
  delay_for_attempt(p, attempt_from_completed_count(completed))

attempts_exhausted(max_attempts, attempts) == attempts >= max_attempts
=============================================================================
