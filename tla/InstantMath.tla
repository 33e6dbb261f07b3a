---------------------------- MODULE InstantMath ----------------------------
(***************************************************************************)
(* Time arithmetic of idempotency-runtime-core and auth-refresh-core.      *)
(*                                                                         *)
(* A std::time::Instant and a Duration are both counted in ticks of one    *)
(* nanosecond.  An Instant has a largest representable value, MaxInstant;  *)
(* a Duration may be larger than that.  Second is the number of ticks in a *)
(* second, kept small by the model-checking configurations.                *)
(***************************************************************************)
EXTENDS Integers

CONSTANTS MaxInstant,  \* the largest representable Instant
          Second       \* ticks in one second

ASSUME InstantAssumption == /\ MaxInstant \in Nat
                            /\ Second \in Nat \ {0}

Instants == 0..MaxInstant

(***************************************************************************)
(* A zero TTL stands for one second.                                       *)
(***************************************************************************)
ttl_duration(ttl) == IF ttl = 0 THEN Second ELSE ttl

(***************************************************************************)
(* instant_saturating_add halves the duration until now.checked_add        *)
(* succeeds, and gives up with now itself when the duration reaches zero.  *)
(* What the loop returns is therefore the latest Instant of the form       *)
(* now + duration \div 2^k.  k needs no larger bound than the duration,    *)
(* whose 2^duration-th part is already zero.                               *)
(***************************************************************************)
HalvedEnds(now, duration) ==
  {end \in now..MaxInstant :
     \E k \in 0..duration : end = now + (duration \div (2^k))}

Latest(ends) == CHOOSE e \in ends : \A other \in ends : other <= e

instant_saturating_add(now, duration) ==
  IF HalvedEnds(now, duration) = {} THEN now ELSE Latest(HalvedEnds(now, duration))

(* Mutant of expires_at: an addition that does not saturate. *)
unsaturated_expiry(now, ttl) == now + ttl_duration(ttl)

(***************************************************************************)
(* The in-memory stores turn a TTL into a deadline in one go.              *)
(***************************************************************************)
expires_at(now, ttl) == instant_saturating_add(now, ttl_duration(ttl))

(***************************************************************************)
(* Redis takes whole seconds: a TTL is rounded up, and is at least one.    *)
(***************************************************************************)
ttl_secs_ceil(ttl) ==
  LET ticks == ttl_duration(ttl) IN
  (ticks \div Second) + (IF ticks % Second # 0 THEN 1 ELSE 0)
=============================================================================
