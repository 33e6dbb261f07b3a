------------------------- MODULE IdempotencyClaims -------------------------
(***************************************************************************)
(* What an idempotency store promises, whichever backend holds the keys.   *)
(*                                                                         *)
(* A key is absent, or holds one claim that ends at a known time: a marker *)
(* set by set_once, pending work claimed by claim_pending, or completed    *)
(* work.  A caller that was answered "Fresh" or true holds a grant on the  *)
(* key until the claim ends or somebody completes or deletes the key: the  *)
(* API hands out no token, so the store cannot tell who that is.           *)
(***************************************************************************)
EXTENDS Integers

CONSTANTS Keys, Callers,
          MaxTime,      \* the clock stops here
          MaxExpiry     \* no claim ends later

VARIABLES clock, claims, grants

claimsVars == <<clock, claims, grants>>

Absent == [state |-> "absent", expires_at |-> 0]
Grant  == [caller : Callers, expires_at : 1..MaxExpiry]
Claim  == [state : {"marker", "pending", "completed"}, expires_at : 1..MaxExpiry]

ClaimsInit == /\ clock = 0
              /\ claims = [k \in Keys |-> Absent]
              /\ grants = [k \in Keys |-> {}]

(* A claim of kind s that ends at e, as seen at the present time. *)
ClaimUntil(s, e) == IF e > clock THEN [state |-> s, expires_at |-> e] ELSE Absent

(* One caller gets the key, and only if nobody has it. *)
GrantKey(c, k, s, e) ==
  /\ claims[k] = Absent
  /\ e > clock
  /\ claims' = [claims EXCEPT ![k] = ClaimUntil(s, e)]
  /\ grants' = [grants EXCEPT ![k] = {[caller |-> c, expires_at |-> e]}]
  /\ UNCHANGED clock

(* The key reads as completed from now on, whatever it was before. *)
CompleteKey(k, e) ==
  /\ claims' = [claims EXCEPT ![k] = ClaimUntil("completed", e)]
  /\ grants' = [grants EXCEPT ![k] = {}]
  /\ UNCHANGED clock

ReleaseKey(k) ==
  /\ claims' = [claims EXCEPT ![k] = Absent]
  /\ grants' = [grants EXCEPT ![k] = {}]
  /\ UNCHANGED clock

(* Time passes; a claim and the grant on it end together. *)
Expire ==
  /\ clock < MaxTime
  /\ clock' = clock + 1
  /\ claims' = [k \in Keys |-> IF claims[k].expires_at > clock' THEN claims[k] ELSE Absent]
  /\ grants' = [k \in Keys |-> {g \in grants[k] : g.expires_at > clock'}]

ClaimsNext ==
  \/ \E c \in Callers, k \in Keys, s \in {"marker", "pending"}, e \in 1..MaxExpiry :
       GrantKey(c, k, s, e)
  \/ \E k \in Keys, e \in 0..MaxExpiry : CompleteKey(k, e)
  \/ \E k \in Keys : ReleaseKey(k)
  \/ Expire

ClaimsSpec == ClaimsInit /\ [][ClaimsNext]_claimsVars

-----------------------------------------------------------------------------
(***************************************************************************)
(* Two callers never hold the same key at the same time, and a grant is    *)
(* always backed by the claim it was given for: "This caller created the   *)
(* pending claim and may perform the work" (WorkClaim::Fresh).             *)
(***************************************************************************)
Exclusive ==
  \A k \in Keys : \A g \in grants[k] :
    /\ \A h \in grants[k] : h = g
    /\ claims[k].state \in {"marker", "pending"}
    /\ claims[k].expires_at = g.expires_at
=============================================================================
