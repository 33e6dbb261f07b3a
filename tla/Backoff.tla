------------------------------ MODULE Backoff ------------------------------
(***************************************************************************)
(* The loop that computes a retry delay, the same in RetryBackoffPolicy    *)
(* (world-cycle-core, attempts from zero) and in BackoffPolicy (delivery-  *)
(* core, attempts from one): multiply, cap, and stop when nothing moves.   *)
(* WorldTime's capped_power is what it stands for.                         *)
(***************************************************************************)
EXTENDS WorldTime

CONSTANTS MaxDelay,    \* Duration::MAX
          Policies,       \* what the constructors are called with
          Attempts        \* attempt numbers, and counts as a database may hold them

ASSUME BackoffAssumption ==
  /\ MaxDelay \in Nat \ {0}
  /\ Policies \subseteq [initial : 0..MaxDelay, max : 0..MaxDelay, multiplier : 0..MaxCount]
  /\ Attempts \subseteq Int

VARIABLES policy, call,   \* the arguments
          rounds,         \* multiplications done
          delay,
          loop            \* "new", "running", "done", or why there is no delay

backoffVars == <<policy, call, rounds, delay, loop>>

(* The ways to ask for a delay. *)
Calls == [by : {"index", "attempt", "completed", "signed"}, n : Attempts]

IsCall(c) == c.n >= 0 \/ c.by = "signed"

(* How often the loop would run, were it never to stop early. *)
Wanted ==
  CASE call.by = "index" -> call.n
    [] call.by = "attempt" -> IF call.n = 0 THEN 0 ELSE call.n - 1
    [] OTHER -> attempt_from_completed_count(call.n) - 1

BackoffTypeOK ==
  /\ policy \in Policies
  /\ call \in Calls
  /\ rounds \in Nat
  /\ delay \in 0..MaxDelay
  /\ loop \in {"new", "running", "done", "InvalidBackoff", "InvalidCount"}

BackoffInit ==
  /\ policy \in Policies
  /\ call \in {c \in Calls : IsCall(c)}
  /\ rounds = 0 /\ delay = 0 /\ loop = "new"

(* The constructor, and the check of a signed count. *)
NewPolicy ==
  /\ loop = "new"
  /\ loop' = CASE ~valid_backoff(policy) -> "InvalidBackoff"
               [] /\ valid_backoff(policy) /\ call.by = "signed"
                  /\ attempt_from_completed_count_i32(call.n) = None -> "InvalidCount"
               [] OTHER -> "running"
  /\ delay' = IF loop' = "running" THEN policy.initial ELSE 0
  /\ UNCHANGED <<policy, call, rounds>>

saturating_mul(d, n) == IF d * n < MaxDelay THEN d * n ELSE MaxDelay

(* Mutant of NextDelay: the cap is forgotten. *)
UncappedDelay == saturating_mul(delay, policy.multiplier)

NextDelay ==
  LET next == saturating_mul(delay, policy.multiplier)
  IN IF next < policy.max THEN next ELSE policy.max

Multiply ==
  /\ loop = "running" /\ rounds < Wanted /\ NextDelay # delay
  /\ delay' = NextDelay /\ rounds' = rounds + 1
  /\ UNCHANGED <<policy, call, loop>>

(* The break: more rounds would not change the delay. *)
Settle ==
  /\ loop = "running" /\ rounds < Wanted /\ NextDelay = delay
  /\ loop' = "done"
  /\ UNCHANGED <<policy, call, rounds, delay>>

Return ==
  /\ loop = "running" /\ rounds = Wanted
  /\ loop' = "done"
  /\ UNCHANGED <<policy, call, rounds, delay>>

BackoffNext == NewPolicy \/ Multiply \/ Settle \/ Return

BackoffSpec == BackoffInit /\ [][BackoffNext]_backoffVars

-----------------------------------------------------------------------------
(***************************************************************************)
(* Whichever way a delay is asked for, it is the initial delay times the   *)
(* multiplier to the power of the earlier attempts, up to the cap, whether *)
(* the loop ran through or stopped early: delays never shrink from one     *)
(* attempt to the next, and a first attempt waits for the initial delay.   *)
(***************************************************************************)
DelayIsCappedPower ==
  loop = "done" =>
    delay = (CASE call.by = "index" -> delay_for_attempt_index(policy, call.n)
               [] call.by = "attempt" -> delay_for_attempt(policy, call.n)
               [] OTHER -> delay_for_completed_attempts(policy, call.n))

(***************************************************************************)
(* Every round but the last makes the delay longer: an attempt counter of  *)
(* u64::MAX costs no more rounds than lie between the initial delay and    *)
(* the cap, and none at all with a multiplier of one.                      *)
(***************************************************************************)
LoopIsShort ==
  loop \in {"running", "done"} => /\ policy.initial + rounds <= delay
                                  /\ delay <= policy.max
=============================================================================
