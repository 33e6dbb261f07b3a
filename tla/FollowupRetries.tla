-------------------------- MODULE FollowupRetries --------------------------
(***************************************************************************)
(* Follow-up work that a finalized cycle leaves behind: rows that workers  *)
(* lease, run, and retry with a growing delay until they succeed or are    *)
(* exhausted.  Statuses, policy and leases are world-cycle-core's; the     *)
(* table is the product's, external, as docs/rfcs/                         *)
(* world-followup-sqlx-phase-7.md describes it.                            *)
(*                                                                         *)
(* Times are relative to the present, as in CycleLeases.                   *)
(***************************************************************************)
EXTENDS WorldTime

CONSTANTS Runners,
          Followups,
          RetryPolicy,    \* initial, max and multiplier of its backoff
          max_attempts,
          RunTTL,         \* duration of a runner's lease
          RunLag,         \* bound: how old a clock reading may be, in seconds
          RunFaults       \* bound: crashes and overruns

(* A delay is a Duration; that a power of a number is one is said here for *)
(* the provers, which know nothing of exponents.                           *)
ASSUME FollowupAssumption ==
  /\ RetryPolicy \in [initial : Nat, max : Nat, multiplier : Nat] /\ valid_backoff(RetryPolicy)
  /\ max_attempts \in Nat \ {0} /\ RunTTL \in Nat /\ valid_ttl(RunTTL)
  /\ \A rounds \in 0..max_attempts : capped_power(RetryPolicy, rounds) \in Nat
  /\ RunLag \in Nat /\ RunFaults \in Nat
  /\ None \notin Runners \cup Followups

VARIABLES followups,    \* the table
          rested,       \* history: seconds since a follow-up last failed
          running,      \* per runner, the follow-up it runs
          run_faults

followupVars == <<followups, rested, running, run_faults>>

-----------------------------------------------------------------------------
FollowupLabels == {"pending", "running", "complete", "exhausted"}

followup_status_from_str(label) ==
  CASE label \in {"complete", "completed"} -> "complete"
    [] label \in FollowupLabels \ {"complete"} -> label
    [] OTHER -> "UnknownStatus"

followup_is_terminal(status) == status \in {"complete", "exhausted"}

should_delay_retry(status) == status = "pending"

allows_lease(status) == ~followup_is_terminal(status)

retry_exhausted(attempts) == attempts_exhausted(max_attempts, attempts)

(* Mutant of delay_for_attempts: every attempt waits for the first delay. *)
delay_for_first_attempt(attempts) == delay_for_attempt_index(RetryPolicy, 0)

delay_for_attempts(attempts) == delay_for_attempt_index(RetryPolicy, attempts)

-----------------------------------------------------------------------------
(* As far back, and forth, as times are told apart. *)
RunReadings == -RunLag..0
LongPast == -RunLag - 1
MaxRested == duration_to_i64_seconds(RetryPolicy.max) + 1

FollowupTypeOK ==
  /\ followups \in [Followups -> [status : FollowupLabels, attempts : 0..max_attempts,
                                  next_at : Int \cup {None}, lease : LeaseState(Runners)]]
  /\ rested \in [Followups -> 0..MaxRested]
  /\ running \in [Runners -> Followups \cup {None}]
  /\ run_faults \in 0..RunFaults

FollowupInit ==
  /\ followups = [f \in Followups |->
       [status |-> "pending", attempts |-> 0, next_at |-> 0, lease |-> NoLease]]
  /\ rested = [f \in Followups |-> MaxRested]
  /\ running = [r \in Runners |-> None]
  /\ run_faults = 0

FollowupStatus(f) == followup_status_from_str(followups[f].status)

(* What a row becomes that is recorded in this status: only some statuses  *)
(* keep a delay or may carry a lease.                                      *)
Recorded(row, status, lease, now) ==
  [status |-> status,
   attempts |-> row.attempts,
   next_at |-> IF should_delay_retry(status)
                 THEN i64(now + duration_to_i64_seconds(delay_for_attempts(row.attempts - 1)))
                 ELSE None,
   lease |-> IF allows_lease(status) THEN lease ELSE NoLease]

Due(f, now) ==
  \/ FollowupStatus(f) = "pending" /\ followups[f].next_at <= now
  \/ FollowupStatus(f) = "running"

(* claim_due: a row that is due, or whose runner's lease has ended. *)
ClaimFollowup(r, f, now) ==
  /\ running[r] = None
  /\ Due(f, now) /\ claimable_by(followups[f].lease, r, now)
  /\ followups' = [followups EXCEPT ![f] =
       Recorded(@, "running", [owner_id |-> r, expires_at |-> lease_expires_at(now, RunTTL)], now)]
  /\ running' = [running EXCEPT ![r] = f]
  /\ UNCHANGED <<rested, run_faults>>

(* finalize, by a runner whose lease is still its own. *)
Finish(r, now, row) ==
  /\ is_active_for(followups[running[r]].lease, r, now)
  /\ followups' = [followups EXCEPT ![running[r]] = row]
  /\ running' = [running EXCEPT ![r] = None]
  /\ UNCHANGED run_faults

Succeed(r, now) ==
  /\ running[r] # None
  /\ Finish(r, now, Recorded(followups[running[r]], "complete",
                             followups[running[r]].lease, now))
  /\ UNCHANGED rested

FailRun(r, now) ==
  /\ running[r] # None
  /\ LET row == [followups[running[r]] EXCEPT !.attempts = @ + 1]
         status == IF retry_exhausted(row.attempts) THEN "exhausted" ELSE "pending"
     IN Finish(r, now, Recorded(row, status, NoLease, now))
  /\ rested' = [rested EXCEPT ![running[r]] = 0]

RunFenced(r, now) ==
  /\ running[r] # None /\ ~is_active_for(followups[running[r]].lease, r, now)
  /\ running' = [running EXCEPT ![r] = None]
  /\ UNCHANGED <<followups, rested, run_faults>>

RunFault == run_faults < RunFaults /\ run_faults' = run_faults + 1

CrashRun(r) ==
  /\ running[r] # None /\ RunFault
  /\ running' = [running EXCEPT ![r] = None]
  /\ UNCHANGED <<followups, rested>>

Sooner(t) == IF t = None THEN None ELSE IF t > LongPast THEN t - 1 ELSE LongPast

(* A second passes; it is a fault when a runner's lease ends with it. *)
RetrySecond ==
  /\ IF \E r \in Runners : /\ running[r] # None
                           /\ followups[running[r]].lease = [owner_id |-> r, expires_at |-> 1]
       THEN RunFault ELSE UNCHANGED run_faults
  /\ followups' = [f \in Followups |->
       [followups[f] EXCEPT !.next_at = Sooner(@), !.lease.expires_at = Sooner(@)]]
  /\ rested' = [f \in Followups |-> IF rested[f] < MaxRested THEN rested[f] + 1 ELSE MaxRested]
  /\ UNCHANGED running

RunnerStep(r, now) ==
  \/ \E f \in Followups : ClaimFollowup(r, f, now)
  \/ Succeed(r, now) \/ FailRun(r, now) \/ RunFenced(r, now)

FollowupNext ==
  \/ RetrySecond
  \/ \E r \in Runners : CrashRun(r) \/ \E now \in RunReadings : RunnerStep(r, now)

(* Seconds pass, and runners poll with fresh readings. *)
FollowupFairness ==
  SF_followupVars(RetrySecond) /\ \A r \in Runners : WF_followupVars(RunnerStep(r, 0))

FollowupSpec == FollowupInit /\ [][FollowupNext]_followupVars /\ FollowupFairness

-----------------------------------------------------------------------------
(***************************************************************************)
(* A failed follow-up is not run again before its delay is over, but for   *)
(* the age of the clock reading it failed with: delays are rounded up to   *)
(* the seconds of the table, grow, and survive other runners' claims.      *)
(***************************************************************************)
NoRetryEarly ==
  [][\A f \in Followups :
       FollowupStatus(f) = "pending" /\ followups'[f].status = "running"
         => \/ followups[f].attempts = 0
            \/ (rested[f] + RunLag) * Second >= capped_power(RetryPolicy, followups[f].attempts - 1)
    ]_followupVars

(***************************************************************************)
(* What must come and stay: every follow-up is complete or exhausted, with *)
(* no lease on it, after finitely many crashes and overruns and whatever   *)
(* share of its runs fail.                                                 *)
(***************************************************************************)
FollowupsEnded ==
  \A f \in Followups : /\ FollowupStatus(f) \in {"complete", "exhausted"}
                       /\ followups[f].lease = NoLease
                       /\ followups[f].attempts <= max_attempts
=============================================================================
