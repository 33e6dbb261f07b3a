---------------------------- MODULE CycleLeases ----------------------------
(***************************************************************************)
(* Workers that run the cycles of one world: the run lease, the phase of   *)
(* each cycle and its finalization.  Statuses, claims, leases, cadence and *)
(* retention are world-cycle-core's and world-clock-core's; the tables and *)
(* the transactions are the product's, external, as docs/rfcs/             *)
(* world-cycle-sqlx-phase-7.md describes them.                             *)
(*                                                                         *)
(* A transaction is one step; it compares leases with a clock reading that *)
(* its worker made up to MaxLag seconds before.  Times are relative to the *)
(* present, which is always 0: when a second passes, everything moves one  *)
(* into the past, down to where it makes no more difference.               *)
(***************************************************************************)
EXTENDS WorldTime

CONSTANTS Workers,
          TTL, Grace,    \* durations: of a lease, and before a running phase is stale
          Cadence,       \* duration between cycles
          Keep,          \* cycles whose phase rows are kept
          LastCycle,     \* bound: the cycles modelled
          MaxLag,        \* bound: how old a clock reading may be, in seconds
          MaxFaults      \* bound: crashes, failures, overruns and pauses

ASSUME CycleAssumption ==
  /\ TTL \in Nat /\ valid_ttl(TTL) /\ Grace \in Nat /\ Cadence \in Nat \ {0} /\ Keep \in Nat \ {0}
  /\ LastCycle \in 0..MaxI64 /\ MaxLag \in Nat /\ MaxFaults \in Nat
  /\ None \notin Workers

VARIABLES lease,         \* the world's run lease
          finalizing,
          last_due,      \* in ticks
          settled,       \* the last cycle finalized
          rows,          \* the phase row of each cycle
          effects,       \* history: how often a cycle's side effects happened
          paused,
          faults,        \* faults so far
          work           \* per worker, where it is and its cycle

cycleVars == <<lease, finalizing, last_due, settled, rows, effects, paused, faults, work>>

-----------------------------------------------------------------------------
(* Statuses are stored as labels; products have written two for Complete.  *)
PhaseLabels == {"pending", "running", "applied", "complete", "failed"}

UnknownStatus == "UnknownStatus"

phase_status_from_str(label) ==
  CASE label \in {"complete", "completed"} -> "complete"
    [] label \in PhaseLabels \ {"complete"} -> label
    [] OTHER -> UnknownStatus

is_terminal(status) == status = "complete"

(* Mutant of from_existing_status: the phase is run again. *)
claim_unless_complete(status) == IF status = "complete" THEN "Complete" ELSE "Claimed"

(* What a caller is told whose claim did not get the phase. *)
from_existing_status(status) ==
  CASE status = "applied" -> "Applied"
    [] status = "complete" -> "Complete"
    [] OTHER -> "Busy"

owned_lease_is_active(owner, at, now) == is_active([owner_id |-> owner, expires_at |-> at], now)

RuntimeSignals == [attention_required : BOOLEAN, paused : BOOLEAN,
                   finalizing_active : BOOLEAN, run_active : BOOLEAN]

(* Mutant of derive_cycle_runtime_status: a finalization is no run. *)
derive_without_finalizing(s) ==
  CASE s.attention_required -> "attention_required"
    [] ~s.attention_required /\ s.paused -> "paused"
    [] ~s.attention_required /\ ~s.paused /\ s.run_active /\ ~s.finalizing_active -> "running"
    [] OTHER -> "open"

derive_cycle_runtime_status(s) ==
  IF s.attention_required THEN "attention_required"
  ELSE IF s.paused THEN "paused"
  ELSE IF s.finalizing_active THEN "finalizing"
  ELSE IF s.run_active THEN "running" ELSE "open"

-----------------------------------------------------------------------------
NoRow == [status |-> "none", owner |-> None, since |-> 0]

(* As far back as a reading, an expiry or a start is told apart; and a     *)
(* cycle that is due for every reading.                                    *)
Oldest == -MaxLag
Readings == Oldest..0
LongExpired == Oldest - 1
LongStale == stale_cutoff_unix_seconds(Oldest, Grace)
LongOverdue == Oldest * Second - Cadence

Row == [status : PhaseLabels \cup {"completed"}, owner : Workers, since : Int]

Off == [at |-> "idle", cycle |-> 0]
Places == {"idle", "leader", "claimed", "applied", "complete"}

CycleTypeOK ==
  /\ lease \in [owner_id : Workers, expires_at : Int] \cup {NoLease}
  /\ finalizing \in BOOLEAN
  /\ last_due \in Int
  /\ settled \in 0..LastCycle
  /\ rows \in [1..LastCycle -> Row \cup {NoRow}]
  /\ effects \in [1..LastCycle -> Nat]
  /\ paused \in BOOLEAN /\ faults \in 0..MaxFaults
  /\ work \in [Workers -> [at : Places, cycle : 0..LastCycle]]

CycleInit ==
  /\ lease = NoLease /\ finalizing = FALSE
  /\ last_due = -Cadence
  /\ settled = 0
  /\ rows = [c \in 1..LastCycle |-> NoRow]
  /\ effects = [c \in 1..LastCycle |-> 0]
  /\ paused = FALSE /\ faults = 0
  /\ work = [w \in Workers |-> Off]

world == <<finalizing, last_due, settled, paused>>
phases == <<rows, effects>>

Go(w, at) == work' = [work EXCEPT ![w].at = at]
Status(c) == phase_status_from_str(rows[c].status)

-----------------------------------------------------------------------------
(* The worker's transactions.                                              *)
CanAcquire(w, now) ==
  /\ ~paused /\ settled < LastCycle
  /\ is_due(last_due, Cadence, now * Second)
  /\ ~finalizing_lease_is_active(finalizing, lease.expires_at, now)
  /\ claimable_by(lease, w, now)

Acquire(w, now) ==
  /\ work[w].at = "idle" /\ CanAcquire(w, now)
  /\ lease' = [owner_id |-> w, expires_at |-> lease_expires_at(now, TTL)]
  /\ finalizing' = FALSE
  /\ work' = [work EXCEPT ![w] = [at |-> "leader", cycle |-> settled + 1]]
  /\ UNCHANGED <<last_due, settled, paused, phases, faults>>

(* A worker on its way whose lease is still its own. *)
Holding(w, at, now) == work[w].at = at /\ is_active_for(lease, w, now)

(* A task of its own renews the lease. *)
Heartbeat(w, now) ==
  /\ work[w].at # "idle" /\ is_active_for(lease, w, now)
  /\ lease' = [lease EXCEPT !.expires_at = lease_expires_at(now, TTL)]
  /\ UNCHANGED <<world, phases, faults, work>>

(* A running phase of another owner is taken over once it is stale. *)
Claimable(c, w, now) ==
  \/ rows[c] = NoRow \/ Status(c) \in {"pending", "failed"}
  \/ /\ Status(c) = "running"
     /\ rows[c].owner = w \/ rows[c].since <= stale_cutoff_unix_seconds(now, Grace)

ClaimPhase(w, now) ==
  LET c == work[w].cycle IN
  /\ Holding(w, "leader", now)
  /\ \/ /\ Claimable(c, w, now)
        /\ rows' = [rows EXCEPT ![c] = [status |-> "running", owner |-> w, since |-> now]]
        /\ Go(w, "claimed")
     \/ /\ ~Claimable(c, w, now)
        /\ LET claim == from_existing_status(Status(c)) IN
             Go(w, CASE claim = "Claimed" -> "claimed"
                     [] claim = "Applied" -> "applied"
                     [] claim = "Complete" -> "complete"
                     [] OTHER -> "leader")
        /\ UNCHANGED rows
  /\ UNCHANGED <<lease, world, effects, faults>>

(* The side effects and their mark commit together. *)
ApplyPhase(w, now) ==
  LET c == work[w].cycle IN
  /\ Holding(w, "claimed", now)
  /\ effects' = [effects EXCEPT ![c] = @ + 1]
  /\ rows' = [rows EXCEPT ![c] = [@ EXCEPT !.status = "applied"]]
  /\ Go(w, "applied")
  /\ UNCHANGED <<lease, world, faults>>

CompletePhase(w, now) ==
  /\ Holding(w, "applied", now)
  /\ \E label \in {"complete", "completed"} :
       rows' = [rows EXCEPT ![work[w].cycle].status = label]
  /\ Go(w, "leader")
  /\ UNCHANGED <<lease, world, effects, faults>>

StartFinalizing(w, now) ==
  /\ Holding(w, "complete", now) /\ is_terminal(Status(work[w].cycle)) /\ ~finalizing
  /\ finalizing' = TRUE
  /\ UNCHANGED <<lease, last_due, settled, paused, phases, faults, work>>

(* The authority boundary: the cycle is settled, the lease released, and   *)
(* phase rows are pruned.                                                  *)
Finalize(w, now) ==
  LET c == work[w].cycle IN
  /\ Holding(w, "complete", now) /\ finalizing
  /\ settled' = c
  /\ last_due' = next_due_after(last_due, Cadence)
  /\ lease' = NoLease /\ finalizing' = FALSE
  /\ rows' = [k \in 1..LastCycle |->
                IF k < retention_cutoff_cycle(c, Keep) THEN NoRow ELSE rows[k]]
  /\ work' = [work EXCEPT ![w] = Off]
  /\ UNCHANGED <<effects, paused, faults>>

(* A transaction that finds the lease gone changes nothing. *)
Fenced(w, now) ==
  /\ work[w].at # "idle" /\ ~is_active_for(lease, w, now)
  /\ work' = [work EXCEPT ![w] = Off]
  /\ UNCHANGED <<lease, world, phases, faults>>

-----------------------------------------------------------------------------
(* Faults, and the clock.                                                  *)
Fault == faults < MaxFaults /\ faults' = faults + 1

FailPhase(w, now) ==
  /\ Holding(w, "claimed", now)
  /\ Fault
  /\ rows' = [rows EXCEPT ![work[w].cycle].status = "failed"]
  /\ Go(w, "leader")
  /\ UNCHANGED <<lease, world, effects>>

Crash(w) ==
  /\ work[w].at # "idle"
  /\ Fault
  /\ work' = [work EXCEPT ![w] = Off]
  /\ UNCHANGED <<lease, world, phases>>

Pause == /\ ~paused /\ Fault /\ paused' = TRUE
         /\ UNCHANGED <<lease, finalizing, last_due, settled, phases, work>>
Resume == /\ paused /\ paused' = FALSE
          /\ UNCHANGED <<lease, finalizing, last_due, settled, phases, faults, work>>

Earlier(t, floor) == IF t > floor THEN t - 1 ELSE floor

(* A second passes.  That a live worker's lease ends before its work does  *)
(* is a fault.                                                             *)
SecondPasses ==
  /\ IF \E w \in Workers : work[w].at # "idle" /\ lease = [owner_id |-> w, expires_at |-> 1]
       THEN Fault ELSE UNCHANGED faults
  /\ lease' = IF lease = NoLease THEN lease
              ELSE [lease EXCEPT !.expires_at = Earlier(@, LongExpired)]
  /\ rows' = [c \in 1..LastCycle |-> IF rows[c] = NoRow THEN NoRow ELSE
                [rows[c] EXCEPT !.since = Earlier(@, LongStale)]]
  /\ last_due' = IF last_due - Second > LongOverdue THEN last_due - Second ELSE LongOverdue
  /\ UNCHANGED <<finalizing, settled, effects, paused, work>>

Transaction(w, now) ==
  \/ Acquire(w, now) \/ ClaimPhase(w, now) \/ ApplyPhase(w, now) \/ CompletePhase(w, now)
  \/ StartFinalizing(w, now) \/ Finalize(w, now) \/ Fenced(w, now)

CycleNext ==
  \/ SecondPasses \/ Pause \/ Resume
  \/ \E w \in Workers : \/ Crash(w)
                        \/ \E now \in Readings : \/ Transaction(w, now) \/ Heartbeat(w, now)
                                                 \/ FailPhase(w, now)

(* Seconds pass, operators resume, and workers poll with fresh readings.   *)
CycleFairness ==
  /\ SF_cycleVars(SecondPasses) /\ WF_cycleVars(Resume)
  /\ \A w \in Workers : WF_cycleVars(Transaction(w, 0)) /\ WF_cycleVars(Heartbeat(w, 0))

CycleSpec == CycleInit /\ [][CycleNext]_cycleVars /\ CycleFairness

-----------------------------------------------------------------------------
(***************************************************************************)
(* However workers crash, lag behind the clock and take each other's work  *)
(* over, the side effects of a cycle happen once, and never remain undone  *)
(* in a cycle that is settled.                                             *)
(***************************************************************************)
EachCycleAppliedOnce ==
  \A c \in 1..LastCycle : effects[c] <= 1 /\ (c <= settled => effects[c] = 1)

(***************************************************************************)
(* A lease that is still active at this moment only leaves its owner by    *)
(* the owner's own finalization, whatever old clock readings others use.   *)
(***************************************************************************)
LeaseHandover ==
  [][lease'.owner_id # lease.owner_id /\ is_active(lease, 0)
       => \E w \in Workers : lease.owner_id = w /\ work[w].at = "complete" /\ settled' = settled + 1
     ]_cycleVars

(* What the control plane shows of a world. *)
RuntimeStatus ==
  derive_cycle_runtime_status(
    [attention_required |-> settled < LastCycle /\ Status(settled + 1) = "failed",
     paused |-> paused,
     finalizing_active |-> finalizing_lease_is_active(finalizing, lease.expires_at, 0),
     run_active |-> owned_lease_is_active(lease.owner_id, lease.expires_at, 0)])

(***************************************************************************)
(* The displayed status and the claims agree: when a cycle is due, an open *)
(* world can be claimed by every worker, and one shown as running,         *)
(* finalizing or paused by nobody but the lease's owner.                   *)
(***************************************************************************)
StatusTellsWhoMayRun ==
  settled < LastCycle /\ is_due(last_due, Cadence, 0) =>
    \A w \in Workers :
      /\ RuntimeStatus = "open" => CanAcquire(w, 0)
      /\ RuntimeStatus \in {"running", "finalizing", "paused"} /\ lease.owner_id # w
           => ~CanAcquire(w, 0)

(***************************************************************************)
(* Pruning keeps the phase rows of exactly the newest Keep settled cycles: *)
(* one row less and a late duplicate of a cycle would find no record of    *)
(* it.                                                                     *)
(***************************************************************************)
NewestCyclesKept ==
  \A c \in 1..settled : rows[c] = NoRow <=> c <= settled - Keep

(***************************************************************************)
(* What must come and stay: every cycle that falls due is settled, after   *)
(* finitely many crashes, failed phases, overruns and pauses.              *)
(***************************************************************************)
CyclesSettled == settled = LastCycle
=============================================================================
