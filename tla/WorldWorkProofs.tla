-------------------------- MODULE WorldWorkProofs ---------------------------
(***************************************************************************)
(* The work of a world: its cycles, the follow-ups they leave behind, and  *)
(* the notifications they send.  The three share the time arithmetic, and  *)
(* no state.                                                               *)
(***************************************************************************)
EXTENDS CycleLeases, FollowupRetries, NotificationDelivery,
        InstantMathProofs, FiniteSetTheorems, TLAPS

USE InstantAssumption, WorldTimeAssumption

-----------------------------------------------------------------------------
(***************************************************************************)
(* CycleLeases for any number of workers and cycles, every length of lease *)
(* and grace, and clock readings however old.                              *)
(*                                                                         *)
(* The inductive invariant says what a worker knows whose lease is still   *)
(* its own, and how the phase row of the cycle at hand tells whether the   *)
(* side effects have happened.                                             *)
(***************************************************************************)

USE CycleAssumption

Shape ==
  /\ lease \in [owner_id : Workers, expires_at : Int] \cup {NoLease}
  /\ settled \in 0..LastCycle
  /\ rows \in [1..LastCycle -> Row \cup {NoRow}]
  /\ effects \in [1..LastCycle -> Nat]
  /\ work \in [Workers -> [at : Places, cycle : 0..LastCycle]]

(* Only the cycle at hand has a row that says more than its number. *)
EffectsMatch ==
  \A c \in 1..LastCycle :
    /\ c <= settled => effects[c] = 1
    /\ c = settled + 1 => effects[c] = IF Status(c) \in {"applied", "complete"} THEN 1 ELSE 0
    /\ c > settled + 1 => effects[c] = 0 /\ rows[c] = NoRow

(* What a worker has read is still so while it owns the lease. *)
OwnerKnows ==
  \A w \in Workers :
    lease.owner_id = w /\ work[w].at # "idle" =>
      /\ settled < LastCycle /\ work[w].cycle = settled + 1
      /\ work[w].at = "claimed" => Status(settled + 1) = "running"
      /\ work[w].at = "applied" => Status(settled + 1) \in {"applied", "complete"}
      /\ work[w].at = "complete" => Status(settled + 1) = "complete"

CycleInv == Shape /\ EffectsMatch /\ OwnerKnows /\ NewestCyclesKept

-----------------------------------------------------------------------------
(* The helpers stay within the integers.                                   *)
LEMMA IntegerInI64 ==
  ASSUME NEW n \in Int
  PROVE  i64(n) \in -MaxI64 - 1..MaxI64
BY DEF i64

LEMMA SecondsAreIntegers ==
  ASSUME NEW d \in Nat
  PROVE  duration_to_i64_seconds(d) \in Int
<1>1. d \div Second \in Int
  BY DEF InstantAssumption
<1>2. (d \div Second) + (IF d % Second # 0 THEN 1 ELSE 0) \in Int
  BY <1>1
<1> QED
  BY <1>2, IntegerInI64 DEF duration_to_i64_seconds

LEMMA TimesAreIntegers ==
  ASSUME NEW now \in Int
  PROVE  /\ lease_expires_at(now, TTL) \in Int
         /\ stale_cutoff_unix_seconds(now, Grace) \in Int
<1>1. duration_to_i64_seconds(TTL) \in Int /\ duration_to_i64_seconds(Grace) \in Int
  BY SecondsAreIntegers
<1>2. ttl_seconds(TTL) \in Int
  BY <1>1 DEF ttl_seconds
<1>3. now + ttl_seconds(TTL) \in Int /\ now - duration_to_i64_seconds(Grace) \in Int
  BY <1>1, <1>2
<1> QED
  BY <1>3, IntegerInI64 DEF lease_expires_at, stale_cutoff_unix_seconds

LEMMA ReadingsAreIntegers == Readings \subseteq Int /\ \A now \in Readings : now <= 0
BY DEF Readings, Oldest

(* What a stored label says. *)
LEMMA Labels ==
  \A label : phase_status_from_str(label) =
    IF label = "completed" THEN "complete"
    ELSE IF label \in PhaseLabels THEN label ELSE UnknownStatus
BY DEF phase_status_from_str, PhaseLabels

LEMMA NoRowIsNoPhase == NoRow \notin Row /\ phase_status_from_str(NoRow.status) = UnknownStatus
BY Labels DEF NoRow, Row, PhaseLabels

-----------------------------------------------------------------------------
LEMMA InitialInvariant == CycleInit => CycleInv
<1> SUFFICES ASSUME CycleInit PROVE CycleInv
  OBVIOUS
<1>1. Shape
  BY DEF CycleInit, Shape, NoLease, Row, Off, Places
<1>2. EffectsMatch
  BY NoRowIsNoPhase DEF CycleInit, EffectsMatch, Status, UnknownStatus
<1>3. OwnerKnows
  BY DEF CycleInit, OwnerKnows, NoLease
<1>4. NewestCyclesKept
  BY DEF CycleInit, NewestCyclesKept
<1> QED
  BY <1>1, <1>2, <1>3, <1>4 DEF CycleInv

(* A worker on its way that owns the lease works on the cycle at hand. *)
LEMMA Holder ==
  ASSUME CycleInv, NEW w \in Workers, NEW at \in Places \ {"idle"}, NEW now, Holding(w, at, now)
  PROVE  /\ lease \in [owner_id : Workers, expires_at : Int]
         /\ lease.owner_id = w /\ lease.expires_at \in Int
         /\ work[w].at = at /\ work[w].cycle = settled + 1
         /\ settled < LastCycle /\ settled + 1 \in 1..LastCycle
         /\ \A v \in Workers : lease.owner_id = v => v = w
<1>1. lease.owner_id = w /\ work[w].at = at
  BY DEF Holding, is_active_for
<1>2. lease \in [owner_id : Workers, expires_at : Int]
  BY <1>1 DEF CycleInv, Shape, NoLease
<1> QED
  BY <1>1, <1>2 DEF CycleInv, OwnerKnows, Shape

(* Steps that touch neither the rows nor the effects nor what is settled.  *)
LEMMA RowsAsBefore ==
  ASSUME CycleInv, Shape', UNCHANGED <<rows, effects, settled>>
  PROVE  EffectsMatch' /\ NewestCyclesKept'
BY DEF CycleInv, EffectsMatch, NewestCyclesKept, Status

LEMMA AcquireKeeps ==
  ASSUME CycleInv, NEW w \in Workers, NEW now \in Readings, Acquire(w, now)
  PROVE  CycleInv'
<1> USE DEF Acquire
<1>0. lease_expires_at(now, TTL) \in Int
  BY TimesAreIntegers, ReadingsAreIntegers
<1>1. Shape'
  <2> DEFINE place == [at |-> "leader", cycle |-> settled + 1]
  <2>1. lease' \in [owner_id : Workers, expires_at : Int]
    BY <1>0
  <2>2. place \in [at : Places, cycle : 0..LastCycle]
    BY DEF CycleInv, Shape, CanAcquire, Places
  <2>3. work' \in [Workers -> [at : Places, cycle : 0..LastCycle]]
    BY <2>2 DEF CycleInv, Shape
  <2> QED
    BY <2>1, <2>3 DEF CycleInv, Shape, phases
<1>2. EffectsMatch' /\ NewestCyclesKept'
  BY <1>1, RowsAsBefore DEF phases
<1>3. OwnerKnows'
  BY DEF CycleInv, OwnerKnows, CanAcquire, Shape
<1> QED
  BY <1>1, <1>2, <1>3 DEF CycleInv

LEMMA HeartbeatKeeps ==
  ASSUME CycleInv, NEW w \in Workers, NEW now \in Readings, Heartbeat(w, now)
  PROVE  CycleInv'
<1> USE DEF Heartbeat, world, phases
<1>0. lease.owner_id = w /\ lease \in [owner_id : Workers, expires_at : Int]
  BY DEF is_active_for, CycleInv, Shape, NoLease
<1>1. Shape'
  BY <1>0, TimesAreIntegers, ReadingsAreIntegers DEF CycleInv, Shape
<1>2. EffectsMatch' /\ NewestCyclesKept'
  BY <1>1, RowsAsBefore
<1>3. OwnerKnows'
  BY <1>0 DEF CycleInv, OwnerKnows, Status
<1> QED
  BY <1>1, <1>2, <1>3 DEF CycleInv

(* A worker that leaves forgets; a lease it may still own asks nothing.    *)
LEMMA LeavingKeeps ==
  ASSUME CycleInv, NEW w \in Workers, work' = [work EXCEPT ![w] = Off],
         UNCHANGED <<lease, world, phases>>
  PROVE  CycleInv'
<1> USE DEF world, phases
<1>1. Shape'
  BY DEF CycleInv, Shape, Off, Places
<1>2. EffectsMatch' /\ NewestCyclesKept'
  BY <1>1, RowsAsBefore
<1>3. OwnerKnows'
  BY DEF CycleInv, OwnerKnows, Status, Off, Shape
<1> QED
  BY <1>1, <1>2, <1>3 DEF CycleInv

LEMMA SameLeaseAndWorkKeeps ==
  ASSUME CycleInv, UNCHANGED <<lease, settled, phases, work>>
  PROVE  CycleInv'
BY DEF CycleInv, Shape, EffectsMatch, OwnerKnows, NewestCyclesKept, Status, phases

(* A step of the lease's owner that writes the row of the cycle at hand:   *)
(* what is left to show is that row, effect and place agree.               *)
LEMMA PhaseStepKeeps ==
  ASSUME CycleInv, NEW w \in Workers, NEW from \in Places \ {"idle"}, NEW now,
         Holding(w, from, now), UNCHANGED <<lease, settled>>,
         NEW row \in Row, NEW place \in Places, NEW count \in Nat,
         rows' = [rows EXCEPT ![settled + 1] = row],
         effects' = [effects EXCEPT ![settled + 1] = count],
         work' = [work EXCEPT ![w].at = place],
         count = (IF phase_status_from_str(row.status) \in {"applied", "complete"} THEN 1 ELSE 0),
         place = "claimed" => phase_status_from_str(row.status) = "running",
         place = "applied" => phase_status_from_str(row.status) \in {"applied", "complete"},
         place = "complete" => phase_status_from_str(row.status) = "complete"
  PROVE  CycleInv'
<1>0. /\ lease.owner_id = w /\ work[w].cycle = settled + 1
      /\ settled \in 0..LastCycle /\ settled + 1 \in 1..LastCycle /\ settled < LastCycle
  BY Holder DEF CycleInv, Shape
<1>1. Shape'
  <2>1. rows' \in [1..LastCycle -> Row \cup {NoRow}] /\ effects' \in [1..LastCycle -> Nat]
    BY <1>0 DEF CycleInv, Shape
  <2>2. work' \in [Workers -> [at : Places, cycle : 0..LastCycle]]
    BY DEF CycleInv, Shape
  <2> QED
    BY <2>1, <2>2 DEF CycleInv, Shape
<1>2. Status(settled + 1)' = phase_status_from_str(row.status)
  BY <1>0 DEF CycleInv, Shape, Status
<1>3. \A c \in 1..LastCycle : c # settled + 1 => rows'[c] = rows[c] /\ effects'[c] = effects[c]
  BY DEF CycleInv, Shape
<1>4. EffectsMatch'
  <2> SUFFICES ASSUME NEW c \in 1..LastCycle
               PROVE  /\ c <= settled => effects'[c] = 1
                      /\ c = settled + 1 =>
                           effects'[c] = IF Status(c)' \in {"applied", "complete"} THEN 1 ELSE 0
                      /\ c > settled + 1 => effects'[c] = 0 /\ rows'[c] = NoRow
    BY DEF EffectsMatch
  <2>1. CASE c = settled + 1
    <3>1. effects'[c] = count
      BY <2>1, <1>0 DEF CycleInv, Shape
    <3> QED
      BY <3>1, <2>1, <1>2, <1>0
  <2>2. CASE c # settled + 1
    BY <2>2, <1>3, <1>0 DEF CycleInv, EffectsMatch
  <2> QED
    BY <2>1, <2>2
<1>5. OwnerKnows'
  <2>1. work'[w].at = place /\ work'[w].cycle = settled + 1
    BY <1>0 DEF CycleInv, Shape
  <2> QED
    BY <1>0, <1>2, <2>1 DEF OwnerKnows
<1>6. NewestCyclesKept'
  BY <1>0, <1>3 DEF CycleInv, NewestCyclesKept
<1> QED
  BY <1>1, <1>4, <1>5, <1>6 DEF CycleInv

(* A row with a status is no NoRow. *)
LEMMA RowWithStatus ==
  ASSUME CycleInv, NEW c \in 1..LastCycle, Status(c) # UnknownStatus
  PROVE  rows[c] \in Row
BY NoRowIsNoPhase DEF CycleInv, Shape, Status

LEMMA ClaimPhaseKeeps ==
  ASSUME CycleInv, NEW w \in Workers, NEW now \in Readings, ClaimPhase(w, now)
  PROVE  CycleInv'
<1> DEFINE c == settled + 1
<1>0. /\ Holding(w, "leader", now) /\ "leader" \in Places \ {"idle"}
      /\ work[w].cycle = c /\ c \in 1..LastCycle /\ now \in Int
  <2>1. Holding(w, "leader", now) /\ "leader" \in Places \ {"idle"}
    BY DEF ClaimPhase, Places
  <2> QED
    BY <2>1, Holder, ReadingsAreIntegers
<1>1. CASE Claimable(c, w, now) /\ Go(w, "claimed")
           /\ rows' = [rows EXCEPT ![c] = [status |-> "running", owner |-> w, since |-> now]]
  <2> DEFINE row == [status |-> "running", owner |-> w, since |-> now]
  <2>1. row \in Row /\ phase_status_from_str(row.status) = "running"
    BY <1>0, Labels DEF Row, PhaseLabels
  <2>2. Status(c) \notin {"applied", "complete"}
    BY <1>1, NoRowIsNoPhase DEF Claimable, Status, UnknownStatus
  <2>3. effects' = [effects EXCEPT ![c] = 0]
    BY <2>2, <1>0 DEF ClaimPhase, CycleInv, EffectsMatch, Shape
  <2> HIDE DEF row
  <2>4. /\ work' = [work EXCEPT ![w].at = "claimed"] /\ UNCHANGED <<lease, settled>>
        /\ rows' = [rows EXCEPT ![c] = row] /\ "claimed" \in Places
    BY <1>1 DEF Go, ClaimPhase, world, row, Places
  <2> QED
    BY <1>0, <2>1, <2>3, <2>4, PhaseStepKeeps
<1>2. CASE /\ ~Claimable(c, w, now) /\ rows' = rows
           /\ Go(w, CASE from_existing_status(Status(c)) = "Claimed" -> "claimed"
                      [] from_existing_status(Status(c)) = "Applied" -> "applied"
                      [] from_existing_status(Status(c)) = "Complete" -> "complete"
                      [] OTHER -> "leader")
  <2>1. PICK place \in {"leader", "applied", "complete"} :
          /\ work' = [work EXCEPT ![w].at = place]
          /\ place = "applied" => Status(c) = "applied"
          /\ place = "complete" => Status(c) = "complete"
    BY <1>2 DEF Go, from_existing_status
  <2>2. rows[c] \in Row
    BY <1>0, <1>2 DEF Claimable, CycleInv, Shape
  <2>3. /\ rows' = [rows EXCEPT ![c] = rows[c]] /\ effects' = [effects EXCEPT ![c] = effects[c]]
        /\ UNCHANGED <<lease, settled>> /\ effects[c] \in Nat
    BY <1>0, <1>2 DEF ClaimPhase, world, CycleInv, Shape
  <2>4. effects[c] = IF phase_status_from_str(rows[c].status) \in {"applied", "complete"} THEN 1 ELSE 0
    BY <1>0 DEF CycleInv, EffectsMatch, Status
  <2>5. place \in Places /\ place # "claimed"
    BY DEF Places
  <2> QED
    BY <1>0, <2>1, <2>2, <2>3, <2>4, <2>5, PhaseStepKeeps DEF Status
<1> QED
  BY <1>0, <1>1, <1>2 DEF ClaimPhase

LEMMA ApplyPhaseKeeps ==
  ASSUME CycleInv, NEW w \in Workers, NEW now \in Readings, ApplyPhase(w, now)
  PROVE  CycleInv'
<1> DEFINE c == settled + 1
           row == [rows[c] EXCEPT !.status = "applied"]
<1>0. /\ Holding(w, "claimed", now) /\ "claimed" \in Places \ {"idle"} /\ "applied" \in Places
      /\ work[w].cycle = c /\ c \in 1..LastCycle
  <2>1. Holding(w, "claimed", now) /\ "claimed" \in Places \ {"idle"} /\ "applied" \in Places
    BY DEF ApplyPhase, Places
  <2> QED
    BY <2>1, Holder
<1>1. Status(c) = "running"
  BY <1>0, Holder DEF CycleInv, OwnerKnows
<1>2. row \in Row /\ phase_status_from_str(row.status) = "applied"
  BY <1>0, <1>1, RowWithStatus, Labels DEF Row, PhaseLabels, UnknownStatus
<1>3. effects[c] = 0
  BY <1>0, <1>1 DEF CycleInv, EffectsMatch
<1>4. effects' = [effects EXCEPT ![c] = 1] /\ UNCHANGED <<lease, settled>>
  BY <1>0, <1>3 DEF ApplyPhase, world, CycleInv, Shape
<1>5. rows' = [rows EXCEPT ![c] = row] /\ work' = [work EXCEPT ![w].at = "applied"]
  BY <1>0 DEF ApplyPhase, Go
<1> HIDE DEF row
<1> QED
  BY <1>0, <1>2, <1>4, <1>5, PhaseStepKeeps

LEMMA CompletePhaseKeeps ==
  ASSUME CycleInv, NEW w \in Workers, NEW now \in Readings, CompletePhase(w, now)
  PROVE  CycleInv'
<1> DEFINE c == settled + 1
<1>0. /\ Holding(w, "applied", now) /\ "applied" \in Places \ {"idle"} /\ "leader" \in Places
      /\ work[w].cycle = c /\ c \in 1..LastCycle
  <2>1. Holding(w, "applied", now) /\ "applied" \in Places \ {"idle"} /\ "leader" \in Places
    BY DEF CompletePhase, Places
  <2> QED
    BY <2>1, Holder
<1>1. Status(c) \in {"applied", "complete"}
  BY <1>0, Holder DEF CycleInv, OwnerKnows
<1>2. PICK label \in {"complete", "completed"} : rows' = [rows EXCEPT ![c].status = label]
  BY <1>0 DEF CompletePhase
<1> DEFINE row == [rows[c] EXCEPT !.status = label]
<1>3. row \in Row /\ phase_status_from_str(row.status) = "complete"
  BY <1>0, <1>1, RowWithStatus, Labels DEF Row, PhaseLabels, UnknownStatus
<1>4. effects[c] = 1
  BY <1>0, <1>1 DEF CycleInv, EffectsMatch
<1>5. effects' = [effects EXCEPT ![c] = 1] /\ UNCHANGED <<lease, settled>>
  BY <1>0, <1>4 DEF CompletePhase, world, CycleInv, Shape
<1>6. rows' = [rows EXCEPT ![c] = row] /\ work' = [work EXCEPT ![w].at = "leader"]
  BY <1>2 DEF CompletePhase, Go
<1> HIDE DEF row
<1> QED
  BY <1>0, <1>3, <1>5, <1>6, PhaseStepKeeps

LEMMA FailPhaseKeeps ==
  ASSUME CycleInv, NEW w \in Workers, NEW now \in Readings, FailPhase(w, now)
  PROVE  CycleInv'
<1> DEFINE c == settled + 1
           row == [rows[c] EXCEPT !.status = "failed"]
<1>0. /\ Holding(w, "claimed", now) /\ "claimed" \in Places \ {"idle"} /\ "leader" \in Places
      /\ work[w].cycle = c /\ c \in 1..LastCycle
  <2>1. Holding(w, "claimed", now) /\ "claimed" \in Places \ {"idle"} /\ "leader" \in Places
    BY DEF FailPhase, Places
  <2> QED
    BY <2>1, Holder
<1>1. Status(c) = "running"
  BY <1>0, Holder DEF CycleInv, OwnerKnows
<1>2. row \in Row /\ phase_status_from_str(row.status) = "failed"
  BY <1>0, <1>1, RowWithStatus, Labels DEF Row, PhaseLabels, UnknownStatus
<1>3. effects[c] = 0
  BY <1>0, <1>1 DEF CycleInv, EffectsMatch
<1>4. effects' = [effects EXCEPT ![c] = 0] /\ UNCHANGED <<lease, settled>>
  BY <1>0, <1>3 DEF FailPhase, world, CycleInv, Shape
<1>5. rows' = [rows EXCEPT ![c] = row] /\ work' = [work EXCEPT ![w].at = "leader"]
  BY <1>0 DEF FailPhase, Go
<1> HIDE DEF row
<1> QED
  BY <1>0, <1>2, <1>4, <1>5, PhaseStepKeeps

(* The cutoff is that of the newest Keep cycles wherever i64 ends.         *)
LEMMA Cutoff ==
  ASSUME NEW c \in 1..LastCycle, NEW k \in 1..c
  PROVE  k < retention_cutoff_cycle(c, Keep) <=> k <= c - Keep
<1>1. CASE Keep - 1 <= MaxI64
  <2>1. i64(Keep - 1) = Keep - 1
    BY <1>1 DEF i64
  <2>2. i64(c - (Keep - 1)) = c - (Keep - 1)
    BY <1>1 DEF i64
  <2> QED
    BY <2>1, <2>2 DEF retention_cutoff_cycle
<1>2. CASE Keep - 1 > MaxI64
  <2>1. i64(Keep - 1) = MaxI64
    BY <1>2 DEF i64
  <2>2. i64(c - MaxI64) = c - MaxI64 /\ c - MaxI64 <= 0
    BY DEF i64
  <2> QED
    BY <1>2, <2>1, <2>2 DEF retention_cutoff_cycle
<1> QED
  BY <1>1, <1>2

LEMMA FinalizeKeeps ==
  ASSUME CycleInv, NEW w \in Workers, NEW now \in Readings, Finalize(w, now)
  PROVE  CycleInv' /\ settled' = settled + 1
<1> DEFINE c == settled + 1
<1>0. /\ work[w].at = "complete" /\ lease.owner_id = w
      /\ work[w].cycle = c /\ c \in 1..LastCycle /\ settled \in 0..LastCycle
  <2>1. Holding(w, "complete", now) /\ "complete" \in Places \ {"idle"}
    BY DEF Finalize, Places
  <2> QED
    BY <2>1, Holder DEF CycleInv, Shape
<1>1. Status(c) = "complete"
  BY <1>0 DEF CycleInv, OwnerKnows
<1>2. rows[c] # NoRow /\ effects[c] = 1
  BY <1>0, <1>1, RowWithStatus, NoRowIsNoPhase DEF CycleInv, EffectsMatch, UnknownStatus
<1>3. settled' = c /\ effects' = effects /\ lease' = NoLease
  BY <1>0 DEF Finalize
<1>4. rows' = [k \in 1..LastCycle |-> IF k < retention_cutoff_cycle(c, Keep) THEN NoRow ELSE rows[k]]
  BY <1>0 DEF Finalize
<1>5. Shape'
  <2>1. rows' \in [1..LastCycle -> Row \cup {NoRow}]
    BY <1>4 DEF CycleInv, Shape
  <2>2. work' \in [Workers -> [at : Places, cycle : 0..LastCycle]]
    BY DEF Finalize, CycleInv, Shape, Off, Places
  <2> QED
    BY <1>0, <1>3, <2>1, <2>2 DEF CycleInv, Shape
<1>6. EffectsMatch'
  <2> SUFFICES ASSUME NEW d \in 1..LastCycle
               PROVE  /\ d <= c => effects[d] = 1
                      /\ d = c + 1 =>
                           effects[d] = IF Status(d)' \in {"applied", "complete"} THEN 1 ELSE 0
                      /\ d > c + 1 => effects[d] = 0 /\ rows'[d] = NoRow
    BY <1>3 DEF EffectsMatch
  <2>1. d <= c => effects[d] = 1
    BY <1>0, <1>2 DEF CycleInv, EffectsMatch
  <2>2. d > c => effects[d] = 0 /\ rows'[d] = NoRow
    BY <1>0, <1>4 DEF CycleInv, EffectsMatch
  <2>3. rows'[d] = NoRow => Status(d)' = UnknownStatus
    BY NoRowIsNoPhase DEF Status
  <2> QED
    BY <1>0, <2>1, <2>2, <2>3 DEF UnknownStatus
<1>7. OwnerKnows'
  BY <1>3 DEF OwnerKnows, NoLease
<1>8. NewestCyclesKept'
  <2> SUFFICES ASSUME NEW k \in 1..c PROVE rows'[k] = NoRow <=> k <= c - Keep
    BY <1>3 DEF NewestCyclesKept
  <2>1. rows'[k] = NoRow <=> k <= c - Keep \/ rows[k] = NoRow
    BY <1>0, <1>4, Cutoff
  <2>2. CASE k = c
    BY <1>0, <1>2, <2>1, <2>2
  <2>3. CASE k # c
    <3>1. k \in 1..settled
      BY <1>0, <2>3
    <3>2. rows[k] = NoRow <=> k <= settled - Keep
      BY <3>1 DEF CycleInv, NewestCyclesKept
    <3> QED
      BY <1>0, <2>1, <3>2
  <2> QED
    BY <2>2, <2>3
<1> QED
  BY <1>3, <1>5, <1>6, <1>7, <1>8 DEF CycleInv

LEMMA SecondPassesKeeps ==
  ASSUME CycleInv, SecondPasses
  PROVE  CycleInv' /\ lease'.owner_id = lease.owner_id
<1>0. UNCHANGED <<settled, effects, work>>
  BY DEF SecondPasses
<1>1. LongExpired \in Int /\ LongStale \in Int /\ \A t, floor \in Int : Earlier(t, floor) \in Int
  BY TimesAreIntegers DEF LongExpired, LongStale, Oldest, Earlier
<1>2. /\ lease' \in [owner_id : Workers, expires_at : Int] \cup {NoLease}
      /\ lease'.owner_id = lease.owner_id
  BY <1>1 DEF SecondPasses, CycleInv, Shape, NoLease
<1>3. \A c \in 1..LastCycle : /\ rows[c] = NoRow => rows'[c] = NoRow
                              /\ rows[c] # NoRow => /\ rows'[c] \in Row
                                                    /\ rows'[c].status = rows[c].status
  <2> SUFFICES ASSUME NEW c \in 1..LastCycle, rows[c] # NoRow
               PROVE  rows'[c] \in Row /\ rows'[c].status = rows[c].status
    BY DEF SecondPasses
  <2>1. rows[c] \in Row
    BY DEF CycleInv, Shape
  <2>2. rows'[c] = [rows[c] EXCEPT !.since = Earlier(@, LongStale)]
    BY DEF SecondPasses
  <2>3. Earlier(rows[c].since, LongStale) \in Int
    BY <1>1, <2>1 DEF Row
  <2> QED
    BY <2>1, <2>2, <2>3 DEF Row
<1>4. rows' \in [1..LastCycle -> Row \cup {NoRow}]
  BY <1>3 DEF SecondPasses
<1>5. \A c \in 1..LastCycle : Status(c)' = Status(c) /\ (rows'[c] = NoRow <=> rows[c] = NoRow)
  BY <1>3, NoRowIsNoPhase DEF Status
<1>6. Shape'
  BY <1>0, <1>2, <1>4 DEF CycleInv, Shape
<1>7. EffectsMatch' /\ NewestCyclesKept'
  <2>1. EffectsMatch'
    BY <1>0, <1>5 DEF CycleInv, EffectsMatch
  <2>2. NewestCyclesKept'
    BY <1>0, <1>5 DEF CycleInv, NewestCyclesKept, Shape
  <2> QED
    BY <2>1, <2>2
<1>8. OwnerKnows'
  <2>1. settled < LastCycle => settled + 1 \in 1..LastCycle
    BY DEF CycleInv, Shape
  <2> QED
    BY <1>0, <1>2, <1>5, <2>1 DEF CycleInv, OwnerKnows
<1> QED
  BY <1>2, <1>6, <1>7, <1>8 DEF CycleInv

LEMMA StepKeeps == CycleInv /\ [CycleNext]_cycleVars => CycleInv'
<1> SUFFICES ASSUME CycleInv, [CycleNext]_cycleVars PROVE CycleInv'
  OBVIOUS
<1>1. CASE SecondPasses
  BY <1>1, SecondPassesKeeps
<1>2. CASE Pause \/ Resume \/ UNCHANGED cycleVars
  BY <1>2, SameLeaseAndWorkKeeps DEF Pause, Resume, cycleVars, phases
<1>3. ASSUME NEW w \in Workers, Crash(w) PROVE CycleInv'
  BY <1>3, LeavingKeeps DEF Crash
<1>4. ASSUME NEW w \in Workers, NEW now \in Readings, Fenced(w, now) PROVE CycleInv'
  BY <1>4, LeavingKeeps DEF Fenced
<1>5. ASSUME NEW w \in Workers, NEW now \in Readings, StartFinalizing(w, now) PROVE CycleInv'
  BY <1>5, SameLeaseAndWorkKeeps DEF StartFinalizing
<1>6. ASSUME NEW w \in Workers, NEW now \in Readings, Transaction(w, now) PROVE CycleInv'
  BY <1>4, <1>5, <1>6, AcquireKeeps, ClaimPhaseKeeps, ApplyPhaseKeeps, CompletePhaseKeeps,
     FinalizeKeeps DEF Transaction
<1> QED
  BY <1>1, <1>2, <1>3, <1>6, HeartbeatKeeps, FailPhaseKeeps DEF CycleNext

LEMMA AlwaysCycleInv == CycleSpec => []CycleInv
BY InitialInvariant, StepKeeps, PTL DEF CycleSpec

(* What the invariant above says nothing of. *)
Rest == finalizing \in BOOLEAN /\ last_due \in Int /\ paused \in BOOLEAN /\ faults \in 0..MaxFaults

LEMMA NextDueIsInteger ==
  ASSUME NEW t \in Int
  PROVE  next_due_after(t, Cadence) \in Int
<1>1. CASE t <= MaxInstant
  <2>1. instant_saturating_add(t, Cadence) \in t..MaxInstant
    BY <1>1, DeadlineBounds
  <2> QED
    BY <2>1 DEF next_due_after
<1>2. CASE t > MaxInstant
  <2>1. HalvedEnds(t, Cadence) = {}
    BY <1>2 DEF HalvedEnds
  <2> QED
    BY <2>1 DEF next_due_after, instant_saturating_add
<1> QED
  BY <1>1, <1>2

LEMMA RestKeeps == Rest /\ [CycleNext]_cycleVars => Rest'
<1> SUFFICES ASSUME Rest, [CycleNext]_cycleVars PROVE Rest'
  OBVIOUS
<1> USE DEF Rest, Fault
<1>1. CASE SecondPasses
  <2>1. -MaxLag \in Int /\ Second \in Int /\ Cadence \in Int
    OBVIOUS
  <2>2. LongOverdue \in Int /\ last_due - Second \in Int
    BY <2>1 DEF LongOverdue, Oldest
  <2>3. last_due' \in Int
    BY <1>1, <2>2 DEF SecondPasses
  <2>4. faults' \in 0..MaxFaults
    BY <1>1 DEF SecondPasses
  <2> QED
    BY <1>1, <2>3, <2>4 DEF SecondPasses
<1>2. CASE Pause \/ Resume \/ UNCHANGED cycleVars
  <2>1. finalizing' \in BOOLEAN /\ paused' \in BOOLEAN
    BY <1>2, Zenon DEF Pause, Resume, cycleVars
  <2>2. last_due' \in Int /\ faults' \in 0..MaxFaults
    BY <1>2 DEF Pause, Resume, cycleVars
  <2> QED
    BY <2>1, <2>2
<1>3. ASSUME NEW w \in Workers, Crash(w) PROVE Rest'
  BY <1>3 DEF Crash, world
<1>4. ASSUME NEW w \in Workers, NEW now \in Readings, Finalize(w, now) PROVE Rest'
  <2>1. last_due' \in Int
    BY <1>4, NextDueIsInteger DEF Finalize
  <2> QED
    BY <1>4, <2>1 DEF Finalize
<1>5. ASSUME NEW w \in Workers, NEW now \in Readings, Transaction(w, now) PROVE Rest'
  <2>1. CASE Acquire(w, now)
    BY <2>1 DEF Acquire
  <2>2. CASE ClaimPhase(w, now)
    BY <2>2 DEF ClaimPhase, world
  <2>3. CASE ApplyPhase(w, now) \/ CompletePhase(w, now)
    BY <2>3 DEF ApplyPhase, CompletePhase, world
  <2>4. CASE StartFinalizing(w, now) \/ Fenced(w, now)
    BY <2>4 DEF StartFinalizing, Fenced, world
  <2> QED
    BY <1>4, <1>5, <2>1, <2>2, <2>3, <2>4 DEF Transaction
<1>6. ASSUME NEW w \in Workers, NEW now \in Readings, Heartbeat(w, now) \/ FailPhase(w, now)
      PROVE Rest'
  BY <1>6 DEF Heartbeat, FailPhase, world
<1> QED
  BY <1>1, <1>2, <1>3, <1>5, <1>6 DEF CycleNext

-----------------------------------------------------------------------------
(***************************************************************************)
(* Every lease, row, worker and time of the model stays well formed.       *)
(***************************************************************************)
THEOREM CycleTypeCorrect == CycleSpec => []CycleTypeOK
<1>1. CycleInit => Rest
  <2>1. CycleInit => finalizing \in BOOLEAN /\ paused \in BOOLEAN
    BY Zenon DEF CycleInit
  <2>2. CycleInit => last_due \in Int /\ faults \in 0..MaxFaults
    BY DEF CycleInit
  <2> QED
    BY <2>1, <2>2 DEF Rest
<1>2. CycleInv /\ Rest => CycleTypeOK
  BY DEF CycleInv, Shape, Rest, CycleTypeOK
<1> QED
  BY <1>1, <1>2, AlwaysCycleInv, RestKeeps, PTL DEF CycleSpec

(***************************************************************************)
(* However many workers crash, read old clocks and take each other's work  *)
(* over, no side effects of a cycle (ApplyPhase, the product's work under  *)
(* a claimed phase) happen twice or are left out of a settled cycle.       *)
(***************************************************************************)
THEOREM CyclesAppliedOnce == CycleSpec => []EachCycleAppliedOnce
<1>1. CycleInv => EachCycleAppliedOnce
  BY DEF CycleInv, EffectsMatch, EachCycleAppliedOnce, Shape
<1> QED
  BY <1>1, AlwaysCycleInv, PTL

(***************************************************************************)
(* RunLease::claimable_by and is_active_for keep an active lease with its  *)
(* owner until the owner finalizes, for clock readings however late.       *)
(***************************************************************************)
THEOREM LeaseStaysWithItsOwner == CycleSpec => LeaseHandover
<1> DEFINE Handover ==
      lease'.owner_id # lease.owner_id /\ is_active(lease, 0)
        => \E w \in Workers : lease.owner_id = w /\ work[w].at = "complete" /\ settled' = settled + 1
<1>1. CycleInv /\ [CycleNext]_cycleVars => [Handover]_cycleVars
  <2> SUFFICES ASSUME CycleInv, CycleNext, lease'.owner_id # lease.owner_id, is_active(lease, 0)
               PROVE  \E w \in Workers : /\ lease.owner_id = w /\ work[w].at = "complete"
                                         /\ settled' = settled + 1
    OBVIOUS
  <2>1. ~SecondPasses /\ ~Pause /\ ~Resume
    BY SecondPassesKeeps DEF Pause, Resume
  <2>2. ASSUME NEW w \in Workers PROVE ~Crash(w)
    BY DEF Crash
  <2>3. ASSUME NEW w \in Workers, NEW now \in Readings
        PROVE  /\ ~Heartbeat(w, now) /\ ~FailPhase(w, now) /\ ~ClaimPhase(w, now)
               /\ ~ApplyPhase(w, now) /\ ~CompletePhase(w, now)
               /\ ~StartFinalizing(w, now) /\ ~Fenced(w, now)
    <3>1. Heartbeat(w, now) => lease'.owner_id = lease.owner_id
      BY DEF Heartbeat, CycleInv, Shape, NoLease
    <3> QED
      BY <3>1 DEF FailPhase, ClaimPhase, ApplyPhase, CompletePhase, StartFinalizing, Fenced
  <2>4. ASSUME NEW w \in Workers, NEW now \in Readings PROVE ~Acquire(w, now)
    <3> SUFFICES ASSUME Acquire(w, now) PROVE FALSE
      OBVIOUS
    <3>1. lease'.owner_id = w /\ (~is_active(lease, now) \/ lease.owner_id = w)
      BY DEF Acquire, CanAcquire, claimable_by
    <3>2. lease.expires_at \in Int
      BY DEF CycleInv, Shape, is_active, NoLease
    <3>3. is_active(lease, now)
      BY <3>2, ReadingsAreIntegers DEF is_active, lease_expiry_is_active
    <3> QED
      BY <3>1, <3>3
  <2>5. PICK w \in Workers, now \in Readings : Finalize(w, now)
    BY <2>1, <2>2, <2>3, <2>4 DEF CycleNext, Transaction
  <2>6. lease.owner_id = w /\ work[w].at = "complete"
    BY <2>5 DEF Finalize, Holding, is_active_for
  <2> QED
    BY <2>5, <2>6, FinalizeKeeps
<1> QED
  BY <1>1, AlwaysCycleInv, PTL DEF CycleSpec, LeaseHandover

(***************************************************************************)
(* retention_cutoff_cycle never prunes one of the newest Keep cycles and   *)
(* keeps no more, for every retention, also one that i64 does not hold.    *)
(***************************************************************************)
THEOREM NewestCyclesAreKept == CycleSpec => []NewestCyclesKept
BY AlwaysCycleInv, PTL DEF CycleInv

(***************************************************************************)
(* derive_cycle_runtime_status and claimable_by judge a lease alike: what  *)
(* is shown as open may be claimed by every worker, what is shown as taken *)
(* by nobody but the owner.                                                *)
(***************************************************************************)
THEOREM StatusIsHonest == CycleSpec => []StatusTellsWhoMayRun
<1>1. StatusTellsWhoMayRun
  <2> SUFFICES ASSUME settled < LastCycle, is_due(last_due, Cadence, 0), NEW w \in Workers
               PROVE  /\ RuntimeStatus = "open" => CanAcquire(w, 0)
                      /\ RuntimeStatus \in {"running", "finalizing", "paused"} /\ lease.owner_id # w
                           => ~CanAcquire(w, 0)
    BY DEF StatusTellsWhoMayRun
  <2> DEFINE runs == is_active(lease, 0)
             finalizes == finalizing_lease_is_active(finalizing, lease.expires_at, 0)
  <2>1. owned_lease_is_active(lease.owner_id, lease.expires_at, 0) <=> runs
    BY DEF owned_lease_is_active, is_active
  <2>2. RuntimeStatus = "open" => ~paused /\ ~finalizes /\ ~runs
    BY <2>1 DEF RuntimeStatus, derive_cycle_runtime_status
  <2>3. /\ RuntimeStatus = "paused" => paused
        /\ RuntimeStatus = "finalizing" => finalizes
        /\ RuntimeStatus = "running" => runs
    BY <2>1 DEF RuntimeStatus, derive_cycle_runtime_status
  <2>4. 0 * Second = 0
    OBVIOUS
  <2>5. RuntimeStatus = "open" => CanAcquire(w, 0)
    BY <2>2, <2>4 DEF CanAcquire, claimable_by
  <2> QED
    BY <2>3, <2>5 DEF CanAcquire, claimable_by
<1> QED
  BY <1>1, PTL

-----------------------------------------------------------------------------
(***************************************************************************)
(* FollowupRetries for any number of runners, follow-ups and attempts,     *)
(* every backoff policy and length of lease.                               *)
(*                                                                         *)
(* The inductive invariant relates the time at which a follow-up is due to *)
(* the time it has rested: whatever runners claim, lose or abandon it, the *)
(* one comes nearer no faster than the other grows.                        *)
(***************************************************************************)

HIDE CycleAssumption
USE FollowupAssumption

FollowupRow == [status : FollowupLabels, attempts : 0..max_attempts,
                next_at : Int \cup {None}, lease : LeaseState(Runners)]

(* A lease is held on a running row only, and what may run has an attempt left. *)
RowMayRun(row) ==
  /\ row.status \in {"pending", "running"} => row.attempts < max_attempts
  /\ row.lease.owner_id # None => row.status = "running"

(* The delay a row waits for, in the seconds of the table. *)
DelaySeconds(attempts) == duration_to_i64_seconds(delay_for_attempts(attempts - 1))

(* A pending row is due no earlier than its delay after it last failed. *)
RowRests(row, seconds) ==
  row.status = "pending" =>
    /\ row.next_at \in Int
    /\ row.attempts # 0 =>
         \/ seconds = MaxRested
         \/ row.next_at + seconds + RunLag >= DelaySeconds(row.attempts)

FollowupInv ==
  /\ FollowupTypeOK
  /\ \A f \in Followups : RowMayRun(followups[f]) /\ RowRests(followups[f], rested[f])

-----------------------------------------------------------------------------
(* Seconds of the table cover a delay that the table can hold.             *)
LEMMA RoundedSeconds ==
  ASSUME NEW d \in Nat
  PROVE  /\ duration_to_i64_seconds(d) \in 0..MaxI64
         /\ d <= MaxI64 * Second => duration_to_i64_seconds(d) * Second >= d
<1> DEFINE quot == d \div Second
           rest == d % Second
           rounded == quot + (IF rest # 0 THEN 1 ELSE 0)
<1>1. quot \in Nat /\ rest \in 0..(Second - 1) /\ d = Second * quot + rest
  OBVIOUS
<1>2. duration_to_i64_seconds(d) = i64(rounded)
  BY DEF duration_to_i64_seconds
<1> HIDE DEF quot, rest
<1>3. rounded \in Nat /\ rounded * Second >= d
  <2>1. CASE rest = 0
    BY <2>1, <1>1
  <2>2. CASE rest # 0
    <3>1. rounded = quot + 1 /\ (quot + 1) * Second = Second * quot + Second
      BY <2>2, <1>1
    <3> QED
      BY <3>1, <1>1
  <2> QED
    BY <2>1, <2>2
<1> HIDE DEF rounded
<1>4. i64(rounded) = IF rounded > MaxI64 THEN MaxI64 ELSE rounded
  BY <1>3 DEF i64
<1> QED
  BY <1>2, <1>3, <1>4

LEMMA DelaysAreSeconds ==
  ASSUME NEW attempts \in 1..max_attempts
  PROVE  /\ delay_for_attempts(attempts - 1) \in 0..RetryPolicy.max
         /\ DelaySeconds(attempts) \in 0..MaxI64
<1>1. attempts - 1 \in 0..max_attempts
  OBVIOUS
<1>2. capped_power(RetryPolicy, attempts - 1) \in Nat
  BY <1>1
<1>3. delay_for_attempts(attempts - 1) \in Nat
  BY <1>2 DEF delay_for_attempts, delay_for_attempt_index
<1>4. RetryPolicy.max \in Nat
  OBVIOUS
<1>5. delay_for_attempts(attempts - 1) <= RetryPolicy.max
  <2> DEFINE power == RetryPolicy.initial * RetryPolicy.multiplier^(attempts - 1)
  <2>1. delay_for_attempts(attempts - 1) = IF power < RetryPolicy.max THEN power ELSE RetryPolicy.max
    BY DEF delay_for_attempts, delay_for_attempt_index, capped_power
  <2> HIDE DEF power
  <2> QED
    BY <2>1, <1>3, <1>4
<1> QED
  BY <1>3, <1>4, <1>5, RoundedSeconds DEF DelaySeconds

LEMMA FollowupLabelsAsStored ==
  ASSUME NEW label \in FollowupLabels
  PROVE  followup_status_from_str(label) = label
BY DEF followup_status_from_str, FollowupLabels

LEMMA RestIsNatural == MaxRested \in Nat \ {0}
BY RoundedSeconds DEF MaxRested

LEMMA RunReadingsAreIntegers == \A now \in RunReadings : now \in Int /\ -RunLag <= now /\ now <= 0
BY DEF RunReadings

LEMMA RunLeasesAreLeases ==
  ASSUME NEW now \in Int, NEW r \in Runners
  PROVE  [owner_id |-> r, expires_at |-> lease_expires_at(now, RunTTL)] \in LeaseState(Runners)
<1>1. duration_to_i64_seconds(RunTTL) \in Int
  BY RoundedSeconds
<1>2. ttl_seconds(RunTTL) \in Int
  BY <1>1 DEF ttl_seconds
<1>3. lease_expires_at(now, RunTTL) \in Int
  BY <1>2, IntegerInI64 DEF lease_expires_at
<1> QED
  BY <1>3 DEF LeaseState

LEMMA NoLeaseIsALease == NoLease \in LeaseState(Runners) /\ NoLease.owner_id = None
BY DEF NoLease, LeaseState

LEMMA RowsAreTyped ==
  ASSUME FollowupInv, NEW f \in Followups
  PROVE  /\ followups[f] \in FollowupRow
         /\ followups[f].status \in FollowupLabels /\ followups[f].attempts \in 0..max_attempts
         /\ followups[f].next_at \in Int \cup {None} /\ followups[f].lease \in LeaseState(Runners)
         /\ FollowupStatus(f) = followups[f].status /\ rested[f] \in 0..MaxRested
<1>1. followups[f] \in FollowupRow /\ rested[f] \in 0..MaxRested
  BY DEF FollowupInv, FollowupTypeOK, FollowupRow
<1>2. followups[f].status \in FollowupLabels
  BY <1>1 DEF FollowupRow
<1> QED
  BY <1>1, <1>2, FollowupLabelsAsStored DEF FollowupRow, FollowupStatus

-----------------------------------------------------------------------------
(* What Recorded makes of a row. *)
LEMMA RecordedRow ==
  ASSUME NEW row \in FollowupRow, NEW status \in FollowupLabels, NEW now \in RunReadings,
         NEW lse \in LeaseState(Runners), lse.owner_id # None => status # "pending",
         status = "pending" => row.attempts # 0,
         status \in {"pending", "running"} => row.attempts < max_attempts
  PROVE  /\ Recorded(row, status, lse, now) \in FollowupRow
         /\ Recorded(row, status, lse, now).status = status
         /\ RowMayRun(Recorded(row, status, lse, now))
         /\ RowRests(Recorded(row, status, lse, now), 0)
<1> DEFINE new == Recorded(row, status, lse, now)
           seconds == DelaySeconds(row.attempts)
<1>1. row.attempts \in 0..max_attempts /\ now \in Int /\ -RunLag <= now /\ now <= 0
  BY RunReadingsAreIntegers DEF FollowupRow
<1>2. /\ new.status = status /\ new.attempts = row.attempts
      /\ new.next_at = IF status = "pending" THEN i64(now + seconds) ELSE None
      /\ new.lease = IF status \in {"complete", "exhausted"} THEN NoLease ELSE lse
  BY DEF Recorded, should_delay_retry, allows_lease, followup_is_terminal, DelaySeconds
<1>3. ASSUME status = "pending"
      PROVE  i64(now + seconds) \in Int /\ i64(now + seconds) + RunLag >= seconds
  <2>1. seconds \in 0..MaxI64
    BY <1>1, <1>3, DelaysAreSeconds
  <2> HIDE DEF seconds
  <2> QED
    BY <2>1, <1>1 DEF i64
<1>4. new.next_at \in Int \cup {None}
  BY <1>2, <1>3
<1>5. new.lease \in LeaseState(Runners)
  BY <1>2, NoLeaseIsALease
<1>6. new = [status |-> status, attempts |-> row.attempts, next_at |-> new.next_at, lease |-> new.lease]
  BY DEF Recorded
<1> HIDE DEF new
<1>7. new \in FollowupRow
  BY <1>1, <1>4, <1>5, <1>6 DEF FollowupRow
<1>8. RowMayRun(new)
  BY <1>2, NoLeaseIsALease DEF RowMayRun, FollowupLabels
<1>9. RowRests(new, 0)
  <2> SUFFICES ASSUME status = "pending"
               PROVE  /\ new.next_at \in Int
                      /\ new.next_at + 0 + RunLag >= DelaySeconds(new.attempts)
    BY <1>2 DEF RowRests
  <2>1. new.next_at = i64(now + seconds) /\ DelaySeconds(new.attempts) = seconds
    BY <1>2
  <2> HIDE DEF seconds
  <2> QED
    BY <2>1, <1>3
<1> QED
  BY <1>2, <1>7, <1>8, <1>9 DEF new

(* A row that is not pending, and one that is, may rest for any time. *)
LEMMA OneRowChanges ==
  ASSUME FollowupInv, NEW f \in Followups, NEW row \in FollowupRow, NEW seconds \in 0..MaxRested,
         RowMayRun(row), RowRests(row, seconds),
         followups' = [followups EXCEPT ![f] = row], rested' = [rested EXCEPT ![f] = seconds],
         running' \in [Runners -> Followups \cup {None}], run_faults' \in 0..RunFaults
  PROVE  FollowupInv'
<1>1. FollowupTypeOK'
  BY DEF FollowupInv, FollowupTypeOK, FollowupRow
<1>2. ASSUME NEW g \in Followups PROVE RowMayRun(followups'[g]) /\ RowRests(followups'[g], rested'[g])
  <2>1. CASE g = f
    <3>1. followups'[g] = row /\ rested'[g] = seconds
      BY <2>1 DEF FollowupInv, FollowupTypeOK
    <3> QED
      BY <3>1
  <2>2. CASE g # f
    <3>1. followups'[g] = followups[g] /\ rested'[g] = rested[g]
      BY <2>2 DEF FollowupInv, FollowupTypeOK
    <3> QED
      BY <3>1 DEF FollowupInv
  <2> QED
    BY <2>1, <2>2
<1> QED
  BY <1>1, <1>2 DEF FollowupInv

LEMMA FollowupInitial == FollowupInit => FollowupInv
<1> SUFFICES ASSUME FollowupInit PROVE FollowupInv
  OBVIOUS
<1> DEFINE row == [status |-> "pending", attempts |-> 0, next_at |-> 0, lease |-> NoLease]
<1>1. row \in FollowupRow
  BY NoLeaseIsALease DEF FollowupRow, FollowupLabels
<1>2. followups \in [Followups -> FollowupRow] /\ \A f \in Followups : followups[f] = row
  BY <1>1 DEF FollowupInit
<1>3. FollowupTypeOK
  BY <1>2, RestIsNatural DEF FollowupInit, FollowupTypeOK, FollowupRow
<1>4. RowMayRun(row) /\ \A seconds : RowRests(row, seconds)
  BY NoLeaseIsALease DEF RowMayRun, RowRests
<1> QED
  BY <1>2, <1>3, <1>4 DEF FollowupInv

LEMMA ClaimFollowupKeeps ==
  ASSUME FollowupInv, NEW r \in Runners, NEW f \in Followups, NEW now \in RunReadings,
         ClaimFollowup(r, f, now)
  PROVE  FollowupInv'
<1> DEFINE lse == [owner_id |-> r, expires_at |-> lease_expires_at(now, RunTTL)]
           row == Recorded(followups[f], "running", lse, now)
<1>1. lse \in LeaseState(Runners)
  BY RunReadingsAreIntegers, RunLeasesAreLeases
<1>2. followups[f] \in FollowupRow /\ followups[f].attempts < max_attempts
  BY RowsAreTyped DEF ClaimFollowup, Due, FollowupInv, RowMayRun
<1>3. "running" \in FollowupLabels
  BY DEF FollowupLabels
<1>4. followups' = [followups EXCEPT ![f] = row]
  BY DEF ClaimFollowup
<1> HIDE DEF lse
<1>5. row \in FollowupRow /\ RowMayRun(row) /\ row.status = "running"
  BY <1>1, <1>2, <1>3, RecordedRow
<1> HIDE DEF row
<1>6. RowRests(row, rested[f])
  BY <1>5 DEF RowRests
<1>7. /\ rested' = [rested EXCEPT ![f] = rested[f]] /\ rested[f] \in 0..MaxRested
      /\ running' \in [Runners -> Followups \cup {None}] /\ run_faults' \in 0..RunFaults
  BY DEF ClaimFollowup, FollowupInv, FollowupTypeOK
<1> QED
  BY <1>4, <1>5, <1>6, <1>7, OneRowChanges

(* A runner that finishes runs a row that is leased to it. *)
LEMMA RunnersRow ==
  ASSUME FollowupInv, NEW r \in Runners, NEW now \in RunReadings, running[r] # None,
         is_active_for(followups[running[r]].lease, r, now)
  PROVE  /\ running[r] \in Followups
         /\ followups[running[r]] \in FollowupRow
         /\ followups[running[r]].attempts \in 0..max_attempts - 1
         /\ followups[running[r]].status = "running"
<1>1. running[r] \in Followups
  BY DEF FollowupInv, FollowupTypeOK
<1>2. followups[running[r]].lease.owner_id = r /\ r # None
  BY DEF is_active_for
<1> QED
  BY <1>1, <1>2, RowsAreTyped DEF FollowupInv, RowMayRun

LEMMA SucceedKeeps ==
  ASSUME FollowupInv, NEW r \in Runners, NEW now \in RunReadings, Succeed(r, now)
  PROVE  FollowupInv'
<1> DEFINE f == running[r]
           lse == followups[f].lease
<1>1. running[r] # None /\ is_active_for(followups[f].lease, r, now)
  BY DEF Succeed, Finish
<1>2. PICK row : /\ row = Recorded(followups[f], "complete", lse, now)
                 /\ followups' = [followups EXCEPT ![f] = row]
  BY DEF Succeed, Finish
<1>3. f \in Followups /\ followups[f] \in FollowupRow /\ lse \in LeaseState(Runners)
  BY <1>1, RunnersRow, RowsAreTyped
<1>4. row \in FollowupRow /\ RowMayRun(row) /\ row.status = "complete"
  BY <1>2, <1>3, RecordedRow DEF FollowupLabels
<1>5. RowRests(row, rested[f])
  BY <1>4 DEF RowRests
<1>6. /\ rested' = [rested EXCEPT ![f] = rested[f]] /\ rested[f] \in 0..MaxRested
      /\ running' \in [Runners -> Followups \cup {None}] /\ run_faults' \in 0..RunFaults
  BY <1>3 DEF Succeed, Finish, FollowupInv, FollowupTypeOK
<1> HIDE DEF f
<1> QED
  BY <1>2, <1>3, <1>4, <1>5, <1>6, OneRowChanges

LEMMA FailRunKeeps ==
  ASSUME FollowupInv, NEW r \in Runners, NEW now \in RunReadings, FailRun(r, now)
  PROVE  FollowupInv'
<1>1. running[r] # None /\ is_active_for(followups[running[r]].lease, r, now)
  BY DEF FailRun, Finish
<1>2. PICK f \in Followups : /\ f = running[r] /\ followups[f] \in FollowupRow
                             /\ followups[f].attempts \in 0..max_attempts - 1
  BY <1>1, RunnersRow
<1>3. PICK failed : failed = [followups[f] EXCEPT !.attempts = @ + 1]
  OBVIOUS
<1>4. failed \in FollowupRow /\ failed.attempts = followups[f].attempts + 1
  BY <1>2, <1>3 DEF FollowupRow
<1>5. PICK status \in {"pending", "exhausted"} :
        /\ status = IF retry_exhausted(failed.attempts) THEN "exhausted" ELSE "pending"
        /\ followups' = [followups EXCEPT ![f] = Recorded(failed, status, NoLease, now)]
  BY <1>2, <1>3 DEF FailRun, Finish
<1>6. /\ status = "pending" => failed.attempts < max_attempts /\ failed.attempts # 0
      /\ status \in FollowupLabels /\ status # "running"
  BY <1>2, <1>4, <1>5 DEF retry_exhausted, attempts_exhausted, FollowupLabels
<1>7. PICK row : row = Recorded(failed, status, NoLease, now)
  OBVIOUS
<1>8. row \in FollowupRow /\ RowMayRun(row) /\ RowRests(row, 0)
  BY <1>4, <1>6, <1>7, RecordedRow, NoLeaseIsALease
<1>9. /\ followups' = [followups EXCEPT ![f] = row]
      /\ rested' = [rested EXCEPT ![f] = 0] /\ 0 \in 0..MaxRested
      /\ running' \in [Runners -> Followups \cup {None}] /\ run_faults' \in 0..RunFaults
  <2>1. /\ rested' = [rested EXCEPT ![f] = 0] /\ UNCHANGED run_faults
        /\ running' = [running EXCEPT ![r] = None]
    BY <1>2 DEF FailRun, Finish
  <2> QED
    BY <1>5, <1>7, <2>1, RestIsNatural DEF FollowupInv, FollowupTypeOK
<1> QED
  BY <1>8, <1>9, OneRowChanges

LEMMA SameRowsKeep ==
  ASSUME FollowupInv, UNCHANGED <<followups, rested>>,
         running' \in [Runners -> Followups \cup {None}], run_faults' \in 0..RunFaults
  PROVE  FollowupInv'
BY DEF FollowupInv, FollowupTypeOK

(* What a second does to a row. *)
LEMMA SecondOfARow ==
  ASSUME NEW row \in FollowupRow, NEW seconds \in 0..MaxRested,
         RowMayRun(row), RowRests(row, seconds), NEW new,
         new = [row EXCEPT !.next_at = Sooner(@), !.lease.expires_at = Sooner(@)]
  PROVE  /\ new \in FollowupRow /\ RowMayRun(new)
         /\ RowRests(new, IF seconds < MaxRested THEN seconds + 1 ELSE MaxRested)
<1>1. \A t \in Int \cup {None} : /\ Sooner(t) \in Int \cup {None}
                                 /\ t \in Int => Sooner(t) \in Int /\ Sooner(t) + 1 >= t
  BY DEF Sooner, LongPast
<1>2. /\ row.next_at \in Int \cup {None} /\ row.lease \in LeaseState(Runners)
      /\ row.attempts \in 0..max_attempts
  BY DEF FollowupRow
<1>3. PICK lse : lse = [row.lease EXCEPT !.expires_at = Sooner(@)]
  OBVIOUS
<1>4. lse \in LeaseState(Runners) /\ lse.owner_id = row.lease.owner_id
  <2>1. row.lease.expires_at \in Int \cup {None}
    BY <1>2 DEF LeaseState
  <2>2. Sooner(row.lease.expires_at) \in Int \cup {None}
    BY <2>1, <1>1
  <2> QED
    BY <1>2, <1>3, <2>2 DEF LeaseState
<1>5. new = [row EXCEPT !.next_at = Sooner(row.next_at), !.lease = lse]
  BY <1>3 DEF FollowupRow
<1>6. /\ new.status = row.status /\ new.attempts = row.attempts
      /\ new.next_at = Sooner(row.next_at) /\ new.lease = lse
  BY <1>5 DEF FollowupRow
<1>7. new \in FollowupRow
  <2>1. Sooner(row.next_at) \in Int \cup {None}
    BY <1>1, <1>2
  <2> QED
    BY <1>4, <1>5, <2>1 DEF FollowupRow
<1>8. RowMayRun(new)
  BY <1>4, <1>6 DEF RowMayRun
<1>9. ASSUME NEW later, later = (IF seconds < MaxRested THEN seconds + 1 ELSE MaxRested)
      PROVE  RowRests(new, later)
  <2> SUFFICES ASSUME row.status = "pending"
               PROVE  /\ new.next_at \in Int
                      /\ row.attempts # 0 =>
                           \/ later = MaxRested
                           \/ new.next_at + later + RunLag >= DelaySeconds(row.attempts)
    BY <1>6 DEF RowRests
  <2>1. /\ row.next_at \in Int
        /\ row.attempts # 0 => \/ seconds = MaxRested
                               \/ row.next_at + seconds + RunLag >= DelaySeconds(row.attempts)
    BY DEF RowRests
  <2>2. new.next_at \in Int /\ new.next_at + 1 >= row.next_at
    BY <1>1, <1>6, <2>1
  <2>3. ASSUME row.attempts # 0, seconds < MaxRested
        PROVE  new.next_at + later + RunLag >= DelaySeconds(row.attempts)
    <3>1. DelaySeconds(row.attempts) \in Int
      BY <1>2, <2>3, DelaysAreSeconds
    <3>2. later = seconds + 1 /\ row.next_at + seconds + RunLag >= DelaySeconds(row.attempts)
      BY <1>9, <2>1, <2>3, RestIsNatural
    <3> QED
      BY <3>1, <3>2, <2>1, <2>2, RestIsNatural
  <2> QED
    BY <2>2, <2>3, <1>9, RestIsNatural
<1> QED
  BY <1>7, <1>8, <1>9

LEMMA RetrySecondKeeps ==
  ASSUME FollowupInv, RetrySecond
  PROVE  FollowupInv'
<1>1. ASSUME NEW f \in Followups
      PROVE  /\ followups'[f] \in FollowupRow /\ RowMayRun(followups'[f])
             /\ RowRests(followups'[f], rested'[f]) /\ rested'[f] \in 0..MaxRested
  <2>1. /\ followups'[f] = [followups[f] EXCEPT !.next_at = Sooner(@), !.lease.expires_at = Sooner(@)]
        /\ rested'[f] = IF rested[f] < MaxRested THEN rested[f] + 1 ELSE MaxRested
    BY DEF RetrySecond
  <2>2. /\ followups[f] \in FollowupRow /\ rested[f] \in 0..MaxRested
        /\ RowMayRun(followups[f]) /\ RowRests(followups[f], rested[f])
    BY RowsAreTyped DEF FollowupInv
  <2>3. rested'[f] \in 0..MaxRested
    BY <2>1, <2>2, RestIsNatural
  <2> QED
    BY <2>1, <2>2, <2>3, SecondOfARow
<1>2. /\ followups' = [f \in Followups |-> followups'[f]] /\ rested' = [f \in Followups |-> rested'[f]]
      /\ running' = running /\ run_faults' \in 0..RunFaults
  <2>1. followups' = [f \in Followups |-> followups'[f]]
    BY DEF RetrySecond
  <2>2. rested' = [f \in Followups |-> rested'[f]]
    BY DEF RetrySecond
  <2>3. running' = running /\ (run_faults' = run_faults \/ RunFault)
    BY DEF RetrySecond
  <2>4. run_faults' \in 0..RunFaults
    BY <2>3 DEF RunFault, FollowupInv, FollowupTypeOK
  <2> QED
    BY <2>1, <2>2, <2>3, <2>4
<1>3. FollowupTypeOK'
  BY <1>1, <1>2 DEF FollowupInv, FollowupTypeOK, FollowupRow
<1> QED
  BY <1>1, <1>3 DEF FollowupInv

LEMMA FollowupStep == FollowupInv /\ [FollowupNext]_followupVars => FollowupInv'
<1> SUFFICES ASSUME FollowupInv, [FollowupNext]_followupVars PROVE FollowupInv'
  OBVIOUS
<1>1. CASE RetrySecond
  BY <1>1, RetrySecondKeeps
<1>2. ASSUME NEW r \in Runners, CrashRun(r) PROVE FollowupInv'
  <2>1. /\ UNCHANGED <<followups, rested>>
        /\ running' \in [Runners -> Followups \cup {None}] /\ run_faults' \in 0..RunFaults
    BY <1>2 DEF CrashRun, RunFault, FollowupInv, FollowupTypeOK
  <2> QED
    BY <2>1, SameRowsKeep
<1>3. ASSUME NEW r \in Runners, NEW now \in RunReadings, RunnerStep(r, now) PROVE FollowupInv'
  <2>1. CASE RunFenced(r, now)
    <3>1. /\ UNCHANGED <<followups, rested>>
          /\ running' \in [Runners -> Followups \cup {None}] /\ run_faults' \in 0..RunFaults
      BY <2>1 DEF RunFenced, FollowupInv, FollowupTypeOK
    <3> QED
      BY <3>1, SameRowsKeep
  <2> QED
    BY <1>3, <2>1, ClaimFollowupKeeps, SucceedKeeps, FailRunKeeps DEF RunnerStep
<1>4. CASE UNCHANGED followupVars
  <2>1. UNCHANGED <<followups, rested, running, run_faults>>
    BY <1>4 DEF followupVars
  <2> QED
    BY <2>1 DEF FollowupInv, FollowupTypeOK
<1> QED
  BY <1>1, <1>2, <1>3, <1>4 DEF FollowupNext

LEMMA AlwaysFollowupInv == FollowupSpec => []FollowupInv
BY FollowupInitial, FollowupStep, PTL DEF FollowupSpec

(***************************************************************************)
(* A row of the table is well formed after every claim, run, crash and     *)
(* retry: no attempt is made beyond max_attempts (attempts_exhausted).     *)
(***************************************************************************)
THEOREM FollowupTypeCorrect == FollowupSpec => []FollowupTypeOK
BY AlwaysFollowupInv, PTL DEF FollowupInv

(***************************************************************************)
(* No runner claims a failed follow-up before the delay of                 *)
(* delay_for_attempts is over, but for the age of the clock reading it     *)
(* failed with.  The hypothesis says that the longest delay is one the     *)
(* table can hold, which duration_to_i64_seconds would else shorten to     *)
(* i64::MAX seconds.                                                       *)
(***************************************************************************)
THEOREM RetriesWait ==
  ASSUME RetryPolicy.max <= MaxI64 * Second
  PROVE  FollowupSpec => NoRetryEarly
<1> DEFINE Waits == \A f \in Followups :
             FollowupStatus(f) = "pending" /\ followups'[f].status = "running"
               => \/ followups[f].attempts = 0
                  \/ (rested[f] + RunLag) * Second >= capped_power(RetryPolicy, followups[f].attempts - 1)
<1>1. FollowupInv /\ [FollowupNext]_followupVars => [Waits]_followupVars
  <2> SUFFICES ASSUME FollowupInv, FollowupNext, NEW f \in Followups,
                      FollowupStatus(f) = "pending", followups'[f].status = "running",
                      followups[f].attempts # 0
               PROVE  (rested[f] + RunLag) * Second
                        >= capped_power(RetryPolicy, followups[f].attempts - 1)
    OBVIOUS
  <2>0. /\ followups[f] \in FollowupRow /\ followups[f].status = "pending"
        /\ followups[f].attempts \in 1..max_attempts /\ rested[f] \in 0..MaxRested
        /\ followups \in [Followups -> FollowupRow]
    BY RowsAreTyped DEF FollowupInv, FollowupTypeOK, FollowupRow
  <2>1. PICK r \in Runners, now \in RunReadings : ClaimFollowup(r, f, now)
    <3>1. ~RetrySecond
      <4> SUFFICES ASSUME RetrySecond PROVE FALSE
        OBVIOUS
      <4>1. followups'[f] = [followups[f] EXCEPT !.next_at = Sooner(@), !.lease.expires_at = Sooner(@)]
        BY DEF RetrySecond
      <4>2. followups'[f].status = followups[f].status
        BY <4>1, <2>0 DEF FollowupRow
      <4> QED
        BY <4>2, <2>0
    <3>2. ASSUME NEW r \in Runners PROVE ~CrashRun(r)
      BY <2>0 DEF CrashRun
    <3>3. ASSUME NEW r \in Runners, NEW now \in RunReadings PROVE ~RunFenced(r, now)
      BY <2>0 DEF RunFenced
    <3>4. ASSUME NEW r \in Runners, NEW now \in RunReadings
          PROVE  ~Succeed(r, now) /\ ~FailRun(r, now)
      <4>1. ASSUME NEW status \in {"complete", "exhausted", "pending"}, NEW row, NEW lse,
                   followups' = [followups EXCEPT ![running[r]] = Recorded(row, status, lse, now)]
            PROVE  FALSE
        <5>1. Recorded(row, status, lse, now).status = status
          BY DEF Recorded
        <5> QED
          BY <4>1, <5>1, <2>0
      <4> QED
        BY <4>1 DEF Succeed, FailRun, Finish
    <3>5. ASSUME NEW r \in Runners, NEW now \in RunReadings, NEW g \in Followups, ClaimFollowup(r, g, now)
          PROVE  g = f
      BY <3>5, <2>0 DEF ClaimFollowup
    <3> QED
      BY <3>1, <3>2, <3>3, <3>4, <3>5 DEF FollowupNext, RunnerStep
  <2>2. followups[f].next_at <= now /\ now \in Int /\ now <= 0
    BY <2>0, <2>1, RowsAreTyped, RunReadingsAreIntegers DEF ClaimFollowup, Due
  <2>3. /\ followups[f].next_at \in Int
        /\ \/ rested[f] = MaxRested
           \/ followups[f].next_at + rested[f] + RunLag >= DelaySeconds(followups[f].attempts)
    BY <2>0 DEF FollowupInv, RowRests
  <2>4. PICK delay \in Nat : /\ delay = capped_power(RetryPolicy, followups[f].attempts - 1)
                             /\ delay <= RetryPolicy.max
                             /\ DelaySeconds(followups[f].attempts) = duration_to_i64_seconds(delay)
    BY <2>0, DelaysAreSeconds DEF DelaySeconds, delay_for_attempts, delay_for_attempt_index
  <2>5. CASE rested[f] = MaxRested
    <3>1. duration_to_i64_seconds(RetryPolicy.max) * Second >= RetryPolicy.max
      BY RoundedSeconds
    <3>2. PICK longest \in Nat : longest = duration_to_i64_seconds(RetryPolicy.max)
      BY RoundedSeconds
    <3>3. rested[f] + RunLag = longest + (1 + RunLag)
      BY <2>5, <3>2 DEF MaxRested
    <3>4. (longest + (1 + RunLag)) * Second = longest * Second + (1 + RunLag) * Second
      OBVIOUS
    <3>5. (1 + RunLag) * Second >= 0
      OBVIOUS
    <3> QED
      BY <2>4, <3>1, <3>2, <3>3, <3>4, <3>5
  <2>6. CASE followups[f].next_at + rested[f] + RunLag >= DelaySeconds(followups[f].attempts)
    <3>1. PICK seconds \in Nat : /\ seconds = duration_to_i64_seconds(delay)
                                 /\ seconds * Second >= delay
      BY <2>4, RoundedSeconds
    <3>2. rested[f] + RunLag >= seconds
      BY <2>0, <2>2, <2>3, <2>4, <2>6, <3>1
    <3>3. PICK more \in Nat : rested[f] + RunLag = seconds + more
      <4>1. rested[f] + RunLag - seconds \in Nat
        BY <3>1, <3>2, <2>0
      <4> QED
        BY <4>1, <3>1, <2>0
    <3>4. (seconds + more) * Second = seconds * Second + more * Second /\ more * Second >= 0
      OBVIOUS
    <3> QED
      BY <2>4, <3>1, <3>3, <3>4
  <2> QED
    BY <2>3, <2>5, <2>6
<1> QED
  BY <1>1, AlwaysFollowupInv, PTL DEF FollowupSpec, NoRetryEarly

-----------------------------------------------------------------------------
(***************************************************************************)
(* NotificationDelivery for any number of versions, senders, attempts and  *)
(* faults.                                                                 *)
(*                                                                         *)
(* What is under way counts as if it had happened: the inductive invariant *)
(* gives each version room for one more publish, or delivery, wherever the *)
(* code may start one without an excuse.                                   *)
(***************************************************************************)

HIDE FollowupAssumption
USE DeliveryAssumption

(* The fanout of v may be claimed without an abandoned claim before it. *)
MayPublish(v) == v > version \/ (v = version /\ broadcast = "ready")

Publishing(v) == reached[<<"fanout", v>>] + One(caster = v)

FanoutRoom ==
  \A v \in Versions : Publishing(v) <= excused[<<"fanout", v>>] + One(~MayPublish(v))

(* Senders that may still reach the recipient of v, whoever has claimed it since. *)
InFlight(v) == {s \in Senders : senders[s] # None /\ senders[s].version = v /\ senders[s].outcome = None}

(* The delivery of v may be claimed, now or when its sender has finalized, *)
(* without an abandoned claim before it.                                   *)
MayDeliver(v) ==
  \/ outbox[v].status \in {"none", "Pending"}
  \/ /\ outbox[v].status = "Running"
     /\ \E s \in Senders : /\ outbox[v].token = s /\ senders[s] # None
                           /\ senders[s].version = v /\ senders[s].outcome = "RetryableFailure"

Delivering(v) == reached[<<"provider", v>>] + Cardinality(InFlight(v))

RoomToDeliver(v) == Delivering(v) <= excused[<<"provider", v>>] + One(~MayDeliver(v))

DeliveryRoom == \A v \in Versions : RoomToDeliver(v)

(* No attempt is started when none is left. *)
AttemptsLeft ==
  \A v \in Versions :
    outbox[v].status \in {"none", "Pending", "Running"} => outbox[v].completed < DeliveryAttempts

(* A letter that is left behind shows in the report. *)
LeftIsReported ==
  pass # None =>
    /\ pass.report.changed <= pass.report.eligible
    /\ pass.left # {} => pass.report.changed < pass.report.eligible

DeliveryInv == DeliveryTypeOK /\ FanoutRoom /\ DeliveryRoom /\ AttemptsLeft /\ LeftIsReported

-----------------------------------------------------------------------------
LEMMA OneIsBit == ASSUME NEW b \in BOOLEAN PROVE One(b) \in {0, 1} /\ (b => One(b) = 1) /\ (~b => One(b) = 0)
BY DEF One

LEMMA WaysAreTold ==
  /\ \A v \in Versions : <<"fanout", v>> \in Ways /\ <<"provider", v>> \in Ways
  /\ \A v, w \in Versions : <<"fanout", v>> # <<"provider", w>>
  /\ \A v, w \in Versions : v # w => <<"fanout", v>> # <<"fanout", w>>
  /\ \A v, w \in Versions : v # w => <<"provider", v>> # <<"provider", w>>
BY DEF Ways

LEMMA Outcomes == \A o \in ProviderOutcomes : as_delivery_outcome(o) \in DeliveryAttemptOutcome
BY DEF ProviderOutcomes, ProviderFailureClass, as_provider_outcome, as_delivery_outcome,
       DeliveryAttemptOutcome

(* After an attempt that was left, the row is within the limit again. *)
LEMMA AfterAttempt ==
  ASSUME NEW row \in Delivery, row.completed < DeliveryAttempts, NEW outcome \in DeliveryAttemptOutcome
  PROVE  LET after == After(row, outcome) IN
         /\ after.status \in DeliveryStatus /\ after.status # "Running"
         /\ after.completed \in 0..DeliveryAttempts
         /\ after.status = "Pending" => after.completed < DeliveryAttempts /\ outcome = "RetryableFailure"
         /\ after.reason \in DeadLetterReason \cup {None}
<1> DEFINE attempts == next_attempt(row.completed)
<1>1. row.completed \in 0..DeliveryAttempts
  BY DEF Delivery
<1>2. attempts \in 0..DeliveryAttempts
  BY <1>1 DEF next_attempt, attempt_from_completed_count
<1>3. CASE outcome = "Delivered"
  BY <1>1, <1>3 DEF After, DeliveryStatus, DeadLetterReason
<1>4. CASE outcome = "PermanentFailure"
  BY <1>2, <1>4 DEF After, DeliveryStatus, DeadLetterReason
<1>5. CASE outcome = "AmbiguousAfterSideEffect"
  BY <1>2, <1>5 DEF After, DeliveryStatus, DeadLetterReason
<1>6. CASE outcome = "RetryableFailure"
  BY <1>2, <1>6 DEF After, DeliveryStatus, DeadLetterReason, attempts_exhausted
<1> QED
  BY <1>3, <1>4, <1>5, <1>6 DEF DeliveryAttemptOutcome

LEMMA NewDeliveries ==
  LET again == [NoDelivery EXCEPT !.status = "Pending"] IN
  /\ NoDelivery \in Delivery /\ NoDelivery.status = "none" /\ NoDelivery.completed = 0
  /\ again \in Delivery /\ again.status = "Pending" /\ again.completed = 0 /\ again.token = None
<1>1. [NoDelivery EXCEPT !.status = "Pending"]
        = [status |-> "Pending", completed |-> 0, token |-> None, leased |-> FALSE]
  <2>1. \A no : [[status |-> "none", completed |-> 0, token |-> None, leased |-> no] EXCEPT !.status = "Pending"]
                   = [status |-> "Pending", completed |-> 0, token |-> None, leased |-> no]
    OBVIOUS
  <2> QED
    BY <2>1, Zenon DEF NoDelivery
<1>2. "Pending" \in DeliveryStatus /\ 0 \in 0..DeliveryAttempts
  BY DEF DeliveryStatus
<1> QED
  BY <1>1, <1>2, Zenon DEF NoDelivery, Delivery

LEMMA LettersAreTyped ==
  ASSUME NEW kind \in {"fanout", "provider"}, NEW v \in Versions, NEW reason \in DeadLetterReason
  PROVE  letter(kind, v, reason) \in Letter
BY DEF letter, Letter, Ways

LEMMA Counted ==
  ASSUME NEW count \in [Ways -> Nat], NEW way \in Ways, NEW n \in Nat
  PROVE  [count EXCEPT ![way] = @ + n] \in [Ways -> Nat]
OBVIOUS

LEMMA CountedOnce ==
  ASSUME NEW count \in [Ways -> Nat], NEW kind \in {"fanout", "provider"}, NEW n \in Nat,
         NEW v \in Versions, NEW u \in Versions
  PROVE  LET counted == [count EXCEPT ![<<kind, v>>] = @ + n] IN
         /\ count[<<kind, u>>] \in Nat
         /\ counted[<<kind, u>>] = count[<<kind, u>>] + (IF u = v THEN n ELSE 0)
         /\ \A other \in {"fanout", "provider"} \ {kind} : counted[<<other, u>>] = count[<<other, u>>]
BY DEF Ways

LEMMA Reports ==
  ASSUME NEW run \in Report, NEW action \in OperatorAction, NEW changed \in BOOLEAN,
         NEW warning \in BOOLEAN, changed => action # "Noop"
  PROVE  LET next == repair_recorded(run, action, changed, warning) IN
         /\ next \in Report
         /\ run.changed <= run.eligible => next.changed <= next.eligible
         /\ run.changed < run.eligible => next.changed < next.eligible
         /\ run.changed <= run.eligible /\ ~changed /\ action # "Noop" => next.changed < next.eligible
BY DEF repair_recorded, Report, One

-----------------------------------------------------------------------------
(* Everything stays well formed, and no attempt is begun in excess.        *)
Typed == DeliveryTypeOK /\ AttemptsLeft

(* What a repair does, taken apart. *)
LEMMA RepairTypes ==
  ASSUME Typed, pass # None, NEW l \in pass.todo, NEW action \in OperatorAction, Repair(l, action)
  PROVE  Typed'
<1> DEFINE changed == ~pass.dry_run /\ CanRepair(l, action)
           retry == changed /\ action = "Retry"
<1>1. pass.report \in Report /\ l \in Letter /\ pass.todo \subseteq Letter /\ pass.left \subseteq Letter
  BY DEF Typed, DeliveryTypeOK
<1>2. l.way \in Ways /\ l.way[2] \in Versions
  BY <1>1 DEF Letter, Ways
<1>3. changed \in BOOLEAN /\ retry \in BOOLEAN /\ (changed => action # "Noop")
  BY DEF CanRepair
<1>4. pass' \in [dry_run : BOOLEAN, todo : SUBSET Letter, report : Report, left : SUBSET Letter]
  <2>1. PICK warning \in BOOLEAN :
          pass' = [pass EXCEPT !.todo = @ \ {l},
                               !.report = repair_recorded(@, action, changed, warning),
                               !.left = IF changed \/ action = "Noop" THEN @ ELSE @ \cup {l}]
    BY DEF Repair
  <2>2. repair_recorded(pass.report, action, changed, warning) \in Report
    BY <1>1, <1>3, Reports
  <2> QED
    BY <1>1, <2>1, <2>2 DEF Typed, DeliveryTypeOK
<1>5. letters' \subseteq Letter
  BY DEF Repair, Typed, DeliveryTypeOK
<1>6. excused' \in [Ways -> Nat]
  BY <1>2, <1>3 DEF Repair, Typed, DeliveryTypeOK, One
<1>7. broadcast' \in {"ready", "claimed", "broadcasted", "ambiguous"}
  BY DEF Repair, Typed, DeliveryTypeOK
<1>8. outbox' \in [Versions -> Delivery]
  BY <1>2, NewDeliveries DEF Repair, Typed, DeliveryTypeOK
<1>9. AttemptsLeft'
  BY <1>2, NewDeliveries DEF Repair, Typed, AttemptsLeft, DeliveryTypeOK
<1> QED
  BY <1>4, <1>5, <1>6, <1>7, <1>8, <1>9 DEF Repair, Typed, DeliveryTypeOK

LEMMA StatusChanges ==
  ASSUME NEW row \in Delivery, NEW st \in DeliveryStatus \cup {"none"}
  PROVE  /\ [row EXCEPT !.status = st] \in Delivery
         /\ [row EXCEPT !.status = st].status = st
         /\ [row EXCEPT !.status = st].completed = row.completed
         /\ [row EXCEPT !.status = st].token = row.token
BY DEF Delivery

LEMMA LeaseChanges ==
  ASSUME NEW row \in Delivery
  PROVE  LET ended == [row EXCEPT !.leased = FALSE] IN
         /\ ended \in Delivery /\ ended.status = row.status
         /\ ended.completed = row.completed /\ ended.token = row.token
BY DEF Delivery

LEMMA ClaimChanges ==
  ASSUME NEW row \in Delivery, NEW s \in Senders
  PROVE  LET claimed == [row EXCEPT !.status = "Running", !.token = s, !.leased = TRUE] IN
         /\ claimed \in Delivery /\ claimed.status = "Running"
         /\ claimed.completed = row.completed /\ claimed.token = s
BY DEF Delivery, DeliveryStatus

LEMMA TypesKeep ==
  ASSUME Typed, DeliveryNext
  PROVE  Typed'
<1>1. CASE Recur
  <2>1. version' \in Versions
    <3>1. next_version(version) # None
      BY <1>1 DEF Recur, recurrence_decision
    <3> QED
      BY <1>1, <3>1 DEF Recur, reopen_effects, next_version, Typed, DeliveryTypeOK, Versions
  <2> QED
    BY <1>1, <2>1 DEF Recur, reopen_effects, Typed, DeliveryTypeOK, AttemptsLeft, sendVars, historyVars
<1>2. CASE ClaimBroadcast
  <2>1. excused' \in [Ways -> Nat]
    BY <1>2, WaysAreTold, Counted DEF ClaimBroadcast, Typed, DeliveryTypeOK, One
  <2> QED
    BY <1>2, <2>1 DEF ClaimBroadcast, Typed, DeliveryTypeOK, AttemptsLeft, sendVars
<1>3. ASSUME NEW publish \in Publishes, FinishBroadcast(publish) PROVE Typed'
  <2>1. caster \in Versions /\ outbox[caster] \in Delivery
    BY <1>3 DEF FinishBroadcast, Typed, DeliveryTypeOK
  <2>2. outbox' \in [Versions -> Delivery] /\ AttemptsLeft'
    <3> DEFINE st == IF outbox[caster].status = "none" THEN "Pending" ELSE outbox[caster].status
               row == [outbox[caster] EXCEPT !.status = st]
    <3>1. st \in DeliveryStatus \cup {"none"}
      BY <2>1 DEF Delivery, DeliveryStatus
    <3>2. row \in Delivery /\ row.status = st /\ row.completed = outbox[caster].completed
      BY <2>1, <3>1, StatusChanges
    <3>3. outbox' = outbox \/ outbox' = [outbox EXCEPT ![caster] = row]
      BY <1>3 DEF FinishBroadcast
    <3>4. st \in {"none", "Pending", "Running"} => outbox[caster].status \in {"none", "Pending", "Running"}
      OBVIOUS
    <3> HIDE DEF row, st
    <3> QED
      BY <2>1, <3>2, <3>3, <3>4 DEF Typed, DeliveryTypeOK, AttemptsLeft
  <2>4. reached' \in [Ways -> Nat]
    <3>1. PICK effect \in {0, 1} : reached' = [reached EXCEPT ![<<"fanout", caster>>] = @ + effect]
      BY <1>3 DEF FinishBroadcast
    <3> QED
      BY <2>1, <3>1, WaysAreTold, Counted DEF Typed, DeliveryTypeOK
  <2>5. letters' \subseteq Letter
    BY <1>3, <2>1, LettersAreTyped DEF FinishBroadcast, Typed, DeliveryTypeOK, DeadLetterReason
  <2>6. delivery_faults' \in 0..DeliveryFaults
    BY <1>3 DEF FinishBroadcast, DeliveryFault, Typed, DeliveryTypeOK
  <2>7. broadcast' \in {"ready", "claimed", "broadcasted", "ambiguous"} /\ caster' = None
    BY <1>3 DEF FinishBroadcast, Typed, DeliveryTypeOK
  <2> QED
    BY <1>3, <2>2, <2>4, <2>5, <2>6, <2>7 DEF FinishBroadcast, Typed, DeliveryTypeOK
<1>4. CASE CrashBroadcaster
  BY <1>4 DEF CrashBroadcaster, DeliveryFault, Typed, DeliveryTypeOK, AttemptsLeft, itemVars,
              sendVars, historyVars
<1>5. CASE FinishPass
  BY <1>5 DEF FinishPass, Typed, DeliveryTypeOK, AttemptsLeft, itemVars, sendVars, historyVars
<1>6. ASSUME NEW flag \in Marks, UserMarks(flag) PROVE Typed'
  BY <1>6 DEF UserMarks, Typed, DeliveryTypeOK, AttemptsLeft, sendVars, historyVars
<1>7. ASSUME NEW s \in Senders, Deliver(s) PROVE Typed'
  <2>1. senders[s] \in Claimed
    BY <1>7 DEF Deliver, Typed, DeliveryTypeOK
  <2>2. senders' \in [Senders -> Claimed \cup {None}]
    BY <1>7, <2>1, Outcomes DEF Deliver, Typed, DeliveryTypeOK, Claimed
  <2>3. reached' \in [Ways -> Nat]
    <3>1. PICK effect \in {0, 1} : reached' = [reached EXCEPT ![<<"provider", senders[s].version>>] = @ + effect]
      BY <1>7 DEF Deliver
    <3>2. senders[s].version \in Versions
      BY <2>1 DEF Claimed
    <3> QED
      BY <3>1, <3>2, WaysAreTold, Counted DEF Typed, DeliveryTypeOK
  <2> QED
    BY <1>7, <2>2, <2>3 DEF Deliver, Typed, DeliveryTypeOK, AttemptsLeft, itemVars
<1>8. ASSUME NEW s \in Senders, FinalizeDelivery(s) PROVE Typed'
  <2> DEFINE v == senders[s].version
             after == After(outbox[v], senders[s].outcome)
  <2>1. v \in Versions /\ senders[s].outcome \in DeliveryAttemptOutcome /\ outbox[v] \in Delivery
    BY <1>8 DEF FinalizeDelivery, Typed, DeliveryTypeOK, Claimed
  <2>2. CASE outbox[v].status = "Running" /\ outbox[v].token = s
    <3>1. outbox[v].completed < DeliveryAttempts
      BY <2>1, <2>2 DEF Typed, AttemptsLeft
    <3>2. /\ after.status \in DeliveryStatus /\ after.status # "Running"
          /\ after.completed \in 0..DeliveryAttempts
          /\ after.status = "Pending" => after.completed < DeliveryAttempts
          /\ after.reason \in DeadLetterReason \cup {None}
      BY <2>1, <3>1, AfterAttempt
    <3> DEFINE row == [status |-> after.status, completed |-> after.completed,
                       token |-> None, leased |-> FALSE]
    <3>3. outbox' = [outbox EXCEPT ![v] = row]
      BY <1>8, <2>2 DEF FinalizeDelivery
    <3>4. row \in Delivery /\ row.status = after.status /\ row.completed = after.completed
      BY <3>2, Zenon DEF Delivery
    <3> HIDE DEF row, after
    <3>5. outbox' \in [Versions -> Delivery] /\ AttemptsLeft'
      <4> HIDE DEF v
      <4>1. outbox \in [Versions -> Delivery] /\ AttemptsLeft
        BY DEF Typed, DeliveryTypeOK
      <4>2. row.status \in {"none", "Pending", "Running"} => row.completed < DeliveryAttempts
        BY <3>2, <3>4 DEF DeliveryStatus
      <4> QED
        BY <2>1, <3>3, <3>4, <4>1, <4>2 DEF AttemptsLeft
    <3>6. letters' \subseteq Letter
      <4>1. after.reason # None => letter("provider", v, after.reason) \in Letter
        BY <2>1, <3>2, WaysAreTold DEF letter, Letter
      <4>2. letters' = IF after.reason = None THEN letters
                       ELSE letters \cup {letter("provider", v, after.reason)}
        BY <1>8, <2>2 DEF FinalizeDelivery, after
      <4> QED
        BY <4>1, <4>2 DEF Typed, DeliveryTypeOK
    <3> QED
      BY <1>8, <3>5, <3>6 DEF FinalizeDelivery, Typed, DeliveryTypeOK, itemVars, historyVars
  <2>3. CASE ~(outbox[v].status = "Running" /\ outbox[v].token = s)
    BY <1>8, <2>3 DEF FinalizeDelivery, Typed, DeliveryTypeOK, AttemptsLeft, itemVars, historyVars
  <2> QED
    BY <2>2, <2>3
<1>9. ASSUME NEW s \in Senders, NEW v \in Versions, ClaimDelivery(s, v) PROVE Typed'
  <2>1. outbox[v] \in Delivery /\ outbox[v].completed < DeliveryAttempts
    BY <1>9 DEF ClaimDelivery, Typed, DeliveryTypeOK, AttemptsLeft
  <2>2. PICK row \in Delivery : /\ outbox' = [outbox EXCEPT ![v] = row]
                                /\ row.status # "Failed" => row.completed < DeliveryAttempts
    <3>1. \/ outbox' = [outbox EXCEPT ![v] = [@ EXCEPT !.status = "Running", !.token = s, !.leased = TRUE]]
          \/ outbox' = [outbox EXCEPT ![v] = [@ EXCEPT !.status = "Failed"]]
      BY <1>9 DEF ClaimDelivery
    <3>2. outbox[v] \in Delivery /\ outbox \in [Versions -> Delivery]
      BY DEF Typed, DeliveryTypeOK
    <3>3. CASE outbox' = [outbox EXCEPT ![v] = [@ EXCEPT !.status = "Running", !.token = s, !.leased = TRUE]]
      <4> DEFINE row == [outbox[v] EXCEPT !.status = "Running", !.token = s, !.leased = TRUE]
      <4>1. row \in Delivery /\ row.completed = outbox[v].completed
        BY <3>2, ClaimChanges
      <4>2. outbox' = [outbox EXCEPT ![v] = row]
        BY <3>2, <3>3
      <4> HIDE DEF row
      <4> QED
        BY <2>1, <4>1, <4>2
    <3>4. CASE outbox' = [outbox EXCEPT ![v] = [@ EXCEPT !.status = "Failed"]]
      <4> DEFINE row == [outbox[v] EXCEPT !.status = "Failed"]
      <4>1. row \in Delivery /\ row.status = "Failed"
        <5>1. "Failed" \in DeliveryStatus \cup {"none"}
          BY DEF DeliveryStatus
        <5> QED
          BY <3>2, <5>1, StatusChanges
      <4>2. outbox' = [outbox EXCEPT ![v] = row]
        BY <3>2, <3>4
      <4> HIDE DEF row
      <4> QED
        BY <4>1, <4>2
    <3> QED
      BY <3>1, <3>3, <3>4
  <2>3. outbox' \in [Versions -> Delivery] /\ AttemptsLeft'
    BY <2>2 DEF Typed, DeliveryTypeOK, AttemptsLeft
  <2>4. senders' \in [Senders -> Claimed \cup {None}]
    BY <1>9 DEF ClaimDelivery, Typed, DeliveryTypeOK, Claimed
  <2>5. excused' \in [Ways -> Nat]
    BY <1>9, WaysAreTold DEF ClaimDelivery, Typed, DeliveryTypeOK, One
  <2>6. letters' \subseteq Letter
    BY <1>9, LettersAreTyped DEF ClaimDelivery, Typed, DeliveryTypeOK, DeadLetterReason
  <2> QED
    BY <1>9, <2>2, <2>3, <2>4, <2>5, <2>6 DEF ClaimDelivery, Typed, DeliveryTypeOK, itemVars
<1>10. ASSUME NEW s \in Senders, CrashSender(s) PROVE Typed'
  BY <1>10 DEF CrashSender, DeliveryFault, Typed, DeliveryTypeOK, AttemptsLeft, itemVars, historyVars
<1>11. ASSUME NEW v \in Versions, LeaseEnds(v) PROVE Typed'
  <2>1. outbox[v] \in Delivery
    BY DEF Typed, DeliveryTypeOK
  <2>2. outbox' \in [Versions -> Delivery] /\ AttemptsLeft'
    <3> DEFINE row == [outbox[v] EXCEPT !.leased = FALSE]
    <3>1. outbox' = [outbox EXCEPT ![v] = row]
      BY <1>11 DEF LeaseEnds
    <3>2. row \in Delivery /\ row.status = outbox[v].status /\ row.completed = outbox[v].completed
      BY <2>1, LeaseChanges
    <3> HIDE DEF row
    <3> QED
      BY <3>1, <3>2 DEF Typed, DeliveryTypeOK, AttemptsLeft
  <2>3. delivery_faults' \in 0..DeliveryFaults
    BY <1>11 DEF LeaseEnds, DeliveryFault, Typed, DeliveryTypeOK
  <2> QED
    BY <1>11, <2>2, <2>3 DEF LeaseEnds, Typed, DeliveryTypeOK, itemVars, historyVars
<1>12. ASSUME NEW dry_run \in BOOLEAN, StartPass(dry_run) PROVE Typed'
  <2>1. pass' \in [dry_run : BOOLEAN, todo : SUBSET Letter, report : Report, left : SUBSET Letter]
    <3>1. pass' = [dry_run |-> dry_run, todo |-> letters, report |-> NoReport, left |-> {}]
      BY <1>12 DEF StartPass, NoPass
    <3>2. letters \subseteq Letter /\ NoReport \in Report
      BY DEF Typed, DeliveryTypeOK, NoReport, Report
    <3> QED
      BY <3>1, <3>2, Zenon
  <2> QED
    BY <1>12, <2>1 DEF StartPass, DeliveryFault, Typed, DeliveryTypeOK, AttemptsLeft, itemVars,
                       sendVars, historyVars
<1> QED
  BY <1>1, <1>2, <1>3, <1>4, <1>5, <1>6, <1>7, <1>8, <1>9, <1>10, <1>11, <1>12, RepairTypes
     DEF DeliveryNext, BroadcasterStep, SenderStep

-----------------------------------------------------------------------------
(* The fanout of a version.                                                *)
LEMMA SameFanout ==
  ASSUME Typed, FanoutRoom, UNCHANGED <<version, broadcast, caster>>,
         \A v \in Versions : /\ reached'[<<"fanout", v>>] = reached[<<"fanout", v>>]
                             /\ excused'[<<"fanout", v>>] = excused[<<"fanout", v>>]
  PROVE  FanoutRoom'
BY DEF FanoutRoom, Publishing, MayPublish

LEMMA FanoutKeeps ==
  ASSUME Typed, FanoutRoom, DeliveryNext
  PROVE  FanoutRoom'
<1>1. /\ version \in Versions /\ caster \in Versions \cup {None} /\ Versions \subseteq Int
      /\ reached \in [Ways -> Nat] /\ excused \in [Ways -> Nat] /\ None \notin Versions
  BY DEF Typed, DeliveryTypeOK, Versions
<1>0. \A v \in Versions : reached[<<"fanout", v>>] \in Nat /\ excused[<<"fanout", v>>] \in Nat
  BY <1>1, WaysAreTold
<1>2. CASE Recur
  <2>1. version' = version + 1
    <3>1. next_version(version) # None
      BY <1>2 DEF Recur, recurrence_decision
    <3> QED
      BY <1>2, <3>1 DEF Recur, reopen_effects, next_version
  <2> QED
    <3>1. UNCHANGED <<caster, reached, excused>>
      BY <1>2 DEF Recur, historyVars
    <3> SUFFICES ASSUME NEW v \in Versions
                 PROVE  Publishing(v)' <= excused'[<<"fanout", v>>] + One(~MayPublish(v)')
      BY DEF FanoutRoom
    <3>2. Publishing(v) <= excused[<<"fanout", v>>] + One(~MayPublish(v))
      BY DEF FanoutRoom
    <3> QED
      BY <1>1, <1>0, <2>1, <3>1, <3>2 DEF Publishing, MayPublish, One
<1>3. CASE ClaimBroadcast
  <2> SUFFICES ASSUME NEW v \in Versions
               PROVE  Publishing(v)' <= excused'[<<"fanout", v>>] + One(~MayPublish(v)')
    BY DEF FanoutRoom
  <2>1. Publishing(v) <= excused[<<"fanout", v>>] + One(~MayPublish(v))
    BY DEF FanoutRoom
  <2>2. CASE v = version
    <3>1. excused'[<<"fanout", v>>] = excused[<<"fanout", v>>] + One(broadcast = "claimed")
      BY <1>1, <1>3, <2>2, WaysAreTold DEF ClaimBroadcast
    <3> QED
      BY <1>1, <1>3, <2>1, <2>2, <3>1, WaysAreTold DEF ClaimBroadcast, Publishing, MayPublish, One
  <2>3. CASE v # version
    <3>1. excused'[<<"fanout", v>>] = excused[<<"fanout", v>>]
      BY <1>1, <1>3, <2>3, WaysAreTold DEF ClaimBroadcast
    <3> QED
      BY <1>1, <1>3, <2>1, <2>3, <3>1 DEF ClaimBroadcast, Publishing, MayPublish, One
  <2> QED
    BY <2>2, <2>3
<1>4. ASSUME NEW publish \in Publishes, FinishBroadcast(publish) PROVE FanoutRoom'
  <2>1. PICK effect \in {0, 1} : /\ reached' = [reached EXCEPT ![<<"fanout", caster>>] = @ + effect]
                                 /\ publish = "ClearFailure" => effect = 0
    BY <1>4 DEF FinishBroadcast
  <2>2. caster \in Versions /\ caster' = None /\ UNCHANGED <<version, excused>>
    BY <1>1, <1>4 DEF FinishBroadcast
  <2>3. broadcast' = "ready" /\ version = caster => publish = "ClearFailure" \/ broadcast = "ready"
    <3>1. publish = "AmbiguousAfterAttempt" => broadcast_outcome(publish) = "AmbiguousAfterAttempt"
      BY DEF broadcast_outcome, requires_boundary_ambiguity, FanoutFailureKind
    <3>2. publish \in {"Published", "NoSubscribers"} => broadcast_outcome(publish) = "Broadcasted"
      BY DEF broadcast_outcome, FanoutFailureKind
    <3>3. publish \in {"Published", "NoSubscribers", "ClearFailure", "AmbiguousAfterAttempt"}
      BY DEF Publishes, FanoutFailureKind, local_broadcast_outcome, published_to
    <3> QED
      BY <1>4, <3>1, <3>2, <3>3 DEF FinishBroadcast
  <2>4. broadcast' = "ready" /\ broadcast # "ready" => StillClaimed
    BY <1>4 DEF FinishBroadcast
  <2> SUFFICES ASSUME NEW v \in Versions
               PROVE  Publishing(v)' <= excused'[<<"fanout", v>>] + One(~MayPublish(v)')
    BY DEF FanoutRoom
  <2>5. Publishing(v) <= excused[<<"fanout", v>>] + One(~MayPublish(v))
    BY DEF FanoutRoom
  <2>6. reached'[<<"fanout", v>>] = reached[<<"fanout", v>>] + (IF v = caster THEN effect ELSE 0)
    BY <1>1, <2>1, <2>2, CountedOnce
  <2> QED
    BY <1>1, <1>0, <2>1, <2>2, <2>3, <2>4, <2>5, <2>6 DEF Publishing, MayPublish, One, StillClaimed
<1>5. CASE CrashBroadcaster
  <2>1. caster' = None /\ UNCHANGED <<version, broadcast, reached, excused>>
    BY <1>5 DEF CrashBroadcaster, itemVars, historyVars
  <2> QED
    <3> SUFFICES ASSUME NEW v \in Versions
                 PROVE  Publishing(v)' <= excused'[<<"fanout", v>>] + One(~MayPublish(v)')
      BY DEF FanoutRoom
    <3>1. Publishing(v) <= excused[<<"fanout", v>>] + One(~MayPublish(v))
      BY DEF FanoutRoom
    <3> QED
      BY <1>1, <1>0, <2>1, <3>1 DEF Publishing, MayPublish, One
<1>6. CASE FinishPass
  BY <1>6, SameFanout DEF FinishPass, itemVars, historyVars
<1>7. ASSUME NEW flag \in Marks, UserMarks(flag) PROVE FanoutRoom'
  BY <1>7, SameFanout DEF UserMarks, historyVars
<1>8. ASSUME NEW s \in Senders, Deliver(s) PROVE FanoutRoom'
  <2>1. senders[s].version \in Versions
    BY <1>8 DEF Deliver, Typed, DeliveryTypeOK, Claimed
  <2>2. PICK effect \in {0, 1} : reached' = [reached EXCEPT ![<<"provider", senders[s].version>>] = @ + effect]
    BY <1>8 DEF Deliver
  <2>3. \A v \in Versions : reached'[<<"fanout", v>>] = reached[<<"fanout", v>>]
    BY <1>1, <2>1, <2>2, WaysAreTold
  <2> QED
    BY <1>8, <2>3, SameFanout DEF Deliver, itemVars
<1>9. ASSUME NEW s \in Senders, FinalizeDelivery(s) \/ CrashSender(s) PROVE FanoutRoom'
  BY <1>9, SameFanout DEF FinalizeDelivery, CrashSender, itemVars, historyVars
<1>10. ASSUME NEW s \in Senders, NEW v \in Versions, ClaimDelivery(s, v) PROVE FanoutRoom'
  <2>1. \A u \in Versions : excused'[<<"fanout", u>>] = excused[<<"fanout", u>>]
    BY <1>1, <1>10, WaysAreTold DEF ClaimDelivery
  <2> QED
    BY <1>10, <2>1, SameFanout DEF ClaimDelivery, itemVars
<1>11. ASSUME NEW v \in Versions, LeaseEnds(v) PROVE FanoutRoom'
  BY <1>11, SameFanout DEF LeaseEnds, itemVars, historyVars
<1>12. ASSUME NEW dry_run \in BOOLEAN, StartPass(dry_run) PROVE FanoutRoom'
  BY <1>12, SameFanout DEF StartPass, itemVars, historyVars
<1>13. ASSUME pass # None, NEW l \in pass.todo, NEW action \in OperatorAction, Repair(l, action)
       PROVE  FanoutRoom'
  <2> DEFINE changed == ~pass.dry_run /\ CanRepair(l, action)
             retry == changed /\ action = "Retry"
  <2>1. l.way \in Ways
    BY <1>13 DEF Typed, DeliveryTypeOK, Letter
  <2>2. /\ excused' = [excused EXCEPT ![l.way] = @ + One(retry)]
        /\ broadcast' = IF retry /\ l.way[1] = "fanout" THEN "ready" ELSE broadcast
        /\ UNCHANGED <<version, caster, reached>>
    BY <1>13 DEF Repair
  <2>3. retry /\ l.way[1] = "fanout" => l.way[2] = version
    BY DEF CanRepair
  <2>4. l.way = <<l.way[1], l.way[2]>>
    BY <2>1 DEF Ways
  <2> HIDE DEF retry
  <2> SUFFICES ASSUME NEW v \in Versions
               PROVE  Publishing(v)' <= excused'[<<"fanout", v>>] + One(~MayPublish(v)')
    BY DEF FanoutRoom
  <2>5. Publishing(v) <= excused[<<"fanout", v>>] + One(~MayPublish(v))
    BY DEF FanoutRoom
  <2>6. CASE retry /\ l.way[1] = "fanout"
    <3>1. excused'[<<"fanout", v>>] = excused[<<"fanout", v>>] + (IF v = version THEN 1 ELSE 0)
      <4>1. excused' = [excused EXCEPT ![<<"fanout", version>>] = @ + 1]
        BY <2>2, <2>3, <2>4, <2>6 DEF One
      <4> QED
        <5>1. [excused EXCEPT ![<<"fanout", version>>] = @ + 1][<<"fanout", v>>]
                = excused[<<"fanout", v>>] + (IF v = version THEN 1 ELSE 0)
          BY <1>1, CountedOnce
        <5> QED
          BY <4>1, <5>1
    <3> QED
      BY <1>1, <1>0, <2>2, <2>5, <2>6, <3>1 DEF Publishing, MayPublish, One
  <2>7. CASE ~(retry /\ l.way[1] = "fanout")
    <3>1. excused'[<<"fanout", v>>] >= excused[<<"fanout", v>>]
      <4>1. One(retry) \in Nat
        BY DEF One
      <4>2. <<"fanout", v>> \in Ways /\ excused[<<"fanout", v>>] \in Nat /\ excused[l.way] \in Nat
        BY <1>1, <2>1, WaysAreTold
      <4> HIDE DEF Ways
      <4> QED
        BY <1>1, <2>1, <2>2, <4>1, <4>2
    <3>2. excused'[<<"fanout", v>>] \in Nat
      <4>1. One(retry) \in Nat
        BY DEF One
      <4>2. excused' \in [Ways -> Nat]
        BY <1>1, <2>1, <2>2, <4>1, Counted
      <4> QED
        BY <4>2, WaysAreTold
    <3> QED
      BY <1>1, <1>0, <2>2, <2>5, <2>7, <3>1, <3>2 DEF Publishing, MayPublish, One
  <2> QED
    BY <2>6, <2>7
<1> QED
  BY <1>2, <1>3, <1>4, <1>5, <1>6, <1>7, <1>8, <1>9, <1>10, <1>11, <1>12, <1>13
     DEF DeliveryNext, BroadcasterStep, SenderStep

-----------------------------------------------------------------------------
(* The delivery of a version.                                              *)
LEMMA InFlightIsFinite ==
  ASSUME NEW v
  PROVE  IsFiniteSet(InFlight(v)) /\ Cardinality(InFlight(v)) \in Nat
BY FS_Subset, FS_CardinalityType DEF InFlight

LEMMA LaterInFlightIsFinite ==
  ASSUME NEW v
  PROVE  IsFiniteSet(InFlight(v)') /\ Cardinality(InFlight(v)') \in Nat
BY FS_Subset, FS_CardinalityType DEF InFlight

LEMMA RoomStays ==
  ASSUME Typed, Typed', NEW v \in Versions, RoomToDeliver(v),
         InFlight(v)' \subseteq InFlight(v),
         reached'[<<"provider", v>>] = reached[<<"provider", v>>],
         excused'[<<"provider", v>>] >= excused[<<"provider", v>>],
         MayDeliver(v)' => MayDeliver(v)
  PROVE  RoomToDeliver(v)'
<1>1. Cardinality(InFlight(v)') <= Cardinality(InFlight(v))
  BY InFlightIsFinite, FS_Subset
<1>2. Cardinality(InFlight(v)') \in Nat /\ Cardinality(InFlight(v)) \in Nat
  BY InFlightIsFinite, LaterInFlightIsFinite
<1>3. /\ reached[<<"provider", v>>] \in Nat
      /\ excused[<<"provider", v>>] \in Nat /\ excused'[<<"provider", v>>] \in Nat
  BY WaysAreTold DEF Typed, DeliveryTypeOK
<1> QED
  BY <1>1, <1>2, <1>3 DEF RoomToDeliver, Delivering, One

(* Whoever can be sent for later could be sent for already. *)
LEMMA DeliverableStays ==
  ASSUME NEW v \in Versions,
         \/ outbox'[v].status = outbox[v].status
         \/ outbox[v].status = "none" /\ outbox'[v].status = "Pending",
         outbox'[v].token = outbox[v].token,
         \A s \in Senders : senders'[s] = senders[s] \/ senders'[s] = None \/ senders'[s].version # v
  PROVE  MayDeliver(v)' => MayDeliver(v)
BY DEF MayDeliver

LEMMA SameDelivery ==
  ASSUME Typed, Typed', DeliveryRoom, UNCHANGED <<outbox, senders>>,
         \A v \in Versions : /\ reached'[<<"provider", v>>] = reached[<<"provider", v>>]
                             /\ excused'[<<"provider", v>>] = excused[<<"provider", v>>]
  PROVE  DeliveryRoom'
<1> SUFFICES ASSUME NEW v \in Versions PROVE RoomToDeliver(v)'
  BY DEF DeliveryRoom
<1>1. InFlight(v)' = InFlight(v) /\ (MayDeliver(v)' => MayDeliver(v))
  BY DEF InFlight, MayDeliver
<1>2. excused'[<<"provider", v>>] >= excused[<<"provider", v>>]
  <2>1. excused[<<"provider", v>>] \in Nat
    BY WaysAreTold DEF Typed, DeliveryTypeOK
  <2> QED
    BY <2>1
<1> QED
  BY <1>1, <1>2, RoomStays DEF DeliveryRoom

(* One sender more, or less, in flight. *)
LEMMA OneInFlight ==
  ASSUME NEW F, IsFiniteSet(F), NEW s
  PROVE  /\ s \in F => Cardinality(F \ {s}) = Cardinality(F) - 1
         /\ \A G \in SUBSET (F \cup {s}) :
              IsFiniteSet(G) /\ Cardinality(G) \in Nat /\ Cardinality(G) <= Cardinality(F) + 1
<1>1. s \in F => Cardinality(F \ {s}) = Cardinality(F) - 1
  BY FS_RemoveElement
<1>2. /\ IsFiniteSet(F \cup {s}) /\ Cardinality(F) \in Nat
      /\ Cardinality(F \cup {s}) = IF s \in F THEN Cardinality(F) ELSE Cardinality(F) + 1
  BY FS_AddElement, FS_CardinalityType
<1>3. ASSUME NEW G \in SUBSET (F \cup {s})
      PROVE  IsFiniteSet(G) /\ Cardinality(G) \in Nat /\ Cardinality(G) <= Cardinality(F) + 1
  <2>1. IsFiniteSet(G) /\ Cardinality(G) <= Cardinality(F \cup {s})
    BY <1>2, FS_Subset
  <2>2. Cardinality(G) \in Nat
    BY <2>1, FS_CardinalityType
  <2> QED
    BY <1>2, <2>1, <2>2
<1> QED
  BY <1>1, <1>3

LEMMA DeliverKeeps ==
  ASSUME Typed, Typed', DeliveryRoom, NEW s \in Senders, Deliver(s)
  PROVE  DeliveryRoom'
<1>1. PICK v \in Versions : v = senders[s].version
  BY DEF Deliver, Typed, DeliveryTypeOK, Claimed
<1>2. PICK outcome \in ProviderOutcomes, effect \in {0, 1} :
        /\ senders' = [senders EXCEPT ![s].outcome = as_delivery_outcome(outcome)]
        /\ reached' = [reached EXCEPT ![<<"provider", v>>] = @ + effect]
        /\ outcome \notin {"Accepted", "AmbiguousAfterSideEffect"} => effect = 0
  BY <1>1 DEF Deliver
<1>3. senders[s] # None /\ senders[s].outcome = None /\ UNCHANGED <<outbox, excused>>
  BY DEF Deliver
<1>4. senders[s] \in Claimed /\ senders \in [Senders -> Claimed \cup {None}]
  BY <1>3 DEF Typed, DeliveryTypeOK, Claimed
<1>5. /\ as_delivery_outcome(outcome) \in DeliveryAttemptOutcome
      /\ as_delivery_outcome(outcome) = "RetryableFailure" => effect = 0
  BY <1>2, Outcomes DEF as_delivery_outcome
<1>6. /\ senders'[s].version = v /\ senders'[s].outcome = as_delivery_outcome(outcome)
      /\ senders'[s].outcome # None
      /\ \A t \in Senders \ {s} : senders'[t] = senders[t]
  BY <1>1, <1>2, <1>4, <1>5 DEF Claimed
<1> SUFFICES ASSUME NEW u \in Versions PROVE RoomToDeliver(u)'
  BY DEF DeliveryRoom
<1>7. RoomToDeliver(u)
  BY DEF DeliveryRoom
<1>8. CASE u = v
  <2>1. InFlight(v)' = InFlight(v) \ {s} /\ s \in InFlight(v)
    BY <1>1, <1>3, <1>6 DEF InFlight
  <2>2. Cardinality(InFlight(v)') = Cardinality(InFlight(v)) - 1
    BY <2>1, InFlightIsFinite, OneInFlight
  <2>3. reached'[<<"provider", v>>] = reached[<<"provider", v>>] + effect
    BY <1>2, CountedOnce DEF Typed, DeliveryTypeOK
  <2>4. reached[<<"provider", v>>] \in Nat /\ excused[<<"provider", v>>] \in Nat
    BY WaysAreTold DEF Typed, DeliveryTypeOK
  <2>5. MayDeliver(v)' => MayDeliver(v) \/ effect = 0
    BY <1>1, <1>3, <1>5, <1>6 DEF MayDeliver
  <2>6. Cardinality(InFlight(v)) \in Nat
    BY InFlightIsFinite
  <2> QED
    <3>1. Cardinality(InFlight(u)') = Cardinality(InFlight(u)) - 1
      BY <1>8, <2>2
    <3>2. RoomToDeliver(u)' <=> reached'[<<"provider", u>>] + Cardinality(InFlight(u)')
                                  <= excused'[<<"provider", u>>] + One(~MayDeliver(u)')
      BY DEF RoomToDeliver, Delivering
    <3> HIDE DEF MayDeliver, InFlight
    <3> QED
      BY <1>3, <1>7, <1>8, <2>3, <2>4, <2>5, <2>6, <3>1, <3>2 DEF RoomToDeliver, Delivering, One
<1>9. CASE u # v
  <2>1. InFlight(u)' \subseteq InFlight(u)
    BY <1>6, <1>9 DEF InFlight
  <2>2. reached'[<<"provider", u>>] = reached[<<"provider", u>>]
    BY <1>2, <1>9, WaysAreTold DEF Typed, DeliveryTypeOK
  <2>3. MayDeliver(u)' => MayDeliver(u)
    BY <1>3, <1>6, <1>9, DeliverableStays
  <2>4. excused'[<<"provider", u>>] >= excused[<<"provider", u>>]
    <3>1. excused[<<"provider", u>>] \in Nat
      BY WaysAreTold DEF Typed, DeliveryTypeOK
    <3> QED
      BY <1>3, <3>1
  <2> QED
    BY <1>7, <2>1, <2>2, <2>3, <2>4, RoomStays
<1> QED
  BY <1>8, <1>9

LEMMA ClaimKeeps ==
  ASSUME Typed, Typed', DeliveryRoom, NEW s \in Senders, NEW v \in Versions, ClaimDelivery(s, v)
  PROVE  DeliveryRoom'
<1>1. /\ outbox \in [Versions -> Delivery] /\ senders \in [Senders -> Claimed \cup {None}]
      /\ \A u \in Versions : /\ reached[<<"provider", u>>] \in Nat /\ excused[<<"provider", u>>] \in Nat
                             /\ Cardinality(InFlight(u)) \in Nat
  BY InFlightIsFinite, WaysAreTold DEF Typed, DeliveryTypeOK
<1>2. senders[s] = None /\ UNCHANGED reached
  BY DEF ClaimDelivery
<1> SUFFICES ASSUME NEW u \in Versions PROVE RoomToDeliver(u)'
  BY DEF DeliveryRoom
<1>3. RoomToDeliver(u)
  BY DEF DeliveryRoom
<1>4. CASE classify_delivery_version(v, version) = "Current"
  <2>1. /\ outbox' = [outbox EXCEPT ![v] = [@ EXCEPT !.status = "Running", !.token = s, !.leased = TRUE]]
        /\ senders' = [senders EXCEPT ![s] = [version |-> v, outcome |-> None]]
        /\ excused' = [excused EXCEPT ![<<"provider", v>>] = @ + One(outbox[v].status = "Running")]
        /\ outbox[v].status \in {"Pending", "Running"}
    BY <1>4 DEF ClaimDelivery
  <2>2. One(outbox[v].status = "Running") \in Nat
    BY DEF One
  <2>3. \A w \in Versions : excused'[<<"provider", w>>] = excused[<<"provider", w>>]
           + (IF w = v THEN One(outbox[v].status = "Running") ELSE 0)
    <3> PICK n \in Nat : n = One(outbox[v].status = "Running")
      BY <2>2
    <3>1. excused \in [Ways -> Nat]
      BY DEF Typed, DeliveryTypeOK
    <3>2. excused' = [excused EXCEPT ![<<"provider", v>>] = @ + n]
      BY <2>1
    <3>3. ASSUME NEW w \in Versions
          PROVE  [excused EXCEPT ![<<"provider", v>>] = @ + n][<<"provider", w>>]
                   = excused[<<"provider", w>>] + (IF w = v THEN n ELSE 0)
      BY <3>1, CountedOnce
    <3> QED
      BY <3>2, <3>3
  <2>4. /\ senders'[s].version = v /\ senders'[s].outcome = None
        /\ \A t \in Senders \ {s} : senders'[t] = senders[t]
    BY <1>1, <2>1
  <2>5. /\ outbox'[v].status = "Running" /\ outbox'[v].token = s
        /\ \A w \in Versions \ {v} : outbox'[w] = outbox[w]
    BY <1>1, <2>1, ClaimChanges
  <2>6. CASE u = v
    <3>1. InFlight(v)' \subseteq InFlight(v) \cup {s}
      BY <2>4 DEF InFlight
    <3>2. Cardinality(InFlight(v)') <= Cardinality(InFlight(v)) + 1
      <4> HIDE DEF InFlight
      <4> QED
        BY <3>1, InFlightIsFinite, OneInFlight
    <3>3. ~MayDeliver(v)'
      BY <2>4, <2>5 DEF MayDeliver, DeliveryAttemptOutcome
    <3>4. outbox[v].status = "Pending" => MayDeliver(v)
      BY DEF MayDeliver
    <3> QED
      BY <1>1, <1>2, <1>3, <2>1, <2>3, <2>6, <3>2, <3>3, <3>4, LaterInFlightIsFinite
         DEF RoomToDeliver, Delivering, One
  <2>7. CASE u # v
    <3>1. InFlight(u)' \subseteq InFlight(u)
      BY <2>4, <2>7 DEF InFlight
    <3>2. MayDeliver(u)' => MayDeliver(u)
      BY <2>4, <2>5, <2>7, DeliverableStays
    <3>3. excused'[<<"provider", u>>] >= excused[<<"provider", u>>]
      BY <1>1, <2>3, <2>7
    <3> QED
      BY <1>2, <1>3, <3>1, <3>2, <3>3, RoomStays
  <2> QED
    BY <2>6, <2>7
<1>5. CASE classify_delivery_version(v, version) # "Current"
  <2>1. /\ outbox' = [outbox EXCEPT ![v].status = "Failed"]
        /\ UNCHANGED <<senders, excused>>
    BY <1>5 DEF ClaimDelivery
  <2>2. /\ outbox'[v].status = "Failed"
        /\ \A w \in Versions \ {v} : outbox'[w] = outbox[w]
    BY <1>1, <2>1 DEF Delivery
  <2>3. MayDeliver(u)' => MayDeliver(u)
    BY <2>1, <2>2 DEF MayDeliver
  <2>4. InFlight(u)' = InFlight(u)
    BY <2>1 DEF InFlight
  <2> QED
    <3>1. excused'[<<"provider", u>>] >= excused[<<"provider", u>>]
      BY <1>1, <2>1
    <3> QED
      BY <1>2, <1>3, <2>3, <2>4, <3>1, RoomStays
<1> QED
  BY <1>4, <1>5

LEMMA FinalizeKeepsRoom ==
  ASSUME Typed, Typed', DeliveryRoom, NEW s \in Senders, FinalizeDelivery(s)
  PROVE  DeliveryRoom'
<1>1. PICK v \in Versions : v = senders[s].version
  BY DEF FinalizeDelivery, Typed, DeliveryTypeOK, Claimed
<1>2. /\ senders[s] # None /\ senders[s].outcome \in DeliveryAttemptOutcome
      /\ senders' = [senders EXCEPT ![s] = None] /\ UNCHANGED <<reached, excused>>
  BY DEF FinalizeDelivery, Typed, DeliveryTypeOK, Claimed, historyVars
<1>3. \A t \in Senders \ {s} : senders'[t] = senders[t]
  BY <1>2 DEF Typed, DeliveryTypeOK
<1>4. senders'[s] = None
  BY <1>2 DEF Typed, DeliveryTypeOK
<1> SUFFICES ASSUME NEW u \in Versions PROVE RoomToDeliver(u)'
  BY DEF DeliveryRoom
<1>5. InFlight(u)' \subseteq InFlight(u)
  BY <1>3, <1>4 DEF InFlight
<1>6. MayDeliver(u)' => MayDeliver(u)
  <2>1. CASE outbox[v].status = "Running" /\ outbox[v].token = s
    <3>1. PICK after : /\ after = After(outbox[v], senders[s].outcome)
                       /\ outbox' = [outbox EXCEPT ![v] = [status |-> after.status, completed |-> after.completed,
                                                         token |-> None, leased |-> FALSE]]
      BY <1>1, <2>1 DEF FinalizeDelivery
    <3>2. /\ after.status \in DeliveryStatus /\ after.status # "Running"
          /\ after.status = "Pending" => senders[s].outcome = "RetryableFailure"
      BY <1>2, <2>1, <3>1, AfterAttempt DEF Typed, DeliveryTypeOK, AttemptsLeft
    <3>3. outbox'[v].status = after.status /\ \A w \in Versions \ {v} : outbox'[w] = outbox[w]
      BY <3>1 DEF Typed, DeliveryTypeOK
    <3>4. MayDeliver(v)' => MayDeliver(v)
      BY <1>1, <1>2, <2>1, <3>2, <3>3 DEF MayDeliver, DeliveryStatus
    <3>5. u # v => (MayDeliver(u)' => MayDeliver(u))
      BY <1>3, <1>4, <3>3, DeliverableStays
    <3> QED
      BY <3>4, <3>5
  <2>2. CASE ~(outbox[v].status = "Running" /\ outbox[v].token = s)
    <3>1. UNCHANGED outbox
      BY <1>1, <2>2 DEF FinalizeDelivery
    <3> QED
      BY <1>3, <1>4, <3>1, DeliverableStays
  <2> QED
    BY <2>1, <2>2
<1>7. excused'[<<"provider", u>>] >= excused[<<"provider", u>>]
  <2>1. excused[<<"provider", u>>] \in Nat
    BY WaysAreTold DEF Typed, DeliveryTypeOK
  <2> QED
    BY <1>2, <2>1
<1> QED
  BY <1>2, <1>5, <1>6, <1>7, RoomStays DEF DeliveryRoom

LEMMA RepairKeepsRoom ==
  ASSUME Typed, Typed', DeliveryRoom, pass # None, NEW l \in pass.todo,
         NEW action \in OperatorAction, Repair(l, action)
  PROVE  DeliveryRoom'
<1> DEFINE changed == ~pass.dry_run /\ CanRepair(l, action)
           retry == changed /\ action = "Retry"
<1>1. l.way \in Ways
  BY DEF Typed, DeliveryTypeOK, Letter
<1>2. /\ excused' = [excused EXCEPT ![l.way] = @ + One(retry)]
      /\ outbox' = IF retry /\ l.way[1] = "provider"
                     THEN [outbox EXCEPT ![l.way[2]] = [NoDelivery EXCEPT !.status = "Pending"]]
                     ELSE outbox
      /\ UNCHANGED <<senders, reached>>
  BY DEF Repair
<1>3. l.way[2] \in Versions /\ l.way = <<l.way[1], l.way[2]>>
  BY <1>1 DEF Ways
<1> HIDE DEF retry
<1> SUFFICES ASSUME NEW v \in Versions PROVE RoomToDeliver(v)'
  BY DEF DeliveryRoom
<1>4. InFlight(v)' = InFlight(v)
  BY <1>2 DEF InFlight
<1>5. /\ excused \in [Ways -> Nat] /\ excused[<<"provider", v>>] \in Nat /\ excused[l.way] \in Nat
      /\ reached[<<"provider", v>>] \in Nat /\ One(retry) \in Nat /\ <<"provider", v>> \in Ways
  BY <1>1, WaysAreTold DEF Typed, DeliveryTypeOK, One
<1>6. RoomToDeliver(v)
  BY DEF DeliveryRoom
<1>7. CASE retry /\ l.way = <<"provider", v>>
  <2>1. excused'[<<"provider", v>>] = excused[<<"provider", v>>] + 1
    BY <1>2, <1>5, <1>7 DEF One
  <2>2. Cardinality(InFlight(v)) \in Nat
    BY InFlightIsFinite
  <2>3. RoomToDeliver(v)' <=> reached'[<<"provider", v>>] + Cardinality(InFlight(v)')
                                <= excused'[<<"provider", v>>] + One(~MayDeliver(v)')
    BY DEF RoomToDeliver, Delivering
  <2> HIDE DEF MayDeliver, InFlight
  <2> QED
    BY <1>2, <1>4, <1>5, <1>6, <2>1, <2>2, <2>3 DEF RoomToDeliver, Delivering, One
<1>8. CASE ~(retry /\ l.way = <<"provider", v>>)
  <2>1. excused'[<<"provider", v>>] >= excused[<<"provider", v>>]
    BY <1>1, <1>2, <1>5
  <2>2. outbox'[v] = outbox[v]
    BY <1>2, <1>3, <1>8 DEF Typed, DeliveryTypeOK
  <2>3. MayDeliver(v)' => MayDeliver(v)
    BY <1>2, <2>2 DEF MayDeliver
  <2> QED
    BY <1>2, <1>4, <1>6, <2>1, <2>3, RoomStays
<1> QED
  BY <1>7, <1>8

LEMMA DeliveryKeeps ==
  ASSUME Typed, Typed', DeliveryRoom, DeliveryNext
  PROVE  DeliveryRoom'
<1>1. CASE Recur
  BY <1>1, SameDelivery DEF Recur, sendVars, historyVars
<1>2. CASE ClaimBroadcast
  <2>1. \A v \in Versions : excused'[<<"provider", v>>] = excused[<<"provider", v>>]
    BY <1>2, WaysAreTold DEF ClaimBroadcast, Typed, DeliveryTypeOK
  <2> QED
    BY <1>2, <2>1, SameDelivery DEF ClaimBroadcast, sendVars
<1>3. ASSUME NEW publish \in Publishes, FinishBroadcast(publish) PROVE DeliveryRoom'
  <2> SUFFICES ASSUME NEW v \in Versions PROVE RoomToDeliver(v)'
    BY DEF DeliveryRoom
  <2>1. caster \in Versions /\ UNCHANGED <<senders, excused>>
    BY <1>3 DEF FinishBroadcast, Typed, DeliveryTypeOK
  <2>2. PICK effect \in {0, 1} : reached' = [reached EXCEPT ![<<"fanout", caster>>] = @ + effect]
    BY <1>3 DEF FinishBroadcast
  <2>3. reached'[<<"provider", v>>] = reached[<<"provider", v>>]
    BY <2>1, <2>2, WaysAreTold DEF Typed, DeliveryTypeOK
  <2>4. excused'[<<"provider", v>>] >= excused[<<"provider", v>>]
    <3>1. excused[<<"provider", v>>] \in Nat
      BY WaysAreTold DEF Typed, DeliveryTypeOK
    <3> QED
      BY <2>1, <3>1
  <2>5. /\ outbox'[v].token = outbox[v].token
        /\ \/ outbox'[v].status = outbox[v].status
           \/ outbox[v].status = "none" /\ outbox'[v].status = "Pending"
    BY <1>3, <2>1 DEF FinishBroadcast, Typed, DeliveryTypeOK, Delivery
  <2>6. MayDeliver(v)' => MayDeliver(v)
    BY <2>1, <2>5, DeliverableStays
  <2>7. InFlight(v)' = InFlight(v)
    BY <2>1 DEF InFlight
  <2> QED
    BY <2>3, <2>4, <2>6, <2>7, RoomStays DEF DeliveryRoom
<1>4. CASE CrashBroadcaster \/ FinishPass
  BY <1>4, SameDelivery DEF CrashBroadcaster, FinishPass, itemVars, sendVars, historyVars
<1>5. ASSUME NEW flag \in Marks, UserMarks(flag) PROVE DeliveryRoom'
  BY <1>5, SameDelivery DEF UserMarks, sendVars, historyVars
<1>6. ASSUME NEW s \in Senders, CrashSender(s) PROVE DeliveryRoom'
  <2> SUFFICES ASSUME NEW v \in Versions PROVE RoomToDeliver(v)'
    BY DEF DeliveryRoom
  <2>1. /\ \A t \in Senders : senders'[t] = senders[t] \/ senders'[t] = None
        /\ UNCHANGED <<outbox, reached, excused>>
    BY <1>6 DEF CrashSender, Typed, DeliveryTypeOK, historyVars
  <2>2. InFlight(v)' \subseteq InFlight(v)
    BY <2>1 DEF InFlight
  <2>3. MayDeliver(v)' => MayDeliver(v)
    BY <2>1, DeliverableStays
  <2>4. excused'[<<"provider", v>>] >= excused[<<"provider", v>>]
    <3>1. excused[<<"provider", v>>] \in Nat
      BY WaysAreTold DEF Typed, DeliveryTypeOK
    <3> QED
      BY <2>1, <3>1
  <2> QED
    BY <2>1, <2>2, <2>3, <2>4, RoomStays DEF DeliveryRoom
<1>7. ASSUME NEW u \in Versions, LeaseEnds(u) PROVE DeliveryRoom'
  <2> SUFFICES ASSUME NEW v \in Versions PROVE RoomToDeliver(v)'
    BY DEF DeliveryRoom
  <2>1. outbox' = [outbox EXCEPT ![u] = [@ EXCEPT !.leased = FALSE]]
    BY <1>7 DEF LeaseEnds
  <2>2. UNCHANGED <<senders, reached, excused>>
    BY <1>7 DEF LeaseEnds, historyVars
  <2>3. outbox'[v].status = outbox[v].status /\ outbox'[v].token = outbox[v].token
    BY <2>1, LeaseChanges DEF Typed, DeliveryTypeOK
  <2>4. (MayDeliver(v)' => MayDeliver(v)) /\ InFlight(v)' = InFlight(v)
    BY <2>2, <2>3 DEF MayDeliver, InFlight
  <2>5. excused'[<<"provider", v>>] >= excused[<<"provider", v>>]
    <3>1. excused[<<"provider", v>>] \in Nat
      BY WaysAreTold DEF Typed, DeliveryTypeOK
    <3> QED
      BY <2>2, <3>1
  <2> QED
    BY <2>2, <2>4, <2>5, RoomStays DEF DeliveryRoom
<1>8. ASSUME NEW dry_run \in BOOLEAN, StartPass(dry_run) PROVE DeliveryRoom'
  BY <1>8, SameDelivery DEF StartPass, itemVars, sendVars, historyVars
<1> QED
  BY <1>1, <1>2, <1>3, <1>4, <1>5, <1>6, <1>7, <1>8, DeliverKeeps, ClaimKeeps, FinalizeKeepsRoom,
     RepairKeepsRoom
     DEF DeliveryNext, BroadcasterStep, SenderStep

-----------------------------------------------------------------------------
(* The operator's report.                                                  *)
LEMMA ReportKeeps ==
  ASSUME Typed, LeftIsReported, DeliveryNext
  PROVE  LeftIsReported'
<1>1. ASSUME UNCHANGED pass PROVE LeftIsReported'
  BY <1>1 DEF LeftIsReported
<1>2. ASSUME NEW dry_run \in BOOLEAN, StartPass(dry_run) PROVE LeftIsReported'
  <2>1. pass'.report = NoReport /\ pass'.left = {}
    BY <1>2 DEF StartPass, NoPass
  <2> QED
    BY <2>1 DEF LeftIsReported, NoReport
<1>3. CASE FinishPass
  BY <1>3 DEF FinishPass, LeftIsReported
<1>4. ASSUME pass # None, NEW l \in pass.todo, NEW action \in OperatorAction, Repair(l, action)
      PROVE  LeftIsReported'
  <2> DEFINE changed == ~pass.dry_run /\ CanRepair(l, action)
  <2>1. PICK warning \in BOOLEAN :
          pass' = [pass EXCEPT !.todo = @ \ {l},
                               !.report = repair_recorded(@, action, changed, warning),
                               !.left = IF changed \/ action = "Noop" THEN @ ELSE @ \cup {l}]
    BY <1>4 DEF Repair
  <2>2. /\ pass'.report = repair_recorded(pass.report, action, changed, warning)
        /\ pass'.left = IF changed \/ action = "Noop" THEN pass.left ELSE pass.left \cup {l}
    BY <1>4, <2>1 DEF Typed, DeliveryTypeOK
  <2>3. pass.report \in Report /\ changed \in BOOLEAN /\ (changed => action # "Noop")
    BY <1>4 DEF Typed, DeliveryTypeOK, CanRepair
  <2> HIDE DEF changed
  <2> QED
    BY <1>4, <2>2, <2>3, Reports DEF LeftIsReported
<1> QED
  BY <1>1, <1>2, <1>3, <1>4
     DEF DeliveryNext, BroadcasterStep, SenderStep, Recur, ClaimBroadcast, FinishBroadcast,
         CrashBroadcaster, UserMarks, Deliver, FinalizeDelivery, ClaimDelivery, CrashSender, LeaseEnds

-----------------------------------------------------------------------------
LEMMA DeliveryStart == DeliveryInit => DeliveryInv
<1> SUFFICES ASSUME DeliveryInit PROVE DeliveryInv
  OBVIOUS
<1>1. DeliveryTypeOK
  BY NewDeliveries DEF DeliveryInit, DeliveryTypeOK, Versions
<1>2. ASSUME NEW v \in Versions
      PROVE  /\ reached[<<"fanout", v>>] = 0 /\ excused[<<"fanout", v>>] = 0
             /\ reached[<<"provider", v>>] = 0 /\ excused[<<"provider", v>>] = 0
  BY WaysAreTold DEF DeliveryInit
<1>3. FanoutRoom
  <2> SUFFICES ASSUME NEW v \in Versions
               PROVE  Publishing(v) <= excused[<<"fanout", v>>] + One(~MayPublish(v))
    BY DEF FanoutRoom
  <2>1. reached[<<"fanout", v>>] = 0 /\ excused[<<"fanout", v>>] = 0
    BY <1>2
  <2>2. caster # v /\ MayPublish(v)
    BY DEF DeliveryInit, MayPublish, Versions
  <2> QED
    BY <2>1, <2>2 DEF Publishing, One
<1>4. DeliveryRoom
  <2>1. \A v \in Versions : InFlight(v) = {}
    BY DEF DeliveryInit, InFlight
  <2> QED
    <3> SUFFICES ASSUME NEW v \in Versions PROVE RoomToDeliver(v)
      BY DEF DeliveryRoom
    <3>1. Cardinality(InFlight(v)) = 0
      BY <2>1, FS_EmptySet
    <3>2. reached[<<"provider", v>>] = 0 /\ excused[<<"provider", v>>] = 0
      BY <1>2
    <3> QED
      BY <3>1, <3>2 DEF RoomToDeliver, Delivering, One
<1>5. AttemptsLeft
  BY NewDeliveries DEF DeliveryInit, AttemptsLeft
<1>6. LeftIsReported
  BY DEF DeliveryInit, LeftIsReported
<1> QED
  BY <1>1, <1>3, <1>4, <1>5, <1>6 DEF DeliveryInv

LEMMA DeliveryStep == DeliveryInv /\ [DeliveryNext]_deliveryVars => DeliveryInv'
<1>1. CASE UNCHANGED deliveryVars
  <2> SUFFICES ASSUME DeliveryInv PROVE DeliveryInv'
    OBVIOUS
  <2>1. UNCHANGED <<flags, version, broadcast, caster, outbox, senders, reached, excused, letters,
                    pass, delivery_faults>>
    BY <1>1 DEF deliveryVars, itemVars, sendVars, historyVars
  <2>2. Typed' /\ LeftIsReported'
    BY <2>1 DEF DeliveryInv, Typed, DeliveryTypeOK, AttemptsLeft, LeftIsReported
  <2>3. FanoutRoom' /\ DeliveryRoom'
    BY <2>1, <2>2, SameFanout, SameDelivery DEF DeliveryInv, Typed
  <2> QED
    BY <2>2, <2>3 DEF DeliveryInv, Typed
<1>2. ASSUME DeliveryInv, DeliveryNext PROVE DeliveryInv'
  BY <1>2, TypesKeep, FanoutKeeps, DeliveryKeeps, ReportKeeps DEF DeliveryInv, Typed
<1> QED
  BY <1>1, <1>2

LEMMA AlwaysDeliveryInv == DeliverySpec => []DeliveryInv
BY DeliveryStart, DeliveryStep, PTL DEF DeliverySpec

(***************************************************************************)
(* Items, rows, claims, dead letters and reports stay well formed, whoever *)
(* crashes or overruns when; and no attempt starts (ClaimDelivery) when    *)
(* the product's limit is used up.                                         *)
(***************************************************************************)
THEOREM DeliveryTypeCorrect == DeliverySpec => [](DeliveryTypeOK /\ AttemptsLeft)
BY AlwaysDeliveryInv, PTL DEF DeliveryInv

(***************************************************************************)
(* No attempt that may have had its effect is repeated by itself           *)
(* (BroadcastOutcome, DeliveryAttemptOutcome): for any number of versions, *)
(* senders, crashes and overruns.                                          *)
(***************************************************************************)
THEOREM DeliveredOnce == DeliverySpec => []ReachedOnce
<1>1. DeliveryInv => ReachedOnce
  <2> SUFFICES ASSUME DeliveryInv, NEW w \in Ways PROVE reached[w] <= 1 + excused[w]
    BY DEF ReachedOnce
  <2>1. PICK v \in Versions : w = <<"fanout", v>> \/ w = <<"provider", v>>
    BY DEF Ways
  <2>2. reached[w] \in Nat /\ excused[w] \in Nat
    BY DEF DeliveryInv, DeliveryTypeOK
  <2>3. CASE w = <<"fanout", v>>
    BY <2>2, <2>3 DEF DeliveryInv, FanoutRoom, Publishing, One
  <2>4. CASE w = <<"provider", v>>
    BY <2>2, <2>4, InFlightIsFinite DEF DeliveryInv, DeliveryRoom, RoomToDeliver, Delivering, One
  <2> QED
    BY <2>1, <2>3, <2>4
<1> QED
  BY <1>1, AlwaysDeliveryInv, PTL

(***************************************************************************)
(* OperatorRunReport::needs_attention misses nothing: what a pass wanted   *)
(* to change and left behind shows in the counts, for passes of any        *)
(* length, dry or not.                                                     *)
(***************************************************************************)
THEOREM QuietReportsAreTrue == DeliverySpec => []QuietReportMeansNothingLeft
<1>1. DeliveryInv => QuietReportMeansNothingLeft
  <2> SUFFICES ASSUME DeliveryInv, pass # None, ~needs_attention(pass.report) PROVE pass.left = {}
    BY DEF QuietReportMeansNothingLeft
  <2>1. pass.report \in Report
    BY DEF DeliveryInv, DeliveryTypeOK
  <2> QED
    BY <2>1 DEF DeliveryInv, LeftIsReported, needs_attention, Report
<1> QED
  BY <1>1, AlwaysDeliveryInv, PTL
=============================================================================
