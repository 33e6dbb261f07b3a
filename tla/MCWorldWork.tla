----------------------------- MODULE MCWorldWork -----------------------------
(***************************************************************************)
(* Cycles, follow-ups and deliveries for TLC.  They share no state, so one *)
(* run checks each of them while the two others are at rest.               *)
(***************************************************************************)
EXTENDS CycleLeases, FollowupRetries, NotificationDelivery

ThreeThenFive == [initial |-> 3, max |-> 5, multiplier |-> 2]

workVars == <<cycleVars, followupVars, deliveryVars>>

(* All cycles are settled; nothing is left to do or to wait for. *)
CyclesAtRest ==
  /\ lease = NoLease /\ finalizing = FALSE
  /\ last_due = LongOverdue
  /\ settled = LastCycle
  /\ rows = [c \in 1..LastCycle |->
       IF c <= LastCycle - Keep THEN NoRow
       ELSE [status |-> "complete", owner |-> CHOOSE w \in Workers : TRUE, since |-> LongStale]]
  /\ effects = [c \in 1..LastCycle |-> 1]
  /\ paused = FALSE /\ faults = MaxFaults
  /\ work = [w \in Workers |-> Off]

FollowupsAtRest ==
  /\ followups = [f \in Followups |->
       [status |-> "complete", attempts |-> 0, next_at |-> None, lease |-> NoLease]]
  /\ rested = [f \in Followups |-> MaxRested]
  /\ running = [r \in Runners |-> None]
  /\ run_faults = RunFaults

DeliveriesAtRest ==
  /\ flags = Marks /\ version = MaxVersion /\ broadcast = "broadcasted" /\ caster = None
  /\ outbox = [v \in Versions |-> [NoDelivery EXCEPT !.status = "Delivered"]]
  /\ senders = [s \in Senders |-> None]
  /\ reached = [w \in Ways |-> 1] /\ excused = [w \in Ways |-> 0]
  /\ letters = {} /\ pass = None /\ delivery_faults = DeliveryFaults

Init ==
  \/ CycleInit /\ FollowupsAtRest /\ DeliveriesAtRest
  \/ CyclesAtRest /\ FollowupInit /\ DeliveriesAtRest
  \/ CyclesAtRest /\ FollowupsAtRest /\ DeliveryInit

Next ==
  \/ CycleNext /\ UNCHANGED <<followupVars, deliveryVars>>
  \/ FollowupNext /\ UNCHANGED <<cycleVars, deliveryVars>>
  \/ DeliveryNext /\ UNCHANGED <<cycleVars, followupVars>>

Spec == Init /\ [][Next]_workVars /\ CycleFairness /\ FollowupFairness /\ DeliveryFairness

(***************************************************************************)
(* World work comes to its end: every cycle that falls due is settled,     *)
(* every follow-up is complete or exhausted, every notification broadcast  *)
(* and delivered or left to an operator, whatever crashed, overran or      *)
(* failed finitely often.                                                  *)
(***************************************************************************)
WorkSettles == <>[](CyclesSettled /\ FollowupsEnded /\ DeliveriesSettled)
=============================================================================
