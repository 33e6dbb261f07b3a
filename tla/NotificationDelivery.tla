------------------------- MODULE NotificationDelivery -------------------------
(***************************************************************************)
(* A recurring notification from its recurrence to its delivery: the item  *)
(* and its versions (notification-lifecycle-core), the fanout of a version *)
(* (event-fanout), its durable delivery through a provider (delivery-core, *)
(* notification-core), and the dead letters an operator repairs            *)
(* (operator-deadletter-core).                                             *)
(*                                                                         *)
(* The crates decide and classify; tables, providers and transports are    *)
(* the product's, external.  A claim's lease ends by an event of its own:  *)
(* at any time when its worker is gone, as a fault when it is not.         *)
(***************************************************************************)
EXTENDS Integers, FiniteSets, WorldTime

CONSTANTS Senders,
          Marks,             \* the flags a user sets
          MaxVersion,        \* i32::MAX, where the next version is an error
          DeliveryAttempts,  \* the product's limit of attempts
          DeliveryFaults     \* bound: crashes, overruns, failed publishes and repairs

ItemFlags == {"read", "dismissed", "done", "expired"}
DeliveryAttemptOutcome ==
  {"Delivered", "RetryableFailure", "PermanentFailure", "AmbiguousAfterSideEffect"}

ASSUME DeliveryAssumption ==
  /\ MaxVersion \in Nat \ {0} /\ DeliveryAttempts \in Nat \ {0}
  /\ DeliveryFaults \in Nat /\ IsFiniteSet(Senders) /\ Marks \subseteq ItemFlags
  /\ None \notin DeliveryAttemptOutcome

VARIABLES flags, version,   \* of the item
          broadcast,        \* its broadcast state
          caster,           \* the version the broadcaster has claimed
          outbox,           \* the delivery row of each version
          senders,          \* what each sender has claimed
          reached,          \* history: how often a version got through
          excused,          \* history: abandoned claims and operator's retries
          letters,          \* dead letters
          pass,             \* the operator's repair pass
          delivery_faults

itemVars == <<flags, version, broadcast>>
sendVars == <<outbox, senders>>
historyVars == <<reached, excused>>
deliveryVars == <<itemVars, caster, sendVars, historyVars, letters, pass, delivery_faults>>

-----------------------------------------------------------------------------
(* notification-lifecycle-core                                             *)

(* Flags are taken in this order. *)
from_flags(set) ==
  IF "expired" \in set THEN "Expired" ELSE IF "done" \in set THEN "Done"
  ELSE IF "dismissed" \in set THEN "Dismissed" ELSE IF "read" \in set THEN "Read" ELSE "Unread"

should_reopen_on_recurrence(state) == state \in {"Read", "Dismissed", "Done", "Expired"}

(* DeliveryVersion::next: None is the error InvalidDeliveryVersion. *)
next_version(v) == IF v < MaxVersion THEN v + 1 ELSE None

(* Mutant of reopen_effects: the item's flags are cleared, not its fanout. *)
reopen_item_only(next) == [next_delivery_version |-> next, clear |-> ItemFlags,
                           clear_broadcast_state |-> FALSE]

reopen_effects(next) == [next_delivery_version |-> next, clear |-> ItemFlags,
                         clear_broadcast_state |-> TRUE]

(* For an item that exists and has a dedupe key; any other is created new. *)
recurrence_decision(state, current) ==
  CASE should_reopen_on_recurrence(state) /\ next_version(current) = None -> "InvalidDeliveryVersion"
    [] should_reopen_on_recurrence(state) /\ next_version(current) # None -> "Reopen"
    [] OTHER -> "UpdateOpenRow"

classify_delivery_version(row, item) ==
  IF row < item THEN "Stale" ELSE IF row > item THEN "Future" ELSE "Current"

-----------------------------------------------------------------------------
(* event-fanout                                                            *)

published_to(subscribers) == IF subscribers = 0 THEN "NoSubscribers" ELSE "Published"

(* A local broadcast's Err, <<>>, only says that nobody listens. *)
local_broadcast_outcome(result) == IF result = <<>> THEN "NoSubscribers" ELSE published_to(result[1])

FanoutFailureKind == {"ClearFailure", "AmbiguousAfterAttempt"}

requires_boundary_ambiguity(kind) == kind = "AmbiguousAfterAttempt"

(* What a publish may end with: a local send, a backend's answer or its    *)
(* failure.                                                                *)
Publishes == {local_broadcast_outcome(r) : r \in {<<>>, <<0>>, <<1>>}} \cup FanoutFailureKind

(* The broadcaster's outcome: the rows may be marked, or be released. *)
broadcast_outcome(publish) ==
  CASE publish \in {"Published", "NoSubscribers"} -> "Broadcasted"
    [] publish \in FanoutFailureKind ->
         IF requires_boundary_ambiguity(publish) THEN "AmbiguousAfterAttempt" ELSE "RetryableFailure"

-----------------------------------------------------------------------------
(* notification-core and delivery-core                                     *)

ProviderFailureClass == {"Retryable", "Permanent", "AmbiguousAfterSideEffect"}

as_provider_outcome(class) ==
  CASE class = "Retryable" -> "RetryableFailure"
    [] class = "Permanent" -> "PermanentFailure"
    [] class = "AmbiguousAfterSideEffect" -> "AmbiguousAfterSideEffect"

ProviderOutcomes == {"Accepted"} \cup {as_provider_outcome(c) : c \in ProviderFailureClass}

(* Mutant of as_delivery_outcome: what is not clear is tried again. *)
retry_when_unclear(outcome) ==
  CASE outcome = "Accepted" -> "Delivered"
    [] outcome \in {"RetryableFailure", "AmbiguousAfterSideEffect"} -> "RetryableFailure"
    [] outcome = "PermanentFailure" -> "PermanentFailure"

as_delivery_outcome(outcome) == IF outcome = "Accepted" THEN "Delivered" ELSE outcome

DeliveryStatus == {"Pending", "Running", "Delivered", "Failed", "Exhausted"}

(* NotificationAttempt::from_completed_count *)
next_attempt(completed) == attempt_from_completed_count(completed)

-----------------------------------------------------------------------------
(* operator-deadletter-core                                                *)

DeadLetterReason == {"ExhaustedRetries", "StaleLease", "AmbiguousAfterSideEffect",
                     "MissingDependency", "ProviderRejected", "InvariantViolation",
                     "ProductSpecific"}
OperatorAction == {"Retry", "MarkComplete", "MarkFailed", "RequireManualReconciliation", "Noop"}

requires_manual_reconciliation(action) == action = "RequireManualReconciliation"

NoReport == [inspected |-> 0, eligible |-> 0, changed |-> 0, warnings |-> 0]
One(condition) == IF condition THEN 1 ELSE 0

(* Mutant of repair_recorded: only what was changed was eligible. *)
repair_changed_only(run, action, changed, warning) ==
  [inspected |-> run.inspected + 1, eligible |-> run.eligible + One(changed),
   changed |-> run.changed + One(changed), warnings |-> run.warnings + One(warning)]

(* OperatorRunReport::record.  A pass is far from where counters saturate. *)
repair_recorded(run, action, changed, warning) ==
  [inspected |-> run.inspected + 1, eligible |-> run.eligible + One(action # "Noop"),
   changed |-> run.changed + One(changed), warnings |-> run.warnings + One(warning)]

needs_attention(run) ==
  run.warnings > 0 \/ (run.eligible > 0 /\ run.changed < run.eligible)

-----------------------------------------------------------------------------
Versions == 1..MaxVersion
Ways == {"fanout", "provider"} \X Versions
NoDelivery == [status |-> "none", completed |-> 0, token |-> None, leased |-> FALSE]
Letter == [way : Ways, reason : DeadLetterReason]
letter(kind, v, reason) == [way |-> <<kind, v>>, reason |-> reason]
NoPass == [dry_run |-> FALSE, todo |-> {}, report |-> NoReport, left |-> {}]

Report == [inspected : Nat, eligible : Nat, changed : Nat, warnings : Nat]
Delivery == [status : DeliveryStatus \cup {"none"}, completed : 0..DeliveryAttempts,
             token : Senders \cup {None}, leased : BOOLEAN]
Claimed == [version : Versions, outcome : DeliveryAttemptOutcome \cup {None}]

DeliveryTypeOK ==
  /\ flags \subseteq ItemFlags /\ version \in Versions /\ caster \in Versions \cup {None}
  /\ broadcast \in {"ready", "claimed", "broadcasted", "ambiguous"}
  /\ outbox \in [Versions -> Delivery]
  /\ senders \in [Senders -> Claimed \cup {None}]
  /\ reached \in [Ways -> Nat] /\ excused \in [Ways -> Nat]
  /\ letters \subseteq Letter
  /\ pass \in {None} \cup [dry_run : BOOLEAN, todo : SUBSET Letter, report : Report,
                           left : SUBSET Letter]
  /\ delivery_faults \in 0..DeliveryFaults

DeliveryInit ==
  /\ flags = {} /\ version = 1 /\ broadcast = "ready" /\ caster = None
  /\ outbox = [v \in Versions |-> NoDelivery]
  /\ senders = [s \in Senders |-> None]
  /\ reached = [w \in Ways |-> 0] /\ excused = [w \in Ways |-> 0]
  /\ letters = {} /\ pass = None /\ delivery_faults = 0

DeliveryFault == delivery_faults < DeliveryFaults /\ delivery_faults' = delivery_faults + 1

(* The item, and what recurs. *)
UserMarks(flag) ==
  /\ flags' = flags \cup {flag}
  /\ UNCHANGED <<version, broadcast, caster, sendVars, historyVars, letters, pass, delivery_faults>>

Recur ==
  /\ recurrence_decision(from_flags(flags), version) = "Reopen"
  /\ LET effects == reopen_effects(next_version(version)) IN
       /\ version' = effects.next_delivery_version
       /\ flags' = flags \ effects.clear
       /\ broadcast' = IF effects.clear_broadcast_state THEN "ready" ELSE broadcast
  /\ UNCHANGED <<caster, sendVars, historyVars, letters, pass, delivery_faults>>

-----------------------------------------------------------------------------
(* The fanout of the item's version: claim, publish, mark. A claim whose   *)
(* broadcaster died is claimed again.                                      *)
ClaimBroadcast ==
  /\ caster = None /\ broadcast \in {"ready", "claimed"}
  /\ caster' = version /\ broadcast' = "claimed"
  /\ excused' = [excused EXCEPT ![<<"fanout", version>>] = @ + One(broadcast = "claimed")]
  /\ UNCHANGED <<flags, version, sendVars, reached, letters, pass, delivery_faults>>

(* A reopened item has lost the claim: the broadcaster marks nothing. *)
StillClaimed == broadcast = "claimed" /\ version = caster

FinishBroadcast(publish) ==
  /\ caster # None
  /\ IF publish \in FanoutFailureKind THEN DeliveryFault ELSE UNCHANGED delivery_faults
  /\ \E effect \in IF publish = "Published" THEN {1}
                    ELSE IF publish = "AmbiguousAfterAttempt" THEN {0, 1} ELSE {0} :
       reached' = [reached EXCEPT ![<<"fanout", caster>>] = @ + effect]
  /\ \/ /\ StillClaimed /\ broadcast_outcome(publish) = "Broadcasted"
        /\ broadcast' = "broadcasted"
        /\ outbox' = [outbox EXCEPT ![caster].status = IF @ = "none" THEN "Pending" ELSE @]
        /\ UNCHANGED letters
     \/ /\ StillClaimed /\ broadcast_outcome(publish) = "RetryableFailure"
        /\ broadcast' = "ready"
        /\ UNCHANGED <<outbox, letters>>
     \/ /\ StillClaimed /\ broadcast_outcome(publish) = "AmbiguousAfterAttempt"
        /\ broadcast' = "ambiguous"
        /\ letters' = letters \cup {letter("fanout", caster, "AmbiguousAfterSideEffect")}
        /\ UNCHANGED outbox
     \/ ~StillClaimed /\ UNCHANGED <<broadcast, outbox, letters>>
  /\ caster' = None
  /\ UNCHANGED <<flags, version, senders, excused, pass>>

CrashBroadcaster ==
  /\ caster # None /\ DeliveryFault /\ caster' = None
  /\ UNCHANGED <<itemVars, sendVars, historyVars, letters, pass>>

-----------------------------------------------------------------------------
(* Delivery.  A sender has one claim at a time; its name stands for the    *)
(* claim's lease token.                                                    *)
ClaimDelivery(s, v) ==
  LET row == outbox[v]
      class == classify_delivery_version(v, version) IN
  /\ senders[s] = None
  /\ row.status = "Pending" \/ (row.status = "Running" /\ ~row.leased)
  /\ IF class = "Current"
       THEN /\ outbox' = [outbox EXCEPT ![v] = [@ EXCEPT !.status = "Running", !.token = s,
                                                        !.leased = TRUE]]
            /\ senders' = [senders EXCEPT ![s] = [version |-> v, outcome |-> None]]
            /\ excused' = [excused EXCEPT ![<<"provider", v>>] = @ + One(row.status = "Running")]
            /\ UNCHANGED letters
       ELSE /\ outbox' = [outbox EXCEPT ![v].status = "Failed"]
            /\ letters' = IF class = "Stale" THEN letters
                          ELSE letters \cup {letter("provider", v, "InvariantViolation")}
            /\ UNCHANGED <<senders, excused>>
  /\ UNCHANGED <<itemVars, caster, reached, pass, delivery_faults>>

Deliver(s) ==
  /\ senders[s] # None /\ senders[s].outcome = None
  /\ \E outcome \in ProviderOutcomes :
       /\ senders' = [senders EXCEPT ![s].outcome = as_delivery_outcome(outcome)]
       /\ \E effect \in IF outcome = "Accepted" THEN {1}
                         ELSE IF outcome = "AmbiguousAfterSideEffect" THEN {0, 1} ELSE {0} :
            reached' = [reached EXCEPT ![<<"provider", senders[s].version>>] = @ + effect]
  /\ UNCHANGED <<itemVars, caster, outbox, excused, letters, pass, delivery_faults>>

(* The row's status and the letter after an attempt. *)
After(row, outcome) ==
  LET attempts == next_attempt(row.completed) IN
  CASE outcome = "Delivered" -> [status |-> "Delivered", completed |-> row.completed, reason |-> None]
    [] outcome = "PermanentFailure" ->
         [status |-> "Failed", completed |-> attempts, reason |-> "ProviderRejected"]
    [] outcome = "AmbiguousAfterSideEffect" ->
         [status |-> "Failed", completed |-> attempts, reason |-> "AmbiguousAfterSideEffect"]
    [] outcome = "RetryableFailure" ->
         IF attempts_exhausted(DeliveryAttempts, attempts)
           THEN [status |-> "Exhausted", completed |-> attempts, reason |-> "ExhaustedRetries"]
           ELSE [status |-> "Pending", completed |-> attempts, reason |-> None]

(* finalize: only with the lease token of the row's last claim. *)
FinalizeDelivery(s) ==
  /\ senders[s] # None /\ senders[s].outcome # None
  /\ LET v == senders[s].version
         after == After(outbox[v], senders[s].outcome) IN
       IF outbox[v].status = "Running" /\ outbox[v].token = s
         THEN /\ outbox' = [outbox EXCEPT ![v] = [status |-> after.status, completed |-> after.completed,
                                                token |-> None, leased |-> FALSE]]
              /\ letters' = IF after.reason = None THEN letters
                            ELSE letters \cup {letter("provider", v, after.reason)}
         ELSE UNCHANGED <<outbox, letters>>
  /\ senders' = [senders EXCEPT ![s] = None]
  /\ UNCHANGED <<itemVars, caster, historyVars, pass, delivery_faults>>

CrashSender(s) ==
  /\ senders[s] # None /\ DeliveryFault
  /\ senders' = [senders EXCEPT ![s] = None]
  /\ UNCHANGED <<itemVars, caster, outbox, historyVars, letters, pass>>

LeaseEnds(v) ==
  /\ outbox[v].status = "Running" /\ outbox[v].leased
  /\ LET s == outbox[v].token IN
       IF senders[s] # None /\ senders[s].version = v
         THEN DeliveryFault ELSE UNCHANGED delivery_faults
  /\ outbox' = [outbox EXCEPT ![v].leased = FALSE]
  /\ UNCHANGED <<itemVars, caster, senders, historyVars, letters, pass>>

-----------------------------------------------------------------------------
(* An operator looks at the dead letters one after the other.              *)
StartPass(dry_run) ==
  /\ pass = None /\ letters # {} /\ DeliveryFault
  /\ pass' = [NoPass EXCEPT !.dry_run = dry_run, !.todo = letters]
  /\ UNCHANGED <<itemVars, caster, sendVars, historyVars, letters>>

(* Retry goes through the normal pipeline, which has no place for the      *)
(* fanout of a version that is no longer the item's; completion needs a    *)
(* proof; only what is left unchanged is warned of.                        *)
CanRepair(l, action) ==
  /\ action # "Noop" /\ ~requires_manual_reconciliation(action)
  /\ action = "MarkComplete" => reached[l.way] > 0
  /\ action = "Retry" /\ l.way[1] = "fanout" => l.way[2] = version /\ broadcast = "ambiguous"

Repair(l, action) ==
  LET changed == ~pass.dry_run /\ CanRepair(l, action)
      retry == changed /\ action = "Retry" IN
  /\ pass # None /\ l \in pass.todo
  /\ \E warning \in BOOLEAN :
       /\ changed => ~warning
       /\ pass' = [pass EXCEPT !.todo = @ \ {l},
                            !.report = repair_recorded(@, action, changed, warning),
                            !.left = IF changed \/ action = "Noop" THEN @ ELSE @ \cup {l}]
  /\ letters' = IF changed THEN letters \ {l} ELSE letters
  /\ excused' = [excused EXCEPT ![l.way] = @ + One(retry)]
  /\ broadcast' = IF retry /\ l.way[1] = "fanout" THEN "ready" ELSE broadcast
  /\ outbox' = IF retry /\ l.way[1] = "provider"
                 THEN [outbox EXCEPT ![l.way[2]] = [NoDelivery EXCEPT !.status = "Pending"]]
                 ELSE outbox
  /\ UNCHANGED <<flags, version, caster, senders, reached, delivery_faults>>

FinishPass ==
  /\ pass # None /\ pass.todo = {} /\ pass' = None
  /\ UNCHANGED <<itemVars, caster, sendVars, historyVars, letters, delivery_faults>>

-----------------------------------------------------------------------------
SenderStep(s) == Deliver(s) \/ FinalizeDelivery(s) \/ \E v \in Versions : ClaimDelivery(s, v)
BroadcasterStep == ClaimBroadcast \/ \E publish \in Publishes : FinishBroadcast(publish)

DeliveryNext ==
  \/ Recur \/ BroadcasterStep \/ CrashBroadcaster \/ FinishPass
  \/ \E flag \in Marks : UserMarks(flag)
  \/ \E s \in Senders : SenderStep(s) \/ CrashSender(s)
  \/ \E v \in Versions : LeaseEnds(v)
  \/ \E dry_run \in BOOLEAN : StartPass(dry_run)
  \/ pass # None /\ \E l \in pass.todo, action \in OperatorAction : Repair(l, action)

(* Broadcasters and senders poll, and leases end. *)
DeliveryFairness ==
  /\ WF_deliveryVars(BroadcasterStep)
  /\ \A s \in Senders : WF_deliveryVars(SenderStep(s))
  /\ \A v \in Versions : WF_deliveryVars(LeaseEnds(v))

DeliverySpec == DeliveryInit /\ [][DeliveryNext]_deliveryVars /\ DeliveryFairness

-----------------------------------------------------------------------------
(***************************************************************************)
(* A version is published, and delivered, at most once more than its       *)
(* claims were abandoned and an operator retried it: an attempt that may   *)
(* have had its effect is never repeated by itself.                        *)
(***************************************************************************)
ReachedOnce == \A w \in Ways : reached[w] <= 1 + excused[w]

(***************************************************************************)
(* A repair pass whose report asks for no attention has left nothing       *)
(* behind that the operator wanted to change, dry runs included.           *)
(***************************************************************************)
QuietReportMeansNothingLeft ==
  pass # None /\ pass.todo = {} /\ ~needs_attention(pass.report) => pass.left = {}

(***************************************************************************)
(* What must come and stay: the item's version is broadcast and its        *)
(* delivery has ended, delivered or with a dead letter for an operator,    *)
(* although it may be reopened, and its broadcaster and senders crash and  *)
(* overrun, at any moment.                                                 *)
(***************************************************************************)
DeliveriesSettled ==
  /\ caster = None /\ broadcast \in {"broadcasted", "ambiguous"}
  /\ broadcast = "broadcasted" => outbox[version].status # "none"
  /\ \A v \in Versions : outbox[v].status \notin {"Pending", "Running"}
=============================================================================
