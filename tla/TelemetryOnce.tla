--------------------------- MODULE TelemetryOnce ---------------------------
(***************************************************************************)
(* Process-wide telemetry (world-telemetry): the one-time initializer      *)
(* behind its mutex, and guards that callers got from init_telemetry       *)
(* itself.  The subscriber can be installed once per process; whoever      *)
(* built an exporter for nothing has to give it up.  Exporters and the     *)
(* subscriber registry are libraries', external.                           *)
(***************************************************************************)
EXTENDS Integers, FiniteSets

CONSTANTS Threads, Exporters,
          NoExporter,    \* the guard of a local subscriber, or one shut down
          NoGuard

ASSUME TelemetryAssumption ==
  /\ NoExporter \notin Exporters /\ NoGuard \notin Exporters \cup Threads
  /\ "none" \notin Exporters

VARIABLES once,          \* the one-time initializer and its guard
          lock,          \* the thread that holds its mutex, or NoGuard
          own,           \* per thread, a guard of its own
          at,            \* per thread, what it is initializing
          subscriber,    \* what is installed: "none", "local" or an exporter's
          exporter,      \* of each exporter, whether it runs
          stops          \* history: how often each was shut down

telemetryVars == <<once, lock, own, at, subscriber, exporter, stops>>

NotThere == [to |-> "nothing", built |-> NoExporter]

TelemetryInit ==
  /\ once = [state |-> "Empty", guard |-> NoGuard] /\ lock = NoGuard
  /\ own = [t \in Threads |-> NoGuard] /\ at = [t \in Threads |-> NotThere]
  /\ subscriber = "none"
  /\ exporter = [e \in Exporters |-> "unbuilt"] /\ stops = [e \in Exporters |-> 0]

-----------------------------------------------------------------------------
(* TelemetryOnce::init keeps the lock until it has the guard. *)
InitOnce(t) ==
  /\ at[t] = NotThere /\ lock = NoGuard /\ once.state = "Empty"
  /\ lock' = t /\ at' = [at EXCEPT ![t].to = "once"]
  /\ UNCHANGED <<once, own, subscriber, exporter, stops>>

InitOwn(t) ==
  /\ at[t] = NotThere /\ own[t] = NoGuard
  /\ at' = [at EXCEPT ![t].to = "own"]
  /\ UNCHANGED <<once, lock, own, subscriber, exporter, stops>>

Unlock(t) == lock' = IF lock = t THEN NoGuard ELSE lock

(* The initialization is over, with a guard or with an error. *)
Return(t, guard) ==
  /\ at' = [at EXCEPT ![t] = NotThere] /\ Unlock(t)
  /\ IF at[t].to = "once"
     THEN once' = [state |-> "Active", guard |-> guard] /\ UNCHANGED own
     ELSE own' = [own EXCEPT ![t] = guard] /\ UNCHANGED once

ReturnError(t) ==
  /\ at' = [at EXCEPT ![t] = NotThere] /\ Unlock(t)
  /\ UNCHANGED <<once, own>>

(* Without an endpoint, or as the best effort when there is no exporter. *)
init_local_subscriber(t) ==
  IF subscriber = "none"
  THEN subscriber' = "local" /\ Return(t, NoExporter)
  ELSE UNCHANGED subscriber /\ ReturnError(t)

StartLocal(t) ==
  /\ at[t].to # "nothing" /\ at[t].built = NoExporter
  /\ init_local_subscriber(t)
  /\ UNCHANGED <<exporter, stops>>

(* The exporter cannot be built, and no best effort is wanted. *)
StartFails(t) ==
  /\ at[t].to # "nothing" /\ at[t].built = NoExporter
  /\ ReturnError(t)
  /\ UNCHANGED <<subscriber, exporter, stops>>

Build(t, e) ==
  /\ at[t].to # "nothing" /\ at[t].built = NoExporter
  /\ exporter[e] = "unbuilt"
  /\ exporter' = [exporter EXCEPT ![e] = "running"]
  /\ at' = [at EXCEPT ![t].built = e]
  /\ UNCHANGED <<once, lock, own, subscriber, stops>>

(* An exporter that is dropped before it has a guard ends with its last   *)
(* reference.  The best effort fails as well, as there is a subscriber.    *)
Install(t) ==
  LET e == at[t].built IN
  /\ e # NoExporter
  /\ IF subscriber = "none"
     THEN subscriber' = e /\ Return(t, e) /\ UNCHANGED exporter
     ELSE /\ exporter' = [exporter EXCEPT ![e] = "dropped"]
          /\ ReturnError(t) /\ UNCHANGED subscriber
  /\ UNCHANGED stops

-----------------------------------------------------------------------------
(* Mutant of after_shutdown: the guard keeps what it shut down. *)
not_taken(guard) == guard

(* The guard's exporter is taken before it is shut down. *)
after_shutdown(guard) == NoExporter

(* Shutting down ends the exporter even when it reports an error. *)
Stop(guard) ==
  /\ exporter' = [e \in Exporters |-> IF e = guard THEN "stopped" ELSE exporter[e]]
  /\ stops' = [e \in Exporters |-> IF e = guard THEN stops[e] + 1 ELSE stops[e]]

(* A guard shut down and dropped: dropping shuts down what is left. *)
StopAndDrop(guard) ==
  LET left == after_shutdown(guard) IN
  /\ exporter' = [e \in Exporters |-> IF e \in {guard, left} THEN "stopped" ELSE exporter[e]]
  /\ stops' = [e \in Exporters |-> stops[e] + (IF e = guard THEN 1 ELSE 0)
                                            + (IF e = left THEN 1 ELSE 0)]

ShutdownOnce(t) ==
  /\ at[t] = NotThere /\ lock = NoGuard
  /\ once' = [state |-> "Shutdown", guard |-> NoGuard]
  /\ StopAndDrop(once.guard)
  /\ UNCHANGED <<lock, own, at, subscriber>>

ShutdownOwn(t) ==
  /\ own[t] # NoGuard /\ at[t] = NotThere
  /\ own' = [own EXCEPT ![t] = after_shutdown(own[t])]
  /\ Stop(own[t])
  /\ UNCHANGED <<once, lock, at, subscriber>>

DropOwn(t) ==
  /\ own[t] # NoGuard /\ at[t] = NotThere
  /\ own' = [own EXCEPT ![t] = NoGuard]
  /\ Stop(own[t])
  /\ UNCHANGED <<once, lock, at, subscriber>>

TelemetryNext ==
  \E t \in Threads :
    \/ InitOnce(t) \/ InitOwn(t) \/ StartLocal(t) \/ StartFails(t) \/ Install(t)
    \/ ShutdownOnce(t) \/ ShutdownOwn(t) \/ DropOwn(t)
    \/ \E e \in Exporters : Build(t, e)

TelemetrySpec == TelemetryInit /\ [][TelemetryNext]_telemetryVars

-----------------------------------------------------------------------------
Holders(e) == {t \in Threads : own[t] = e \/ at[t].built = e}

(***************************************************************************)
(* No exporter is shut down twice, and none runs on without the one guard  *)
(* that will shut it down: an initialization that fails after it built     *)
(* one, or that comes after another or after a shutdown, leaves none.      *)
(***************************************************************************)
ExportersStoppedOnce ==
  \A e \in Exporters :
    /\ stops[e] <= 1
    /\ exporter[e] = "running" =>
         Cardinality(Holders(e)) + (IF once.guard = e THEN 1 ELSE 0) = 1
    /\ once.guard = e => once.state = "Active" /\ subscriber = e
=============================================================================
