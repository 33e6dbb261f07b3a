----------------------------- MODULE MCWindows -----------------------------
(***************************************************************************)
(* Both backends of the fixed window, for TLC: in each behaviour one of    *)
(* them runs, while the other's counters rest.                             *)
(*                                                                         *)
(* The Redis counters of different keys do not touch each other: one key   *)
(* is enough, with three requests that arrive up to as late as counters    *)
(* are kept for.  In process there is a second key, whose window is a      *)
(* whole number of milliseconds, and requests are counted ProcessLag after *)
(* they read the clock.                                                    *)
(***************************************************************************)
EXTENDS RedisWindow, TLC

CONSTANTS k1, k2,
          Ages, ProcessKeys, ProcessLimitOf, ProcessLag   \* of InProcessWindow

ASSUME ProcessAssumption ==
  /\ ProcessLag \in Nat /\ Ages \subseteq Nat
  /\ ProcessLimitOf \in [ProcessKeys -> [count : 1..(CountMax - 1), window : Nat \ {0}]]

VARIABLES part, buckets

MCLimits == k1 :> [count |-> 2, window |-> 3]
BothLimits == MCLimits @@ k2 :> [count |-> 1, window |-> 4]

InProcess == INSTANCE InProcessWindow
               WITH Keys <- ProcessKeys, LimitOf <- ProcessLimitOf, MaxLag <- ProcessLag

windowVars == <<part, vars, buckets>>

MCInit ==
  \/ part = "redis" /\ Init /\ buckets = <<>>
  \/ part = "process" /\ InProcess!Init /\ counters = <<>>

MCNext ==
  \/ part = "redis" /\ Next /\ UNCHANGED <<part, buckets>>
  \/ part = "process" /\ InProcess!Next /\ UNCHANGED <<part, counters>>

MCSpec == MCInit /\ [][MCNext]_windowVars

Symmetry == Permutations(Requests)

-----------------------------------------------------------------------------
(***************************************************************************)
(* What LimitSpec::Fixed says of its count: "Maximum allowed requests per  *)
(* window", in process.                                                    *)
(***************************************************************************)
InProcessAtMostCount == part = "process" => InProcess!AtMostCount

(***************************************************************************)
(* In process nobody is turned away early, and nobody is let in on top of  *)
(* the limit: a request is only rejected when its window has already seen  *)
(* the full count allowed, which is never exceeded, whatever other windows *)
(* saw and whatever was cleaned up or expired.                             *)
(***************************************************************************)
InProcessCountsItsWindow ==
  [][part = "process" =>
       InProcessAtMostCount' /\ \A r \in Requests : InProcess!RejectedWhenFull(r)]_windowVars
=============================================================================
