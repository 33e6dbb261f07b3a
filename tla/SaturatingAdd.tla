--------------------------- MODULE SaturatingAdd ---------------------------
(***************************************************************************)
(* The loop of instant_saturating_add, step by step: the reference that    *)
(* InstantMath's closed form stands for.  The duration can be far larger   *)
(* than what is left before MaxInstant.                                    *)
(***************************************************************************)
EXTENDS InstantMath

CONSTANT MaxDuration    \* bound: the longest duration asked for

ASSUME DurationAssumption == MaxDuration \in Nat

VARIABLES now, asked,   \* the arguments
          duration,     \* the loop's copy of asked
          result        \* what the function returned, Running before

addVars == <<now, asked, duration, result>>

Running == -1

AddTypeOK == /\ now \in Instants
             /\ asked \in 0..MaxDuration
             /\ duration \in 0..MaxDuration
             /\ result \in Instants \cup {Running}

AddInit == /\ now \in Instants
           /\ asked \in 0..MaxDuration
           /\ duration = asked
           /\ result = Running

(* now.checked_add(duration) is Some. *)
CheckedAdd == /\ result = Running
              /\ now + duration <= MaxInstant
              /\ result' = now + duration
              /\ UNCHANGED <<now, asked, duration>>

(* Mutant of Halve: it gives up at the first overflow. *)
GiveUp == /\ result = Running
          /\ now + duration > MaxInstant
          /\ result' = now
          /\ UNCHANGED <<now, asked, duration>>

(* checked_add overflowed: try half as much, or give up at zero. *)
Halve == /\ result = Running
         /\ now + duration > MaxInstant
         /\ duration' = duration \div 2
         /\ result' = IF duration' = 0 THEN now ELSE Running
         /\ UNCHANGED <<now, asked>>

AddNext == CheckedAdd \/ Halve

AddSpec == AddInit /\ [][AddNext]_addVars /\ WF_addVars(AddNext)

-----------------------------------------------------------------------------
(***************************************************************************)
(* What instant_saturating_add returns is the closed form the stores'      *)
(* models use: the latest representable now + asked \div 2^k.              *)
(***************************************************************************)
ClosedForm == result # Running => result = instant_saturating_add(now, asked)

(***************************************************************************)
(* A deadline is never before the time it was computed at, never further   *)
(* than was asked for, and, when anything is left before MaxInstant, it    *)
(* lies beyond now and uses up at least half of what is left: saturating   *)
(* instant_saturating_add does not turn a long TTL into none.              *)
(***************************************************************************)
LongTTLsStayLong ==
  result # Running =>
    LET left == MaxInstant - now IN
    /\ result \in now..(now + asked)
    /\ asked <= left => result = now + asked
    /\ asked > left => 2 * (result - now) >= left

(* The loop ends, however long the duration. *)
Terminates == <>(result # Running)
=============================================================================
