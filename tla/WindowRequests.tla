--------------------------- MODULE WindowRequests ---------------------------
(***************************************************************************)
(* Fixed windows and the requests that are checked against them, as both   *)
(* backends of rate-limit-core see them.                                   *)
(*                                                                         *)
(* Times are in milliseconds since the epoch, the unit the code works in;  *)
(* a window is a Duration, in ticks of which Milli make a millisecond.     *)
(* The caller reads the clock and passes it to check as "now"; the counter *)
(* is incremented later, behind a lock or on a Redis server.  A request is *)
(* under way in between; if its caller gives up waiting (check_with_       *)
(* timeout), it stays under way, and may still be counted.                 *)
(***************************************************************************)
EXTENDS Integers, FiniteSets

CONSTANTS Keys,
          LimitOf,    \* per key, the count and the window of its limit
          Requests,   \* requests under way
          CountMax,   \* u32::MAX, where counters saturate
          Milli,      \* ticks in a millisecond
          MaxLag,     \* bound: a request is counted within this time, or never
          MaxTime     \* bound: the clock stops here

(* A limit of u32::MAX itself is left out: counters saturate there, so it   *)
(* never rejects anything.                                                 *)
ASSUME WindowAssumption ==
  /\ CountMax \in Nat \ {0} /\ Milli \in Nat \ {0}
  /\ MaxLag \in Nat /\ MaxTime \in Nat
  /\ LimitOf \in [Keys -> [count : 1..(CountMax - 1), window : Nat \ {0}]]

VARIABLES clock,
          calls,      \* the requests under way
          admitted    \* history: per key and start of a window, the requests allowed

requestVars == <<clock, calls, admitted>>

-----------------------------------------------------------------------------
(* A part of a millisecond counts as one. *)
window_millis(window) == (window \div Milli) + (IF window % Milli # 0 THEN 1 ELSE 0)

Width(k) == window_millis(LimitOf[k].window)
window_start(k, now) == now - (now % Width(k))
window_end(k, now) == window_start(k, now) + Width(k)

(* What a rejected caller is told to wait. *)
retry_after(k, now) == window_end(k, now) - now

(* count.saturating_add(1), and u32::try_from(..).unwrap_or(u32::MAX) *)
Increment(count) == IF count < CountMax THEN count + 1 ELSE CountMax

Idle == [state |-> "idle"]
Request == [state : {"asked"}, key : Keys, now : 0..MaxTime]

RequestsTypeOK == /\ clock \in 0..MaxTime
                  /\ calls \in [Requests -> Request \cup {Idle}]
                  /\ admitted \in [Keys -> [0..MaxTime -> 0..CountMax]]

RequestsInit == /\ clock = 0
                /\ calls = [r \in Requests |-> Idle]
                /\ admitted = [k \in Keys |-> [s \in 0..MaxTime |-> 0]]

-----------------------------------------------------------------------------
(* No request under way is older than MaxLag. *)
TimePasses == /\ clock < MaxTime
              /\ \A r \in Requests : calls[r] # Idle => clock < calls[r].now + MaxLag
              /\ clock' = clock + 1
              /\ UNCHANGED <<calls, admitted>>

Ask(r, k) == /\ calls[r] = Idle
             /\ calls' = [calls EXCEPT ![r] = [state |-> "asked", key |-> k, now |-> clock]]
             /\ UNCHANGED <<clock, admitted>>

(* The counter of the request's window now stands at count. *)
Allowed(r, count) == count <= LimitOf[calls[r].key].count

Answer(r, count) ==
  /\ \/ /\ Allowed(r, count)
        /\ admitted' = [admitted EXCEPT ![calls[r].key][window_start(calls[r].key, calls[r].now)]
                          = @ + 1]
     \/ /\ ~Allowed(r, count)
        /\ UNCHANGED admitted
  /\ calls' = [calls EXCEPT ![r] = Idle]
  /\ UNCHANGED clock

-----------------------------------------------------------------------------
(***************************************************************************)
(* "Maximum allowed requests per window" (LimitSpec::Fixed): in no window  *)
(* are more requests of a key allowed than its limit says.                 *)
(***************************************************************************)
AtMostCount ==
  \A k \in Keys, s \in 0..MaxTime : admitted[k][s] <= LimitOf[k].count
=============================================================================
