---------------------------- MODULE RedisWindow ----------------------------
(***************************************************************************)
(* RedisFixedWindow of rate-limit-core: one Redis counter per key and      *)
(* window, incremented by a script that gives a new counter the time to    *)
(* live of a window and one second more.  The server is external.          *)
(***************************************************************************)
EXTENDS WindowRequests

CONSTANT Grace    \* the second more, in milliseconds

ASSUME GraceAssumption == Grace \in Nat /\ MaxLag <= Grace

VARIABLE counters    \* per key and start of a window, what the server holds

vars == <<requestVars, counters>>

Gone == [count |-> 0, expires_at |-> 0]
Counter == [count : 1..CountMax, expires_at : Nat \ {0}]

TypeOK == RequestsTypeOK /\ counters \in [Keys -> [0..MaxTime -> Counter \cup {Gone}]]

Init == /\ RequestsInit
        /\ counters = [k \in Keys |-> [s \in 0..MaxTime |-> Gone]]

-----------------------------------------------------------------------------
(* Mutant of redis_bucket: the key names no window. *)
redis_bucket_shared(k, now) == 0

(* The window in a counter's key. *)
redis_bucket(k, now) == window_start(k, now)

(* Mutant of ttl: a window's time, with nothing to spare for latecomers. *)
ttl_tight(k) == Width(k)

ttl(k) == Width(k) + Grace

(* INCR, and PEXPIRE for a counter that was not there. *)
Incremented(k, counter) ==
  [count |-> Increment(counter.count),
   expires_at |-> IF counter = Gone THEN clock + ttl(k) ELSE counter.expires_at]

(* The script runs; its caller may have stopped waiting. *)
Check(r) ==
  /\ calls[r] # Idle
  /\ LET k == calls[r].key
         bucket == redis_bucket(k, calls[r].now)
         counter == Incremented(k, counters[k][bucket])
     IN /\ counters' = [counters EXCEPT ![k][bucket] = counter]
        /\ Answer(r, counter.count)

(* The command never reaches the server: a broken connection, or one that  *)
(* takes longer than anybody waits.                                        *)
Lost(r) == /\ calls[r] # Idle
           /\ calls' = [calls EXCEPT ![r] = Idle]
           /\ UNCHANGED <<clock, admitted, counters>>

Tick ==
  /\ TimePasses
  /\ counters' = [k \in Keys |-> [s \in 0..MaxTime |->
                    IF counters[k][s].expires_at > clock' THEN counters[k][s] ELSE Gone]]

Asked(r, k) == Ask(r, k) /\ UNCHANGED counters

Next == \/ Tick
        \/ \E r \in Requests : Check(r) \/ Lost(r) \/ \E k \in Keys : Asked(r, k)

Spec == Init /\ [][Next]_vars

-----------------------------------------------------------------------------
(***************************************************************************)
(* Nobody is turned away early: a request that reaches the server is only  *)
(* rejected when its window has already seen the full count allowed.  One  *)
(* counted for a caller that had given up takes its place all the same.    *)
(***************************************************************************)
RejectedOnlyWhenFull ==
  [][\A r \in Requests :
       (calls[r] # Idle /\ counters' # counters /\ calls'[r] = Idle /\ admitted' = admitted)
         => LET k == calls[r].key IN
            admitted[k][window_start(k, calls[r].now)] >= LimitOf[k].count]_vars
=============================================================================
