-------------------------- MODULE InProcessWindow --------------------------
(***************************************************************************)
(* InProcessFixedWindow of rate-limit-core: one bucket per key behind a    *)
(* Mutex.  The bucket counts one window only; a request of another window  *)
(* makes it start again.                                                   *)
(***************************************************************************)
EXTENDS WindowRequests

CONSTANT Ages    \* what cleanup may be asked to spare, in ticks

VARIABLE buckets

vars == <<requestVars, buckets>>

NoBucket == [window_start |-> 0, window_end |-> 0, count |-> 0]
Bucket == [window_start : 0..MaxTime, window_end : Nat \ {0}, count : 1..CountMax]

TypeOK == RequestsTypeOK /\ buckets \in [Keys -> Bucket \cup {NoBucket}]

Init == RequestsInit /\ buckets = [k \in Keys |-> NoBucket]

-----------------------------------------------------------------------------
(* Mutant of Current: a bucket goes on counting in the next window. *)
CurrentForever(k, now) ==
  IF buckets[k] = NoBucket
    THEN [window_start |-> window_start(k, now), window_end |-> window_end(k, now), count |-> 0]
    ELSE buckets[k]

(* The bucket of k, made or started again for the window of now. *)
Current(k, now) ==
  IF buckets[k] = NoBucket \/ buckets[k].window_start # window_start(k, now)
    THEN [window_start |-> window_start(k, now), window_end |-> window_end(k, now), count |-> 0]
    ELSE buckets[k]

(* check, from taking the lock on. *)
Check(r) ==
  /\ calls[r] # Idle
  /\ LET k == calls[r].key
         count == Increment(Current(k, calls[r].now).count)
     IN /\ buckets' = [buckets EXCEPT ![k] = [Current(k, calls[r].now) EXCEPT !.count = count]]
        /\ Answer(r, count)

(* now - older_than, stopping at the epoch. *)
cutoff(older_than) ==
  IF window_millis(older_than) > clock THEN 0 ELSE clock - window_millis(older_than)

cleanup(older_than) ==
  /\ buckets' = [k \in Keys |-> IF buckets[k].window_end > cutoff(older_than)
                                  THEN buckets[k] ELSE NoBucket]
  /\ UNCHANGED requestVars

Tick == TimePasses /\ UNCHANGED buckets
Asked(r, k) == Ask(r, k) /\ UNCHANGED buckets

Next == \/ Tick
        \/ \E r \in Requests : Check(r) \/ \E k \in Keys : Asked(r, k)
        \/ \E older_than \in Ages : cleanup(older_than)

Spec == Init /\ [][Next]_vars

-----------------------------------------------------------------------------
(* Nobody is turned away early: a rejected request has found the full      *)
(* count of its window allowed.                                            *)
RejectedWhenFull(r) ==
  (calls[r] # Idle /\ calls'[r] = Idle /\ admitted' = admitted)
    => LET k == calls[r].key IN
       admitted[k][window_start(k, calls[r].now)] >= LimitOf[k].count
=============================================================================
