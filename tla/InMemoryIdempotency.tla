------------------------ MODULE InMemoryIdempotency ------------------------
(***************************************************************************)
(* InMemoryIdempotencyStore of idempotency-runtime-core: a HashMap and a   *)
(* cleanup deadline behind one Mutex, shared by the clones of the store.   *)
(*                                                                         *)
(* Every operation but delete reads the clock BEFORE it takes the lock, so *)
(* a caller may act on a time that is long past when its turn comes.  An   *)
(* operation is therefore two steps: Call, which reads the clock and works *)
(* out the deadline, and the critical section, which is atomic (it holds   *)
(* the lock and awaits nothing).                                           *)
(***************************************************************************)
EXTENDS InstantMath

CONSTANTS Keys,      \* encoded keys of one store
          Callers,   \* tasks or threads using it
          TTLs,      \* TTLs they pass, in ticks
          MaxTime    \* bound: the clock stops here

ASSUME StoreAssumption == /\ TTLs \subseteq Nat
                          /\ MaxTime \in Instants

VARIABLES clock,   \* the monotonic clock
          state,   \* InMemoryState, what the Mutex guards
          calls,   \* per caller, the operation under way
          grants   \* history: who was told Fresh or true, until when

vars == <<clock, state, calls, grants>>

-----------------------------------------------------------------------------
Absent == [state |-> "absent", expires_at |-> 0]
Entry  == [state : {"marker", "pending", "completed"}, expires_at : Instants]
None   == -1

InMemoryState == [entries : [Keys -> Entry \cup {Absent}],
                  next_cleanup_at : Instants \cup {None}]

TimedOps == {"set_once", "claim_pending", "mark_completed", "exists"}
Idle     == [op |-> "idle"]
TimedCall == [op : TimedOps, key : Keys, now : 0..MaxTime, expires_at : Instants]
DeleteCall == [op : {"delete"}, key : Keys]
Grant    == [caller : Callers, expires_at : Instants]

TypeOK == /\ clock \in 0..MaxTime
          /\ state \in InMemoryState
          /\ calls \in [Callers -> TimedCall \cup DeleteCall \cup {Idle}]
          /\ grants \in [Keys -> SUBSET Grant]

Present(entries) == {k \in Keys : entries[k] # Absent}
Expiries(entries) == {entries[k].expires_at : k \in Present(entries)}
LiveAt(entry, now) == entry # Absent /\ entry.expires_at > now

Earliest(times) == CHOOSE t \in times : \A u \in times : t <= u

-----------------------------------------------------------------------------
(* Helpers of InMemoryState.                                               *)

retain(entries, now) ==
  [k \in Keys |-> IF LiveAt(entries[k], now) THEN entries[k] ELSE Absent]

(* Mutant of next_expiry: the last expiry instead of the first. *)
last_expiry(entries) ==
  IF Present(entries) = {} THEN None
  ELSE CHOOSE t \in Expiries(entries) : \A u \in Expiries(entries) : u <= t

next_expiry(entries) ==
  IF Present(entries) = {} THEN None ELSE Earliest(Expiries(entries))

maybe_cleanup(st, now) ==
  IF st.next_cleanup_at # None /\ st.next_cleanup_at > now
    THEN st
    ELSE [entries |-> retain(st.entries, now),
          next_cleanup_at |-> next_expiry(retain(st.entries, now))]

note_expiry(st, at) ==
  [st EXCEPT !.next_cleanup_at =
     IF st.next_cleanup_at = None THEN at ELSE Earliest({st.next_cleanup_at, at})]

(* entries.insert followed by note_expiry, as every writer does. *)
insert(st, k, kind, at) ==
  note_expiry([st EXCEPT !.entries[k] = [state |-> kind, expires_at |-> at]], at)

-----------------------------------------------------------------------------
Init == /\ clock = 0
        /\ state = [entries |-> [k \in Keys |-> Absent], next_cleanup_at |-> None]
        /\ calls = [c \in Callers |-> Idle]
        /\ grants = [k \in Keys |-> {}]

Standing(held, now) == {g \in held : g.expires_at > now}

Tick == /\ clock < MaxTime
        /\ clock' = clock + 1
        /\ grants' = [k \in Keys |-> Standing(grants[k], clock')]
        /\ UNCHANGED <<state, calls>>

(* Instant::now() and instant_saturating_add, before the lock is taken. *)
Call(c, op, k, ttl) ==
  /\ calls[c] = Idle
  /\ calls' = [calls EXCEPT ![c] = [op |-> op, key |-> k, now |-> clock,
                                    expires_at |-> expires_at(clock, ttl)]]
  /\ UNCHANGED <<clock, state, grants>>

CallDelete(c, k) ==
  /\ calls[c] = Idle
  /\ calls' = [calls EXCEPT ![c] = [op |-> "delete", key |-> k]]
  /\ UNCHANGED <<clock, state, grants>>

Return(c) == calls' = [calls EXCEPT ![c] = Idle] /\ UNCHANGED clock

(* The answer is Fresh, or true: the caller may do the work. *)
Granted(c, k, at) ==
  grants' = [grants EXCEPT ![k] = Standing(@ \cup {[caller |-> c, expires_at |-> at]}, clock)]

(* A caller that finishes or abandons a key ends whatever grant stood on it. *)
Released(k) == grants' = [grants EXCEPT ![k] = {}]

(* Mutant of SetOnce: a refused caller prolongs the marker it found. *)
SetOnceSliding(c) ==
  /\ calls[c].op = "set_once"
  /\ LET me == calls[c]
         swept == maybe_cleanup(state, me.now)
     IN /\ state' = insert(swept, me.key, "marker", me.expires_at)
        /\ \/ LiveAt(swept.entries[me.key], me.now) /\ UNCHANGED grants
           \/ ~LiveAt(swept.entries[me.key], me.now) /\ Granted(c, me.key, me.expires_at)
  /\ Return(c)

SetOnce(c) ==
  /\ calls[c].op = "set_once"
  /\ LET me == calls[c]
         swept == maybe_cleanup(state, me.now)
     IN \/ /\ LiveAt(swept.entries[me.key], me.now)
           /\ state' = swept
           /\ UNCHANGED grants
        \/ /\ ~LiveAt(swept.entries[me.key], me.now)
           /\ state' = insert(swept, me.key, "marker", me.expires_at)
           /\ Granted(c, me.key, me.expires_at)
  /\ Return(c)

(* Mutant of WorkClaim: a live marker does not count as completed work. *)
WorkClaimNoMarkers(entry, now) ==
  CASE LiveAt(entry, now) /\ entry.state = "pending" -> "Pending"
    [] LiveAt(entry, now) /\ entry.state = "completed" -> "Completed"
    [] OTHER -> "Fresh"

(* What claim_pending answers for the entry it finds: a live marker counts *)
(* as completed work.                                                      *)
WorkClaim(entry, now) ==
  CASE LiveAt(entry, now) /\ entry.state = "pending" -> "Pending"
    [] LiveAt(entry, now) /\ entry.state # "pending" -> "Completed"
    [] OTHER -> "Fresh"

ClaimPending(c) ==
  /\ calls[c].op = "claim_pending"
  /\ LET me == calls[c]
         swept == maybe_cleanup(state, me.now)
         answer == WorkClaim(swept.entries[me.key], me.now)
     IN \/ /\ answer \in {"Pending", "Completed"}
           /\ state' = swept
           /\ UNCHANGED grants
        \/ /\ answer = "Fresh"
           /\ state' = insert(swept, me.key, "pending", me.expires_at)
           /\ Granted(c, me.key, me.expires_at)
  /\ Return(c)

(* Unconditional: no cleanup, and whatever the key held is replaced. *)
MarkCompleted(c) ==
  /\ calls[c].op = "mark_completed"
  /\ state' = insert(state, calls[c].key, "completed", calls[c].expires_at)
  /\ Released(calls[c].key)
  /\ Return(c)

Delete(c) ==
  /\ calls[c].op = "delete"
  /\ state' = [state EXCEPT !.entries[calls[c].key] = Absent]
  /\ Released(calls[c].key)
  /\ Return(c)

Exists(c) ==
  /\ calls[c].op = "exists"
  /\ state' = maybe_cleanup(state, calls[c].now)
  /\ UNCHANGED grants
  /\ Return(c)

Next == \/ Tick
        \/ \E c \in Callers :
             \/ \E k \in Keys, op \in TimedOps, ttl \in TTLs : Call(c, op, k, ttl)
             \/ \E k \in Keys : CallDelete(c, k)
             \/ SetOnce(c) \/ ClaimPending(c) \/ MarkCompleted(c) \/ Delete(c) \/ Exists(c)

Spec == Init /\ [][Next]_vars

-----------------------------------------------------------------------------
(***************************************************************************)
(* Exclusive work: at any time at most one caller holds a standing grant   *)
(* on a key, and the key still carries the entry that caller was granted,  *)
(* whatever stale times the other callers act on (claim_pending, set_once).*)
(***************************************************************************)
AtMostOneLiveGrant ==
  \A k \in Keys : \A g \in grants[k] :
    /\ \A h \in grants[k] : h = g
    /\ state.entries[k].state \in {"marker", "pending"}
    /\ state.entries[k].expires_at = g.expires_at

(***************************************************************************)
(* The cleanup deadline is never later than the first expiry in the map,   *)
(* although delete never lowers it and callers insert with stale times: if *)
(* it were, maybe_cleanup would return early and leave dead entries behind.*)
(***************************************************************************)
CleanupBound ==
  \A k \in Present(state.entries) :
    /\ state.next_cleanup_at # None
    /\ state.next_cleanup_at <= state.entries[k].expires_at

(***************************************************************************)
(* An entry that has not expired is only ever replaced by mark_completed   *)
(* or removed by delete, on that key: no cleanup, claim or marker of       *)
(* another caller, however old the time it read, takes it away.            *)
(***************************************************************************)
LiveEntriesKept ==
  [][\A k \in Keys :
       (LiveAt(state.entries[k], clock) /\ state'.entries[k] # state.entries[k])
         => \E c \in Callers : /\ calls[c].op \in {"mark_completed", "delete"}
                               /\ calls[c].key = k
                               /\ calls'[c] = Idle]_vars

(***************************************************************************)
(* The early return of maybe_cleanup is invisible: an operation that runs  *)
(* it leaves no entry that had expired at the time the operation read,     *)
(* except an entry it has just inserted itself.                            *)
(***************************************************************************)
NoExpiredSurvivor ==
  [][\A c \in Callers :
       (calls[c].op \in {"set_once", "claim_pending", "exists"} /\ calls'[c] = Idle)
         => \A k \in Present(state'.entries) :
              \/ state'.entries[k].expires_at > calls[c].now
              \/ /\ k = calls[c].key
                 /\ state'.entries[k].expires_at = calls[c].expires_at]_vars

-----------------------------------------------------------------------------
(***************************************************************************)
(* The store implements IdempotencyClaims: what the abstract store shows   *)
(* is the entries that are live now.                                       *)
(***************************************************************************)
LiveClaims == [k \in Keys |-> IF LiveAt(state.entries[k], clock) THEN state.entries[k] ELSE Absent]

Claims == INSTANCE IdempotencyClaims
            WITH MaxExpiry <- MaxInstant, claims <- LiveClaims

(* Every step of the store is a grant, a completion, a release, the        *)
(* passing of time, or nothing, as seen through LiveClaims.                *)
ImplementsClaims == Claims!ClaimsSpec
=============================================================================
