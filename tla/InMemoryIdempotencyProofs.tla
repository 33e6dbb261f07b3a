--------------------- MODULE InMemoryIdempotencyProofs ---------------------
(***************************************************************************)
(* InMemoryIdempotency for every set of keys, callers and TTLs.            *)
(***************************************************************************)
EXTENDS InMemoryIdempotency, InstantMathProofs

USE InstantAssumption, StoreAssumption DEF Instants

-----------------------------------------------------------------------------
(* Facts about the helpers of InMemoryState.                               *)

(* CleanupBound, of any value of the guarded state. *)
Bounded(st) ==
  \A k \in Present(st.entries) :
    /\ st.next_cleanup_at # None
    /\ st.next_cleanup_at <= st.entries[k].expires_at

LEMMA EarliestIsLeast ==
  ASSUME NEW T, T \subseteq Instants, T # {}
  PROVE  Earliest(T) \in T /\ \A t \in T : Earliest(T) <= t
<1>1. T \subseteq Nat
  OBVIOUS
<1>2. \E t \in T : \A u \in T : t <= u
  BY <1>1, LeastExists, Zenon
<1> QED BY <1>2 DEF Earliest

LEMMA EntriesTyping ==
  ASSUME NEW st \in InMemoryState, NEW k \in Keys
  PROVE  /\ st.entries \in [Keys -> Entry \cup {Absent}]
         /\ st.next_cleanup_at \in Instants \cup {None}
         /\ st.entries[k] \in Entry \cup {Absent}
         /\ st.entries[k].expires_at \in Instants
         /\ st.entries[k] # Absent => st.entries[k] \in Entry
BY DEF InMemoryState, Entry, Absent

LEMMA RetainKeepsLive ==
  ASSUME NEW st \in InMemoryState, NEW now \in Instants
  PROVE  /\ retain(st.entries, now) \in [Keys -> Entry \cup {Absent}]
         /\ \A k \in Keys : LiveAt(st.entries[k], now) => retain(st.entries, now)[k] = st.entries[k]
         /\ \A k \in Keys : ~LiveAt(st.entries[k], now) => retain(st.entries, now)[k] = Absent
BY EntriesTyping DEF retain

LEMMA NextExpiryBounds ==
  ASSUME NEW entries \in [Keys -> Entry \cup {Absent}]
  PROVE  /\ next_expiry(entries) \in Instants \cup {None}
         /\ \A k \in Present(entries) : /\ next_expiry(entries) # None
                                        /\ next_expiry(entries) <= entries[k].expires_at
<1>1. CASE Present(entries) = {}
  BY <1>1 DEF next_expiry
<1>2. CASE Present(entries) # {}
  <2>1. Expiries(entries) \subseteq Instants
    BY DEF Expiries, Present, Entry
  <2>2. PICK k \in Present(entries) : TRUE
    BY <1>2
  <2>3. Expiries(entries) # {}
    BY <2>2 DEF Expiries
  <2>4. /\ Earliest(Expiries(entries)) \in Expiries(entries)
        /\ \A t \in Expiries(entries) : Earliest(Expiries(entries)) <= t
    BY <2>1, <2>3, EarliestIsLeast, Zenon
  <2>5. next_expiry(entries) = Earliest(Expiries(entries))
    BY <1>2 DEF next_expiry
  <2>6. \A j \in Present(entries) : entries[j].expires_at \in Expiries(entries)
    BY DEF Expiries
  <2> QED BY <2>1, <2>4, <2>5, <2>6 DEF None
<1> QED BY <1>1, <1>2

(* What a cleanup at a given time leaves behind. *)
LEMMA CleanupLeaves ==
  ASSUME NEW st \in InMemoryState, Bounded(st), NEW now \in Instants
  PROVE  /\ maybe_cleanup(st, now) \in InMemoryState
         /\ Bounded(maybe_cleanup(st, now))
         /\ \A k \in Keys : LiveAt(st.entries[k], now)
                              => maybe_cleanup(st, now).entries[k] = st.entries[k]
         /\ \A k \in Keys : maybe_cleanup(st, now).entries[k] \in {st.entries[k], Absent}
         /\ \A k \in Present(maybe_cleanup(st, now).entries) :
              maybe_cleanup(st, now).entries[k].expires_at > now
<1> DEFINE early == st.next_cleanup_at # None /\ st.next_cleanup_at > now
<1>1. CASE early
  <2>1. maybe_cleanup(st, now) = st
    BY <1>1 DEF maybe_cleanup
  <2>2. \A k \in Present(st.entries) : st.entries[k].expires_at > now
    BY <1>1, EntriesTyping DEF Bounded, Present, None
  <2> QED BY <2>1, <2>2
<1>2. CASE ~early
  <2> DEFINE kept == retain(st.entries, now)
  <2>1. maybe_cleanup(st, now) = [entries |-> kept, next_cleanup_at |-> next_expiry(kept)]
    BY <1>2 DEF maybe_cleanup
  <2>2. /\ kept \in [Keys -> Entry \cup {Absent}]
        /\ \A k \in Keys : LiveAt(st.entries[k], now) => kept[k] = st.entries[k]
        /\ \A k \in Keys : ~LiveAt(st.entries[k], now) => kept[k] = Absent
    BY RetainKeepsLive
  <2> HIDE DEF kept
  <2>3. /\ next_expiry(kept) \in Instants \cup {None}
        /\ \A k \in Present(kept) : /\ next_expiry(kept) # None
                                    /\ next_expiry(kept) <= kept[k].expires_at
    BY <2>2, NextExpiryBounds
  <2>4. maybe_cleanup(st, now).entries = kept /\ maybe_cleanup(st, now).next_cleanup_at = next_expiry(kept)
    BY <2>1
  <2>5. maybe_cleanup(st, now) \in InMemoryState
    BY <2>1, <2>2, <2>3 DEF InMemoryState
  <2>6. Bounded(maybe_cleanup(st, now))
    BY <2>3, <2>4 DEF Bounded
  <2>7. \A k \in Present(kept) : kept[k].expires_at > now
    BY <2>2 DEF Present, LiveAt
  <2> QED BY <2>2, <2>4, <2>5, <2>6, <2>7
<1> QED BY <1>1, <1>2

(* The entry a writer inserts. *)
Written(kind, at) == [state |-> kind, expires_at |-> at]

(* What an insertion adds: one entry, and a deadline low enough for it. *)
LEMMA InsertAdds ==
  ASSUME NEW st \in InMemoryState, Bounded(st), NEW k \in Keys, NEW at \in Instants,
         NEW kind \in {"marker", "pending", "completed"}
  PROVE  /\ insert(st, k, kind, at) \in InMemoryState
         /\ Bounded(insert(st, k, kind, at))
         /\ insert(st, k, kind, at).entries[k] = Written(kind, at)
         /\ \A j \in Keys \ {k} : insert(st, k, kind, at).entries[j] = st.entries[j]
<1> DEFINE entries == [st.entries EXCEPT ![k] = [state |-> kind, expires_at |-> at]]
           next == IF st.next_cleanup_at = None THEN at
                   ELSE Earliest({st.next_cleanup_at, at})
<1>1. insert(st, k, kind, at) = [entries |-> entries, next_cleanup_at |-> next]
  <2> DEFINE added == [st EXCEPT !.entries[k] = [state |-> kind, expires_at |-> at]]
  <2>1. added = [entries |-> entries, next_cleanup_at |-> st.next_cleanup_at]
    BY DEF InMemoryState
  <2>2. insert(st, k, kind, at) = note_expiry(added, at)
    BY DEF insert
  <2> HIDE DEF added, entries
  <2>3. /\ added.next_cleanup_at = st.next_cleanup_at
        /\ note_expiry(added, at) = [entries |-> entries, next_cleanup_at |-> next]
    BY <2>1 DEF note_expiry
  <2> QED BY <2>2, <2>3
<1>2. entries \in [Keys -> Entry \cup {Absent}]
  BY EntriesTyping DEF Entry
<1>3. /\ next \in Instants /\ next <= at
      /\ st.next_cleanup_at # None => next <= st.next_cleanup_at
  <2>1. CASE st.next_cleanup_at = None
    BY <2>1
  <2>2. CASE st.next_cleanup_at # None
    <3>1. st.next_cleanup_at \in Instants
      BY <2>2, EntriesTyping
    <3>2. {st.next_cleanup_at, at} \subseteq Instants /\ {st.next_cleanup_at, at} # {}
      BY <3>1
    <3>3. /\ Earliest({st.next_cleanup_at, at}) \in {st.next_cleanup_at, at}
          /\ \A t \in {st.next_cleanup_at, at} : Earliest({st.next_cleanup_at, at}) <= t
      BY <3>2, EarliestIsLeast, Zenon
    <3> QED BY <2>2, <3>1, <3>3
  <2> QED BY <2>1, <2>2
<1>4. \A j \in Present(entries) : next <= entries[j].expires_at
  <2> TAKE j \in Present(entries)
  <2>1. CASE j = k
    BY <2>1, <1>3, EntriesTyping DEF Present
  <2>2. CASE j # k
    <3>1. j \in Present(st.entries) /\ entries[j] = st.entries[j]
      BY <2>2, EntriesTyping DEF Present
    <3>2. st.next_cleanup_at # None /\ st.next_cleanup_at <= st.entries[j].expires_at
      BY <3>1 DEF Bounded
    <3>3. st.next_cleanup_at \in Instants /\ st.entries[j].expires_at \in Instants
      BY <3>1, <3>2, EntriesTyping DEF Present
    <3> HIDE DEF next, entries
    <3> QED BY <1>3, <3>1, <3>2, <3>3
  <2> QED BY <2>1, <2>2
<1> HIDE DEF next, entries
<1>5. insert(st, k, kind, at).entries = entries /\ insert(st, k, kind, at).next_cleanup_at = next
  BY <1>1
<1>6. insert(st, k, kind, at) \in InMemoryState
  BY <1>1, <1>2, <1>3 DEF InMemoryState
<1>7. Bounded(insert(st, k, kind, at))
  BY <1>3, <1>4, <1>5 DEF Bounded, None
<1>8. entries[k] = Written(kind, at) /\ \A j \in Keys \ {k} : entries[j] = st.entries[j]
  BY EntriesTyping DEF entries, Written
<1> QED BY <1>5, <1>6, <1>7, <1>8

LEMMA InsertGrants ==
  ASSUME NEW st \in InMemoryState, Bounded(st), NEW k \in Keys, NEW at \in Instants,
         NEW kind \in {"marker", "pending"}, NEW next, next = insert(st, k, kind, at)
  PROVE  /\ next \in InMemoryState
         /\ Bounded(next)
         /\ next.entries[k] = Written(kind, at)
         /\ \A j \in Keys \ {k} : next.entries[j] = st.entries[j]
<1>1. kind \in {"marker", "pending", "completed"}
  OBVIOUS
<1> QED BY <1>1, InsertAdds

-----------------------------------------------------------------------------
(***************************************************************************)
(* The inductive invariant.  Exclusive work holds although callers act on  *)
(* old times because the time an operation read is never ahead of the      *)
(* clock: what is live at the clock was live at that time too.             *)
(***************************************************************************)
TimesPast == \A c \in Callers : calls[c].op \in TimedOps => calls[c].now <= clock

GrantsStand == \A k \in Keys : \A g \in grants[k] : g.expires_at > clock

IInv == TypeOK /\ TimesPast /\ GrantsStand /\ AtMostOneLiveGrant /\ CleanupBound

LEMMA CallTyping ==
  ASSUME TypeOK, NEW c \in Callers
  PROVE  /\ calls[c].op \in TimedOps =>
              /\ calls[c] \in TimedCall
              /\ calls[c].key \in Keys
              /\ calls[c].now \in Instants
              /\ calls[c].expires_at \in Instants
         /\ calls[c].op = "delete" => calls[c].key \in Keys
BY DEF TypeOK, TimedOps, TimedCall, DeleteCall, Idle

LEMMA GrantTyping ==
  ASSUME TypeOK, NEW k \in Keys, NEW g \in grants[k]
  PROVE  g \in Grant /\ g.caller \in Callers /\ g.expires_at \in Instants
BY DEF TypeOK, Grant

(* A key somebody holds a grant on carries an entry that is live.          *)
LEMMA GrantedIsLive ==
  ASSUME IInv, NEW k \in Keys, grants[k] # {}
  PROVE  LiveAt(state.entries[k], clock)
<1>1. PICK g \in grants[k] : TRUE
  OBVIOUS
<1>2. /\ state.entries[k].state \in {"marker", "pending"}
      /\ state.entries[k].expires_at = g.expires_at
  BY <1>1 DEF IInv, AtMostOneLiveGrant
<1>3. g.expires_at > clock
  BY <1>1 DEF IInv, GrantsStand
<1> QED BY <1>2, <1>3 DEF LiveAt, Absent

(* What the cleanup of an operation leaves of the present.                 *)
LEMMA SweepKeepsPresent ==
  ASSUME IInv, NEW c \in Callers, calls[c].op \in TimedOps,
         NEW swept, swept = maybe_cleanup(state, calls[c].now)
  PROVE  /\ swept \in InMemoryState
         /\ Bounded(swept)
         /\ \A k \in Keys : LiveAt(state.entries[k], clock) => swept.entries[k] = state.entries[k]
         /\ \A k \in Keys : LiveAt(swept.entries[k], clock) <=> LiveAt(state.entries[k], clock)
         /\ \A k \in Keys : ~LiveAt(swept.entries[k], calls[c].now)
                              => ~LiveAt(state.entries[k], clock) /\ grants[k] = {}
<1> DEFINE now == calls[c].now
<1>1. now \in Instants /\ clock \in Instants /\ now <= clock /\ state \in InMemoryState
  BY CallTyping DEF IInv, TypeOK, TimesPast
<1>2. Bounded(state)
  BY DEF IInv, CleanupBound, Bounded
<1>3. /\ swept \in InMemoryState
      /\ Bounded(swept)
      /\ \A k \in Keys : LiveAt(state.entries[k], now) => swept.entries[k] = state.entries[k]
      /\ \A k \in Keys : swept.entries[k] \in {state.entries[k], Absent}
  BY <1>1, <1>2, CleanupLeaves
<1> HIDE DEF now
<1>4. \A k \in Keys : LiveAt(state.entries[k], clock) => LiveAt(state.entries[k], now)
  BY <1>1, EntriesTyping DEF LiveAt
<1>5. \A k \in Keys : LiveAt(swept.entries[k], clock) <=> LiveAt(state.entries[k], clock)
  BY <1>3, <1>4 DEF LiveAt
<1>6. ASSUME NEW k \in Keys, ~LiveAt(swept.entries[k], now)
      PROVE  ~LiveAt(state.entries[k], clock) /\ grants[k] = {}
  BY <1>3, <1>4, <1>6, GrantedIsLive
<1> QED BY <1>3, <1>4, <1>5, <1>6 DEF now

-----------------------------------------------------------------------------
(* The steps, grouped by what they do to the guarded state.                *)

LEMMA ReturnKeepsCalls ==
  ASSUME IInv, NEW c \in Callers, Return(c)
  PROVE  /\ clock' = clock
         /\ calls' \in [Callers -> TimedCall \cup DeleteCall \cup {Idle}]
         /\ TimesPast'
<1>1. calls' = [calls EXCEPT ![c] = Idle] /\ clock' = clock
  BY DEF Return
<1>2. \A d \in Callers : calls'[d] = IF d = c THEN Idle ELSE calls[d]
  BY <1>1 DEF IInv, TypeOK
<1>3. Idle.op \notin TimedOps
  BY DEF Idle, TimedOps
<1> QED BY <1>1, <1>2, <1>3 DEF IInv, TypeOK, TimesPast

(* The operation only sweeps. *)
LEMMA SweepStep ==
  ASSUME IInv, NEW c \in Callers, calls[c].op \in TimedOps,
         state' = maybe_cleanup(state, calls[c].now), UNCHANGED grants, Return(c)
  PROVE  IInv' /\ LiveClaims' = LiveClaims
<1>1. /\ state' \in InMemoryState
      /\ Bounded(state')
      /\ \A k \in Keys : LiveAt(state.entries[k], clock) => state'.entries[k] = state.entries[k]
      /\ \A k \in Keys : LiveAt(state'.entries[k], clock) <=> LiveAt(state.entries[k], clock)
  BY SweepKeepsPresent
<1>2. clock' = clock /\ TimesPast' /\ calls' \in [Callers -> TimedCall \cup DeleteCall \cup {Idle}]
  BY ReturnKeepsCalls
<1>3. TypeOK' /\ GrantsStand'
  BY <1>1, <1>2 DEF IInv, TypeOK, GrantsStand
<1>4. AtMostOneLiveGrant'
  <2> SUFFICES ASSUME NEW k \in Keys, NEW g \in grants[k]
               PROVE  /\ \A h \in grants[k] : h = g
                      /\ state'.entries[k].state \in {"marker", "pending"}
                      /\ state'.entries[k].expires_at = g.expires_at
    BY DEF AtMostOneLiveGrant
  <2>1. state'.entries[k] = state.entries[k]
    BY <1>1, GrantedIsLive
  <2> QED BY <2>1 DEF IInv, AtMostOneLiveGrant
<1>5. CleanupBound'
  BY <1>1 DEF Bounded, CleanupBound
<1>6. LiveClaims' = LiveClaims
  BY <1>1, <1>2 DEF LiveClaims
<1> QED BY <1>2, <1>3, <1>4, <1>5, <1>6 DEF IInv

(* The operation sweeps, finds the key free and takes it. *)
LEMMA GrantStep ==
  ASSUME IInv, NEW c \in Callers, NEW key \in Keys, NEW at \in Instants,
         NEW swept \in InMemoryState, Bounded(swept),
         \A k \in Keys : LiveAt(state.entries[k], clock) => swept.entries[k] = state.entries[k],
         \A k \in Keys : LiveAt(swept.entries[k], clock) <=> LiveAt(state.entries[k], clock),
         ~LiveAt(state.entries[key], clock), grants[key] = {},
         NEW kind \in {"marker", "pending"},
         state' = insert(swept, key, kind, at), Granted(c, key, at), Return(c)
  PROVE  /\ IInv'
         /\ LiveClaims[key] = Absent
         /\ LiveClaims' = [LiveClaims EXCEPT ![key] = IF at > clock THEN Written(kind, at) ELSE Absent]
         /\ grants' = [grants EXCEPT ![key] =
                         IF at > clock THEN {[caller |-> c, expires_at |-> at]} ELSE {}]
<1> DEFINE mine == [caller |-> c, expires_at |-> at]
           given == IF at > clock THEN {mine} ELSE {}
<1>1. clock \in Instants
  BY DEF IInv, TypeOK
<1>2. /\ \A k \in Keys : LiveAt(state.entries[k], clock) => swept.entries[k] = state.entries[k]
      /\ \A k \in Keys : LiveAt(swept.entries[k], clock) <=> LiveAt(state.entries[k], clock)
      /\ ~LiveAt(state.entries[key], clock) /\ grants[key] = {}
  OBVIOUS
<1>3. clock' = clock /\ TimesPast' /\ calls' \in [Callers -> TimedCall \cup DeleteCall \cup {Idle}]
  BY ReturnKeepsCalls
<1>4. /\ state' \in InMemoryState
      /\ Bounded(state')
      /\ state'.entries[key] = Written(kind, at)
      /\ \A k \in Keys \ {key} : state'.entries[k] = swept.entries[k]
  <2>1. /\ swept \in InMemoryState /\ Bounded(swept) /\ key \in Keys /\ at \in Instants
        /\ kind \in {"marker", "pending"} /\ state' = insert(swept, key, kind, at)
    OBVIOUS
  <2> QED BY ONLY <2>1, InsertGrants
<1>5. /\ state'.entries[key] = [state |-> kind, expires_at |-> at]
      /\ \A k \in Keys \ {key} : state'.entries[k] = swept.entries[k]
  BY <1>4 DEF Written
<1>6. grants' = [grants EXCEPT ![key] = given]
  <2>1. Standing(grants[key] \cup {mine}, clock) = given
    BY <1>2 DEF Standing
  <2>2. grants' = [grants EXCEPT ![key] = Standing(grants[key] \cup {mine}, clock)]
    BY DEF Granted
  <2> QED BY <2>1, <2>2
<1>7. /\ grants'[key] = given
      /\ \A k \in Keys \ {key} : grants'[k] = grants[k]
  BY <1>1, <1>6 DEF IInv, TypeOK
<1>8. TypeOK'
  <2>1. given \in SUBSET Grant
    BY <1>1 DEF Grant
  <2>2. grants' \in [Keys -> SUBSET Grant]
    BY <1>6, <2>1 DEF IInv, TypeOK
  <2> QED BY <1>3, <1>4, <2>2 DEF IInv, TypeOK
<1>9. GrantsStand'
  BY <1>3, <1>7 DEF IInv, GrantsStand
<1>10. AtMostOneLiveGrant'
  <2> SUFFICES ASSUME NEW k \in Keys, NEW g \in grants'[k]
               PROVE  /\ \A h \in grants'[k] : h = g
                      /\ state'.entries[k].state \in {"marker", "pending"}
                      /\ state'.entries[k].expires_at = g.expires_at
    BY DEF AtMostOneLiveGrant
  <2>1. CASE k = key
    BY <2>1, <1>5, <1>7
  <2>2. CASE k # key
    <3>1. grants'[k] = grants[k] /\ state'.entries[k] = swept.entries[k]
      BY <2>2, <1>5, <1>7
    <3>2. swept.entries[k] = state.entries[k]
      BY <3>1, <1>2, GrantedIsLive
    <3> QED BY <3>1, <3>2 DEF IInv, AtMostOneLiveGrant
  <2> QED BY <2>1, <2>2
<1>11. CleanupBound'
  BY <1>4 DEF Bounded, CleanupBound
<1>12. LiveClaims[key] = Absent
  BY <1>1, <1>2 DEF LiveClaims
<1>13. LiveClaims' = [LiveClaims EXCEPT ![key] = IF at > clock THEN Written(kind, at) ELSE Absent]
  <2>1. LiveAt(state'.entries[key], clock') <=> at > clock
    BY <1>3, <1>5 DEF LiveAt, Absent
  <2>2. \A k \in Keys \ {key} : LiveClaims'[k] = LiveClaims[k]
    BY <1>2, <1>3, <1>5 DEF LiveClaims
  <2>3. LiveClaims'[key] = IF at > clock THEN Written(kind, at) ELSE Absent
    BY <1>1, <1>4, <2>1 DEF LiveClaims
  <2> DEFINE claim == IF at > clock THEN Written(kind, at) ELSE Absent
  <2>4. /\ LiveClaims = [k \in Keys |-> LiveClaims[k]]
        /\ LiveClaims' = [k \in Keys |-> LiveClaims'[k]]
    BY DEF LiveClaims
  <2> HIDE DEF claim
  <2>5. LiveClaims' = [LiveClaims EXCEPT ![key] = claim]
    BY <2>2, <2>3, <2>4 DEF claim
  <2> QED BY <2>5 DEF claim
<1> QED BY <1>1, <1>3, <1>6, <1>8, <1>9, <1>10, <1>11, <1>12, <1>13 DEF IInv

(* mark_completed and delete: one entry replaced or removed, nothing swept. *)
LEMMA ReleaseStep ==
  ASSUME IInv, NEW c \in Callers, NEW key \in Keys,
         state' \in InMemoryState, Bounded(state'),
         \A k \in Keys \ {key} : state'.entries[k] = state.entries[k],
         Released(key), Return(c)
  PROVE  IInv'
<1>1. clock' = clock /\ TimesPast' /\ calls' \in [Callers -> TimedCall \cup DeleteCall \cup {Idle}]
  BY ReturnKeepsCalls
<1>2. grants' \in [Keys -> SUBSET Grant] /\ grants'[key] = {}
  BY DEF Released, IInv, TypeOK
<1>3. \A k \in Keys \ {key} : grants'[k] = grants[k]
  BY DEF Released, IInv, TypeOK
<1>4. TypeOK' /\ GrantsStand'
  BY <1>1, <1>2, <1>3 DEF IInv, TypeOK, GrantsStand
<1>5. AtMostOneLiveGrant'
  BY <1>2, <1>3 DEF IInv, AtMostOneLiveGrant
<1>6. CleanupBound'
  BY DEF Bounded, CleanupBound
<1> QED BY <1>1, <1>4, <1>5, <1>6 DEF IInv

LEMMA CompletedStep ==
  ASSUME IInv, NEW c \in Callers, MarkCompleted(c)
  PROVE  /\ IInv'
         /\ calls[c].key \in Keys /\ calls[c].expires_at \in Instants
         /\ state'.entries[calls[c].key] = Written("completed", calls[c].expires_at)
         /\ \A k \in Keys \ {calls[c].key} : state'.entries[k] = state.entries[k]
<1> DEFINE key == calls[c].key
           at == calls[c].expires_at
<1>1. key \in Keys /\ at \in Instants
  BY CallTyping DEF IInv, MarkCompleted, TimedOps
<1>2. state' = insert(state, key, "completed", at) /\ Released(key) /\ Return(c)
  BY DEF MarkCompleted
<1>3. state \in InMemoryState /\ Bounded(state)
  BY DEF IInv, TypeOK, CleanupBound, Bounded
<1> HIDE DEF key, at
<1>4. /\ state' \in InMemoryState
      /\ Bounded(state')
      /\ state'.entries[key] = Written("completed", at)
      /\ \A k \in Keys \ {key} : state'.entries[k] = state.entries[k]
  BY <1>1, <1>2, <1>3, InsertAdds
<1>5. IInv'
  BY <1>1, <1>2, <1>4, ReleaseStep
<1> QED BY <1>1, <1>4, <1>5 DEF key, at

LEMMA DeletedStep ==
  ASSUME IInv, NEW c \in Callers, Delete(c)
  PROVE  /\ IInv'
         /\ calls[c].key \in Keys
         /\ state'.entries[calls[c].key] = Absent
         /\ \A k \in Keys \ {calls[c].key} : state'.entries[k] = state.entries[k]
<1> DEFINE key == calls[c].key
<1>1. key \in Keys
  BY CallTyping DEF IInv, Delete
<1>2. state' = [state EXCEPT !.entries[key] = Absent] /\ Released(key) /\ Return(c)
  BY DEF Delete
<1>3. state \in InMemoryState /\ Bounded(state)
  BY DEF IInv, TypeOK, CleanupBound, Bounded
<1> HIDE DEF key
<1>4. /\ state'.entries = [state.entries EXCEPT ![key] = Absent]
      /\ state'.next_cleanup_at = state.next_cleanup_at
      /\ state' \in InMemoryState
  BY <1>1, <1>2, <1>3 DEF InMemoryState
<1>5. /\ \A k \in Keys \ {key} : state'.entries[k] = state.entries[k]
      /\ state'.entries[key] = Absent
  BY <1>1, <1>3, <1>4, EntriesTyping
<1>6. Bounded(state')
  BY <1>3, <1>4, <1>5 DEF Bounded, Present
<1>7. IInv'
  BY <1>1, <1>2, <1>4, <1>5, <1>6, ReleaseStep
<1> QED BY <1>1, <1>5, <1>7 DEF key

LEMMA TickStep == IInv /\ Tick => IInv'
<1> SUFFICES ASSUME IInv, Tick PROVE IInv'
  OBVIOUS
<1>1. /\ clock' = clock + 1 /\ clock' \in 0..MaxTime /\ clock \in Nat
      /\ state' = state /\ calls' = calls
  BY DEF Tick, IInv, TypeOK
<1>2. \A k \in Keys : grants'[k] = {g \in grants[k] : g.expires_at > clock'}
  BY DEF Tick, Standing
<1>3. TypeOK'
  <2>1. grants' = [k \in Keys |-> {g \in grants[k] : g.expires_at > clock'}]
    BY DEF Tick, Standing
  <2>2. grants' \in [Keys -> SUBSET Grant]
    BY <2>1 DEF IInv, TypeOK
  <2> QED BY <1>1, <2>2 DEF IInv, TypeOK
<1>4. TimesPast'
  BY <1>1, CallTyping DEF IInv, TimesPast
<1>5. GrantsStand'
  BY <1>2 DEF GrantsStand
<1>6. AtMostOneLiveGrant'
  BY <1>1, <1>2 DEF IInv, AtMostOneLiveGrant
<1>7. CleanupBound'
  BY <1>1 DEF IInv, CleanupBound
<1> QED BY <1>3, <1>4, <1>5, <1>6, <1>7 DEF IInv

LEMMA CallStep ==
  ASSUME IInv, NEW c \in Callers, NEW k \in Keys,
         \/ \E op \in TimedOps, ttl \in TTLs : Call(c, op, k, ttl)
         \/ CallDelete(c, k)
  PROVE  IInv' /\ UNCHANGED <<clock, state, grants>>
<1>1. /\ UNCHANGED <<clock, state, grants>>
      /\ calls' \in [Callers -> TimedCall \cup DeleteCall \cup {Idle}]
      /\ TimesPast'
  <2>1. ASSUME NEW op \in TimedOps, NEW ttl \in TTLs, Call(c, op, k, ttl)
        PROVE  /\ UNCHANGED <<clock, state, grants>>
               /\ calls' \in [Callers -> TimedCall \cup DeleteCall \cup {Idle}]
               /\ TimesPast'
    <3> DEFINE call == [op |-> op, key |-> k, now |-> clock, expires_at |-> expires_at(clock, ttl)]
    <3>1. clock \in 0..MaxTime /\ clock \in Instants /\ ttl \in Nat
      BY DEF IInv, TypeOK
    <3>2. expires_at(clock, ttl) \in Instants
      BY <3>1, ExpiryBounds
    <3>3. call \in TimedCall /\ call.now = clock
      BY <3>1, <3>2 DEF TimedCall
    <3> HIDE DEF call
    <3>4. calls' = [calls EXCEPT ![c] = call] /\ UNCHANGED <<clock, state, grants>>
      BY <2>1 DEF Call, call
    <3>5. \A d \in Callers : calls'[d] = IF d = c THEN call ELSE calls[d]
      BY <3>4 DEF IInv, TypeOK
    <3>6. TimesPast'
      BY <3>1, <3>3, <3>4, <3>5 DEF IInv, TimesPast
    <3> QED BY <3>3, <3>4, <3>6 DEF IInv, TypeOK
  <2>2. ASSUME CallDelete(c, k)
        PROVE  /\ UNCHANGED <<clock, state, grants>>
               /\ calls' \in [Callers -> TimedCall \cup DeleteCall \cup {Idle}]
               /\ TimesPast'
    <3> DEFINE call == [op |-> "delete", key |-> k]
    <3>1. calls' = [calls EXCEPT ![c] = call] /\ UNCHANGED <<clock, state, grants>>
      BY <2>2 DEF CallDelete
    <3>2. call \in DeleteCall /\ call.op \notin TimedOps
      BY DEF DeleteCall, TimedOps
    <3> HIDE DEF call
    <3>3. \A d \in Callers : calls'[d] = IF d = c THEN call ELSE calls[d]
      BY <3>1 DEF IInv, TypeOK
    <3>4. TimesPast'
      BY <3>1, <3>2, <3>3 DEF IInv, TimesPast
    <3> QED BY <3>1, <3>2, <3>4 DEF IInv, TypeOK
  <2> QED BY <2>1, <2>2
<1> QED BY <1>1 DEF IInv, TypeOK, GrantsStand, AtMostOneLiveGrant, CleanupBound

-----------------------------------------------------------------------------
(* The two outcomes of an operation that answers: it only swept the map,   *)
(* or it also took the key.                                                *)
SweptMap(c) == maybe_cleanup(state, calls[c].now)

Swept(c) == /\ calls[c].op \in {"set_once", "claim_pending", "exists"}
            /\ state' = SweptMap(c) /\ UNCHANGED grants /\ Return(c)

Took(c, kind) == /\ calls[c].op \in {"set_once", "claim_pending"}
                 /\ ~LiveAt(SweptMap(c).entries[calls[c].key], calls[c].now)
                 /\ state' = insert(SweptMap(c), calls[c].key, kind, calls[c].expires_at)
                 /\ Granted(c, calls[c].key, calls[c].expires_at) /\ Return(c)

LEMMA Outcomes ==
  ASSUME NEW c \in Callers, SetOnce(c) \/ ClaimPending(c) \/ Exists(c)
  PROVE  Swept(c) \/ \E kind \in {"marker", "pending"} : Took(c, kind)
<1>1. CASE SetOnce(c)
  <2>1. Swept(c) \/ Took(c, "marker")
    BY <1>1 DEF SetOnce, Swept, Took, SweptMap
  <2> QED BY <2>1
<1>2. CASE ClaimPending(c)
  <2>1. Swept(c) \/ Took(c, "pending")
    BY <1>2 DEF ClaimPending, WorkClaim, Swept, Took, SweptMap
  <2> QED BY <2>1
<1>3. CASE Exists(c)
  BY <1>3 DEF Exists, Swept, SweptMap
<1> QED BY <1>1, <1>2, <1>3

LEMMA TookStep ==
  ASSUME IInv, NEW c \in Callers, NEW kind \in {"marker", "pending"}, Took(c, kind)
  PROVE  /\ IInv'
         /\ calls[c].key \in Keys /\ calls[c].expires_at \in Instants
         /\ LiveClaims[calls[c].key] = Absent
         /\ LiveClaims' = [LiveClaims EXCEPT ![calls[c].key] =
              IF calls[c].expires_at > clock THEN Written(kind, calls[c].expires_at) ELSE Absent]
         /\ grants[calls[c].key] = {}
         /\ grants' = [grants EXCEPT ![calls[c].key] =
              IF calls[c].expires_at > clock
                THEN {[caller |-> c, expires_at |-> calls[c].expires_at]} ELSE {}]
<1> DEFINE key == calls[c].key
           at == calls[c].expires_at
           swept == SweptMap(c)
<1>1. calls[c].op \in TimedOps
  BY DEF Took, TimedOps
<1>2. key \in Keys /\ at \in Instants
  BY <1>1, CallTyping DEF IInv
<1>3. /\ swept \in InMemoryState
      /\ Bounded(swept)
      /\ \A k \in Keys : LiveAt(state.entries[k], clock) => swept.entries[k] = state.entries[k]
      /\ \A k \in Keys : LiveAt(swept.entries[k], clock) <=> LiveAt(state.entries[k], clock)
      /\ \A k \in Keys : ~LiveAt(swept.entries[k], calls[c].now)
                           => ~LiveAt(state.entries[k], clock) /\ grants[k] = {}
  BY <1>1, SweepKeepsPresent DEF SweptMap
<1>4. /\ ~LiveAt(swept.entries[key], calls[c].now)
      /\ state' = insert(swept, key, kind, at) /\ Granted(c, key, at) /\ Return(c)
  BY DEF Took
<1> HIDE DEF key, at, swept
<1>5. ~LiveAt(state.entries[key], clock) /\ grants[key] = {}
  BY <1>2, <1>3, <1>4
<1>6. /\ IInv'
      /\ LiveClaims[key] = Absent
      /\ LiveClaims' = [LiveClaims EXCEPT ![key] = IF at > clock THEN Written(kind, at) ELSE Absent]
      /\ grants' = [grants EXCEPT ![key] =
                      IF at > clock THEN {[caller |-> c, expires_at |-> at]} ELSE {}]
  BY <1>2, <1>3, <1>4, <1>5, GrantStep
<1> QED BY <1>2, <1>5, <1>6 DEF key, at

LEMMA SweptStep ==
  ASSUME IInv, NEW c \in Callers, Swept(c)
  PROVE  IInv' /\ LiveClaims' = LiveClaims
<1>1. calls[c].op \in TimedOps
  BY DEF Swept, TimedOps
<1> QED BY <1>1, SweepStep DEF Swept, SweptMap

-----------------------------------------------------------------------------
LEMMA InitIInv == Init => IInv
<1> SUFFICES ASSUME Init PROVE IInv
  OBVIOUS
<1>1. TypeOK
  BY DEF Init, TypeOK, InMemoryState
<1>2. TimesPast
  BY DEF Init, TimesPast, Idle, TimedOps
<1> QED BY <1>1, <1>2 DEF Init, IInv, GrantsStand, AtMostOneLiveGrant, CleanupBound, Present

LEMMA NextIInv == IInv /\ [Next]_vars => IInv'
<1> SUFFICES ASSUME IInv, [Next]_vars PROVE IInv'
  OBVIOUS
<1>1. CASE Tick
  BY <1>1, TickStep
<1>2. ASSUME NEW c \in Callers, NEW k \in Keys,
             (\E op \in TimedOps, ttl \in TTLs : Call(c, op, k, ttl)) \/ CallDelete(c, k)
      PROVE  IInv'
  BY <1>2, CallStep
<1>3. ASSUME NEW c \in Callers, SetOnce(c) \/ ClaimPending(c) \/ Exists(c) PROVE IInv'
  BY <1>3, Outcomes, TookStep, SweptStep
<1>4. ASSUME NEW c \in Callers, MarkCompleted(c) PROVE IInv'
  BY <1>4, CompletedStep
<1>5. ASSUME NEW c \in Callers, Delete(c) PROVE IInv'
  BY <1>5, DeletedStep
<1>6. CASE UNCHANGED vars
  BY <1>6 DEF vars, IInv, TypeOK, TimesPast, GrantsStand, AtMostOneLiveGrant, CleanupBound
<1> QED BY <1>1, <1>2, <1>3, <1>4, <1>5, <1>6 DEF Next

LEMMA Invariance == Spec => []IInv
BY InitIInv, NextIInv, PTL DEF Spec

(***************************************************************************)
(* Every variable keeps its type: in particular every deadline is a        *)
(* representable Instant, whatever TTLs the callers of the store pass.     *)
(***************************************************************************)
THEOREM TypeCorrect == Spec => []TypeOK
<1>1. IInv => TypeOK
  BY DEF IInv
<1> QED BY <1>1, Invariance, PTL

(***************************************************************************)
(* At most one caller holds a standing grant on a key: claim_pending and   *)
(* set_once give out exclusive work for any number of callers and keys.    *)
(***************************************************************************)
THEOREM ExclusiveWork == Spec => []AtMostOneLiveGrant
<1>1. IInv => AtMostOneLiveGrant
  BY DEF IInv
<1> QED BY <1>1, Invariance, PTL

(***************************************************************************)
(* next_cleanup_at never lies beyond an expiry in the map, so the early    *)
(* return of maybe_cleanup never skips a due cleanup.                      *)
(***************************************************************************)
THEOREM CleanupNeverLate == Spec => []CleanupBound
<1>1. IInv => CleanupBound
  BY DEF IInv
<1> QED BY <1>1, Invariance, PTL

-----------------------------------------------------------------------------
(* Action properties.                                                      *)

LEMMA LiveEntryReplaced ==
  ASSUME IInv, [Next]_vars, NEW k \in Keys,
         LiveAt(state.entries[k], clock), state'.entries[k] # state.entries[k]
  PROVE  \E c \in Callers : /\ calls[c].op \in {"mark_completed", "delete"}
                            /\ calls[c].key = k
                            /\ calls'[c] = Idle
<1>1. CASE Tick
  BY <1>1 DEF Tick
<1>2. ASSUME NEW c \in Callers, NEW j \in Keys,
             (\E op \in TimedOps, ttl \in TTLs : Call(c, op, j, ttl)) \/ CallDelete(c, j)
      PROVE  FALSE
  BY <1>2, CallStep
<1>3. ASSUME NEW c \in Callers, SetOnce(c) \/ ClaimPending(c) \/ Exists(c) PROVE FALSE
  <2>1. LiveClaims'[k] = LiveClaims[k]
    <3>1. CASE Swept(c)
      BY <3>1, SweptStep
    <3>2. ASSUME NEW kind \in {"marker", "pending"}, Took(c, kind)
          PROVE  LiveClaims'[k] = LiveClaims[k]
      <4>1. calls[c].key # k
        <5>1. LiveClaims[calls[c].key] = Absent
          BY <3>2, TookStep
        <5>2. LiveClaims[k] # Absent
          BY DEF LiveClaims, LiveAt
        <5> QED BY <5>1, <5>2
      <4>2. \A j \in Keys \ {calls[c].key} : LiveClaims'[j] = LiveClaims[j]
        <5> DEFINE claim == IF calls[c].expires_at > clock
                              THEN Written(kind, calls[c].expires_at) ELSE Absent
        <5>1. LiveClaims' = [LiveClaims EXCEPT ![calls[c].key] = claim]
          BY <3>2, TookStep
        <5>2. LiveClaims = [j \in Keys |-> LiveClaims[j]]
          BY DEF LiveClaims
        <5> HIDE DEF claim
        <5> QED BY <5>1, <5>2
      <4> QED BY <4>1, <4>2
    <3> QED BY <1>3, <3>1, <3>2, Outcomes
  <2>2. LiveClaims[k] = state.entries[k] /\ state.entries[k] # Absent
    BY DEF LiveClaims, LiveAt
  <2>3. LiveClaims'[k] \in {state'.entries[k], Absent}
    BY DEF LiveClaims
  <2> QED BY <2>1, <2>2, <2>3
<1>4. ASSUME NEW c \in Callers, MarkCompleted(c)
      PROVE  /\ calls[c].op \in {"mark_completed", "delete"}
             /\ calls[c].key = k
             /\ calls'[c] = Idle
  <2>1. calls'[c] = Idle
    BY <1>4 DEF MarkCompleted, Return, IInv, TypeOK
  <2> QED BY <1>4, <2>1, CompletedStep DEF MarkCompleted
<1>5. ASSUME NEW c \in Callers, Delete(c)
      PROVE  /\ calls[c].op \in {"mark_completed", "delete"}
             /\ calls[c].key = k
             /\ calls'[c] = Idle
  <2>1. calls'[c] = Idle
    BY <1>5 DEF Delete, Return, IInv, TypeOK
  <2> QED BY <1>5, <2>1, DeletedStep DEF Delete
<1>6. CASE UNCHANGED vars
  BY <1>6 DEF vars
<1> QED BY <1>1, <1>2, <1>3, <1>4, <1>5, <1>6 DEF Next

(***************************************************************************)
(* No cleanup, claim or marker takes a live entry away, however old the    *)
(* time it acts on: only mark_completed and delete of that key do.         *)
(***************************************************************************)
THEOREM LiveEntriesAreKept == Spec => LiveEntriesKept
<1>1. IInv /\ [Next]_vars =>
        [\A k \in Keys :
           (LiveAt(state.entries[k], clock) /\ state'.entries[k] # state.entries[k])
             => \E c \in Callers : /\ calls[c].op \in {"mark_completed", "delete"}
                                   /\ calls[c].key = k
                                   /\ calls'[c] = Idle]_vars
  BY LiveEntryReplaced
<1> QED BY <1>1, Invariance, PTL DEF Spec, LiveEntriesKept

LEMMA OwnStep ==
  ASSUME IInv, [Next]_vars, NEW c \in Callers,
         calls[c].op \in {"set_once", "claim_pending", "exists"}, calls'[c] = Idle
  PROVE  SetOnce(c) \/ ClaimPending(c) \/ Exists(c)
<1> SUFFICES ASSUME ~(SetOnce(c) \/ ClaimPending(c) \/ Exists(c)) PROVE FALSE
  OBVIOUS
<1>1. calls[c] # Idle /\ calls[c].op \notin {"mark_completed", "delete"}
  BY DEF Idle
<1>2. calls'[c] # calls[c]
  BY <1>1
<1>3. PICK d \in Callers :
        \/ \E op \in TimedOps, k \in Keys, ttl \in TTLs : Call(d, op, k, ttl)
        \/ \E k \in Keys : CallDelete(d, k)
        \/ SetOnce(d) \/ ClaimPending(d) \/ MarkCompleted(d) \/ Delete(d) \/ Exists(d)
  BY <1>2 DEF Next, vars, Tick
<1>4. d # c
  BY <1>1, <1>3 DEF Call, CallDelete, MarkCompleted, Delete
<1>5. calls' = [calls EXCEPT ![d] = calls'[d]]
  BY <1>3 DEF Call, CallDelete, SetOnce, ClaimPending, MarkCompleted, Delete, Exists, Return,
              IInv, TypeOK
<1> QED BY <1>2, <1>4, <1>5 DEF IInv, TypeOK

LEMMA SweepLeavesNothing ==
  ASSUME IInv, [Next]_vars, NEW c \in Callers,
         calls[c].op \in {"set_once", "claim_pending", "exists"}, calls'[c] = Idle,
         NEW k \in Present(state'.entries)
  PROVE  \/ state'.entries[k].expires_at > calls[c].now
         \/ /\ k = calls[c].key
            /\ state'.entries[k].expires_at = calls[c].expires_at
<1>1. calls[c].op \in TimedOps
  BY DEF TimedOps
<1>2. /\ calls[c].now \in Instants /\ calls[c].key \in Keys /\ calls[c].expires_at \in Instants
      /\ state \in InMemoryState /\ Bounded(state)
  BY <1>1, CallTyping DEF IInv, TypeOK, CleanupBound, Bounded
<1>3. /\ SweptMap(c) \in InMemoryState
      /\ Bounded(SweptMap(c))
      /\ \A j \in Present(SweptMap(c).entries) : SweptMap(c).entries[j].expires_at > calls[c].now
  BY <1>2, CleanupLeaves DEF SweptMap
<1>4. k \in Keys
  BY DEF Present
<1>5. CASE Swept(c)
  BY <1>3, <1>5 DEF Swept
<1>6. ASSUME NEW kind \in {"marker", "pending"}, Took(c, kind)
      PROVE  \/ state'.entries[k].expires_at > calls[c].now
             \/ /\ k = calls[c].key
                /\ state'.entries[k].expires_at = calls[c].expires_at
  <2> DEFINE swept == SweptMap(c)
             key == calls[c].key
             at == calls[c].expires_at
  <2>1. state' = insert(swept, key, kind, at)
    BY <1>6 DEF Took
  <2>2. swept \in InMemoryState /\ Bounded(swept) /\ key \in Keys /\ at \in Instants
    BY <1>2, <1>3
  <2> HIDE DEF swept, key, at
  <2>3. /\ state'.entries[key] = Written(kind, at)
        /\ \A j \in Keys \ {key} : state'.entries[j] = swept.entries[j]
    BY <2>1, <2>2, InsertGrants
  <2>4. CASE k = key
    BY <2>3, <2>4 DEF Written, key, at
  <2>5. CASE k # key
    BY <1>3, <1>4, <2>3, <2>5 DEF Present, swept
  <2> QED BY <2>4, <2>5
<1> QED BY <1>5, <1>6, OwnStep, Outcomes

(***************************************************************************)
(* The early return of maybe_cleanup is invisible: whoever runs it leaves  *)
(* no entry that had expired at the time it read, but its own.             *)
(***************************************************************************)
THEOREM NoExpiredEntrySurvives == Spec => NoExpiredSurvivor
<1>1. IInv /\ [Next]_vars =>
        [\A c \in Callers :
           (calls[c].op \in {"set_once", "claim_pending", "exists"} /\ calls'[c] = Idle)
             => \A k \in Present(state'.entries) :
                  \/ state'.entries[k].expires_at > calls[c].now
                  \/ /\ k = calls[c].key
                     /\ state'.entries[k].expires_at = calls[c].expires_at]_vars
  BY SweepLeavesNothing
<1> QED BY <1>1, Invariance, PTL DEF Spec, NoExpiredSurvivor

-----------------------------------------------------------------------------
(* The store implements IdempotencyClaims.                                 *)

LEMMA InitClaims == Init => Claims!ClaimsInit
BY DEF Init, Claims!ClaimsInit, LiveClaims, LiveAt, Absent, Claims!Absent

LEMMA ClaimsTick ==
  ASSUME IInv, Tick PROVE Claims!Expire
<1>1. /\ clock < MaxTime /\ clock' = clock + 1 /\ state' = state
      /\ clock \in Nat
      /\ grants' = [k \in Keys |-> {g \in grants[k] : g.expires_at > clock'}]
  BY DEF Tick, Standing, IInv, TypeOK
<1>2. LiveClaims' = [k \in Keys |-> IF LiveClaims[k].expires_at > clock' THEN LiveClaims[k] ELSE Absent]
  <2>1. ASSUME NEW k \in Keys
        PROVE  LiveClaims'[k] = IF LiveClaims[k].expires_at > clock' THEN LiveClaims[k] ELSE Absent
    <3>1. /\ LiveClaims'[k] = IF LiveAt(state.entries[k], clock') THEN state.entries[k] ELSE Absent
          /\ LiveClaims[k] = IF LiveAt(state.entries[k], clock) THEN state.entries[k] ELSE Absent
      BY <1>1 DEF LiveClaims
    <3>2. state.entries[k].expires_at \in Instants /\ Absent.expires_at = 0
      BY EntriesTyping DEF IInv, TypeOK, Absent
    <3>3. CASE LiveAt(state.entries[k], clock)
      BY <1>1, <3>1, <3>2, <3>3 DEF LiveAt
    <3>4. CASE ~LiveAt(state.entries[k], clock)
      BY <1>1, <3>1, <3>2, <3>4 DEF LiveAt
    <3> QED BY <3>3, <3>4
  <2>2. LiveClaims' = [k \in Keys |-> LiveClaims'[k]]
    BY DEF LiveClaims
  <2> QED BY <2>1, <2>2
<1> QED BY <1>1, <1>2 DEF Claims!Expire, Absent, Claims!Absent

LEMMA ClaimsTook ==
  ASSUME IInv, NEW c \in Callers, NEW kind \in {"marker", "pending"}, Took(c, kind)
  PROVE  Claims!ClaimsNext \/ UNCHANGED Claims!claimsVars
<1> DEFINE key == calls[c].key
           at == calls[c].expires_at
<1>1. clock' = clock /\ clock \in Instants
  BY DEF Took, Return, IInv, TypeOK
<1>2. /\ key \in Keys /\ at \in Instants
      /\ LiveClaims[key] = Absent
      /\ LiveClaims' = [LiveClaims EXCEPT ![key] = IF at > clock THEN Written(kind, at) ELSE Absent]
      /\ grants[key] = {}
      /\ grants' = [grants EXCEPT ![key] = IF at > clock THEN {[caller |-> c, expires_at |-> at]} ELSE {}]
  BY TookStep
<1> HIDE DEF key, at
<1>3. CASE at > clock
  <2>1. at \in 1..MaxInstant
    BY <1>1, <1>2, <1>3
  <2>2. Claims!GrantKey(c, key, kind, at)
    BY <1>1, <1>2, <1>3 DEF Claims!GrantKey, Claims!ClaimUntil, Claims!Absent, Absent, Written
  <2> QED BY <1>2, <2>1, <2>2 DEF Claims!ClaimsNext
<1>4. CASE ~(at > clock)
  <2>1. LiveClaims = [k \in Keys |-> LiveClaims[k]] /\ grants = [k \in Keys |-> grants[k]]
    BY DEF LiveClaims, IInv, TypeOK
  <2>2. LiveClaims' = [LiveClaims EXCEPT ![key] = Absent] /\ grants' = [grants EXCEPT ![key] = {}]
    BY <1>2, <1>4
  <2>3. LiveClaims' = LiveClaims /\ grants' = grants
    BY <1>2, <2>1, <2>2
  <2> QED BY <1>1, <2>3 DEF Claims!claimsVars
<1> QED BY <1>3, <1>4

LEMMA ClaimsCompleted ==
  ASSUME IInv, NEW c \in Callers, MarkCompleted(c) PROVE Claims!ClaimsNext
<1> DEFINE key == calls[c].key
           at == calls[c].expires_at
           claim == IF at > clock THEN Written("completed", at) ELSE Absent
<1>1. clock' = clock /\ grants' = [grants EXCEPT ![key] = {}]
  BY DEF MarkCompleted, Released, Return
<1>2. /\ key \in Keys /\ at \in Instants
      /\ state'.entries[key] = Written("completed", at)
      /\ \A k \in Keys \ {key} : state'.entries[k] = state.entries[k]
  BY CompletedStep
<1> HIDE DEF key, at
<1>3. LiveClaims' = [LiveClaims EXCEPT ![key] = claim]
  <2>1. /\ LiveClaims = [k \in Keys |-> LiveClaims[k]]
        /\ LiveClaims' = [k \in Keys |-> LiveClaims'[k]]
    BY DEF LiveClaims
  <2>2. LiveAt(Written("completed", at), clock) <=> at > clock
    BY DEF LiveAt, Written, Absent
  <2>3. LiveClaims'[key] = claim /\ \A k \in Keys \ {key} : LiveClaims'[k] = LiveClaims[k]
    BY <1>1, <1>2, <2>2 DEF LiveClaims
  <2> HIDE DEF claim
  <2> QED BY <2>1, <2>3
<1>4. Claims!CompleteKey(key, at)
  BY <1>1, <1>3 DEF Claims!CompleteKey, Claims!ClaimUntil, Claims!Absent, Absent, Written
<1> QED BY <1>2, <1>4 DEF Claims!ClaimsNext

LEMMA ClaimsDeleted ==
  ASSUME IInv, NEW c \in Callers, Delete(c) PROVE Claims!ClaimsNext
<1> DEFINE key == calls[c].key
<1>1. clock' = clock /\ grants' = [grants EXCEPT ![key] = {}]
  BY DEF Delete, Released, Return
<1>2. /\ key \in Keys
      /\ state'.entries[key] = Absent
      /\ \A k \in Keys \ {key} : state'.entries[k] = state.entries[k]
  BY DeletedStep
<1> HIDE DEF key
<1>3. LiveClaims' = [LiveClaims EXCEPT ![key] = Absent]
  <2>1. /\ LiveClaims = [k \in Keys |-> LiveClaims[k]]
        /\ LiveClaims' = [k \in Keys |-> LiveClaims'[k]]
    BY DEF LiveClaims
  <2>2. LiveClaims'[key] = Absent /\ \A k \in Keys \ {key} : LiveClaims'[k] = LiveClaims[k]
    BY <1>1, <1>2 DEF LiveClaims, LiveAt
  <2> QED BY <2>1, <2>2
<1>4. Claims!ReleaseKey(key)
  BY <1>1, <1>3 DEF Claims!ReleaseKey, Claims!Absent, Absent
<1> QED BY <1>2, <1>4 DEF Claims!ClaimsNext

LEMMA NextClaims == IInv /\ [Next]_vars => [Claims!ClaimsNext]_Claims!claimsVars
<1> SUFFICES ASSUME IInv, [Next]_vars
             PROVE  Claims!ClaimsNext \/ UNCHANGED Claims!claimsVars
  OBVIOUS
<1>1. CASE Tick
  BY <1>1, ClaimsTick DEF Claims!ClaimsNext
<1>2. ASSUME NEW c \in Callers, NEW k \in Keys,
             (\E op \in TimedOps, ttl \in TTLs : Call(c, op, k, ttl)) \/ CallDelete(c, k)
      PROVE  UNCHANGED Claims!claimsVars
  BY <1>2, CallStep DEF Claims!claimsVars, LiveClaims
<1>3. ASSUME NEW c \in Callers, Swept(c)
      PROVE  UNCHANGED Claims!claimsVars
  BY <1>3, SweptStep DEF Claims!claimsVars, Swept, Return
<1>4. ASSUME NEW c \in Callers, SetOnce(c) \/ ClaimPending(c) \/ Exists(c)
      PROVE  Claims!ClaimsNext \/ UNCHANGED Claims!claimsVars
  BY <1>3, <1>4, Outcomes, ClaimsTook
<1>5. ASSUME NEW c \in Callers, MarkCompleted(c) PROVE Claims!ClaimsNext
  BY <1>5, ClaimsCompleted
<1>6. ASSUME NEW c \in Callers, Delete(c) PROVE Claims!ClaimsNext
  BY <1>6, ClaimsDeleted
<1>7. CASE UNCHANGED vars
  BY <1>7 DEF vars, Claims!claimsVars, LiveClaims
<1> QED BY <1>1, <1>2, <1>4, <1>5, <1>6, <1>7 DEF Next

(***************************************************************************)
(* The in-memory store implements the abstract one for every set of keys,  *)
(* callers and TTLs: seen through its live entries, every critical section *)
(* is one grant, completion or release, or nothing at all.                 *)
(***************************************************************************)
THEOREM StoreImplementsClaims == Spec => ImplementsClaims
BY InitClaims, NextClaims, Invariance, PTL DEF Spec, ImplementsClaims, Claims!ClaimsSpec
=============================================================================
