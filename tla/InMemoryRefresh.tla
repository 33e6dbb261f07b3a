--------------------------- MODULE InMemoryRefresh ---------------------------
(***************************************************************************)
(* InMemoryRefreshStore of auth-refresh-core: a HashMap from token hashes  *)
(* to sessions behind one Mutex.  As in the idempotency store, set, get    *)
(* and rotate read the clock before they take the lock, so an operation is *)
(* a Call step and an atomic critical section.                             *)
(*                                                                         *)
(* Tokens are 32 random bytes, so a product never mints one twice for the  *)
(* same session; the calls below are constrained accordingly.  What is not *)
(* excluded is that rotate is given a successor that is already stored for *)
(* another session: the code checks for it.                                *)
(***************************************************************************)
EXTENDS InstantMath

CONSTANTS Tokens, Ids, Stamps, Callers, TTLs,
          MaxTime     \* bound: the clock stops here

ASSUME RefreshAssumption == /\ TTLs \subseteq Nat
                            /\ MaxTime \in Instants
                            /\ "none" \notin Ids

VARIABLES clock,
          entries,    \* what the Mutex guards
          calls,      \* per caller, the operation under way
          used        \* history: pairs of a token and a session id it was stored for

vars == <<clock, entries, calls, used>>

-----------------------------------------------------------------------------
Session == [id : Ids, stamp : Stamps]
NoSession == [id |-> "none", stamp |-> "none"]
Entry == [session : Session, expires_at : Instants]
Absent == [session |-> NoSession, expires_at |-> 0]

Idle == [op |-> "idle"]
Call == [op : {"set"}, token : Tokens, session : Session, expires_at : Instants]
          \cup [op : {"get"}, token : Tokens, now : 0..MaxTime]
          \cup [op : {"delete"}, token : Tokens]
          \cup [op : {"rotate"}, old : Tokens, new : Tokens, current : Session, next : Session,
                now : 0..MaxTime, expires_at : Instants]

TypeOK == /\ clock \in 0..MaxTime
          /\ entries \in [Tokens -> Entry \cup {Absent}]
          /\ calls \in [Callers -> Call \cup {Idle}]
          /\ used \subseteq Tokens \X Ids

Present(t) == entries[t] # Absent

Init == /\ clock = 0
        /\ entries = [t \in Tokens |-> Absent]
        /\ calls = [c \in Callers |-> Idle]
        /\ used = {}

Tick == /\ clock < MaxTime
        /\ clock' = clock + 1
        /\ UNCHANGED <<entries, calls, used>>

-----------------------------------------------------------------------------
(* Calls.  Stored is what the calls under way may still store.             *)

Stored(c) == CASE calls[c].op = "set" -> {<<calls[c].token, calls[c].session.id>>}
               [] calls[c].op = "rotate" -> {<<calls[c].new, calls[c].next.id>>}
               [] OTHER -> {}

Taken == used \cup UNION {Stored(c) : c \in Callers}

(* set stores unconditionally, so its token is nobody else's meanwhile. *)
BeingSet(t) == \E c \in Callers : calls[c].op = "set" /\ calls[c].token = t

(* A login stores a new session under a token nobody has seen. *)
CallSet(c, t, s, ttl) ==
  /\ calls[c] = Idle
  /\ \A pair \in Taken : pair[1] # t /\ pair[2] # s.id
  /\ calls' = [calls EXCEPT ![c] = [op |-> "set", token |-> t, session |-> s,
                                    expires_at |-> expires_at(clock, ttl)]]
  /\ UNCHANGED <<clock, entries, used>>

CallGet(c, t) ==
  /\ calls[c] = Idle
  /\ calls' = [calls EXCEPT ![c] = [op |-> "get", token |-> t, now |-> clock]]
  /\ UNCHANGED <<clock, entries, used>>

CallDelete(c, t) ==
  /\ calls[c] = Idle
  /\ calls' = [calls EXCEPT ![c] = [op |-> "delete", token |-> t]]
  /\ UNCHANGED <<clock, entries, used>>

(* rotate answers false at once when both tokens have the same key.  The   *)
(* current session is what the caller believes the old token maps to.      *)
CallRotate(c, old, new, current, next, ttl) ==
  /\ calls[c] = Idle
  /\ old # new
  /\ next.id = current.id
  /\ <<new, next.id>> \notin Taken /\ ~BeingSet(new)
  /\ calls' = [calls EXCEPT ![c] = [op |-> "rotate", old |-> old, new |-> new,
                                    current |-> current, next |-> next,
                                    now |-> clock, expires_at |-> expires_at(clock, ttl)]]
  /\ UNCHANGED <<clock, entries, used>>

-----------------------------------------------------------------------------
(* Critical sections.                                                      *)

Return(c) == calls' = [calls EXCEPT ![c] = Idle] /\ UNCHANGED clock

Set(c) ==
  /\ calls[c].op = "set"
  /\ entries' = [entries EXCEPT ![calls[c].token] =
                   [session |-> calls[c].session, expires_at |-> calls[c].expires_at]]
  /\ used' = used \cup {<<calls[c].token, calls[c].session.id>>}
  /\ Return(c)

(* get removes an entry it finds expired. *)
Get(c) ==
  /\ calls[c].op = "get"
  /\ entries' = IF Present(calls[c].token) /\ entries[calls[c].token].expires_at <= calls[c].now
                  THEN [entries EXCEPT ![calls[c].token] = Absent]
                  ELSE entries
  /\ UNCHANGED used
  /\ Return(c)

Delete(c) ==
  /\ calls[c].op = "delete"
  /\ entries' = [entries EXCEPT ![calls[c].token] = Absent]
  /\ UNCHANGED used
  /\ Return(c)

(* The ways rotate ends, in the order of the code's checks.                *)
OldMissing(me) == ~Present(me.old)
OldExpired(me) == Present(me.old) /\ entries[me.old].expires_at <= me.now
OldUsable(me) == Present(me.old) /\ entries[me.old].expires_at > me.now
NewInUse(me) == Present(me.new) /\ entries[me.new].expires_at > me.now

(* Mutant of Matches: only a part of the session is compared. *)
MatchesId(me) == entries[me.old].session.id = me.current.id

Matches(me) == entries[me.old].session = me.current

RotateRefused(c) ==
  LET me == calls[c] IN
  /\ me.op = "rotate"
  /\ \/ OldMissing(me) /\ UNCHANGED entries
     \/ OldExpired(me) /\ entries' = [entries EXCEPT ![me.old] = Absent]
     \/ OldUsable(me) /\ NewInUse(me) /\ UNCHANGED entries
     \/ /\ OldUsable(me) /\ ~NewInUse(me) /\ ~Matches(me)
        /\ entries' = [entries EXCEPT ![me.new] = Absent]
  /\ UNCHANGED used
  /\ Return(c)

(* Mutant of Rotate: the old token is left in place. *)
RotateCopy(c) ==
  LET me == calls[c] IN
  /\ me.op = "rotate"
  /\ OldUsable(me) /\ ~NewInUse(me) /\ Matches(me)
  /\ entries' = [entries EXCEPT ![me.new] = [session |-> me.next, expires_at |-> me.expires_at]]
  /\ used' = used \cup {<<me.new, me.next.id>>}
  /\ Return(c)

Rotate(c) ==
  LET me == calls[c] IN
  /\ me.op = "rotate"
  /\ OldUsable(me) /\ ~NewInUse(me) /\ Matches(me)
  /\ entries' = [entries EXCEPT ![me.old] = Absent,
                                ![me.new] = [session |-> me.next, expires_at |-> me.expires_at]]
  /\ used' = used \cup {<<me.new, me.next.id>>}
  /\ Return(c)

Next == \/ Tick
        \/ \E c \in Callers :
             \/ \E t \in Tokens : CallGet(c, t) \/ CallDelete(c, t)
             \/ \E t \in Tokens, s \in Session, ttl \in TTLs : CallSet(c, t, s, ttl)
             \/ \E old, new \in Tokens, current, next \in Session, ttl \in TTLs :
                  CallRotate(c, old, new, current, next, ttl)
             \/ Set(c) \/ Get(c) \/ Delete(c) \/ RotateRefused(c) \/ Rotate(c)

Spec == Init /\ [][Next]_vars

-----------------------------------------------------------------------------
(***************************************************************************)
(* A session is never reachable through two tokens, however many callers   *)
(* rotate the same token at once (auth-refresh-core: "single-use           *)
(* rotation").                                                             *)
(***************************************************************************)
OneTokenPerSession ==
  \A t, u \in Tokens :
    (Present(t) /\ Present(u) /\ entries[t].session.id = entries[u].session.id) => t = u

(***************************************************************************)
(* A token that has not expired is only taken away by delete, or by a      *)
(* rotation of that token that puts its successor in place in the same     *)
(* step: no failed rotation and no lookup costs a user the session.        *)
(***************************************************************************)
LiveTokensKept ==
  [][\A t \in Tokens :
       (Present(t) /\ entries[t].expires_at > clock /\ entries'[t] # entries[t])
         => \E c \in Callers :
              /\ calls'[c] = Idle
              /\ \/ calls[c].op = "delete" /\ calls[c].token = t
                 \/ /\ calls[c].op = "rotate" /\ calls[c].old = t
                    /\ calls[c].current = entries[t].session
                    /\ entries'[calls[c].new].session = calls[c].next]_vars

-----------------------------------------------------------------------------
(* The sessions the map gives access to. *)
Holds == [t \in Tokens |-> entries[t].session]

Rotation == INSTANCE RefreshRotation WITH holds <- Holds

(* Every critical section opens, moves or drops a session, as              *)
(* RefreshRotation allows: rotation is single-use.                         *)
ImplementsRotation == Rotation!RotationSpec
=============================================================================
