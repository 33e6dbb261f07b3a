----------------------- MODULE InMemoryRefreshProofs -----------------------
(***************************************************************************)
(* InMemoryRefresh for every set of tokens, sessions, callers and TTLs.    *)
(***************************************************************************)
EXTENDS InMemoryRefresh, InstantMathProofs

USE InstantAssumption, RefreshAssumption DEF Instants

-----------------------------------------------------------------------------
(* The inductive invariant.                                                *)

(* What is stored has a place in the history. *)
EntriesUsed == \A t \in Tokens : Present(t) => <<t, entries[t].session.id>> \in used

(* What a call under way may still store is not in the history yet, and    *)
(* the time it acts on is past or present.                                 *)
CallFresh(c) ==
  /\ calls[c].op = "set" =>
       \A pair \in used : pair[1] # calls[c].token /\ pair[2] # calls[c].session.id
  /\ calls[c].op = "get" => calls[c].now <= clock
  /\ calls[c].op = "rotate" =>
       /\ calls[c].now <= clock
       /\ calls[c].old # calls[c].new
       /\ calls[c].next.id = calls[c].current.id
       /\ <<calls[c].new, calls[c].next.id>> \notin used

(* Two calls under way do not store the same. *)
CallsApart(c, d) ==
  /\ calls[c].op = "set" /\ calls[d].op = "set" =>
       /\ calls[c].token # calls[d].token
       /\ calls[c].session.id # calls[d].session.id
  /\ calls[c].op = "set" /\ calls[d].op = "rotate" => calls[c].token # calls[d].new
  /\ calls[c].op = "rotate" /\ calls[d].op = "rotate" =>
       <<calls[c].new, calls[c].next.id>> # <<calls[d].new, calls[d].next.id>>

IInv == /\ TypeOK
        /\ OneTokenPerSession
        /\ EntriesUsed
        /\ \A c \in Callers : CallFresh(c)
        /\ \A c, d \in Callers : c # d => CallsApart(c, d)

-----------------------------------------------------------------------------
(* Typing facts.                                                           *)

LEMMA EntryTyping ==
  ASSUME TypeOK, NEW t \in Tokens
  PROVE  /\ entries[t].expires_at \in Instants
         /\ entries[t].session \in Session \cup {NoSession}
         /\ Present(t) <=> entries[t].session # NoSession
         /\ Present(t) => entries[t].session \in Session /\ entries[t].session.id \in Ids
BY DEF TypeOK, Entry, Absent, Session, NoSession, Present

LEMMA CallTyping ==
  ASSUME TypeOK, NEW c \in Callers
  PROVE  /\ calls[c].op \in {"idle", "set", "get", "delete", "rotate"}
         /\ calls[c].op = "set" => /\ calls[c].token \in Tokens
                                   /\ calls[c].session \in Session
                                   /\ calls[c].expires_at \in Instants
         /\ calls[c].op = "get" => calls[c].token \in Tokens /\ calls[c].now \in 0..MaxTime
         /\ calls[c].op = "delete" => calls[c].token \in Tokens
         /\ calls[c].op = "rotate" => /\ calls[c].old \in Tokens /\ calls[c].new \in Tokens
                                      /\ calls[c].current \in Session /\ calls[c].next \in Session
                                      /\ calls[c].now \in 0..MaxTime
                                      /\ calls[c].expires_at \in Instants
BY DEF TypeOK, Call, Idle

LEMMA StoredIs ==
  ASSUME NEW c \in Callers
  PROVE  /\ calls[c].op = "set" => Stored(c) = {<<calls[c].token, calls[c].session.id>>}
         /\ calls[c].op = "rotate" => Stored(c) = {<<calls[c].new, calls[c].next.id>>}
         /\ \A pair \in used : pair \in Taken
         /\ calls[c].op = "set" => <<calls[c].token, calls[c].session.id>> \in Taken
         /\ calls[c].op = "rotate" => <<calls[c].new, calls[c].next.id>> \in Taken
BY DEF Stored, Taken

LEMMA DeadlineTyping ==
  ASSUME NEW now \in Instants, NEW ttl \in TTLs
  PROVE  expires_at(now, ttl) \in Instants
BY ExpiryBounds

-----------------------------------------------------------------------------
(* What the steps do to the map.                                           *)

(* c's operation ends; the tokens in gone leave the map. *)
Dropped(c, gone) ==
  /\ entries' = [t \in Tokens |-> IF t \in gone THEN Absent ELSE entries[t]]
  /\ calls' = [calls EXCEPT ![c] = Idle]
  /\ UNCHANGED <<clock, used>>

(* No one loses a live token but by delete. *)
LEMMA DropStep ==
  ASSUME IInv, NEW c \in Callers, Get(c) \/ Delete(c) \/ RotateRefused(c)
  PROVE  \E gone \in SUBSET Tokens :
           /\ Dropped(c, gone)
           /\ \A t \in gone : \/ ~Present(t)
                              \/ entries[t].expires_at <= clock
                              \/ calls[c].op = "delete" /\ calls[c].token = t
<1>1. /\ entries = [t \in Tokens |-> entries[t]] /\ clock \in Nat
      /\ \A t \in Tokens : entries[t].expires_at \in Instants
  BY EntryTyping DEF IInv, TypeOK
<1>2. ASSUME UNCHANGED entries, UNCHANGED used, Return(c)
      PROVE  Dropped(c, {})
  BY <1>1, <1>2 DEF Dropped, Return
<1>3. ASSUME NEW t \in Tokens, entries' = [entries EXCEPT ![t] = Absent], UNCHANGED used, Return(c)
      PROVE  Dropped(c, {t})
  BY <1>1, <1>3 DEF Dropped, Return
<1>4. CASE Get(c)
  <2>1. calls[c].token \in Tokens /\ calls[c].now \in 0..MaxTime /\ calls[c].now <= clock
    BY <1>4, CallTyping DEF Get, IInv, CallFresh
  <2>2. CASE Present(calls[c].token) /\ entries[calls[c].token].expires_at <= calls[c].now
    <3>1. Dropped(c, {calls[c].token})
      BY <1>3, <1>4, <2>1, <2>2 DEF Get
    <3>2. entries[calls[c].token].expires_at <= clock
      BY <1>1, <2>1, <2>2
    <3> QED BY <2>1, <3>1, <3>2
  <2>3. CASE ~(Present(calls[c].token) /\ entries[calls[c].token].expires_at <= calls[c].now)
    BY <1>2, <1>4, <2>3 DEF Get
  <2> QED BY <2>2, <2>3
<1>5. CASE Delete(c)
  <2>1. calls[c].token \in Tokens
    BY <1>5, CallTyping DEF Delete, IInv
  <2>2. Dropped(c, {calls[c].token}) /\ calls[c].op = "delete"
    BY <1>3, <1>5, <2>1 DEF Delete
  <2> QED BY <2>1, <2>2
<1>6. CASE RotateRefused(c)
  <2>1. /\ calls[c].old \in Tokens /\ calls[c].new \in Tokens
        /\ calls[c].now \in 0..MaxTime /\ calls[c].now <= clock
    BY <1>6, CallTyping DEF RotateRefused, IInv, CallFresh
  <2>2. CASE UNCHANGED entries
    BY <1>2, <1>6, <2>2 DEF RotateRefused
  <2>3. CASE OldExpired(calls[c]) /\ entries' = [entries EXCEPT ![calls[c].old] = Absent]
    <3>1. Dropped(c, {calls[c].old})
      BY <1>3, <1>6, <2>1, <2>3 DEF RotateRefused
    <3>2. entries[calls[c].old].expires_at <= clock
      BY <1>1, <2>1, <2>3 DEF OldExpired
    <3> QED BY <2>1, <3>1, <3>2
  <2>4. CASE ~NewInUse(calls[c]) /\ entries' = [entries EXCEPT ![calls[c].new] = Absent]
    <3>1. Dropped(c, {calls[c].new})
      BY <1>3, <1>6, <2>1, <2>4 DEF RotateRefused
    <3>2. ~Present(calls[c].new) \/ entries[calls[c].new].expires_at <= clock
      BY <1>1, <2>1, <2>4 DEF NewInUse
    <3> QED BY <2>1, <3>1, <3>2
  <2> QED BY <1>6, <2>2, <2>3, <2>4 DEF RotateRefused
<1> QED BY <1>4, <1>5, <1>6

(* c stores a session that has no token yet under a token nobody has seen. *)
Stores(c, t, s, at) ==
  /\ t = calls[c].token /\ s = calls[c].session
  /\ entries' = [entries EXCEPT ![t] = [session |-> s, expires_at |-> at]]
  /\ used' = used \cup {<<t, s.id>>}
  /\ calls' = [calls EXCEPT ![c] = Idle]
  /\ clock' = clock
  /\ ~Present(t)
  /\ \A pair \in used : pair[1] # t /\ pair[2] # s.id
  /\ \A u \in Tokens : Present(u) => entries[u].session.id # s.id

(* c moves a session from the old token to a successor that never had it,  *)
(* and whose place is free or expired.                                     *)
Moves(c, old, new, s, at) ==
  /\ old = calls[c].old /\ new = calls[c].new /\ s = calls[c].next
  /\ old # new
  /\ entries' = [entries EXCEPT ![old] = Absent,
                                ![new] = [session |-> s, expires_at |-> at]]
  /\ used' = used \cup {<<new, s.id>>}
  /\ calls' = [calls EXCEPT ![c] = Idle]
  /\ clock' = clock
  /\ Present(old) /\ entries[old].session = calls[c].current
  /\ entries[old].session.id = s.id
  /\ <<old, s.id>> \in used
  /\ <<new, s.id>> \notin used
  /\ ~Present(new) \/ entries[new].expires_at <= clock

(* set finds its token free, and its session without a token. *)
LEMMA SetStep ==
  ASSUME IInv, NEW c \in Callers, Set(c)
  PROVE  \E t \in Tokens, s \in Session, at \in Instants : Stores(c, t, s, at)
<1>1. calls[c].op = "set"
  BY DEF Set
<1>2. /\ calls[c].token \in Tokens /\ calls[c].session \in Session /\ calls[c].expires_at \in Instants
      /\ \A pair \in used : pair[1] # calls[c].token /\ pair[2] # calls[c].session.id
  BY <1>1, CallTyping DEF IInv, CallFresh
<1>3. \A u \in Tokens : Present(u) => u # calls[c].token /\ entries[u].session.id # calls[c].session.id
  <2>1. ASSUME NEW u \in Tokens, Present(u)
        PROVE  u # calls[c].token /\ entries[u].session.id # calls[c].session.id
    <3>1. <<u, entries[u].session.id>> \in used
      BY <2>1 DEF IInv, EntriesUsed
    <3> QED BY <1>2, <3>1
  <2> QED BY <2>1
<1> QED BY <1>2, <1>3 DEF Set, Return, Stores

(* rotate moves a session from the old token to a successor that had never *)
(* had it, and whose place is free or expired.                             *)
LEMMA RotateStep ==
  ASSUME IInv, NEW c \in Callers, Rotate(c)
  PROVE  \E old, new \in Tokens, s \in Session, at \in Instants : Moves(c, old, new, s, at)
<1>1. calls[c].op = "rotate"
  BY DEF Rotate
<1>2. /\ calls[c].old \in Tokens /\ calls[c].new \in Tokens /\ calls[c].next \in Session
      /\ calls[c].expires_at \in Instants /\ calls[c].now \in 0..MaxTime /\ calls[c].now <= clock
      /\ calls[c].old # calls[c].new
      /\ calls[c].next.id = calls[c].current.id
      /\ <<calls[c].new, calls[c].next.id>> \notin used
  BY <1>1, CallTyping DEF IInv, CallFresh
<1>3. Present(calls[c].old) /\ entries[calls[c].old].session = calls[c].current
  BY DEF Rotate, OldUsable, Matches
<1>4. <<calls[c].old, calls[c].next.id>> \in used
  BY <1>2, <1>3 DEF IInv, EntriesUsed
<1>5. ~Present(calls[c].new) \/ entries[calls[c].new].expires_at <= clock
  <2>1. entries[calls[c].new].expires_at \in Instants /\ clock \in Nat
    BY <1>2, EntryTyping DEF IInv, TypeOK
  <2> QED BY <1>2, <2>1 DEF Rotate, NewInUse
<1> QED BY <1>2, <1>3, <1>4, <1>5 DEF Rotate, Return, Moves

-----------------------------------------------------------------------------
(* The invariant is inductive.                                             *)

LEMMA Initially == Init => IInv
BY DEF Init, IInv, TypeOK, OneTokenPerSession, EntriesUsed, CallFresh, CallsApart, Present, Idle

LEMMA TickKeeps == ASSUME IInv, Tick PROVE IInv'
<1>1. /\ clock' = clock + 1 /\ clock' \in 0..MaxTime /\ clock \in Nat
      /\ entries' = entries /\ calls' = calls /\ used' = used
  BY DEF Tick, IInv, TypeOK
<1>2. TypeOK' /\ OneTokenPerSession' /\ EntriesUsed'
  BY <1>1 DEF IInv, TypeOK, OneTokenPerSession, EntriesUsed, Present
<1>3. ASSUME NEW c \in Callers PROVE CallFresh(c)'
  <2>1. CallFresh(c)
    BY DEF IInv
  <2>2. calls[c].op \in {"get", "rotate"} => calls[c].now \in Nat
    BY CallTyping DEF IInv
  <2> QED BY <1>1, <2>1, <2>2 DEF CallFresh
<1>4. \A c, d \in Callers : c # d => CallsApart(c, d)'
  BY <1>1 DEF IInv, CallsApart
<1> QED BY <1>2, <1>3, <1>4 DEF IInv

(* A call starts: only calls[c] changes. *)
LEMMA CallKeeps ==
  ASSUME IInv, NEW c \in Callers, NEW call \in Call,
         calls' = [calls EXCEPT ![c] = call], UNCHANGED <<clock, entries, used>>,
         CallFresh(c)',
         \A d \in Callers \ {c} : CallsApart(c, d)' /\ CallsApart(d, c)'
  PROVE  IInv'
<1>1. TypeOK' /\ OneTokenPerSession' /\ EntriesUsed'
  BY DEF IInv, TypeOK, OneTokenPerSession, EntriesUsed, Present
<1>2. \A d \in Callers \ {c} : calls'[d] = calls[d]
  BY DEF IInv, TypeOK
<1>3. \A d \in Callers : CallFresh(d)'
  BY <1>2 DEF IInv, CallFresh
<1>4. \A d, e \in Callers : d # e => CallsApart(d, e)'
  BY <1>2 DEF IInv, CallsApart
<1> QED BY <1>1, <1>3, <1>4 DEF IInv

LEMMA CallSetKeeps ==
  ASSUME IInv, NEW c \in Callers, NEW t \in Tokens, NEW s \in Session, NEW ttl \in TTLs,
         CallSet(c, t, s, ttl)
  PROVE  IInv'
<1> DEFINE call == [op |-> "set", token |-> t, session |-> s, expires_at |-> expires_at(clock, ttl)]
<1>1. call \in Call
  <2>1. clock \in Instants /\ clock \in 0..MaxTime
    BY DEF IInv, TypeOK
  <2>2. expires_at(clock, ttl) \in Instants
    BY <2>1, DeadlineTyping
  <2> QED BY <2>1, <2>2 DEF Call
<1>2. /\ calls' = [calls EXCEPT ![c] = call] /\ UNCHANGED <<clock, entries, used>>
      /\ \A pair \in Taken : pair[1] # t /\ pair[2] # s.id
  BY DEF CallSet
<1>3. /\ calls'[c] = call /\ call.op = "set" /\ call.token = t /\ call.session = s
      /\ \A d \in Callers \ {c} : calls'[d] = calls[d]
  BY <1>2 DEF IInv, TypeOK
<1> HIDE DEF call
<1>4. CallFresh(c)'
  BY <1>2, <1>3, StoredIs DEF CallFresh
<1>5. ASSUME NEW d \in Callers \ {c} PROVE CallsApart(c, d)' /\ CallsApart(d, c)'
  <2>1. /\ calls[d].op = "set" => calls[d].token # t /\ calls[d].session.id # s.id
        /\ calls[d].op = "rotate" => calls[d].new # t
    BY <1>2, StoredIs
  <2> QED BY <1>3, <2>1 DEF CallsApart
<1> QED BY <1>1, <1>2, <1>4, <1>5, CallKeeps

LEMMA CallRotateKeeps ==
  ASSUME IInv, NEW c \in Callers, NEW old \in Tokens, NEW new \in Tokens,
         NEW current \in Session, NEW next \in Session, NEW ttl \in TTLs,
         CallRotate(c, old, new, current, next, ttl)
  PROVE  IInv'
<1> DEFINE call == [op |-> "rotate", old |-> old, new |-> new, current |-> current, next |-> next,
                    now |-> clock, expires_at |-> expires_at(clock, ttl)]
<1>1. call \in Call
  <2>1. clock \in Instants /\ clock \in 0..MaxTime
    BY DEF IInv, TypeOK
  <2>2. expires_at(clock, ttl) \in Instants
    BY <2>1, DeadlineTyping
  <2> QED BY <2>1, <2>2 DEF Call
<1>2. /\ calls' = [calls EXCEPT ![c] = call] /\ UNCHANGED <<clock, entries, used>>
      /\ old # new /\ next.id = current.id
      /\ <<new, next.id>> \notin Taken /\ ~BeingSet(new)
  BY DEF CallRotate
<1>3. /\ calls'[c] = call /\ call.op = "rotate" /\ call.old = old /\ call.new = new
      /\ call.current = current /\ call.next = next /\ call.now = clock
      /\ \A d \in Callers \ {c} : calls'[d] = calls[d]
  BY <1>2 DEF IInv, TypeOK
<1> HIDE DEF call
<1>4. CallFresh(c)'
  <2>1. clock \in Nat
    BY DEF IInv, TypeOK
  <2>2. clock' = clock /\ used' = used /\ old # new /\ next.id = current.id
    BY <1>2
  <2>3. <<new, next.id>> \notin used
    BY <1>2, StoredIs, Zenon
  <2> QED BY <1>3, <2>1, <2>2, <2>3 DEF CallFresh
<1>5. ASSUME NEW d \in Callers \ {c} PROVE CallsApart(c, d)' /\ CallsApart(d, c)'
  <2>1. /\ calls[d].op = "set" => calls[d].token # new
        /\ calls[d].op = "rotate" => <<calls[d].new, calls[d].next.id>> # <<new, next.id>>
    BY <1>2, StoredIs DEF BeingSet
  <2> QED BY <1>3, <2>1 DEF CallsApart
<1> QED BY <1>1, <1>2, <1>4, <1>5, CallKeeps

LEMMA CallGetKeeps ==
  ASSUME IInv, NEW c \in Callers, NEW t \in Tokens, CallGet(c, t)
  PROVE  IInv'
<1> DEFINE call == [op |-> "get", token |-> t, now |-> clock]
<1>1. call \in Call
  BY DEF Call, IInv, TypeOK
<1>2. calls' = [calls EXCEPT ![c] = call] /\ UNCHANGED <<clock, entries, used>>
  BY DEF CallGet
<1>3. calls'[c] = call /\ call.op = "get" /\ call.now = clock
  BY <1>2 DEF IInv, TypeOK
<1> HIDE DEF call
<1>4. CallFresh(c)'
  <2>1. clock \in Nat
    BY DEF IInv, TypeOK
  <2> QED BY <1>2, <1>3, <2>1 DEF CallFresh
<1>5. \A d \in Callers \ {c} : CallsApart(c, d)' /\ CallsApart(d, c)'
  BY <1>3 DEF CallsApart
<1> QED BY <1>1, <1>2, <1>4, <1>5, CallKeeps

LEMMA CallDeleteKeeps ==
  ASSUME IInv, NEW c \in Callers, NEW t \in Tokens, CallDelete(c, t)
  PROVE  IInv'
<1> DEFINE call == [op |-> "delete", token |-> t]
<1>1. call \in Call
  BY DEF Call
<1>2. calls' = [calls EXCEPT ![c] = call] /\ UNCHANGED <<clock, entries, used>>
  BY DEF CallDelete
<1>3. calls'[c] = call /\ call.op = "delete"
  BY <1>2 DEF IInv, TypeOK
<1> HIDE DEF call
<1>4. CallFresh(c)' /\ \A d \in Callers \ {c} : CallsApart(c, d)' /\ CallsApart(d, c)'
  BY <1>3 DEF CallFresh, CallsApart
<1> QED BY <1>1, <1>2, <1>4, CallKeeps

(* The calls that go on when c's ends. *)
LEMMA ReturnLeaves ==
  ASSUME IInv, NEW c \in Callers, calls' = [calls EXCEPT ![c] = Idle]
  PROVE  /\ calls' \in [Callers -> Call \cup {Idle}]
         /\ calls'[c].op = "idle"
         /\ \A d \in Callers \ {c} : calls'[d] = calls[d]
         /\ \A d, e \in Callers : d # e => CallsApart(d, e)'
<1>1. /\ calls' \in [Callers -> Call \cup {Idle}]
      /\ calls'[c].op = "idle"
      /\ \A d \in Callers \ {c} : calls'[d] = calls[d]
  BY DEF IInv, TypeOK, Idle
<1> QED BY <1>1 DEF IInv, CallsApart

LEMMA DropKeeps ==
  ASSUME IInv, NEW c \in Callers, NEW gone \in SUBSET Tokens, Dropped(c, gone)
  PROVE  IInv'
<1>1. /\ entries' = [t \in Tokens |-> IF t \in gone THEN Absent ELSE entries[t]]
      /\ calls' = [calls EXCEPT ![c] = Idle] /\ clock' = clock /\ used' = used
  BY DEF Dropped
<1>2. entries' \in [Tokens -> Entry \cup {Absent}]
  BY <1>1 DEF IInv, TypeOK
<1>3. \A t \in Tokens : Present(t)' => Present(t) /\ entries'[t] = entries[t]
  BY <1>1 DEF Present
<1>4. TypeOK' /\ OneTokenPerSession' /\ EntriesUsed'
  BY <1>1, <1>2, <1>3, ReturnLeaves DEF IInv, TypeOK, OneTokenPerSession, EntriesUsed
<1>5. \A d \in Callers : CallFresh(d)'
  BY <1>1, ReturnLeaves DEF IInv, CallFresh
<1> QED BY <1>1, <1>4, <1>5, ReturnLeaves DEF IInv

LEMMA SetKeeps ==
  ASSUME IInv, NEW c \in Callers, Set(c)
  PROVE  IInv'
<1>1. PICK t \in Tokens, s \in Session, at \in Instants : Stores(c, t, s, at)
  BY SetStep
<1> USE DEF Stores
<1> DEFINE entry == [session |-> s, expires_at |-> at]
<1>2. entry \in Entry /\ entry.session = s /\ s.id \in Ids
  BY DEF Entry, Session
<1>3. entries' = [entries EXCEPT ![t] = entry]
  BY <1>1
<1> HIDE DEF entry
<1>4. /\ entries' \in [Tokens -> Entry \cup {Absent}]
      /\ entries'[t] = entry
      /\ \A u \in Tokens \ {t} : entries'[u] = entries[u] /\ (Present(u)' <=> Present(u))
  BY <1>2, <1>3 DEF IInv, TypeOK, Present
<1>5. TypeOK'
  BY <1>1, <1>2, <1>4, ReturnLeaves DEF IInv, TypeOK
<1>6. OneTokenPerSession'
  BY <1>1, <1>2, <1>4 DEF IInv, OneTokenPerSession
<1>7. EntriesUsed'
  BY <1>1, <1>2, <1>4 DEF IInv, EntriesUsed
<1>8. ASSUME NEW d \in Callers PROVE CallFresh(d)'
  <2>1. CASE d = c
    BY <1>1, <2>1, ReturnLeaves DEF CallFresh
  <2>2. CASE d # c
    <3>1. /\ calls'[d] = calls[d] /\ calls[c].op = "set"
          /\ CallFresh(d) /\ CallsApart(c, d) /\ CallsApart(d, c)
      BY <1>1, <2>2, ReturnLeaves DEF IInv, Set
    <3> QED BY <1>1, <3>1 DEF CallFresh, CallsApart
  <2> QED BY <2>1, <2>2
<1> QED BY <1>1, <1>5, <1>6, <1>7, <1>8, ReturnLeaves DEF IInv

LEMMA RotateKeeps ==
  ASSUME IInv, NEW c \in Callers, Rotate(c)
  PROVE  IInv'
<1>1. PICK old, new \in Tokens, s \in Session, at \in Instants : Moves(c, old, new, s, at)
  BY RotateStep
<1> USE DEF Moves
<1> DEFINE entry == [session |-> s, expires_at |-> at]
<1>2. entry \in Entry /\ entry.session = s /\ s.id \in Ids
  BY DEF Entry, Session
<1>3. entries' = [entries EXCEPT ![old] = Absent, ![new] = entry]
  BY <1>1
<1> HIDE DEF entry
<1>4. /\ entries' \in [Tokens -> Entry \cup {Absent}]
      /\ entries'[new] = entry
      /\ ~Present(old)'
      /\ \A u \in Tokens \ {old, new} : entries'[u] = entries[u] /\ (Present(u)' <=> Present(u))
  BY <1>1, <1>2, <1>3 DEF IInv, TypeOK, Present
<1>5. TypeOK'
  BY <1>1, <1>2, <1>4, ReturnLeaves DEF IInv, TypeOK
<1>6. OneTokenPerSession'
  <2>1. \A u \in Tokens \ {old, new} : Present(u) => entries[u].session.id # s.id
    BY <1>1 DEF IInv, OneTokenPerSession
  <2> QED BY <1>2, <1>4, <2>1 DEF IInv, OneTokenPerSession
<1>7. EntriesUsed'
  BY <1>1, <1>2, <1>4 DEF IInv, EntriesUsed
<1>8. ASSUME NEW d \in Callers PROVE CallFresh(d)'
  <2>1. CASE d = c
    BY <1>1, <2>1, ReturnLeaves DEF CallFresh
  <2>2. CASE d # c
    <3>1. /\ calls'[d] = calls[d] /\ calls[c].op = "rotate"
          /\ CallFresh(d) /\ CallsApart(c, d) /\ CallsApart(d, c)
      BY <1>1, <2>2, ReturnLeaves DEF IInv, Rotate
    <3> QED BY <1>1, <3>1 DEF CallFresh, CallsApart
  <2> QED BY <2>1, <2>2
<1> QED BY <1>1, <1>5, <1>6, <1>7, <1>8, ReturnLeaves DEF IInv

LEMMA Step == IInv /\ [Next]_vars => IInv'
<1> SUFFICES ASSUME IInv, [Next]_vars PROVE IInv'
  OBVIOUS
<1>1. CASE Tick
  BY <1>1, TickKeeps
<1>2. ASSUME NEW c \in Callers, NEW t \in Tokens, CallGet(c, t) \/ CallDelete(c, t) PROVE IInv'
  BY <1>2, CallGetKeeps, CallDeleteKeeps
<1>3. ASSUME NEW c \in Callers, NEW t \in Tokens, NEW s \in Session, NEW ttl \in TTLs,
             CallSet(c, t, s, ttl)
      PROVE  IInv'
  BY <1>3, CallSetKeeps
<1>4. ASSUME NEW c \in Callers, NEW old \in Tokens, NEW new \in Tokens,
             NEW current \in Session, NEW next \in Session, NEW ttl \in TTLs,
             CallRotate(c, old, new, current, next, ttl)
      PROVE  IInv'
  BY <1>4, CallRotateKeeps
<1>5. ASSUME NEW c \in Callers, Set(c) PROVE IInv'
  BY <1>5, SetKeeps
<1>6. ASSUME NEW c \in Callers, Get(c) \/ Delete(c) \/ RotateRefused(c) PROVE IInv'
  BY <1>6, DropStep, DropKeeps
<1>7. ASSUME NEW c \in Callers, Rotate(c) PROVE IInv'
  BY <1>7, RotateKeeps
<1>8. CASE UNCHANGED vars
  BY <1>8 DEF vars, IInv, TypeOK, OneTokenPerSession, EntriesUsed, CallFresh, CallsApart, Present
<1> QED BY <1>1, <1>2, <1>3, <1>4, <1>5, <1>6, <1>7, <1>8 DEF Next

LEMMA Invariance == Spec => []IInv
BY Initially, Step, PTL DEF Spec

(***************************************************************************)
(* Every reachable state of the store is of the declared shape.            *)
(***************************************************************************)
THEOREM RefreshTypeCorrect == Spec => []TypeOK
<1>1. IInv => TypeOK
  BY DEF IInv
<1> QED BY <1>1, Invariance, PTL

(***************************************************************************)
(* However many callers rotate, replay, open and drop tokens at once, no   *)
(* session is ever reachable through two tokens.                           *)
(***************************************************************************)
THEOREM SingleToken == Spec => []OneTokenPerSession
<1>1. IInv => OneTokenPerSession
  BY DEF IInv
<1> QED BY <1>1, Invariance, PTL

-----------------------------------------------------------------------------
(* What a step may do to a live token.                                     *)

LEMMA LiveTokenReplaced ==
  ASSUME IInv, [Next]_vars, NEW t \in Tokens,
         Present(t), entries[t].expires_at > clock, entries'[t] # entries[t]
  PROVE  \E c \in Callers :
           /\ calls'[c] = Idle
           /\ \/ calls[c].op = "delete" /\ calls[c].token = t
              \/ /\ calls[c].op = "rotate" /\ calls[c].old = t
                 /\ calls[c].current = entries[t].session
                 /\ entries'[calls[c].new].session = calls[c].next
<1>1. entries' # entries
  OBVIOUS
<1>2. entries[t].expires_at \in Instants /\ clock \in Nat /\ entries \in [Tokens -> Entry \cup {Absent}]
  BY EntryTyping DEF IInv, TypeOK
<1>3. ASSUME NEW c \in Callers, Get(c) \/ Delete(c) \/ RotateRefused(c)
      PROVE  calls'[c] = Idle /\ calls[c].op = "delete" /\ calls[c].token = t
  <2>1. PICK gone \in SUBSET Tokens :
           /\ Dropped(c, gone)
           /\ \A u \in gone : \/ ~Present(u)
                              \/ entries[u].expires_at <= clock
                              \/ calls[c].op = "delete" /\ calls[c].token = u
    BY <1>3, DropStep, Zenon
  <2>2. entries'[t] = (IF t \in gone THEN Absent ELSE entries[t]) /\ calls'[c] = Idle
    BY <2>1 DEF Dropped, IInv, TypeOK
  <2>3. t \in gone
    BY <2>2
  <2> QED BY <1>2, <2>1, <2>2, <2>3
<1>4. ASSUME NEW c \in Callers, Set(c) PROVE FALSE
  <2>1. PICK u \in Tokens, s \in Session, at \in Instants : Stores(c, u, s, at)
    BY <1>4, SetStep
  <2> USE DEF Stores
  <2> QED BY <1>2, <2>1
<1>5. ASSUME NEW c \in Callers, Rotate(c)
      PROVE  /\ calls'[c] = Idle
             /\ calls[c].op = "rotate" /\ calls[c].old = t
             /\ calls[c].current = entries[t].session
             /\ entries'[calls[c].new].session = calls[c].next
  <2>1. PICK old, new \in Tokens, s \in Session, at \in Instants : Moves(c, old, new, s, at)
    BY <1>5, RotateStep
  <2> USE DEF Moves
  <2> DEFINE entry == [session |-> s, expires_at |-> at]
  <2>2. entry.session = s /\ entries' = [entries EXCEPT ![old] = Absent, ![new] = entry]
    BY <2>1
  <2> HIDE DEF entry
  <2>3. /\ entries'[new] = entry
        /\ \A u \in Tokens \ {old, new} : entries'[u] = entries[u]
    BY <1>2, <2>1, <2>2
  <2>4. t # new
    BY <1>2, <2>1
  <2>5. t = old
    BY <2>3, <2>4
  <2>6. calls'[c] = Idle
    BY <2>1 DEF IInv, TypeOK
  <2> QED BY <1>5, <2>1, <2>2, <2>3, <2>5, <2>6 DEF Rotate
<1>6. ASSUME NEW c \in Callers,
             \/ \E u \in Tokens : CallGet(c, u) \/ CallDelete(c, u)
             \/ \E u \in Tokens, s \in Session, ttl \in TTLs : CallSet(c, u, s, ttl)
             \/ \E old, new \in Tokens, current, next \in Session, ttl \in TTLs :
                  CallRotate(c, old, new, current, next, ttl)
      PROVE  FALSE
  BY <1>1, <1>6 DEF CallGet, CallDelete, CallSet, CallRotate
<1>7. CASE Tick
  BY <1>1, <1>7 DEF Tick
<1>8. CASE UNCHANGED vars
  BY <1>1, <1>8 DEF vars
<1> QED BY <1>3, <1>4, <1>5, <1>6, <1>7, <1>8 DEF Next

(***************************************************************************)
(* No lookup, failed rotation, login or cleanup ever costs a session its   *)
(* live token, whatever the time the operation acts on.                    *)
(***************************************************************************)
THEOREM LiveTokensAreKept == Spec => LiveTokensKept
<1>1. IInv /\ [Next]_vars =>
        [\A t \in Tokens :
           (Present(t) /\ entries[t].expires_at > clock /\ entries'[t] # entries[t])
             => \E c \in Callers :
                  /\ calls'[c] = Idle
                  /\ \/ calls[c].op = "delete" /\ calls[c].token = t
                     \/ /\ calls[c].op = "rotate" /\ calls[c].old = t
                        /\ calls[c].current = entries[t].session
                        /\ entries'[calls[c].new].session = calls[c].next]_vars
  BY LiveTokenReplaced
<1> QED BY <1>1, Invariance, PTL DEF Spec, LiveTokensKept

-----------------------------------------------------------------------------
(* The store implements RefreshRotation.                                   *)

LEMMA SameSessions == Rotation!Session = Session /\ Rotation!NoSession = NoSession
BY DEF Rotation!Session, Session, Rotation!NoSession, NoSession

LEMMA InitRotation == Init => Rotation!RotationInit
BY SameSessions DEF Init, Rotation!RotationInit, Holds, Absent

LEMMA RotationDrop ==
  ASSUME IInv, NEW c \in Callers, NEW gone \in SUBSET Tokens, Dropped(c, gone)
  PROVE  Rotation!Drop(gone)
<1>1. /\ entries' = [t \in Tokens |-> IF t \in gone THEN Absent ELSE entries[t]]
      /\ used' = used
  BY DEF Dropped
<1>2. \A t \in Tokens : entries'[t].session = IF t \in gone THEN NoSession ELSE entries[t].session
  BY <1>1 DEF Absent
<1>3. Holds' = [t \in Tokens |-> IF t \in gone THEN NoSession ELSE Holds[t]]
  BY <1>2 DEF Holds
<1> QED BY <1>1, <1>3, SameSessions DEF Rotation!Drop

LEMMA RotationSet ==
  ASSUME IInv, NEW c \in Callers, Set(c)
  PROVE  \E t \in Tokens, s \in Session : Rotation!Open(t, s)
<1>1. PICK t \in Tokens, s \in Session, at \in Instants : Stores(c, t, s, at)
  BY SetStep
<1> USE DEF Stores
<1> DEFINE entry == [session |-> s, expires_at |-> at]
<1>2. entry.session = s /\ entries' = [entries EXCEPT ![t] = entry]
  BY <1>1
<1> HIDE DEF entry
<1>3. \A u \in Tokens : entries'[u].session = IF u = t THEN s ELSE entries[u].session
  BY <1>2 DEF IInv, TypeOK
<1>4. Holds' = [Holds EXCEPT ![t] = s]
  BY <1>3 DEF Holds
<1>5. ~Rotation!Opened(s.id) /\ \A id \in Ids : <<t, id>> \notin used
  BY <1>1 DEF Rotation!Opened
<1> QED BY <1>1, <1>4, <1>5 DEF Rotation!Open

LEMMA RotationRotate ==
  ASSUME IInv, NEW c \in Callers, Rotate(c)
  PROVE  \E old, new \in Tokens, s \in Session : Rotation!Rotate(old, new, s)
<1>1. PICK old, new \in Tokens, s \in Session, at \in Instants : Moves(c, old, new, s, at)
  BY RotateStep
<1> USE DEF Moves
<1> DEFINE entry == [session |-> s, expires_at |-> at]
<1>2. entry.session = s /\ entries' = [entries EXCEPT ![old] = Absent, ![new] = entry]
  BY <1>1
<1> HIDE DEF entry
<1>3. \A u \in Tokens : entries'[u].session = IF u = new THEN s
                                              ELSE IF u = old THEN NoSession
                                              ELSE entries[u].session
  BY <1>1, <1>2 DEF IInv, TypeOK, Absent
<1>4. Holds' = [Holds EXCEPT ![old] = NoSession, ![new] = s]
  BY <1>1, <1>3 DEF Holds
<1>5. Holds[old] # NoSession /\ Holds[old].id = s.id
  BY <1>1, EntryTyping DEF Holds, IInv
<1> QED BY <1>1, <1>4, <1>5, SameSessions DEF Rotation!Rotate

LEMMA NextRotation == IInv /\ [Next]_vars => [Rotation!RotationNext]_Rotation!rotationVars
<1> SUFFICES ASSUME IInv, [Next]_vars
             PROVE  Rotation!RotationNext \/ UNCHANGED Rotation!rotationVars
  OBVIOUS
<1>1. ASSUME UNCHANGED <<entries, used>> PROVE UNCHANGED Rotation!rotationVars
  BY <1>1 DEF Rotation!rotationVars, Holds
<1>2. CASE Tick
  BY <1>1, <1>2 DEF Tick
<1>3. ASSUME NEW c \in Callers,
             \/ \E t \in Tokens : CallGet(c, t) \/ CallDelete(c, t)
             \/ \E t \in Tokens, s \in Session, ttl \in TTLs : CallSet(c, t, s, ttl)
             \/ \E old, new \in Tokens, current, next \in Session, ttl \in TTLs :
                  CallRotate(c, old, new, current, next, ttl)
      PROVE  UNCHANGED Rotation!rotationVars
  BY <1>1, <1>3 DEF CallGet, CallDelete, CallSet, CallRotate
<1>4. ASSUME NEW c \in Callers, Get(c) \/ Delete(c) \/ RotateRefused(c)
      PROVE  Rotation!RotationNext
  BY <1>4, DropStep, RotationDrop DEF Rotation!RotationNext
<1>5. ASSUME NEW c \in Callers, Set(c) PROVE Rotation!RotationNext
  BY <1>5, RotationSet, SameSessions DEF Rotation!RotationNext
<1>6. ASSUME NEW c \in Callers, Rotate(c) PROVE Rotation!RotationNext
  BY <1>6, RotationRotate, SameSessions DEF Rotation!RotationNext
<1>7. CASE UNCHANGED vars
  BY <1>1, <1>7 DEF vars
<1> QED BY <1>2, <1>3, <1>4, <1>5, <1>6, <1>7 DEF Next

(***************************************************************************)
(* Rotation is single-use: every step of the store opens, rotates or drops *)
(* a session the way RefreshRotation allows, so that a token, once it has  *)
(* lost its session, never gives access to it again.                       *)
(***************************************************************************)
THEOREM StoreImplementsRotation == Spec => ImplementsRotation
BY InitRotation, NextRotation, Invariance, PTL DEF Spec, ImplementsRotation, Rotation!RotationSpec
=============================================================================
