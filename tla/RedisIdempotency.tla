-------------------------- MODULE RedisIdempotency --------------------------
(***************************************************************************)
(* RedisIdempotencyStore of idempotency-runtime-core: each operation is    *)
(* one command or script over RedisLink's connection.  The server executes *)
(* a script atomically and drops a key once its deadline has passed.       *)
(***************************************************************************)
EXTENDS InstantMath, RedisLink

CONSTANTS Keys, TTLs,
          Ops,        \* the operations the callers use
          MaxTime     \* bound: the clock stops here

ASSUME RedisAssumption ==
  /\ Ops \subseteq {"ping", "set_once", "claim_pending", "mark_completed", "delete", "exists"}
  /\ Commands = [op : Ops, key : Keys, ttl : TTLs, by : Callers]   \* by: history
  /\ TTLs \subseteq Nat /\ MaxTime \in Nat
  /\ \A ttl \in TTLs : MaxTime + Second * ttl_secs_ceil(ttl) <= MaxInstant

VARIABLES clock,
          db,       \* the server's keys, with their deadlines
          grants,   \* history: who the server gave the key to, until when
          told      \* history: keys whose present grant was answered in time

server == <<clock, db, grants, told>>
vars == <<server, linkVars>>

-----------------------------------------------------------------------------
Answers == {"PONG", "OK", "true", "false", "Fresh", "Pending", "Completed", "UnsupportedMarker"}

Absent == [state |-> "absent", expires_at |-> 0]
(* A value nobody here wrote, without a deadline of its own. *)
Foreign == [state |-> "foreign", expires_at |-> MaxInstant]
Entry == [state : {"marker", "pending", "completed"}, expires_at : Instants]

TypeOK == /\ clock \in 0..MaxTime
          /\ db \in [Keys -> Entry \cup {Absent, Foreign}]
          /\ grants \in [Keys -> SUBSET [caller : Callers, expires_at : Instants]]
          /\ told \subseteq Keys
          /\ LinkTypeOK(Answers)

Init == /\ clock = 0
        /\ db \in [Keys -> {Absent, Foreign}]
        /\ grants = [k \in Keys |-> {}]
        /\ told = {}
        /\ LinkInit

-----------------------------------------------------------------------------
(* The server.                                                             *)

Live(k) == db[k] # Absent /\ db[k].expires_at > clock

(* SET key kind EX ttl_secs_ceil(ttl) *)
SetEX(k, kind, ttl) ==
  db' = [db EXCEPT ![k] = [state |-> kind,
                           expires_at |-> clock + Second * ttl_secs_ceil(ttl)]]

GrantTo(c, k) ==
  /\ grants' = [grants EXCEPT ![k] = @ \cup {[caller |-> c, expires_at |-> db'[k].expires_at]}]
  /\ told' = told \ {k}

Released(k) == grants' = [grants EXCEPT ![k] = {}] /\ UNCHANGED told

(* SET key marker NX EX ttl *)
ExecSetOnce(cmd, answer) ==
  \/ /\ Live(cmd.key) /\ answer = "false"
     /\ UNCHANGED <<db, grants, told>>
  \/ /\ ~Live(cmd.key) /\ answer = "true"
     /\ SetEX(cmd.key, "marker", cmd.ttl)
     /\ GrantTo(cmd.by, cmd.key)

(* Mutant of ExecClaimPending: the caller's earlier look at the key decides, *)
(* and by now the key may be taken.                                        *)
ExecClaimBlindly(cmd, answer) ==
  /\ answer = "Fresh"
  /\ SetEX(cmd.key, "pending", cmd.ttl)
  /\ GrantTo(cmd.by, cmd.key)

(* The Lua script of claim_pending, and the reading of its result. *)
ExecClaimPending(cmd, answer) ==
  \/ /\ Live(cmd.key)
     /\ answer = CASE db[cmd.key].state \in {"completed", "marker"} -> "Completed"
                   [] db[cmd.key].state = "pending" -> "Pending"
                   [] OTHER -> "UnsupportedMarker"
     /\ UNCHANGED <<db, grants, told>>
  \/ /\ ~Live(cmd.key) /\ answer = "Fresh"
     /\ SetEX(cmd.key, "pending", cmd.ttl)
     /\ GrantTo(cmd.by, cmd.key)

ExecMarkCompleted(cmd, answer) ==
  /\ answer = "OK"
  /\ SetEX(cmd.key, "completed", cmd.ttl)
  /\ Released(cmd.key)

ExecDelete(cmd, answer) ==
  /\ answer = "OK"
  /\ db' = [db EXCEPT ![cmd.key] = Absent]
  /\ Released(cmd.key)

ExecExists(cmd, answer) ==
  /\ answer = IF Live(cmd.key) THEN "true" ELSE "false"
  /\ UNCHANGED <<db, grants, told>>

ExecPing(answer) == answer = "PONG" /\ UNCHANGED <<db, grants, told>>

Exec(cmd, answer) ==
  \/ cmd.op = "set_once" /\ ExecSetOnce(cmd, answer)
  \/ cmd.op = "claim_pending" /\ ExecClaimPending(cmd, answer)
  \/ cmd.op = "mark_completed" /\ ExecMarkCompleted(cmd, answer)
  \/ cmd.op = "delete" /\ ExecDelete(cmd, answer)
  \/ cmd.op = "exists" /\ ExecExists(cmd, answer)
  \/ cmd.op = "ping" /\ ExecPing(answer)

Execute(n) ==
  /\ pipe[n] # <<>>
  /\ \E answer \in Answers : Exec(Head(pipe[n]).cmd, answer) /\ Consume(n, answer)
  /\ UNCHANGED clock

(* Time passes, and the server forgets what has expired. *)
Tick ==
  /\ clock < MaxTime
  /\ clock' = clock + 1
  /\ db' = [k \in Keys |-> IF db[k].expires_at > clock' \/ db[k] = Foreign THEN db[k] ELSE Absent]
  /\ grants' = [k \in Keys |-> {g \in grants[k] : g.expires_at > clock'}]
  /\ UNCHANGED <<told, linkVars>>

-----------------------------------------------------------------------------
(* The callers.                                                            *)

BeginOp(c) == (\E cmd \in Commands : cmd.by = c /\ Begin(c, cmd)) /\ UNCHANGED server

(* The caller learns the outcome; Fresh and true let it do the work. *)
Outcome(c) ==
  /\ Answered(c)
  /\ told' = IF calls[c].answer \in {"Fresh", "true"} /\ calls[c].cmd.op # "exists"
               THEN told \cup {calls[c].cmd.key} ELSE told
  /\ UNCHANGED <<clock, db, grants>>

(* redis_error: an error reply is no reason to drop the connection. *)
redis_error(c) ==
  /\ Refused(c)
  /\ Return(c)
  /\ UNCHANGED <<server, alive, pipe, cached, suspect>>

Link == LinkStep /\ UNCHANGED server

Next == \/ \E c \in Callers : BeginOp(c) \/ Outcome(c) \/ redis_error(c)
        \/ Link
        \/ \E n \in Conns : Execute(n)
        \/ Tick

Spec == Init /\ [][Next]_vars

(* tokio polls a caller that can go on and fires its timers; nothing is    *)
(* assumed of the server or of the links.                                  *)
GoOn(c) == (GetCached(c) \/ StartDial(c)) /\ UNCHANGED server
TimeOut(c) == (DialFails(c) \/ CommandTimeout(c)) /\ UNCHANGED server

FairSpec == Spec /\ \A c \in Callers : WF_vars(GoOn(c)) /\ WF_vars(TimeOut(c))

-----------------------------------------------------------------------------
(***************************************************************************)
(* No call hangs: whatever the server and the links do, every operation    *)
(* comes to an end, because both the dial and the command time out.        *)
(***************************************************************************)
EveryCallReturns == \A c \in Callers : calls[c] # Idle ~> calls[c] = Idle

(***************************************************************************)
(* "Another caller already has a pending claim" (WorkClaim::Pending).  So  *)
(* a caller that is answered Pending either took the claim itself, and was *)
(* told so, or somebody else has it.                                       *)
(***************************************************************************)
PendingMeansAnother ==
  [][\A c \in Callers :
       (calls[c].phase = "wait" /\ calls[c].answer = NoAnswer
          /\ calls'[c] = [calls[c] EXCEPT !.answer = "Pending"])
         => \/ calls[c].cmd.key \in told
            \/ \E g \in grants[calls[c].cmd.key] : g.caller # c]_vars

-----------------------------------------------------------------------------
(***************************************************************************)
(* The store implements IdempotencyClaims.  A value somebody else wrote is *)
(* no claim; it only keeps the key from being granted.                     *)
(***************************************************************************)
LiveClaims == [k \in Keys |-> IF Live(k) /\ db[k].state # "foreign" THEN db[k] ELSE Absent]

Claims == INSTANCE IdempotencyClaims
            WITH MaxExpiry <- MaxInstant, claims <- LiveClaims

(* Whatever arrives late or never, and in whatever order the connections   *)
(* deliver, the server's keys only change as IdempotencyClaims allows.     *)
ImplementsClaims == Claims!ClaimsSpec

(***************************************************************************)
(* Exclusive work: the server never gives a key to two callers at a time,  *)
(* and keeps the entry it gave, however late their commands execute and    *)
(* whatever those callers were told (claim_pending, set_once).             *)
(***************************************************************************)
AtMostOneLiveGrant == Claims!Exclusive
=============================================================================
