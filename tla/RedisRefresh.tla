---------------------------- MODULE RedisRefresh ----------------------------
(***************************************************************************)
(* RedisRefreshStore of auth-refresh-core: each operation is one command,  *)
(* transaction or script over RedisLink's connection.  The server runs     *)
(* each of them atomically and drops a key once its deadline has passed.   *)
(*                                                                         *)
(* Tokens are random, so products store a token once, with the session it  *)
(* was minted for.  Retries says whether they send set again, with the     *)
(* same arguments, after an attempt that ended in an error.                *)
(*                                                                         *)
(* Session ids are random as well: one login names a session.  A successor *)
(* is minted by the request that rotates its predecessor, hence after it,  *)
(* and is nobody's login token.                                            *)
(***************************************************************************)
EXTENDS InstantMath, RedisLink

CONSTANTS Tokens, Ids, Stamps, TTLs, Retries,
          Minted,     \* the order in which the tokens are minted
          MaxTime     \* bound: the clock stops here

Session == [id : Ids, stamp : Stamps]

SetCommand == [op : {"set"}, token : Tokens, session : Session, ttl : TTLs]
RotateCommand == [op : {"rotate"}, old : Tokens, new : Tokens,
                  current : Session, next : Session, ttl : TTLs]
OtherCommand == [op : {"get", "delete", "ping"}, token : Tokens]

ASSUME RefreshAssumption ==
  /\ Retries \in BOOLEAN
  /\ TTLs \subseteq Nat /\ MaxTime \in Nat
  /\ \A ttl \in TTLs : MaxTime + Second * ttl_secs_ceil(ttl) <= MaxInstant
  /\ Commands \subseteq SetCommand \cup RotateCommand \cup OtherCommand
  /\ \A cmd \in Commands : cmd.op = "rotate" => cmd.next.id = cmd.current.id
  /\ "none" \notin Ids /\ Minted \in [Tokens -> Nat]
  /\ \A cmd \in Commands :
       cmd.op = "rotate" /\ cmd.old # cmd.new => Minted[cmd.old] < Minted[cmd.new]
  /\ \A login, cmd \in Commands : login.op = "set" =>
       /\ cmd.op = "set" /\ cmd.session.id = login.session.id => cmd.token = login.token
       /\ cmd.op = "rotate" => cmd.new # login.token

VARIABLES clock,
          db,       \* the server's keys, with their deadlines
          used,     \* history: pairs of a token and a session id it was stored for
          unset     \* tokens a product may still store

server == <<clock, db, used, unset>>
vars == <<server, linkVars>>

-----------------------------------------------------------------------------
NoSession == [id |-> "none", stamp |-> "none"]
Absent == [session |-> NoSession, expires_at |-> 0]
Entry == [session : Session, expires_at : Instants]

Answers == {"PONG", "OK", "true", "false", "session", "nothing"}

TypeOK == /\ clock \in 0..MaxTime
          /\ db \in [Tokens -> Entry \cup {Absent}]
          /\ used \subseteq Tokens \X Ids
          /\ unset \subseteq Tokens
          /\ LinkTypeOK(Answers)

Init == /\ clock = 0
        /\ db = [t \in Tokens |-> Absent]
        /\ used = {}
        /\ unset = Tokens
        /\ LinkInit

Exists(t) == db[t] # Absent

-----------------------------------------------------------------------------
(* The server.                                                             *)

Stored(session, ttl) ==
  [session |-> session, expires_at |-> clock + Second * ttl_secs_ceil(ttl)]

(* MULTI, HSET, EXPIRE, EXEC: unconditional *)
ExecSet(cmd, answer) ==
  /\ answer = "OK"
  /\ db' = [db EXCEPT ![cmd.token] = Stored(cmd.session, cmd.ttl)]
  /\ used' = used \cup {<<cmd.token, cmd.session.id>>}

(* HGETALL, and the reading of what it returns; or PING, as a health check *)
ExecRead(cmd, answer) ==
  /\ answer = CASE cmd.op = "ping" -> "PONG"
                [] cmd.op = "get" /\ Exists(cmd.token) -> "session"
                [] OTHER -> "nothing"
  /\ UNCHANGED <<db, used>>

ExecDelete(cmd, answer) ==
  /\ answer = "OK"
  /\ db' = [db EXCEPT ![cmd.token] = Absent]
  /\ UNCHANGED used

(* Mutant of MayRotate: the script looks at the new key only. *)
MayRotateUnchecked(cmd) == ~Exists(cmd.new)

(* The script's look at both keys and at every field of the session. *)
MayRotate(cmd) ==
  Exists(cmd.old) /\ ~Exists(cmd.new) /\ db[cmd.old].session = cmd.current

(* Mutant of ExecRotate: the script forgets DEL. *)
ExecRotateCopy(cmd, answer) ==
  \/ /\ ~MayRotate(cmd) /\ answer = "false"
     /\ UNCHANGED <<db, used>>
  \/ /\ MayRotate(cmd) /\ answer = "true"
     /\ db' = [db EXCEPT ![cmd.new] = Stored(cmd.next, cmd.ttl)]
     /\ used' = used \cup {<<cmd.new, cmd.next.id>>}

(* The Lua script of rotate.  rotate does not get here with equal keys.    *)
ExecRotate(cmd, answer) ==
  \/ /\ ~MayRotate(cmd) /\ answer = "false"
     /\ UNCHANGED <<db, used>>
  \/ /\ MayRotate(cmd) /\ answer = "true"
     /\ db' = [db EXCEPT ![cmd.old] = Absent, ![cmd.new] = Stored(cmd.next, cmd.ttl)]
     /\ used' = used \cup {<<cmd.new, cmd.next.id>>}

Exec(cmd, answer) ==
  \/ cmd.op = "set" /\ ExecSet(cmd, answer)
  \/ cmd.op \in {"get", "ping"} /\ ExecRead(cmd, answer)
  \/ cmd.op = "delete" /\ ExecDelete(cmd, answer)
  \/ cmd.op = "rotate" /\ ExecRotate(cmd, answer)

Execute(n) ==
  /\ pipe[n] # <<>>
  /\ \E answer \in Answers : Exec(Head(pipe[n]).cmd, answer) /\ Consume(n, answer)
  /\ UNCHANGED clock

(* Time passes, and the server forgets what has expired. *)
Tick ==
  /\ clock < MaxTime
  /\ clock' = clock + 1
  /\ db' = [t \in Tokens |-> IF db[t].expires_at > clock' THEN db[t] ELSE Absent]
  /\ UNCHANGED <<used, linkVars>>

-----------------------------------------------------------------------------
(* The callers.                                                            *)

Sets(c, t) == calls[c] # Idle /\ calls[c].cmd.op = "set" /\ calls[c].cmd.token = t

(* A token is stored once, or again after an error. *)
BeginOp(c) ==
  /\ \E cmd \in Commands :
       /\ cmd.op = "set" => cmd.token \in unset
       /\ cmd.op = "rotate" => cmd.old # cmd.new
       /\ Begin(c, cmd)
  /\ UNCHANGED <<clock, db, used>>

Outcome(c) == Answered(c) /\ UNCHANGED <<clock, db, used>>

(* clear_conn_on_backend_error: an error reply costs the connection too.   *)
BackendError(c) ==
  /\ Refused(c)
  /\ Failed(c)
  /\ UNCHANGED <<clock, db, used>>

Link == LinkStep /\ UNCHANGED <<clock, db, used>>

(* A token is stored once; but a caller whose set failed may try again.    *)
Learn ==
  LET begun == {t \in Tokens : \E c \in Callers : Sets(c, t)'}
      failed == {t \in Tokens : \E c \in Callers : Sets(c, t) /\ calls'[c] = Idle /\ ~Answered(c)}
  IN unset' = (unset \ begun) \cup (IF Retries THEN failed ELSE {})

Next == /\ \/ \E c \in Callers : BeginOp(c) \/ Outcome(c) \/ BackendError(c)
           \/ Link
           \/ \E n \in Conns : Execute(n)
           \/ Tick
        /\ Learn

Spec == Init /\ [][Next]_vars

-----------------------------------------------------------------------------
Holds == [t \in Tokens |-> db[t].session]

Rotation == INSTANCE RefreshRotation WITH holds <- Holds

(* Commands that execute late, twice over for retried rotations, or never, *)
(* and connections that overtake each other, leave rotation single-use.    *)
ImplementsRotation == Rotation!RotationSpec

(***************************************************************************)
(* "Single-use rotation": a session is never reachable through two tokens. *)
(***************************************************************************)
RotationIsSingleUse == Rotation!OneToken

(***************************************************************************)
(* A token that was rotated away, logged out or has expired never gives    *)
(* access to its session again, whichever abandoned command executes late. *)
(***************************************************************************)
SpentTokensStaySpent == Rotation!SpentTokensStaySpent
=============================================================================
