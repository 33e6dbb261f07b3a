------------------------- MODULE RedisRefreshProofs -------------------------
(***************************************************************************)
(* RedisRefresh for any number of callers, connections, tokens and         *)
(* sessions, pipes of any length and TTLs of any size, for products that   *)
(* store a token once (~Retries).                                          *)
(*                                                                         *)
(* The link's part of the inductive invariant says that the command which  *)
(* stores a token is never in two places, however callers time out and     *)
(* connections overtake each other; the server's part, that what such a    *)
(* command finds when it executes is a token without a past.               *)
(***************************************************************************)
EXTENDS RedisRefresh, InstantMathProofs, SequenceTheorems

USE InstantAssumption, LinkAssumption

-----------------------------------------------------------------------------
(* The shape of the link.                                                  *)

Replies == Answers \cup {NoAnswer, ErrorReply}
Sent == [phase : {"send", "wait"}, cmd : Commands, conn : Conns, answer : Replies]
Call == {Idle} \cup Unsent \cup Sent

LinkTyped ==
  /\ alive \subseteq Conns
  /\ pipe \in [Conns -> Seq(Queued)]
  /\ \A n \in Conns : Len(pipe[n]) <= MaxPipe
  /\ cached \in Conns \cup {NoConn}
  /\ calls \in [Callers -> Call]
  /\ suspect \subseteq Conns

(* Where a command that stores a token can be.                             *)

(* The store command of token t. *)
SetOf(cmd, t) == cmd.op = "set" /\ cmd.token = t

LoginToken(t) == \E cmd \in Commands : SetOf(cmd, t)

(* Caller c has begun to store t and not sent it yet. *)
WillSend(c, t) == calls[c].phase \in {"get", "dial", "send"} /\ SetOf(calls[c].cmd, t)

(* The server will get to store t, if it gets to place i of pipe n. *)
Carries(n, i, t) == i \in 1..Len(pipe[n]) /\ SetOf(pipe[n][i].cmd, t)

Pending(t) == \/ \E c \in Callers : WillSend(c, t)
              \/ \E n \in Conns, i \in Nat : Carries(n, i, t)

(* Nobody stores a token twice, wherever the first attempt got stuck. *)
OncePending(t) ==
  /\ t \in unset => ~Pending(t)
  /\ \A c, d \in Callers : WillSend(c, t) /\ WillSend(d, t) => c = d
  /\ \A n, o \in Conns, i, j \in Nat : Carries(n, i, t) /\ Carries(o, j, t) => n = o /\ i = j
  /\ \A c \in Callers, n \in Conns, i \in Nat : ~(WillSend(c, t) /\ Carries(n, i, t))

(* A login that is still to come finds its token without a past. *)
LoginFresh(t) ==
  (t \in unset /\ LoginToken(t)) \/ Pending(t) => \A id \in Ids : <<t, id>> \notin used

(* A session that was ever open was opened by its login. *)
OpenedByLogin ==
  \A pair \in used :
    \E cmd \in Commands : /\ cmd.op = "set" /\ cmd.session.id = pair[2]
                          /\ <<cmd.token, pair[2]>> \in used

(* Of a session's tokens, the latest is the one that gives access to it. *)
HoldsTheLatest(t) ==
  Exists(t) =>
    /\ <<t, db[t].session.id>> \in used
    /\ \A u \in Tokens : <<u, db[t].session.id>> \in used => Minted[u] <= Minted[t]

-----------------------------------------------------------------------------
(* What the steps of the link do to the commands under way.                *)

LEMMA CallPhases ==
  ASSUME NEW call \in Call
  PROVE  /\ call.phase \in {"get", "dial"} => call \in Unsent
         /\ call.phase \in {"send", "wait"} => call \in Sent /\ call.conn \in Conns
         /\ call # Idle => call.cmd \in Commands /\ call.phase \in {"get", "dial", "send", "wait"}
         /\ call.phase \in {"get", "dial", "send", "wait"} => call # Idle
BY DEF Call, Unsent, Sent, Idle

LEMMA QueuedTyped ==
  ASSUME LinkTyped, NEW n \in Conns
  PROVE  /\ pipe[n] \in Seq(Queued) /\ Len(pipe[n]) \in Nat /\ Len(pipe[n]) <= MaxPipe
         /\ \A i \in 1..Len(pipe[n]) : pipe[n][i] \in Queued /\ pipe[n][i].cmd \in Commands
<1>1. pipe[n] \in Seq(Queued) /\ Len(pipe[n]) <= MaxPipe
  BY DEF LinkTyped
<1>2. Len(pipe[n]) \in Nat
  BY <1>1, LenProperties
<1>3. \A i \in 1..Len(pipe[n]) : pipe[n][i] \in Queued
  BY <1>1, ElementOfSeq
<1> QED
  BY <1>1, <1>2, <1>3 DEF Queued

(* Nothing is said that was not being said. *)
PipesOnlyLose ==
  \A n \in Conns, i \in Nat, t \in Tokens : Carries(n, i, t)' => Carries(n, i, t)
Dwindles ==
  /\ \A c \in Callers, t \in Tokens : WillSend(c, t)' => WillSend(c, t)
  /\ PipesOnlyLose

LEMMA SamePipes ==
  ASSUME pipe' = pipe PROVE PipesOnlyLose
BY DEF PipesOnlyLose, Carries

(* Caller c's call becomes another one that stores nothing new. *)
LEMMA CallDwindles ==
  ASSUME LinkTyped, NEW c \in Callers, NEW call \in Call,
         call = Idle \/ (call.cmd = calls[c].cmd /\ calls[c].phase \in {"get", "dial"}),
         calls' = [calls EXCEPT ![c] = call]
  PROVE  /\ calls' \in [Callers -> Call]
         /\ \A d \in Callers, t \in Tokens : WillSend(d, t)' => WillSend(d, t)
<1>1. calls' \in [Callers -> Call] /\ calls'[c] = call /\ \A d \in Callers \ {c} : calls'[d] = calls[d]
  BY DEF LinkTyped
<1>2. Idle.phase = "idle"
  BY DEF Idle
<1>3. \A t \in Tokens : WillSend(c, t)' => WillSend(c, t)
  BY <1>1, <1>2 DEF WillSend
<1>4. \A d \in Callers \ {c}, t \in Tokens : WillSend(d, t)' => WillSend(d, t)
  BY <1>1 DEF WillSend
<1> QED
  BY <1>1, <1>3, <1>4

LEMMA IdleIsACall == Idle \in Call
BY DEF Call

LEMMA HoldingIsACall ==
  ASSUME NEW cmd \in Commands, NEW n \in Conns
  PROVE  Holding(cmd, n) \in Call /\ Holding(cmd, n).cmd = cmd
BY DEF Holding, Call, Sent, Replies

LEMMA ConnectDwindles ==
  ASSUME LinkTyped, NEW c \in Callers, GetCached(c) \/ StartDial(c) \/ Dialled(c) \/ DialFails(c)
  PROVE  LinkTyped' /\ Dwindles
<1>1. calls[c].phase \in {"get", "dial"} /\ calls[c] \in Call /\ pipe' = pipe
  BY DEF GetCached, StartDial, Dialled, DialFails, LinkTyped
<1>2. calls[c] \in Unsent /\ calls[c].cmd \in Commands
  BY <1>1, CallPhases
<1>3. ASSUME NEW call \in Call, call = Idle \/ call.cmd = calls[c].cmd,
             calls' = [calls EXCEPT ![c] = call],
             alive' \subseteq Conns, cached' \in Conns \cup {NoConn}, suspect' \subseteq Conns
      PROVE  LinkTyped' /\ Dwindles
  BY <1>1, <1>3, CallDwindles, SamePipes DEF LinkTyped, Dwindles
<1>4. CASE GetCached(c)
  <2>1. cached \in Conns /\ calls' = [calls EXCEPT ![c] = Holding(calls[c].cmd, cached)]
    BY <1>4 DEF GetCached, LinkTyped
  <2> QED
    BY <1>2, <1>3, <1>4, <2>1, HoldingIsACall DEF GetCached, LinkTyped
<1>5. CASE StartDial(c)
  <2>1. PICK call : call = [calls[c] EXCEPT !.phase = "dial"]
    OBVIOUS
  <2>2. call \in Call /\ call.cmd = calls[c].cmd
    BY <1>2, <2>1 DEF Unsent, Call
  <2>3. calls' = [calls EXCEPT ![c] = call]
    BY <1>5, <2>1 DEF StartDial
  <2> QED
    BY <1>3, <1>5, <2>2, <2>3 DEF StartDial, LinkTyped
<1>6. CASE Dialled(c)
  <2>1. PICK n \in Conns : /\ alive' = alive \cup {n} /\ suspect' = suspect \ {n} /\ cached' = n
                           /\ calls' = [calls EXCEPT ![c] = Holding(calls[c].cmd, n)]
    BY <1>6 DEF Dialled
  <2> QED
    BY <1>2, <1>3, <2>1, HoldingIsACall DEF LinkTyped
<1>7. CASE DialFails(c)
  BY <1>3, <1>7, IdleIsACall DEF DialFails, Return, LinkTyped
<1> QED
  BY <1>4, <1>5, <1>6, <1>7

LEMMA ReturnDwindles ==
  ASSUME LinkTyped, NEW c \in Callers, Answered(c)
  PROVE  LinkTyped' /\ Dwindles
BY CallDwindles, SamePipes, IdleIsACall DEF Answered, Return, LinkTyped, Dwindles

(* A command that nobody waits for any more is under way all the same.     *)
LEMMA FailedDwindles ==
  ASSUME LinkTyped, NEW c \in Callers, Failed(c), calls[c].phase \in {"send", "wait"}
  PROVE  LinkTyped' /\ Dwindles
<1>1. /\ cached' = NoConn /\ suspect' = suspect \cup {calls[c].conn} /\ alive' = alive
      /\ calls' = [calls EXCEPT ![c] = Idle] /\ calls[c].conn \in Conns
  BY CallPhases DEF Failed, clear_connection, Return, LinkTyped
<1>2. ASSUME NEW n \in Conns
      PROVE  /\ pipe'[n] \in Seq(Queued) /\ Len(pipe'[n]) = Len(pipe[n])
             /\ \A i \in 1..Len(pipe[n]) : pipe'[n][i].cmd = pipe[n][i].cmd
  <2>1. pipe'[n] = [i \in DOMAIN pipe[n] |->
                      IF pipe[n][i].caller = c THEN [pipe[n][i] EXCEPT !.caller = Nobody]
                                               ELSE pipe[n][i]]
    BY DEF Failed, Abandon
  <2>2. PICK s, t : s = pipe[n] /\ t = pipe'[n]
    OBVIOUS
  <2>3. s \in Seq(Queued) /\ DOMAIN s = 1..Len(s) /\ Len(s) \in Nat
    BY <2>2, QueuedTyped, LenProperties
  <2>4. ASSUME NEW i \in 1..Len(s)
        PROVE  t[i] \in Queued /\ t[i].cmd = s[i].cmd
    <3>1. t[i] = IF s[i].caller = c THEN [s[i] EXCEPT !.caller = Nobody] ELSE s[i]
      BY <2>1, <2>2, <2>3
    <3>2. s[i] \in Queued
      BY <2>3, ElementOfSeq
    <3> QED
      BY <3>1, <3>2 DEF Queued
  <2>5. t \in [1..Len(s) -> Queued]
    <3>1. t = [i \in 1..Len(s) |-> t[i]]
      BY <2>1, <2>2, <2>3
    <3> QED
      BY <2>4, <3>1
  <2>6. t \in Seq(Queued)
    BY <2>3, <2>5, SeqDef
  <2>7. Len(t) = Len(s)
    BY <2>3, <2>5, <2>6, LenProperties
  <2> QED
    BY <2>2, <2>4, <2>6, <2>7
<1>3. pipe' \in [Conns -> Seq(Queued)]
  <2>1. pipe' = [n \in Conns |-> pipe'[n]]
    BY DEF Failed, Abandon
  <2> QED
    BY <1>2, <2>1
<1>4. /\ calls' \in [Callers -> Call]
      /\ \A d \in Callers, t \in Tokens : WillSend(d, t)' => WillSend(d, t)
  BY <1>1, CallDwindles, IdleIsACall
<1>5. PipesOnlyLose
  BY <1>2 DEF PipesOnlyLose, Carries
<1> QED
  BY <1>1, <1>2, <1>3, <1>4, <1>5 DEF LinkTyped, Dwindles

LEMMA BreakDwindles ==
  ASSUME LinkTyped, NEW n \in Conns, Break(n)
  PROVE  LinkTyped' /\ Dwindles
<1>1. PICK received \in 0..Len(pipe[n]) : pipe' = [pipe EXCEPT ![n] = SubSeq(@, 1, received)]
  BY DEF Break
<1>2. /\ pipe[n] \in Seq(Queued) /\ Len(pipe[n]) \in Nat /\ Len(pipe[n]) <= MaxPipe
      /\ \A i \in 1..Len(pipe[n]) : pipe[n][i] \in Queued
  BY QueuedTyped
<1>3. PICK rest : rest = SubSeq(pipe[n], 1, received)
  OBVIOUS
<1>4. /\ rest \in Seq(Queued) /\ Len(rest) = received
      /\ \A i \in 1..received : rest[i] = pipe[n][i]
  <2>1. /\ SubSeq(pipe[n], 1, received) \in Seq(Queued)
        /\ Len(SubSeq(pipe[n], 1, received)) = IF 1 <= received THEN received - 1 + 1 ELSE 0
        /\ \A i \in 1..received - 1 + 1 : SubSeq(pipe[n], 1, received)[i] = pipe[n][1 + i - 1]
    BY <1>2, SubSeqProperties
  <2> QED
    BY <1>2, <1>3, <2>1
<1>5. pipe' = [pipe EXCEPT ![n] = rest] /\ UNCHANGED <<cached, calls, suspect>> /\ alive' \subseteq alive
  BY <1>1, <1>3 DEF Break
<1>6. LinkTyped'
  BY <1>2, <1>4, <1>5 DEF LinkTyped
<1>7. ASSUME NEW o \in Conns
      PROVE  \A i \in 1..Len(pipe'[o]) : i \in 1..Len(pipe[o]) /\ pipe'[o][i] = pipe[o][i]
  BY <1>2, <1>4, <1>5 DEF LinkTyped
<1>8. PipesOnlyLose
  BY <1>7 DEF PipesOnlyLose, Carries
<1> QED
  BY <1>5, <1>6, <1>8 DEF Dwindles, WillSend

(* What caller c had to say moves to the end of pipe n, to place last. *)
Says(c, n, last) ==
  /\ \A t \in Tokens : ~WillSend(c, t)' /\ (Carries(n, last, t)' => WillSend(c, t))
  /\ \A d \in Callers \ {c}, t \in Tokens : WillSend(d, t)' => WillSend(d, t)
  /\ \A o \in Conns, i \in Nat, t \in Tokens :
       Carries(o, i, t)' => Carries(o, i, t) \/ (o = n /\ i = last)

LEMMA SendSays ==
  ASSUME LinkTyped, NEW c \in Callers, Send(c)
  PROVE  LinkTyped' /\ \E n \in Conns, last \in Nat : Says(c, n, last)
<1>1. calls[c].phase = "send" /\ calls[c] \in Sent
  BY CallPhases DEF Send, LinkTyped
<1>2. PICK n \in Conns, cmd \in Commands : n = calls[c].conn /\ cmd = calls[c].cmd
  BY <1>1, CallPhases DEF LinkTyped
<1>3. PICK m : m = [caller |-> c, cmd |-> cmd] /\ m \in Queued /\ m.cmd = cmd
  <2>1. [caller |-> c, cmd |-> cmd] \in Queued
    BY DEF Queued
  <2> QED
    BY <2>1
<1>4. PICK call : call = [calls[c] EXCEPT !.phase = "wait"]
  OBVIOUS
<1>5. call \in Call /\ call.phase = "wait"
  BY <1>1, <1>4 DEF Sent, Call
<1>6. /\ pipe' = [pipe EXCEPT ![n] = Append(@, m)] /\ calls' = [calls EXCEPT ![c] = call]
      /\ UNCHANGED <<alive, cached, suspect>> /\ Len(pipe[n]) < MaxPipe
  BY <1>2, <1>3, <1>4 DEF Send
<1>7. PICK longer : longer = Append(pipe[n], m)
  OBVIOUS
<1> PICK last : last = Len(pipe[n]) + 1
  OBVIOUS
<1>8. /\ pipe[n] \in Seq(Queued) /\ Len(pipe[n]) \in Nat
      /\ longer \in Seq(Queued) /\ Len(longer) = last
      /\ last \in Nat /\ longer[last] = m
      /\ \A i \in 1..Len(pipe[n]) : longer[i] = pipe[n][i]
  BY <1>3, <1>7, QueuedTyped
<1>9. pipe'[n] = longer /\ \A o \in Conns \ {n} : pipe'[o] = pipe[o]
  BY <1>6, <1>7 DEF LinkTyped
<1>10. calls'[c] = call /\ \A d \in Callers \ {c} : calls'[d] = calls[d]
  BY <1>6 DEF LinkTyped
<1>11. LinkTyped'
  <2>1. pipe' \in [Conns -> Seq(Queued)] /\ \A o \in Conns : Len(pipe'[o]) <= MaxPipe
    BY <1>6, <1>7, <1>8 DEF LinkTyped
  <2> QED
    BY <1>5, <1>6, <2>1 DEF LinkTyped
<1>12. ASSUME NEW t \in Tokens
       PROVE  ~WillSend(c, t)' /\ (Carries(n, last, t)' => WillSend(c, t))
  BY <1>1, <1>2, <1>3, <1>5, <1>8, <1>9, <1>10 DEF WillSend, Carries
<1>13. \A d \in Callers \ {c}, t \in Tokens : WillSend(d, t)' => WillSend(d, t)
  BY <1>10 DEF WillSend
<1>14. ASSUME NEW o \in Conns, NEW i \in Nat, NEW t \in Tokens, Carries(o, i, t)'
       PROVE  Carries(o, i, t) \/ (o = n /\ i = last)
  BY <1>8, <1>9, <1>14 DEF Carries
<1> QED
  BY <1>8, <1>11, <1>12, <1>13, <1>14 DEF Says

(* The first command of pipe n is done, and the others move up.            *)
Pops(n) ==
  /\ \A d \in Callers, t \in Tokens : WillSend(d, t)' => WillSend(d, t)
  /\ \A i \in Nat, t \in Tokens : Carries(n, i, t)' => i # 0 /\ Carries(n, i + 1, t)
  /\ \A o \in Conns \ {n}, i \in Nat, t \in Tokens : Carries(o, i, t)' => Carries(o, i, t)

LEMMA AnswerKeepsCall ==
  ASSUME NEW call \in Call, NEW answer \in Replies
  PROVE  /\ [call EXCEPT !.answer = answer] \in Call
         /\ [call EXCEPT !.answer = answer].phase = call.phase
         /\ [call EXCEPT !.answer = answer].cmd = call.cmd
<1>1. CASE call = Idle
  BY <1>1 DEF Idle, Call
<1>2. CASE call \in Unsent
  BY <1>2 DEF Unsent, Call
<1>3. CASE call \in Sent
  BY <1>3 DEF Sent, Call
<1> QED
  BY <1>1, <1>2, <1>3 DEF Call

LEMMA ConsumePops ==
  ASSUME LinkTyped, NEW n \in Conns, pipe[n] # <<>>, NEW answer \in Replies, Consume(n, answer)
  PROVE  /\ LinkTyped' /\ Pops(n)
         /\ Head(pipe[n]).cmd \in Commands
         /\ \A t \in Tokens : SetOf(Head(pipe[n]).cmd, t) => Carries(n, 1, t)
<1>1. /\ pipe[n] \in Seq(Queued) /\ Len(pipe[n]) \in Nat \ {0} /\ Len(pipe[n]) <= MaxPipe
      /\ Tail(pipe[n]) \in Seq(Queued) /\ Len(Tail(pipe[n])) = Len(pipe[n]) - 1
      /\ \A i \in 1..Len(pipe[n]) - 1 : Tail(pipe[n])[i] = pipe[n][i + 1]
      /\ Head(pipe[n]) = pipe[n][1] /\ pipe[n][1].cmd \in Commands
  BY QueuedTyped, EmptySeq, HeadTailProperties
<1>2. PICK rest : rest = Tail(pipe[n])
  OBVIOUS
<1>3. /\ pipe' = [pipe EXCEPT ![n] = rest] /\ UNCHANGED <<alive, cached, suspect>>
      /\ calls' = [c \in Callers |-> IF c = Head(pipe[n]).caller /\ n \in alive
                                       THEN [calls[c] EXCEPT !.answer = answer] ELSE calls[c]]
  BY <1>2 DEF Consume
<1>4. ASSUME NEW c \in Callers
      PROVE  calls'[c] \in Call /\ calls'[c].phase = calls[c].phase /\ calls'[c].cmd = calls[c].cmd
  <2>1. calls[c] \in Call
    BY DEF LinkTyped
  <2>2. calls'[c] = [calls[c] EXCEPT !.answer = answer] \/ calls'[c] = calls[c]
    BY <1>3
  <2> QED
    BY <2>1, <2>2, AnswerKeepsCall
<1>5. calls' \in [Callers -> Call]
  BY <1>3, <1>4
<1>6. pipe' \in [Conns -> Seq(Queued)] /\ \A o \in Conns : Len(pipe'[o]) <= MaxPipe
  BY <1>1, <1>2, <1>3 DEF LinkTyped
<1>7. \A d \in Callers, t \in Tokens : WillSend(d, t)' => WillSend(d, t)
  BY <1>4 DEF WillSend
<1>8. pipe'[n] = rest /\ \A o \in Conns \ {n} : pipe'[o] = pipe[o]
  BY <1>3 DEF LinkTyped
<1>9. ASSUME NEW i \in Nat, NEW t \in Tokens, Carries(n, i, t)'
      PROVE  i # 0 /\ Carries(n, i + 1, t)
  BY <1>1, <1>2, <1>8, <1>9 DEF Carries
<1>10. \A o \in Conns \ {n}, i \in Nat, t \in Tokens : Carries(o, i, t)' => Carries(o, i, t)
  BY <1>8 DEF Carries
<1> QED
  BY <1>1, <1>3, <1>5, <1>6, <1>7, <1>9, <1>10 DEF LinkTyped, Pops, Carries

-----------------------------------------------------------------------------
(* No token is ever under way to the server twice.                         *)

LinkInv == LinkTyped /\ unset \subseteq Tokens /\ \A t \in Tokens : OncePending(t)

(* What is under way after the step was so before, or its login begins. *)
PendingFrom(t) == Pending(t)' => Pending(t) \/ (t \in unset /\ LoginToken(t))

(* Whoever stores t after the step has begun before it is over. *)
UnsetIsUnbegun ==
  unset' \subseteq unset /\ \A t \in unset', c \in Callers : ~WillSend(c, t)'

LEMMA LearnForgets ==
  ASSUME LinkInv, LinkTyped', ~Retries, Learn
  PROVE  UnsetIsUnbegun
<1>1. unset' = unset \ {t \in Tokens : \E c \in Callers : Sets(c, t)'}
  BY DEF Learn
<1>2. \A t \in unset', c \in Callers : calls'[c] # Idle => ~SetOf(calls'[c].cmd, t)
  BY <1>1 DEF Sets, SetOf, LinkInv
<1>3. \A c \in Callers : calls'[c].phase \in {"get", "dial", "send"} => calls'[c] # Idle
  BY CallPhases DEF Idle
<1> QED
  BY <1>1, <1>2, <1>3 DEF UnsetIsUnbegun, WillSend

LEMMA PendingIsLogin ==
  ASSUME LinkTyped, NEW t \in Tokens, Pending(t)
  PROVE  LoginToken(t)
<1>1. ASSUME NEW c \in Callers, WillSend(c, t) PROVE LoginToken(t)
  <2>1. calls[c].cmd \in Commands
    BY <1>1, CallPhases DEF LinkTyped, WillSend
  <2> QED
    BY <1>1, <2>1 DEF WillSend, LoginToken
<1>2. ASSUME NEW n \in Conns, NEW i \in Nat, Carries(n, i, t) PROVE LoginToken(t)
  <2>1. pipe[n][i].cmd \in Commands
    BY <1>2, QueuedTyped DEF Carries
  <2> QED
    BY <1>2, <2>1 DEF Carries, LoginToken
<1> QED
  BY <1>1, <1>2 DEF Pending

LEMMA DwindlesKeeps ==
  ASSUME LinkInv, Dwindles, UnsetIsUnbegun, NEW t \in Tokens
  PROVE  OncePending(t)' /\ PendingFrom(t)
<1>1. OncePending(t)
  BY DEF LinkInv
<1>2. Pending(t)' => Pending(t)
  BY DEF Pending, Dwindles, PipesOnlyLose
<1>3. /\ \A c \in Callers : WillSend(c, t)' => WillSend(c, t)
      /\ \A n \in Conns, i \in Nat : Carries(n, i, t)' => Carries(n, i, t)
  BY DEF Dwindles, PipesOnlyLose
<1> QED
  BY <1>1, <1>2, <1>3 DEF OncePending, UnsetIsUnbegun, PendingFrom

LEMMA BeginTyped ==
  ASSUME LinkTyped, NEW c \in Callers, NEW cmd \in Commands, Begin(c, cmd)
  PROVE  LinkTyped'
<1>1. [phase |-> "get", cmd |-> cmd] \in Call
  BY DEF Call, Unsent
<1> QED
  BY <1>1 DEF Begin, LinkTyped

LEMMA BeginKeeps ==
  ASSUME LinkInv, NEW c \in Callers, NEW cmd \in Commands, Begin(c, cmd),
         cmd.op = "set" => cmd.token \in unset, UnsetIsUnbegun, NEW t \in Tokens
  PROVE  OncePending(t)' /\ PendingFrom(t)
<1>1. OncePending(t)
  BY DEF LinkInv
<1>2. PICK call : call = [phase |-> "get", cmd |-> cmd]
  OBVIOUS
<1>3. calls'[c] = call /\ \A d \in Callers \ {c} : calls'[d] = calls[d]
  BY <1>2 DEF Begin, LinkInv, LinkTyped
<1> call.cmd = cmd
  BY <1>2
<1>4. WillSend(c, t)' => t \in unset /\ LoginToken(t)
  BY <1>2, <1>3 DEF WillSend, SetOf, LoginToken
<1>5. \A d \in Callers \ {c} : WillSend(d, t)' => WillSend(d, t)
  BY <1>3 DEF WillSend
<1>6. \A n \in Conns, i \in Nat : Carries(n, i, t)' => Carries(n, i, t)
  BY DEF Carries, Begin
<1>7. Pending(t)' => Pending(t) \/ WillSend(c, t)'
  BY <1>5, <1>6 DEF Pending
<1>8. t \in unset => ~Pending(t)
  BY <1>1 DEF OncePending
<1>9. \A d, e \in Callers : WillSend(d, t)' /\ WillSend(e, t)' => d = e
  BY <1>1, <1>4, <1>5, <1>8 DEF OncePending, Pending
<1>10. \A d \in Callers, n \in Conns, i \in Nat : ~(WillSend(d, t)' /\ Carries(n, i, t)')
  BY <1>1, <1>4, <1>5, <1>6, <1>8 DEF OncePending, Pending
<1>11. t \in unset' => ~Pending(t)'
  BY <1>7, <1>8 DEF UnsetIsUnbegun
<1> QED
  BY <1>1, <1>4, <1>6, <1>7, <1>9, <1>10, <1>11 DEF OncePending, PendingFrom

LEMMA SendKeeps ==
  ASSUME LinkInv, NEW c \in Callers, NEW n \in Conns, NEW last \in Nat, Says(c, n, last),
         UnsetIsUnbegun, NEW t \in Tokens
  PROVE  OncePending(t)' /\ PendingFrom(t)
<1>1. OncePending(t)
  BY DEF LinkInv
<1>3. /\ ~WillSend(c, t)'
      /\ \A d \in Callers : WillSend(d, t)' => WillSend(d, t) /\ d # c
      /\ Carries(n, last, t)' => WillSend(c, t)
      /\ \A o \in Conns, i \in Nat : Carries(o, i, t)' => Carries(o, i, t) \/ (o = n /\ i = last)
  BY DEF Says
<1>4. \A o \in Conns, i \in Nat :
        Carries(o, i, t)' => Carries(o, i, t) \/ (o = n /\ i = last /\ WillSend(c, t))
  BY <1>3
<1>5. Pending(t)' => Pending(t)
  BY <1>3, <1>4 DEF Pending
<1> QED
  BY <1>1, <1>3, <1>4, <1>5 DEF OncePending, PendingFrom, UnsetIsUnbegun

LEMMA PopKeeps ==
  ASSUME LinkInv, NEW n \in Conns, Pops(n), UnsetIsUnbegun, NEW t \in Tokens
  PROVE  OncePending(t)' /\ PendingFrom(t) /\ (Carries(n, 1, t) => ~Pending(t)')
<1>1. OncePending(t)
  BY DEF LinkInv
<1>2. /\ \A d \in Callers : WillSend(d, t)' => WillSend(d, t)
      /\ \A i \in Nat : Carries(n, i, t)' => i # 0 /\ Carries(n, i + 1, t)
      /\ \A o \in Conns \ {n}, i \in Nat : Carries(o, i, t)' => Carries(o, i, t)
  BY DEF Pops
<1>3. Pending(t)' => Pending(t)
  <2>1. \A i \in Nat : i + 1 \in Nat
    OBVIOUS
  <2> QED
    BY <1>2, <2>1 DEF Pending
<1>4. \A o, q \in Conns, i, j \in Nat : Carries(o, i, t)' /\ Carries(q, j, t)' => o = q /\ i = j
  <2> SUFFICES ASSUME NEW o \in Conns, NEW q \in Conns, NEW i \in Nat, NEW j \in Nat,
                      Carries(o, i, t)', Carries(q, j, t)'
               PROVE  o = q /\ i = j
    OBVIOUS
  <2>1. PICK k \in Nat : Carries(o, k, t) /\ k = IF o = n THEN i + 1 ELSE i
    BY <1>2
  <2>2. PICK l \in Nat : Carries(q, l, t) /\ l = IF q = n THEN j + 1 ELSE j
    BY <1>2
  <2>3. o = q /\ k = l
    BY <1>1, <2>1, <2>2 DEF OncePending
  <2> QED
    BY <2>1, <2>2, <2>3
<1>5. \A d \in Callers, o \in Conns, i \in Nat : ~(WillSend(d, t)' /\ Carries(o, i, t)')
  <2>1. \A i \in Nat : i + 1 \in Nat
    OBVIOUS
  <2> QED
    BY <1>1, <1>2, <2>1 DEF OncePending
<1>6. ASSUME Carries(n, 1, t), Pending(t)' PROVE FALSE
  <2>1. \A d \in Callers : ~WillSend(d, t)'
    BY <1>1, <1>2, <1>6 DEF OncePending
  <2>2. PICK o \in Conns, i \in Nat : Carries(o, i, t)'
    BY <1>6, <2>1 DEF Pending
  <2>3. PICK k \in Nat : Carries(o, k, t) /\ k = (IF o = n THEN i + 1 ELSE i) /\ (o = n => i # 0)
    BY <1>2, <2>2
  <2>4. o = n /\ k = 1
    BY <1>1, <1>6, <2>3 DEF OncePending
  <2> QED
    BY <2>3, <2>4
<1>7. \A d, e \in Callers : WillSend(d, t)' /\ WillSend(e, t)' => d = e
  BY <1>1, <1>2 DEF OncePending
<1>8. t \in unset' => ~Pending(t)'
  BY <1>1, <1>3 DEF OncePending, UnsetIsUnbegun
<1> QED
  BY <1>3, <1>4, <1>5, <1>6, <1>7, <1>8 DEF OncePending, PendingFrom

-----------------------------------------------------------------------------
(* The server and the history of its tokens.                               *)
USE RefreshAssumption

ServerTyped ==
  /\ clock \in 0..MaxTime
  /\ db \in [Tokens -> Entry \cup {Absent}]
  /\ used \subseteq Tokens \X Ids

(* RotationIsSingleUse, of the server's keys. *)
OneEntryPerSession ==
  \A t, u \in Tokens :
    Exists(t) /\ Exists(u) /\ db[t].session.id = db[u].session.id => t = u

HistoryInv ==
  /\ ServerTyped
  /\ \A t \in Tokens : HoldsTheLatest(t)
  /\ OpenedByLogin /\ OneEntryPerSession

RefreshInv == LinkInv /\ HistoryInv /\ \A t \in Tokens : LoginFresh(t)

LEMMA EntryTyping ==
  ASSUME ServerTyped, NEW t \in Tokens
  PROVE  /\ db[t] \in Entry \cup {Absent}
         /\ Exists(t) <=> db[t].session # NoSession
         /\ Exists(t) => /\ db[t] \in Entry /\ db[t].session \in Session
                         /\ db[t].session.id \in Ids
         /\ ~Exists(t) => db[t].session.id = "none"
BY DEF ServerTyped, Exists, Entry, Absent, Session, NoSession

LEMMA EntryExists ==
  ASSUME NEW entry \in Entry
  PROVE  entry # Absent /\ entry.session \in Session /\ entry.session.id \in Ids
BY DEF Entry, Absent, Session, NoSession

LEMMA Deadline ==
  ASSUME ServerTyped, NEW ttl \in TTLs, NEW s \in Session
  PROVE  Stored(s, ttl) \in Entry /\ Stored(s, ttl).session = s
<1>1. PICK secs \in Nat : secs = ttl_secs_ceil(ttl)
  BY SecondsCoverTTL
<1>2. PICK ticks \in Nat : ticks = Second * secs
  <2>1. Second * secs \in Nat
    BY <1>1
  <2> QED
    BY <2>1
<1>3. clock \in 0..MaxTime /\ MaxTime + ticks <= MaxInstant
  BY <1>1, <1>2 DEF ServerTyped
<1>4. PICK at : at = clock + Second * ttl_secs_ceil(ttl) /\ at \in Instants
  <2>1. clock + Second * ttl_secs_ceil(ttl) \in Instants
    BY <1>1, <1>2, <1>3 DEF Instants
  <2> QED
    BY <2>1
<1>5. Stored(s, ttl) = [session |-> s, expires_at |-> at]
  BY <1>4 DEF Stored
<1> QED
  BY <1>4, <1>5 DEF Entry

(* The three ways in which the keys of the server change. *)

Drops(gone) ==
  /\ db' = [t \in Tokens |-> IF t \in gone THEN Absent ELSE db[t]]
  /\ used' = used

Opens(login, entry) ==
  /\ login.op = "set" /\ entry.session = login.session
  /\ db' = [db EXCEPT ![login.token] = entry]
  /\ used' = used \cup {<<login.token, login.session.id>>}

Moves(old, new, entry) ==
  /\ Exists(old) /\ ~Exists(new) /\ old # new /\ Minted[old] < Minted[new]
  /\ ~LoginToken(new) /\ entry.session.id = db[old].session.id
  /\ db' = [db EXCEPT ![old] = Absent, ![new] = entry]
  /\ used' = used \cup {<<new, entry.session.id>>}

LEMMA CommandFacts ==
  ASSUME NEW cmd \in Commands
  PROVE  /\ cmd.op = "set" => cmd \in SetCommand
         /\ cmd.op = "rotate" => cmd \in RotateCommand /\ ~LoginToken(cmd.new)
         /\ cmd.op \in {"get", "ping", "delete"} => cmd.token \in Tokens
BY DEF SetCommand, RotateCommand, OtherCommand, LoginToken, SetOf

LEMMA SameDrops ==
  ASSUME ServerTyped, UNCHANGED <<db, used>>
  PROVE  Drops({})
BY DEF ServerTyped, Drops

LEMMA ExecChanges ==
  ASSUME ServerTyped, NEW cmd \in Commands, NEW answer, Exec(cmd, answer)
  PROVE  \/ \E gone \in SUBSET Tokens : Drops(gone)
         \/ \E entry \in Entry : Opens(cmd, entry)
         \/ \E old, new \in Tokens, entry \in Entry : Moves(old, new, entry)
<1>1. CASE UNCHANGED <<db, used>>
  BY <1>1, SameDrops
<1>2. CASE cmd.op = "set" /\ ExecSet(cmd, answer)
  <2>1. PICK entry : entry = Stored(cmd.session, cmd.ttl)
    OBVIOUS
  <2>2. cmd.session \in Session /\ cmd.ttl \in TTLs
    BY <1>2, CommandFacts DEF SetCommand
  <2>3. entry \in Entry /\ entry.session = cmd.session
    BY <2>1, <2>2, Deadline
  <2>4. Opens(cmd, entry)
    BY <1>2, <2>1, <2>3 DEF ExecSet, Opens
  <2> QED
    BY <2>3, <2>4
<1>3. CASE cmd.op = "delete" /\ ExecDelete(cmd, answer)
  <2>1. cmd.token \in Tokens
    BY <1>3, CommandFacts
  <2>2. Drops({cmd.token})
    BY <1>3, <2>1 DEF ExecDelete, Drops, ServerTyped
  <2> QED
    BY <2>1, <2>2
<1>4. CASE cmd.op = "rotate" /\ MayRotate(cmd) /\ ExecRotate(cmd, answer)
  <2>1. PICK entry : entry = Stored(cmd.next, cmd.ttl)
    OBVIOUS
  <2>2. /\ cmd.old \in Tokens /\ cmd.new \in Tokens /\ ~LoginToken(cmd.new)
        /\ cmd.next \in Session /\ cmd.ttl \in TTLs
    BY <1>4, CommandFacts DEF RotateCommand
  <2>3. entry \in Entry /\ entry.session = cmd.next
    BY <2>1, <2>2, Deadline
  <2>4. Exists(cmd.old) /\ ~Exists(cmd.new) /\ db[cmd.old].session = cmd.current
    BY <1>4 DEF MayRotate
  <2>5. cmd.old # cmd.new
    BY <2>4
  <2>6. cmd.next.id = cmd.current.id /\ Minted[cmd.old] < Minted[cmd.new]
    BY <1>4, <2>5
  <2>7. /\ db' = [db EXCEPT ![cmd.old] = Absent, ![cmd.new] = entry]
        /\ used' = used \cup {<<cmd.new, cmd.next.id>>}
    BY <1>4, <2>1 DEF ExecRotate
  <2>8. Moves(cmd.old, cmd.new, entry)
    BY <2>2, <2>3, <2>4, <2>5, <2>6, <2>7 DEF Moves
  <2> QED
    BY <2>2, <2>3, <2>8
<1> QED
  BY <1>1, <1>2, <1>3, <1>4 DEF Exec, ExecRead, ExecRotate

LEMMA DropsKeeps ==
  ASSUME HistoryInv, NEW gone \in SUBSET Tokens, Drops(gone), clock' \in 0..MaxTime
  PROVE  HistoryInv'
<1>1. /\ used' = used /\ db' \in [Tokens -> Entry \cup {Absent}]
      /\ \A t \in Tokens : db'[t] = IF t \in gone THEN Absent ELSE db[t]
  BY DEF HistoryInv, ServerTyped, Drops
<1>2. \A t \in Tokens : Exists(t)' => Exists(t) /\ db'[t] = db[t]
  BY <1>1 DEF Exists
<1>3. ServerTyped'
  BY <1>1 DEF HistoryInv, ServerTyped
<1>4. \A t \in Tokens : HoldsTheLatest(t)'
  BY <1>1, <1>2 DEF HistoryInv, HoldsTheLatest
<1>5. OpenedByLogin' /\ OneEntryPerSession'
  BY <1>1, <1>2 DEF HistoryInv, OpenedByLogin, OneEntryPerSession
<1> QED
  BY <1>3, <1>4, <1>5 DEF HistoryInv

(* A session whose login is still to come has no token. *)
LEMMA LoginOpens ==
  ASSUME HistoryInv, NEW login \in Commands, login.op = "set",
         \A id \in Ids : <<login.token, id>> \notin used
  PROVE  \A pair \in used : pair[1] # login.token /\ pair[2] # login.session.id
<1> SUFFICES ASSUME NEW pair \in used PROVE pair[1] # login.token /\ pair[2] # login.session.id
  OBVIOUS
<1>1. pair = <<pair[1], pair[2]>> /\ pair[2] \in Ids
  BY DEF HistoryInv, ServerTyped
<1>2. pair[1] # login.token
  BY <1>1
<1>3. PICK cmd \in Commands : /\ cmd.op = "set" /\ cmd.session.id = pair[2]
                              /\ <<cmd.token, pair[2]>> \in used
  BY DEF HistoryInv, OpenedByLogin
<1>4. cmd.token # login.token
  BY <1>1, <1>3
<1> QED
  BY <1>2, <1>3, <1>4

LEMMA OpensKeeps ==
  ASSUME HistoryInv, NEW login \in Commands, NEW entry \in Entry, Opens(login, entry),
         \A id \in Ids : <<login.token, id>> \notin used, clock' \in 0..MaxTime
  PROVE  HistoryInv'
<1> PICK token, id : token = login.token /\ id = login.session.id
  OBVIOUS
<1>1. token \in Tokens /\ id \in Ids /\ entry # Absent /\ entry.session.id = id
  BY CommandFacts, EntryExists DEF Opens, SetCommand, Session
<1>2. \A pair \in used : pair[1] # token /\ pair[2] # id
  BY LoginOpens DEF Opens
<1>3. /\ db'[token] = entry /\ \A t \in Tokens \ {token} : db'[t] = db[t]
      /\ used' = used \cup {<<token, id>>} /\ db' \in [Tokens -> Entry \cup {Absent}]
  BY <1>1 DEF HistoryInv, ServerTyped, Opens
<1>4. ServerTyped'
  BY <1>1, <1>3 DEF HistoryInv, ServerTyped
<1>5. \A t \in Tokens : Exists(t) => db[t].session.id # id
  BY <1>2 DEF HistoryInv, HoldsTheLatest
<1>6. ASSUME NEW t \in Tokens PROVE HoldsTheLatest(t)'
  <2>1. CASE t = token
    <3>1. db'[t].session.id = id
      BY <1>1, <1>3, <2>1
    <3>2. \A u \in Tokens : <<u, id>> \in used' => u = token
      BY <1>2, <1>3
    <3>3. Minted[token] \in Nat
      BY <1>1
    <3> QED
      BY <1>3, <2>1, <3>1, <3>2, <3>3 DEF HoldsTheLatest
  <2>2. CASE t # token
    <3>1. db'[t] = db[t] /\ (Exists(t)' => Exists(t))
      BY <1>3, <2>2 DEF Exists
    <3> QED
      BY <1>3, <1>5, <3>1 DEF HistoryInv, HoldsTheLatest
  <2> QED
    BY <2>1, <2>2
<1>7. OpenedByLogin'
  <2> SUFFICES ASSUME NEW pair \in used'
               PROVE  \E cmd \in Commands : /\ cmd.op = "set" /\ cmd.session.id = pair[2]
                                            /\ <<cmd.token, pair[2]>> \in used'
    BY DEF OpenedByLogin
  <2>1. CASE pair \in used
    BY <1>3, <2>1 DEF HistoryInv, OpenedByLogin
  <2>2. CASE pair = <<token, id>>
    BY <1>3, <2>2 DEF Opens
  <2> QED
    BY <1>3, <2>1, <2>2
<1>8. OneEntryPerSession'
  <2>1. \A t \in Tokens \ {token} : Exists(t)' => Exists(t) /\ db'[t] = db[t]
    BY <1>3 DEF Exists
  <2>2. \A t \in Tokens \ {token} : Exists(t)' => db'[t].session.id # db'[token].session.id
    BY <1>1, <1>3, <1>5, <2>1
  <2> QED
    BY <2>1, <2>2 DEF HistoryInv, OneEntryPerSession
<1> QED
  BY <1>4, <1>6, <1>7, <1>8 DEF HistoryInv

(* The successor has never had the session. *)
LEMMA MovesToUnused ==
  ASSUME HistoryInv, NEW old \in Tokens, NEW new \in Tokens, NEW entry \in Entry,
         Moves(old, new, entry)
  PROVE  <<new, entry.session.id>> \notin used
<1>1. Minted[old] \in Nat /\ Minted[new] \in Nat
  OBVIOUS
<1>2. Exists(old) /\ Minted[old] < Minted[new] /\ entry.session.id = db[old].session.id
  BY DEF Moves
<1>3. <<new, db[old].session.id>> \in used => Minted[new] <= Minted[old]
  BY <1>2 DEF HistoryInv, HoldsTheLatest
<1> QED
  BY <1>1, <1>2, <1>3

LEMMA MovesKeeps ==
  ASSUME HistoryInv, NEW old \in Tokens, NEW new \in Tokens, NEW entry \in Entry,
         Moves(old, new, entry), clock' \in 0..MaxTime
  PROVE  HistoryInv'
<1> PICK id : id = entry.session.id
  OBVIOUS
<1>1. /\ id \in Ids /\ entry # Absent /\ old # new /\ Exists(old) /\ db[old].session.id = id
      /\ Minted[old] \in Nat /\ Minted[new] \in Nat /\ Minted[old] < Minted[new]
  BY EntryExists DEF Moves
<1>2. /\ db'[new] = entry /\ db'[old] = Absent
      /\ \A t \in Tokens \ {old, new} : db'[t] = db[t]
      /\ used' = used \cup {<<new, id>>} /\ db' \in [Tokens -> Entry \cup {Absent}]
  BY <1>1 DEF HistoryInv, ServerTyped, Moves
<1>3. ServerTyped'
  BY <1>1, <1>2 DEF HistoryInv, ServerTyped
<1>4. ASSUME NEW t \in Tokens \ {new}, Exists(t)'
      PROVE  Exists(t) /\ t # old /\ db'[t] = db[t] /\ db[t].session.id # id
  <2>1. t # old /\ db'[t] = db[t] /\ Exists(t)
    BY <1>2, <1>4 DEF Exists
  <2> QED
    BY <1>1, <2>1 DEF HistoryInv, OneEntryPerSession
<1>5. ASSUME NEW t \in Tokens PROVE HoldsTheLatest(t)'
  <2>1. CASE t = new
    <3>1. \A u \in Tokens : <<u, id>> \in used => Minted[u] <= Minted[old]
      BY <1>1 DEF HistoryInv, HoldsTheLatest
    <3>2. \A u \in Tokens : <<u, id>> \in used' => Minted[u] <= Minted[new]
      <4> SUFFICES ASSUME NEW u \in Tokens, <<u, id>> \in used' PROVE Minted[u] <= Minted[new]
        OBVIOUS
      <4>1. Minted[u] \in Nat
        OBVIOUS
      <4>2. u = new \/ <<u, id>> \in used
        BY <1>2
      <4> QED
        BY <1>1, <3>1, <4>1, <4>2
    <3> QED
      BY <1>2, <2>1, <3>2 DEF HoldsTheLatest
  <2>2. CASE t # new
    BY <1>2, <1>4, <2>2 DEF HistoryInv, HoldsTheLatest
  <2> QED
    BY <2>1, <2>2
<1>6. OpenedByLogin'
  <2> SUFFICES ASSUME NEW pair \in used'
               PROVE  \E cmd \in Commands : /\ cmd.op = "set" /\ cmd.session.id = pair[2]
                                            /\ <<cmd.token, pair[2]>> \in used'
    BY DEF OpenedByLogin
  <2>1. PICK known \in used : known[2] = pair[2]
    <3>1. <<old, id>> \in used /\ <<old, id>>[2] = id
      BY <1>1 DEF HistoryInv, HoldsTheLatest
    <3>2. pair \in used \/ pair[2] = id
      BY <1>2
    <3> QED
      BY <3>1, <3>2
  <2> QED
    BY <1>2, <2>1 DEF HistoryInv, OpenedByLogin
<1>7. OneEntryPerSession'
  <2>1. db'[new].session.id = id
    BY <1>2
  <2> QED
    BY <1>4, <2>1 DEF HistoryInv, OneEntryPerSession
<1> QED
  BY <1>3, <1>5, <1>6, <1>7 DEF HistoryInv

-----------------------------------------------------------------------------
(* The server's steps are steps of RefreshRotation.                        *)

LEMMA SameSessions == Rotation!Session = Session /\ Rotation!NoSession = NoSession
BY DEF Rotation!Session, Session, Rotation!NoSession, NoSession

LEMMA DropsRotation ==
  ASSUME NEW gone \in SUBSET Tokens, Drops(gone)
  PROVE  Rotation!Drop(gone)
<1>1. \A t \in Tokens : db'[t].session = IF t \in gone THEN NoSession ELSE db[t].session
  BY DEF Drops, Absent
<1>2. Holds' = [t \in Tokens |-> IF t \in gone THEN NoSession ELSE Holds[t]]
  BY <1>1 DEF Holds
<1> QED
  BY <1>2, SameSessions DEF Drops, Rotation!Drop

LEMMA OpensRotation ==
  ASSUME HistoryInv, NEW login \in Commands, NEW entry \in Entry, Opens(login, entry),
         \A id \in Ids : <<login.token, id>> \notin used
  PROVE  Rotation!RotationNext
<1> PICK token, s : token = login.token /\ s = login.session
  OBVIOUS
<1>1. token \in Tokens /\ s \in Session /\ entry.session = s
  BY CommandFacts DEF Opens, SetCommand
<1>2. db' = [db EXCEPT ![token] = entry] /\ used' = used \cup {<<token, s.id>>}
  BY DEF Opens
<1>3. \A u \in Tokens : db'[u].session = IF u = token THEN s ELSE db[u].session
  BY <1>1, <1>2 DEF HistoryInv, ServerTyped
<1>4. Holds' = [Holds EXCEPT ![token] = s]
  BY <1>3 DEF Holds
<1>5. ~Rotation!Opened(s.id)
  BY LoginOpens DEF Opens, Rotation!Opened
<1>6. Rotation!Open(token, s)
  BY <1>2, <1>4, <1>5 DEF Rotation!Open
<1> QED
  BY <1>1, <1>6, SameSessions DEF Rotation!RotationNext

LEMMA MovesRotation ==
  ASSUME HistoryInv, NEW old \in Tokens, NEW new \in Tokens, NEW entry \in Entry,
         Moves(old, new, entry)
  PROVE  Rotation!RotationNext
<1> PICK s \in Session : s = entry.session
  BY EntryExists
<1>1. /\ db' = [db EXCEPT ![old] = Absent, ![new] = entry]
      /\ used' = used \cup {<<new, s.id>>}
      /\ old # new /\ Exists(old) /\ db[old].session.id = s.id
  BY DEF Moves
<1>2. \A u \in Tokens : db'[u].session = IF u = new THEN s
                                          ELSE IF u = old THEN NoSession ELSE db[u].session
  BY <1>1 DEF HistoryInv, ServerTyped, Absent
<1>3. Holds' = [Holds EXCEPT ![old] = NoSession, ![new] = s]
  BY <1>1, <1>2 DEF Holds
<1>4. Holds[old] # NoSession /\ Holds[old].id = s.id
  BY <1>1, EntryTyping DEF Holds, HistoryInv
<1>5. <<new, s.id>> \notin used
  BY MovesToUnused
<1>6. Rotation!Rotate(old, new, s)
  BY <1>1, <1>3, <1>4, <1>5, SameSessions DEF Rotation!Rotate
<1> QED
  BY <1>6, SameSessions DEF Rotation!RotationNext

-----------------------------------------------------------------------------
(* The invariant is inductive.                                             *)

LEMMA RefreshInitial == Init => RefreshInv /\ Rotation!RotationInit
<1> SUFFICES ASSUME Init PROVE RefreshInv /\ Rotation!RotationInit
  OBVIOUS
<1>1. /\ clock = 0 /\ db = [t \in Tokens |-> Absent] /\ used = {} /\ unset = Tokens
      /\ alive = {} /\ pipe = [n \in Conns |-> <<>>] /\ cached = NoConn
      /\ calls = [c \in Callers |-> Idle] /\ suspect = {}
  BY DEF Init, LinkInit
<1>2. LinkTyped
  BY <1>1, EmptySeq, IdleIsACall DEF LinkTyped
<1>3. ASSUME NEW t \in Tokens PROVE ~Pending(t)
  <2>1. \A c \in Callers : ~WillSend(c, t)
    BY <1>1 DEF WillSend, Idle
  <2>2. \A n \in Conns, i \in Nat : ~Carries(n, i, t)
    BY <1>1, EmptySeq DEF Carries
  <2> QED
    BY <2>1, <2>2 DEF Pending
<1>4. LinkInv
  BY <1>1, <1>2, <1>3 DEF LinkInv, OncePending, Pending
<1>5. \A t \in Tokens : ~Exists(t)
  BY <1>1 DEF Exists
<1>6. HistoryInv /\ \A t \in Tokens : LoginFresh(t)
  BY <1>1, <1>5 DEF HistoryInv, ServerTyped, HoldsTheLatest, OpenedByLogin, OneEntryPerSession,
                    LoginFresh
<1>7. Rotation!RotationInit
  BY <1>1, SameSessions DEF Rotation!RotationInit, Holds, Absent
<1> QED
  BY <1>4, <1>6, <1>7 DEF RefreshInv

(* The link's part of a step. *)
LEMMA LinkKeeps ==
  ASSUME LinkInv, ~Retries, Learn,
         \/ \E c \in Callers : BeginOp(c) \/ Outcome(c) \/ BackendError(c)
         \/ Link \/ Tick
  PROVE  LinkInv' /\ \A t \in Tokens : PendingFrom(t)
<1>0. LinkTyped
  BY DEF LinkInv
<1>1. ASSUME LinkTyped', UnsetIsUnbegun => \A t \in Tokens : OncePending(t)' /\ PendingFrom(t)
      PROVE  LinkInv' /\ \A t \in Tokens : PendingFrom(t)
  <2>1. UnsetIsUnbegun
    BY <1>1, LearnForgets
  <2>2. unset' \subseteq Tokens
    BY <2>1 DEF UnsetIsUnbegun, LinkInv
  <2> QED
    BY <1>1, <2>1, <2>2 DEF LinkInv
<1>2. ASSUME LinkTyped', Dwindles PROVE LinkInv' /\ \A t \in Tokens : PendingFrom(t)
  BY <1>1, <1>2, DwindlesKeeps
<1>3. ASSUME NEW c \in Callers, BeginOp(c) PROVE LinkInv' /\ \A t \in Tokens : PendingFrom(t)
  <2>1. PICK cmd \in Commands : Begin(c, cmd) /\ (cmd.op = "set" => cmd.token \in unset)
    BY <1>3 DEF BeginOp
  <2>2. LinkTyped'
    BY <1>0, <2>1, BeginTyped
  <2> QED
    BY <1>1, <2>1, <2>2, BeginKeeps
<1>4. ASSUME NEW n \in Conns, Refuse(n) PROVE LinkInv' /\ \A t \in Tokens : PendingFrom(t)
  <2>1. LinkTyped' /\ Pops(n)
    BY <1>0, <1>4, ConsumePops DEF Refuse, Replies
  <2> QED
    BY <1>1, <2>1, PopKeeps
<1>5. ASSUME NEW c \in Callers, Send(c) PROVE LinkInv' /\ \A t \in Tokens : PendingFrom(t)
  <2>1. LinkTyped'
    BY <1>0, <1>5, SendSays
  <2>2. PICK n \in Conns, last \in Nat : Says(c, n, last)
    BY <1>0, <1>5, SendSays
  <2> QED
    BY <1>1, <2>1, <2>2, SendKeeps
<1>6. ASSUME NEW c \in Callers, Outcome(c) PROVE LinkInv' /\ \A t \in Tokens : PendingFrom(t)
  BY <1>0, <1>2, <1>6, ReturnDwindles DEF Outcome
<1>7. ASSUME NEW c \in Callers, BackendError(c) PROVE LinkInv' /\ \A t \in Tokens : PendingFrom(t)
  BY <1>0, <1>2, <1>7, FailedDwindles DEF BackendError, Refused
<1>8. ASSUME NEW c \in Callers, ConnectionDropped(c) \/ CommandTimeout(c)
      PROVE  LinkInv' /\ \A t \in Tokens : PendingFrom(t)
  BY <1>0, <1>2, <1>8, FailedDwindles DEF ConnectionDropped, CommandTimeout
<1>9. ASSUME NEW c \in Callers, GetCached(c) \/ StartDial(c) \/ Dialled(c) \/ DialFails(c)
      PROVE  LinkInv' /\ \A t \in Tokens : PendingFrom(t)
  BY <1>0, <1>2, <1>9, ConnectDwindles
<1>10. ASSUME NEW n \in Conns, Break(n) PROVE LinkInv' /\ \A t \in Tokens : PendingFrom(t)
  BY <1>0, <1>2, <1>10, BreakDwindles
<1>11. CASE Link
  BY <1>4, <1>5, <1>8, <1>9, <1>10, <1>11 DEF Link, LinkStep
<1>12. CASE UNCHANGED linkVars
  <2>1. LinkTyped' /\ Dwindles
    BY <1>0, <1>12 DEF linkVars, LinkTyped, Dwindles, PipesOnlyLose, WillSend, Carries
  <2> QED
    BY <1>2, <2>1
<1>13. CASE Tick
  BY <1>12, <1>13 DEF Tick
<1> QED
  BY <1>3, <1>6, <1>7, <1>11, <1>13

(* The past stays as clean as it was while the server adds nothing to it. *)
LEMMA FreshKept ==
  ASSUME RefreshInv, NEW t \in Tokens, PendingFrom(t), unset' \subseteq unset, used' = used
  PROVE  LoginFresh(t)'
BY DEF RefreshInv, LoginFresh, PendingFrom, LoginToken

LEMMA ExecuteKeeps ==
  ASSUME RefreshInv, ~Retries, Learn, NEW n \in Conns, Execute(n)
  PROVE  RefreshInv' /\ Rotation!RotationNext
<1>0. LinkInv /\ HistoryInv /\ LinkTyped /\ ServerTyped
  BY DEF RefreshInv, LinkInv, HistoryInv
<1>1. PICK answer \in Answers : Exec(Head(pipe[n]).cmd, answer) /\ Consume(n, answer)
  BY DEF Execute
<1>2. pipe[n] # <<>> /\ clock' = clock /\ answer \in Replies
  BY DEF Execute, Replies
<1>3. /\ LinkTyped' /\ Pops(n) /\ Head(pipe[n]).cmd \in Commands
      /\ \A t \in Tokens : SetOf(Head(pipe[n]).cmd, t) => Carries(n, 1, t)
  BY <1>0, <1>1, <1>2, ConsumePops
<1>4. PICK cmd \in Commands : cmd = Head(pipe[n]).cmd
  BY <1>3
<1>5. UnsetIsUnbegun
  BY <1>0, <1>3, LearnForgets
<1>6. unset' \subseteq unset
  BY <1>5 DEF UnsetIsUnbegun
<1>7. \A t \in Tokens : OncePending(t)' /\ PendingFrom(t) /\ (Carries(n, 1, t) => ~Pending(t)')
  BY <1>0, <1>3, <1>5, PopKeeps
<1>8. LinkInv'
  BY <1>0, <1>3, <1>6, <1>7 DEF LinkInv
<1>9. clock' \in 0..MaxTime
  BY <1>0, <1>2 DEF ServerTyped
<1>10. ASSUME NEW gone \in SUBSET Tokens, Drops(gone) PROVE RefreshInv' /\ Rotation!RotationNext
  <2>1. HistoryInv'
    BY <1>0, <1>9, <1>10, DropsKeeps
  <2>2. \A t \in Tokens : LoginFresh(t)'
    BY <1>6, <1>7, <1>10, FreshKept DEF Drops
  <2>3. Rotation!Drop(gone)
    BY <1>10, DropsRotation
  <2> QED
    BY <1>8, <2>1, <2>2, <2>3 DEF RefreshInv, Rotation!RotationNext
<1>11. ASSUME NEW entry \in Entry, Opens(cmd, entry) PROVE RefreshInv' /\ Rotation!RotationNext
  <2>1. PICK token \in Tokens : token = cmd.token
    BY <1>11, CommandFacts DEF Opens, SetCommand
  <2>2. Carries(n, 1, token) /\ ~Pending(token)'
    BY <1>3, <1>4, <1>7, <1>11, <2>1 DEF Opens, SetOf
  <2>3. Pending(token)
    <3>1. 1 \in Nat
      OBVIOUS
    <3> QED
      BY <2>2, <3>1 DEF Pending
  <2>4. \A id \in Ids : <<cmd.token, id>> \notin used
    BY <2>1, <2>3 DEF RefreshInv, LoginFresh
  <2>5. HistoryInv'
    BY <1>0, <1>9, <1>11, <2>4, OpensKeeps
  <2>6. ASSUME NEW t \in Tokens PROVE LoginFresh(t)'
    <3>1. CASE t = token
      <4>1. token \notin unset
        BY <1>0, <2>3 DEF LinkInv, OncePending
      <4> QED
        BY <1>6, <2>2, <3>1, <4>1 DEF LoginFresh
    <3>2. CASE t # token
      <4>1. \A id \in Ids : <<t, id>> \in used' => <<t, id>> \in used
        BY <1>11, <2>1, <3>2 DEF Opens
      <4> QED
        BY <1>6, <1>7, <4>1 DEF RefreshInv, LoginFresh, PendingFrom, LoginToken
    <3> QED
      BY <3>1, <3>2
  <2>7. Rotation!RotationNext
    BY <1>0, <1>11, <2>4, OpensRotation
  <2> QED
    BY <1>8, <2>5, <2>6, <2>7 DEF RefreshInv
<1>12. ASSUME NEW old \in Tokens, NEW new \in Tokens, NEW entry \in Entry, Moves(old, new, entry)
       PROVE  RefreshInv' /\ Rotation!RotationNext
  <2>1. HistoryInv'
    BY <1>0, <1>9, <1>12, MovesKeeps
  <2>2. ASSUME NEW t \in Tokens PROVE LoginFresh(t)'
    <3>1. CASE t = new
      <4>1. ~LoginToken(t)
        BY <1>12, <3>1 DEF Moves
      <4>2. Pending(t) => LoginToken(t)
        BY <1>0, PendingIsLogin
      <4>3. ~Pending(t)'
        BY <1>7, <4>1, <4>2 DEF PendingFrom
      <4> QED
        BY <4>1, <4>3 DEF LoginFresh, LoginToken
    <3>2. CASE t # new
      <4>1. \A id \in Ids : <<t, id>> \in used' => <<t, id>> \in used
        BY <1>12, <3>2 DEF Moves
      <4> QED
        BY <1>6, <1>7, <4>1 DEF RefreshInv, LoginFresh, PendingFrom, LoginToken
    <3> QED
      BY <3>1, <3>2
  <2>3. Rotation!RotationNext
    BY <1>0, <1>12, MovesRotation
  <2> QED
    BY <1>8, <2>1, <2>2, <2>3 DEF RefreshInv
<1> QED
  BY <1>0, <1>1, <1>4, <1>10, <1>11, <1>12, ExecChanges

LEMMA RefreshStep ==
  ASSUME ~Retries
  PROVE  RefreshInv /\ [Next]_vars =>
           RefreshInv' /\ (Rotation!RotationNext \/ UNCHANGED Rotation!rotationVars)
<1> SUFFICES ASSUME RefreshInv, [Next]_vars
             PROVE  RefreshInv' /\ (Rotation!RotationNext \/ UNCHANGED Rotation!rotationVars)
  OBVIOUS
<1>0. LinkInv /\ HistoryInv /\ ServerTyped
  BY DEF RefreshInv, HistoryInv
<1>1. ASSUME LinkInv', \A t \in Tokens : PendingFrom(t), Learn,
             NEW gone \in SUBSET Tokens, Drops(gone), clock' \in 0..MaxTime
      PROVE  RefreshInv' /\ Rotation!RotationNext
  <2>1. HistoryInv' /\ Rotation!Drop(gone)
    BY <1>0, <1>1, DropsKeeps, DropsRotation
  <2>2. unset' \subseteq unset /\ used' = used
    BY <1>0, <1>1, LearnForgets DEF UnsetIsUnbegun, LinkInv, Drops
  <2>3. \A t \in Tokens : LoginFresh(t)'
    BY <1>1, <2>2, FreshKept
  <2> QED
    BY <1>1, <2>1, <2>3 DEF RefreshInv, Rotation!RotationNext
<1>2. CASE Learn /\ \/ \E c \in Callers : BeginOp(c) \/ Outcome(c) \/ BackendError(c)
                    \/ Link
  <2>1. LinkInv' /\ \A t \in Tokens : PendingFrom(t)
    BY <1>0, <1>2, LinkKeeps
  <2>2. UNCHANGED <<clock, db, used>>
    BY <1>2 DEF BeginOp, Outcome, BackendError, Link
  <2>3. Drops({}) /\ clock' \in 0..MaxTime
    BY <1>0, <2>2, SameDrops DEF ServerTyped
  <2> QED
    BY <1>1, <1>2, <2>1, <2>3
<1>3. CASE Learn /\ Tick
  <2>1. LinkInv' /\ \A t \in Tokens : PendingFrom(t)
    BY <1>0, <1>3, LinkKeeps
  <2>2. clock' \in 0..MaxTime
    BY <1>0, <1>3 DEF Tick, ServerTyped
  <2>3. Drops({t \in Tokens : ~(db[t].expires_at > clock')})
    BY <1>3 DEF Tick, Drops
  <2> QED
    BY <1>1, <1>3, <2>1, <2>2, <2>3
<1>4. CASE Learn /\ \E n \in Conns : Execute(n)
  BY <1>4, ExecuteKeeps
<1>5. CASE UNCHANGED vars
  <2>1. UNCHANGED <<clock, db, used, unset, alive, pipe, cached, calls, suspect>>
    BY <1>5 DEF vars, server, linkVars
  <2>2. RefreshInv'
    BY <2>1 DEF RefreshInv, LinkInv, HistoryInv, LinkTyped, OncePending, Pending, WillSend, Carries,
                ServerTyped, HoldsTheLatest, Exists, OpenedByLogin, OneEntryPerSession, LoginFresh
  <2>3. UNCHANGED Rotation!rotationVars
    BY <2>1 DEF Rotation!rotationVars, Holds
  <2> QED
    BY <2>2, <2>3
<1> QED
  BY <1>2, <1>3, <1>4, <1>5 DEF Next

LEMMA AlwaysRefreshInv == ASSUME ~Retries PROVE Spec => []RefreshInv
<1>1. RefreshInv /\ [Next]_vars => RefreshInv'
  BY RefreshStep
<1> QED
  BY <1>1, RefreshInitial, PTL DEF Spec

(***************************************************************************)
(* RedisRefreshStore implements single-use rotation for any number of      *)
(* callers, connections and sessions: whatever times out, is executed late *)
(* or twice, or is lost with a link, the keys of the server change by      *)
(* logins, rotations, logouts and expiry only, as RefreshRotation has it.  *)
(***************************************************************************)
THEOREM RedisImplementsRotation ==
  ASSUME ~Retries PROVE Spec => ImplementsRotation
<1>1. RefreshInv /\ [Next]_vars => [Rotation!RotationNext]_Rotation!rotationVars
  BY RefreshStep
<1> QED
  BY <1>1, RefreshInitial, AlwaysRefreshInv, PTL
     DEF Spec, ImplementsRotation, Rotation!RotationSpec

(***************************************************************************)
(* No session is ever reachable through two tokens.                        *)
(***************************************************************************)
THEOREM RedisOneTokenPerSession ==
  ASSUME ~Retries PROVE Spec => []RotationIsSingleUse
<1>1. RefreshInv => RotationIsSingleUse
  <2> SUFFICES ASSUME RefreshInv, NEW t \in Tokens, NEW u \in Tokens,
                      Holds[t] # NoSession, Holds[u] # NoSession, Holds[t].id = Holds[u].id
               PROVE  t = u
    BY SameSessions DEF RotationIsSingleUse, Rotation!OneToken
  <2>1. Exists(t) /\ Exists(u) /\ db[t].session.id = db[u].session.id
    BY EntryTyping DEF Holds, RefreshInv, HistoryInv
  <2> QED
    BY <2>1 DEF RefreshInv, HistoryInv, OneEntryPerSession
<1> QED
  BY <1>1, AlwaysRefreshInv, PTL

LEMMA SpentStaysSpent ==
  ASSUME HistoryInv, Rotation!RotationNext, NEW pair \in used, Holds[pair[1]].id # pair[2]
  PROVE  Holds'[pair[1]].id # pair[2]
<1>1. /\ pair = <<pair[1], pair[2]>> /\ pair[1] \in Tokens /\ pair[2] \in Ids
      /\ NoSession.id # pair[2]
  BY DEF HistoryInv, ServerTyped, NoSession
<1>2. Holds = [t \in Tokens |-> Holds[t]]
  BY DEF Holds
<1>3. ASSUME NEW gone \in SUBSET Tokens, Rotation!Drop(gone) PROVE Holds'[pair[1]].id # pair[2]
  BY <1>1, <1>3, SameSessions DEF Rotation!Drop
<1>4. ASSUME NEW t \in Tokens, NEW s \in Session, Rotation!Open(t, s)
      PROVE  Holds'[pair[1]].id # pair[2]
  <2>1. pair[1] # t
    BY <1>1, <1>4 DEF Rotation!Open
  <2> QED
    BY <1>1, <1>2, <1>4, <2>1 DEF Rotation!Open
<1>5. ASSUME NEW old \in Tokens, NEW new \in Tokens, NEW s \in Session, Rotation!Rotate(old, new, s)
      PROVE  Holds'[pair[1]].id # pair[2]
  <2>1. pair # <<new, s.id>>
    BY <1>5 DEF Rotation!Rotate
  <2>2. Holds'[pair[1]] = IF pair[1] = new THEN s
                          ELSE IF pair[1] = old THEN NoSession ELSE Holds[pair[1]]
    BY <1>1, <1>2, <1>5, SameSessions DEF Rotation!Rotate
  <2> QED
    BY <1>1, <2>1, <2>2
<1> QED
  BY <1>3, <1>4, <1>5, SameSessions DEF Rotation!RotationNext

(***************************************************************************)
(* A token that was rotated away, logged out or has expired is dead: no    *)
(* command that was abandoned on some connection revives it.               *)
(***************************************************************************)
THEOREM RedisSpentTokensStaySpent ==
  ASSUME ~Retries PROVE Spec => SpentTokensStaySpent
<1>1. RefreshInv /\ [Next]_vars =>
        [\A pair \in used : Holds[pair[1]].id # pair[2] => Holds'[pair[1]].id # pair[2]]_Rotation!rotationVars
  BY RefreshStep, SpentStaysSpent DEF RefreshInv
<1> QED
  BY <1>1, AlwaysRefreshInv, PTL DEF Spec, SpentTokensStaySpent, Rotation!SpentTokensStaySpent

(***************************************************************************)
(* Type correctness of the store, its link and the server it talks to.     *)
(***************************************************************************)
THEOREM RedisRefreshTypeCorrect ==
  ASSUME ~Retries PROVE Spec => []TypeOK
<1>1. RefreshInv => TypeOK
  <2> SUFFICES ASSUME RefreshInv PROVE TypeOK
    OBVIOUS
  <2>1. LinkTyped /\ ServerTyped /\ unset \subseteq Tokens
    BY DEF RefreshInv, LinkInv, HistoryInv
  <2>2. ASSUME NEW n \in Conns PROVE pipe[n] \in BoundedSeq(Queued, MaxPipe)
    <3>1. pipe[n] \in Seq(Queued) /\ Len(pipe[n]) \in 0..MaxPipe
      BY <2>1, QueuedTyped
    <3>2. pipe[n] \in [1..Len(pipe[n]) -> Queued]
      BY <3>1, LenProperties
    <3> QED
      BY <3>1, <3>2 DEF BoundedSeq, SeqOf
  <2>3. pipe \in [Conns -> BoundedSeq(Queued, MaxPipe)]
    BY <2>1, <2>2 DEF LinkTyped
  <2>4. calls \in [Callers -> {Idle} \cup Unsent \cup
                    [phase : {"send", "wait"}, cmd : Commands, conn : Conns,
                     answer : Answers \cup {NoAnswer, ErrorReply}]]
    BY <2>1 DEF LinkTyped, Call, Sent, Replies
  <2> QED
    BY <2>1, <2>3, <2>4 DEF TypeOK, LinkTypeOK, LinkTyped, ServerTyped
<1> QED
  BY <1>1, AlwaysRefreshInv, PTL
=============================================================================
