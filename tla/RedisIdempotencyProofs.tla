----------------------- MODULE RedisIdempotencyProofs -----------------------
(***************************************************************************)
(* RedisIdempotency for any number of callers, connections and keys, pipes *)
(* of any length and TTLs of any size.                                     *)
(*                                                                         *)
(* The link's part of the inductive invariant says where the answer to a   *)
(* call may still come from, the server's part what a grant stands for.    *)
(***************************************************************************)
EXTENDS RedisIdempotency, InstantMathProofs, SequenceTheorems

USE InstantAssumption, LinkAssumption

-----------------------------------------------------------------------------
(* The link.                                                               *)

(* A command that is not sent yet has no answer. *)
Sending == [phase : {"send"}, cmd : Commands, conn : Conns, answer : {NoAnswer}]
Waiting == [phase : {"wait"}, cmd : Commands, conn : Conns,
            answer : Answers \cup {NoAnswer, ErrorReply}]
Call == {Idle} \cup Unsent \cup Sending \cup Waiting

LinkTyped ==
  /\ alive \subseteq Conns
  /\ pipe \in [Conns -> Seq(Queued)]
  /\ \A n \in Conns : Len(pipe[n]) <= MaxPipe
  /\ cached \in Conns \cup {NoConn}
  /\ calls \in [Callers -> Call]
  /\ suspect \subseteq Conns

(* Caller c still waits, over n, for the command at place i of its pipe. *)
WaitsFor(c, n, i) ==
  /\ calls[c].phase = "wait" /\ calls[c].conn = n
  /\ calls[c].cmd = pipe[n][i].cmd /\ calls[c].answer = NoAnswer

(* A queued command is nobody's, or its caller waits for it and no other. *)
AnswersFindTheirCall ==
  \A n \in Conns : \A i \in 1..Len(pipe[n]) : \A c \in Callers :
    pipe[n][i].caller = c =>
      /\ WaitsFor(c, n, i)
      /\ \A j \in 1..Len(pipe[n]) : pipe[n][j].caller = c => j = i

LinkInv == LinkTyped /\ AnswersFindTheirCall /\ FailedConnectionNotCached

LEMMA CallPhases ==
  ASSUME NEW call \in Call
  PROVE  /\ call.phase \in {"get", "dial"} => call \in Unsent /\ call.cmd \in Commands
         /\ call.phase \in {"send", "wait"} => call.cmd \in Commands /\ call.conn \in Conns
         /\ call.phase = "send" => call \in Sending /\ call.answer = NoAnswer
         /\ call.phase = "wait" => call \in Waiting
         /\ call.phase = "idle" => call = Idle
BY DEF Call, Unsent, Sending, Waiting, Idle

LEMMA QueuedTyped ==
  ASSUME LinkTyped, NEW n \in Conns
  PROVE  /\ pipe[n] \in Seq(Queued) /\ Len(pipe[n]) \in 0..MaxPipe
         /\ \A i \in 1..Len(pipe[n]) : /\ pipe[n][i] \in Queued /\ pipe[n][i].cmd \in Commands
                                       /\ pipe[n][i].caller \in Callers \cup {Nobody}
<1>1. pipe[n] \in Seq(Queued) /\ Len(pipe[n]) <= MaxPipe
  BY DEF LinkTyped
<1>2. Len(pipe[n]) \in Nat
  BY <1>1, LenProperties
<1>3. \A i \in 1..Len(pipe[n]) : pipe[n][i] \in Queued
  BY <1>1, ElementOfSeq
<1> QED
  BY <1>1, <1>2, <1>3 DEF Queued

(* Steps that send no command and take none away. *)
LEMMA CallChanges ==
  ASSUME LinkInv, NEW c \in Callers, NEW call \in Call,
         calls[c].phase # "wait" \/ calls[c].answer # NoAnswer,
         calls' = [calls EXCEPT ![c] = call], pipe' = pipe,
         alive' \subseteq Conns, suspect' \subseteq Conns,
         cached' \in Conns \cup {NoConn}, cached' \notin suspect'
  PROVE  LinkInv'
<1>1. LinkTyped'
  BY DEF LinkInv, LinkTyped
<1>2. \A n \in Conns : \A i \in 1..Len(pipe[n]) : pipe[n][i].caller # c
  BY DEF LinkInv, AnswersFindTheirCall, WaitsFor
<1>3. \A d \in Callers : d # c => calls'[d] = calls[d]
  BY DEF LinkInv, LinkTyped
<1>4. AnswersFindTheirCall'
  BY <1>2, <1>3 DEF LinkInv, AnswersFindTheirCall, WaitsFor
<1> QED
  BY <1>1, <1>4 DEF LinkInv, FailedConnectionNotCached

LEMMA IdleIsACall == Idle \in Call /\ Idle.phase = "idle"
BY DEF Call, Idle

LEMMA BeginKeeps ==
  ASSUME LinkInv, NEW c \in Callers, NEW cmd \in Commands, Begin(c, cmd)
  PROVE  LinkInv'
<1>1. [phase |-> "get", cmd |-> cmd] \in Call
  BY DEF Call, Unsent
<1>2. calls[c].phase # "wait"
  BY IdleIsACall DEF Begin
<1> QED
  BY <1>1, <1>2, CallChanges DEF Begin, LinkInv, LinkTyped, FailedConnectionNotCached

LEMMA ReturnKeeps ==
  ASSUME LinkInv, NEW c \in Callers, calls[c].phase # "wait" \/ calls[c].answer # NoAnswer,
         Return(c), UNCHANGED <<alive, pipe, cached, suspect>>
  PROVE  LinkInv'
BY IdleIsACall, CallChanges DEF Return, LinkInv, LinkTyped, FailedConnectionNotCached

LEMMA HoldingIsACall ==
  ASSUME NEW cmd \in Commands, NEW n \in Conns
  PROVE  Holding(cmd, n) \in Call
BY DEF Holding, Call, Sending

LEMMA ConnectKeeps ==
  ASSUME LinkInv, NEW c \in Callers, GetCached(c) \/ StartDial(c) \/ Dialled(c) \/ DialFails(c)
  PROVE  LinkInv'
<1> USE DEF LinkInv, LinkTyped, FailedConnectionNotCached
<1>1. /\ calls[c] \in Unsent /\ calls[c].cmd \in Commands
      /\ calls[c].phase # "wait" /\ calls[c] \in Call
  <2>1. calls[c].phase \in {"get", "dial"} /\ calls[c] \in Call
    BY DEF GetCached, StartDial, Dialled, DialFails
  <2> QED
    BY <2>1, CallPhases
<1>2. CASE GetCached(c)
  <2>1. cached \in Conns /\ calls' = [calls EXCEPT ![c] = Holding(calls[c].cmd, cached)]
    BY <1>2 DEF GetCached
  <2>2. UNCHANGED <<alive, pipe, cached, suspect>>
    BY <1>2 DEF GetCached
  <2>3. Holding(calls[c].cmd, cached) \in Call
    BY <1>1, <2>1, HoldingIsACall
  <2> QED
    BY <1>1, <2>1, <2>2, <2>3, CallChanges
<1>3. CASE StartDial(c)
  <2>1. [calls[c] EXCEPT !.phase = "dial"] \in Call
    BY <1>1 DEF Unsent, Call
  <2>2. calls' = [calls EXCEPT ![c] = [calls[c] EXCEPT !.phase = "dial"]]
    BY <1>3 DEF StartDial
  <2> QED
    BY <1>1, <1>3, <2>1, <2>2, CallChanges DEF StartDial
<1>4. CASE Dialled(c)
  <2>1. PICK n \in Conns : /\ alive' = alive \cup {n} /\ suspect' = suspect \ {n} /\ cached' = n
                           /\ calls' = [calls EXCEPT ![c] = Holding(calls[c].cmd, n)]
    BY <1>4 DEF Dialled
  <2>2. Holding(calls[c].cmd, n) \in Call /\ pipe' = pipe
    BY <1>1, <1>4, HoldingIsACall DEF Dialled
  <2> QED
    BY <1>1, <2>1, <2>2, CallChanges
<1>5. CASE DialFails(c)
  BY <1>1, <1>5, ReturnKeeps DEF DialFails
<1> QED
  BY <1>2, <1>3, <1>4, <1>5

LEMMA SendKeeps ==
  ASSUME LinkInv, NEW c \in Callers, Send(c)
  PROVE  LinkInv'
<1>1. PICK n \in Conns, cmd \in Commands : n = calls[c].conn /\ cmd = calls[c].cmd
  BY CallPhases DEF Send, LinkInv, LinkTyped
<1>2. /\ calls[c] \in Sending /\ calls[c].phase = "send" /\ calls[c].answer = NoAnswer
      /\ Len(pipe[n]) < MaxPipe
  BY <1>1, CallPhases DEF Send, LinkInv, LinkTyped
<1>3. PICK m : m = [caller |-> c, cmd |-> cmd] /\ m \in Queued /\ m.caller = c /\ m.cmd = cmd
  <2>1. [caller |-> c, cmd |-> cmd] \in Queued
    BY DEF Queued
  <2> QED
    BY <2>1
<1>4. /\ pipe' = [pipe EXCEPT ![n] = Append(@, m)]
      /\ calls' = [calls EXCEPT ![c] = [calls[c] EXCEPT !.phase = "wait"]]
      /\ UNCHANGED <<alive, cached, suspect>>
  BY <1>1, <1>3 DEF Send
<1>5. [calls[c] EXCEPT !.phase = "wait"] \in Call
  BY <1>2 DEF Sending, Waiting, Call
<1>6. /\ pipe[n] \in Seq(Queued) /\ Len(pipe[n]) \in Nat
      /\ Append(pipe[n], m) \in Seq(Queued) /\ Len(Append(pipe[n], m)) = Len(pipe[n]) + 1
      /\ Append(pipe[n], m)[Len(pipe[n]) + 1] = m
      /\ \A i \in 1..Len(pipe[n]) : Append(pipe[n], m)[i] = pipe[n][i]
  BY <1>3, QueuedTyped DEF LinkInv
<1>7. LinkTyped'
  BY <1>2, <1>4, <1>5, <1>6 DEF LinkInv, LinkTyped
<1>8. \A o \in Conns : \A i \in 1..Len(pipe[o]) : pipe[o][i].caller # c
  BY <1>2 DEF LinkInv, AnswersFindTheirCall, WaitsFor
<1>9. AnswersFindTheirCall'
  <2> SUFFICES ASSUME NEW o \in Conns, NEW i \in 1..Len(pipe'[o]), NEW d \in Callers,
                      pipe'[o][i].caller = d
               PROVE  /\ WaitsFor(d, o, i)'
                      /\ \A j \in 1..Len(pipe'[o]) : pipe'[o][j].caller = d => j = i
    BY DEF AnswersFindTheirCall
  <2>1. CASE o # n
    <3>1. pipe'[o] = pipe[o]
      BY <1>4, <2>1 DEF LinkInv, LinkTyped
    <3>2. d # c /\ calls'[d] = calls[d]
      BY <1>4, <1>8, <3>1 DEF LinkInv, LinkTyped
    <3> QED
      BY <3>1, <3>2 DEF LinkInv, AnswersFindTheirCall, WaitsFor
  <2>2. CASE o = n
    <3>1. pipe'[o] = Append(pipe[n], m) /\ Len(pipe'[o]) = Len(pipe[n]) + 1
      BY <1>4, <1>6, <2>2 DEF LinkInv, LinkTyped
    <3>2. CASE i = Len(pipe[n]) + 1
      <4>1. d = c
        BY <1>3, <1>6, <3>1, <3>2
      <4>2. /\ calls'[c].phase = "wait" /\ calls'[c].conn = n
            /\ calls'[c].cmd = cmd /\ calls'[c].answer = calls[c].answer
        BY <1>1, <1>2, <1>4 DEF LinkInv, LinkTyped, Sending
      <4>3. \A j \in 1..Len(pipe[n]) : pipe'[o][j] = pipe[n][j]
        BY <1>6, <3>1
      <4>4. \A j \in 1..Len(pipe'[o]) : pipe'[o][j].caller = d => j = i
        BY <1>6, <1>8, <3>1, <3>2, <4>1, <4>3
      <4>5. pipe'[o][i].cmd = cmd
        BY <1>3, <1>6, <3>1, <3>2
      <4> QED
        BY <1>2, <2>2, <4>1, <4>2, <4>4, <4>5 DEF WaitsFor
    <3>3. CASE i # Len(pipe[n]) + 1
      <4>1. i \in 1..Len(pipe[n]) /\ pipe'[o][i] = pipe[n][i]
        BY <1>6, <3>1, <3>3
      <4>2. d # c /\ calls'[d] = calls[d]
        BY <1>4, <1>8, <4>1 DEF LinkInv, LinkTyped
      <4>3. WaitsFor(d, n, i) /\ \A j \in 1..Len(pipe[n]) : pipe[n][j].caller = d => j = i
        BY <4>1 DEF LinkInv, AnswersFindTheirCall
      <4>4. \A j \in 1..Len(pipe'[o]) : pipe'[o][j].caller = d => j = i
        BY <1>3, <1>6, <3>1, <4>2, <4>3
      <4> QED
        BY <2>2, <4>1, <4>2, <4>3, <4>4 DEF WaitsFor
    <3> QED
      BY <3>2, <3>3
  <2> QED
    BY <2>1, <2>2
<1> QED
  BY <1>4, <1>7, <1>9 DEF LinkInv, FailedConnectionNotCached

LEMMA FailedKeeps ==
  ASSUME LinkInv, NEW c \in Callers, Failed(c), calls[c].phase \in {"send", "wait"}
  PROVE  LinkInv'
<1>1. /\ cached' = NoConn /\ suspect' = suspect \cup {calls[c].conn} /\ alive' = alive
      /\ calls' = [calls EXCEPT ![c] = Idle]
  BY DEF Failed, clear_connection, Return
<1>2. ASSUME NEW n \in Conns
      PROVE  /\ pipe'[n] \in Seq(Queued) /\ Len(pipe'[n]) = Len(pipe[n])
             /\ \A i \in 1..Len(pipe[n]) :
                  /\ pipe'[n][i].cmd = pipe[n][i].cmd
                  /\ pipe'[n][i].caller = IF pipe[n][i].caller = c THEN Nobody ELSE pipe[n][i].caller
  <2>1. pipe'[n] = [i \in DOMAIN pipe[n] |->
                      IF pipe[n][i].caller = c THEN [pipe[n][i] EXCEPT !.caller = Nobody]
                                               ELSE pipe[n][i]]
    BY DEF Failed, Abandon
  <2>2. PICK s, t : s = pipe[n] /\ t = pipe'[n]
    OBVIOUS
  <2>3. s \in Seq(Queued) /\ DOMAIN s = 1..Len(s)
    BY <2>2, QueuedTyped, LenProperties DEF LinkInv
  <2>4. ASSUME NEW i \in 1..Len(s)
        PROVE  /\ t[i] \in Queued /\ t[i].cmd = s[i].cmd
               /\ t[i].caller = IF s[i].caller = c THEN Nobody ELSE s[i].caller
    <3>1. t[i] = IF s[i].caller = c THEN [s[i] EXCEPT !.caller = Nobody] ELSE s[i]
      BY <2>1, <2>2, <2>3
    <3>2. s[i] \in Queued
      BY <2>3, ElementOfSeq
    <3> QED
      BY <3>1, <3>2 DEF Queued
  <2>5. t \in [1..Len(s) -> Queued]
    <3>1. t = [i \in 1..Len(s) |-> t[i]]
      BY <2>1, <2>2, <2>3
    <3> QED
      BY <2>4, <3>1
  <2>6. Len(s) \in Nat
    BY <2>3, LenProperties
  <2>7. t \in Seq(Queued) /\ Len(t) = Len(s)
    <3>1. t \in Seq(Queued)
      BY <2>5, <2>6, SeqDef
    <3> QED
      BY <2>5, <2>6, <3>1, LenProperties
  <2> QED
    BY <2>2, <2>4, <2>7
<1>3. LinkTyped'
  <2>1. pipe' \in [Conns -> Seq(Queued)]
    <3>1. pipe' = [n \in Conns |-> pipe'[n]]
      BY DEF Failed, Abandon
    <3> QED
      BY <1>2, <3>1
  <2>2. calls[c].conn \in Conns
    BY CallPhases DEF LinkInv, LinkTyped
  <2>3. calls' \in [Callers -> Call]
    BY <1>1, IdleIsACall DEF LinkInv, LinkTyped
  <2> QED
    BY <1>1, <1>2, <2>1, <2>2, <2>3 DEF LinkInv, LinkTyped
<1>4. AnswersFindTheirCall'
  <2> SUFFICES ASSUME NEW n \in Conns, NEW i \in 1..Len(pipe'[n]), NEW d \in Callers,
                      pipe'[n][i].caller = d
               PROVE  /\ WaitsFor(d, n, i)'
                      /\ \A j \in 1..Len(pipe'[n]) : pipe'[n][j].caller = d => j = i
    BY DEF AnswersFindTheirCall
  <2>1. i \in 1..Len(pipe[n]) /\ pipe[n][i].caller = d /\ d # c
    BY <1>2
  <2>2. WaitsFor(d, n, i) /\ \A j \in 1..Len(pipe[n]) : pipe[n][j].caller = d => j = i
    BY <2>1 DEF LinkInv, AnswersFindTheirCall
  <2>3. calls'[d] = calls[d]
    BY <1>1, <2>1 DEF LinkInv, LinkTyped
  <2> QED
    BY <1>2, <2>1, <2>2, <2>3 DEF WaitsFor
<1> QED
  BY <1>1, <1>3, <1>4 DEF LinkInv, LinkTyped, FailedConnectionNotCached

LEMMA ConsumeKeeps ==
  ASSUME LinkInv, NEW n \in Conns, pipe[n] # <<>>, NEW answer \in Answers \cup {ErrorReply},
         Consume(n, answer)
  PROVE  LinkInv'
<1>1. /\ pipe[n] \in Seq(Queued) /\ Len(pipe[n]) \in 1..MaxPipe
      /\ Tail(pipe[n]) \in Seq(Queued) /\ Len(Tail(pipe[n])) = Len(pipe[n]) - 1
      /\ \A i \in 1..Len(pipe[n]) - 1 : Tail(pipe[n])[i] = pipe[n][i + 1]
  BY QueuedTyped, EmptySeq, HeadTailProperties DEF LinkInv
<1>2. PICK m : m = Head(pipe[n]) /\ m = pipe[n][1]
  BY <1>1
<1>3. /\ pipe' = [pipe EXCEPT ![n] = Tail(@)]
      /\ UNCHANGED <<alive, cached, suspect>>
      /\ calls' = [c \in Callers |-> IF c = m.caller /\ n \in alive
                                       THEN [calls[c] EXCEPT !.answer = answer] ELSE calls[c]]
  BY <1>2 DEF Consume
<1>4. ASSUME NEW c \in Callers, c = m.caller
      PROVE  /\ calls[c] \in Waiting
             /\ \A j \in 1..Len(pipe[n]) : pipe[n][j].caller = c => j = 1
  <2>1. calls[c].phase = "wait"
    BY <1>1, <1>2, <1>4 DEF LinkInv, AnswersFindTheirCall, WaitsFor
  <2>2. calls[c] \in Waiting
    BY <2>1, CallPhases DEF LinkInv, LinkTyped
  <2> QED
    BY <1>1, <1>2, <1>4, <2>2 DEF LinkInv, AnswersFindTheirCall
<1>5. LinkTyped'
  <2>1. ASSUME NEW c \in Callers PROVE calls'[c] \in Call
    <3>1. CASE c = m.caller /\ n \in alive
      <4>1. calls'[c] = [calls[c] EXCEPT !.answer = answer]
        BY <1>3, <3>1
      <4>2. [calls[c] EXCEPT !.answer = answer] \in Waiting
        BY <1>4, <3>1 DEF Waiting
      <4> QED
        BY <4>1, <4>2 DEF Call
    <3>2. CASE ~(c = m.caller /\ n \in alive)
      BY <1>3, <3>2 DEF LinkInv, LinkTyped
    <3> QED
      BY <3>1, <3>2
  <2>2. calls' \in [Callers -> Call]
    BY <1>3, <2>1
  <2>3. pipe' \in [Conns -> Seq(Queued)] /\ \A o \in Conns : Len(pipe'[o]) <= MaxPipe
    BY <1>1, <1>3 DEF LinkInv, LinkTyped
  <2> QED
    BY <1>3, <2>2, <2>3 DEF LinkInv, LinkTyped
<1>6. AnswersFindTheirCall'
  <2> SUFFICES ASSUME NEW o \in Conns, NEW i \in 1..Len(pipe'[o]), NEW d \in Callers,
                      pipe'[o][i].caller = d
               PROVE  /\ WaitsFor(d, o, i)'
                      /\ \A j \in 1..Len(pipe'[o]) : pipe'[o][j].caller = d => j = i
    BY DEF AnswersFindTheirCall
  <2>1. CASE o # n
    <3>1. pipe'[o] = pipe[o]
      BY <1>3, <2>1 DEF LinkInv, LinkTyped
    <3>2. /\ WaitsFor(d, o, i)
          /\ \A j \in 1..Len(pipe[o]) : pipe[o][j].caller = d => j = i
      BY <3>1 DEF LinkInv, AnswersFindTheirCall
    <3>3. d # m.caller
      BY <1>1, <1>2, <2>1, <3>2 DEF LinkInv, AnswersFindTheirCall, WaitsFor
    <3>4. calls'[d] = calls[d]
      BY <1>3, <3>3
    <3> QED
      BY <3>1, <3>2, <3>4 DEF WaitsFor
  <2>2. CASE o = n
    <3>1. /\ pipe'[o] = Tail(pipe[n]) /\ i \in 1..Len(pipe[n]) - 1
          /\ pipe'[o][i] = pipe[n][i + 1] /\ i + 1 \in 1..Len(pipe[n])
      BY <1>1, <1>3, <2>2 DEF LinkInv, LinkTyped
    <3>2. /\ WaitsFor(d, n, i + 1)
          /\ \A j \in 1..Len(pipe[n]) : pipe[n][j].caller = d => j = i + 1
      BY <3>1 DEF LinkInv, AnswersFindTheirCall
    <3>3. d # m.caller
      BY <1>4, <3>1
    <3>4. calls'[d] = calls[d]
      BY <1>3, <3>3
    <3>5. \A j \in 1..Len(pipe'[o]) : pipe'[o][j].caller = d => j = i
      <4> SUFFICES ASSUME NEW j \in 1..Len(pipe'[o]), pipe'[o][j].caller = d PROVE j = i
        OBVIOUS
      <4>1. j + 1 \in 1..Len(pipe[n]) /\ pipe'[o][j] = pipe[n][j + 1]
        BY <1>1, <3>1
      <4> QED
        BY <3>1, <3>2, <4>1
    <3> QED
      BY <2>2, <3>1, <3>2, <3>4, <3>5 DEF WaitsFor
  <2> QED
    BY <2>1, <2>2
<1> QED
  BY <1>3, <1>5, <1>6 DEF LinkInv, FailedConnectionNotCached

LEMMA BreakKeeps ==
  ASSUME LinkInv, NEW n \in Conns, Break(n)
  PROVE  LinkInv'
<1>1. PICK received \in 0..Len(pipe[n]) : pipe' = [pipe EXCEPT ![n] = SubSeq(@, 1, received)]
  BY DEF Break
<1>2. /\ pipe[n] \in Seq(Queued) /\ Len(pipe[n]) \in 0..MaxPipe
      /\ \A i \in 1..Len(pipe[n]) : pipe[n][i] \in Queued
  BY QueuedTyped DEF LinkInv
<1>3. PICK rest : rest = SubSeq(pipe[n], 1, received)
  OBVIOUS
<1>4. /\ rest \in Seq(Queued) /\ Len(rest) = received
      /\ \A i \in 1..received : rest[i] = pipe[n][i]
  <2>1. /\ SubSeq(pipe[n], 1, received) \in Seq(Queued)
        /\ Len(SubSeq(pipe[n], 1, received)) = IF 1 <= received THEN received - 1 + 1 ELSE 0
        /\ \A i \in 1..received - 1 + 1 : SubSeq(pipe[n], 1, received)[i] = pipe[n][1 + i - 1]
    BY <1>2, SubSeqProperties
  <2> QED
    BY <1>2, <1>3, <2>1
<1>5. pipe' = [pipe EXCEPT ![n] = rest] /\ UNCHANGED <<cached, calls, suspect>> /\ alive' \subseteq alive
  BY <1>1, <1>3 DEF Break
<1>6. LinkTyped'
  BY <1>2, <1>4, <1>5 DEF LinkInv, LinkTyped
<1>7. AnswersFindTheirCall'
  <2>1. ASSUME NEW o \in Conns
        PROVE  /\ \A i \in 1..Len(pipe'[o]) : i \in 1..Len(pipe[o]) /\ pipe'[o][i] = pipe[o][i]
    BY <1>2, <1>4, <1>5 DEF LinkInv, LinkTyped
  <2> QED
    BY <1>5, <2>1 DEF LinkInv, AnswersFindTheirCall, WaitsFor
<1> QED
  BY <1>5, <1>6, <1>7 DEF LinkInv, FailedConnectionNotCached

LEMMA LinkStepKeeps ==
  ASSUME LinkInv, LinkStep
  PROVE  LinkInv'
<1>1. ASSUME NEW c \in Callers, ConnectionDropped(c) \/ CommandTimeout(c) PROVE LinkInv'
  BY <1>1, FailedKeeps DEF ConnectionDropped, CommandTimeout
<1>2. ASSUME NEW n \in Conns, Refuse(n) PROVE LinkInv'
  BY <1>2, ConsumeKeeps DEF Refuse
<1> QED
  BY <1>1, <1>2, ConnectKeeps, SendKeeps, BreakKeeps DEF LinkStep

LEMMA LinkInitial == LinkInit => LinkInv
<1> SUFFICES ASSUME LinkInit PROVE LinkInv
  OBVIOUS
<1>1. \A n \in Conns : pipe[n] = <<>>
  BY DEF LinkInit
<1>2. LinkTyped
  BY EmptySeq, IdleIsACall DEF LinkInit, LinkTyped
<1>3. AnswersFindTheirCall
  BY <1>1, EmptySeq DEF AnswersFindTheirCall
<1> QED
  BY <1>2, <1>3 DEF LinkInit, LinkInv, FailedConnectionNotCached

-----------------------------------------------------------------------------
(* The server.                                                             *)
USE RedisAssumption

Value == Entry \cup {Absent, Foreign}
Held == [caller : Callers, expires_at : Instants]

ServerTyped ==
  /\ clock \in 0..MaxTime
  /\ db \in [Keys -> Value]
  /\ grants \in [Keys -> SUBSET Held]
  /\ told \subseteq Keys

(* A grant is the only one, and the entry it was given for is still there. *)
GrantsAreBacked ==
  \A k \in Keys : \A g \in grants[k] :
    /\ \A h \in grants[k] : h = g
    /\ Live(k) /\ db[k].state \in {"marker", "pending"}
    /\ db[k].expires_at = g.expires_at

ServerInv == ServerTyped /\ GrantsAreBacked

LEMMA Values ==
  /\ \A v \in Value : v.expires_at \in Instants /\ v.expires_at \in Nat
  /\ Absent \notin Entry /\ Absent # Foreign /\ Absent.expires_at = 0
  /\ \A v \in Value : v # Absent /\ v.state # "foreign"
       => v \in Entry /\ v.state \in {"marker", "pending", "completed"}
BY DEF Value, Entry, Absent, Foreign, Instants

(* The deadline that SET EX gives a key. *)
LEMMA Deadline ==
  ASSUME ServerTyped, NEW ttl \in TTLs
  PROVE  /\ clock + Second * ttl_secs_ceil(ttl) \in 1..MaxInstant
         /\ clock + Second * ttl_secs_ceil(ttl) > clock
<1>1. PICK secs \in Nat \ {0} : secs = ttl_secs_ceil(ttl)
  BY SecondsCoverTTL
<1>2. PICK ticks \in Nat \ {0} : ticks = Second * secs
  <2>1. Second * secs \in Nat \ {0}
    BY <1>1
  <2> QED
    BY <2>1
<1>3. clock \in 0..MaxTime /\ MaxTime + ticks <= MaxInstant
  BY <1>1, <1>2 DEF ServerTyped
<1> QED
  BY <1>1, <1>2, <1>3

LEMMA SetKey ==
  ASSUME ServerInv, NEW k \in Keys, NEW ttl \in TTLs, NEW kind \in {"marker", "pending", "completed"},
         SetEX(k, kind, ttl), UNCHANGED clock
  PROVE  /\ db' \in [Keys -> Value]
         /\ \A o \in Keys \ {k} : db'[o] = db[o] /\ LiveClaims'[o] = LiveClaims[o]
         /\ db'[k] \in Entry /\ LiveClaims'[k] = db'[k]
         /\ \E at \in 1..MaxInstant : /\ at > clock /\ at \in Instants
                                      /\ db'[k] = [state |-> kind, expires_at |-> at]
<1>1. PICK at : at = clock + Second * ttl_secs_ceil(ttl)
  OBVIOUS
<1>2. at \in 1..MaxInstant /\ at > clock /\ at \in Instants
  BY <1>1, Deadline DEF ServerInv, Instants
<1>3. PICK entry \in Entry : /\ entry = [state |-> kind, expires_at |-> at]
                             /\ entry.state = kind /\ entry.expires_at = at
  <2>1. [state |-> kind, expires_at |-> at] \in Entry
    BY <1>2 DEF Entry
  <2> QED
    BY <2>1
<1>4. db' = [db EXCEPT ![k] = entry]
  BY <1>1, <1>3 DEF SetEX
<1>5. db' \in [Keys -> Value] /\ db'[k] = entry /\ \A o \in Keys \ {k} : db'[o] = db[o]
  BY <1>4 DEF ServerInv, ServerTyped, Value
<1>6. ASSUME NEW o \in Keys
      PROVE  LiveClaims'[o] = IF o = k THEN entry ELSE LiveClaims[o]
  <2>1. LiveClaims'[o] = IF db'[o] # Absent /\ db'[o].expires_at > clock' /\ db'[o].state # "foreign"
                           THEN db'[o] ELSE Absent
    BY DEF LiveClaims, Live
  <2>2. LiveClaims[o] = IF db[o] # Absent /\ db[o].expires_at > clock /\ db[o].state # "foreign"
                          THEN db[o] ELSE Absent
    BY DEF LiveClaims, Live
  <2>3. entry # Absent
    BY Values
  <2> QED
    BY <1>2, <1>3, <1>5, <2>1, <2>2, <2>3
<1> QED
  BY <1>2, <1>3, <1>5, <1>6

(* Claims that differ in one key. *)
LEMMA OneClaimChanges ==
  ASSUME NEW k \in Keys, NEW claim, LiveClaims'[k] = claim,
         \A o \in Keys \ {k} : LiveClaims'[o] = LiveClaims[o]
  PROVE  LiveClaims' = [LiveClaims EXCEPT ![k] = claim]
<1>1. LiveClaims = [o \in Keys |-> LiveClaims[o]] /\ LiveClaims' = [o \in Keys |-> LiveClaims'[o]]
  BY DEF LiveClaims
<1> QED
  BY <1>1

(* A key that nobody has is granted. *)
LEMMA GrantKeeps ==
  ASSUME ServerInv, NEW c \in Callers, NEW k \in Keys, NEW ttl \in TTLs,
         NEW kind \in {"marker", "pending", "completed"}, kind # "completed",
         ~Live(k), SetEX(k, kind, ttl), GrantTo(c, k), UNCHANGED clock
  PROVE  ServerInv' /\ Claims!ClaimsNext
<1>0. /\ db' \in [Keys -> Value]
      /\ \A o \in Keys \ {k} : db'[o] = db[o] /\ LiveClaims'[o] = LiveClaims[o]
      /\ db'[k] \in Entry /\ LiveClaims'[k] = db'[k]
  BY SetKey
<1>1. PICK at \in 1..MaxInstant, entry \in Entry :
        /\ at > clock /\ at \in Instants
        /\ entry = [state |-> kind, expires_at |-> at]
        /\ entry.state = kind /\ entry.expires_at = at
        /\ db'[k] = entry /\ LiveClaims'[k] = entry
  <2>1. PICK at \in 1..MaxInstant : /\ at > clock /\ at \in Instants
                                    /\ db'[k] = [state |-> kind, expires_at |-> at]
    BY SetKey
  <2> QED
    BY <1>0, <2>1
<1>2. grants[k] = {}
  BY DEF ServerInv, ServerTyped, GrantsAreBacked
<1>3. PICK grant : /\ grant = [caller |-> c, expires_at |-> at] /\ grant \in Held
                   /\ grant.caller = c /\ grant.expires_at = at
  <2>1. [caller |-> c, expires_at |-> at] \in Held
    BY <1>1 DEF Held
  <2> QED
    BY <2>1
<1>4. grants' = [grants EXCEPT ![k] = {grant}] /\ told' \subseteq Keys
  <2>1. db'[k].expires_at = at
    BY <1>1
  <2>2. grants' = [grants EXCEPT ![k] = grants[k] \cup {grant}]
    BY <1>3, <2>1 DEF GrantTo
  <2> QED
    BY <1>2, <2>2 DEF GrantTo, ServerInv, ServerTyped
<1>5. ServerTyped'
  BY <1>0, <1>3, <1>4 DEF ServerInv, ServerTyped
<1>6. GrantsAreBacked'
  <2> SUFFICES ASSUME NEW o \in Keys, NEW g \in grants'[o]
               PROVE  /\ \A h \in grants'[o] : h = g
                      /\ Live(o)' /\ db'[o].state \in {"marker", "pending"}
                      /\ db'[o].expires_at = g.expires_at
    BY DEF GrantsAreBacked
  <2>1. CASE o = k
    <3>1. grants'[o] = {grant} /\ g = grant
      BY <1>4, <2>1 DEF ServerInv, ServerTyped
    <3>2. Live(o)'
      BY <1>1, <2>1, Values DEF Live, Absent
    <3> QED
      BY <1>1, <1>3, <2>1, <3>1, <3>2
  <2>2. CASE o # k
    <3>1. grants'[o] = grants[o] /\ db'[o] = db[o] /\ (Live(o)' <=> Live(o))
      BY <1>0, <1>4, <2>2 DEF ServerInv, ServerTyped, Live
    <3> QED
      BY <3>1 DEF ServerInv, GrantsAreBacked
  <2> QED
    BY <2>1, <2>2
<1>7. Claims!GrantKey(c, k, kind, at)
  <2>1. LiveClaims[k] = Absent
    BY DEF LiveClaims
  <2>2. LiveClaims' = [LiveClaims EXCEPT ![k] = entry]
    BY <1>0, <1>1, OneClaimChanges
  <2> QED
    BY <1>1, <1>3, <1>4, <2>1, <2>2 DEF Claims!GrantKey, Claims!ClaimUntil, Claims!Absent, Absent
<1> QED
  BY <1>1, <1>5, <1>6, <1>7 DEF Claims!ClaimsNext, ServerInv

(* A key that is completed, or deleted, is granted to nobody. *)
LEMMA ReleasedKeeps ==
  ASSUME ServerInv, NEW k \in Keys, db' \in [Keys -> Value], \A o \in Keys \ {k} : db'[o] = db[o],
         Released(k), UNCHANGED clock
  PROVE  ServerInv'
<1>1. grants' = [grants EXCEPT ![k] = {}] /\ told' = told
  BY DEF Released
<1>2. ServerTyped'
  BY <1>1 DEF ServerInv, ServerTyped
<1>3. GrantsAreBacked'
  <2> SUFFICES ASSUME NEW o \in Keys, NEW g \in grants'[o]
               PROVE  /\ \A h \in grants'[o] : h = g
                      /\ Live(o)' /\ db'[o].state \in {"marker", "pending"}
                      /\ db'[o].expires_at = g.expires_at
    BY DEF GrantsAreBacked
  <2>1. o # k /\ grants'[o] = grants[o]
    BY <1>1 DEF ServerInv, ServerTyped
  <2>2. db'[o] = db[o] /\ (Live(o)' <=> Live(o))
    BY <2>1 DEF Live
  <2> QED
    BY <2>1, <2>2 DEF ServerInv, GrantsAreBacked
<1> QED
  BY <1>2, <1>3 DEF ServerInv

LEMMA CompletedKeeps ==
  ASSUME ServerInv, NEW cmd \in Commands, NEW answer, ExecMarkCompleted(cmd, answer), UNCHANGED clock
  PROVE  ServerInv' /\ Claims!ClaimsNext
<1>1. cmd.key \in Keys /\ cmd.ttl \in TTLs
  OBVIOUS
<1>2. SetEX(cmd.key, "completed", cmd.ttl) /\ Released(cmd.key)
  BY DEF ExecMarkCompleted
<1>3. PICK k \in Keys, ttl \in TTLs : k = cmd.key /\ ttl = cmd.ttl
  BY <1>1
<1>4. /\ db' \in [Keys -> Value]
      /\ \A o \in Keys \ {k} : db'[o] = db[o] /\ LiveClaims'[o] = LiveClaims[o]
      /\ \E at \in 1..MaxInstant : /\ at > clock
                                   /\ LiveClaims'[k] = [state |-> "completed", expires_at |-> at]
  BY <1>2, <1>3, SetKey
<1>5. PICK at \in 1..MaxInstant : Claims!CompleteKey(k, at)
  <2>1. PICK at \in 1..MaxInstant :
          at > clock /\ LiveClaims'[k] = [state |-> "completed", expires_at |-> at]
    BY <1>4
  <2>2. PICK claim : claim = [state |-> "completed", expires_at |-> at]
    OBVIOUS
  <2>3. LiveClaims' = [LiveClaims EXCEPT ![k] = claim]
    BY <1>4, <2>1, <2>2, OneClaimChanges
  <2> QED
    BY <1>2, <1>3, <2>1, <2>2, <2>3 DEF Claims!CompleteKey, Claims!ClaimUntil, Released
<1>6. Claims!ClaimsNext
  BY <1>5 DEF Claims!ClaimsNext
<1> QED
  BY <1>2, <1>3, <1>4, <1>6, ReleasedKeeps

LEMMA DeletedKeeps ==
  ASSUME ServerInv, NEW cmd \in Commands, NEW answer, ExecDelete(cmd, answer), UNCHANGED clock
  PROVE  ServerInv' /\ Claims!ClaimsNext
<1>1. PICK k \in Keys : k = cmd.key
  OBVIOUS
<1>2. /\ db' = [db EXCEPT ![k] = Absent] /\ Released(k)
      /\ grants' = [grants EXCEPT ![k] = {}]
  BY <1>1 DEF ExecDelete, Released
<1>3. db' \in [Keys -> Value] /\ db'[k] = Absent /\ \A o \in Keys \ {k} : db'[o] = db[o]
  BY <1>2 DEF ServerInv, ServerTyped, Value
<1>4. LiveClaims' = [LiveClaims EXCEPT ![k] = Absent]
  <2>1. LiveClaims'[k] = Absent /\ \A o \in Keys \ {k} : LiveClaims'[o] = LiveClaims[o]
    BY <1>3 DEF LiveClaims, Live
  <2> QED
    BY <2>1, OneClaimChanges
<1>5. Claims!ReleaseKey(k)
  BY <1>2, <1>4 DEF Claims!ReleaseKey, Claims!Absent, Absent
<1>6. Claims!ClaimsNext
  BY <1>5 DEF Claims!ClaimsNext
<1> QED
  BY <1>2, <1>3, <1>6, ReleasedKeeps

LEMMA SameServerKeeps ==
  ASSUME ServerInv, UNCHANGED <<clock, db, grants>>, told' \subseteq Keys
  PROVE  ServerInv' /\ UNCHANGED Claims!claimsVars
BY DEF ServerInv, ServerTyped, GrantsAreBacked, Live, LiveClaims, Claims!claimsVars

LEMMA ExecKeeps ==
  ASSUME ServerInv, NEW cmd \in Commands, NEW answer \in Answers, Exec(cmd, answer), UNCHANGED clock
  PROVE  ServerInv' /\ (Claims!ClaimsNext \/ UNCHANGED Claims!claimsVars)
<1>1. cmd.key \in Keys /\ cmd.ttl \in TTLs /\ cmd.by \in Callers
  OBVIOUS
<1>2. CASE UNCHANGED <<db, grants, told>>
  BY <1>2, SameServerKeeps DEF ServerInv, ServerTyped
<1>3. ASSUME NEW kind \in {"marker", "pending"}, ~Live(cmd.key),
             SetEX(cmd.key, kind, cmd.ttl), GrantTo(cmd.by, cmd.key)
      PROVE  ServerInv' /\ Claims!ClaimsNext
  BY <1>1, <1>3, GrantKeeps
<1>4. CASE ExecSetOnce(cmd, answer)
  BY <1>2, <1>3, <1>4 DEF ExecSetOnce
<1>5. CASE ExecClaimPending(cmd, answer)
  BY <1>2, <1>3, <1>5 DEF ExecClaimPending
<1> QED
  BY <1>2, <1>4, <1>5, CompletedKeeps, DeletedKeeps DEF Exec, ExecExists, ExecPing

LEMMA TickKeeps ==
  ASSUME ServerInv, Tick
  PROVE  ServerInv' /\ Claims!ClaimsNext
<1>1. /\ clock \in Nat /\ clock < MaxTime /\ clock' = clock + 1 /\ clock' \in 0..MaxTime
      /\ grants' = [k \in Keys |-> {g \in grants[k] : g.expires_at > clock'}] /\ told' = told
  BY DEF Tick, ServerInv, ServerTyped
<1>2. ASSUME NEW k \in Keys
      PROVE  /\ db'[k] = IF db[k].expires_at > clock' \/ db[k] = Foreign THEN db[k] ELSE Absent
             /\ db[k] \in Value /\ db'[k] \in Value
  <2>1. db[k] \in Value
    BY DEF ServerInv, ServerTyped
  <2> QED
    BY <2>1 DEF Tick, Value
<1>3. ServerTyped'
  <2>1. db' = [k \in Keys |-> db'[k]]
    BY DEF Tick
  <2>2. grants' \in [Keys -> SUBSET Held]
    BY <1>1 DEF ServerInv, ServerTyped
  <2> QED
    BY <1>1, <1>2, <2>1, <2>2 DEF ServerInv, ServerTyped
<1>4. GrantsAreBacked'
  <2> SUFFICES ASSUME NEW k \in Keys, NEW g \in grants'[k]
               PROVE  /\ \A h \in grants'[k] : h = g
                      /\ Live(k)' /\ db'[k].state \in {"marker", "pending"}
                      /\ db'[k].expires_at = g.expires_at
    BY DEF GrantsAreBacked
  <2>1. g \in grants[k] /\ g.expires_at > clock' /\ grants'[k] \subseteq grants[k]
    BY <1>1
  <2>2. /\ \A h \in grants[k] : h = g
        /\ Live(k) /\ db[k].state \in {"marker", "pending"} /\ db[k].expires_at = g.expires_at
    BY <2>1 DEF ServerInv, GrantsAreBacked
  <2>3. db'[k] = db[k] /\ Live(k)'
    BY <1>2, <2>1, <2>2 DEF Live
  <2> QED
    BY <2>1, <2>2, <2>3
<1>5. LiveClaims' = [k \in Keys |-> IF LiveClaims[k].expires_at > clock' THEN LiveClaims[k] ELSE Absent]
  <2>1. ASSUME NEW k \in Keys
        PROVE  LiveClaims'[k] = IF LiveClaims[k].expires_at > clock' THEN LiveClaims[k] ELSE Absent
    <3>1. /\ LiveClaims'[k] = IF db'[k] # Absent /\ db'[k].expires_at > clock' /\ db'[k].state # "foreign"
                                THEN db'[k] ELSE Absent
          /\ LiveClaims[k] = IF db[k] # Absent /\ db[k].expires_at > clock /\ db[k].state # "foreign"
                               THEN db[k] ELSE Absent
      BY DEF LiveClaims, Live
    <3>2. db[k].expires_at \in Nat /\ Absent.expires_at = 0 /\ Foreign.state = "foreign"
      BY <1>2, Values DEF Foreign
    <3>3. CASE db[k].expires_at > clock' \/ db[k] = Foreign
      <4>1. db'[k] = db[k]
        BY <1>2, <3>3
      <4> QED
        BY <1>1, <3>1, <3>2, <3>3, <4>1
    <3>4. CASE ~(db[k].expires_at > clock') /\ db[k] # Foreign
      <4>1. db'[k] = Absent
        BY <1>2, <3>4
      <4> QED
        BY <1>1, <3>1, <3>2, <3>4, <4>1
    <3> QED
      BY <3>3, <3>4
  <2>2. LiveClaims' = [k \in Keys |-> LiveClaims'[k]]
    BY DEF LiveClaims
  <2> QED
    BY <2>1, <2>2
<1>6. Claims!Expire
  BY <1>1, <1>5 DEF Claims!Expire, Claims!Absent, Absent
<1> QED
  BY <1>3, <1>4, <1>6 DEF ServerInv, Claims!ClaimsNext

-----------------------------------------------------------------------------
RedisInv == LinkInv /\ ServerInv

LEMMA RedisInitial == Init => RedisInv /\ Claims!ClaimsInit
<1> SUFFICES ASSUME Init PROVE RedisInv /\ Claims!ClaimsInit
  OBVIOUS
<1>1. ServerInv
  BY DEF Init, ServerInv, ServerTyped, GrantsAreBacked, Value
<1>2. LiveClaims = [k \in Keys |-> Absent]
  BY DEF Init, LiveClaims, Absent, Foreign
<1>3. Claims!ClaimsInit
  BY <1>2 DEF Init, Claims!ClaimsInit, Claims!Absent, Absent
<1>4. LinkInv
  BY LinkInitial DEF Init
<1> QED
  BY <1>1, <1>3, <1>4 DEF RedisInv

(* What a step does to the invariant and to the claims. *)
LEMMA RedisStep ==
  RedisInv /\ [Next]_vars => RedisInv' /\ (Claims!ClaimsNext \/ UNCHANGED Claims!claimsVars)
<1> SUFFICES ASSUME RedisInv, [Next]_vars
             PROVE  RedisInv' /\ (Claims!ClaimsNext \/ UNCHANGED Claims!claimsVars)
  OBVIOUS
<1>0. LinkInv /\ ServerInv /\ told \subseteq Keys
  BY DEF RedisInv, ServerInv, ServerTyped
<1>1. ASSUME LinkInv', UNCHANGED <<clock, db, grants>>, told' \subseteq Keys
      PROVE  RedisInv' /\ UNCHANGED Claims!claimsVars
  BY <1>0, <1>1, SameServerKeeps DEF RedisInv
<1>2. ASSUME NEW c \in Callers, BeginOp(c) PROVE RedisInv' /\ UNCHANGED Claims!claimsVars
  BY <1>0, <1>1, <1>2, BeginKeeps DEF BeginOp, server
<1>3. ASSUME NEW c \in Callers, Outcome(c) PROVE RedisInv' /\ UNCHANGED Claims!claimsVars
  <2>1. LinkInv'
    BY <1>0, <1>3, ReturnKeeps DEF Outcome, Answered
  <2>2. calls[c].phase = "wait" /\ calls[c].cmd \in Commands
    BY <1>0, <1>3, CallPhases DEF Outcome, Answered, LinkInv, LinkTyped
  <2>3. told' \subseteq Keys
    BY <1>0, <1>3, <2>2 DEF Outcome
  <2> QED
    BY <1>1, <1>3, <2>1, <2>3 DEF Outcome
<1>4. ASSUME NEW c \in Callers, redis_error(c) PROVE RedisInv' /\ UNCHANGED Claims!claimsVars
  <2>1. LinkInv'
    BY <1>0, <1>4, ReturnKeeps DEF redis_error, Refused, ErrorReply, NoAnswer
  <2> QED
    BY <1>0, <1>1, <1>4, <2>1 DEF redis_error, server
<1>5. CASE Link
  BY <1>0, <1>1, <1>5, LinkStepKeeps DEF Link, server
<1>6. ASSUME NEW n \in Conns, Execute(n)
      PROVE  RedisInv' /\ (Claims!ClaimsNext \/ UNCHANGED Claims!claimsVars)
  <2>1. PICK answer \in Answers : Exec(Head(pipe[n]).cmd, answer) /\ Consume(n, answer)
    BY <1>6 DEF Execute
  <2>2. pipe[n] # <<>> /\ UNCHANGED clock
    BY <1>6 DEF Execute
  <2>3. Head(pipe[n]) \in Queued
    BY <1>0, <2>2, QueuedTyped, HeadTailProperties DEF LinkInv
  <2>4. PICK cmd \in Commands : cmd = Head(pipe[n]).cmd
    BY <2>3 DEF Queued
  <2>5. LinkInv'
    BY <1>0, <2>1, <2>2, ConsumeKeeps
  <2> QED
    BY <1>0, <2>1, <2>2, <2>4, <2>5, ExecKeeps DEF RedisInv
<1>7. CASE Tick
  <2>1. LinkInv'
    BY <1>0, <1>7 DEF Tick, linkVars, LinkInv, LinkTyped, AnswersFindTheirCall, WaitsFor,
                      FailedConnectionNotCached
  <2> QED
    BY <1>0, <1>7, <2>1, TickKeeps DEF RedisInv
<1>8. CASE UNCHANGED vars
  <2>1. UNCHANGED <<server, linkVars>>
    BY <1>8 DEF vars
  <2>2. LinkInv'
    BY <1>0, <2>1 DEF linkVars, LinkInv, LinkTyped, AnswersFindTheirCall, WaitsFor,
                      FailedConnectionNotCached
  <2> QED
    BY <1>0, <1>1, <2>1, <2>2 DEF server
<1> QED
  BY <1>2, <1>3, <1>4, <1>5, <1>6, <1>7, <1>8 DEF Next

LEMMA AlwaysRedisInv == Spec => []RedisInv
BY RedisInitial, RedisStep, PTL DEF Spec

(***************************************************************************)
(* RedisIdempotencyStore implements IdempotencyClaims for any number of    *)
(* callers and connections: whatever times out, is executed late or is     *)
(* lost with a link, the server's live keys change by grants, completions, *)
(* releases and the passing of time only.                                  *)
(***************************************************************************)
THEOREM RedisImplementsClaims == Spec => ImplementsClaims
<1>1. RedisInv /\ [Next]_vars => [Claims!ClaimsNext]_Claims!claimsVars
  BY RedisStep
<1> QED
  BY <1>1, RedisInitial, AlwaysRedisInv, PTL DEF Spec, ImplementsClaims, Claims!ClaimsSpec

(***************************************************************************)
(* Exclusive work on Redis: claim_pending and set_once give a key to one   *)
(* caller at a time, and the entry it was given stands until it ends, is   *)
(* completed or is deleted.                                                *)
(***************************************************************************)
THEOREM RedisWorkIsExclusive == Spec => []AtMostOneLiveGrant
<1>1. RedisInv => AtMostOneLiveGrant
  BY DEF RedisInv, ServerInv, GrantsAreBacked, AtMostOneLiveGrant, Claims!Exclusive, LiveClaims
<1> QED
  BY <1>1, AlwaysRedisInv, PTL

(***************************************************************************)
(* clear_connection and get_connection never leave a connection cached     *)
(* that a caller saw fail, however many callers dial and fail at a time.   *)
(***************************************************************************)
THEOREM FailedConnectionsStayOut == Spec => []FailedConnectionNotCached
BY AlwaysRedisInv, PTL DEF RedisInv, LinkInv

(***************************************************************************)
(* A late answer reaches nobody but the call that asked for it: once a     *)
(* caller has given up on a command, whatever it does next waits for       *)
(* another one.                                                            *)
(***************************************************************************)
THEOREM AnswersAreForTheirCall == Spec => []AnswersFindTheirCall
BY AlwaysRedisInv, PTL DEF RedisInv, LinkInv

(***************************************************************************)
(* Type correctness of the store, its link and the server it talks to.     *)
(***************************************************************************)
THEOREM RedisTypeCorrect == Spec => []TypeOK
<1>1. RedisInv => TypeOK
  <2> SUFFICES ASSUME RedisInv PROVE TypeOK
    OBVIOUS
  <2>1. LinkTyped /\ ServerTyped
    BY DEF RedisInv, LinkInv, ServerInv
  <2>2. ASSUME NEW n \in Conns PROVE pipe[n] \in BoundedSeq(Queued, MaxPipe)
    <3>1. pipe[n] \in Seq(Queued) /\ Len(pipe[n]) \in 0..MaxPipe
      BY <2>1, QueuedTyped
    <3>2. pipe[n] \in [1..Len(pipe[n]) -> Queued]
      BY <3>1, LenProperties
    <3> QED
      BY <3>1, <3>2 DEF BoundedSeq, SeqOf
  <2>3. pipe \in [Conns -> BoundedSeq(Queued, MaxPipe)]
    BY <2>1, <2>2 DEF LinkTyped
  <2>4. calls \in [Callers -> {Idle} \cup Unsent \cup
                    [phase : {"send", "wait"}, cmd : Commands, conn : Conns,
                     answer : Answers \cup {NoAnswer, ErrorReply}]]
    BY <2>1 DEF LinkTyped, Call, Sending, Waiting
  <2> QED
    BY <2>1, <2>3, <2>4 DEF TypeOK, LinkTypeOK, LinkTyped, ServerTyped, Value, Held
<1> QED
  BY <1>1, AlwaysRedisInv, PTL
=============================================================================
