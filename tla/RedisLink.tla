----------------------------- MODULE RedisLink -----------------------------
(***************************************************************************)
(* How the Redis stores of this workspace reach the server: one cached     *)
(* multiplexed connection, shared by all the clones of a store, and a      *)
(* timeout on every dial and on every command.  RedisIdempotencyStore and  *)
(* RedisRefreshStore have the same get_connection and clear_connection.    *)
(*                                                                         *)
(* The network is external.  A connection is a pipe whose commands the     *)
(* server executes in order; nothing orders the commands of different      *)
(* connections.  Giving up on a command does not recall it: it stays in    *)
(* the pipe and may execute long after its caller was told "Timeout".      *)
(***************************************************************************)
EXTENDS Integers, Sequences, SequencesExt

CONSTANTS Callers,
          Commands,   \* what the callers ask the server to do
          Conns,      \* identities of connections, reused once forgotten
          MaxPipe     \* bound: commands waiting in one connection

NoConn == "none"
NoAnswer == "none"
Nobody == "none"     \* whom an abandoned command belongs to
ErrorReply == "error"

ASSUME LinkAssumption == MaxPipe \in Nat /\ NoConn \notin Conns /\ Nobody \notin Callers

VARIABLES alive,    \* connections that still carry requests and replies
          pipe,     \* per connection, the commands not yet executed
          cached,   \* the store's lock around Option<MultiplexedConnection>
          calls,    \* per caller, the operation under way
          suspect   \* history: connections whose failure a caller was told

linkVars == <<alive, pipe, cached, calls, suspect>>

Idle == [phase |-> "idle"]
Unsent == [phase : {"get", "dial"}, cmd : Commands]
Holding(cmd, n) == [phase |-> "send", cmd |-> cmd, conn |-> n, answer |-> NoAnswer]
Queued == [caller : Callers \cup {Nobody}, cmd : Commands]

LinkTypeOK(Answers) ==
  /\ alive \subseteq Conns
  /\ pipe \in [Conns -> BoundedSeq(Queued, MaxPipe)]
  /\ cached \in Conns \cup {NoConn}
  /\ calls \in [Callers -> {Idle} \cup Unsent \cup
                  [phase : {"send", "wait"}, cmd : Commands, conn : Conns,
                   answer : Answers \cup {NoAnswer, ErrorReply}]]
  /\ suspect \subseteq Conns

LinkInit == /\ alive = {}
            /\ pipe = [n \in Conns |-> <<>>]
            /\ cached = NoConn
            /\ calls = [c \in Callers |-> Idle]
            /\ suspect = {}

Uses(c, n) == calls[c].phase \in {"send", "wait"} /\ calls[c].conn = n

(* A connection nobody refers to any more: its identity stands for a new one. *)
Forgotten(n) == /\ n # cached
                /\ pipe[n] = <<>>
                /\ \A c \in Callers : ~Uses(c, n)

-----------------------------------------------------------------------------
Begin(c, cmd) ==
  /\ calls[c] = Idle
  /\ calls' = [calls EXCEPT ![c] = [phase |-> "get", cmd |-> cmd]]
  /\ UNCHANGED <<alive, pipe, cached, suspect>>

Return(c) == calls' = [calls EXCEPT ![c] = Idle]

(* get_connection finds a cached connection, or starts to dial. *)
GetCached(c) ==
  /\ calls[c].phase = "get"
  /\ cached # NoConn
  /\ calls' = [calls EXCEPT ![c] = Holding(@.cmd, cached)]
  /\ UNCHANGED <<alive, pipe, cached, suspect>>

StartDial(c) ==
  /\ calls[c].phase = "get"
  /\ cached = NoConn
  /\ calls' = [calls EXCEPT ![c].phase = "dial"]
  /\ UNCHANGED <<alive, pipe, cached, suspect>>

(* The new connection replaces whatever another caller cached meanwhile.   *)
Dialled(c) ==
  /\ calls[c].phase = "dial"
  /\ \E n \in Conns :
       /\ Forgotten(n)
       /\ alive' = alive \cup {n}
       /\ suspect' = suspect \ {n}
       /\ cached' = n
       /\ calls' = [calls EXCEPT ![c] = Holding(@.cmd, n)]
  /\ UNCHANGED pipe

(* The dial fails or times out; nothing was cached, nothing is cleared.    *)
DialFails(c) ==
  /\ calls[c].phase = "dial"
  /\ Return(c)
  /\ UNCHANGED <<alive, pipe, cached, suspect>>

Send(c) ==
  /\ calls[c].phase = "send"
  /\ calls[c].conn \in alive
  /\ Len(pipe[calls[c].conn]) < MaxPipe
  /\ pipe' = [pipe EXCEPT ![calls[c].conn] =
                Append(@, [caller |-> c, cmd |-> calls[c].cmd])]
  /\ calls' = [calls EXCEPT ![c].phase = "wait"]
  /\ UNCHANGED <<alive, cached, suspect>>

-----------------------------------------------------------------------------
(* How a command ends for its caller.                                      *)

(* Mutant of clear_connection: the failed connection stays cached. *)
keep_connection == UNCHANGED cached

(* The lock is taken and whatever it holds is dropped: it may be a newer   *)
(* connection than the one that failed.                                    *)
clear_connection == cached' = NoConn

(* The command c is waiting for is nobody's any more, wherever it is now.  *)
Abandon(c) ==
  pipe' = [n \in Conns |->
             [i \in DOMAIN pipe[n] |->
                IF pipe[n][i].caller = c THEN [pipe[n][i] EXCEPT !.caller = Nobody]
                                         ELSE pipe[n][i]]]

Failed(c) ==
  /\ Abandon(c)
  /\ clear_connection
  /\ suspect' = suspect \cup {calls[c].conn}
  /\ Return(c)
  /\ UNCHANGED alive

(* An answer arrives before the timeout. *)
Answered(c) ==
  /\ calls[c].phase = "wait"
  /\ calls[c].answer \notin {NoAnswer, ErrorReply}
  /\ Return(c)
  /\ UNCHANGED <<alive, pipe, cached, suspect>>

(* An error that says the connection was dropped. *)
ConnectionDropped(c) ==
  /\ calls[c].phase \in {"send", "wait"}
  /\ calls[c].conn \notin alive
  /\ Failed(c)

(* Mutant of CommandTimeout: the timeout covers the reply but not the send. *)
ReplyTimeout(c) ==
  /\ calls[c].phase = "wait"
  /\ Failed(c)

(* The timeout of the command, which may have executed already. *)
CommandTimeout(c) ==
  /\ calls[c].phase \in {"send", "wait"}
  /\ Failed(c)

(* The server answered with an error, over a sound connection. *)
Refused(c) == calls[c].phase = "wait" /\ calls[c].answer = ErrorReply

-----------------------------------------------------------------------------
(* The other end of the pipes.                                             *)

(* The first command of pipe n is done.  The answer reaches its caller     *)
(* only if it still waits and the link lives.                              *)
Consume(n, answer) ==
  LET m == Head(pipe[n]) IN
  /\ calls' = [c \in Callers |->
                 IF c = m.caller /\ n \in alive
                   THEN [calls[c] EXCEPT !.answer = answer]
                   ELSE calls[c]]
  /\ pipe' = [pipe EXCEPT ![n] = Tail(@)]
  /\ UNCHANGED <<alive, cached, suspect>>

(* The server refuses a command (it is loading, or read-only). *)
Refuse(n) == pipe[n] # <<>> /\ Consume(n, ErrorReply)

(* The link breaks.  What the server had received it still executes. *)
Break(n) ==
  /\ n \in alive
  /\ alive' = alive \ {n}
  /\ \E received \in 0..Len(pipe[n]) :
       pipe' = [pipe EXCEPT ![n] = SubSeq(@, 1, received)]
  /\ UNCHANGED <<cached, calls, suspect>>

(* Everything here but the commands' effects, beginnings and answers.      *)
LinkStep == \/ \E c \in Callers : \/ GetCached(c) \/ StartDial(c) \/ Dialled(c) \/ DialFails(c)
                                  \/ Send(c) \/ ConnectionDropped(c) \/ CommandTimeout(c)
            \/ \E n \in Conns : Refuse(n) \/ Break(n)

-----------------------------------------------------------------------------
(***************************************************************************)
(* A connection that one caller saw fail is never cached, so no later call *)
(* is handed it: callers that dial at the same time replace and clear each *)
(* other's connections, but a failed one never comes back.                 *)
(***************************************************************************)
FailedConnectionNotCached == cached \notin suspect
=============================================================================
