---------------------------- MODULE EnvVarGuards ----------------------------
(***************************************************************************)
(* Environment variables that a test sets and gives back (world-test-      *)
(* lite).  Scopes are nested: a local guard is dropped before the ones     *)
(* made before it, whether the test ends or panics.  A bundle of set_many  *)
(* makes its guards one by one and drops them one by one, like scopes one  *)
(* inside the other.  Tests run one after the other.                       *)
(***************************************************************************)
EXTENDS Integers, Sequences

CONSTANTS Variables, EnvValues,
          Undefined,
          NotUnicode,   \* a value that env::var does not return
          MaxGuards     \* bound: guards at a time

VARIABLES env,          \* the process's environment
          guards,       \* the guards that are alive, the innermost last
          inherited     \* history: the environment before the test

envVars == <<env, guards, inherited>>

ASSUME EnvAssumption == MaxGuards \in Nat

-----------------------------------------------------------------------------
var(value) == IF value = NotUnicode THEN Undefined ELSE value

EnvInit ==
  /\ inherited \in [Variables -> EnvValues \cup {Undefined, NotUnicode}]
  /\ env = inherited /\ guards = <<>>

set_optional(key, value) ==
  /\ Len(guards) < MaxGuards
  /\ env' = [env EXCEPT ![key] = value]
  /\ guards' = Append(guards, [key |-> key, previous |-> var(env[key])])
  /\ UNCHANGED inherited

(* Mutant of next_dropped: in the order they were made. *)
first_made(alive) == 1

(* Vec::pop *)
next_dropped(alive) == Len(alive)

DropGuard ==
  LET n == next_dropped(guards) IN
  /\ guards # <<>>
  /\ env' = [env EXCEPT ![guards[n].key] = guards[n].previous]
  /\ guards' = SubSeq(guards, 1, n - 1) \o SubSeq(guards, n + 1, Len(guards))
  /\ UNCHANGED inherited

EnvNext ==
  \/ DropGuard
  \/ \E key \in Variables, value \in EnvValues \cup {Undefined} : set_optional(key, value)

EnvSpec == EnvInit /\ [][EnvNext]_envVars

-----------------------------------------------------------------------------
(***************************************************************************)
(* A test leaves the environment as it found it, even if it set a variable *)
(* several times, together or one inside the other; only a value that is   *)
(* no Unicode is not given back.                                           *)
(***************************************************************************)
VariablesGivenBack ==
  guards = <<>> =>
    \A v \in Variables : env[v] = inherited[v] \/ inherited[v] = NotUnicode
=============================================================================
