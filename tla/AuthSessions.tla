---------------------------- MODULE AuthSessions ----------------------------
(***************************************************************************)
(* Tokens and session versions (auth-primitives): a token carries the      *)
(* session version of its subject and, when somebody impersonates the      *)
(* subject, of that actor too; a logout everywhere raises the version.     *)
(* Issuers and the versions' table are the product's, external; an issuer  *)
(* may leave claims out.                                                   *)
(***************************************************************************)
EXTENDS Integers, FiniteSets

CONSTANTS Users,
          Nobody,      \* Option::None of an actor
          Unversioned, \* Option::None of an actor's session version
          MaxSession,  \* bound: logouts of a user
          MaxTokens    \* bound: tokens issued

ASSUME SessionAssumption ==
  /\ Nobody \notin Users /\ Unversioned \notin Int
  /\ MaxSession \in Nat /\ MaxTokens \in Nat

VARIABLES session_versions,  \* of the users
          tokens,            \* what was issued, with its true actor
          revoked            \* history: tokens that a logout has ended

sessionVars == <<session_versions, tokens, revoked>>

-----------------------------------------------------------------------------
TokenType == {"access", "refresh", "impersonation", "exchange", "impersonation_exchange"}

requires_actor_session_version(type) == type \in {"impersonation", "impersonation_exchange"}

token_accepted_as_bearer(type) == type \in {"access", "impersonation"}

SessionVersion == 0..MaxSession

(* A negative database field is no version. *)
session_version(field) == IF field < 0 THEN Unversioned ELSE field

Token == [type : TokenType, subject : Users, version : SessionVersion,
          actor_id : Users \cup {Nobody}, actor_version : SessionVersion \cup {Unversioned},
          by : Users]

(* Mutant of is_consistent_with_actor: the actor's version is optional. *)
consistent_without_version(token) ==
  /\ token.actor_version # Unversioned => requires_actor_session_version(token.type)
  /\ requires_actor_session_version(token.type) <=> token.actor_id # Nobody

(* AuthClaimShape and ImpersonationClaimShape: both claims, or none. *)
is_consistent_with_actor(token) ==
  /\ requires_actor_session_version(token.type) <=> token.actor_version # Unversioned
  /\ requires_actor_session_version(token.type) <=> token.actor_id # Nobody

accepted_as_bearer_with_actor(token) ==
  token_accepted_as_bearer(token.type) /\ is_consistent_with_actor(token)

session_freshness(version, current) ==
  IF version = current THEN "Current" ELSE IF version < current THEN "Stale" ELSE "FromFuture"

session_version_is_current(version, current) == session_freshness(version, current) = "Current"

(* A shape without an actor's version has no actor to compare. *)
actor_session_version_is_current(token) ==
  token.actor_version # Unversioned =>
    session_version_is_current(token.actor_version, session_versions[token.actor_id])

-----------------------------------------------------------------------------
SessionTypeOK ==
  /\ session_versions \in [Users -> SessionVersion]
  /\ tokens \subseteq Token /\ revoked \subseteq tokens

SessionInit ==
  /\ session_versions = [u \in Users |-> session_version(0)]
  /\ tokens = {} /\ revoked = {}

Issued(token) == Cardinality(tokens) < MaxTokens /\ tokens' = tokens \cup {token}

(* Somebody logs in, as the subject or as its impersonator.                *)
Login(type, subject, by) ==
  /\ requires_actor_session_version(type) \/ by = subject
  /\ \E actor_id \in {Nobody, by},
        actor_version \in {Unversioned, session_versions[by]} :
       LET token == [type |-> type, subject |-> subject, version |-> session_versions[subject],
                     actor_id |-> actor_id, actor_version |-> actor_version, by |-> by]
       IN Issued(token)
  /\ UNCHANGED <<session_versions, revoked>>

Fresh(token) ==
  /\ is_consistent_with_actor(token)
  /\ session_version_is_current(token.version, session_versions[token.subject])
  /\ actor_session_version_is_current(token)

Accepted(token) == accepted_as_bearer_with_actor(token) /\ Fresh(token)

ExchangedFor(type) ==
  CASE type \in {"refresh", "exchange"} -> "access"
    [] type = "impersonation_exchange" -> "impersonation"
    [] OTHER -> type

(* A refresh or an exchange copies the claims it has checked. *)
Exchange(token) ==
  /\ token \in tokens /\ ~token_accepted_as_bearer(token.type) /\ Fresh(token)
  /\ LET other == [token EXCEPT !.type = ExchangedFor(token.type)] IN
       /\ Issued(other)
       /\ revoked' = IF token \in revoked THEN revoked \cup {other} ELSE revoked
  /\ UNCHANGED session_versions

LogoutEverywhere(u) ==
  /\ session_versions[u] < MaxSession
  /\ session_versions' = [session_versions EXCEPT ![u] = @ + 1]
  /\ revoked' = revoked \cup {t \in tokens : u \in {t.subject, t.by}}
  /\ UNCHANGED tokens

SessionNext ==
  \/ \E type \in TokenType, subject, by \in Users : Login(type, subject, by)
  \/ \E token \in tokens : Exchange(token)
  \/ \E u \in Users : LogoutEverywhere(u)

SessionSpec == SessionInit /\ [][SessionNext]_sessionVars

-----------------------------------------------------------------------------
(***************************************************************************)
(* No token is accepted any more once its subject, or who impersonates the *)
(* subject with it, has logged out everywhere; nor is a token that was     *)
(* exchanged for it, and whatever claims its issuer has left out.          *)
(***************************************************************************)
RevokedTokensStayOut == \A token \in tokens : Accepted(token) => token \notin revoked
=============================================================================
