-------------------------- MODULE RefreshRotation --------------------------
(***************************************************************************)
(* What a refresh-token store promises, whichever backend holds the        *)
(* tokens: single-use rotation.  A session is reached through one token at *)
(* a time; rotating puts the successor in place in the same step; a token  *)
(* that once gave access to a session and no longer does never will again. *)
(*                                                                         *)
(* Time is left out: Drop may happen to any token at any moment.           *)
(***************************************************************************)
CONSTANTS Tokens,
          Ids,      \* session ids: a session keeps its id when it is rotated
          Stamps    \* the other fields of a session, which rotation may change

VARIABLES holds,    \* per token, the session it gives access to
          used      \* pairs of a token and a session id it has given access to

rotationVars == <<holds, used>>

Session == [id : Ids, stamp : Stamps]
NoSession == [id |-> "none", stamp |-> "none"]

RotationInit == holds = [t \in Tokens |-> NoSession] /\ used = {}

Opened(id) == \E t \in Tokens : <<t, id>> \in used

(* A login: the first token of a session. *)
Open(t, s) ==
  /\ ~Opened(s.id)
  /\ \A id \in Ids : <<t, id>> \notin used
  /\ holds' = [holds EXCEPT ![t] = s]
  /\ used' = used \cup {<<t, s.id>>}

(* The session moves from one token to another that never had it.  What    *)
(* the successor was left with, from a session whose time is over, goes.   *)
Rotate(old, new, s) ==
  /\ old # new
  /\ holds[old] # NoSession /\ holds[old].id = s.id
  /\ <<new, s.id>> \notin used
  /\ holds' = [holds EXCEPT ![old] = NoSession, ![new] = s]
  /\ used' = used \cup {<<new, s.id>>}

(* A logout, or the end of the token's time; what is gone may go again.    *)
Drop(gone) ==
  /\ holds' = [t \in Tokens |-> IF t \in gone THEN NoSession ELSE holds[t]]
  /\ UNCHANGED used

RotationNext ==
  \/ \E t \in Tokens, s \in Session : Open(t, s)
  \/ \E old, new \in Tokens, s \in Session : Rotate(old, new, s)
  \/ \E gone \in SUBSET Tokens : Drop(gone)

RotationSpec == RotationInit /\ [][RotationNext]_rotationVars

-----------------------------------------------------------------------------
(***************************************************************************)
(* No two tokens give access to the same session: of two rotations of one  *)
(* token at most one succeeds.                                             *)
(***************************************************************************)
OneToken ==
  \A t, u \in Tokens :
    (holds[t] # NoSession /\ holds[u] # NoSession /\ holds[t].id = holds[u].id) => t = u

(***************************************************************************)
(* A token that gave access to a session and no longer does never will     *)
(* again: a stolen token that was rotated away, or logged out, is dead.    *)
(***************************************************************************)
SpentTokensStaySpent ==
  [][\A pair \in used : holds[pair[1]].id # pair[2] => holds'[pair[1]].id # pair[2]]_rotationVars
=============================================================================
