----------------------------- MODULE EdgeProofs -----------------------------
(***************************************************************************)
(* The modules at the edge of a service, each for any value of its         *)
(* constants: sessions, WebSockets, scoped transactions, refresh cookies,  *)
(* telemetry, environment variables and client addresses.  Every section   *)
(* has the inductive invariant of its module, and ends with the theorem.   *)
(***************************************************************************)
EXTENDS MCEdge, SequenceTheorems, FiniteSetTheorems, TLAPS

-----------------------------------------------------------------------------
(* Sessions.  A revoked token is caught by the subject's version, or by the *)
(* actor's, if the token has one.                                          *)
USE SessionAssumption

(* Who acts for himself needs no actor's claims; an actor's claims, where  *)
(* there are any, are the true actor's.                                    *)
TrueActor(jwt) ==
  /\ jwt.actor_id \in {Nobody, jwt.by}
  /\ requires_actor_session_version(jwt.type) \/ jwt.by = jwt.subject

VersionsPast(jwt) ==
  /\ jwt.version <= session_versions[jwt.subject]
  /\ jwt.actor_version # Unversioned => jwt.actor_version <= session_versions[jwt.by]

(* A version that can never be current again, or a token without the       *)
(* actor's claims that its type requires.                                  *)
CaughtBy(jwt) ==
  \/ jwt.version < session_versions[jwt.subject]
  \/ /\ requires_actor_session_version(jwt.type)
     /\ jwt.actor_version = Unversioned \/ jwt.actor_version < session_versions[jwt.by]

SessionInv ==
  /\ SessionTypeOK
  /\ \A jwt \in tokens : TrueActor(jwt) /\ VersionsPast(jwt)
  /\ \A jwt \in revoked : CaughtBy(jwt)

-----------------------------------------------------------------------------
LEMMA TypeOfToken ==
  ASSUME SessionTypeOK, NEW jwt \in tokens
  PROVE  /\ jwt.type \in TokenType /\ jwt.subject \in Users /\ jwt.by \in Users
         /\ jwt.version \in SessionVersion
         /\ jwt.actor_id \in Users \cup {Nobody}
         /\ jwt.actor_version \in SessionVersion \cup {Unversioned}
         /\ session_versions[jwt.subject] \in Int /\ session_versions[jwt.by] \in Int
BY DEF SessionTypeOK, Token, SessionVersion

LEMMA CaughtTokensAreNotFresh ==
  ASSUME SessionInv, NEW jwt \in revoked
  PROVE  ~Fresh(jwt)
<1> SUFFICES ASSUME Fresh(jwt) PROVE FALSE
  OBVIOUS
<1>1. jwt \in tokens /\ CaughtBy(jwt) /\ TrueActor(jwt)
  BY DEF SessionInv, SessionTypeOK
<1>2. jwt.version = session_versions[jwt.subject]
  BY DEF Fresh, session_version_is_current, session_freshness
<1>3. PICK n \in Int : n = session_versions[jwt.subject]
  BY <1>1, TypeOfToken DEF SessionInv
<1>4. /\ requires_actor_session_version(jwt.type)
      /\ jwt.actor_version = Unversioned \/ jwt.actor_version < session_versions[jwt.by]
  BY <1>1, <1>2, <1>3 DEF CaughtBy
<1>5. jwt.actor_version # Unversioned /\ jwt.actor_id = jwt.by
  BY <1>1, <1>4 DEF Fresh, is_consistent_with_actor, TrueActor
<1>6. jwt.actor_version = session_versions[jwt.by]
  BY <1>5 DEF Fresh, actor_session_version_is_current, session_version_is_current, session_freshness
<1>7. session_versions[jwt.by] \in Int
  BY <1>1, TypeOfToken DEF SessionInv
<1> QED
  BY <1>4, <1>5, <1>6, <1>7

LEMMA SessionInitial == SessionInit => SessionInv
BY DEF SessionInit, SessionInv, SessionTypeOK, SessionVersion, session_version

(* One more token, as good as the others.                                  *)
LEMMA IssuingKeeps ==
  ASSUME SessionInv, NEW jwt \in Token, Issued(jwt), TrueActor(jwt), VersionsPast(jwt),
         UNCHANGED <<session_versions, revoked>>
  PROVE  SessionInv'
<1>1. SessionTypeOK'
  BY DEF SessionInv, SessionTypeOK, Issued
<1>2. \A t \in tokens' : TrueActor(t)' /\ VersionsPast(t)'
  BY DEF SessionInv, Issued, TrueActor, VersionsPast
<1>3. \A t \in revoked' : CaughtBy(t)'
  BY DEF SessionInv, CaughtBy
<1> QED
  BY <1>1, <1>2, <1>3 DEF SessionInv

LEMMA LoginKeeps ==
  ASSUME SessionInv, NEW type \in TokenType, NEW subject \in Users, NEW by \in Users,
         Login(type, subject, by)
  PROVE  SessionInv'
<1>1. PICK actor_id \in {Nobody, by}, actor_version \in {Unversioned, session_versions[by]} :
        Issued([type |-> type, subject |-> subject, version |-> session_versions[subject],
                actor_id |-> actor_id, actor_version |-> actor_version, by |-> by])
  BY DEF Login
<1> DEFINE jwt == [type |-> type, subject |-> subject, version |-> session_versions[subject],
                     actor_id |-> actor_id, actor_version |-> actor_version, by |-> by]
<1>2. session_versions[subject] \in SessionVersion /\ session_versions[by] \in SessionVersion
  BY DEF SessionInv, SessionTypeOK
<1>3. jwt \in Token
  BY <1>2 DEF Token
<1>4. TrueActor(jwt)
  BY DEF TrueActor, Login
<1>5. VersionsPast(jwt)
  BY <1>2 DEF VersionsPast, SessionVersion
<1> HIDE DEF jwt
<1> QED
  BY <1>1, <1>3, <1>4, <1>5, IssuingKeeps DEF Login, jwt

LEMMA ExchangeKeeps ==
  ASSUME SessionInv, NEW jwt \in tokens, Exchange(jwt)
  PROVE  SessionInv'
<1> DEFINE other == [jwt EXCEPT !.type = ExchangedFor(jwt.type)]
<1>1. jwt \notin revoked
  BY CaughtTokensAreNotFresh DEF Exchange
<1>2. Issued(other) /\ UNCHANGED <<session_versions, revoked>>
  BY <1>1 DEF Exchange
<1>3. jwt \in Token /\ TrueActor(jwt) /\ VersionsPast(jwt)
  BY DEF SessionInv, SessionTypeOK
<1>4. /\ ExchangedFor(jwt.type) \in TokenType
      /\ requires_actor_session_version(ExchangedFor(jwt.type))
           <=> requires_actor_session_version(jwt.type)
  BY <1>3 DEF ExchangedFor, TokenType, requires_actor_session_version, Token
<1>5. /\ other \in Token
      /\ other.type = ExchangedFor(jwt.type) /\ other.subject = jwt.subject
      /\ other.version = jwt.version /\ other.by = jwt.by
      /\ other.actor_id = jwt.actor_id /\ other.actor_version = jwt.actor_version
  BY <1>3, <1>4 DEF Token
<1>6. TrueActor(other) /\ VersionsPast(other)
  BY <1>3, <1>4, <1>5 DEF TrueActor, VersionsPast
<1> HIDE DEF other
<1> QED
  BY <1>2, <1>5, <1>6, IssuingKeeps

LEMMA LogoutKeeps ==
  ASSUME SessionInv, NEW u \in Users, LogoutEverywhere(u)
  PROVE  SessionInv'
<1>1. /\ session_versions \in [Users -> SessionVersion]
      /\ session_versions' = [session_versions EXCEPT ![u] = @ + 1]
      /\ session_versions[u] < MaxSession /\ tokens' = tokens
  BY DEF LogoutEverywhere, SessionInv, SessionTypeOK
<1>2. SessionTypeOK'
  <2>1. session_versions' \in [Users -> SessionVersion]
    BY <1>1 DEF SessionVersion
  <2> QED
    BY <1>1, <2>1 DEF LogoutEverywhere, SessionInv, SessionTypeOK
<1>3. \A v \in Users : /\ session_versions[v] \in Int /\ session_versions'[v] \in Int
                       /\ session_versions[v] <= session_versions'[v]
                       /\ v = u => session_versions[v] < session_versions'[v]
  BY <1>1 DEF SessionVersion
<1>4. ASSUME NEW t \in tokens PROVE TrueActor(t)' /\ VersionsPast(t)'
  BY <1>3, TypeOfToken DEF SessionInv, TrueActor, VersionsPast, SessionVersion
<1>5. ASSUME NEW t \in revoked PROVE CaughtBy(t)'
  BY <1>3, TypeOfToken DEF SessionInv, SessionTypeOK, CaughtBy, SessionVersion
<1>6. ASSUME NEW t \in tokens, u \in {t.subject, t.by} PROVE CaughtBy(t)'
  <2>1. TrueActor(t) /\ VersionsPast(t)
    BY DEF SessionInv
  <2>2. CASE u = t.subject
    BY <1>3, <2>1, <2>2, TypeOfToken DEF SessionInv, CaughtBy, VersionsPast, SessionVersion
  <2>3. CASE u = t.by /\ u # t.subject
    BY <1>3, <2>1, <2>3, TypeOfToken DEF SessionInv, CaughtBy, TrueActor, VersionsPast, SessionVersion
  <2> QED
    BY <1>6, <2>2, <2>3
<1>7. \A t \in revoked' : CaughtBy(t)'
  BY <1>5, <1>6 DEF LogoutEverywhere
<1> QED
  BY <1>1, <1>2, <1>4, <1>7 DEF SessionInv

LEMMA SessionStep == SessionInv /\ [SessionNext]_sessionVars => SessionInv'
<1> SUFFICES ASSUME SessionInv, [SessionNext]_sessionVars PROVE SessionInv'
  OBVIOUS
<1>1. CASE UNCHANGED sessionVars
  BY <1>1 DEF sessionVars, SessionInv, SessionTypeOK, TrueActor, VersionsPast, CaughtBy
<1> QED
  BY <1>1, LoginKeeps, ExchangeKeeps, LogoutKeeps DEF SessionNext

-----------------------------------------------------------------------------
(***************************************************************************)
(* With the claims of AuthClaimShape and ImpersonationClaimShape checked,  *)
(* no token is accepted after its subject's or its actor's logout, through *)
(* any number of exchanges.                                                *)
(***************************************************************************)
THEOREM LogoutEndsEveryToken == SessionSpec => []RevokedTokensStayOut
<1>1. SessionInv => RevokedTokensStayOut
  BY CaughtTokensAreNotFresh DEF RevokedTokensStayOut, Accepted
<1> QED
  BY <1>1, SessionInitial, SessionStep, PTL DEF SessionSpec

-----------------------------------------------------------------------------
(* WebSocket sessions.  The limiter's entries end with what the history    *)
(* knows; the ones before that have left the window.                       *)
Ages(ages) ==
  /\ ages \in Seq(0..window)
  /\ \A i, j \in 1..Len(ages) : i <= j => ages[i] >= ages[j]

EndsWith(ages, last, gap) ==
  /\ gap \in Nat /\ Len(ages) = gap + Len(last)
  /\ \A i \in 1..gap : ages[i] >= window
  /\ \A i \in 1..Len(last) : ages[gap + i] = last[i]

FramesInv ==
  /\ Ages(accepted_at) /\ Ages(passed)
  /\ \A i \in 1..Len(passed) : passed[i] < window
  /\ Len(passed) <= max_frames
  /\ \E gap \in Nat : EndsWith(accepted_at, passed, gap)

EchoInv ==
  /\ session = "connecting" => echoes = {} /\ presented = NoToken
  /\ session = "authenticated" => AuthNonce(nonce) = "ok" /\ presented # NoToken
  /\ ControlFramesEcho

WsInv == TokenBecomesBearer /\ EchoInv /\ FramesInv

(* What makes a token valid makes the header of it a credential. *)
LEMMA ValidTokensAreCredentials ==
  ASSUME NEW text \in TokenText, valid_ws_token(text)
  PROVE  /\ parse_bearer_authorization(bearer_header_from_ws_token(text)) = bare_token(text)
         /\ bare_token(text) # NoToken /\ text # NoToken
<1> DEFINE good == [pad |-> "none", scheme |-> "none", says |-> text.says, chars |-> {"token"}]
           header == [pad |-> "none", scheme |-> "Bearer", says |-> text.says, chars |-> {"token"}]
<1>1. /\ text.pad = "none"
      /\ text = [pad |-> text.pad, scheme |-> text.scheme, says |-> text.says, chars |-> text.chars]
  BY DEF valid_ws_token, TokenText
<1>2. text.chars = {"token"} /\ text.scheme \in {"none", "Bearer"}
  <2>1. CASE has_whitespace(text)
    BY <2>1 DEF valid_ws_token, parse_bearer_authorization, is_bearer_token
  <2>2. CASE ~has_whitespace(text)
    <3>1. text.scheme = "none" /\ "space" \notin text.chars
      BY <2>2 DEF has_whitespace
    <3>2. with_scheme(text).chars = text.chars
      BY <1>1, <3>1 DEF with_scheme
    <3>3. is_bearer_token(with_scheme(text).chars)
      BY <2>2 DEF valid_ws_token, parse_bearer_authorization
    <3> QED BY <3>1, <3>2, <3>3 DEF is_bearer_token
  <2> QED BY <2>1, <2>2
<1>3. good # NoToken /\ text # NoToken
  <2>1. good.chars # NoToken.chars /\ text.chars # NoToken.chars
    BY <1>2 DEF NoToken
  <2> QED BY <2>1
<1>4. bare_token(text) = good
  <2>1. text = good \/ text = header
    BY <1>1, <1>2
  <2>2. bare_token(good) = good /\ bare_token(header) = good
    BY DEF bare_token
  <2> QED BY <2>1, <2>2
<1>5. parse_bearer_authorization(header) = good
  BY DEF parse_bearer_authorization, has_control, is_bearer_token, bare_token
<1>6. with_scheme(good) = header
  <2>1. good.scheme = "none" /\ good.chars = {"token"}
    OBVIOUS
  <2>2. with_scheme(good) = [good EXCEPT !.scheme = "Bearer", !.chars = {"token"}]
    BY <2>1 DEF with_scheme
  <2> QED BY <2>2
<1>7. parse_bearer_authorization(good) = NoToken
  BY DEF parse_bearer_authorization
<1> HIDE DEF good
<1>8. bearer_header_from_ws_token(text) = header
  <2>1. CASE text.scheme = "none"
    <3>1. text = good
      BY <1>1, <1>2, <2>1 DEF good
    <3>2. [good EXCEPT !.pad = "none"] = good
      BY DEF good
    <3> HIDE DEF header
    <3>3. [text EXCEPT !.pad = "none"] = good
      BY <3>1, <3>2
    <3> QED BY <1>6, <1>7, <3>3 DEF bearer_header_from_ws_token
  <2>2. CASE text.scheme = "Bearer"
    <3>1. text = header
      BY <1>1, <1>2, <2>2
    <3>2. [header EXCEPT !.pad = "none"] = header
      OBVIOUS
    <3> HIDE DEF header
    <3>3. [text EXCEPT !.pad = "none"] = header
      BY <3>1, <3>2
    <3> QED BY <1>3, <1>5, <1>6, <3>3 DEF bearer_header_from_ws_token
  <2> QED BY <1>2, <2>1, <2>2
<1> QED BY <1>3, <1>4, <1>5, <1>8

-----------------------------------------------------------------------------
(* Of ages in order, the first ones are those of span or more. *)
LEMMA OldestFirst ==
  ASSUME NEW ages, Ages(ages), NEW span \in Nat
  PROVE  \E n \in 0..Len(ages) :
           /\ Cardinality({i \in DOMAIN ages : ages[i] >= span}) = n
           /\ \A i \in 1..Len(ages) : ages[i] >= span <=> i <= n
<1> DEFINE old == {i \in DOMAIN ages : ages[i] >= span}
           n == Cardinality(old)
<1>1. Len(ages) \in Nat /\ DOMAIN ages = 1..Len(ages) /\ \A i \in 1..Len(ages) : ages[i] \in Nat
  <2>1. \A i \in 1..Len(ages) : ages[i] \in 0..window
    BY ElementOfSeq DEF Ages
  <2> QED BY <2>1, LenProperties, WsAssumption DEF Ages
<1>2. IsFiniteSet(1..Len(ages)) /\ Cardinality(1..Len(ages)) = Len(ages) /\ old \subseteq 1..Len(ages)
  BY <1>1, FS_Interval
<1>3. IsFiniteSet(old) /\ n \in Nat /\ n <= Len(ages)
  BY <1>2, FS_Subset, FS_CardinalityType
<1>4. ASSUME NEW i \in 1..Len(ages), ages[i] >= span PROVE i <= n
  <2>1. 1..i \subseteq old
    <3> SUFFICES ASSUME NEW j \in 1..i PROVE j \in old
      OBVIOUS
    <3>1. j \in 1..Len(ages) /\ j <= i
      BY <1>1
    <3>2. ages[j] >= ages[i]
      BY <3>1 DEF Ages
    <3> QED BY <1>1, <1>4, <3>1, <3>2
  <2>2. Cardinality(1..i) <= n
    BY <1>3, <2>1, FS_Subset
  <2>3. Cardinality(1..i) = i
    BY <1>1, FS_Interval
  <2> QED BY <2>2, <2>3
<1>5. ASSUME NEW i \in 1..Len(ages), ~(ages[i] >= span) PROVE ~(i <= n)
  <2>1. old \subseteq 1..(i - 1)
    <3> SUFFICES ASSUME NEW j \in old PROVE j \in 1..(i - 1)
      OBVIOUS
    <3>1. j \in 1..Len(ages) /\ ages[j] >= span
      BY <1>2
    <3>2. ~(i <= j)
      <4>1. i <= j => ages[i] >= ages[j]
        BY <3>1 DEF Ages
      <4> QED BY <1>1, <1>5, <3>1, <4>1
    <3> QED BY <1>1, <3>1, <3>2
  <2>2. IsFiniteSet(1..(i - 1)) /\ Cardinality(1..(i - 1)) = i - 1
    <3>1. 1 \in Int /\ i - 1 \in Int /\ i - 1 >= 0
      BY <1>1
    <3> QED BY <3>1, FS_Interval
  <2>3. n <= i - 1
    BY <2>1, <2>2, FS_Subset
  <2> HIDE DEF n
  <2> QED BY <1>1, <1>3, <2>3
<1> HIDE DEF n
<1>6. n \in 0..Len(ages)
  BY <1>1, <1>3
<1> QED BY <1>4, <1>5, <1>6 DEF n

(* What retain keeps. *)
LEMMA RetainKeepsTheYoung ==
  ASSUME NEW ages, Ages(ages), NEW span \in Nat
  PROVE  \E n \in Nat :
           /\ retain(ages, span) \in Seq(0..window)
           /\ Len(ages) = n + Len(retain(ages, span))
           /\ \A i \in 1..n : ages[i] >= span
           /\ \A i \in 1..Len(retain(ages, span)) :
                retain(ages, span)[i] = ages[n + i] /\ ages[n + i] < span
<1>1. PICK n \in 0..Len(ages) :
        /\ Cardinality({i \in DOMAIN ages : ages[i] >= span}) = n
        /\ \A i \in 1..Len(ages) : ages[i] >= span <=> i <= n
  BY OldestFirst
<1> DEFINE kept == SubSeq(ages, n + 1, Len(ages))
<1>2. retain(ages, span) = kept
  BY <1>1 DEF retain
<1>3. PICK len \in Nat : len = Len(ages)
  BY LenProperties DEF Ages
<1>4. \A i \in 1..len : ages[i] \in 0..window
  BY <1>3, ElementOfSeq DEF Ages
<1>5. n \in 0..len /\ n + 1 \in Int /\ len \in Int /\ \A i \in (n + 1)..len : ages[i] \in 0..window
  BY <1>3, <1>4
<1>6. /\ SubSeq(ages, n + 1, len) \in Seq(0..window)
      /\ Len(SubSeq(ages, n + 1, len)) = IF n + 1 <= len THEN len - (n + 1) + 1 ELSE 0
      /\ \A i \in 1..(len - (n + 1) + 1) : SubSeq(ages, n + 1, len)[i] = ages[n + 1 + i - 1]
  BY <1>5, SubSeqProperties
<1>7. kept \in Seq(0..window) /\ Len(kept) = len - n
  BY <1>3, <1>5, <1>6
<1>8. ASSUME NEW i \in 1..(len - n)
      PROVE  kept[i] = ages[n + i] /\ ages[n + i] < span
  <2>1. /\ i \in 1..(len - (n + 1) + 1) /\ n + 1 + i - 1 = n + i
        /\ n + i \in 1..len /\ ~(n + i <= n)
    BY <1>5
  <2>2. ages[n + i] \in Nat
    BY <1>4, <2>1, WsAssumption
  <2> QED BY <1>1, <1>3, <1>6, <2>1, <2>2
<1>9. \A i \in 1..n : i \in 1..len /\ ages[i] >= span
  BY <1>1, <1>3, <1>5
<1> HIDE DEF kept
<1>10. n \in Nat
  BY <1>5
<1>11. \A i \in 1..Len(kept) : kept[i] = ages[n + i] /\ ages[n + i] < span
  BY <1>7, <1>8
<1>12. Len(ages) = n + Len(kept)
  BY <1>3, <1>5, <1>7
<1> QED BY <1>2, <1>7, <1>9, <1>10, <1>11, <1>12

LEMMA AgesAreSorted ==
  ASSUME NEW ages, Ages(ages), NEW kept \in Seq(0..window), NEW n \in Nat,
         Len(ages) = n + Len(kept), \A i \in 1..Len(kept) : kept[i] = ages[n + i]
  PROVE  Ages(kept)
<1>1. Len(kept) \in Nat
  BY LenProperties
<1>2. ASSUME NEW i \in 1..Len(kept), NEW j \in 1..Len(kept), i <= j
      PROVE  kept[i] >= kept[j]
  <2>1. n + i \in 1..Len(ages) /\ n + j \in 1..Len(ages) /\ n + i <= n + j
    BY <1>1, <1>2
  <2> QED BY <1>2, <2>1 DEF Ages
<1> QED BY <1>2 DEF Ages

LEMMA YoungestIsNew ==
  ASSUME NEW ages, Ages(ages)
  PROVE  Ages(Append(ages, 0))
<1>1. /\ Len(ages) \in Nat /\ \A i \in 1..Len(ages) : ages[i] \in 0..window
      /\ 0 \in 0..window
  BY LenProperties, ElementOfSeq, WsAssumption DEF Ages
<1>2. /\ Append(ages, 0) \in Seq(0..window) /\ Len(Append(ages, 0)) = Len(ages) + 1
      /\ \A i \in 1..Len(ages) : Append(ages, 0)[i] = ages[i]
      /\ Append(ages, 0)[Len(ages) + 1] = 0
  BY <1>1, AppendProperties DEF Ages
<1>3. ASSUME NEW i \in 1..Len(Append(ages, 0)), NEW j \in 1..Len(Append(ages, 0)), i <= j
      PROVE  Append(ages, 0)[i] >= Append(ages, 0)[j]
  <2>1. CASE j = Len(ages) + 1
    <3>1. Append(ages, 0)[i] \in 0..window
      BY <1>1, <1>2
    <3> QED BY <1>2, <2>1, <3>1
  <2>2. CASE j # Len(ages) + 1
    BY <1>1, <1>2, <1>3, <2>2 DEF Ages
  <2> QED BY <2>1, <2>2
<1> QED BY <1>2, <1>3 DEF Ages

LEMMA OlderByOne ==
  ASSUME NEW ages, Ages(ages)
  PROVE  /\ Ages(Older(ages)) /\ Len(Older(ages)) = Len(ages)
         /\ \A i \in 1..Len(ages) :
              Older(ages)[i] = IF ages[i] < window THEN ages[i] + 1 ELSE window
<1>1. PICK len \in Nat : len = Len(ages) /\ DOMAIN ages = 1..len
  BY LenProperties DEF Ages
<1>2. \A i \in 1..len : ages[i] \in 0..window
  BY <1>1, ElementOfSeq DEF Ages
<1>3. /\ Older(ages) \in [1..len -> 0..window]
      /\ \A i \in 1..len : Older(ages)[i] = IF ages[i] < window THEN ages[i] + 1 ELSE window
  BY <1>1, <1>2, WsAssumption DEF Older
<1>4. Older(ages) \in Seq(0..window)
  BY <1>3, SeqDef
<1>5. Len(Older(ages)) = len
  <2>1. 1..Len(Older(ages)) = 1..len /\ Len(Older(ages)) \in Nat
    BY <1>3, <1>4, LenProperties
  <2> QED BY <2>1
<1>6. ASSUME NEW i \in 1..len, NEW j \in 1..len, i <= j
      PROVE  Older(ages)[i] >= Older(ages)[j]
  <2>1. ages[i] >= ages[j]
    BY <1>1, <1>6 DEF Ages
  <2>2. PICK old \in 0..window, young \in 0..window :
          old = ages[i] /\ young = ages[j] /\ old >= young
    BY <1>2, <2>1
  <2>3. /\ Older(ages)[i] = IF old < window THEN old + 1 ELSE window
        /\ Older(ages)[j] = IF young < window THEN young + 1 ELSE window
    BY <1>3, <2>2
  <2> QED BY <2>2, <2>3, WsAssumption
<1> QED BY <1>1, <1>3, <1>4, <1>5, <1>6 DEF Ages

-----------------------------------------------------------------------------
(* What the limiter has not forgotten is what the history knows. *)
LEMMA KeptArePassed ==
  ASSUME FramesInv
  PROVE  retain(accepted_at, window) = passed
<1>1. PICK gap \in Nat : EndsWith(accepted_at, passed, gap)
  BY DEF FramesInv
<1> DEFINE kept == retain(accepted_at, window)
<1>2. PICK n \in Nat :
        /\ kept \in Seq(0..window) /\ Len(accepted_at) = n + Len(kept)
        /\ \A i \in 1..n : accepted_at[i] >= window
        /\ \A i \in 1..Len(kept) : kept[i] = accepted_at[n + i] /\ accepted_at[n + i] < window
  BY RetainKeepsTheYoung, WsAssumption DEF FramesInv
<1>3. /\ passed \in Seq(0..window) /\ accepted_at \in Seq(0..window)
      /\ Ages(passed) /\ Ages(accepted_at)
      /\ \A i \in 1..Len(passed) : passed[i] < window
      /\ Len(passed) <= max_frames
  BY DEF FramesInv, Ages
<1>4. PICK a \in Nat, b \in Nat : a = Len(passed) /\ b = Len(kept)
  BY <1>2, <1>3, LenProperties
<1> HIDE DEF kept
<1>5. gap + a = n + b
  BY <1>1, <1>2, <1>4 DEF EndsWith
<1>6. \A i \in 1..(gap + a) : accepted_at[i] \in 0..window
  BY <1>1, <1>3, <1>4, ElementOfSeq DEF EndsWith
<1>7. n = gap /\ a = b
  <2>1. ~(n > gap)
    <3> SUFFICES ASSUME n > gap PROVE FALSE
      OBVIOUS
    <3>1. gap + 1 \in 1..n /\ 1 \in 1..a /\ gap + 1 \in 1..(gap + a)
      BY <1>5
    <3>2. accepted_at[gap + 1] >= window /\ accepted_at[gap + 1] < window
      BY <1>1, <1>2, <1>3, <1>4, <3>1 DEF EndsWith
    <3> QED BY <1>6, <3>1, <3>2, WsAssumption
  <2>2. ~(gap > n)
    <3> SUFFICES ASSUME gap > n PROVE FALSE
      OBVIOUS
    <3>1. n + 1 \in 1..gap /\ 1 \in 1..b /\ n + 1 \in 1..(gap + a)
      BY <1>5
    <3>2. accepted_at[n + 1] >= window /\ accepted_at[n + 1] < window
      BY <1>1, <1>2, <1>4, <3>1 DEF EndsWith
    <3> QED BY <1>6, <3>1, <3>2, WsAssumption
  <2> QED BY <1>5, <2>1, <2>2
<1>8. kept = passed
  <2>1. \A i \in 1..Len(kept) : kept[i] = passed[i]
    BY <1>1, <1>2, <1>4, <1>7 DEF EndsWith
  <2> QED BY <1>2, <1>3, <1>4, <1>7, <2>1, SeqEqual
<1> QED BY <1>8 DEF kept

LEMMA FrameKeepsLimit ==
  ASSUME WsInv, NEW provided, NEW limited_first, ControlFrame(provided, limited_first)
  PROVE  FramesInv'
<1>1. /\ passed \in Seq(0..window) /\ Ages(passed)
      /\ \A i \in 1..Len(passed) : passed[i] < window
      /\ Len(passed) <= max_frames
  BY DEF WsInv, FramesInv, Ages
<1>2. PICK a \in Nat : a = Len(passed)
  BY <1>1, LenProperties
<1>3. retain(accepted_at, window) = passed
  BY KeptArePassed DEF WsInv
<1>4. CASE UNCHANGED <<accepted_at, passed>>
  BY <1>4 DEF WsInv, FramesInv
<1>5. CASE /\ accepted_at' = allow_at(accepted_at).ages
           /\ passed' = IF allow_at(accepted_at).allowed THEN Append(passed, 0) ELSE passed
  <2>1. CASE max_frames = 0 \/ window = 0
    <3>1. UNCHANGED <<accepted_at, passed>>
      BY <1>5, <2>1 DEF allow_at
    <3> QED BY <1>4, <3>1
  <2>2. CASE ~(max_frames = 0 \/ window = 0) /\ Len(passed) >= max_frames
    <3>1. accepted_at' = passed /\ passed' = passed
      BY <1>3, <1>5, <2>2 DEF allow_at, allow
    <3>2. EndsWith(passed, passed, 0)
      BY <1>2 DEF EndsWith
    <3> QED BY <1>1, <3>1, <3>2 DEF FramesInv
  <2>3. CASE ~(max_frames = 0 \/ window = 0) /\ ~(Len(passed) >= max_frames)
    <3> DEFINE more == Append(passed, 0)
    <3>1. accepted_at' = more /\ passed' = more
      BY <1>3, <1>5, <2>3 DEF allow_at, allow
    <3>2. Ages(more)
      BY <1>1, YoungestIsNew
    <3>3. Len(more) = a + 1 /\ more[a + 1] = 0 /\ \A i \in 1..a : more[i] = passed[i]
      BY <1>1, <1>2
    <3> HIDE DEF more
    <3>4. \A i \in 1..Len(more) : more[i] < window
      <4> SUFFICES ASSUME NEW i \in 1..(a + 1) PROVE more[i] < window
        BY <3>3
      <4>1. CASE i = a + 1
        BY <2>3, <3>3, <4>1, WsAssumption
      <4>2. CASE i # a + 1
        <5>1. i \in 1..a
          BY <4>2
        <5> QED BY <1>1, <1>2, <3>3, <5>1
      <4> QED BY <4>1, <4>2
    <3>5. Len(more) <= max_frames
      BY <1>2, <2>3, <3>3, WsAssumption
    <3>6. EndsWith(more, more, 0)
      BY <3>3 DEF EndsWith
    <3> QED BY <3>1, <3>2, <3>4, <3>5, <3>6 DEF FramesInv
  <2> QED BY <2>1, <2>2, <2>3
<1> QED BY <1>4, <1>5 DEF ControlFrame

(* Only a frame with the nonce is accepted. *)
LEMMA FrameEchoes ==
  ASSUME WsInv, NEW provided, NEW limited_first, ControlFrame(provided, limited_first)
  PROVE  TokenBecomesBearer' /\ EchoInv'
<1>1. /\ session = "authenticated" /\ session' \in {"authenticated", "closed"}
      /\ UNCHANGED <<bearer, nonce, presented>>
  BY DEF ControlFrame, Close
<1>2. AuthNonce(nonce) = "ok" /\ presented # NoToken /\ ControlFramesEcho /\ TokenBecomesBearer
  BY <1>1 DEF WsInv, EchoInv
<1>3. nonce.chars = {"graphic"}
  BY <1>2 DEF AuthNonce
<1>4. echoes' = echoes \/ (echoes' = echoes \cup {provided} /\ provided = nonce)
  BY DEF ControlFrame, require_auth_nonce
<1>5. ControlFramesEcho'
  BY <1>1, <1>2, <1>3, <1>4 DEF ControlFramesEcho
<1>6. TokenBecomesBearer'
  BY <1>1, <1>2 DEF TokenBecomesBearer
<1>7. /\ session' # "connecting"
      /\ (AuthNonce(nonce) = "ok" /\ presented # NoToken)'
  BY <1>1, <1>2 DEF AuthNonce, NoToken
<1> QED BY <1>5, <1>6, <1>7 DEF EchoInv

LEMMA TickKeepsLimit ==
  ASSUME WsInv, WsTick
  PROVE  FramesInv'
<1>1. PICK gap \in Nat : EndsWith(accepted_at, passed, gap)
  BY DEF WsInv, FramesInv
<1> DEFINE older_at == Older(accepted_at)
           older == Older(passed)
           kept == retain(older, window)
<1>2. /\ Ages(older_at) /\ Len(older_at) = Len(accepted_at)
      /\ \A i \in 1..Len(accepted_at) :
           older_at[i] = IF accepted_at[i] < window THEN accepted_at[i] + 1 ELSE window
  BY OlderByOne DEF WsInv, FramesInv
<1>3. /\ Ages(older) /\ Len(older) = Len(passed)
      /\ \A i \in 1..Len(passed) :
           older[i] = IF passed[i] < window THEN passed[i] + 1 ELSE window
  BY OlderByOne DEF WsInv, FramesInv
<1>4. accepted_at' = older_at /\ passed' = kept
  BY DEF WsTick
<1> HIDE DEF older_at, older
<1>5. PICK n \in Nat :
        /\ kept \in Seq(0..window) /\ Len(older) = n + Len(kept)
        /\ \A i \in 1..n : older[i] >= window
        /\ \A i \in 1..Len(kept) : kept[i] = older[n + i] /\ older[n + i] < window
  BY <1>3, RetainKeepsTheYoung, WsAssumption
<1> HIDE DEF kept
<1>6. PICK a \in Nat, b \in Nat : a = Len(passed) /\ b = Len(kept)
  BY <1>5, LenProperties DEF WsInv, FramesInv, Ages
<1>7. a = n + b /\ Len(accepted_at) = gap + a /\ Len(older_at) = (gap + n) + b
  <2>1. a = n + b
    BY <1>3, <1>5, <1>6
  <2>2. Len(accepted_at) = gap + a
    BY <1>1, <1>6 DEF EndsWith
  <2> QED BY <1>2, <2>1, <2>2
<1>8. Ages(kept)
  BY <1>3, <1>5, AgesAreSorted
<1>9. ASSUME NEW i \in 1..a PROVE older_at[gap + i] = older[i]
  <2>1. gap + i \in 1..Len(accepted_at)
    BY <1>7
  <2>2. accepted_at[gap + i] = passed[i]
    BY <1>1, <1>6 DEF EndsWith
  <2> QED BY <1>2, <1>3, <1>6, <2>1, <2>2
<1>10. EndsWith(older_at, kept, gap + n)
  <2>1. ASSUME NEW i \in 1..(gap + n) PROVE older_at[i] >= window
    <3>1. i \in 1..Len(accepted_at)
      BY <1>7
    <3>2. CASE i \in 1..gap
      <4>1. accepted_at[i] >= window /\ accepted_at[i] \in 0..window
        BY <1>1, <3>1, <3>2, ElementOfSeq DEF EndsWith, WsInv, FramesInv, Ages
      <4> QED BY <1>2, <3>1, <4>1, WsAssumption
    <3>3. CASE i \notin 1..gap
      <4>1. i - gap \in 1..n /\ i - gap \in 1..a /\ gap + (i - gap) = i
        BY <1>7, <3>3
      <4>2. older_at[gap + (i - gap)] = older[i - gap] /\ older[i - gap] >= window
        BY <1>5, <1>9, <4>1
      <4> QED BY <4>1, <4>2
    <3> QED BY <3>2, <3>3
  <2>2. ASSUME NEW i \in 1..b PROVE older_at[(gap + n) + i] = kept[i]
    <3>1. n + i \in 1..a /\ gap + (n + i) = (gap + n) + i
      BY <1>7
    <3>2. older_at[gap + (n + i)] = older[n + i]
      BY <1>9, <3>1
    <3> QED BY <1>5, <1>6, <3>1, <3>2
  <2> QED BY <1>6, <1>7, <2>1, <2>2 DEF EndsWith
<1>11. Len(kept) <= max_frames
  <2>1. a <= max_frames
    BY <1>6 DEF WsInv, FramesInv
  <2> QED BY <1>6, <1>7, <2>1, WsAssumption
<1>12. gap + n \in Nat /\ \A i \in 1..Len(kept) : kept[i] < window
  BY <1>5
<1> QED BY <1>2, <1>4, <1>8, <1>10, <1>11, <1>12 DEF FramesInv

LEMMA FirstFrameIsChecked ==
  ASSUME WsInv, NEW frame \in Frame, NEW entropy \in NonceText, FirstFrame(frame, entropy)
  PROVE  TokenBecomesBearer' /\ EchoInv'
<1>1. session = "connecting" /\ echoes = {} /\ presented = NoToken /\ echoes' = echoes
  BY DEF FirstFrame, WsInv, EchoInv
<1>2. ControlFramesEcho'
  BY <1>1 DEF ControlFramesEcho
<1>3. CASE session' = "closed"
  BY <1>2, <1>3 DEF TokenBecomesBearer, EchoInv
<1>4. CASE session' # "closed"
  <2>1. /\ session' = "authenticated"
        /\ parse_initial_auth(frame) = "ok" /\ AuthNonce(entropy) = "ok"
        /\ bearer' = parse_bearer_authorization(bearer_header_from_ws_token(frame.token))
        /\ presented' = frame.token /\ nonce' = entropy
    BY <1>4 DEF FirstFrame, Close
  <2>2. valid_ws_token(frame.token)
    <3>1. CASE frame.binary \/ frame.len > max_auth_frame_bytes
      BY <2>1, <3>1 DEF parse_initial_auth, Frame
    <3>2. CASE ~(frame.binary \/ frame.len > max_auth_frame_bytes)
      BY <2>1, <3>2 DEF parse_initial_auth
    <3> QED BY <3>1, <3>2
  <2>3. frame.token \in TokenText
    BY DEF Frame
  <2>4. /\ bearer' = bare_token(frame.token)
        /\ bare_token(frame.token) # NoToken /\ frame.token # NoToken
    BY <2>1, <2>2, <2>3, ValidTokensAreCredentials
  <2>5. (bearer # NoToken /\ bearer = bare_token(presented))'
    BY <2>1, <2>4 DEF bare_token, NoToken
  <2>6. (AuthNonce(nonce) = "ok" /\ presented # NoToken)'
    BY <2>1, <2>4 DEF AuthNonce, NoToken
  <2> QED BY <1>2, <2>1, <2>5, <2>6 DEF TokenBecomesBearer, EchoInv
<1> QED BY <1>3, <1>4

LEMMA OtherStepsKeepEchoes ==
  ASSUME WsInv, UNCHANGED <<bearer, nonce, presented, echoes>>,
         session' = session \/ session' = "closed"
  PROVE  TokenBecomesBearer' /\ EchoInv'
<1>1. ControlFramesEcho'
  BY DEF WsInv, EchoInv, ControlFramesEcho, NoToken
<1>2. TokenBecomesBearer'
  BY DEF WsInv, TokenBecomesBearer, bare_token, NoToken
<1> QED BY <1>1, <1>2 DEF WsInv, EchoInv, AuthNonce, NoToken

LEMMA WsInvHolds == WsSpec => []WsInv
<1>1. WsInit => WsInv
  <2> SUFFICES ASSUME WsInit PROVE WsInv
    OBVIOUS
  <2>1. <<>> \in Seq(0..window) /\ Len(<<>>) = 0
    BY EmptySeq
  <2>2. Ages(<<>>) /\ EndsWith(<<>>, <<>>, 0)
    BY <2>1 DEF Ages, EndsWith
  <2>3. FramesInv
    BY <2>1, <2>2, WsAssumption DEF WsInit, FramesInv
  <2> QED BY <2>3 DEF WsInit, WsInv, TokenBecomesBearer, EchoInv, ControlFramesEcho
<1>2. WsInv /\ [WsNext]_wsVars => WsInv'
  <2> SUFFICES ASSUME WsInv, [WsNext]_wsVars PROVE WsInv'
    OBVIOUS
  <2>1. CASE FirstFrameTimesOut
    <3>1. FramesInv'
      BY <2>1 DEF FirstFrameTimesOut, WsInv, FramesInv
    <3> QED BY <2>1, <3>1, OtherStepsKeepEchoes DEF FirstFrameTimesOut, Close, WsInv
  <2>2. CASE WsTick
    BY <2>2, TickKeepsLimit, OtherStepsKeepEchoes DEF WsTick, WsInv
  <2>3. CASE Disconnect
    <3>1. FramesInv'
      BY <2>3 DEF Disconnect, WsInv, FramesInv
    <3> QED BY <2>3, <3>1, OtherStepsKeepEchoes DEF Disconnect, WsInv
  <2>4. ASSUME NEW frame \in Frame, NEW entropy \in NonceText, FirstFrame(frame, entropy)
        PROVE  WsInv'
    <3>1. FramesInv'
      BY <2>4 DEF FirstFrame, WsInv, FramesInv
    <3> QED BY <2>4, <3>1, FirstFrameIsChecked DEF WsInv
  <2>5. ASSUME NEW provided, NEW limited_first, ControlFrame(provided, limited_first)
        PROVE  WsInv'
    BY <2>5, FrameKeepsLimit, FrameEchoes DEF WsInv
  <2>6. CASE UNCHANGED wsVars
    <3>1. FramesInv'
      BY <2>6 DEF wsVars, WsInv, FramesInv
    <3> QED BY <2>6, <3>1, OtherStepsKeepEchoes DEF wsVars, WsInv
  <2> QED BY <2>1, <2>2, <2>3, <2>4, <2>5, <2>6 DEF WsNext
<1> QED BY <1>1, <1>2, PTL DEF WsSpec

(***************************************************************************)
(* A session that auth-ws-core lets in goes on with the credential of the  *)
(* token that its first frame presented; every control frame it accepts    *)
(* echoes the nonce it issued then; and its limiter, which forgets, lets a *)
(* frame pass exactly if fewer than the limit passed in the last window.   *)
(***************************************************************************)
THEOREM SocketsStayGuarded == WsSpec => []SocketsAreGuarded
<1>1. WsInv => SocketsAreGuarded
  <2> SUFFICES ASSUME WsInv PROVE ControlFramesLimited
    BY DEF WsInv, EchoInv, SocketsAreGuarded
  <2>1. PICK a \in Nat : a = Len(passed) /\ DOMAIN passed = 1..a /\ a <= max_frames
    BY LenProperties DEF WsInv, FramesInv, Ages
  <2>2. IsFiniteSet(1..a) /\ Cardinality(1..a) = a
    <3>1. 1 \in Int /\ a \in Int /\ a - 1 + 1 = a
      BY <2>1
    <3> QED BY <3>1, FS_Interval
  <2>3. {i \in DOMAIN passed : passed[i] < window} = 1..a
    BY <2>1 DEF WsInv, FramesInv
  <2>4. PassedInWindow = Len(passed) /\ Len(passed) \in Nat /\ Len(passed) <= max_frames
    BY <2>1, <2>2, <2>3 DEF PassedInWindow
  <2>5. retain(accepted_at, window) = passed
    BY KeptArePassed DEF WsInv
  <2>6. ASSUME window # 0
        PROVE  allow_at(accepted_at).allowed <=> PassedInWindow < max_frames
    <3>1. CASE max_frames = 0
      BY <2>4, <3>1, WsAssumption DEF allow_at
    <3>2. CASE max_frames # 0 /\ Len(passed) >= max_frames
      <4>1. allow_at(accepted_at).allowed = FALSE
        BY <2>5, <2>6, <3>2 DEF allow_at, allow
      <4> QED BY <2>4, <3>2, <4>1, WsAssumption
    <3>3. CASE max_frames # 0 /\ ~(Len(passed) >= max_frames)
      <4>1. allow_at(accepted_at).allowed = TRUE
        BY <2>5, <2>6, <3>3 DEF allow_at, allow
      <4> QED BY <2>4, <3>3, <4>1, WsAssumption
    <3> QED BY <3>1, <3>2, <3>3
  <2> QED BY <2>4, <2>6 DEF ControlFramesLimited
<1> QED BY <1>1, WsInvHolds, PTL

-----------------------------------------------------------------------------
(* Scoped transactions.  Each has a connection of its own, on which it has *)
(* set what the assignments it is through with ask for; a connection that  *)
(* is free has nothing left on it.                                         *)
Scope == [Settings -> Values \cup {Unset}]
Connection == [session : Scope, local : Scope, open : BOOLEAN, queried : BOOLEAN,
               repeatable : BOOLEAN]
Transaction == [at : {"none", "isolating", "setting", "scoped"},
                connection : Connections \cup {Unset}, readonly : BOOLEAN,
                asked : Seq(Settings \X Values), todo : Seq(Settings \X Values)]

ScopeTypeOK ==
  /\ connections \in [Connections -> Connection]
  /\ transactions \in [Clients -> Transaction]

Clean(conn) ==
  /\ \A s \in Settings : conn.session[s] = Unset
  /\ ~conn.open => \A s \in Settings : conn.local[s] = Unset

Done(tx) == Len(tx.asked) - Len(tx.todo)

Runs(tx, conn) ==
  /\ conn.open
  /\ Done(tx) >= 0 /\ \A i \in 1..Len(tx.todo) : tx.todo[i] = tx.asked[Done(tx) + i]
  /\ \A s \in Settings : AskedBy(tx.asked, Done(tx), s, conn.local[s])
  /\ tx.readonly => tx.at = "isolating" \/ conn.repeatable
  /\ tx.at = "scoped" => Len(tx.todo) = 0

Running(tx, conns) ==
  /\ tx.at = "none" => tx.connection = Unset
  /\ tx.at # "none" => tx.connection \in Connections /\ Runs(tx, conns[tx.connection])

ScopeInv ==
  /\ ScopeTypeOK
  /\ \A c \in Connections : Clean(connections[c])
  /\ \A k \in Clients : Running(transactions[k], connections)
  /\ \A k, other \in Clients :
       transactions[k].connection = transactions[other].connection
         => k = other \/ transactions[k].at = "none"

LEMMA TransactionFields ==
  ASSUME NEW tx \in Transaction
  PROVE  /\ tx.at \in {"none", "isolating", "setting", "scoped"}
         /\ tx.connection \in Connections \cup {Unset} /\ tx.readonly \in BOOLEAN
         /\ tx.asked \in Seq(Settings \X Values) /\ tx.todo \in Seq(Settings \X Values)
         /\ Len(tx.asked) \in Nat /\ Len(tx.todo) \in Nat
BY DEF Transaction

LEMMA ConnectionFields ==
  ASSUME NEW conn \in Connection
  PROVE  /\ conn.session \in Scope /\ conn.local \in Scope /\ conn.open \in BOOLEAN
         /\ conn.queried \in BOOLEAN /\ conn.repeatable \in BOOLEAN
BY DEF Connection

(* One transaction's step, on its own connection or one that was free,     *)
(* does not disturb the others.                                            *)
LEMMA OneStep ==
  ASSUME ScopeInv, NEW k \in Clients, NEW c \in Connections,
         NEW tx \in Transaction, NEW conn \in Connection,
         Free(c) \/ (transactions[k].at # "none" /\ transactions[k].connection = c),
         transactions' \in [Clients -> Transaction],
         \A o \in Clients : transactions'[o] = IF o = k THEN tx ELSE transactions[o],
         connections' \in [Connections -> Connection],
         \A d \in Connections : connections'[d] = IF d = c THEN conn ELSE connections[d],
         Clean(conn),
         \/ tx.at = "none" /\ tx.connection = Unset
         \/ tx.at # "none" /\ tx.connection = c /\ Runs(tx, conn)
  PROVE  ScopeInv'
<1>1. ScopeTypeOK' /\ \A d \in Connections : Clean(connections'[d])
  BY DEF ScopeTypeOK, ScopeInv
<1>2. ASSUME NEW o \in Clients, o # k
      PROVE  /\ transactions'[o] = transactions[o]
             /\ transactions[o].at # "none" =>
                  /\ transactions[o].connection \in Connections \ {c}
                  /\ connections'[transactions[o].connection]
                       = connections[transactions[o].connection]
  <2>1. transactions'[o] = transactions[o]
    BY <1>2
  <2>2. ASSUME transactions[o].at # "none"
        PROVE  transactions[o].connection \in Connections \ {c}
    <3>1. /\ transactions[o].connection \in Connections
          /\ connections[transactions[o].connection].open
      BY <2>2 DEF ScopeInv, Running, Runs
    <3>2. transactions[o].connection # c
      <4>1. CASE Free(c)
        BY <3>1, <4>1 DEF Free
      <4>2. CASE transactions[k].connection = c
        BY <1>2, <2>2, <4>2 DEF ScopeInv
      <4> QED BY <4>1, <4>2
    <3> QED BY <3>1, <3>2
  <2> QED BY <2>1, <2>2
<1>3. ASSUME NEW o \in Clients PROVE Running(transactions'[o], connections')
  <2>1. CASE o = k
    BY <2>1 DEF Running
  <2>2. CASE o # k
    <3>1. Running(transactions[o], connections)
      BY DEF ScopeInv
    <3> QED BY <1>2, <2>2, <3>1 DEF Running
  <2> QED BY <2>1, <2>2
<1>4. ASSUME NEW o \in Clients, NEW other \in Clients, o # other,
             transactions'[o].connection = transactions'[other].connection
      PROVE  transactions'[o].at = "none"
  <2>1. CASE o # k /\ other # k
    BY <1>2, <1>4, <2>1 DEF ScopeInv
  <2>2. CASE o = k
    <3>1. Running(transactions[other], connections) /\ Unset \notin Connections
      BY ScopeAssumption DEF ScopeInv
    <3>2. CASE transactions[other].at = "none"
      BY <1>2, <1>4, <2>2, <3>1, <3>2 DEF Running
    <3>3. CASE transactions[other].at # "none"
      BY <1>2, <1>4, <2>2, <3>1, <3>3
    <3> QED BY <3>2, <3>3
  <2>3. CASE other = k
    <3>1. Running(transactions[o], connections) /\ Unset \notin Connections
      BY ScopeAssumption DEF ScopeInv
    <3>2. SUFFICES ASSUME transactions[o].at # "none" PROVE FALSE
      BY <1>2, <1>4, <2>3
    <3>3. transactions[o].connection \in Connections \ {c}
      BY <1>2, <1>4, <2>3, <3>2
    <3> QED BY <1>2, <1>4, <2>3, <3>1, <3>3
  <2> QED BY <2>1, <2>2, <2>3
<1> QED BY <1>1, <1>3, <1>4 DEF ScopeInv

LEMMA BeginKeepsScopes ==
  ASSUME ScopeInv, NEW k \in Clients, NEW c \in Connections, NEW readonly \in BOOLEAN,
         NEW list \in Assignments, Begin(k, c, readonly, list)
  PROVE  ScopeInv'
<1> DEFINE tx == [at |-> IF readonly THEN "isolating" ELSE "setting", connection |-> c,
                  readonly |-> readonly, asked |-> list, todo |-> list]
           conn == [connections[c] EXCEPT !.open = TRUE]
<1>1. list \in Seq(Settings \X Values) /\ Len(list) \in Nat
  BY ScopeAssumption
<1>2. /\ tx \in Transaction /\ tx.at # "none" /\ tx.connection = c
      /\ tx.asked = list /\ tx.todo = list
      /\ tx.readonly => tx.at = "isolating"
      /\ tx.at # "scoped"
  BY <1>1 DEF Transaction
<1>3. connections[c] \in Connection /\ Clean(connections[c]) /\ ~connections[c].open
  BY DEF ScopeInv, ScopeTypeOK, Begin, Free
<1>4. /\ conn \in Connection /\ conn.open
      /\ conn.session = connections[c].session /\ conn.local = connections[c].local
  BY <1>3 DEF Connection
<1>5. /\ transactions' \in [Clients -> Transaction]
      /\ \A o \in Clients : transactions'[o] = IF o = k THEN tx ELSE transactions[o]
  BY <1>2 DEF ScopeInv, ScopeTypeOK, Begin
<1>6. connections' = [connections EXCEPT ![c] = conn]
  BY DEF Begin
<1> HIDE DEF tx, conn
<1>7. /\ connections' \in [Connections -> Connection]
      /\ \A d \in Connections : connections'[d] = IF d = c THEN conn ELSE connections[d]
  BY <1>4, <1>6 DEF ScopeInv, ScopeTypeOK
<1>8. Clean(conn) /\ Runs(tx, conn)
  <2>1. \A s \in Settings : conn.local[s] = Unset /\ conn.session[s] = Unset
    BY <1>3, <1>4 DEF Clean
  <2>2. Done(tx) = 0
    BY <1>1, <1>2 DEF Done
  <2>3. \A i \in 1..Len(list) : list[0 + i] = list[i]
    BY <1>1
  <2>4. \A s \in Settings : AskedBy(list, 0, s, Unset)
    BY DEF AskedBy
  <2> QED BY <1>2, <1>4, <2>1, <2>2, <2>3, <2>4 DEF Clean, Runs
<1> QED BY <1>2, <1>3, <1>4, <1>5, <1>7, <1>8, OneStep DEF Free

(* The steps of a transaction that has begun. *)
LEMMA OwnConnection ==
  ASSUME ScopeInv, NEW k \in Clients, transactions[k].at # "none"
  PROVE  /\ transactions[k] \in Transaction
         /\ transactions[k].connection \in Connections
         /\ connections[transactions[k].connection] \in Connection
         /\ Clean(connections[transactions[k].connection])
         /\ Runs(transactions[k], connections[transactions[k].connection])
<1>1. transactions[k] \in Transaction
  BY DEF ScopeInv, ScopeTypeOK
<1>2. Running(transactions[k], connections)
  BY DEF ScopeInv
<1>3. /\ transactions[k].connection \in Connections
      /\ Runs(transactions[k], connections[transactions[k].connection])
  BY <1>2 DEF Running
<1> QED BY <1>1, <1>3 DEF ScopeInv, ScopeTypeOK

LEMMA IsolationKeepsScopes ==
  ASSUME ScopeInv, NEW k \in Clients, SetIsolation(k)
  PROVE  ScopeInv'
<1> DEFINE old == transactions[k]
           c == old.connection
           tx == [old EXCEPT !.at = "setting"]
           conn == [connections[c] EXCEPT !.repeatable = TRUE]
<1>1. old.at = "isolating"
  BY DEF SetIsolation
<1>2. /\ old \in Transaction /\ c \in Connections /\ connections[c] \in Connection
      /\ Clean(connections[c]) /\ Runs(old, connections[c])
  BY <1>1, OwnConnection
<1>3. /\ tx \in Transaction /\ tx.at = "setting" /\ tx.connection = c
      /\ tx.asked = old.asked /\ tx.todo = old.todo
  BY <1>2 DEF Transaction
<1>4. /\ conn \in Connection /\ conn.repeatable /\ conn.open = connections[c].open
      /\ conn.session = connections[c].session /\ conn.local = connections[c].local
  BY <1>2 DEF Connection
<1>5. transactions' = [transactions EXCEPT ![k] = tx]
  BY DEF SetIsolation
<1>6. connections' = [connections EXCEPT ![c] = conn]
  BY DEF SetIsolation
<1> HIDE DEF tx, conn
<1>7. /\ transactions' \in [Clients -> Transaction]
      /\ \A o \in Clients : transactions'[o] = IF o = k THEN tx ELSE transactions[o]
      /\ connections' \in [Connections -> Connection]
      /\ \A d \in Connections : connections'[d] = IF d = c THEN conn ELSE connections[d]
  BY <1>2, <1>3, <1>4, <1>5, <1>6 DEF ScopeInv, ScopeTypeOK
<1>8. Clean(conn)
  BY <1>2, <1>4 DEF Clean
<1>9. Runs(tx, conn)
  BY <1>2, <1>3, <1>4 DEF Runs, Done
<1> HIDE DEF old
<1> QED BY <1>1, <1>2, <1>3, <1>4, <1>7, <1>8, <1>9, OneStep DEF old

(* One assignment more. *)
LEMMA AskedByOneMore ==
  ASSUME NEW list \in Seq(Settings \X Values), NEW n \in Nat, n < Len(list),
         NEW s \in Settings, NEW v, AskedBy(list, n, s, v)
  PROVE  AskedBy(list, n + 1, s, IF s = list[n + 1][1] THEN list[n + 1][2] ELSE v)
<1>1. Len(list) \in Nat /\ n + 1 \in 1..Len(list)
  OBVIOUS
<1>2. list[n + 1] \in Settings \X Values
  BY <1>1, ElementOfSeq
<1>3. list[n + 1] = <<list[n + 1][1], list[n + 1][2]>>
  BY <1>2
<1>4. CASE s = list[n + 1][1]
  <2>1. list[n + 1] = <<s, list[n + 1][2]>> /\ \A j \in (n + 1 + 1)..(n + 1) : FALSE
    BY <1>3, <1>4
  <2> QED BY <1>4, <2>1 DEF AskedBy
<1>5. CASE s # list[n + 1][1]
  <2>1. CASE v = Unset /\ \A i \in 1..n : list[i][1] # s
    BY <1>5, <2>1 DEF AskedBy
  <2>2. CASE \E i \in 1..n : list[i] = <<s, v>> /\ \A j \in (i + 1)..n : list[j][1] # s
    <3>1. PICK i \in 1..n : list[i] = <<s, v>> /\ \A j \in (i + 1)..n : list[j][1] # s
      BY <2>2
    <3>2. i \in 1..(n + 1) /\ \A j \in (i + 1)..(n + 1) : j \in (i + 1)..n \/ j = n + 1
      OBVIOUS
    <3>3. \A j \in (i + 1)..(n + 1) : list[j][1] # s
      BY <1>5, <3>1, <3>2
    <3> QED BY <1>5, <3>1, <3>2, <3>3 DEF AskedBy
  <2> QED BY <2>1, <2>2 DEF AskedBy
<1> QED BY <1>4, <1>5

LEMMA SettingKeepsScopes ==
  ASSUME ScopeInv, NEW k \in Clients, SetLocal(k)
  PROVE  ScopeInv'
<1> DEFINE old == transactions[k]
           c == old.connection
           next == Head(old.todo)
           tx == [old EXCEPT !.todo = Tail(@)]
           conn == [connections[c] EXCEPT !.local = [@ EXCEPT ![next[1]] = next[2]],
                                          !.queried = TRUE]
<1>1. old.at = "setting" /\ old.todo # <<>>
  BY DEF SetLocal
<1>2. /\ old \in Transaction /\ c \in Connections /\ connections[c] \in Connection
      /\ Clean(connections[c]) /\ Runs(old, connections[c])
  BY <1>1, OwnConnection
<1> DEFINE n == Done(old)
<1>3. /\ old.asked \in Seq(Settings \X Values) /\ old.todo \in Seq(Settings \X Values)
      /\ Len(old.asked) \in Nat /\ Len(old.todo) \in Nat \ {0}
      /\ next \in Settings \X Values /\ next = old.todo[1]
      /\ Tail(old.todo) \in Seq(Settings \X Values)
      /\ Len(Tail(old.todo)) = Len(old.todo) - 1
      /\ \A i \in 1..(Len(old.todo) - 1) : Tail(old.todo)[i] = old.todo[i + 1]
  <2>1. /\ old.asked \in Seq(Settings \X Values) /\ old.todo \in Seq(Settings \X Values)
        /\ Len(old.asked) \in Nat
    BY <1>2, TransactionFields
  <2> HIDE DEF old
  <2>2. Len(old.todo) \in Nat \ {0}
    BY <1>1, <2>1, EmptySeq
  <2>3. /\ next \in Settings \X Values /\ Tail(old.todo) \in Seq(Settings \X Values)
        /\ Len(Tail(old.todo)) = Len(old.todo) - 1
        /\ \A i \in 1..Len(Tail(old.todo)) : Tail(old.todo)[i] = old.todo[i + 1]
    BY <1>1, <2>1, HeadTailProperties
  <2>4. next = old.todo[1]
    BY <2>1
  <2> QED BY <2>1, <2>2, <2>3, <2>4
<1>4. /\ n \in Nat /\ n < Len(old.asked) /\ next = old.asked[n + 1]
      /\ Len(old.asked) - (Len(old.todo) - 1) = n + 1
  <2>1. n >= 0 /\ old.todo[1] = old.asked[n + 1]
    BY <1>2, <1>3 DEF Runs
  <2>2. n = Len(old.asked) - Len(old.todo)
    BY DEF Done
  <2>3. Len(old.asked) \in Nat /\ Len(old.todo) \in Nat \ {0} /\ next = old.todo[1]
    BY <1>3
  <2>4. PICK a \in Nat, b \in Nat \ {0} : a = Len(old.asked) /\ b = Len(old.todo)
    BY <2>3
  <2> HIDE DEF old, n, next
  <2>5. n = a - b /\ n >= 0
    BY <2>1, <2>2, <2>4
  <2>6. n \in Nat /\ n < a /\ a - (b - 1) = n + 1
    BY <2>5
  <2> QED BY <2>1, <2>3, <2>4, <2>6
<1>5. /\ tx \in Transaction /\ tx.at = "setting" /\ tx.connection = c
      /\ tx.asked = old.asked /\ tx.todo = Tail(old.todo) /\ tx.readonly = old.readonly
  BY <1>1, <1>2, <1>3 DEF Transaction
<1> DEFINE local == connections[c].local
<1>6. local \in Scope
  BY <1>2, ConnectionFields
<1>7. /\ [local EXCEPT ![next[1]] = next[2]] \in Scope
      /\ \A s \in Settings : [local EXCEPT ![next[1]] = next[2]][s]
                               = IF s = next[1] THEN next[2] ELSE local[s]
  BY <1>3, <1>6 DEF Scope
<1>8. /\ conn \in Connection /\ conn.open = connections[c].open
      /\ conn.repeatable = connections[c].repeatable
      /\ conn.session = connections[c].session
      /\ conn.local = [local EXCEPT ![next[1]] = next[2]]
  BY <1>2, <1>7 DEF Connection
<1>9. transactions' = [transactions EXCEPT ![k] = tx]
  BY DEF SetLocal
<1>10. connections' = [connections EXCEPT ![c] = conn]
  BY DEF SetLocal, set_config
<1>11. \A s \in Settings : conn.local[s] = IF s = next[1] THEN next[2] ELSE local[s]
  BY <1>7, <1>8
<1> HIDE DEF tx, conn
<1>12. /\ transactions' \in [Clients -> Transaction]
       /\ \A o \in Clients : transactions'[o] = IF o = k THEN tx ELSE transactions[o]
       /\ connections' \in [Connections -> Connection]
       /\ \A d \in Connections : connections'[d] = IF d = c THEN conn ELSE connections[d]
  BY <1>2, <1>5, <1>8, <1>9, <1>10 DEF ScopeInv, ScopeTypeOK
<1>13. Clean(conn)
  BY <1>2, <1>8 DEF Clean, Runs
<1>14. Runs(tx, conn)
  <2>1. Done(tx) = n + 1
    BY <1>3, <1>4, <1>5 DEF Done
  <2>2. \A i \in 1..Len(tx.todo) : tx.todo[i] = tx.asked[n + 1 + i]
    <3> SUFFICES ASSUME NEW i \in 1..Len(tx.todo) PROVE tx.todo[i] = tx.asked[n + 1 + i]
      OBVIOUS
    <3>1. i \in 1..(Len(old.todo) - 1) /\ i + 1 \in 1..Len(old.todo) /\ n + (i + 1) = n + 1 + i
      <4>1. n \in Nat /\ Len(old.todo) \in Nat /\ Len(tx.todo) = Len(old.todo) - 1
        BY <1>3, <1>4, <1>5
      <4> HIDE DEF n, old
      <4> QED BY <4>1
    <3>2. tx.todo[i] = old.todo[i + 1]
      BY <1>3, <1>5, <3>1
    <3>3. old.todo[i + 1] = old.asked[n + (i + 1)]
      BY <1>2, <3>1 DEF Runs
    <3> QED BY <1>5, <3>1, <3>2, <3>3
  <2>3. ASSUME NEW s \in Settings PROVE AskedBy(tx.asked, n + 1, s, conn.local[s])
    <3>1. AskedBy(old.asked, n, s, local[s])
      BY <1>2 DEF Runs
    <3>2. AskedBy(old.asked, n + 1, s,
                  IF s = old.asked[n + 1][1] THEN old.asked[n + 1][2] ELSE local[s])
      <4> HIDE DEF old, n, local
      <4> QED BY <1>3, <1>4, <3>1, AskedByOneMore
    <3> QED BY <1>4, <1>5, <1>11, <3>2
  <2> QED BY <1>2, <1>1, <1>4, <1>5, <1>8, <2>1, <2>2, <2>3 DEF Runs
<1> HIDE DEF old, n, local
<1> QED BY <1>1, <1>2, <1>5, <1>8, <1>12, <1>13, <1>14, OneStep DEF old

LEMMA ScopedKeepsScopes ==
  ASSUME ScopeInv, NEW k \in Clients, Scoped(k)
  PROVE  ScopeInv'
<1> DEFINE old == transactions[k]
           c == old.connection
           tx == [old EXCEPT !.at = "scoped"]
<1>1. old.at = "setting" /\ old.todo = <<>>
  BY DEF Scoped
<1>2. /\ old \in Transaction /\ c \in Connections /\ connections[c] \in Connection
      /\ Clean(connections[c]) /\ Runs(old, connections[c])
  BY <1>1, OwnConnection
<1>3. /\ tx \in Transaction /\ tx.at = "scoped" /\ tx.connection = c
      /\ tx.asked = old.asked /\ tx.todo = old.todo /\ tx.readonly = old.readonly
  BY <1>2 DEF Transaction
<1>4. transactions' = [transactions EXCEPT ![k] = tx] /\ connections' = connections
  BY DEF Scoped
<1> HIDE DEF tx
<1>5. /\ transactions' \in [Clients -> Transaction]
      /\ \A o \in Clients : transactions'[o] = IF o = k THEN tx ELSE transactions[o]
      /\ connections' \in [Connections -> Connection]
      /\ \A d \in Connections :
           connections'[d] = IF d = c THEN connections[c] ELSE connections[d]
  BY <1>2, <1>3, <1>4 DEF ScopeInv, ScopeTypeOK
<1>6. Runs(tx, connections[c])
  <2>1. Len(tx.todo) = 0
    BY <1>1, <1>3, EmptySeq
  <2> QED BY <1>1, <1>2, <1>3, <2>1 DEF Runs, Done
<1> HIDE DEF old
<1> QED BY <1>1, <1>2, <1>3, <1>5, <1>6, OneStep DEF old

LEMMA QueryKeepsScopes ==
  ASSUME ScopeInv, NEW k \in Clients, Query(k)
  PROVE  ScopeInv'
<1> DEFINE old == transactions[k]
           c == old.connection
           conn == [connections[c] EXCEPT !.queried = TRUE]
<1>1. old.at = "scoped"
  BY DEF Query
<1>2. /\ old \in Transaction /\ c \in Connections /\ connections[c] \in Connection
      /\ Clean(connections[c]) /\ Runs(old, connections[c])
  BY <1>1, OwnConnection
<1>3. /\ conn \in Connection /\ conn.open = connections[c].open
      /\ conn.session = connections[c].session /\ conn.local = connections[c].local
      /\ conn.repeatable = connections[c].repeatable
  BY <1>2 DEF Connection
<1>4. connections' = [connections EXCEPT ![c] = conn] /\ transactions' = transactions
  BY DEF Query
<1> HIDE DEF conn
<1>5. /\ transactions' \in [Clients -> Transaction]
      /\ \A o \in Clients : transactions'[o] = IF o = k THEN old ELSE transactions[o]
      /\ connections' \in [Connections -> Connection]
      /\ \A d \in Connections : connections'[d] = IF d = c THEN conn ELSE connections[d]
  BY <1>2, <1>3, <1>4 DEF ScopeInv, ScopeTypeOK
<1>6. Clean(conn) /\ Runs(old, conn)
  BY <1>2, <1>3 DEF Clean, Runs
<1> HIDE DEF old
<1> QED BY <1>1, <1>2, <1>3, <1>5, <1>6, OneStep DEF old

LEMMA EndLeavesNothing ==
  ASSUME ScopeInv, NEW k \in Clients, End(k)
  PROVE  ScopeInv'
<1> DEFINE old == transactions[k]
           c == old.connection
           conn == [Idle EXCEPT !.session = connections[c].session]
<1>1. old.at # "none"
  BY DEF End
<1>2. /\ old \in Transaction /\ c \in Connections /\ connections[c] \in Connection
      /\ Clean(connections[c])
  BY <1>1, OwnConnection
<1>3. /\ Nothing \in Scope /\ \A s \in Settings : Nothing[s] = Unset
      /\ connections[c].session \in Scope
  BY <1>2, ConnectionFields DEF Nothing, Scope
<1>4. /\ conn \in Connection /\ ~conn.open
      /\ conn.session = connections[c].session /\ conn.local = Nothing
  BY <1>3 DEF Idle, Connection
<1>5. /\ NoTransaction \in Transaction
      /\ NoTransaction.at = "none" /\ NoTransaction.connection = Unset
  <2>1. <<>> \in Seq(Settings \X Values)
    BY EmptySeq
  <2> QED BY <2>1 DEF NoTransaction, Transaction
<1>6. /\ connections' = [connections EXCEPT ![c] = conn]
      /\ transactions' = [transactions EXCEPT ![k] = NoTransaction]
  BY DEF End, Ended
<1> HIDE DEF conn
<1>7. /\ transactions' \in [Clients -> Transaction]
      /\ \A o \in Clients : transactions'[o] = IF o = k THEN NoTransaction ELSE transactions[o]
      /\ connections' \in [Connections -> Connection]
      /\ \A d \in Connections : connections'[d] = IF d = c THEN conn ELSE connections[d]
  BY <1>2, <1>4, <1>5, <1>6 DEF ScopeInv, ScopeTypeOK
<1>8. Clean(conn)
  BY <1>2, <1>3, <1>4 DEF Clean
<1> HIDE DEF old
<1> QED BY <1>1, <1>2, <1>4, <1>5, <1>7, <1>8, OneStep DEF old

LEMMA ScopeInvHolds == ScopeSpec => []ScopeInv
<1>1. ScopeInit => ScopeInv
  <2> SUFFICES ASSUME ScopeInit PROVE ScopeInv
    OBVIOUS
  <2>1. Nothing \in Scope /\ \A s \in Settings : Nothing[s] = Unset
    BY DEF Nothing, Scope
  <2>2. Idle \in Connection /\ Clean(Idle)
    BY <2>1 DEF Idle, Connection, Clean
  <2>3. <<>> \in Seq(Settings \X Values)
    BY EmptySeq
  <2>4. /\ NoTransaction \in Transaction
        /\ NoTransaction.at = "none" /\ NoTransaction.connection = Unset
    BY <2>3 DEF NoTransaction, Transaction
  <2>5. /\ \A c \in Connections : connections[c] = Idle
        /\ \A k \in Clients : transactions[k] = NoTransaction
        /\ ScopeTypeOK
    BY <2>2, <2>4 DEF ScopeInit, ScopeTypeOK
  <2> QED BY <2>2, <2>4, <2>5 DEF ScopeInv, Running
<1>2. ScopeInv /\ [ScopeNext]_scopeVars => ScopeInv'
  <2> SUFFICES ASSUME ScopeInv, [ScopeNext]_scopeVars PROVE ScopeInv'
    OBVIOUS
  <2>1. CASE ScopeNext
    BY <2>1, BeginKeepsScopes, IsolationKeepsScopes, SettingKeepsScopes, ScopedKeepsScopes,
       QueryKeepsScopes, EndLeavesNothing DEF ScopeNext
  <2>2. CASE UNCHANGED scopeVars
    BY <2>2 DEF scopeVars, ScopeInv, ScopeTypeOK
  <2> QED BY <2>1, <2>2
<1> QED BY <1>1, <1>2, PTL DEF ScopeSpec

(***************************************************************************)
(* A transaction that tenant-scope-sqlx hands out runs in exactly the      *)
(* scope it was asked for, whatever came before it on its connection.      *)
(***************************************************************************)
THEOREM ScopesAreSeen == ScopeSpec => []QueriesSeeTheirScope
<1>1. ScopeInv => QueriesSeeTheirScope
  <2> SUFFICES ASSUME ScopeInv, NEW k \in Clients, transactions[k].at = "scoped"
               PROVE  LET c == transactions[k].connection IN
                      /\ \A s \in Settings : Asked(transactions[k].asked, s, current_setting(c, s))
                      /\ transactions[k].readonly => connections[c].repeatable
                      /\ \A other \in Clients \ {k} : transactions[other].connection # c
    BY DEF QueriesSeeTheirScope
  <2> DEFINE tx == transactions[k]
             c == tx.connection
  <2>1. /\ tx \in Transaction /\ c \in Connections
        /\ Clean(connections[c]) /\ Runs(tx, connections[c])
    BY OwnConnection
  <2>2. Done(tx) = Len(tx.asked)
    <3>1. Len(tx.todo) = 0 /\ Len(tx.asked) \in Nat
      BY <2>1, TransactionFields DEF Runs
    <3> QED BY <3>1 DEF Done
  <2>3. ASSUME NEW s \in Settings
        PROVE  Asked(tx.asked, s, current_setting(c, s))
    <3>1. current_setting(c, s) = connections[c].local[s]
      BY <2>1 DEF current_setting, Clean
    <3> QED BY <2>1, <2>2, <3>1 DEF Runs, Asked
  <2>4. tx.readonly => connections[c].repeatable
    BY <2>1 DEF Runs
  <2>5. \A other \in Clients \ {k} : transactions[other].connection # c
    BY DEF ScopeInv
  <2> QED BY <2>3, <2>4, <2>5
<1> QED BY <1>1, ScopeInvHolds, PTL

-----------------------------------------------------------------------------
(* Refresh cookies.  A browser has at most the cookie of the last token,   *)
(* under the one key this configuration ever uses.                         *)
CookieKey == <<config.name, config.domain, config.path>>
CookieOf(value, left) == [key |-> CookieKey, value |-> value, left |-> left]

JarHolds(left) ==
  /\ left > 0 /\ jar = {CookieOf(token, left)}
  /\ token_left <= left /\ left <= token_left + 2

CookieInv ==
  /\ config \in RefreshCookieConfig /\ made \in Nat /\ token_left \in Nat
  /\ policy.texts \subseteq OriginText /\ is_policy(policy)
  /\ jar = {} /\ SecureIfNamedSo(config) => token_left = 0
  /\ jar # {} => is_valid(config) /\ SecureIfNamedSo(config) /\ \E left \in Nat : JarHolds(left)
  /\ misjudged = {}

-----------------------------------------------------------------------------
(* How a page that names itself is read. *)
LEMMA OnlyTheTail ==
  ASSUME NEW text \in OriginText, text.tail = "none"
  PROVE  /\ [text EXCEPT !.tail = "none"] = text
         /\ [text EXCEPT !.tail = "path"] \in OriginText
         /\ [text EXCEPT !.tail = "path"].tail = "path"
         /\ [[text EXCEPT !.tail = "path"] EXCEPT !.tail = "none"] = text
BY DEF OriginText

LEMMA PlainIsRead ==
  ASSUME NEW page \in Origin
  PROVE  /\ normalize_origin(Plain(page)) =
              IF validate_authority(Plain(page))
                THEN [scheme |-> page.scheme, host |-> page.host, port |-> page.port]
                ELSE Untrusted
         /\ origin_from_url(Plain(page)) = normalize_origin(Plain(page))
         /\ origin_from_url(Url(page)) = normalize_origin(Plain(page))
         /\ Plain(page) \in OriginText /\ Url(page) \in OriginText
<1>1. page.scheme \in {"http", "https"} /\ page.host \in STRING /\ page.port \in STRING
  BY DEF Origin
<1>2. /\ Plain(page).pad = "none" /\ Plain(page).scheme = page.scheme
      /\ Plain(page).tail = "none" /\ Plain(page).user = FALSE
      /\ Plain(page).host = page.host /\ Plain(page).port = page.port
  BY DEF Plain
<1>3. Plain(page) \in OriginText
  BY <1>1 DEF Plain, OriginText
<1>4. /\ Url(page) \in OriginText /\ Url(page).tail = "path"
      /\ [Url(page) EXCEPT !.tail = "none"] = Plain(page)
  BY <1>1, <1>2, <1>3, OnlyTheTail DEF Url
<1>5. [Plain(page) EXCEPT !.tail = "none"] = Plain(page)
  BY <1>2, <1>3, OnlyTheTail
<1>6. /\ origin_from_url(Plain(page)) = normalize_origin(Plain(page))
      /\ origin_from_url(Url(page)) = normalize_origin(Plain(page))
  BY <1>2, <1>4, <1>5 DEF origin_from_url
<1>7. normalize_origin(Plain(page)) =
        IF validate_authority(Plain(page))
          THEN [scheme |-> page.scheme, host |-> page.host, port |-> page.port]
          ELSE Untrusted
  BY <1>1, <1>2 DEF normalize_origin
<1> QED BY <1>3, <1>4, <1>6, <1>7

LEMMA TextIsRead ==
  ASSUME NEW text, normalize_origin(text) # Untrusted
  PROVE  /\ normalize_origin(text) = [scheme |-> text.scheme, host |-> text.host, port |-> text.port]
         /\ validate_authority(text) /\ text.scheme \in {"http", "https"}
BY DEF normalize_origin

(* The allowed origins are the pages listed. *)
LEMMA AllowedAreListed ==
  ASSUME is_policy(policy), NEW page \in Origin
  PROVE  normalize_origin(Plain(page)) \in allowed_origins(policy) <=> Listed(page)
<1> DEFINE named == [scheme |-> page.scheme, host |-> page.host, port |-> page.port]
<1>1. \A text \in policy.texts : normalize_origin(text) # Untrusted
  BY DEF is_policy
<1>2. ASSUME normalize_origin(Plain(page)) \in allowed_origins(policy)
      PROVE  Listed(page)
  <2>1. PICK text \in policy.texts : normalize_origin(text) = normalize_origin(Plain(page))
    BY <1>2 DEF allowed_origins
  <2>2. normalize_origin(Plain(page)) = named
    BY <1>1, <2>1, PlainIsRead
  <2>3. [scheme |-> text.scheme, host |-> text.host, port |-> text.port] = named
    BY <1>1, <2>1, <2>2, TextIsRead
  <2>4. text.scheme = page.scheme /\ text.host = page.host /\ text.port = page.port
    BY <2>3
  <2> QED BY <2>4 DEF Listed
<1>3. ASSUME Listed(page)
      PROVE  normalize_origin(Plain(page)) \in allowed_origins(policy)
  <2>1. PICK text \in policy.texts :
          text.scheme = page.scheme /\ text.host = page.host /\ text.port = page.port
    BY <1>3 DEF Listed
  <2>2. normalize_origin(text) = named /\ validate_authority(text)
    BY <1>1, <2>1, TextIsRead
  <2>3. validate_authority(Plain(page))
    BY <2>1, <2>2 DEF validate_authority, Plain
  <2>4. normalize_origin(Plain(page)) = normalize_origin(text)
    BY <2>2, <2>3, PlainIsRead
  <2> QED BY <2>1, <2>4 DEF allowed_origins
<1> QED BY <1>2, <1>3

LEMMA JudgedAsListed ==
  ASSUME CookieInv, NEW page \in Pages, NEW request \in Headers(page), Judge(page, request)
  PROVE  misjudged' = {}
<1> DEFINE taken == is_trusted(policy, request.origin, request.referer)
           hidden == request = Request(NotSent, NotSent)
<1>1. page \in Origin /\ is_policy(policy) /\ misjudged = {}
  BY CookieAssumption DEF CookieInv
<1>2. /\ Plain(page) # NotSent /\ Url(page) # NotSent
  BY <1>1, PlainIsRead, CookieAssumption
<1>3. Null # NotSent /\ normalize_origin(Null) = Untrusted
  <2>1. Null.scheme = "none"
    BY DEF Null, Plain
  <2> QED BY <2>1, CookieAssumption DEF normalize_origin
<1>4. Untrusted \notin allowed_origins(policy)
  BY <1>1 DEF is_policy, allowed_origins
<1>5. hidden \/ (taken <=> Listed(page)) \/ (~taken /\ request.origin = Null)
  <2>1. CASE \E referer : request = Request(Plain(page), referer)
    BY <1>1, <1>2, <2>1, AllowedAreListed DEF Request, is_trusted
  <2>2. CASE request = Request(Null, NotSent)
    BY <1>3, <1>4, <2>2 DEF Request, is_trusted
  <2>3. CASE request \in {Request(NotSent, Url(page)), Request(NotSent, Plain(page))}
    BY <1>1, <1>2, <2>3, AllowedAreListed, PlainIsRead DEF Request, is_trusted
  <2> QED BY <2>1, <2>2, <2>3 DEF Headers
<1> HIDE DEF taken, hidden
<1>6. misjudged' = misjudged
        \cup (IF taken /\ ~Listed(page) /\ ~hidden THEN {"taken"} ELSE {})
        \cup (IF ~taken /\ Listed(page) /\ ~hidden /\ request.origin # Null
                THEN {"refused"} ELSE {})
  BY DEF Judge, taken, hidden
<1>7. CASE hidden
  BY <1>1, <1>6, <1>7
<1>8. CASE taken <=> Listed(page)
  BY <1>1, <1>6, <1>8
<1>9. CASE ~taken /\ request.origin = Null
  BY <1>1, <1>6, <1>9
<1> QED BY <1>5, <1>7, <1>8, <1>9

-----------------------------------------------------------------------------
LEMMA ValidLinesAreKept ==
  ASSUME CookieInv, is_valid(config), SecureIfNamedSo(config), NEW value, NEW max_age
  PROVE  /\ Kept(Line(config, value, max_age))
         /\ Key(Line(config, value, max_age)) = CookieKey
         /\ Line(config, value, max_age).value = value
         /\ Line(config, value, max_age).max_age = max_age
<1> DEFINE line == Line(config, value, max_age)
<1>1. /\ line.name = config.name /\ line.path = config.path /\ line.domain = config.domain
      /\ line.secure = config.secure /\ line.same_site = config.same_site
      /\ line.value = value /\ line.max_age = max_age
  BY DEF Line
<1> HIDE DEF line
<1>2. config.domain # "malformed"
  BY CookieAssumption DEF is_valid, validate_cookie_domain
<1>3. Kept(line)
  BY <1>1, <1>2 DEF Kept, SecureIfNamedSo, is_valid, validate_cookie_name, validate_cookie_path
<1> QED BY <1>1, <1>3 DEF Key, CookieKey, line

LEMMA OthersInJar ==
  ASSUME CookieInv
  PROVE  {cookie \in jar : cookie.key # CookieKey} = {}
<1>1. \A cookie \in jar : cookie.key = CookieKey
  BY DEF CookieInv, JarHolds, CookieOf
<1> QED BY <1>1

LEMMA RoundedUp ==
  ASSUME NEW duration \in Nat
  PROVE  /\ duration_secs(duration) \in Nat \ {0}
         /\ duration <= duration_secs(duration) /\ duration_secs(duration) <= duration + 2
BY DEF duration_secs

(* What browsers do not keep leaves the jar as it was: empty. *)
LEMMA DroppedLinesAreNotKept ==
  ASSUME CookieInv, GiveToken, UNCHANGED <<config, policy>>, misjudged' = {},
         ~SecureIfNamedSo(config)
  PROVE  CookieInv'
<1> DEFINE line == build_set_cookie(config, made + 1)
<1>1. line.name = config.name /\ line.secure = config.secure
  BY DEF build_set_cookie, Line
<1> HIDE DEF line
<1>2. ~Kept(line)
  BY <1>1 DEF Kept, SecureIfNamedSo
<1>3. jar' = {}
  BY <1>2 DEF CookieInv, GiveToken, store, line
<1>4. /\ made' = made + 1 /\ token_left' = config.max_age /\ config.max_age \in Nat
      /\ is_policy(policy)' /\ SecureIfNamedSo(config)' = SecureIfNamedSo(config)
  BY DEF CookieInv, GiveToken, RefreshCookieConfig
<1> QED BY <1>3, <1>4 DEF CookieInv

LEMMA GivingATokenGivesItsCookie ==
  ASSUME CookieInv, GiveToken, UNCHANGED <<config, policy>>, misjudged' = {},
         SecureIfNamedSo(config)
  PROVE  CookieInv'
<1>0. PICK max_age : max_age = duration_secs(config.max_age)
  OBVIOUS
<1> DEFINE line == Line(config, made + 1, max_age)
<1>1. config.max_age \in Nat /\ made \in Nat /\ is_valid(config)
  BY DEF CookieInv, RefreshCookieConfig, GiveToken
<1>2. /\ max_age \in Nat \ {0}
      /\ config.max_age <= max_age /\ max_age <= config.max_age + 2
  BY <1>0, <1>1, RoundedUp
<1>3. Kept(line) /\ Key(line) = CookieKey /\ line.value = made + 1 /\ line.max_age = max_age
  BY <1>1, ValidLinesAreKept
<1>4. jar' = store(line)
  BY <1>0 DEF GiveToken, build_set_cookie
<1> HIDE DEF line
<1>5. jar' = {CookieOf(made + 1, max_age)}
  BY <1>2, <1>3, <1>4, OthersInJar DEF store, CookieOf
<1>6. /\ made' = made + 1 /\ token' = made + 1 /\ token_left' = config.max_age
  BY DEF GiveToken
<1>7. jar' = {CookieOf(token, max_age)'}
  BY <1>5, <1>6 DEF CookieOf, CookieKey
<1>8. JarHolds(max_age)'
  BY <1>2, <1>6, <1>7 DEF JarHolds
<1>9. is_policy(policy)' /\ is_valid(config)' /\ SecureIfNamedSo(config)'
  BY <1>1 DEF CookieInv
<1> QED BY <1>1, <1>2, <1>6, <1>7, <1>8, <1>9 DEF CookieInv

LEMMA SigningOutEmptiesTheJar ==
  ASSUME CookieInv, NEW page \in Pages, NEW request \in Headers(page), SignOut(page, request)
  PROVE  CookieInv'
<1> DEFINE line == Line(config, 0, 0)
<1>1. is_valid(config) /\ SecureIfNamedSo(config)
  BY DEF SignOut, Sent, CookieInv
<1>2. Kept(line) /\ Key(line) = CookieKey /\ line.max_age = 0
  BY <1>1, ValidLinesAreKept
<1>3. jar' = store(line) /\ token_left' = 0
  BY DEF SignOut, build_clear_cookie
<1> HIDE DEF line
<1>4. jar' = {}
  BY <1>2, <1>3, OthersInJar DEF store
<1>5. misjudged' = {}
  BY JudgedAsListed DEF SignOut
<1> QED BY <1>3, <1>4, <1>5 DEF SignOut, CookieInv

LEMMA TimeEndsBoth ==
  ASSUME CookieInv, HalfSecond
  PROVE  CookieInv'
<1>1. PICK left \in Nat : JarHolds(left)
  BY DEF CookieInv, HalfSecond
<1> DEFINE cookie == CookieOf(token, left)
           less == CookieOf(token, left - 1)
<1>2. /\ cookie.left = left /\ [cookie EXCEPT !.left = cookie.left - 1] = less
  BY DEF CookieOf
<1>3. jar = {cookie} /\ left > 0 /\ token_left <= left /\ left <= token_left + 2 /\ token_left \in Nat
  BY <1>1 DEF JarHolds, CookieInv
<1> HIDE DEF cookie, less
<1>4. jar' = {[c EXCEPT !.left = c.left - 1] : c \in {d \in jar : d.left > 1}}
  BY DEF HalfSecond
<1>5. /\ token_left' = IF token_left = 0 THEN 0 ELSE token_left - 1
      /\ UNCHANGED <<config, policy, token, made, misjudged>>
  BY DEF HalfSecond
<1>6. /\ is_policy(policy)' /\ (is_valid(config) => is_valid(config)')
      /\ SecureIfNamedSo(config)' = SecureIfNamedSo(config)
  BY <1>5 DEF CookieInv
<1>7. CASE left = 1
  <2>1. {d \in jar : d.left > 1} = {}
    BY <1>2, <1>3, <1>7
  <2>2. jar' = {}
    BY <1>4, <2>1
  <2> QED BY <1>3, <1>5, <1>6, <1>7, <2>2 DEF CookieInv
<1>8. CASE left # 1
  <2>1. {d \in jar : d.left > 1} = {cookie}
    BY <1>2, <1>3, <1>8
  <2>2. jar' = {less}
    BY <1>2, <1>4, <2>1
  <2>3. less = CookieOf(token, left - 1)'
    BY <1>5 DEF less, CookieOf, CookieKey
  <2>4. JarHolds(left - 1)'
    BY <1>3, <1>5, <1>8, <2>2, <2>3 DEF JarHolds
  <2>5. left - 1 \in Nat /\ token_left' \in Nat /\ jar' # {}
    BY <1>3, <1>5, <1>8, <2>2
  <2>6. is_valid(config) /\ SecureIfNamedSo(config)
    BY <1>3 DEF CookieInv
  <2> QED BY <1>5, <1>6, <2>4, <2>5, <2>6 DEF CookieInv
<1> QED BY <1>7, <1>8

LEMMA CookieInvHolds == CookieSpec => []CookieInv
<1>1. CookieInit => CookieInv
  <2> SUFFICES ASSUME CookieInit PROVE CookieInv
    OBVIOUS
  <2>1. policy.texts \in Allowlists /\ is_policy(policy)
    BY DEF CookieInit
  <2> QED BY <2>1, CookieAssumption DEF CookieInit, CookieInv
<1>2. CookieInv /\ [CookieNext]_cookieVars => CookieInv'
  <2> SUFFICES ASSUME CookieInv, [CookieNext]_cookieVars PROVE CookieInv'
    OBVIOUS
  <2>1. CASE SignIn
    BY <2>1, GivingATokenGivesItsCookie, DroppedLinesAreNotKept DEF SignIn, CookieInv
  <2>2. CASE HalfSecond
    BY <2>2, TimeEndsBoth
  <2>3. ASSUME NEW page \in Pages, NEW request \in Headers(page), Rotate(page, request)
        PROVE  CookieInv'
    BY <2>3, JudgedAsListed, GivingATokenGivesItsCookie, DroppedLinesAreNotKept DEF Rotate
  <2>4. ASSUME NEW page \in Pages, NEW request \in Headers(page), Refuse(page, request)
        PROVE  CookieInv'
    <3>1. misjudged' = {}
      BY <2>4, JudgedAsListed DEF Refuse
    <3>2. UNCHANGED <<config, policy, token, token_left, made, jar>>
      BY <2>4 DEF Refuse
    <3> QED BY <3>1, <3>2 DEF CookieInv, JarHolds, CookieOf, CookieKey
  <2>5. CASE UNCHANGED cookieVars
    BY <2>5 DEF cookieVars, CookieInv, JarHolds, CookieOf, CookieKey
  <2> QED BY <2>1, <2>2, <2>3, <2>4, <2>5, SigningOutEmptiesTheJar DEF CookieNext
<1> QED BY <1>1, <1>2, PTL DEF CookieSpec

(***************************************************************************)
(* The cookie and the session that auth-http-core gives out go together    *)
(* for every configuration it accepts whose cookie browsers keep at all,   *)
(* and it takes the requests of the pages that the deployment has listed,  *)
(* and of no others.                                                       *)
(***************************************************************************)
THEOREM CookiesStayGuarded == CookieSpec => []CookiesAreGuarded
<1>1. CookieInv => CookiesAreGuarded
  <2> SUFFICES ASSUME CookieInv PROVE CookieFollowsSession
    BY DEF CookieInv, CookiesAreGuarded, PagesJudgedAsListed
  <2>1. CASE jar = {}
    <3>1. Cardinality(jar) = 0 /\ (SecureIfNamedSo(config) => token_left = 0)
      BY <2>1, FS_EmptySet DEF CookieInv
    <3> QED BY <2>1, <3>1 DEF CookieFollowsSession
  <2>2. CASE jar # {}
    <3>1. PICK left \in Nat : JarHolds(left)
      BY <2>2 DEF CookieInv
    <3>2. jar = {CookieOf(token, left)} /\ left <= token_left + 2
      BY <3>1 DEF JarHolds
    <3>3. CookieOf(token, left).value = token /\ CookieOf(token, left).left = left
      BY DEF CookieOf
    <3>4. token \in Sent
      BY <3>2, <3>3 DEF Sent
    <3>5. Cardinality(jar) = 1
      BY <3>2, FS_Singleton
    <3> QED BY <3>2, <3>3, <3>4, <3>5 DEF CookieFollowsSession
  <2> QED BY <2>1, <2>2
<1> QED BY <1>1, CookieInvHolds, PTL

-----------------------------------------------------------------------------
(* Telemetry.  An exporter runs exactly while somebody holds it: a thread  *)
(* that initializes, a thread with its guard, or the one-time initializer. *)
(* Who initializes that one has the lock, and the others' own guards are   *)
(* still to come.                                                          *)
TelemetryTypeOK ==
  /\ once.state \in {"Empty", "Active", "Shutdown"}
  /\ own \in [Threads -> Exporters \cup {NoExporter, NoGuard}]
  /\ at \in [Threads -> [to : {"nothing", "once", "own"}, built : Exporters \cup {NoExporter}]]
  /\ exporter \in [Exporters -> {"unbuilt", "running", "dropped", "stopped"}]
  /\ stops \in [Exporters -> Nat]

Holds(t, e) == own[t] = e \/ at[t].built = e

HeldOnce(e) ==
  /\ \A t \in Threads : ~(own[t] = e /\ at[t].built = e)
  /\ \A t, u \in Threads : Holds(t, e) /\ Holds(u, e) => t = u
  /\ once.guard = e => /\ \A t \in Threads : ~Holds(t, e)
                       /\ once.state = "Active" /\ subscriber = e
  /\ exporter[e] = "running" <=> once.guard = e \/ \E t \in Threads : Holds(t, e)
  /\ stops[e] = IF exporter[e] = "stopped" THEN 1 ELSE 0

Initializes(t) ==
  /\ at[t].to = "nothing" => at[t].built = NoExporter
  /\ at[t].to = "once" => lock = t /\ once.state = "Empty"
  /\ at[t].to = "own" => own[t] = NoGuard

TelemetryInv ==
  /\ TelemetryTypeOK
  /\ once.state = "Empty" => once.guard = NoGuard
  /\ \A e \in Exporters : HeldOnce(e)
  /\ \A t \in Threads : Initializes(t)

-----------------------------------------------------------------------------
(* A thread at work is about to, or not. *)
LEMMA StepOfThread ==
  ASSUME TelemetryInv, NEW t \in Threads
  PROVE  /\ at[t].to \in {"nothing", "once", "own"} /\ at[t].built \in Exporters \cup {NoExporter}
         /\ own[t] \in Exporters \cup {NoExporter, NoGuard}
         /\ at[t] = [to |-> at[t].to, built |-> at[t].built]
         /\ at[t].to = "nothing" <=> at[t] = NotThere
<1>1. at[t] \in [to : {"nothing", "once", "own"}, built : Exporters \cup {NoExporter}]
  BY DEF TelemetryInv, TelemetryTypeOK
<1>2. at[t].to = "nothing" => at[t].built = NoExporter
  BY DEF TelemetryInv, Initializes
<1> QED BY <1>1, <1>2 DEF TelemetryInv, TelemetryTypeOK, NotThere

LEMMA InitOnceKeepsExporters ==
  ASSUME TelemetryInv, NEW t \in Threads, InitOnce(t)
  PROVE  TelemetryInv'
<1>1. /\ at[t].to = "nothing" /\ at[t].built = NoExporter /\ lock = NoGuard
      /\ once.state = "Empty" /\ lock' = t
      /\ once' = once /\ own' = own /\ subscriber' = subscriber
      /\ exporter' = exporter /\ stops' = stops
  BY DEF InitOnce, NotThere
<1>2. /\ at' \in [Threads -> [to : {"nothing", "once", "own"}, built : Exporters \cup {NoExporter}]]
      /\ \A u \in Threads : /\ at'[u].built = at[u].built
                            /\ at'[u].to = IF u = t THEN "once" ELSE at[u].to
  BY DEF TelemetryInv, TelemetryTypeOK, InitOnce
<1>3. TelemetryTypeOK' /\ (once'.state = "Empty" => once'.guard = NoGuard)
  BY <1>1, <1>2 DEF TelemetryInv, TelemetryTypeOK
<1>4. ASSUME NEW e \in Exporters PROVE HeldOnce(e)'
  BY <1>1, <1>2 DEF TelemetryInv, HeldOnce, Holds
<1>5. ASSUME NEW u \in Threads PROVE Initializes(u)'
  BY <1>1, <1>2, TelemetryAssumption DEF TelemetryInv, Initializes
<1> QED BY <1>3, <1>4, <1>5 DEF TelemetryInv

LEMMA InitOwnKeepsExporters ==
  ASSUME TelemetryInv, NEW t \in Threads, InitOwn(t)
  PROVE  TelemetryInv'
<1>1. /\ at[t].to = "nothing" /\ at[t].built = NoExporter /\ own[t] = NoGuard /\ lock' = lock
      /\ once' = once /\ own' = own /\ subscriber' = subscriber
      /\ exporter' = exporter /\ stops' = stops
  BY DEF InitOwn, NotThere
<1>2. /\ at' \in [Threads -> [to : {"nothing", "once", "own"}, built : Exporters \cup {NoExporter}]]
      /\ \A u \in Threads : /\ at'[u].built = at[u].built
                            /\ at'[u].to = IF u = t THEN "own" ELSE at[u].to
  BY DEF TelemetryInv, TelemetryTypeOK, InitOwn
<1>3. TelemetryTypeOK' /\ (once'.state = "Empty" => once'.guard = NoGuard)
  BY <1>1, <1>2 DEF TelemetryInv, TelemetryTypeOK
<1>4. ASSUME NEW e \in Exporters PROVE HeldOnce(e)'
  BY <1>1, <1>2 DEF TelemetryInv, HeldOnce, Holds
<1>5. ASSUME NEW u \in Threads PROVE Initializes(u)'
  BY <1>1, <1>2 DEF TelemetryInv, Initializes
<1> QED BY <1>3, <1>4, <1>5 DEF TelemetryInv

LEMMA BuildKeepsExporters ==
  ASSUME TelemetryInv, NEW t \in Threads, NEW built \in Exporters, Build(t, built)
  PROVE  TelemetryInv'
<1>1. /\ at[t].to # "nothing" /\ at[t].built = NoExporter /\ exporter[built] = "unbuilt"
      /\ once' = once /\ own' = own /\ lock' = lock /\ subscriber' = subscriber
      /\ stops' = stops
  BY DEF Build
<1>2. /\ at' \in [Threads -> [to : {"nothing", "once", "own"}, built : Exporters \cup {NoExporter}]]
      /\ \A u \in Threads : /\ at'[u].to = at[u].to
                            /\ at'[u].built = IF u = t THEN built ELSE at[u].built
  BY DEF TelemetryInv, TelemetryTypeOK, Build
<1>3. /\ exporter' \in [Exporters -> {"unbuilt", "running", "dropped", "stopped"}]
      /\ \A e \in Exporters : exporter'[e] = IF e = built THEN "running" ELSE exporter[e]
  BY DEF TelemetryInv, TelemetryTypeOK, Build
<1>4. TelemetryTypeOK' /\ (once'.state = "Empty" => once'.guard = NoGuard)
  BY <1>1, <1>2, <1>3 DEF TelemetryInv, TelemetryTypeOK
<1>5. ASSUME NEW e \in Exporters PROVE HeldOnce(e)'
  <2>1. HeldOnce(e)
    BY DEF TelemetryInv
  <2>2. CASE e = built
    <3>1. stops[e] = 0 /\ once.guard # e /\ \A u \in Threads : ~Holds(u, e)
      BY <1>1, <2>1, <2>2 DEF HeldOnce
    <3>2. \A u \in Threads : own[u] # e /\ (at'[u].built = e <=> u = t)
      BY <1>2, <2>2, <3>1 DEF Holds
    <3> QED BY <1>1, <1>3, <2>2, <3>1, <3>2 DEF HeldOnce, Holds
  <2>3. CASE e # built
    <3>1. \A u \in Threads : at'[u].built = e <=> at[u].built = e
      BY <1>1, <1>2, <2>3, TelemetryAssumption
    <3> QED BY <1>1, <1>3, <2>1, <2>3, <3>1 DEF HeldOnce, Holds
  <2> QED BY <2>2, <2>3
<1>6. ASSUME NEW u \in Threads PROVE Initializes(u)'
  BY <1>1, <1>2 DEF TelemetryInv, Initializes
<1> QED BY <1>4, <1>5, <1>6 DEF TelemetryInv

(* A thread's initialization ends, and what it built goes on into the      *)
(* guard or is dropped.                                                    *)
LEMMA ReturnKeepsExporters ==
  ASSUME TelemetryInv, NEW t \in Threads, at[t].to # "nothing",
         Return(t, at[t].built),
         at[t].built \in Exporters => subscriber' = at[t].built,
         subscriber # "none" => subscriber' = subscriber,
         exporter' = exporter, stops' = stops
  PROVE  TelemetryInv'
<1> DEFINE guard == at[t].built
<1>1. guard \in Exporters \cup {NoExporter} /\ at[t].to \in {"once", "own"}
  BY StepOfThread
<1>2. /\ at' \in [Threads -> [to : {"nothing", "once", "own"}, built : Exporters \cup {NoExporter}]]
      /\ \A u \in Threads : /\ at'[u].to = IF u = t THEN "nothing" ELSE at[u].to
                            /\ at'[u].built = IF u = t THEN NoExporter ELSE at[u].built
  BY DEF TelemetryInv, TelemetryTypeOK, Return, NotThere
<1>3. \A u \in Threads \ {t} : lock = u => lock' = u
  BY DEF Return, Unlock
<1>4. ASSUME NEW e \in Exporters PROVE HeldOnce(e)
  BY DEF TelemetryInv
<1>5. ASSUME NEW u \in Threads PROVE Initializes(u)
  BY DEF TelemetryInv
<1>6. CASE at[t].to = "once"
  <2>1. /\ once'.state = "Active" /\ once'.guard = guard /\ own' = own
        /\ lock = t /\ once.state = "Empty" /\ once.guard = NoGuard
    BY <1>5, <1>6 DEF Return, Initializes, TelemetryInv
  <2>2. TelemetryTypeOK'
    BY <1>2, <2>1 DEF TelemetryInv, TelemetryTypeOK
  <2>3. ASSUME NEW e \in Exporters PROVE HeldOnce(e)'
    <3>1. e # NoExporter /\ e # NoGuard
      BY TelemetryAssumption
    <3>2. CASE e = guard
      <4>1. \A u \in Threads : own'[u] # e /\ at'[u].built # e
        BY <1>2, <1>4, <2>1, <3>1, <3>2 DEF HeldOnce, Holds
      <4>2. exporter[e] = "running"
        BY <1>4, <3>2 DEF HeldOnce, Holds
      <4> QED BY <1>4, <2>1, <3>2, <4>1, <4>2 DEF HeldOnce, Holds
    <3>3. CASE e # guard
      <4>1. \A u \in Threads : own'[u] = own[u] /\ (at'[u].built = e <=> at[u].built = e)
        BY <1>2, <2>1, <3>1, <3>3
      <4>2. once.guard # e /\ once'.guard # e
        BY <2>1, <3>1, <3>3
      <4> QED BY <1>4, <4>1, <4>2 DEF HeldOnce, Holds
    <3> QED BY <3>2, <3>3
  <2>4. ASSUME NEW u \in Threads PROVE Initializes(u)'
    <3>1. u # t => at[u].to # "once"
      BY <1>5, <2>1 DEF Initializes
    <3> QED BY <1>2, <1>5, <2>1, <3>1 DEF Initializes
  <2> QED BY <2>1, <2>2, <2>3, <2>4 DEF TelemetryInv
<1>7. CASE at[t].to = "own"
  <2>1. once' = once /\ own' = [own EXCEPT ![t] = guard] /\ own[t] = NoGuard
    BY <1>5, <1>7 DEF Return, Initializes
  <2> HIDE DEF guard
  <2>2. /\ own' \in [Threads -> Exporters \cup {NoExporter, NoGuard}]
        /\ \A u \in Threads : own'[u] = IF u = t THEN guard ELSE own[u]
    BY <1>1, <2>1 DEF TelemetryInv, TelemetryTypeOK
  <2>3. TelemetryTypeOK'
    BY <1>2, <2>1, <2>2 DEF TelemetryInv, TelemetryTypeOK
  <2>4. ASSUME NEW e \in Exporters PROVE HeldOnce(e)'
    <3>1. e # NoExporter /\ e # NoGuard
      BY TelemetryAssumption
    <3>2. \A u \in Threads : (own'[u] = e \/ at'[u].built = e) <=> (own[u] = e \/ at[u].built = e)
      BY <1>2, <2>1, <2>2, <3>1 DEF guard
    <3>3. \A u \in Threads : ~(own'[u] = e /\ at'[u].built = e)
      BY <1>2, <1>4, <2>2, <3>1 DEF HeldOnce
    <3>4. once.guard = e => subscriber' = e
      BY <1>4, TelemetryAssumption DEF HeldOnce
    <3> QED BY <1>4, <2>1, <3>2, <3>3, <3>4 DEF HeldOnce, Holds
  <2>5. ASSUME NEW u \in Threads PROVE Initializes(u)'
    BY <1>2, <1>3, <1>5, <2>1, <2>2 DEF Initializes
  <2> QED BY <2>1, <2>3, <2>4, <2>5 DEF TelemetryInv
<1> QED BY <1>1, <1>6, <1>7

LEMMA ErrorKeepsExporters ==
  ASSUME TelemetryInv, NEW t \in Threads, at[t].to # "nothing", ReturnError(t),
         exporter' \in [Exporters -> {"unbuilt", "running", "dropped", "stopped"}],
         \A e \in Exporters :
           exporter'[e] = IF e = at[t].built THEN "dropped" ELSE exporter[e],
         subscriber' = subscriber, stops' = stops
  PROVE  TelemetryInv'
<1>1. /\ at' \in [Threads -> [to : {"nothing", "once", "own"}, built : Exporters \cup {NoExporter}]]
      /\ \A u \in Threads : /\ at'[u].to = IF u = t THEN "nothing" ELSE at[u].to
                            /\ at'[u].built = IF u = t THEN NoExporter ELSE at[u].built
  BY DEF TelemetryInv, TelemetryTypeOK, ReturnError, NotThere
<1>2. once' = once /\ own' = own /\ \A u \in Threads \ {t} : lock = u => lock' = u
  BY DEF ReturnError, Unlock
<1>3. TelemetryTypeOK' /\ (once'.state = "Empty" => once'.guard = NoGuard)
  BY <1>1, <1>2 DEF TelemetryInv, TelemetryTypeOK
<1>4. ASSUME NEW e \in Exporters PROVE HeldOnce(e)'
  <2>1. HeldOnce(e) /\ e # NoExporter
    BY TelemetryAssumption DEF TelemetryInv
  <2>2. CASE e = at[t].built
    <3>1. /\ exporter[e] = "running" /\ stops[e] = 0
          /\ once.guard # e /\ own[t] # e /\ \A u \in Threads : Holds(u, e) => u = t
      BY <2>1, <2>2 DEF HeldOnce, Holds
    <3>2. \A u \in Threads : own'[u] # e /\ at'[u].built # e
      BY <1>1, <1>2, <2>1, <3>1 DEF Holds
    <3> QED BY <1>2, <2>2, <3>1, <3>2 DEF HeldOnce, Holds
  <2>3. CASE e # at[t].built
    <3>1. \A u \in Threads : at'[u].built = e <=> at[u].built = e
      BY <1>1, <2>1, <2>3
    <3> QED BY <1>2, <2>1, <2>3, <3>1 DEF HeldOnce, Holds
  <2> QED BY <2>2, <2>3
<1>5. ASSUME NEW u \in Threads PROVE Initializes(u)'
  BY <1>1, <1>2 DEF TelemetryInv, Initializes
<1> QED BY <1>3, <1>4, <1>5 DEF TelemetryInv

LEMMA StartKeepsExporters ==
  ASSUME TelemetryInv, NEW t \in Threads, StartLocal(t) \/ StartFails(t) \/ Install(t)
  PROVE  TelemetryInv'
<1>1. exporter \in [Exporters -> {"unbuilt", "running", "dropped", "stopped"}]
  BY DEF TelemetryInv, TelemetryTypeOK
<1>2. ASSUME at[t].built = NoExporter, exporter' = exporter
      PROVE  \A e \in Exporters :
               exporter'[e] = IF e = at[t].built THEN "dropped" ELSE exporter[e]
  BY <1>2, TelemetryAssumption
<1>3. CASE StartFails(t)
  BY <1>1, <1>2, <1>3, ErrorKeepsExporters DEF StartFails
<1>4. CASE StartLocal(t) /\ subscriber # "none"
  BY <1>1, <1>2, <1>4, ErrorKeepsExporters DEF StartLocal, init_local_subscriber
<1>5. CASE StartLocal(t) /\ subscriber = "none"
  BY <1>5, ReturnKeepsExporters, TelemetryAssumption DEF StartLocal, init_local_subscriber
<1>6. Install(t) => at[t].to # "nothing"
  BY DEF Install, TelemetryInv, Initializes
<1>7. CASE Install(t) /\ subscriber = "none"
  BY <1>6, <1>7, ReturnKeepsExporters DEF Install
<1>8. CASE Install(t) /\ subscriber # "none"
  <2>1. /\ exporter' = [exporter EXCEPT ![at[t].built] = "dropped"] /\ ReturnError(t)
        /\ subscriber' = subscriber /\ stops' = stops
    BY <1>8 DEF Install
  <2>2. /\ exporter' \in [Exporters -> {"unbuilt", "running", "dropped", "stopped"}]
        /\ \A e \in Exporters :
             exporter'[e] = IF e = at[t].built THEN "dropped" ELSE exporter[e]
    BY <1>1, <2>1
  <2> QED BY <1>6, <1>8, <2>1, <2>2, ErrorKeepsExporters
<1> QED BY <1>3, <1>4, <1>5, <1>7, <1>8

-----------------------------------------------------------------------------
(* A guard is given up, and with it its exporter. *)
LEMMA StoppedOnce ==
  ASSUME TelemetryInv, NEW guard,
         exporter' \in [Exporters -> {"unbuilt", "running", "dropped", "stopped"}],
         stops' \in [Exporters -> Nat],
         \A e \in Exporters :
           /\ exporter'[e] = IF e = guard THEN "stopped" ELSE exporter[e]
           /\ stops'[e] = IF e = guard THEN stops[e] + 1 ELSE stops[e],
         NEW e \in Exporters, at' = at,
         e = guard => /\ exporter[e] = "running"
                      /\ once'.guard # e /\ \A t \in Threads : own'[t] # e /\ at[t].built # e,
         e # guard => /\ once'.guard = e <=> once.guard = e
                      /\ once'.guard = e => once'.state = once.state
                      /\ \A t \in Threads : own'[t] = e <=> own[t] = e,
         subscriber' = subscriber
  PROVE  HeldOnce(e)'
<1>1. HeldOnce(e)
  BY DEF TelemetryInv
<1>2. CASE e = guard
  BY <1>1, <1>2 DEF HeldOnce, Holds
<1>3. CASE e # guard
  BY <1>1, <1>3 DEF HeldOnce, Holds
<1> QED BY <1>2, <1>3

LEMMA ShutdownOnceKeepsExporters ==
  ASSUME TelemetryInv, NEW t \in Threads, ShutdownOnce(t)
  PROVE  TelemetryInv'
<1> DEFINE guard == once.guard
<1>1. /\ once'.state = "Shutdown" /\ once'.guard = NoGuard /\ lock = NoGuard
      /\ lock' = lock /\ own' = own /\ at' = at /\ subscriber' = subscriber
  BY DEF ShutdownOnce
<1>2. \A e \in Exporters : e # NoExporter /\ e # NoGuard
  BY TelemetryAssumption
<1>3. stops \in [Exporters -> Nat]
  BY DEF TelemetryInv, TelemetryTypeOK
<1>4. /\ exporter' = [e \in Exporters |-> IF e \in {guard, NoExporter} THEN "stopped" ELSE exporter[e]]
      /\ stops' = [e \in Exporters |-> stops[e] + (IF e = guard THEN 1 ELSE 0)
                                                + (IF e = NoExporter THEN 1 ELSE 0)]
  BY DEF ShutdownOnce, StopAndDrop, after_shutdown
<1> HIDE DEF guard
<1>5. /\ exporter' \in [Exporters -> {"unbuilt", "running", "dropped", "stopped"}]
      /\ stops' \in [Exporters -> Nat]
      /\ \A e \in Exporters :
           /\ exporter'[e] = IF e = guard THEN "stopped" ELSE exporter[e]
           /\ stops'[e] = IF e = guard THEN stops[e] + 1 ELSE stops[e]
  BY <1>2, <1>3, <1>4 DEF TelemetryInv, TelemetryTypeOK
<1>6. TelemetryTypeOK'
  BY <1>1, <1>5 DEF TelemetryInv, TelemetryTypeOK
<1>7. ASSUME NEW e \in Exporters PROVE HeldOnce(e)'
  <2>1. HeldOnce(e)
    BY DEF TelemetryInv
  <2>2. e = guard => /\ exporter[e] = "running"
                     /\ once'.guard # e /\ \A u \in Threads : own'[u] # e /\ at[u].built # e
    BY <1>1, <1>2, <2>1 DEF HeldOnce, Holds, guard
  <2>3. e # guard => /\ once'.guard = e <=> once.guard = e
                     /\ once'.guard = e => once'.state = once.state
                     /\ \A u \in Threads : own'[u] = e <=> own[u] = e
    BY <1>1, <1>2 DEF guard
  <2> QED BY <1>1, <1>5, <2>2, <2>3, StoppedOnce
<1>8. ASSUME NEW u \in Threads PROVE Initializes(u)'
  <2>1. at[u].to # "once"
    BY <1>1, TelemetryAssumption DEF TelemetryInv, Initializes
  <2> QED BY <1>1, <2>1 DEF TelemetryInv, Initializes
<1> QED BY <1>1, <1>6, <1>7, <1>8 DEF TelemetryInv

LEMMA OwnGuardKeepsExporters ==
  ASSUME TelemetryInv, NEW t \in Threads, ShutdownOwn(t) \/ DropOwn(t)
  PROVE  TelemetryInv'
<1> DEFINE guard == own[t]
<1>1. PICK left \in {NoExporter, NoGuard} : own' = [own EXCEPT ![t] = left]
  BY DEF ShutdownOwn, DropOwn, after_shutdown
<1>2. /\ at[t] = NotThere /\ Stop(guard)
      /\ once' = once /\ lock' = lock /\ at' = at /\ subscriber' = subscriber
  BY DEF ShutdownOwn, DropOwn
<1>3. \A e \in Exporters : e # NoExporter /\ e # NoGuard
  BY TelemetryAssumption
<1>4. at[t].to = "nothing" /\ at[t].built = NoExporter
  BY <1>2 DEF NotThere
<1>5. /\ own' \in [Threads -> Exporters \cup {NoExporter, NoGuard}]
      /\ \A u \in Threads : own'[u] = IF u = t THEN left ELSE own[u]
  BY <1>1 DEF TelemetryInv, TelemetryTypeOK
<1>6. stops \in [Exporters -> Nat]
  BY DEF TelemetryInv, TelemetryTypeOK
<1>7. /\ exporter' = [e \in Exporters |-> IF e = guard THEN "stopped" ELSE exporter[e]]
      /\ stops' = [e \in Exporters |-> IF e = guard THEN stops[e] + 1 ELSE stops[e]]
  BY <1>2 DEF Stop
<1> HIDE DEF guard
<1>8. /\ exporter' \in [Exporters -> {"unbuilt", "running", "dropped", "stopped"}]
      /\ stops' \in [Exporters -> Nat]
      /\ \A e \in Exporters :
           /\ exporter'[e] = IF e = guard THEN "stopped" ELSE exporter[e]
           /\ stops'[e] = IF e = guard THEN stops[e] + 1 ELSE stops[e]
  BY <1>6, <1>7 DEF TelemetryInv, TelemetryTypeOK
<1>9. TelemetryTypeOK'
  BY <1>2, <1>5, <1>8 DEF TelemetryInv, TelemetryTypeOK
<1>10. ASSUME NEW e \in Exporters PROVE HeldOnce(e)'
  <2>1. HeldOnce(e)
    BY DEF TelemetryInv
  <2>2. ASSUME e = guard
        PROVE  /\ exporter[e] = "running"
               /\ once'.guard # e /\ \A u \in Threads : own'[u] # e /\ at[u].built # e
    <3>1. Holds(t, e) /\ exporter[e] = "running" /\ once.guard # e
      BY <2>1, <2>2 DEF HeldOnce, Holds, guard
    <3>2. \A u \in Threads : own[u] = e \/ at[u].built = e => u = t
      BY <2>1, <3>1 DEF HeldOnce, Holds
    <3> QED BY <1>2, <1>3, <1>4, <1>5, <3>1, <3>2
  <2>3. ASSUME e # guard
        PROVE  /\ once'.guard = e <=> once.guard = e
               /\ once'.guard = e => once'.state = once.state
               /\ \A u \in Threads : own'[u] = e <=> own[u] = e
    BY <1>2, <1>3, <1>5, <2>3 DEF guard
  <2> QED BY <1>2, <1>8, <2>2, <2>3, StoppedOnce
<1>11. ASSUME NEW u \in Threads PROVE Initializes(u)'
  BY <1>2, <1>4, <1>5 DEF TelemetryInv, Initializes
<1> QED BY <1>2, <1>9, <1>10, <1>11 DEF TelemetryInv

LEMMA TelemetryInvHolds == TelemetrySpec => []TelemetryInv
<1>1. TelemetryInit => TelemetryInv
  <2> SUFFICES ASSUME TelemetryInit PROVE TelemetryInv
    OBVIOUS
  <2>1. \A t \in Threads : own[t] = NoGuard /\ at[t] = NotThere
    BY DEF TelemetryInit
  <2>2. \A t \in Threads : at[t].to = "nothing" /\ at[t].built = NoExporter
    BY <2>1 DEF NotThere
  <2>3. \A e \in Exporters : exporter[e] = "unbuilt" /\ stops[e] = 0 /\ once.guard # e
    BY TelemetryAssumption DEF TelemetryInit
  <2>4. \A e \in Exporters : HeldOnce(e)
    BY <2>1, <2>2, <2>3, TelemetryAssumption DEF HeldOnce, Holds
  <2>5. TelemetryTypeOK
    BY DEF TelemetryInit, TelemetryTypeOK, NotThere
  <2> QED BY <2>2, <2>4, <2>5 DEF TelemetryInit, TelemetryInv, Initializes
<1>2. TelemetryInv /\ [TelemetryNext]_telemetryVars => TelemetryInv'
  <2> SUFFICES ASSUME TelemetryInv, [TelemetryNext]_telemetryVars PROVE TelemetryInv'
    OBVIOUS
  <2>1. CASE TelemetryNext
    BY <2>1, InitOnceKeepsExporters, InitOwnKeepsExporters, StartKeepsExporters,
       BuildKeepsExporters, ShutdownOnceKeepsExporters, OwnGuardKeepsExporters DEF TelemetryNext
  <2>2. CASE UNCHANGED telemetryVars
    BY <2>2 DEF telemetryVars, TelemetryInv, TelemetryTypeOK, HeldOnce, Holds, Initializes
  <2> QED BY <2>1, <2>2
<1> QED BY <1>1, <1>2, PTL DEF TelemetrySpec

(***************************************************************************)
(* world-telemetry shuts no exporter down twice, and leaves none running   *)
(* without the guard that will shut it down, whatever threads initialize   *)
(* and shut down in whatever order.                                        *)
(***************************************************************************)
THEOREM ExportersStopOnce == TelemetrySpec => []ExportersStoppedOnce
<1>1. TelemetryInv => ExportersStoppedOnce
  <2> SUFFICES ASSUME TelemetryInv, NEW e \in Exporters
               PROVE  /\ stops[e] <= 1
                      /\ exporter[e] = "running" =>
                           Cardinality(Holders(e)) + (IF once.guard = e THEN 1 ELSE 0) = 1
                      /\ once.guard = e => once.state = "Active" /\ subscriber = e
    BY DEF ExportersStoppedOnce
  <2>1. HeldOnce(e)
    BY DEF TelemetryInv
  <2>2. ASSUME exporter[e] = "running", once.guard = e
        PROVE  Cardinality(Holders(e)) = 0
    <3>1. Holders(e) = {}
      BY <2>1, <2>2 DEF HeldOnce, Holds, Holders
    <3> QED BY <3>1, FS_EmptySet
  <2>3. ASSUME exporter[e] = "running", once.guard # e
        PROVE  Cardinality(Holders(e)) = 1
    <3>1. PICK t \in Threads : Holds(t, e)
      BY <2>1, <2>3 DEF HeldOnce
    <3>2. Holders(e) = {t}
      BY <2>1, <3>1 DEF HeldOnce, Holds, Holders
    <3> QED BY <3>2, FS_Singleton
  <2>4. stops[e] <= 1
    BY <2>1 DEF HeldOnce
  <2> QED BY <2>1, <2>2, <2>3, <2>4 DEF HeldOnce
<1> QED BY <1>1, TelemetryInvHolds, PTL

(* Sequences and what is left of them. *)
LEMMA FirstElements ==
  ASSUME NEW S, NEW s \in Seq(S), NEW n \in 0..Len(s)
  PROVE  /\ SubSeq(s, 1, n) \in Seq(S) /\ Len(SubSeq(s, 1, n)) = n
         /\ \A i \in 1..n : SubSeq(s, 1, n)[i] = s[i]
<1>1. Len(s) \in Nat /\ \A i \in 1..n : s[i] \in S
  BY LenProperties, ElementOfSeq
<1>2. /\ SubSeq(s, 1, n) \in Seq(S)
      /\ Len(SubSeq(s, 1, n)) = IF 1 <= n THEN n - 1 + 1 ELSE 0
      /\ \A i \in 1..(n - 1 + 1) : SubSeq(s, 1, n)[i] = s[1 + i - 1]
  BY <1>1, SubSeqProperties
<1>3. n \in Nat /\ n - 1 + 1 = n
  BY <1>1
<1>4. ASSUME NEW i \in 1..n PROVE SubSeq(s, 1, n)[i] = s[i]
  <2>1. 1 + i - 1 = i
    OBVIOUS
  <2> QED BY <1>2, <1>3, <2>1
<1> QED BY <1>2, <1>3, <1>4

-----------------------------------------------------------------------------
(* Environment variables.  The first guard of a variable holds what the    *)
(* variable was before the test, or nothing where that is no Unicode.      *)
VariableValues == EnvValues \cup {Undefined, NotUnicode}
Guard == [key : Variables, previous : VariableValues]

EnvTypeOK ==
  /\ inherited \in [Variables -> VariableValues]
  /\ env \in [Variables -> VariableValues]
  /\ guards \in Seq(Guard)

FirstOf(v, i) ==
  guards[i].key = v /\ \A j \in 1..(i - 1) : guards[j].key # v

EnvInv ==
  /\ EnvTypeOK
  /\ \A v \in Variables :
       /\ \A i \in 1..Len(guards) : FirstOf(v, i) => guards[i].previous = var(inherited[v])
                                                       \/ inherited[v] = NotUnicode
       /\ (\A i \in 1..Len(guards) : guards[i].key # v)
            => env[v] = inherited[v] \/ inherited[v] = NotUnicode

LEMMA SettingKeepsTheFirst ==
  ASSUME EnvInv, NEW key \in Variables, NEW value \in EnvValues \cup {Undefined},
         set_optional(key, value)
  PROVE  EnvInv'
<1> DEFINE guard == [key |-> key, previous |-> var(env[key])]
<1>1. /\ env[key] \in VariableValues /\ var(env[key]) \in VariableValues
      /\ guard.key = key /\ guard.previous = var(env[key])
      /\ guard \in Guard
  BY DEF EnvInv, EnvTypeOK, var, VariableValues, Guard
<1>2. guards' = Append(guards, guard) /\ inherited' = inherited
      /\ env' = [env EXCEPT ![key] = value]
  BY DEF set_optional
<1> HIDE DEF guard
<1>3. EnvTypeOK'
  BY <1>1, <1>2 DEF EnvInv, EnvTypeOK, VariableValues
<1>4. /\ Len(guards) \in Nat /\ Len(guards') = Len(guards) + 1
      /\ guards'[Len(guards) + 1] = guard
      /\ \A i \in 1..Len(guards) : guards'[i] = guards[i]
  BY <1>1, <1>2 DEF EnvInv, EnvTypeOK
<1>5. ASSUME NEW v \in Variables
      PROVE  /\ \A i \in 1..Len(guards') : FirstOf(v, i)'
                   => guards'[i].previous = var(inherited[v]) \/ inherited[v] = NotUnicode
             /\ (\A i \in 1..Len(guards') : guards'[i].key # v)
                   => env'[v] = inherited[v] \/ inherited[v] = NotUnicode
  <2>1. ASSUME NEW i \in 1..Len(guards'), FirstOf(v, i)'
        PROVE  guards'[i].previous = var(inherited[v]) \/ inherited[v] = NotUnicode
    <3>1. \A j \in 1..(i - 1) : j \in 1..Len(guards) /\ guards[j].key # v
      BY <1>4, <2>1 DEF FirstOf
    <3>2. CASE i \in 1..Len(guards)
      BY <1>4, <2>1, <3>1, <3>2 DEF FirstOf, EnvInv
    <3>3. CASE i = Len(guards) + 1
      <4>1. v = key /\ \A j \in 1..Len(guards) : guards[j].key # v
        BY <1>1, <1>4, <2>1, <3>1, <3>3 DEF FirstOf
      <4>2. env[v] = inherited[v] \/ inherited[v] = NotUnicode
        BY <4>1 DEF EnvInv
      <4> QED BY <1>1, <1>4, <3>3, <4>1, <4>2
    <3> QED BY <1>4, <3>2, <3>3
  <2>2. ASSUME \A i \in 1..Len(guards') : guards'[i].key # v
        PROVE  env'[v] = inherited[v] \/ inherited[v] = NotUnicode
    <3>1. v # key /\ \A i \in 1..Len(guards) : guards[i].key # v
      BY <1>1, <1>4, <2>2
    <3>2. env'[v] = env[v]
      BY <1>2, <3>1 DEF EnvInv, EnvTypeOK
    <3> QED BY <3>1, <3>2 DEF EnvInv
  <2> QED BY <2>1, <2>2
<1> QED BY <1>2, <1>3, <1>5 DEF EnvInv

LEMMA DroppingGivesBack ==
  ASSUME EnvInv, DropGuard
  PROVE  EnvInv'
<1> DEFINE n == Len(guards)
<1>1. n \in Nat \ {0} /\ guards[n].key \in Variables
      /\ guards[n].previous \in VariableValues
  <2>1. guards \in Seq(Guard)
    BY DEF EnvInv, EnvTypeOK
  <2>2. n \in Nat \ {0}
    BY <2>1, EmptySeq DEF DropGuard
  <2>3. guards[n] \in Guard
    BY <2>1, <2>2, ElementOfSeq
  <2> QED BY <2>2, <2>3 DEF Guard
<1>2. env' = [env EXCEPT ![guards[n].key] = guards[n].previous] /\ inherited' = inherited
  BY DEF DropGuard, next_dropped
<1>3. /\ guards' \in Seq(Guard)
      /\ Len(guards') = n - 1
      /\ \A i \in 1..(n - 1) : guards'[i] = guards[i]
  <2> DEFINE left == SubSeq(guards, 1, n - 1)
  <2>1. guards' = left \o SubSeq(guards, n + 1, n)
    BY DEF DropGuard, next_dropped
  <2>2. guards \in Seq(Guard)
    BY DEF EnvInv, EnvTypeOK
  <2>3. /\ left \in Seq(Guard) /\ Len(left) = n - 1
        /\ \A i \in 1..(n - 1) : left[i] = guards[i]
    <3>1. n - 1 \in 0..Len(guards)
      BY <1>1
    <3> QED BY <2>2, <3>1, FirstElements
  <2>4. SubSeq(guards, n + 1, n) = <<>>
    BY <1>1, SubSeqEmpty
  <2>5. guards' = left
    BY <2>1, <2>3, <2>4, ConcatEmptySeq
  <2> QED BY <2>3, <2>5
<1>4. EnvTypeOK'
  BY <1>1, <1>2, <1>3 DEF EnvInv, EnvTypeOK, VariableValues
<1>5. ASSUME NEW v \in Variables
      PROVE  /\ \A i \in 1..Len(guards') : FirstOf(v, i)'
                   => guards'[i].previous = var(inherited[v]) \/ inherited[v] = NotUnicode
             /\ (\A i \in 1..Len(guards') : guards'[i].key # v)
                   => env'[v] = inherited[v] \/ inherited[v] = NotUnicode
  <2>1. ASSUME NEW i \in 1..Len(guards'), FirstOf(v, i)'
        PROVE  guards'[i].previous = var(inherited[v]) \/ inherited[v] = NotUnicode
    <3>1. i \in 1..n /\ FirstOf(v, i)
      BY <1>1, <1>3, <2>1 DEF FirstOf
    <3> QED BY <1>3, <2>1, <3>1 DEF EnvInv
  <2>2. ASSUME \A i \in 1..Len(guards') : guards'[i].key # v
        PROVE  env'[v] = inherited[v] \/ inherited[v] = NotUnicode
    <3>1. \A i \in 1..(n - 1) : guards[i].key # v
      BY <1>1, <1>3, <2>2
    <3>2. CASE guards[n].key = v
      <4>1. FirstOf(v, n)
        BY <3>1, <3>2 DEF FirstOf
      <4>2. guards[n].previous = var(inherited[v]) \/ inherited[v] = NotUnicode
        BY <1>1, <4>1 DEF EnvInv
      <4>3. env'[v] = guards[n].previous
        BY <1>2, <3>2 DEF EnvInv, EnvTypeOK
      <4> QED BY <4>2, <4>3 DEF var
    <3>3. CASE guards[n].key # v
      <4>1. env'[v] = env[v]
        BY <1>2, <3>3 DEF EnvInv, EnvTypeOK
      <4>2. \A i \in 1..n : guards[i].key # v
        BY <1>1, <3>1, <3>3
      <4> QED BY <4>1, <4>2 DEF EnvInv
    <3> QED BY <3>2, <3>3
  <2> QED BY <2>1, <2>2
<1> QED BY <1>2, <1>4, <1>5 DEF EnvInv

LEMMA EnvInvHolds == EnvSpec => []EnvInv
<1>1. EnvInit => EnvInv
  BY DEF EnvInit, EnvInv, EnvTypeOK, VariableValues
<1>2. EnvInv /\ [EnvNext]_envVars => EnvInv'
  <2> SUFFICES ASSUME EnvInv, [EnvNext]_envVars PROVE EnvInv'
    OBVIOUS
  <2>1. CASE EnvNext
    BY <2>1, SettingKeepsTheFirst, DroppingGivesBack DEF EnvNext
  <2>2. CASE UNCHANGED envVars
    BY <2>2 DEF envVars, EnvInv, EnvTypeOK, FirstOf
  <2> QED BY <2>1, <2>2
<1> QED BY <1>1, <1>2, PTL DEF EnvSpec

THEOREM VariablesAreGivenBack == EnvSpec => []VariablesGivenBack
<1>1. EnvInv => VariablesGivenBack
  <2> SUFFICES ASSUME EnvInv, guards = <<>>, NEW v \in Variables
               PROVE  env[v] = inherited[v] \/ inherited[v] = NotUnicode
    BY DEF VariablesGivenBack
  <2>1. \A i \in 1..Len(guards) : FALSE
    BY EmptySeq
  <2> QED BY <2>1 DEF EnvInv
<1> QED BY <1>1, EnvInvHolds, PTL

-----------------------------------------------------------------------------
(* Both of what a process has only once, among the modules that run beside *)
(* them.                                                                   *)
LEMMA TelemetryRunsAmongOthers == Spec => TelemetrySpec
<1>1. Init => TelemetryInit
  BY DEF Init
<1>2. [Next]_edgeVars => [TelemetryNext]_telemetryVars
  BY DEF Next, Others, edgeVars, telemetryVars
<1> QED BY <1>1, <1>2, PTL DEF Spec, TelemetrySpec

LEMMA VariablesRunAmongOthers == Spec => EnvSpec
<1>1. Init => EnvInit
  BY DEF Init, EnvRests, EnvInit
<1>2. [Next]_edgeVars => [EnvNext]_envVars
  BY DEF Next, Others, edgeVars, envVars
<1> QED BY <1>1, <1>2, PTL DEF Spec, EnvSpec

(***************************************************************************)
(* Exporters are shut down once (world-telemetry) and environment          *)
(* variables are given back (world-test-lite).                             *)
(***************************************************************************)
THEOREM GlobalsAreGivenBack == Spec => []GlobalsGivenBack
<1>1. ExportersStoppedOnce /\ VariablesGivenBack => GlobalsGivenBack
  BY DEF GlobalsGivenBack
<1> QED BY <1>1, TelemetryRunsAmongOthers, VariablesRunAmongOthers, ExportersStopOnce,
           VariablesAreGivenBack, PTL

-----------------------------------------------------------------------------
(* Client addresses.  Behind a proxy the managed header ends, from the     *)
(* entry that tells of the source on, with entries of trusted proxies.     *)
(* That entry is the source's address or, if its line is no text, none.    *)
USE AddressAssumption

HeaderEntry == Entry \cup {Blank}
FromProxy(entry) == \E proxy \in Proxies : entry = bare(proxy)

Mark == IF spoilt THEN invalid_header_value ELSE bare(source)

(* The header as it is read, and what it says. *)
text_of(lines) == [n \in DOMAIN lines |-> to_str(lines[n])]
Says(entries, mark) ==
  \E p \in DOMAIN entries :
    /\ entries[p] = mark
    /\ \A q \in DOMAIN entries : Before(p, q) => FromProxy(entries[q])

AddressInv ==
  /\ source \in IpAddr /\ peer \in IpAddr /\ hops \in Nat /\ spoilt \in BOOLEAN
  /\ managed \in HeaderNames /\ headers \in [HeaderNames -> Lines]
  /\ hops = 0 => peer = source /\ ~spoilt
  /\ hops # 0 =>
       /\ peer \in Proxies
       /\ \A name \in HeaderNames \ {managed} : headers[name] = <<>>
       /\ IF managed = "x-real-ip" THEN headers[managed] = <<<<bare(source)>>>> /\ ~spoilt
          ELSE Says(joined_header_values(headers[managed]), Mark)
  /\ NoSourcePassesForAnother

LEMMA EntriesOf ==
  ASSUME NEW lines \in Lines
  PROVE  /\ Len(lines) \in Nat
         /\ \A n \in 1..Len(lines) : lines[n] \in Seq(HeaderEntry) /\ Len(lines[n]) \in Nat \ {0}
         /\ \A n, i : <<n, i>> \in DOMAIN entries_of(lines) <=>
                        n \in 1..Len(lines) /\ i \in 1..Len(lines[n])
         /\ \A p \in DOMAIN entries_of(lines) :
              /\ p = <<p[1], p[2]>>
              /\ entries_of(lines)[p] = lines[p[1]][p[2]]
<1>1. lines \in Seq(Seq(HeaderEntry) \ {<<>>})
  BY DEF Lines, HeaderEntry
<1>2. Len(lines) \in Nat /\ DOMAIN lines = 1..Len(lines)
  BY <1>1, LenProperties
<1>3. ASSUME NEW n \in 1..Len(lines)
      PROVE  /\ lines[n] \in Seq(HeaderEntry) /\ Len(lines[n]) \in Nat \ {0}
             /\ DOMAIN lines[n] = 1..Len(lines[n])
  <2>1. lines[n] \in Seq(HeaderEntry) /\ lines[n] # <<>>
    BY <1>1, ElementOfSeq
  <2> QED
    BY <2>1, LenProperties, EmptySeq
<1>4. \A p \in DOMAIN entries_of(lines) :
        \E n \in 1..Len(lines) : p \in {n} \X (1..Len(lines[n]))
  BY <1>2, <1>3 DEF entries_of
<1>5. ASSUME NEW n \in 1..Len(lines), NEW i \in 1..Len(lines[n])
      PROVE  <<n, i>> \in DOMAIN entries_of(lines)
  BY <1>2, <1>3 DEF entries_of
<1>6. \A p \in DOMAIN entries_of(lines) :
        entries_of(lines)[p] = lines[p[1]][p[2]]
  BY DEF entries_of
<1>7. ASSUME NEW p \in DOMAIN entries_of(lines)
      PROVE  p = <<p[1], p[2]>> /\ p[1] \in 1..Len(lines) /\ p[2] \in 1..Len(lines[p[1]])
  <2>1. PICK n \in 1..Len(lines) : p \in {n} \X (1..Len(lines[n]))
    BY <1>4
  <2> QED
    BY <2>1
<1>8. ASSUME NEW n, NEW i, <<n, i>> \in DOMAIN entries_of(lines)
      PROVE  n \in 1..Len(lines) /\ i \in 1..Len(lines[n])
  <2>1. PICK m \in 1..Len(lines) : <<n, i>> \in {m} \X (1..Len(lines[m]))
    BY <1>4, <1>8
  <2> QED
    BY <2>1
<1> QED
  BY <1>2, <1>3, <1>5, <1>6, <1>7, <1>8

(* The header gets one more entry, behind all others. *)
Extended(lines, new, spot, entry) ==
  LET old == entries_of(lines)
      entries == entries_of(new)
  IN /\ new \in Lines
     /\ DOMAIN entries = DOMAIN old \cup {spot}
     /\ entries[spot] = entry /\ ~Before(spot, spot)
     /\ \A p \in DOMAIN old : entries[p] = old[p] /\ Before(p, spot) /\ ~Before(spot, p)

LEMMA LineAdded ==
  ASSUME NEW lines \in Lines, NEW entry \in HeaderEntry
  PROVE  Extended(lines, Append(lines, <<entry>>), <<Len(lines) + 1, 1>>, entry)
<1> DEFINE new == Append(lines, <<entry>>)
           spot == <<Len(lines) + 1, 1>>
<1>1. lines \in Seq(Seq(HeaderEntry) \ {<<>>}) /\ <<entry>> \in Seq(HeaderEntry) \ {<<>>}
  BY DEF Lines, HeaderEntry
<1>2. /\ new \in Lines /\ Len(new) = Len(lines) + 1 /\ new[Len(lines) + 1] = <<entry>>
      /\ \A n \in 1..Len(lines) : new[n] = lines[n]
  BY <1>1, AppendProperties DEF Lines, HeaderEntry
<1> HIDE DEF new
<1>3. Len(lines) \in Nat /\ Len(<<entry>>) = 1
  BY EntriesOf
<1>4. ASSUME NEW p \in DOMAIN entries_of(lines)
      PROVE  /\ p \in DOMAIN entries_of(new)
             /\ entries_of(new)[p] = entries_of(lines)[p]
             /\ Before(p, spot) /\ ~Before(spot, p)
  <2>1. /\ p = <<p[1], p[2]>> /\ p[1] \in 1..Len(lines) /\ p[2] \in 1..Len(lines[p[1]])
        /\ entries_of(lines)[p] = lines[p[1]][p[2]]
    BY EntriesOf
  <2>2. p[1] \in 1..Len(new) /\ new[p[1]] = lines[p[1]] /\ p[2] \in 1..Len(new[p[1]])
    BY <1>2, <1>3, <2>1
  <2>3. p \in DOMAIN entries_of(new)
    BY <1>2, <2>1, <2>2, EntriesOf
  <2> QED
    BY <1>2, <1>3, <2>1, <2>2, <2>3, EntriesOf DEF Before
<1>5. spot \in DOMAIN entries_of(new) /\ entries_of(new)[spot] = entry
  <2>1. spot \in DOMAIN entries_of(new)
    <3>1. Len(lines) + 1 \in 1..Len(new) /\ 1 \in 1..Len(new[Len(lines) + 1])
      BY <1>2, <1>3
    <3> QED
      BY <1>2, <3>1, EntriesOf
  <2>2. entries_of(new)[spot] = new[spot[1]][spot[2]]
    BY <1>2, <2>1, EntriesOf
  <2> QED
    BY <1>2, <2>1, <2>2
<1>6. ASSUME NEW p \in DOMAIN entries_of(new), p # spot
      PROVE  p \in DOMAIN entries_of(lines)
  <2>1. p = <<p[1], p[2]>> /\ p[1] \in 1..Len(new) /\ p[2] \in 1..Len(new[p[1]])
    BY <1>2, EntriesOf
  <2>2. p[1] # Len(lines) + 1
    <3>1. SUFFICES ASSUME p[1] = Len(lines) + 1 PROVE FALSE
      OBVIOUS
    <3>2. Len(new[p[1]]) = 1
      BY <1>2, <1>3, <3>1
    <3>3. p[2] = 1
      BY <2>1, <3>2
    <3> QED
      BY <1>6, <2>1, <3>1, <3>3
  <2>3. p[1] \in 1..Len(lines) /\ p[2] \in 1..Len(lines[p[1]])
    BY <1>2, <1>3, <2>1, <2>2
  <2> QED
    BY <2>1, <2>3, EntriesOf
<1>7. ~Before(spot, spot)
  BY <1>3 DEF Before
<1> QED
  BY <1>2, <1>4, <1>5, <1>6, <1>7 DEF Extended, new

LEMMA EntryAdded ==
  ASSUME NEW lines \in Lines, lines # <<>>, NEW entry \in HeaderEntry
  PROVE  Extended(lines, [lines EXCEPT ![Len(lines)] = Append(@, entry)],
                  <<Len(lines), Len(lines[Len(lines)]) + 1>>, entry)
<1> DEFINE last == lines[Len(lines)]
           new == [lines EXCEPT ![Len(lines)] = Append(@, entry)]
           spot == <<Len(lines), Len(last) + 1>>
<1>1. lines \in Seq(Seq(HeaderEntry) \ {<<>>}) /\ Len(lines) \in Nat \ {0}
      /\ DOMAIN lines = 1..Len(lines)
  BY LenProperties, EmptySeq DEF Lines, HeaderEntry
<1>2. last \in Seq(HeaderEntry) /\ Len(last) \in Nat \ {0}
  BY <1>1, EntriesOf
<1>3. /\ Append(last, entry) \in Seq(HeaderEntry) \ {<<>>} /\ Len(Append(last, entry)) = Len(last) + 1
      /\ Append(last, entry)[Len(last) + 1] = entry
      /\ \A i \in 1..Len(last) : Append(last, entry)[i] = last[i]
  BY <1>2, AppendProperties, EmptySeq
<1>4. /\ new \in Lines /\ Len(new) = Len(lines) /\ new[Len(lines)] = Append(last, entry)
      /\ \A n \in 1..Len(lines) : n # Len(lines) => new[n] = lines[n]
  <2>1. new \in [1..Len(lines) -> Seq(HeaderEntry) \ {<<>>}] /\ DOMAIN new = 1..Len(lines)
    BY <1>1, <1>3, ElementOfSeq
  <2>2. new \in Seq(Seq(HeaderEntry) \ {<<>>}) /\ Len(new) = Len(lines)
    BY <1>1, <2>1, LenProperties, SeqDef
  <2>3. new \in Lines
    BY <2>2 DEF Lines, HeaderEntry
  <2>4. new[Len(lines)] = Append(last, entry)
    BY <1>1
  <2>5. \A n \in 1..Len(lines) : n # Len(lines) => new[n] = lines[n]
    BY <1>1
  <2> QED
    BY <2>2, <2>3, <2>4, <2>5
<1> HIDE DEF new
<1>5. ASSUME NEW p \in DOMAIN entries_of(lines)
      PROVE  /\ p \in DOMAIN entries_of(new)
             /\ entries_of(new)[p] = entries_of(lines)[p]
             /\ Before(p, spot) /\ ~Before(spot, p)
  <2>1. /\ p = <<p[1], p[2]>> /\ p[1] \in 1..Len(lines) /\ p[2] \in 1..Len(lines[p[1]])
        /\ entries_of(lines)[p] = lines[p[1]][p[2]]
    BY EntriesOf
  <2>2. p[2] \in 1..Len(new[p[1]]) /\ new[p[1]][p[2]] = lines[p[1]][p[2]]
    <3>1. CASE p[1] = Len(lines)
      <4>1. new[p[1]] = Append(last, entry) /\ p[2] \in 1..Len(last)
        BY <1>4, <2>1, <3>1
      <4> QED
        BY <1>2, <1>3, <3>1, <4>1
    <3>2. CASE p[1] # Len(lines)
      BY <1>4, <2>1, <3>2
    <3> QED
      BY <3>1, <3>2
  <2>3. p \in DOMAIN entries_of(new)
    BY <1>4, <2>1, <2>2, EntriesOf
  <2>4. p[1] \in Nat /\ p[2] \in Nat /\ p[1] <= Len(lines) /\ (p[1] = Len(lines) => p[2] <= Len(last))
    BY <1>1, <1>2, <2>1, EntriesOf
  <2>5. Before(p, spot) /\ ~Before(spot, p)
    BY <1>1, <1>2, <2>4 DEF Before
  <2> QED
    BY <1>4, <2>1, <2>2, <2>3, <2>5, EntriesOf
<1>6. spot \in DOMAIN entries_of(new) /\ entries_of(new)[spot] = entry
  <2>1. spot \in DOMAIN entries_of(new)
    <3>1. Len(lines) \in 1..Len(new)
      <4>1. Len(lines) \in 1..Len(lines)
        BY <1>1
      <4> QED
        BY <1>4, <4>1
    <3>2. Len(new[Len(lines)]) = Len(last) + 1
      BY <1>3, <1>4
    <3>3. Len(last) + 1 \in 1..Len(new[Len(lines)])
      BY <1>2, <3>2
    <3> QED
      BY <1>4, <3>1, <3>3, EntriesOf
  <2>2. entries_of(new)[spot] = new[spot[1]][spot[2]]
    BY <1>4, <2>1, EntriesOf
  <2> QED
    BY <1>3, <1>4, <2>1, <2>2
<1>7. ASSUME NEW p \in DOMAIN entries_of(new), p # spot
      PROVE  p \in DOMAIN entries_of(lines)
  <2>1. p = <<p[1], p[2]>> /\ p[1] \in 1..Len(lines) /\ p[2] \in 1..Len(new[p[1]])
    BY <1>4, EntriesOf
  <2>2. p[1] = Len(lines) => p[2] # Len(last) + 1
    BY <1>7, <2>1
  <2>3. p[2] \in 1..Len(lines[p[1]])
    <3>1. CASE p[1] = Len(lines)
      BY <1>2, <1>3, <1>4, <2>1, <2>2, <3>1
    <3>2. CASE p[1] # Len(lines)
      BY <1>4, <2>1, <3>2
    <3> QED
      BY <3>1, <3>2
  <2> QED
    BY <2>1, <2>3, EntriesOf
<1>8. ~Before(spot, spot)
  BY <1>1, <1>2 DEF Before
<1> QED
  BY <1>4, <1>5, <1>6, <1>7, <1>8 DEF Extended, new

(* Reading a header's lines as text leaves lines. *)
LEMMA TextIsLines ==
  ASSUME NEW lines \in Lines
  PROVE  /\ text_of(lines) \in Lines /\ Len(text_of(lines)) = Len(lines)
         /\ \A n \in 1..Len(lines) : text_of(lines)[n] = to_str(lines[n])
         /\ joined_header_values(lines) = entries_of(text_of(lines))
<1>1. lines \in Seq(Seq(HeaderEntry) \ {<<>>}) /\ Len(lines) \in Nat /\ DOMAIN lines = 1..Len(lines)
  BY LenProperties DEF Lines, HeaderEntry
<1>2. <<invalid_header_value>> \in Seq(HeaderEntry) \ {<<>>}
  <2>1. invalid_header_value \in HeaderEntry
    BY DEF invalid_header_value, bare, HeaderEntry, Entry
  <2> HIDE DEF invalid_header_value
  <2> QED
    BY <2>1, EmptySeq
<1>3. ASSUME NEW n \in 1..Len(lines)
      PROVE  to_str(lines[n]) \in Seq(HeaderEntry) \ {<<>>}
  <2>1. lines[n] \in Seq(HeaderEntry) \ {<<>>}
    BY <1>1, ElementOfSeq
  <2> QED
    BY <1>2, <2>1 DEF to_str
<1>4. /\ text_of(lines) \in [1..Len(lines) -> Seq(HeaderEntry) \ {<<>>}]
      /\ \A n \in 1..Len(lines) : text_of(lines)[n] = to_str(lines[n])
  BY <1>1, <1>3 DEF text_of
<1>5. text_of(lines) \in Seq(Seq(HeaderEntry) \ {<<>>}) /\ Len(text_of(lines)) = Len(lines)
  BY <1>1, <1>4, LenProperties, SeqDef
<1> QED
  BY <1>4, <1>5 DEF Lines, HeaderEntry, joined_header_values, text_of

LEMMA BareAddress ==
  ASSUME NEW addr \in IpAddr
  PROVE  /\ bare(addr) \in HeaderEntry /\ bare(addr) # Blank
         /\ parse_ip_token(bare(addr)) = Found(addr)
         /\ parse_forwarded_entry(bare(addr)) = Found(addr)
         /\ Found(addr).result = "Found" /\ Found(addr).addr = addr
         /\ Found(addr) # Missing /\ is_text(<<bare(addr)>>) /\ to_str(<<bare(addr)>>) = <<bare(addr)>>
<1>1. addr # Nowhere
  BY DEF IpAddr, Nowhere
<1>2. is_text(<<bare(addr)>>)
  BY DEF is_text, bare
<1>3. to_str(<<bare(addr)>>) = <<bare(addr)>>
  BY <1>2 DEF to_str
<1>4. /\ bare(addr) \in HeaderEntry /\ bare(addr) # Blank
      /\ parse_ip_token(bare(addr)) = Found(addr)
      /\ parse_forwarded_entry(bare(addr)) = Found(addr)
      /\ Found(addr).result = "Found" /\ Found(addr).addr = addr
      /\ Found(addr) # Missing
  BY <1>1 DEF bare, HeaderEntry, Entry, Blank, parse_ip_token, parse_forwarded_entry, Found, Missing
<1> QED
  BY <1>2, <1>3, <1>4

LEMMA NoAddress ==
  /\ invalid_header_value \in HeaderEntry /\ invalid_header_value # Blank
  /\ parse_ip_token(invalid_header_value) = Invalid
  /\ parse_forwarded_entry(invalid_header_value) = Invalid
  /\ Invalid.result # "Found" /\ Invalid # Missing
BY DEF invalid_header_value, bare, HeaderEntry, Entry, Blank, parse_ip_token, parse_forwarded_entry,
       Invalid, Missing

LEMMA ProxiesAreTrusted ==
  ASSUME NEW entry, FromProxy(entry)
  PROVE  /\ parse_ip_token(entry).result = "Found" /\ is_trusted_proxy(parse_ip_token(entry).addr)
         /\ parse_forwarded_entry(entry).result = "Found"
         /\ is_trusted_proxy(parse_forwarded_entry(entry).addr)
<1>1. PICK proxy \in Proxies : entry = bare(proxy)
  BY DEF FromProxy
<1>2. proxy \in IpAddr /\ is_trusted_proxy(proxy)
  OBVIOUS
<1> QED
  BY <1>1, <1>2, BareAddress

(* Of two places, one is before the other. *)
LEMMA PlacesAreOrdered ==
  ASSUME NEW lines \in Lines, NEW p \in DOMAIN entries_of(lines),
         NEW q \in DOMAIN entries_of(lines), ~Before(p, q), ~Before(q, p)
  PROVE  p = q
<1>1. /\ p = <<p[1], p[2]>> /\ p[1] \in 1..Len(lines) /\ p[2] \in 1..Len(lines[p[1]])
      /\ q = <<q[1], q[2]>> /\ q[1] \in 1..Len(lines) /\ q[2] \in 1..Len(lines[q[1]])
  BY EntriesOf
<1>2. p[1] \in Nat /\ p[2] \in Nat /\ q[1] \in Nat /\ q[2] \in Nat
  BY <1>1, EntriesOf
<1>3. p[1] = q[1] /\ p[2] = q[2]
  BY <1>2 DEF Before
<1> QED
  BY <1>1, <1>3

(* Reading from the right skips the proxies and stops at the first reading *)
(* that is none of theirs.                                                 *)
LEMMA LastIsRead ==
  ASSUME NEW lines \in Lines, NEW readings, NEW p \in DOMAIN readings,
         DOMAIN readings \subseteq DOMAIN entries_of(lines),
         readings[p].result # "Found" \/ ~is_trusted_proxy(readings[p].addr),
         \A q \in DOMAIN readings : Before(p, q) =>
           readings[q].result = "Found" /\ is_trusted_proxy(readings[q].addr)
  PROVE  last_untrusted(readings) = readings[p]
<1> DEFINE others == NotTrusted(readings)
<1>1. p \in others /\ others \subseteq DOMAIN readings
  BY DEF NotTrusted
<1>2. \A q \in others : ~Before(p, q)
  BY DEF NotTrusted
<1>3. \A o \in others : (\A q \in others : ~Before(o, q)) => o = p
  BY <1>1, <1>2, PlacesAreOrdered
<1> HIDE DEF others
<1>4. (CHOOSE o \in others : \A q \in others : ~Before(o, q)) = p
  BY <1>1, <1>2, <1>3
<1>5. last_untrusted(readings) = readings[CHOOSE o \in others : \A q \in others : ~Before(o, q)]
  BY <1>1, Zenon DEF last_untrusted, others
<1> QED
  BY <1>4, <1>5

(* What the server reads of a mark. *)
Reading == IF spoilt THEN Invalid ELSE Found(source)

LEMMA MarkIsNotTrusted ==
  ASSUME source \in IpAddr, ~is_trusted_proxy(source)
  PROVE  /\ Mark # Blank /\ parse_ip_token(Mark) = Reading /\ parse_forwarded_entry(Mark) = Reading
         /\ Reading.result # "Found" \/ ~is_trusted_proxy(Reading.addr)
<1>1. CASE spoilt
  BY <1>1, NoAddress DEF Mark, Reading
<1>2. CASE ~spoilt
  BY <1>2, BareAddress DEF Mark, Reading
<1> QED
  BY <1>1, <1>2

LEMMA MarkIsRead ==
  ASSUME NEW lines \in Lines, Says(joined_header_values(lines), Mark),
         source \in IpAddr, ~is_trusted_proxy(source)
  PROVE  /\ parse_forwarded_for(joined_header_values(lines)) = Reading
         /\ parse_x_forwarded_for(joined_header_values(lines)) = Reading
<1> DEFINE entries == joined_header_values(lines)
           plain == [p \in present(entries) |-> parse_ip_token(entries[p])]
           forwards == [p \in present(entries) |-> parse_forwarded_entry(entries[p])]
<1>1. PICK p \in DOMAIN entries :
        entries[p] = Mark /\ \A q \in DOMAIN entries : Before(p, q) => FromProxy(entries[q])
  BY DEF Says
<1>2. entries = entries_of(text_of(lines)) /\ text_of(lines) \in Lines
  BY TextIsLines
<1> HIDE DEF entries
<1>3. p \in present(entries) /\ present(entries) \subseteq DOMAIN entries
  BY <1>1, MarkIsNotTrusted DEF present
<1>4. last_untrusted(plain) = Reading
  <2>1. /\ DOMAIN plain = present(entries) /\ plain[p] = Reading
        /\ \A q \in DOMAIN plain : Before(p, q) =>
             plain[q].result = "Found" /\ is_trusted_proxy(plain[q].addr)
    BY <1>1, <1>3, MarkIsNotTrusted, ProxiesAreTrusted
  <2> HIDE DEF plain
  <2> QED
    BY <1>2, <1>3, <2>1, MarkIsNotTrusted, LastIsRead
<1>5. last_untrusted(forwards) = Reading
  <2>1. /\ DOMAIN forwards = present(entries) /\ forwards[p] = Reading
        /\ \A q \in DOMAIN forwards : Before(p, q) =>
             forwards[q].result = "Found" /\ is_trusted_proxy(forwards[q].addr)
    BY <1>1, <1>3, MarkIsNotTrusted, ProxiesAreTrusted
  <2> HIDE DEF forwards
  <2> QED
    BY <1>2, <1>3, <2>1, MarkIsNotTrusted, LastIsRead
<1> QED
  BY <1>4, <1>5 DEF parse_forwarded_for, parse_x_forwarded_for, entries

LEMMA EmptyHeader ==
  /\ <<>> \in Lines
  /\ DOMAIN joined_header_values(<<>>) = {}
  /\ parse_forwarded_for(joined_header_values(<<>>)) = Missing
  /\ parse_x_forwarded_for(joined_header_values(<<>>)) = Missing
  /\ parse_single_ip_header(joined_header_values(<<>>)) = Missing
<1>1. <<>> \in Lines
  BY EmptySeq DEF Lines
<1>2. DOMAIN joined_header_values(<<>>) = {}
  BY DEF joined_header_values, entries_of
<1>3. present(joined_header_values(<<>>)) = {}
  BY <1>2 DEF present
<1> QED
  BY <1>1, <1>2, <1>3
  DEF parse_forwarded_for, parse_x_forwarded_for, last_untrusted, parse_single_ip_header

LEMMA OnlyEntryIsRead ==
  ASSUME NEW addr \in IpAddr
  PROVE  /\ <<<<bare(addr)>>>> \in Lines /\ is_text(<<<<bare(addr)>>>>[1]) /\ Len(<<<<bare(addr)>>>>) = 1
         /\ parse_single_ip_header(joined_header_values(<<<<bare(addr)>>>>)) = Found(addr)
<1> DEFINE lines == <<<<bare(addr)>>>>
           entries == entries_of(lines)
<1>1. /\ lines \in Lines /\ Len(lines) = 1 /\ Len(lines[1]) = 1 /\ lines[1][1] = bare(addr)
      /\ lines[1] = <<bare(addr)>>
  BY BareAddress, EmptySeq DEF Lines, HeaderEntry
<1>2. joined_header_values(lines) = entries
  <2>1. DOMAIN lines = {1}
    OBVIOUS
  <2>2. lines = [n \in {1} |-> <<bare(addr)>>]
    OBVIOUS
  <2> HIDE DEF lines
  <2>3. [n \in DOMAIN lines |-> to_str(lines[n])] = lines
    BY <2>1, <2>2, BareAddress
  <2> QED
    BY <2>3 DEF joined_header_values
<1> HIDE DEF lines
<1>3. <<1, 1>> \in DOMAIN entries
  BY <1>1, EntriesOf
<1>4. \A p \in DOMAIN entries : p = <<1, 1>>
  BY <1>1, EntriesOf
<1>5. entries[<<1, 1>>] = bare(addr)
  BY <1>1, <1>3, EntriesOf
<1>6. DOMAIN entries = {<<1, 1>>}
  BY <1>3, <1>4
<1>7. parse_single_ip_header(entries) = Found(addr)
  <2> HIDE DEF entries
  <2> QED
    BY <1>5, <1>6, BareAddress DEF parse_single_ip_header
<1>8. is_text(lines[1])
  BY <1>1, BareAddress
<1> QED
  BY <1>1, <1>2, <1>7, <1>8 DEF lines

(* An entry that a proxy adds to the end keeps the mark in place, or is    *)
(* the mark itself.                                                        *)
LEMMA ExtendedSays ==
  ASSUME NEW lines, NEW new, NEW spot, NEW entry, Extended(lines, new, spot, entry), NEW mark,
         entry = mark \/ (FromProxy(entry) /\ Says(entries_of(lines), mark))
  PROVE  Says(entries_of(new), mark)
<1> DEFINE old == entries_of(lines)
           entries == entries_of(new)
<1>1. /\ DOMAIN entries = DOMAIN old \cup {spot} /\ entries[spot] = entry /\ ~Before(spot, spot)
      /\ \A p \in DOMAIN old : entries[p] = old[p] /\ Before(p, spot) /\ ~Before(spot, p)
  BY DEF Extended
<1>2. CASE entry = mark
  BY <1>1, <1>2 DEF Says
<1>3. CASE FromProxy(entry) /\ Says(entries_of(lines), mark)
  <2>1. PICK p \in DOMAIN old :
          old[p] = mark /\ \A q \in DOMAIN old : Before(p, q) => FromProxy(old[q])
    BY <1>3 DEF Says
  <2> HIDE DEF old, entries
  <2>2. p \in DOMAIN entries /\ entries[p] = mark
    BY <1>1, <2>1
  <2>3. \A q \in DOMAIN entries : Before(p, q) => FromProxy(entries[q])
    BY <1>1, <1>3, <2>1
  <2> QED
    BY <2>2, <2>3 DEF Says, entries
<1> QED
  BY <1>2, <1>3

(* How what a proxy writes reads: a line more, an entry more in the last   *)
(* line or, if that is no text, nothing more.                              *)
LEMMA LineReads ==
  ASSUME NEW lines \in Lines, NEW addr \in IpAddr
  PROVE  /\ Append(lines, <<bare(addr)>>) \in Lines
         /\ Append(lines, <<bare(addr)>>)[Len(Append(lines, <<bare(addr)>>))] = <<bare(addr)>>
         /\ text_of(Append(lines, <<bare(addr)>>)) = Append(text_of(lines), <<bare(addr)>>)
<1> DEFINE new == Append(lines, <<bare(addr)>>)
<1>1. bare(addr) \in HeaderEntry
  BY BareAddress
<1>2. new \in Lines
  BY <1>1, LineAdded DEF Extended
<1>3. lines \in Seq(Seq(HeaderEntry) \ {<<>>}) /\ <<bare(addr)>> \in Seq(HeaderEntry) \ {<<>>}
  BY <1>1 DEF Lines, HeaderEntry
<1>4. /\ Len(new) = Len(lines) + 1 /\ new[Len(lines) + 1] = <<bare(addr)>> /\ Len(lines) \in Nat
      /\ \A n \in 1..Len(lines) : new[n] = lines[n]
  BY <1>3, AppendProperties, LenProperties
<1> HIDE DEF new
<1> DEFINE text == text_of(lines)
<1>5. /\ text \in Lines /\ Len(text) = Len(lines)
      /\ \A n \in 1..Len(lines) : text[n] = to_str(lines[n])
      /\ text_of(new) \in Lines /\ Len(text_of(new)) = Len(new)
      /\ \A n \in 1..Len(new) : text_of(new)[n] = to_str(new[n])
  BY <1>2, TextIsLines
<1>6. text \in Seq(Seq(HeaderEntry) \ {<<>>}) /\ text_of(new) \in Seq(Seq(HeaderEntry) \ {<<>>})
  BY <1>5 DEF Lines, HeaderEntry
<1> HIDE DEF text
<1>7. /\ Append(text, <<bare(addr)>>) \in Seq(Seq(HeaderEntry) \ {<<>>})
      /\ Len(Append(text, <<bare(addr)>>)) = Len(lines) + 1
      /\ Append(text, <<bare(addr)>>)[Len(lines) + 1] = <<bare(addr)>>
      /\ \A n \in 1..Len(lines) : Append(text, <<bare(addr)>>)[n] = text[n]
  BY <1>3, <1>5, <1>6, AppendProperties
<1>8. ASSUME NEW n \in 1..(Len(lines) + 1)
      PROVE  text_of(new)[n] = Append(text, <<bare(addr)>>)[n]
  <2>1. text_of(new)[n] = to_str(new[n])
    BY <1>4, <1>5
  <2>2. CASE n = Len(lines) + 1
    BY <1>4, <1>7, <2>1, <2>2, BareAddress
  <2>3. CASE n # Len(lines) + 1
    <3>1. n \in 1..Len(lines)
      BY <1>4, <2>3
    <3> QED
      BY <1>4, <1>5, <1>7, <2>1, <3>1
  <2> QED
    BY <2>2, <2>3
<1>9. text_of(new) = Append(text, <<bare(addr)>>)
  BY <1>4, <1>5, <1>6, <1>7, <1>8, SeqEqual
<1> QED
  BY <1>2, <1>4, <1>9 DEF new, text

LEMMA TextWithAnEntry ==
  ASSUME NEW line \in Seq(HeaderEntry), NEW addr \in IpAddr
  PROVE  is_text(Append(line, bare(addr))) <=> is_text(line)
<1>1. bare(addr) \in HeaderEntry /\ bare(addr).style # "not_text"
  BY BareAddress DEF bare
<1>2. /\ Len(line) \in Nat /\ DOMAIN line = 1..Len(line)
      /\ DOMAIN Append(line, bare(addr)) = 1..(Len(line) + 1)
      /\ Append(line, bare(addr))[Len(line) + 1] = bare(addr)
      /\ \A i \in 1..Len(line) : Append(line, bare(addr))[i] = line[i]
  BY <1>1, AppendProperties, LenProperties
<1>3. \A i \in 1..(Len(line) + 1) : i # Len(line) + 1 => i \in 1..Len(line)
  BY <1>2
<1>4. \A i \in 1..Len(line) : i \in 1..(Len(line) + 1)
  BY <1>2
<1> QED
  BY <1>1, <1>2, <1>3, <1>4, Zenon DEF is_text

EntryRead(lines, new, addr) ==
  /\ new \in Lines /\ Len(new) = Len(lines) /\ Len(lines) \in 1..Len(lines)
  /\ is_text(new[Len(new)]) <=> is_text(lines[Len(lines)])
  /\ is_text(lines[Len(lines)]) =>
       text_of(new) = [text_of(lines) EXCEPT ![Len(lines)] = Append(@, bare(addr))]
  /\ ~is_text(lines[Len(lines)]) => text_of(new) = text_of(lines)

LEMMA EntryReads ==
  ASSUME NEW lines \in Lines, lines # <<>>, NEW addr \in IpAddr, NEW new,
         new = [lines EXCEPT ![Len(lines)] = Append(@, bare(addr))]
  PROVE  EntryRead(lines, new, addr)
<1>1. bare(addr) \in HeaderEntry
  BY BareAddress
<1>2. new \in Lines
  BY <1>1, EntryAdded DEF Extended
<1>3. /\ lines \in Seq(Seq(HeaderEntry) \ {<<>>}) /\ Len(lines) \in Nat \ {0}
      /\ DOMAIN lines = 1..Len(lines) /\ Len(lines) \in 1..Len(lines)
  BY LenProperties, EmptySeq DEF Lines, HeaderEntry
<1>4. /\ DOMAIN new = 1..Len(lines) /\ new[Len(lines)] = Append(lines[Len(lines)], bare(addr))
      /\ \A n \in 1..Len(lines) : n # Len(lines) => new[n] = lines[n]
  BY <1>3
<1>5. Len(new) = Len(lines)
  <2>1. DOMAIN new = 1..Len(new) /\ Len(new) \in Nat
    BY <1>2, LenProperties DEF Lines
  <2>2. PICK old \in Nat, now \in Nat : old = Len(lines) /\ now = Len(new) /\ 1..now = 1..old
    BY <1>3, <1>4, <2>1
  <2> QED
    BY <2>2
<1>6. is_text(new[Len(lines)]) <=> is_text(lines[Len(lines)])
  <2>1. PICK line \in Seq(HeaderEntry) : line = lines[Len(lines)]
    BY <1>3, ElementOfSeq
  <2>2. is_text(Append(line, bare(addr))) <=> is_text(line)
    BY <2>1, TextWithAnEntry
  <2> QED
    BY <1>4, <2>1, <2>2, Zenon
<1>7. /\ text_of(lines) = [n \in 1..Len(lines) |-> to_str(lines[n])]
      /\ text_of(new) = [n \in 1..Len(lines) |-> to_str(new[n])]
  BY <1>3, <1>4 DEF text_of
<1>8. ASSUME is_text(lines[Len(lines)])
      PROVE  text_of(new) = [text_of(lines) EXCEPT ![Len(lines)] = Append(@, bare(addr))]
  <2>1. to_str(new[Len(lines)]) = Append(to_str(lines[Len(lines)]), bare(addr))
    BY <1>4, <1>6, <1>8 DEF to_str
  <2> QED
    BY <1>3, <1>4, <1>7, <2>1
<1>9. ASSUME ~is_text(lines[Len(lines)])
      PROVE  text_of(new) = text_of(lines)
  <2>1. to_str(new[Len(lines)]) = to_str(lines[Len(lines)])
    BY <1>6, <1>9 DEF to_str
  <2> QED
    BY <1>3, <1>4, <1>7, <2>1
<1> QED
  BY <1>2, <1>3, <1>5, <1>6, <1>8, <1>9 DEF EntryRead

(* Behind the only entry of the last line comes nothing. *)
LEMMA LastSaysInvalid ==
  ASSUME NEW lines \in Lines, lines # <<>>, ~is_text(lines[Len(lines)])
  PROVE  Says(joined_header_values(lines), invalid_header_value)
<1> DEFINE text == text_of(lines)
           p == <<Len(lines), 1>>
<1>1. Len(lines) \in Nat \ {0}
  BY LenProperties, EmptySeq DEF Lines
<1>2. /\ text \in Lines /\ Len(text) = Len(lines) /\ text[Len(lines)] = <<invalid_header_value>>
      /\ joined_header_values(lines) = entries_of(text)
  BY <1>1, TextIsLines DEF to_str
<1> HIDE DEF text
<1>3. Len(text[Len(lines)]) = 1 /\ text[Len(lines)][1] = invalid_header_value
  BY <1>2
<1>4. p \in DOMAIN entries_of(text) /\ entries_of(text)[p] = invalid_header_value
  <2>1. p \in DOMAIN entries_of(text)
    BY <1>1, <1>2, <1>3, EntriesOf
  <2> QED
    BY <1>2, <1>3, <2>1, EntriesOf
<1>5. ASSUME NEW q \in DOMAIN entries_of(text)
      PROVE  ~Before(p, q)
  <2>1. q = <<q[1], q[2]>> /\ q[1] \in 1..Len(lines) /\ q[2] \in 1..Len(text[q[1]])
    BY <1>2, EntriesOf
  <2>2. q[1] = Len(lines) => q[2] = 1
    <3> SUFFICES ASSUME q[1] = Len(lines) PROVE q[2] = 1
      OBVIOUS
    <3>1. Len(text[q[1]]) = 1
      BY <1>3
    <3> QED
      BY <2>1, <3>1
  <2> QED
    BY <1>1, <2>1, <2>2 DEF Before
<1> QED
  BY <1>2, <1>4, <1>5 DEF Says

LEMMA WrittenSays ==
  ASSUME AddressInv, NEW lines \in Written(headers[managed]), NEW mark,
         mark = IF IF hops = 0 THEN ~is_text(lines[Len(lines)]) ELSE spoilt
                THEN invalid_header_value ELSE bare(source)
  PROVE  /\ lines \in Lines
         /\ IF managed = "x-real-ip"
              THEN lines = <<<<bare(source)>>>> /\ (hops # 0 => ~spoilt)
              ELSE Says(joined_header_values(lines), mark)
<1>1. /\ peer \in IpAddr /\ headers[managed] \in Lines /\ hops \in Nat /\ source \in IpAddr
      /\ hops = 0 => bare(peer) = bare(source)
      /\ hops # 0 => FromProxy(bare(peer))
  BY DEF AddressInv, FromProxy
<1>2. CASE managed = "x-real-ip"
  <2>1. lines = <<<<bare(source)>>>> /\ (hops # 0 => ~spoilt)
    BY <1>2 DEF AddressInv, Written
  <2> QED
    BY <1>1, <1>2, <2>1, OnlyEntryIsRead
<1>3. CASE managed # "x-real-ip"
  <2> DEFINE old == headers[managed]
  <2>1. hops # 0 => mark = Mark /\ Says(joined_header_values(old), mark)
    BY <1>3 DEF AddressInv, Mark
  <2>2. text_of(old) \in Lines /\ joined_header_values(old) = entries_of(text_of(old))
    BY <1>1, TextIsLines
  <2>3. bare(peer) \in HeaderEntry
    BY <1>1, BareAddress
  <2>4. CASE lines = Append(old, <<bare(peer)>>)
    <3>1. /\ lines \in Lines /\ lines[Len(lines)] = <<bare(peer)>>
          /\ text_of(lines) = Append(text_of(old), <<bare(peer)>>)
      BY <1>1, <2>4, LineReads
    <3>2. PICK spot : Extended(text_of(old), text_of(lines), spot, bare(peer))
      BY <2>2, <2>3, <3>1, LineAdded
    <3>3. hops = 0 => mark = bare(peer)
      BY <1>1, <3>1, BareAddress
    <3>4. Says(entries_of(text_of(lines)), mark)
      BY <1>1, <2>1, <2>2, <3>2, <3>3, ExtendedSays
    <3> QED
      BY <1>3, <3>1, <3>4, TextIsLines
  <2>5. CASE old # <<>> /\ lines = [old EXCEPT ![Len(old)] = Append(@, bare(peer))]
    <3>1. /\ lines \in Lines /\ Len(lines) = Len(old) /\ Len(old) \in 1..Len(old)
          /\ is_text(lines[Len(lines)]) <=> is_text(old[Len(old)])
          /\ is_text(old[Len(old)]) =>
               text_of(lines) = [text_of(old) EXCEPT ![Len(old)] = Append(@, bare(peer))]
          /\ ~is_text(old[Len(old)]) => text_of(lines) = text_of(old)
      <4>1. old \in Lines /\ old # <<>> /\ peer \in IpAddr
        BY <1>1, <2>5
      <4>2. EntryRead(old, lines, peer)
        BY <2>5, <4>1, EntryReads
      <4> QED
        BY <4>2, Zenon DEF EntryRead
    <3>2. joined_header_values(lines) = entries_of(text_of(lines))
      BY <3>1, TextIsLines
    <3>3. CASE is_text(old[Len(old)])
      <4>1. Len(text_of(old)) = Len(old) /\ text_of(old) # <<>>
        BY <1>1, <3>1, TextIsLines, EmptySeq
      <4>2. PICK spot : Extended(text_of(old), text_of(lines), spot, bare(peer))
        BY <2>2, <2>3, <3>1, <3>3, <4>1, EntryAdded
      <4>3. hops = 0 => mark = bare(peer)
        BY <1>1, <3>1, <3>3
      <4>4. Says(entries_of(text_of(lines)), mark)
        BY <1>1, <2>1, <2>2, <4>2, <4>3, ExtendedSays
      <4> QED
        BY <1>3, <3>1, <3>2, <4>4
    <3>4. CASE ~is_text(old[Len(old)])
      <4>1. CASE hops = 0
        <5>1. mark = invalid_header_value /\ lines # <<>>
          BY <3>1, <3>4, <4>1, EmptySeq
        <5> QED
          BY <1>3, <3>1, <3>4, <5>1, LastSaysInvalid
      <4>2. CASE hops # 0
        BY <1>3, <2>1, <2>2, <3>1, <3>2, <3>4, <4>2
      <4> QED
        BY <4>1, <4>2
    <3> QED
      BY <3>3, <3>4
  <2> QED
    BY <1>3, <2>4, <2>5 DEF Written
<1> QED
  BY <1>2, <1>3

LEMMA PassKeeps ==
  ASSUME AddressInv, NEW proxy \in Proxies, PassProxy(proxy)
  PROVE  AddressInv'
<1>1. PICK lines \in Written(headers[managed]) :
        /\ headers' = [name \in HeaderNames |-> IF name = managed THEN lines ELSE <<>>]
        /\ spoilt' = IF hops = 0 THEN ~is_text(lines[Len(lines)]) ELSE spoilt
  BY DEF PassProxy
<1>2. /\ peer' = proxy /\ hops' = hops + 1 /\ managed' = managed /\ source' = source
      /\ client_ip' = client_ip /\ client_ip = Nowhere
  BY DEF PassProxy
<1>3. managed \in HeaderNames /\ hops \in Nat /\ source \in IpAddr /\ spoilt \in BOOLEAN
  BY DEF AddressInv
<1>4. spoilt' \in BOOLEAN
  BY <1>1, <1>3 DEF is_text
<1>5. Mark' = IF spoilt' THEN invalid_header_value ELSE bare(source)
  BY <1>2 DEF Mark, invalid_header_value, bare, Nowhere
<1>6. /\ lines \in Lines
      /\ IF managed = "x-real-ip"
           THEN lines = <<<<bare(source)>>>> /\ (hops # 0 => ~spoilt)
           ELSE Says(joined_header_values(lines), Mark')
  BY <1>1, <1>5, WrittenSays
<1>7. managed = "x-real-ip" => ~spoilt'
  <2> SUFFICES ASSUME managed = "x-real-ip" PROVE ~spoilt'
    OBVIOUS
  <2>1. lines = <<<<bare(source)>>>> /\ (hops # 0 => ~spoilt)
    BY <1>6
  <2>2. is_text(lines[Len(lines)])
    BY <1>3, <2>1, OnlyEntryIsRead
  <2> QED
    BY <1>1, <2>1, <2>2
<1>8. headers' \in [HeaderNames -> Lines] /\ headers'[managed] = lines
  BY <1>1, <1>3, <1>6, EmptyHeader
<1>9. \A name \in HeaderNames \ {managed} : headers'[name] = <<>>
  BY <1>1
<1>10. NoSourcePassesForAnother'
  BY <1>2 DEF NoSourcePassesForAnother
<1>11. headers[managed]' = lines
  BY <1>2, <1>8
<1>12. Says(joined_header_values(headers[managed]), Mark)' =
         Says(joined_header_values(lines), Mark')
  BY <1>11 DEF Says, joined_header_values, entries_of, to_str, is_text, invalid_header_value, bare,
               FromProxy, Before, Nowhere
<1>13. (IF managed = "x-real-ip" THEN headers[managed] = <<<<bare(source)>>>> /\ ~spoilt
        ELSE Says(joined_header_values(headers[managed]), Mark))'
  BY <1>2, <1>6, <1>7, <1>11, <1>12 DEF bare
<1>14. hops' # 0 /\ hops' \in Nat /\ proxy \in IpAddr
  BY <1>2, <1>3
<1> QED
  BY <1>2, <1>3, <1>4, <1>8, <1>9, <1>10, <1>13, <1>14 DEF AddressInv

(* What the server reads out of the headers. *)
LEMMA ServerReadsSource ==
  ASSUME AddressInv, ~is_trusted_proxy(source)
  PROVE  client_ip_from_header_map(peer, headers) = IF spoilt THEN peer ELSE source
<1> DEFINE f == parse_forwarded_for(joined_header_values(headers["forwarded"]))
           x == parse_x_forwarded_for(joined_header_values(headers["x-forwarded-for"]))
           r == parse_single_ip_header(joined_header_values(headers["x-real-ip"]))
           first == CASE f # Missing -> f [] f = Missing /\ x # Missing -> x [] OTHER -> r
<1>1. client_ip_from_header_map(peer, headers) =
        IF is_trusted_proxy(peer) /\ first.result = "Found" THEN first.addr ELSE peer
  BY DEF client_ip_from_header_map, extract_client_ip
<1>2. CASE hops = 0
  BY <1>1, <1>2 DEF AddressInv
<1>3. CASE hops # 0
  <2>1. /\ source \in IpAddr /\ is_trusted_proxy(peer) /\ managed \in HeaderNames
        /\ headers[managed] \in Lines
        /\ \A name \in HeaderNames \ {managed} : headers[name] = <<>>
        /\ IF managed = "x-real-ip" THEN headers[managed] = <<<<bare(source)>>>> /\ ~spoilt
           ELSE Says(joined_header_values(headers[managed]), Mark)
    BY <1>3 DEF AddressInv
  <2>2. Reading # Missing
    BY <2>1, BareAddress, NoAddress DEF Reading
  <2>3. first = Reading
    <3>1. CASE managed = "forwarded"
      <4>1. f = Reading
        BY <2>1, <3>1, MarkIsRead
      <4> HIDE DEF f, x, r
      <4> QED
        BY <2>2, <4>1
    <3>2. CASE managed = "x-forwarded-for"
      <4>1. x = Reading
        BY <2>1, <3>2, MarkIsRead
      <4>2. headers["forwarded"] = <<>>
        BY <2>1, <3>2 DEF HeaderNames
      <4>3. f = Missing
        BY <4>2, EmptyHeader
      <4> HIDE DEF f, x, r
      <4> QED
        BY <2>2, <4>1, <4>3
    <3>3. CASE managed = "x-real-ip"
      <4>1. headers["forwarded"] = <<>> /\ headers["x-forwarded-for"] = <<>>
        BY <2>1, <3>3 DEF HeaderNames
      <4>2. f = Missing /\ x = Missing
        BY <4>1, EmptyHeader
      <4>3. r = Reading
        BY <2>1, <3>3, OnlyEntryIsRead DEF Reading
      <4> HIDE DEF f, x, r
      <4> QED
        BY <4>2, <4>3
    <3> QED
      BY <2>1, <3>1, <3>2, <3>3 DEF HeaderNames
  <2> HIDE DEF first
  <2>4. CASE spoilt
    <3>1. first.result # "Found"
      BY <2>3, <2>4, NoAddress DEF Reading
    <3> QED
      BY <1>1, <2>4, <3>1
  <2>5. CASE ~spoilt
    <3>1. first.result = "Found" /\ first.addr = source
      BY <2>1, <2>3, <2>5, BareAddress DEF Reading
    <3> QED
      BY <1>1, <2>1, <2>5, <3>1
  <2> QED
    BY <2>4, <2>5
<1> QED
  BY <1>2, <1>3

LEMMA ArriveKeeps ==
  ASSUME AddressInv, Arrive
  PROVE  AddressInv'
<1>1. /\ client_ip' = client_ip_from_header_map(peer, headers)
      /\ UNCHANGED <<managed, source, peer, headers, hops, spoilt>>
  BY DEF Arrive
<1>2. NoSourcePassesForAnother'
  BY <1>1, ServerReadsSource DEF NoSourcePassesForAnother
<1> QED
  BY <1>1, <1>2 DEF AddressInv, Mark

LEMMA AddressInitHolds == AddressInit => AddressInv
<1> SUFFICES ASSUME AddressInit PROVE AddressInv
  OBVIOUS
<1>1. PICK forwarded \in Lists, x_forwarded_for \in Lists, x_real_ip \in RealIps :
        headers = [name \in HeaderNames |-> CASE name = "forwarded" -> forwarded
                                               [] name = "x-forwarded-for" -> x_forwarded_for
                                               [] name = "x-real-ip" -> x_real_ip]
  BY DEF AddressInit
<1>2. headers \in [HeaderNames -> Lines]
  BY <1>1 DEF HeaderNames
<1>3. /\ hops = 0 /\ client_ip = Nowhere /\ managed \in HeaderNames /\ source \in IpAddr
      /\ peer = source /\ spoilt = FALSE
  BY DEF AddressInit
<1> QED
  BY <1>2, <1>3 DEF AddressInv, NoSourcePassesForAnother

LEMMA AddressStep == AddressInv /\ [AddressNext]_addressVars => AddressInv'
<1> SUFFICES ASSUME AddressInv, [AddressNext]_addressVars PROVE AddressInv'
  OBVIOUS
<1>1. CASE UNCHANGED addressVars
  BY <1>1 DEF addressVars, AddressInv, Mark, NoSourcePassesForAnother
<1> QED
  BY <1>1, ArriveKeeps, PassKeeps DEF AddressNext

(***************************************************************************)
(* However many proxies a request from outside passes, and whatever        *)
(* headers it started with, the server takes it for its source's or, where *)
(* the source's address stands in a line that is no text, for the last     *)
(* proxy's: never for a third party's.                                     *)
(***************************************************************************)
THEOREM NoSourcePosesAsAnother == AddressSpec => []NoSourcePassesForAnother
<1>1. AddressInv => NoSourcePassesForAnother
  BY DEF AddressInv
<1> QED
  BY <1>1, AddressInitHolds, AddressStep, PTL DEF AddressSpec
=============================================================================
