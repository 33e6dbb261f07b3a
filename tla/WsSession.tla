------------------------------ MODULE WsSession ------------------------------
(***************************************************************************)
(* A WebSocket session (auth-ws-core): the first frame has to authenticate *)
(* it, with a token that becomes a bearer credential.  The session then    *)
(* issues a nonce, which every control frame has to echo, and a sliding    *)
(* window limits those frames.  The session's loop is the product's,       *)
(* external.                                                               *)
(*                                                                         *)
(* Instants are ages, relative to the present.                             *)
(***************************************************************************)
EXTENDS Integers, Sequences, FiniteSets

CONSTANTS max_frames, window,    \* of the control frames, in ticks
          max_auth_frame_bytes,
          Tokens,                \* what bearer tokens say
          Nonces                 \* what nonces say

ASSUME WsAssumption ==
  max_frames \in Nat /\ window \in Nat /\ max_auth_frame_bytes \in Nat

VARIABLES session,      \* "connecting", "authenticated" or "closed"
          error,        \* why it closed, or "none"
          bearer,       \* the token passed on, or NoToken
          nonce,        \* the one issued, or NoNonce
          accepted_at,  \* ages of the frames that the limiter let pass, oldest first
          passed,       \* history: the same, whatever the code forgets
          presented,    \* history: the token of the frame that authenticated
          echoes        \* history: the nonces of the control frames accepted

wsVars == <<session, error, bearer, nonce, accepted_at, passed, presented, echoes>>

-----------------------------------------------------------------------------
(* A token's text: what is around it, whether it names the scheme, what    *)
(* the rest says, and of which characters that is made.                    *)
TokenText ==
  {text \in [pad : {"none", "space", "control"}, scheme : {"none", "Bearer", "other"},
             says : Tokens, chars : SUBSET {"token", "space", "control", "other"}] :
     text.scheme # "none" => text.chars # {}}
NoToken == [pad |-> "none", scheme |-> "none", says |-> "nothing", chars |-> {}]

(* A nonce's text, likewise; the empty one, and none at all.               *)
EmptyNonce == [says |-> "nothing", chars |-> {}]
NoNonce == [says |-> "missing", chars |-> {}]
NonceText ==
  [says : Nonces, chars : (SUBSET {"graphic", "space", "control"}) \ {{}}] \cup {EmptyNonce}

WsAuthError == {"AuthenticationRequired", "FrameTooLarge", "BinaryAuthFrame",
                "MalformedAuthFrame", "InvalidMessageType", "MissingToken",
                "InvalidAuthNonce", "ControlRateLimited"}

has_control(text) == text.pad = "control" \/ "control" \in text.chars
is_blank(text) == text.chars \ {"space", "control"} = {} /\ text.scheme = "none"
bare_token(text) == [pad |-> "none", scheme |-> "none", says |-> text.says, chars |-> text.chars]

is_bearer_token(chars) == chars = {"token"}

(* parse_bearer_authorization: the credential, or NoToken for its errors.  *)
(* A text with no scheme of its own has the token where the scheme goes.   *)
parse_bearer_authorization(header) ==
  IF /\ ~has_control(header) /\ header.scheme = "Bearer" /\ is_bearer_token(header.chars)
    THEN bare_token(header) ELSE NoToken

(* Another scheme becomes a part of the token. *)
with_scheme(text) ==
  [text EXCEPT !.scheme = "Bearer",
               !.chars = IF text.scheme = "none" THEN @ ELSE @ \cup {"space"}]

has_whitespace(text) == text.pad # "none" \/ text.scheme # "none" \/ "space" \in text.chars

valid_ws_token(text) ==
  /\ ~is_blank(text) /\ text.pad = "none" /\ ~has_control(text)
  /\ IF has_whitespace(text) THEN parse_bearer_authorization(text) # NoToken
     ELSE parse_bearer_authorization(with_scheme(text)) # NoToken

bearer_header_from_ws_token(text) ==
  LET trimmed == [text EXCEPT !.pad = "none"]
      credential == parse_bearer_authorization(trimmed)
  IN with_scheme(IF credential # NoToken THEN credential ELSE trimmed)

-----------------------------------------------------------------------------
(* Frames as they arrive: what a text frame's JSON says, if it is any.     *)
Frame == [binary : BOOLEAN, len : 1..(max_auth_frame_bytes + 1), json : BOOLEAN,
          message_type : {"auth", "other"}, token : TokenText]

(* parse_initial_auth_text and reject_initial_auth_binary: "ok", or the    *)
(* first error.                                                            *)
parse_initial_auth(frame) ==
  CASE frame.binary -> "BinaryAuthFrame"
    [] ~frame.binary /\ frame.len > max_auth_frame_bytes -> "FrameTooLarge"
    [] OTHER ->
         IF ~frame.json THEN "MalformedAuthFrame"
         ELSE IF frame.message_type # "auth" THEN "InvalidMessageType"
         ELSE IF ~valid_ws_token(frame.token) THEN "MissingToken" ELSE "ok"

(* AuthNonce::new, of what the product's generator gave. *)
AuthNonce(value) == IF value.chars = {"graphic"} THEN "ok" ELSE "InvalidAuthNonce"

require_auth_nonce(expected, provided) ==
  IF provided # NoNonce /\ provided = expected THEN "ok" ELSE "InvalidAuthNonce"

code(failure) ==
  CASE failure \in {"MalformedAuthFrame", "InvalidMessageType", "MissingToken"} -> "invalid_auth"
    [] failure = "BinaryAuthFrame" -> "binary_auth_unsupported"
    [] OTHER -> failure

(* What is left of ages, oldest first, once those of span or more are gone. *)
retain(ages, span) ==
  SubSeq(ages, Cardinality({i \in DOMAIN ages : ages[i] >= span}) + 1, Len(ages))

allow(kept) ==
  IF Len(kept) >= max_frames THEN [allowed |-> FALSE, ages |-> kept]
  ELSE [allowed |-> TRUE, ages |-> Append(kept, 0)]

(* Mutant of allow_at: an entry is forgotten one tick too early. *)
allow_forgetful(ages) ==
  IF max_frames = 0 \/ window = 0 THEN [allowed |-> FALSE, ages |-> ages]
  ELSE allow(retain(ages, window - 1))

(* ControlFrameRateLimit::allow_at, now: frames that have left the window  *)
(* are forgotten, also when the new one is refused.                        *)
allow_at(ages) ==
  IF max_frames = 0 \/ window = 0 THEN [allowed |-> FALSE, ages |-> ages]
  ELSE allow(retain(ages, window))

-----------------------------------------------------------------------------
WsInit ==
  /\ session = "connecting" /\ error = "none" /\ bearer = NoToken /\ nonce = NoNonce
  /\ accepted_at = <<>> /\ passed = <<>> /\ presented = NoToken /\ echoes = {}

Close(why) == session' = "closed" /\ error' = code(why)

(* The first frame is read; of a good one the nonce is issued, if what the *)
(* product's generator gave is one.                                        *)
FirstFrame(frame, entropy) ==
  LET parsed == parse_initial_auth(frame)
      issued == AuthNonce(entropy) IN
  /\ session = "connecting"
  /\ \/ /\ parsed = "ok" /\ issued = "ok"
        /\ session' = "authenticated" /\ UNCHANGED error
        /\ bearer' = parse_bearer_authorization(bearer_header_from_ws_token(frame.token))
        /\ presented' = frame.token /\ nonce' = entropy
     \/ parsed # "ok" /\ Close(parsed) /\ UNCHANGED <<bearer, presented, nonce>>
     \/ parsed = "ok" /\ issued # "ok" /\ Close(issued) /\ UNCHANGED <<bearer, presented, nonce>>
  /\ UNCHANGED <<accepted_at, passed, echoes>>

FirstFrameTimesOut ==
  /\ session = "connecting" /\ Close("AuthenticationRequired")
  /\ UNCHANGED <<bearer, nonce, accepted_at, passed, presented, echoes>>

(* A control or subscribe frame echoes a nonce.  The product may ask the   *)
(* limiter before or after the nonce, so that a frame with another nonce   *)
(* counts or does not; it takes what both let pass (require_allowed_at's   *)
(* answer is required), and whether it closes the session of a frame that  *)
(* is refused is its own.                                                  *)
ControlFrame(provided, limited_first) ==
  LET echoed == require_auth_nonce(nonce, provided)
      limited == allow_at(accepted_at)
      required == IF limited.allowed THEN "ok" ELSE "ControlRateLimited"
      verdict == IF limited_first THEN IF required = "ok" THEN echoed ELSE required
                 ELSE IF echoed = "ok" THEN required ELSE echoed IN
  /\ session = "authenticated"
  /\ IF limited_first \/ echoed = "ok"
       THEN /\ accepted_at' = limited.ages
            /\ passed' = IF limited.allowed THEN Append(passed, 0) ELSE passed
       ELSE UNCHANGED <<accepted_at, passed>>
  /\ echoes' = IF verdict = "ok" THEN echoes \cup {provided} ELSE echoes
  /\ \/ UNCHANGED <<session, error>>
     \/ verdict # "ok" /\ Close(verdict)
  /\ UNCHANGED <<bearer, nonce, presented>>

Older(ages) == [i \in DOMAIN ages |-> IF ages[i] < window THEN ages[i] + 1 ELSE window]

WsTick ==
  /\ session = "authenticated"
  /\ accepted_at' = Older(accepted_at)
  /\ passed' = retain(Older(passed), window)
  /\ UNCHANGED <<session, error, bearer, nonce, presented, echoes>>

Disconnect ==
  /\ session = "authenticated" /\ session' = "closed"
  /\ UNCHANGED <<error, bearer, nonce, accepted_at, passed, presented, echoes>>

WsNext ==
  \/ FirstFrameTimesOut \/ WsTick \/ Disconnect
  \/ \E frame \in Frame, entropy \in NonceText : FirstFrame(frame, entropy)
  \/ \E provided \in NonceText \cup {NoNonce}, limited_first \in BOOLEAN :
       ControlFrame(provided, limited_first)

WsSpec == WsInit /\ [][WsNext]_wsVars

-----------------------------------------------------------------------------
(***************************************************************************)
(* An authenticated session goes on with the credential of the token that  *)
(* its frame presented: the frame's check and the bearer parser, one after *)
(* the other, take the same texts for tokens and the same part of them for *)
(* the token, with or without the scheme.                                  *)
(***************************************************************************)
TokenBecomesBearer ==
  session = "authenticated" => bearer # NoToken /\ bearer = bare_token(presented)

(***************************************************************************)
(* Every control frame accepted echoed the nonce that its session issued   *)
(* when it was authenticated, which has no blanks and is not empty: a      *)
(* frame without one, or with another session's, is never accepted.        *)
(***************************************************************************)
ControlFramesEcho ==
  \A echo \in echoes : echo = nonce /\ echo.chars = {"graphic"} /\ presented # NoToken

(***************************************************************************)
(* The limiter, which forgets, decides as if it remembered everything: a   *)
(* frame that comes now passes exactly if the window that ends now has     *)
(* seen fewer than the limit pass.  So no window sees more of them, and a  *)
(* frame once counted is not counted for ever.                             *)
(***************************************************************************)
PassedInWindow == Cardinality({i \in DOMAIN passed : passed[i] < window})
ControlFramesLimited ==
  /\ PassedInWindow <= max_frames
  /\ window # 0 => (allow_at(accepted_at).allowed <=> PassedInWindow < max_frames)

(***************************************************************************)
(* A WebSocket goes on with the credential that authenticated it, its      *)
(* control frames echo its own nonce, and their limit is that of a sliding *)
(* window that forgets nothing too early or too late.                      *)
(***************************************************************************)
SocketsAreGuarded == TokenBecomesBearer /\ ControlFramesEcho /\ ControlFramesLimited
=============================================================================
