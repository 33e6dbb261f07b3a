---------------------------- MODULE StoredFields ----------------------------
(***************************************************************************)
(* The validated texts of the crates: identifiers, labels, codes and the   *)
(* names of statuses.  A text enters once, is stored as it was accepted    *)
(* and is validated again whenever it is read back.  The store is the      *)
(* product's, external.                                                    *)
(*                                                                         *)
(* A text is a sequence of characters of a small alphabet; all texts have  *)
(* the same limit here.                                                    *)
(***************************************************************************)
EXTENDS Integers, SequencesExt

CONSTANTS TextChars,     \* characters that texts are made of
          MaxText,   \* bound: characters of a text that enters
          max_len,   \* the limit of every field
          Rejected   \* an error; nothing is stored

VARIABLES rule,      \* the field
          stored,    \* its text, or Rejected
          first      \* history: the text as it was accepted

fieldVars == <<rule, stored, first>>

ASSUME FieldAssumption == MaxText \in Nat /\ max_len \in Nat

-----------------------------------------------------------------------------
Lower == {"a", "b"}
Alphanumeric == Lower \cup {"A", "1"}
Control == {"\n", "\t"}
Whitespace == {" ", "\n", "\t"}
Graphic == TextChars \ (Control \cup Whitespace \cup {"e-acute"})

NonControl == TextChars \ Control
Visible == NonControl \ Whitespace
KeyChars == Alphanumeric \cup {"-", "_", ".", ":", "/"}
LabelChars == Alphanumeric \cup {"-", "_", ".", ":"}
SegmentChars == Alphanumeric \cup {"-", "_", "."}

has_control(text) == \E i \in DOMAIN text : text[i] \in Control

solid(text) == {i \in DOMAIN text : text[i] \notin Whitespace}

trim(text) ==
  IF solid(text) = {} THEN <<>> ELSE SubSeq(text, Min(solid(text)), Max(solid(text)))

(* The longest character takes two bytes. *)
bytes(text) == Len(text) + Cardinality({i \in DOMAIN text : text[i] = "e-acute"})

only(text, chars) == \A i \in DOMAIN text : text[i] \in chars

(* Rules: whether space around a text is dropped or refused, the           *)
(* characters that may be left, how they are counted, and the shape.       *)
Rule(edge, chars, unit, shape) == [edge |-> edge, chars |-> chars, unit |-> unit, shape |-> shape]

FanoutMetadata      == Rule("trimmed", KeyChars, "bytes", "any")
WorkerId            == Rule("trimmed", KeyChars, "bytes", "any")
LeaseToken          == Rule("trimmed", Visible, "unlimited", "any")
RequestId           == Rule("trimmed", Graphic, "bytes", "any")
NotificationTarget  == Rule("trimmed", NonControl, "bytes", "any")
ProviderFailureCode == Rule("trimmed", Lower \cup {"1", "_"}, "bytes", "any")
IssuerLabel         == Rule("trimmed", LabelChars, "bytes", "any")
PolicyVersion       == Rule("trimmed", LabelChars, "bytes", "any")
ProviderObjectId    == Rule("trimmed", Visible, "bytes", "any")
KeySegment          == Rule("trimmed", SegmentChars, "bytes", "any")
EventId             == Rule("trimmed", LabelChars, "bytes", "any")
EventType           == Rule("trimmed", SegmentChars, "bytes", "any")
SettingName         == Rule("trimmed", Lower \cup {"1", "_", "."}, "bytes", "identifiers")
Issuer              == Rule("exact", NonControl, "bytes", "any")
ActorId             == Rule("exact", Visible, "bytes", "any")
DeviceId            == Rule("exact", NonControl, "chars", "any")
KeyId               == Rule("exact", SegmentChars, "bytes", "any")
EnvNamespace        == Rule("exact", Visible, "bytes", "any")
RecoveryToken       == Rule("exact", Alphanumeric \cup {"-", "_"}, "bytes", "full length")

TextRules == {FanoutMetadata, WorkerId, LeaseToken, RequestId, NotificationTarget,
              ProviderFailureCode, IssuerLabel, PolicyVersion, ProviderObjectId, KeySegment,
              EventId, EventType, SettingName, Issuer, ActorId, DeviceId, KeyId, EnvNamespace,
              RecoveryToken}

fits(r, text) ==
  LET size == IF r.unit = "chars" THEN Len(text) ELSE bytes(text) IN
  r.unit = "unlimited" \/ size <= max_len

(* Identifiers with dots between them. *)
is_unquoted_identifier(text, from, to) == from <= to /\ text[from] \in Lower \cup {"_"}
dots(text) == {0, Len(text) + 1} \cup {i \in DOMAIN text : text[i] = "."}
is_setting_name(text) ==
  \A i \in dots(text) \ {Len(text) + 1} :
    LET next == Min({j \in dots(text) : j > i}) IN is_unquoted_identifier(text, i + 1, next - 1)

has_shape(r, text) ==
  CASE r.shape = "any" -> TRUE
    [] r.shape = "identifiers" -> is_setting_name(text)
    [] r.shape = "full length" -> bytes(text) = max_len

(* Mutant of accepted: what is checked is not what is kept. *)
accepted_untrimmed(r, text) ==
  LET value == trim(text) IN
  IF \/ r.edge = "trimmed" /\ has_control(text)
     \/ r.edge = "exact" /\ value # text
     \/ value = <<>> \/ ~fits(r, value) \/ ~only(value, r.chars) \/ ~has_shape(r, value)
    THEN Rejected ELSE text

(* A control character is refused before space is dropped, so that none    *)
(* is taken for space.                                                     *)
accepted(r, text) ==
  LET value == trim(text) IN
  IF \/ r.edge = "trimmed" /\ has_control(text)
     \/ r.edge = "exact" /\ value # text
     \/ value = <<>> \/ ~fits(r, value) \/ ~only(value, r.chars) \/ ~has_shape(r, value)
    THEN Rejected ELSE value

-----------------------------------------------------------------------------
(* Names of statuses: the labels that are understood, with the label of    *)
(* the status they name, which is their own unless it says otherwise.      *)
CycleRuntimeStatus ==
  LET Open == {"ready", "waiting"}
      Running == {"simulating", "processing"}
      Stuck == {"failed", "stuck"}
  IN [label \in {"open", "running", "finalizing", "paused", "attention_required"}
                   \cup Open \cup Running \cup Stuck |->
        CASE label \in Open -> "open"
          [] label \in Running -> "running"
          [] label \in Stuck -> "attention_required"
          [] OTHER -> label]

NotificationChannel ==
  LET Push == {"browser-push", "web_push", "web-push", "push"}
  IN [label \in {"email", "smtp", "browser_push", "fcm", "apns", "webhook"} \cup Push |->
        CASE label = "smtp" -> "email"
          [] label \in Push -> "browser_push"
          [] OTHER -> label]

TokenTypes ==
  [label \in {"access", "refresh", "impersonation", "exchange", "impersonation_exchange"} |->
     label]

Vocabularies == {CycleRuntimeStatus, NotificationChannel, TokenTypes}

from_str(names, label) == IF label \in DOMAIN names THEN names[label] ELSE Rejected

-----------------------------------------------------------------------------
FieldInit == rule \in TextRules \cup Vocabularies /\ stored = Rejected /\ first = Rejected

Validated(text) == IF rule \in TextRules THEN accepted(rule, text) ELSE from_str(rule, text)

Entered == IF rule \in TextRules THEN BoundedSeq(TextChars, MaxText) ELSE DOMAIN rule

Enter(text) ==
  /\ first = Rejected
  /\ stored' = Validated(text) /\ first' = Validated(text)
  /\ UNCHANGED rule

ReadBack ==
  /\ first # Rejected /\ stored # Rejected
  /\ stored' = Validated(stored)
  /\ UNCHANGED <<rule, first>>

FieldNext == ReadBack \/ \E text \in Entered : Enter(text)

FieldSpec == FieldInit /\ [][FieldNext]_fieldVars

-----------------------------------------------------------------------------
(***************************************************************************)
(* What was accepted once is accepted ever after, unchanged, and a text    *)
(* that is kept has no control characters and no space around it.          *)
(***************************************************************************)
StoredTextComesBack ==
  /\ stored = first
  /\ first # Rejected /\ rule \in TextRules =>
       first # <<>> /\ first = trim(first) /\ ~has_control(first)
=============================================================================
