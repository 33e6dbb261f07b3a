----------------------------- MODULE LimitSpecs -----------------------------
(***************************************************************************)
(* The limits of a deployment (rate-limit-core): defaults written as       *)
(* "count/window" and overrides in JSON are parsed into a catalog, and the *)
(* key of a subject's bucket is put together from parts.                   *)
(*                                                                         *)
(* A text is a sequence of pieces: numerals, words and single letters.     *)
(* Windows are in milliseconds.                                            *)
(***************************************************************************)
EXTENDS Integers, SequencesExt

CONSTANTS Numerals,   \* numerals, with their numbers
          MaxRequests, \* u32::MAX
          MaxMillis,  \* u64::MAX
          JsonLimits, \* JSON values that stand for a limit
          Labels,     \* labels of the catalog, trimmed
          UnsafeLabels, \* texts that are no labels
          SubjectChars, \* characters of the parts of a key
          MaxPart,    \* bound: length of a part
          MaxKey,     \* characters a key may have
          NoLimit     \* what a label has that is not in the catalog

VARIABLES catalog,
          meant,      \* history: what the accepted texts say, label by label
          keys        \* history: the subjects that were given a key, with it

catalogVars == <<catalog, meant>>

Unlimited == [count |-> MaxRequests, window |-> 0]
fixed(count, window) == [count |-> count, window |-> window]
Err == [count |-> 0, window |-> 0]

Seconds == [words |-> {<<"s">>, <<"sec">>}, suffix |-> <<"s">>, millis |-> 1000]
Minutes == [words |-> {<<"m">>, <<"min">>}, suffix |-> <<"m">>, millis |-> 60000]
Hours   == [words |-> {<<"h">>, <<"hour">>}, suffix |-> <<"h">>, millis |-> 3600000]
Days    == [words |-> {<<"d">>, <<"day">>}, suffix |-> <<"d">>, millis |-> 86400000]
Milliseconds == [words |-> {}, suffix |-> <<"m", "s">>, millis |-> 1]
Bare   == [words |-> {}, suffix |-> <<>>, millis |-> 1000]
Units  == {Seconds, Minutes, Hours, Days, Milliseconds}

(* Limits as deployments write them, a window with its number and unit, or *)
(* just a unit.                                                            *)
Limit == [form : {"empty", "unlimited", "no slash", "fixed"},
          count : DOMAIN Numerals \cup {"junk"},
          number : DOMAIN Numerals \cup {"junk", ""}, unit : Units \cup {Bare}]

(* Numerals are no units; a day is a window, and a JSON string a limit.     *)
Letters == {"s", "sec", "m", "min", "h", "hour", "d", "day"}
ASSUME LimitAssumption ==
  /\ MaxRequests \in Nat \ {0} /\ MaxMillis \in Nat /\ MaxMillis >= Days.millis
  /\ \A n \in DOMAIN Numerals : Numerals[n] \in Nat /\ n \notin Letters \cup {""}
  /\ \A value \in JsonLimits :
       \/ value.type = "string" /\ value.limit \in Limit
       \/ value.type \in {"array", "object", "other"}
  /\ Labels \cap UnsafeLabels = {} /\ MaxPart \in Nat /\ MaxKey \in Nat

written(limit) ==
  [form |-> limit.form, count |-> <<limit.count>>,
   window |-> IF limit.number # "" THEN <<limit.number>> \o limit.unit.suffix
              ELSE IF limit.unit.words = {} THEN limit.unit.suffix
              ELSE CHOOSE word \in limit.unit.words : TRUE]

-----------------------------------------------------------------------------
(* Parsing.  Numerals that do not fit are errors, as are other words.      *)
parse_u32(text) ==
  IF Len(text) = 1 /\ text[1] \in DOMAIN Numerals /\ Numerals[text[1]] <= MaxRequests
    THEN Numerals[text[1]] ELSE 0
parse_u64(text) ==
  IF Len(text) = 1 /\ text[1] \in DOMAIN Numerals /\ Numerals[text[1]] <= MaxMillis
    THEN Numerals[text[1]] ELSE 0

checked_mul(units, millis) == IF units <= MaxMillis \div millis THEN units * millis ELSE 0

(* Mutant of suffixed_unit: "s" is looked for before "ms". *)
shortest_unit(text, strict) ==
  LET fits == {u \in Units \cup (IF strict THEN {} ELSE {Bare}) : IsSuffix(u.suffix, text)}
      lettered == IF fits = {Bare} THEN fits ELSE fits \ {Bare}
  IN {u \in lettered : \A v \in lettered : Len(v.suffix) >= Len(u.suffix)}

(* The unit at the end of a text, "ms" before "s"; seconds, for a bare     *)
(* number, unless the mode is strict.                                      *)
suffixed_unit(text, strict) ==
  LET fits == {u \in Units \cup (IF strict THEN {} ELSE {Bare}) : IsSuffix(u.suffix, text)}
  IN {u \in fits : \A v \in fits : Len(v.suffix) <= Len(u.suffix)}

(* The window in milliseconds; 0 is an error. *)
parse_window(text, strict) ==
  LET named == {u \in Units : text \in u.words}
      found == suffixed_unit(text, strict)
  IN IF named # {} THEN (CHOOSE u \in named : TRUE).millis
     ELSE IF found = {} THEN 0
     ELSE LET unit == CHOOSE u \in found : TRUE
              number == SubSeq(text, 1, Len(text) - Len(unit.suffix))
          IN checked_mul(parse_u64(number), unit.millis)

new_fixed(count, window) == IF count = 0 \/ window = 0 THEN Err ELSE fixed(count, window)

parse_limit_spec_with_mode(text, strict) ==
  CASE text.form = "empty" -> Err
    [] text.form = "unlimited" -> Unlimited
    [] text.form = "no slash" -> Err
    [] text.form = "fixed" -> new_fixed(parse_u32(text.count), parse_window(text.window, strict))

parse_limit_spec(text) == parse_limit_spec_with_mode(text, FALSE)
parse_limit_spec_strict(text) == parse_limit_spec_with_mode(text, TRUE)

(* A JSON number that is no u64 is "none"; seconds become milliseconds.    *)
as_count(number) == parse_u32(<<number>>)
as_window(number) == IF number \in DOMAIN Numerals THEN Numerals[number] * 1000 ELSE 0

(* The window's first spelling that the object has. *)
window_of(object) ==
  IF object.windowSecs # "missing" THEN object.windowSecs
  ELSE IF object.window_seconds # "missing" THEN object.window_seconds
  ELSE object.window_secs

limit_spec_from_json_value(value) ==
  CASE value.type = "string" -> parse_limit_spec_strict(written(value.limit))
    [] value.type = "array" ->
         IF Len(value.items) # 2 THEN Err
         ELSE new_fixed(as_count(value.items[1]), as_window(value.items[2]))
    [] value.type = "object" ->
         IF value.unlimited = "true" THEN Unlimited
         ELSE new_fixed(as_count(value.count), as_window(window_of(value)))
    [] value.type = "other" -> Err

-----------------------------------------------------------------------------
(* What limits and JSON values mean, without the parser.                   *)
ValueOf(numeral) == IF numeral \in DOMAIN Numerals THEN Numerals[numeral] ELSE 0

Meaning(limit, strict) ==
  LET number == IF limit.number = "" /\ limit.unit.words # {} THEN 1 ELSE ValueOf(limit.number)
      window == number * limit.unit.millis
  IN IF limit.form = "unlimited" THEN Unlimited
     ELSE IF /\ limit.form = "fixed" /\ ValueOf(limit.count) \in 1..MaxRequests
             /\ window \in 1..MaxMillis /\ ~(strict /\ limit.unit = Bare)
       THEN fixed(ValueOf(limit.count), window) ELSE Err

(* A JSON value with the text of a limit, or with a count and seconds.     *)
JsonMeaning(value) ==
  LET OfSeconds(count, secs) ==
        IF ValueOf(count) \in 1..MaxRequests /\ ValueOf(secs) > 0
          THEN fixed(ValueOf(count), ValueOf(secs) * 1000) ELSE Err
  IN CASE value.type = "string" -> Meaning(value.limit, TRUE)
       [] value.type = "array" /\ Len(value.items) = 2 ->
            OfSeconds(value.items[1], value.items[2])
       [] value.type = "object" /\ value.unlimited = "true" -> Unlimited
       [] value.type = "object" /\ value.unlimited # "true" ->
            OfSeconds(value.count, window_of(value))
       [] OTHER -> Err

-----------------------------------------------------------------------------
(* Keys.                                                                   *)
Parts == BoundedSeq(SubjectChars, MaxPart) \ {<<>>}
safe(char) == char # "@"
validate_key_part(text) == /\ Len(text) \in 1..MaxKey /\ \A i \in DOMAIN text : safe(text[i])

length_prefixed_subject_key(prefix, label, kind, subject) ==
  <<"subject", ":", ToString(Len(prefix)), ":">> \o prefix \o
  <<":", ToString(Len(label)), ":">> \o label \o
  <<":", kind, ":", ToString(Len(subject)), ":">> \o subject

(* SHA-256 is external: different texts have different digests. *)
sha256(text) == <<ToString(text)>>

(* The key, or <<>> for InvalidKey. *)
subject_key(prefix, label, subject) ==
  LET raw == length_prefixed_subject_key(prefix, label, "raw", subject)
      hashed == length_prefixed_subject_key(prefix, label, "sha256", sha256(subject))
  IN IF ~validate_key_part(prefix) \/ ~validate_key_part(label) \/ subject = <<>> THEN <<>>
     ELSE IF validate_key_part(subject) /\ validate_key_part(raw) THEN raw
     ELSE IF validate_key_part(hashed) THEN hashed ELSE <<>>

-----------------------------------------------------------------------------
CatalogInit == catalog = [label \in Labels |-> NoLimit] /\ meant = catalog
KeyInit == keys = {}

(* LimitCatalog::insert, of a default; a text that is none stops there, as *)
(* does a label that validate_key_part refuses, which is none of Labels.   *)
InsertDefault(label, limit) ==
  LET spec == parse_limit_spec(written(limit)) IN
  /\ catalog' = [catalog EXCEPT ![label] = IF spec # Err THEN spec ELSE @]
  /\ meant' = [meant EXCEPT ![label] =
       IF Meaning(limit, FALSE) # Err THEN Meaning(limit, FALSE) ELSE @]

(* One bad value or label, and there are no overrides. *)
parse_limit_overrides_json(object) ==
  IF \E label \in DOMAIN object :
       label \in UnsafeLabels \/ limit_spec_from_json_value(object[label]) = Err
    THEN <<>>
    ELSE [label \in DOMAIN object |-> limit_spec_from_json_value(object[label])]

merge(limits, other) ==
  [label \in Labels |-> IF label \in DOMAIN other THEN other[label] ELSE limits[label]]

MergeOverrides(object) ==
  LET meanings == [label \in DOMAIN object |-> JsonMeaning(object[label])]
      meaningful == /\ DOMAIN object \subseteq Labels
                    /\ \A label \in DOMAIN object : meanings[label] # Err
  IN /\ catalog' = merge(catalog, parse_limit_overrides_json(object))
     /\ meant' = IF meaningful THEN merge(meant, meanings) ELSE meant

(* Two subjects are enough to tell whether they are told apart. *)
GiveKey(prefix, label, subject) ==
  /\ Cardinality(keys) < 2
  /\ subject_key(prefix, label, subject) # <<>>
  /\ keys' = keys \cup {[key |-> subject_key(prefix, label, subject),
                         subject |-> <<prefix, label, subject>>]}

CatalogNext ==
  \/ \E label \in Labels, limit \in Limit : InsertDefault(label, limit)
  \/ \E labels \in SUBSET (Labels \cup UnsafeLabels) :
       \E object \in [labels -> JsonLimits] : MergeOverrides(object)

CatalogSpec == CatalogInit /\ [][CatalogNext]_catalogVars

KeyNext == \E prefix, label, subject \in Parts : GiveKey(prefix, label, subject)

-----------------------------------------------------------------------------
(***************************************************************************)
(* The limits in force are what the deployment last wrote: every way to    *)
(* write a limit is understood as meant or refused, none gives a limit of  *)
(* no requests or of no time, and overrides apply together or not at all.  *)
(***************************************************************************)
LimitsAsWritten ==
  /\ catalog = meant
  /\ \A label \in Labels : catalog[label] \notin {NoLimit, Unlimited} =>
       catalog[label].count \in 1..MaxRequests /\ catalog[label].window > 0

(***************************************************************************)
(* Two subjects have two keys: neither a separator inside a part nor the   *)
(* digest of a long or unsafe subject makes them share a bucket.           *)
(***************************************************************************)
SubjectsStayApart ==
  \A one, other \in keys : one.key = other.key => one.subject = other.subject
=============================================================================
