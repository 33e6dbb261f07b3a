------------------------------ MODULE StoreKeys ------------------------------
(***************************************************************************)
(* The keys that stores put together from parts: idempotency keys in Redis *)
(* or memory, refresh tokens, limit counters, and the idempotency keys     *)
(* that name a world.  Whoever shares a key shares what is stored there.   *)
(*                                                                         *)
(* A text is a sequence of characters.                                     *)
(***************************************************************************)
EXTENDS Integers, SequencesExt

CONSTANTS PartChars,  \* characters of the parts
          MaxKeyPart  \* bound: length of a part

VARIABLES store,      \* the kind of store
          derived     \* history: what got a key, with the key

storeVars == <<store, derived>>

ASSUME StoreKeyAssumption == MaxKeyPart \in Nat

-----------------------------------------------------------------------------
Colon == <<":">>
LengthOf(text) == <<ToString(Len(text))>>
Texts == BoundedSeq(PartChars, MaxKeyPart) \ {<<>>}
NoNamespace == <<>>

(* Segments have no colon. *)
is_segment(text) == text # <<>> /\ ":" \notin Range(text)
Segments == {text \in Texts : is_segment(text)}

(* Idempotency stores, in the default format. *)
namespaced_key(k) ==
  <<"idem", ":">> \o LengthOf(k.namespace) \o Colon \o k.namespace \o
  Colon \o LengthOf(k.key) \o Colon \o k.key

(* Refresh tokens; the hash of a token has a fixed length. *)
store_key(k) ==
  (IF k.namespace = NoNamespace THEN <<>> ELSE k.namespace \o Colon) \o
  k.key_prefix \o Colon \o k.key_version \o Colon \o <<k.token_hash>>

(* Limit counters. *)
redis_bucket_key(k) ==
  <<"rl", ":">> \o LengthOf(k.namespace) \o Colon \o k.namespace \o
  Colon \o LengthOf(k.key) \o Colon \o k.key \o Colon \o <<k.bucket>>

-----------------------------------------------------------------------------
(* Keys built from segments.                                               *)
Joined(segments) == FoldLeft(LAMBDA key, part : key \o Colon \o part,
                             Head(segments), Tail(segments))

World == <<"world">>
Incarnation == <<"incarnation">>

(* A world with its incarnation, or <<>> for none, amid a product's own    *)
(* segments, which are neither of the two words.                           *)
WorldSegments(k) ==
  k.product \o <<World, k.world>> \o
  (IF k.incarnation = <<>> THEN <<>> ELSE <<Incarnation, k.incarnation>>) \o k.action

(* push refuses what is no segment; <<>> is no key. *)
build(segments) ==
  IF \A i \in DOMAIN segments : is_segment(segments[i]) THEN Joined(segments) ELSE <<>>

Split(key) ==
  FoldLeft(LAMBDA parts, char :
             IF char = ":" THEN Append(parts, <<>>)
             ELSE [parts EXCEPT ![Len(parts)] = Append(@, char)],
           << <<>> >>, key)

parse_new_key(key) == build(Split(key))

world_key(k) == build(WorldSegments(k))

-----------------------------------------------------------------------------
(* What each kind of store has keys for. *)
Stored(kind) ==
  CASE kind = "idempotency" ->
         [namespace : Texts \cup {NoNamespace}, key : Texts]
    [] kind = "refresh" ->
         [namespace : Texts \cup {NoNamespace}, key_prefix : Segments, key_version : Segments,
          token_hash : PartChars \ {":"}]
    [] kind = "limits" ->
         [namespace : Texts, key : Texts, bucket : {"0", "1"}]
    [] kind = "worlds" ->
         [product : BoundedSeq(Segments, 1), world : Texts \cup {World, Incarnation},
          incarnation : Texts \cup {World, Incarnation, <<>>},
          action : BoundedSeq(Segments, 1)]

Key(k) ==
  CASE store = "idempotency" -> namespaced_key(k)
    [] store = "refresh" -> store_key(k)
    [] store = "limits" -> redis_bucket_key(k)
    [] store = "worlds" -> world_key(k)

StoreKeyInit == store \in {"idempotency", "refresh", "limits", "worlds"} /\ derived = {}

(* Two are enough to tell whether they are told apart. *)
Derive(k) ==
  /\ Cardinality(derived) < 2 /\ Key(k) # <<>>
  /\ derived' = derived \cup {[of |-> k, key |-> Key(k)]}
  /\ UNCHANGED store

StoreKeyNext == \E k \in Stored(store) : Derive(k)

-----------------------------------------------------------------------------
(***************************************************************************)
(* No two namespaces, tokens, subjects, windows or worlds share a key of   *)
(* one store, whatever separators and digits their parts contain, and a    *)
(* key that is parsed again is the same key.                               *)
(***************************************************************************)
StoredApart ==
  /\ \A one, other \in derived : one.key = other.key => one.of = other.of
  /\ store = "worlds" => \A one \in derived : parse_new_key(one.key) = one.key
=============================================================================
