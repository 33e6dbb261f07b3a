---------------------------- MODULE DeviceHashes ----------------------------
(***************************************************************************)
(* The hash by which a session's device is recognized (auth-device-core):  *)
(* of its id if that is valid, of its address and user agent otherwise,    *)
(* keyed or not.  SHA-256 and HMAC are external: hashes are equal when     *)
(* everything that was fed to them is.                                     *)
(*                                                                         *)
(* A text is a sequence of characters and short words.                     *)
(***************************************************************************)
EXTENDS Integers, SequencesExt

CONSTANTS DeviceTexts,  \* what clients and proxies send
          Domains,      \* domain separators of the products
          Keys,         \* keys for hashes: an id and a secret
          MaxDeviceText,
          Nobody        \* None

VARIABLES device_policy, devices

deviceVars == <<device_policy, devices>>

ASSUME DeviceAssumption == MaxDeviceText \in Nat

-----------------------------------------------------------------------------
(* The four bytes of a length are control characters, as lengths are short. *)
LengthBytes == <<"#0", "#1", "#2", "#3", "#4", "#5">>
be_bytes(text) == <<LengthBytes[Len(text) + 1]>>
is_control(text) == Range(text) \cap Range(LengthBytes) # {}

spaced(text) == text # <<>> /\ " " \in {Head(text), Last(text)}
Stripped(text) == SelectSeq(text, LAMBDA c : c # " ")

visible(text) == text # <<>> /\ Len(text) <= MaxDeviceText /\ ~is_control(text)

(* Domain separators may have colons inside, not at their end. *)
valid_domain(text) == visible(text) /\ ~spaced(text) /\ Last(text) # ":"

DevicePolicies ==
  [domain_separator : {d \in Domains : valid_domain(d)},
   device_id : {"StrictVisible", "Trimmed", "TrimmedWithoutControl"},
   fallback : {"TrimmedVisible", "RawPresent"},
   unkeyed_device_id : {"DomainSeparated", "RawSha256"},
   unkeyed_ip_user_agent : {"DomainSeparated", "LegacyLenPrefixed"}]

Input == [device_id : DeviceTexts \cup {Nobody}, user_agent : DeviceTexts \cup {Nobody},
          ip : DeviceTexts \cup {Nobody}]

-----------------------------------------------------------------------------
normalize_device_id(text) ==
  IF text = Nobody THEN Nobody
  ELSE CASE device_policy.device_id = "StrictVisible" ->
              IF visible(text) /\ ~spaced(text) THEN text ELSE Nobody
         [] device_policy.device_id = "Trimmed" ->
              IF Len(Stripped(text)) \in 1..MaxDeviceText THEN Stripped(text) ELSE Nobody
         [] OTHER -> IF visible(Stripped(text)) THEN Stripped(text) ELSE Nobody

normalized_visible(text) ==
  IF text # Nobody /\ visible(Stripped(text)) THEN Stripped(text) ELSE Nobody

normalize_fallback(text) ==
  IF device_policy.fallback = "RawPresent" THEN text ELSE normalized_visible(text)

DeviceHashMaterial(input) ==
  LET id == normalize_device_id(input.device_id) IN
  IF id # Nobody THEN [device_id |-> id, ip |-> Nobody, user_agent |-> Nobody]
  ELSE [device_id |-> Nobody, ip |-> normalize_fallback(input.ip),
        user_agent |-> normalize_fallback(input.user_agent)]

NoMaterial == [device_id |-> Nobody, ip |-> Nobody, user_agent |-> Nobody]

len_prefixed(text) == be_bytes(text) \o text

(* Mutant of tagged: the length is left out. *)
tagged_only(tag, text) == IF text = Nobody THEN <<>> ELSE <<tag>> \o text

tagged(tag, text) == IF text = Nobody THEN <<>> ELSE <<tag>> \o len_prefixed(text)

update_hash_material(material) ==
  device_policy.domain_separator \o <<":">> \o
  (IF material.device_id # Nobody THEN tagged("device-id:", material.device_id)
   ELSE <<"ip-ua:">> \o tagged("ip:", material.ip) \o tagged("ua:", material.user_agent))

Sha256(text) == [under |-> Nobody, of |-> text]
Hmac(key, text) == [under |-> key, of |-> text]

Unkeyed(material) ==
  CASE material.device_id # Nobody /\ device_policy.unkeyed_device_id = "RawSha256" ->
         Sha256(material.device_id)
    [] material.device_id = Nobody /\ device_policy.unkeyed_ip_user_agent = "LegacyLenPrefixed" ->
         IF Nobody \in {material.ip, material.user_agent} THEN Nobody
         ELSE Sha256(len_prefixed(material.ip) \o len_prefixed(material.user_agent))
    [] OTHER -> Sha256(update_hash_material(material))

compute_device_hash(input, key) ==
  LET material == DeviceHashMaterial(input) IN
  IF material = NoMaterial THEN Nobody
  ELSE IF key # Nobody THEN Hmac(key, update_hash_material(material))
  ELSE Unkeyed(material)

-----------------------------------------------------------------------------
DeviceInit == device_policy \in DevicePolicies /\ devices = {}

(* Two are enough to tell whether they are told apart. *)
Recognize(input, key) ==
  /\ Cardinality(devices) < 2
  /\ compute_device_hash(input, key) # Nobody
  /\ devices' = devices \cup {[key |-> key, material |-> DeviceHashMaterial(input),
                               domain |-> device_policy.domain_separator,
                               hash |-> compute_device_hash(input, key)]}
  /\ UNCHANGED device_policy

(* Another product, whose hashes differ in their domain, shares the key. *)
OtherProduct ==
  /\ devices # {}
  /\ \E d \in Domains :
       /\ valid_domain(d)
       /\ device_policy' = [device_policy EXCEPT !.domain_separator = d]
  /\ UNCHANGED devices

DeviceNext == OtherProduct \/ \E input \in Input, key \in Keys \cup {Nobody} : Recognize(input, key)

-----------------------------------------------------------------------------
(* Policies under which a hash has no other reading. *)
Unambiguous(p) ==
  \/ p.unkeyed_device_id = "DomainSeparated" /\ p.unkeyed_ip_user_agent = "DomainSeparated"
  \/ p.device_id # "Trimmed"

(***************************************************************************)
(* Two devices, keys or products never share a hash, even if one client    *)
(* puts into its id or user agent what another one's hash is made of; only *)
(* the hashes without a domain are shared between products.  The policies  *)
(* that let control characters into an id and drop the domain are the      *)
(* exception.                                                              *)
(***************************************************************************)
DevicesStayApart ==
  Unambiguous(device_policy) =>
    \A one, other \in devices :
      one.hash = other.hash => /\ one.material = other.material /\ one.key = other.key
                               /\ \/ one.domain = other.domain
                                  \/ device_policy.unkeyed_device_id = "RawSha256"
                                  \/ device_policy.unkeyed_ip_user_agent = "LegacyLenPrefixed"
=============================================================================
