------------------------------- MODULE Uploads -------------------------------
(***************************************************************************)
(* Uploads into object storage (upload-core): an account asks for an       *)
(* upload with a key, a content type and a size, which are validated       *)
(* together against its policies; the upload is pending until it is        *)
(* completed, deleted or rejected.  The storage is external: it reads a    *)
(* key as a path.                                                          *)
(***************************************************************************)
EXTENDS Integers, SequencesExt

CONSTANTS Accounts,
          required_prefix,   \* per account, its part of the storage
          allowed,           \* content types the product takes
          allow_jpeg_alias,
          max_bytes, max_len,
          Chars, MaxKey,     \* bound: characters of a key, and how many
          NoUpload

VARIABLE uploads             \* per account, its upload

uploadVars == <<uploads>>

ASSUME UploadAssumption ==
  /\ max_bytes \in Nat \ {0} /\ max_len \in Nat /\ MaxKey \in Nat
  /\ allow_jpeg_alias \in BOOLEAN

-----------------------------------------------------------------------------
(* Content types: what a header says, and how: with whitespace around it,  *)
(* newlines included, or with other control characters.                    *)
UploadContentType == {"png", "jpeg", "webp", "gif", "pdf"}
MediaType == [name : UploadContentType \cup {"jpg", "svg", ""}, upper : BOOLEAN,
              pad : {"none", "space", "control"}]
Unsupported == "unsupported"

registered(name) == IF name \in UploadContentType THEN name ELSE Unsupported
aliased(name) == IF name = "jpg" THEN "jpeg" ELSE registered(name)

from_str(value) == IF value.pad = "control" THEN Unsupported ELSE aliased(value.name)

parse_registered_strict(value) ==
  IF value.pad = "none" THEN registered(value.name) ELSE Unsupported

parse_strict_with_optional_jpeg_alias(value) ==
  IF value.pad = "none" THEN aliased(value.name) ELSE Unsupported

require_allowed(type) == IF type \in allowed THEN type ELSE Unsupported

parse_with_policy(value) ==
  require_allowed(IF allow_jpeg_alias THEN parse_strict_with_optional_jpeg_alias(value)
                  ELSE parse_registered_strict(value))

valid_size(size) == 0 < size /\ size <= max_bytes

-----------------------------------------------------------------------------
(* Keys, as sequences of characters.                                       *)
split(key) ==
  FoldLeft(LAMBDA parts, char :
             IF char = "/" THEN Append(parts, <<>>)
             ELSE [parts EXCEPT ![Len(parts)] = Append(@, char)],
           << <<>> >>, key)

Dot == <<".">>
DotDot == <<".", ".">>

allowed_char(char) == char \notin {"\\", "control", "other"}

(* A prefix may end with a slash. *)
valid_prefix_syntax(prefix) ==
  /\ \A i \in DOMAIN split(prefix) :
       /\ split(prefix)[i] \notin {Dot, DotDot}
       /\ split(prefix)[i] = <<>> => i = Len(split(prefix))
  /\ \A i \in DOMAIN prefix : allowed_char(prefix[i])

(* Mutant of has_prefix_boundary: a prefix of the text. *)
has_prefix(key, prefix) == IsPrefix(prefix, key)

has_prefix_boundary(key, prefix) ==
  /\ IsPrefix(prefix, key)
  /\ key # prefix /\ Last(prefix) # "/" => key[Len(prefix) + 1] = "/"

ScopedObjectKey(key, prefix) ==
  /\ key # <<>> /\ prefix # <<>>
  /\ max_len # 0 /\ Len(key) <= max_len
  /\ valid_prefix_syntax(prefix)
  /\ \A i \in DOMAIN split(key) : split(key)[i] \notin {Dot, DotDot, <<>>}
  /\ \A i \in DOMAIN key : allowed_char(key[i])
  /\ has_prefix_boundary(key, prefix)

(* The keys an account may ask for. *)
ScopedKeys ==
  {request \in {[by |-> a, key |-> key] : a \in Accounts, key \in BoundedSeq(Chars, MaxKey)} :
     ScopedObjectKey(request.key, required_prefix[request.by])}

(* How the storage reads a key: the folders from its root. *)
Resolved(key) ==
  FoldLeft(LAMBDA path, part :
             IF part \in {<<>>, Dot} THEN path
             ELSE IF part = DotDot THEN (IF path = <<>> THEN path ELSE Front(path))
             ELSE Append(path, part),
           <<>>, split(key))

-----------------------------------------------------------------------------
is_terminal(state) == state \in {"Completed", "Deleted", "Rejected"}

UploadInit == uploads = [a \in Accounts |-> NoUpload]

(* validate_upload_request: the key, then the type, then the size. *)
RequestUpload(a, key, declared, size) ==
  /\ uploads[a] = NoUpload
  /\ [by |-> a, key |-> key] \in ScopedKeys
  /\ parse_with_policy(declared) # Unsupported
  /\ valid_size(size)
  /\ uploads' = [uploads EXCEPT ![a] =
       [object_key |-> key, declared |-> declared, size |-> size,
        content_type |-> parse_with_policy(declared), state |-> "Pending"]]

Finish(a, state) ==
  /\ uploads[a] # NoUpload /\ ~is_terminal(uploads[a].state)
  /\ is_terminal(state)
  /\ uploads' = [uploads EXCEPT ![a].state = state]

UploadNext ==
  \/ \E request \in ScopedKeys, declared \in MediaType, size \in 0..(max_bytes + 1) :
       RequestUpload(request.by, request.key, declared, size)
  \/ \E a \in Accounts, state \in {"Completed", "Deleted", "Rejected"} : Finish(a, state)

-----------------------------------------------------------------------------
(* Two folders of which neither contains the other. *)
Apart(one, other) == ~IsPrefix(one, other) /\ ~IsPrefix(other, one)

(***************************************************************************)
(* The storage finds an account's object in the account's own folder, and  *)
(* two accounts with folders apart never at the same place, whatever key   *)
(* was asked for; its type is one the product takes, the one the header    *)
(* named, and its size is within the limit.                                *)
(***************************************************************************)
UploadsStayInScope ==
  \A a \in {b \in Accounts : uploads[b] # NoUpload} :
    /\ IsPrefix(Resolved(required_prefix[a]), Resolved(uploads[a].object_key))
    /\ \A b \in {c \in Accounts \ {a} : uploads[c] # NoUpload} :
         Apart(Resolved(required_prefix[a]), Resolved(required_prefix[b])) =>
           Resolved(uploads[a].object_key) # Resolved(uploads[b].object_key)
    /\ uploads[a].content_type \in allowed
    /\ uploads[a].content_type = from_str(uploads[a].declared)
    /\ uploads[a].size \in 1..max_bytes
=============================================================================
