---------------------------- MODULE MCAlgorithms ----------------------------
(***************************************************************************)
(* The loops, parsers and hashes that one call computes, for TLC.  They    *)
(* share no state: in each behaviour one of them runs, while the others    *)
(* stay in one state.                                                      *)
(***************************************************************************)
EXTENDS SaturatingAdd, BreachFileSearch, Backoff, LimitSpecs, StoredFields, StoreKeys, DeviceHashes

CONSTANTS MaxLines, MaxWidth

VARIABLE part   \* the one that runs

algorithmVars == <<part, addVars, searchVars, backoffVars, catalogVars, keys, fieldVars, storeVars,
                   deviceVars>>

-----------------------------------------------------------------------------
(* Every file of up to MaxLines lines of one to MaxWidth bytes, sorted or  *)
(* not, with blank and malformed lines.  Lines of both parities put probes *)
(* in their middle, on their newline and on their first byte.              *)
MCHashes == 0..2

FileOf(text, widths, terminated) ==
  LET n == Cardinality(DOMAIN text)
      ends[i \in 0..n] == IF i = 0 THEN 0 ELSE ends[i - 1] + widths[i]
  IN [lines |-> n, text |-> text, ends |-> ends, terminated |-> terminated]

MCFiles ==
  UNION {LET all == {FileOf(text, widths, terminated) :
                       text \in [1..n -> MCHashes \cup {Blank, Malformed}],
                       widths \in [1..n -> 1..MaxWidth], terminated \in BOOLEAN}
         IN {f \in all : IsFile(f)} : n \in 0..MaxLines}

(* Policies that new refuses, that stand still, and that reach the cap at  *)
(* once, exactly, or past it.                                              *)
MCPolicies == [initial : {0, 1, 3}, max : {0, 1, 4, 9}, multiplier : 0..3]

(* Counts of which the last is where counters saturate. *)
MCAttempts == {-1, 0, 1, 2, 5, MaxCount}

MCNumerals ==
  [n \in {"0", "1", "7", "20"} |->
     CASE n = "0" -> 0 [] n = "1" -> 1 [] n = "7" -> 7 [] n = "20" -> 20]

JsonText(number, unit) ==
  [type |-> "string", limit |-> [form |-> "fixed", count |-> "1", number |-> number, unit |-> unit]]

MCJsonLimits ==
  {JsonText("7", Milliseconds), JsonText("", Days), JsonText("7", Bare), [type |-> "other"],
   [type |-> "array", items |-> <<"7", "1">>], [type |-> "array", items |-> <<"1">>]} \cup
  {o \in [type : {"object"}, unlimited : {"true", "missing"}, count : {"1"},
          windowSecs : {"1", "missing"}, window_seconds : {"missing", "junk"},
          window_secs : {"7", "missing"}] :
     o.unlimited = "true" => o.windowSecs = "missing" /\ o.window_seconds = "junk"}

(* What one device sends, some of which looks like another one's material. *)
MCDeviceTexts ==
  {<<"a">>, <<"a", "ua:", "#1", "a">>, <<" ", "a", "ua:", "a">>, <<"#1", "a", "#1", "a">>}
(* Of every class that a validator tells apart. *)
MCTextChars == {"a", "A", "1", "-", "_", ".", ":", "/", " ", "\n", "e-acute"}

MCDomains == {<<"d">>, <<"d", ":", "device-id">>, <<"d", ":">>}

-----------------------------------------------------------------------------
AddRests == now = 0 /\ asked = 0 /\ duration = 0 /\ result = Running

SearchRests ==
  /\ file = FileOf(<<>>, <<>>, FALSE) /\ sorted = TRUE /\ target = 0
  /\ validated = FALSE /\ pc = "lookup"
  /\ seen = 0 /\ previous_hash = NoHash
  /\ low = 0 /\ high = 0 /\ pos = 0 /\ answer = "none"

BackoffRests ==
  /\ policy = [initial |-> 1, max |-> 1, multiplier |-> 1] /\ call = [by |-> "index", n |-> 0]
  /\ rounds = 0 /\ delay = 0 /\ loop = "new"

FieldRests == rule = WorkerId /\ stored = Rejected /\ first = Rejected
StoreKeyRests == store = "limits" /\ derived = {}
DeviceRests ==
  /\ device_policy = CHOOSE p \in DevicePolicies : TRUE
  /\ devices = {}

Init ==
  /\ part \in {"addition", "search", "backoff", "catalog", "subjects", "fields", "stores", "devices"}
  /\ IF part = "addition" THEN AddInit ELSE AddRests
  /\ IF part = "search" THEN SearchInit ELSE SearchRests
  /\ IF part = "backoff" THEN BackoffInit ELSE BackoffRests
  /\ IF part = "fields" THEN FieldInit ELSE FieldRests
  /\ IF part = "stores" THEN StoreKeyInit ELSE StoreKeyRests
  /\ IF part = "devices" THEN DeviceInit ELSE DeviceRests
  /\ CatalogInit /\ KeyInit

-----------------------------------------------------------------------------
Addition ==
  /\ part = "addition" /\ AddNext
  /\ UNCHANGED <<part, searchVars, backoffVars, catalogVars, keys, fieldVars, storeVars, deviceVars>>

Search ==
  /\ part = "search" /\ SearchNext
  /\ UNCHANGED <<part, addVars, backoffVars, catalogVars, keys, fieldVars, storeVars, deviceVars>>

Retry ==
  /\ part = "backoff" /\ BackoffNext
  /\ UNCHANGED <<part, addVars, searchVars, catalogVars, keys, fieldVars, storeVars, deviceVars>>

Configure ==
  /\ part = "catalog" /\ CatalogNext
  /\ UNCHANGED <<part, addVars, searchVars, backoffVars, keys, fieldVars, storeVars, deviceVars>>

Subjects ==
  /\ part = "subjects" /\ KeyNext
  /\ UNCHANGED <<part, addVars, searchVars, backoffVars, catalogVars, fieldVars, storeVars, deviceVars>>

Fields ==
  /\ part = "fields" /\ FieldNext
  /\ UNCHANGED <<part, addVars, searchVars, backoffVars, catalogVars, keys, storeVars, deviceVars>>

Stores ==
  /\ part = "stores" /\ StoreKeyNext
  /\ UNCHANGED <<part, addVars, searchVars, backoffVars, catalogVars, keys, fieldVars, deviceVars>>

Devices ==
  /\ part = "devices" /\ DeviceNext
  /\ UNCHANGED <<part, addVars, searchVars, backoffVars, catalogVars, keys, fieldVars, storeVars>>

Next == \/ Addition \/ Search \/ Retry \/ Configure
        \/ Subjects \/ Fields \/ Stores \/ Devices

(* Each loop is one synchronous call: it takes its next step.              *)
Spec ==
  /\ Init /\ [][Next]_algorithmVars
  /\ WF_algorithmVars(Addition) /\ WF_algorithmVars(Search) /\ WF_algorithmVars(Retry)

-----------------------------------------------------------------------------
(***************************************************************************)
(* A backoff is what the policy says, and costs few rounds to compute.     *)
(***************************************************************************)
BackoffAsConfigured == DelayIsCappedPower /\ LoopIsShort

(***************************************************************************)
(* Neither two subjects' buckets, nor two records of a store, nor two      *)
(* devices ever share a key.                                               *)
(***************************************************************************)
KeysStayApart == SubjectsStayApart /\ StoredApart /\ DevicesStayApart

(***************************************************************************)
(* Every loop ends: the halving of a duration however long, a lookup in a  *)
(* file however malformed, and a backoff for an attempt however late.      *)
(***************************************************************************)
EveryComputationEnds ==
  /\ part = "addition" => <>(result # Running)
  /\ part = "search" => <>(pc \in {"rejected", "done"})
  /\ part = "backoff" => <>(loop \notin {"new", "running"})
=============================================================================
