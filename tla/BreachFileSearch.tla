-------------------------- MODULE BreachFileSearch --------------------------
(***************************************************************************)
(* How auth-password-core looks a password's hash up in a breach file: the *)
(* validation of the file, the binary search over the bytes of a sorted    *)
(* file, and the scan of an unsorted one.                                  *)
(*                                                                         *)
(* A file is its lines: where each ends and what it holds.  Hashes are     *)
(* numbers in the order of their normalized text.  What may surround a     *)
(* hash (spaces, a count, a carriage return) only makes its line longer.   *)
(* Reading errors and the limits on a file's size are left out.            *)
(***************************************************************************)
EXTENDS Integers

CONSTANTS Hashes, HashWidth,   \* the hashes, and the bytes one takes: 40
          Files

Blank == -1
Malformed == -2

(* Line i is the bytes from ends[i-1] up to ends[i], its newline included. *)
Newlines(f, i) == IF i < f.lines \/ f.terminated THEN 1 ELSE 0

IsFile(f) ==
  /\ f.lines \in Nat /\ f.terminated \in BOOLEAN
  /\ f.ends \in [0..f.lines -> Nat] /\ f.ends[0] = 0
  /\ \A i, j \in 0..f.lines : i < j => f.ends[i] < f.ends[j]
  /\ f.text \in [1..f.lines -> Hashes \cup {Blank, Malformed}]
  /\ \A i \in 1..f.lines : f.text[i] \in Hashes
        => f.ends[i] - f.ends[i - 1] >= HashWidth + Newlines(f, i)

ASSUME BreachFileAssumption ==
  /\ Hashes \subseteq Nat
  /\ HashWidth \in Nat \ {0}
  /\ \A f \in Files : IsFile(f)

VARIABLES file, sorted,   \* the file, and what its options say of it
          target,         \* the hash asked for
          validated,      \* validate_breached_password_file accepted the file
          pc,
          seen,           \* lines a validation or a scan has read
          previous_hash,  \* NoHash before the first line
          low, high,      \* the search's bounds
          pos,            \* seek_probe_line_start's, and the line start it found
          answer

searchVars == <<file, sorted, target, validated, pc, seen, previous_hash, low, high, pos, answer>>

NoHash == -1

FileLen == file.ends[file.lines]
Boundaries == {file.ends[i] : i \in 0..file.lines}
Newline(p) == \E i \in 1..file.lines : file.ends[i] = p + 1 /\ Newlines(file, i) = 1

(* What read_line yields at p < FileLen, and where it leaves the reader.       *)
LineWith(p) == CHOOSE i \in 1..file.lines : file.ends[i - 1] <= p /\ p < file.ends[i]
LineAt(p) == IF file.ends[LineWith(p) - 1] = p THEN file.text[LineWith(p)] ELSE Malformed
EndOfLine(p) == file.ends[LineWith(p)]

SearchTypeOK == /\ IsFile(file) /\ sorted \in BOOLEAN /\ target \in Hashes
                /\ validated \in BOOLEAN
                /\ pc \in {"validate", "lookup", "scan", "search", "walk", "compare", "last",
                           "rejected", "done"}
                /\ seen \in 0..file.lines
                /\ previous_hash \in Hashes \cup {NoHash}
                /\ low \in 0..FileLen /\ high \in 0..FileLen /\ pos \in 0..FileLen
                /\ answer \in {"none", "found", "absent", "error"}

SearchInit == /\ file \in Files /\ sorted \in BOOLEAN /\ target \in Hashes
              /\ validated = FALSE
              /\ pc \in {"validate", "lookup"}
              /\ seen = 0 /\ previous_hash = NoHash
              /\ low = 0 /\ high = 0 /\ pos = 0
              /\ answer = "none"

arguments == <<file, sorted, target>>
scanning == <<seen, previous_hash>>
searching == <<low, high, pos>>

-----------------------------------------------------------------------------
(* validate_breached_password_file                                         *)

(* Mutant of InOrder: the line is compared with no other. *)
AnyOrder(hash) == TRUE

InOrder(hash) == sorted => previous_hash <= hash

ValidateLine ==
  /\ pc = "validate" /\ seen < file.lines
  /\ seen' = seen + 1
  /\ LET hash == file.text[seen + 1] IN
       IF hash \in Hashes /\ InOrder(hash)
         THEN previous_hash' = hash /\ pc' = pc
         ELSE previous_hash' = previous_hash /\ pc' = "rejected"
  /\ UNCHANGED <<arguments, validated, searching, answer>>

ValidateEnd ==
  /\ pc = "validate" /\ seen = file.lines
  /\ validated' = (seen > 0)
  /\ pc' = IF seen > 0 THEN "lookup" ELSE "rejected"
  /\ UNCHANGED <<arguments, scanning, searching, answer>>

-----------------------------------------------------------------------------
(* breached_password_file_contains                                         *)

Done(outcome) == pc' = "done" /\ answer' = outcome

Lookup ==
  /\ pc = "lookup"
  /\ \/ /\ ~sorted
        /\ pc' = "scan" /\ seen' = 0
        /\ UNCHANGED <<searching, answer>>
     \/ /\ sorted /\ FileLen = 0
        /\ Done("absent")
        /\ UNCHANGED <<seen, searching>>
     \/ /\ sorted /\ FileLen > 0
        /\ pc' = "search" /\ low' = 0 /\ high' = FileLen
        /\ UNCHANGED <<seen, pos, answer>>
  /\ UNCHANGED <<arguments, validated, previous_hash>>

(* breached_password_hash_linear_scan_contains; blank lines are skipped *)
ScanLine ==
  /\ pc = "scan" /\ seen < file.lines
  /\ seen' = seen + 1
  /\ LET hash == file.text[seen + 1] IN
       \/ hash = Malformed /\ Done("error")
       \/ hash = target /\ Done("found")
       \/ hash \notin {Malformed, target} /\ UNCHANGED <<pc, answer>>
  /\ UNCHANGED <<arguments, validated, previous_hash, searching>>

ScanEnd ==
  /\ pc = "scan" /\ seen = file.lines
  /\ Done("absent")
  /\ UNCHANGED <<arguments, validated, scanning, searching>>

-----------------------------------------------------------------------------
(* breached_password_hash_sorted_file_contains                             *)

unsearched == <<arguments, validated, scanning>>

(* Mutant of AfterNewline: the newline itself counts as a line's start. *)
AtNewline(mid) == mid

(* Where the line begins that follows the newline at mid. *)
AfterNewline(mid) == mid + 1

(* The loop's head, and seek_probe_line_start before its own loop.  mid    *)
(* never reaches the length here, so that case of the latter is left out.  *)
Probe ==
  LET mid == low + (high - low) \div 2 IN
  /\ pc = "search" /\ low < high
  /\ \/ /\ mid = 0
        /\ pos' = 0 /\ pc' = "compare"
     \/ /\ mid > 0 /\ Newline(mid)
        /\ pos' = AfterNewline(mid) /\ pc' = "compare"
     \/ /\ mid > 0 /\ ~Newline(mid)
        /\ pos' = mid /\ pc' = "walk"
  /\ UNCHANGED <<unsearched, low, high, answer>>

(* Back, byte by byte, to the start of the line. *)
WalkBack ==
  /\ pc = "walk"
  /\ \/ /\ pos > 0 /\ ~Newline(pos - 1)
        /\ pos' = pos - 1 /\ UNCHANGED pc
     \/ /\ pos = 0 \/ Newline(pos - 1)
        /\ UNCHANGED pos /\ pc' = "compare"
  /\ UNCHANGED <<unsearched, low, high, answer>>

(* Mutant of Less: the search goes on from the line it has just read. *)
StayLess == low' = pos /\ pc' = "search" /\ UNCHANGED <<high, answer>>

Less == low' = EndOfLine(pos) /\ pc' = "search" /\ UNCHANGED <<high, answer>>
Greater == high' = pos /\ pc' = "search" /\ UNCHANGED <<low, answer>>

Compare ==
  /\ pc = "compare"
  /\ \/ /\ pos >= high
        /\ pc' = "last" /\ UNCHANGED <<low, high, answer>>
     \/ /\ pos < high
        /\ LET hash == LineAt(pos) IN
             \/ hash \notin Hashes /\ Done("error") /\ UNCHANGED <<low, high>>
             \/ hash = target /\ Done("found") /\ UNCHANGED <<low, high>>
             \/ hash \in Hashes /\ hash < target /\ Less
             \/ hash > target /\ Greater
  /\ UNCHANGED <<unsearched, pos>>

LoopEnd ==
  /\ pc = "search" /\ low >= high
  /\ pc' = "last"
  /\ UNCHANGED <<unsearched, searching, answer>>

(* The line at low, if there is one, decides. *)
LastLine ==
  /\ pc = "last"
  /\ \/ low = FileLen /\ Done("absent")
     \/ low < FileLen /\ LineAt(low) \notin Hashes /\ Done("error")
     \/ low < FileLen /\ LineAt(low) = target /\ Done("found")
     \/ low < FileLen /\ LineAt(low) \in Hashes \ {target} /\ Done("absent")
  /\ UNCHANGED <<unsearched, searching>>

SearchNext == \/ ValidateLine \/ ValidateEnd
              \/ Lookup \/ ScanLine \/ ScanEnd
              \/ Probe \/ WalkBack \/ Compare \/ LoopEnd \/ LastLine

SearchSpec == SearchInit /\ [][SearchNext]_searchVars

(* A lookup is one synchronous call: it takes its next step. *)
SearchFairSpec == SearchSpec /\ WF_searchVars(SearchNext)

-----------------------------------------------------------------------------
Listed == \E i \in 1..file.lines : file.text[i] = target
AllHashes == \A i \in 1..file.lines : file.text[i] \in Hashes

(***************************************************************************)
(* In a file that validation accepted, a lookup finds exactly the hashes   *)
(* that are listed, wherever in a line or on a newline its probes fall,    *)
(* and never fails.                                                        *)
(***************************************************************************)
FindsWhatIsListed ==
  validated /\ pc = "done" => answer = (IF Listed THEN "found" ELSE "absent")

(***************************************************************************)
(* Whatever the file holds, a match is a listed hash, an error has a line  *)
(* to blame, and a scan that ends has seen that the hash is not listed.    *)
(***************************************************************************)
AnswersAreJustified ==
  pc = "done" => /\ answer = "found" => Listed
                 /\ answer = "error" => ~AllHashes
                 /\ answer = "absent" /\ ~sorted => ~Listed

(***************************************************************************)
(* The search's bounds never cross, and are line starts or the end of the  *)
(* file: moving one never lets it take the middle of a line for a line.    *)
(***************************************************************************)
BoundsAreLineStarts ==
  pc \in {"search", "walk", "compare", "last"} =>
    {low, high} \subseteq Boundaries /\ low <= high

(***************************************************************************)
(* Each probe narrows the bounds or is the last: every lookup ends.        *)
(***************************************************************************)
EveryLookupEnds == <>(pc \in {"rejected", "done"})
=============================================================================
