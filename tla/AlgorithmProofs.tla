-------------------------- MODULE AlgorithmProofs ---------------------------
(***************************************************************************)
(* What must be right for every input: the saturating addition of          *)
(* deadlines, the binary search of a file of breached hashes, both         *)
(* backends of the fixed window, the texts that are validated and stored,  *)
(* and the limits that deployments write.                                  *)
(***************************************************************************)
EXTENDS SaturatingAdd, BreachFileSearch, MCWindows, StoredFields, LimitSpecs, InstantMathProofs,
        SequenceTheorems, TLAPS

-----------------------------------------------------------------------------
(***************************************************************************)
(* The loop of instant_saturating_add for every duration and every largest *)
(* Instant.                                                                *)
(***************************************************************************)
Left == MaxInstant - now

(* While the loop runs, and once it has returned.  What was last too long  *)
(* is twice the present duration, or one more.                             *)
LoopInv ==
  /\ AddTypeOK
  /\ duration <= asked
  /\ duration # asked => asked > Left /\ 2 * duration + 1 > Left
  /\ result # Running => LongTTLsStayLong

LEMMA InitLoopInv == AddInit => LoopInv
BY InstantAssumption, DurationAssumption
   DEF AddInit, LoopInv, AddTypeOK, Instants, Running, Left

LEMMA NextLoopInv == LoopInv /\ [AddNext]_addVars => LoopInv'
<1> SUFFICES ASSUME LoopInv, [AddNext]_addVars PROVE LoopInv'
  OBVIOUS
<1> USE InstantAssumption, DurationAssumption DEF LoopInv, AddTypeOK, Instants, Running, Left
<1>1. CASE CheckedAdd
  <2>1. result' = now + duration /\ result' # Running
    BY <1>1 DEF CheckedAdd
  <2>2. LongTTLsStayLong'
    BY <1>1, <2>1 DEF CheckedAdd, LongTTLsStayLong
  <2> QED BY <1>1, <2>2 DEF CheckedAdd
<1>2. CASE Halve
  <2>1. /\ duration' \in 0..MaxDuration /\ duration' <= duration
        /\ duration <= 2 * duration' + 1
        /\ duration > Left
    BY <1>2 DEF Halve
  <2>2. result' \in Instants \cup {Running}
    BY <1>2 DEF Halve
  <2>3. CASE duration' = 0
    <3>1. result' = now /\ now' = now /\ asked' = asked
      BY <1>2, <2>3 DEF Halve
    <3>2. Left = 0
      BY <2>1, <2>3
    <3>3. LongTTLsStayLong'
      BY <2>1, <2>3, <3>1, <3>2 DEF LongTTLsStayLong
    <3> QED BY <1>2, <2>1, <2>2, <3>3 DEF Halve
  <2>4. CASE duration' # 0
    BY <1>2, <2>1, <2>4 DEF Halve
  <2> QED BY <2>3, <2>4
<1>3. CASE UNCHANGED addVars
  BY <1>3 DEF addVars, LongTTLsStayLong
<1> QED BY <1>1, <1>2, <1>3 DEF AddNext

(***************************************************************************)
(* A saturated deadline is not a collapsed one: for every Instant, every   *)
(* duration and every width of Instant, instant_saturating_add gives what  *)
(* was asked for when it fits, and at least half of what is left if not.   *)
(***************************************************************************)
THEOREM SaturatingAddKeepsLongTTLs == AddSpec => []LongTTLsStayLong
<1>1. LoopInv => LongTTLsStayLong
  BY DEF LoopInv, LongTTLsStayLong
<1> QED BY <1>1, InitLoopInv, NextLoopInv, PTL DEF AddSpec

-----------------------------------------------------------------------------
(***************************************************************************)
(* The lookup is right for every file: of any number of lines of any       *)
(* lengths, wherever the probes fall.                                      *)
(***************************************************************************)
Lines == 1..file.lines
Start(i) == file.ends[i - 1]

Ordered(n) == \A i, j \in 1..n : i < j => file.text[i] <= file.text[j]

(* What a validation under way knows of the lines it has read. *)
ReadIsValid ==
  pc = "validate" => /\ ~validated
                     /\ \A i \in 1..seen : file.text[i] \in Hashes
                     /\ previous_hash = IF seen = 0 THEN NoHash ELSE file.text[seen]
                     /\ sorted => Ordered(seen)

AcceptedIsValid ==
  validated => AllHashes /\ (sorted => Ordered(file.lines))

ScannedIsOther ==
  pc = "scan" => ~sorted /\ \A i \in 1..seen : file.text[i] # target

SearchedIsSorted == pc \in {"search", "walk", "compare", "last"} => sorted

(* Walking back never passes low, which is the start of a line. *)
WalkStaysInBounds == pc = "walk" => low <= pos /\ pos < high

OneLineLeft == \A i \in Lines : low <= Start(i) /\ Start(i) < high => Start(i) = low

(* A probe is at a line's start.  It reaches high only if its middle was   *)
(* the newline of the one line that is left.                               *)
ProbeAtLineStart ==
  pc = "compare" => /\ pos \in Boundaries /\ low <= pos /\ low < high
                    /\ pos >= high => (AllHashes => OneLineLeft)

ListedIsWithin ==
  pc \in {"search", "walk", "compare"} /\ validated =>
    \A i \in Lines : file.text[i] = target => low <= Start(i) /\ Start(i) < high

ListedIsLast ==
  pc = "last" /\ validated =>
    \A i \in Lines : file.text[i] = target => Start(i) = low

SearchInv == /\ BoundsAreLineStarts /\ WalkStaysInBounds /\ ProbeAtLineStart
             /\ ListedIsWithin /\ ListedIsLast

IInv == /\ SearchTypeOK
        /\ ReadIsValid /\ AcceptedIsValid /\ ScannedIsOther /\ SearchedIsSorted
        /\ SearchInv
        /\ FindsWhatIsListed /\ AnswersAreJustified

-----------------------------------------------------------------------------
LEMMA FileTyping ==
  ASSUME IsFile(file)
  PROVE  /\ file.lines \in Nat
         /\ \A i \in 0..file.lines : file.ends[i] \in Nat
         /\ file.ends[0] = 0
         /\ \A i, j \in 0..file.lines : i < j => file.ends[i] < file.ends[j]
         /\ \A i \in Lines : file.text[i] \in Hashes \cup {Blank, Malformed}
         /\ FileLen \in Nat
         /\ \A b \in Boundaries : b \in 0..FileLen
<1>1. /\ file.lines \in Nat
      /\ \A i \in 0..file.lines : file.ends[i] \in Nat
      /\ file.ends[0] = 0
      /\ \A i, j \in 0..file.lines : i < j => file.ends[i] < file.ends[j]
  BY DEF IsFile
<1>2. \A i \in Lines : file.text[i] \in Hashes \cup {Blank, Malformed}
  BY DEF IsFile, Lines
<1>3. file.lines \in 0..file.lines /\ FileLen \in Nat
  BY <1>1 DEF FileLen
<1>4. \A i \in 0..file.lines : file.ends[i] <= FileLen
  BY <1>1, <1>3 DEF FileLen
<1>5. \A b \in Boundaries : b \in 0..FileLen
  BY <1>1, <1>3, <1>4 DEF Boundaries
<1> QED BY <1>1, <1>2, <1>3, <1>5

(* read_line at the start of a line yields that line. *)
LEMMA LineFacts ==
  ASSUME IsFile(file), NEW p \in Boundaries, p < FileLen
  PROVE  /\ LineWith(p) \in Lines
         /\ Start(LineWith(p)) = p
         /\ LineAt(p) = file.text[LineWith(p)]
         /\ EndOfLine(p) = file.ends[LineWith(p)]
         /\ EndOfLine(p) \in Boundaries
         /\ p < EndOfLine(p)
<1>1. PICK k \in 0..file.lines : file.ends[k] = p
  BY DEF Boundaries
<1>2. k + 1 \in Lines /\ file.ends[(k + 1) - 1] <= p /\ p < file.ends[k + 1]
  BY <1>1, FileTyping DEF Lines, FileLen
<1>3. LineWith(p) \in Lines /\ file.ends[LineWith(p) - 1] <= p /\ p < file.ends[LineWith(p)]
  BY <1>2 DEF LineWith, Lines
<1>4. LineWith(p) = k + 1
  BY <1>1, <1>3, FileTyping DEF Lines
<1>5. file.ends[LineWith(p) - 1] = p /\ LineWith(p) \in 0..file.lines
  BY <1>1, <1>3, <1>4, FileTyping DEF Lines
<1> QED BY <1>3, <1>5 DEF Start, LineAt, EndOfLine, Boundaries

(* Lines start at different places, in their order. *)
LEMMA StartsAreOrdered ==
  ASSUME IsFile(file), NEW i \in Lines, NEW j \in Lines
  PROVE  /\ Start(i) \in Nat
         /\ i < j => file.ends[i] <= Start(j)
         /\ i < j => Start(i) < Start(j)
         /\ Start(i) < Start(j) => i < j
         /\ Start(i) = Start(j) => i = j
         /\ Start(i) < FileLen
  BY FileTyping DEF Lines, Start, FileLen

-----------------------------------------------------------------------------
LEMMA InitHolds == SearchInit => IInv
<1> SUFFICES ASSUME SearchInit PROVE IInv
  OBVIOUS
<1>1. IsFile(file)
  BY BreachFileAssumption DEF SearchInit
<1>2. SearchTypeOK
  <2>1. 0 \in 0..file.lines /\ 0 \in 0..FileLen
    BY <1>1, FileTyping
  <2>2. validated \in BOOLEAN
    BY Zenon DEF SearchInit
  <2> QED BY <1>1, <2>1, <2>2 DEF SearchInit, SearchTypeOK
<1>3. ReadIsValid
  BY DEF SearchInit, ReadIsValid, Ordered
<1> QED BY <1>2, <1>3
        DEF SearchInit, IInv, AcceptedIsValid, ScannedIsOther, SearchedIsSorted, SearchInv,
            BoundsAreLineStarts, WalkStaysInBounds, ProbeAtLineStart, ListedIsWithin,
            ListedIsLast, FindsWhatIsListed, AnswersAreJustified

LEMMA ValidateLineStep == IInv /\ ValidateLine => IInv'
<1> SUFFICES ASSUME IInv, ValidateLine PROVE IInv'
  OBVIOUS
<1> DEFINE hash == file.text[seen + 1]
<1>1. IsFile(file) /\ seen + 1 \in Lines /\ seen \in Nat
  BY FileTyping DEF IInv, SearchTypeOK, Lines, ValidateLine
<1>2. file' = file /\ sorted' = sorted /\ target' = target /\ validated' = validated
  BY DEF ValidateLine, arguments
<1>3. SearchTypeOK'
  BY <1>1, <1>2 DEF IInv, SearchTypeOK, Lines, FileLen, ValidateLine, searching
<1>4. /\ ~validated
      /\ \A i \in 1..seen : file.text[i] \in Hashes
      /\ previous_hash = IF seen = 0 THEN NoHash ELSE file.text[seen]
      /\ sorted => Ordered(seen)
  BY DEF IInv, ReadIsValid, ValidateLine
<1>5. ReadIsValid'
  <2> SUFFICES ASSUME pc' = "validate" PROVE ReadIsValid'
    BY DEF ReadIsValid
  <2>1. seen' = seen + 1 /\ previous_hash' = hash /\ hash \in Hashes /\ InOrder(hash)
    BY DEF ValidateLine
  <2>2. \A i \in 1..seen' : file.text[i] \in Hashes
    BY <1>1, <1>4, <2>1
  <2>3. ASSUME sorted, NEW i \in 1..seen PROVE file.text[i] <= hash
    <3>1. seen # 0 /\ previous_hash = file.text[seen] /\ previous_hash <= hash
      BY <1>1, <1>4, <2>1, <2>3 DEF InOrder
    <3> HIDE DEF hash
    <3>2. /\ i \in Nat /\ i <= seen /\ seen \in 1..seen
          /\ file.text[i] \in Nat /\ file.text[seen] \in Nat /\ hash \in Nat
      <4>1. i \in Nat /\ i <= seen /\ seen \in 1..seen /\ i \in 1..seen' /\ seen \in 1..seen'
        BY <1>1, <2>1, <3>1
      <4> QED BY <2>1, <2>2, <4>1, BreachFileAssumption
    <3>3. Ordered(seen)
      BY <1>4, <2>3
    <3>4. i < seen => file.text[i] <= file.text[seen]
      BY <3>2, <3>3 DEF Ordered
    <3>5. file.text[i] <= file.text[seen]
      BY <3>2, <3>4
    <3> QED BY <3>1, <3>2, <3>5
  <2>4. sorted => \A i, j \in 1..seen' : i < j => file.text[i] <= file.text[j]
    <3> SUFFICES ASSUME sorted, NEW i \in 1..seen', NEW j \in 1..seen', i < j
                 PROVE  file.text[i] <= file.text[j]
      OBVIOUS
    <3>1. i \in 1..seen /\ (j \in 1..seen \/ j = seen + 1)
      BY <1>1, <2>1
    <3>2. CASE j \in 1..seen
      BY <1>4, <3>1, <3>2 DEF Ordered
    <3>3. CASE j = seen + 1
      BY <2>3, <3>1, <3>3
    <3> QED BY <3>1, <3>2, <3>3
  <2> QED BY <1>1, <1>2, <1>4, <2>1, <2>2, <2>4 DEF ReadIsValid, Ordered
<1>6. pc' \in {"validate", "rejected"} /\ ~validated
  BY <1>4 DEF ValidateLine
<1> QED BY <1>2, <1>3, <1>5, <1>6
        DEF IInv, AcceptedIsValid, ScannedIsOther, SearchedIsSorted, SearchInv,
            BoundsAreLineStarts, WalkStaysInBounds, ProbeAtLineStart, ListedIsWithin,
            ListedIsLast, FindsWhatIsListed, AnswersAreJustified

LEMMA ValidateEndStep == IInv /\ ValidateEnd => IInv'
<1> SUFFICES ASSUME IInv, ValidateEnd PROVE IInv'
  OBVIOUS
<1> USE DEF ValidateEnd, arguments, scanning, searching
<1>1. SearchTypeOK'
  BY DEF IInv, SearchTypeOK, FileLen
<1>2. AcceptedIsValid'
  BY DEF IInv, ReadIsValid, AcceptedIsValid, AllHashes, Ordered
<1>3. pc' \in {"lookup", "rejected"}
  OBVIOUS
<1> QED BY <1>1, <1>2, <1>3
        DEF IInv, ReadIsValid, ScannedIsOther, SearchedIsSorted, SearchInv,
            BoundsAreLineStarts, WalkStaysInBounds, ProbeAtLineStart, ListedIsWithin,
            ListedIsLast, FindsWhatIsListed, AnswersAreJustified

-----------------------------------------------------------------------------
LEMMA LookupStep == IInv /\ Lookup => IInv'
<1> SUFFICES ASSUME IInv, Lookup PROVE IInv'
  OBVIOUS
<1>1. /\ pc = "lookup" /\ IsFile(file)
      /\ file' = file /\ sorted' = sorted /\ target' = target
      /\ validated' = validated /\ previous_hash' = previous_hash
  BY DEF Lookup, arguments, IInv, SearchTypeOK
<1>2. /\ 0 \in 0..file.lines /\ FileLen \in Nat /\ {0, FileLen} \subseteq Boundaries
      /\ \A i \in Lines : Start(i) \in Nat /\ Start(i) < FileLen
  <2>1. file.ends[0] = 0 /\ 0 \in 0..file.lines /\ file.lines \in 0..file.lines
    BY <1>1, FileTyping
  <2> QED BY <1>1, <2>1, FileTyping, StartsAreOrdered DEF Boundaries, FileLen
<1>3. SearchTypeOK'
  BY <1>1, <1>2 DEF IInv, SearchTypeOK, Lookup, searching, Done, FileLen
<1>4. AcceptedIsValid'
  BY <1>1 DEF IInv, AcceptedIsValid, AllHashes, Ordered
<1>5. CASE ~sorted
  <2>1. pc' = "scan" /\ seen' = 0
    BY <1>5 DEF Lookup
  <2> QED BY <1>1, <1>3, <1>4, <1>5, <2>1
          DEF IInv, ReadIsValid, ScannedIsOther, SearchedIsSorted, SearchInv,
              BoundsAreLineStarts, WalkStaysInBounds, ProbeAtLineStart, ListedIsWithin,
              ListedIsLast, FindsWhatIsListed, AnswersAreJustified
<1>6. CASE sorted /\ FileLen = 0
  <2>1. pc' = "done" /\ answer' = "absent"
    BY <1>6 DEF Lookup, Done
  <2>2. ~Listed /\ Listed' = Listed
    BY <1>1, <1>2, <1>6 DEF Listed, Lines
  <2> QED BY <1>1, <1>3, <1>4, <1>6, <2>1, <2>2
          DEF IInv, ReadIsValid, ScannedIsOther, SearchedIsSorted, SearchInv,
              BoundsAreLineStarts, WalkStaysInBounds, ProbeAtLineStart, ListedIsWithin,
              ListedIsLast, FindsWhatIsListed, AnswersAreJustified
<1>7. CASE sorted /\ FileLen > 0
  <2>1. pc' = "search" /\ low' = 0 /\ high' = FileLen
    BY <1>7, <1>2 DEF Lookup
  <2>2. BoundsAreLineStarts'
    BY <1>1, <1>2, <1>7, <2>1 DEF BoundsAreLineStarts, Boundaries
  <2>3. ListedIsWithin'
    BY <1>1, <1>2, <2>1 DEF ListedIsWithin, Lines, Start
  <2> QED BY <1>1, <1>3, <1>4, <1>7, <2>1, <2>2, <2>3
          DEF IInv, ReadIsValid, ScannedIsOther, SearchedIsSorted, SearchInv,
              WalkStaysInBounds, ProbeAtLineStart, ListedIsLast, FindsWhatIsListed,
              AnswersAreJustified
<1> QED BY <1>2, <1>5, <1>6, <1>7

LEMMA ScanLineStep == IInv /\ ScanLine => IInv'
<1> SUFFICES ASSUME IInv, ScanLine PROVE IInv'
  OBVIOUS
<1>1. /\ pc = "scan" /\ IsFile(file) /\ seen \in Nat /\ seen + 1 \in Lines /\ seen' = seen + 1
      /\ file' = file /\ sorted' = sorted /\ target' = target
      /\ validated' = validated /\ ~sorted
      /\ \A i \in 1..seen : file.text[i] # target
      /\ target \in Nat
  BY FileTyping, BreachFileAssumption
     DEF ScanLine, arguments, IInv, SearchTypeOK, ScannedIsOther, Lines
<1>2. SearchTypeOK'
  BY <1>1 DEF IInv, SearchTypeOK, ScanLine, searching, Done, FileLen, Lines
<1>3. AcceptedIsValid'
  BY <1>1 DEF IInv, AcceptedIsValid, AllHashes, Ordered
<1>4. Listed' = Listed /\ AllHashes' = AllHashes
  BY <1>1 DEF Listed, AllHashes
<1>5. CASE file.text[seen + 1] = Malformed
  <2>1. pc' = "done" /\ answer' = "error"
    BY <1>1, <1>5 DEF ScanLine, Done, Malformed
  <2>2. ~AllHashes
    BY <1>1, <1>5, BreachFileAssumption DEF AllHashes, Lines, Malformed
  <2>3. ~validated
    BY <2>2 DEF IInv, AcceptedIsValid
  <2> QED BY <1>1, <1>2, <1>3, <1>4, <2>1, <2>2, <2>3
          DEF IInv, ReadIsValid, ScannedIsOther, SearchedIsSorted, SearchInv,
              BoundsAreLineStarts, WalkStaysInBounds, ProbeAtLineStart, ListedIsWithin,
              ListedIsLast, FindsWhatIsListed, AnswersAreJustified
<1>6. CASE file.text[seen + 1] = target
  <2>1. pc' = "done" /\ answer' = "found"
    BY <1>1, <1>6 DEF ScanLine, Done, Malformed
  <2>2. Listed
    BY <1>1, <1>6 DEF Listed, Lines
  <2> QED BY <1>1, <1>2, <1>3, <1>4, <2>1, <2>2
          DEF IInv, ReadIsValid, ScannedIsOther, SearchedIsSorted, SearchInv,
              BoundsAreLineStarts, WalkStaysInBounds, ProbeAtLineStart, ListedIsWithin,
              ListedIsLast, FindsWhatIsListed, AnswersAreJustified
<1>7. CASE file.text[seen + 1] \notin {Malformed, target}
  <2>1. pc' = "scan"
    BY <1>1, <1>7 DEF ScanLine
  <2>2. \A i \in 1..seen' : file.text[i] # target
    BY <1>1, <1>7
  <2> QED BY <1>1, <1>2, <1>3, <2>1, <2>2
          DEF IInv, ReadIsValid, ScannedIsOther, SearchedIsSorted, SearchInv,
              BoundsAreLineStarts, WalkStaysInBounds, ProbeAtLineStart, ListedIsWithin,
              ListedIsLast, FindsWhatIsListed, AnswersAreJustified
<1> QED BY <1>5, <1>6, <1>7

LEMMA ScanEndStep == IInv /\ ScanEnd => IInv'
<1> SUFFICES ASSUME IInv, ScanEnd PROVE IInv'
  OBVIOUS
<1>1. /\ pc = "scan" /\ seen = file.lines
      /\ file' = file /\ sorted' = sorted /\ target' = target /\ validated' = validated
      /\ pc' = "done" /\ answer' = "absent"
  BY DEF ScanEnd, arguments, Done
<1>2. ~Listed /\ Listed' = Listed
  BY <1>1 DEF IInv, ScannedIsOther, Listed
<1>3. SearchTypeOK'
  BY <1>1 DEF IInv, SearchTypeOK, ScanEnd, scanning, searching, FileLen
<1>4. AcceptedIsValid'
  BY <1>1 DEF IInv, AcceptedIsValid, AllHashes, Ordered
<1> QED BY <1>1, <1>2, <1>3, <1>4
        DEF IInv, ReadIsValid, ScannedIsOther, SearchedIsSorted, SearchInv,
            BoundsAreLineStarts, WalkStaysInBounds, ProbeAtLineStart, ListedIsWithin,
            ListedIsLast, FindsWhatIsListed, AnswersAreJustified

-----------------------------------------------------------------------------
(* What every step of the binary search leaves alone. *)
LEMMA SearchKeeps ==
  ASSUME IInv, UNCHANGED unsearched, pc \in {"search", "walk", "compare", "last"},
         pc' \in {"search", "walk", "compare", "last", "done"}
  PROVE  /\ IsFile(file) /\ sorted /\ target \in Nat
         /\ file' = file /\ sorted' = sorted /\ target' = target /\ validated' = validated
         /\ ReadIsValid' /\ AcceptedIsValid' /\ ScannedIsOther' /\ SearchedIsSorted'
         /\ Listed' = Listed /\ AllHashes' = AllHashes
         /\ Boundaries' = Boundaries /\ FileLen' = FileLen
         /\ {low, high} \subseteq Boundaries /\ low <= high
         /\ low \in Nat /\ high \in Nat /\ high <= FileLen /\ FileLen \in Nat
<1>1. /\ file' = file /\ sorted' = sorted /\ target' = target /\ validated' = validated
      /\ IsFile(file) /\ sorted /\ target \in Nat
  BY BreachFileAssumption DEF unsearched, arguments, IInv, SearchTypeOK, SearchedIsSorted
<1>2. ReadIsValid' /\ ScannedIsOther' /\ SearchedIsSorted'
  BY <1>1 DEF ReadIsValid, ScannedIsOther, SearchedIsSorted
<1>3. AcceptedIsValid'
  BY <1>1 DEF IInv, AcceptedIsValid, AllHashes, Ordered
<1>4. /\ Listed' = Listed /\ AllHashes' = AllHashes
      /\ Boundaries' = Boundaries /\ FileLen' = FileLen
  BY <1>1 DEF Listed, AllHashes, Boundaries, FileLen
<1>5. {low, high} \subseteq Boundaries /\ low <= high
  BY DEF IInv, SearchInv, BoundsAreLineStarts
<1>6. low \in Nat /\ high \in Nat /\ high <= FileLen /\ FileLen \in Nat
  BY <1>1, FileTyping DEF IInv, SearchTypeOK
<1> QED BY <1>1, <1>2, <1>3, <1>4, <1>5, <1>6

LEMMA ProbeStep == IInv /\ Probe => IInv'
<1> SUFFICES ASSUME IInv, Probe PROVE IInv'
  OBVIOUS
<1> DEFINE mid == low + (high - low) \div 2
<1>1. /\ pc = "search" /\ low < high /\ pc' \in {"walk", "compare"}
      /\ UNCHANGED unsearched /\ low' = low /\ high' = high /\ answer' = answer
  BY DEF Probe
<1>2. /\ IsFile(file) /\ sorted /\ target \in Nat
      /\ file' = file /\ sorted' = sorted /\ target' = target /\ validated' = validated
      /\ ReadIsValid' /\ AcceptedIsValid' /\ ScannedIsOther' /\ SearchedIsSorted'
      /\ Boundaries' = Boundaries /\ FileLen' = FileLen
      /\ {low, high} \subseteq Boundaries
      /\ low \in Nat /\ high \in Nat /\ high <= FileLen /\ FileLen \in Nat
  BY <1>1, SearchKeeps
<1>3. /\ mid \in Nat /\ low <= mid /\ mid < high
      /\ mid + 1 >= high => high <= low + 2
  BY <1>1, <1>2
<1>4. \/ pos' = 0 /\ mid = 0 /\ pc' = "compare"
      \/ pos' = mid + 1 /\ Newline(mid) /\ pc' = "compare"
      \/ pos' = mid /\ pc' = "walk"
  BY DEF Probe, AfterNewline
<1> HIDE DEF mid
<1>5. pos' \in 0..FileLen
  BY <1>2, <1>3, <1>4
<1>6. SearchTypeOK'
  <2>1. UNCHANGED <<seen, previous_hash>>
    BY <1>1 DEF unsearched, scanning
  <2> QED BY <1>1, <1>2, <1>5, <2>1 DEF IInv, SearchTypeOK
<1>7. BoundsAreLineStarts'
  BY <1>1, <1>2 DEF BoundsAreLineStarts
<1>8. WalkStaysInBounds'
  BY <1>1, <1>3, <1>4 DEF WalkStaysInBounds
<1>9. ProbeAtLineStart'
  <2> SUFFICES ASSUME pc' = "compare"
               PROVE  /\ pos' \in Boundaries /\ low <= pos'
                      /\ pos' >= high => (AllHashes => OneLineLeft)
    BY <1>1, <1>2 DEF ProbeAtLineStart, AllHashes, OneLineLeft, Lines, Start
  <2>1. CASE pos' = 0 /\ mid = 0
    <3>1. 0 \in Boundaries
      BY <1>2, FileTyping DEF Boundaries
    <3> QED BY <1>1, <1>2, <1>3, <2>1, <3>1
  <2>2. CASE pos' = mid + 1 /\ Newline(mid)
    <3>1. PICK j \in Lines : file.ends[j] = mid + 1 /\ Newlines(file, j) = 1
      BY <2>2 DEF Newline, Lines
    <3>2. pos' \in Boundaries
      BY <1>2, <2>2, <3>1, FileTyping DEF Boundaries, Lines
    <3>3. ASSUME mid + 1 >= high, AllHashes, NEW i \in Lines, low <= Start(i), Start(i) < high
          PROVE  Start(i) = low
      <4> SUFFICES ASSUME Start(i) # low PROVE FALSE
        OBVIOUS
      <4>1. Start(i) \in Nat /\ Start(j) \in Nat
        BY <1>2, StartsAreOrdered
      <4>2. Start(i) = mid /\ mid + 1 = high
        BY <1>2, <1>3, <3>3, <4>1
      <4>3. i = j
        BY <1>2, <3>1, <4>1, <4>2, StartsAreOrdered, FileTyping DEF Lines, Start
      <4>4. /\ file.text[j] \in Hashes
            /\ file.ends[j] - file.ends[j - 1] >= HashWidth + Newlines(file, j)
        BY <1>2, <3>3 DEF AllHashes, IsFile, Lines
      <4> QED BY <1>3, <3>1, <4>1, <4>2, <4>3, <4>4, BreachFileAssumption DEF Start
    <3>4. low <= pos'
      BY <1>2, <1>3, <2>2
    <3> QED BY <2>2, <3>2, <3>3, <3>4 DEF OneLineLeft
  <2> QED BY <1>4, <2>1, <2>2
<1>10. ListedIsWithin' /\ ListedIsLast'
  BY <1>1, <1>2 DEF IInv, SearchInv, ListedIsWithin, ListedIsLast, Lines, Start
<1> QED BY <1>1, <1>2, <1>6, <1>7, <1>8, <1>9, <1>10
        DEF IInv, SearchInv, FindsWhatIsListed, AnswersAreJustified

LEMMA WalkBackStep == IInv /\ WalkBack => IInv'
<1> SUFFICES ASSUME IInv, WalkBack PROVE IInv'
  OBVIOUS
<1>1. /\ pc = "walk" /\ pc' \in {"walk", "compare"} /\ UNCHANGED unsearched
      /\ low' = low /\ high' = high /\ answer' = answer
      /\ low <= pos /\ pos < high /\ pos \in Nat
  <2>1. pos \in Nat
    BY FileTyping DEF IInv, SearchTypeOK
  <2> QED BY <2>1 DEF WalkBack, IInv, SearchInv, WalkStaysInBounds
<1>2. /\ IsFile(file) /\ sorted /\ target \in Nat
      /\ file' = file /\ sorted' = sorted /\ target' = target /\ validated' = validated
      /\ ReadIsValid' /\ AcceptedIsValid' /\ ScannedIsOther' /\ SearchedIsSorted'
      /\ Boundaries' = Boundaries /\ FileLen' = FileLen
      /\ {low, high} \subseteq Boundaries
      /\ low \in Nat /\ high \in Nat /\ high <= FileLen /\ FileLen \in Nat
  BY <1>1, SearchKeeps
<1>3. CASE pc' = "walk"
  <2>1. pos > 0 /\ ~Newline(pos - 1) /\ pos' = pos - 1
    BY <1>1, <1>3 DEF WalkBack
  <2>2. pos # low
    <3> SUFFICES ASSUME pos = low PROVE FALSE
      OBVIOUS
    <3>1. PICK k \in 0..file.lines : file.ends[k] = low
      BY <1>2 DEF Boundaries
    <3>2. k \in 1..file.lines /\ k < file.lines
      BY <1>1, <1>2, <2>1, <3>1, FileTyping DEF FileLen
    <3>3. Newlines(file, k) = 1 /\ file.ends[k] = (pos - 1) + 1
      BY <1>1, <3>1, <3>2 DEF Newlines
    <3> QED BY <2>1, <3>2, <3>3 DEF Newline
  <2>3. pos' \in 0..FileLen /\ low <= pos' /\ pos' < high
    BY <1>1, <1>2, <2>1, <2>2
  <2>4. SearchTypeOK'
    <3>1. UNCHANGED <<seen, previous_hash>>
      BY <1>1 DEF unsearched, scanning
    <3> QED BY <1>1, <1>2, <2>3, <3>1 DEF IInv, SearchTypeOK
  <2> QED BY <1>1, <1>2, <1>3, <2>3, <2>4
          DEF IInv, SearchInv, BoundsAreLineStarts, WalkStaysInBounds, ProbeAtLineStart,
              ListedIsWithin, ListedIsLast, Lines, Start, FindsWhatIsListed, AnswersAreJustified
<1>4. CASE pc' = "compare"
  <2>1. pos' = pos /\ (pos = 0 \/ Newline(pos - 1))
    BY <1>1, <1>4 DEF WalkBack
  <2>2. pos \in Boundaries
    <3>1. CASE pos = 0
      BY <1>2, <3>1, FileTyping DEF Boundaries
    <3>2. CASE Newline(pos - 1)
      <4>1. PICK i \in 1..file.lines : file.ends[i] = (pos - 1) + 1
        BY <3>2 DEF Newline
      <4> QED BY <1>1, <1>2, <4>1, FileTyping DEF Boundaries
    <3> QED BY <2>1, <3>1, <3>2
  <2>3. SearchTypeOK'
    <3>1. UNCHANGED <<seen, previous_hash>>
      BY <1>1 DEF unsearched, scanning
    <3> QED BY <1>1, <1>2, <2>1, <3>1 DEF IInv, SearchTypeOK
  <2>4. ProbeAtLineStart'
    BY <1>1, <1>2, <2>1, <2>2 DEF ProbeAtLineStart
  <2> QED BY <1>1, <1>2, <1>4, <2>1, <2>3, <2>4
          DEF IInv, SearchInv, BoundsAreLineStarts, WalkStaysInBounds,
              ListedIsWithin, ListedIsLast, Lines, Start, FindsWhatIsListed, AnswersAreJustified
<1> QED BY <1>1, <1>3, <1>4

LEMMA CompareStep == IInv /\ Compare => IInv'
<1> SUFFICES ASSUME IInv, Compare PROVE IInv'
  OBVIOUS
<1>1. /\ pc = "compare" /\ pc' \in {"search", "last", "done"} /\ UNCHANGED unsearched
      /\ pos' = pos /\ pos \in Boundaries /\ low <= pos /\ low < high
      /\ pos >= high => (AllHashes => OneLineLeft)
  BY DEF Compare, Less, Greater, Done, IInv, SearchInv, ProbeAtLineStart
<1>2. /\ IsFile(file) /\ sorted /\ target \in Nat
      /\ file' = file /\ sorted' = sorted /\ target' = target /\ validated' = validated
      /\ ReadIsValid' /\ AcceptedIsValid' /\ ScannedIsOther' /\ SearchedIsSorted'
      /\ Listed' = Listed /\ AllHashes' = AllHashes
      /\ Boundaries' = Boundaries /\ FileLen' = FileLen
      /\ {low, high} \subseteq Boundaries
      /\ low \in Nat /\ high \in Nat /\ high <= FileLen /\ FileLen \in Nat
  BY <1>1, SearchKeeps
<1>3. UNCHANGED <<seen, previous_hash>> /\ pos \in Nat
  BY <1>1, FileTyping DEF unsearched, scanning, IInv, SearchTypeOK
<1>4. validated => AllHashes /\ Ordered(file.lines)
  BY <1>2 DEF IInv, AcceptedIsValid
<1>5. validated => \A i \in Lines : file.text[i] = target => low <= Start(i) /\ Start(i) < high
  BY <1>1 DEF IInv, SearchInv, ListedIsWithin
<1>6. CASE pos >= high
  <2>1. pc' = "last" /\ low' = low /\ high' = high /\ answer' = answer
    BY <1>1, <1>2, <1>3, <1>6 DEF Compare
  <2>2. SearchTypeOK'
    BY <1>1, <1>2, <1>3, <2>1 DEF IInv, SearchTypeOK
  <2>3. ListedIsLast'
    BY <1>1, <1>2, <1>4, <1>5, <1>6, <2>1 DEF ListedIsLast, OneLineLeft, Lines, Start
  <2> QED BY <1>1, <1>2, <2>1, <2>2, <2>3
          DEF IInv, SearchInv, BoundsAreLineStarts, WalkStaysInBounds, ProbeAtLineStart,
              ListedIsWithin, FindsWhatIsListed, AnswersAreJustified
<1>7. CASE pos < high
  <2> DEFINE k == LineWith(pos)
             hash == file.text[k]
  <2>1. /\ k \in Lines /\ Start(k) = pos /\ LineAt(pos) = hash
        /\ EndOfLine(pos) = file.ends[k] /\ EndOfLine(pos) \in Boundaries
        /\ pos < EndOfLine(pos) /\ hash \in Hashes \cup {Blank, Malformed}
        /\ EndOfLine(pos) \in 0..FileLen
    <3>1. pos < FileLen
      BY <1>2, <1>3, <1>7
    <3>2. /\ k \in Lines /\ Start(k) = pos /\ LineAt(pos) = hash
          /\ EndOfLine(pos) = file.ends[k] /\ EndOfLine(pos) \in Boundaries
          /\ pos < EndOfLine(pos)
      BY <1>1, <1>2, <3>1, LineFacts
    <3> HIDE DEF k
    <3>3. file.text[k] \in Hashes \cup {Blank, Malformed}
      BY <1>2, <3>2, FileTyping
    <3>4. EndOfLine(pos) \in 0..FileLen
      BY <1>2, <3>2, FileTyping
    <3> QED BY <3>2, <3>3, <3>4
  <2> HIDE DEF k
  <2>2. validated => hash \in Hashes
    BY <1>4, <2>1 DEF AllHashes, Lines
  <2>3. hash \in Hashes => hash \in Nat
    BY BreachFileAssumption
  <2>4. CASE hash \notin Hashes
    <3>1. hash # target /\ ~(hash > target)
      BY <1>2, <2>1, <2>4, BreachFileAssumption DEF Blank, Malformed, IInv, SearchTypeOK
    <3>2. pc' = "done" /\ answer' = "error" /\ low' = low /\ high' = high
      BY <1>7, <1>1, <1>2, <1>3, <2>1, <2>4, <3>1 DEF Compare, Done
    <3>3. ~AllHashes /\ ~validated
      BY <2>1, <2>2, <2>4 DEF AllHashes, Lines
    <3>4. SearchTypeOK'
      BY <1>1, <1>2, <1>3, <3>2 DEF IInv, SearchTypeOK
    <3> QED BY <1>1, <1>2, <3>2, <3>3, <3>4
            DEF IInv, SearchInv, BoundsAreLineStarts, WalkStaysInBounds, ProbeAtLineStart,
                ListedIsWithin, ListedIsLast, FindsWhatIsListed, AnswersAreJustified
  <2>5. CASE hash \in Hashes /\ hash = target
    <3>1. pc' = "done" /\ answer' = "found" /\ low' = low /\ high' = high
      BY <1>7, <1>1, <1>2, <1>3, <2>1, <2>3, <2>5 DEF Compare, Done
    <3>2. Listed
      BY <2>1, <2>5 DEF Listed, Lines
    <3>3. SearchTypeOK'
      BY <1>1, <1>2, <1>3, <3>1 DEF IInv, SearchTypeOK
    <3> QED BY <1>1, <1>2, <3>1, <3>2, <3>3
            DEF IInv, SearchInv, BoundsAreLineStarts, WalkStaysInBounds, ProbeAtLineStart,
                ListedIsWithin, ListedIsLast, FindsWhatIsListed, AnswersAreJustified
  <2>6. CASE hash \in Hashes /\ hash < target
    <3>1. pc' = "search" /\ low' = EndOfLine(pos) /\ high' = high /\ answer' = answer
      BY <1>7, <1>1, <1>2, <1>3, <2>1, <2>3, <2>6 DEF Compare, Less
    <3>2. low' <= high
      <4>1. PICK h \in 0..file.lines : file.ends[h] = high
        BY <1>2 DEF Boundaries
      <4>2. k \in Nat /\ h \in Nat /\ k - 1 < h
        BY <1>2, <1>7, <2>1, <4>1, FileTyping DEF Lines, Start
      <4> QED BY <1>2, <2>1, <3>1, <4>1, <4>2, FileTyping DEF Lines
    <3>3. ASSUME validated, NEW i \in Lines, file.text[i] = target PROVE low' <= Start(i)
      <4>1. ~(i < k) /\ i # k
        BY <1>2, <1>4, <2>1, <2>3, <2>6, <3>3 DEF Ordered, Lines
      <4>2. k < i
        BY <1>2, <2>1, <4>1, FileTyping DEF Lines
      <4> QED BY <1>2, <2>1, <3>1, <4>2, StartsAreOrdered
    <3>4. SearchTypeOK'
      BY <1>1, <1>2, <1>3, <2>1, <3>1 DEF IInv, SearchTypeOK
    <3>5. BoundsAreLineStarts'
      BY <1>2, <2>1, <3>1, <3>2 DEF BoundsAreLineStarts
    <3>6. ListedIsWithin'
      BY <1>2, <1>5, <3>1, <3>3 DEF ListedIsWithin, Lines, Start
    <3> QED BY <1>1, <1>2, <3>1, <3>4, <3>5, <3>6
            DEF IInv, SearchInv, WalkStaysInBounds, ProbeAtLineStart, ListedIsLast,
                FindsWhatIsListed, AnswersAreJustified
  <2>7. CASE hash \in Hashes /\ hash > target
    <3>1. pc' = "search" /\ low' = low /\ high' = pos /\ answer' = answer
      BY <1>7, <1>1, <1>2, <1>3, <2>1, <2>3, <2>7 DEF Compare, Greater
    <3>2. ASSUME validated, NEW i \in Lines, file.text[i] = target PROVE Start(i) < pos
      <4>1. ~(k < i) /\ i # k
        BY <1>2, <1>4, <2>1, <2>3, <2>7, <3>2 DEF Ordered, Lines
      <4>2. i < k
        BY <1>2, <2>1, <4>1, FileTyping DEF Lines
      <4> QED BY <1>2, <2>1, <4>2, StartsAreOrdered
    <3>3. SearchTypeOK'
      BY <1>1, <1>2, <1>3, <1>7, <3>1 DEF IInv, SearchTypeOK
    <3>4. BoundsAreLineStarts'
      BY <1>1, <1>2, <3>1 DEF BoundsAreLineStarts
    <3>5. ListedIsWithin'
      BY <1>2, <1>5, <3>1, <3>2 DEF ListedIsWithin, Lines, Start
    <3> QED BY <1>1, <1>2, <3>1, <3>3, <3>4, <3>5
            DEF IInv, SearchInv, WalkStaysInBounds, ProbeAtLineStart, ListedIsLast,
                FindsWhatIsListed, AnswersAreJustified
  <2>8. hash \in Hashes => hash < target \/ hash = target \/ hash > target
    BY <1>2, <2>3
  <2> QED BY <2>4, <2>5, <2>6, <2>7, <2>8
<1> QED BY <1>2, <1>3, <1>6, <1>7

LEMMA LoopEndStep == IInv /\ LoopEnd => IInv'
<1> SUFFICES ASSUME IInv, LoopEnd PROVE IInv'
  OBVIOUS
<1>1. /\ pc = "search" /\ pc' = "last" /\ low >= high /\ UNCHANGED unsearched
      /\ low' = low /\ high' = high /\ pos' = pos /\ answer' = answer
  BY DEF LoopEnd, searching
<1>2. /\ IsFile(file)
      /\ file' = file /\ sorted' = sorted /\ target' = target /\ validated' = validated
      /\ ReadIsValid' /\ AcceptedIsValid' /\ ScannedIsOther' /\ SearchedIsSorted'
      /\ Boundaries' = Boundaries /\ FileLen' = FileLen /\ low \in Nat /\ high \in Nat
  BY <1>1, SearchKeeps
<1>3. SearchTypeOK'
  <2>1. UNCHANGED <<seen, previous_hash>>
    BY <1>1 DEF unsearched, scanning
  <2> QED BY <1>1, <1>2, <2>1 DEF IInv, SearchTypeOK
<1>4. ListedIsLast'
  <2>1. validated => \A i \in Lines : file.text[i] # target
    BY <1>1, <1>2, StartsAreOrdered DEF IInv, SearchInv, ListedIsWithin
  <2> QED BY <1>1, <1>2, <2>1 DEF ListedIsLast, Lines
<1> QED BY <1>1, <1>2, <1>3, <1>4
        DEF IInv, SearchInv, BoundsAreLineStarts, WalkStaysInBounds, ProbeAtLineStart,
            ListedIsWithin, FindsWhatIsListed, AnswersAreJustified

LEMMA LastStep == IInv /\ LastLine => IInv'
<1> SUFFICES ASSUME IInv, LastLine PROVE IInv'
  OBVIOUS
<1>1. /\ pc = "last" /\ pc' = "done" /\ UNCHANGED unsearched
      /\ low' = low /\ high' = high /\ pos' = pos
  BY DEF LastLine, Done, searching
<1>2. /\ IsFile(file) /\ sorted /\ target \in Nat
      /\ file' = file /\ sorted' = sorted /\ target' = target /\ validated' = validated
      /\ ReadIsValid' /\ AcceptedIsValid' /\ ScannedIsOther' /\ SearchedIsSorted'
      /\ Listed' = Listed /\ AllHashes' = AllHashes
      /\ FileLen' = FileLen /\ low \in Boundaries
      /\ low \in Nat /\ low <= FileLen /\ FileLen \in Nat
  BY <1>1, SearchKeeps
<1>3. SearchTypeOK'
  <2>1. UNCHANGED <<seen, previous_hash>>
    BY <1>1 DEF unsearched, scanning
  <2>2. answer' \in {"none", "found", "absent", "error"}
    BY DEF LastLine, Done
  <2> QED BY <1>1, <1>2, <2>1, <2>2 DEF IInv, SearchTypeOK
<1>4. validated => \A i \in Lines : file.text[i] = target => Start(i) = low
  BY <1>1 DEF IInv, SearchInv, ListedIsLast
<1>5. (answer' = "absent" => (validated => ~Listed))
      /\ (answer' = "found" => Listed)
      /\ (answer' = "error" => ~AllHashes)
      /\ answer' \in {"found", "absent", "error"}
  <2>1. CASE low = FileLen
    <3>1. answer' = "absent"
      BY <1>2, <2>1 DEF LastLine, Done
    <3>2. validated => ~Listed
      BY <1>2, <1>4, <2>1, StartsAreOrdered DEF Listed, Lines
    <3> QED BY <3>1, <3>2
  <2>2. CASE low < FileLen
    <3> DEFINE k == LineWith(low)
    <3>1. k \in Lines /\ Start(k) = low /\ LineAt(low) = file.text[k]
      BY <1>2, <2>2, LineFacts
    <3> HIDE DEF k
    <3>2. \/ file.text[k] \notin Hashes /\ answer' = "error"
          \/ file.text[k] = target /\ answer' = "found"
          \/ file.text[k] # target /\ answer' = "absent"
      BY <1>2, <2>2, <3>1 DEF LastLine, Done
    <3>3. file.text[k] # target /\ validated => ~Listed
      BY <1>2, <1>4, <3>1, StartsAreOrdered DEF Listed, Lines
    <3> QED BY <3>1, <3>2, <3>3 DEF Listed, AllHashes, Lines
  <2> QED BY <1>2, <2>1, <2>2
<1>6. validated => AllHashes
  BY DEF IInv, AcceptedIsValid
<1>7. FindsWhatIsListed' /\ AnswersAreJustified'
  BY <1>1, <1>2, <1>5, <1>6 DEF FindsWhatIsListed, AnswersAreJustified
<1> QED BY <1>1, <1>2, <1>3, <1>7
        DEF IInv, SearchInv, BoundsAreLineStarts, WalkStaysInBounds, ProbeAtLineStart,
            ListedIsWithin, ListedIsLast

-----------------------------------------------------------------------------
LEMMA StutterStep == IInv /\ UNCHANGED searchVars => IInv'
<1> SUFFICES ASSUME IInv, UNCHANGED searchVars PROVE IInv'
  OBVIOUS
<1>1. /\ file' = file /\ sorted' = sorted /\ target' = target /\ validated' = validated
      /\ pc' = pc /\ seen' = seen /\ previous_hash' = previous_hash
      /\ low' = low /\ high' = high /\ pos' = pos /\ answer' = answer
  BY DEF searchVars
<1>2. SearchTypeOK'
  BY <1>1 DEF IInv, SearchTypeOK, FileLen
<1>3. ReadIsValid' /\ AcceptedIsValid' /\ ScannedIsOther' /\ SearchedIsSorted'
  BY <1>1 DEF IInv, ReadIsValid, AcceptedIsValid, ScannedIsOther, SearchedIsSorted,
              AllHashes, Ordered
<1>4. SearchInv'
  BY <1>1 DEF IInv, SearchInv, BoundsAreLineStarts, WalkStaysInBounds, ProbeAtLineStart,
              ListedIsWithin, ListedIsLast, OneLineLeft, AllHashes, Boundaries, Lines, Start
<1>5. FindsWhatIsListed' /\ AnswersAreJustified'
  BY <1>1 DEF IInv, FindsWhatIsListed, AnswersAreJustified, Listed, AllHashes
<1> QED BY <1>2, <1>3, <1>4, <1>5 DEF IInv

LEMMA SearchInvariant == SearchSpec => []IInv
<1>1. IInv /\ [SearchNext]_searchVars => IInv'
  BY ValidateLineStep, ValidateEndStep, LookupStep, ScanLineStep, ScanEndStep, ProbeStep,
     WalkBackStep, CompareStep, LoopEndStep, LastStep, StutterStep DEF SearchNext
<1> QED BY InitHolds, <1>1, PTL DEF SearchSpec

(* The state keeps its type, whatever the file. *)
THEOREM SearchTypeCorrect == SearchSpec => []SearchTypeOK
<1>1. IInv => SearchTypeOK
  BY DEF IInv
<1> QED BY <1>1, SearchInvariant, PTL

(***************************************************************************)
(* In every validated file, breached_password_file_contains finds exactly  *)
(* the hashes that are listed.                                             *)
(***************************************************************************)
THEOREM LookupFindsWhatIsListed == SearchSpec => []FindsWhatIsListed
<1>1. IInv => FindsWhatIsListed
  BY DEF IInv
<1> QED BY <1>1, SearchInvariant, PTL

(***************************************************************************)
(* In every file at all, its matches are listed and its errors have a line *)
(* to blame.                                                               *)
(***************************************************************************)
THEOREM LookupIsJustified == SearchSpec => []AnswersAreJustified
<1>1. IInv => AnswersAreJustified
  BY DEF IInv
<1> QED BY <1>1, SearchInvariant, PTL

(* The binary search never reads a line from its middle. *)
THEOREM SearchReadsWholeLines == SearchSpec => []BoundsAreLineStarts
<1>1. IInv => BoundsAreLineStarts
  BY DEF IInv, SearchInv
<1> QED BY <1>1, SearchInvariant, PTL

-----------------------------------------------------------------------------
(***************************************************************************)
(* The fields, for texts of any length of any characters: what is left of  *)
(* a text once the space around it is dropped has none around it.          *)
(***************************************************************************)
LEMMA FirstAndLast ==
  ASSUME NEW n \in Nat, NEW S, S \subseteq 1..n, S # {}
  PROVE  /\ Min(S) \in S /\ \A i \in S : Min(S) <= i
         /\ Max(S) \in S /\ \A i \in S : i <= Max(S)
<1>1. Min(S) \in S /\ \A i \in S : Min(S) <= i
  <2>1. S \subseteq Nat
    OBVIOUS
  <2>2. \E least \in S : \A i \in S : least <= i
    BY <2>1, LeastExists, Zenon
  <2> QED BY <2>2, Zenon DEF Min
<1>2. Max(S) \in S /\ \A i \in S : i <= Max(S)
  <2>1. /\ S \subseteq Int
        /\ n \in Int
        /\ \A i \in S : i <= n
    OBVIOUS
  <2>2. /\ Latest(S) \in S
        /\ \A i \in S : i <= Latest(S)
    BY <2>1, LatestIsLargest, Zenon
  <2>3. Latest(S) \in S /\ \A i \in S : Latest(S) >= i
    BY <2>1, <2>2
  <2>4. Max(S) \in S /\ \A i \in S : Max(S) >= i
    BY <2>3, Zenon DEF Max
  <2> QED BY <2>1, <2>4
<1> QED BY <1>1, <1>2

LEMMA TrimKeepsCharacters ==
  ASSUME NEW Chars, NEW text \in Seq(Chars)
  PROVE  /\ trim(text) \in Seq(Chars)
         /\ \A i \in DOMAIN trim(text) : \E j \in DOMAIN text : trim(text)[i] = text[j]
<1>1. CASE solid(text) = {}
  BY <1>1 DEF trim
<1>2. CASE solid(text) # {}
  <2>1. /\ Len(text) \in Nat
        /\ solid(text) \subseteq 1..Len(text)
    BY DEF solid
  <2>2. /\ Min(solid(text)) \in solid(text)
        /\ Max(solid(text)) \in solid(text) /\ Min(solid(text)) <= Max(solid(text))
    BY <1>2, <2>1, FirstAndLast, Zenon
  <2> QED BY <1>2, <2>1, <2>2 DEF trim
<1> QED BY <1>1, <1>2

LEMMA TrimmedOnce ==
  ASSUME NEW Chars, NEW text \in Seq(Chars)
  PROVE  trim(trim(text)) = trim(text)
<1> DEFINE value == trim(text)
           from == Min(solid(text))
           to == Max(solid(text))
<1>1. CASE solid(text) = {}
  BY <1>1 DEF trim, solid
<1>2. CASE solid(text) # {}
  <2>1. /\ Len(text) \in Nat
        /\ solid(text) \subseteq 1..Len(text)
    BY DEF solid
  <2>2. /\ from \in solid(text)
        /\ to \in solid(text) /\ from <= to
    BY <1>2, <2>1, FirstAndLast, Zenon
  <2>3. value = SubSeq(text, from, to)
    BY <1>2 DEF trim
  <2> HIDE DEF from, to, value
  <2>4. /\ value \in Seq(Chars) /\ Len(value) = to - from + 1
        /\ \A i \in 1..Len(value) : value[i] = text[from + i - 1]
    BY <2>1, <2>2, <2>3
  <2>5. 1 \in solid(value) /\ Len(value) \in solid(value)
    <3>1. /\ 1 \in 1..Len(value) /\ Len(value) \in 1..Len(value)
          /\ from + 1 - 1 = from /\ from + Len(value) - 1 = to
      BY <2>1, <2>2, <2>4
    <3>2. value[1] = text[from] /\ value[Len(value)] = text[to]
      BY <2>4, <3>1, Zenon
    <3>3. text[from] \notin Whitespace /\ text[to] \notin Whitespace
      BY <2>2, Zenon DEF solid
    <3>4. DOMAIN value = 1..Len(value)
      BY <2>4
    <3> QED BY <3>1, <3>2, <3>3, <3>4, Zenon DEF solid
  <2>6. Len(value) \in Nat /\ solid(value) \subseteq 1..Len(value)
    BY <2>4 DEF solid
  <2>7. /\ Min(solid(value)) \in solid(value) /\ Min(solid(value)) <= 1
        /\ Max(solid(value)) \in solid(value) /\ Len(value) <= Max(solid(value))
    BY <2>5, <2>6, FirstAndLast, Zenon
  <2>8. Min(solid(value)) = 1 /\ Max(solid(value)) = Len(value)
    BY <2>6, <2>7
  <2>9. trim(value) = SubSeq(value, 1, Len(value))
    BY <2>5, <2>8 DEF trim
  <2>10. trim(value) = value
    BY <2>4, <2>9
  <2> QED BY <2>10 DEF value
<1> QED BY <1>1, <1>2

(* What a rule accepts, it accepts again as it is; and it is clean.        *)
Clean(r, text) ==
  /\ text \in Seq(TextChars)
  /\ text # <<>> /\ trim(text) = text /\ ~has_control(text)
  /\ fits(r, text) /\ only(text, r.chars) /\ has_shape(r, text)

LEMMA RulesRefuseControl ==
  ASSUME NEW r \in TextRules
  PROVE  r.edge \in {"trimmed", "exact"} /\ (r.edge = "exact" => r.chars \cap Control = {})
<1>1. /\ NonControl \cap Control = {} /\ Visible \cap Control = {}
      /\ SegmentChars \cap Control = {} /\ (Alphanumeric \cup {"-", "_"}) \cap Control = {}
  BY DEF Lower, Alphanumeric, Control, NonControl, Visible, SegmentChars
<1>2. /\ FanoutMetadata.edge = "trimmed" /\ WorkerId.edge = "trimmed"
      /\ LeaseToken.edge = "trimmed" /\ RequestId.edge = "trimmed"
      /\ NotificationTarget.edge = "trimmed" /\ ProviderFailureCode.edge = "trimmed"
      /\ IssuerLabel.edge = "trimmed" /\ PolicyVersion.edge = "trimmed"
      /\ ProviderObjectId.edge = "trimmed" /\ KeySegment.edge = "trimmed"
      /\ EventId.edge = "trimmed" /\ EventType.edge = "trimmed"
      /\ SettingName.edge = "trimmed"
  BY DEF Rule, FanoutMetadata, WorkerId, LeaseToken, RequestId, NotificationTarget,
         ProviderFailureCode, IssuerLabel, PolicyVersion, ProviderObjectId, KeySegment,
         EventId, EventType, SettingName
<1>3. /\ Issuer.edge = "exact" /\ Issuer.chars = NonControl
      /\ ActorId.edge = "exact" /\ ActorId.chars = Visible
      /\ DeviceId.edge = "exact" /\ DeviceId.chars = NonControl
      /\ KeyId.edge = "exact" /\ KeyId.chars = SegmentChars
      /\ EnvNamespace.edge = "exact" /\ EnvNamespace.chars = Visible
      /\ RecoveryToken.edge = "exact" /\ RecoveryToken.chars = Alphanumeric \cup {"-", "_"}
  BY DEF Rule, Issuer, ActorId, DeviceId, KeyId, EnvNamespace, RecoveryToken
<1> QED BY <1>1, <1>2, <1>3, Zenon DEF TextRules

LEMMA AcceptedIsClean ==
  ASSUME NEW r \in TextRules, NEW text \in Seq(TextChars), accepted(r, text) # Rejected
  PROVE  Clean(r, accepted(r, text))
<1> DEFINE value == trim(text)
<1>1. /\ ~(r.edge = "trimmed" /\ has_control(text)) /\ ~(r.edge = "exact" /\ value # text)
      /\ value # <<>> /\ fits(r, value) /\ only(value, r.chars) /\ has_shape(r, value)
      /\ accepted(r, text) = value
  BY Zenon DEF accepted
<1>2. value \in Seq(TextChars) /\ trim(value) = value
  BY TrimKeepsCharacters, TrimmedOnce, Zenon
<1>3. ~has_control(value)
  <2>1. CASE r.edge = "trimmed"
    <3>1. ~has_control(text)
      BY <1>1, <2>1
    <3> QED BY <3>1, TrimKeepsCharacters, Zenon DEF has_control
  <2>2. CASE r.edge = "exact"
    BY <1>1, <2>2, RulesRefuseControl, Zenon DEF only, has_control
  <2> QED BY <2>1, <2>2, RulesRefuseControl
<1> QED BY <1>1, <1>2, <1>3, Zenon DEF Clean

LEMMA CleanIsAccepted ==
  ASSUME NEW r \in TextRules, NEW text, Clean(r, text)
  PROVE  accepted(r, text) = text
BY Zenon DEF accepted, Clean

LEMMA NamesAreTheirOwn ==
  ASSUME NEW names \in Vocabularies, NEW label, from_str(names, label) # Rejected
  PROVE  from_str(names, from_str(names, label)) = from_str(names, label)
<1>1. label \in DOMAIN names /\ from_str(names, label) = names[label]
  BY Zenon DEF from_str
<1>2. names[label] \in DOMAIN names /\ names[names[label]] = names[label]
  <2>1. CASE names = CycleRuntimeStatus
    BY <1>1, <2>1 DEF CycleRuntimeStatus
  <2>2. CASE names = NotificationChannel
    BY <1>1, <2>2 DEF NotificationChannel
  <2>3. CASE names = TokenTypes
    BY <1>1, <2>3 DEF TokenTypes
  <2> QED BY <2>1, <2>2, <2>3 DEF Vocabularies
<1> QED BY <1>1, <1>2 DEF from_str

(* What is stored is what was accepted, and validates as itself.           *)
FieldInv ==
  /\ rule \in TextRules \cup Vocabularies
  /\ stored = first
  /\ first # Rejected =>
       /\ Validated(first) = first
       /\ rule \in TextRules => Clean(rule, first)

LEMMA EnteredAreTexts ==
  ASSUME rule \in TextRules, NEW text \in Entered
  PROVE  text \in Seq(TextChars)
BY DEF Entered, BoundedSeq, SeqOf

LEMMA ValidatedStays ==
  ASSUME rule \in TextRules \cup Vocabularies, NEW text \in Entered, Validated(text) # Rejected
  PROVE  /\ Validated(Validated(text)) = Validated(text)
         /\ rule \in TextRules => Clean(rule, Validated(text))
<1>1. CASE rule \in TextRules
  <2>1. text \in Seq(TextChars) /\ Validated(text) = accepted(rule, text)
    BY <1>1, EnteredAreTexts, Zenon DEF Validated
  <2>2. Clean(rule, Validated(text))
    BY <1>1, <2>1, AcceptedIsClean, Zenon
  <2>3. accepted(rule, Validated(text)) = Validated(text)
    BY <1>1, <2>2, CleanIsAccepted, Zenon
  <2> QED BY <1>1, <2>2, <2>3, Zenon DEF Validated
<1>2. CASE rule \notin TextRules
  BY <1>2, NamesAreTheirOwn, Zenon DEF Validated
<1> QED BY <1>1, <1>2

LEMMA InitFieldInv == FieldInit => FieldInv
BY Zenon DEF FieldInit, FieldInv

LEMMA NextFieldInv == FieldInv /\ [FieldNext]_fieldVars => FieldInv'
<1> SUFFICES ASSUME FieldInv, [FieldNext]_fieldVars PROVE FieldInv'
  OBVIOUS
<1>1. ASSUME NEW text \in Entered, Enter(text) PROVE FieldInv'
  <2>1. /\ rule' = rule /\ stored' = Validated(text) /\ first' = Validated(text)
    BY <1>1, Zenon DEF Enter
  <2>2. Validated(first)' = IF rule \in TextRules THEN accepted(rule, first') ELSE from_str(rule, first')
    BY <2>1, Zenon DEF Validated
  <2>3. first' # Rejected => /\ Validated(first)' = first'
                             /\ rule \in TextRules => Clean(rule, first')
    BY <2>1, <2>2, ValidatedStays, Zenon DEF FieldInv, Validated
  <2> QED BY <2>1, <2>3, Zenon DEF FieldInv
<1>2. CASE ReadBack
  <2>1. rule' = rule /\ first' = first /\ stored' = Validated(stored) /\ first # Rejected
    BY <1>2, Zenon DEF ReadBack
  <2>2. stored' = first
    BY <2>1, Zenon DEF FieldInv
  <2>3. Validated(first)' = Validated(first)
    BY <2>1, Zenon DEF Validated
  <2> QED BY <2>1, <2>2, <2>3, Zenon DEF FieldInv
<1>3. CASE UNCHANGED fieldVars
  BY <1>3, Zenon DEF fieldVars, FieldInv, Validated
<1> QED BY <1>1, <1>2, <1>3 DEF FieldNext

(***************************************************************************)
(* Validated texts of any length, of any alphabet and against any limit,   *)
(* and names of statuses: what was accepted once is accepted whenever it   *)
(* is read back, unchanged, and has neither control characters nor space   *)
(* around it.                                                              *)
(***************************************************************************)
THEOREM TextsComeBack == FieldSpec => []StoredTextComesBack
<1>1. FieldInv => StoredTextComesBack
  BY Zenon DEF FieldInv, StoredTextComesBack, Clean
<1> QED BY <1>1, InitFieldInv, NextFieldInv, PTL DEF FieldSpec

-----------------------------------------------------------------------------
(***************************************************************************)
(* Limits as deployments write them: the unit that is found at the end of  *)
(* a window's text is the one that was written, for numbers of any size.   *)
(***************************************************************************)
(* A text ends with another one if their last pieces are the same.         *)
LEMMA SamePieces ==
  ASSUME NEW Pieces, NEW end \in Seq(Pieces), NEW text \in Seq(Pieces)
  PROVE  IsSuffix(end, text) <=>
           /\ Len(end) <= Len(text)
           /\ \A i \in 0..(Len(end) - 1) : end[Len(end) - i] = text[Len(text) - i]
<1> DEFINE k == Len(end)
           s == Reverse(end)
           t == Reverse(text)
<1>1. /\ s \in Seq(Pieces) /\ Len(s) = k /\ \A i \in 1..k : s[i] = end[k - i + 1]
      /\ t \in Seq(Pieces) /\ Len(t) = Len(text)
      /\ \A i \in 1..Len(text) : t[i] = text[Len(text) - i + 1]
      /\ k \in Nat /\ Len(text) \in Nat
  BY DEF Reverse
<1> HIDE DEF s, t, k
<1>2. CASE k <= Len(text)
  <2>1. /\ SubSeq(s, 1, k) \in Seq(Pieces) /\ SubSeq(t, 1, k) \in Seq(Pieces)
        /\ Len(SubSeq(s, 1, k)) = k /\ Len(SubSeq(t, 1, k)) = k
        /\ \A i \in 1..k : SubSeq(s, 1, k)[i] = s[i] /\ SubSeq(t, 1, k)[i] = t[i]
    BY <1>1, <1>2
  <2>2. SubSeq(s, 1, k) = SubSeq(t, 1, k) <=> \A i \in 1..k : s[i] = t[i]
    <3>1. ASSUME \A i \in 1..k : s[i] = t[i] PROVE SubSeq(s, 1, k) = SubSeq(t, 1, k)
      <4>1. /\ Len(SubSeq(s, 1, k)) = Len(SubSeq(t, 1, k))
            /\ \A i \in 1..Len(SubSeq(s, 1, k)) : SubSeq(s, 1, k)[i] = SubSeq(t, 1, k)[i]
        BY <2>1, <3>1
      <4> QED BY <2>1, <4>1, SeqEqual, Zenon
    <3>2. ASSUME SubSeq(s, 1, k) = SubSeq(t, 1, k) PROVE \A i \in 1..k : s[i] = t[i]
      BY <2>1, <3>2
    <3> QED BY <3>1, <3>2
  <2>3. (\A i \in 1..k : s[i] = t[i]) <=> \A i \in 0..(k - 1) : end[k - i] = text[Len(text) - i]
    <3>1. \A i \in 1..k : i - 1 \in 0..(k - 1) /\ k - (i - 1) = k - i + 1
                        /\ Len(text) - (i - 1) = Len(text) - i + 1
      BY <1>1
    <3>2. \A i \in 0..(k - 1) : i + 1 \in 1..k /\ i + 1 \in 1..Len(text)
                        /\ k - (i + 1) + 1 = k - i /\ Len(text) - (i + 1) + 1 = Len(text) - i
      BY <1>1, <1>2
    <3>3. \A i \in 1..k : i \in 1..Len(text)
      BY <1>1, <1>2
    <3>4. ASSUME \A i \in 1..k : s[i] = t[i], NEW i \in 0..(k - 1)
          PROVE  end[k - i] = text[Len(text) - i]
      <4>1. s[i + 1] = end[k - (i + 1) + 1] /\ t[i + 1] = text[Len(text) - (i + 1) + 1]
        BY <1>1, <3>2, Zenon
      <4> QED BY <3>2, <3>4, <4>1
    <3>5. ASSUME \A i \in 0..(k - 1) : end[k - i] = text[Len(text) - i], NEW i \in 1..k
          PROVE  s[i] = t[i]
      <4>1. s[i] = end[k - i + 1] /\ t[i] = text[Len(text) - i + 1]
        BY <1>1, <3>3, Zenon
      <4>2. end[k - (i - 1)] = text[Len(text) - (i - 1)]
        BY <3>1, <3>5, Zenon
      <4> QED BY <3>1, <4>1, <4>2
    <3> QED BY <3>4, <3>5, Zenon
  <2>4. IsSuffix(end, text) <=> SubSeq(s, 1, k) = SubSeq(t, 1, k)
    BY <1>1, <1>2 DEF IsSuffix, IsPrefix, s, t
  <2> QED BY <1>2, <2>2, <2>3, <2>4 DEF k
<1>3. CASE ~(k <= Len(text))
  BY <1>1, <1>3 DEF IsSuffix, IsPrefix, s, t, k
<1> QED BY <1>2, <1>3

LEMMA EndsWithOne ==
  ASSUME NEW Pieces, NEW text \in Seq(Pieces),
         NEW end \in Seq(Pieces), Len(end) = 1
  PROVE  IsSuffix(end, text) <=> Len(text) >= 1 /\ text[Len(text)] = end[1]
<1>1. Len(text) \in Nat
  OBVIOUS
<1>2. 0..(Len(end) - 1) = {0} /\ Len(end) - 0 = 1 /\ Len(text) - 0 = Len(text)
  BY <1>1
<1>3. IsSuffix(end, text) <=> /\ Len(end) <= Len(text)
        /\ \A i \in 0..(Len(end) - 1) : end[Len(end) - i] = text[Len(text) - i]
  BY SamePieces
<1> QED BY <1>1, <1>2, <1>3

LEMMA EndsWithTwo ==
  ASSUME NEW Pieces, NEW text \in Seq(Pieces),
         NEW end \in Seq(Pieces), Len(end) = 2
  PROVE  IsSuffix(end, text) <=>
           Len(text) >= 2 /\ text[Len(text) - 1] = end[1] /\ text[Len(text)] = end[2]
<1>1. Len(text) \in Nat
  OBVIOUS
<1>2. /\ 0..(Len(end) - 1) = {0, 1} /\ Len(end) - 0 = 2 /\ Len(end) - 1 = 1
      /\ Len(text) - 0 = Len(text)
  BY <1>1
<1>3. IsSuffix(end, text) <=> /\ Len(end) <= Len(text)
        /\ \A i \in 0..(Len(end) - 1) : end[Len(end) - i] = text[Len(text) - i]
  BY SamePieces
<1> QED BY <1>1, <1>2, <1>3

LEMMA EndsWith ==
  ASSUME NEW Pieces, NEW text \in Seq(Pieces), NEW before \in Pieces, NEW last \in Pieces
  PROVE  /\ IsSuffix(<<>>, text)
         /\ IsSuffix(<<last>>, text) <=> Len(text) >= 1 /\ text[Len(text)] = last
         /\ IsSuffix(<<before, last>>, text) <=>
               Len(text) >= 2 /\ text[Len(text) - 1] = before /\ text[Len(text)] = last
<1>1. IsSuffix(<<>>, text)
  BY DEF IsSuffix, IsPrefix, Reverse
<1>2. <<last>> \in Seq(Pieces) /\ Len(<<last>>) = 1 /\ <<last>>[1] = last
  OBVIOUS
<1>3. IsSuffix(<<last>>, text) <=> Len(text) >= 1 /\ text[Len(text)] = <<last>>[1]
  BY <1>2, EndsWithOne, Zenon
<1>4. /\ <<before, last>> \in Seq(Pieces) /\ Len(<<before, last>>) = 2
      /\ <<before, last>>[1] = before /\ <<before, last>>[2] = last
  OBVIOUS
<1>5. IsSuffix(<<before, last>>, text) <=>
        /\ Len(text) >= 2 /\ text[Len(text) - 1] = <<before, last>>[1]
        /\ text[Len(text)] = <<before, last>>[2]
  BY <1>4, EndsWithTwo, Zenon
<1> QED BY <1>1, <1>2, <1>3, <1>4, <1>5, Zenon

(* Which units a text ends with is told by its last two pieces.            *)
LEMMA UnitsAtTheEnd ==
  ASSUME NEW Pieces, NEW text \in Seq(Pieces)
  PROVE  LET n == Len(text) IN
         /\ IsSuffix(Seconds.suffix, text) <=> n >= 1 /\ text[n] = "s"
         /\ IsSuffix(Minutes.suffix, text) <=> n >= 1 /\ text[n] = "m"
         /\ IsSuffix(Hours.suffix, text) <=> n >= 1 /\ text[n] = "h"
         /\ IsSuffix(Days.suffix, text) <=> n >= 1 /\ text[n] = "d"
         /\ IsSuffix(Milliseconds.suffix, text) <=> n >= 2 /\ text[n - 1] = "m" /\ text[n] = "s"
         /\ IsSuffix(Bare.suffix, text)
<1>1. /\ Seconds.suffix = <<"s">> /\ Minutes.suffix = <<"m">> /\ Hours.suffix = <<"h">>
      /\ Days.suffix = <<"d">> /\ Milliseconds.suffix = <<"m", "s">> /\ Bare.suffix = <<>>
  BY DEF Seconds, Minutes, Hours, Days, Milliseconds, Bare
<1> DEFINE All == Pieces \cup {"s", "m", "h", "d"}
<1>2. text \in Seq(All) /\ "s" \in All /\ "m" \in All /\ "h" \in All /\ "d" \in All
  OBVIOUS
<1> HIDE DEF All
<1>9. ASSUME NEW last \in All
      PROVE  IsSuffix(<<last>>, text) <=> Len(text) >= 1 /\ text[Len(text)] = last
  BY <1>2, EndsWith, Zenon
<1>3. IsSuffix(Seconds.suffix, text) <=> Len(text) >= 1 /\ text[Len(text)] = "s"
  BY <1>1, <1>2, <1>9, Zenon
<1>4. IsSuffix(Minutes.suffix, text) <=> Len(text) >= 1 /\ text[Len(text)] = "m"
  BY <1>1, <1>2, <1>9, Zenon
<1>5. IsSuffix(Hours.suffix, text) <=> Len(text) >= 1 /\ text[Len(text)] = "h"
  BY <1>1, <1>2, <1>9, Zenon
<1>6. IsSuffix(Days.suffix, text) <=> Len(text) >= 1 /\ text[Len(text)] = "d"
  BY <1>1, <1>2, <1>9, Zenon
<1>7. IsSuffix(Milliseconds.suffix, text) <=>
        Len(text) >= 2 /\ text[Len(text) - 1] = "m" /\ text[Len(text)] = "s"
  <2>1. IsSuffix(<<"m", "s">>, text) <=>
          Len(text) >= 2 /\ text[Len(text) - 1] = "m" /\ text[Len(text)] = "s"
    BY <1>2, EndsWith, Zenon
  <2> QED BY <1>1, <2>1, Zenon
<1>8. IsSuffix(Bare.suffix, text)
  <2>1. IsSuffix(<<>>, text)
    BY <1>2, EndsWith, Zenon
  <2> QED BY <1>1, <2>1, Zenon
<1> QED BY <1>3, <1>4, <1>5, <1>6, <1>7, <1>8

LEMMA UnitsDiffer ==
  /\ Seconds.millis = 1000 /\ Minutes.millis = 60000 /\ Hours.millis = 3600000
  /\ Days.millis = 86400000 /\ Milliseconds.millis = 1 /\ Bare.millis = 1000
  /\ Len(Seconds.suffix) = 1 /\ Len(Minutes.suffix) = 1 /\ Len(Hours.suffix) = 1
  /\ Len(Days.suffix) = 1 /\ Len(Milliseconds.suffix) = 2 /\ Len(Bare.suffix) = 0
BY DEF Seconds, Minutes, Hours, Days, Milliseconds, Bare

LEMMA LargestAlone ==
  ASSUME NEW T, NEW size, NEW u \in T, \A v \in T : size[v] \in Nat,
         \A v \in T \ {u} : size[v] < size[u]
  PROVE  {w \in T : \A v \in T : size[v] <= size[w]} = {u}
<1>1. \A v \in T : size[v] <= size[u]
  OBVIOUS
<1>2. ASSUME NEW w \in T, \A v \in T : size[v] <= size[w] PROVE w = u
  <2>1. size[u] <= size[w] /\ size[u] \in Nat /\ size[w] \in Nat
    BY <1>2
  <2> QED BY <2>1
<1> QED BY <1>1, <1>2, Zenon

(* The unit that is found: the longest one at the end of the text.         *)
LEMMA LongestUnit ==
  ASSUME NEW Pieces, NEW text \in Seq(Pieces), NEW strict \in BOOLEAN
  PROVE  LET n == Len(text)
             bare == IF strict THEN {} ELSE {Bare}
         IN suffixed_unit(text, strict) =
              IF n >= 2 /\ text[n - 1] = "m" /\ text[n] = "s" THEN {Milliseconds}
              ELSE IF n = 0 THEN bare
              ELSE IF text[n] = "s" THEN {Seconds}
              ELSE IF text[n] = "m" THEN {Minutes}
              ELSE IF text[n] = "h" THEN {Hours}
              ELSE IF text[n] = "d" THEN {Days} ELSE bare
<1> DEFINE n == Len(text)
           bare == IF strict THEN {} ELSE {Bare}
           matching == {u \in Units \cup bare : IsSuffix(u.suffix, text)}
           size == [u \in Units \cup {Bare} |-> Len(u.suffix)]
           millis == n >= 2 /\ text[n - 1] = "m" /\ text[n] = "s"
           lettered == n # 0 /\ text[n] \in {"s", "m", "h", "d"}
<1>1. n \in Nat
  OBVIOUS
<1>2. matching = bare \cup
        (IF n = 0 THEN {}
         ELSE IF millis THEN {Milliseconds, Seconds}
         ELSE IF text[n] = "s" THEN {Seconds}
         ELSE IF text[n] = "m" THEN {Minutes}
         ELSE IF text[n] = "h" THEN {Hours}
         ELSE IF text[n] = "d" THEN {Days} ELSE {})
  BY UnitsAtTheEnd DEF Units
<1>3. suffixed_unit(text, strict) = {u \in matching : \A v \in matching : size[v] <= size[u]}
  BY DEF suffixed_unit
<1>7. /\ size[Milliseconds] = 2 /\ size[Bare] = 0
      /\ \A u \in {Seconds, Minutes, Hours, Days} : size[u] = 1
  BY UnitsDiffer DEF Units
<1>8. bare \subseteq {Bare}
  OBVIOUS
<1> HIDE DEF matching, size, bare
<1>9. ASSUME NEW u \in matching, \A v \in matching : size[v] \in Nat,
             \A v \in matching \ {u} : size[v] < size[u]
      PROVE  suffixed_unit(text, strict) = {u}
  BY <1>3, <1>9, LargestAlone
<1>4. CASE millis
  <2>1. matching = bare \cup {Milliseconds, Seconds}
    BY <1>1, <1>2, <1>4
  <2>2. suffixed_unit(text, strict) = {Milliseconds}
    BY <1>7, <1>8, <1>9, <2>1
  <2> QED BY <1>4, <2>2 DEF bare
<1>5. CASE ~millis /\ lettered
  <2>1. PICK u \in {Seconds, Minutes, Hours, Days} :
          /\ matching = bare \cup {u}
          /\ u = IF text[n] = "s" THEN Seconds ELSE IF text[n] = "m" THEN Minutes
                 ELSE IF text[n] = "h" THEN Hours ELSE Days
    BY <1>1, <1>2, <1>5
  <2>2. suffixed_unit(text, strict) = {u}
    BY <1>7, <1>8, <1>9, <2>1
  <2> QED BY <1>5, <2>1, <2>2 DEF bare
<1>6. CASE ~millis /\ ~lettered
  <2>1. matching = bare
    BY <1>1, <1>2, <1>6
  <2>2. suffixed_unit(text, strict) = bare
    BY <1>3, <1>7, <1>8, <2>1
  <2> QED BY <1>1, <1>6, <2>2 DEF bare
<1> HIDE DEF millis, lettered
<1> QED BY <1>4, <1>5, <1>6, Zenon

LEMMA UnitsOfWords ==
  /\ \A u \in Units \cup {Bare} : u.words = {} <=> u \in {Milliseconds, Bare}
  /\ \A u, v \in Units : \A word \in u.words \cap v.words : u = v
  /\ \A u \in Units : \A word \in u.words : \E l \in Letters : word = <<l>>
<1>1. /\ Seconds.words = {<<"s">>, <<"sec">>} /\ Minutes.words = {<<"m">>, <<"min">>}
      /\ Hours.words = {<<"h">>, <<"hour">>} /\ Days.words = {<<"d">>, <<"day">>}
      /\ Milliseconds.words = {} /\ Bare.words = {}
  BY DEF Seconds, Minutes, Hours, Days, Milliseconds, Bare
<1>2. \A u \in Units \cup {Bare} : u.words = {} <=> u \in {Milliseconds, Bare}
  <2> TAKE u \in Units \cup {Bare}
  <2>1. CASE u \in {Milliseconds, Bare}
    BY <1>1, <2>1
  <2>2. CASE u \in {Seconds, Minutes, Hours, Days}
    <3>1. u.words # {}
      BY <1>1, <2>2
    <3>2. u \notin {Milliseconds, Bare}
      BY <1>1, <3>1
    <3> QED BY <3>1, <3>2
  <2> QED BY <2>1, <2>2, Zenon DEF Units
<1>3. \A u \in Units : \A word \in u.words :
        u = IF word[1] \in {"s", "sec"} THEN Seconds ELSE IF word[1] \in {"m", "min"} THEN Minutes
            ELSE IF word[1] \in {"h", "hour"} THEN Hours ELSE Days
  <2> TAKE u \in Units
  <2> TAKE word \in u.words
  <2>1. CASE u = Seconds
    BY <1>1, <2>1
  <2>2. CASE u = Minutes
    BY <1>1, <2>2
  <2>3. CASE u = Hours
    BY <1>1, <2>3
  <2>4. CASE u = Days
    BY <1>1, <2>4
  <2>5. u # Milliseconds
    BY <1>1
  <2> QED BY <2>1, <2>2, <2>3, <2>4, <2>5, Zenon DEF Units
<1>4. \A u \in Units : \A word \in u.words : \E l \in Letters : word = <<l>>
  BY <1>1 DEF Units, Letters
<1>5. \A u, v \in Units : \A word \in u.words \cap v.words : u = v
  BY <1>3, Zenon
<1> QED BY <1>2, <1>4, <1>5

(* A number with a unit behind it is no word, and ends with its own unit.  *)
LEMMA NumberWithUnit ==
  ASSUME NEW n, n \notin Letters, NEW unit \in Units \cup {Bare}, NEW strict \in BOOLEAN
  PROVE  LET text == <<n>> \o unit.suffix IN
         /\ {u \in Units : text \in u.words} = {}
         /\ suffixed_unit(text, strict) = IF strict /\ unit = Bare THEN {} ELSE {unit}
         /\ SubSeq(text, 1, Len(text) - Len(unit.suffix)) = <<n>>
<1> DEFINE text == <<n>> \o unit.suffix
           k == Len(text)
           All == {n, "s", "m", "h", "d"}
<1>1. unit.suffix \in {<<"s">>, <<"m">>, <<"h">>, <<"d">>, <<"m", "s">>, <<>>}
  BY DEF Units, Seconds, Minutes, Hours, Days, Milliseconds, Bare
<1>8. /\ <<n>> \in Seq(All) /\ Len(<<n>>) = 1 /\ <<n>>[1] = n
      /\ unit.suffix \in Seq(All) /\ Len(unit.suffix) \in Nat
  <2>1. /\ <<"s">> \in Seq(All) /\ <<"m">> \in Seq(All) /\ <<"h">> \in Seq(All)
        /\ <<"d">> \in Seq(All) /\ <<"m", "s">> \in Seq(All) /\ <<>> \in Seq(All)
    OBVIOUS
  <2>2. unit.suffix \in Seq(All)
    BY <1>1, <2>1, Zenon
  <2>3. <<n>> \in Seq(All) /\ Len(<<n>>) = 1 /\ <<n>>[1] = n
    OBVIOUS
  <2> HIDE DEF All
  <2>4. Len(unit.suffix) \in Nat
    BY <2>2
  <2> QED BY <2>2, <2>3, <2>4
<1>2. /\ text \in Seq(All) /\ k = 1 + Len(unit.suffix) /\ text[1] = n
      /\ \A i \in 1..Len(unit.suffix) : text[1 + i] = unit.suffix[i]
  <2>1. /\ text \in Seq(All) /\ k = Len(<<n>>) + Len(unit.suffix)
        /\ \A i \in 1..k : text[i] = IF i <= Len(<<n>>) THEN <<n>>[i]
                                     ELSE unit.suffix[i - Len(<<n>>)]
    BY <1>8, ConcatProperties
  <2> HIDE DEF text
  <2>2. text[1] = n
    BY <1>8, <2>1
  <2>3. ASSUME NEW i \in 1..Len(unit.suffix) PROVE text[1 + i] = unit.suffix[i]
    <3> DEFINE length == Len(unit.suffix)
    <3>4. length \in Nat /\ i \in 1..length /\ k = 1 + length
      BY <1>8, <2>1, Zenon
    <3> HIDE DEF length, k
    <3>1. 1 + i \in 1..k /\ ~(1 + i <= 1) /\ (1 + i) - 1 = i
      BY <3>4
    <3>2. text[1 + i] = unit.suffix[(1 + i) - 1]
      BY <1>8, <2>1, <3>1, Zenon
    <3> QED BY <3>1, <3>2
  <2> QED BY <1>8, <2>1, <2>2, <2>3
<1> HIDE DEF text, k, All
<1>3. SubSeq(text, 1, k - Len(unit.suffix)) = <<n>>
  <2> DEFINE number == SubSeq(text, 1, 1)
  <2>1. number \in Seq(All) /\ Len(number) = 1 /\ number[1] = n
    BY <1>2, <1>8
  <2>2. number = <<n>>
    <3>1. /\ Len(number) = Len(<<n>>)
          /\ \A i \in 1..Len(number) : number[i] = <<n>>[i]
      <4>1. Len(number) = 1 /\ number[1] = <<n>>[1] /\ Len(<<n>>) = 1
        BY <1>8, <2>1, Zenon
      <4> HIDE DEF number
      <4>2. \A i \in 1..Len(number) : i = 1
        BY <4>1
      <4> QED BY <4>1, <4>2, Zenon
    <3> HIDE DEF number
    <3> QED BY <1>8, <2>1, <3>1, SeqEqual, Zenon
  <2>3. k - Len(unit.suffix) = 1
    BY <1>2, <1>8
  <2> QED BY <2>2, <2>3, Zenon
<1>4. \A u \in Units : text \notin u.words
  <2>1. ASSUME NEW l \in Letters, text = <<l>> PROVE FALSE
    <3>1. text[1] = l
      BY <2>1
    <3> QED BY <1>2, <3>1
  <2> QED BY <2>1, UnitsOfWords, Zenon
<1>5. k = Len(text)
  BY DEF k
<1>6. n \notin {"s", "m", "h", "d"}
  BY DEF Letters
<1> DEFINE bare == IF strict THEN {} ELSE {Bare}
<1>9. suffixed_unit(text, strict) =
        IF k >= 2 /\ text[k - 1] = "m" /\ text[k] = "s" THEN {Milliseconds}
        ELSE IF k = 0 THEN bare
        ELSE IF text[k] = "s" THEN {Seconds} ELSE IF text[k] = "m" THEN {Minutes}
        ELSE IF text[k] = "h" THEN {Hours} ELSE IF text[k] = "d" THEN {Days} ELSE bare
  BY <1>2, <1>5, LongestUnit
<1>10. bare = IF strict THEN {} ELSE {Bare}
  OBVIOUS
<1> HIDE DEF bare
<1>7. suffixed_unit(text, strict) = IF strict /\ unit = Bare THEN {} ELSE {unit}
  <2>1. CASE unit = Milliseconds
    <3>1. k = 3 /\ text[2] = "m" /\ text[3] = "s"
      BY <1>2, <2>1 DEF Milliseconds
    <3>2. unit # Bare
      BY <2>1, UnitsDiffer
    <3> QED BY <1>9, <2>1, <3>1, <3>2
  <2>2. CASE unit = Bare
    <3>1. k = 1 /\ text[1] \notin {"s", "m", "h", "d"}
      BY <1>2, <1>6, <2>2 DEF Bare
    <3> QED BY <1>9, <1>10, <2>2, <3>1
  <2>3. ASSUME NEW letter \in {"s", "m", "h", "d"}, unit.suffix = <<letter>>,
               unit = IF letter = "s" THEN Seconds ELSE IF letter = "m" THEN Minutes
                      ELSE IF letter = "h" THEN Hours ELSE Days
        PROVE  suffixed_unit(text, strict) = {unit}
    <3>1. k = 2 /\ text[1] = n /\ text[2] = letter
      BY <1>2, <2>3
    <3> QED BY <1>6, <1>9, <2>3, <3>1
  <2>4. unit \in {Seconds, Minutes, Hours, Days} => suffixed_unit(text, strict) = {unit}
    BY <2>3 DEF Seconds, Minutes, Hours, Days
  <2>5. unit \in {Seconds, Minutes, Hours, Days} => unit # Bare
    BY DEF Seconds, Minutes, Hours, Days, Bare
  <2> QED BY <2>1, <2>2, <2>4, <2>5, Zenon DEF Units
<1> QED BY <1>3, <1>4, <1>7 DEF text, k

LEMMA ProductFits ==
  ASSUME NEW units \in Nat, NEW unit \in Units \cup {Bare}
  PROVE  checked_mul(IF units <= MaxMillis THEN units ELSE 0, unit.millis) =
           IF units * unit.millis \in 1..MaxMillis THEN units * unit.millis ELSE 0
<1>1. unit.millis \in {1, 1000, 60000, 3600000, 86400000}
  BY UnitsDiffer DEF Units
<1>2. MaxMillis \in Nat
  BY LimitAssumption
<1> DEFINE m == unit.millis
<1>3. \A u \in Nat : /\ u <= MaxMillis \div m <=> u * m <= MaxMillis
                     /\ u * m \in Nat /\ u <= u * m /\ (u * m = 0 <=> u = 0)
  <2> HIDE DEF m
  <2>1. CASE m = 1
    BY <1>2, <2>1
  <2>2. CASE m = 1000
    BY <1>2, <2>2
  <2>3. CASE m = 60000
    BY <1>2, <2>3
  <2>4. CASE m = 3600000
    BY <1>2, <2>4
  <2>5. CASE m = 86400000
    BY <1>2, <2>5
  <2> QED BY <1>1, <2>1, <2>2, <2>3, <2>4, <2>5 DEF m
<1>4. 0 <= MaxMillis \div m /\ 0 * m = 0
  BY <1>1, <1>2
<1> HIDE DEF m
<1>5. checked_mul(IF units <= MaxMillis THEN units ELSE 0, m) =
        IF units * m \in 1..MaxMillis THEN units * m ELSE 0
  <2>1. CASE units <= MaxMillis
    BY <1>2, <1>3, <2>1 DEF checked_mul
  <2>2. CASE ~(units <= MaxMillis)
    BY <1>2, <1>3, <1>4, <2>2 DEF checked_mul
  <2> QED BY <2>1, <2>2
<1> QED BY <1>5 DEF m

LEMMA NumeralsAreNumbers ==
  ASSUME NEW n
  PROVE  /\ ValueOf(n) \in Nat
         /\ parse_u64(<<n>>) = IF ValueOf(n) <= MaxMillis THEN ValueOf(n) ELSE 0
         /\ parse_u32(<<n>>) = IF ValueOf(n) <= MaxRequests THEN ValueOf(n) ELSE 0
         /\ ValueOf("") = 0
<1>1. Len(<<n>>) = 1 /\ <<n>>[1] = n
  OBVIOUS
<1> QED BY <1>1, LimitAssumption DEF ValueOf, parse_u64, parse_u32

(* What the window of a limit is, of any unit and with any number.         *)
WindowOf(limit) ==
  (IF limit.number = "" /\ limit.unit.words # {} THEN 1 ELSE ValueOf(limit.number))
    * limit.unit.millis

LEMMA WindowIsMeant ==
  ASSUME NEW limit \in Limit, NEW strict \in BOOLEAN
  PROVE  parse_window(written(limit).window, strict) =
           IF WindowOf(limit) \in 1..MaxMillis /\ ~(strict /\ limit.unit = Bare)
             THEN WindowOf(limit) ELSE 0
<1> DEFINE unit == limit.unit
           n == limit.number
           text == written(limit).window
           named == {u \in Units : text \in u.words}
           found == suffixed_unit(text, strict)
           chosen == CHOOSE u \in found : TRUE
<1>1. unit \in Units \cup {Bare} /\ n \in DOMAIN Numerals \cup {"junk", ""}
  BY DEF Limit
<1>2. text = IF n # "" THEN <<n>> \o unit.suffix
             ELSE IF unit.words = {} THEN unit.suffix ELSE CHOOSE word \in unit.words : TRUE
  BY DEF written
<1>3. parse_window(text, strict) =
        IF named # {} THEN (CHOOSE u \in named : TRUE).millis
        ELSE IF found = {} THEN 0
        ELSE checked_mul(parse_u64(SubSeq(text, 1, Len(text) - Len(chosen.suffix))), chosen.millis)
  BY Zenon DEF parse_window
<1>4. MaxMillis \in Nat /\ MaxMillis >= 86400000
  <2>1. MaxMillis \in Nat /\ MaxMillis >= Days.millis
    BY LimitAssumption, Zenon
  <2> QED BY <2>1, UnitsDiffer
<1> HIDE DEF unit, n, text, named, found, chosen
<1>5. CASE n # ""
  <2>1. n \notin Letters
    BY <1>1, <1>5, LimitAssumption DEF Letters
  <2>2. /\ text = <<n>> \o unit.suffix
        /\ named = {} /\ found = IF strict /\ unit = Bare THEN {} ELSE {unit}
        /\ SubSeq(text, 1, Len(text) - Len(unit.suffix)) = <<n>>
    BY <1>1, <1>2, <1>5, <2>1, NumberWithUnit, Zenon DEF named, found
  <2>3. WindowOf(limit) = ValueOf(n) * unit.millis /\ ValueOf(n) \in Nat
    BY <1>5, NumeralsAreNumbers, Zenon DEF WindowOf, n, unit
  <2>4. CASE strict /\ unit = Bare
    BY <1>3, <2>2, <2>4 DEF text, unit
  <2>5. CASE ~(strict /\ unit = Bare)
    <3>1. found # {} /\ chosen = unit
      <4>1. found = {unit}
        BY <2>2, <2>5, Zenon
      <4> QED BY <4>1, Zenon DEF chosen
    <3>2. parse_window(text, strict) = checked_mul(parse_u64(<<n>>), unit.millis)
      BY <1>3, <2>2, <3>1, Zenon
    <3>3. parse_u64(<<n>>) = IF ValueOf(n) <= MaxMillis THEN ValueOf(n) ELSE 0
      BY <1>5, NumeralsAreNumbers, Zenon
    <3>4. checked_mul(parse_u64(<<n>>), unit.millis) =
            IF ValueOf(n) * unit.millis \in 1..MaxMillis THEN ValueOf(n) * unit.millis ELSE 0
      BY <1>1, <2>3, <3>3, ProductFits, Zenon
    <3> QED BY <2>3, <2>5, <3>2, <3>4, Zenon DEF text, unit
  <2> QED BY <2>4, <2>5
<1>6. CASE n = "" /\ unit.words # {}
  <2>1. text \in unit.words
    BY <1>2, <1>6, Zenon
  <2>2. unit \notin {Milliseconds, Bare} /\ unit \in Units
    BY <1>1, <1>6, UnitsOfWords, Zenon
  <2>3. named = {unit}
    BY <2>1, <2>2, UnitsOfWords, Zenon DEF named
  <2>4. parse_window(text, strict) = unit.millis
    <3>1. (CHOOSE u \in {unit} : TRUE) = unit
      BY Zenon
    <3>2. named # {}
      BY <2>3, Zenon
    <3> QED BY <1>3, <2>3, <3>1, <3>2, Zenon
  <2>5. unit.millis \in 1..MaxMillis
    BY <1>4, <2>2, UnitsDiffer DEF Units
  <2>6. WindowOf(limit) = 1 * unit.millis
    BY <1>6, Zenon DEF WindowOf, n, unit
  <2>7. WindowOf(limit) = unit.millis
    BY <2>5, <2>6
  <2> QED BY <2>2, <2>4, <2>5, <2>7, Zenon DEF text, unit
<1>7. CASE n = "" /\ unit.words = {}
  <2>1. text = unit.suffix /\ unit \in {Milliseconds, Bare}
    BY <1>1, <1>2, <1>7, UnitsOfWords, Zenon
  <2>2. WindowOf(limit) = 0 * unit.millis
    <3>1. ValueOf("") = 0
      BY NumeralsAreNumbers, Zenon
    <3> QED BY <1>7, <3>1, Zenon DEF WindowOf, n, unit
  <2>3. WindowOf(limit) = 0
    BY <2>1, <2>2, UnitsDiffer
  <2>4. /\ text \in Seq({"m", "s"}) /\ Len(text) = Len(unit.suffix)
        /\ \A l \in Letters : text # <<l>>
    <3>1. CASE unit = Milliseconds
      <4>1. text = <<"m", "s">>
        BY <2>1, <3>1 DEF Milliseconds
      <4> QED BY <2>1, <4>1
    <3>2. CASE unit = Bare
      <4>1. text = <<>>
        BY <2>1, <3>2 DEF Bare
      <4> QED BY <2>1, <4>1
    <3> QED BY <2>1, <3>1, <3>2
  <2>5. named = {}
    BY <2>4, UnitsOfWords, Zenon DEF named
  <2>6. found = {} \/ found = {unit}
    <3>1. CASE unit = Milliseconds
      <4>1. Len(text) = 2 /\ text[1] = "m" /\ text[2] = "s"
        BY <2>1, <3>1 DEF Milliseconds
      <4>2. Len(text) >= 2 /\ text[Len(text) - 1] = "m" /\ text[Len(text)] = "s"
        BY <4>1
      <4> QED BY <2>4, <3>1, <4>2, LongestUnit, Zenon DEF found
    <3>2. CASE unit = Bare
      <4>1. Len(text) = 0
        BY <2>1, <3>2 DEF Bare
      <4>2. ~(Len(text) >= 2)
        BY <4>1
      <4>3. found = IF strict THEN {} ELSE {Bare}
        BY <2>4, <4>1, <4>2, LongestUnit, Zenon DEF found
      <4> QED BY <3>2, <4>3, Zenon
    <3> QED BY <2>1, <3>1, <3>2
  <2>7. parse_window(text, strict) = 0
    <3>1. CASE found = {}
      BY <1>3, <2>5, <3>1, Zenon
    <3>2. CASE found = {unit}
      <4>1. found # {} /\ chosen = unit
        BY <3>2, Zenon DEF chosen
      <4>2. Len(text) - Len(unit.suffix) = 0
        BY <2>4
      <4>3. parse_u64(SubSeq(text, 1, 0)) = 0
        <5>1. Len(SubSeq(text, 1, 0)) = 0
          BY <2>4
        <5> QED BY <5>1 DEF parse_u64
      <4>4. checked_mul(0, unit.millis) = 0
        BY <1>4, <2>1, UnitsDiffer DEF checked_mul
      <4> QED BY <1>3, <2>5, <4>1, <4>2, <4>3, <4>4, Zenon
    <3> QED BY <2>6, <3>1, <3>2
  <2> QED BY <2>3, <2>7 DEF text
<1> QED BY <1>5, <1>6, <1>7

(* A limit is what it says or it is none, and only then an error.          *)
Limits == {Unlimited} \cup {fixed(count, window) : count \in 1..MaxRequests, window \in Nat \ {0}}

LEMMA LimitsAreNoErrors == Err \notin Limits
<1>1. MaxRequests \in Nat \ {0}
  BY LimitAssumption, Zenon
<1>2. Err.count = 0 /\ Unlimited.count = MaxRequests
  BY DEF Err, Unlimited
<1>3. \A count \in 1..MaxRequests, window \in Nat : fixed(count, window).count = count
  BY DEF fixed
<1> QED BY <1>1, <1>2, <1>3 DEF Limits

LEMMA CountsAreMeant ==
  ASSUME NEW n, NEW window \in Nat
  PROVE  /\ new_fixed(parse_u32(<<n>>), window) =
              IF ValueOf(n) \in 1..MaxRequests /\ window > 0 THEN fixed(ValueOf(n), window) ELSE Err
         /\ ValueOf(n) \in 1..MaxRequests /\ window > 0 => fixed(ValueOf(n), window) \in Limits
<1>1. MaxRequests \in Nat \ {0}
  BY LimitAssumption, Zenon
<1>2. ValueOf(n) \in Nat /\ parse_u32(<<n>>) = IF ValueOf(n) <= MaxRequests THEN ValueOf(n) ELSE 0
  BY NumeralsAreNumbers, Zenon
<1>3. new_fixed(parse_u32(<<n>>), window) =
        IF ValueOf(n) \in 1..MaxRequests /\ window > 0 THEN fixed(ValueOf(n), window) ELSE Err
  <2>1. CASE ValueOf(n) <= MaxRequests
    BY <1>1, <1>2, <2>1 DEF new_fixed
  <2>2. CASE ~(ValueOf(n) <= MaxRequests)
    BY <1>1, <1>2, <2>2 DEF new_fixed
  <2> QED BY <2>1, <2>2
<1>4. ValueOf(n) \in 1..MaxRequests /\ window > 0 => fixed(ValueOf(n), window) \in Limits
  BY DEF Limits
<1> QED BY <1>3, <1>4

LEMMA LimitIsMeant ==
  ASSUME NEW limit \in Limit, NEW strict \in BOOLEAN
  PROVE  /\ parse_limit_spec_with_mode(written(limit), strict) = Meaning(limit, strict)
         /\ Meaning(limit, strict) \in Limits \cup {Err}
<1> DEFINE w == WindowOf(limit)
           meant_window == IF w \in 1..MaxMillis /\ ~(strict /\ limit.unit = Bare) THEN w ELSE 0
<1>1. /\ written(limit).form = limit.form /\ written(limit).count = <<limit.count>>
      /\ limit.form \in {"empty", "unlimited", "no slash", "fixed"}
  BY DEF written, Limit
<1>2. parse_window(written(limit).window, strict) = meant_window
  BY WindowIsMeant, Zenon
<1>3. Meaning(limit, strict) =
        IF limit.form = "unlimited" THEN Unlimited
        ELSE IF /\ limit.form = "fixed" /\ ValueOf(limit.count) \in 1..MaxRequests
                /\ w \in 1..MaxMillis /\ ~(strict /\ limit.unit = Bare)
        THEN fixed(ValueOf(limit.count), w) ELSE Err
  BY Zenon DEF Meaning, WindowOf
<1>4. MaxMillis \in Nat
  BY LimitAssumption, Zenon
<1> HIDE DEF w
<1>5. /\ meant_window \in Nat /\ (meant_window > 0 => meant_window = w)
      /\ meant_window > 0 <=> w \in 1..MaxMillis /\ ~(strict /\ limit.unit = Bare)
  BY <1>4
<1> HIDE DEF meant_window
<1>6. CASE limit.form = "fixed"
  <2>1. parse_limit_spec_with_mode(written(limit), strict) =
          new_fixed(parse_u32(<<limit.count>>), meant_window)
    BY <1>1, <1>2, <1>6 DEF parse_limit_spec_with_mode
  <2>2. /\ new_fixed(parse_u32(<<limit.count>>), meant_window) =
             IF ValueOf(limit.count) \in 1..MaxRequests /\ meant_window > 0
               THEN fixed(ValueOf(limit.count), meant_window) ELSE Err
        /\ ValueOf(limit.count) \in 1..MaxRequests /\ meant_window > 0 =>
             fixed(ValueOf(limit.count), meant_window) \in Limits
    BY <1>5, CountsAreMeant, Zenon
  <2>3. limit.form # "unlimited"
    BY <1>6
  <2> QED BY <1>3, <1>5, <1>6, <2>1, <2>2, <2>3, Zenon
<1>7. CASE limit.form = "unlimited"
  <2>1. parse_limit_spec_with_mode(written(limit), strict) = Unlimited
    BY <1>1, <1>7 DEF parse_limit_spec_with_mode
  <2>2. Unlimited \in Limits
    BY DEF Limits
  <2> QED BY <1>3, <1>7, <2>1, <2>2, Zenon
<1>8. CASE limit.form \in {"empty", "no slash"}
  <2>1. parse_limit_spec_with_mode(written(limit), strict) = Err
    BY <1>1, <1>8 DEF parse_limit_spec_with_mode
  <2>2. limit.form # "unlimited" /\ limit.form # "fixed"
    BY <1>8
  <2> QED BY <1>3, <2>1, <2>2, Zenon
<1> QED BY <1>1, <1>6, <1>7, <1>8

OfSeconds(count, secs) ==
  IF ValueOf(count) \in 1..MaxRequests /\ ValueOf(secs) > 0
    THEN fixed(ValueOf(count), ValueOf(secs) * 1000) ELSE Err

LEMMA SecondsAreMeant ==
  ASSUME NEW count, NEW secs
  PROVE  /\ new_fixed(as_count(count), as_window(secs)) = OfSeconds(count, secs)
         /\ OfSeconds(count, secs) \in Limits \cup {Err}
<1>1. ValueOf(secs) \in Nat /\ as_window(secs) = ValueOf(secs) * 1000
  <2>1. ValueOf(secs) \in Nat
    BY NumeralsAreNumbers, Zenon
  <2>2. as_window(secs) = ValueOf(secs) * 1000
    BY DEF as_window, ValueOf
  <2> QED BY <2>1, <2>2
<1>2. as_window(secs) \in Nat /\ (as_window(secs) > 0 <=> ValueOf(secs) > 0)
  BY <1>1
<1>3. as_count(count) = parse_u32(<<count>>)
  BY DEF as_count
<1>4. /\ new_fixed(parse_u32(<<count>>), as_window(secs)) =
           IF ValueOf(count) \in 1..MaxRequests /\ as_window(secs) > 0
             THEN fixed(ValueOf(count), as_window(secs)) ELSE Err
      /\ ValueOf(count) \in 1..MaxRequests /\ as_window(secs) > 0 =>
           fixed(ValueOf(count), as_window(secs)) \in Limits
  BY <1>2, CountsAreMeant, Zenon
<1>5. CASE ValueOf(count) \in 1..MaxRequests /\ ValueOf(secs) > 0
  BY <1>1, <1>2, <1>3, <1>4, <1>5 DEF OfSeconds
<1>6. CASE ~(ValueOf(count) \in 1..MaxRequests /\ ValueOf(secs) > 0)
  BY <1>2, <1>3, <1>4, <1>6, Zenon DEF OfSeconds
<1> QED BY <1>5, <1>6, Zenon

LEMMA JsonIsMeant ==
  ASSUME NEW value \in JsonLimits
  PROVE  /\ limit_spec_from_json_value(value) = JsonMeaning(value)
         /\ JsonMeaning(value) \in Limits \cup {Err}
<1>1. \/ value.type = "string" /\ value.limit \in Limit
      \/ value.type \in {"array", "object", "other"}
  BY LimitAssumption, Zenon
<1>2. CASE value.type = "string" /\ value.limit \in Limit
  <2>1. /\ limit_spec_from_json_value(value) = parse_limit_spec_with_mode(written(value.limit), TRUE)
        /\ JsonMeaning(value) = Meaning(value.limit, TRUE)
    BY <1>2 DEF limit_spec_from_json_value, JsonMeaning, parse_limit_spec_strict
  <2> QED BY <1>2, <2>1, LimitIsMeant, Zenon
<1>3. CASE value.type = "array"
  <2>1. CASE Len(value.items) = 2
    <3>1. /\ limit_spec_from_json_value(value) =
               new_fixed(as_count(value.items[1]), as_window(value.items[2]))
          /\ JsonMeaning(value) =
               OfSeconds(value.items[1], value.items[2])
      BY <1>3, <2>1 DEF limit_spec_from_json_value, JsonMeaning, OfSeconds
    <3> QED BY <3>1, SecondsAreMeant, Zenon
  <2>2. CASE Len(value.items) # 2
    BY <1>3, <2>2 DEF limit_spec_from_json_value, JsonMeaning
  <2> QED BY <2>1, <2>2
<1>4. CASE value.type = "object"
  <2>1. CASE value.unlimited = "true"
    BY <1>4, <2>1 DEF limit_spec_from_json_value, JsonMeaning, Limits
  <2>2. CASE value.unlimited # "true"
    <3>1. /\ limit_spec_from_json_value(value) =
               new_fixed(as_count(value.count), as_window(window_of(value)))
          /\ JsonMeaning(value) =
               OfSeconds(value.count, window_of(value))
      BY <1>4, <2>2 DEF limit_spec_from_json_value, JsonMeaning, OfSeconds
    <3> QED BY <3>1, SecondsAreMeant, Zenon
  <2> QED BY <2>1, <2>2
<1>5. CASE value.type = "other"
  BY <1>5 DEF limit_spec_from_json_value, JsonMeaning
<1> QED BY <1>1, <1>2, <1>3, <1>4, <1>5

-----------------------------------------------------------------------------
CatalogInv ==
  /\ catalog = meant
  /\ catalog \in [Labels -> Limits \cup {NoLimit}]

LEMMA InitCatalogInv == CatalogInit => CatalogInv
BY DEF CatalogInit, CatalogInv

LEMMA NextCatalogInv == CatalogInv /\ [CatalogNext]_catalogVars => CatalogInv'
<1> SUFFICES ASSUME CatalogInv, [CatalogNext]_catalogVars PROVE CatalogInv'
  OBVIOUS
<1> USE DEF CatalogInv
<1>1. ASSUME NEW label \in Labels, NEW limit \in Limit, InsertDefault(label, limit)
      PROVE  CatalogInv'
  <2> DEFINE spec == Meaning(limit, FALSE)
  <2>1. parse_limit_spec(written(limit)) = spec /\ spec \in Limits \cup {Err}
    BY LimitIsMeant, Zenon DEF parse_limit_spec
  <2> HIDE DEF spec
  <2>2. /\ catalog' = [catalog EXCEPT ![label] = IF spec # Err THEN spec ELSE @]
        /\ meant' = [meant EXCEPT ![label] = IF spec # Err THEN spec ELSE @]
    BY <1>1, <2>1, Zenon DEF InsertDefault, spec
  <2> QED BY <2>1, <2>2
<1>2. ASSUME NEW labels \in SUBSET (Labels \cup UnsafeLabels), NEW object \in [labels -> JsonLimits],
             MergeOverrides(object)
      PROVE  CatalogInv'
  <2> DEFINE meanings == [label \in DOMAIN object |-> JsonMeaning(object[label])]
             specs == [label \in DOMAIN object |-> limit_spec_from_json_value(object[label])]
             meaningful == /\ DOMAIN object \subseteq Labels
                           /\ \A label \in DOMAIN object : meanings[label] # Err
  <2>1. \A label \in labels : /\ limit_spec_from_json_value(object[label]) = JsonMeaning(object[label])
                              /\ JsonMeaning(object[label]) \in Limits \cup {Err}
    <3> TAKE label \in labels
    <3>1. object[label] \in JsonLimits
      OBVIOUS
    <3> QED BY <3>1, JsonIsMeant, Zenon
  <2>2. DOMAIN object = labels /\ meanings \in [labels -> Limits \cup {Err}] /\ specs = meanings
    BY <2>1
  <2>3. /\ catalog' = merge(catalog, parse_limit_overrides_json(object))
        /\ meant' = IF meaningful THEN merge(meant, meanings) ELSE meant
    BY <1>2, Zenon DEF MergeOverrides
  <2>4. parse_limit_overrides_json(object) = IF meaningful THEN meanings ELSE <<>>
    <3>1. (\E label \in DOMAIN object : \/ label \in UnsafeLabels
                                        \/ limit_spec_from_json_value(object[label]) = Err)
            <=> ~meaningful
      BY <2>1, <2>2, LimitAssumption
    <3> QED BY <2>2, <3>1, Zenon DEF parse_limit_overrides_json
  <2>5. CASE meaningful
    <3>1. catalog' = merge(catalog, meanings) /\ meant' = merge(meant, meanings)
      BY <2>3, <2>4, <2>5, Zenon
    <3>2. labels \subseteq Labels /\ \A label \in labels : meanings[label] \in Limits
      BY <2>2, <2>5
    <3> HIDE DEF meanings
    <3>3. merge(catalog, meanings) \in [Labels -> Limits \cup {NoLimit}]
      BY <2>2, <3>2 DEF merge
    <3> QED BY <3>1, <3>3, Zenon
  <2>6. CASE ~meaningful
    <3>1. catalog' = merge(catalog, <<>>) /\ meant' = meant
      BY <2>3, <2>4, <2>6, Zenon
    <3>2. merge(catalog, <<>>) = catalog
      BY DEF merge
    <3> QED BY <3>1, <3>2, Zenon
  <2> QED BY <2>5, <2>6
<1>3. CASE UNCHANGED catalogVars
  BY <1>3 DEF catalogVars
<1> QED BY <1>1, <1>2, <1>3 DEF CatalogNext

(***************************************************************************)
(* Catalogs of any labels, with limits of any count, number and unit: what *)
(* is in force is what was written last, and never a limit of no requests  *)
(* or no time.                                                             *)
(***************************************************************************)
THEOREM CatalogsAreAsWritten == CatalogSpec => []LimitsAsWritten
<1>1. CatalogInv => LimitsAsWritten
  BY DEF CatalogInv, LimitsAsWritten, Limits, fixed
<1> QED BY <1>1, InitCatalogInv, NextCatalogInv, PTL DEF CatalogSpec

-----------------------------------------------------------------------------
(***************************************************************************)
(* RedisWindow for every set of keys, limits and requests, every width of  *)
(* window, and every lag the extra second covers.                          *)
(***************************************************************************)
USE WindowAssumption, GraceAssumption

-----------------------------------------------------------------------------
(* Facts about windows.                                                    *)

LEMMA MillisAreNatural ==
  ASSUME NEW window \in Nat PROVE window_millis(window) \in Nat
<1>1. window \div Milli \in Nat
  OBVIOUS
<1> QED BY <1>1 DEF window_millis

LEMMA MillisArePositive ==
  ASSUME NEW window \in Nat \ {0}
  PROVE  window_millis(window) \in Nat \ {0}
<1>1. window = Milli * (window \div Milli) + (window % Milli)
  OBVIOUS
<1>2. window \div Milli \in Nat /\ window % Milli \in 0..(Milli - 1)
  OBVIOUS
<1>3. CASE window % Milli = 0
  <2>1. window \div Milli # 0
    BY <1>1, <1>2, <1>3
  <2> QED BY <1>2, <1>3, <2>1 DEF window_millis
<1>4. CASE window % Milli # 0
  BY <1>2, <1>4 DEF window_millis
<1> QED BY <1>3, <1>4

(* Rounding a time down to a multiple of the width. *)
LEMMA StartBounds ==
  ASSUME NEW at \in Nat, NEW width \in Nat \ {0}
  PROVE  /\ at - (at % width) \in 0..at
         /\ at < at - (at % width) + width
         /\ at - (at % width) <= (at + 1) - ((at + 1) % width)
<1> DEFINE start(t) == width * (t \div width)
<1>1. ASSUME NEW t \in Nat
      PROVE  /\ t \div width \in Nat /\ start(t) \in Nat
             /\ t - (t % width) = start(t) /\ start(t) <= t /\ t < start(t) + width
  <2>1. t \div width \in Nat /\ t % width \in 0..(width - 1)
    OBVIOUS
  <2>2. t = width * (t \div width) + (t % width)
    OBVIOUS
  <2>3. width * (t \div width) \in Nat
    BY <2>1
  <2> QED BY <2>1, <2>2, <2>3
<1>2. start(at) <= start(at + 1)
  <2>1. at \div width \in Nat /\ (at + 1) \div width \in Nat
    BY <1>1
  <2> PICK q \in Nat, p \in Nat : q = at \div width /\ p = (at + 1) \div width
    BY <2>1
  <2> SUFFICES ASSUME width * q > width * p PROVE FALSE
    BY <1>1
  <2>2. q > p
    <3> SUFFICES ASSUME q <= p PROVE FALSE
      OBVIOUS
    <3>1. PICK d \in Nat : p = q + d
      <4>1. p - q \in Nat /\ p = q + (p - q)
        OBVIOUS
      <4> QED BY <4>1
    <3>2. width * p = width * q + width * d /\ width * d \in Nat /\ width * q \in Nat
      BY <3>1
    <3> QED BY <3>2
  <2>3. PICK d \in Nat : q = p + 1 + d
    <3>1. q - p - 1 \in Nat /\ q = p + 1 + (q - p - 1)
      BY <2>2
    <3> QED BY <3>1
  <2>4. width * q = width * p + width + width * d /\ width * d \in Nat
    BY <2>3
  <2>5. width * q <= at /\ at + 1 < width * p + width
    BY <1>1
  <2>6. width * q \in Nat /\ width * p \in Nat
    OBVIOUS
  <2> QED BY <2>4, <2>5, <2>6
<1> HIDE DEF start
<1> QED BY <1>1, <1>2

LEMMA WidthIsPositive ==
  ASSUME NEW k \in Keys
  PROVE  Width(k) \in Nat \ {0} /\ LimitOf[k].count \in 1..(CountMax - 1)
<1>1. LimitOf[k].window \in Nat \ {0} /\ LimitOf[k].count \in 1..(CountMax - 1)
  OBVIOUS
<1> QED BY <1>1, MillisArePositive DEF Width

(* A time lies in its window. *)
LEMMA WindowHoldsNow ==
  ASSUME NEW k \in Keys, NEW at \in Nat
  PROVE  /\ window_start(k, at) \in 0..at
         /\ at < window_start(k, at) + Width(k)
BY WidthIsPositive, StartBounds DEF window_start

(***************************************************************************)
(* What a rejected caller is told to wait is never nothing, never more     *)
(* than a window, and ends exactly when the next window starts.            *)
(***************************************************************************)
THEOREM RetryAfterEndsTheWindow ==
  ASSUME NEW k \in Keys, NEW at \in Nat
  PROVE  /\ retry_after(k, at) \in 1..Width(k)
         /\ at + retry_after(k, at) = window_end(k, at)
BY WidthIsPositive, WindowHoldsNow DEF retry_after, window_end

-----------------------------------------------------------------------------
(* The inductive invariant: a counter outlives the last request that could *)
(* still be counted in its window, and until then it stands for exactly    *)
(* the requests allowed.                                                   *)

Smaller(m, n) == IF m <= n THEN m ELSE n

CounterHolds(k, s) ==
  /\ admitted[k][s] <= LimitOf[k].count
  /\ counters[k][s] # Gone =>
       /\ admitted[k][s] = Smaller(counters[k][s].count, LimitOf[k].count)
       /\ s + Width(k) + Grace <= counters[k][s].expires_at
  /\ counters[k][s] = Gone => admitted[k][s] = 0 \/ s + Width(k) + Grace <= clock

InTime(r) == calls[r] # Idle => calls[r].now <= clock /\ clock <= calls[r].now + MaxLag

CountInv == /\ TypeOK
            /\ \A k \in Keys, s \in 0..MaxTime : CounterHolds(k, s)
            /\ \A r \in Requests : InTime(r)

LEMMA CounterTyping ==
  ASSUME TypeOK, NEW k \in Keys, NEW s \in 0..MaxTime
  PROVE  /\ counters[k][s] \in Counter \cup {Gone}
         /\ counters[k][s].count \in 0..CountMax
         /\ counters[k][s].expires_at \in Nat
         /\ counters[k][s] # Gone => counters[k][s] \in Counter
         /\ admitted[k][s] \in 0..CountMax
BY DEF TypeOK, RequestsTypeOK, Counter, Gone

LEMMA RequestTyping ==
  ASSUME TypeOK, NEW r \in Requests, calls[r] # Idle
  PROVE  calls[r].key \in Keys /\ calls[r].now \in 0..MaxTime
BY DEF TypeOK, RequestsTypeOK, Request

(* A request under way still finds its counter, if the window has one. *)
LEMMA NotTooLate ==
  ASSUME CountInv, NEW r \in Requests, calls[r] # Idle,
         NEW k \in Keys, k = calls[r].key, NEW s, s = window_start(k, calls[r].now)
  PROVE  s \in 0..MaxTime /\ s <= clock /\ clock < s + Width(k) + Grace
<1>1. calls[r].now \in 0..MaxTime /\ clock \in Nat
      /\ calls[r].now <= clock /\ clock <= calls[r].now + MaxLag
  BY RequestTyping DEF CountInv, InTime, TypeOK, RequestsTypeOK
<1>2. s \in 0..calls[r].now /\ calls[r].now < s + Width(k)
  BY <1>1, WindowHoldsNow
<1> QED BY <1>1, <1>2, WidthIsPositive

(* What one increment makes of a counter and of the history. *)
Counts(r, k, s, counter, n) ==
  /\ k = calls[r].key /\ s = window_start(k, calls[r].now)
  /\ counters' = [counters EXCEPT ![k][s] = counter]
  /\ admitted' = [admitted EXCEPT ![k][s] = n]
  /\ n = Smaller(counter.count, LimitOf[k].count)
  /\ s + Width(k) + Grace <= counter.expires_at
  /\ calls' = [calls EXCEPT ![r] = Idle]
  /\ clock' = clock
  /\ n = admitted[k][s] => n = LimitOf[k].count

LEMMA FarEnough ==
  ASSUME NEW at \in Nat, NEW start \in Nat, start <= at, NEW width \in Nat \ {0}
  PROVE  /\ at + (width + Grace) \in Nat \ {0}
         /\ start + width + Grace <= at + (width + Grace)
OBVIOUS

LEMMA CheckCounts ==
  ASSUME CountInv, NEW r \in Requests, Check(r)
  PROVE  \E k \in Keys, s \in 0..MaxTime, counter \in Counter, n \in 0..CountMax :
           Counts(r, k, s, counter, n)
<1> DEFINE k == calls[r].key
           s == window_start(k, calls[r].now)
           counter == Incremented(k, counters[k][s])
           limit == LimitOf[k].count
           n == IF counter.count <= limit THEN admitted[k][s] + 1 ELSE admitted[k][s]
<1>1. calls[r] # Idle /\ k \in Keys
  BY RequestTyping DEF Check, CountInv
<1>2. /\ counters' = [counters EXCEPT ![k][s] = counter]
      /\ Answer(r, counter.count)
  BY DEF Check, redis_bucket
<1>3. /\ counter.count = Increment(counters[k][s].count)
      /\ counter.expires_at = IF counters[k][s] = Gone THEN clock + ttl(k)
                              ELSE counters[k][s].expires_at
      /\ counter = [count |-> counter.count, expires_at |-> counter.expires_at]
  BY DEF Incremented
<1>4. /\ calls' = [calls EXCEPT ![r] = Idle] /\ clock' = clock
      /\ counter.count <= limit => admitted' = [admitted EXCEPT ![k][s] = admitted[k][s] + 1]
      /\ ~(counter.count <= limit) => admitted' = admitted
  BY <1>2 DEF Answer, Allowed
<1>5. s \in 0..MaxTime /\ s <= clock /\ clock < s + Width(k) + Grace
  BY <1>1, NotTooLate
<1>6. /\ Width(k) \in Nat \ {0} /\ limit \in 1..(CountMax - 1)
      /\ clock \in Nat
      /\ admitted \in [Keys -> [0..MaxTime -> 0..CountMax]]
  BY <1>1, WidthIsPositive DEF CountInv, TypeOK, RequestsTypeOK
<1>7. /\ counters[k][s].count \in 0..CountMax
      /\ counters[k][s].expires_at \in Nat
      /\ counters[k][s] # Gone => counters[k][s].expires_at \in Nat \ {0}
      /\ counters[k][s] = Gone => counters[k][s].count = 0
      /\ admitted[k][s] \in 0..CountMax
      /\ CounterHolds(k, s)
  BY <1>1, <1>5, CounterTyping DEF CountInv, Counter, Gone
<1>8. /\ counter.count \in 1..CountMax
      /\ counter.count = IF counters[k][s].count < CountMax THEN counters[k][s].count + 1
                         ELSE CountMax
  BY <1>3, <1>7 DEF Increment
<1>9. /\ counter.expires_at \in Nat \ {0}
      /\ s + Width(k) + Grace <= counter.expires_at
  <2>1. CASE counters[k][s] = Gone
    <3>1. counter.expires_at = clock + (Width(k) + Grace)
      BY <1>3, <2>1 DEF ttl
    <3> QED BY <1>5, <1>6, <3>1, FarEnough
  <2>2. CASE counters[k][s] # Gone
    <3>1. counter.expires_at = counters[k][s].expires_at
      BY <1>3, <2>2
    <3> QED BY <1>7, <2>2, <3>1 DEF CounterHolds
  <2> QED BY <2>1, <2>2
<1>10. admitted[k][s] = Smaller(counters[k][s].count, limit)
  <2> DEFINE held == counters[k][s]
             had == admitted[k][s]
             width == Width(k)
  <2>1. /\ held # Gone => had = Smaller(held.count, limit)
        /\ held = Gone => held.count = 0 /\ (had = 0 \/ s + width + Grace <= clock)
    BY <1>7 DEF CounterHolds
  <2> HIDE DEF held, had, width, k, s, limit
  <2>2. had = Smaller(held.count, limit)
    BY <1>5, <1>6, <2>1 DEF Smaller, width
  <2> QED BY <2>2 DEF held, had
<1>11. /\ n \in 0..CountMax /\ n = Smaller(counter.count, limit)
       /\ n = admitted[k][s] => n = limit
  <2> HIDE DEF counter, k, s, limit
  <2> QED BY <1>6, <1>7, <1>8, <1>10 DEF Smaller
<1>12. admitted' = [admitted EXCEPT ![k][s] = n]
  <2> HIDE DEF counter, k, s, limit
  <2>1. CASE counter.count <= limit
    BY <1>4, <2>1
  <2>2. CASE ~(counter.count <= limit)
    BY <1>1, <1>4, <1>5, <1>6, <2>2
  <2> QED BY <2>1, <2>2
<1>13. counter \in Counter
  BY <1>3, <1>8, <1>9 DEF Counter
<1> HIDE DEF counter, n
<1>14. Counts(r, k, s, counter, n)
  BY <1>2, <1>4, <1>9, <1>11, <1>12 DEF Counts
<1> HIDE DEF k, s
<1> QED BY <1>1, <1>5, <1>11, <1>13, <1>14

-----------------------------------------------------------------------------
(* The invariant is inductive.                                             *)

LEMMA CountInitially == Init => CountInv
<1> SUFFICES ASSUME Init PROVE CountInv
  OBVIOUS
<1>1. /\ clock = 0 /\ calls = [r \in Requests |-> Idle]
      /\ admitted = [k \in Keys |-> [s \in 0..MaxTime |-> 0]]
      /\ counters = [k \in Keys |-> [s \in 0..MaxTime |-> Gone]]
  BY DEF Init, RequestsInit
<1>2. TypeOK
  BY <1>1 DEF TypeOK, RequestsTypeOK
<1>3. \A k \in Keys, s \in 0..MaxTime : CounterHolds(k, s)
  BY <1>1, WidthIsPositive DEF CounterHolds
<1> QED BY <1>1, <1>2, <1>3 DEF CountInv, InTime

LEMMA TickKeeps == ASSUME CountInv, Tick PROVE CountInv'
<1>1. /\ clock \in 0..MaxTime /\ clock' = clock + 1 /\ clock < MaxTime
      /\ calls' = calls /\ admitted' = admitted
      /\ \A r \in Requests : calls[r] # Idle => clock < calls[r].now + MaxLag
      /\ counters' = [k \in Keys |-> [s \in 0..MaxTime |->
                        IF counters[k][s].expires_at > clock' THEN counters[k][s] ELSE Gone]]
  BY DEF Tick, TimePasses, CountInv, TypeOK, RequestsTypeOK
<1>2. TypeOK'
  <2>1. \A k \in Keys, s \in 0..MaxTime : counters'[k][s] \in Counter \cup {Gone}
    BY <1>1, CounterTyping DEF CountInv
  <2>2. counters' \in [Keys -> [0..MaxTime -> Counter \cup {Gone}]]
    BY <1>1, <2>1
  <2> QED BY <1>1, <2>2 DEF CountInv, TypeOK, RequestsTypeOK
<1>3. ASSUME NEW k \in Keys, NEW s \in 0..MaxTime PROVE CounterHolds(k, s)'
  <2>1. /\ CounterHolds(k, s)
        /\ counters[k][s].expires_at \in Nat /\ Width(k) \in Nat
        /\ Gone.expires_at = 0
    BY CounterTyping, WidthIsPositive DEF CountInv, Gone
  <2>2. counters'[k][s] = IF counters[k][s].expires_at > clock' THEN counters[k][s] ELSE Gone
    BY <1>1
  <2> QED BY <1>1, <2>1, <2>2 DEF CounterHolds
<1>4. ASSUME NEW r \in Requests PROVE InTime(r)'
  <2>1. InTime(r)
    BY DEF CountInv
  <2>2. calls[r] # Idle => calls[r].now \in 0..MaxTime
    BY RequestTyping DEF CountInv
  <2> QED BY <1>1, <2>1, <2>2 DEF InTime
<1> QED BY <1>2, <1>3, <1>4 DEF CountInv

LEMMA AskedKeeps ==
  ASSUME CountInv, NEW r \in Requests, NEW k \in Keys, Asked(r, k) PROVE CountInv'
<1> DEFINE call == [state |-> "asked", key |-> k, now |-> clock]
<1>1. /\ calls' = [calls EXCEPT ![r] = call]
      /\ clock' = clock /\ admitted' = admitted /\ counters' = counters
  BY DEF Asked, Ask
<1>2. call \in Request /\ call.now = clock /\ clock \in 0..MaxTime
  BY DEF CountInv, TypeOK, RequestsTypeOK, Request
<1> HIDE DEF call
<1>3. TypeOK' /\ \A j \in Keys, s \in 0..MaxTime : CounterHolds(j, s)'
  BY <1>1, <1>2 DEF CountInv, TypeOK, RequestsTypeOK, CounterHolds
<1>4. \A d \in Requests : InTime(d)'
  BY <1>1, <1>2 DEF CountInv, TypeOK, RequestsTypeOK, InTime
<1> QED BY <1>3, <1>4 DEF CountInv

LEMMA CheckKeeps == ASSUME CountInv, NEW r \in Requests, Check(r) PROVE CountInv'
<1>1. PICK k \in Keys, s \in 0..MaxTime, counter \in Counter, n \in 0..CountMax :
        Counts(r, k, s, counter, n)
  BY CheckCounts
<1>2. /\ counters' = [counters EXCEPT ![k][s] = counter]
      /\ admitted' = [admitted EXCEPT ![k][s] = n]
      /\ n = Smaller(counter.count, LimitOf[k].count)
      /\ s + Width(k) + Grace <= counter.expires_at
      /\ calls' = [calls EXCEPT ![r] = Idle]
      /\ clock' = clock
  BY <1>1 DEF Counts
<1>3. TypeOK'
  BY <1>2 DEF CountInv, TypeOK, RequestsTypeOK
<1>4. ASSUME NEW j \in Keys, NEW u \in 0..MaxTime PROVE CounterHolds(j, u)'
  <2>1. CASE j = k /\ u = s
    <3>1. counters'[j][u] = counter /\ admitted'[j][u] = n
      BY <1>2, <2>1 DEF CountInv, TypeOK, RequestsTypeOK
    <3>2. counter # Gone /\ counter.count \in Nat /\ LimitOf[k].count \in Nat
      BY WidthIsPositive DEF Counter, Gone
    <3> QED BY <1>2, <2>1, <3>1, <3>2 DEF CounterHolds, Smaller
  <2>2. CASE ~(j = k /\ u = s)
    <3>1. counters'[j][u] = counters[j][u] /\ admitted'[j][u] = admitted[j][u]
      BY <1>2, <2>2 DEF CountInv, TypeOK, RequestsTypeOK
    <3> QED BY <1>2, <3>1 DEF CountInv, CounterHolds
  <2> QED BY <2>1, <2>2
<1>5. \A d \in Requests : InTime(d)'
  BY <1>2 DEF CountInv, TypeOK, RequestsTypeOK, InTime
<1> QED BY <1>3, <1>4, <1>5 DEF CountInv

LEMMA LostKeeps == ASSUME CountInv, NEW r \in Requests, Lost(r) PROVE CountInv'
BY DEF CountInv, TypeOK, RequestsTypeOK, CounterHolds, InTime, Lost

LEMMA CountStep == CountInv /\ [Next]_vars => CountInv'
<1> SUFFICES ASSUME CountInv, [Next]_vars PROVE CountInv'
  OBVIOUS
<1>1. CASE Tick
  BY <1>1, TickKeeps
<1>2. ASSUME NEW r \in Requests, Check(r) PROVE CountInv'
  BY <1>2, CheckKeeps
<1>3. ASSUME NEW r \in Requests, Lost(r) PROVE CountInv'
  BY <1>3, LostKeeps
<1>4. ASSUME NEW r \in Requests, NEW k \in Keys, Asked(r, k) PROVE CountInv'
  BY <1>4, AskedKeeps
<1>5. CASE UNCHANGED vars
  BY <1>5 DEF vars, requestVars, CountInv, TypeOK, RequestsTypeOK, CounterHolds, InTime
<1> QED BY <1>1, <1>2, <1>3, <1>4, <1>5 DEF Next

LEMMA CountInvariance == Spec => []CountInv
BY CountInitially, CountStep, PTL DEF Spec

(***************************************************************************)
(* Every reachable state of the Redis limiter is of the declared shape.    *)
(***************************************************************************)
THEOREM WindowTypeCorrect == Spec => []TypeOK
<1>1. CountInv => TypeOK
  BY DEF CountInv
<1> QED BY <1>1, CountInvariance, PTL

(***************************************************************************)
(* The Redis limiter keeps to its limit for every count, window and set of *)
(* keys, however the requests are reordered, as long as none is counted    *)
(* later than the second that a counter is kept beyond its window.         *)
(***************************************************************************)
THEOREM RedisKeepsTheLimit == Spec => []AtMostCount
<1>1. CountInv => AtMostCount
  BY DEF CountInv, CounterHolds, AtMostCount
<1> QED BY <1>1, CountInvariance, PTL

LEMMA RejectedWhenFull ==
  ASSUME CountInv, [Next]_vars, NEW r \in Requests,
         calls[r] # Idle, counters' # counters, calls'[r] = Idle, admitted' = admitted
  PROVE  admitted[calls[r].key][window_start(calls[r].key, calls[r].now)]
           >= LimitOf[calls[r].key].count
<1>1. ASSUME NEW d \in Requests, Check(d)
      PROVE  admitted[calls[r].key][window_start(calls[r].key, calls[r].now)]
               >= LimitOf[calls[r].key].count
  <2>1. PICK k \in Keys, s \in 0..MaxTime, counter \in Counter, n \in 0..CountMax :
          Counts(d, k, s, counter, n)
    BY <1>1, CheckCounts
  <2>2. calls' = [calls EXCEPT ![d] = Idle] /\ admitted' = [admitted EXCEPT ![k][s] = n]
    BY <2>1 DEF Counts
  <2>3. d = r
    BY <2>2 DEF CountInv, TypeOK, RequestsTypeOK
  <2>4. n = admitted[k][s]
    BY <2>2 DEF CountInv, TypeOK, RequestsTypeOK
  <2>5. /\ k = calls[r].key /\ s = window_start(k, calls[r].now)
        /\ admitted[k][s] = LimitOf[k].count
    BY <2>1, <2>3, <2>4 DEF Counts
  <2>6. LimitOf[k].count \in Nat
    BY WidthIsPositive
  <2> QED BY <2>5, <2>6
<1>2. ASSUME NEW d \in Requests, NEW k \in Keys, Asked(d, k) PROVE FALSE
  BY <1>2 DEF Asked
<1>3. ASSUME NEW d \in Requests, Lost(d) PROVE FALSE
  BY <1>3 DEF Lost
<1>4. CASE Tick
  BY <1>4 DEF Tick, TimePasses
<1>5. CASE UNCHANGED vars
  BY <1>5 DEF vars
<1> QED BY <1>1, <1>2, <1>3, <1>4, <1>5 DEF Next

(***************************************************************************)
(* And it never turns a request away before the window is full.            *)
(***************************************************************************)
THEOREM RedisRejectsOnlyWhenFull == Spec => RejectedOnlyWhenFull
<1>1. CountInv /\ [Next]_vars =>
        [\A r \in Requests :
           (calls[r] # Idle /\ counters' # counters /\ calls'[r] = Idle /\ admitted' = admitted)
             => LET k == calls[r].key IN
                admitted[k][window_start(k, calls[r].now)] >= LimitOf[k].count]_vars
  BY RejectedWhenFull
<1> QED BY <1>1, CountInvariance, PTL DEF Spec, RejectedOnlyWhenFull

-----------------------------------------------------------------------------
(***************************************************************************)
(* InProcessWindow for every set of keys, limits and requests, when none   *)
(* lags between reading the clock and taking the lock.                     *)
(***************************************************************************)
USE ProcessAssumption

(* A bucket stands for the requests its window has seen, and no later      *)
(* window has seen any; if there is none, nor has a window not yet over.   *)
BucketHolds(k) ==
  LET limit == ProcessLimitOf[k].count
      bucket == buckets[k]
  IN /\ \A s \in 0..MaxTime : admitted[k][s] <= limit
     /\ bucket # InProcess!NoBucket =>
          /\ bucket.window_end = bucket.window_start + InProcess!Width(k)
          /\ bucket.window_start <= InProcess!window_start(k, clock)
          /\ admitted[k][bucket.window_start] = Smaller(bucket.count, limit)
          /\ \A s \in 0..MaxTime : bucket.window_start < s => admitted[k][s] = 0
     /\ bucket = InProcess!NoBucket =>
          \A s \in 0..MaxTime : clock < s + InProcess!Width(k) => admitted[k][s] = 0

(* A request is counted in the millisecond in which it read the clock. *)
Prompt(r) == calls[r] # InProcess!Idle => calls[r].now = clock

ProcessInv ==
  /\ InProcess!TypeOK
  /\ \A k \in ProcessKeys : BucketHolds(k)
  /\ \A r \in Requests : Prompt(r)

LEMMA ProcessWidths ==
  ASSUME NEW k \in ProcessKeys
  PROVE  /\ InProcess!Width(k) \in Nat \ {0}
         /\ ProcessLimitOf[k].count \in 1..(CountMax - 1)
<1>1. ProcessLimitOf[k].window \in Nat \ {0} /\ ProcessLimitOf[k].count \in 1..(CountMax - 1)
  OBVIOUS
<1>2. InProcess!Width(k) = window_millis(ProcessLimitOf[k].window)
  BY DEF InProcess!Width, InProcess!window_millis, window_millis
<1> QED BY <1>1, <1>2, MillisArePositive

LEMMA ProcessStarts ==
  ASSUME NEW k \in ProcessKeys, NEW at \in Nat
  PROVE  /\ InProcess!window_start(k, at) \in 0..at
         /\ at < InProcess!window_start(k, at) + InProcess!Width(k)
         /\ InProcess!window_start(k, at) <= InProcess!window_start(k, at + 1)
BY ProcessWidths, StartBounds DEF InProcess!window_start

LEMMA ProcessTyping ==
  ASSUME InProcess!TypeOK, NEW k \in ProcessKeys
  PROVE  /\ clock \in 0..MaxTime /\ clock \in Nat
         /\ buckets[k] = InProcess!NoBucket \/ buckets[k] \in InProcess!Bucket
         /\ buckets[k] # InProcess!NoBucket =>
              /\ buckets[k].window_start \in 0..MaxTime /\ buckets[k].window_end \in Nat
              /\ buckets[k].count \in 1..CountMax
         /\ \A s \in 0..MaxTime : admitted[k][s] \in 0..CountMax
BY DEF InProcess!TypeOK, InProcess!RequestsTypeOK, InProcess!Bucket

(* What one request makes of its bucket and of the history. *)
Charges(r, k, s, bucket, n) ==
  /\ k = calls[r].key /\ s = InProcess!window_start(k, calls[r].now)
  /\ buckets' = [buckets EXCEPT ![k] = bucket]
  /\ admitted' = [admitted EXCEPT ![k][s] = n]
  /\ n = Smaller(bucket.count, ProcessLimitOf[k].count)
  /\ bucket.window_start = s
  /\ bucket.window_end = s + InProcess!Width(k)
  /\ \A u \in 0..MaxTime : s < u => admitted[k][u] = 0
  /\ calls' = [calls EXCEPT ![r] = InProcess!Idle]
  /\ clock' = clock
  /\ n = admitted[k][s] => n = ProcessLimitOf[k].count

LEMMA ProcessRequest ==
  ASSUME ProcessInv, NEW r \in Requests, calls[r] # InProcess!Idle
  PROVE  calls[r].key \in ProcessKeys /\ calls[r].now = clock /\ clock \in 0..MaxTime
BY DEF ProcessInv, Prompt, InProcess!TypeOK, InProcess!RequestsTypeOK, InProcess!Request

(* The request finds a bucket that has counted exactly what its window has *)
(* seen, or none and a window that has seen nothing.                       *)
LEMMA CurrentCounts ==
  ASSUME ProcessInv, NEW k \in ProcessKeys, NEW s, s = InProcess!window_start(k, clock)
  PROVE  LET bucket == InProcess!Current(k, clock) IN
         /\ bucket = [window_start |-> bucket.window_start, window_end |-> bucket.window_end,
                      count |-> bucket.count]
         /\ bucket.window_start = s /\ bucket.window_end = s + InProcess!Width(k)
         /\ bucket.count \in 0..CountMax
         /\ admitted[k][s] = Smaller(bucket.count, ProcessLimitOf[k].count)
         /\ \A u \in 0..MaxTime : s < u => admitted[k][u] = 0
<1>1. /\ s \in 0..MaxTime /\ s <= clock /\ clock < s + InProcess!Width(k)
      /\ InProcess!Width(k) \in Nat \ {0} /\ ProcessLimitOf[k].count \in 1..(CountMax - 1)
      /\ clock \in 0..MaxTime
  BY ProcessStarts, ProcessWidths, ProcessTyping DEF ProcessInv
<1>2. /\ BucketHolds(k)
      /\ buckets[k] = InProcess!NoBucket \/ buckets[k] \in InProcess!Bucket
  BY ProcessTyping DEF ProcessInv
<1> DEFINE bucket == InProcess!Current(k, clock)
<1>3. CASE buckets[k] # InProcess!NoBucket /\ buckets[k].window_start = s
  <2>1. bucket = buckets[k] /\ bucket \in InProcess!Bucket
    BY <1>2, <1>3 DEF InProcess!Current
  <2>2. /\ bucket = [window_start |-> bucket.window_start, window_end |-> bucket.window_end,
                     count |-> bucket.count]
        /\ bucket.count \in 0..CountMax
    BY <2>1 DEF InProcess!Bucket
  <2> HIDE DEF bucket
  <2>3. /\ bucket.window_start = s /\ bucket.window_end = s + InProcess!Width(k)
        /\ admitted[k][s] = Smaller(bucket.count, ProcessLimitOf[k].count)
        /\ \A u \in 0..MaxTime : s < u => admitted[k][u] = 0
    BY <1>2, <1>3, <2>1 DEF BucketHolds
  <2> QED BY <2>2, <2>3 DEF bucket
<1>4. CASE ~(buckets[k] # InProcess!NoBucket /\ buckets[k].window_start = s)
  <2>1. bucket = [window_start |-> s, window_end |-> s + InProcess!Width(k), count |-> 0]
    BY <1>4 DEF InProcess!Current, InProcess!window_end
  <2>2. \A u \in 0..MaxTime : s <= u => admitted[k][u] = 0
    <3>1. CASE buckets[k] = InProcess!NoBucket
      BY <1>1, <1>2, <3>1 DEF BucketHolds
    <3>2. CASE buckets[k] # InProcess!NoBucket
      <4>1. /\ buckets[k].window_start < s
            /\ \A u \in 0..MaxTime : buckets[k].window_start < u => admitted[k][u] = 0
        <5>1. buckets[k].window_start \in 0..MaxTime /\ buckets[k].window_start <= s
          BY <1>2, <3>2 DEF BucketHolds, InProcess!Bucket
        <5>2. \A u \in 0..MaxTime : buckets[k].window_start < u => admitted[k][u] = 0
          BY <1>2, <3>2 DEF BucketHolds
        <5> QED BY <1>1, <1>4, <3>2, <5>1, <5>2
      <4>2. buckets[k].window_start \in 0..MaxTime
        BY <1>2, <3>2 DEF InProcess!Bucket
      <4> QED BY <1>1, <4>1, <4>2
    <3> QED BY <3>1, <3>2
  <2>3. admitted[k][s] = 0 /\ \A u \in 0..MaxTime : s < u => admitted[k][u] = 0
    BY <1>1, <2>2
  <2> QED BY <1>1, <2>1, <2>3 DEF Smaller
<1> QED BY <1>3, <1>4

LEMMA CheckCharges ==
  ASSUME ProcessInv, NEW r \in Requests, InProcess!Check(r)
  PROVE  \E k \in ProcessKeys, s \in 0..MaxTime, bucket \in InProcess!Bucket, n \in 0..CountMax :
           Charges(r, k, s, bucket, n)
<1>1. calls[r].key \in ProcessKeys /\ calls[r].now = clock /\ clock \in 0..MaxTime
  BY ProcessRequest DEF InProcess!Check
<1> PICK k \in ProcessKeys : k = calls[r].key
  BY <1>1
<1>2. PICK s \in 0..MaxTime : s = InProcess!window_start(k, clock)
  BY <1>1, ProcessStarts
<1>3. PICK found : found = InProcess!Current(k, clock)
  OBVIOUS
<1>4. PICK limit : limit = ProcessLimitOf[k].count
  OBVIOUS
<1>5. /\ found = [window_start |-> found.window_start, window_end |-> found.window_end,
                  count |-> found.count]
      /\ found.window_start = s /\ found.window_end = s + InProcess!Width(k)
      /\ found.count \in 0..CountMax /\ admitted[k][s] = Smaller(found.count, limit)
      /\ \A u \in 0..MaxTime : s < u => admitted[k][u] = 0
  BY <1>2, <1>3, <1>4, CurrentCounts
<1>6. PICK count : count = InProcess!Increment(found.count)
  OBVIOUS
<1>7. count \in 1..CountMax /\ count = IF found.count < CountMax THEN found.count + 1 ELSE CountMax
  BY <1>5, <1>6 DEF InProcess!Increment
<1>8. PICK bucket : bucket = [found EXCEPT !.count = count]
  OBVIOUS
<1>9. bucket = [window_start |-> s, window_end |-> s + InProcess!Width(k), count |-> count]
  BY <1>5, <1>8
<1>10. InProcess!Width(k) \in Nat \ {0} /\ limit \in 1..(CountMax - 1)
  BY <1>4, ProcessWidths
<1>11. /\ bucket \in InProcess!Bucket /\ bucket.count = count
       /\ bucket.window_start = s /\ bucket.window_end = s + InProcess!Width(k)
  BY <1>7, <1>9, <1>10 DEF InProcess!Bucket
<1>12. /\ buckets' = [buckets EXCEPT ![k] = bucket]
       /\ calls' = [calls EXCEPT ![r] = InProcess!Idle] /\ clock' = clock
       /\ \/ count <= limit /\ admitted' = [admitted EXCEPT ![k][s] = admitted[k][s] + 1]
          \/ ~(count <= limit) /\ admitted' = admitted
  BY <1>1, <1>2, <1>3, <1>4, <1>6, <1>8
     DEF InProcess!Check, InProcess!Answer, InProcess!Allowed
<1>13. admitted \in [ProcessKeys -> [0..MaxTime -> 0..CountMax]] /\ admitted[k][s] \in 0..CountMax
  BY DEF ProcessInv, InProcess!TypeOK, InProcess!RequestsTypeOK
<1>14. PICK n : n = IF count <= limit THEN admitted[k][s] + 1 ELSE admitted[k][s]
  OBVIOUS
<1>15. n \in 0..CountMax /\ n = Smaller(count, limit) /\ (n = admitted[k][s] => n = limit)
  BY <1>5, <1>7, <1>10, <1>13, <1>14 DEF Smaller
<1>16. admitted' = [admitted EXCEPT ![k][s] = n]
  <2>1. CASE count <= limit
    BY <1>12, <1>14, <2>1
  <2>2. CASE ~(count <= limit)
    BY <1>12, <1>13, <1>14, <2>2
  <2> QED BY <2>1, <2>2
<1>17. Charges(r, k, s, bucket, n)
  BY <1>1, <1>2, <1>4, <1>5, <1>11, <1>12, <1>15, <1>16 DEF Charges
<1> QED BY <1>11, <1>15, <1>17

LEMMA ProcessCheckKeeps ==
  ASSUME ProcessInv, NEW r \in Requests, InProcess!Check(r) PROVE ProcessInv'
<1>1. PICK k \in ProcessKeys, s \in 0..MaxTime, bucket \in InProcess!Bucket, n \in 0..CountMax :
        Charges(r, k, s, bucket, n)
  BY CheckCharges
<1>2. /\ buckets' = [buckets EXCEPT ![k] = bucket]
      /\ admitted' = [admitted EXCEPT ![k][s] = n]
      /\ n = Smaller(bucket.count, ProcessLimitOf[k].count)
      /\ bucket.window_start = s /\ bucket.window_end = s + InProcess!Width(k)
      /\ \A u \in 0..MaxTime : s < u => admitted[k][u] = 0
      /\ calls' = [calls EXCEPT ![r] = InProcess!Idle] /\ clock' = clock
  BY <1>1 DEF Charges
<1>3. calls[r] # InProcess!Idle /\ s = InProcess!window_start(k, clock)
  BY <1>1, ProcessRequest DEF InProcess!Check, Charges
<1>4. InProcess!TypeOK'
  BY <1>2 DEF ProcessInv, InProcess!TypeOK, InProcess!RequestsTypeOK
<1>5. ASSUME NEW j \in ProcessKeys PROVE BucketHolds(j)'
  <2>1. CASE j = k
    <3>1. buckets'[j] = bucket /\ admitted'[j] = [admitted[k] EXCEPT ![s] = n]
      BY <1>2, <2>1 DEF ProcessInv, InProcess!TypeOK, InProcess!RequestsTypeOK
    <3>2. DOMAIN admitted[k] = 0..MaxTime
      BY DEF ProcessInv, InProcess!TypeOK, InProcess!RequestsTypeOK
    <3>3. bucket # InProcess!NoBucket /\ bucket.count \in 1..CountMax
      BY DEF InProcess!Bucket, InProcess!NoBucket
    <3>4. ProcessLimitOf[k].count \in 1..(CountMax - 1)
      BY ProcessWidths
    <3>5. n <= ProcessLimitOf[k].count
      BY <1>2, <3>3, <3>4 DEF Smaller
    <3>6. \A u \in 0..MaxTime : admitted[k][u] <= ProcessLimitOf[k].count
      BY DEF ProcessInv, BucketHolds
    <3>7. \A u \in 0..MaxTime : admitted'[j][u] = IF u = s THEN n ELSE admitted[k][u]
      BY <3>1, <3>2
    <3>8. s \in Nat
      OBVIOUS
    <3>9. InProcess!window_start(k, clock)' = s /\ InProcess!Width(k)' = InProcess!Width(k)
      BY <1>2, <1>3 DEF InProcess!window_start, InProcess!Width
    <3> QED BY <1>2, <2>1, <3>1, <3>3, <3>5, <3>6, <3>7, <3>8, <3>9 DEF BucketHolds
  <2>2. CASE j # k
    <3>1. buckets'[j] = buckets[j] /\ admitted'[j] = admitted[j]
      BY <1>2, <2>2 DEF ProcessInv, InProcess!TypeOK, InProcess!RequestsTypeOK
    <3> QED BY <1>2, <3>1 DEF ProcessInv, BucketHolds, InProcess!window_start, InProcess!Width
  <2> QED BY <2>1, <2>2
<1>6. \A d \in Requests : Prompt(d)'
  BY <1>2 DEF ProcessInv, Prompt, InProcess!TypeOK, InProcess!RequestsTypeOK
<1> QED BY <1>4, <1>5, <1>6 DEF ProcessInv

LEMMA ProcessTickKeeps ==
  ASSUME ProcessLag = 0, ProcessInv, InProcess!Tick PROVE ProcessInv'
<1>1. /\ clock' = clock + 1 /\ clock < MaxTime /\ UNCHANGED <<calls, admitted, buckets>>
      /\ clock \in 0..MaxTime
      /\ \A r \in Requests : calls[r] # InProcess!Idle => clock < calls[r].now + ProcessLag
  BY DEF InProcess!Tick, InProcess!TimePasses, ProcessInv, InProcess!TypeOK, InProcess!RequestsTypeOK
<1>2. \A r \in Requests : calls[r] = InProcess!Idle
  BY <1>1, ProcessRequest
<1>3. InProcess!TypeOK'
  BY <1>1 DEF ProcessInv, InProcess!TypeOK, InProcess!RequestsTypeOK
<1>4. ASSUME NEW k \in ProcessKeys PROVE BucketHolds(k)'
  <2>1. BucketHolds(k) /\ clock \in Nat /\ InProcess!Width(k) \in Nat
    BY <1>1, ProcessWidths DEF ProcessInv
  <2>2. /\ InProcess!window_start(k, clock) \in Nat
        /\ InProcess!window_start(k, clock)' \in Nat
        /\ InProcess!window_start(k, clock) <= InProcess!window_start(k, clock)'
    <3>1. InProcess!window_start(k, clock)' = InProcess!window_start(k, clock + 1)
      BY <1>1 DEF InProcess!window_start, InProcess!Width
    <3> QED BY <2>1, <3>1, ProcessStarts
  <2>3. InProcess!Width(k)' = InProcess!Width(k)
    BY DEF InProcess!Width
  <2>4. buckets[k] # InProcess!NoBucket => buckets[k].window_start \in Nat
    BY ProcessTyping DEF ProcessInv
  <2>5. buckets' = buckets /\ admitted' = admitted /\ clock' = clock + 1
    BY <1>1
  <2>6. \A s \in 0..MaxTime : clock' < s + InProcess!Width(k) => clock < s + InProcess!Width(k)
    BY <2>1, <2>5
  <2>7. buckets[k] # InProcess!NoBucket => buckets[k].window_start <= InProcess!window_start(k, clock)'
    BY <2>1, <2>2, <2>4 DEF BucketHolds
  <2> QED BY <2>1, <2>3, <2>5, <2>6, <2>7 DEF BucketHolds
<1>5. \A r \in Requests : Prompt(r)'
  BY <1>1, <1>2 DEF Prompt
<1> QED BY <1>3, <1>4, <1>5 DEF ProcessInv

(* A bucket that is cleaned up stands for a window that is over.           *)
LEMMA CleanupKeeps ==
  ASSUME ProcessInv, NEW older_than \in Ages, InProcess!cleanup(older_than) PROVE ProcessInv'
<1>1. /\ UNCHANGED <<clock, calls, admitted>>
      /\ buckets' = [k \in ProcessKeys |->
                       IF buckets[k].window_end > InProcess!cutoff(older_than)
                         THEN buckets[k] ELSE InProcess!NoBucket]
  BY DEF InProcess!cleanup, InProcess!requestVars
<1>2. clock \in Nat /\ clock \in 0..MaxTime
  BY DEF ProcessInv, InProcess!TypeOK, InProcess!RequestsTypeOK
<1>3. InProcess!window_millis(older_than) \in Nat
  <2>1. older_than \in Nat
    OBVIOUS
  <2> QED BY <2>1, MillisAreNatural DEF InProcess!window_millis, window_millis
<1>4. InProcess!cutoff(older_than) \in Nat /\ InProcess!cutoff(older_than) <= clock
  BY <1>2, <1>3 DEF InProcess!cutoff
<1>5. InProcess!TypeOK'
  BY <1>1 DEF ProcessInv, InProcess!TypeOK, InProcess!RequestsTypeOK
<1>6. ASSUME NEW k \in ProcessKeys PROVE BucketHolds(k)'
  <2>1. BucketHolds(k) /\ InProcess!Width(k) \in Nat
    BY ProcessWidths DEF ProcessInv
  <2>2. CASE buckets'[k] = buckets[k]
    BY <1>1, <2>1, <2>2 DEF BucketHolds, InProcess!window_start, InProcess!Width
  <2>3. CASE buckets'[k] # buckets[k]
    <3>1. buckets'[k] = InProcess!NoBucket /\ ~(buckets[k].window_end > InProcess!cutoff(older_than))
      BY <1>1, <2>3
    <3>2. /\ buckets[k].window_start \in Nat /\ buckets[k].window_end \in Nat
          /\ buckets[k].window_end = buckets[k].window_start + InProcess!Width(k)
          /\ \A s \in 0..MaxTime : buckets[k].window_start < s => admitted[k][s] = 0
          /\ \A s \in 0..MaxTime : admitted[k][s] <= ProcessLimitOf[k].count
      BY <2>1, <2>3, <3>1, ProcessTyping DEF ProcessInv, BucketHolds
    <3>3. buckets[k].window_end <= clock
      BY <1>2, <1>4, <3>1, <3>2
    <3>4. \A s \in 0..MaxTime : clock < s + InProcess!Width(k) => admitted[k][s] = 0
      BY <1>2, <2>1, <3>2, <3>3
    <3> QED BY <1>1, <3>1, <3>2, <3>4 DEF BucketHolds, InProcess!Width
  <2> QED BY <2>2, <2>3
<1>7. \A r \in Requests : Prompt(r)'
  BY <1>1 DEF ProcessInv, Prompt
<1> QED BY <1>5, <1>6, <1>7 DEF ProcessInv

LEMMA ProcessAskedKeeps ==
  ASSUME ProcessInv, NEW r \in Requests, NEW k \in ProcessKeys, InProcess!Asked(r, k)
  PROVE  ProcessInv'
<1> PICK call : call = [state |-> "asked", key |-> k, now |-> clock]
  OBVIOUS
<1>1. /\ calls' = [calls EXCEPT ![r] = call]
      /\ clock' = clock /\ admitted' = admitted /\ buckets' = buckets
  BY DEF InProcess!Asked, InProcess!Ask
<1>2. call \in InProcess!Request /\ call.now = clock
  BY DEF ProcessInv, InProcess!TypeOK, InProcess!RequestsTypeOK, InProcess!Request
<1>3. InProcess!TypeOK' /\ \A j \in ProcessKeys : BucketHolds(j)'
  BY <1>1, <1>2 DEF ProcessInv, InProcess!TypeOK, InProcess!RequestsTypeOK, BucketHolds,
                    InProcess!window_start, InProcess!Width
<1>4. \A d \in Requests : Prompt(d)'
  BY <1>1, <1>2 DEF ProcessInv, InProcess!TypeOK, InProcess!RequestsTypeOK, Prompt
<1> QED BY <1>3, <1>4 DEF ProcessInv

LEMMA ProcessInitially == InProcess!Init => ProcessInv
<1> SUFFICES ASSUME InProcess!Init PROVE ProcessInv
  OBVIOUS
<1>1. /\ clock = 0 /\ calls = [r \in Requests |-> InProcess!Idle]
      /\ admitted = [k \in ProcessKeys |-> [s \in 0..MaxTime |-> 0]]
      /\ buckets = [k \in ProcessKeys |-> InProcess!NoBucket]
  BY DEF InProcess!Init, InProcess!RequestsInit
<1>2. InProcess!TypeOK
  BY <1>1 DEF InProcess!TypeOK, InProcess!RequestsTypeOK
<1>3. ASSUME NEW k \in ProcessKeys PROVE BucketHolds(k)
  BY <1>1, ProcessWidths DEF BucketHolds
<1> QED BY <1>1, <1>2, <1>3 DEF ProcessInv, Prompt

LEMMA ProcessStep ==
  ASSUME ProcessLag = 0, ProcessInv, InProcess!Next PROVE ProcessInv'
BY ProcessTickKeeps, ProcessCheckKeeps, ProcessAskedKeeps, CleanupKeeps DEF InProcess!Next

LEMMA ProcessRejects ==
  ASSUME ProcessInv, InProcess!Next, NEW r \in Requests
  PROVE  InProcess!RejectedWhenFull(r)
<1> SUFFICES ASSUME calls[r] # InProcess!Idle, calls'[r] = InProcess!Idle, admitted' = admitted
             PROVE  admitted[calls[r].key][InProcess!window_start(calls[r].key, calls[r].now)]
                      >= ProcessLimitOf[calls[r].key].count
  BY DEF InProcess!RejectedWhenFull
<1>1. ASSUME NEW d \in Requests, InProcess!Check(d)
      PROVE  admitted[calls[r].key][InProcess!window_start(calls[r].key, calls[r].now)]
               >= ProcessLimitOf[calls[r].key].count
  <2>1. PICK k \in ProcessKeys, s \in 0..MaxTime, bucket \in InProcess!Bucket, n \in 0..CountMax :
          Charges(d, k, s, bucket, n)
    BY <1>1, CheckCharges
  <2>2. calls' = [calls EXCEPT ![d] = InProcess!Idle] /\ admitted' = [admitted EXCEPT ![k][s] = n]
    BY <2>1 DEF Charges
  <2>3. d = r
    BY <2>2 DEF ProcessInv, InProcess!TypeOK, InProcess!RequestsTypeOK
  <2>4. n = admitted[k][s]
    BY <2>2 DEF ProcessInv, InProcess!TypeOK, InProcess!RequestsTypeOK
  <2>5. /\ k = calls[r].key /\ s = InProcess!window_start(k, calls[r].now)
        /\ admitted[k][s] = ProcessLimitOf[k].count
    BY <2>1, <2>3, <2>4 DEF Charges
  <2>6. ProcessLimitOf[k].count \in Nat
    BY ProcessWidths
  <2> QED BY <2>5, <2>6
<1>2. ASSUME NEW d \in Requests, NEW k \in ProcessKeys, InProcess!Asked(d, k) PROVE calls'[r] # InProcess!Idle
  <2>1. PICK call : call = [state |-> "asked", key |-> k, now |-> clock] /\ calls' = [calls EXCEPT ![d] = call]
    BY <1>2 DEF InProcess!Asked, InProcess!Ask
  <2>2. call # InProcess!Idle
    BY <2>1 DEF InProcess!Idle
  <2> QED BY <2>1, <2>2 DEF ProcessInv, InProcess!TypeOK, InProcess!RequestsTypeOK
<1>3. CASE InProcess!Tick
  BY <1>3 DEF InProcess!Tick, InProcess!TimePasses
<1>4. ASSUME NEW older_than \in Ages, InProcess!cleanup(older_than)
      PROVE  calls' = calls
  BY <1>4 DEF InProcess!cleanup, InProcess!requestVars
<1> QED BY <1>1, <1>2, <1>3, <1>4 DEF InProcess!Next

(* Of the two backends that a behaviour of MCWindows may run.              *)
PartInv == part \in {"redis", "process"} /\ (part = "process" => ProcessInv)

LEMMA PartInitially == MCInit => PartInv
BY ProcessInitially DEF MCInit, PartInv

LEMMA PartStep ==
  ASSUME ProcessLag = 0 PROVE PartInv /\ [MCNext]_windowVars => PartInv'
<1> SUFFICES ASSUME PartInv, [MCNext]_windowVars PROVE PartInv'
  OBVIOUS
<1>1. CASE part = "redis" /\ part' = part
  BY <1>1 DEF PartInv
<1>2. CASE part = "process" /\ InProcess!Next /\ UNCHANGED part
  BY <1>2, ProcessStep DEF PartInv
<1>3. CASE UNCHANGED windowVars
  <2>1. UNCHANGED <<part, clock, calls, admitted, counters, buckets>>
    BY <1>3 DEF windowVars, vars, requestVars
  <2> QED BY <2>1 DEF PartInv, ProcessInv, InProcess!TypeOK, InProcess!RequestsTypeOK, BucketHolds,
                      Prompt, InProcess!window_start, InProcess!Width
<1> QED BY <1>1, <1>2, <1>3 DEF MCNext

(***************************************************************************)
(* The in-process limiter is exact for every set of keys, limits, windows  *)
(* and requests: no window of a key sees more than its count allowed, and  *)
(* nobody is rejected before it has, whatever cleanup removes.             *)
(***************************************************************************)
THEOREM InProcessIsExact ==
  ASSUME ProcessLag = 0 PROVE MCSpec => InProcessCountsItsWindow
<1>1. PartInv /\ PartInv' /\ [MCNext]_windowVars =>
        [part = "process" =>
           InProcessAtMostCount' /\ \A r \in Requests : InProcess!RejectedWhenFull(r)]_windowVars
  <2> SUFFICES ASSUME PartInv, PartInv', MCNext, part = "process"
               PROVE  InProcessAtMostCount' /\ \A r \in Requests : InProcess!RejectedWhenFull(r)
    OBVIOUS
  <2>1. InProcess!Next /\ part' = "process" /\ ProcessInv /\ ProcessInv'
    BY DEF MCNext, PartInv
  <2>2. InProcessAtMostCount'
    BY <2>1 DEF ProcessInv, BucketHolds, InProcessAtMostCount, InProcess!AtMostCount
  <2> QED BY <2>1, <2>2, ProcessRejects
<1>2. MCSpec => []PartInv
  BY PartInitially, PartStep, PTL DEF MCSpec
<1> QED BY <1>1, <1>2, PTL DEF MCSpec, InProcessCountsItsWindow
=============================================================================
