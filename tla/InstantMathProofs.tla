------------------------- MODULE InstantMathProofs -------------------------
(***************************************************************************)
(* Facts about the deadlines of InstantMath, for every MaxInstant and      *)
(* Second: what the proofs about the stores need to know of them.          *)
(***************************************************************************)
EXTENDS InstantMath, NaturalsInduction, WellFoundedInduction, TLAPS

(* Every non-empty set of natural numbers has a least element. *)
LEMMA LeastExists ==
  ASSUME NEW T, T \subseteq Nat, T # {}
  PROVE  \E x \in T : \A y \in T : x <= y
<1>1. PICK x \in T : \A y \in T : ~ (<<y, x>> \in OpToRel(<, Nat))
  BY WFMin, NatLessThanWellFounded, Zenon
<1>2. ASSUME NEW y \in T PROVE x <= y
  <2>1. x \in Nat /\ y \in Nat
    OBVIOUS
  <2>2. <<y, x>> \in Nat \X Nat
    BY <2>1
  <2>3. ~ (y < x)
    BY <1>1, <2>2, Zenon DEF OpToRel
  <2> QED BY <2>1, <2>3
<1> QED BY <1>2

(* A non-empty set of integers with a bound has a largest element, which   *)
(* is the one Latest chooses.                                              *)
LEMMA LatestIsLargest ==
  ASSUME NEW bound \in Int, NEW ends, ends \subseteq Int, \A e \in ends : e <= bound, ends # {}
  PROVE  /\ Latest(ends) \in ends
         /\ \A e \in ends : e <= Latest(ends)
<1> DEFINE left == {bound - e : e \in ends}
<1>1. left \subseteq Nat /\ left # {}
  <2>1. \A e \in ends : bound - e \in Nat
    OBVIOUS
  <2>2. PICK e \in ends : TRUE
    OBVIOUS
  <2>3. bound - e \in left
    OBVIOUS
  <2> QED BY <2>1, <2>3, Zenon
<1>2. PICK x \in left : \A y \in left : x <= y
  BY <1>1, LeastExists, Zenon
<1>3. PICK m \in ends : x = bound - m
  BY <1>2
<1>4. \A e \in ends : e <= m
  <2> TAKE e \in ends
  <2>1. bound - e \in left
    OBVIOUS
  <2>2. bound - m <= bound - e
    BY <2>1, <1>2, <1>3
  <2>3. e \in Int /\ m \in Int
    OBVIOUS
  <2> HIDE DEF left
  <2> QED BY <2>2, <2>3
<1> HIDE DEF left
<1> QED BY <1>4 DEF Latest

-----------------------------------------------------------------------------
(***************************************************************************)
(* The deadline that instant_saturating_add returns is a representable     *)
(* Instant and not before the time it was computed at, which may also lie  *)
(* before the first Instant.                                               *)
(***************************************************************************)
THEOREM DeadlineBounds ==
  ASSUME NEW now \in Int, now <= MaxInstant, NEW duration \in Int
  PROVE  /\ instant_saturating_add(now, duration) \in now..MaxInstant
         /\ now \in Instants => instant_saturating_add(now, duration) \in Instants
<1> USE InstantAssumption DEF Instants
<1> DEFINE ends == HalvedEnds(now, duration)
<1>1. CASE ends = {}
  BY <1>1 DEF instant_saturating_add
<1>2. CASE ends # {}
  <2>1. ends \subseteq now..MaxInstant
    BY DEF HalvedEnds
  <2> HIDE DEF ends
  <2>2. MaxInstant \in Int /\ ends \subseteq Int /\ \A e \in ends : e <= MaxInstant
    BY <2>1
  <2>3. Latest(ends) \in ends
    BY <2>2, <1>2, LatestIsLargest, Zenon
  <2>4. instant_saturating_add(now, duration) = Latest(ends)
    BY <1>2 DEF instant_saturating_add, ends
  <2>5. instant_saturating_add(now, duration) \in now..MaxInstant
    BY <2>1, <2>3, <2>4, Zenon
  <2> QED BY <2>5
<1> QED BY <1>1, <1>2

LEMMA ExpiryBounds ==
  ASSUME NEW now \in Instants, NEW ttl \in Nat
  PROVE  expires_at(now, ttl) \in Instants /\ expires_at(now, ttl) >= now
<1>1. ttl_duration(ttl) \in Nat
  BY InstantAssumption DEF ttl_duration
<1>2. now \in Int /\ now <= MaxInstant /\ ttl_duration(ttl) \in Int
  BY <1>1, InstantAssumption DEF Instants
<1>3. /\ expires_at(now, ttl) \in now..MaxInstant
      /\ expires_at(now, ttl) \in Instants
  BY <1>2, DeadlineBounds, Zenon DEF expires_at
<1> QED BY <1>2, <1>3, InstantAssumption

(***************************************************************************)
(* Rounding a TTL up to whole seconds for Redis never shortens it, and     *)
(* lengthens it by less than a second.                                     *)
(***************************************************************************)
THEOREM SecondsCoverTTL ==
  ASSUME NEW ttl \in Nat
  PROVE  /\ ttl_secs_ceil(ttl) \in Nat \ {0}
         /\ ttl_duration(ttl) <= Second * ttl_secs_ceil(ttl)
         /\ Second * ttl_secs_ceil(ttl) < ttl_duration(ttl) + Second
<1> USE InstantAssumption
<1> DEFINE ticks == ttl_duration(ttl)
           quot == ticks \div Second
           rest == ticks % Second
<1>1. ticks \in Nat \ {0}
  BY DEF ttl_duration
<1> HIDE DEF ticks
<1>2. quot \in Nat /\ rest \in 0..(Second - 1) /\ ticks = Second * quot + rest
  BY <1>1
<1>3. ttl_secs_ceil(ttl) = quot + (IF rest # 0 THEN 1 ELSE 0)
  BY DEF ttl_secs_ceil, ticks
<1> HIDE DEF quot, rest
<1>4. CASE rest = 0
  <2>1. ttl_secs_ceil(ttl) = quot /\ ticks = Second * quot
    BY <1>2, <1>3, <1>4
  <2>2. quot # 0
    BY <1>1, <1>2, <2>1
  <2> QED BY <1>1, <1>2, <2>1, <2>2 DEF ticks
<1>5. CASE rest # 0
  <2>1. ttl_secs_ceil(ttl) = quot + 1
    BY <1>3, <1>5
  <2>2. Second * (quot + 1) = Second * quot + Second
    BY <1>2
  <2> QED BY <1>1, <1>2, <1>5, <2>1, <2>2 DEF ticks
<1> QED BY <1>4, <1>5
=============================================================================
