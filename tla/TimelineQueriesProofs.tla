---- MODULE TimelineQueriesProofs ----
(***************************************************************************)
(* Presenting a frame and jumping to a time, over every complete index.    *)
(***************************************************************************)
EXTENDS TimelineQueries, WellFoundedInduction, TLAPS

\* Every nonempty set of naturals has a least element.
LEMMA LeastNatural ==
  ASSUME NEW S, S \subseteq Nat, S # {}
  PROVE  \E m \in S : \A k \in S : m <= k
<1>1. PICK m \in S : \A k \in S : ~(<<k, m>> \in OpToRel(<, Nat))
  BY NatLessThanWellFounded, WFMin, Zenon
<1>2. \A k \in S : ~(k < m)
  BY <1>1, Zenon DEF OpToRel
<1> QED BY <1>2

(***************************************************************************)
(* ORDER BY time, frame_index LIMIT 1 finds a row: of the frames at or     *)
(* before a time there is a last one, which has the greatest time and of   *)
(* the frames with it the greatest number, and of those at or after a time *)
(* there is a first one.                                                   *)
(***************************************************************************)
LEMMA LatestExists ==
  ASSUME NEW found, found # {}, NEW n \in Nat, found \subseteq Nat, \A id \in found : id < n,
         NEW t, NEW target \in Int, \A id \in found : t[id] \in Int /\ t[id] <= target
  PROVE  \E i \in found : \A j \in found \ {i} : t[i] > t[j] \/ (t[i] = t[j] /\ i > j)
<1> DEFINE back == {target - t[id] : id \in found}
<1>1. back \subseteq Nat /\ back # {}
  <2>1. \A id \in found : target - t[id] \in Nat
    OBVIOUS
  <2> QED BY <2>1, Zenon
<1>2. PICK m \in back : \A k \in back : m <= k
  BY <1>1, LeastNatural, Zenon
<1>3. PICK i0 \in found : \A k \in found : t[k] <= t[i0]
  <2>1. PICK i0 \in found : \A k \in found : target - t[i0] <= target - t[k]
    BY <1>2, Zenon
  <2> HIDE DEF back
  <2> QED BY <2>1
<1> DEFINE equal == {id \in found : t[id] = t[i0]}
           ahead == {n - id : id \in equal}
<1>4. ahead \subseteq Nat /\ ahead # {}
  OBVIOUS
<1>5. PICK a \in ahead : \A k \in ahead : a <= k
  BY <1>4, LeastNatural, Zenon
<1>6. PICK i \in equal : \A k \in equal : k <= i
  <2>1. PICK i \in equal : \A k \in equal : n - i <= n - k
    BY <1>5, Zenon
  <2>2. i \in Nat /\ \A k \in equal : k \in Nat
    OBVIOUS
  <2> HIDE DEF equal
  <2> QED BY <2>1, <2>2
<1>7. i \in found /\ t[i] = t[i0] /\ \A k \in found : t[k] = t[i0] => k <= i
  BY <1>6
<1> HIDE DEF back, equal, ahead
<1> QED BY <1>3, <1>7

LEMMA EarliestExists ==
  ASSUME NEW found, found # {}, found \subseteq Nat,
         NEW t, NEW target \in Int, \A id \in found : t[id] \in Int /\ t[id] >= target
  PROVE  \E i \in found : \A j \in found \ {i} : t[j] > t[i] \/ (t[j] = t[i] /\ j > i)
<1> DEFINE ahead == {t[id] - target : id \in found}
<1>1. ahead \subseteq Nat /\ ahead # {}
  <2>1. \A id \in found : t[id] - target \in Nat
    OBVIOUS
  <2> QED BY <2>1, Zenon
<1>2. PICK m \in ahead : \A k \in ahead : m <= k
  BY <1>1, LeastNatural, Zenon
<1>3. PICK i0 \in found : \A k \in found : t[i0] <= t[k]
  <2>1. PICK i0 \in found : \A k \in found : t[i0] - target <= t[k] - target
    BY <1>2, Zenon
  <2> HIDE DEF ahead
  <2> QED BY <2>1
<1> DEFINE equal == {id \in found : t[id] = t[i0]}
<1>4. equal \subseteq Nat /\ equal # {}
  BY Zenon
<1>5. PICK i \in equal : \A k \in equal : i <= k
  BY <1>4, LeastNatural, Zenon
<1>6. i \in found /\ t[i] = t[i0] /\ \A k \in found : t[k] = t[i0] => i <= k
  BY <1>5
<1> HIDE DEF ahead, equal
<1> QED BY <1>3, <1>6

-----------------------------------------------------------------------------
Units == {"ticks", "us"}
JumpTyped == rows \in JumpIndexes

LEMMA JumpRows ==
  ASSUME JumpTyped
  PROVE  /\ Jump!Ids \subseteq Nat /\ None \notin Jump!Ids /\ Overflow \notin Jump!Ids
         /\ \E n \in Nat : \A id \in Jump!Ids : id < n
         /\ \A unit \in Units, id \in Jump!Timed : Jump!Time(unit, id) \in Int
<1>1. /\ Cardinality(DOMAIN rows) \in Nat /\ DOMAIN rows = 0 .. Cardinality(DOMAIN rows) - 1
      /\ \A id \in DOMAIN rows : rows[id] \in Int \cup {None}
  BY JumpAssumption DEF JumpTyped
<1>3. \A id \in Jump!Timed : rows[id] \in Int
  BY <1>1 DEF Jump!Timed, Jump!Ids
<1>4. \A t \in Int : Jump!Microseconds(t) \in Int
  BY JumpAssumption DEF Jump!Microseconds
<1>5. \A unit \in Units, id \in Jump!Timed : Jump!Time(unit, id) \in Int
  BY <1>3, <1>4 DEF Jump!Time
<1> QED BY <1>1, <1>5, JumpAssumption DEF Jump!Ids

LEMMA AtOrBeforeFacts ==
  ASSUME JumpTyped, NEW unit \in Units, NEW target \in Int
  PROVE  LET found == {id \in Jump!Timed : Jump!Time(unit, id) <= target}
             it == Jump!AtOrBefore(unit, target)
         IN  /\ found = {} => it = None
             /\ found # {} => it \in found /\ \A j \in found \ {it} : Jump!Later(unit, it, j)
<1> DEFINE found == {id \in Jump!Timed : Jump!Time(unit, id) <= target}
           t == [id \in found |-> Jump!Time(unit, id)]
<1>1. found = {} => Jump!AtOrBefore(unit, target) = None
  BY DEF Jump!AtOrBefore
<1>2. ASSUME found # {}
      PROVE  \E i \in found : \A j \in found \ {i} : Jump!Later(unit, i, j)
  <2>1. PICK n \in Nat : \A id \in Jump!Ids : id < n
    BY JumpRows
  <2>2. /\ found \subseteq Nat /\ \A id \in found : id < n
        /\ \A id \in found : t[id] \in Int /\ t[id] <= target
    BY <2>1, JumpRows, Zenon DEF Jump!Timed
  <2>3. PICK i \in found : \A j \in found \ {i} : t[i] > t[j] \/ (t[i] = t[j] /\ i > j)
    <3> HIDE DEF found, t
    <3> QED BY <1>2, <2>2, LatestExists, Zenon
  <2> QED BY <2>3 DEF Jump!Later
<1>3. found # {} => Jump!AtOrBefore(unit, target) = CHOOSE i \in found : \A j \in found \ {i} : Jump!Later(unit, i, j)
  BY DEF Jump!AtOrBefore
<1> QED BY <1>1, <1>2, <1>3

LEMMA AtOrAfterFacts ==
  ASSUME JumpTyped, NEW unit \in Units, NEW target \in Int
  PROVE  LET found == {id \in Jump!Timed : Jump!Time(unit, id) >= target}
             it == Jump!AtOrAfter(unit, target)
         IN  /\ found = {} => it = None
             /\ found # {} => it \in found /\ \A j \in found \ {it} : Jump!Later(unit, j, it)
<1> DEFINE found == {id \in Jump!Timed : Jump!Time(unit, id) >= target}
           t == [id \in found |-> Jump!Time(unit, id)]
<1>1. found = {} => Jump!AtOrAfter(unit, target) = None
  BY DEF Jump!AtOrAfter
<1>2. ASSUME found # {}
      PROVE  \E i \in found : \A j \in found \ {i} : Jump!Later(unit, j, i)
  <2>1. found \subseteq Nat /\ \A id \in found : t[id] \in Int /\ t[id] >= target
    BY JumpRows, Zenon DEF Jump!Timed
  <2>2. PICK i \in found : \A j \in found \ {i} : t[j] > t[i] \/ (t[j] = t[i] /\ j > i)
    <3> HIDE DEF found, t
    <3> QED BY <1>2, <2>1, EarliestExists, Zenon
  <2> QED BY <2>2 DEF Jump!Later
<1>3. found # {} => Jump!AtOrAfter(unit, target) = CHOOSE i \in found : \A j \in found \ {i} : Jump!Later(unit, j, i)
  BY DEF Jump!AtOrAfter
<1> QED BY <1>1, <1>2, <1>3

(***************************************************************************)
(* The choice between the two.                                             *)
(***************************************************************************)
\* What is expected of the answer to a jump.
Good(unit, target, selection, it) ==
  /\ selection = "nearest" /\ it \in Jump!Ids =>
       \A id \in Jump!Timed :
          /\ Jump!Distance(unit, it, target) <= Jump!Distance(unit, id, target)
          /\ Jump!Distance(unit, id, target) = Jump!Distance(unit, it, target) =>
               \/ Jump!Time(unit, id) > Jump!Time(unit, it)
               \/ /\ Jump!Time(unit, id) = Jump!Time(unit, it)
                  /\ Jump!Time(unit, id) = target => id >= it
  /\ it = None =>
       \A id \in Jump!Timed : /\ selection # "nearest"
                              /\ selection = "at_or_before" => Jump!Time(unit, id) > target
                              /\ selection = "at_or_after" => Jump!Time(unit, id) < target
  /\ (\E id \in Jump!Timed : Jump!Time(unit, id) = target) =>
       it \in Jump!Ids /\ Jump!Time(unit, it) = target

JumpInv ==
  /\ JumpTyped
  /\ \/ last = Jump!NoJump
     \/ /\ last.unit \in Units /\ last.selection \in Jump!Selections
        /\ Good(last.unit, last.target, last.selection, last.answer)

LEMMA NearestFacts ==
  ASSUME JumpTyped, NEW unit \in Units, NEW target \in Int,
         NEW it, it = Jump!Nearest(unit, target)
  PROVE  /\ it = None => Jump!Timed = {}
         /\ it \in Jump!Ids => it \in Jump!Timed
         /\ it \in Jump!Ids => \A id \in Jump!Timed :
              /\ Jump!Distance(unit, it, target) <= Jump!Distance(unit, id, target)
              /\ Jump!Distance(unit, id, target) = Jump!Distance(unit, it, target) =>
                   \/ Jump!Time(unit, id) > Jump!Time(unit, it)
                   \/ /\ Jump!Time(unit, id) = Jump!Time(unit, it)
                      /\ Jump!Time(unit, id) = target => id >= it
         /\ (\E id \in Jump!Timed : Jump!Time(unit, id) = target) =>
              it \in Jump!Ids /\ Jump!Time(unit, it) = target
<1> DEFINE T(id) == Jump!Time(unit, id)
           before == Jump!AtOrBefore(unit, target)
           after == Jump!AtOrAfter(unit, target)
           early == {id \in Jump!Timed : T(id) <= target}
           late == {id \in Jump!Timed : T(id) >= target}
<1>1. /\ \A id \in Jump!Timed : T(id) \in Int /\ id \in Nat /\ id \in Jump!Ids
      /\ None \notin Jump!Ids /\ Overflow \notin Jump!Ids /\ Overflow # None
      /\ Jump!Timed = early \cup late
  <2>1. \A id \in Jump!Timed : T(id) \in Int /\ id \in Nat /\ id \in Jump!Ids
    BY JumpRows DEF Jump!Timed
  <2> QED BY <2>1, JumpRows, JumpAssumption
<1>2. /\ early = {} => before = None
      /\ early # {} => before \in early /\ \A j \in early \ {before} : Jump!Later(unit, before, j)
  BY AtOrBeforeFacts
<1>3. /\ late = {} => after = None
      /\ late # {} => after \in late /\ \A j \in late \ {after} : Jump!Later(unit, j, after)
  BY AtOrAfterFacts
<1>4. before \in early => \A j \in early : T(j) <= T(before)
  BY <1>1, <1>2 DEF Jump!Later
<1>5. after \in late => \A j \in late : T(after) <= T(j) /\ (T(j) = T(after) => after <= j)
  BY <1>1, <1>3 DEF Jump!Later
<1>6. it = IF before = None THEN after ELSE IF after = None THEN before
           ELSE IF ~Jump!Fits(target - T(before)) \/ ~Jump!Fits(T(after) - target) THEN Overflow
           ELSE IF T(after) - target = 0 THEN after
           ELSE IF target - T(before) <= T(after) - target THEN before ELSE after
  BY DEF Jump!Nearest
<1>7. (before = None <=> early = {}) /\ (after = None <=> late = {})
  BY <1>1, <1>2, <1>3
<1>d. \A id \in Jump!Timed : Jump!Distance(unit, id, target)
                               = IF T(id) >= target THEN T(id) - target ELSE target - T(id)
  BY DEF Jump!Distance
<1> HIDE DEF T, before, after
<1>8. it = None => Jump!Timed = {}
  BY <1>1, <1>2, <1>3, <1>6, <1>7
<1>9. it \in Jump!Ids => it \in Jump!Timed
  BY <1>1, <1>2, <1>3, <1>6, <1>7
<1>10. ASSUME it \in Jump!Ids, NEW id \in Jump!Timed
       PROVE  /\ Jump!Distance(unit, it, target) <= Jump!Distance(unit, id, target)
              /\ Jump!Distance(unit, id, target) = Jump!Distance(unit, it, target) =>
                   \/ T(id) > T(it)
                   \/ /\ T(id) = T(it)
                      /\ T(id) = target => id >= it
  <2>1. CASE late = {}
    <3>1. it = before /\ before \in early /\ id \in early
      BY <1>1, <1>2, <1>6, <1>7, <2>1
    <3>2. T(id) <= T(it) /\ T(it) <= target /\ T(id) \in Int /\ T(it) \in Int /\ T(it) # target
      BY <1>1, <1>4, <2>1, <3>1
    <3> QED BY <1>d, <1>9, <1>10, <3>2
  <2>2. CASE late # {} /\ (early = {} \/ it = after)
    <3>1. it = after /\ after \in late
      BY <1>1, <1>3, <1>6, <1>7, <2>2
    <3>2. T(it) >= target /\ T(it) \in Int /\ T(id) \in Int
          /\ (T(id) >= target => T(it) <= T(id) /\ (T(id) = T(it) => it <= id))
      BY <1>1, <1>5, <3>1
    <3>3. T(id) < target => T(it) = target \/ T(it) - target < target - T(id)
      <4> SUFFICES ASSUME T(id) < target, T(it) # target PROVE T(it) - target < target - T(id)
        OBVIOUS
      <4>1. id \in early /\ early # {} /\ before \in early /\ T(id) <= T(before)
        BY <1>1, <1>2, <1>4
      <4>2. T(before) \in Int /\ T(before) <= target /\ ~(target - T(before) <= T(it) - target)
        BY <1>1, <1>2, <1>6, <1>7, <1>10, <2>2, <3>1, <3>2, <4>1
      <4> QED BY <3>2, <4>1, <4>2
    <3>4. it \in Nat /\ id \in Nat
      BY <1>1, <1>9, <1>10
    <3> QED BY <1>d, <1>9, <1>10, <3>2, <3>3, <3>4
  <2>3. CASE late # {} /\ early # {} /\ it # after
    <3>1. /\ it = before /\ before \in early /\ after \in late
          /\ T(after) # target /\ target - T(it) <= T(after) - target
      BY <1>1, <1>2, <1>3, <1>6, <1>7, <1>10, <2>3
    <3>2. T(it) \in Int /\ T(id) \in Int /\ T(after) \in Int /\ T(it) <= target /\ T(after) > target
      BY <1>1, <3>1
    <3>3. T(id) < target => T(id) <= T(it)
      BY <1>1, <1>4, <3>1
    <3>4. T(id) >= target => T(after) <= T(id)
      BY <1>1, <1>5, <3>1
    <3>5. T(it) < target
      <4>1. it \in late => T(after) <= T(it)
        BY <1>5, <3>1
      <4> QED BY <1>9, <1>10, <3>2, <4>1
    <3> QED BY <1>d, <1>9, <1>10, <3>1, <3>2, <3>3, <3>4, <3>5
  <2> QED BY <2>1, <2>2, <2>3
<1>11. ASSUME NEW id \in Jump!Timed, T(id) = target
       PROVE  it \in Jump!Ids /\ T(it) = target
  <2>1. id \in early /\ id \in late
    BY <1>1, <1>11
  <2>2. /\ before \in early /\ after \in late /\ T(before) = target /\ T(after) = target
        /\ before # None /\ after # None
    <3>1. before \in early /\ after \in late /\ T(id) <= T(before) /\ T(after) <= T(id)
      BY <1>2, <1>3, <1>4, <1>5, <2>1
    <3> QED BY <1>1, <1>11, <3>1, <1>7
  <2>3. Jump!Fits(target - T(before)) /\ Jump!Fits(T(after) - target)
    <3>1. target - T(before) = 0 /\ T(after) - target = 0
      BY <2>2
    <3> QED BY <3>1, JumpAssumption DEF Jump!Fits, Jump!Values
  <2>4. it = after
    BY <1>6, <2>2, <2>3
  <2> QED BY <1>1, <2>2, <2>4
<1> QED BY <1>8, <1>9, <1>10, <1>11 DEF T

LEMMA ResolveIsGood ==
  ASSUME JumpTyped, NEW unit \in Units, NEW target \in Int, NEW selection \in Jump!Selections
  PROVE  Good(unit, target, selection, Jump!Resolve(unit, target, selection))
<1> DEFINE it == Jump!Resolve(unit, target, selection)
<1>0. /\ \A id \in Jump!Timed : Jump!Time(unit, id) \in Int /\ id \in Jump!Ids
      /\ None \notin Jump!Ids
  BY JumpRows DEF Jump!Timed
<1>1. CASE selection = "nearest"
  <2>1. it = Jump!Nearest(unit, target)
    BY <1>1 DEF Jump!Resolve, Jump!NearestUs
  <2> HIDE DEF it
  <2>2. /\ it = None => Jump!Timed = {}
        /\ (\E id \in Jump!Timed : Jump!Time(unit, id) = target) =>
             it \in Jump!Ids /\ Jump!Time(unit, it) = target
    BY <2>1, NearestFacts
  <2>3. ASSUME it \in Jump!Ids, NEW id \in Jump!Timed
        PROVE  /\ Jump!Distance(unit, it, target) <= Jump!Distance(unit, id, target)
               /\ Jump!Distance(unit, id, target) = Jump!Distance(unit, it, target) =>
                    \/ Jump!Time(unit, id) > Jump!Time(unit, it)
                    \/ /\ Jump!Time(unit, id) = Jump!Time(unit, it)
                       /\ Jump!Time(unit, id) = target => id >= it
    BY <2>1, <2>3, NearestFacts
  <2>4. Good(unit, target, selection, it)
    BY <1>1, <2>2, <2>3 DEF Good
  <2> QED BY <2>4 DEF it
<1>2. CASE selection = "at_or_before"
  <2> DEFINE found == {id \in Jump!Timed : Jump!Time(unit, id) <= target}
  <2>1. it = Jump!AtOrBefore(unit, target)
    BY <1>2 DEF Jump!Resolve
  <2> HIDE DEF it
  <2>2. /\ found = {} => it = None
        /\ found # {} => it \in found /\ \A j \in found \ {it} : Jump!Later(unit, it, j)
    BY <2>1, AtOrBeforeFacts
  <2>3. it = None => \A id \in Jump!Timed : Jump!Time(unit, id) > target
    BY <1>0, <2>2
  <2>4. ASSUME NEW id \in Jump!Timed, Jump!Time(unit, id) = target
        PROVE  it \in Jump!Ids /\ Jump!Time(unit, it) = target
    BY <1>0, <2>2, <2>4 DEF Jump!Later
  <2> QED BY <1>2, <2>3, <2>4 DEF Good, it
<1>3. CASE selection = "at_or_after"
  <2> DEFINE found == {id \in Jump!Timed : Jump!Time(unit, id) >= target}
  <2>1. it = Jump!AtOrAfter(unit, target)
    BY <1>3 DEF Jump!Resolve
  <2> HIDE DEF it
  <2>2. /\ found = {} => it = None
        /\ found # {} => it \in found /\ \A j \in found \ {it} : Jump!Later(unit, j, it)
    BY <2>1, AtOrAfterFacts
  <2>3. it = None => \A id \in Jump!Timed : Jump!Time(unit, id) < target
    BY <1>0, <2>2
  <2>4. ASSUME NEW id \in Jump!Timed, Jump!Time(unit, id) = target
        PROVE  it \in Jump!Ids /\ Jump!Time(unit, it) = target
    BY <1>0, <2>2, <2>4 DEF Jump!Later
  <2> QED BY <1>3, <2>3, <2>4 DEF Good, it
<1> QED BY <1>1, <1>2, <1>3 DEF Jump!Selections

LEMMA JumpInductive ==
  /\ Jump!Init => JumpInv
  /\ JumpInv /\ [Jump!Next]_(Jump!vars) => JumpInv'
<1>1. Jump!Init => JumpInv
  BY DEF Jump!Init, JumpInv, JumpTyped
<1>2. ASSUME JumpInv, rows' = rows, last' = Jump!NoJump PROVE JumpInv'
  BY <1>2 DEF JumpInv, JumpTyped, Jump!NoJump
<1>3. ASSUME JumpInv, UNCHANGED Jump!vars PROVE JumpInv'
  <2>1. rows' = rows /\ last' = last
    BY <1>3 DEF Jump!vars
  <2> QED BY <1>3, <2>1, ZenonT(40) DEF JumpInv, JumpTyped, Jump!NoJump, Good, Jump!Timed, Jump!Ids,
                                Jump!Time, Jump!Distance
<1>4. ASSUME JumpInv, NEW unit \in Units, NEW target \in Jump!Values, NEW selection \in Jump!Selections,
             Jump!JumpToTimestamp(unit, target, selection)
      PROVE  JumpInv'
  <2>1. PICK it : it = Jump!Resolve(unit, target, selection)
    OBVIOUS
  <2>2. /\ rows' = rows
        /\ last' = [unit |-> unit, target |-> target, selection |-> selection, answer |-> it]
    BY <1>4, <2>1 DEF Jump!JumpToTimestamp
  <2>3. target \in Int
    BY JumpAssumption DEF Jump!Values
  <2>4. Good(unit, target, selection, it)
    BY <1>4, <2>1, <2>3, ResolveIsGood DEF JumpInv
  <2>5. Good(last.unit, last.target, last.selection, last.answer)'
    <3>1. last'.unit = unit /\ last'.target = target /\ last'.selection = selection /\ last'.answer = it
      BY <2>2
    <3> QED BY <2>2, <2>4, <3>1, ZenonT(40) DEF Good, Jump!Timed, Jump!Ids, Jump!Time, Jump!Distance
  <2> QED BY <1>4, <2>2, <2>5 DEF JumpInv, JumpTyped
<1>5. ASSUME JumpInv, Jump!Next PROVE JumpInv'
  BY <1>2, <1>4, <1>5 DEF Jump!Next, Jump!Step, Jump!JumpToFrame, Units
<1> QED BY <1>1, <1>3, <1>5

(***************************************************************************)
(* Whatever the times of the frames, a jump by ticks or microseconds is    *)
(* refused only when nothing lies on the side that was asked for or a      *)
(* distance leaves the range, and "nearest" is nearest among all frames    *)
(* (choose_nearest, nearest_timestamp_us, the ordered queries of the       *)
(* index).                                                                 *)
(***************************************************************************)
THEOREM JumpsAreAlwaysNearest == Jump!Spec => []JumpsAreNearest
<1>1. ASSUME JumpInv PROVE Jump!NearestIsNearest /\ Jump!JumpsAreAnswered
  <2>1. CASE last = Jump!NoJump
    <3>1. last.unit = "none" /\ last.answer = None
      BY <2>1 DEF Jump!NoJump
    <3>2. None \notin Jump!Ids
      BY <1>1, JumpRows DEF JumpInv
    <3> QED BY <3>1, <3>2 DEF Jump!NearestIsNearest, Jump!JumpsAreAnswered
  <2>2. CASE last.selection \in Jump!Selections /\ Good(last.unit, last.target, last.selection, last.answer)
    BY <2>2, Zenon DEF Good, Jump!Selections, Jump!NearestIsNearest, Jump!JumpsAreAnswered
  <2> QED BY <1>1, <2>1, <2>2 DEF JumpInv
<1>2. JumpInv => JumpsAreNearest
  BY <1>1 DEF JumpsAreNearest
<1> QED BY <1>2, JumpInductive, PTL DEF Jump!Spec

-----------------------------------------------------------------------------
(***************************************************************************)
(* The complete index of a timeline describes each frame, and anchors it   *)
(* at the last clean keyframe at or before it.  anchors is the recursive   *)
(* function of IndexOf; since the anchor of a frame can be told without    *)
(* recursion (AnchorAt), such a function exists.                           *)
(***************************************************************************)
CleanAt(t, i) == Present!Clean(t[i])
LastClean(t, i) == {k \in 0 .. i : CleanAt(t, k) /\ \A j \in k + 1 .. i : ~CleanAt(t, j)}
AnchorAt(t, i) ==
  IF LastClean(t, i) = {} THEN StreamStart
  ELSE LET k == CHOOSE k \in LastClean(t, i) : TRUE IN [frame_id |-> k, ts |-> t[k].ts]

AnchorsOf(t) ==
  CHOOSE f : f = [i \in DOMAIN t |->
                    Present!NextAnchor(IF i = 0 THEN StreamStart ELSE f[i - 1], t[i], i)]

LEMMA TimelineShape ==
  ASSUME NEW t, IsTimeline(t)
  PROVE  /\ DOMAIN t \subseteq Nat /\ \A i \in DOMAIN t : 0 .. i \subseteq DOMAIN t
         /\ \A i \in DOMAIN t : t[i] \in Present!Frames
<1>1. Cardinality(DOMAIN t) \in Nat
  BY DEF IsTimeline
<1> QED BY <1>1 DEF IsTimeline, Present!Frames, Present!OptTicks

LEMMA AnchorsExist ==
  ASSUME NEW t, IsTimeline(t)
  PROVE  AnchorsOf(t) = [i \in DOMAIN t |->
           Present!NextAnchor(IF i = 0 THEN StreamStart ELSE AnchorsOf(t)[i - 1], t[i], i)]
<1> DEFINE w == [i \in DOMAIN t |-> AnchorAt(t, i)]
<1>1. ASSUME NEW i \in DOMAIN t
      PROVE  AnchorAt(t, i) = Present!NextAnchor(IF i = 0 THEN StreamStart ELSE AnchorAt(t, i - 1), t[i], i)
  <2>0. i \in Nat
    BY TimelineShape
  <2>1. CASE CleanAt(t, i)
    <3>1. LastClean(t, i) = {i}
      BY <2>0, <2>1 DEF LastClean
    <3> QED BY <2>1, <3>1 DEF AnchorAt, Present!NextAnchor, CleanAt
  <2>2. CASE ~CleanAt(t, i) /\ i = 0
    <3>1. LastClean(t, i) = {}
      BY <2>2 DEF LastClean
    <3> QED BY <2>2, <3>1 DEF AnchorAt, Present!NextAnchor, CleanAt
  <2>3. CASE ~CleanAt(t, i) /\ i # 0
    <3>1. LastClean(t, i) = LastClean(t, i - 1)
      BY <2>0, <2>3 DEF LastClean
    <3> QED BY <2>3, <3>1 DEF AnchorAt, Present!NextAnchor, CleanAt
  <2> QED BY <2>1, <2>2, <2>3
<1>2. \A i \in DOMAIN t : i # 0 => i - 1 \in DOMAIN t
  BY TimelineShape
<1>3. w = [i \in DOMAIN t |-> Present!NextAnchor(IF i = 0 THEN StreamStart ELSE w[i - 1], t[i], i)]
  BY <1>1, <1>2
<1> HIDE DEF w
<1> QED BY <1>3 DEF AnchorsOf

LEMMA AnchorsAreLast ==
  ASSUME NEW t, IsTimeline(t), NEW i \in DOMAIN t
  PROVE  Present!AnchorOf(t, i, AnchorsOf(t)[i])
<1> DEFINE a == AnchorsOf(t)
           Bad == {k \in DOMAIN t : ~Present!AnchorOf(t, k, a[k])}
<1>1. \A k \in DOMAIN t : a[k] = Present!NextAnchor(IF k = 0 THEN StreamStart ELSE a[k - 1], t[k], k)
  BY AnchorsExist
<1> HIDE DEF a
<1> SUFFICES ASSUME Bad # {} PROVE FALSE
  BY DEF a
<1>2. PICK m \in Bad : \A k \in Bad : m <= k
  BY LeastNatural, TimelineShape, Zenon
<1>3. m \in Nat /\ t[m] \in Present!Frames
  BY TimelineShape
<1>4. CASE Present!Clean(t[m])
  <2>1. a[m] = [frame_id |-> m, ts |-> t[m].ts]
    BY <1>1, <1>4 DEF Present!NextAnchor
  <2>2. a[m] \in Present!Anchors /\ a[m].frame_id = m /\ a[m].ts = t[m].ts
    BY <1>3, <2>1 DEF Present!Anchors, Present!Frames
  <2> QED BY <1>3, <1>4, <2>2 DEF Present!AnchorOf
<1>5. CASE ~Present!Clean(t[m]) /\ m = 0
  <2>1. a[m] = StreamStart
    BY <1>1, <1>5, Zenon DEF Present!NextAnchor
  <2>2. \A k \in 0 .. m : ~Present!Clean(t[k])
    BY <1>5
  <2> QED BY <2>1, <2>2 DEF Present!AnchorOf
<1>6. CASE ~Present!Clean(t[m]) /\ m # 0
  <2>1. a[m] = a[m - 1]
    BY <1>1, <1>6, Zenon DEF Present!NextAnchor
  <2>2. m - 1 \in DOMAIN t
    BY <1>3, <1>6, TimelineShape
  <2>3. Present!AnchorOf(t, m - 1, a[m - 1])
    BY <1>2, <1>3, <2>2
  <2> QED BY <1>3, <1>6, <2>1, <2>3 DEF Present!AnchorOf
<1> QED BY <1>4, <1>5, <1>6

\* What the navigation relies on.
LEMMA IndexFacts ==
  ASSUME NEW t, IsTimeline(t), NEW i \in DOMAIN t
  PROVE  /\ DOMAIN Present!IndexOf(t) = DOMAIN t
         /\ Present!MatchesEntry(t[i], Present!IndexOf(t)[i])
         /\ Present!AnchorOf(t, i, Present!IndexOf(t)[i].anchor)
<1>1. Present!IndexOf(t) = [k \in DOMAIN t |-> Present!EntryFromDecoded(t[k], AnchorsOf(t)[k])]
  BY DEF Present!IndexOf, AnchorsOf
<1> QED BY <1>1, AnchorsAreLast DEF Present!EntryFromDecoded, Present!MatchesEntry

-----------------------------------------------------------------------------
(***************************************************************************)
(* Right: the pixels at position p may be handed out, or filed, as frame   *)
(* id.  The inductive invariant says so of everything that is kept.        *)
(***************************************************************************)
Right(id, p) ==
  /\ id \in DOMAIN indexed /\ p \in DOMAIN source
  /\ Present!MatchesEntry(source[p], index[id])
  /\ source = indexed => p = id

NavTyped ==
  /\ IsTimeline(indexed) /\ IsTimeline(source) /\ index = Present!IndexOf(indexed)

NavInv ==
  /\ NavTyped
  /\ cursor # None => Right(cursor.frame_id, cursor.next - 1) /\ cursor.next \in Int
  /\ \A id \in DOMAIN ram : Right(id, ram[id])
  /\ \A id \in DOMAIN proxies : Right(id, proxies[id])
  /\ answer.ok => Right(answer.id, answer.pixels)

LEMMA ForwardIsRight ==
  ASSUME NavTyped, NEW position \in Nat, NEW from \in Nat, NEW target \in DOMAIN indexed,
         from <= target, source = indexed => position = from,
         Present!DecodeForward(position, from, target).ok
  PROVE  Right(target, Present!DecodeForward(position, from, target).position)
<1>1. target \in Nat
  BY TimelineShape DEF NavTyped
<1>2. /\ position + (target - from) \in DOMAIN source /\ Present!Verify(position, from, target)
      /\ Present!DecodeForward(position, from, target) = Present!Reached(position + (target - from))
  BY DEF Present!DecodeForward, Present!Unreconciled, Present!Ids
<1>3. Present!DecodeForward(position, from, target).position = position + (target - from)
  BY <1>2 DEF Present!Reached
<1>4. Present!MatchesEntry(source[position + (target - from)], index[target])
  <2>1. target - from \in 0 .. target - from /\ from + (target - from) = target
    BY <1>1
  <2> QED BY <1>2, <2>1 DEF Present!Verify
<1> QED BY <1>1, <1>2, <1>3, <1>4 DEF Right

\* Of the frames behind the landing that look like the anchor the first is taken.
\* If the source is the one indexed it is the anchor: no other clean keyframe has
\* the anchor's time.
LEMMA SeekIsRight ==
  ASSUME NavTyped, NEW id \in DOMAIN indexed, Present!MaySeek(id), NEW landing \in DOMAIN source,
         Present!DecodeFromSeek(landing, index[id].anchor.frame_id, id).ok
  PROVE  Right(id, Present!DecodeFromSeek(landing, index[id].anchor.frame_id, id).position)
<1> DEFINE anchor == index[id].anchor.frame_id
           seen == {p \in DOMAIN source : p >= landing /\ Present!MatchesEntry(source[p], index[anchor])}
           first == CHOOSE p \in seen : \A q \in seen : p <= q
<1>1. /\ id \in Nat /\ anchor \in 0 .. id /\ anchor \in DOMAIN indexed
      /\ Present!Clean(indexed[anchor])
  <2>1. Present!AnchorOf(indexed, id, index[id].anchor) /\ index[id].anchor # StreamStart
    BY IndexFacts DEF NavTyped, Present!MaySeek
  <2>2. anchor \in 0 .. id /\ Present!Clean(indexed[anchor])
    BY <2>1 DEF Present!AnchorOf
  <2> QED BY <2>2, TimelineShape DEF NavTyped
<1>2. DOMAIN index = DOMAIN indexed /\ \A k \in DOMAIN indexed : Present!MatchesEntry(indexed[k], index[k])
  BY IndexFacts DEF NavTyped
<1>3. /\ Present!DecodeFromSeek(landing, anchor, id) = Present!DecodeForward(first, anchor, id)
      /\ seen # {}
  BY DEF Present!DecodeFromSeek, Present!Unreconciled, Present!Ids
<1>4. first \in seen
  <2>1. \E p \in seen : \A q \in seen : p <= q
    BY <1>3, LeastNatural, TimelineShape, Zenon DEF NavTyped
  <2> QED BY <2>1
<1>5. Present!IncreasingKeyframes(index)
  BY DEF Present!MaySeek, Present!ComputeSeekSafety
<1> HIDE DEF first, anchor
<1>6. /\ first \in DOMAIN source /\ Present!MatchesEntry(source[first], index[anchor])
      /\ first \in Nat /\ anchor \in Nat /\ anchor <= id
  BY <1>1, <1>4, TimelineShape DEF NavTyped
<1> HIDE DEF seen
<1>8. ASSUME source = indexed PROVE first = anchor
  <2>1. /\ Present!Clean(index[anchor]) /\ Present!Clean(index[first])
        /\ index[first].ts = index[anchor].ts /\ first \in DOMAIN index /\ anchor \in DOMAIN index
    BY <1>1, <1>2, <1>6, <1>8 DEF Present!MatchesEntry, Present!Clean
  <2>2. anchor \in Present!CleanKeyframes(index) /\ first \in Present!CleanKeyframes(index)
    BY <2>1 DEF Present!CleanKeyframes
  <2>3. index[anchor].ts \in Int
    <3>1. indexed[anchor] \in Present!Frames /\ indexed[anchor].ts = index[anchor].ts
      BY <1>1, <1>2, TimelineShape DEF NavTyped, Present!MatchesEntry
    <3>2. index[anchor].ts # None
      BY <1>5, <2>2 DEF Present!IncreasingKeyframes
    <3> QED BY <3>1, <3>2 DEF Present!Frames, Present!OptTicks
  <2>4. ~(first < anchor) /\ ~(anchor < first)
    BY <1>5, <2>1, <2>2, <2>3 DEF Present!IncreasingKeyframes
  <2> QED BY <1>6, <2>4
<1>7. Right(id, Present!DecodeForward(first, anchor, id).position)
  BY <1>3, <1>6, <1>8, ForwardIsRight DEF anchor
<1> QED BY <1>3, <1>7 DEF anchor

LEMMA FreshIsRight ==
  ASSUME NavTyped, NEW id \in DOMAIN indexed, NEW outcome \in Present!FreshOutcomes(id), outcome.ok
  PROVE  Right(id, outcome.position)
<1>1. ASSUME Present!DecodeFromStart(id).ok PROVE Right(id, Present!DecodeFromStart(id).position)
  <2>1. id \in Nat
    BY TimelineShape DEF NavTyped
  <2> QED BY <1>1, <2>1, ForwardIsRight DEF Present!DecodeFromStart
<1>2. CASE ~Present!MaySeek(id)
  BY <1>1, <1>2 DEF Present!FreshOutcomes
<1>3. CASE Present!MaySeek(id)
  <2>1. PICK landing \in DOMAIN source :
          outcome = IF Present!DecodeFromSeek(landing, index[id].anchor.frame_id, id).ok
                    THEN Present!DecodeFromSeek(landing, index[id].anchor.frame_id, id)
                    ELSE Present!DecodeFromStart(id)
    BY <1>3 DEF Present!FreshOutcomes, Present!Ids
  <2> QED BY <1>1, <1>3, <2>1, SeekIsRight
<1> QED BY <1>2, <1>3

LEMMA CursorIsRight ==
  ASSUME NavInv, NEW id \in DOMAIN indexed, NEW outcome \in Present!CursorOutcomes(id), outcome.ok
  PROVE  Right(id, outcome.position)
<1> DEFINE warm == Present!DecodeForward(cursor.next, cursor.frame_id + 1, id)
<1>0. NavTyped
  BY DEF NavInv
<1>1. CASE Present!CanContinueTo(id) /\ warm.ok
  <2>1. outcome = warm
    BY <1>1 DEF Present!CursorOutcomes
  <2>2. cursor # None /\ id > cursor.frame_id
    BY <1>1 DEF Present!CanContinueTo
  <2>3. /\ cursor.frame_id \in DOMAIN indexed /\ cursor.next - 1 \in DOMAIN source /\ cursor.next \in Int
        /\ source = indexed => cursor.next - 1 = cursor.frame_id
    BY <2>2 DEF NavInv, Right
  <2>4. id \in Nat /\ cursor.frame_id \in Nat /\ cursor.next - 1 \in Nat
    BY <1>0, <2>3, TimelineShape DEF NavTyped
  <2>5. /\ cursor.next \in Nat /\ cursor.frame_id + 1 \in Nat /\ cursor.frame_id + 1 <= id
        /\ source = indexed => cursor.next = cursor.frame_id + 1
    BY <2>2, <2>3, <2>4
  <2> QED BY <1>0, <1>1, <2>1, <2>5, ForwardIsRight
<1>2. CASE ~(Present!CanContinueTo(id) /\ warm.ok)
  <2>1. outcome \in Present!FreshOutcomes(id)
    BY <1>2 DEF Present!CursorOutcomes
  <2> QED BY <1>0, <2>1, FreshIsRight
<1> QED BY <1>1, <1>2

(***************************************************************************)
(* The steps.                                                              *)
(***************************************************************************)
Fixed == source' = source /\ indexed' = indexed /\ index' = index
CacheRight(c) == \A id \in DOMAIN c : Right(id, c[id])
CursorRight(c) == c # None => Right(c.frame_id, c.next - 1) /\ c.next \in Int
AnswerRight(a) == a.ok => Right(a.id, a.pixels)

LEMMA NavKeeps ==
  ASSUME NavInv, Fixed, CursorRight(cursor'), CacheRight(ram'), CacheRight(proxies'), AnswerRight(answer')
  PROVE  NavInv'
<1>1. NavTyped'
  BY DEF NavInv, NavTyped, Fixed
<1>2. \A id, p : Right(id, p) => Right(id, p)'
  BY DEF Right, Fixed
<1> QED BY <1>1, <1>2 DEF NavInv, CursorRight, CacheRight, AnswerRight

LEMMA NavHolds ==
  ASSUME NavInv
  PROVE  NavTyped /\ CursorRight(cursor) /\ CacheRight(ram) /\ CacheRight(proxies) /\ AnswerRight(answer)
BY DEF NavInv, CursorRight, CacheRight, AnswerRight

LEMMA DeliverRight ==
  ASSUME NEW id, NEW outcome, outcome.ok => Right(id, outcome.position), Present!Deliver(id, outcome)
  PROVE  /\ AnswerRight(answer')
         /\ answer'.ok <=> outcome.ok
         /\ answer'.ok => answer'.pixels = outcome.position
<1>1. CASE outcome.ok
  <2>1. answer' = [id |-> id, ok |-> TRUE, pixels |-> outcome.position, decoded |-> TRUE]
    BY <1>1 DEF Present!Deliver, Present!Answer
  <2> QED BY <1>1, <2>1 DEF AnswerRight
<1>2. CASE ~outcome.ok
  <2>1. answer' = [id |-> id, ok |-> FALSE, pixels |-> 0, decoded |-> FALSE]
    BY <1>2 DEF Present!Deliver, Present!Refuse
  <2> QED BY <1>2, <2>1 DEF AnswerRight
<1> QED BY <1>1, <1>2

LEMMA RefuseRight ==
  ASSUME NEW id, Present!Refuse(id)
  PROVE  AnswerRight(answer') /\ ~answer'.ok
BY DEF Present!Refuse, AnswerRight

LEMMA AnswerIsRight ==
  ASSUME NEW id, NEW p, Right(id, p), Present!Answer(id, p, FALSE)
  PROVE  AnswerRight(answer') /\ Right(id, answer'.pixels)
BY DEF Present!Answer, AnswerRight

LEMMA PutRight ==
  ASSUME NEW c, CacheRight(c), NEW id, NEW p, Right(id, p)
  PROVE  CacheRight(Present!Put(c, id, p))
BY DEF CacheRight, Present!Put

LEMMA RememberRight ==
  ASSUME CacheRight(ram), NEW id, NEW p, Right(id, p), Present!Remember(id, p)
  PROVE  CacheRight(ram')
BY PutRight DEF Present!Remember

LEMMA CachedRight ==
  ASSUME NavInv, NEW id \in DOMAIN indexed, Present!Cached(id)
  PROVE  AnswerRight(answer') /\ CacheRight(ram') /\ (answer'.ok => Right(id, answer'.pixels))
<1>0. NavTyped /\ CacheRight(ram)
  BY NavHolds
<1>1. CASE id \in DOMAIN ram /\ Present!Answer(id, ram[id], FALSE) /\ UNCHANGED ram
  <2>1. Right(id, ram[id])
    BY <1>0, <1>1 DEF CacheRight
  <2>2. AnswerRight(answer') /\ Right(id, answer'.pixels)
    BY <1>1, <2>1, AnswerIsRight, Zenon
  <2> QED BY <1>0, <1>1, <2>2
<1>2. CASE Present!Refuse(id) /\ UNCHANGED ram
  BY <1>0, <1>2, RefuseRight
<1>3. ASSUME NEW outcome \in Present!FreshOutcomes(id), Present!Deliver(id, outcome),
             IF outcome.ok THEN Present!Remember(id, outcome.position) ELSE UNCHANGED ram
      PROVE  AnswerRight(answer') /\ CacheRight(ram') /\ (answer'.ok => Right(id, answer'.pixels))
  <2>1. outcome.ok => Right(id, outcome.position)
    BY <1>0, FreshIsRight
  <2>2. /\ AnswerRight(answer') /\ (answer'.ok <=> outcome.ok)
        /\ answer'.ok => answer'.pixels = outcome.position
    BY <1>3, <2>1, DeliverRight
  <2>3. CacheRight(ram')
    BY <1>0, <1>3, <2>1, RememberRight
  <2> QED BY <2>1, <2>2, <2>3
<1> QED BY <1>1, <1>2, <1>3, Zenon DEF Present!Cached

LEMMA DecodeWithCursorRight ==
  ASSUME NavInv, NEW id \in DOMAIN indexed, Present!DecodeWithCursor(id)
  PROVE  AnswerRight(answer') /\ CursorRight(cursor') /\ (answer'.ok => Right(id, answer'.pixels))
<1>1. CASE Present!Refuse(id) /\ cursor' = None
  BY <1>1, RefuseRight DEF CursorRight
<1>2. ASSUME NEW outcome \in Present!CursorOutcomes(id), Present!Deliver(id, outcome),
             cursor' = IF outcome.ok THEN Present!Standing(id, outcome.position) ELSE None
      PROVE  AnswerRight(answer') /\ CursorRight(cursor') /\ (answer'.ok => Right(id, answer'.pixels))
  <2>1. outcome.ok => Right(id, outcome.position)
    BY CursorIsRight
  <2>2. /\ AnswerRight(answer') /\ (answer'.ok <=> outcome.ok)
        /\ answer'.ok => answer'.pixels = outcome.position
    BY <1>2, <2>1, DeliverRight
  <2>3. CursorRight(cursor')
    <3>1. CASE outcome.ok
      <4>1. cursor'.frame_id = id /\ cursor'.next = outcome.position + 1
        BY <1>2, <3>1 DEF Present!Standing
      <4>2. outcome.position \in Nat
        BY <2>1, <3>1, NavHolds, TimelineShape DEF Right, NavTyped
      <4>3. cursor'.next - 1 = outcome.position /\ cursor'.next \in Int
        BY <4>1, <4>2
      <4> QED BY <2>1, <3>1, <4>1, <4>3 DEF CursorRight
    <3>2. CASE ~outcome.ok
      BY <1>2, <3>2 DEF CursorRight
    <3> QED BY <3>1, <3>2
  <2> QED BY <2>1, <2>2, <2>3
<1> QED BY <1>1, <1>2 DEF Present!DecodeWithCursor

LEMMA NavStep ==
  ASSUME NavInv, Present!Next
  PROVE  NavInv'
<1>0. NavTyped /\ CursorRight(cursor) /\ CacheRight(ram) /\ CacheRight(proxies) /\ AnswerRight(answer)
  BY NavHolds
<1>1. ASSUME NEW id, Present!RefuseUnindexed(id) PROVE NavInv'
  BY <1>0, <1>1, NavKeeps, RefuseRight DEF Present!RefuseUnindexed, Fixed
<1>2. ASSUME NEW id, Present!NavigateToFrame(id) PROVE NavInv'
  <2>1. id \in DOMAIN indexed /\ Fixed /\ cursor' = cursor /\ ram' = ram /\ proxies' = proxies
    BY <1>2 DEF Present!NavigateToFrame, Present!Indexed, Present!Ids, Fixed
  <2>2. AnswerRight(answer')
    <3>1. CASE Present!Refuse(id)
      BY <3>1, RefuseRight
    <3>2. ASSUME NEW outcome \in Present!FreshOutcomes(id), Present!Deliver(id, outcome)
          PROVE  AnswerRight(answer')
      BY <1>0, <2>1, <3>2, FreshIsRight, DeliverRight
    <3> QED BY <1>2, <3>1, <3>2 DEF Present!NavigateToFrame
  <2> QED BY <1>0, <2>1, <2>2, NavKeeps
<1>3. ASSUME NEW id, Present!NavigateToFrameCached(id) PROVE NavInv'
  <2>1. id \in DOMAIN indexed /\ Present!Cached(id) /\ Fixed /\ cursor' = cursor /\ proxies' = proxies
    BY <1>3 DEF Present!NavigateToFrameCached, Present!Indexed, Present!Ids, Fixed
  <2> QED BY <1>0, <2>1, CachedRight, NavKeeps
<1>4. ASSUME NEW id, Present!PresentMicroscopeFrame(id) PROVE NavInv'
  <2>1. id \in DOMAIN indexed /\ Present!NavigateTargetOnly(id) /\ Fixed /\ proxies' = proxies
    BY <1>4 DEF Present!PresentMicroscopeFrame, Present!Indexed, Present!Ids, Fixed
  <2>2. CASE /\ id \in DOMAIN ram /\ Present!Answer(id, ram[id], FALSE)
             /\ cursor' = IF Present!CanContinueTo(id) THEN cursor ELSE None
             /\ UNCHANGED ram
    <3>1. AnswerRight(answer') /\ CursorRight(cursor')
      BY <1>0, <2>2, AnswerIsRight, Zenon DEF CacheRight, CursorRight
    <3> QED BY <1>0, <2>1, <2>2, <3>1, NavKeeps
  <2>3. CASE /\ Present!DecodeWithCursor(id)
             /\ IF answer'.ok THEN Present!Remember(id, answer'.pixels) ELSE UNCHANGED ram
    <3>1. AnswerRight(answer') /\ CursorRight(cursor') /\ (answer'.ok => Right(id, answer'.pixels))
      BY <2>1, <2>3, DecodeWithCursorRight
    <3>2. CacheRight(ram')
      BY <1>0, <2>3, <3>1, RememberRight
    <3> QED BY <1>0, <2>1, <3>1, <3>2, NavKeeps
  <2> QED BY <2>1, <2>2, <2>3, Zenon DEF Present!NavigateTargetOnly
<1>5. ASSUME NEW id, Present!NavigateBoundedPreview(id) PROVE NavInv'
  <2>1. id \in DOMAIN indexed /\ Present!DecodeWithCursor(id) /\ Fixed /\ ram' = ram /\ proxies' = proxies
    BY <1>5 DEF Present!NavigateBoundedPreview, Present!Indexed, Present!Ids, Fixed
  <2> QED BY <1>0, <2>1, DecodeWithCursorRight, NavKeeps
<1>6. ASSUME NEW id, Present!NavigateToFramePreview(id) PROVE NavInv'
  <2>1. Fixed /\ cursor' = cursor
    BY <1>6 DEF Present!NavigateToFramePreview, Fixed
  <2>2. ASSUME answer'.ok => Right(id, answer'.pixels), Present!Encode(id) PROVE CacheRight(proxies')
    BY <1>0, <2>2, PutRight DEF Present!Encode
  <2>3. CASE id \in DOMAIN ram /\ Present!Answer(id, ram[id], FALSE) /\ Present!Encode(id) /\ UNCHANGED ram
    <3>1. AnswerRight(answer') /\ Right(id, answer'.pixels)
      BY <1>0, <2>3, AnswerIsRight, Zenon DEF CacheRight
    <3> QED BY <1>0, <2>1, <2>2, <2>3, <3>1, NavKeeps
  <2>4. CASE id \in DOMAIN proxies /\ Present!Answer(id, proxies[id], FALSE) /\ UNCHANGED <<ram, proxies>>
    <3>1. AnswerRight(answer')
      BY <1>0, <2>4, AnswerIsRight, Zenon DEF CacheRight
    <3> QED BY <1>0, <2>1, <2>4, <3>1, NavKeeps
  <2>5. CASE Present!Indexed(id) /\ Present!Cached(id) /\ Present!Encode(id)
    <3>1. AnswerRight(answer') /\ CacheRight(ram') /\ (answer'.ok => Right(id, answer'.pixels))
      BY <2>5, CachedRight DEF Present!Indexed, Present!Ids
    <3> QED BY <1>0, <2>1, <2>2, <2>5, <3>1, NavKeeps
  <2> QED BY <1>6, <2>3, <2>4, <2>5, Zenon DEF Present!NavigateToFramePreview
<1>7. ASSUME NEW id, Present!EvictRam(id) PROVE NavInv'
  <2>1. /\ Fixed /\ cursor' = cursor /\ proxies' = proxies /\ answer' = answer
        /\ ram' = [i \in DOMAIN ram \ {id} |-> ram[i]]
    BY <1>7 DEF Present!EvictRam, Fixed
  <2>2. CacheRight(ram')
    BY <1>0, <2>1 DEF CacheRight
  <2> QED BY <1>0, <2>1, <2>2, NavKeeps
<1> QED BY <1>1, <1>2, <1>3, <1>4, <1>5, <1>6, <1>7 DEF Present!Next

LEMMA NavInductive ==
  /\ Present!Init => NavInv
  /\ NavInv /\ [Present!Next]_(Present!vars) => NavInv'
<1>1. Present!Init => NavInv
  <2> SUFFICES ASSUME Present!Init PROVE NavInv
    OBVIOUS
  <2>1. IsTimeline(indexed) /\ IsTimeline(source)
    BY TimelineAssumption DEF Present!Init
  <2>2. /\ index = Present!IndexOf(indexed) /\ cursor = None /\ DOMAIN ram = {} /\ DOMAIN proxies = {}
        /\ ~answer.ok
    BY DEF Present!Init, Present!NoFrames
  <2> QED BY <2>1, <2>2 DEF NavInv, NavTyped
<1>2. ASSUME NavInv, UNCHANGED Present!vars PROVE NavInv'
  <2>1. Fixed /\ cursor' = cursor /\ ram' = ram /\ proxies' = proxies /\ answer' = answer
    BY <1>2 DEF Present!vars, Fixed
  <2> QED BY <1>2, <2>1, NavHolds, NavKeeps
<1> QED BY <1>1, <1>2, NavStep

(***************************************************************************)
(* For every timeline, every landing of every seek and every order of      *)
(* calls: while the source is the one that was indexed, each path hands    *)
(* out exactly the frame that was asked for (navigate_to_frame,            *)
(* navigate_target_only, navigate_to_frame_preview, the retained decoder). *)
(***************************************************************************)
THEOREM FrameIsAlwaysExact == Present!Spec => []ExactFrame
<1>1. NavInv => ExactFrame
  BY DEF NavInv, Right, ExactFrame, Present!ExactFrame
<1> QED BY <1>1, NavInductive, PTL DEF Present!Spec

(***************************************************************************)
(* Also of a source that changed behind its index nothing is shown, kept   *)
(* by the cursor, or filed in RAM or on disk that does not look like the   *)
(* indexed frame (require_matching_entry).                                 *)
(***************************************************************************)
THEOREM AnswersAlwaysReconcile == Present!Spec => []AnswersReconcile
<1>1. NavInv => AnswersReconcile
  BY DEF NavInv, Right, AnswersReconcile, Present!Reconciled, Present!CachesReconcile
<1> QED BY <1>1, NavInductive, PTL DEF Present!Spec

-----------------------------------------------------------------------------
(***************************************************************************)
(* Planning an extraction.                                                 *)
(***************************************************************************)
LEMMA DivFacts ==
  ASSUME NEW d \in Nat, NEW s \in Nat \ {0}
  PROVE  /\ d \div s \in Nat /\ d \div s <= d
         /\ (d \div s) * s <= d /\ d < (d \div s + 1) * s
OBVIOUS

LEMMA DivUnique ==
  ASSUME NEW d \in Nat, NEW s \in Nat \ {0}, NEW n \in Nat, n * s <= d, d < (n + 1) * s
  PROVE  d \div s = n
OBVIOUS

LEMMA Multiples ==
  ASSUME NEW x \in Nat, NEW s \in Nat \ {0}
  PROVE  /\ x % s = 0 => x = (x \div s) * s
         /\ \A q \in Nat : x = q * s => x % s = 0
<1>1. x % s = x - (x \div s) * s
  OBVIOUS
<1>2. x % s = 0 => x = (x \div s) * s
  BY <1>1
<1>3. ASSUME NEW q \in Nat, x = q * s PROVE x % s = 0
  BY <1>3
<1> QED BY <1>2, <1>3

\* The rows of an index, with the index as a parameter.
TimedIn(r) == {id \in DOMAIN r : r[id] # None}
InOrder(r) == \A i, j \in TimedIn(r) : i < j => r[i] <= r[j]
Us(t) == Plan!Queries!Microseconds(t)

LEMMA UsKeepsOrder ==
  /\ \A a \in Int : Us(a) \in Int
  /\ \A a, b \in Int : a <= b => Us(a) <= Us(b)
<1> DEFINE N == PlanNumerator
           M == PlanDenominator
<1>1. N \in Nat /\ M \in Nat \ {0}
  BY PlanAssumption
<1> HIDE DEF N, M
<1>2. \A a \in Nat : a * N \in Nat
  BY <1>1
<1>3. \A x, y \in Nat : x <= y => x \div M \in Nat /\ y \div M \in Nat /\ x \div M <= y \div M
  BY <1>1
<1>4. \A a, b \in Nat : a <= b => a * N <= b * N
  BY <1>1
<1>5. \A a, b \in Nat : a <= b => (a * N) \div M \in Nat /\ (b * N) \div M \in Nat /\ (a * N) \div M <= (b * N) \div M
  BY <1>2, <1>3, <1>4
<1>6. \A a \in Int : Us(a) = IF a >= 0 THEN (a * N) \div M ELSE -(((-a) * N) \div M)
  <2>1. \A a \in Int : Us(a) = IF a >= 0 THEN (a * N) \div M ELSE -((-a * N) \div M)
    BY DEF Us, Plan!Queries!Microseconds, N, M
  <2>2. \A a \in Int : -a * N = (-a) * N
    BY <1>1
  <2> QED BY <2>1, <2>2
<1>7. ASSUME NEW a \in Int PROVE Us(a) \in Int
  <2>1. CASE a >= 0
    BY <1>5, <1>6, <2>1
  <2>2. CASE a < 0
    <3>1. -a \in Nat /\ -a <= -a
      BY <2>2
    <3>2. ((-a) * N) \div M \in Nat
      BY <1>5, <3>1
    <3> QED BY <1>6, <2>2, <3>2
  <2> QED BY <2>1, <2>2
<1>8. ASSUME NEW a \in Int, NEW b \in Int, a <= b PROVE Us(a) <= Us(b)
  <2>1. CASE a >= 0
    <3>1. a \in Nat /\ b \in Nat
      BY <1>8, <2>1
    <3> QED BY <1>5, <1>6, <1>8, <2>1, <3>1
  <2>2. CASE a < 0 /\ b >= 0
    <3>1. -a \in Nat /\ b \in Nat
      BY <2>2
    <3>2. ((-a) * N) \div M \in Nat /\ (b * N) \div M \in Nat
      BY <1>5, <3>1
    <3> QED BY <1>6, <2>2, <3>2
  <2>3. CASE b < 0
    <3>1. -a \in Nat /\ -b \in Nat /\ -b <= -a
      BY <1>8, <2>3
    <3>2. /\ ((-a) * N) \div M \in Nat /\ ((-b) * N) \div M \in Nat
          /\ ((-b) * N) \div M <= ((-a) * N) \div M
      BY <1>5, <3>1
    <3>3. Us(a) = -(((-a) * N) \div M) /\ Us(b) = -(((-b) * N) \div M)
      BY <1>6, <1>8, <2>3
    <3> HIDE DEF Us
    <3> QED BY <3>2, <3>3
  <2> QED BY <2>1, <2>2, <2>3
<1> QED BY <1>7, <1>8

\* What is expected of a plan p for the request q over the index r.
Within(r, q, id) == Us(r[id]) \in q.start .. q.end
TimesExact(r, q, p) ==
  q.kind = "times" /\ InOrder(r) =>
    /\ "count" \in DOMAIN p => /\ \A id \in TimedIn(r) : id \in p.first .. p.last <=> Within(r, q, id)
                               /\ {p.first, p.last} \subseteq TimedIn(r)
    /\ p = Plan!Refused("no frames") => ~\E id \in TimedIn(r) : Within(r, q, id)
Span(r, q, p) ==
  /\ DOMAIN p = {"first", "last", "stride", "count"}
  /\ p.first \in Nat /\ p.last \in Nat /\ p.stride \in Nat \ {0}
  /\ p.first <= p.last /\ p.last < Cardinality(DOMAIN r)
  /\ p.count = (p.last - p.first) \div p.stride + 1
  /\ q.every_n > 0 /\ (q.kind \in {"frames", "times"} => q.start <= q.end)

\* How far the iterator is: e was handed out, n is next.
Walk(p, n, e) ==
  /\ e \in Seq(Nat)
  /\ \A k \in 1 .. Len(e) : e[k] = p.first + (k - 1) * p.stride
  /\ n # None => n = p.first + Len(e) * p.stride /\ n <= p.last
  /\ n = None => Len(e) = p.count

IsRequest(q) ==
  /\ q.kind \in Plan!Kinds
  /\ q.start \in Int /\ q.end \in Int /\ q.every_n \in Int

PlanInv ==
  /\ rows \in PlanIndexes /\ IsRequest(request)
  /\ TimesExact(rows, request, plan)
  /\ Plan!IsPlan => Span(rows, request, plan) /\ Walk(plan, next, emitted)
  /\ ~Plan!IsPlan => emitted = <<>>

LEMMA PlanRows ==
  ASSUME NEW r \in PlanIndexes
  PROVE  /\ Cardinality(DOMAIN r) \in Nat /\ Cardinality(DOMAIN r) <= MaxWord
         /\ DOMAIN r = 0 .. Cardinality(DOMAIN r) - 1
         /\ \A id \in TimedIn(r) : /\ id \in Nat /\ id < Cardinality(DOMAIN r)
                                   /\ r[id] \in Int /\ Us(r[id]) \in Int
<1>1. /\ Cardinality(DOMAIN r) \in Nat /\ Cardinality(DOMAIN r) <= MaxWord
      /\ DOMAIN r = 0 .. Cardinality(DOMAIN r) - 1
      /\ \A id \in DOMAIN r : r[id] \in Int \cup {None}
  BY PlanAssumption
<1>2. \A id \in TimedIn(r) : /\ id \in Nat /\ id < Cardinality(DOMAIN r)
                             /\ r[id] \in Int
  BY <1>1 DEF TimedIn
<1> QED BY <1>1, <1>2, UsKeepsOrder, Zenon

\* The two queries of a time range find the ends of the frames inside it.
LEMMA EndsOfRange ==
  ASSUME rows \in PlanIndexes, NEW start \in Int, NEW end \in Int
  PROVE  LET after == {id \in TimedIn(rows) : Us(rows[id]) >= start}
             before == {id \in TimedIn(rows) : Us(rows[id]) <= end}
             first == Plan!Queries!AtOrAfter("us", start)
             last_ == Plan!Queries!AtOrBefore("us", end)
         IN  /\ IF after = {} THEN first = None
                ELSE first \in after /\ \A j \in after \ {first} :
                       \/ Us(rows[j]) > Us(rows[first])
                       \/ Us(rows[j]) = Us(rows[first]) /\ j > first
             /\ IF before = {} THEN last_ = None
                ELSE last_ \in before /\ \A j \in before \ {last_} :
                       \/ Us(rows[last_]) > Us(rows[j])
                       \/ Us(rows[last_]) = Us(rows[j]) /\ last_ > j
<1> DEFINE after == {id \in TimedIn(rows) : Us(rows[id]) >= start}
           before == {id \in TimedIn(rows) : Us(rows[id]) <= end}
           t == [id \in TimedIn(rows) |-> Us(rows[id])]
<1>1. /\ Plan!Queries!AtOrAfter("us", start) =
             IF after = {} THEN None
             ELSE CHOOSE i \in after : \A j \in after \ {i} :
                     \/ Us(rows[j]) > Us(rows[i])
                     \/ Us(rows[j]) = Us(rows[i]) /\ j > i
      /\ Plan!Queries!AtOrBefore("us", end) =
             IF before = {} THEN None
             ELSE CHOOSE i \in before : \A j \in before \ {i} :
                     \/ Us(rows[i]) > Us(rows[j])
                     \/ Us(rows[i]) = Us(rows[j]) /\ i > j
  BY DEF Plan!Queries!AtOrAfter, Plan!Queries!AtOrBefore, Plan!Queries!Timed, Plan!Queries!Ids,
         Plan!Queries!Time, Plan!Queries!Later, TimedIn, Us
<1>2. PICK n \in Nat : \A id \in TimedIn(rows) : id \in Nat /\ id < n /\ Us(rows[id]) \in Int
  BY PlanRows
<1>3. after # {} => \E i \in after : \A j \in after \ {i} :
                       \/ Us(rows[j]) > Us(rows[i])
                       \/ Us(rows[j]) = Us(rows[i]) /\ j > i
  <2>1. after \subseteq Nat /\ \A id \in after : t[id] = Us(rows[id]) /\ t[id] \in Int /\ t[id] >= start
    BY <1>2
  <2> HIDE DEF after, t
  <2>2. after # {} => \E i \in after : \A j \in after \ {i} : t[j] > t[i] \/ (t[j] = t[i] /\ j > i)
    BY <2>1, EarliestExists, Zenon
  <2> QED BY <2>1, <2>2
<1>4. before # {} => \E i \in before : \A j \in before \ {i} :
                       \/ Us(rows[i]) > Us(rows[j])
                       \/ Us(rows[i]) = Us(rows[j]) /\ i > j
  <2>1. /\ before \subseteq Nat /\ \A id \in before : id < n
        /\ \A id \in before : t[id] = Us(rows[id]) /\ t[id] \in Int /\ t[id] <= end
    BY <1>2
  <2> HIDE DEF before, t
  <2>2. before # {} => \E i \in before : \A j \in before \ {i} : t[i] > t[j] \/ (t[i] = t[j] /\ i > j)
    BY <2>1, LatestExists, Zenon
  <2> QED BY <2>1, <2>2
<1> HIDE DEF after, before
<1> QED BY <1>1, <1>3, <1>4 DEF after, before

LEMMA BoundsFacts ==
  ASSUME rows \in PlanIndexes, IsRequest(request), NEW b, b = Plan!TimeBounds(request.start, request.end)
  PROVE  /\ b # None => /\ b[1] \in TimedIn(rows) /\ b[2] \in TimedIn(rows) /\ b[1] <= b[2]
                        /\ InOrder(rows) => \A id \in TimedIn(rows) :
                             id \in b[1] .. b[2] <=> Within(rows, request, id)
         /\ b = None /\ InOrder(rows) => ~\E id \in TimedIn(rows) : Within(rows, request, id)
<1> DEFINE start == request.start
           end == request.end
           first == Plan!Queries!AtOrAfter("us", start)
           final == Plan!Queries!AtOrBefore("us", end)
           us(id) == Us(rows[id])
<1>1. start \in Int /\ end \in Int
  BY DEF IsRequest
<1>2. \A id \in TimedIn(rows) : id \in Nat /\ rows[id] \in Int /\ us(id) \in Int
  BY PlanRows
<1>3. InOrder(rows) => \A i, j \in TimedIn(rows) : i <= j => us(i) <= us(j)
  BY <1>2, UsKeepsOrder DEF InOrder
<1>4. b = IF first = None \/ final = None THEN None
          ELSE IF first > final \/ us(first) > end \/ us(final) < start THEN None
          ELSE <<first, final>>
  BY DEF Plan!TimeBounds, Plan!Queries!Time, Us
<1> DEFINE after == {id \in TimedIn(rows) : us(id) >= start}
           before == {id \in TimedIn(rows) : us(id) <= end}
<1>5. /\ IF after = {} THEN first = None
         ELSE first \in after /\ \A j \in after \ {first} :
                us(j) > us(first) \/ (us(j) = us(first) /\ j > first)
      /\ IF before = {} THEN final = None
         ELSE final \in before /\ \A j \in before \ {final} :
                us(final) > us(j) \/ (us(final) = us(j) /\ final > j)
  <2> HIDE DEF start, end
  <2> QED BY <1>1, EndsOfRange, Zenon
<1> HIDE DEF start, end, first, final, us
<1>6. None \notin Int /\ None \notin Nat \X Nat
  BY JumpAssumption, PlanAssumption
<1>7. /\ first # None => first \in TimedIn(rows) /\ us(first) >= start
      /\ final # None => final \in TimedIn(rows) /\ us(final) <= end
  BY <1>5
<1>8. ASSUME InOrder(rows), NEW id \in TimedIn(rows), us(id) \in start .. end
      PROVE  /\ first \in TimedIn(rows) /\ final \in TimedIn(rows) /\ first <= id /\ id <= final
             /\ us(first) <= us(id) /\ us(id) <= us(final)
  <2>1. id \in after /\ id \in before
    BY <1>1, <1>2, <1>8
  <2>2. /\ first \in TimedIn(rows)
        /\ id # first => us(id) > us(first) \/ (us(id) = us(first) /\ id > first)
    BY <1>5, <2>1
  <2>3. /\ final \in TimedIn(rows)
        /\ id # final => us(final) > us(id) \/ (us(final) = us(id) /\ final > id)
    BY <1>5, <2>1
  <2> HIDE DEF after, before
  <2> QED BY <1>2, <1>3, <1>8, <2>2, <2>3
<1>9. \A id \in TimedIn(rows) : Within(rows, request, id) <=> us(id) \in start .. end
  BY DEF Within, us, start, end
<1> HIDE DEF after, before
<1>10. ASSUME b # None
       PROVE  /\ b = <<first, final>> /\ first \in TimedIn(rows) /\ final \in TimedIn(rows)
              /\ first <= final /\ us(first) \in start .. end /\ us(final) \in start .. end
  BY <1>1, <1>2, <1>4, <1>7, <1>10, SMTT(40)
<1>11. ASSUME b # None, InOrder(rows), NEW id \in TimedIn(rows)
       PROVE  id \in first .. final <=> us(id) \in start .. end
  <2>1. us(id) \in start .. end => id \in first .. final
    BY <1>2, <1>8, <1>10, <1>11
  <2>2. id \in first .. final => us(first) <= us(id) /\ us(id) <= us(final)
    <3>1. first \in TimedIn(rows) /\ final \in TimedIn(rows) /\ first \in Nat /\ final \in Nat /\ id \in Nat
      BY <1>2, <1>10, <1>11
    <3>2. /\ first <= id => us(first) <= us(id)
          /\ id <= final => us(id) <= us(final)
      BY <1>3, <1>11, <3>1, Zenon
    <3> QED BY <3>1, <3>2
  <2> QED BY <1>1, <1>2, <1>10, <1>11, <2>1, <2>2
<1>12. ASSUME b = None, InOrder(rows), NEW id \in TimedIn(rows), us(id) \in start .. end
       PROVE  FALSE
  <2>1. /\ first \in TimedIn(rows) /\ final \in TimedIn(rows) /\ first <= id /\ id <= final
        /\ us(first) <= us(id) /\ us(id) <= us(final)
    BY <1>8, <1>12
  <2>2. /\ first \in Nat /\ final \in Nat /\ id \in Nat
        /\ us(first) \in Int /\ us(final) \in Int /\ us(id) \in Int
    BY <1>2, <1>12, <2>1
  <2>3. ~(first > final) /\ ~(us(first) > end) /\ ~(us(final) < start)
    BY <1>1, <1>12, <2>1, <2>2
  <2>4. first # None /\ final # None
    BY <1>6, <2>2
  <2>5. b = <<first, final>>
    BY <1>4, <2>3, <2>4
  <2> QED BY <1>6, <1>12, <2>2, <2>5
<1> QED BY <1>9, <1>10, <1>11, <1>12

LEMMA PlanCount == Plan!Count = Cardinality(DOMAIN rows)
<1>1. \A S : Plan!Cardinality(S) = Cardinality(S)
  BY Zenon DEF Plan!Cardinality, Cardinality
<1> QED BY <1>1 DEF Plan!Count

LEMMA RefusedFacts ==
  /\ \A why : DOMAIN Plan!Refused(why) = {"refused"} /\ Plan!Refused(why).refused = why
  /\ \A first, final, s : "count" \in DOMAIN Plan!Plan(first, final, s) /\ "refused" \notin DOMAIN Plan!Plan(first, final, s)
BY DEF Plan!Refused, Plan!Plan

LEMMA PlanFacts ==
  ASSUME rows \in PlanIndexes, IsRequest(request), NEW p, p = Plan!PlanExtraction(request)
  PROVE  /\ "count" \in DOMAIN p => Span(rows, request, p)
         /\ TimesExact(rows, request, p)
<1> DEFINE q == request
           n == Plan!Count
<1>1. n \in Nat /\ n <= MaxWord /\ MaxWord \in Nat
  BY PlanRows, PlanCount, PlanAssumption
<1> HIDE DEF n
<1>2. ASSUME NEW first \in Nat, NEW final \in Nat, first <= final, final < n, NEW s \in Nat \ {0}
      PROVE  Plan!Plan(first, final, s) =
               [first |-> first, last |-> final, stride |-> s, count |-> (final - first) \div s + 1]
  <2>1. final - first \in Nat
    BY <1>2
  <2>2. (final - first) \div s \in Nat /\ (final - first) \div s <= final - first
    BY <2>1, DivFacts
  <2>3. (final - first) \div s + 1 <= MaxWord
    BY <1>1, <1>2, <2>2
  <2>4. Plan!SelectedCount(first, final, s) = (final - first) \div s + 1
    <3> DEFINE d == (final - first) \div s
    <3>1. d \in Nat /\ d + 1 <= MaxWord
      BY <2>2, <2>3
    <3>2. Plan!SelectedCount(first, final, s) = Plan!CheckedAdd(d, 1)
      BY DEF Plan!SelectedCount
    <3> HIDE DEF d
    <3>3. Plan!CheckedAdd(d, 1) = d + 1
      BY <1>1, <3>1 DEF Plan!CheckedAdd
    <3> QED BY <3>2, <3>3 DEF d
  <2> QED BY <2>4, Zenon DEF Plan!Plan
<1>3. ASSUME NEW why, p = Plan!Refused(why), why = "no frames" => q.kind # "times"
      PROVE  ("count" \in DOMAIN p => Span(rows, q, p)) /\ TimesExact(rows, q, p)
  BY <1>3, RefusedFacts, Zenon DEF TimesExact
<1>4. ASSUME Plan!Parsed(q), NEW first \in Nat, NEW final \in Nat, first <= final, final < n,
             p = Plan!Plan(first, final, q.every_n),
             q.kind \in {"frames", "times"} => q.start <= q.end
      PROVE  /\ Span(rows, q, p) /\ "count" \in DOMAIN p
             /\ p.first = first /\ p.last = final /\ p # Plan!Refused("no frames")
  <2>1. q.every_n \in Nat \ {0}
    BY <1>4 DEF Plan!Parsed, IsRequest
  <2>2. p = [first |-> first, last |-> final, stride |-> q.every_n,
             count |-> (final - first) \div q.every_n + 1]
    BY <1>2, <1>4, <2>1, Zenon
  <2>3. p # Plan!Refused("no frames")
    BY <1>4, RefusedFacts, ZenonT(40)
  <2>4. /\ DOMAIN p = {"first", "last", "stride", "count"}
        /\ p.first = first /\ p.last = final /\ p.stride = q.every_n
        /\ p.count = (final - first) \div q.every_n + 1
    <3> DEFINE c == (final - first) \div q.every_n + 1
               e == q.every_n
    <3>1. p = [first |-> first, last |-> final, stride |-> e, count |-> c]
      BY <2>2, Zenon
    <3> HIDE DEF c, e
    <3>2. /\ DOMAIN p = {"first", "last", "stride", "count"}
          /\ p.first = first /\ p.last = final /\ p.stride = e /\ p.count = c
      BY <3>1
    <3> QED BY <3>2, Zenon DEF c, e
  <2>5. Span(rows, q, p)
    BY <1>4, <2>1, <2>4, PlanCount DEF Span, n
  <2> QED BY <2>3, <2>4, <2>5, Zenon
<1>5. CASE ~Plan!Parsed(q)
  BY <1>3, <1>5, Zenon DEF Plan!PlanExtraction
<1>6. CASE Plan!Parsed(q) /\ n = 0
  BY <1>3, <1>6, Zenon DEF Plan!PlanExtraction, n
<1>7. CASE Plan!Parsed(q) /\ n # 0 /\ q.kind = "current"
  <2>1. q.start \in Nat
    BY <1>7 DEF Plan!Parsed, IsRequest
  <2>2. p = IF q.start >= n THEN Plan!Refused("out of range") ELSE Plan!Plan(q.start, q.start, q.every_n)
    BY <1>7, Zenon DEF Plan!PlanExtraction, n
  <2>3. CASE q.start >= n
    BY <1>3, <2>2, <2>3, Zenon
  <2>4. CASE ~(q.start >= n)
    <3>1. q.start < n /\ q.start <= q.start
      BY <1>1, <2>1, <2>4
    <3>2. Span(rows, q, p)
      BY <1>4, <1>7, <2>1, <2>2, <2>4, <3>1, Zenon
    <3> QED BY <1>7, <3>2 DEF TimesExact
  <2> QED BY <2>3, <2>4
<1>8. CASE Plan!Parsed(q) /\ n # 0 /\ q.kind = "frames"
  <2>1. q.start \in Nat /\ q.end \in Nat
    BY <1>8 DEF Plan!Parsed, IsRequest
  <2>2. p = IF q.start > q.end THEN Plan!Refused("range")
            ELSE IF q.end >= n THEN Plan!Refused("out of range") ELSE Plan!Plan(q.start, q.end, q.every_n)
    BY <1>8, Zenon DEF Plan!PlanExtraction, n
  <2>3. CASE q.start > q.end
    BY <1>3, <2>2, <2>3, Zenon
  <2>4. CASE ~(q.start > q.end) /\ q.end >= n
    BY <1>3, <2>2, <2>4, Zenon
  <2>5. CASE ~(q.start > q.end) /\ ~(q.end >= n)
    <3>1. q.end < n /\ q.start <= q.end
      BY <1>1, <2>1, <2>5
    <3>2. Span(rows, q, p)
      BY <1>4, <1>8, <2>1, <2>2, <2>5, <3>1, Zenon
    <3> QED BY <1>8, <3>2 DEF TimesExact
  <2> QED BY <2>3, <2>4, <2>5
<1>9. CASE Plan!Parsed(q) /\ n # 0 /\ q.kind = "all"
  <2>1. p = Plan!Plan(0, n - 1, q.every_n)
    BY <1>9 DEF Plan!PlanExtraction, n
  <2>2. n - 1 \in Nat /\ 0 <= n - 1 /\ n - 1 < n
    BY <1>1, <1>9
  <2> QED BY <1>4, <1>9, <2>1, <2>2, Zenon DEF TimesExact
<1>10. CASE Plan!Parsed(q) /\ n # 0 /\ q.kind = "times"
  <2>1. PICK b : b = Plan!TimeBounds(q.start, q.end)
    OBVIOUS
  <2>2. p = IF q.start > q.end THEN Plan!Refused("range")
            ELSE IF b = None THEN Plan!Refused("no frames") ELSE Plan!Plan(b[1], b[2], q.every_n)
    BY <1>10, <2>1, Zenon DEF Plan!PlanExtraction, n
  <2>3. /\ b # None => /\ b[1] \in TimedIn(rows) /\ b[2] \in TimedIn(rows) /\ b[1] <= b[2]
                       /\ InOrder(rows) => \A id \in TimedIn(rows) :
                            id \in b[1] .. b[2] <=> Within(rows, q, id)
        /\ b = None /\ InOrder(rows) => ~\E id \in TimedIn(rows) : Within(rows, q, id)
    BY <2>1, BoundsFacts
  <2>4. CASE q.start > q.end
    BY <1>3, <2>2, <2>4, Zenon
  <2>5. CASE ~(q.start > q.end) /\ b = None
    <3>1. p = Plan!Refused("no frames") /\ "count" \notin DOMAIN p
      BY <2>2, <2>5, RefusedFacts, Zenon
    <3> QED BY <2>3, <2>5, <3>1, Zenon DEF TimesExact
  <2>6. CASE ~(q.start > q.end) /\ b # None
    <3>1. /\ b[1] \in Nat /\ b[2] \in Nat /\ b[1] <= b[2] /\ b[2] < n
      BY <2>3, <2>6, PlanRows, PlanCount DEF n
    <3>2. q.start <= q.end
      BY <2>6 DEF IsRequest
    <3>3. /\ Span(rows, q, p) /\ p.first = b[1] /\ p.last = b[2] /\ p # Plan!Refused("no frames")
      BY <1>4, <1>10, <2>2, <2>6, <3>1, <3>2, Zenon
    <3> QED BY <2>3, <2>6, <3>3, Zenon DEF TimesExact
  <2> QED BY <2>4, <2>5, <2>6
<1> QED BY <1>5, <1>6, <1>7, <1>8, <1>9, <1>10 DEF IsRequest, Plan!Kinds, Plan!Parsed

(***************************************************************************)
(* The iterator of a plan.                                                 *)
(***************************************************************************)
LEMMA WalkStarts ==
  ASSUME NEW r, NEW q, NEW p, Span(r, q, p)
  PROVE  Walk(p, p.first, <<>>)
<1>1. p.first \in Nat /\ p.last \in Nat /\ p.stride \in Nat /\ p.first <= p.last
  BY DEF Span
<1>2. p.first # None
  BY <1>1, JumpAssumption
<1>3. p.first = p.first + 0 * p.stride
  BY <1>1
<1> QED BY <1>1, <1>2, <1>3 DEF Walk

LEMMA WalkGoesOn ==
  ASSUME NEW r \in PlanIndexes, NEW q, NEW p, Span(r, q, p), NEW e, NEW n, n # None, Walk(p, n, e),
         NEW m, m = LET after == Plan!CheckedAdd(n, p.stride)
                    IN  IF after = Overflow THEN None ELSE IF after <= p.last THEN after ELSE None
  PROVE  Walk(p, m, Append(e, n))
<1> DEFINE f == p.first
           l == p.last
           s == p.stride
           k == Len(e)
<1>1. f \in Nat /\ l \in Nat /\ s \in Nat \ {0} /\ f <= l /\ l < MaxWord /\ MaxWord \in Nat
  <2>1. Cardinality(DOMAIN r) \in Nat /\ Cardinality(DOMAIN r) <= MaxWord /\ MaxWord \in Nat
    BY PlanRows, PlanAssumption, Zenon
  <2>2. f \in Nat /\ l \in Nat /\ s \in Nat \ {0} /\ f <= l /\ l < Cardinality(DOMAIN r)
    BY Zenon DEF Span
  <2> HIDE DEF f, l, s
  <2> QED BY <2>1, <2>2
<1>2. e \in Seq(Nat) /\ k \in Nat /\ n = f + k * s /\ n <= l
  BY DEF Walk
<1>3. n \in Nat
  BY <1>1, <1>2
<1>4. m = IF n + s <= l THEN n + s ELSE None
  <2>1. Overflow \notin Int
    BY JumpAssumption
  <2> HIDE DEF f, l, s, k
  <2>2. m = LET after == Plan!CheckedAdd(n, s)
            IN  IF after = Overflow THEN None ELSE IF after <= l THEN after ELSE None
    BY DEF s, l
  <2>3. Plan!CheckedAdd(n, s) = IF n + s > MaxWord THEN Overflow ELSE n + s
    BY DEF Plan!CheckedAdd
  <2>4. CASE n + s > MaxWord
    <3>1. ~(n + s <= l)
      BY <1>1, <1>3, <2>4
    <3> QED BY <2>2, <2>3, <2>4, <3>1
  <2>5. CASE ~(n + s > MaxWord)
    <3>1. n + s \in Int
      BY <1>1, <1>3
    <3> QED BY <2>1, <2>2, <2>3, <2>5, <3>1
  <2> QED BY <2>4, <2>5
<1>5. /\ Append(e, n) \in Seq(Nat) /\ Len(Append(e, n)) = k + 1
      /\ \A i \in 1 .. k + 1 : Append(e, n)[i] = IF i <= k THEN e[i] ELSE n
  BY <1>2, <1>3
<1>6. \A i \in 1 .. k + 1 : Append(e, n)[i] = f + (i - 1) * s
  <2>1. \A i \in 1 .. k : e[i] = f + (i - 1) * s
    BY DEF Walk
  <2> HIDE DEF f, l, s, k
  <2>2. \A i \in 1 .. k + 1 : i <= k \/ i - 1 = k
    BY <1>2
  <2> QED BY <1>2, <1>5, <2>1, <2>2
<1>7. n + s = f + (k + 1) * s
  <2> HIDE DEF f, l, s, k
  <2> QED BY <1>1, <1>2
<1>8. ASSUME m = None PROVE k + 1 = p.count
  <2>1. ~(n + s <= l)
    BY <1>1, <1>3, <1>4, <1>8, JumpAssumption
  <2> HIDE DEF f, l, s, k
  <2>2. l - f \in Nat /\ k * s <= l - f /\ l - f < (k + 1) * s
    BY <1>1, <1>2, <1>3, <1>7, <2>1
  <2>3. (l - f) \div s = k
    BY <1>1, <1>2, <2>2, DivUnique
  <2>4. p.count = (l - f) \div s + 1
    BY DEF Span, l, f, s
  <2> QED BY <2>3, <2>4
<1> HIDE DEF k
<1> QED BY <1>4, <1>5, <1>6, <1>7, <1>8 DEF Walk

\* When the iterator has ended it has produced the plan.
LEMMA WalkIsPlan ==
  ASSUME PlanInv, Plan!IsPlan
  PROVE  Plan!IteratorIsThePlan /\ Plan!PlansAreAccepted
<1> DEFINE f == plan.first
           l == plan.last
           s == plan.stride
           c == plan.count
<1>1. Span(rows, request, plan) /\ Walk(plan, next, emitted) /\ rows \in PlanIndexes
  BY DEF PlanInv
<1>2. /\ f \in Nat /\ l \in Nat /\ s \in Nat \ {0} /\ f <= l /\ l < Plan!Count
      /\ Plan!Count \in Nat /\ Plan!Count <= MaxWord /\ MaxWord \in Nat
      /\ c = (l - f) \div s + 1
  BY <1>1, PlanRows, PlanCount, PlanAssumption DEF Span
<1>3. /\ c - 1 \in Nat /\ c \in Nat /\ c - 1 = (l - f) \div s
      /\ (c - 1) * s <= l - f /\ l - f < c * s /\ c - 1 <= l - f
  <2> HIDE DEF f, l, s, c
  <2>1. l - f \in Nat
    BY <1>2
  <2>2. /\ (l - f) \div s \in Nat /\ (l - f) \div s <= l - f
        /\ ((l - f) \div s) * s <= l - f /\ l - f < ((l - f) \div s + 1) * s
    BY <1>2, <2>1, DivFacts
  <2>3. c - 1 = (l - f) \div s
    BY <1>2, <2>2
  <2> QED BY <1>2, <2>2, <2>3
<1>4. Plan!PlansAreAccepted
  <2>1. c = Plan!CheckedAdd((l - f) \div s, 1)
    <3> DEFINE d == (l - f) \div s
    <3>1. d \in Nat /\ d + 1 <= MaxWord /\ c = d + 1
      <4> HIDE DEF f, l, s, c
      <4> QED BY <1>2, <1>3
    <3> HIDE DEF d, c
    <3> QED BY <3>1, <1>2 DEF Plan!CheckedAdd, d
  <2>2. /\ c > 0 /\ (c - 1) * s <= MaxWord /\ f + (c - 1) * s <= MaxWord /\ f + (c - 1) * s <= l
    <3> HIDE DEF f, l, s, c
    <3> DEFINE x == (c - 1) * s
    <3>1. x \in Nat
      BY <1>2, <1>3
    <3> HIDE DEF x
    <3>2. x <= l - f
      BY <1>3 DEF x
    <3>3. c > 0 /\ x <= MaxWord /\ f + x <= MaxWord /\ f + x <= l
      BY <1>2, <1>3, <3>1, <3>2
    <3> QED BY <3>3 DEF x
  <2>3. Plan!ValidHeader
    BY <1>1, <2>2 DEF Plan!ValidHeader, Span
  <2>4. Plan!LastSelected = f + (c - 1) * s
    BY DEF Plan!LastSelected
  <2> QED BY <1>2, <2>1, <2>2, <2>3, <2>4 DEF Plan!PlansAreAccepted, Plan!ValidPlan
<1>5. ASSUME next = None PROVE Plan!IteratorIsThePlan
  <2>1. /\ emitted \in Seq(Nat) /\ Len(emitted) = c
        /\ \A k \in 1 .. c : emitted[k] = f + (k - 1) * s
    BY <1>1, <1>5 DEF Walk
  <2> HIDE DEF f, l, s, c
  <2>2. \A k \in 1 .. c - 1 : emitted[k] < emitted[k + 1]
    <3> SUFFICES ASSUME NEW k \in 1 .. c - 1 PROVE emitted[k] < emitted[k + 1]
      OBVIOUS
    <3>1. /\ k \in Nat /\ emitted[k] = f + (k - 1) * s /\ emitted[k + 1] = f + k * s
      BY <1>3, <2>1
    <3>2. (k - 1) * s + s = k * s
      BY <1>2, <3>1
    <3> QED BY <1>2, <3>1, <3>2
  <2>3. emitted[c] = Plan!LastSelected
    BY <1>3, <2>1 DEF Plan!LastSelected, f, s, c
  <2>4. \A id : Plan!Contains(id) <=> id \in f .. l /\ (id - f) % s = 0
    BY DEF Plan!Contains, f, l, s
  <2>5. ASSUME NEW k \in 1 .. c PROVE emitted[k] \in 0 .. MaxWord /\ Plan!Contains(emitted[k])
    <3> DEFINE x == (k - 1) * s
    <3>1. k - 1 \in Nat /\ k - 1 <= c - 1 /\ x \in Nat
      BY <1>2, <1>3
    <3>2. x <= (c - 1) * s
      BY <1>2, <1>3, <3>1
    <3>3. x % s = 0
      BY <1>2, <3>1, Multiples
    <3> HIDE DEF x
    <3>4. emitted[k] = f + x
      BY <2>1 DEF x
    <3>5. x <= l - f
      BY <1>2, <1>3, <3>1, <3>2
    <3>6. f + x \in f .. l /\ f + x \in 0 .. MaxWord /\ (f + x) - f = x
      BY <1>2, <3>1, <3>5
    <3> QED BY <2>4, <3>3, <3>4, <3>6
  <2>6. ASSUME NEW id \in 0 .. MaxWord, Plan!Contains(id) PROVE \E k \in 1 .. c : emitted[k] = id
    <3> DEFINE x == id - f
               d == x \div s
    <3>1. x \in Nat /\ x <= l - f /\ x % s = 0
      BY <1>2, <2>4, <2>6
    <3>2. x = d * s /\ d \in Nat
      BY <1>2, <3>1, Multiples, DivFacts
    <3>3. d <= c - 1
      <4> HIDE DEF x, d
      <4>1. d * s < c * s
        BY <1>2, <1>3, <3>1, <3>2
      <4> QED BY <1>2, <1>3, <3>2, <4>1
    <3>4. d + 1 \in 1 .. c /\ emitted[d + 1] = f + d * s
      <4> HIDE DEF x, d
      <4>1. d + 1 \in 1 .. c /\ (d + 1) - 1 = d
        BY <1>3, <3>2, <3>3
      <4> QED BY <2>1, <4>1
    <3>5. f + d * s = id
      <4> HIDE DEF d
      <4> QED BY <1>2, <3>2
    <3> HIDE DEF x, d
    <3> QED BY <3>4, <3>5
  <2>7. DOMAIN emitted = 1 .. c
    BY <2>1
  <2>8. {emitted[k] : k \in DOMAIN emitted} = {id \in 0 .. MaxWord : Plan!Contains(id)}
    BY <2>5, <2>6, <2>7, Zenon
  <2> QED BY <2>1, <2>2, <2>3, <2>8 DEF Plan!IteratorIsThePlan, c
<1> QED BY <1>4, <1>5 DEF Plan!IteratorIsThePlan

LEMMA PlanInductive ==
  /\ Plan!Init => PlanInv
  /\ PlanInv /\ [Plan!Next]_(Plan!vars) => PlanInv'
<1>1. ASSUME Plan!Init PROVE PlanInv
  <2>1. IsRequest(request)
    BY <1>1, PlanAssumption DEF Plan!Init, IsRequest
  <2>2. ~Plan!IsPlan /\ plan # Plan!Refused("no frames")
    <3>1. plan = Plan!Refused("none")
      BY <1>1 DEF Plan!Init
    <3>2. "count" \notin {"refused"} /\ "none" # "no frames"
      OBVIOUS
    <3>3. DOMAIN plan = {"refused"} /\ plan.refused = "none" /\ Plan!Refused("no frames").refused = "no frames"
      BY <3>1, RefusedFacts, Zenon
    <3> QED BY <3>2, <3>3, Zenon DEF Plan!IsPlan
  <2>3. TimesExact(rows, request, plan)
    BY <2>2, Zenon DEF TimesExact, Plan!IsPlan
  <2> QED BY <1>1, <2>1, <2>2, <2>3, Zenon DEF PlanInv, Plan!Init
<1>2. ASSUME PlanInv, UNCHANGED <<rows, request, plan>>, UNCHANGED <<next, emitted>> PROVE PlanInv'
  BY <1>2, Zenon DEF PlanInv, Plan!IsPlan
<1>3. ASSUME PlanInv, Plan!Resolve PROVE PlanInv'
  <2>1. PICK p : p = Plan!PlanExtraction(request)
    OBVIOUS
  <2>2. /\ plan' = p /\ rows' = rows /\ request' = request /\ emitted' = emitted
        /\ next' = IF "count" \in DOMAIN p THEN p.first ELSE None
        /\ plan = Plan!Refused("none")
    BY <1>3, <2>1 DEF Plan!Resolve
  <2>3. emitted = <<>>
    <3>1. "count" \notin {"refused"}
      OBVIOUS
    <3>2. ~Plan!IsPlan
      BY <2>2, <3>1, RefusedFacts, Zenon DEF Plan!IsPlan
    <3> QED BY <1>3, <3>2 DEF PlanInv
  <2>4. /\ "count" \in DOMAIN p => Span(rows, request, p)
        /\ TimesExact(rows, request, p)
    BY <1>3, <2>1, PlanFacts DEF PlanInv
  <2>5. "count" \in DOMAIN p => Walk(p, p.first, <<>>)
    BY <2>4, WalkStarts
  <2> QED BY <1>3, <2>2, <2>3, <2>4, <2>5, Zenon DEF PlanInv, Plan!IsPlan
<1>4. ASSUME PlanInv, Plan!NextId PROVE PlanInv'
  <2>1. /\ Plan!IsPlan /\ next # None /\ emitted' = Append(emitted, next)
        /\ plan' = plan /\ rows' = rows /\ request' = request
        /\ next' = LET after == Plan!CheckedAdd(next, plan.stride)
                   IN  IF after = Overflow THEN None ELSE IF after <= plan.last THEN after ELSE None
    BY <1>4 DEF Plan!NextId
  <2>2. Span(rows, request, plan) /\ Walk(plan, next, emitted) /\ rows \in PlanIndexes
    BY <1>4, <2>1 DEF PlanInv
  <2>3. Walk(plan, next', Append(emitted, next))
    BY <2>1, <2>2, WalkGoesOn
  <2> QED BY <1>4, <2>1, <2>2, <2>3, Zenon DEF PlanInv, Plan!IsPlan
<1>5. ASSUME PlanInv, [Plan!Next]_(Plan!vars) PROVE PlanInv'
  BY <1>2, <1>3, <1>4, <1>5 DEF Plan!Next, Plan!vars
<1> QED BY <1>1, <1>5

(***************************************************************************)
(* Whatever range of frames or times is asked for, at whatever stride, and *)
(* up to the ends of the word range: the batch decoder and the manifest    *)
(* accept the plan, the iterator hands out exactly the frames the plan     *)
(* contains, in order and as many as it says, and over timestamps in order *)
(* a time range spans exactly the frames inside it (plan_extraction,       *)
(* PlannedFrameIds::next, validate_plan).                                  *)
(***************************************************************************)
THEOREM PlansAreAlwaysExact == Plan!Spec => []PlansAreExact
<1>1. PlanInv => PlansAreExact
  <2> SUFFICES ASSUME PlanInv
               PROVE  Plan!IteratorIsThePlan /\ Plan!PlansAreAccepted /\ Plan!TimeRangeIsExact
    BY DEF PlansAreExact
  <2>1. Plan!TimeRangeIsExact
    <3>1. TimesExact(rows, request, plan)
      BY DEF PlanInv
    <3>2. /\ Plan!Timed = TimedIn(rows) /\ (Plan!TimesInOrder <=> InOrder(rows))
          /\ \A id : Plan!InRange(id) <=> Within(rows, request, id)
      BY DEF Plan!Timed, TimedIn, Plan!TimesInOrder, InOrder, Plan!InRange, Within,
             Plan!Queries!Time, Us
    <3> QED BY <3>1, <3>2, Zenon DEF TimesExact, Plan!TimeRangeIsExact, Plan!IsPlan
  <2>2. Plan!IteratorIsThePlan /\ Plan!PlansAreAccepted
    <3>1. CASE Plan!IsPlan
      BY <3>1, WalkIsPlan
    <3>2. CASE ~Plan!IsPlan
      BY <3>2 DEF Plan!IteratorIsThePlan, Plan!PlansAreAccepted
    <3> QED BY <3>1, <3>2
  <2> QED BY <2>1, <2>2
<1> QED BY <1>1, PlanInductive, PTL DEF Plan!Spec
====
