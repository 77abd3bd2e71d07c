------------------------ MODULE MicroscopeNavigation ------------------------
(***************************************************************************)
(* Steps and jumps over a complete index: framescope-video microscope.rs   *)
(* and the timestamp resolution of navigation.rs, over the ordered queries *)
(* of framescope-cache index/store.rs.  An index is abstracted to the      *)
(* presentation timestamp of each frame, in ticks, or None.  Both a jump   *)
(* by ticks and a jump by microseconds work in integers of limited width.  *)
(***************************************************************************)
EXTENDS Integers, FiniteSets

CONSTANTS
    Indexes,            \* complete indexes: functions from 0..n-1 to ticks or None
    MaxValue,           \* i64::MAX
    Numerator, Denominator, \* microseconds per tick
    None, Overflow

VARIABLES
    rows,     \* the index
    current,  \* the frame the microscope shows
    last      \* the last jump [unit, target, selection, answer]

vars == <<rows, current, last>>

Values == -MaxValue - 1 .. MaxValue
Fits(value) == value \in Values
Selections == {"at_or_before", "at_or_after", "nearest"}
Ids == DOMAIN rows
Count == Cardinality(Ids)

\* scale_ticks_to_microseconds truncates toward zero
Microseconds(ticks) ==
    IF ticks >= 0 THEN (ticks * Numerator) \div Denominator
    ELSE -((-ticks * Numerator) \div Denominator)

Time(unit, id) == IF unit = "ticks" THEN rows[id] ELSE Microseconds(rows[id])
Timed == {id \in Ids : rows[id] # None}

(***************************************************************************)
(* Queries: ORDER BY time, frame_index LIMIT 1, both descending or both    *)
(* ascending.                                                              *)
(***************************************************************************)

Later(unit, i, j) == \/ Time(unit, i) > Time(unit, j)
                     \/ Time(unit, i) = Time(unit, j) /\ i > j

\* mutant: a frame exactly at the time asked for is not found
StrictlyBefore(unit, target) ==
    LET found == {id \in Timed : Time(unit, id) < target} IN
    IF found = {} THEN None
    ELSE CHOOSE i \in found : \A j \in found \ {i} : Later(unit, i, j)

AtOrBefore(unit, target) ==
    LET found == {id \in Timed : Time(unit, id) <= target} IN
    IF found = {} THEN None
    ELSE CHOOSE i \in found : \A j \in found \ {i} : Later(unit, i, j)

AtOrAfter(unit, target) ==
    LET found == {id \in Timed : Time(unit, id) >= target} IN
    IF found = {} THEN None
    ELSE CHOOSE i \in found : \A j \in found \ {i} : Later(unit, j, i)

\* mutant: an exact hit is not told apart from a tie
NearestForgetsExact(unit, target) ==
    LET before == AtOrBefore(unit, target)
        after == AtOrAfter(unit, target)
    IN  IF before = None THEN after
        ELSE IF after = None THEN before
        ELSE IF target - Time(unit, before) <= Time(unit, after) - target THEN before
        ELSE after

\* choose_nearest: a tie goes to the earlier frame,
\* an exact hit to the first frame that has it; the distances are checked.
Nearest(unit, target) ==
    LET before == AtOrBefore(unit, target)
        after == AtOrAfter(unit, target)
    IN  IF before = None THEN after
        ELSE IF after = None THEN before
        ELSE LET back == target - Time(unit, before)
                 ahead == Time(unit, after) - target
             IN  IF ~Fits(back) \/ ~Fits(ahead) THEN Overflow
                 ELSE IF ahead = 0 THEN after
                 ELSE IF back <= ahead THEN before
                 ELSE after

\* nearest_timestamp_us repeats the choice for the normalised column
NearestUs(target) == Nearest("us", target)

Resolve(unit, target, selection) ==
    CASE selection = "at_or_before" -> AtOrBefore(unit, target)
      [] selection = "at_or_after" -> AtOrAfter(unit, target)
      [] selection = "nearest" -> IF unit = "us" THEN NearestUs(target) ELSE Nearest(unit, target)

(***************************************************************************)
(* The microscope.                                                         *)
(***************************************************************************)

NoJump == [unit |-> "none", target |-> 0, selection |-> "nearest", answer |-> None]

Init == rows \in Indexes /\ current = 0 /\ last = NoJump

\* microscope_step: the ends of the index refuse.
Step(delta) ==
    /\ current' = IF current + delta \in Ids THEN current + delta ELSE current
    /\ last' = NoJump /\ UNCHANGED rows

JumpToFrame(id) ==
    /\ current' = IF id < Count THEN id ELSE current
    /\ last' = NoJump /\ UNCHANGED rows

\* A timestamp that resolves to no frame, or overflows, leaves the frame.
JumpToTimestamp(unit, target, selection) ==
    LET answer == Resolve(unit, target, selection) IN
    /\ last' = [unit |-> unit, target |-> target, selection |-> selection, answer |-> answer]
    /\ current' = IF answer \in Ids THEN answer ELSE current
    /\ UNCHANGED rows

Next ==
    \/ \E delta \in {-1, 1} : Step(delta)
    \/ \E id \in 0 .. Count : JumpToFrame(id)
    \/ \E unit \in {"ticks", "us"}, target \in Values, selection \in Selections :
          JumpToTimestamp(unit, target, selection)

Spec == Init /\ [][Next]_vars

(***************************************************************************)
(* Properties.                                                             *)
(***************************************************************************)

Distance(unit, id, target) ==
    IF Time(unit, id) >= target THEN Time(unit, id) - target ELSE target - Time(unit, id)

\* "Nearest" is nearest among all frames of the index, not only among the two
\* that were fetched; of two that are equally near the earlier time wins, and
\* of several with exactly the time asked for the first.
NearestIsNearest ==
    last.selection = "nearest" /\ last.answer \in Ids =>
        \A id \in Timed :
            /\ Distance(last.unit, last.answer, last.target)
                 <= Distance(last.unit, id, last.target)
            /\ Distance(last.unit, id, last.target)
                 = Distance(last.unit, last.answer, last.target) =>
                   \/ Time(last.unit, id) > Time(last.unit, last.answer)
                   \/ Time(last.unit, id) = Time(last.unit, last.answer) /\
                        (Time(last.unit, id) = last.target => id >= last.answer)

\* A jump is refused only when there is nothing to find on the side asked for,
\* or a distance leaves the 64-bit range; in particular the time a frame is
\* displayed with always finds a frame with that time.
JumpsAreAnswered ==
    last.unit # "none" =>
        /\ last.answer = None =>
              \A id \in Timed : CASE last.selection = "at_or_before" -> Time(last.unit, id) > last.target
                                  [] last.selection = "at_or_after" -> Time(last.unit, id) < last.target
                                  [] last.selection = "nearest" -> FALSE
        /\ (\E id \in Timed : Time(last.unit, id) = last.target) =>
              last.answer \in Ids /\ Time(last.unit, last.answer) = last.target
=============================================================================
