--------------------------- MODULE ExtractionPlan ---------------------------
(***************************************************************************)
(* From a request that crosses the native boundary to the frames it        *)
(* selects: parse_request (framescope-ffi batch_export.rs),                *)
(* plan_extraction and the iterator of a plan (framescope-extraction), the *)
(* checks the batch decoder and the manifest make of a plan again.  Frame  *)
(* ids, counts and strides are words of limited width.                     *)
(***************************************************************************)
EXTENDS Integers, Sequences, FiniteSets

CONSTANTS
  Indexes,                 \* functions from 0..n-1 to ticks or None
  MaxValue,                \* i64::MAX
  MaxWord,                 \* u64::MAX
  Numerator, Denominator,  \* microseconds per tick
  Arguments,               \* the values start, end and every_n may have
  None, Overflow

VARIABLES
  rows,     \* the complete index: timestamps by frame id
  request,  \* the last request [kind, start, end, every_n]
  plan,     \* [first, last, stride, count], or why there is none
  next,     \* the iterator: the next frame id, or None
  emitted   \* the ids it has produced

vars == <<rows, request, plan, next, emitted>>

Queries == INSTANCE MicroscopeNavigation WITH current <- 0, last <- 0

Count == Cardinality(DOMAIN rows)
Kinds == {"current", "frames", "times", "all", "unknown"}
Refused(why) == [refused |-> why]
IsPlan == "count" \in DOMAIN plan

CheckedAdd(a, b) == IF a + b > MaxWord THEN Overflow ELSE a + b

(***************************************************************************)
(* Planning.                                                               *)
(***************************************************************************)

\* parse_request: what the signed arguments of the boundary may not be
Parsed(r) ==
  /\ r.every_n > 0 /\ r.kind # "unknown"
  /\ r.kind \in {"current", "frames"} => r.start >= 0
  /\ r.kind = "frames" => r.end >= 0

\* mutant: one less is counted than selected
SelectedCountShort(first, last, stride) == (last - first) \div stride

SelectedCount(first, last, stride) == CheckedAdd((last - first) \div stride, 1)

Plan(first, last, stride) ==
  [first |-> first, last |-> last, stride |-> stride, count |-> SelectedCount(first, last, stride)]

\* mutant: the nearest frames take the place of the ones inside the range
TimeBoundsNearest(start, end) ==
  LET first == Queries!Nearest("us", start)
      last == Queries!Nearest("us", end)
  IN  IF {first, last} \cap {None, Overflow} # {} THEN None
      ELSE IF first > last THEN None ELSE <<first, last>>

\* the first frame at or after the start and the last at or before the end
TimeBounds(start, end) ==
  LET first == Queries!AtOrAfter("us", start)
      last == Queries!AtOrBefore("us", end)
  IN  IF first = None \/ last = None THEN None
      ELSE IF \/ first > last
              \/ Queries!Time("us", first) > end
              \/ Queries!Time("us", last) < start THEN None
      ELSE <<first, last>>

\* mutant: the end of a frame range is not compared with the index
PlanUnbounded(r) ==
  IF ~Parsed(r) THEN Refused("invalid_request")
  ELSE IF Count = 0 THEN Refused("empty")
  ELSE CASE r.kind = "current" -> Plan(r.start, r.start, r.every_n)
         [] r.kind = "frames" ->
              IF r.start > r.end THEN Refused("range") ELSE Plan(r.start, r.end, r.every_n)
         [] r.kind = "times" ->
              IF r.start > r.end THEN Refused("range")
              ELSE LET bounds == TimeBounds(r.start, r.end)
                   IN  IF bounds = None THEN Refused("no frames") ELSE Plan(bounds[1], bounds[2], r.every_n)
         [] r.kind = "all" -> Plan(0, Count - 1, r.every_n)

PlanExtraction(r) ==
  IF ~Parsed(r) THEN Refused("invalid_request")
  ELSE IF Count = 0 THEN Refused("empty")
  ELSE CASE r.kind = "current" ->
              IF r.start >= Count THEN Refused("out of range") ELSE Plan(r.start, r.start, r.every_n)
         [] r.kind = "frames" ->
              IF r.start > r.end THEN Refused("range")
              ELSE IF r.end >= Count THEN Refused("out of range") ELSE Plan(r.start, r.end, r.every_n)
         [] r.kind = "times" ->
              IF r.start > r.end THEN Refused("range")
              ELSE LET bounds == TimeBounds(r.start, r.end)
                   IN  IF bounds = None THEN Refused("no frames") ELSE Plan(bounds[1], bounds[2], r.every_n)
         [] r.kind = "all" -> Plan(0, Count - 1, r.every_n)

(***************************************************************************)
(* What is asked of a plan later.                                          *)
(***************************************************************************)

Contains(id) == id \in plan.first .. plan.last /\ (id - plan.first) % plan.stride = 0

LastSelected == plan.first + (plan.count - 1) * plan.stride

\* validate_plan of the batch decoder
ValidPlan ==
  /\ plan.count > 0 /\ plan.first <= plan.last /\ plan.last < Count
  /\ plan.count = CheckedAdd((plan.last - plan.first) \div plan.stride, 1)
  /\ (plan.count - 1) * plan.stride <= MaxWord
  /\ LastSelected <= MaxWord /\ LastSelected <= plan.last

\* ManifestHeader::new over manifest_selection
ValidHeader ==
  /\ request.kind \in {"frames", "times"} => request.start <= request.end
  /\ request.every_n > 0 /\ plan.count > 0

(***************************************************************************)
(* Steps.                                                                  *)
(***************************************************************************)

Init ==
  /\ rows \in Indexes
  /\ \E kind \in Kinds, start, end, every_n \in Arguments :
       request = [kind |-> kind, start |-> start, end |-> end, every_n |-> every_n]
  /\ plan = Refused("none") /\ next = None /\ emitted = <<>>

Resolve ==
  /\ plan = Refused("none")
  /\ plan' = PlanExtraction(request)
  /\ next' = IF "count" \in DOMAIN plan' THEN plan'.first ELSE None
  /\ UNCHANGED <<rows, request, emitted>>

\* PlannedFrameIds::next
NextId ==
  /\ IsPlan /\ next # None
  /\ emitted' = Append(emitted, next)
  /\ next' = LET after == CheckedAdd(next, plan.stride)
             IN  IF after = Overflow THEN None ELSE IF after <= plan.last THEN after ELSE None
  /\ UNCHANGED <<rows, request, plan>>

Next == Resolve \/ NextId

Spec == Init /\ [][Next]_vars

(***************************************************************************)
(* Properties.                                                             *)
(***************************************************************************)

\* The three views of a plan agree: the iterator produces, in order, exactly
\* the ids that contains accepts, as many as selected_count says, and ends with
\* the id the batch decoder computes as the last one.
IteratorIsThePlan ==
  IsPlan /\ next = None =>
    /\ Len(emitted) = plan.count
    /\ \A k \in 1 .. Len(emitted) - 1 : emitted[k] < emitted[k + 1]
    /\ {emitted[k] : k \in DOMAIN emitted} = {id \in 0 .. MaxWord : Contains(id)}
    /\ emitted[Len(emitted)] = LastSelected

\* Nothing the planner accepts is refused later by the batch decoder or the
\* manifest, at the ends of the word range included (validate_plan).
PlansAreAccepted == IsPlan => ValidPlan /\ ValidHeader

Timed == {id \in DOMAIN rows : rows[id] # None}
TimesInOrder == \A i, j \in Timed : i < j => rows[i] <= rows[j]
InRange(id) == Queries!Time("us", id) \in request.start .. request.end

\* A time range over an index whose timestamps are in order spans exactly the
\* frames whose time is in it, both ends included, and is refused only when
\* there is none.
TimeRangeIsExact ==
  request.kind = "times" /\ TimesInOrder =>
    /\ IsPlan => /\ \A id \in Timed : id \in plan.first .. plan.last <=> InRange(id)
                 /\ {plan.first, plan.last} \subseteq Timed
    /\ plan = Refused("no frames") => ~\E id \in Timed : InRange(id)

\* Read from the message of NoFramesInTimestampRange: a time range is refused
\* that way only when no indexed frame has a timestamp inside it.
RefusalIsTrue == plan = Refused("no frames") => ~\E id \in Timed : InRange(id)
=============================================================================
