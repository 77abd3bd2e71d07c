---- MODULE TimelineQueries ----
(***************************************************************************)
(* What is asked of a complete index: presenting a frame, jumping to a     *)
(* time and planning an extraction.                                        *)
(***************************************************************************)
EXTENDS SuiteState, FiniteSets

CONSTANTS
    Timelines, Drifts, MaxForward, Identities, ReuseSafe, MaxTicks, StreamStart,
                                                                        \* Navigation
    JumpIndexes, JumpNumerator, JumpDenominator,                        \* MicroscopeNavigation
    PlanIndexes, Arguments, MaxWord, PlanNumerator, PlanDenominator,    \* ExtractionPlan
    MaxValue, Overflow                                                  \* both

\* An index numbers its rows from 0; a row has a time or None, which is no time.
ASSUME JumpAssumption ==
    /\ MaxValue \in Nat /\ JumpNumerator \in Nat /\ JumpDenominator \in Nat \ {0}
    /\ None \notin Int /\ Overflow \notin Int /\ Overflow # None
    /\ \A r \in JumpIndexes :
          /\ Cardinality(DOMAIN r) \in Nat /\ DOMAIN r = 0 .. Cardinality(DOMAIN r) - 1
          /\ \A id \in DOMAIN r : r[id] \in Int \cup {None}

\* A timeline numbers its frames from 0; StreamStart is an anchor of its own.
IsTimeline(t) ==
    /\ Cardinality(DOMAIN t) \in Nat /\ DOMAIN t = 0 .. Cardinality(DOMAIN t) - 1
    /\ \A i \in DOMAIN t :
          t[i] \in [ts : Int \cup {None}, duration : Int \cup {None}, keyframe : BOOLEAN,
                   corrupt : BOOLEAN]

ASSUME TimelineAssumption ==
    /\ StreamStart \notin [frame_id : Nat, ts : Int \cup {None}]
    /\ \A t \in Timelines : IsTimeline(t)
    /\ \A pair \in Drifts : IsTimeline(pair[1]) /\ IsTimeline(pair[2])

\* An index has no more rows than a word can number.
ASSUME PlanAssumption ==
    /\ MaxWord \in Nat /\ PlanNumerator \in Nat /\ PlanDenominator \in Nat \ {0}
    /\ Arguments \subseteq Int /\ None \notin Nat \X Nat
    /\ \A r \in PlanIndexes :
          /\ Cardinality(DOMAIN r) \in 0 .. MaxWord /\ DOMAIN r = 0 .. Cardinality(DOMAIN r) - 1
          /\ \A id \in DOMAIN r : r[id] \in Int \cup {None}

VARIABLES
    source, indexed, index, reusable, cursor, ram, proxies, answer,            \* Navigation
    rows,                                                               \* of the other two
    current, last,                                                      \* MicroscopeNavigation
    request, plan, next, emitted                                        \* ExtractionPlan

Present == INSTANCE Navigation
Jump == INSTANCE MicroscopeNavigation WITH
    Indexes <- JumpIndexes, Numerator <- JumpNumerator, Denominator <- JumpDenominator
Plan == INSTANCE ExtractionPlan WITH
    Indexes <- PlanIndexes, Numerator <- PlanNumerator, Denominator <- PlanDenominator

\* While the source is the one that was indexed, every path (seek, fallback,
\* warm cursor, RAM, proxy) hands out the pixels of exactly the frame that was
\* asked for, wherever a seek lands and however many frames look alike.
ExactFrame == component = "Present" => Present!ExactFrame

\* Also when the source changed behind its index, a decoded answer looks like
\* the indexed frame, and so does every frame in RAM and every proxy
\* (require_matching_entry before anything is shown or filed).
AnswersReconcile ==
    component = "Present" => Present!Reconciled /\ Present!CachesReconcile

\* Every jump by ticks or microseconds inside the timeline is answered, with a
\* frame that no other frame is nearer than, up to the ends of the range.
JumpsAreNearest ==
    component = "Jump" => Jump!NearestIsNearest /\ Jump!JumpsAreAnswered

\* What is planned is accepted by everything downstream, the iterator hands
\* out exactly the plan, and a time range selects exactly the frames in it.
PlansAreExact ==
    component = "Plan" =>
        Plan!IteratorIsThePlan /\ Plan!PlansAreAccepted /\ Plan!TimeRangeIsExact
====
