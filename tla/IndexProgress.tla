---------------------------- MODULE IndexProgress ----------------------------
(***************************************************************************)
(* What an Android client is told while an index is being built:           *)
(* build_or_resume_frame_index emits a sample at a few points of each      *)
(* attempt (framescope-video, indexing.rs), index_progress.rs of           *)
(* framescope-ffi turns it into the operation's progress state, and the    *)
(* polling coroutine reads that state at any time                          *)
(* (MicroscopeIndexingProgress.kt).                                        *)
(*                                                                         *)
(* Only what the samples depend on is kept of the build itself: the        *)
(* attempt, the frame it is at, and the timestamps it meets.               *)
(***************************************************************************)
EXTENDS Integers, FiniteSets

CONSTANTS
  MaxFrames,   \* length of the longest source
  Interval,    \* PROGRESS_FRAME_INTERVAL
  Timestamps,  \* microseconds a frame may be presented at
  None,
  MaxClock     \* bound on the number of clock ticks

VARIABLES
  existing,    \* expected_existing: rows the attempt has to reconcile
  attempt,     \* "probe", "bounded", "replay", "rebuild", "done"
  start,       \* the frame the attempt started decoding at
  frame,       \* the next frame to decode
  emitted,     \* the stage of the attempt's first sample is out
  clock,       \* milliseconds since the operation began
  state,       \* ProgressState
  sampled,     \* timestamps of the samples of the current coverage attempt
  counted      \* sum of sample_frame_advance since the attempt began

build == <<existing, attempt, start, frame, emitted>>
vars == <<build, clock, state, sampled, counted>>

MinOf(a, b) == IF a = None \/ b < a THEN b ELSE a
MaxOf(a, b) == IF a = None \/ b > a THEN b ELSE a

(***************************************************************************)
(* index_progress.rs                                                       *)
(***************************************************************************)

\* begin
Began ==
  [sequence |-> 0, stage |-> "probing_media", indexed |-> 0, reused |-> 0, expected |-> 0,
   first |-> None, current |-> None, max |-> None, sampledAt |-> 0, worked |-> 0]

Advance(sample) ==
  LET positive(d) == IF d > 0 THEN d ELSE 0
  IN  CASE sample.stage = "validating" -> positive(sample.reused - state.reused)
        [] sample.stage = "indexing" -> positive(sample.indexed - state.indexed)
        [] OTHER -> 0

\* mutant: a rebuild keeps the coverage of the rejected rows
CoverageKept(sample) == [first |-> state.first, max |-> state.max]

\* a rebuild forgets the coverage of the rows it rejects
Coverage(sample) ==
  IF sample.stage = "rebuilding" THEN [first |-> None, max |-> None]
  ELSE [first |-> state.first, max |-> state.max]

\* update
Updated(sample) ==
  LET base == Coverage(sample)
      first == IF sample.current = None THEN base.first ELSE MinOf(base.first, sample.current)
      max == IF sample.current = None THEN base.max ELSE MaxOf(base.max, sample.current)
      covered == max # None /\ (state.max = None \/ max > state.max)
  IN  [sequence |-> state.sequence + 1, stage |-> sample.stage, indexed |-> sample.indexed,
       reused |-> sample.reused, expected |-> sample.expected,
       first |-> first, current |-> sample.current, max |-> max, sampledAt |-> clock,
       worked |-> IF sample.indexed > state.indexed \/ sample.reused > state.reused \/ covered
                  THEN clock ELSE state.worked]

\* emit_progress through the observer of the operation's thread
Emit(sample) ==
  /\ state' = Updated(sample)
  /\ sampled' = (IF sample.stage = "rebuilding" THEN {} ELSE sampled)
                \cup IF sample.current = None THEN {} ELSE {sample.current}

Silent == UNCHANGED <<state, sampled, counted>>

Sample(stage, indexed, reused, expected, current) ==
  [stage |-> stage, indexed |-> indexed, reused |-> reused, expected |-> expected,
   current |-> current]

(***************************************************************************)
(* indexing.rs                                                             *)
(***************************************************************************)

\* CheckingExistingIndex, with the timestamp of the last stored row
Check ==
  /\ attempt = "probe" /\ ~emitted /\ emitted' = TRUE
  /\ \E tail \in Timestamps \cup {None} :
       Emit(Sample("checking", existing, 0, existing, IF existing = 0 THEN None ELSE tail))
  /\ UNCHANGED <<existing, attempt, start, frame, clock, counted>>

\* a complete index: ReusingExistingIndex, then Finalizing
Reuse ==
  /\ attempt = "probe" /\ emitted
  /\ IF state.stage = "reusing" THEN attempt' = "done" ELSE UNCHANGED attempt
  /\ Emit(Sample(IF state.stage = "reusing" THEN "finalizing" ELSE "reusing",
                 existing, existing, existing, state.current))
  /\ UNCHANGED <<existing, start, frame, emitted, clock, counted>>

\* the next round of the attempt loop
Enter(kind, rows, at) ==
  /\ attempt' = kind /\ existing' = rows /\ start' = at /\ frame' = at /\ emitted' = FALSE

\* a bounded resume starts at a checkpoint, a replay at the stream start
Begin ==
  /\ attempt = "probe" /\ emitted /\ state.stage = "checking"
  /\ \/ \E checkpoint \in 0 .. existing - 1 : Enter("bounded", existing, checkpoint)
     \/ Enter("replay", existing, 0)
  /\ Silent /\ UNCHANGED clock

\* the first sample of an attempt: where it starts, before any frame
First ==
  /\ attempt \in {"bounded", "replay", "rebuild"} /\ ~emitted /\ emitted' = TRUE
  /\ Emit(IF existing > 0 THEN Sample("validating", existing, start, existing, None)
          ELSE Sample("indexing", 0, 0, 0, None))
  /\ counted' = 0
  /\ UNCHANGED <<existing, attempt, start, frame, clock>>

\* mutant: the rows a replay has to reconcile are counted as it passes them
ProcessedFromStart(processed, ts) ==
  IF processed <= existing
  THEN Sample("validating", processed, processed, existing, ts)
  ELSE Sample("indexing", processed - existing, existing, existing, ts)

\* a frame that agrees with its row, or that is appended
Processed(processed, ts) ==
  IF processed <= existing
  THEN Sample("validating", existing, processed, existing, ts)
  ELSE Sample("indexing", processed, existing, existing, ts)

Due(processed) ==
  processed \in {1, existing, existing + 1} \/ processed % Interval = 0

Decode ==
  /\ attempt \in {"bounded", "replay", "rebuild"} /\ emitted /\ frame < MaxFrames
  /\ frame' = frame + 1
  /\ IF Due(frame + 1)
     THEN \E ts \in Timestamps \cup {None} :
            /\ Emit(Processed(frame + 1, ts))
            /\ counted' = counted + Advance(Processed(frame + 1, ts))
     ELSE Silent
  /\ UNCHANGED <<existing, attempt, start, emitted, clock>>

\* end of stream with every row reconciled
Finish ==
  /\ attempt \in {"bounded", "replay", "rebuild"} /\ emitted /\ frame >= existing
  /\ attempt' = "done"
  /\ \E ts \in Timestamps \cup {None} :
       Emit(Sample("finalizing", frame, existing, existing, IF frame = start THEN None ELSE ts))
  /\ UNCHANGED <<existing, start, frame, emitted, clock, counted>>

\* mutant: the rebuild still announces the rows it reconciled before
MismatchKeepsReused ==
  /\ attempt \in {"bounded", "replay"} /\ emitted /\ frame < existing
  /\ IF attempt = "bounded" THEN Enter("replay", existing, 0) /\ Silent
     ELSE Enter("rebuild", 0, 0) /\ Emit(Sample("rebuilding", 0, frame + 1, 0, None)) /\ UNCHANGED counted
  /\ UNCHANGED clock

\* a row that disagrees or a stream that is too short: a bounded attempt falls
\* back to a replay, a replay to a rebuild
Mismatch ==
  /\ attempt \in {"bounded", "replay"} /\ emitted /\ frame < existing
  /\ IF attempt = "bounded" THEN Enter("replay", existing, 0) /\ Silent
     ELSE Enter("rebuild", 0, 0) /\ Emit(Sample("rebuilding", 0, 0, 0, None)) /\ UNCHANGED counted
  /\ UNCHANGED clock

Tick ==
  /\ attempt # "done" /\ clock < MaxClock /\ clock' = clock + 1
  /\ UNCHANGED <<build, state, sampled, counted>>

Init ==
  /\ existing \in 0 .. MaxFrames /\ attempt = "probe" /\ start = 0 /\ frame = 0
  /\ emitted = FALSE /\ clock = 0 /\ state = Began /\ sampled = {} /\ counted = 0

Next == Check \/ Reuse \/ Begin \/ First \/ Decode \/ Finish \/ Mismatch \/ Tick

Spec == Init /\ [][Next]_vars

(***************************************************************************)
(* Properties.                                                             *)
(***************************************************************************)

\* MicroscopeIndexingProgress.isSane
IsSane(p) ==
  /\ p.reused <= p.indexed \/ p.reused <= p.expected
  /\ p.sampledAt <= clock /\ p.worked \in 0 .. clock
  /\ p.first # None /\ p.max # None => p.max >= p.first
  /\ p.current # None /\ p.max # None => p.max >= p.current

\* Whatever the native side has published when the poll reads it,
\* MicroscopeIndexingProgress.isSane accepts it (a refused sample stops the
\* polling for good), through fallbacks and rebuilds that move counters back.
EverySampleIsAccepted == IsSane(state)

\* The coverage shown is that of the samples of the current authoritative
\* attempt: nothing of a rejected index survives the rebuild.
CoverageIsOwn ==
  /\ sampled = {} <=> state.max = None
  /\ sampled # {} => /\ state.max \in sampled /\ state.first \in sampled
                     /\ \A t \in sampled : state.first <= t /\ t <= state.max

\* Throughput counts decoded frames: over an attempt that starts at the stream
\* start, the advances sampled so far add up to the frames decoded up to the
\* last sample, the change from validating to indexing included.
WorkIsCounted ==
  /\ attempt \in {"replay", "rebuild"} /\ emitted
  /\ state.stage \in {"validating", "indexing"}
  => counted = IF state.stage = "validating" THEN state.reused ELSE state.indexed

==============================================================================
