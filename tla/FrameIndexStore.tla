-------------------------- MODULE FrameIndexStore --------------------------
(***************************************************************************)
(* The persistent frame index of framescope-cache (index/model.rs and      *)
(* index/store.rs): what one SQLite database holds and what each           *)
(* operation of FrameIndex does to it, as operators over a record          *)
(*                                                                         *)
(*   disk = [schema, meta, rows]                                           *)
(*                                                                         *)
(* rows is the table frame_index, a function from frame ids (0, 1, ...) to *)
(* entries; meta is the single row of index_meta, or None.  Every operator *)
(* is one SQLite transaction, so a crash falls between two of them.        *)
(***************************************************************************)
EXTENDS Integers

CONSTANTS
  Identities,    \* a source identity together with a stream identity
  ReuseSafe,     \* the identities with complete content evidence
  MaxTicks,      \* timestamps beyond it overflow microseconds
  None,          \* an absent Option
  StreamStart    \* KeyframeAnchor::StreamStart

GENERATION == 2  \* FRAME_TIMELINE_CONTRACT_GENERATION

Lifecycles == {"building", "incomplete", "complete", "failed_recoverable"}

OptTicks == Int \cup {None}

Anchors == [frame_id : Nat, ts : OptTicks]

(***************************************************************************)
(* A decoded frame keeps what the index keeps of it.  A timeline is what a *)
(* fresh decoder emits from stream start to end of stream.                 *)
(***************************************************************************)
Frames == [ts : OptTicks, duration : OptTicks, keyframe : BOOLEAN, corrupt : BOOLEAN]

Entries ==
  [ts : OptTicks, duration : OptTicks, keyframe : BOOLEAN, corrupt : BOOLEAN,
   anchor : Anchors \cup {StreamStart}]

IsTimeline(m) == m.count \in Nat /\ m.frame \in [0 .. m.count - 1 -> Frames]

Clean(e) == e.keyframe /\ ~e.corrupt

\* MediaTimestamp::to_microseconds returns Some
Representable(ts) == ts # None => ts \in -MaxTicks .. MaxTicks

(***************************************************************************)
(* FrameIndexEntry::validate for the entry with the given frame id.        *)
(***************************************************************************)
ValidEntry(e, frame_id) ==
  /\ Representable(e.ts)
  /\ e.duration # None => e.duration > 0
  /\ e.anchor = StreamStart => ~Clean(e)
  /\ e.anchor # StreamStart =>
       /\ e.anchor.frame_id <= frame_id
       /\ Representable(e.anchor.ts)
       /\ Clean(e) => e.anchor = [frame_id |-> frame_id, ts |-> e.ts]

\* entry_from_decoded: the anchor after a frame, and the frame's entry
NextAnchor(anchor, f, frame_id) ==
  IF Clean(f) THEN [frame_id |-> frame_id, ts |-> f.ts] ELSE anchor

EntryFromDecoded(f, anchor) ==
  [ts |-> f.ts, duration |-> f.duration, keyframe |-> f.keyframe,
   corrupt |-> f.corrupt, anchor |-> anchor]

\* matches_index_entry
MatchesEntry(f, e) ==
  /\ f.ts = e.ts
  /\ f.duration = e.duration
  /\ f.keyframe = e.keyframe
  /\ f.corrupt = e.corrupt

CleanKeyframes(rows) == {k \in DOMAIN rows : Clean(rows[k])}

\* The loop keeps the previous timestamp and requires each to exceed it, so
\* it accepts exactly the strictly increasing sequences.
IncreasingKeyframes(rows) ==
  /\ \A k \in CleanKeyframes(rows) : rows[k].ts # None
  /\ \A j, k \in CleanKeyframes(rows) : j < k => rows[j].ts < rows[k].ts

\* compute_timestamp_seek_safety
ComputeSeekSafety(rows) ==
  IF IncreasingKeyframes(rows) THEN "unambiguous" ELSE "ambiguous"

NoRows == [i \in {} |-> None]

Database(meta, rows) == [schema |-> "ready", meta |-> meta, rows |-> rows]

Absent == [schema |-> "absent", meta |-> None, rows |-> NoRows]

(***************************************************************************)
(* initialize_meta and reset_and_rebind end in the same database.          *)
(***************************************************************************)
NewMeta(id) ==
  [lifecycle |-> "incomplete", source |-> id, key |-> id,
   generation |-> GENERATION, safety |-> "unambiguous",
   indexed |-> 0, frame_count |-> None]

EmptyIndex(id) == Database(NewMeta(id), NoRows)

Metas ==
  [lifecycle : Lifecycles, source : Identities, key : Identities,
   generation : Nat, safety : {"unambiguous", "ambiguous"},
   indexed : Nat, frame_count : Nat \cup {None}]

\* None and StreamStart are enum variants of their own.
ASSUME StoreAssumption ==
  /\ ReuseSafe \subseteq Identities
  /\ MaxTicks \in Nat
  /\ None \notin Int
  /\ None \notin Metas
  /\ StreamStart \notin Anchors

(***************************************************************************)
(* validate_persistent_state.                                              *)
(***************************************************************************)
RowPossible(e, i) ==
  /\ Representable(e.ts)
  /\ e.duration # None => e.duration > 0
  /\ e.anchor # StreamStart => Representable(e.anchor.ts) /\ e.anchor.frame_id \in 0 .. i
  /\ Clean(e) => e.anchor # StreamStart /\ e.anchor.frame_id = i

AnchorPersisted(rows, a) ==
  /\ a.frame_id \in DOMAIN rows
  /\ Clean(rows[a.frame_id])
  /\ a.ts = rows[a.frame_id].ts

ValidState(d) ==
  /\ d.meta.lifecycle = "complete" => d.meta.frame_count = d.meta.indexed
  /\ d.meta.lifecycle # "complete" => d.meta.frame_count = None
  /\ DOMAIN d.rows = 0 .. d.meta.indexed - 1
  /\ \A i \in DOMAIN d.rows : RowPossible(d.rows[i], i)
  /\ \A i \in DOMAIN d.rows :
       d.rows[i].anchor # StreamStart => AnchorPersisted(d.rows, d.rows[i].anchor)
  /\ d.meta.safety = ComputeSeekSafety(d.rows)

(***************************************************************************)
(* try_open on a migrated database: the first matching arm decides.        *)
(***************************************************************************)
OpenDisposition(d, id) ==
  IF d.meta = None THEN "created"
  ELSE IF id \notin ReuseSafe THEN "rebuilt_unverifiable"
  ELSE IF d.meta.source # id THEN "rebuilt_stale"
  ELSE IF d.meta.generation # GENERATION THEN "rebuilt_contract"
  ELSE IF d.meta.key # id \/ ~ValidState(d) THEN "invalid"
  ELSE "reused"

SetLifecycle(d, lifecycle) ==
  Database([d.meta EXCEPT !.lifecycle = lifecycle, !.frame_count = None], d.rows)

MarkComplete(d) ==
  Database([d.meta EXCEPT !.lifecycle = "complete", !.frame_count = d.meta.indexed], d.rows)

ClearForRebuild(d) ==
  Database([d.meta EXCEPT !.lifecycle = "incomplete", !.indexed = 0,
                          !.safety = "unambiguous", !.frame_count = None],
           NoRows)

(***************************************************************************)
(* append_batch_profiled: batch is a function on its frame ids, next the   *)
(* id after the last of them.  The seek-safety decision is extended from   *)
(* the last clean keyframe row instead of being recomputed.                *)
(***************************************************************************)
BatchAccepted(d, batch, next) ==
  /\ DOMAIN batch = d.meta.indexed .. next - 1
  /\ \A i \in DOMAIN batch : ValidEntry(batch[i], i)

LastCleanKeyframe(rows) ==
  {k \in CleanKeyframes(rows) : \A j \in CleanKeyframes(rows) : j <= k}

\* mutant: the batch is not compared with the last committed keyframe
ExtendsWithinBatch(rows, batch) == IncreasingKeyframes(batch)

ExtendsSafety(rows, batch) ==
  /\ IncreasingKeyframes(batch)
  /\ \A j \in LastCleanKeyframe(rows), k \in CleanKeyframes(batch) :
       rows[j].ts # None => rows[j].ts < batch[k].ts

ExtendedSafety(d, batch) ==
  IF d.meta.safety = "unambiguous" /\ ExtendsSafety(d.rows, batch)
  THEN "unambiguous" ELSE "ambiguous"

AppendBatch(d, batch, next) ==
  Database([d.meta EXCEPT !.indexed = next, !.safety = ExtendedSafety(d, batch)],
           [i \in 0 .. next - 1 |-> IF i \in DOMAIN d.rows THEN d.rows[i] ELSE batch[i]])

(***************************************************************************)
(* What the rows should be, independently of how they were written: each   *)
(* one is the frame decoded at its position, anchored at the last clean    *)
(* keyframe at or before it.                                               *)
(***************************************************************************)
AnchorOf(frames, i, a) ==
  \/ /\ a = StreamStart
     /\ \A k \in 0 .. i : ~Clean(frames[k])
  \/ /\ a \in Anchors
     /\ a.frame_id \in 0 .. i
     /\ Clean(frames[a.frame_id])
     /\ a.ts = frames[a.frame_id].ts
     /\ \A k \in a.frame_id + 1 .. i : ~Clean(frames[k])

EntryOf(m, i, e) == MatchesEntry(m.frame[i], e) /\ AnchorOf(m.frame, i, e.anchor)

PrefixOf(d, m) ==
  /\ d.meta.indexed <= m.count
  /\ DOMAIN d.rows = 0 .. d.meta.indexed - 1
  /\ \A i \in DOMAIN d.rows : EntryOf(m, i, d.rows[i])

\* the same about rows alone
Anchored(rows) == \A i \in DOMAIN rows : AnchorOf(rows, i, rows[i].anchor)

\* the complete index of a timeline
IndexOf(timeline) ==
  LET anchors[i \in DOMAIN timeline] ==
        NextAnchor(IF i = 0 THEN StreamStart ELSE anchors[i - 1], timeline[i], i)
  IN  [i \in DOMAIN timeline |-> EntryFromDecoded(timeline[i], anchors[i])]
=============================================================================
