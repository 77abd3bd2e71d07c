------------------------------ MODULE Indexing ------------------------------
(***************************************************************************)
(* Opening the persistent frame index of a source and building or resuming *)
(* it: FrameIndex::open_or_create followed by build_or_resume_frame_index  *)
(* (framescope-video/src/indexing.rs), as open_session runs them under the *)
(* session lifecycle lock, so one builder works on a database at a time.   *)
(* The process may be killed between any two transactions.                 *)
(***************************************************************************)
EXTENDS FrameIndexStore

CONSTANTS
  Content,         \* identity -> the timelines a decoder may emit for it
  Leftovers,       \* databases an earlier version or damage left at the path
  BatchSize,       \* IndexingOptions::batch_size
  ResumeOverlap,   \* RESUME_OVERLAP_FRAMES
  MaxOverlap,      \* MAX_RESUME_OVERLAP_FRAMES
  ScanLimit        \* RESUME_SEEK_SCAN_LIMIT

VARIABLES
  disk,        \* the database file
  source,      \* identity the process opened
  media,       \* timeline the decoder emits for it
  pc,          \* where open_session is; "down" when it is not running
  verdict,     \* lifecycle a stopped build still has to record
  expected,    \* expected_existing
  restarted,   \* restarted
  consumed,    \* bounded_attempt_consumed
  bounded,     \* bounded_active
  checkpoint,  \* checkpoint_frame_id
  scanned,     \* candidates read by the seek scan
  pos,         \* position in media of the decoder's next frame
  frame,       \* frame_id
  pending,     \* pending_decoded is Some
  anchor,      \* anchor
  batch        \* batch, keyed by frame id

env    == <<source, media>>
loop   == <<expected, restarted, consumed>>
cursor == <<bounded, checkpoint, scanned, pos, frame, pending, anchor, batch>>
vars   == <<disk, env, pc, verdict, loop, cursor>>

\* A leftover is never mistaken for an index of this contract generation.
ASSUME IndexingAssumption ==
  /\ BatchSize \in Nat \ {0}
  /\ ResumeOverlap \in Nat
  /\ MaxOverlap \in Nat
  /\ ScanLimit \in Nat \ {0}
  /\ \A id \in Identities : \A m \in Content[id] : IsTimeline(m)
  /\ \A d \in Leftovers :
       \/ d = Absent
       \/ d = [Absent EXCEPT !.schema = "foreign"]
       \/ /\ d.schema = "ready"
          /\ d.meta \in Metas
          /\ d.meta.generation # GENERATION \/ ~ValidState(d)

ResetCursor ==
  /\ bounded' = FALSE /\ checkpoint' = 0 /\ scanned' = 0 /\ pos' = 0
  /\ frame' = 0 /\ pending' = FALSE /\ anchor' = StreamStart /\ batch' = NoRows

ResetLoop == expected' = 0 /\ restarted' = FALSE /\ consumed' = FALSE

Init ==
  /\ disk \in Leftovers
  /\ source \in Identities /\ media \in Content[source]
  /\ pc = "down" /\ verdict = "incomplete"
  /\ expected = 0 /\ restarted = FALSE /\ consumed = FALSE
  /\ bounded = FALSE /\ checkpoint = 0 /\ scanned = 0 /\ pos = 0
  /\ frame = 0 /\ pending = FALSE /\ anchor = StreamStart /\ batch = NoRows

-----------------------------------------------------------------------------
(***************************************************************************)
(* open_or_create.                                                         *)
(***************************************************************************)

Launch ==
  /\ pc = "down"
  /\ source' \in Identities
  /\ media' \in Content[source']
  /\ pc' = "open"
  /\ UNCHANGED <<disk, verdict, loop, cursor>>

\* migrate at user_version 0: the CREATE statements commit on their own ...
CreateTables ==
  /\ pc = "open" /\ disk.schema = "absent"
  /\ disk' = [Absent EXCEPT !.schema = "tables"]
  /\ pc' = "migrate"
  /\ UNCHANGED <<env, verdict, loop, cursor>>

\* ... before user_version is set.
SetUserVersion ==
  /\ pc = "migrate"
  /\ disk' = Database(disk.meta, disk.rows)
  /\ pc' = "open"
  /\ UNCHANGED <<env, verdict, loop, cursor>>

\* CREATE TABLE fails on a database that has tables and still version 0; the
\* error is not one recreation_disposition accepts.
RefuseHalfMigrated ==
  /\ pc = "open" /\ disk.schema = "tables"
  /\ pc' = "refused"
  /\ UNCHANGED <<disk, env, verdict, loop, cursor>>

\* UnsupportedSchema, NotADatabase, InvalidState: purge and open again
PurgeAndReopen ==
  /\ pc = "open"
  /\ \/ disk.schema = "foreign"
     \/ disk.schema = "ready" /\ OpenDisposition(disk, source) = "invalid"
  /\ disk' = Absent
  /\ UNCHANGED <<env, pc, verdict, loop, cursor>>

BindIndex ==
  /\ pc = "open" /\ disk.schema = "ready"
  /\ OpenDisposition(disk, source) \notin {"invalid", "reused"}
  /\ disk' = EmptyIndex(source)
  /\ pc' = "start"
  /\ UNCHANGED <<env, verdict, loop, cursor>>

ReuseIndex ==
  /\ pc = "open" /\ disk.schema = "ready"
  /\ OpenDisposition(disk, source) = "reused"
  /\ pc' = "start"
  /\ UNCHANGED <<disk, env, verdict, loop, cursor>>

-----------------------------------------------------------------------------
(***************************************************************************)
(* build_or_resume_frame_index up to the start of a decode pass.           *)
(***************************************************************************)

ReturnComplete ==
  /\ pc = "start" /\ disk.meta.lifecycle = "complete"
  /\ pc' = "done"
  /\ UNCHANGED <<disk, env, verdict, loop, cursor>>

\* mutant: a complete index is built again
StartBuildAlways ==
  /\ pc = "start"
  /\ expected' = disk.meta.indexed /\ restarted' = FALSE /\ consumed' = FALSE
  /\ pc' = "attempt"
  /\ UNCHANGED <<disk, env, verdict, cursor>>

StartBuild ==
  /\ pc = "start" /\ disk.meta.lifecycle # "complete"
  /\ expected' = disk.meta.indexed /\ restarted' = FALSE /\ consumed' = FALSE
  /\ pc' = "attempt"
  /\ UNCHANGED <<disk, env, verdict, cursor>>

\* select_resume_checkpoint and the checks at the head of
\* try_open_bounded_resume: at most one checkpoint qualifies.
ResumeCheckpoints(d, n) ==
  LET probe == d.rows[IF n > ResumeOverlap THEN n - ResumeOverlap ELSE 0]
  IN {c \in 1 .. n - 1 :
        /\ d.meta.safety = "unambiguous"
        /\ probe.anchor = [frame_id |-> c, ts |-> d.rows[c].ts]
        /\ d.rows[c].ts # None /\ d.rows[c].ts >= 0
        /\ n - c <= MaxOverlap
        /\ Clean(d.rows[c])}

MayResume == expected > 0 /\ ~consumed /\ ResumeCheckpoints(disk, expected) # {}

\* External: avformat_seek_file with AVSEEK_FLAG_BACKWARD lands on stream
\* start or on a keyframe whose timestamp does not exceed the target.
SeekLandings(m, ts) ==
  {0} \cup {p \in 0 .. m.count - 1 :
              m.frame[p].keyframe /\ m.frame[p].ts # None /\ m.frame[p].ts <= ts}

\* A stopped build still has to record why; nothing in memory outlives it.
Stop(v) ==
  /\ pc' = "stop" /\ verdict' = v
  /\ ResetLoop /\ ResetCursor

\* open_checked_decoder fails, or the selected stream changed
DecoderUnavailable ==
  /\ pc = "attempt"
  /\ Stop("failed_recoverable")
  /\ UNCHANGED <<disk, env>>

\* mutant: a bounded attempt may follow a bounded attempt
SeekAgain ==
  /\ pc = "attempt" /\ MayResume
  /\ \E c \in ResumeCheckpoints(disk, expected) :
       /\ checkpoint' = c
       /\ pos' \in SeekLandings(media, disk.rows[c].ts)
  /\ pc' = "scan"
  /\ UNCHANGED <<disk, env, verdict, loop>>
  /\ UNCHANGED <<bounded, scanned, frame, pending, anchor, batch>>

SeekToCheckpoint ==
  /\ pc = "attempt" /\ MayResume
  /\ \E c \in ResumeCheckpoints(disk, expected) :
       /\ checkpoint' = c
       /\ pos' \in SeekLandings(media, disk.rows[c].ts)
  /\ consumed' = TRUE
  /\ pc' = "scan"
  /\ UNCHANGED <<disk, env, verdict, expected, restarted>>
  /\ UNCHANGED <<bounded, scanned, frame, pending, anchor, batch>>

SeekFails ==
  /\ pc = "attempt" /\ MayResume
  /\ consumed' = TRUE
  /\ UNCHANGED <<disk, env, pc, verdict, expected, restarted, cursor>>

SeekCancelled ==
  /\ pc = "attempt" /\ MayResume
  /\ Stop("incomplete")
  /\ UNCHANGED <<disk, env>>

FallBack ==
  /\ pc' = "attempt"
  /\ ResetCursor

\* The scan is a for loop over ScanLimit candidates.
ScanMisses ==
  /\ pc = "scan" /\ pos < media.count
  /\ ~MatchesEntry(media.frame[pos], disk.rows[checkpoint])
  /\ IF scanned + 1 >= ScanLimit
     THEN FallBack
     ELSE /\ scanned' = scanned + 1 /\ pos' = pos + 1
          /\ UNCHANGED <<pc, bounded, checkpoint, frame, pending, anchor, batch>>
  /\ UNCHANGED <<disk, env, verdict, loop>>

\* end of stream, or a decode error, before the checkpoint was seen
ScanGivesUp ==
  /\ pc = "scan"
  /\ FallBack
  /\ UNCHANGED <<disk, env, verdict, loop>>

ScanCancelled ==
  /\ pc = "scan"
  /\ Stop("incomplete")
  /\ UNCHANGED <<disk, env>>

ScanMatches ==
  /\ pc = "scan" /\ pos < media.count
  /\ MatchesEntry(media.frame[pos], disk.rows[checkpoint])
  /\ disk' = SetLifecycle(disk, "building")
  /\ bounded' = TRUE /\ frame' = checkpoint /\ pending' = TRUE /\ scanned' = 0
  /\ pc' = "decode"
  /\ UNCHANGED <<env, verdict, loop, checkpoint, pos, anchor, batch>>

StartReplay ==
  /\ pc = "attempt" /\ ~MayResume
  /\ consumed' = (consumed \/ expected > 0)
  /\ disk' = SetLifecycle(disk, "building")
  /\ pc' = "decode"
  /\ ResetCursor
  /\ UNCHANGED <<env, verdict, expected, restarted>>

-----------------------------------------------------------------------------
(***************************************************************************)
(* The decode pass.                                                        *)
(***************************************************************************)

Decoded == media.frame[pos]

NewAnchor == NextAnchor(anchor, Decoded, frame)

Entry == EntryFromDecoded(Decoded, NewAnchor)

HasFrame == pc = "decode" /\ pos < media.count

\* flush_batch either appends the batch or marks the index failed.
Flush == IF batch = NoRows THEN disk' = disk
         ELSE BatchAccepted(disk, batch, frame) /\ disk' = AppendBatch(disk, batch, frame)

Advance ==
  /\ anchor' = NewAnchor /\ frame' = frame + 1 /\ pos' = pos + 1 /\ pending' = FALSE
  /\ UNCHANGED <<env, pc, verdict, loop, bounded, checkpoint, scanned>>

\* entry.validate fails: the error returns without a lifecycle update.
RejectEntry ==
  /\ HasFrame /\ ~ValidEntry(Entry, frame)
  /\ pc' = "failed"
  /\ ResetLoop /\ ResetCursor
  /\ UNCHANGED <<disk, env, verdict>>

ReconcileRow ==
  /\ HasFrame /\ ValidEntry(Entry, frame)
  /\ frame < expected /\ disk.rows[frame] = Entry
  /\ Advance
  /\ UNCHANGED <<disk, batch>>

\* Extend the batch by the entry; a full batch is appended at once.
PushEntry ==
  /\ HasFrame /\ ValidEntry(Entry, frame) /\ frame >= expected
  /\ LET pushed == [i \in DOMAIN batch \cup {frame} |-> IF i = frame THEN Entry ELSE batch[i]]
     IN IF frame + 1 - disk.meta.indexed < BatchSize
        THEN batch' = pushed /\ disk' = disk
        ELSE /\ BatchAccepted(disk, pushed, frame + 1)
             /\ disk' = AppendBatch(disk, pushed, frame + 1)
             /\ batch' = NoRows
  /\ Advance

\* A persisted row differs from the decoded one, or the stream ends early.
Diverges ==
  /\ pc = "decode" /\ frame < expected
  /\ pos < media.count => ValidEntry(Entry, frame) /\ disk.rows[frame] # Entry

DivergeAfterSeek ==
  /\ Diverges /\ bounded
  /\ FallBack
  /\ UNCHANGED <<disk, env, verdict, loop>>

\* mutant: the divergent rows are kept and compared again
RebuildKeepsRows ==
  /\ Diverges /\ ~bounded /\ ~restarted
  /\ restarted' = TRUE
  /\ FallBack
  /\ UNCHANGED <<disk, env, verdict, expected, consumed>>

RebuildOnce ==
  /\ Diverges /\ ~bounded /\ ~restarted
  /\ disk' = ClearForRebuild(disk)
  /\ expected' = 0 /\ restarted' = TRUE
  /\ FallBack
  /\ UNCHANGED <<env, verdict, consumed>>

\* next_frame returns Cancelled or an error: keep the validated batch.
DecodeStops ==
  /\ pc = "decode" /\ ~pending
  /\ Flush
  /\ Stop("incomplete") \/ Stop("failed_recoverable")
  /\ UNCHANGED env

\* A batch is due and SQLite refuses it: flush_batch marks the index failed.
FlushFails ==
  /\ pc = "decode"
  /\ \/ batch # NoRows
     \/ /\ HasFrame /\ ValidEntry(Entry, frame) /\ frame >= expected
        /\ frame + 1 - disk.meta.indexed >= BatchSize
  /\ Stop("failed_recoverable")
  /\ UNCHANGED <<disk, env>>

\* Any other statement fails: the error returns without a lifecycle update.
StorageFails ==
  /\ pc \in {"start", "attempt", "scan", "decode", "finish"}
  /\ pc' = "failed"
  /\ ResetLoop /\ ResetCursor
  /\ UNCHANGED <<disk, env, verdict>>

\* mutant: the last batch is dropped
EndWithoutFlush ==
  /\ pc = "decode" /\ pos >= media.count /\ frame >= expected
  /\ batch' = NoRows
  /\ pc' = "finish"
  /\ UNCHANGED <<disk, env, verdict, loop, bounded, checkpoint, scanned, pos, frame, pending, anchor>>

\* mutant: a stream that ends inside the stored rows counts as reconciled
EndInsidePrefix ==
  /\ pc = "decode" /\ pos >= media.count
  /\ Flush
  /\ batch' = NoRows
  /\ pc' = "finish"
  /\ UNCHANGED <<env, verdict, loop, bounded, checkpoint, scanned, pos, frame, pending, anchor>>

EndOfStream ==
  /\ pc = "decode" /\ pos >= media.count /\ frame >= expected
  /\ Flush
  /\ batch' = NoRows
  /\ pc' = "finish"
  /\ UNCHANGED <<env, verdict, loop, bounded, checkpoint, scanned, pos, frame, pending, anchor>>

Complete ==
  /\ pc = "finish"
  /\ disk' = MarkComplete(disk)
  /\ pc' = "done"
  /\ ResetLoop /\ ResetCursor
  /\ UNCHANGED <<env, verdict>>

\* The result of mark_incomplete and mark_failed_recoverable is ignored.
RecordVerdict ==
  /\ pc = "stop"
  /\ disk' \in {disk, SetLifecycle(disk, verdict)}
  /\ pc' = "failed" /\ verdict' = "incomplete"
  /\ UNCHANGED <<env, loop, cursor>>

-----------------------------------------------------------------------------
(***************************************************************************)
(* The session closes, or its open failed: dropping EphemeralIndexCleanup  *)
(* removes the database of a source that cannot be recognised again.       *)
(***************************************************************************)
CloseSession ==
  /\ pc \in {"done", "failed", "refused"}
  /\ disk' = IF source \in ReuseSafe THEN disk ELSE Absent
  /\ pc' = "down"
  /\ UNCHANGED <<env, verdict, loop, cursor>>

\* The process is killed; committed transactions stay.
Crash ==
  /\ pc # "down"
  /\ pc' = "down" /\ verdict' = "incomplete"
  /\ ResetLoop /\ ResetCursor
  /\ UNCHANGED <<disk, env>>

Open ==
  CreateTables \/ SetUserVersion \/ RefuseHalfMigrated \/ PurgeAndReopen \/ BindIndex \/ ReuseIndex

BeginPass ==
  \/ ReturnComplete \/ StartBuild \/ DecoderUnavailable \/ StartReplay
  \/ SeekToCheckpoint \/ SeekFails \/ SeekCancelled
  \/ ScanMisses \/ ScanGivesUp \/ ScanCancelled \/ ScanMatches

DecodePass ==
  \/ RejectEntry \/ ReconcileRow \/ PushEntry \/ DivergeAfterSeek \/ RebuildOnce
  \/ DecodeStops \/ FlushFails \/ StorageFails \/ EndOfStream \/ Complete \/ RecordVerdict

Next == Launch \/ Open \/ BeginPass \/ DecodePass \/ CloseSession \/ Crash

Spec == Init /\ [][Next]_vars

\* open_session is synchronous on its worker thread: it keeps taking steps.
FairSpec == Spec /\ WF_vars(Open \/ BeginPass \/ DecodePass)

-----------------------------------------------------------------------------

Opened == pc \in {"start", "attempt", "scan", "decode", "finish", "stop", "done", "failed"}

\* Type invariant of the build; once a database is open it is bound to the
\* source the session opened and to the current timeline contract.
TypeOK ==
  /\ disk.schema \in {"absent", "foreign", "tables", "ready"}
  /\ disk.schema # "ready" => disk.meta = None /\ disk.rows = NoRows
  /\ disk.schema = "ready" => disk.meta \in Metas \cup {None}
  /\ source \in Identities /\ media \in Content[source]
  /\ pc \in {"down", "open", "migrate", "refused"} \/ Opened
  /\ verdict \in {"incomplete", "failed_recoverable"}
  /\ expected \in Nat /\ restarted \in BOOLEAN /\ consumed \in BOOLEAN
  /\ bounded \in BOOLEAN /\ pending \in BOOLEAN
  /\ checkpoint \in Nat /\ scanned \in Nat /\ pos \in Nat /\ frame \in Nat
  /\ anchor \in Anchors \cup {StreamStart}
  /\ batch \in [DOMAIN batch -> Entries]
  /\ pc = "migrate" => disk.schema = "tables"
  /\ Opened => /\ disk.schema = "ready" /\ disk.meta \in Metas
               /\ disk.meta.source = source /\ disk.meta.key = source
               /\ disk.meta.generation = GENERATION

Exact(d, m) == PrefixOf(d, m) /\ d.meta.indexed = m.count

(***************************************************************************)
(* A session is only ever handed an index whose rows are, one for one, the *)
(* presentation frames of the source: whatever crashes, cancellations,     *)
(* failures and resumes came before, bounded resumes included.             *)
(* (open_session after build_or_resume_frame_index)                        *)
(***************************************************************************)
ServedIndexIsExact == pc = "done" => disk.meta.lifecycle = "complete" /\ Exact(disk, media)

(***************************************************************************)
(* Whenever the process can die, the database it leaves passes             *)
(* validate_persistent_state, so the next open resumes it instead of       *)
(* discarding it; in particular the seek-safety decision that append_batch *)
(* maintains incrementally is the one validation recomputes.               *)
(***************************************************************************)
StoredIndexRevalidates == Opened => ValidState(disk)

\* The next open of the same source would reuse the database.
Trusted(d) ==
  /\ d.schema = "ready" /\ d.meta # None
  /\ OpenDisposition(d, d.meta.source) = "reused"

(***************************************************************************)
(* Committed work is kept: while the process works on the source a         *)
(* trustworthy database is bound to, no step drops or rewrites one of its  *)
(* rows, and a complete index does not change at all.                      *)
(***************************************************************************)
WorkIsKept ==
  [][Trusted(disk) /\ source' = disk.meta.source =>
       /\ \A i \in DOMAIN disk.rows : i \in DOMAIN disk'.rows /\ disk'.rows[i] = disk.rows[i]
       /\ disk.meta.lifecycle = "complete" => disk' = disk]_vars

(***************************************************************************)
(* A build that replayed from stream start and is about to be marked       *)
(* complete holds exactly what the decoder just emitted, even when the     *)
(* rows found on disk came from a decoder that emitted something else.     *)
(***************************************************************************)
FullReplayIsExact == pc = "finish" /\ ~bounded => Exact(disk, media)

(***************************************************************************)
(* The clean rebuild cannot diverge in turn: the final                     *)
(* PartialIndexMismatch of build_or_resume_frame_index is unreachable.     *)
(***************************************************************************)
OneRebuildSuffices == Diverges => bounded \/ ~restarted

(***************************************************************************)
(* Opening ends: fallbacks and rebuilds do not chase each other for ever.  *)
(***************************************************************************)
OpenEnds == pc = "open" ~> pc \in {"done", "failed", "refused", "down"}

(***************************************************************************)
(* docs/architecture.md: recovery of a partial index "replays from stream  *)
(* start and reconciles already committed entries before appending".       *)
(***************************************************************************)
AppendsFollowFullReplay == pc = "decode" /\ batch # NoRows => ~bounded

(***************************************************************************)
(* docs/architecture.md: the index is derived data, so schema failures     *)
(* "trigger safe recreation"; no open of it is refused.                    *)
(***************************************************************************)
SchemaFailuresRecreate == pc # "refused"

-----------------------------------------------------------------------------
(***************************************************************************)
(* The inductive invariants behind the properties.                         *)
(***************************************************************************)

\* The next open trusts what the database says about its own source.
Recognised(d) ==
  d.schema = "ready" /\ d.meta # None /\ d.meta.generation = GENERATION /\ ValidState(d)

\* Rows below frame, committed or still in the batch.
Recent ==
  [i \in 0 .. frame - 1 |-> IF i \in DOMAIN disk.rows THEN disk.rows[i] ELSE batch[i]]

(***************************************************************************)
(* Anchors name the last clean keyframe at or before their row, in what is *)
(* stored and in what the pass is about to store.                          *)
(***************************************************************************)
StoreInv ==
  /\ Recognised(disk) => Anchored(disk.rows)
  /\ Opened => ValidState(disk)
  /\ pc # "decode" => batch = NoRows
  /\ pc \in {"attempt", "scan"} => expected = disk.meta.indexed
  /\ pc \in {"attempt", "scan", "decode", "finish"} => disk.meta.lifecycle # "complete"
  /\ restarted => expected = 0
  /\ pc = "scan" => checkpoint \in ResumeCheckpoints(disk, expected)
  /\ pc = "decode" =>
       /\ expected <= disk.meta.indexed
       /\ expected = disk.meta.indexed \/ disk.meta.indexed <= frame
       /\ DOMAIN batch = disk.meta.indexed .. frame - 1
       /\ \A i \in DOMAIN batch : ValidEntry(batch[i], i) /\ AnchorOf(Recent, i, batch[i].anchor)
       /\ IF pending THEN pos < media.count /\ Clean(media.frame[pos]) /\ frame < expected
          ELSE AnchorOf(Recent, frame - 1, anchor)
  /\ pc = "finish" => disk.meta.indexed = frame

\* What the pass has covered is what the decoder emitted, frame by frame.
Follows ==
  /\ pos = frame /\ frame <= media.count
  /\ \A i \in 0 .. frame - 1 : MatchesEntry(media.frame[i], Recent[i])

ReplayInv ==
  /\ pc = "decode" /\ ~bounded => ~pending /\ Follows
  /\ pc = "finish" /\ ~bounded => Follows /\ frame = media.count

(***************************************************************************)
(* A decoder that always emits the same timeline, and a seek to a clean    *)
(* keyframe that never lands after it.                                     *)
(***************************************************************************)
Deterministic == \A id \in Identities : \A m, n \in Content[id] : m = n

SeeksStayBack ==
  \A id \in Identities : \A m \in Content[id] : \A c \in 1 .. m.count - 1 :
    Clean(m.frame[c]) /\ m.frame[c].ts # None =>
      \A p \in SeekLandings(m, m.frame[c].ts) : p <= c

\* A trusted database describes its source.
Honest(d) ==
  \A m \in Content[d.meta.source] :
    /\ d.meta.indexed <= m.count
    /\ \A i \in DOMAIN d.rows : MatchesEntry(m.frame[i], d.rows[i])
    /\ d.meta.lifecycle = "complete" => d.meta.indexed = m.count

ResumeInv ==
  /\ Recognised(disk) => Honest(disk)
  /\ pc = "done" => disk.meta.lifecycle = "complete"
  /\ pc = "scan" => pos <= checkpoint
  /\ pc = "decode" => Follows
  /\ pc = "finish" => Follows /\ frame = media.count
=============================================================================
