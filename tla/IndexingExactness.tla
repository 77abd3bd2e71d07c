-------------------------- MODULE IndexingExactness --------------------------
(***************************************************************************)
(* What a finished index says about the video, from the invariants         *)
(* ReplayInv (a replay from stream start) and ResumeInv (a build resumed   *)
(* at a checkpoint), on top of the store invariant of IndexingProofs.      *)
(***************************************************************************)
EXTENDS IndexingProofs

(***************************************************************************)
(* ReplayInv.                                                              *)
(***************************************************************************)
LEMMA RecentAdvances ==
  ASSUME TypeOK, StoreInv, ReconcileRow \/ PushEntry
  PROVE  /\ HasFrame /\ frame' = frame + 1 /\ pos' = pos + 1 /\ media' = media
         /\ pc' = "decode" /\ bounded' = bounded /\ ~pending'
         /\ Recent'[frame] = Entry
         /\ \A i \in 0 .. frame - 1 : Recent'[i] = Recent[i]
<1>1. /\ HasFrame /\ frame' = frame + 1 /\ pos' = pos + 1 /\ media' = media
      /\ pc' = "decode" /\ bounded' = bounded /\ ~pending'
  BY DEF ReconcileRow, PushEntry, Advance, HasFrame, env
<1>d. /\ disk.meta.indexed \in Nat /\ DOMAIN disk.rows = 0 .. disk.meta.indexed - 1
      /\ frame \in Nat /\ expected \in Nat /\ expected <= disk.meta.indexed
      /\ expected = disk.meta.indexed \/ disk.meta.indexed <= frame
      /\ DOMAIN batch = disk.meta.indexed .. frame - 1
  BY <1>1, DecodeFacts DEF HasFrame
<1>r. \A i \in 0 .. frame :
        Recent'[i] = IF i \in DOMAIN disk'.rows THEN disk'.rows[i] ELSE batch'[i]
  BY <1>1, <1>d DEF Recent
<1>2. CASE ReconcileRow
  <2>1. disk' = disk /\ batch' = batch /\ frame < expected /\ disk.rows[frame] = Entry
    BY <1>2 DEF ReconcileRow
  <2>2. \A i \in 0 .. frame : i \in DOMAIN disk.rows
    BY <1>d, <2>1
  <2>3. QED
    <3>1. Recent'[frame] = Entry
      BY <1>r, <1>d, <2>1, <2>2
    <3>2. ASSUME NEW i \in 0 .. frame - 1 PROVE Recent'[i] = Recent[i]
      <4>1. i \in 0 .. frame /\ i \in DOMAIN disk.rows
        BY <1>d, <2>2
      <4>2. Recent'[i] = disk.rows[i]
        BY <1>r, <2>1, <4>1, Zenon
      <4>3. Recent[i] = disk.rows[i]
        BY <4>1, RecentFacts, Zenon
      <4> QED BY <4>2, <4>3
    <3> QED BY <1>1, <3>1, <3>2, Zenon
<1>3. CASE PushEntry
  <2> DEFINE pushed == [i \in DOMAIN batch \cup {frame} |-> IF i = frame THEN Entry ELSE batch[i]]
             r == [i \in 0 .. frame |-> IF i \in DOMAIN disk.rows THEN disk.rows[i] ELSE pushed[i]]
  <2>1. disk.meta.indexed <= frame
    BY <1>3, <1>d DEF PushEntry
  <2>2. pushed[frame] = Entry /\ \A i \in DOMAIN batch : pushed[i] = batch[i]
    BY <1>d
  <2>3. \/ batch' = pushed /\ disk' = disk
        \/ disk' = AppendBatch(disk, pushed, frame + 1)
    BY <1>3 DEF PushEntry
  <2> HIDE DEF pushed
  <2>4. disk' = AppendBatch(disk, pushed, frame + 1) => disk'.rows = r
    <3>1. frame + 1 \in Nat /\ (frame + 1) - 1 = frame
      BY <1>d
    <3>2. QED
      BY <3>1, AppendRows
  <2>5. \A i \in 0 .. frame : Recent'[i] = r[i]
    BY <1>r, <2>3, <2>4
  <2>6. r[frame] = Entry
    BY <1>d, <2>1, <2>2
  <2>7. \A i \in 0 .. frame - 1 : r[i] = Recent[i]
    <3> SUFFICES ASSUME NEW i \in 0 .. frame - 1 PROVE r[i] = Recent[i]
      OBVIOUS
    <3>1. i \in 0 .. frame /\ (i \in DOMAIN disk.rows \/ i \in DOMAIN batch)
      BY <1>d
    <3>2. QED
      BY <3>1, <2>2, RecentFacts
  <2> HIDE DEF r
  <2>8. QED
    BY <1>1, <1>d, <2>5, <2>6, <2>7
<1>4. QED
  BY <1>2, <1>3

LEMMA FollowsAdvances ==
  ASSUME TypeOK, StoreInv, Follows, ReconcileRow \/ PushEntry
  PROVE  Follows'
<1>1. /\ HasFrame /\ frame' = frame + 1 /\ pos' = pos + 1 /\ media' = media
      /\ Recent'[frame] = Entry /\ \A i \in 0 .. frame - 1 : Recent'[i] = Recent[i]
  BY RecentAdvances
<1>2. frame \in Nat /\ pos = frame /\ pos < media.count /\ media.count \in Nat
  BY <1>1, IndexingAssumption DEF TypeOK, Follows, HasFrame, IsTimeline
<1>3. MatchesEntry(media.frame[frame], Entry)
  BY <1>2 DEF MatchesEntry, Entry, EntryFromDecoded, Decoded
<1>4. \A i \in 0 .. frame : MatchesEntry(media.frame[i], Recent'[i])
  BY <1>1, <1>2, <1>3 DEF Follows
<1>5. QED
  BY <1>1, <1>2, <1>4 DEF Follows

LEMMA FollowsToTheEnd ==
  ASSUME TypeOK, StoreInv, Follows, EndOfStream
  PROVE  Follows' /\ frame' = media'.count
<1>1. /\ pc = "decode" /\ Flush /\ frame >= expected /\ pos >= media.count
      /\ frame' = frame /\ pos' = pos /\ media' = media
  BY DEF EndOfStream, env
<1>2. frame \in Nat /\ media.count \in Nat
  BY IndexingAssumption DEF TypeOK, IsTimeline
<1>3. disk.meta.indexed <= frame
  BY <1>1, DecodeFacts
<1>4. /\ ValidState(disk') /\ disk'.meta.indexed = frame
      /\ \A i \in 0 .. frame - 1 : disk'.rows[i] = Recent[i]
  BY <1>1, <1>3, FlushStore
<1>5. DOMAIN disk'.rows = 0 .. frame - 1
  BY <1>4 DEF ValidState
<1>6. \A i \in 0 .. frame - 1 : Recent'[i] = Recent[i]
  BY <1>1, <1>4, <1>5 DEF Recent
<1>7. QED
  BY <1>1, <1>2, <1>6 DEF Follows

LEMMA FollowsFromStart ==
  ASSUME TypeOK, StartReplay
  PROVE  Follows' /\ ~pending' /\ ~bounded'
<1>1. pos' = 0 /\ frame' = 0 /\ media' = media /\ ~pending' /\ ~bounded'
  BY DEF StartReplay, ResetCursor, env
<1>2. media.count \in Nat
  BY IndexingAssumption DEF TypeOK, IsTimeline
<1>3. QED
  BY <1>1, <1>2 DEF Follows

LEMMA NextReplay == TypeOK /\ StoreInv /\ ReplayInv /\ [Next]_vars => ReplayInv'
<1> SUFFICES ASSUME TypeOK, StoreInv, ReplayInv, [Next]_vars
             PROVE  ReplayInv'
  OBVIOUS
<1>1. CASE ReconcileRow \/ PushEntry
  <2>1. pc = "decode" /\ pc' = "decode" /\ bounded' = bounded /\ ~pending'
    BY <1>1, RecentAdvances DEF HasFrame
  <2>2. QED
    BY <1>1, <2>1, FollowsAdvances DEF ReplayInv
<1>2. CASE EndOfStream
  <2>1. pc = "decode" /\ pc' = "finish" /\ bounded' = bounded
    BY <1>2 DEF EndOfStream
  <2>2. QED
    BY <1>2, <2>1, FollowsToTheEnd DEF ReplayInv
<1>3. CASE StartReplay
  <2>1. pc' = "decode"
    BY <1>3 DEF StartReplay
  <2>2. QED
    BY <1>3, <2>1, FollowsFromStart DEF ReplayInv
<1>4. CASE ScanMatches
  BY <1>4 DEF ReplayInv, ScanMatches
<1>5. CASE UNCHANGED vars
  <2>1. Recent' = Recent
    BY <1>5 DEF Recent, vars, cursor
  <2>2. QED
    BY <1>5, <2>1 DEF ReplayInv, Follows, vars, env, loop, cursor
<1>6. CASE Launch \/ Open \/ CloseSession \/ Crash
  <2>1. pc' \notin {"decode", "finish"}
    BY <1>6 DEF Launch, Open, CreateTables, SetUserVersion, RefuseHalfMigrated, PurgeAndReopen,
                BindIndex, ReuseIndex, CloseSession, Crash
  <2>2. QED
    BY <2>1 DEF ReplayInv
<1>7. CASE \/ ReturnComplete \/ StartBuild \/ DecoderUnavailable
           \/ SeekToCheckpoint \/ SeekFails \/ SeekCancelled
           \/ ScanMisses \/ ScanGivesUp \/ ScanCancelled
  <2>1. pc' \notin {"decode", "finish"}
    BY <1>7 DEF ReturnComplete, StartBuild, DecoderUnavailable, SeekToCheckpoint, SeekFails,
                SeekCancelled, ScanMisses, ScanGivesUp, ScanCancelled, Stop, FallBack
  <2>2. QED
    BY <2>1 DEF ReplayInv
<1>8. CASE \/ RejectEntry \/ DivergeAfterSeek \/ RebuildOnce
           \/ DecodeStops \/ FlushFails \/ StorageFails \/ Complete \/ RecordVerdict
  <2>1. pc' \notin {"decode", "finish"}
    BY <1>8 DEF RejectEntry, DivergeAfterSeek, RebuildOnce, DecodeStops, FlushFails, StorageFails,
                Complete, RecordVerdict, Stop, FallBack
  <2>2. QED
    BY <2>1 DEF ReplayInv
<1>9. QED
  BY <1>1, <1>2, <1>3, <1>4, <1>5, <1>6, <1>7, <1>8 DEF Next, BeginPass, DecodePass

(***************************************************************************)
(* Rows that match the timeline and are anchored are its prefix.           *)
(***************************************************************************)
LEMMA MatchingIsPrefix ==
  ASSUME NEW d, NEW m, d.meta.indexed \in Nat, d.meta.indexed <= m.count,
         DOMAIN d.rows = 0 .. d.meta.indexed - 1, Anchored(d.rows),
         \A i \in DOMAIN d.rows : MatchesEntry(m.frame[i], d.rows[i])
  PROVE  PrefixOf(d, m)
<1> SUFFICES ASSUME NEW i \in DOMAIN d.rows
             PROVE  AnchorOf(m.frame, i, d.rows[i].anchor)
  BY DEF PrefixOf, EntryOf
<1>1. \A k \in 0 .. i : Clean(d.rows[k]) = Clean(m.frame[k]) /\ d.rows[k].ts = m.frame[k].ts
  BY DEF MatchesEntry, Clean
<1>2. AnchorOf(d.rows, i, d.rows[i].anchor)
  BY DEF Anchored
<1>3. QED
  BY <1>1, <1>2, AnchorLocal

LEMMA FinishedIsExact ==
  ASSUME TypeOK, StoreInv, pc = "finish", Follows, frame = media.count
  PROVE  Exact(disk, media)
<1>1. Opened /\ disk.meta.indexed = frame
  BY DEF Opened, StoreInv
<1>2. /\ Anchored(disk.rows) /\ disk.meta.indexed \in Nat
      /\ DOMAIN disk.rows = 0 .. disk.meta.indexed - 1
  BY <1>1, OpenedFacts
<1>3. \A i \in DOMAIN disk.rows : MatchesEntry(media.frame[i], disk.rows[i])
  BY <1>1, <1>2, RecentFacts DEF Follows
<1>4. PrefixOf(disk, media)
  BY <1>1, <1>2, <1>3, MatchingIsPrefix
<1>5. QED
  BY <1>1, <1>4 DEF Exact

(***************************************************************************)
(* Whatever was stored before and whatever the decoder emits this time, a  *)
(* build that replayed from stream start ends with exactly this timeline.  *)
(***************************************************************************)
THEOREM ReplayAlwaysExact == Spec => []FullReplayIsExact
<1>1. Init => ReplayInv
  BY DEF Init, ReplayInv
<1>2. TypeOK /\ StoreInv /\ ReplayInv => FullReplayIsExact
  BY FinishedIsExact DEF ReplayInv, FullReplayIsExact
<1>3. QED
  BY <1>1, <1>2, TypeCorrect, InitStore, NextStore, NextReplay, PTL DEF Spec

(***************************************************************************)
(* The rebuild a build may need never diverges in turn: the last           *)
(* PartialIndexMismatch of build_or_resume_frame_index is unreachable.     *)
(***************************************************************************)
THEOREM OneRebuildAlwaysSuffices == Spec => []OneRebuildSuffices
<1>1. TypeOK /\ StoreInv => OneRebuildSuffices
  BY DEF TypeOK, StoreInv, OneRebuildSuffices, Diverges
<1>2. QED
  BY <1>1, TypeCorrect, InitStore, NextStore, PTL DEF Spec

-----------------------------------------------------------------------------
(***************************************************************************)
(* ResumeInv, for a decoder that always emits the same timeline and seeks  *)
(* that never land after their target.                                     *)
(***************************************************************************)
LEMMA SameDataHonest ==
  ASSUME NEW d, NEW e, Honest(d), e.rows = d.rows, e.meta.indexed = d.meta.indexed,
         e.meta.source = d.meta.source, e.meta.lifecycle # "complete"
  PROVE  Honest(e)
BY DEF Honest

LEMMA EmptyHonest ==
  ASSUME NEW e, e.rows = NoRows, e.meta.indexed = 0, e.meta.source \in Identities,
         e.meta.lifecycle # "complete"
  PROVE  Honest(e)
BY NoRowsFacts, IndexingAssumption DEF Honest, IsTimeline

LEMMA MatchingHonest ==
  ASSUME Deterministic, TypeOK, NEW e, e.meta.source = source, e.meta.indexed \in Nat,
         DOMAIN e.rows = 0 .. e.meta.indexed - 1, e.meta.indexed <= media.count,
         \A i \in DOMAIN e.rows : MatchesEntry(media.frame[i], e.rows[i]),
         e.meta.lifecycle = "complete" => e.meta.indexed = media.count
  PROVE  Honest(e)
<1>1. \A m \in Content[source] : m = media
  BY DEF Deterministic, TypeOK
<1>2. QED
  BY <1>1 DEF Honest

\* A valid database describes the timeline of the source that was opened.
LEMMA OpenedHonest ==
  ASSUME TypeOK, StoreInv, ResumeInv, Opened
  PROVE  /\ Honest(disk) /\ disk.meta.indexed <= media.count
         /\ \A i \in DOMAIN disk.rows : MatchesEntry(media.frame[i], disk.rows[i])
         /\ disk.meta.lifecycle = "complete" => disk.meta.indexed = media.count
<1>1. Honest(disk) /\ disk.meta.source = source
  BY OpenedFacts DEF ResumeInv, Bound
<1>2. QED
  BY <1>1 DEF Honest, TypeOK

LEMMA ResumeInvOutside ==
  ASSUME pc' \notin {"scan", "decode", "finish", "done"}, Recognised(disk') => Honest(disk')
  PROVE  ResumeInv'
BY DEF ResumeInv

LEMMA OpenResume ==
  ASSUME TypeOK, StoreInv, ResumeInv, Launch \/ Open \/ CloseSession \/ Crash
  PROVE  ResumeInv'
<1>a. ~Recognised(Absent)
  BY DEF Recognised, Absent
<1>1. CASE Launch
  BY <1>1, ResumeInvOutside DEF Launch, ResumeInv
<1>2. CASE CreateTables
  <2>1. ~Recognised(disk')
    BY <1>2 DEF CreateTables, Recognised, Absent
  <2>2. QED
    BY <1>2, <2>1, ResumeInvOutside DEF CreateTables
<1>3. CASE SetUserVersion
  <2>1. disk'.meta = None
    BY <1>3, DatabaseFields DEF TypeOK, SetUserVersion
  <2>2. ~Recognised(disk')
    BY <2>1 DEF Recognised
  <2>3. QED
    BY <1>3, <2>2, ResumeInvOutside DEF SetUserVersion
<1>4. CASE RefuseHalfMigrated
  BY <1>4, ResumeInvOutside DEF RefuseHalfMigrated, ResumeInv
<1>5. CASE PurgeAndReopen
  BY <1>5, <1>a, ResumeInvOutside DEF PurgeAndReopen
<1>6. CASE BindIndex
  <2>1. disk' = EmptyIndex(source) /\ source \in Identities
    BY <1>6 DEF BindIndex, TypeOK
  <2>2. disk'.rows = NoRows /\ disk'.meta = NewMeta(source)
    BY <2>1, DatabaseFields DEF EmptyIndex
  <2>3. Honest(disk')
    BY <2>1, <2>2, NewMetaFacts, EmptyHonest
  <2>4. QED
    BY <1>6, <2>3, ResumeInvOutside DEF BindIndex
<1>7. CASE ReuseIndex
  BY <1>7, ResumeInvOutside DEF ReuseIndex, ResumeInv
<1>8. CASE CloseSession
  BY <1>8, <1>a, ResumeInvOutside DEF CloseSession, ResumeInv
<1>9. CASE Crash
  BY <1>9, ResumeInvOutside DEF Crash, ResumeInv
<1>10. QED
  BY <1>1, <1>2, <1>3, <1>4, <1>5, <1>6, <1>7, <1>8, <1>9 DEF Open

\* Among the committed rows no earlier frame can be taken for the checkpoint.
LEMMA CheckpointIsUnique ==
  ASSUME TypeOK, StoreInv, ResumeInv, pc = "scan", pos < media.count
  PROVE  /\ checkpoint \in 1 .. expected - 1 /\ expected <= media.count
         /\ MatchesEntry(media.frame[pos], disk.rows[checkpoint]) <=> pos = checkpoint
<1>1. Opened /\ checkpoint \in ResumeCheckpoints(disk, expected) /\ expected = disk.meta.indexed
      /\ pos <= checkpoint /\ pos \in Nat
  BY DEF Opened, StoreInv, ResumeInv, TypeOK
<1>2. /\ ValidState(disk) /\ disk.meta.indexed \in Nat
      /\ DOMAIN disk.rows = 0 .. disk.meta.indexed - 1
  BY <1>1, OpenedFacts
<1>3. expected <= media.count /\ \A i \in DOMAIN disk.rows : MatchesEntry(media.frame[i], disk.rows[i])
  BY <1>1, OpenedHonest
<1>4. /\ checkpoint \in 1 .. expected - 1 /\ Clean(disk.rows[checkpoint])
      /\ disk.meta.safety = "unambiguous" /\ disk.rows[checkpoint].ts # None
  BY <1>1 DEF ResumeCheckpoints
<1>5. pos = checkpoint => MatchesEntry(media.frame[pos], disk.rows[checkpoint])
  BY <1>1, <1>2, <1>3, <1>4
<1>6. ASSUME MatchesEntry(media.frame[pos], disk.rows[checkpoint]), pos < checkpoint
      PROVE  FALSE
  <2>1. pos \in DOMAIN disk.rows /\ checkpoint \in DOMAIN disk.rows
    BY <1>1, <1>2, <1>4, <1>6
  <2>2. disk.rows[pos].ts = disk.rows[checkpoint].ts /\ Clean(disk.rows[pos])
    BY <1>3, <1>4, <1>6, <2>1, Zenon DEF MatchesEntry, Clean
  <2>3. IncreasingKeyframes(disk.rows)
    BY <1>2, <1>4 DEF ValidState, ComputeSeekSafety
  <2>4. disk.rows[pos].ts < disk.rows[checkpoint].ts
    BY <1>4, <1>6, <2>1, <2>2, <2>3 DEF IncreasingKeyframes, CleanKeyframes
  <2>5. disk.rows[checkpoint].ts \in Int
    <3>1. RowPossible(disk.rows[checkpoint], checkpoint)
      BY <1>2, <2>1, Zenon DEF ValidState
    <3>2. disk.rows[checkpoint].ts \in -MaxTicks .. MaxTicks
      BY <1>4, <3>1, Zenon DEF RowPossible, Representable
    <3> QED BY <3>2, StoreAssumption
  <2>6. QED
    BY <2>2, <2>4, <2>5
<1>7. QED
  BY <1>1, <1>3, <1>4, <1>5, <1>6

LEMMA BeginPassResume ==
  ASSUME SeeksStayBack, TypeOK, StoreInv, ResumeInv, BeginPass
  PROVE  ResumeInv'
<1>h. Opened => /\ Honest(disk) /\ disk.meta.indexed <= media.count
                /\ \A i \in DOMAIN disk.rows : MatchesEntry(media.frame[i], disk.rows[i])
  BY OpenedHonest
<1>b. Opened => Honest(SetLifecycle(disk, "building"))
  <2> SUFFICES ASSUME Opened PROVE Honest(SetLifecycle(disk, "building"))
    OBVIOUS
  <2> DEFINE e == SetLifecycle(disk, "building")
  <2>1. /\ e.rows = disk.rows /\ e.meta.indexed = disk.meta.indexed
        /\ e.meta.source = disk.meta.source /\ e.meta.lifecycle # "complete"
    BY OpenedFacts, SetLifecycleFacts DEF Lifecycles, SameBinding
  <2> HIDE DEF e
  <2>2. Honest(e)
    BY <1>h, <2>1, SameDataHonest
  <2>3. QED
    BY <2>2 DEF e
<1>1. CASE ReturnComplete
  BY <1>1 DEF ResumeInv, ReturnComplete
<1>2. CASE StartBuild
  BY <1>2, ResumeInvOutside DEF ResumeInv, StartBuild
<1>3. CASE DecoderUnavailable
  BY <1>3, ResumeInvOutside DEF ResumeInv, DecoderUnavailable, Stop
<1>4. CASE StartReplay
  <2>1. pc' = "decode" /\ Honest(disk')
    BY <1>4, <1>b DEF StartReplay, Opened
  <2>2. QED
    BY <1>4, <2>1, FollowsFromStart DEF ResumeInv
<1>5. CASE SeekToCheckpoint
  <2>1. PICK c \in ResumeCheckpoints(disk, expected) :
          checkpoint' = c /\ pos' \in SeekLandings(media, disk.rows[c].ts)
    BY <1>5 DEF SeekToCheckpoint
  <2>2. Opened /\ expected = disk.meta.indexed /\ disk' = disk /\ pc' = "scan"
    BY <1>5 DEF SeekToCheckpoint, Opened, StoreInv
  <2>3. /\ disk.meta.indexed \in Nat /\ DOMAIN disk.rows = 0 .. disk.meta.indexed - 1
        /\ media.count \in Nat /\ source \in Identities /\ media \in Content[source]
    BY <2>2, OpenedFacts, IndexingAssumption DEF TypeOK, IsTimeline
  <2>4. c \in 1 .. expected - 1 /\ Clean(disk.rows[c]) /\ disk.rows[c].ts # None
    BY DEF ResumeCheckpoints
  <2>5. c \in 1 .. media.count - 1 /\ MatchesEntry(media.frame[c], disk.rows[c])
    BY <1>h, <2>2, <2>3, <2>4
  <2>6. Clean(media.frame[c]) /\ media.frame[c].ts = disk.rows[c].ts
    BY <2>4, <2>5 DEF MatchesEntry, Clean
  <2>7. pos' <= c
    BY <2>1, <2>3, <2>4, <2>5, <2>6 DEF SeeksStayBack
  <2>8. QED
    BY <2>1, <2>2, <2>7 DEF ResumeInv
<1>6. CASE SeekFails
  BY <1>6, ResumeInvOutside DEF ResumeInv, SeekFails
<1>7. CASE SeekCancelled
  BY <1>7, ResumeInvOutside DEF ResumeInv, SeekCancelled, Stop
<1>8. CASE ScanMisses
  <2>1. CASE scanned + 1 >= ScanLimit
    <3>1. FallBack /\ disk' = disk
      BY <1>8, <2>1 DEF ScanMisses
    <3>2. QED
      BY <3>1, ResumeInvOutside DEF ResumeInv, FallBack
  <2>2. CASE ~(scanned + 1 >= ScanLimit)
    <3>1. /\ pc = "scan" /\ pc' = "scan" /\ disk' = disk /\ checkpoint' = checkpoint
          /\ pos' = pos + 1 /\ pos < media.count
          /\ ~MatchesEntry(media.frame[pos], disk.rows[checkpoint])
      BY <1>8, <2>2 DEF ScanMisses
    <3>2. pos # checkpoint /\ pos <= checkpoint /\ pos \in Nat /\ checkpoint \in Nat
      BY <3>1, CheckpointIsUnique DEF ResumeInv, TypeOK
    <3>3. pos' <= checkpoint'
      BY <3>1, <3>2
    <3>4. QED
      BY <3>1, <3>3 DEF ResumeInv
  <2>3. QED
    BY <2>1, <2>2
<1>9. CASE ScanGivesUp
  BY <1>9, ResumeInvOutside DEF ResumeInv, ScanGivesUp, FallBack
<1>10. CASE ScanCancelled
  BY <1>10, ResumeInvOutside DEF ResumeInv, ScanCancelled, Stop
<1>11. CASE ScanMatches
  <2>1. /\ pc = "scan" /\ Opened /\ pos < media.count /\ pc' = "decode"
        /\ disk' = SetLifecycle(disk, "building") /\ frame' = checkpoint
        /\ pos' = pos /\ media' = media
        /\ MatchesEntry(media.frame[pos], disk.rows[checkpoint])
        /\ expected = disk.meta.indexed
    BY <1>11 DEF ScanMatches, Opened, env, StoreInv
  <2>2. pos = checkpoint /\ checkpoint \in 1 .. expected - 1 /\ expected <= media.count
    BY <2>1, CheckpointIsUnique
  <2>3. /\ disk.meta \in Metas /\ DOMAIN disk.rows = 0 .. expected - 1 /\ expected \in Nat
        /\ media.count \in Nat
    BY <2>1, OpenedFacts, IndexingAssumption DEF TypeOK, IsTimeline
  <2>4. disk'.rows = disk.rows
    BY <2>1, <2>3, SetLifecycleFacts DEF Lifecycles
  <2>5. \A i \in 0 .. checkpoint - 1 : Recent'[i] = disk.rows[i] /\ i \in DOMAIN disk.rows
    BY <2>1, <2>2, <2>3, <2>4 DEF Recent
  <2>6. \A i \in 0 .. checkpoint - 1 : MatchesEntry(media.frame[i], Recent'[i])
    BY <1>h, <2>1, <2>5
  <2>7. Follows'
    BY <2>1, <2>2, <2>3, <2>6 DEF Follows
  <2>8. QED
    BY <1>b, <2>1, <2>7 DEF ResumeInv
<1>12. QED
  BY <1>1, <1>2, <1>3, <1>4, <1>5, <1>6, <1>7, <1>8, <1>9, <1>10, <1>11 DEF BeginPass

\* Rows committed below frame by a pass that follows the decoder.
LEMMA CommittedHonest ==
  ASSUME Deterministic, TypeOK, TypeOK', StoreInv', Follows', Opened', media' = media,
         source' = source, disk'.meta.indexed <= frame', disk'.meta.lifecycle # "complete"
  PROVE  Honest(disk')
<1>1. /\ disk'.meta.source = source /\ disk'.meta.indexed \in Nat /\ frame' \in Nat
      /\ ValidState(disk') /\ media.count \in Nat
  BY IndexingAssumption DEF TypeOK, StoreInv, Metas, IsTimeline
<1>2. DOMAIN disk'.rows = 0 .. disk'.meta.indexed - 1
  BY <1>1 DEF ValidState
<1>3. ASSUME NEW i \in DOMAIN disk'.rows
      PROVE  MatchesEntry(media.frame[i], disk'.rows[i])
  <2>1. i \in 0 .. frame' - 1
    BY <1>1, <1>2
  <2>2. Recent'[i] = disk'.rows[i]
    BY <2>1 DEF Recent
  <2>3. QED
    BY <2>1, <2>2 DEF Follows
<1>4. disk'.meta.indexed <= media.count
  BY <1>1 DEF Follows
<1>5. QED
  BY <1>1, <1>2, <1>3, <1>4, MatchingHonest

\* A flush commits only rows that follow the decoder.
LEMMA FlushHonest ==
  ASSUME Deterministic, TypeOK, StoreInv, ResumeInv, pc = "decode", Follows, Flush
  PROVE  Honest(disk')
<1>1. /\ Opened /\ disk.meta \in Metas /\ disk.meta.source = source /\ frame \in Nat
      /\ disk.meta.lifecycle # "complete" /\ Honest(disk) /\ disk.meta.indexed \in Nat
      /\ DOMAIN batch = disk.meta.indexed .. frame - 1
  BY DecodeFacts, OpenedFacts, OpenedHonest DEF Opened, Bound
<1>2. CASE batch = NoRows
  BY <1>1, <1>2 DEF Flush
<1>3. CASE batch # NoRows
  <2>1. disk' = AppendBatch(disk, batch, frame) /\ disk.meta.indexed <= frame
    BY <1>1, <1>3, EmptyBatch DEF Flush
  <2>2. /\ ValidState(disk') /\ disk'.meta.indexed = frame
        /\ disk'.meta.lifecycle = disk.meta.lifecycle
        /\ \A i \in 0 .. frame - 1 : disk'.rows[i] = Recent[i]
    BY <2>1, FlushStore
  <2>3. DOMAIN disk'.rows = 0 .. frame - 1
    BY <2>2 DEF ValidState
  <2>4. SameBinding(disk'.meta, disk.meta)
    BY <1>1, <2>1, AppendFacts
  <2>5. disk'.meta.source = source /\ disk'.meta.lifecycle # "complete"
    BY <1>1, <2>2, <2>4 DEF SameBinding
  <2>6. \A i \in 0 .. frame - 1 : MatchesEntry(media.frame[i], disk'.rows[i])
    BY <2>2 DEF Follows
  <2>7. frame <= media.count
    BY DEF Follows
  <2>8. QED
    BY <1>1, <2>2, <2>3, <2>5, <2>6, <2>7, MatchingHonest
<1>4. QED
  BY <1>2, <1>3

LEMMA DecodePassResume ==
  ASSUME Deterministic, TypeOK, TypeOK', StoreInv, StoreInv', ResumeInv, DecodePass
  PROVE  ResumeInv'
<1>h. Opened => /\ Honest(disk) /\ disk.meta \in Metas /\ disk.meta.source \in Identities
                /\ disk.meta.source = source
  BY OpenedHonest, OpenedFacts DEF Metas, Bound
<1>1. CASE RejectEntry
  BY <1>1, ResumeInvOutside DEF ResumeInv, RejectEntry
<1>2. CASE ReconcileRow
  <2>1. pc' = "decode" /\ disk' = disk /\ pc = "decode"
    BY <1>2, RecentAdvances DEF ReconcileRow, HasFrame
  <2>2. QED
    BY <1>2, <2>1, FollowsAdvances DEF ResumeInv
<1>3. CASE PushEntry
  <2>1. /\ pc' = "decode" /\ pc = "decode" /\ media' = media /\ source' = source
        /\ frame' = frame + 1 /\ frame >= expected
    BY <1>3, RecentAdvances DEF PushEntry, HasFrame, Advance, env
  <2>2. Follows'
    BY <1>3, <2>1, FollowsAdvances DEF ResumeInv
  <2>3. Opened /\ Opened' /\ frame \in Nat
    BY <2>1 DEF Opened, TypeOK
  <2>4. disk' = disk \/ disk'.meta.indexed = frame + 1
    <3>1. disk' = disk \/ \E b : disk' = AppendBatch(disk, b, frame + 1)
      BY <1>3 DEF PushEntry
    <3>2. disk.meta \in Metas /\ frame + 1 \in Nat
      BY <1>h, <2>3
    <3>3. \A b : AppendBatch(disk, b, frame + 1).meta.indexed = frame + 1
      BY <3>2, AppendFacts
    <3>4. QED
      BY <3>1, <3>3
  <2>5. disk'.meta.lifecycle # "complete"
    BY <2>1 DEF StoreInv
  <2>6. Honest(disk')
    <3>1. CASE disk' = disk
      BY <3>1, <1>h, <2>3
    <3>2. CASE disk'.meta.indexed = frame + 1
      <4>1. disk'.meta.indexed <= frame'
        BY <3>2, <2>1, <2>3
      <4>2. QED
        BY <4>1, <2>1, <2>2, <2>3, <2>5, CommittedHonest
    <3>3. QED
      BY <3>1, <3>2, <2>4
  <2>7. QED
    BY <2>1, <2>2, <2>6 DEF ResumeInv
<1>4. CASE DivergeAfterSeek
  BY <1>4, ResumeInvOutside DEF ResumeInv, DivergeAfterSeek, FallBack
<1>5. CASE RebuildOnce
  <2>1. Opened /\ disk' = ClearForRebuild(disk) /\ pc' = "attempt"
    BY <1>5 DEF RebuildOnce, Diverges, Opened, FallBack
  <2>2. Honest(disk')
    <3> DEFINE e == ClearForRebuild(disk)
    <3>1. /\ e.rows = NoRows /\ e.meta.indexed = 0 /\ e.meta.source \in Identities
          /\ e.meta.lifecycle # "complete"
      BY <1>h, <2>1, ClearFacts DEF SameBinding
    <3> HIDE DEF e
    <3>2. Honest(e)
      BY <3>1, EmptyHonest
    <3>3. QED
      BY <2>1, <3>2 DEF e
  <2>3. QED
    BY <2>1, <2>2, ResumeInvOutside
<1>6. CASE DecodeStops
  <2>1. pc = "decode" /\ Flush /\ Opened /\ pc' = "stop" /\ Follows
    BY <1>6 DEF DecodeStops, Opened, Stop, ResumeInv
  <2>2. Honest(disk')
    BY <1>6, <2>1, FlushHonest
  <2>3. QED
    BY <2>1, <2>2, ResumeInvOutside
<1>7. CASE FlushFails
  BY <1>7, ResumeInvOutside DEF ResumeInv, FlushFails, Stop
<1>8. CASE StorageFails
  BY <1>8, ResumeInvOutside DEF ResumeInv, StorageFails
<1>9. CASE EndOfStream
  <2>1. pc = "decode" /\ Flush /\ Follows /\ pc' = "finish"
    BY <1>9 DEF EndOfStream, ResumeInv
  <2>2. Honest(disk')
    BY <2>1, FlushHonest
  <2>3. QED
    BY <1>9, <2>1, <2>2, FollowsToTheEnd DEF ResumeInv
<1>10. CASE Complete
  <2>1. pc = "finish" /\ disk' = MarkComplete(disk) /\ pc' = "done" /\ Opened
    BY <1>10 DEF Complete, Opened
  <2>2. disk.meta.indexed = media.count
    BY <2>1 DEF StoreInv, ResumeInv
  <2>3. Honest(disk') /\ disk'.meta.lifecycle = "complete"
    <3> DEFINE e == MarkComplete(disk)
    <3>1. /\ e.rows = disk.rows /\ e.meta.indexed = disk.meta.indexed
          /\ e.meta.source = source /\ e.meta.lifecycle = "complete"
      <4>1. /\ e.rows = disk.rows /\ e.meta.indexed = disk.meta.indexed
            /\ SameBinding(e.meta, disk.meta) /\ e.meta.lifecycle = "complete"
        BY <1>h, <2>1, MarkCompleteFacts
      <4> HIDE DEF e
      <4>2. QED
        BY <1>h, <2>1, <4>1 DEF SameBinding
    <3>2. /\ disk.meta.indexed \in Nat /\ DOMAIN disk.rows = 0 .. disk.meta.indexed - 1
          /\ \A i \in DOMAIN disk.rows : MatchesEntry(media.frame[i], disk.rows[i])
      BY <2>1, OpenedFacts, OpenedHonest
    <3> HIDE DEF e
    <3>3. Honest(e)
      BY <2>2, <3>1, <3>2, MatchingHonest
    <3>4. QED
      BY <2>1, <3>1, <3>3 DEF e
  <2>4. QED
    BY <2>1, <2>3 DEF ResumeInv
<1>11. CASE RecordVerdict
  <2>1. Opened /\ verdict \in Lifecycles /\ verdict # "complete" /\ pc' = "failed"
    BY <1>11 DEF RecordVerdict, Opened, TypeOK, Lifecycles
  <2>2. Honest(SetLifecycle(disk, verdict))
    <3> DEFINE e == SetLifecycle(disk, verdict)
    <3>1. /\ e.rows = disk.rows /\ e.meta.indexed = disk.meta.indexed
          /\ e.meta.source = disk.meta.source /\ e.meta.lifecycle # "complete"
      BY <1>h, <2>1, SetLifecycleFacts DEF SameBinding
    <3> HIDE DEF e
    <3>2. Honest(e)
      BY <1>h, <2>1, <3>1, SameDataHonest
    <3>3. QED
      BY <3>2 DEF e
  <2>3. QED
    BY <1>11, <1>h, <2>1, <2>2, ResumeInvOutside DEF RecordVerdict
<1>12. QED
  BY <1>1, <1>2, <1>3, <1>4, <1>5, <1>6, <1>7, <1>8, <1>9, <1>10, <1>11 DEF DecodePass

LEMMA NextResume ==
  ASSUME Deterministic, SeeksStayBack
  PROVE  TypeOK /\ TypeOK' /\ StoreInv /\ StoreInv' /\ ResumeInv /\ [Next]_vars => ResumeInv'
<1>1. ASSUME TypeOK, StoreInv, ResumeInv, UNCHANGED vars
      PROVE  ResumeInv'
  <2>1. Recent' = Recent
    BY <1>1 DEF Recent, vars, cursor
  <2>2. QED
    BY <1>1, <2>1 DEF ResumeInv, Follows, vars, env, loop, cursor
<1>2. QED
  BY <1>1, OpenResume, BeginPassResume, DecodePassResume DEF Next

(***************************************************************************)
(* When the decoder is deterministic and seeks never land after their      *)
(* target, every index a session is handed is exact, whatever crashes,     *)
(* cancellations, failures, rebuilds and bounded resumes led to it.        *)
(***************************************************************************)
THEOREM ServedIndexAlwaysExact ==
  ASSUME Deterministic, SeeksStayBack
  PROVE  Spec => []ServedIndexIsExact
<1>1. Init => ResumeInv
  <2> SUFFICES ASSUME Init PROVE ResumeInv
    OBVIOUS
  <2>1. ~Recognised(disk)
    BY IndexingAssumption DEF Init, Absent, Recognised
  <2>2. QED
    BY <2>1 DEF Init, ResumeInv
<1>2. TypeOK /\ StoreInv /\ ResumeInv => ServedIndexIsExact
  <2> SUFFICES ASSUME TypeOK, StoreInv, ResumeInv, pc = "done"
               PROVE  disk.meta.lifecycle = "complete" /\ Exact(disk, media)
    BY DEF ServedIndexIsExact
  <2>1. Opened /\ disk.meta.lifecycle = "complete"
    BY DEF Opened, ResumeInv
  <2>2. /\ Anchored(disk.rows) /\ disk.meta.indexed \in Nat
        /\ DOMAIN disk.rows = 0 .. disk.meta.indexed - 1
    BY <2>1, OpenedFacts
  <2>3. /\ disk.meta.indexed = media.count /\ disk.meta.indexed <= media.count
        /\ \A i \in DOMAIN disk.rows : MatchesEntry(media.frame[i], disk.rows[i])
    BY <2>1, OpenedHonest
  <2>4. PrefixOf(disk, media)
    BY <2>2, <2>3, MatchingIsPrefix
  <2>5. QED
    BY <2>1, <2>3, <2>4 DEF Exact
<1>3. TypeOK /\ TypeOK' /\ StoreInv /\ StoreInv' /\ ResumeInv /\ [Next]_vars => ResumeInv'
  BY NextResume
<1>4. QED
  BY <1>1, <1>2, <1>3, TypeCorrect, InitStore, NextStore, PTL DEF Spec
-----------------------------------------------------------------------------
(***************************************************************************)
(* Committed work is kept.  A rebuild from an empty table needs a row that *)
(* differs from the frame decoded again; when the decoder is deterministic *)
(* there is none, because an anchor is determined by the rows before it.   *)
(***************************************************************************)
KeepInv ==
  /\ Recognised(disk) => disk.rows \in [DOMAIN disk.rows -> Entries]
  /\ pc = "stop" => disk.meta.lifecycle # "complete"

\* A row has one anchor.
LEMMA AnchorUnique ==
  ASSUME NEW r, NEW i \in Nat, NEW a, NEW b, AnchorOf(r, i, a), AnchorOf(r, i, b)
  PROVE  a = b
<1>1. CASE a = StreamStart
  BY <1>1, StoreAssumption DEF AnchorOf, Anchors
<1>2. CASE b = StreamStart
  BY <1>2, StoreAssumption DEF AnchorOf, Anchors
<1>3. CASE a # StreamStart /\ b # StreamStart
  <2>1. /\ a \in Anchors /\ a.frame_id \in 0 .. i /\ Clean(r[a.frame_id])
        /\ a.ts = r[a.frame_id].ts /\ \A k \in a.frame_id + 1 .. i : ~Clean(r[k])
    BY <1>3 DEF AnchorOf
  <2>2. /\ b \in Anchors /\ b.frame_id \in 0 .. i /\ Clean(r[b.frame_id])
        /\ b.ts = r[b.frame_id].ts /\ \A k \in b.frame_id + 1 .. i : ~Clean(r[k])
    BY <1>3 DEF AnchorOf
  <2>3. a.frame_id = b.frame_id
    BY <2>1, <2>2
  <2> QED BY <2>1, <2>2, <2>3 DEF Anchors
<1> QED BY <1>1, <1>2, <1>3

\* Entries are equal when their parts are.
LEMMA SameEntry ==
  ASSUME NEW e \in Entries, NEW f \in Entries, e.anchor = f.anchor,
         e.ts = f.ts, e.duration = f.duration, e.keyframe = f.keyframe, e.corrupt = f.corrupt
  PROVE  e = f
BY DEF Entries

\* A replay of the stored rows meets no difference.
LEMMA NoRebuild ==
  ASSUME TypeOK, StoreInv, ReplayInv, ResumeInv, KeepInv
  PROVE  ~RebuildOnce
<1> SUFFICES ASSUME RebuildOnce PROVE FALSE
  OBVIOUS
<1>1. /\ pc = "decode" /\ frame < expected /\ ~bounded
      /\ pos < media.count => ValidEntry(Entry, frame) /\ disk.rows[frame] # Entry
  BY DEF RebuildOnce, Diverges
<1>2. /\ disk.meta.indexed \in Nat /\ DOMAIN disk.rows = 0 .. disk.meta.indexed - 1
      /\ frame \in Nat /\ expected \in Nat /\ expected <= disk.meta.indexed
      /\ Anchored(disk.rows)
  BY <1>1, DecodeFacts
<1>3. Opened /\ Recognised(disk)
  BY <1>1, OpenedFacts DEF Opened
<1>4. /\ disk.meta.indexed <= media.count
      /\ \A i \in DOMAIN disk.rows : MatchesEntry(media.frame[i], disk.rows[i])
  BY <1>3, OpenedHonest
<1>5. pos = frame
  BY <1>1 DEF ResumeInv, Follows
<1>6. media.count \in Nat
  BY IndexingAssumption DEF TypeOK, IsTimeline
<1>7. pos < media.count /\ disk.rows[frame] # Entry /\ HasFrame
  BY <1>1, <1>2, <1>4, <1>5, <1>6 DEF HasFrame
<1>8. frame \in DOMAIN disk.rows
  BY <1>1, <1>2
<1> DEFINE e == disk.rows[frame]
<1>9. /\ e.ts = Entry.ts /\ e.duration = Entry.duration
      /\ e.keyframe = Entry.keyframe /\ e.corrupt = Entry.corrupt
  BY <1>4, <1>5, <1>8 DEF MatchesEntry, Entry, EntryFromDecoded, Decoded
<1>10. e \in Entries /\ Entry \in Entries
  BY <1>3, <1>7, <1>8, EntryType DEF KeepInv
<1> DEFINE r == [i \in 0 .. frame |-> IF i = frame THEN Entry ELSE disk.rows[i]]
<1>11. AnchorOf(r, frame, NewAnchor)
  <2>1. \A i \in 0 .. frame - 1 : r[i] = Recent[i]
    BY <1>1, <1>2, RecentFacts
  <2>2. r[frame] = Entry
    BY <1>2
  <2> HIDE DEF r
  <2> QED BY <1>7, <2>1, <2>2, NewAnchorRight
<1>12. \A k \in 0 .. frame : Clean(r[k]) = Clean(disk.rows[k]) /\ r[k].ts = disk.rows[k].ts
  <2>1. ASSUME NEW k \in 0 .. frame
        PROVE  Clean(r[k]) = Clean(disk.rows[k]) /\ r[k].ts = disk.rows[k].ts
    <3>1. CASE k = frame
      <4>1. r[k] = Entry
        BY <1>2, <3>1
      <4> QED BY <1>9, <3>1, <4>1 DEF Clean
    <3>2. CASE k # frame
      BY <3>2
    <3> QED BY <3>1, <3>2
  <2> QED BY <2>1
<1> HIDE DEF r
<1>13. AnchorOf(disk.rows, frame, NewAnchor)
  <2>1. PICK i, a, t : i \in Int /\ i = frame /\ a = NewAnchor /\ t = disk.rows
    BY <1>2
  <2>2. AnchorOf(r, i, a) /\ \A k \in 0 .. i : Clean(r[k]) = Clean(t[k]) /\ r[k].ts = t[k].ts
    BY <1>11, <1>12, <2>1
  <2>3. AnchorOf(t, i, a)
    BY <2>1, <2>2, AnchorLocal
  <2> QED BY <2>1, <2>3
<1>14. AnchorOf(disk.rows, frame, e.anchor)
  BY <1>2, <1>8 DEF Anchored
<1>15. e.anchor = NewAnchor
  BY <1>2, <1>13, <1>14, AnchorUnique
<1>16. Entry.anchor = NewAnchor
  BY DEF Entry, EntryFromDecoded
<1>17. e = Entry
  BY <1>9, <1>10, <1>15, <1>16, SameEntry
<1> QED BY <1>7, <1>17

-----------------------------------------------------------------------------
TypedRows(rows) == rows \in [DOMAIN rows -> Entries]

Keeps(d, e) == \A i \in DOMAIN d.rows : i \in DOMAIN e.rows /\ e.rows[i] = d.rows[i]

LEMMA AppendKeeps ==
  ASSUME NEW d, d.meta.indexed \in Nat, DOMAIN d.rows = 0 .. d.meta.indexed - 1,
         TypedRows(d.rows), NEW next \in Nat, d.meta.indexed <= next,
         NEW b, DOMAIN b = d.meta.indexed .. next - 1, TypedRows(b)
  PROVE  Keeps(d, AppendBatch(d, b, next)) /\ TypedRows(AppendBatch(d, b, next).rows)
<1>1. PICK r : r = AppendBatch(d, b, next).rows
  OBVIOUS
<1>2. r = [i \in 0 .. next - 1 |-> IF i \in DOMAIN d.rows THEN d.rows[i] ELSE b[i]]
  BY <1>1, AppendRows
<1>3. \A i \in DOMAIN d.rows : i \in DOMAIN r /\ r[i] = d.rows[i]
  BY <1>2
<1>4. \A i \in 0 .. next - 1 : i \in DOMAIN d.rows \/ i \in DOMAIN b
  OBVIOUS
<1>5. TypedRows(r)
  BY <1>2, <1>4 DEF TypedRows
<1> QED BY <1>1, <1>3, <1>5 DEF Keeps

\* What a step may do to an open database that is not complete ...
Extends == /\ Opened /\ disk.meta.lifecycle # "complete"
           /\ Keeps(disk, disk') /\ TypedRows(disk'.rows)

\* ... and what replaces a database: it has no rows, and the one it replaces
\* is not an index of the source the process works on.
Replaces == disk'.rows = NoRows /\ ~(Trusted(disk) /\ source' = disk.meta.source)

LEMMA SameRowsExtend ==
  ASSUME TypeOK, StoreInv, KeepInv, Opened, disk.meta.lifecycle # "complete", disk'.rows = disk.rows
  PROVE  Extends
<1>1. TypedRows(disk.rows)
  BY OpenedFacts DEF KeepInv, TypedRows
<1> QED BY <1>1 DEF Extends, Keeps

LEMMA FlushExtends ==
  ASSUME TypeOK, StoreInv, KeepInv, pc = "decode", Flush
  PROVE  disk' = disk \/ Extends
<1>1. CASE batch = NoRows
  BY <1>1 DEF Flush
<1>2. CASE batch # NoRows
  <2>1. disk' = AppendBatch(disk, batch, frame)
    BY <1>2 DEF Flush
  <2>2. /\ disk.meta.indexed \in Nat /\ DOMAIN disk.rows = 0 .. disk.meta.indexed - 1
        /\ frame \in Nat /\ DOMAIN batch = disk.meta.indexed .. frame - 1
        /\ TypedRows(batch) /\ disk.meta.lifecycle # "complete"
    BY DecodeFacts DEF TypedRows
  <2>3. disk.meta.indexed <= frame
    BY <1>2, <2>2, EmptyBatch
  <2>4. Opened /\ Recognised(disk)
    BY OpenedFacts DEF Opened
  <2>5. TypedRows(disk.rows)
    BY <2>4 DEF KeepInv, TypedRows
  <2>6. Keeps(disk, AppendBatch(disk, batch, frame)) /\ TypedRows(AppendBatch(disk, batch, frame).rows)
    BY <2>2, <2>3, <2>5, AppendKeeps
  <2> QED BY <2>1, <2>2, <2>4, <2>6 DEF Extends
<1> QED BY <1>1, <1>2

LEMMA PushExtends ==
  ASSUME TypeOK, StoreInv, KeepInv, PushEntry
  PROVE  disk' = disk \/ Extends
<1> DEFINE pushed == [i \in DOMAIN batch \cup {frame} |-> IF i = frame THEN Entry ELSE batch[i]]
<1>1. /\ HasFrame /\ frame >= expected
      /\ disk' = disk \/ disk' = AppendBatch(disk, pushed, frame + 1)
  BY DEF PushEntry
<1>2. /\ disk.meta.indexed \in Nat /\ DOMAIN disk.rows = 0 .. disk.meta.indexed - 1
      /\ frame \in Nat /\ DOMAIN batch = disk.meta.indexed .. frame - 1
      /\ batch \in [DOMAIN batch -> Entries] /\ disk.meta.lifecycle # "complete"
      /\ disk.meta.indexed <= frame
  BY <1>1, DecodeFacts DEF HasFrame
<1>3. Entry \in Entries
  BY <1>1, EntryType DEF HasFrame
<1>4. DOMAIN pushed = disk.meta.indexed .. (frame + 1) - 1
  BY <1>2
<1>5. TypedRows(pushed)
  BY <1>2, <1>3 DEF TypedRows
<1>6. Opened /\ Recognised(disk)
  BY <1>1, OpenedFacts DEF Opened, HasFrame
<1>7. TypedRows(disk.rows)
  BY <1>6 DEF KeepInv, TypedRows
<1>8. frame + 1 \in Nat /\ disk.meta.indexed <= frame + 1
  BY <1>2
<1> HIDE DEF pushed
<1>9. Keeps(disk, AppendBatch(disk, pushed, frame + 1)) /\ TypedRows(AppendBatch(disk, pushed, frame + 1).rows)
  BY <1>2, <1>4, <1>5, <1>7, <1>8, AppendKeeps
<1> QED BY <1>1, <1>2, <1>6, <1>9 DEF Extends

LEMMA SetLifecycleRows == \A d, l : SetLifecycle(d, l).rows = d.rows
BY DEF SetLifecycle, Database

(***************************************************************************)
(* Every step leaves the database alone, extends it, or replaces one that  *)
(* is not an index of the source.                                          *)
(***************************************************************************)
LEMMA DiskStep ==
  ASSUME TypeOK, StoreInv, ReplayInv, ResumeInv, KeepInv, Next
  PROVE  disk' = disk \/ Extends \/ Replaces
<1>1. CASE CreateTables \/ SetUserVersion
  <2>1. disk.schema \in {"absent", "tables"}
    BY <1>1 DEF TypeOK, CreateTables, SetUserVersion
  <2>2. disk.rows = NoRows /\ ~Trusted(disk)
    BY <2>1 DEF TypeOK, Trusted
  <2>3. disk'.rows = NoRows
    BY <1>1, <2>2 DEF CreateTables, SetUserVersion, Absent, Database
  <2> QED BY <2>2, <2>3 DEF Replaces
<1>2. CASE PurgeAndReopen
  <2>1. disk'.rows = NoRows /\ source' = source
    BY <1>2 DEF PurgeAndReopen, Absent, env
  <2>2. disk.schema = "foreign" \/ OpenDisposition(disk, source) = "invalid"
    BY <1>2 DEF PurgeAndReopen
  <2> QED BY <2>1, <2>2 DEF Replaces, Trusted
<1>3. CASE BindIndex
  <2>1. disk'.rows = NoRows /\ source' = source
    BY <1>3 DEF BindIndex, EmptyIndex, Database, env
  <2>2. OpenDisposition(disk, source) # "reused"
    BY <1>3 DEF BindIndex
  <2> QED BY <2>1, <2>2 DEF Replaces, Trusted
<1>4. CASE ScanMatches \/ StartReplay
  <2>1. disk' = SetLifecycle(disk, "building") /\ pc \in {"attempt", "scan"}
    BY <1>4 DEF ScanMatches, StartReplay
  <2>2. Opened /\ disk.meta.lifecycle # "complete"
    BY <2>1 DEF Opened, StoreInv
  <2>3. disk'.rows = disk.rows
    BY <2>1, SetLifecycleRows
  <2> QED BY <2>2, <2>3, SameRowsExtend
<1>5. CASE PushEntry
  BY <1>5, PushExtends
<1>6. CASE DecodeStops \/ EndOfStream
  <2>1. pc = "decode" /\ Flush
    BY <1>6 DEF DecodeStops, EndOfStream
  <2> QED BY <2>1, FlushExtends
<1>7. CASE RebuildOnce
  BY <1>7, NoRebuild
<1>8. CASE Complete
  <2>1. disk' = MarkComplete(disk) /\ pc = "finish"
    BY <1>8 DEF Complete
  <2>2. Opened /\ disk.meta.lifecycle # "complete"
    BY <2>1 DEF Opened, StoreInv
  <2>3. disk'.rows = disk.rows
    BY <2>1 DEF MarkComplete, Database
  <2> QED BY <2>2, <2>3, SameRowsExtend
<1>9. CASE RecordVerdict
  <2>1. disk' \in {disk, SetLifecycle(disk, verdict)} /\ pc = "stop"
    BY <1>9 DEF RecordVerdict
  <2>2. Opened /\ disk.meta.lifecycle # "complete"
    BY <2>1 DEF Opened, KeepInv
  <2>3. disk'.rows = disk.rows
    BY <2>1, SetLifecycleRows
  <2> QED BY <2>2, <2>3, SameRowsExtend
<1>10. CASE CloseSession
  <2>1. CASE source \in ReuseSafe
    BY <1>10, <2>1 DEF CloseSession
  <2>2. CASE source \notin ReuseSafe
    <3>1. disk'.rows = NoRows /\ source' = source
      BY <1>10, <2>2 DEF CloseSession, Absent, env
    <3>2. Trusted(disk) => disk.meta.source \in ReuseSafe
      BY DispositionFacts DEF Trusted
    <3> QED BY <2>2, <3>1, <3>2 DEF Replaces
  <2> QED BY <2>1, <2>2
<1>11. CASE \/ Launch \/ RefuseHalfMigrated \/ ReuseIndex \/ ReturnComplete \/ StartBuild
            \/ DecoderUnavailable \/ SeekToCheckpoint \/ SeekFails \/ SeekCancelled
            \/ ScanMisses \/ ScanGivesUp \/ ScanCancelled
  <2>1. disk' = disk
    BY <1>11 DEF Launch, RefuseHalfMigrated, ReuseIndex, ReturnComplete, StartBuild,
                 DecoderUnavailable, SeekToCheckpoint, SeekFails, SeekCancelled,
                 ScanMisses, ScanGivesUp, ScanCancelled
  <2> QED BY <2>1
<1>12. CASE RejectEntry \/ ReconcileRow \/ DivergeAfterSeek \/ FlushFails \/ StorageFails \/ Crash
  <2>1. disk' = disk
    BY <1>12 DEF RejectEntry, ReconcileRow, DivergeAfterSeek, FlushFails, StorageFails, Crash
  <2> QED BY <2>1
<1> QED
  BY <1>1, <1>2, <1>3, <1>4, <1>5, <1>6, <1>7, <1>8, <1>9, <1>10, <1>11, <1>12
     DEF Next, Open, BeginPass, DecodePass

\* A build stops only where its index is not complete yet.
LEMMA StopIsPartial ==
  ASSUME TypeOK, StoreInv, Next, pc' = "stop"
  PROVE  disk'.meta.lifecycle # "complete"
<1>1. CASE DecoderUnavailable \/ SeekCancelled \/ ScanCancelled \/ FlushFails
  <2>1. disk' = disk /\ pc \in {"attempt", "scan", "decode"}
    BY <1>1 DEF DecoderUnavailable, SeekCancelled, ScanCancelled, FlushFails
  <2> QED BY <2>1 DEF StoreInv
<1>2. CASE DecodeStops
  <2>1. pc = "decode" /\ Flush
    BY <1>2 DEF DecodeStops
  <2>2. disk'.meta.lifecycle = disk.meta.lifecycle
    BY <2>1, FlushStore
  <2> QED BY <2>1, <2>2 DEF StoreInv
<1>3. CASE Launch \/ Open \/ CloseSession \/ Crash
  BY <1>3 DEF Launch, Open, CreateTables, SetUserVersion, RefuseHalfMigrated, PurgeAndReopen,
              BindIndex, ReuseIndex, CloseSession, Crash
<1>4. CASE \/ ReturnComplete \/ StartBuild \/ StartReplay \/ SeekToCheckpoint \/ SeekFails
           \/ ScanMisses \/ ScanGivesUp \/ ScanMatches
  BY <1>4 DEF ReturnComplete, StartBuild, StartReplay, SeekToCheckpoint, SeekFails,
              ScanMisses, ScanGivesUp, ScanMatches, FallBack
<1>5. CASE \/ RejectEntry \/ ReconcileRow \/ PushEntry \/ DivergeAfterSeek \/ RebuildOnce
           \/ StorageFails \/ EndOfStream \/ Complete \/ RecordVerdict
  BY <1>5 DEF RejectEntry, ReconcileRow, PushEntry, DivergeAfterSeek, RebuildOnce, HasFrame, Diverges,
              StorageFails, EndOfStream, Complete, RecordVerdict, Advance, FallBack
<1> QED BY <1>1, <1>2, <1>3, <1>4, <1>5 DEF Next, BeginPass, DecodePass

LEMMA NextKeep ==
  TypeOK /\ StoreInv /\ ReplayInv /\ ResumeInv /\ KeepInv /\ [Next]_vars => KeepInv'
<1>1. ASSUME TypeOK, StoreInv, ReplayInv, ResumeInv, KeepInv, Next
      PROVE  KeepInv'
  <2>1. disk' = disk \/ Extends \/ Replaces
    BY <1>1, DiskStep
  <2>2. pc' = "stop" => disk'.meta.lifecycle # "complete"
    BY <1>1, StopIsPartial
  <2>3. Extends => TypedRows(disk'.rows)
    BY DEF Extends
  <2>4. Replaces => TypedRows(disk'.rows)
    BY NoRowsFacts DEF Replaces, TypedRows, NoRows
  <2>5. Recognised(disk)' => TypedRows(disk'.rows)
    BY <1>1, <2>1, <2>3, <2>4 DEF KeepInv, TypedRows, Recognised, ValidState
  <2> QED BY <2>2, <2>5 DEF KeepInv, TypedRows
<1>2. ASSUME KeepInv, UNCHANGED vars PROVE KeepInv'
  BY <1>2 DEF KeepInv, vars, Recognised
<1> QED BY <1>1, <1>2

(***************************************************************************)
(* When the decoder is deterministic and seeks never land after their      *)
(* target, no step drops or rewrites a committed row of the source the     *)
(* process works on, and a complete index is never written again.          *)
(***************************************************************************)
THEOREM WorkIsAlwaysKept ==
  ASSUME Deterministic, SeeksStayBack
  PROVE  Spec => WorkIsKept
<1>1. Init => ReplayInv /\ ResumeInv /\ KeepInv
  <2> SUFFICES ASSUME Init PROVE ReplayInv /\ ResumeInv /\ KeepInv
    OBVIOUS
  <2>1. ~Recognised(disk)
    BY IndexingAssumption DEF Init, Absent, Recognised
  <2> QED BY <2>1 DEF Init, ReplayInv, ResumeInv, KeepInv
<1>2. TypeOK /\ TypeOK' /\ StoreInv /\ StoreInv' /\ ResumeInv /\ [Next]_vars => ResumeInv'
  BY NextResume
<1> DEFINE kept == Trusted(disk) /\ source' = disk.meta.source =>
                     /\ \A i \in DOMAIN disk.rows : i \in DOMAIN disk'.rows /\ disk'.rows[i] = disk.rows[i]
                     /\ disk.meta.lifecycle = "complete" => disk' = disk
<1>3. TypeOK /\ StoreInv /\ ReplayInv /\ ResumeInv /\ KeepInv /\ [Next]_vars => [kept]_vars
  <2> SUFFICES ASSUME TypeOK, StoreInv, ReplayInv, ResumeInv, KeepInv, Next PROVE kept
    OBVIOUS
  <2>1. disk' = disk \/ Extends \/ Replaces
    BY DiskStep
  <2>2. Extends => kept
    BY DEF Extends, Keeps
  <2>3. disk' = disk => kept
    OBVIOUS
  <2>4. Replaces => kept
    BY DEF Replaces
  <2> QED BY <2>1, <2>2, <2>3, <2>4
<1> QED
  BY <1>1, <1>2, <1>3, TypeCorrect, InitStore, NextStore, NextReplay, NextKeep, PTL
     DEF Spec, WorkIsKept

=============================================================================
