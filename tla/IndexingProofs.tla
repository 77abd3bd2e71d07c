--------------------------- MODULE IndexingProofs ---------------------------
(***************************************************************************)
(* What the operations of FrameIndexStore guarantee of the database they   *)
(* are applied to, type correctness of Indexing and the inductive          *)
(* invariant StoreInv, for every set of identities, timeline, batch size,  *)
(* overlap and scan limit.                                                 *)
(***************************************************************************)
EXTENDS Indexing, TLAPS

(***************************************************************************)
(* The metadata row after each operation of the store.                     *)
(***************************************************************************)
SameBinding(m, n) == m.source = n.source /\ m.key = n.key /\ m.generation = n.generation

LEMMA DatabaseFields ==
  ASSUME NEW m, NEW r
  PROVE  /\ Database(m, r).schema = "ready"
         /\ Database(m, r).meta = m
         /\ Database(m, r).rows = r
BY DEF Database

LEMMA NewMetaFacts ==
  ASSUME NEW id \in Identities
  PROVE  /\ NewMeta(id) \in Metas
         /\ NewMeta(id).source = id /\ NewMeta(id).key = id
         /\ NewMeta(id).generation = GENERATION /\ NewMeta(id).indexed = 0
         /\ NewMeta(id).lifecycle = "incomplete" /\ NewMeta(id).frame_count = None
         /\ NewMeta(id).safety = "unambiguous"
BY DEF NewMeta, Metas, Lifecycles, GENERATION

LEMMA SetLifecycleFacts ==
  ASSUME NEW d, d.meta \in Metas, NEW l \in Lifecycles
  PROVE  LET e == SetLifecycle(d, l)
         IN /\ e.schema = "ready" /\ e.rows = d.rows
            /\ e.meta \in Metas /\ SameBinding(e.meta, d.meta)
            /\ e.meta.lifecycle = l /\ e.meta.frame_count = None
            /\ e.meta.indexed = d.meta.indexed /\ e.meta.safety = d.meta.safety
<1> DEFINE u == [d.meta EXCEPT !.lifecycle = l, !.frame_count = None]
<1>1. l \in Lifecycles
  BY DEF Metas, Lifecycles, ExtendedSafety
<1>2. /\ u \in Metas /\ SameBinding(u, d.meta)
      /\ u.lifecycle = l /\ u.frame_count = None
      /\ u.indexed = d.meta.indexed /\ u.safety = d.meta.safety
  BY <1>1 DEF Metas, SameBinding
<1>3. SetLifecycle(d, l) = Database(u, d.rows)
  BY DEF SetLifecycle
<1> HIDE DEF u
<1>4. QED
  BY <1>2, <1>3, DatabaseFields

LEMMA MarkCompleteFacts ==
  ASSUME NEW d, d.meta \in Metas
  PROVE  LET e == MarkComplete(d)
         IN /\ e.schema = "ready" /\ e.rows = d.rows
            /\ e.meta \in Metas /\ SameBinding(e.meta, d.meta)
            /\ e.meta.lifecycle = "complete" /\ e.meta.frame_count = d.meta.indexed
            /\ e.meta.indexed = d.meta.indexed /\ e.meta.safety = d.meta.safety
<1> DEFINE u == [d.meta EXCEPT !.lifecycle = "complete", !.frame_count = d.meta.indexed]
<1>1. d.meta.indexed \in Nat /\ "complete" \in Lifecycles
  BY DEF Metas, Lifecycles, ExtendedSafety
<1>2. /\ u \in Metas /\ SameBinding(u, d.meta)
      /\ u.lifecycle = "complete" /\ u.frame_count = d.meta.indexed
      /\ u.indexed = d.meta.indexed /\ u.safety = d.meta.safety
  BY <1>1 DEF Metas, SameBinding
<1>3. MarkComplete(d) = Database(u, d.rows)
  BY DEF MarkComplete
<1> HIDE DEF u
<1>4. QED
  BY <1>2, <1>3, DatabaseFields

LEMMA ClearFacts ==
  ASSUME NEW d, d.meta \in Metas
  PROVE  LET e == ClearForRebuild(d)
         IN /\ e.schema = "ready" /\ e.rows = NoRows
            /\ e.meta \in Metas /\ SameBinding(e.meta, d.meta)
            /\ e.meta.lifecycle = "incomplete" /\ e.meta.frame_count = None
            /\ e.meta.indexed = 0 /\ e.meta.safety = "unambiguous"
<1> DEFINE u == [d.meta EXCEPT !.lifecycle = "incomplete", !.indexed = 0,
                           !.safety = "unambiguous", !.frame_count = None]
<1>1. "incomplete" \in Lifecycles
  BY DEF Metas, Lifecycles, ExtendedSafety
<1>2. /\ u \in Metas /\ SameBinding(u, d.meta)
      /\ u.lifecycle = "incomplete" /\ u.frame_count = None
      /\ u.indexed = 0 /\ u.safety = "unambiguous"
  BY <1>1 DEF Metas, SameBinding
<1>3. ClearForRebuild(d) = Database(u, NoRows)
  BY DEF ClearForRebuild
<1> HIDE DEF u
<1>4. QED
  BY <1>2, <1>3, DatabaseFields

LEMMA AppendFacts ==
  ASSUME NEW d, d.meta \in Metas, NEW b, NEW next \in Nat
  PROVE  LET e == AppendBatch(d, b, next)
         IN /\ e.schema = "ready"
            /\ e.meta \in Metas /\ SameBinding(e.meta, d.meta)
            /\ e.meta.lifecycle = d.meta.lifecycle /\ e.meta.frame_count = d.meta.frame_count
            /\ e.meta.indexed = next /\ e.meta.safety = ExtendedSafety(d, b)
<1> DEFINE u == [d.meta EXCEPT !.indexed = next, !.safety = ExtendedSafety(d, b)]
<1>1. ExtendedSafety(d, b) \in {"unambiguous", "ambiguous"}
  BY DEF ExtendedSafety
<1>2. /\ u \in Metas /\ SameBinding(u, d.meta)
      /\ u.lifecycle = d.meta.lifecycle /\ u.frame_count = d.meta.frame_count
      /\ u.indexed = next /\ u.safety = ExtendedSafety(d, b)
  BY <1>1 DEF Metas, SameBinding
<1>3. AppendBatch(d, b, next).schema = "ready" /\ AppendBatch(d, b, next).meta = u
  BY DEF AppendBatch, Database
<1> HIDE DEF u
<1>4. QED
  BY <1>2, <1>3

LEMMA AppendRows ==
  ASSUME NEW d, NEW b, NEW next \in Nat
  PROVE  AppendBatch(d, b, next).rows =
           [i \in 0 .. next - 1 |-> IF i \in DOMAIN d.rows THEN d.rows[i] ELSE b[i]]
BY DEF AppendBatch, Database

(***************************************************************************)
(* What an operation on an open index leaves alone.                        *)
(***************************************************************************)
Bound(d, id) ==
  /\ d.schema = "ready" /\ d.meta \in Metas
  /\ d.meta.source = id /\ d.meta.key = id /\ d.meta.generation = GENERATION

LEMMA OperationsKeepBinding ==
  ASSUME NEW d, NEW id \in Identities, Bound(d, id)
  PROVE  /\ \A l \in Lifecycles : Bound(SetLifecycle(d, l), id)
         /\ Bound(MarkComplete(d), id)
         /\ Bound(ClearForRebuild(d), id)
         /\ \A b : \A next \in Nat : Bound(AppendBatch(d, b, next), id)
<1>1. \A l \in Lifecycles : Bound(SetLifecycle(d, l), id)
  BY SetLifecycleFacts DEF Bound, SameBinding
<1>2. Bound(MarkComplete(d), id)
  BY MarkCompleteFacts DEF Bound, SameBinding
<1>3. Bound(ClearForRebuild(d), id)
  BY ClearFacts DEF Bound, SameBinding
<1>4. \A b : \A next \in Nat : Bound(AppendBatch(d, b, next), id)
  BY AppendFacts DEF Bound, SameBinding
<1>5. QED
  BY <1>1, <1>2, <1>3, <1>4

LEMMA EmptyIndexIsBound ==
  ASSUME NEW id \in Identities
  PROVE  Bound(EmptyIndex(id), id)
BY DatabaseFields, NewMetaFacts DEF Bound, EmptyIndex

LEMMA DispositionFacts ==
  ASSUME NEW d, NEW id, OpenDisposition(d, id) = "reused"
  PROVE  /\ d.meta # None /\ d.meta.source = id /\ d.meta.key = id
         /\ d.meta.generation = GENERATION /\ ValidState(d) /\ id \in ReuseSafe
BY DEF OpenDisposition

-----------------------------------------------------------------------------
(***************************************************************************)
(* Anchors depend only on the rows up to theirs, and NextAnchor keeps them *)
(* right.                                                                  *)
(***************************************************************************)
LEMMA AnchorLocal ==
  ASSUME NEW r, NEW s, NEW i \in Int, NEW a,
         \A k \in 0 .. i : Clean(r[k]) = Clean(s[k]) /\ r[k].ts = s[k].ts,
         AnchorOf(r, i, a)
  PROVE  AnchorOf(s, i, a)
BY DEF AnchorOf, Anchors

LEMMA AnchorStep ==
  ASSUME NEW r, NEW i \in Nat, NEW a, NEW f,
         Clean(r[i]) = Clean(f), r[i].ts = f.ts, f.ts \in OptTicks,
         Clean(f) \/ AnchorOf(r, i - 1, a)
  PROVE  AnchorOf(r, i, NextAnchor(a, f, i))
<1>1. CASE Clean(f)
  <2> DEFINE b == NextAnchor(a, f, i)
  <2>1. b \in Anchors /\ b.frame_id = i /\ b.ts = f.ts
    BY <1>1 DEF NextAnchor, Anchors
  <2>2. Clean(r[i])
    BY <1>1
  <2> HIDE DEF b
  <2>3. AnchorOf(r, i, b)
    BY <2>1, <2>2 DEF AnchorOf
  <2>4. QED
    BY <2>3 DEF b
<1>2. CASE ~Clean(f)
  <2>1. NextAnchor(a, f, i) = a /\ AnchorOf(r, i - 1, a)
    BY <1>2 DEF NextAnchor
  <2>2. ~Clean(r[i])
    BY <1>2
  <2>3. CASE a = StreamStart /\ \A k \in 0 .. i - 1 : ~Clean(r[k])
    <3>1. \A k \in 0 .. i : ~Clean(r[k])
      BY <2>2, <2>3
    <3>2. QED
      BY <2>1, <2>3, <3>1 DEF AnchorOf
  <2>4. CASE /\ a \in Anchors /\ a.frame_id \in 0 .. i - 1
             /\ Clean(r[a.frame_id]) /\ a.ts = r[a.frame_id].ts
             /\ \A k \in a.frame_id + 1 .. i - 1 : ~Clean(r[k])
    <3>1. \A k \in a.frame_id + 1 .. i : ~Clean(r[k])
      BY <2>2, <2>4
    <3>2. a.frame_id \in 0 .. i
      BY <2>4
    <3>3. QED
      BY <2>1, <2>4, <3>1, <3>2 DEF AnchorOf
  <2>5. QED
    BY <2>1, <2>3, <2>4 DEF AnchorOf
<1>3. QED
  BY <1>1, <1>2

LEMMA AnchorIsPersisted ==
  ASSUME NEW r, NEW n \in Nat, DOMAIN r = 0 .. n - 1, NEW i \in 0 .. n - 1,
         AnchorOf(r, i, r[i].anchor), r[i].anchor # StreamStart
  PROVE  AnchorPersisted(r, r[i].anchor)
BY DEF AnchorOf, AnchorPersisted, Anchors

(***************************************************************************)
(* The last clean keyframe row is the anchor of the last row.              *)
(***************************************************************************)
LEMMA LastKeyframeExists ==
  ASSUME NEW r, NEW n \in Nat, DOMAIN r = 0 .. n - 1, Anchored(r),
         NEW j \in CleanKeyframes(r)
  PROVE  \E l \in LastCleanKeyframe(r) : j <= l
<1> DEFINE a == r[n - 1].anchor
<1>1. j \in 0 .. n - 1 /\ Clean(r[j])
  BY DEF CleanKeyframes
<1>2. n - 1 \in DOMAIN r /\ AnchorOf(r, n - 1, a)
  BY <1>1 DEF Anchored
<1>3. /\ a.frame_id \in 0 .. n - 1 /\ Clean(r[a.frame_id])
      /\ \A k \in a.frame_id + 1 .. n - 1 : ~Clean(r[k])
  BY <1>1, <1>2 DEF AnchorOf
<1> HIDE DEF a
<1>4. \A k \in CleanKeyframes(r) : k <= a.frame_id
  BY <1>3 DEF CleanKeyframes
<1>5. a.frame_id \in LastCleanKeyframe(r)
  BY <1>3, <1>4 DEF LastCleanKeyframe, CleanKeyframes
<1>6. QED
  BY <1>4, <1>5

(***************************************************************************)
(* Extending the seek-safety decision from the last clean keyframe row     *)
(* gives what recomputing it over all rows would give.                     *)
(***************************************************************************)
LEMMA SafetyExtends ==
  ASSUME NEW r, NEW b, NEW s, NEW n \in Nat, NEW next \in Nat, n <= next,
         DOMAIN r = 0 .. n - 1, DOMAIN b = n .. next - 1, DOMAIN s = 0 .. next - 1,
         \A i \in DOMAIN r : s[i] = r[i],
         \A i \in DOMAIN b : s[i] = b[i],
         \A i \in DOMAIN s : Representable(s[i].ts),
         Anchored(r)
  PROVE  IncreasingKeyframes(s) <=> IncreasingKeyframes(r) /\ ExtendsSafety(r, b)
<1>t. \A i \in DOMAIN s : s[i].ts # None => s[i].ts \in Int
  BY StoreAssumption DEF Representable
<1>r. \A k : k \in CleanKeyframes(r) <=> k \in CleanKeyframes(s) /\ k \in 0 .. n - 1
  BY DEF CleanKeyframes
<1>b. \A k : k \in CleanKeyframes(b) <=> k \in CleanKeyframes(s) /\ k \in n .. next - 1
  BY DEF CleanKeyframes
<1>d. \A k \in CleanKeyframes(s) : k \in 0 .. next - 1
  BY DEF CleanKeyframes
<1>1. ASSUME IncreasingKeyframes(s)
      PROVE  IncreasingKeyframes(r) /\ ExtendsSafety(r, b)
  <2>1. IncreasingKeyframes(r)
    BY <1>1, <1>r DEF IncreasingKeyframes
  <2>2. IncreasingKeyframes(b)
    BY <1>1, <1>b DEF IncreasingKeyframes
  <2>3. \A j \in LastCleanKeyframe(r), k \in CleanKeyframes(b) :
           r[j].ts # None => r[j].ts < b[k].ts
    BY <1>1, <1>r, <1>b DEF IncreasingKeyframes, LastCleanKeyframe
  <2>4. QED
    BY <2>1, <2>2, <2>3 DEF ExtendsSafety
<1>2. ASSUME IncreasingKeyframes(r), ExtendsSafety(r, b)
      PROVE  IncreasingKeyframes(s)
  <2>1. \A k \in CleanKeyframes(s) : k \in CleanKeyframes(r) \/ k \in CleanKeyframes(b)
    BY <1>r, <1>b, <1>d
  <2>2. \A k \in CleanKeyframes(s) : s[k].ts # None
    BY <1>2, <1>r, <1>b, <2>1 DEF IncreasingKeyframes, ExtendsSafety
  <2>3. ASSUME NEW j \in CleanKeyframes(s), NEW k \in CleanKeyframes(s), j < k
        PROVE  s[j].ts < s[k].ts
    <3>1. CASE k \in 0 .. n - 1
      <4>0. j \in 0 .. next - 1 /\ k \in 0 .. next - 1
        BY <1>d
      <4>1. j \in 0 .. n - 1
        BY <3>1, <2>3, <4>0
      <4>2. j \in CleanKeyframes(r) /\ k \in CleanKeyframes(r) /\ s[j] = r[j] /\ s[k] = r[k]
        BY <3>1, <4>1, <1>r
      <4>3. QED
        BY <4>2, <2>3, <1>2 DEF IncreasingKeyframes
    <3>2. CASE j \in n .. next - 1
      <4>1. k \in n .. next - 1
        BY <3>2, <2>3, <1>d
      <4>2. j \in CleanKeyframes(b) /\ k \in CleanKeyframes(b) /\ s[j] = b[j] /\ s[k] = b[k]
        BY <3>2, <4>1, <1>b
      <4>3. QED
        BY <4>2, <2>3, <1>2 DEF IncreasingKeyframes, ExtendsSafety
    <3>3. CASE j \in 0 .. n - 1 /\ k \in n .. next - 1
      <4>1. j \in CleanKeyframes(r) /\ k \in CleanKeyframes(b)
        BY <3>3, <1>r, <1>b
      <4>2. PICK l \in LastCleanKeyframe(r) : j <= l
        BY <4>1, LastKeyframeExists
      <4>3. l \in CleanKeyframes(r) /\ l \in CleanKeyframes(s) /\ l \in 0 .. n - 1
        BY <1>r DEF LastCleanKeyframe
      <4>4. s[l].ts \in Int /\ s[j].ts \in Int /\ s[k].ts \in Int
        BY <4>3, <2>2, <1>t DEF CleanKeyframes
      <4>5. s[l].ts < s[k].ts
        BY <4>1, <4>2, <4>3, <2>2, <1>2, <3>3 DEF ExtendsSafety
      <4>6. s[j].ts <= s[l].ts
        BY <4>1, <4>2, <4>3, <4>4, <1>2, <3>3 DEF IncreasingKeyframes
      <4>7. QED
        BY <4>4, <4>5, <4>6
    <3>4. QED
      BY <3>1, <3>2, <3>3, <1>d
  <2>4. QED
    BY <2>2, <2>3 DEF IncreasingKeyframes
<1>3. QED
  BY <1>1, <1>2

-----------------------------------------------------------------------------
(***************************************************************************)
(* What validate_persistent_state accepts it accepts after each operation. *)
(***************************************************************************)
LEMMA EntryIsPossible ==
  ASSUME NEW e, NEW i \in Nat, ValidEntry(e, i), e.anchor \in Anchors \cup {StreamStart}
  PROVE  RowPossible(e, i)
<1>1. CASE e.anchor = StreamStart
  BY <1>1 DEF ValidEntry, RowPossible
<1>2. CASE e.anchor # StreamStart
  <2>1. e.anchor.frame_id \in 0 .. i
    BY <1>2 DEF ValidEntry, Anchors
  <2>2. Clean(e) => e.anchor.frame_id = i
    BY <1>2 DEF ValidEntry
  <2>3. QED
    BY <1>2, <2>1, <2>2 DEF ValidEntry, RowPossible
<1>3. QED
  BY <1>1, <1>2

LEMMA NoRowsFacts == DOMAIN NoRows = {} /\ Anchored(NoRows) /\ IncreasingKeyframes(NoRows)
BY DEF NoRows, Anchored, IncreasingKeyframes, CleanKeyframes

LEMMA EmptyIsValid ==
  ASSUME NEW d, d.rows = NoRows, d.meta.indexed = 0, d.meta.safety = "unambiguous",
         d.meta.lifecycle = "incomplete", d.meta.frame_count = None
  PROVE  ValidState(d)
BY NoRowsFacts DEF ValidState, ComputeSeekSafety

LEMMA SameRowsValid ==
  ASSUME NEW d, NEW e, ValidState(d), e.rows = d.rows,
         e.meta.indexed = d.meta.indexed, e.meta.safety = d.meta.safety,
         e.meta.lifecycle = "complete" => e.meta.frame_count = e.meta.indexed,
         e.meta.lifecycle # "complete" => e.meta.frame_count = None
  PROVE  ValidState(e)
BY DEF ValidState

LEMMA AppendIsValid ==
  ASSUME NEW d, d.meta \in Metas, ValidState(d), Anchored(d.rows),
         d.meta.lifecycle # "complete",
         NEW b, b \in [DOMAIN b -> Entries], NEW next \in Nat, d.meta.indexed <= next,
         BatchAccepted(d, b, next),
         \A i \in DOMAIN b : AnchorOf(AppendBatch(d, b, next).rows, i, b[i].anchor)
  PROVE  ValidState(AppendBatch(d, b, next)) /\ Anchored(AppendBatch(d, b, next).rows)
<1> DEFINE e == AppendBatch(d, b, next)
           s == e.rows
           n == d.meta.indexed
<1>1. n \in Nat /\ DOMAIN d.rows = 0 .. n - 1 /\ DOMAIN b = n .. next - 1
  BY DEF Metas, ValidState, BatchAccepted
<1>2. /\ DOMAIN s = 0 .. next - 1
      /\ \A i \in DOMAIN d.rows : s[i] = d.rows[i]
      /\ \A i \in DOMAIN b : s[i] = b[i]
  <2> DEFINE t == [i \in 0 .. next - 1 |-> IF i \in DOMAIN d.rows THEN d.rows[i] ELSE b[i]]
  <2>1. s = t
    BY AppendRows
  <2>2. n <= next
    OBVIOUS
  <2> HIDE DEF s, n
  <2>3. DOMAIN t = 0 .. next - 1
    OBVIOUS
  <2>4. \A i \in DOMAIN d.rows : t[i] = d.rows[i]
    BY <1>1, <2>2
  <2>5. \A i \in DOMAIN b : i \in 0 .. next - 1 /\ i \notin DOMAIN d.rows
    BY <1>1
  <2>6. \A i \in DOMAIN b : t[i] = b[i]
    BY <2>5
  <2> HIDE DEF t
  <2>7. QED
    BY <2>1, <2>3, <2>4, <2>6
<1>3. e.meta.lifecycle = d.meta.lifecycle /\ e.meta.frame_count = d.meta.frame_count
      /\ e.meta.indexed = next /\ e.meta.safety = ExtendedSafety(d, b)
  BY AppendFacts
<1>4. \A i \in DOMAIN s : i \in DOMAIN d.rows \/ i \in DOMAIN b
  BY <1>1, <1>2
<1>a. \A i \in DOMAIN b : AnchorOf(s, i, b[i].anchor)
  OBVIOUS
<1> HIDE DEF e, s, n
<1>5. \A i \in DOMAIN s : RowPossible(s[i], i)
  <2>1. \A i \in DOMAIN b : RowPossible(b[i], i)
    <3> SUFFICES ASSUME NEW i \in DOMAIN b PROVE RowPossible(b[i], i)
      OBVIOUS
    <3>1. i \in Nat
      BY <1>1
    <3>2. ValidEntry(b[i], i)
      BY DEF BatchAccepted
    <3>3. b[i].anchor \in Anchors \cup {StreamStart}
      BY DEF Entries
    <3>4. QED
      BY <3>1, <3>2, <3>3, EntryIsPossible
  <2>2. \A i \in DOMAIN d.rows : RowPossible(d.rows[i], i)
    BY DEF ValidState
  <2>3. QED
    BY <2>1, <2>2, <1>2, <1>4
<1>6. Anchored(s)
  <2> SUFFICES ASSUME NEW i \in DOMAIN s PROVE AnchorOf(s, i, s[i].anchor)
    BY DEF Anchored
  <2>1. CASE i \in DOMAIN d.rows
    <3>1. AnchorOf(d.rows, i, d.rows[i].anchor)
      BY <2>1 DEF Anchored
    <3>2. \A k \in 0 .. i : d.rows[k] = s[k]
      BY <2>1, <1>1, <1>2
    <3>3. i \in Int /\ s[i] = d.rows[i]
      BY <2>1, <1>1, <1>2
    <3>4. AnchorOf(s, i, d.rows[i].anchor)
      BY <3>1, <3>2, <3>3, AnchorLocal
    <3>5. QED
      BY <3>3, <3>4
  <2>2. CASE i \in DOMAIN b
    BY <2>2, <1>2, <1>a
  <2>3. QED
    BY <2>1, <2>2, <1>4
<1>7. \A i \in DOMAIN s : s[i].anchor # StreamStart => AnchorPersisted(s, s[i].anchor)
  BY <1>6, <1>2, AnchorIsPersisted DEF Anchored
<1>8. e.meta.safety = ComputeSeekSafety(s)
  <2>1. \A i \in DOMAIN s : Representable(s[i].ts)
    BY <1>5 DEF RowPossible
  <2>2. IncreasingKeyframes(s) <=> IncreasingKeyframes(d.rows) /\ ExtendsSafety(d.rows, b)
    BY <1>1, <1>2, <2>1, SafetyExtends DEF n
  <2>3. d.meta.safety = "unambiguous" <=> IncreasingKeyframes(d.rows)
    BY DEF ValidState, ComputeSeekSafety
  <2>4. QED
    BY <1>3, <2>2, <2>3 DEF ExtendedSafety, ComputeSeekSafety
<1>9. d.meta.frame_count = None
  BY DEF ValidState
<1>10. ValidState(e)
  BY <1>2, <1>3, <1>5, <1>7, <1>8, <1>9 DEF ValidState, s
<1>11. QED
  BY <1>6, <1>10 DEF e, s

-----------------------------------------------------------------------------

LEMMA EntryType ==
  ASSUME TypeOK, pos < media.count
  PROVE  /\ Decoded \in Frames /\ NewAnchor \in Anchors \cup {StreamStart}
         /\ Entry \in Entries
<1>1. IsTimeline(media) /\ pos \in 0 .. media.count - 1
  BY IndexingAssumption DEF TypeOK, IsTimeline
<1>2. Decoded \in Frames
  BY <1>1 DEF IsTimeline, Decoded
<1>3. NewAnchor \in Anchors \cup {StreamStart}
  BY <1>2 DEF TypeOK, NewAnchor, NextAnchor, Anchors, Frames
<1>4. QED
  BY <1>2, <1>3 DEF Entry, EntryFromDecoded, Entries, Frames

-----------------------------------------------------------------------------

LEMMA InitType == Init => TypeOK
<1> SUFFICES ASSUME Init PROVE TypeOK
  OBVIOUS
<1>1. /\ disk.schema \in {"absent", "foreign", "ready"}
      /\ disk.schema # "ready" => disk.meta = None /\ disk.rows = NoRows
      /\ disk.schema = "ready" => disk.meta \in Metas
  BY IndexingAssumption DEF Init, Absent
<1>2. QED
  BY <1>1 DEF Init, TypeOK, Opened, NoRows

(***************************************************************************)
(* Steps that leave the database, the source and the batch alone, or clear *)
(* the batch.                                                              *)
(***************************************************************************)
LEMMA ResetType ==
  ASSUME ResetLoop, ResetCursor
  PROVE  /\ expected' \in Nat /\ restarted' \in BOOLEAN /\ consumed' \in BOOLEAN
         /\ bounded' \in BOOLEAN /\ pending' \in BOOLEAN
         /\ checkpoint' \in Nat /\ scanned' \in Nat /\ pos' \in Nat /\ frame' \in Nat
         /\ anchor' \in Anchors \cup {StreamStart}
         /\ batch' \in [DOMAIN batch' -> Entries]
BY DEF ResetLoop, ResetCursor, NoRows

LEMMA OpenType ==
  ASSUME TypeOK, Launch \/ Open \/ CloseSession \/ Crash
  PROVE  TypeOK'
<1>1. CASE Launch
  BY <1>1 DEF TypeOK, Launch, Opened, loop, cursor
<1>2. CASE CreateTables
  BY <1>2 DEF TypeOK, CreateTables, Opened, Absent, env, loop, cursor
<1>3. CASE SetUserVersion
  BY <1>3, DatabaseFields DEF TypeOK, SetUserVersion, Opened, env, loop, cursor
<1>4. CASE RefuseHalfMigrated
  BY <1>4 DEF TypeOK, RefuseHalfMigrated, Opened, env, loop, cursor
<1>5. CASE PurgeAndReopen
  BY <1>5 DEF TypeOK, PurgeAndReopen, Opened, Absent, env, loop, cursor
<1>6. CASE BindIndex
  BY <1>6, EmptyIndexIsBound DEF TypeOK, BindIndex, Opened, Bound, env, loop, cursor
<1>7. CASE ReuseIndex
  BY <1>7, DispositionFacts DEF TypeOK, ReuseIndex, Opened, env, loop, cursor
<1>8. CASE CloseSession
  BY <1>8 DEF TypeOK, CloseSession, Opened, Absent, env, loop, cursor
<1>9. CASE Crash
  BY <1>9, ResetType DEF TypeOK, Crash, Opened, env
<1>10. QED
  BY <1>1, <1>2, <1>3, <1>4, <1>5, <1>6, <1>7, <1>8, <1>9 DEF Open

LEMMA BeginPassType ==
  ASSUME TypeOK, BeginPass
  PROVE  TypeOK'
<1>b. Opened => Bound(disk, source)
  BY DEF TypeOK, Bound
<1>t. IsTimeline(media)
  BY IndexingAssumption DEF TypeOK
<1>1. CASE ReturnComplete
  BY <1>1 DEF TypeOK, ReturnComplete, Opened, env, loop, cursor
<1>2. CASE StartBuild
  BY <1>2, Zenon DEF TypeOK, StartBuild, Opened, Metas, env, cursor
<1>3. CASE DecoderUnavailable
  BY <1>3, ResetType DEF TypeOK, DecoderUnavailable, Stop, Opened, env
<1>4. CASE StartReplay
  <2>1. Bound(disk', source)
    BY <1>b, <1>4, OperationsKeepBinding DEF TypeOK, Opened, StartReplay, Lifecycles
  <2>2. consumed' \in BOOLEAN
    BY <1>4 DEF TypeOK, StartReplay
  <2>3. QED
    BY <1>4, <2>1, <2>2 DEF TypeOK, StartReplay, ResetCursor, NoRows, Opened, Bound, env
<1>5. CASE SeekToCheckpoint
  <2>1. checkpoint' \in Nat /\ pos' \in Nat
    BY <1>5, <1>t DEF SeekToCheckpoint, ResumeCheckpoints, SeekLandings, IsTimeline
  <2>2. QED
    BY <1>5, <2>1 DEF TypeOK, SeekToCheckpoint, Opened, env
<1>6. CASE SeekFails
  BY <1>6 DEF TypeOK, SeekFails, Opened, env, cursor
<1>7. CASE SeekCancelled
  BY <1>7, ResetType DEF TypeOK, SeekCancelled, Stop, Opened, env
<1>8. CASE ScanMisses
  <2>1. CASE scanned + 1 >= ScanLimit
    <3>1. pc = "scan" /\ FallBack /\ UNCHANGED <<disk, env, verdict, loop>>
      BY <1>8, <2>1 DEF ScanMisses
    <3>2. QED
      BY <3>1, Zenon DEF TypeOK, FallBack, ResetCursor, NoRows, Opened, env, loop
  <2>2. CASE ~(scanned + 1 >= ScanLimit)
    BY <1>8, <2>2 DEF TypeOK, ScanMisses, Opened, env, loop
  <2>3. QED
    BY <2>1, <2>2
<1>9. CASE ScanGivesUp
  BY <1>9, Zenon DEF TypeOK, ScanGivesUp, FallBack, ResetCursor, NoRows, Opened, env, loop
<1>10. CASE ScanCancelled
  BY <1>10, ResetType DEF TypeOK, ScanCancelled, Stop, Opened, env
<1>11. CASE ScanMatches
  <2>1. Bound(disk', source)
    BY <1>b, <1>11, OperationsKeepBinding DEF TypeOK, Opened, ScanMatches, Lifecycles
  <2>2. QED
    BY <1>11, <2>1 DEF TypeOK, ScanMatches, Opened, Bound, env, loop
<1>12. QED
  BY <1>1, <1>2, <1>3, <1>4, <1>5, <1>6, <1>7, <1>8, <1>9, <1>10, <1>11 DEF BeginPass

LEMMA FlushKeepsBinding ==
  ASSUME TypeOK, Opened, Flush
  PROVE  Bound(disk', source)
<1>1. Bound(disk, source) /\ frame \in Nat /\ source \in Identities
  BY DEF TypeOK, Bound
<1>2. QED
  BY <1>1, OperationsKeepBinding DEF Flush

LEMMA AdvanceType ==
  ASSUME TypeOK, pos < media.count, Advance
  PROVE  /\ anchor' \in Anchors \cup {StreamStart}
         /\ frame' \in Nat /\ pos' \in Nat /\ pending' \in BOOLEAN
<1>1. anchor' \in Anchors \cup {StreamStart}
  BY EntryType DEF Advance
<1>2. frame' = frame + 1 /\ pos' = pos + 1 /\ pending' = FALSE
  BY DEF Advance
<1>3. frame \in Nat /\ pos \in Nat
  BY DEF TypeOK
<1>4. pending' \in BOOLEAN
  BY <1>2, Zenon
<1>5. QED
  BY <1>1, <1>2, <1>3, <1>4, SMT

LEMMA DecodePassType ==
  ASSUME TypeOK, DecodePass
  PROVE  TypeOK'
<1>b. Opened => Bound(disk, source)
  BY DEF TypeOK, Bound
<1>1. CASE RejectEntry
  BY <1>1, ResetType DEF TypeOK, RejectEntry, HasFrame, Opened, env
<1>2. CASE ReconcileRow
  BY <1>2, AdvanceType, Zenon DEF TypeOK, ReconcileRow, HasFrame, Advance, Opened, env, loop
<1>3. CASE PushEntry
  <2> DEFINE pushed == [i \in DOMAIN batch \cup {frame} |-> IF i = frame THEN Entry ELSE batch[i]]
  <2>1. pushed \in [DOMAIN pushed -> Entries]
    BY <1>3, EntryType DEF TypeOK, PushEntry, HasFrame
  <2>2. batch' = pushed \/ batch' = NoRows
    BY <1>3 DEF PushEntry
  <2>3. batch' \in [DOMAIN batch' -> Entries]
    BY <2>1, <2>2, Zenon DEF NoRows
  <2>4. frame + 1 \in Nat /\ Bound(disk, source)
    BY <1>3, <1>b DEF TypeOK, Opened, PushEntry, HasFrame
  <2>5. disk' = disk \/ disk' = AppendBatch(disk, pushed, frame + 1)
    BY <1>3 DEF PushEntry
  <2>6. Bound(disk', source)
    BY <2>4, <2>5, OperationsKeepBinding DEF TypeOK
  <2> HIDE DEF pushed
  <2>7. QED
    BY <1>3, <2>3, <2>6, AdvanceType, Zenon DEF TypeOK, PushEntry, HasFrame, Advance, Opened, Bound, env, loop
<1>4. CASE DivergeAfterSeek
  BY <1>4, Zenon DEF TypeOK, DivergeAfterSeek, Diverges, FallBack, ResetCursor, NoRows, Opened, env, loop
<1>5. CASE RebuildOnce
  <2>1. Bound(disk', source)
    BY <1>5, <1>b, OperationsKeepBinding DEF TypeOK, RebuildOnce, Diverges, Opened
  <2>2. QED
    BY <1>5, <2>1, Zenon DEF TypeOK, RebuildOnce, FallBack, ResetCursor, NoRows, Opened, Bound, env
<1>6. CASE DecodeStops
  <2>1. Bound(disk', source)
    BY <1>6, FlushKeepsBinding DEF DecodeStops, Opened
  <2>2. QED
    BY <1>6, <2>1, ResetType DEF TypeOK, DecodeStops, Stop, Opened, Bound, env
<1>7. CASE FlushFails
  BY <1>7, ResetType DEF TypeOK, FlushFails, Stop, Opened, env
<1>8. CASE StorageFails
  BY <1>8, ResetType DEF TypeOK, StorageFails, Opened, env
<1>9. CASE EndOfStream
  <2>1. Bound(disk', source)
    BY <1>9, FlushKeepsBinding DEF EndOfStream, Opened
  <2>2. QED
    BY <1>9, <2>1 DEF TypeOK, EndOfStream, NoRows, Opened, Bound, env, loop
<1>10. CASE Complete
  <2>1. Bound(disk', source)
    BY <1>10, <1>b, OperationsKeepBinding DEF TypeOK, Complete, Opened
  <2>2. QED
    BY <1>10, <2>1, ResetType DEF TypeOK, Complete, Opened, Bound, env
<1>11. CASE RecordVerdict
  <2>1. Bound(disk', source)
    BY <1>11, <1>b, OperationsKeepBinding DEF TypeOK, RecordVerdict, Opened, Lifecycles
  <2>2. QED
    BY <1>11, <2>1 DEF TypeOK, RecordVerdict, Opened, Bound, env, loop, cursor
<1>12. QED
  BY <1>1, <1>2, <1>3, <1>4, <1>5, <1>6, <1>7, <1>8, <1>9, <1>10, <1>11 DEF DecodePass

LEMMA NextType == TypeOK /\ [Next]_vars => TypeOK'
<1>1. ASSUME TypeOK, UNCHANGED vars
      PROVE  TypeOK'
  BY <1>1 DEF TypeOK, Opened, vars, env, loop, cursor
<1>2. QED
  BY <1>1, OpenType, BeginPassType, DecodePassType DEF Next

(***************************************************************************)
(* The state of an indexing session stays well typed, and an open database *)
(* stays bound to the source that was opened.                              *)
(***************************************************************************)
THEOREM TypeCorrect == Spec => []TypeOK
BY InitType, NextType, PTL DEF Spec

-----------------------------------------------------------------------------
(***************************************************************************)
(* StoreInv.                                                               *)
(***************************************************************************)
LEMMA OpenedFacts ==
  ASSUME TypeOK, StoreInv, Opened
  PROVE  /\ Bound(disk, source) /\ Recognised(disk) /\ ValidState(disk)
         /\ Anchored(disk.rows) /\ disk.meta \in Metas /\ disk.meta.indexed \in Nat
         /\ DOMAIN disk.rows = 0 .. disk.meta.indexed - 1
<1>1. Bound(disk, source) /\ disk.meta \in Metas /\ disk.meta.indexed \in Nat
  BY DEF TypeOK, Bound, Metas
<1>2. ValidState(disk)
  BY DEF StoreInv
<1>3. disk.meta # None
  BY <1>1, StoreAssumption DEF Metas
<1>4. Recognised(disk)
  BY <1>1, <1>2, <1>3 DEF Recognised, Bound
<1>5. QED
  BY <1>1, <1>2, <1>4 DEF StoreInv, ValidState

\* Outside a build only what is stored matters.
LEMMA StoreInvOutside ==
  ASSUME pc' \notin {"attempt", "scan", "decode", "finish"},
         Recognised(disk') => Anchored(disk'.rows),
         Opened' => ValidState(disk'),
         restarted' => expected' = 0,
         batch' = NoRows
  PROVE  StoreInv'
BY DEF StoreInv

LEMMA RecordKeepsStore ==
  ASSUME NEW d, d.meta \in Metas, ValidState(d), Anchored(d.rows),
         NEW l \in Lifecycles, l # "complete"
  PROVE  ValidState(SetLifecycle(d, l)) /\ Anchored(SetLifecycle(d, l).rows)
<1> DEFINE e == SetLifecycle(d, l)
<1>1. /\ e.rows = d.rows /\ e.meta.lifecycle = l /\ e.meta.frame_count = None
      /\ e.meta.indexed = d.meta.indexed /\ e.meta.safety = d.meta.safety
  BY SetLifecycleFacts
<1> HIDE DEF e
<1>2. ValidState(e)
  BY <1>1, SameRowsValid
<1>3. QED
  BY <1>1, <1>2 DEF e

LEMMA CompleteKeepsStore ==
  ASSUME NEW d, d.meta \in Metas, ValidState(d), Anchored(d.rows)
  PROVE  ValidState(MarkComplete(d)) /\ Anchored(MarkComplete(d).rows)
<1> DEFINE e == MarkComplete(d)
<1>1. /\ e.rows = d.rows /\ e.meta.lifecycle = "complete" /\ e.meta.frame_count = d.meta.indexed
      /\ e.meta.indexed = d.meta.indexed /\ e.meta.safety = d.meta.safety
  BY MarkCompleteFacts
<1> HIDE DEF e
<1>2. ValidState(e)
  BY <1>1, SameRowsValid
<1>3. QED
  BY <1>1, <1>2 DEF e

LEMMA ClearKeepsStore ==
  ASSUME NEW d, d.meta \in Metas
  PROVE  ValidState(ClearForRebuild(d)) /\ Anchored(ClearForRebuild(d).rows)
<1> DEFINE e == ClearForRebuild(d)
<1>1. /\ e.rows = NoRows /\ e.meta.lifecycle = "incomplete" /\ e.meta.frame_count = None
      /\ e.meta.indexed = 0 /\ e.meta.safety = "unambiguous"
  BY ClearFacts
<1> HIDE DEF e
<1>2. ValidState(e)
  BY <1>1, EmptyIsValid
<1>3. QED
  BY <1>1, <1>2, NoRowsFacts DEF e

LEMMA NewKeepsStore ==
  ASSUME NEW id \in Identities
  PROVE  ValidState(EmptyIndex(id)) /\ Anchored(EmptyIndex(id).rows)
<1> DEFINE e == EmptyIndex(id)
<1>1. /\ e.rows = NoRows /\ e.meta.lifecycle = "incomplete" /\ e.meta.frame_count = None
      /\ e.meta.indexed = 0 /\ e.meta.safety = "unambiguous"
  BY NewMetaFacts, DatabaseFields DEF EmptyIndex
<1> HIDE DEF e
<1>2. ValidState(e)
  BY <1>1, EmptyIsValid
<1>3. QED
  BY <1>1, <1>2, NoRowsFacts DEF e

LEMMA InitStore == Init => StoreInv
<1> SUFFICES ASSUME Init PROVE StoreInv
  OBVIOUS
<1>1. pc = "down" /\ ~restarted /\ batch = NoRows
  BY DEF Init
<1>2. ~Recognised(disk)
  BY IndexingAssumption DEF Init, Absent, Recognised
<1>3. QED
  BY <1>1, <1>2 DEF StoreInv, Opened

LEMMA OpenStore ==
  ASSUME TypeOK, StoreInv, Launch \/ Open \/ CloseSession \/ Crash
  PROVE  StoreInv'
<1>a. ~Recognised(Absent)
  BY DEF Recognised, Absent
<1>1. CASE Launch
  BY <1>1, StoreInvOutside DEF Launch, StoreInv, Opened, loop, cursor
<1>2. CASE CreateTables
  <2>1. ~Recognised(disk')
    BY <1>2 DEF CreateTables, Recognised, Absent
  <2>2. QED
    BY <1>2, <2>1, StoreInvOutside DEF CreateTables, StoreInv, Opened, loop, cursor
<1>3. CASE SetUserVersion
  <2>1. disk'.meta = None
    BY <1>3, DatabaseFields DEF TypeOK, SetUserVersion
  <2>2. ~Recognised(disk')
    BY <2>1 DEF Recognised
  <2>3. QED
    BY <1>3, <2>2, StoreInvOutside DEF SetUserVersion, StoreInv, Opened, loop, cursor
<1>4. CASE RefuseHalfMigrated
  BY <1>4, StoreInvOutside DEF RefuseHalfMigrated, StoreInv, Opened, loop, cursor
<1>5. CASE PurgeAndReopen
  BY <1>5, <1>a, StoreInvOutside DEF PurgeAndReopen, StoreInv, Opened, loop, cursor
<1>6. CASE BindIndex
  BY <1>6, NewKeepsStore, StoreInvOutside DEF TypeOK, BindIndex, StoreInv, Opened, loop, cursor
<1>7. CASE ReuseIndex
  BY <1>7, DispositionFacts, StoreInvOutside DEF ReuseIndex, StoreInv, Opened, loop, cursor
<1>8. CASE CloseSession
  BY <1>8, <1>a, StoreInvOutside DEF CloseSession, StoreInv, Opened, loop, cursor
<1>9. CASE Crash
  BY <1>9, StoreInvOutside DEF Crash, StoreInv, Opened, ResetLoop, ResetCursor
<1>10. QED
  BY <1>1, <1>2, <1>3, <1>4, <1>5, <1>6, <1>7, <1>8, <1>9 DEF Open

LEMMA StopStore ==
  ASSUME TypeOK, StoreInv, Opened, disk' = disk, ResetLoop, ResetCursor,
         pc' \in {"stop", "failed"}
  PROVE  StoreInv'
BY OpenedFacts, StoreInvOutside DEF ResetLoop, ResetCursor

LEMMA BeginPassStore ==
  ASSUME TypeOK, StoreInv, BeginPass
  PROVE  StoreInv'
<1>o. Opened => /\ disk.meta \in Metas /\ ValidState(disk) /\ Anchored(disk.rows)
                /\ disk.meta.indexed \in Nat
  BY OpenedFacts
<1>b. Opened => LET e == SetLifecycle(disk, "building")
                IN /\ ValidState(e) /\ Anchored(e.rows)
                   /\ e.meta.lifecycle = "building" /\ e.meta.indexed = disk.meta.indexed
  BY <1>o, RecordKeepsStore, SetLifecycleFacts DEF Lifecycles
<1>1. CASE ReturnComplete
  BY <1>1, StoreInvOutside DEF StoreInv, ReturnComplete, Opened, loop, cursor
<1>2. CASE StartBuild
  BY <1>2 DEF StoreInv, StartBuild, Opened, cursor
<1>3. CASE DecoderUnavailable
  BY <1>3, StopStore DEF DecoderUnavailable, Stop, Opened
<1>4. CASE StartReplay
  <2>1. pc = "attempt" /\ expected = disk.meta.indexed /\ disk.meta.indexed \in Nat
        /\ (restarted => expected = 0) /\ Opened
    BY <1>4, <1>o DEF StoreInv, StartReplay, Opened
  <2>2. disk' = SetLifecycle(disk, "building")
    BY <1>4 DEF StartReplay
  <2>3. /\ ValidState(disk') /\ Anchored(disk'.rows)
        /\ disk'.meta.lifecycle = "building" /\ disk'.meta.indexed = expected
    BY <1>b, <2>1, <2>2
  <2>4. /\ pc' = "decode" /\ frame' = 0 /\ ~pending' /\ anchor' = StreamStart /\ batch' = NoRows
        /\ expected' = expected /\ restarted' = restarted
    BY <1>4 DEF StartReplay, ResetCursor
  <2>5. DOMAIN batch' = expected .. 0 - 1
    BY <2>1, <2>4, NoRowsFacts
  <2>6. AnchorOf(Recent', 0 - 1, StreamStart)
    BY DEF AnchorOf
  <2>7. QED
    BY <2>1, <2>3, <2>4, <2>5, <2>6 DEF StoreInv
<1>5. CASE SeekToCheckpoint
  BY <1>5 DEF StoreInv, SeekToCheckpoint, Opened
<1>6. CASE SeekFails
  BY <1>6 DEF StoreInv, SeekFails, Opened, cursor
<1>7. CASE SeekCancelled
  BY <1>7, StopStore DEF SeekCancelled, Stop, Opened
<1>8. CASE ScanMisses
  <2>1. CASE scanned + 1 >= ScanLimit
    <3>1. pc = "scan" /\ FallBack /\ UNCHANGED <<disk, env, verdict, loop>>
      BY <1>8, <2>1 DEF ScanMisses
    <3>2. QED
      BY <3>1 DEF StoreInv, FallBack, ResetCursor, Opened, loop
  <2>2. CASE ~(scanned + 1 >= ScanLimit)
    BY <1>8, <2>2 DEF StoreInv, ScanMisses, Opened, loop
  <2>3. QED
    BY <2>1, <2>2
<1>9. CASE ScanGivesUp
  BY <1>9 DEF StoreInv, ScanGivesUp, FallBack, ResetCursor, Opened, loop
<1>10. CASE ScanCancelled
  BY <1>10, StopStore DEF ScanCancelled, Stop, Opened
<1>11. CASE ScanMatches
  <2>1. /\ pc = "scan" /\ expected = disk.meta.indexed /\ disk.meta.indexed \in Nat
        /\ (restarted => expected = 0) /\ Opened /\ batch = NoRows
        /\ checkpoint \in ResumeCheckpoints(disk, expected)
    BY <1>11, <1>o DEF StoreInv, ScanMatches, Opened
  <2>2. disk' = SetLifecycle(disk, "building")
    BY <1>11 DEF ScanMatches
  <2>3. /\ ValidState(disk') /\ Anchored(disk'.rows)
        /\ disk'.meta.lifecycle = "building" /\ disk'.meta.indexed = expected
    BY <1>b, <2>1, <2>2
  <2>4. /\ pc' = "decode" /\ frame' = checkpoint /\ pending' = TRUE /\ batch' = NoRows
        /\ expected' = expected /\ restarted' = restarted /\ pos' = pos /\ media' = media
    BY <1>11, <2>1 DEF ScanMatches, loop, env
  <2>5. checkpoint \in 1 .. expected - 1 /\ Clean(disk.rows[checkpoint])
    BY <2>1 DEF ResumeCheckpoints
  <2>6. DOMAIN batch' = expected .. checkpoint - 1
    BY <2>1, <2>4, <2>5, NoRowsFacts
  <2>7. pos < media.count /\ Clean(media.frame[pos])
    BY <1>11, <2>5 DEF ScanMatches, MatchesEntry, Clean
  <2>8. pc' = "decode" /\ pending' /\ batch' = NoRows /\ (restarted' => expected' = 0)
    BY <2>1, <2>4
  <2>9. /\ expected' <= disk'.meta.indexed /\ expected' = disk'.meta.indexed
        /\ DOMAIN batch' = disk'.meta.indexed .. frame' - 1 /\ DOMAIN batch' = {}
        /\ pos' < media'.count /\ Clean(media'.frame[pos']) /\ frame' < expected'
    <3>1. expected \in Nat /\ checkpoint \in Nat /\ checkpoint < expected
      BY <2>1, <2>5
    <3>2. expected' = expected /\ disk'.meta.indexed = expected /\ frame' = checkpoint
      BY <2>3, <2>4, Zenon
    <3>3. DOMAIN batch' = disk'.meta.indexed .. frame' - 1
      BY <2>6, <3>2, Zenon
    <3>4. DOMAIN batch' = {}
      BY <2>6, <3>1
    <3>5. pos' < media'.count /\ Clean(media'.frame[pos'])
      BY <2>4, <2>7, Zenon
    <3> QED BY <3>1, <3>2, <3>3, <3>4, <3>5
  <2>10. QED
    BY <2>3, <2>8, <2>9 DEF StoreInv
<1>12. QED
  BY <1>1, <1>2, <1>3, <1>4, <1>5, <1>6, <1>7, <1>8, <1>9, <1>10, <1>11 DEF BeginPass

LEMMA DecodeFacts ==
  ASSUME TypeOK, StoreInv, pc = "decode"
  PROVE  /\ disk.meta \in Metas /\ ValidState(disk) /\ Anchored(disk.rows)
         /\ disk.meta.indexed \in Nat /\ DOMAIN disk.rows = 0 .. disk.meta.indexed - 1
         /\ disk.meta.lifecycle # "complete"
         /\ frame \in Nat /\ expected \in Nat /\ pos \in Nat
         /\ expected <= disk.meta.indexed
         /\ expected = disk.meta.indexed \/ disk.meta.indexed <= frame
         /\ DOMAIN batch = disk.meta.indexed .. frame - 1
         /\ batch \in [DOMAIN batch -> Entries]
         /\ restarted => expected = 0
<1>1. Opened
  BY DEF Opened
<1>2. QED
  BY <1>1, OpenedFacts DEF TypeOK, StoreInv

LEMMA EmptyBatch ==
  ASSUME TypeOK, DOMAIN batch = {}
  PROVE  batch = NoRows
BY DEF TypeOK, NoRows

LEMMA RecentFacts ==
  ASSUME TypeOK
  PROVE  \A i \in 0 .. frame - 1 : Recent[i] = IF i \in DOMAIN disk.rows THEN disk.rows[i] ELSE batch[i]
BY DEF Recent

(***************************************************************************)
(* A flush leaves a valid database; what it adds are the rows of the batch.*)
(***************************************************************************)
LEMMA FlushStore ==
  ASSUME TypeOK, StoreInv, pc = "decode", Flush
  PROVE  /\ ValidState(disk') /\ Anchored(disk'.rows)
         /\ disk'.meta.lifecycle = disk.meta.lifecycle
         /\ disk.meta.indexed <= frame =>
              /\ disk'.meta.indexed = frame
              /\ \A i \in 0 .. frame - 1 : disk'.rows[i] = Recent[i]
<1>d. /\ disk.meta \in Metas /\ ValidState(disk) /\ Anchored(disk.rows)
      /\ disk.meta.indexed \in Nat /\ DOMAIN disk.rows = 0 .. disk.meta.indexed - 1
      /\ disk.meta.lifecycle # "complete" /\ frame \in Nat
      /\ DOMAIN batch = disk.meta.indexed .. frame - 1
      /\ batch \in [DOMAIN batch -> Entries]
  BY DecodeFacts
<1>1. CASE batch = NoRows
  <2>1. disk' = disk
    BY <1>1 DEF Flush
  <2>2. disk.meta.indexed <= frame => disk.meta.indexed = frame
    BY <1>1, <1>d, NoRowsFacts
  <2>3. QED
    BY <1>d, <2>1, <2>2, RecentFacts
<1>2. CASE batch # NoRows
  <2>1. disk' = AppendBatch(disk, batch, frame) /\ BatchAccepted(disk, batch, frame)
    BY <1>2 DEF Flush
  <2>2. disk.meta.indexed <= frame
    BY <1>2, <1>d, EmptyBatch
  <2>3. AppendBatch(disk, batch, frame).rows = Recent
    BY <1>d, AppendRows DEF Recent
  <2>4. \A i \in DOMAIN batch : AnchorOf(Recent, i, batch[i].anchor)
    BY DEF StoreInv
  <2>5. ValidState(disk') /\ Anchored(disk'.rows)
    BY <1>d, <2>1, <2>2, <2>3, <2>4, AppendIsValid
  <2>6. disk'.meta.lifecycle = disk.meta.lifecycle /\ disk'.meta.indexed = frame
    BY <1>d, <2>1, AppendFacts
  <2>7. QED
    BY <2>1, <2>3, <2>5, <2>6
<1>3. QED
  BY <1>1, <1>2

(***************************************************************************)
(* The decoded frame's anchor, over the rows up to and including it.       *)
(***************************************************************************)
LEMMA NewAnchorRight ==
  ASSUME TypeOK, StoreInv, HasFrame, NEW r,
         \A i \in 0 .. frame - 1 : r[i] = Recent[i], r[frame] = Entry
  PROVE  AnchorOf(r, frame, NewAnchor)
<1>1. frame \in Nat /\ Decoded.ts \in OptTicks
  BY EntryType DEF TypeOK, HasFrame, Frames
<1>2. Clean(r[frame]) = Clean(Decoded) /\ r[frame].ts = Decoded.ts
  BY SMTT(40) DEF Entry, EntryFromDecoded, Clean
<1>3. Clean(Decoded) \/ AnchorOf(r, frame - 1, anchor)
  <2>1. pending => Clean(Decoded)
    BY DEF StoreInv, HasFrame, Decoded
  <2>2. ~pending => AnchorOf(Recent, frame - 1, anchor)
    <3>1. IF pending THEN pos < media.count /\ Clean(media.frame[pos]) /\ frame < expected
          ELSE AnchorOf(Recent, frame - 1, anchor)
      BY Zenon DEF StoreInv, HasFrame
    <3>2. QED
      BY <3>1, Zenon
  <2>3. QED
    BY <1>1, <2>1, <2>2, AnchorLocal
<1>4. QED
  BY <1>1, <1>2, <1>3, AnchorStep DEF NewAnchor

LEMMA ReconcileStore ==
  ASSUME TypeOK, StoreInv, ReconcileRow
  PROVE  StoreInv'
<1>1. pc = "decode" /\ HasFrame /\ frame < expected /\ disk.rows[frame] = Entry
  BY DEF ReconcileRow, HasFrame
<1>2. /\ disk' = disk /\ batch' = batch /\ pc' = pc /\ expected' = expected
      /\ restarted' = restarted /\ frame' = frame + 1 /\ anchor' = NewAnchor /\ pending' = FALSE
  BY DEF ReconcileRow, Advance, loop
<1>d. /\ ValidState(disk) /\ Anchored(disk.rows) /\ disk.meta.indexed \in Nat
      /\ DOMAIN disk.rows = 0 .. disk.meta.indexed - 1 /\ disk.meta.lifecycle # "complete"
      /\ frame \in Nat /\ expected \in Nat /\ expected <= disk.meta.indexed
      /\ expected = disk.meta.indexed \/ disk.meta.indexed <= frame
      /\ DOMAIN batch = disk.meta.indexed .. frame - 1
      /\ restarted => expected = 0
  BY <1>1, DecodeFacts
<1>3. expected = disk.meta.indexed /\ DOMAIN batch = {}
  BY <1>1, <1>d
<1>4. DOMAIN batch = disk.meta.indexed .. (frame + 1) - 1
  BY <1>1, <1>3, <1>d
<1>5. \A i \in 0 .. frame : Recent'[i] = disk.rows[i]
  BY <1>1, <1>2, <1>3, <1>d DEF Recent
<1>6. \A i \in 0 .. frame - 1 : Recent[i] = disk.rows[i]
  BY <1>1, <1>3, <1>d DEF Recent
<1>7. \A i \in 0 .. frame - 1 : Recent'[i] = Recent[i]
  BY <1>5, <1>6, <1>d
<1>8. Recent'[frame] = Entry
  BY <1>1, <1>5, <1>d
<1>9. AnchorOf(Recent', frame, NewAnchor)
  BY <1>1, <1>7, <1>8, NewAnchorRight
<1>10. (frame + 1) - 1 = frame
  BY <1>d
<1>11. QED
  BY <1>1, <1>2, <1>3, <1>4, <1>9, <1>10, <1>d DEF StoreInv

\* What is to be shown of a pass that goes on and waits for no keyframe.
LEMMA DecodingStore ==
  ASSUME pc' = "decode", ValidState(disk)', Anchored(disk'.rows),
         disk'.meta.lifecycle # "complete", restarted' => expected' = 0,
         expected' <= disk'.meta.indexed,
         expected' = disk'.meta.indexed \/ disk'.meta.indexed <= frame',
         DOMAIN batch' = disk'.meta.indexed .. frame' - 1,
         \A i \in DOMAIN batch' : ValidEntry(batch'[i], i) /\ AnchorOf(Recent', i, batch'[i].anchor),
         ~pending', AnchorOf(Recent', frame' - 1, anchor')
  PROVE  StoreInv'
BY DEF StoreInv

LEMMA PushStore ==
  ASSUME TypeOK, StoreInv, PushEntry
  PROVE  StoreInv'
<1> DEFINE n == disk.meta.indexed
           pushed == [i \in DOMAIN batch \cup {frame} |-> IF i = frame THEN Entry ELSE batch[i]]
           r == [i \in 0 .. frame |-> IF i \in DOMAIN disk.rows THEN disk.rows[i] ELSE pushed[i]]
<1>1. pc = "decode" /\ HasFrame /\ frame >= expected /\ ValidEntry(Entry, frame)
  BY DEF PushEntry, HasFrame
<1>2. /\ pc' = pc /\ expected' = expected /\ restarted' = restarted
      /\ frame' = frame + 1 /\ anchor' = NewAnchor /\ pending' = FALSE
  BY DEF PushEntry, Advance, loop
<1>d. /\ disk.meta \in Metas /\ ValidState(disk) /\ Anchored(disk.rows) /\ n \in Nat
      /\ DOMAIN disk.rows = 0 .. n - 1 /\ disk.meta.lifecycle # "complete"
      /\ frame \in Nat /\ expected \in Nat /\ expected <= n
      /\ n <= frame
      /\ DOMAIN batch = n .. frame - 1
      /\ batch \in [DOMAIN batch -> Entries]
      /\ restarted => expected = 0
  BY <1>1, DecodeFacts
<1>e. Entry \in Entries /\ Entry.anchor = NewAnchor
  BY <1>1, EntryType DEF HasFrame, Entry, EntryFromDecoded
<1>3. DOMAIN pushed = n .. frame /\ pushed[frame] = Entry
      /\ \A i \in DOMAIN batch : pushed[i] = batch[i]
  BY <1>d
<1>4. pushed \in [DOMAIN pushed -> Entries]
  BY <1>d, <1>e
<1> HIDE DEF pushed, n
<1>5. r[frame] = Entry /\ \A i \in 0 .. frame - 1 : r[i] = Recent[i]
  <2>1. frame \notin DOMAIN disk.rows /\ frame \in 0 .. frame
    BY <1>d
  <2>2. ASSUME NEW i \in 0 .. frame - 1 PROVE r[i] = Recent[i]
    <3>1. i \in 0 .. frame /\ (i \in DOMAIN disk.rows \/ i \in DOMAIN batch)
      BY <1>d
    <3>2. QED
      BY <3>1, <1>3, RecentFacts
  <2>3. QED
    BY <2>1, <2>2, <1>3
<1>a. DOMAIN r = 0 .. frame
  OBVIOUS
<1> HIDE DEF r
<1>6. AnchorOf(r, frame, NewAnchor)
  BY <1>1, <1>5, NewAnchorRight
<1>7. \A i \in DOMAIN pushed : ValidEntry(pushed[i], i) /\ AnchorOf(r, i, pushed[i].anchor)
  <2> SUFFICES ASSUME NEW i \in DOMAIN pushed
               PROVE  ValidEntry(pushed[i], i) /\ AnchorOf(r, i, pushed[i].anchor)
    OBVIOUS
  <2>1. CASE i = frame
    BY <2>1, <1>1, <1>3, <1>6, <1>e
  <2>2. CASE i # frame
    <3>1. i \in DOMAIN batch /\ pushed[i] = batch[i] /\ i \in 0 .. frame - 1
      BY <2>2, <1>3, <1>d
    <3>2. ValidEntry(batch[i], i) /\ AnchorOf(Recent, i, batch[i].anchor)
      BY <3>1, <1>1 DEF StoreInv
    <3>3. \A k \in 0 .. i : r[k] = Recent[k]
      BY <3>1, <1>5, <1>d
    <3>4. QED
      BY <3>1, <3>2, <3>3, AnchorLocal
  <2>3. QED
    BY <2>1, <2>2
<1>x. (frame + 1) - 1 = frame
  BY <1>d
<1>8. CASE frame + 1 - n < BatchSize
  <2>1. batch' = pushed /\ disk' = disk
    BY <1>8 DEF PushEntry, pushed, n
  <2>2. Recent' = r
    BY <1>2, <1>x, <2>1 DEF Recent, r
  <2>3. QED
    <3>1. /\ pc' = "decode" /\ ValidState(disk)' /\ Anchored(disk'.rows)
          /\ disk'.meta.lifecycle # "complete" /\ (restarted' => expected' = 0) /\ ~pending'
      BY <1>1, <1>2, <1>d, <2>1
    <3>2. /\ expected' <= disk'.meta.indexed /\ disk'.meta.indexed <= frame'
          /\ DOMAIN batch' = disk'.meta.indexed .. frame' - 1
      BY <1>2, <1>3, <1>x, <1>d, <2>1 DEF n
    <3>3. \A i \in DOMAIN batch' : ValidEntry(batch'[i], i) /\ AnchorOf(Recent', i, batch'[i].anchor)
      BY <1>7, <2>1, <2>2
    <3>4. AnchorOf(Recent', frame' - 1, anchor')
      BY <1>2, <1>6, <1>x, <2>2
    <3> QED BY <3>1, <3>2, <3>3, <3>4, DecodingStore
<1>9. CASE ~(frame + 1 - n < BatchSize)
  <2>1. /\ BatchAccepted(disk, pushed, frame + 1) /\ batch' = NoRows
        /\ disk' = AppendBatch(disk, pushed, frame + 1)
    BY <1>9 DEF PushEntry, pushed, n
  <2>2. frame + 1 \in Nat /\ n <= frame + 1
    BY <1>d
  <2>3. AppendBatch(disk, pushed, frame + 1).rows = r
    BY <1>x, <2>2, AppendRows, SMTT(40) DEF r
  <2>4. ValidState(disk') /\ Anchored(disk'.rows)
    BY <1>4, <1>7, <1>d, <2>1, <2>2, <2>3, AppendIsValid DEF n
  <2>5. disk'.meta.lifecycle = disk.meta.lifecycle /\ disk'.meta.indexed = frame + 1
    BY <1>d, <2>1, <2>2, AppendFacts
  <2>6. DOMAIN batch' = frame + 1 .. frame
    BY <1>d, <2>1, NoRowsFacts
  <2>7. \A i \in 0 .. frame : Recent'[i] = r[i]
    BY <1>2, <1>x, <1>a, <2>1, <2>3, Zenon DEF Recent
  <2>8. AnchorOf(Recent', frame, NewAnchor)
    BY <1>6, <1>d, <2>7, AnchorLocal
  <2>9. expected <= frame + 1
    BY <1>d
  <2>10. QED
    <3>1. /\ pc' = "decode" /\ ValidState(disk)' /\ Anchored(disk'.rows)
          /\ disk'.meta.lifecycle # "complete" /\ (restarted' => expected' = 0) /\ ~pending'
      BY <1>1, <1>2, <1>d, <2>4, <2>5
    <3>2. /\ expected' <= disk'.meta.indexed /\ disk'.meta.indexed <= frame'
          /\ DOMAIN batch' = disk'.meta.indexed .. frame' - 1
      BY <1>2, <1>x, <1>d, <2>5, <2>6, <2>9
    <3>3. DOMAIN batch' = {}
      BY <1>d, <2>6
    <3>4. AnchorOf(Recent', frame' - 1, anchor')
      BY <1>2, <1>x, <2>8
    <3> QED BY <3>1, <3>2, <3>3, <3>4, DecodingStore
<1>10. QED
  BY <1>8, <1>9

LEMMA DecodePassStore ==
  ASSUME TypeOK, StoreInv, DecodePass
  PROVE  StoreInv'
<1>o. Opened => disk.meta \in Metas /\ ValidState(disk) /\ Anchored(disk.rows)
  BY OpenedFacts
<1>1. CASE RejectEntry
  BY <1>1, StopStore DEF RejectEntry, HasFrame, Opened
<1>2. CASE ReconcileRow
  BY <1>2, ReconcileStore
<1>3. CASE PushEntry
  BY <1>3, PushStore
<1>4. CASE DivergeAfterSeek
  <2>1. pc = "decode" /\ frame < expected
    BY <1>4 DEF DivergeAfterSeek, Diverges
  <2>2. expected = disk.meta.indexed
    BY <2>1, DecodeFacts, SMTT(30)
  <2>3. QED
    BY <1>4, <2>1, <2>2 DEF StoreInv, DivergeAfterSeek, FallBack, ResetCursor, Opened, loop
<1>5. CASE RebuildOnce
  <2>1. Opened /\ disk' = ClearForRebuild(disk)
    BY <1>5 DEF RebuildOnce, Diverges, Opened
  <2>2. /\ ValidState(disk') /\ Anchored(disk'.rows)
        /\ disk'.meta.indexed = 0 /\ disk'.meta.lifecycle = "incomplete"
    BY <1>o, <2>1, ClearKeepsStore, ClearFacts
  <2>3. QED
    BY <1>5, <2>2 DEF StoreInv, RebuildOnce, FallBack, ResetCursor, Opened
<1>6. CASE DecodeStops
  <2>1. ValidState(disk') /\ Anchored(disk'.rows)
    BY <1>6, FlushStore DEF DecodeStops
  <2>2. QED
    BY <1>6, <2>1, StoreInvOutside DEF DecodeStops, Stop, ResetLoop, ResetCursor
<1>7. CASE FlushFails
  BY <1>7, StopStore DEF FlushFails, Stop, Opened
<1>8. CASE StorageFails
  BY <1>8, StopStore DEF StorageFails, Opened
<1>9. CASE EndOfStream
  <2>1. pc = "decode" /\ Flush /\ frame >= expected
    BY <1>9 DEF EndOfStream
  <2>2. disk.meta.indexed <= frame /\ disk.meta.lifecycle # "complete" /\ (restarted => expected = 0)
    BY <2>1, DecodeFacts
  <2>3. /\ ValidState(disk') /\ Anchored(disk'.rows)
        /\ disk'.meta.lifecycle = disk.meta.lifecycle /\ disk'.meta.indexed = frame
    BY <2>1, <2>2, FlushStore
  <2>4. QED
    BY <1>9, <2>2, <2>3 DEF StoreInv, EndOfStream, loop
<1>10. CASE Complete
  BY <1>10, <1>o, CompleteKeepsStore, StoreInvOutside, SMTT(30) DEF Complete, Opened, ResetLoop, ResetCursor
<1>11. CASE RecordVerdict
  <2>1. Opened /\ verdict \in Lifecycles /\ verdict # "complete"
    BY <1>11 DEF RecordVerdict, Opened, TypeOK, Lifecycles
  <2>2. ValidState(disk') /\ Anchored(disk'.rows)
    BY <1>11, <1>o, <2>1, RecordKeepsStore DEF RecordVerdict
  <2>3. QED
    BY <1>11, <2>2, StoreInvOutside DEF StoreInv, RecordVerdict, loop, cursor
<1>12. QED
  BY <1>1, <1>2, <1>3, <1>4, <1>5, <1>6, <1>7, <1>8, <1>9, <1>10, <1>11 DEF DecodePass

LEMMA NextStore == TypeOK /\ StoreInv /\ [Next]_vars => StoreInv'
<1>1. ASSUME TypeOK, StoreInv, UNCHANGED vars
      PROVE  StoreInv'
  <2>1. Recent' = Recent
    BY <1>1 DEF Recent, vars, cursor
  <2>2. QED
    BY <1>1, <2>1 DEF StoreInv, Opened, vars, env, loop, cursor
<1>2. QED
  BY <1>1, OpenStore, BeginPassStore, DecodePassStore, SMTT(30) DEF Next

(***************************************************************************)
(* Whatever the decoder emits, from one open to the next or against what   *)
(* was stored: a database the builder has open always passes               *)
(* validate_persistent_state, so a crash at any point leaves an index the  *)
(* next open resumes.                                                      *)
(***************************************************************************)
THEOREM StoredIndexAlwaysRevalidates == Spec => []StoredIndexRevalidates
<1>1. StoreInv => StoredIndexRevalidates
  BY DEF StoreInv, StoredIndexRevalidates
<1>2. QED
  BY <1>1, TypeCorrect, InitStore, NextStore, PTL DEF Spec
=============================================================================
