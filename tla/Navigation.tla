----------------------------- MODULE Navigation -----------------------------
(***************************************************************************)
(* How a frame id becomes pixels (framescope-video: navigation.rs,         *)
(* cached_navigation.rs, target_rgba_navigation.rs, preview_navigation.rs, *)
(* microscope_presentation.rs).  A fresh decoder either replays the stream *)
(* from its start or seeks near the clean keyframe that anchors the frame; *)
(* a retained decoder may go on from where it stands.  In every case each  *)
(* decoded frame is reconciled with the persistent index.                  *)
(*                                                                         *)
(* The pixels of a frame are its true position in the source, which no     *)
(* code can see; a position is known by its metadata only.                 *)
(***************************************************************************)
EXTENDS FrameIndexStore, FiniteSets

CONSTANTS
  Timelines,     \* the timelines a decoder may emit, functions from 0..n-1
  Drifts,        \* <<indexed, source>>: sources that changed behind their identity
  MaxForward     \* MAX_FORWARD_CURSOR_REUSE_FRAMES

VARIABLES
  source,        \* what decoders emit today
  indexed,       \* what they emitted when the index was completed
  index,         \* the rows of the complete index
  reusable,      \* the source identity is safe to key a cache with
  cursor,        \* the retained decoder [frame_id, next], or None
  ram, proxies,  \* frame id -> pixels: the RAM cache, the disk proxies
  answer         \* the last answer [id, ok, pixels, decoded]

vars == <<source, indexed, index, reusable, cursor, ram, proxies, answer>>

Ids(t) == DOMAIN t
NoFrames == [i \in {} |-> 0]

(***************************************************************************)
(* Decoding.  An outcome is the position whose pixels are handed out, or   *)
(* Failed with the reason the callers tell apart.                          *)
(***************************************************************************)

Reached(position) == [ok |-> TRUE, position |-> position]
Unreconciled == [ok |-> FALSE, position |-> 0]  \* TimelineMismatch or UnexpectedEof

\* mutant: the frame that is handed out is not compared with its entry
VerifyAllButTarget(position, id, target) ==
  \A k \in 0 .. target - id - 1 : MatchesEntry(source[position + k], index[id + k])

\* every decoded frame from id to target is the one the index expects
Verify(position, id, target) ==
  \A k \in 0 .. target - id : MatchesEntry(source[position + k], index[id + k])

\* decode on from a position where frame id is expected next
DecodeForward(position, id, target) ==
  IF position + (target - id) \in Ids(source) /\ Verify(position, id, target)
  THEN Reached(position + (target - id)) ELSE Unreconciled

DecodeFromStart(target) == DecodeForward(0, 0, target)

\* FFmpeg may land anywhere; frames are skipped until one looks like the anchor
DecodeFromSeek(landing, anchor, target) ==
  LET seen == {p \in Ids(source) : p >= landing /\ MatchesEntry(source[p], index[anchor])}
  IN  IF seen = {} THEN Unreconciled
      ELSE DecodeForward(CHOOSE p \in seen : \A q \in seen : p <= q, anchor, target)

\* mutant: the persisted seek-safety verdict is not consulted
SeekAnyAnchor(id) == index[id].anchor # StreamStart /\ index[id].anchor.ts # None

\* a clean keyframe with a non-negative time anchors the frame, and no two
\* clean keyframes can be confused
MaySeek(id) ==
  /\ ComputeSeekSafety(index) = "unambiguous"
  /\ index[id].anchor # StreamStart
  /\ index[id].anchor.ts # None
  /\ index[id].anchor.ts >= 0

\* what a fresh decoder can come back with: the seek is a hint, and a stream
\* that does not reconcile is decoded again from its start
FreshOutcomes(id) ==
  IF MaySeek(id)
  THEN {LET sought == DecodeFromSeek(landing, index[id].anchor.frame_id, id)
        IN  IF sought.ok THEN sought ELSE DecodeFromStart(id) : landing \in Ids(source)}
  ELSE {DecodeFromStart(id)}

(***************************************************************************)
(* The operations.                                                         *)
(***************************************************************************)

Init ==
  /\ \/ indexed \in Timelines /\ source = indexed
     \/ \E pair \in Drifts : indexed = pair[1] /\ source = pair[2]
  /\ index = IndexOf(indexed)
  /\ reusable \in BOOLEAN
  /\ cursor = None /\ ram = NoFrames /\ proxies = NoFrames
  /\ answer = [id |-> 0, ok |-> FALSE, pixels |-> 0, decoded |-> FALSE]

Indexed(id) == id \in Ids(indexed)
Answer(id, pixels, decoded) ==
  answer' = [id |-> id, ok |-> TRUE, pixels |-> pixels, decoded |-> decoded]
Refuse(id) == answer' = [id |-> id, ok |-> FALSE, pixels |-> 0, decoded |-> FALSE]
Put(cache, id, pixels) == [i \in DOMAIN cache \cup {id} |-> IF i = id THEN pixels ELSE cache[i]]
Remember(id, pixels) == ram' = IF reusable THEN Put(ram, id, pixels) ELSE ram

\* a frame that is not in the index is refused by every operation
RefuseUnindexed(id) ==
  /\ ~Indexed(id) /\ Refuse(id)
  /\ UNCHANGED <<source, indexed, index, reusable, cursor, ram, proxies>>

\* the result of an outcome, when the decoder did not fail for another reason
Deliver(id, outcome) == IF outcome.ok THEN Answer(id, outcome.position, TRUE) ELSE Refuse(id)

NavigateToFrame(id) ==
  /\ Indexed(id)
  /\ Refuse(id) \/ \E outcome \in FreshOutcomes(id) : Deliver(id, outcome)
  /\ UNCHANGED <<source, indexed, index, reusable, cursor, ram, proxies>>

\* a RAM hit decodes nothing; a decoded frame is kept when it may be reused
Cached(id) ==
  \/ id \in DOMAIN ram /\ Answer(id, ram[id], FALSE) /\ UNCHANGED ram
  \/ id \notin DOMAIN ram /\ Refuse(id) /\ UNCHANGED ram
  \/ /\ id \notin DOMAIN ram
     /\ \E outcome \in FreshOutcomes(id) :
          /\ Deliver(id, outcome)
          /\ IF outcome.ok THEN Remember(id, outcome.position) ELSE UNCHANGED ram

NavigateToFrameCached(id) ==
  /\ Indexed(id) /\ Cached(id)
  /\ UNCHANGED <<source, indexed, index, reusable, cursor, proxies>>

CanContinueTo(id) ==
  /\ cursor # None
  /\ id > cursor.frame_id /\ id - cursor.frame_id <= MaxForward

Standing(id, position) == [frame_id |-> id, next |-> position + 1]

\* what the retained decoder, or the fresh one that replaces it, comes to
CursorOutcomes(id) ==
  LET warm == DecodeForward(cursor.next, cursor.frame_id + 1, id)
  IN  IF CanContinueTo(id) /\ warm.ok THEN {warm} ELSE FreshOutcomes(id)

\* the cursor stands at the frame that was handed out, or is dropped
DecodeWithCursor(id) ==
  \/ Refuse(id) /\ cursor' = None
  \/ \E outcome \in CursorOutcomes(id) :
       /\ Deliver(id, outcome)
       /\ cursor' = IF outcome.ok THEN Standing(id, outcome.position) ELSE None

NavigateTargetOnly(id) ==
  \/ /\ id \in DOMAIN ram /\ Answer(id, ram[id], FALSE)
     /\ cursor' = IF CanContinueTo(id) THEN cursor ELSE None
     /\ UNCHANGED ram
  \/ /\ id \notin DOMAIN ram /\ DecodeWithCursor(id)
     /\ IF answer'.ok THEN Remember(id, answer'.pixels) ELSE UNCHANGED ram

PresentMicroscopeFrame(id) ==
  /\ Indexed(id) /\ NavigateTargetOnly(id)
  /\ UNCHANGED <<source, indexed, index, reusable, proxies>>

NavigateBoundedPreview(id) ==
  /\ Indexed(id) /\ DecodeWithCursor(id)
  /\ UNCHANGED <<source, indexed, index, reusable, ram, proxies>>

\* the proxy that is made of the pixels may fail to be stored
Encode(id) ==
  proxies' \in {proxies} \cup (IF answer'.ok THEN {Put(proxies, id, answer'.pixels)} ELSE {})

\* RAM, then the disk proxy, then the cached path.  A disk read that fails is
\* answered like a miss.
NavigateToFramePreview(id) ==
  /\ reusable
  /\ \/ id \in DOMAIN ram /\ Answer(id, ram[id], FALSE) /\ Encode(id) /\ UNCHANGED ram
     \/ /\ id \notin DOMAIN ram /\ id \in DOMAIN proxies
        /\ Answer(id, proxies[id], FALSE) /\ UNCHANGED <<ram, proxies>>
     \/ id \notin DOMAIN ram /\ Indexed(id) /\ Cached(id) /\ Encode(id)
  /\ UNCHANGED <<source, indexed, index, reusable, cursor>>

\* another frame needs the room
EvictRam(id) ==
  /\ id \in DOMAIN ram
  /\ ram' = [i \in DOMAIN ram \ {id} |-> ram[i]]
  /\ UNCHANGED <<source, indexed, index, reusable, cursor, proxies, answer>>

Next ==
  \E id \in Ids(indexed) \cup {Cardinality(Ids(indexed))} :
    \/ RefuseUnindexed(id)
    \/ NavigateToFrame(id) \/ NavigateToFrameCached(id) \/ PresentMicroscopeFrame(id)
    \/ NavigateBoundedPreview(id) \/ NavigateToFramePreview(id) \/ EvictRam(id)

Spec == Init /\ [][Next]_vars

(***************************************************************************)
(* Properties.                                                             *)
(***************************************************************************)

\* While the source is the one that was indexed, every path (seek, fallback,
\* warm cursor, RAM, proxy) hands out the pixels of exactly the frame that was
\* asked for, wherever a seek lands and however many frames look alike.
ExactFrame ==
  source = indexed /\ answer.ok => answer.pixels = answer.id

\* A source that no longer is the one that was indexed never gets a frame
\* past reconciliation: what is decoded looks like the entry that was asked
\* for (verify_decoded), and the cursor stands behind such a frame.
Reconciled ==
  /\ answer.ok /\ answer.decoded => MatchesEntry(source[answer.pixels], index[answer.id])
  /\ cursor # None => MatchesEntry(source[cursor.next - 1], index[cursor.frame_id])

\* Nothing that does not reconcile is ever cached: every RAM frame and every
\* proxy matches the index entry of the frame it is filed under.
CachesReconcile ==
  /\ \A id \in DOMAIN ram : MatchesEntry(source[ram[id]], index[id])
  /\ \A id \in DOMAIN proxies : MatchesEntry(source[proxies[id]], index[id])
=============================================================================
