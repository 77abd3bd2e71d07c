------------------------------ MODULE Grouping ------------------------------
(***************************************************************************)
(* Adjacent frames that look alike become one group: the streaming         *)
(* groupers (framescope-similarity, framescope-grouping) behind a          *)
(* cancellable session (framescope-grouping-session), and navigation over  *)
(* the groups they made (framescope-group-navigation).                     *)
(*                                                                         *)
(* A picture is its perceptual hash and its tone, small numbers whose      *)
(* distance stands for the Hamming distance and the confirmation score.    *)
(***************************************************************************)
EXTENDS Integers, Sequences, FiniteSets, FiniteSetsExt

CONSTANTS
  Hashes, Tones,        \* 0 .. n
  MaxHashDistance,      \* HybridSimilarityPolicy.max_hash_distance
  MinimumSimilarity,    \* and minimum_luma_similarity
  Scale,                \* SIMILARITY_SCALE
  MaxFrames,
  None

VARIABLES
  engine,     \* "hybrid": HybridFrameGrouper, "basic": FrameGrouper
  timeline,   \* pushed so far: [hash, tone, timed]
  active,     \* the open group, or None
  groups,     \* completed groups in order
  session     \* [state, frames, emitted]: GroupingSessionStats and the outcome

vars == <<engine, timeline, active, groups, session>>

Pictures == [hash : Hashes, tone : Tones]
Distance(a, b) == IF a >= b THEN a - b ELSE b - a

(***************************************************************************)
(* Comparing two pictures.                                                 *)
(***************************************************************************)

\* the confirmation metrics: 10000 for identical pixels
Confirmation(left, right) == Scale - Distance(left.tone, right.tone)

\* HybridSimilarityEngine::compare: the hash may only reject
HybridAccepts(left, right) ==
  /\ Distance(left.hash, right.hash) <= MaxHashDistance
  /\ Confirmation(left, right) >= MinimumSimilarity

\* SimilarityEngine::compare and accepts, LumaMeanAbsolute
BasicAccepts(left, right) == Confirmation(left, right) >= MinimumSimilarity

\* mutant: the chain of neighbours is enough
JoinsPrevious(group, picture) ==
  IF engine = "hybrid" THEN HybridAccepts(group.previous, picture)
  ELSE BasicAccepts(group.previous, picture)

\* accepted against the previous frame and against the representative
Joins(group, picture) ==
  IF engine = "hybrid"
  THEN HybridAccepts(group.previous, picture) /\ HybridAccepts(group.representative, picture)
  ELSE BasicAccepts(group.previous, picture) /\ BasicAccepts(group.representative, picture)

(***************************************************************************)
(* The groupers.                                                           *)
(***************************************************************************)

\* active_group
Opened(frame, picture) ==
  [first |-> frame, last |-> frame, frames |-> 1, floor |-> Scale,
   representative |-> picture, previous |-> picture]

\* the tail of push: the candidate is in
Extended(group, frame, picture) ==
  [first |-> group.first, last |-> frame, frames |-> group.frames + 1,
   floor |-> Min({group.floor, Confirmation(group.representative, picture)}),
   representative |-> group.representative, previous |-> picture]

Metadata(group) ==
  [first |-> group.first, last |-> group.last, frames |-> group.frames, floor |-> group.floor]

\* HybridGroupingSession::push and the grouper's push
Push(picture) ==
  /\ session.state = "open" /\ Len(timeline) < MaxFrames
  /\ LET frame == Len(timeline)
         closes == active # None /\ ~Joins(active, picture)
     IN  /\ timeline' = Append(timeline, picture)
         /\ active' = IF active = None \/ closes THEN Opened(frame, picture)
                      ELSE Extended(active, frame, picture)
         /\ groups' = IF closes THEN Append(groups, Metadata(active)) ELSE groups
         /\ session' = [session EXCEPT !.frames = @ + 1,
                                       !.emitted = IF closes THEN @ + 1 ELSE @]
  /\ UNCHANGED engine

\* MissingTimestamp, or a picture of other dimensions: refused before anything
\* changes, and the caller gives the session up
PushUntimed ==
  /\ session.state = "open" /\ Len(timeline) < MaxFrames
  /\ session' = [session EXCEPT !.state = "failed"]
  /\ UNCHANGED <<engine, timeline, active, groups>>

\* HybridGroupingSession::finish
Finish ==
  /\ session.state = "open"
  /\ groups' = IF active = None THEN groups ELSE Append(groups, Metadata(active))
  /\ active' = None
  /\ session' = [session EXCEPT !.state = "finished",
                                !.emitted = IF active = None THEN @ ELSE @ + 1]
  /\ UNCHANGED <<engine, timeline>>

\* the token is set: the next push or finish refuses before it changes anything
Cancel ==
  /\ session.state = "open"
  /\ session' = [session EXCEPT !.state = "cancelled"]
  /\ UNCHANGED <<engine, timeline, active, groups>>

Init ==
  /\ engine \in {"hybrid", "basic"}
  /\ timeline = <<>> /\ active = None /\ groups = <<>>
  /\ session = [state |-> "open", frames |-> 0, emitted |-> 0]

Next == (\E p \in Pictures : Push(p)) \/ PushUntimed \/ Finish \/ Cancel

Spec == Init /\ [][Next]_vars

(***************************************************************************)
(* Navigation over finished groups; ordinals count from 0.                 *)
(***************************************************************************)

\* mutant: the group in the middle is left out when the search goes left
FindGroupOffByOne(frame) ==
  LET find[low \in 0 .. Len(groups), high \in 0 .. Len(groups)] ==
        IF low >= high THEN None
        ELSE LET mid == low + (high - low) \div 2
                 g == groups[mid + 1]
             IN  IF frame < g.first THEN (IF mid = 0 THEN None ELSE find[low, mid - 1])
                 ELSE IF frame > g.last THEN find[mid + 1, high]
                 ELSE mid
  IN  find[0, Len(groups)]

\* find_group_ordinal
FindGroup(frame) ==
  LET find[low \in 0 .. Len(groups), high \in 0 .. Len(groups)] ==
        IF low >= high THEN None
        ELSE LET mid == low + (high - low) \div 2
                 g == groups[mid + 1]
             IN  IF frame < g.first THEN find[low, mid]
                 ELSE IF frame > g.last THEN find[mid + 1, high]
                 ELSE mid
  IN  find[0, Len(groups)]

\* adjacent_group, None at a boundary
Adjacent(frame, direction) ==
  LET current == FindGroup(frame)
  IN  IF current = None THEN None
      ELSE IF direction = "next"
           THEN IF current + 1 >= Len(groups) THEN None ELSE current + 1
           ELSE IF current = 0 THEN None ELSE current - 1

(***************************************************************************)
(* Properties.                                                             *)
(***************************************************************************)

Accepts(left, right) ==
  IF engine = "hybrid" THEN HybridAccepts(left, right) ELSE BasicAccepts(left, right)

AllGroups == IF active = None THEN groups ELSE Append(groups, Metadata(active))

\* Every member of a group was accepted against the group's first frame and
\* against its predecessor (no drift along a chain), the first frame of the next
\* group was not, and the persisted floor is the lowest confirmation in it.
GroupsAreAlike ==
  \A n \in DOMAIN AllGroups :
    LET g == AllGroups[n]
        representative == timeline[g.first + 1]
    IN  /\ \A f \in g.first + 1 .. g.last :
             /\ Accepts(timeline[f], timeline[f + 1])
             /\ Accepts(representative, timeline[f + 1])
        /\ g.floor = Min({Confirmation(representative, timeline[f + 1]) : f \in g.first .. g.last})
        /\ n < Len(AllGroups) =>
             ~(/\ Accepts(timeline[g.last + 1], timeline[g.last + 2])
               /\ Accepts(representative, timeline[g.last + 2]))

\* The groups of a session are the processed frames cut into consecutive runs,
\* none lost, none twice, also after an error or a cancellation; navigation over a
\* finished session finds the group of every frame, and a step to the next group
\* from any frame of it is undone by a step back.
GroupsCoverTimeline ==
  /\ session.frames = Len(timeline) /\ (AllGroups = <<>>) = (timeline = <<>>)
  /\ AllGroups # <<>> => AllGroups[1].first = 0 /\ AllGroups[Len(AllGroups)].last = Len(timeline) - 1
  /\ \A n \in 1 .. Len(AllGroups) - 1 : AllGroups[n + 1].first = AllGroups[n].last + 1
  /\ \A n \in DOMAIN AllGroups : AllGroups[n].frames = AllGroups[n].last - AllGroups[n].first + 1
  /\ session.emitted = Len(groups)
  /\ session.state = "finished" =>
       \A f \in 0 .. Len(timeline) - 1 :
         LET here == FindGroup(f)
             after == Adjacent(f, "next")
         IN  /\ here # None /\ groups[here + 1].first <= f /\ f <= groups[here + 1].last
             /\ (after = None) = (here + 1 = Len(groups))
             /\ after # None =>
                  Adjacent(groups[after + 1].last, "previous") = here

==============================================================================
