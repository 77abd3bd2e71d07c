--------------------------- MODULE SimilarityStore ---------------------------
(***************************************************************************)
(* Persisted similarity groups of one source, stream and policy:           *)
(* framescope-similarity-store (lib.rs) as open_or_build_group_navigation  *)
(* (framescope-group-navigation) drives it.  Analyses of one source share  *)
(* two file names and nothing locks them; SQLite connections belong to the *)
(* inode they opened, whatever its name is by then.                        *)
(***************************************************************************)
EXTENDS Naturals, Sequences

CONSTANTS
  Threads,    \* analyses in flight
  Frames,     \* frame count of the complete authoritative index
  BatchSize,  \* WRITE_BATCH_GROUPS
  MaxBuilds,  \* bound on databases ever created
  None

VARIABLES
  cuts,       \* frames the grouper refuses to join to the previous group
  inodes,     \* databases in order of creation: [state, count, groups]
  names,      \* [final, building]: the inode of each path, or None
  run         \* one record per analysis

vars == <<cuts, inodes, names, run>>

Idle == [pc |-> "idle", own |-> None, next |-> 0, first |-> None, pending |-> <<>>,
         verify |-> FALSE, navigator |-> None]
States == {"building", "complete", "stale", "garbage"}
Database(state, groups) == [state |-> state, count |-> Len(groups), groups |-> groups]

Go(t, step) == run' = [run EXCEPT ![t].pc = step]
End(t) == run' = [run EXCEPT ![t] = [Idle EXCEPT !.navigator = run[t].navigator]]

(***************************************************************************)
(* Reading.                                                                *)
(***************************************************************************)

\* validate_rows against the authoritative frame count
Partition(groups) ==
  /\ groups # <<>> => groups[1].first = 0 /\ groups[Len(groups)].last = Frames - 1
  /\ groups = <<>> => Frames = 0
  /\ \A g \in DOMAIN groups : groups[g].first <= groups[g].last
  /\ \A g \in 1 .. Len(groups) - 1 : groups[g + 1].first = groups[g].last + 1

\* a version, key, state or row check fails: the invalidating answers
Reusable(db) ==
  /\ db.state = "complete"
  /\ db.count = Len(db.groups)
  /\ Partition(db.groups)

\* visit_groups_with_frame_count up to its answer; the purge it then does goes by name
Visit(t) ==
  /\ run[t].pc = "visit"
  /\ LET f == names.final
     IN  IF f = None THEN IF run[t].verify THEN End(t) ELSE Go(t, "build")
         ELSE IF Reusable(inodes[f]) THEN Go(t, "open")
         ELSE Go(t, "purge")
  /\ UNCHANGED <<cuts, inodes, names>>

\* purge_database_files; after a build this is the fresh result that did not validate
Purge(t) ==
  /\ run[t].pc = "purge"
  /\ names' = [names EXCEPT !.final = None]
  /\ IF run[t].verify THEN End(t) ELSE Go(t, "build")
  /\ UNCHANGED <<cuts, inodes>>

\* SimilarityGroupNavigator::open: by name again, state and count looked at again
OpenNavigator(t) ==
  /\ run[t].pc = "open"
  /\ LET f == names.final
     IN  IF f = None THEN End(t)
         ELSE IF inodes[f].state # "complete" THEN End(t)
         ELSE run' = [run EXCEPT ![t] = [Idle EXCEPT !.navigator = f]]
  /\ UNCHANGED <<cuts, inodes, names>>

(***************************************************************************)
(* Building.                                                               *)
(***************************************************************************)

Start(t) ==
  /\ run[t].pc = "idle"
  /\ run' = [run EXCEPT ![t] = [Idle EXCEPT !.pc = "visit"]]
  /\ UNCHANGED <<cuts, inodes, names>>

\* is_cancelled (at any of its checks), a decoder that does not open or fails, a
\* timeline that differs: the writer is dropped, its file stays
GiveUp(t) ==
  /\ run[t].pc \in {"build", "frames"}
  /\ End(t)
  /\ UNCHANGED <<cuts, inodes, names>>

\* SimilarityStore::begin
Begin(t) ==
  /\ run[t].pc = "build" /\ Len(inodes) < MaxBuilds
  /\ inodes' = Append(inodes, Database("building", <<>>))
  /\ names' = [names EXCEPT !.building = Len(inodes) + 1]
  /\ run' = [run EXCEPT ![t] = [Idle EXCEPT !.pc = "frames", !.own = Len(inodes) + 1]]
  /\ UNCHANGED cuts

Group(first, last) == [first |-> first, last |-> last]

\* flush_batch: one transaction
Flushed(db, groups) ==
  [db EXCEPT !.groups = @ \o groups, !.count = Len(db.groups) + Len(groups)]

\* mutant: a frame the grouper refuses is counted to the open group all the same
FrameJoinsAll(t) ==
  /\ run[t].pc = "frames" /\ run[t].next < Frames
  /\ run' = [run EXCEPT ![t].next = @ + 1, ![t].first = IF @ = None THEN run[t].next ELSE @]
  /\ UNCHANGED <<cuts, inodes, names>>

\* one frame: the group it closes, if any, is appended and perhaps flushed
Frame(t) ==
  /\ run[t].pc = "frames" /\ run[t].next < Frames
  /\ LET r == run[t]
         opens == r.first = None
         closes == ~opens /\ r.next \in cuts
         pending == IF closes THEN Append(r.pending, Group(r.first, r.next - 1)) ELSE r.pending
         full == Len(pending) >= BatchSize
     IN  /\ run' = [run EXCEPT ![t].next = r.next + 1,
                               ![t].first = IF opens \/ closes THEN r.next ELSE r.first,
                               ![t].pending = IF full THEN <<>> ELSE pending]
         /\ inodes' = IF full THEN [inodes EXCEPT ![r.own] = Flushed(@, pending)] ELSE inodes
  /\ UNCHANGED <<cuts, names>>

\* the stream ends; the last group is appended and finish flushes
Drain(t) ==
  /\ run[t].pc = "frames" /\ run[t].next = Frames
  /\ LET r == run[t]
         last == IF r.first = None THEN <<>> ELSE <<Group(r.first, Frames - 1)>>
     IN  /\ inodes' = [inodes EXCEPT ![r.own] = Flushed(@, r.pending \o last)]
         /\ run' = [run EXCEPT ![t].pc = "complete", ![t].pending = <<>>, ![t].first = None]
  /\ UNCHANGED <<cuts, names>>

\* the state update of finish, in a transaction of its own
Complete(t) ==
  /\ run[t].pc = "complete"
  /\ inodes' = [inodes EXCEPT ![run[t].own].state = "complete"]
  /\ Go(t, "rename")
  /\ UNCHANGED <<cuts, names>>

\* fs::rename, by name: the building file may be another analysis' by now, or gone
Rename(t) ==
  /\ run[t].pc = "rename"
  /\ IF names.building = None THEN End(t) /\ UNCHANGED names
     ELSE /\ names' = [final |-> names.building, building |-> None]
          /\ run' = [run EXCEPT ![t].pc = "visit", ![t].own = None, ![t].verify = TRUE]
  /\ UNCHANGED <<cuts, inodes>>

(***************************************************************************)
(* The process dies; an index of the same name from another policy or      *)
(* version, or a damaged one, may be there at the start.                   *)
(***************************************************************************)

Crash ==
  /\ \E t \in Threads : run[t].pc # "idle"
  /\ run' = [t \in Threads |-> Idle]
  /\ UNCHANGED <<cuts, inodes, names>>

Init ==
  /\ cuts \in SUBSET (1 .. Frames - 1)
  /\ inodes \in {<<>>} \cup {<<Database(s, <<>>)>> : s \in {"stale", "garbage"}}
  /\ names = [final |-> IF inodes = <<>> THEN None ELSE 1, building |-> None]
  /\ run = [t \in Threads |-> Idle]

Next ==
  \/ Crash
  \/ \E t \in Threads :
       \/ Start(t) \/ GiveUp(t) \/ Visit(t) \/ Purge(t) \/ OpenNavigator(t)
       \/ Begin(t) \/ Frame(t) \/ Drain(t) \/ Complete(t) \/ Rename(t)

Spec == Init /\ [][Next]_vars

(***************************************************************************)
(* Properties.                                                             *)
(***************************************************************************)

\* Groups the grouper would make of the whole timeline.
Whole(groups) ==
  /\ Partition(groups)
  /\ {groups[g].first : g \in DOMAIN groups} = IF Frames = 0 THEN {} ELSE {0} \cup cuts

\* What group navigation and unique export read is always a whole result, although
\* the file may be purged or replaced between its validation and its opening.
NavigatorIsWhole ==
  \A t \in Threads : run[t].navigator # None =>
    LET db == inodes[run[t].navigator] IN db.state = "complete" /\ Whole(db.groups)

\* docs/architecture.md: "an interrupted rebuild cannot replace the previous
\* complete result".
CompleteResultIsKept ==
  [][names.final # None /\ names'.final # None /\ inodes[names.final].state = "complete"
       => inodes'[names'.final].state = "complete"]_vars

==============================================================================
