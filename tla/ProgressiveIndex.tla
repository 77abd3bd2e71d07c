-------------------------- MODULE ProgressiveIndex --------------------------
(***************************************************************************)
(* The V2 companion catalogue of a frame index (framescope-cache,          *)
(* index/progressive.rs): a second database beside the authoritative one   *)
(* that mirrors its lifecycle, lists its groups of pictures and records    *)
(* derived visual and similarity data.  It is bound to one source, stream  *)
(* and timeline generation, and recreated whenever it is not theirs.       *)
(*                                                                         *)
(* Every stored piece carries "by", the binding of the authority that was  *)
(* open when it was written; the code has no such field.                   *)
(***************************************************************************)
EXTENDS Naturals, Sequences, FiniteSets

CONSTANTS
  Identities,   \* [source, stream, safe]: what an authoritative index is of
  Generations,  \* timeline contract generations of installed versions
  MaxRows,
  Absent,       \* no database file
  Garbage,      \* a file that is not a database
  None

VARIABLES
  authority,    \* [id, rows, life]: the authoritative index
  generation,   \* FRAME_TIMELINE_CONTRACT_GENERATION of the running build
  file,         \* the companion database
  handle,       \* "closed", "open", "failed"
  snapshot      \* the authority at the last synchronisation of this file

vars == <<authority, generation, file, handle, snapshot>>

Kinds == {"key", "other"}    \* a clean keyframe, or any other frame
Lives == {"building", "complete", "failed"}    \* building stands for incomplete too
Binding == [id |-> authority.id, generation |-> generation]

(***************************************************************************)
(* The database.                                                           *)
(***************************************************************************)

\* initialize_status_rows
Status(life, done, total, prefix, by) ==
  [life |-> life, done |-> done, total |-> total, prefix |-> prefix, by |-> by]
NotStarted == Status("not_started", 0, None, None, None)
StatusRows == [structural |-> NotStarted, visual |-> NotStarted, exact |-> NotStarted]

\* migrate: tables and schema version appear in one transaction
Migrated == [schema |-> 1, meta |-> None, layers |-> None, anchors |-> <<>>,
             visuals |-> {}, similarity |-> None]

\* mutant: the status rows deleted by a reset are not written again
RebindWithoutRows(db) ==
  [schema |-> 1, meta |-> Binding, layers |-> None, anchors |-> <<>>,
   visuals |-> {}, similarity |-> NotStarted]

\* initialize_meta, and reset_and_rebind, which deletes everything first
Rebind(db) ==
  [schema |-> 1, meta |-> Binding, layers |-> StatusRows, anchors |-> <<>>,
   visuals |-> {}, similarity |-> NotStarted]

\* write_layer_status refuses, and validate_catalog does not accept, a
\* complete layer whose totals differ
Consistent(status) == status.life = "complete" => status.total = status.done

ValidCatalog(db) ==
  db.layers # None /\ \A layer \in DOMAIN db.layers : Consistent(db.layers[layer])

(***************************************************************************)
(* Opening.                                                                *)
(***************************************************************************)

\* mutant: the stream is not part of the comparison
BelongsToSource(db) ==
  /\ authority.id.safe /\ db.meta.id.source = authority.id.source
  /\ db.meta.generation = generation

\* the dispositions of try_open that keep what is stored
Belongs(db) ==
  /\ authority.id.safe /\ db.meta.id = authority.id
  /\ db.meta.generation = generation

\* try_open: no answer stands for the errors recreation_disposition recovers
TryOpen(f) ==
  LET db == IF f = Absent THEN Migrated ELSE f
      bound == IF db.meta # None /\ Belongs(db) THEN db ELSE Rebind(db)
  IN  IF f = Garbage THEN None
      ELSE IF db.schema # 1 THEN None
      ELSE IF ~ValidCatalog(bound) THEN None
      ELSE bound

\* open_or_create: the recoverable errors purge the file, once
OpenOrCreate ==
  /\ handle = "closed"
  /\ LET first == TryOpen(file)
         result == IF first = None THEN TryOpen(Absent) ELSE first
     IN  /\ file' = result
         /\ handle' = IF result = None THEN "failed" ELSE "open"
         /\ snapshot' = IF result = file THEN snapshot ELSE None
  /\ UNCHANGED <<authority, generation>>

\* the process dies inside open: after migrate, or after the purge
DieOpening ==
  /\ handle = "closed"
  /\ \/ file = Absent /\ file' = Migrated
     \/ file # Absent /\ TryOpen(file) = None /\ file' = Absent
  /\ snapshot' = None
  /\ UNCHANGED <<authority, generation, handle>>

Close == handle = "open" /\ handle' = "closed" /\ UNCHANGED <<authority, generation, file, snapshot>>

(***************************************************************************)
(* Writing.  Each is one transaction.                                      *)
(***************************************************************************)

CleanKeyframes(rows) == {i \in DOMAIN rows : rows[i] = "key"}

\* the sets of rows, from each clean keyframe to the next; frames count from 0
Nth(set, n) == CHOOSE i \in set : Cardinality({j \in set : j < i}) = n - 1

\* mutant: the last group of an index is closed whatever its lifecycle
AnchorsClosed(rows, life) ==
  LET keys == CleanKeyframes(rows)
  IN  [n \in 1 .. Cardinality(keys) |->
        [frame |-> Nth(keys, n) - 1,
         end |-> IF n < Cardinality(keys) THEN Nth(keys, n + 1) - 1 ELSE Len(rows)]]

\* each anchor is closed by the next one, the last by the end of a complete index
Anchors(rows, life) ==
  LET keys == CleanKeyframes(rows)
  IN  [n \in 1 .. Cardinality(keys) |->
        [frame |-> Nth(keys, n) - 1,
         end |-> IF n < Cardinality(keys) THEN Nth(keys, n + 1) - 1
                 ELSE IF life = "complete" THEN Len(rows) ELSE None]]

\* synchronize_authoritative_snapshot
Synchronize ==
  /\ handle = "open"
  /\ LET rows == authority.rows
         life == authority.life
         anchors == Anchors(rows, life)
         total(n) == IF life = "complete" THEN n ELSE None
     IN  file' = [file EXCEPT
           !.anchors = anchors,
           !.layers = [structural |-> Status(life, Len(anchors), total(Len(anchors)), Len(rows), Binding),
                       visual |-> file.layers.visual,
                       exact |-> Status(life, Len(rows), total(Len(rows)), Len(rows), Binding)]]
  /\ snapshot' = [rows |-> authority.rows, life |-> authority.life]
  /\ UNCHANGED <<authority, generation, handle>>

\* update_visual_layer_status
UpdateVisualLayer ==
  /\ handle = "open"
  /\ \E life \in Lives \ {"failed"}, total \in {None, 1} :
       LET status == Status(life, 1, total, None, Binding)
       IN  /\ Consistent(status)
           /\ file' = [file EXCEPT !.layers.visual = status]
  /\ UNCHANGED <<authority, generation, handle, snapshot>>

\* record_visual_artifact: one row per storage key
RecordVisualArtifact ==
  /\ handle = "open"
  /\ file' = [file EXCEPT !.visuals = {Binding}]
  /\ UNCHANGED <<authority, generation, handle, snapshot>>

\* update_similarity_fingerprint_status
UpdateSimilarity ==
  /\ handle = "open"
  /\ file' = [file EXCEPT !.similarity = Status("building", 1, None, None, Binding)]
  /\ UNCHANGED <<authority, generation, handle, snapshot>>

(***************************************************************************)
(* The authority, other versions of the application, damage.               *)
(***************************************************************************)

AuthorityMoves ==
  /\ handle = "open"
  /\ \/ /\ authority.life # "complete" /\ Len(authority.rows) < MaxRows
        /\ \E kind \in Kinds : authority' = [authority EXCEPT !.rows = Append(@, kind)]
     \/ /\ authority.life # "complete"
        /\ \E life \in Lives : authority' = [authority EXCEPT !.life = life]
     \/ authority' = [authority EXCEPT !.rows = <<>>, !.life = "building"]
  /\ UNCHANGED <<generation, file, handle, snapshot>>

\* another source at the same path, or another stream of it, or another build
Elsewhere ==
  /\ handle = "closed"
  /\ \/ /\ \E id \in Identities \ {authority.id} :
             authority' = [id |-> id, rows |-> <<>>, life |-> "building"]
        /\ UNCHANGED generation
     \/ generation' \in Generations \ {generation} /\ UNCHANGED authority
  /\ UNCHANGED <<file, handle, snapshot>>

\* a truncated file, a newer schema, a lost row
Damage ==
  /\ handle = "closed" /\ file \notin {Absent, Garbage}
  /\ file' \in {Garbage, [file EXCEPT !.schema = 2], [file EXCEPT !.layers = None]}
  /\ UNCHANGED <<authority, generation, handle, snapshot>>

Init ==
  /\ \E id \in Identities : authority = [id |-> id, rows |-> <<>>, life |-> "building"]
  /\ generation \in Generations /\ file = Absent /\ handle = "closed" /\ snapshot = None

Next ==
  \/ OpenOrCreate \/ DieOpening \/ Close
  \/ Synchronize \/ UpdateVisualLayer \/ RecordVisualArtifact \/ UpdateSimilarity
  \/ AuthorityMoves \/ Elsewhere \/ Damage

Spec == Init /\ [][Next]_vars

(***************************************************************************)
(* Properties.                                                             *)
(***************************************************************************)

\* Every companion that the code can meet opens: a crash inside an open, a
\* damaged or newer file and a foreign binding all end in a usable catalogue
\* (docs/frame-index-v2.md, "Crash safety and resumability").
CatalogueAlwaysOpens == handle # "failed"

Writers(db) ==
  {db.layers[l].by : l \in DOMAIN db.layers} \cup db.visuals \cup {db.similarity.by}

\* An open catalogue holds nothing that was written for another source, another
\* stream or another timeline generation; of a source that cannot be verified,
\* nothing that was there when it was opened.
CatalogueIsOwn == handle = "open" => Writers(file) \subseteq {None, Binding}

\* The anchors cut the synchronised prefix into groups of pictures: they are
\* its clean keyframes in order, each ends where the next begins, and only the
\* end of a complete index closes the last; the layers count exactly them.
AnchorsAreGroups ==
  handle = "open" /\ snapshot # None =>
    LET a == file.anchors
    IN  /\ \A i \in DOMAIN snapshot.rows :
             snapshot.rows[i] = "key" <=> \E n \in DOMAIN a : a[n].frame = i - 1
        /\ \A n \in DOMAIN a : n < Len(a) => a[n].end = a[n + 1].frame /\ a[n].frame < a[n].end
        /\ a # <<>> => a[Len(a)].end = IF snapshot.life = "complete" THEN Len(snapshot.rows) ELSE None
        /\ file.layers.structural.done = Len(a)
        /\ file.layers.exact.prefix = Len(snapshot.rows)

==============================================================================
