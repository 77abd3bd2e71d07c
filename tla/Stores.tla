---- MODULE Stores ----
(***************************************************************************)
(* The stores beside the index: the companion catalogue and the similarity  *)
(* groups.                                                                 *)
(***************************************************************************)
EXTENDS Naturals, SuiteState

CONSTANTS
    CompanionIdentities, CompanionGenerations, CompanionRows, NoFile, Garbage,  \* ProgressiveIndex
    Analyses, FrameCount, GroupBatch, MaxBuilds                         \* SimilarityStore

\* The frame count is a number and None is none.
ASSUME GroupsAssumption == FrameCount \in Nat /\ None \notin Nat

VARIABLES
    authority, generation, file, handle, snapshot,                      \* ProgressiveIndex
    cuts, inodes, names, run                                            \* SimilarityStore

Companion == INSTANCE ProgressiveIndex WITH
    Identities <- CompanionIdentities, Generations <- CompanionGenerations,
    MaxRows <- CompanionRows, Absent <- NoFile
Groups == INSTANCE SimilarityStore WITH
    Threads <- Analyses, Frames <- FrameCount, BatchSize <- GroupBatch

\* The contents a companion database can have.
Bindings == [id : CompanionIdentities, generation : CompanionGenerations]
Statuses ==
    [life : {"not_started", "building", "complete", "failed"}, done : Nat,
     total : Nat \cup {None}, prefix : Nat \cup {None}, by : Bindings \cup {None}]
Layers == [structural : Statuses, visual : Statuses, exact : Statuses]
Catalogues ==
    [schema : {1, 2}, meta : Bindings \cup {None}, layers : Layers \cup {None},
     anchors : Seq([frame : Nat, end : Nat \cup {None}]), visuals : SUBSET Bindings,
     similarity : Statuses \cup {None}]

\* No file, a file that is no database and no answer are told apart from each
\* other and from every database.
ASSUME CompanionAssumption ==
    NoFile # Garbage /\ None \notin Layers /\ \A f \in {NoFile, Garbage, None} : f \notin Catalogues

\* The companion catalogue opens after any crash or damage, holds nothing of
\* another source, stream or generation, and its anchors cut the synchronised
\* prefix into the groups of pictures of the authoritative index.
CatalogueIsSound ==
    component = "Companion" =>
        Companion!CatalogueAlwaysOpens /\ Companion!CatalogueIsOwn /\ Companion!AnchorsAreGroups

\* What group navigation and unique export read is always a whole result, although
\* the file may be purged or replaced between its validation and its opening.
NavigatorIsWhole == component = "Groups" => Groups!NavigatorIsWhole
====
