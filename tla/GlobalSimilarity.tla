-------------------------- MODULE GlobalSimilarity --------------------------
(***************************************************************************)
(* Similar frames anywhere in a video: a search from the application       *)
(* (framescope-ffi, presentation_handoff/global_similarity.rs) over a live *)
(* microscope session, the descriptor store it reuses or builds            *)
(* (framescope-similarity-store, global.rs; framescope-group-navigation,   *)
(* timeline_global.rs; framescope-group-navigation-video) and its query.   *)
(*                                                                         *)
(* One search at a time: how analyses overlap on the files is the subject  *)
(* of SimilarityStore, whose store publishes in the same way.              *)
(***************************************************************************)
EXTENDS Naturals, Sequences, FiniteSets

CONSTANTS
  Streams,       \* stream identities that share one stream index
  Generations,   \* FRAME_TIMELINE_CONTRACT_GENERATION of installed versions
  Algorithms,    \* GLOBAL_SIMILARITY_ALGORITHM_VERSION of installed versions
  Timeline,      \* [Streams \X Generations -> Seq of frame metadata]: the index
  Media,         \* what a decoder of the descriptor may deliver
  Bands,         \* INDEX_KEYS_PER_DESCRIPTOR
  BatchSize,     \* WRITE_BATCH_DESCRIPTORS
  None

VARIABLES
  build,      \* [generation, algorithm] of the running version
  session,    \* stream of the open microscope session, or None
  media,      \* frame metadata that the session's descriptor decodes to
  disk,       \* [Algorithms -> store or None]: the file of each file name
  search      \* the running search, or None

vars == <<build, session, media, disk, search>>

Entries(stream) == Timeline[stream, build.generation]
Store(key, state, count, rows) == [key |-> key, state |-> state, count |-> count, rows |-> rows]

\* GlobalSimilarityStoreKey::persisted; the file name holds the algorithm and the index
Key(stream) == [stream |-> stream, generation |-> build.generation, algorithm |-> build.algorithm]

(***************************************************************************)
(* The store.  A row is a descriptor with the number of its index keys.    *)
(***************************************************************************)

\* validate_rows
ValidRows(store, frames) ==
  /\ Cardinality(store.rows) = frames
  /\ {r.frame : r \in store.rows} \subseteq 0 .. frames - 1
  /\ \A r \in store.rows : r.keys = Bands

\* mutant: the file name is taken for the key
ReusableByName(store, stream, frames) ==
  store.state = "complete" /\ store.count = frames /\ ValidRows(store, frames)

\* load: state, key, count and rows
Reusable(store, stream, frames) ==
  /\ store.state = "complete" /\ store.key = Key(stream)
  /\ store.count = frames /\ ValidRows(store, frames)

Put(store) == disk' = [disk EXCEPT ![build.algorithm] = store]
Fail == search' = None

\* the match of load in open_or_build...: reuse, or purge and build; after a
\* build anything but reuse is an error
Load ==
  /\ search # None /\ search.pc \in {"load", "verify"}
  /\ LET store == disk[build.algorithm]
         fresh == store # None /\ Reusable(store, search.stream, search.frames)
     IN  /\ IF fresh THEN search' = [search EXCEPT !.pc = "query"]
            ELSE IF search.pc = "verify" THEN Fail
            ELSE search' = [search EXCEPT !.pc = "begin"]
         /\ IF fresh THEN UNCHANGED disk ELSE Put(None)
  /\ UNCHANGED <<build, session, media>>

\* query: load again, then the candidates of the target among all rows
Query ==
  /\ search # None /\ search.pc = "query"
  /\ LET store == disk[build.algorithm]
     IN  IF store # None /\ Reusable(store, search.stream, search.frames)
         THEN search' = [search EXCEPT !.pc = "answered", !.answer = store.rows] /\ UNCHANGED disk
         ELSE Fail /\ Put(None)
  /\ UNCHANGED <<build, session, media>>

(***************************************************************************)
(* A search.                                                               *)
(***************************************************************************)

\* query_similarity up to the analysis: request checks, snapshot_session
FindSimilarFrames(target) ==
  /\ search = None /\ session # None
  /\ target < Len(Entries(session))
  /\ search' = [pc |-> "load", target |-> target, stream |-> session, frames |-> Len(Entries(session)),
                next |-> 0, pending |-> {}, file |-> None, answer |-> None]
  /\ UNCHANGED <<build, session, media, disk>>

\* GlobalSimilarityStore::begin: an empty store beside the published one
Created(key) == Store(key, "building", 0, {})

\* source_factory and validate_stream_identity, then begin
Begin ==
  /\ search # None /\ search.pc = "begin"
  /\ search' = [search EXCEPT !.pc = "frames", !.file = Created(Key(search.stream))]
  /\ UNCHANGED <<build, session, media, disk>>

\* flush_batch
Flushed(file, pending) == [file EXCEPT !.rows = @ \cup pending]

\* validate_source_frame
Matches(entry, decoded) == entry = decoded

\* next_frame of the decoder adapter: frame n of the medium, None after the last
NextFrame(n) == IF n > Len(media) THEN None ELSE media[n]

\* one frame: entry_for_frame under the session lock, next_frame, the comparison,
\* append
Frame ==
  /\ search # None /\ search.pc = "frames" /\ search.next < search.frames
  /\ LET n == search.next + 1
         decoded == NextFrame(n)
         row == [frame |-> search.next, keys |-> Bands, of |-> decoded]
         pending == search.pending \cup {row}
         full == Cardinality(pending) >= BatchSize
     IN  IF session # search.stream \/ decoded = None THEN Fail
         ELSE IF ~Matches(Entries(session)[n], decoded) THEN Fail
         ELSE search' = [search EXCEPT !.next = n, !.pending = IF full THEN {} ELSE pending,
                                       !.file = IF full THEN Flushed(@, pending) ELSE @]
  /\ UNCHANGED <<build, session, media, disk>>

\* no frame beyond the index; finish
Finish ==
  /\ search # None /\ search.pc = "frames" /\ search.next = search.frames
  /\ IF NextFrame(search.frames + 1) # None THEN Fail /\ UNCHANGED disk
     ELSE /\ Put([Flushed(search.file, search.pending) EXCEPT !.state = "complete", !.count = search.next])
          /\ search' = [search EXCEPT !.pc = "verify", !.pending = {}, !.file = None]
  /\ UNCHANGED <<build, session, media>>

\* cancelled at any check, or the answer is delivered
Leave ==
  /\ search # None /\ Fail /\ UNCHANGED <<build, session, media, disk>>

(***************************************************************************)
(* Around it.                                                              *)
(***************************************************************************)

OpenSession(stream) ==
  /\ session = None /\ session' = stream /\ media' \in Media
  /\ UNCHANGED <<build, disk, search>>

CloseSession == session # None /\ session' = None /\ UNCHANGED <<build, media, disk, search>>

\* invalidate_source
InvalidateSource ==
  /\ \E a \in Algorithms : disk[a] # None
  /\ disk' = [a \in Algorithms |-> None]
  /\ UNCHANGED <<build, session, media, search>>

\* the process ends and this version or another one starts
Restart ==
  /\ build' \in [generation : Generations, algorithm : Algorithms]
  /\ session' = None /\ search' = None
  /\ UNCHANGED <<media, disk>>

\* rows or index keys are lost
Damage ==
  /\ search = None
  /\ \E a \in Algorithms : disk[a] # None /\ \E r \in disk[a].rows :
       disk' = [disk EXCEPT ![a].rows =
                  (@ \ {r}) \cup (IF r.keys = Bands THEN {[r EXCEPT !.keys = Bands - 1]} ELSE {})]
  /\ UNCHANGED <<build, session, media, search>>

Init ==
  /\ build \in [generation : Generations, algorithm : Algorithms]
  /\ session = None /\ media \in Media
  /\ disk = [a \in Algorithms |-> None] /\ search = None

Next ==
  \/ \E s \in Streams : OpenSession(s)
  \/ \E t \in 0 .. 1 : FindSimilarFrames(t)
  \/ Load \/ Begin \/ Frame \/ Finish \/ Query \/ Leave
  \/ CloseSession \/ InvalidateSource \/ Restart \/ Damage

Spec == Init /\ [][Next]_vars

(***************************************************************************)
(* Properties.                                                             *)
(***************************************************************************)

\* A search answers from one descriptor, fully indexed, of every frame of the
\* timeline it was asked about, each made of a decoded frame that the index
\* describes: not from another stream, version, a truncated or a damaged store,
\* whatever restarts, closes and failures came in between.
AnswersAreWhole ==
  search # None /\ search.pc = "answered" =>
    search.answer = {[frame |-> f, keys |-> Bands, of |-> Entries(search.stream)[f + 1]]
                       : f \in 0 .. Len(Entries(search.stream)) - 1}

==============================================================================
