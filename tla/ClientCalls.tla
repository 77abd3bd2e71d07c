---- MODULE ClientCalls ----
(***************************************************************************)
(* What the Android client shows of native work: the progress of an index, *)
(* the export of one frame and the answer of a similarity search.          *)
(***************************************************************************)
EXTENDS Sequences, SuiteState

CONSTANTS
    MaxFrames, Interval, Timestamps, MaxClock,                    \* IndexProgress
    ExportFrames, Jobs, Navs, MaxEpoch,                           \* FrameExport
    SearchStreams, SearchGenerations, Algorithms, Timeline, Media, Bands, SearchBatch
                                                                  \* GlobalSimilarity

\* Frames are counted, timestamps are numbers and None is none.
ASSUME ProgressAssumption == MaxFrames \in Nat /\ Timestamps \subseteq Int /\ None \notin Int
\* Every timeline is finite.
ASSUME SearchAssumption == \A s \in SearchStreams, g \in SearchGenerations : Len(Timeline[s, g]) \in Nat

VARIABLES
    session,                                                      \* of several components
    existing, attempt, start, frame, emitted, clock, state, sampled, counted,  \* IndexProgress
    snapshot, revision, nav, operation, stopped, ui, epoch, job,  \* FrameExport
    search, build, media, disk                                    \* GlobalSimilarity

Progress == INSTANCE IndexProgress
Export == INSTANCE FrameExport WITH Frames <- ExportFrames, cancelled <- stopped
Search == INSTANCE GlobalSimilarity WITH
    Streams <- SearchStreams, Generations <- SearchGenerations, BatchSize <- SearchBatch

\* Through fallbacks and rebuilds, every sample the client can poll is one it
\* accepts, its coverage is that of the current attempt, and the throughput
\* adds up to the frames decoded (index_progress.rs, update_progress).
ProgressIsTruthful ==
    component = "Progress" =>
        Progress!EverySampleIsAccepted /\ Progress!CoverageIsOwn /\ Progress!WorkIsCounted

\* A document that is kept holds, whole, the pixels of the frame in its file
\* name, although name, target, preparation and copy read the frame at four
\* moments (the generation check of copy_prepared_frame); and a success on the
\* screen is for the frame the user asked for (onDestinationSelected).
ExportedImageIsExact ==
    component = "Export" => Export!KeptImageIsItsFrame /\ Export!ShownExportIsRequested

\* A search answers from one descriptor, fully indexed, of every frame of the
\* timeline it was asked about, each made of a decoded frame that the index
\* describes: not from another stream, version, a truncated or a damaged store,
\* whatever restarts, closes and failures came in between.
AnswersAreWhole == component = "Search" => Search!AnswersAreWhole
====
