---------------------------- MODULE BatchExport ----------------------------
(***************************************************************************)
(* One batch export, from the Android repository down to the decoder and   *)
(* back: FrameScopeRepository.exportFrames creates a workspace with the    *)
(* manifest in it, native code scans the planned span once                 *)
(* (framescope-extraction-video), hands every selected frame, or every     *)
(* group representative (framescope-extraction-groups and its crates), to  *)
(* a sink that commits one document at a time, and appends a record to the *)
(* manifest (framescope-extraction-manifest, -output); the repository then *)
(* commits the workspace or deletes it.                                    *)
(*                                                                         *)
(* The pixels of a document are the position in the source they were       *)
(* decoded from.  Any provider, decoder or manifest write may fail, the    *)
(* user may cancel, the source may be replaced, and the process may die.   *)
(***************************************************************************)
EXTENDS FrameIndexStore, Sequences, FiniteSets

CONSTANTS
  Timelines,  \* <<indexed, source>>: the source then and now
  Strides     \* every-N intervals

VARIABLES
  source, indexed, index,
  job,        \* [kind, first, last, wanted]
  pc,
  current,    \* the frame the scan stands at, and
  position,   \* where in the source it was decoded
  cancelled,  \* the native cancellation token
  stopped,    \* the coroutine was cancelled
  replaced,   \* the microscope session is no longer the one of the request
  documents,  \* frame id -> [pixels, committed]: files of the workspace
  manifest,   \* [header, claims, terminal, torn]
  code,       \* what native code answered
  workspace,  \* "none", "active", "committed", "deleted"
  report      \* what the caller of exportFrames is told

media == <<source, indexed, index, job>>
scan == <<current, position>>
signals == <<cancelled, stopped, replaced>>
vars == <<media, pc, scan, signals, documents, manifest, code, workspace, report>>

Ids(t) == DOMAIN t

\* Frame ids count from 0.  That every row of an index is anchored at the last
\* clean keyframe up to it is what Indexing establishes of a complete index.
ASSUME ExportAssumption ==
  /\ Strides \subseteq Nat \ {0}
  /\ \A pair \in Timelines :
       /\ \A timeline \in {pair[1], pair[2]} :
            \E n \in 0 .. Cardinality(Ids(timeline)) : timeline \in [0 .. n - 1 -> Frames]
       /\ Anchored(IndexOf(pair[1]))

NoDocuments == [f \in {} |-> 0]
Blank == [header |-> FALSE, claims |-> <<>>, terminal |-> "none", torn |-> FALSE]

(***************************************************************************)
(* The plan.                                                               *)
(***************************************************************************)

\* PlannedFrameIds: first, first + stride, ... up to last
Planned(first, last, stride) ==
  [k \in 1 .. (last - first) \div stride + 1 |-> first + (k - 1) * stride]

BatchJobs ==
  {LET planned == Planned(t[1], t[2], t[3])
   IN  [kind |-> "batch", first |-> t[1], last |-> planned[Len(planned)], wanted |-> planned] :
     t \in {t \in Ids(indexed) \X Ids(indexed) \X Strides : t[1] <= t[2]}}

\* one representative per group, in order; the scan spans them
UniqueJobs ==
  {[kind |-> "unique", first |-> w[1], last |-> w[Len(w)], wanted |-> w] :
     w \in {w \in UNION {[1 .. n -> Ids(indexed)] : n \in 1 .. Cardinality(Ids(indexed))} :
              \A i, j \in DOMAIN w : i < j => w[i] < w[j]}}

Wanted(id) == \E k \in DOMAIN job.wanted : job.wanted[k] = id

(***************************************************************************)
(* Manifest.                                                               *)
(***************************************************************************)

\* a write that fails may leave part of a record behind
WriteHeader ==
  /\ pc = "header"
  /\ \/ manifest' = [manifest EXCEPT !.header = TRUE] /\ pc' = "align" /\ UNCHANGED code
     \/ manifest' = [manifest EXCEPT !.torn = TRUE] /\ pc' = "returned" /\ code' = "manifest_error"
  /\ UNCHANGED <<media, scan, signals, documents, workspace, report>>

\* the terminal record of a failure; when it cannot be written the answer changes
Finish(terminal, answer) ==
  /\ pc' = "returned"
  /\ \/ manifest' = [manifest EXCEPT !.terminal = terminal] /\ code' = answer
     \/ manifest' = [manifest EXCEPT !.torn = TRUE] /\ code' = "manifest_error"

\* finish_complete
FinishComplete ==
  /\ pc = "finish" /\ Len(manifest.claims) = Len(job.wanted)
  /\ Finish("complete", "ok")
  /\ UNCHANGED <<media, scan, signals, documents, workspace, report>>

(***************************************************************************)
(* Decoding.                                                               *)
(***************************************************************************)

\* mutant: only the kind of frame is compared
MatchesLoosely(p, id) == source[p].keyframe = index[id].keyframe

Matches(p, id) == MatchesEntry(source[p], index[id])

\* every frame from id, decoded at p, up to the first planned one is expected
AlignedAt(p, id) ==
  /\ p + (job.first - id) \in Ids(source)
  /\ \A k \in 0 .. job.first - id : Matches(p + k, id + k)

\* the landing is a hint: frames are dropped until one looks like the anchor
AlignFromSeek(landing, anchor) ==
  LET seen == {p \in Ids(source) : p >= landing /\ Matches(p, anchor)}
      first == {p \in seen : \A q \in seen : p <= q}
  IN  {p + (job.first - anchor) : p \in {p \in first : AlignedAt(p, anchor)}}

AlignFromStart == IF AlignedAt(0, 0) THEN {job.first} ELSE {}

\* an anchor with a non-negative time; its seek safety is not consulted
Seekable ==
  LET anchor == index[job.first].anchor
  IN  anchor # StreamStart /\ anchor.ts # None /\ anchor.ts >= 0

\* a seek that cannot be aligned is repeated from the start, before any output
Alignments ==
  IF Seekable
  THEN {LET sought == AlignFromSeek(landing, index[job.first].anchor.frame_id)
        IN  IF sought # {} THEN sought ELSE AlignFromStart : landing \in Ids(source)}
  ELSE {AlignFromStart}

DecodeFailed == Finish("failed", "decode_error")
Interrupted == cancelled /\ Finish("cancelled", "cancelled")

\* decoders that fail to open, seek or decode, and another stream's, fail too
Align ==
  /\ pc = "align"
  /\ \/ Interrupted /\ UNCHANGED scan
     \/ ~cancelled /\ DecodeFailed /\ UNCHANGED scan
     \/ /\ ~cancelled
        /\ \E aligned \in Alignments :
             IF aligned = {} THEN DecodeFailed /\ UNCHANGED scan
             ELSE /\ current' = job.first /\ position' \in aligned
                  /\ pc' = "visit" /\ UNCHANGED <<manifest, code>>
  /\ UNCHANGED <<media, signals, documents, workspace, report>>

\* mutant: the frame that is handed out was only decoded, not reconciled
AdvanceUnverified ==
  /\ pc = "advance" /\ current # job.last
  /\ \/ Interrupted /\ UNCHANGED scan
     \/ ~cancelled /\ DecodeFailed /\ UNCHANGED scan
     \/ /\ ~cancelled /\ position + 1 \in Ids(source)
        /\ current' = current + 1 /\ position' = position + 1
        /\ pc' = "visit" /\ UNCHANGED <<manifest, code>>
  /\ UNCHANGED <<media, signals, documents, workspace, report>>

\* next_decoded and require_matching_entry: after output began a divergence is
\* an error, never a retry
Advance ==
  /\ pc = "advance" /\ current # job.last
  /\ \/ Interrupted /\ UNCHANGED scan
     \/ ~cancelled /\ DecodeFailed /\ UNCHANGED scan
     \/ /\ ~cancelled /\ position + 1 \in Ids(source) /\ Matches(position + 1, current + 1)
        /\ current' = current + 1 /\ position' = position + 1
        /\ pc' = "visit" /\ UNCHANGED <<manifest, code>>
  /\ UNCHANGED <<media, signals, documents, workspace, report>>

ScanDone ==
  /\ pc = "advance" /\ current = job.last /\ pc' = "finish"
  /\ UNCHANGED <<media, scan, signals, documents, manifest, code, workspace, report>>

(***************************************************************************)
(* Output: one document at a time, committed before it is recorded.        *)
(***************************************************************************)

\* ExtractionPlan::contains: a unique export plans every frame of its span
Selected == job.kind = "unique" \/ Wanted(current)

\* a frame that is not selected, or that represents no group, is dropped
Visit ==
  /\ pc = "visit"
  /\ \/ Selected /\ Interrupted
     \/ ~(Selected /\ cancelled) /\ ~Wanted(current) /\ pc' = "advance" /\ UNCHANGED <<manifest, code>>
     \/ ~cancelled /\ Wanted(current) /\ pc' = "open" /\ UNCHANGED <<manifest, code>>
  /\ UNCHANGED <<media, scan, signals, documents, workspace, report>>

\* openFrame: the document is created, or nothing is
OpenFrame ==
  /\ pc = "open"
  /\ \/ /\ documents' = [f \in Ids(documents) \cup {current} |->
                           IF f = current THEN [pixels |-> position, committed |-> FALSE]
                           ELSE documents[f]]
        /\ pc' = "encode" /\ UNCHANGED <<manifest, code>>
     \/ Finish("failed", "output_error") /\ UNCHANGED documents
  /\ UNCHANGED <<media, scan, signals, workspace, report>>

\* abortFrame and close delete what was not committed, when the provider can
Aborted ==
  {documents, [f \in {f \in Ids(documents) : documents[f].committed} |-> documents[f]]}

\* the descriptor is duplicated, the frame is encoded and flushed
EncodeFrame ==
  /\ pc = "encode"
  /\ \/ pc' = "commit" /\ UNCHANGED <<documents, manifest, code>>
     \/ documents' \in Aborted /\ Finish("failed", "output_error")
  /\ UNCHANGED <<media, scan, signals, workspace, report>>

\* mutant: the answer of commitFrame is not looked at
CommitUnchecked ==
  /\ pc = "commit" /\ pc' = "record"
  /\ documents' \in {[documents EXCEPT ![current].committed = TRUE], documents}
  /\ UNCHANGED <<media, scan, signals, manifest, code, workspace, report>>

\* commitFrame: the document stays once it is marked, even when closing its
\* descriptor fails and the frame is reported as rejected
CommitFrame ==
  /\ pc = "commit"
  /\ documents' = [documents EXCEPT ![current].committed = TRUE]
  /\ \/ pc' = "record" /\ UNCHANGED <<manifest, code>>
     \/ Finish("failed", "output_error")
  /\ UNCHANGED <<media, scan, signals, workspace, report>>

\* ExtractionManifestWriter::write_frame
Recorded == [manifest EXCEPT !.claims = Append(@, current)]
WriteTorn ==
  manifest' = [manifest EXCEPT !.torn = TRUE] /\ pc' = "returned" /\ code' = "manifest_error"

WriteFrame ==
  /\ pc = "record" /\ job.kind = "batch"
  /\ \/ manifest' = Recorded /\ pc' = "advance" /\ UNCHANGED code
     \/ WriteTorn
  /\ UNCHANGED <<media, scan, signals, documents, workspace, report>>

\* then the cursor moves on to the next group, which may fail, and then the
\* terminal record may not be written either
NextGroupFails ==
  /\ pc' = "returned"
  /\ \/ manifest' = [Recorded EXCEPT !.terminal = "failed"] /\ code' = "group_output_error"
     \/ manifest' = [Recorded EXCEPT !.torn = TRUE] /\ code' = "manifest_error"

WriteRepresentative ==
  /\ pc = "record" /\ job.kind = "unique"
  /\ \/ manifest' = Recorded /\ pc' = "advance" /\ UNCHANGED code
     \/ WriteTorn
     \/ NextGroupFails
  /\ UNCHANGED <<media, scan, signals, documents, workspace, report>>

(***************************************************************************)
(* The repository.                                                         *)
(***************************************************************************)

\* createBatchManifest: the workspace, then the manifest in it
CreateManifest ==
  /\ pc = "idle"
  /\ \/ workspace' = "active" /\ pc' = "preflight" /\ UNCHANGED report
     \/ workspace' \in {"none", "deleted"} /\ pc' = "done" /\ report' = "failure"
  /\ UNCHANGED <<media, scan, signals, documents, manifest, code>>

\* what export_batch and export_unique_groups answer before there is a header
BatchPreflightCodes ==
  {"invalid_destination", "selection_error", "session_not_found", "bridge_error"}
UniquePreflightCodes ==
  {"invalid_destination_preflight", "group_preflight_error", "session_not_found", "bridge_error"}

\* everything before the header: a coroutine that is no longer active, bad
\* descriptors, a closed session, the plan, the groups of a unique export
Preflight ==
  /\ pc = "preflight"
  /\ \/ stopped /\ pc' = "close" /\ UNCHANGED code
     \/ ~stopped /\ pc' = "returned" /\ code' \in IF job.kind = "unique" THEN UniquePreflightCodes
                                                 ELSE BatchPreflightCodes
     \/ /\ ~stopped /\ job.kind = "unique" /\ cancelled
        /\ pc' = "returned" /\ code' = "cancelled_preflight"
     \/ ~stopped /\ ~(job.kind = "unique" /\ cancelled) /\ pc' = "header" /\ UNCHANGED code
  /\ UNCHANGED <<media, scan, signals, documents, manifest, workspace, report>>

\* mutant: an unusable manifest is kept for inspection
PreserveEverything(answer) == answer # "session_not_found"

\* shouldPreserveFailureManifest
Preserved(answer) ==
  /\ answer \notin {"selection_error", "session_not_found", "manifest_error"}
  /\ job.kind = "unique" => answer \notin {"cancelled_preflight", "group_preflight_error",
                                          "invalid_destination_preflight", "bridge_error"}

\* after the native call: coroutine, then session, then what was answered
Recheck ==
  /\ pc = "returned" /\ pc' = "close"
  /\ LET live == ~stopped /\ ~replaced
     IN  /\ workspace' = IF live /\ (code = "ok" \/ Preserved(code))
                         THEN "committed" ELSE workspace
         /\ report' = IF live /\ code = "ok" THEN "success" ELSE "failure"
  /\ UNCHANGED <<media, scan, signals, documents, manifest, code>>

\* closing the manifest deletes a workspace that was not committed, when the
\* provider can; a descriptor that fails to close turns success into failure
Close ==
  /\ pc = "close" /\ pc' = "done"
  /\ \/ workspace = "committed" /\ UNCHANGED <<workspace, documents>>
     \/ workspace = "active" /\ workspace' = "deleted" /\ documents' = NoDocuments
     \/ workspace = "active" /\ UNCHANGED <<workspace, documents>>
  /\ report' \in {report, "failure"} \ {"none"}
  /\ UNCHANGED <<media, scan, signals, manifest, code>>

(***************************************************************************)
(* The rest of the world.                                                  *)
(***************************************************************************)

Running == pc \notin {"done", "dead"}

CancelNative ==
  /\ Running /\ ~cancelled /\ cancelled' = TRUE
  /\ UNCHANGED <<media, pc, scan, stopped, replaced, documents, manifest, code, workspace, report>>

CancelCoroutine ==
  /\ Running /\ ~stopped /\ stopped' = TRUE
  /\ UNCHANGED <<media, pc, scan, cancelled, replaced, documents, manifest, code, workspace, report>>

ReplaceSource ==
  /\ Running /\ ~replaced /\ replaced' = TRUE
  /\ UNCHANGED <<media, pc, scan, cancelled, stopped, documents, manifest, code, workspace, report>>

\* the process dies; what is on the provider stays as it is
Die ==
  /\ Running /\ pc' = "dead"
  /\ UNCHANGED <<media, scan, signals, documents, manifest, code, workspace, report>>

Init ==
  /\ \E pair \in Timelines : indexed = pair[1] /\ source = pair[2]
  /\ index = IndexOf(indexed)
  /\ job \in BatchJobs \cup UniqueJobs
  /\ pc = "idle" /\ current = 0 /\ position = 0
  /\ cancelled = FALSE /\ stopped = FALSE /\ replaced = FALSE
  /\ documents = NoDocuments /\ manifest = Blank
  /\ code = "none" /\ workspace = "none" /\ report = "none"

Step ==
  \/ CreateManifest \/ Preflight \/ WriteHeader \/ Align \/ Visit \/ OpenFrame \/ EncodeFrame
  \/ CommitFrame \/ WriteFrame \/ WriteRepresentative \/ Advance \/ ScanDone
  \/ FinishComplete \/ Recheck \/ Close

Next == Step \/ CancelNative \/ CancelCoroutine \/ ReplaceSource \/ Die

Spec == Init /\ [][Next]_vars

(***************************************************************************)
(* Properties.                                                             *)
(***************************************************************************)

Committed == {f \in Ids(documents) : documents[f].committed}

Kept == CASE workspace = "committed" -> "yes" [] workspace = "deleted" -> "gone" [] OTHER -> "no"

Contract == INSTANCE ExportContract WITH
  wanted <- job.wanted, stored <- Committed, claimed <- manifest.claims,
  terminal <- manifest.terminal, told <- report, kept <- Kept

\* The export implements its contract, whichever call fails and whenever the
\* process dies: the manifest never claims an artifact that was not committed,
\* claims are in plan order without gaps or repetitions, and only a complete
\* manifest in a committed workspace is reported as success (export_request).
KeepsContract == Contract!CSpec

\* A manifest with part of a record in it is never the one of a committed
\* workspace (shouldPreserveFailureManifest).
NoTornManifestIsKept == workspace = "committed" => ~manifest.torn

\* The scan that ends has recorded everything that was planned, so that
\* finish_complete never refuses an export for its count.
ScanRecordsAll == pc = "finish" => manifest.claims = job.wanted

\* Every document looks like its indexed frame even if the source changed
\* behind the index (require_matching_entry); and while the source is the one
\* that was indexed and its clean keyframes can be told apart, every document
\* shows exactly its frame, wherever a seek lands.
ExportIsExact ==
  /\ \A f \in Ids(documents) : Matches(documents[f].pixels, f)
  /\ source = indexed /\ ComputeSeekSafety(index) = "unambiguous" =>
       \A f \in Ids(documents) : documents[f].pixels = f

\* Read from the comment on extract_rgba_plan: when alignment cannot be proven
\* the scan starts over, so that a seek never changes which frame is exported.
SeekNeverChangesPixels ==
  source = indexed => \A f \in Ids(documents) : documents[f].pixels = f

\* Read from docs/architecture.md: a failed export keeps its workspace only
\* when output has begun.
KeptOnlyAfterOutput == workspace = "committed" => documents # NoDocuments

\* Read from docs/phase7-device-provider-acceptance.md: the manifest of an
\* export that was interrupted by process death has no complete record.
InterruptedIsNotComplete ==
  pc = "dead" /\ workspace # "committed" => manifest.terminal # "complete"

\* Read from the comment on FrameOutputSink: a frame that is reported as failed
\* leaves no committed artifact.
FailedFrameLeavesNothing ==
  pc = "returned" /\ code = "output_error" =>
    \A f \in Committed : \E k \in DOMAIN manifest.claims : manifest.claims[k] = f
=============================================================================
