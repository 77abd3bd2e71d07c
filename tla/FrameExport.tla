----------------------------- MODULE FrameExport -----------------------------
(***************************************************************************)
(* Export of the current frame, from the view model to the document        *)
(* (FrameExportViewModel.kt, FrameScopeRepository.kt,                      *)
(* MicroscopeSessionController.kt, FrameExportDestination.kt, and          *)
(* framescope-ffi's frame_handoff.rs and microscope.rs).  The frame is     *)
(* read four times without a common lock: for the file name, for the       *)
(* target, when its pixels are prepared and when they are copied.          *)
(* Navigation and the frame loader of the screen run meanwhile.            *)
(***************************************************************************)
EXTENDS Naturals

CONSTANTS
    Frames,   \* frame ids of the open session
    Jobs,     \* 1..n: exports that may be launched, in this order
    Navs,     \* navigations that may be made
    MaxEpoch, \* bound on the view model's generation counter
    None

VARIABLES
    session,    \* native: current, generation, prepared presentation
    snapshot,   \* controller: the frame of the snapshot
    revision,   \* controller: the request revision
    nav,        \* each navigation: pc, its revision, the frame it reached
    operation,  \* activeNativeOperationId, or None
    cancelled,  \* operations whose native token was cancelled
    ui,         \* view model: state, requested frame, its job, exported frame
    epoch,      \* view model: the generation counter
    job         \* each export

vars == <<session, snapshot, revision, nav, operation, cancelled, ui, epoch, job>>

NoJob == [pc |-> "new", alive |-> TRUE, epoch |-> 0, request |-> None, name |-> None,
          target |-> None, revision |-> 0, prepared |-> None, generation |-> 0,
          pixels |-> None, document |-> "none", outcome |-> "none"]

Init ==
    /\ \E f \in Frames :
          /\ session = [current |-> f, generation |-> 1, prepared |-> None]
          /\ snapshot = f
    /\ revision = 0
    /\ nav = [n \in Navs |-> [pc |-> "new", revision |-> 0, frame |-> None]]
    /\ operation = None /\ cancelled = {}
    /\ ui = [state |-> "idle", request |-> None, job |-> None, exported |-> None]
    /\ epoch = 0
    /\ job = [j \in Jobs |-> NoJob]

(***************************************************************************)
(* Navigation and the screen's own frame loads.                            *)
(***************************************************************************)

\* set_current_frame: another frame drops the presentation of the last one.
SetCurrentFrame(f) ==
    session' = IF f = session.current THEN session
               ELSE [current |-> f, generation |-> session.generation + 1, prepared |-> None]

\* navigate: a revision is taken, then the native step runs, then the result
\* is committed if no later request took a revision.
Navigate(n) ==
    /\ \/ /\ nav[n].pc = "new" /\ revision' = revision + 1
          /\ nav' = [nav EXCEPT ![n] = [pc |-> "call", revision |-> revision', frame |-> None]]
          /\ UNCHANGED <<session, snapshot>>
       \/ /\ nav[n].pc = "call"
          /\ \E f \in Frames : SetCurrentFrame(f)
          /\ nav' = [nav EXCEPT ![n].pc = "commit", ![n].frame = session'.current]
          /\ UNCHANGED <<snapshot, revision>>
       \/ /\ nav[n].pc = "commit"
          /\ snapshot' = IF revision = nav[n].revision THEN nav[n].frame ELSE snapshot
          /\ nav' = [nav EXCEPT ![n].pc = "done"]
          /\ UNCHANGED <<session, revision>>
    /\ UNCHANGED <<operation, cancelled, ui, epoch, job>>

\* prepare_current_frame keeps the presentation of the current frame.
PrepareCurrentFrame == session' = [session EXCEPT !.prepared = session.current]

LoadFrame ==
    /\ PrepareCurrentFrame
    /\ UNCHANGED <<snapshot, revision, nav, operation, cancelled, ui, epoch, job>>

(***************************************************************************)
(* The view model, on the main thread.                                     *)
(***************************************************************************)

Stop(jobs) == IF ui.job = None THEN jobs ELSE [jobs EXCEPT ![ui.job].alive = FALSE]

CancelWork(next) ==
    /\ epoch < MaxEpoch /\ epoch' = epoch + 1
    /\ cancelled' = IF operation = None THEN cancelled ELSE cancelled \cup {operation}
    /\ job' = Stop(job)
    /\ ui' = [next EXCEPT !.job = None]
    /\ UNCHANGED <<session, snapshot, revision, nav, operation>>

\* The screen may show a frame other than the controller's snapshot.
BeginCurrentFrameExport(f) ==
    /\ \E j \in Jobs : job[j].pc = "new"
    /\ ui.state # "awaiting"
    /\ CancelWork([state |-> "awaiting", request |-> f, job |-> None, exported |-> None])

CancelForMicroscopeChange ==
    /\ ui.state # "idle"
    /\ CancelWork([ui EXCEPT !.state = "idle"])

OnDestinationSelected(j, f) ==
    /\ ui.state = "awaiting" /\ job[j].pc = "new"
    /\ \A i \in Jobs : i < j => job[i].pc # "new"
    /\ \/ /\ f # ui.request
          /\ ui' = [ui EXCEPT !.state = "error"]
          /\ UNCHANGED <<epoch, job>>
       \/ /\ f = ui.request
          /\ epoch' = epoch + 1
          /\ ui' = [ui EXCEPT !.state = "exporting", !.job = j]
          /\ job' = [Stop(job) EXCEPT ![j].pc = "name", ![j].epoch = epoch', ![j].request = f]
    /\ UNCHANGED <<session, snapshot, revision, nav, operation, cancelled>>

OnDestinationPickerCancelled ==
    /\ ui.state = "awaiting"
    /\ epoch < MaxEpoch /\ epoch' = epoch + 1 /\ ui' = [ui EXCEPT !.state = "idle"]
    /\ UNCHANGED <<session, snapshot, revision, nav, operation, cancelled, job>>

DismissStatus ==
    /\ ui.state \in {"success", "error"}
    /\ ui' = [ui EXCEPT !.state = "idle"]
    /\ UNCHANGED <<session, snapshot, revision, nav, operation, cancelled, epoch, job>>

(***************************************************************************)
(* One export, on an I/O thread.                                           *)
(***************************************************************************)

At(j, step) == job[j].pc = step
Goto(j, step) == job' = [job EXCEPT ![j].pc = step]
End(j, outcome) == job' = [job EXCEPT ![j].pc = "close", ![j].outcome = outcome]

\* The file is named for the snapshot's frame and created.
CreateDestination(j) ==
    /\ At(j, "name")
    /\ \/ ~job[j].alive /\ End(j, "cancelled")
       \/ job[j].alive /\ End(j, "error")          \* the provider refuses
       \/ /\ job[j].alive
          /\ job' = [job EXCEPT ![j].pc = "claim", ![j].name = snapshot,
                                ![j].document = "empty"]
    /\ UNCHANGED <<session, snapshot, revision, nav, operation, cancelled, ui, epoch>>

\* One native operation at a time.
ClaimOperation(j) ==
    /\ At(j, "claim")
    /\ \/ ~job[j].alive /\ End(j, "cancelled") /\ UNCHANGED operation
       \/ job[j].alive /\ operation # None /\ End(j, "error") /\ UNCHANGED operation
       \/ job[j].alive /\ operation = None /\ operation' = j /\ Goto(j, "target")
    /\ UNCHANGED <<session, snapshot, revision, nav, cancelled, ui, epoch>>

\* The controller reads its snapshot and, outside the lock, its revision.
ReadTarget(j) ==
    /\ \/ At(j, "target") /\ ~job[j].alive /\ End(j, "cancelled") /\ operation' = None
       \/ /\ At(j, "target") /\ job[j].alive /\ UNCHANGED operation
          /\ job' = [job EXCEPT ![j].pc = "revision", ![j].target = snapshot]
       \/ /\ At(j, "revision") /\ UNCHANGED operation
          /\ job' = [job EXCEPT ![j].pc = "prepare", ![j].revision = revision]
    /\ UNCHANGED <<session, snapshot, revision, nav, cancelled, ui, epoch>>

\* The native call answers with an error, cancelled or other.
Fail(j, outcome) == End(j, outcome) /\ operation' = None /\ UNCHANGED session
Interrupted(j) == j \in cancelled

\* The current frame is prepared; a newer preparation may supersede this one,
\* which is answered "cancelled" too.
Prepare(j) ==
    /\ At(j, "prepare")
    /\ \/ Fail(j, "cancelled")
       \/ Fail(j, "error")
       \/ /\ ~Interrupted(j) /\ PrepareCurrentFrame /\ UNCHANGED operation
          /\ job' = [job EXCEPT ![j].pc = "copy", ![j].prepared = session.current,
                                ![j].generation = session.generation]
    /\ UNCHANGED <<snapshot, revision, nav, cancelled, ui, epoch>>

\* Whether copy_prepared_frame serves the generation.
\* mutant: any presentation of the current frame is served
ServesAny(generation) == session.prepared = session.current
Serves(generation) ==
    /\ generation = session.generation
    /\ session.prepared # None
    /\ session.prepared = session.current

CopyPreparedFrame(j) ==
    /\ At(j, "copy")
    /\ \/ Interrupted(j) /\ Fail(j, "cancelled")
       \/ ~Interrupted(j) /\ ~Serves(job[j].generation) /\ Fail(j, "error")
       \/ /\ ~Interrupted(j) /\ Serves(job[j].generation)
          /\ job' = [job EXCEPT ![j].pc = "encode", ![j].pixels = session.prepared]
          /\ UNCHANGED <<session, operation>>
    /\ UNCHANGED <<snapshot, revision, nav, cancelled, ui, epoch>>

\* The image is written whole, or a failed write leaves a part of it.
EncodeFrame(j) ==
    /\ At(j, "encode")
    /\ \/ Interrupted(j) /\ Fail(j, "cancelled")
       \/ /\ ~Interrupted(j) /\ operation' = None
          /\ job' = [job EXCEPT ![j].pc = "close", ![j].outcome = "error",
                                ![j].document = "partial"]
          /\ UNCHANGED session
       \/ /\ ~Interrupted(j)
          /\ job' = [job EXCEPT ![j].pc = "check", ![j].document = "whole"]
          /\ UNCHANGED <<session, operation>>
    /\ UNCHANGED <<snapshot, revision, nav, cancelled, ui, epoch>>

\* isStillCurrent and the identity check of the controller.
StillCurrent(j) ==
    /\ revision = job[j].revision
    /\ snapshot = job[j].target
    /\ job[j].prepared = job[j].target

CheckResult(j) ==
    /\ At(j, "check")
    /\ operation' = None
    /\ IF StillCurrent(j) THEN Goto(j, "commit") ELSE End(j, "error")
    /\ UNCHANGED <<session, snapshot, revision, nav, cancelled, ui, epoch>>

\* The repository compares with the frame that named the file and commits.
Commit(j) ==
    /\ At(j, "commit")
    /\ \/ ~job[j].alive /\ End(j, "cancelled")
       \/ job[j].alive /\ job[j].prepared # job[j].name /\ End(j, "error")
       \/ /\ job[j].alive /\ job[j].prepared = job[j].name
          /\ job' = [job EXCEPT ![j].pc = "close", ![j].outcome = "ok"]
    /\ UNCHANGED <<session, snapshot, revision, nav, operation, cancelled, ui, epoch>>

\* close: an uncommitted document is deleted.
CloseDestination(j) ==
    /\ At(j, "close")
    /\ job' = [job EXCEPT ![j].pc = "deliver",
                          ![j].document = IF job[j].outcome = "ok" THEN "kept" ELSE "none"]
    /\ UNCHANGED <<session, snapshot, revision, nav, operation, cancelled, ui, epoch>>

Shown(j, matches) ==
    IF ~job[j].alive \/ job[j].outcome = "cancelled" THEN [ui EXCEPT !.state = "idle"]
    ELSE IF job[j].outcome = "ok" /\ matches
         THEN [ui EXCEPT !.state = "success", !.exported = job[j].prepared]
    ELSE [ui EXCEPT !.state = "error"]

\* mutant: the exported document is not compared with the request
DeliverUnchecked(j) ==
    /\ At(j, "deliver")
    /\ ui' = IF job[j].epoch = epoch THEN Shown(j, TRUE) ELSE ui
    /\ Goto(j, "done")
    /\ UNCHANGED <<session, snapshot, revision, nav, operation, cancelled, epoch>>

\* Back on the main thread: a job of an older epoch publishes nothing.
Deliver(j) ==
    /\ At(j, "deliver")
    /\ ui' = IF job[j].epoch = epoch THEN Shown(j, job[j].prepared = job[j].request) ELSE ui
    /\ Goto(j, "done")
    /\ UNCHANGED <<session, snapshot, revision, nav, operation, cancelled, epoch>>

ExportStep(j) ==
    \/ CreateDestination(j) \/ ClaimOperation(j) \/ ReadTarget(j) \/ Prepare(j)
    \/ CopyPreparedFrame(j) \/ EncodeFrame(j) \/ CheckResult(j) \/ Commit(j)
    \/ CloseDestination(j) \/ Deliver(j)

Next ==
    \/ \E n \in Navs : Navigate(n)
    \/ LoadFrame
    \/ \E f \in Frames : BeginCurrentFrameExport(f)
    \/ \E j \in Jobs, f \in Frames : OnDestinationSelected(j, f)
    \/ OnDestinationPickerCancelled
    \/ CancelForMicroscopeChange
    \/ DismissStatus
    \/ \E j \in Jobs : ExportStep(j)

Spec == Init /\ [][Next]_vars

(***************************************************************************)
(* Properties.                                                             *)
(***************************************************************************)

\* A document that is kept holds, whole, the pixels of the frame in its file
\* name, although name, target, preparation and copy read the frame at four
\* moments (the generation check of copy_prepared_frame).
KeptImageIsItsFrame ==
    \A j \in Jobs :
        job[j].document = "kept" => job[j].pixels = job[j].name

\* A success on the screen is for the frame the user asked for, and its
\* document exists (the comparison in onDestinationSelected's onSuccess).
ShownExportIsRequested ==
    ui.state = "success" =>
        /\ ui.exported = ui.request
        /\ job[ui.job].document = "kept" /\ job[ui.job].pixels = ui.request
==============================================================================
