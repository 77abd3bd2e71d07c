------------------------- MODULE SessionController -------------------------
(***************************************************************************)
(* MicroscopeSessionController: the Android owner of at most one native    *)
(* session, composed with the storage gate and the native registry.        *)
(*                                                                         *)
(* Any thread may make any of its calls.  A call is a sequence of steps,   *)
(* one for each critical section or atomic access of the code, so native   *)
(* work runs between them, outside stateLock.                              *)
(***************************************************************************)
EXTENDS StorageGate, MicroscopeRegistry

CONSTANTS
  LastRevision,   \* Long.MAX_VALUE
  MaxCalls,       \* bound on the calls a behaviour makes
  CallsMade       \* the kinds of calls it makes

VARIABLES
  snapshot,       \* the session the app believes in, or None
  revision,
  pc,             \* the step each thread takes next
  req,            \* the local variables of its call
  calls           \* calls made so far

controllerVars == <<snapshot, revision, pc, req, calls>>

vars == <<gateVars, registryVars, controllerVars>>


TERMINAL_REVISION == -1

Calls == {"open", "close", "navigate", "load", "export", "storage", "clear"}

\* steps between beginSessionTransition and endSessionTransition
TransitionSteps ==
  {"open_revision", "open_native", "opening", "open_commit", "close_invalidate",
   "close_detach", "cleanup_detach", "native_close", "end", "ending"}

Steps ==
  Calls \cup TransitionSteps \cup
  {"idle", "cleanup", "nav_revision", "nav_handle", "nav_move", "nav_commit",
   "load_revision", "load_handle", "load_prepare", "load_check", "copy_handle",
   "copy", "return", "storing", "clearing"}

Snapshots == [session : Nat, frame : Frames \cup {None}]

ASSUME ControllerAssumption ==
  /\ LastRevision \in Nat /\ MaxCalls \in Nat
  /\ CallsMade \subseteq Calls
  /\ None \notin Snapshots

(***************************************************************************)
(* session, frame: the target read at the start, or what the native call   *)
(* returned; closing: a session this call must close; prepared, generation:*)
(* the frame descriptor; pixels: the frame whose pixels were copied; seen: *)
(* the argument of endSessionTransition.                                   *)
(***************************************************************************)
Requests ==
  [call : Calls \cup {None}, revision : Int, session : Nat, frame : Frames \cup {None},
   closing : Nat, prepared : Frames \cup {None}, generation : Nat,
   pixels : Frames \cup {None}, seen : BOOLEAN]

NoRequest ==
  [call |-> None, revision |-> 0, session |-> 0, frame |-> None, closing |-> 0,
   prepared |-> None, generation |-> 0, pixels |-> None, seen |-> FALSE]

\* The bookkeeping is within bounds.
TypeOK ==
  /\ GateTypeOK
  /\ RegistryTypeOK
  /\ snapshot \in Snapshots \cup {None}
  /\ revision \in {TERMINAL_REVISION} \cup 0 .. LastRevision
  /\ pc \in [Threads -> Steps]
  /\ req \in [Threads -> Requests]
  /\ calls \in 0 .. MaxCalls

Init ==
  /\ GateInit
  /\ RegistryInit
  /\ snapshot = None
  /\ revision = 0
  /\ pc = [t \in Threads |-> "idle"]
  /\ req = [t \in Threads |-> NoRequest]
  /\ calls = 0

At(t, step) == pc[t] = step /\ UNCHANGED calls

Goto(t, step) == pc' = [pc EXCEPT ![t] = step]

Return(t) == Goto(t, "idle") /\ req' = [req EXCEPT ![t] = NoRequest]

Start(t, call) ==
  /\ pc[t] = "idle"
  /\ calls < MaxCalls
  /\ calls' = calls + 1
  /\ Goto(t, call)
  /\ req' = [req EXCEPT ![t].call = call]
  /\ UNCHANGED <<gateVars, registryVars, snapshot, revision>>

RevisionsLeft == revision >= 0 /\ revision # LastRevision

\* nextRevision, granted; it returns null when no revision is left
NextRevision(t) ==
  /\ RevisionsLeft
  /\ revision' = revision + 1
  /\ req' = [req EXCEPT ![t].revision = revision']

InvalidateRevision ==
  revision' = IF revision < 0 \/ revision = LastRevision THEN TERMINAL_REVISION
              ELSE revision + 1

SessionIs(s) == snapshot # None /\ snapshot.session = s

\* isRequestCurrent
RequestIsCurrent(r) == revision = r.revision /\ SessionIs(r.session)

\* isStillCurrent
StillCurrent(r) == RequestIsCurrent(r) /\ snapshot.frame = r.frame

(***************************************************************************)
(* open                                                                    *)
(***************************************************************************)
OpenBegins(t) ==
  /\ At(t, "open")
  /\ BeginSessionTransition
  /\ Goto(t, "open_revision")
  /\ UNCHANGED <<registryVars, snapshot, revision, req>>

OpenTakesRevision(t) ==
  /\ At(t, "open_revision")
  /\ \/ NextRevision(t) /\ Goto(t, "open_native")
     \/ ~RevisionsLeft /\ Goto(t, "end") /\ UNCHANGED <<revision, req>>
  /\ UNCHANGED <<gateVars, registryVars, snapshot>>

OpenCallsNative(t) ==
  /\ At(t, "open_native")
  /\ \/ NativeOpenEnters(t) /\ Goto(t, "opening")
     \/ poisoned /\ Goto(t, "end") /\ UNCHANGED registryVars
  /\ UNCHANGED <<gateVars, snapshot, revision, req>>

OpenSucceeds(t) ==
  /\ At(t, "opening")
  /\ \E frame \in {0, None} :
       /\ NativeOpenSucceeds(t, frame)
       /\ req' = [req EXCEPT ![t].session = nextSession, ![t].frame = frame]
  /\ Goto(t, "open_commit")
  /\ UNCHANGED <<gateVars, snapshot, revision>>

OpenFails(t) ==
  /\ At(t, "opening")
  /\ NativeOpenFails(t) \/ NativeOpenPanics(t)
  /\ Goto(t, "end")
  /\ UNCHANGED <<gateVars, snapshot, revision, req>>

\* mutant: the replaced session is not closed
OpenForgetsPrevious(t) ==
  /\ At(t, "open_commit")
  /\ revision = req[t].revision
  /\ snapshot' = [session |-> req[t].session, frame |-> req[t].frame]
  /\ Goto(t, "end")
  /\ UNCHANGED <<gateVars, registryVars, revision, req>>

OpenCommits(t) ==
  /\ At(t, "open_commit")
  /\ revision = req[t].revision
  /\ snapshot' = [session |-> req[t].session, frame |-> req[t].frame]
  /\ IF snapshot = None
     THEN Goto(t, "end") /\ UNCHANGED req
     ELSE /\ req' = [req EXCEPT ![t].closing = snapshot.session]
          /\ Goto(t, "native_close")
  /\ UNCHANGED <<gateVars, registryVars, revision>>

\* The new session is closed again; session 0 marks the open as failed.
OpenIsStale(t) ==
  /\ At(t, "open_commit")
  /\ revision # req[t].revision
  /\ req' = [req EXCEPT ![t].closing = req[t].session, ![t].session = 0]
  /\ Goto(t, "native_close")
  /\ UNCHANGED <<gateVars, registryVars, snapshot, revision>>

(***************************************************************************)
(* The end of open, closeCurrent and closeIfCurrent: the native close, and *)
(* the finally block, which reads the snapshot before it takes the gate's  *)
(* lock.  The repository calls closeIfCurrent when the coroutine of a      *)
(* successful open was cancelled.                                          *)
(***************************************************************************)
ClosesNative(t) ==
  /\ At(t, "native_close")
  /\ NativeClose(req[t].closing) \/ (poisoned /\ UNCHANGED registryVars)
  /\ Goto(t, "end")
  /\ UNCHANGED <<gateVars, snapshot, revision, req>>

EndReadsSnapshot(t) ==
  /\ At(t, "end")
  /\ req' = [req EXCEPT ![t].seen = (snapshot # None)]
  /\ Goto(t, "ending")
  /\ UNCHANGED <<gateVars, registryVars, snapshot, revision>>

EndsTransition(t) ==
  /\ At(t, "ending")
  /\ EndSessionTransition(req[t].seen)
  /\ \/ Return(t)
     \/ req[t].call = "open" /\ req[t].session # 0 /\ Goto(t, "cleanup") /\ UNCHANGED req
  /\ UNCHANGED <<registryVars, snapshot, revision>>

CleanupBegins(t) ==
  /\ At(t, "cleanup")
  /\ BeginSessionTransition
  /\ Goto(t, "cleanup_detach")
  /\ UNCHANGED <<registryVars, snapshot, revision, req>>

CleanupDetaches(t) ==
  /\ At(t, "cleanup_detach")
  /\ IF SessionIs(req[t].session)
     THEN /\ snapshot' = None
          /\ req' = [req EXCEPT ![t].closing = req[t].session, ![t].session = 0]
          /\ Goto(t, "native_close")
     ELSE /\ req' = [req EXCEPT ![t].session = 0]
          /\ Goto(t, "end")
          /\ UNCHANGED snapshot
  /\ UNCHANGED <<gateVars, registryVars, revision>>

(***************************************************************************)
(* closeCurrent                                                            *)
(***************************************************************************)
CloseBegins(t) ==
  /\ At(t, "close")
  /\ BeginSessionTransition
  /\ Goto(t, "close_invalidate")
  /\ UNCHANGED <<registryVars, snapshot, revision, req>>

CloseInvalidates(t) ==
  /\ At(t, "close_invalidate")
  /\ InvalidateRevision
  /\ Goto(t, "close_detach")
  /\ UNCHANGED <<gateVars, registryVars, snapshot, req>>

CloseDetaches(t) ==
  /\ At(t, "close_detach")
  /\ snapshot' = None
  /\ IF snapshot = None
     THEN Goto(t, "end") /\ UNCHANGED req
     ELSE /\ req' = [req EXCEPT ![t].closing = snapshot.session]
          /\ Goto(t, "native_close")
  /\ UNCHANGED <<gateVars, registryVars, revision>>

(***************************************************************************)
(* navigate: step, jumpToFrame and jumpToTimestamp                         *)
(***************************************************************************)
NavReadsTarget(t) ==
  /\ At(t, "navigate")
  /\ IF snapshot = None THEN Return(t)
     ELSE /\ req' = [req EXCEPT ![t].session = snapshot.session]
          /\ Goto(t, "nav_revision")
  /\ UNCHANGED <<gateVars, registryVars, snapshot, revision>>

NavTakesRevision(t) ==
  /\ At(t, "nav_revision")
  /\ \/ NextRevision(t) /\ Goto(t, "nav_handle")
     \/ ~RevisionsLeft /\ Return(t) /\ UNCHANGED revision
  /\ UNCHANGED <<gateVars, registryVars, snapshot>>

\* with_session_mut clones the handle, or finds no such session
TakesHandle(t, step, next) ==
  /\ At(t, step)
  /\ IF req[t].session \in registered THEN Goto(t, next) /\ UNCHANGED req ELSE Return(t)
  /\ UNCHANGED <<gateVars, registryVars, snapshot, revision>>

\* The position moves; composing the native snapshot may still fail.
NavMoves(t) ==
  /\ At(t, "nav_move")
  /\ \E frame \in Frames :
       /\ NavigateSession(req[t].session, frame)
       /\ \/ req' = [req EXCEPT ![t].frame = frame] /\ Goto(t, "nav_commit")
          \/ Return(t)
  /\ UNCHANGED <<gateVars, snapshot, revision>>

\* at the first or last frame, no frame or timestamp to land on, an error
NavRefused(t) ==
  /\ At(t, "nav_move")
  /\ Return(t)
  /\ UNCHANGED <<gateVars, registryVars, snapshot, revision>>

\* mutant: the revision is compared, the session is not
NavCommitsToAny(t) ==
  /\ At(t, "nav_commit")
  /\ IF revision = req[t].revision
     THEN snapshot' = [session |-> req[t].session, frame |-> req[t].frame]
     ELSE UNCHANGED snapshot
  /\ Return(t)
  /\ UNCHANGED <<gateVars, registryVars, revision>>

NavCommits(t) ==
  /\ At(t, "nav_commit")
  /\ IF RequestIsCurrent(req[t])
     THEN snapshot' = [session |-> req[t].session, frame |-> req[t].frame]
     ELSE UNCHANGED snapshot
  /\ Return(t)
  /\ UNCHANGED <<gateVars, registryVars, revision>>

(***************************************************************************)
(* loadCurrentFrame and exportCurrentFrame: the native export prepares and *)
(* copies as a load does, but inside one call, so the checks a load makes  *)
(* in between come after it.                                               *)
(***************************************************************************)
LoadReadsTarget(t) ==
  /\ pc[t] \in {"load", "export"} /\ UNCHANGED calls
  /\ IF snapshot = None THEN Return(t)
     ELSE /\ req' = [req EXCEPT ![t].session = snapshot.session, ![t].frame = snapshot.frame]
          /\ Goto(t, "load_revision")
  /\ UNCHANGED <<gateVars, registryVars, snapshot, revision>>

LoadReadsRevision(t) ==
  /\ At(t, "load_revision")
  /\ IF req[t].frame = None THEN Return(t)
     ELSE req' = [req EXCEPT ![t].revision = revision] /\ Goto(t, "load_handle")
  /\ UNCHANGED <<gateVars, registryVars, snapshot, revision>>

LoadPrepares(t) ==
  /\ At(t, "load_prepare")
  /\ PrepareCurrentFrame(req[t].session)
  /\ req' = [req EXCEPT ![t].prepared = session[req[t].session].current,
                        ![t].generation = session[req[t].session].generation]
  /\ Goto(t, IF req[t].call = "load" THEN "load_check" ELSE "copy_handle")
  /\ UNCHANGED <<gateVars, snapshot, revision>>

\* a decoder error, or a newer navigation cancelled the preparation
LoadFails(t) ==
  /\ At(t, "load_prepare")
  /\ Return(t)
  /\ UNCHANGED <<gateVars, registryVars, snapshot, revision>>

LoadChecks(t) ==
  /\ At(t, "load_check")
  /\ IF req[t].prepared = req[t].frame /\ StillCurrent(req[t])
     THEN Goto(t, "copy_handle") /\ UNCHANGED req
     ELSE Return(t)
  /\ UNCHANGED <<gateVars, registryVars, snapshot, revision>>

LoadCopies(t) ==
  /\ At(t, "copy")
  /\ IF MayCopy(req[t].session, req[t].generation)
     THEN /\ req' = [req EXCEPT ![t].pixels = session[req[t].session].presented]
          /\ Goto(t, "return")
     ELSE Return(t)
  /\ UNCHANGED <<gateVars, registryVars, snapshot, revision>>

\* The pixels reach the caller only if this holds when the call returns.
Delivered(r) == StillCurrent(r) /\ r.prepared = r.frame

LoadReturns(t) ==
  /\ At(t, "return")
  /\ Return(t)
  /\ UNCHANGED <<gateVars, registryVars, snapshot, revision>>

(***************************************************************************)
(* Storage work through the gate, and a native clear.                      *)
(***************************************************************************)
StorageRuns(t) ==
  /\ At(t, "storage")
  /\ \/ BeginStorage /\ Goto(t, "storing") /\ UNCHANGED req
     \/ StorageBusy /\ Return(t) /\ UNCHANGED gateVars
  /\ UNCHANGED <<registryVars, snapshot, revision>>

StorageEnds(t) ==
  /\ At(t, "storing")
  /\ EndStorage
  /\ Return(t)
  /\ UNCHANGED <<registryVars, snapshot, revision>>

ClearRuns(t) ==
  /\ At(t, "clear")
  /\ \/ ClearEnters(t) /\ Goto(t, "clearing") /\ UNCHANGED req
     \/ ClearRefused /\ Return(t) /\ UNCHANGED registryVars
  /\ UNCHANGED <<gateVars, snapshot, revision>>

ClearEnds(t) ==
  /\ At(t, "clearing")
  /\ ClearLeaves(t)
  /\ Return(t)
  /\ UNCHANGED <<gateVars, snapshot, revision>>

(***************************************************************************)
(* The specification.                                                      *)
(***************************************************************************)
Continue(t) ==
  \/ OpenBegins(t) \/ OpenTakesRevision(t) \/ OpenCallsNative(t)
  \/ OpenSucceeds(t) \/ OpenFails(t) \/ OpenCommits(t) \/ OpenIsStale(t)
  \/ ClosesNative(t) \/ EndReadsSnapshot(t) \/ EndsTransition(t)
  \/ CleanupBegins(t) \/ CleanupDetaches(t)
  \/ CloseBegins(t) \/ CloseInvalidates(t) \/ CloseDetaches(t)
  \/ NavReadsTarget(t) \/ NavTakesRevision(t) \/ TakesHandle(t, "nav_handle", "nav_move")
  \/ NavMoves(t) \/ NavRefused(t) \/ NavCommits(t)
  \/ LoadReadsTarget(t) \/ LoadReadsRevision(t)
  \/ TakesHandle(t, "load_handle", "load_prepare")
  \/ LoadPrepares(t) \/ LoadFails(t) \/ LoadChecks(t)
  \/ TakesHandle(t, "copy_handle", "copy") \/ LoadCopies(t) \/ LoadReturns(t)
  \/ StorageRuns(t) \/ StorageEnds(t) \/ ClearRuns(t) \/ ClearEnds(t)

AllReturned == calls = MaxCalls /\ \A t \in Threads : pc[t] = "idle"

Finished == AllReturned /\ UNCHANGED vars

Next ==
  \/ \E t \in Threads : Continue(t) \/ \E call \in CallsMade : Start(t, call)
  \/ Finished

Spec == Init /\ [][Next]_vars

(***************************************************************************)
(* A started call keeps running: its thread is scheduled, the lifecycle    *)
(* lock and the gate are released by whoever holds them.                   *)
(***************************************************************************)
FairSpec == Spec /\ \A t \in Threads : WF_vars(Continue(t))

(***************************************************************************)
(* Properties                                                              *)
(***************************************************************************)

\* The session the app believes in is open: no late result of open or
\* navigate brings back a session that was replaced or closed.
SnapshotIsLive == snapshot # None => snapshot.session \in registered

\* Every native session is the current one or in the hands of a call that
\* will commit or close it, however opens, closes and cancelled opens
\* interleave; only a panic inside an open can strand one.
HeldBy(t) ==
  CASE pc[t] = "open_commit" -> {req[t].session}
    [] pc[t] = "native_close" -> {req[t].closing}
    [] OTHER -> {}

NoSessionLeaks ==
  ~poisoned =>
    \A s \in registered : SessionIs(s) \/ \E t \in Threads : s \in HeldBy(t)

\* Pixels that a load or an export delivers are those of the frame the app
\* shows as current, although target, revision, preparation and copy are
\* read at four different times.
DeliveredFrameIsShown ==
  \A t \in Threads :
    pc[t] = "return" /\ Delivered(req[t]) => req[t].pixels = snapshot.frame

\* While a storage operation owns the gate no open or close is under way,
\* native or not: the window that MicroscopeStorageGate is there to close.
StorageExcludesTransitions ==
  storageOperationActive => \A t \in Threads : pc[t] \notin TransitionSteps

\* Every call returns: waiting on the gate and on the lifecycle lock cannot
\* become a cycle, a panic inside an open included.
CallsReturn == \A t \in Threads : pc[t] # "idle" ~> pc[t] = "idle"

\* MicroscopeStorageGate's promise about sessions: storage work runs only
\* when there is no active session.
StorageMeetsNoSession == storageOperationActive => snapshot = None

\* A navigation that is committed leaves the app and the native session at
\* the same frame: no late native call of an older navigation overwrites a
\* newer one.
CommitAgreesWithNative ==
  \A t \in Threads :
    pc[t] = "nav_commit" /\ RequestIsCurrent(req[t]) =>
      session[req[t].session].current = req[t].frame
=============================================================================
