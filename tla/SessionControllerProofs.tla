----------------------- MODULE SessionControllerProofs -----------------------
(***************************************************************************)
(* The safety of the session controller for any number of threads, calls,  *)
(* sessions, frames and revisions.                                         *)
(*                                                                         *)
(* None of the properties is inductive.  ControllerInv adds what the code  *)
(* relies on without saying so: who owns a native session between its open *)
(* and its close (Ownership), that the gate's counter counts the           *)
(* transitions under way (Counted), and that a generation read from a      *)
(* session still names the frame that was prepared with it (Position).     *)
(*                                                                         *)
(* The native registry comes first, under any client.  ClearMeetsNoSession *)
(* is not inductive: with_destructive_access looks at the count only.      *)
(* RegistryInv adds that the count covers every registered session and the *)
(* one being opened, as long as no panic has poisoned the lifecycle lock.  *)
(***************************************************************************)
EXTENDS SessionController, FiniteSetTheorems, TLAPS

OpeningCount == IF opening = None THEN 0 ELSE 1

RegistryInv ==
  /\ RegistryTypeOK
  /\ poisoned => opening = None
  /\ ~poisoned => active >= Cardinality(registered) + OpeningCount
  /\ ClearMeetsNoSession

(***************************************************************************)
(* What a step never does to a session: its position changes only together *)
(* with its generation, and no session id is forgotten.                    *)
(***************************************************************************)
GenerationsGrow ==
  /\ nextSession <= nextSession'
  /\ \A s \in SessionIds :
       /\ session'[s].generation >= session[s].generation
       /\ session'[s].generation = session[s].generation =>
            session'[s].current = session[s].current

\* The registered sessions are finitely many, so their count is a number.
LEMMA RegisteredFinite ==
  ASSUME RegistryTypeOK
  PROVE  /\ IsFiniteSet(registered)
         /\ Cardinality(registered) \in Nat
         /\ \A s : /\ s \notin registered =>
                        Cardinality(registered \cup {s}) = Cardinality(registered) + 1
                   /\ s \in registered =>
                        Cardinality(registered \ {s}) = Cardinality(registered) - 1
         /\ Cardinality(registered) = 0 => registered = {}
<1>1. IsFiniteSet(SessionIds)
  BY FS_Interval DEF SessionIds, RegistryTypeOK
<1>2. IsFiniteSet(registered)
  BY <1>1, FS_Subset DEF RegistryTypeOK
<1> QED BY <1>2, FS_CardinalityType, FS_AddElement, FS_RemoveElement, FS_EmptySet

\* The count of the sessions the registry starts with.
LEMMA RegistryInitInv ==
  ASSUME RegistryInit
  PROVE  RegistryInv
<1>1. SessionIds = 1 .. 0 /\ SessionIds = {}
  BY DEF RegistryInit, SessionIds
<1>2. session \in [SessionIds -> NavigationSessions]
  BY <1>1 DEF RegistryInit
<1>3. nextSession \in Nat \ {0} /\ active \in Nat
  BY DEF RegistryInit
<1>4. registered \subseteq SessionIds /\ poisoned \in BOOLEAN
  BY DEF RegistryInit
<1>5. RegistryTypeOK
  BY <1>2, <1>3, <1>4 DEF RegistryInit, RegistryTypeOK
<1> QED
  BY <1>5, FS_EmptySet DEF RegistryInit, RegistryInv, OpeningCount, ClearMeetsNoSession

\* A call that touches no session leaves every position as it is.
LEMMA SessionsUntouched ==
  ASSUME RegistryTypeOK, UNCHANGED <<nextSession, session>>
  PROVE  GenerationsGrow /\ SessionIds' = SessionIds
BY DEF RegistryTypeOK, GenerationsGrow, SessionIds, NavigationSessions

\* nativeOpenMicroscopeSession counts itself before it works.
LEMMA NativeOpenEntersInv ==
  ASSUME RegistryInv, NEW t \in Threads, NativeOpenEnters(t)
  PROVE  RegistryInv' /\ GenerationsGrow
<1>1. RegistryTypeOK'
  BY DEF RegistryInv, RegistryTypeOK, NativeOpenEnters, SessionIds
<1> QED
  BY <1>1, RegisteredFinite, RegistryAssumption
     DEF RegistryInv, RegistryTypeOK, NativeOpenEnters, LifecycleLockFree,
         OpeningCount, ClearMeetsNoSession, GenerationsGrow, SessionIds,
         NavigationSessions

\* A registered session takes over the count of its opening.
LEMMA NativeOpenSucceedsInv ==
  ASSUME RegistryInv, NEW t \in Threads, NEW frame \in {0, None},
         NativeOpenSucceeds(t, frame)
  PROVE  RegistryInv' /\ GenerationsGrow
<1>1. nextSession \in Nat /\ nextSession \notin registered
  BY DEF RegistryInv, RegistryTypeOK, SessionIds
<1>2. NewSession(frame) \in NavigationSessions
  BY RegistryAssumption DEF NewSession, NavigationSessions, Frames
<1>3. RegistryTypeOK'
  <2>1. SessionIds' = 1 .. nextSession
    BY <1>1 DEF NativeOpenSucceeds, SessionIds
  <2>2. session' \in [SessionIds' -> NavigationSessions]
    BY <1>1, <1>2, <2>1 DEF NativeOpenSucceeds, SessionIds, RegistryInv, RegistryTypeOK
  <2> QED
    BY <1>1, <2>1, <2>2
       DEF NativeOpenSucceeds, SessionIds, RegistryInv, RegistryTypeOK
<1>4. Cardinality(registered') = Cardinality(registered) + 1
  BY <1>1, RegisteredFinite DEF NativeOpenSucceeds, RegistryInv
<1>5. GenerationsGrow
  BY <1>1 DEF GenerationsGrow, NativeOpenSucceeds, SessionIds, RegistryInv,
              RegistryTypeOK, NavigationSessions
<1> QED
  BY <1>3, <1>4, <1>5, RegistryAssumption, RegisteredFinite
     DEF RegistryInv, RegistryTypeOK, NativeOpenSucceeds, OpeningCount,
         ClearMeetsNoSession

\* A failed open gives its count back; a panic keeps it and the lock.
LEMMA NativeOpenFailsInv ==
  ASSUME RegistryInv, NEW t \in Threads, NativeOpenFails(t) \/ NativeOpenPanics(t)
  PROVE  RegistryInv' /\ GenerationsGrow
<1>1. t # None /\ opening = t /\ ~poisoned /\ active >= Cardinality(registered) + 1
  BY RegistryAssumption
     DEF RegistryInv, NativeOpenFails, NativeOpenPanics, OpeningCount, RegistryTypeOK
<1>2. Cardinality(registered) \in Nat
  BY RegisteredFinite DEF RegistryInv
<1>3. SessionIds' = SessionIds /\ GenerationsGrow
  BY SessionsUntouched DEF RegistryInv, NativeOpenFails, NativeOpenPanics
<1>4. CASE NativeOpenFails(t)
  BY <1>1, <1>2, <1>3, <1>4
     DEF RegistryInv, RegistryTypeOK, NativeOpenFails, OpeningCount, ClearMeetsNoSession
<1>5. CASE NativeOpenPanics(t)
  BY <1>1, <1>3, <1>5
     DEF RegistryInv, RegistryTypeOK, NativeOpenPanics, ClearMeetsNoSession
<1> QED BY <1>4, <1>5

\* nativeCloseMicroscopeSession discounts a session when it removes it.
LEMMA NativeCloseInv ==
  ASSUME RegistryInv, NEW s, NativeClose(s)
  PROVE  RegistryInv' /\ GenerationsGrow
<1>0. SessionIds' = SessionIds /\ GenerationsGrow
  BY SessionsUntouched DEF RegistryInv, NativeClose
<1>1. RegistryTypeOK'
  BY <1>0 DEF RegistryInv, RegistryTypeOK, NativeClose
<1>2. ~poisoned' => active' >= Cardinality(registered') + OpeningCount'
  <2>1. CASE s \in registered
    BY <2>1, RegisteredFinite
       DEF RegistryInv, RegistryTypeOK, NativeClose, OpeningCount, LifecycleLockFree
  <2>2. CASE s \notin registered
    <3>1. registered' = registered /\ active' = active
      BY <2>2 DEF NativeClose
    <3> QED BY <3>1 DEF RegistryInv, NativeClose, OpeningCount
  <2> QED BY <2>1, <2>2
<1> QED
  BY <1>0, <1>1, <1>2
     DEF RegistryInv, NativeClose, LifecycleLockFree, ClearMeetsNoSession

\* A destructive call that is let in meets an empty registry.
LEMMA ClearInv ==
  ASSUME RegistryInv, NEW t \in Threads, ClearEnters(t) \/ ClearLeaves(t)
  PROVE  RegistryInv' /\ GenerationsGrow
<1>1. RegistryTypeOK'
  BY DEF RegistryInv, RegistryTypeOK, ClearEnters, ClearLeaves, SessionIds
<1>2. ClearMeetsNoSession'
  <2>1. CASE ClearEnters(t)
    <3>1. Cardinality(registered) = 0
      BY <2>1, RegisteredFinite
         DEF RegistryInv, ClearEnters, LifecycleLockFree, OpeningCount
    <3> QED
      BY <3>1, <2>1, RegisteredFinite
         DEF RegistryInv, ClearEnters, LifecycleLockFree, ClearMeetsNoSession
  <2>2. CASE ClearLeaves(t)
    BY <2>2 DEF ClearLeaves, ClearMeetsNoSession
  <2> QED BY <2>1, <2>2
<1>3. GenerationsGrow
  BY SessionsUntouched DEF RegistryInv, ClearEnters, ClearLeaves
<1>4. UNCHANGED <<registered, active, opening, poisoned>>
  BY DEF ClearEnters, ClearLeaves
<1> QED
  BY <1>1, <1>2, <1>3, <1>4 DEF RegistryInv, OpeningCount

\* Moving a session to another frame takes a new generation.
LEMMA NavigateSessionInv ==
  ASSUME RegistryInv, NEW s \in SessionIds, NEW frame \in Frames,
         NavigateSession(s, frame)
  PROVE  RegistryInv' /\ GenerationsGrow
<1>1. session[s] \in NavigationSessions
  BY DEF RegistryInv, RegistryTypeOK
<1> DEFINE moved == [current |-> frame, generation |-> session[s].generation + 1,
                     presented |-> None]
<1>2. moved \in NavigationSessions
  BY <1>1 DEF NavigationSessions
<1>3. session' = [session EXCEPT ![s] = IF session[s].current = frame THEN session[s]
                                        ELSE moved]
  BY DEF NavigateSession, SetCurrentFrame
<1>4. session' \in [SessionIds -> NavigationSessions]
  BY <1>1, <1>2, <1>3 DEF RegistryInv, RegistryTypeOK
<1>5. RegistryTypeOK'
  BY <1>4 DEF RegistryInv, RegistryTypeOK, NavigateSession, SessionIds
<1>6. GenerationsGrow
  BY <1>1, <1>3 DEF GenerationsGrow, RegistryInv, RegistryTypeOK, NavigationSessions,
                    NavigateSession, SessionIds
<1> QED
  BY <1>5, <1>6
     DEF RegistryInv, NavigateSession, OpeningCount, ClearMeetsNoSession

\* Preparing the current frame leaves position and generation alone.
LEMMA PrepareCurrentFrameInv ==
  ASSUME RegistryInv, NEW s \in SessionIds, PrepareCurrentFrame(s)
  PROVE  RegistryInv' /\ GenerationsGrow
<1>1. session[s] \in NavigationSessions
  BY DEF RegistryInv, RegistryTypeOK
<1> DEFINE shown == [session[s] EXCEPT !.presented = session[s].current]
<1>2. /\ shown \in NavigationSessions
      /\ shown.generation = session[s].generation /\ shown.current = session[s].current
  BY <1>1 DEF NavigationSessions
<1>3. session' = [session EXCEPT ![s] = shown]
  BY DEF PrepareCurrentFrame
<1> HIDE DEF shown
<1>4. session' \in [SessionIds -> NavigationSessions]
  BY <1>2, <1>3 DEF RegistryInv, RegistryTypeOK
<1>5. RegistryTypeOK'
  BY <1>4 DEF RegistryInv, RegistryTypeOK, PrepareCurrentFrame, SessionIds
<1>6. GenerationsGrow
  BY <1>2, <1>3 DEF GenerationsGrow, RegistryInv, RegistryTypeOK, NavigationSessions,
                    PrepareCurrentFrame, SessionIds
<1> QED
  BY <1>5, <1>6
     DEF RegistryInv, PrepareCurrentFrame, OpeningCount, ClearMeetsNoSession

\* Whatever calls its clients make in whatever order, the native library
\* never clears storage under a registered session or a running open.
THEOREM ClearAlwaysMeetsNoSession == RegistrySpec => []ClearMeetsNoSession
<1>1. RegistryInit => RegistryInv
  BY RegistryInitInv
<1>2. RegistryInv /\ [RegistryNext]_registryVars => RegistryInv'
  <2> SUFFICES ASSUME RegistryInv, [RegistryNext]_registryVars
               PROVE  RegistryInv'
    OBVIOUS
  <2>1. CASE RegistryNext
    BY <2>1, NativeOpenEntersInv, NativeOpenSucceedsInv, NativeOpenFailsInv,
       NativeCloseInv, ClearInv, NavigateSessionInv, PrepareCurrentFrameInv
       DEF RegistryNext
  <2>2. CASE UNCHANGED registryVars
    BY <2>2 DEF registryVars, RegistryInv, RegistryTypeOK, SessionIds, OpeningCount,
                ClearMeetsNoSession
  <2> QED BY <2>1, <2>2
<1>3. RegistryInv => ClearMeetsNoSession
  BY DEF RegistryInv
<1> QED BY <1>1, <1>2, <1>3, PTL DEF RegistrySpec

-----------------------------------------------------------------------------

(***************************************************************************)
(* The session of the snapshot, those that opens are about to commit and   *)
(* those that calls are about to close are different sessions.             *)
(***************************************************************************)
Opened(t) == pc[t] = "open_commit"

Closes(t) == pc[t] = "native_close"

Ownership ==
  /\ SnapshotIsLive
  /\ \A t \in Threads :
       Opened(t) => req[t].session \in registered /\ ~SessionIs(req[t].session)
  /\ \A t \in Threads :
       Closes(t) => req[t].closing \in SessionIds /\ ~SessionIs(req[t].closing)
  /\ \A t, u \in Threads :
       t # u /\ Opened(t) /\ Opened(u) => req[t].session # req[u].session
  /\ \A t, u \in Threads : Opened(t) /\ Closes(u) => req[t].session # req[u].closing

InTransition == {t \in Threads : pc[t] \in TransitionSteps}

Counted ==
  /\ sessionTransitions = Cardinality(InTransition)
  /\ StorageExcludesTransitions

Position(t) ==
  /\ pc[t] \in {"nav_move", "load_prepare", "load_check", "copy_handle", "copy"} =>
       req[t].session \in SessionIds
  /\ pc[t] \in {"load_check", "copy_handle", "copy"} =>
       /\ req[t].generation <= session[req[t].session].generation
       /\ req[t].generation = session[req[t].session].generation =>
            session[req[t].session].current = req[t].prepared
  /\ pc[t] = "return" => req[t].pixels = req[t].prepared

ControllerInv ==
  /\ TypeOK
  /\ RegistryInv
  /\ Ownership
  /\ NoSessionLeaks
  /\ Counted
  /\ \A t \in Threads : Position(t)

(***************************************************************************)
(* The locals of a call.                                                   *)
(***************************************************************************)
\* A step of thread t touches no other thread's call.
Local(t) == \A u \in Threads : u # t => pc'[u] = pc[u] /\ req'[u] = req[u]

OthersKeep(t) == \A u \in Threads : u # t => req'[u] = req[u]

\* A call records which one it is.
LEMMA SetCall ==
  ASSUME req \in [Threads -> Requests], NEW t \in Threads, NEW c \in Calls,
         req' = [req EXCEPT ![t].call = c]
  PROVE  /\ req' \in [Threads -> Requests] /\ OthersKeep(t)
BY DEF Requests, OthersKeep

\* The revision a request was given or has read.
LEMMA SetRevision ==
  ASSUME req \in [Threads -> Requests], NEW t \in Threads, NEW i \in Int,
         req' = [req EXCEPT ![t].revision = i]
  PROVE  /\ req' \in [Threads -> Requests] /\ OthersKeep(t)
         /\ req'[t].revision = i
BY DEF Requests, OthersKeep

\* The session a request is about.
LEMMA SetSession ==
  ASSUME req \in [Threads -> Requests], NEW t \in Threads, NEW n \in Nat,
         req' = [req EXCEPT ![t].session = n]
  PROVE  /\ req' \in [Threads -> Requests] /\ OthersKeep(t)
         /\ req'[t].session = n
BY DEF Requests, OthersKeep

\* The session and the frame a request is about.
LEMMA SetSessionFrame ==
  ASSUME req \in [Threads -> Requests], NEW t \in Threads, NEW n \in Nat, NEW f \in Frames \cup {None},
         req' = [req EXCEPT ![t].session = n, ![t].frame = f]
  PROVE  /\ req' \in [Threads -> Requests] /\ OthersKeep(t)
         /\ req'[t].session = n /\ req'[t].frame = f
<1> DEFINE r == [req[t] EXCEPT !.session = n, !.frame = f]
<1>1. req[t] \in Requests
  OBVIOUS
<1>2. r \in Requests
  BY <1>1 DEF Requests
<1>3. req' = [req EXCEPT ![t] = r]
  OBVIOUS
<1>4. r.session = n /\ r.frame = f
  BY <1>1 DEF Requests
<1> QED BY <1>2, <1>3, <1>4 DEF OthersKeep

\* The frame a navigation landed on.
LEMMA SetFrame ==
  ASSUME req \in [Threads -> Requests], NEW t \in Threads, NEW f \in Frames \cup {None},
         req' = [req EXCEPT ![t].frame = f]
  PROVE  /\ req' \in [Threads -> Requests] /\ OthersKeep(t)
         /\ req'[t].frame = f
BY DEF Requests, OthersKeep

\* The session a call must close.
LEMMA SetClosing ==
  ASSUME req \in [Threads -> Requests], NEW t \in Threads, NEW n \in Nat,
         req' = [req EXCEPT ![t].closing = n]
  PROVE  /\ req' \in [Threads -> Requests] /\ OthersKeep(t)
         /\ req'[t].closing = n
BY DEF Requests, OthersKeep

\* The session a call must close, and that its open failed.
LEMMA SetClosingSession ==
  ASSUME req \in [Threads -> Requests], NEW t \in Threads, NEW n \in Nat, NEW m \in Nat,
         req' = [req EXCEPT ![t].closing = n, ![t].session = m]
  PROVE  /\ req' \in [Threads -> Requests] /\ OthersKeep(t)
         /\ req'[t].closing = n /\ req'[t].session = m
<1> DEFINE r == [req[t] EXCEPT !.closing = n, !.session = m]
<1>1. req[t] \in Requests
  OBVIOUS
<1>2. r \in Requests
  BY <1>1 DEF Requests
<1>3. req' = [req EXCEPT ![t] = r]
  OBVIOUS
<1>4. r.closing = n /\ r.session = m
  BY <1>1 DEF Requests
<1> QED BY <1>2, <1>3, <1>4 DEF OthersKeep

\* The descriptor of a prepared frame.
LEMMA SetPrepared ==
  ASSUME req \in [Threads -> Requests], NEW t \in Threads, NEW f \in Frames \cup {None}, NEW n \in Nat,
         req' = [req EXCEPT ![t].prepared = f, ![t].generation = n]
  PROVE  /\ req' \in [Threads -> Requests] /\ OthersKeep(t)
         /\ req'[t].prepared = f /\ req'[t].generation = n /\ req'[t].session = req[t].session
<1> DEFINE r == [req[t] EXCEPT !.prepared = f, !.generation = n]
<1>1. req[t] \in Requests
  OBVIOUS
<1>2. r \in Requests
  BY <1>1 DEF Requests
<1>3. req' = [req EXCEPT ![t] = r]
  OBVIOUS
<1>4. r.prepared = f /\ r.generation = n /\ r.session = req[t].session
  BY <1>1 DEF Requests
<1> QED BY <1>2, <1>3, <1>4 DEF OthersKeep

\* The copied pixels.
LEMMA SetPixels ==
  ASSUME req \in [Threads -> Requests], NEW t \in Threads, NEW f \in Frames \cup {None},
         req' = [req EXCEPT ![t].pixels = f]
  PROVE  /\ req' \in [Threads -> Requests] /\ OthersKeep(t)
         /\ req'[t].pixels = f /\ req'[t].prepared = req[t].prepared
BY DEF Requests, OthersKeep

\* What the finally block saw.
LEMMA SetSeen ==
  ASSUME req \in [Threads -> Requests], NEW t \in Threads, NEW b \in BOOLEAN,
         req' = [req EXCEPT ![t].seen = b]
  PROVE  /\ req' \in [Threads -> Requests] /\ OthersKeep(t)
BY DEF Requests, OthersKeep

\* A thread goes to its next step.
LEMMA GotoStep ==
  ASSUME pc \in [Threads -> Steps], NEW t \in Threads, NEW step \in Steps, Goto(t, step)
  PROVE  /\ pc' \in [Threads -> Steps] /\ pc'[t] = step
         /\ \A u \in Threads : u # t => pc'[u] = pc[u]
BY DEF Goto

\* A call returns and drops its locals.
LEMMA ReturnStep ==
  ASSUME TypeOK, NEW t \in Threads, Return(t)
  PROVE  /\ pc' \in [Threads -> Steps] /\ pc'[t] = "idle"
         /\ req' \in [Threads -> Requests]
         /\ Local(t)
<1>1. NoRequest \in Requests
  BY DEF Requests, NoRequest
<1>2. /\ pc' \in [Threads -> Steps] /\ pc'[t] = "idle"
      /\ \A u \in Threads : u # t => pc'[u] = pc[u]
  BY GotoStep DEF Return, TypeOK, Steps
<1>3. req' \in [Threads -> Requests] /\ OthersKeep(t)
  BY <1>1 DEF Return, TypeOK, OthersKeep
<1> QED BY <1>2, <1>3 DEF Local, OthersKeep

(***************************************************************************)
(* What a step that does not concern a conjunct of the invariant leaves    *)
(* true.                                                                   *)
(***************************************************************************)
\* A longer interval.
LEMMA IntervalGrows ==
  ASSUME NEW m \in Nat, NEW n \in Nat, m <= n
  PROVE  1 .. m - 1 \subseteq 1 .. n - 1
OBVIOUS

\* Positions of other threads survive whatever happens to the sessions.
LEMMA OtherPositions ==
  ASSUME ControllerInv, RegistryInv', GenerationsGrow,
         NEW t \in Threads, Local(t), Position(t)'
  PROVE  \A u \in Threads : Position(u)'
<1> SUFFICES ASSUME NEW u \in Threads, u # t
             PROVE  Position(u)'
  OBVIOUS
<1>1. pc'[u] = pc[u] /\ req'[u] = req[u] /\ Position(u)
  BY DEF Local, ControllerInv
<1>2. SessionIds \subseteq SessionIds'
  <2>1. nextSession \in Nat /\ nextSession' \in Nat /\ nextSession <= nextSession'
    BY DEF ControllerInv, RegistryInv, RegistryTypeOK, GenerationsGrow
  <2> QED BY <2>1, IntervalGrows DEF SessionIds
<1>3. \A s \in SessionIds : session[s].generation \in Nat
  BY DEF ControllerInv, RegistryInv, RegistryTypeOK, NavigationSessions
<1>4. req[u].generation \in Nat /\ nextSession \in Nat
  BY DEF ControllerInv, TypeOK, Requests, RegistryInv, RegistryTypeOK
<1>5. \A s \in SessionIds' : session'[s].generation \in Nat
  BY DEF RegistryInv, RegistryTypeOK, NavigationSessions
<1> QED BY <1>1, <1>2, <1>3, <1>4, <1>5 DEF Position, GenerationsGrow

SnapshotKeepsSession ==
  /\ snapshot' = None <=> snapshot = None
  /\ snapshot # None => snapshot'.session = snapshot.session

\* A step that neither takes nor hands over a session keeps every owner.
LEMMA OwnersKept ==
  ASSUME ControllerInv, NEW t \in Threads, Local(t),
         UNCHANGED <<nextSession, registered>>, poisoned => poisoned',
         SnapshotKeepsSession,
         ~Opened(t), ~Closes(t), ~Opened(t)', ~Closes(t)'
  PROVE  Ownership' /\ NoSessionLeaks'
<1>1. \A u \in Threads : /\ Opened(u)' <=> Opened(u)
                         /\ Closes(u)' <=> Closes(u)
                         /\ Opened(u) \/ Closes(u) => req'[u] = req[u]
  BY DEF Local, Opened, Closes
<1>2. \A s : SessionIs(s)' <=> SessionIs(s)
  BY DEF SessionIs, SnapshotKeepsSession
<1>3. \A u \in Threads : HeldBy(u)' = HeldBy(u)
  BY <1>1 DEF HeldBy, Opened, Closes
<1>4. SnapshotIsLive'
  BY DEF ControllerInv, Ownership, SnapshotIsLive, SnapshotKeepsSession
<1>5. SessionIds' = SessionIds
  BY DEF SessionIds
<1>6. Ownership'
  BY <1>1, <1>2, <1>4, <1>5 DEF ControllerInv, Ownership
<1>7. NoSessionLeaks'
  BY <1>2, <1>3 DEF ControllerInv, NoSessionLeaks
<1> QED BY <1>6, <1>7

\* A step inside or outside a transition leaves the gate's count right.
LEMMA CountKept ==
  ASSUME ControllerInv, NEW t \in Threads, Local(t),
         UNCHANGED <<sessionTransitions, storageOperationActive>>,
         pc'[t] \in TransitionSteps <=> pc[t] \in TransitionSteps
  PROVE  Counted'
<1>1. InTransition' = InTransition
  BY DEF InTransition, Local
<1>2. StorageExcludesTransitions'
  BY DEF ControllerInv, Counted, StorageExcludesTransitions, Local
<1> QED BY <1>1, <1>2 DEF ControllerInv, Counted

(***************************************************************************)
(* Steps that concern neither owners nor the gate.                         *)
(***************************************************************************)
Quiet(t) ==
  /\ Local(t)
  /\ UNCHANGED <<nextSession, registered, sessionTransitions, storageOperationActive>>
  /\ poisoned => poisoned'
  /\ SnapshotKeepsSession
  /\ pc[t] \notin {"open_commit", "native_close"}
  /\ pc'[t] \notin {"open_commit", "native_close"}
  /\ pc'[t] \in TransitionSteps <=> pc[t] \in TransitionSteps

\* Such a step preserves the invariant if it is right about its own call.
LEMMA QuietStep ==
  ASSUME ControllerInv, NEW t \in Threads, Quiet(t),
         TypeOK', RegistryInv', GenerationsGrow, Position(t)'
  PROVE  ControllerInv'
<1>1. Ownership' /\ NoSessionLeaks'
  BY OwnersKept DEF Quiet, Opened, Closes
<1>2. Counted'
  BY CountKept DEF Quiet
<1>3. \A u \in Threads : Position(u)'
  BY OtherPositions DEF Quiet
<1> QED BY <1>1, <1>2, <1>3 DEF ControllerInv

\* A step outside the native library leaves its state as it was.
LEMMA RegistryKept ==
  ASSUME ControllerInv, UNCHANGED registryVars
  PROVE  RegistryInv' /\ RegistryTypeOK' /\ GenerationsGrow
<1>1. GenerationsGrow /\ SessionIds' = SessionIds
  BY SessionsUntouched DEF ControllerInv, RegistryInv, registryVars
<1> QED
  BY <1>1 DEF ControllerInv, RegistryInv, RegistryTypeOK, registryVars, OpeningCount,
              ClearMeetsNoSession

\* A call that gives up outside a transition changes nothing.
LEMMA ReturnPreserves ==
  ASSUME ControllerInv, NEW t \in Threads,
         pc[t] \notin TransitionSteps, Return(t),
         UNCHANGED <<gateVars, registryVars, snapshot, revision, calls>>
  PROVE  ControllerInv'
<1>1. /\ pc' \in [Threads -> Steps] /\ pc'[t] = "idle"
      /\ req' \in [Threads -> Requests]
      /\ Local(t)
  BY ReturnStep DEF ControllerInv
<1>2. RegistryInv' /\ RegistryTypeOK' /\ GenerationsGrow
  BY RegistryKept
<1>3. TypeOK'
  BY <1>1, <1>2 DEF ControllerInv, TypeOK, GateTypeOK, gateVars
<1>4. Quiet(t)
  BY <1>1 DEF Quiet, gateVars, registryVars, SnapshotKeepsSession, TransitionSteps
<1>5. Position(t)'
  BY <1>1 DEF Position
<1> QED BY <1>2, <1>3, <1>4, <1>5, QuietStep

\* A step of a call that only reads or writes its own locals.
LEMMA LocalStep ==
  ASSUME ControllerInv, NEW t \in Threads, NEW step \in Steps,
         Goto(t, step), req' \in [Threads -> Requests], OthersKeep(t),
         revision' \in {TERMINAL_REVISION} \cup 0 .. LastRevision,
         calls' \in 0 .. MaxCalls,
         UNCHANGED <<gateVars, registryVars, snapshot>>,
         pc[t] \notin {"open_commit", "native_close"},
         step \notin {"open_commit", "native_close"},
         step \in TransitionSteps <=> pc[t] \in TransitionSteps,
         pc'[t] = step => Position(t)'
  PROVE  ControllerInv'
<1>1. /\ pc' \in [Threads -> Steps] /\ pc'[t] = step
      /\ \A u \in Threads : u # t => pc'[u] = pc[u]
  BY GotoStep DEF ControllerInv, TypeOK
<1>2. RegistryInv' /\ RegistryTypeOK' /\ GenerationsGrow
  BY RegistryKept
<1>3. TypeOK'
  BY <1>1, <1>2 DEF ControllerInv, TypeOK, GateTypeOK, gateVars
<1>4. Quiet(t)
  BY <1>1 DEF Quiet, Local, OthersKeep, gateVars, registryVars, SnapshotKeepsSession
<1> QED BY <1>1, <1>2, <1>3, <1>4, QuietStep

(***************************************************************************)
(* The quiet steps.                                                        *)
(***************************************************************************)
\* A thread makes a call.
LEMMA StartPreserves ==
  ASSUME ControllerInv, NEW t \in Threads, NEW call \in CallsMade, Start(t, call)
  PROVE  ControllerInv'
<1>1. call \in Calls /\ call \in Steps
  BY ControllerAssumption DEF Steps
<1>2. /\ req' \in [Threads -> Requests] /\ OthersKeep(t)
  BY <1>1, SetCall DEF Start, ControllerInv, TypeOK
<1>3. calls' \in 0 .. MaxCalls /\ revision' = revision
  BY ControllerAssumption DEF Start, ControllerInv, TypeOK
<1>4. pc'[t] = call
  BY <1>1, GotoStep DEF Start, ControllerInv, TypeOK
<1>5. pc[t] = "idle" /\ call \notin TransitionSteps
  BY <1>1 DEF Start, Calls, TransitionSteps
<1>6. Position(t)'
  BY <1>1, <1>4 DEF Position, Calls
<1> QED
  BY <1>1, <1>2, <1>3, <1>5, <1>6, LocalStep
     DEF Start, Calls, TransitionSteps, ControllerInv, TypeOK

\* open and navigate take a revision, or find none left.
LEMMA TakesRevisionPreserves ==
  ASSUME ControllerInv, NEW t \in Threads, OpenTakesRevision(t) \/ NavTakesRevision(t)
  PROVE  ControllerInv'
<1> USE DEF At
<1>1. ASSUME NextRevision(t)
      PROVE  /\ revision' \in {TERMINAL_REVISION} \cup 0 .. LastRevision
             /\ req' \in [Threads -> Requests] /\ OthersKeep(t)
  <2>1. /\ revision' \in 0 .. LastRevision
    BY <1>1, ControllerAssumption
       DEF NextRevision, RevisionsLeft, ControllerInv, TypeOK, TERMINAL_REVISION
  <2>2. revision' \in Int /\ req' = [req EXCEPT ![t].revision = revision']
    BY <1>1, <2>1 DEF NextRevision
  <2>3. req \in [Threads -> Requests]
    BY DEF ControllerInv, TypeOK
  <2> QED BY <2>1, <2>2, <2>3, SetRevision
<1>2. CASE OpenTakesRevision(t)
  <2>1. CASE NextRevision(t) /\ Goto(t, "open_native")
    <3>1. pc'[t] = "open_native" => Position(t)'
      BY DEF Position
    <3> QED
      BY <1>1, <1>2, <2>1, <3>1, LocalStep
         DEF OpenTakesRevision, Steps, TransitionSteps, ControllerInv, TypeOK
  <2>2. CASE Goto(t, "end") /\ UNCHANGED <<revision, req>>
    <3>1. pc'[t] = "end" => Position(t)'
      BY DEF Position
    <3> QED
      BY <1>2, <2>2, <3>1, LocalStep
         DEF OpenTakesRevision, Steps, TransitionSteps, ControllerInv, TypeOK, OthersKeep
  <2> QED BY <1>2, <2>1, <2>2 DEF OpenTakesRevision
<1>3. CASE NavTakesRevision(t)
  <2>1. CASE NextRevision(t) /\ Goto(t, "nav_handle")
    <3>1. pc'[t] = "nav_handle" => Position(t)'
      BY DEF Position
    <3> QED
      BY <1>1, <1>3, <2>1, <3>1, LocalStep
         DEF NavTakesRevision, Steps, TransitionSteps, ControllerInv, TypeOK
  <2>2. CASE Return(t) /\ UNCHANGED revision
    BY <1>3, <2>2, ReturnPreserves DEF NavTakesRevision, TransitionSteps
  <2> QED BY <1>3, <2>1, <2>2 DEF NavTakesRevision
<1> QED BY <1>2, <1>3

\* open enters the native library, or finds its lock poisoned.
LEMMA OpenCallsNativePreserves ==
  ASSUME ControllerInv, NEW t \in Threads, OpenCallsNative(t)
  PROVE  ControllerInv'
<1> USE DEF At
<1>1. CASE NativeOpenEnters(t) /\ Goto(t, "opening")
  <2>1. RegistryInv' /\ GenerationsGrow
    BY <1>1, NativeOpenEntersInv DEF ControllerInv
  <2>2. /\ pc' \in [Threads -> Steps] /\ pc'[t] = "opening"
        /\ \A u \in Threads : u # t => pc'[u] = pc[u]
    BY <1>1, GotoStep DEF ControllerInv, TypeOK, Steps, TransitionSteps
  <2>3. TypeOK'
    BY <2>1, <2>2 DEF OpenCallsNative, ControllerInv, TypeOK, GateTypeOK, gateVars,
                      RegistryInv
  <2>4. Quiet(t)
    BY <1>1, <2>2 DEF OpenCallsNative, NativeOpenEnters, Quiet, Local, gateVars,
                      SnapshotKeepsSession, TransitionSteps
  <2>5. Position(t)'
    BY <2>2 DEF Position
  <2> QED BY <2>1, <2>3, <2>4, <2>5, QuietStep
<1>2. CASE Goto(t, "end") /\ UNCHANGED registryVars
  <2>1. pc'[t] = "end" => Position(t)'
    BY DEF Position
  <2> QED
    BY <1>2, <2>1, LocalStep
       DEF OpenCallsNative, Steps, TransitionSteps, ControllerInv, TypeOK, OthersKeep
<1> QED BY <1>1, <1>2 DEF OpenCallsNative

\* A failed or panicking open leaves no session behind.
LEMMA OpenFailsPreserves ==
  ASSUME ControllerInv, NEW t \in Threads, OpenFails(t)
  PROVE  ControllerInv'
<1> USE DEF At
<1>1. RegistryInv' /\ GenerationsGrow
  BY NativeOpenFailsInv DEF ControllerInv, OpenFails
<1>2. /\ pc' \in [Threads -> Steps] /\ pc'[t] = "end"
      /\ \A u \in Threads : u # t => pc'[u] = pc[u]
  BY GotoStep DEF OpenFails, ControllerInv, TypeOK, Steps, TransitionSteps
<1>3. TypeOK'
  BY <1>1, <1>2 DEF OpenFails, ControllerInv, TypeOK, GateTypeOK, gateVars, RegistryInv
<1>4. Quiet(t)
  BY <1>2 DEF OpenFails, NativeOpenFails, NativeOpenPanics, Quiet, Local, gateVars,
              SnapshotKeepsSession, TransitionSteps
<1>5. Position(t)'
  BY <1>2 DEF Position
<1> QED BY <1>1, <1>3, <1>4, <1>5, QuietStep

\* The finally block reads the snapshot; closeCurrent spends a revision.
LEMMA EndReadsPreserves ==
  ASSUME ControllerInv, NEW t \in Threads, EndReadsSnapshot(t) \/ CloseInvalidates(t)
  PROVE  ControllerInv'
<1> USE DEF At
<1>1. CASE EndReadsSnapshot(t)
  <2>1. (snapshot # None) \in BOOLEAN
    OBVIOUS
  <2>2. req' \in [Threads -> Requests] /\ OthersKeep(t)
    BY <1>1, <2>1, SetSeen DEF EndReadsSnapshot, ControllerInv, TypeOK
  <2>3. pc'[t] = "ending" => Position(t)'
    BY DEF Position
  <2> QED
    BY <1>1, <2>2, <2>3, LocalStep
       DEF EndReadsSnapshot, Steps, TransitionSteps, ControllerInv, TypeOK
<1>2. CASE CloseInvalidates(t)
  <2>1. revision' \in {TERMINAL_REVISION} \cup 0 .. LastRevision
    BY <1>2, ControllerAssumption
       DEF CloseInvalidates, InvalidateRevision, TERMINAL_REVISION, ControllerInv, TypeOK
  <2>2. pc'[t] = "close_detach" => Position(t)'
    BY DEF Position
  <2> QED
    BY <1>2, <2>1, <2>2, LocalStep
       DEF CloseInvalidates, Steps, TransitionSteps, ControllerInv, TypeOK, OthersKeep
<1> QED BY <1>1, <1>2

\* navigate and load read the session and the frame they are about.
LEMMA ReadsTargetPreserves ==
  ASSUME ControllerInv, NEW t \in Threads, NavReadsTarget(t) \/ LoadReadsTarget(t)
  PROVE  ControllerInv'
<1> USE DEF At
<1>0. ~(pc[t] \in TransitionSteps) /\ calls' = calls
  BY DEF NavReadsTarget, LoadReadsTarget, TransitionSteps
<1>1. CASE snapshot = None
  BY <1>0, <1>1, ReturnPreserves DEF NavReadsTarget, LoadReadsTarget
<1>2. CASE snapshot # None
  <2>0. /\ snapshot.session \in Nat /\ snapshot.frame \in Frames \cup {None}
        /\ req \in [Threads -> Requests]
    BY <1>2 DEF ControllerInv, TypeOK, Snapshots
  <2>1. CASE NavReadsTarget(t)
    <3>1. req' \in [Threads -> Requests] /\ OthersKeep(t)
      BY <1>2, <2>0, <2>1, SetSession DEF NavReadsTarget
    <3>2. pc'[t] = "nav_revision" => Position(t)'
      BY DEF Position
    <3> QED
      BY <1>0, <1>2, <2>1, <3>1, <3>2, LocalStep
         DEF NavReadsTarget, Steps, TransitionSteps, ControllerInv, TypeOK
  <2>2. CASE LoadReadsTarget(t)
    <3>1. req' \in [Threads -> Requests] /\ OthersKeep(t)
      BY <1>2, <2>0, <2>2, SetSessionFrame DEF LoadReadsTarget
    <3>2. pc'[t] = "load_revision" => Position(t)'
      BY DEF Position
    <3> QED
      BY <1>0, <1>2, <2>2, <3>1, <3>2, LocalStep
         DEF LoadReadsTarget, Steps, TransitionSteps, ControllerInv, TypeOK
  <2> QED BY <2>1, <2>2
<1> QED BY <1>1, <1>2

\* A handle is found only for a registered session.
LEMMA TakesHandlePreserves ==
  ASSUME ControllerInv, NEW t \in Threads,
         \/ TakesHandle(t, "nav_handle", "nav_move")
         \/ TakesHandle(t, "load_handle", "load_prepare")
         \/ TakesHandle(t, "copy_handle", "copy")
  PROVE  ControllerInv'
<1> USE DEF At
<1>1. CASE Return(t)
  BY <1>1, ReturnPreserves DEF TakesHandle, TransitionSteps
<1>2. CASE req[t].session \in registered
  <2>1. req' = req /\ req[t].session \in SessionIds /\ Position(t)
    BY <1>2 DEF TakesHandle, ControllerInv, RegistryInv, RegistryTypeOK
  <2>2. session' = session /\ nextSession' = nextSession /\ SessionIds' = SessionIds
    BY DEF TakesHandle, registryVars, SessionIds
  <2>3. ASSUME NEW step, NEW next,
               \/ step = "nav_handle" /\ next = "nav_move"
               \/ step = "load_handle" /\ next = "load_prepare"
               \/ step = "copy_handle" /\ next = "copy",
               TakesHandle(t, step, next)
        PROVE  ControllerInv'
    <3>1. pc'[t] = next => Position(t)'
      BY <2>1, <2>2, <2>3 DEF Position, TakesHandle
    <3>2. pc[t] = step /\ Goto(t, next)
      BY <1>2, <2>3 DEF TakesHandle
    <3>3. /\ pc[t] \notin TransitionSteps /\ next \notin TransitionSteps
          /\ next \in Steps
          /\ pc[t] \notin {"open_commit", "native_close"}
          /\ next \notin {"open_commit", "native_close"}
      BY <2>3, <3>2 DEF TransitionSteps, Steps
    <3> QED
      BY <2>1, <2>3, <3>1, <3>2, <3>3, LocalStep
         DEF TakesHandle, ControllerInv, TypeOK, OthersKeep
  <2> QED BY <2>3
<1> QED BY <1>1, <1>2 DEF TakesHandle

\* A navigation moves the native session.
LEMMA NavMovesPreserves ==
  ASSUME ControllerInv, NEW t \in Threads, NavMoves(t)
  PROVE  ControllerInv'
<1> USE DEF At
<1>0. req[t].session \in SessionIds /\ pc[t] = "nav_move"
  BY DEF NavMoves, ControllerInv, Position
<1>1. PICK frame \in Frames :
        /\ NavigateSession(req[t].session, frame)
        /\ \/ req' = [req EXCEPT ![t].frame = frame] /\ Goto(t, "nav_commit")
           \/ Return(t)
  BY DEF NavMoves
<1>2. RegistryInv' /\ GenerationsGrow
  BY <1>0, <1>1, NavigateSessionInv DEF ControllerInv
<1>3. /\ pc' \in [Threads -> Steps] /\ pc'[t] \in {"nav_commit", "idle"}
      /\ req' \in [Threads -> Requests] /\ Local(t)
  <2>1. CASE req' = [req EXCEPT ![t].frame = frame] /\ Goto(t, "nav_commit")
    <3>1. req' \in [Threads -> Requests] /\ OthersKeep(t)
      BY <2>1, SetFrame DEF ControllerInv, TypeOK
    <3> QED
      BY <2>1, <3>1, GotoStep DEF Local, OthersKeep, ControllerInv, TypeOK, Steps
  <2>2. CASE Return(t)
    BY <2>2, ReturnStep DEF ControllerInv
  <2> QED BY <1>1, <2>1, <2>2
<1>4. TypeOK'
  BY <1>2, <1>3 DEF NavMoves, ControllerInv, TypeOK, GateTypeOK, gateVars, RegistryInv
<1>5. Quiet(t)
  BY <1>0, <1>1, <1>3 DEF NavMoves, NavigateSession, Quiet, gateVars,
                          SnapshotKeepsSession, TransitionSteps
<1>6. Position(t)'
  BY <1>3 DEF Position
<1> QED BY <1>2, <1>4, <1>5, <1>6, QuietStep

\* A navigation that is still current replaces the frame of the snapshot,
\* never its session.
LEMMA NavCommitsPreserves ==
  ASSUME ControllerInv, NEW t \in Threads, NavCommits(t)
  PROVE  ControllerInv'
<1> USE DEF At
<1>1. /\ pc' \in [Threads -> Steps] /\ pc'[t] = "idle"
      /\ req' \in [Threads -> Requests] /\ Local(t)
  BY ReturnStep DEF NavCommits, ControllerInv
<1>2. RegistryInv' /\ RegistryTypeOK' /\ GenerationsGrow
  BY RegistryKept DEF NavCommits
<1>3. snapshot' \in Snapshots \cup {None} /\ SnapshotKeepsSession
  <2>0. req[t] \in Requests
    BY DEF ControllerInv, TypeOK
  <2>1. req[t].session \in Nat /\ req[t].frame \in Frames \cup {None}
    BY <2>0 DEF Requests
  <2>2. CASE RequestIsCurrent(req[t])
    <3>1. snapshot' = [session |-> req[t].session, frame |-> req[t].frame]
      BY <2>2 DEF NavCommits
    <3> QED
      BY <2>1, <2>2, <3>1, ControllerAssumption
         DEF Snapshots, SnapshotKeepsSession, RequestIsCurrent, SessionIs
  <2>3. CASE ~RequestIsCurrent(req[t])
    BY <2>3 DEF NavCommits, SnapshotKeepsSession, ControllerInv, TypeOK
  <2> QED BY <2>2, <2>3
<1>4. TypeOK'
  BY <1>1, <1>2, <1>3 DEF NavCommits, ControllerInv, TypeOK, GateTypeOK, gateVars
<1>5. Quiet(t)
  BY <1>1, <1>3 DEF NavCommits, Quiet, gateVars, registryVars, TransitionSteps
<1>6. Position(t)'
  BY <1>1 DEF Position
<1> QED BY <1>2, <1>4, <1>5, <1>6, QuietStep

\* A load reads the revision it will be compared with.
LEMMA LoadReadsRevisionPreserves ==
  ASSUME ControllerInv, NEW t \in Threads, LoadReadsRevision(t)
  PROVE  ControllerInv'
<1> USE DEF At
<1>1. CASE req[t].frame = None
  BY <1>1, ReturnPreserves DEF LoadReadsRevision, TransitionSteps
<1>2. CASE req[t].frame # None
  <2>0. revision \in Int /\ req \in [Threads -> Requests]
    BY ControllerAssumption DEF ControllerInv, TypeOK, TERMINAL_REVISION
  <2>1. req' \in [Threads -> Requests] /\ OthersKeep(t)
    BY <1>2, <2>0, SetRevision DEF LoadReadsRevision
  <2>2. pc'[t] = "load_handle" => Position(t)'
    BY DEF Position
  <2> QED
    BY <1>2, <2>1, <2>2, LocalStep
       DEF LoadReadsRevision, Steps, TransitionSteps, ControllerInv, TypeOK
<1> QED BY <1>1, <1>2

\* A prepared frame is described by the frame and the generation that the
\* session has at that moment.
LEMMA LoadPreparesPreserves ==
  ASSUME ControllerInv, NEW t \in Threads, LoadPrepares(t)
  PROVE  ControllerInv'
<1> USE DEF At
<1> DEFINE s == req[t].session
<1>0. s \in SessionIds /\ pc[t] = "load_prepare" /\ session[s] \in NavigationSessions
  BY DEF LoadPrepares, ControllerInv, Position, RegistryInv, RegistryTypeOK
<1>1. session[s].current \in Frames \cup {None} /\ session[s].generation \in Nat
  BY <1>0 DEF NavigationSessions
<1>2. RegistryInv' /\ GenerationsGrow
  BY <1>0, PrepareCurrentFrameInv DEF LoadPrepares, ControllerInv
<1>3. /\ req' \in [Threads -> Requests] /\ OthersKeep(t)
      /\ req'[t].prepared = session[s].current
      /\ req'[t].generation = session[s].generation /\ req'[t].session = s
  <2>1. PICK f \in Frames \cup {None}, n \in Nat :
          f = session[s].current /\ n = session[s].generation
    BY <1>1
  <2>2. /\ req \in [Threads -> Requests]
        /\ req' = [req EXCEPT ![t].prepared = f, ![t].generation = n]
    BY <2>1 DEF LoadPrepares, ControllerInv, TypeOK
  <2>3. /\ req' \in [Threads -> Requests] /\ OthersKeep(t)
        /\ req'[t].prepared = f /\ req'[t].generation = n
        /\ req'[t].session = req[t].session
    BY <2>2, SetPrepared
  <2> QED BY <2>1, <2>3
<1>4. /\ pc' \in [Threads -> Steps] /\ pc'[t] \in {"load_check", "copy_handle"}
      /\ \A u \in Threads : u # t => pc'[u] = pc[u]
  BY GotoStep DEF LoadPrepares, ControllerInv, TypeOK, Steps
<1>5. TypeOK'
  BY <1>2, <1>3, <1>4
     DEF LoadPrepares, ControllerInv, TypeOK, GateTypeOK, gateVars, RegistryInv
<1>6. Quiet(t)
  BY <1>0, <1>3, <1>4
     DEF LoadPrepares, PrepareCurrentFrame, Quiet, Local, OthersKeep, gateVars,
         SnapshotKeepsSession, TransitionSteps
<1>7. Position(t)'
  <2>1. /\ SessionIds' = SessionIds
        /\ session' = [session EXCEPT ![s] = [session[s] EXCEPT !.presented = session[s].current]]
    BY DEF LoadPrepares, PrepareCurrentFrame, SessionIds
  <2>2. /\ session'[s].current = session[s].current
        /\ session'[s].generation = session[s].generation
    BY <1>0, <2>1 DEF NavigationSessions, ControllerInv, RegistryInv, RegistryTypeOK
  <2> HIDE DEF s
  <2> QED BY <1>0, <1>1, <1>3, <1>4, <2>1, <2>2 DEF Position
<1> QED BY <1>2, <1>5, <1>6, <1>7, QuietStep

\* Between preparation and copy a load looks whether it is still current.
LEMMA LoadChecksPreserves ==
  ASSUME ControllerInv, NEW t \in Threads, LoadChecks(t)
  PROVE  ControllerInv'
<1> USE DEF At
<1>1. CASE Return(t)
  BY <1>1, ReturnPreserves DEF LoadChecks, TransitionSteps
<1>2. CASE Goto(t, "copy_handle") /\ UNCHANGED req
  <2>1. /\ session' = session /\ SessionIds' = SessionIds
        /\ pc[t] = "load_check" /\ Position(t)
    BY DEF LoadChecks, registryVars, SessionIds, ControllerInv
  <2>2. pc'[t] = "copy_handle" => Position(t)'
    BY <1>2, <2>1 DEF Position
  <2> QED
    BY <1>2, <2>2, LocalStep
       DEF LoadChecks, Steps, TransitionSteps, ControllerInv, TypeOK, OthersKeep
<1> QED BY <1>1, <1>2 DEF LoadChecks

\* The copy is taken only at the generation of the descriptor, and then it
\* shows the frame that was prepared.
LEMMA LoadCopiesPreserves ==
  ASSUME ControllerInv, NEW t \in Threads, LoadCopies(t)
  PROVE  ControllerInv'
<1> USE DEF At
<1> DEFINE s == req[t].session
<1>0. pc[t] = "copy" /\ Position(t) /\ s \in SessionIds
  BY DEF LoadCopies, ControllerInv, Position
<1>1. CASE Return(t)
  BY <1>0, <1>1, ReturnPreserves DEF LoadCopies, TransitionSteps
<1>2. CASE MayCopy(s, req[t].generation)
  <2>1. session[s] \in NavigationSessions
    BY <1>0 DEF ControllerInv, RegistryInv, RegistryTypeOK
  <2>2. session[s].presented \in Frames \cup {None}
    BY <2>1 DEF NavigationSessions
  <2>3. /\ req' \in [Threads -> Requests] /\ OthersKeep(t)
        /\ req'[t].pixels = session[s].presented /\ req'[t].prepared = req[t].prepared
    BY <1>2, <2>2, SetPixels DEF LoadCopies, ControllerInv, TypeOK
  <2>4. session[s].presented = req[t].prepared
    BY <1>0, <1>2 DEF MayCopy, Position
  <2>5. pc'[t] = "return" => Position(t)'
    BY <2>3, <2>4 DEF Position
  <2> QED
    BY <1>2, <2>3, <2>5, LocalStep
       DEF LoadCopies, Steps, TransitionSteps, ControllerInv, TypeOK
<1> QED BY <1>1, <1>2 DEF LoadCopies

\* Calls that end where they are.
LEMMA GivesUpPreserves ==
  ASSUME ControllerInv, NEW t \in Threads,
         NavRefused(t) \/ LoadFails(t) \/ LoadReturns(t)
  PROVE  ControllerInv'
BY ReturnPreserves DEF NavRefused, LoadFails, LoadReturns, TransitionSteps, At

\* A native clear enters and leaves the lifecycle lock.
LEMMA ClearPreserves ==
  ASSUME ControllerInv, NEW t \in Threads, ClearRuns(t) \/ ClearEnds(t)
  PROVE  ControllerInv'
<1> USE DEF At
<1>1. CASE UNCHANGED registryVars /\ Return(t)
  BY <1>1, ReturnPreserves DEF ClearRuns, ClearEnds, TransitionSteps
<1>2. CASE /\ ClearEnters(t) \/ ClearLeaves(t)
           /\ \/ Goto(t, "clearing") /\ UNCHANGED req
              \/ Return(t)
  <2>1. RegistryInv' /\ GenerationsGrow
    BY <1>2, ClearInv DEF ControllerInv
  <2>2. /\ pc' \in [Threads -> Steps] /\ pc'[t] \in {"clearing", "idle"}
        /\ req' \in [Threads -> Requests] /\ Local(t)
    BY <1>2, ReturnStep, GotoStep DEF ControllerInv, TypeOK, Steps, Local
  <2>3. TypeOK'
    BY <2>1, <2>2 DEF ClearRuns, ClearEnds, ControllerInv, TypeOK, GateTypeOK, gateVars,
                      RegistryInv
  <2>4. Quiet(t)
    BY <1>2, <2>2 DEF ClearRuns, ClearEnds, ClearEnters, ClearLeaves, Quiet, gateVars,
                      SnapshotKeepsSession, TransitionSteps
  <2>5. Position(t)'
    BY <2>2 DEF Position
  <2> QED BY <2>1, <2>3, <2>4, <2>5, QuietStep
<1> QED BY <1>1, <1>2 DEF ClearRuns, ClearEnds

(***************************************************************************)
(* The steps that enter or leave the gate.                                 *)
(***************************************************************************)
\* The threads in transition are finitely many.
LEMMA TransitionsFinite ==
  /\ IsFiniteSet(InTransition)
  /\ Cardinality(InTransition) \in Nat
  /\ \A t : /\ t \notin InTransition =>
                 Cardinality(InTransition \cup {t}) = Cardinality(InTransition) + 1
            /\ t \in InTransition =>
                 Cardinality(InTransition \ {t}) = Cardinality(InTransition) - 1
  /\ Cardinality(InTransition) = 0 => InTransition = {}
<1>1. IsFiniteSet(InTransition)
  BY RegistryAssumption, FS_Subset DEF InTransition
<1> QED BY <1>1, FS_CardinalityType, FS_AddElement, FS_RemoveElement, FS_EmptySet

\* A step of the controller that changes gate and locals only.
LEMMA GateStep ==
  ASSUME ControllerInv, NEW t \in Threads, Local(t), Counted', GateTypeOK',
         UNCHANGED <<registryVars, snapshot, revision, calls>>,
         pc' \in [Threads -> Steps], req' \in [Threads -> Requests],
         pc[t] \in {"open", "close", "cleanup", "ending", "storage", "storing"},
         pc'[t] \in {"open_revision", "close_invalidate", "cleanup_detach", "cleanup",
                     "storing", "idle"}
  PROVE  ControllerInv'
<1>1. RegistryInv' /\ RegistryTypeOK' /\ GenerationsGrow
  BY RegistryKept
<1>2. TypeOK'
  BY <1>1 DEF ControllerInv, TypeOK
<1>3. Ownership' /\ NoSessionLeaks'
  BY OwnersKept DEF registryVars, SnapshotKeepsSession, Opened, Closes
<1>4. \A u \in Threads : Position(u)'
  <2>1. Position(t)'
    BY DEF Position
  <2> QED BY <1>1, <2>1, OtherPositions
<1> QED BY <1>1, <1>2, <1>3, <1>4 DEF ControllerInv

\* beginSessionTransition counts one transition more.
LEMMA BeginsPreserves ==
  ASSUME ControllerInv, NEW t \in Threads,
         OpenBegins(t) \/ CloseBegins(t) \/ CleanupBegins(t)
  PROVE  ControllerInv'
<1> USE DEF At
<1>1. /\ pc[t] \in {"open", "close", "cleanup"}
      /\ BeginSessionTransition
      /\ UNCHANGED <<registryVars, snapshot, revision, calls, req>>
      /\ \E step \in {"open_revision", "close_invalidate", "cleanup_detach"} : Goto(t, step)
  BY DEF OpenBegins, CloseBegins, CleanupBegins
<1>2. /\ pc' \in [Threads -> Steps]
      /\ pc'[t] \in {"open_revision", "close_invalidate", "cleanup_detach"}
      /\ Local(t)
  BY <1>1, GotoStep DEF ControllerInv, TypeOK, Steps, TransitionSteps, Local
<1>3. InTransition' = InTransition \cup {t} /\ t \notin InTransition
  BY <1>1, <1>2 DEF InTransition, Local, TransitionSteps
<1>4. Counted'
  <2>1. sessionTransitions' = Cardinality(InTransition')
    BY <1>1, <1>3, TransitionsFinite DEF BeginSessionTransition, ControllerInv, Counted
  <2> QED BY <1>1, <2>1 DEF BeginSessionTransition, Counted, StorageExcludesTransitions
<1>5. GateTypeOK'
  BY <1>1 DEF BeginSessionTransition, GateTypeOK, ControllerInv, TypeOK
<1>6. req' \in [Threads -> Requests]
  BY <1>1 DEF ControllerInv, TypeOK
<1> QED BY <1>1, <1>2, <1>4, <1>5, <1>6, GateStep

\* endSessionTransition counts one less, and the call returns or goes on to
\* the close of an open whose caller was cancelled.
LEMMA EndsTransitionPreserves ==
  ASSUME ControllerInv, NEW t \in Threads, EndsTransition(t)
  PROVE  ControllerInv'
<1> USE DEF At
<1>1. /\ pc' \in [Threads -> Steps] /\ pc'[t] \in {"idle", "cleanup"}
      /\ req' \in [Threads -> Requests] /\ Local(t)
  <2>1. CASE Return(t)
    BY <2>1, ReturnStep DEF ControllerInv
  <2>2. CASE Goto(t, "cleanup") /\ UNCHANGED req
    BY <2>2, GotoStep DEF ControllerInv, TypeOK, Steps, Local
  <2> QED BY <2>1, <2>2 DEF EndsTransition
<1>2. InTransition' = InTransition \ {t} /\ t \in InTransition
  BY <1>1 DEF EndsTransition, InTransition, Local, TransitionSteps
<1>3. sessionTransitions' = Cardinality(InTransition')
  BY <1>2, TransitionsFinite
     DEF EndsTransition, EndSessionTransition, ControllerInv, Counted
<1>4. Counted'
  BY <1>1, <1>3
     DEF EndsTransition, EndSessionTransition, ControllerInv, Counted,
         StorageExcludesTransitions, Local, TransitionSteps
<1>5. GateTypeOK'
  <2>1. req[t].seen \in BOOLEAN
    BY DEF ControllerInv, TypeOK, Requests
  <2>2. sessionTransitions' \in Nat
    BY DEF EndsTransition, EndSessionTransition, ControllerInv, TypeOK, GateTypeOK
  <2> QED
    BY <2>1, <2>2
       DEF EndsTransition, EndSessionTransition, ControllerInv, TypeOK, GateTypeOK
<1> QED BY <1>1, <1>4, <1>5, GateStep DEF EndsTransition

\* A storage operation is let in when no transition is counted, so when none
\* is under way.
LEMMA StoragePreserves ==
  ASSUME ControllerInv, NEW t \in Threads, StorageRuns(t) \/ StorageEnds(t)
  PROVE  ControllerInv'
<1> USE DEF At
<1>1. CASE StorageRuns(t) /\ BeginStorage /\ Goto(t, "storing") /\ UNCHANGED req
  <2>1. /\ pc' \in [Threads -> Steps] /\ pc'[t] = "storing" /\ Local(t)
    BY <1>1, GotoStep DEF ControllerInv, TypeOK, Steps, Local
  <2>2. sessionTransitions = 0 /\ InTransition = {}
    BY <1>1, TransitionsFinite
       DEF BeginStorage, StorageBusy, ControllerInv, Counted, TypeOK, GateTypeOK
  <2>3. InTransition' = InTransition
    BY <1>1, <2>1 DEF StorageRuns, InTransition, Local, TransitionSteps
  <2>4. Counted'
    <3>1. StorageExcludesTransitions'
      BY <2>2, <2>3 DEF StorageExcludesTransitions, InTransition
    <3> QED BY <1>1, <2>3, <3>1 DEF BeginStorage, ControllerInv, Counted
  <2>5. GateTypeOK' /\ req' \in [Threads -> Requests]
    BY <1>1 DEF BeginStorage, ControllerInv, TypeOK, GateTypeOK
  <2> QED BY <1>1, <2>1, <2>4, <2>5, GateStep DEF StorageRuns
<1>2. CASE StorageRuns(t) /\ Return(t) /\ UNCHANGED gateVars
  BY <1>2, ReturnPreserves DEF StorageRuns, TransitionSteps
<1>3. CASE StorageEnds(t)
  <2>1. /\ pc' \in [Threads -> Steps] /\ pc'[t] = "idle"
        /\ req' \in [Threads -> Requests] /\ Local(t)
    BY <1>3, ReturnStep DEF StorageEnds, ControllerInv
  <2>2. InTransition' = InTransition
    BY <1>3, <2>1 DEF StorageEnds, InTransition, Local, TransitionSteps
  <2>3. Counted' /\ GateTypeOK'
    BY <1>3, <2>2
       DEF StorageEnds, EndStorage, ControllerInv, Counted, StorageExcludesTransitions,
           TypeOK, GateTypeOK
  <2> QED BY <1>3, <2>1, <2>3, GateStep DEF StorageEnds
<1> QED BY <1>1, <1>2, <1>3 DEF StorageRuns

(***************************************************************************)
(* The steps that take, hand over or close a session.                      *)
(***************************************************************************)
Holds(t, s) ==
  \/ Opened(t) /\ s = req[t].session
  \/ Closes(t) /\ s = req[t].closing

\* What the steps of a call say about the sessions it holds.
LEMMA HeldByHolds ==
  \A t, s : /\ s \in HeldBy(t) <=> Holds(t, s)
            /\ (s \in HeldBy(t))' <=> Holds(t, s)'
<1> TAKE t, s
<1>1. s \in HeldBy(t) <=> Holds(t, s)
  BY DEF HeldBy, Holds, Opened, Closes
<1>2. (s \in HeldBy(t))' <=> Holds(t, s)'
  BY DEF HeldBy, Holds, Opened, Closes
<1> QED BY <1>1, <1>2

\* A call that takes over the close of a session leaves every session with one
\* owner, if no other call has that session and no call has the new snapshot's.
LEMMA CloserKeepsOwnership ==
  ASSUME Ownership, SnapshotIsLive', NEW t \in Threads, ~Opened(t)',
         registered' = registered, SessionIds' = SessionIds,
         req'[t].closing \in SessionIds, ~SessionIs(req[t].closing)',
         \A u \in Threads : u # t => /\ Opened(u)' <=> Opened(u)
                                     /\ Closes(u)' <=> Closes(u)
                                     /\ req'[u] = req[u],
         \A u \in Threads : u # t /\ Opened(u) =>
             ~SessionIs(req[u].session)' /\ req[u].session # req'[t].closing,
         \A u \in Threads : u # t /\ Closes(u) => ~SessionIs(req[u].closing)'
  PROVE  Ownership'
<1>1. \A u \in Threads :
        (Opened(u) => req[u].session \in registered /\ ~SessionIs(req[u].session))'
  BY DEF Ownership, SessionIs
<1>2. \A u \in Threads :
        (Closes(u) => req[u].closing \in SessionIds /\ ~SessionIs(req[u].closing))'
  BY DEF Ownership, SessionIs
<1>3. \A u, v \in Threads :
        u # v /\ Opened(u)' /\ Opened(v)' => req'[u].session # req'[v].session
  BY DEF Ownership
<1>4. \A u, v \in Threads : Opened(u)' /\ Closes(v)' => req'[u].session # req'[v].closing
  BY DEF Ownership
<1> QED BY <1>1, <1>2, <1>3, <1>4 DEF Ownership

\* A step that is right about the owners preserves the invariant.
LEMMA OwnerStep ==
  ASSUME ControllerInv, NEW t \in Threads, Local(t),
         NEW step \in {"end", "open_commit", "native_close"}, Goto(t, step),
         pc[t] \in TransitionSteps, req' \in [Threads -> Requests],
         snapshot' \in Snapshots \cup {None},
         UNCHANGED <<gateVars, revision, calls>>,
         RegistryInv', GenerationsGrow, Ownership', NoSessionLeaks'
  PROVE  ControllerInv'
<1>1. step \in Steps /\ step \in TransitionSteps
  BY DEF Steps, TransitionSteps
<1>2. pc' \in [Threads -> Steps] /\ pc'[t] = step
  BY <1>1, GotoStep DEF ControllerInv, TypeOK
<1>3. TypeOK'
  BY <1>2 DEF ControllerInv, TypeOK, GateTypeOK, gateVars, RegistryInv
<1>4. Counted'
  BY <1>1, <1>2, CountKept DEF gateVars
<1>5. Position(t)'
  BY <1>2 DEF Position
<1>6. \A u \in Threads : Position(u)'
  BY <1>5, OtherPositions
<1> QED BY <1>3, <1>4, <1>6 DEF ControllerInv

\* A new session is registered under an id that nobody knows yet.
LEMMA OpenSucceedsPreserves ==
  ASSUME ControllerInv, NEW t \in Threads, OpenSucceeds(t)
  PROVE  ControllerInv'
<1> USE DEF At
<1>1. PICK frame \in {0, None} :
        /\ NativeOpenSucceeds(t, frame)
        /\ req' = [req EXCEPT ![t].session = nextSession, ![t].frame = frame]
  BY DEF OpenSucceeds
<1>2. RegistryInv' /\ GenerationsGrow
  BY <1>1, NativeOpenSucceedsInv DEF ControllerInv
<1>3. /\ nextSession \in Nat /\ nextSession \notin SessionIds
      /\ registered \subseteq SessionIds /\ frame \in Frames \cup {None}
      /\ req \in [Threads -> Requests]
  BY RegistryAssumption
     DEF ControllerInv, RegistryInv, RegistryTypeOK, SessionIds, Frames, TypeOK
<1>4. req' \in [Threads -> Requests] /\ OthersKeep(t) /\ req'[t].session = nextSession
  BY <1>1, <1>3, SetSessionFrame
<1>5. Local(t) /\ Opened(t)' /\ ~Closes(t)' /\ ~Opened(t) /\ ~Closes(t)
  BY <1>4, GotoStep DEF OpenSucceeds, Local, OthersKeep, Opened, Closes, ControllerInv,
                        TypeOK, Steps, TransitionSteps
<1>6. /\ \A u \in Threads : u # t => /\ Opened(u)' <=> Opened(u)
                                     /\ Closes(u)' <=> Closes(u)
                                     /\ req'[u] = req[u]
      /\ \A s : SessionIs(s)' <=> SessionIs(s)
      /\ SessionIds \subseteq SessionIds'
  <2>1. SessionIds \subseteq SessionIds'
    BY <1>1, <1>3 DEF SessionIds, NativeOpenSucceeds
  <2> QED BY <1>5, <2>1 DEF Local, Opened, Closes, SessionIs, OpenSucceeds
<1>7. registered' = registered \cup {nextSession}
  BY <1>1 DEF NativeOpenSucceeds
<1>8. ~SessionIs(nextSession)
  BY <1>3 DEF ControllerInv, Ownership, SnapshotIsLive, SessionIs
<1>9. Ownership'
  <2>1. SnapshotIsLive'
    BY <1>7 DEF OpenSucceeds, ControllerInv, Ownership, SnapshotIsLive
  <2>2. \A u \in Threads : Opened(u) => req[u].session \in SessionIds
    BY <1>3 DEF ControllerInv, Ownership
  <2> QED
    BY <1>3, <1>4, <1>5, <1>6, <1>7, <1>8, <2>1, <2>2 DEF ControllerInv, Ownership
<1>10. NoSessionLeaks'
  <2> SUFFICES ASSUME ~poisoned', NEW s \in registered'
               PROVE  SessionIs(s)' \/ \E u \in Threads : Holds(u, s)'
    BY HeldByHolds DEF NoSessionLeaks
  <2>1. CASE s = nextSession
    BY <1>4, <1>5, <2>1 DEF Holds
  <2>2. CASE s \in registered
    <3>1. SessionIs(s) \/ \E u \in Threads : Holds(u, s)
      BY <1>1, <2>2, HeldByHolds DEF NativeOpenSucceeds, ControllerInv, NoSessionLeaks
    <3> QED BY <1>5, <1>6, <3>1 DEF Holds
  <2> QED BY <1>7, <2>1, <2>2
<1> QED BY <1>2, <1>4, <1>5, <1>9, <1>10, OwnerStep
        DEF OpenSucceeds, TransitionSteps, ControllerInv, TypeOK

\* A fresh open makes its session the current one and takes over the close
\* of the one it replaces.
LEMMA OpenCommitsPreserves ==
  ASSUME ControllerInv, NEW t \in Threads, OpenCommits(t)
  PROVE  ControllerInv'
<1> USE DEF At
<1>0. /\ req \in [Threads -> Requests] /\ req[t] \in Requests /\ Opened(t)
      /\ UNCHANGED registryVars
  BY DEF OpenCommits, ControllerInv, TypeOK, Opened
<1>1. req[t].session \in Nat /\ req[t].frame \in Frames \cup {None}
  BY <1>0 DEF Requests
<1>2. /\ snapshot' \in Snapshots /\ snapshot' # None
      /\ \A s : SessionIs(s)' <=> s = req[t].session
  BY <1>1, ControllerAssumption DEF OpenCommits, Snapshots, SessionIs
<1>3. RegistryInv' /\ GenerationsGrow
  BY <1>0, RegistryKept
<1>4. registered' = registered /\ SessionIds' = SessionIds /\ poisoned' = poisoned
  BY <1>0 DEF registryVars, SessionIds
<1>5. SnapshotIsLive'
  BY <1>0, <1>2, <1>4 DEF SnapshotIsLive, ControllerInv, Ownership, SessionIs
<1>6. CASE snapshot = None
  <2>1. Local(t) /\ ~Opened(t)' /\ ~Closes(t)' /\ req' = req
    BY <1>0, <1>6, GotoStep
       DEF OpenCommits, Local, Opened, Closes, ControllerInv, TypeOK, Steps, TransitionSteps
  <2>2. \A u \in Threads : u # t => /\ Opened(u)' <=> Opened(u)
                                    /\ Closes(u)' <=> Closes(u)
                                    /\ req'[u] = req[u]
    BY <2>1 DEF Local, Opened, Closes
  <2>3. Ownership'
    BY <1>0, <1>2, <1>4, <1>5, <2>1, <2>2 DEF ControllerInv, Ownership
  <2>4. NoSessionLeaks'
    <3> SUFFICES ASSUME ~poisoned', NEW s \in registered'
                 PROVE  SessionIs(s)' \/ \E u \in Threads : Holds(u, s)'
      BY HeldByHolds DEF NoSessionLeaks
    <3>1. \E u \in Threads : Holds(u, s)
      BY <1>4, <1>6, HeldByHolds DEF ControllerInv, NoSessionLeaks, SessionIs
    <3> QED BY <1>0, <1>2, <2>1, <2>2, <3>1 DEF Holds, Opened, Closes
  <2> QED
    BY <1>0, <1>2, <1>3, <1>6, <2>1, <2>3, <2>4, OwnerStep DEF OpenCommits, TransitionSteps
<1>7. CASE snapshot # None
  <2>0. snapshot.session \in Nat /\ snapshot.session \in SessionIds
    BY <1>7 DEF ControllerInv, TypeOK, Snapshots, Ownership, SnapshotIsLive, RegistryInv,
                RegistryTypeOK
  <2>1. /\ req' \in [Threads -> Requests] /\ OthersKeep(t)
        /\ req'[t].closing = snapshot.session
    BY <1>0, <1>7, <2>0, SetClosing DEF OpenCommits
  <2>2. Local(t) /\ ~Opened(t)' /\ Closes(t)' /\ ~Closes(t)
    BY <1>0, <1>7, <2>1, GotoStep
       DEF OpenCommits, Local, OthersKeep, Opened, Closes, ControllerInv, TypeOK, Steps,
           TransitionSteps
  <2>3. \A u \in Threads : u # t => /\ Opened(u)' <=> Opened(u)
                                    /\ Closes(u)' <=> Closes(u)
                                    /\ req'[u] = req[u]
    BY <2>2 DEF Local, Opened, Closes
  <2>4. SessionIs(snapshot.session) /\ req[t].session # snapshot.session
    BY <1>0, <1>7 DEF SessionIs, ControllerInv, Ownership
  <2>5. Ownership'
    <3>1. \A u \in Threads : u # t /\ Opened(u) =>
            req[u].session # req[t].session /\ req[u].session # snapshot.session
      BY <1>0, <2>4 DEF ControllerInv, Ownership, SessionIs
    <3>2. \A u \in Threads : u # t /\ Closes(u) => req[t].session # req[u].closing
      BY <1>0 DEF ControllerInv, Ownership
    <3>3. Ownership
      BY DEF ControllerInv
    <3>4. /\ req'[t].closing \in SessionIds /\ ~SessionIs(req[t].closing)'
          /\ \A u \in Threads : u # t /\ Opened(u) =>
               ~SessionIs(req[u].session)' /\ req[u].session # req'[t].closing
          /\ \A u \in Threads : u # t /\ Closes(u) => ~SessionIs(req[u].closing)'
      BY <1>2, <2>0, <2>1, <2>3, <2>4, <3>1, <3>2
    <3> QED BY <1>4, <1>5, <2>2, <2>3, <3>3, <3>4, CloserKeepsOwnership
  <2>6. NoSessionLeaks'
    <3> SUFFICES ASSUME ~poisoned', NEW s \in registered'
                 PROVE  SessionIs(s)' \/ \E u \in Threads : Holds(u, s)'
      BY HeldByHolds DEF NoSessionLeaks
    <3>1. s = snapshot.session \/ \E u \in Threads : Holds(u, s)
      BY <1>4, HeldByHolds DEF ControllerInv, NoSessionLeaks, SessionIs
    <3> QED BY <1>0, <1>2, <2>1, <2>2, <2>3, <3>1 DEF Holds, Opened, Closes
  <2> QED
    BY <1>0, <1>2, <1>3, <1>7, <2>1, <2>2, <2>5, <2>6, OwnerStep
       DEF OpenCommits, TransitionSteps
<1> QED BY <1>6, <1>7

\* An open that was overtaken closes what it opened.
LEMMA OpenIsStalePreserves ==
  ASSUME ControllerInv, NEW t \in Threads, OpenIsStale(t)
  PROVE  ControllerInv'
<1> USE DEF At
<1>0. /\ req \in [Threads -> Requests] /\ req[t] \in Requests /\ Opened(t) /\ ~Closes(t)
      /\ UNCHANGED <<registryVars, snapshot>>
  BY DEF OpenIsStale, ControllerInv, TypeOK, Opened, Closes
<1>1. req[t].session \in Nat /\ req[t].session \in SessionIds
  BY <1>0 DEF Requests, ControllerInv, Ownership, RegistryInv, RegistryTypeOK
<1>2. /\ req' \in [Threads -> Requests] /\ OthersKeep(t)
      /\ req'[t].closing = req[t].session
  <2>1. PICK n \in Nat : n = req[t].session
    BY <1>1
  <2>2. req' = [req EXCEPT ![t].closing = n, ![t].session = 0] /\ 0 \in Nat
    BY <2>1 DEF OpenIsStale
  <2>3. req' \in [Threads -> Requests] /\ OthersKeep(t) /\ req'[t].closing = n
    BY <1>0, <2>2, SetClosingSession
  <2> QED BY <2>1, <2>3
<1>3. Local(t) /\ ~Opened(t)' /\ Closes(t)'
  BY <1>0, <1>2, GotoStep
     DEF OpenIsStale, Local, OthersKeep, Opened, Closes, ControllerInv, TypeOK, Steps,
         TransitionSteps
<1>4. /\ \A u \in Threads : u # t => /\ Opened(u)' <=> Opened(u)
                                     /\ Closes(u)' <=> Closes(u)
                                     /\ req'[u] = req[u]
      /\ \A s : SessionIs(s)' <=> SessionIs(s)
      /\ registered' = registered /\ SessionIds' = SessionIds /\ poisoned' = poisoned
  BY <1>0, <1>3 DEF Local, Opened, Closes, SessionIs, registryVars, SessionIds
<1>5. Ownership'
  <2>1. SnapshotIsLive'
    BY <1>0, <1>4 DEF ControllerInv, Ownership, SnapshotIsLive
  <2>2. Ownership
    BY DEF ControllerInv
  <2>3. \A u \in Threads : u # t /\ Opened(u) => req[u].session # req[t].session
    BY <1>0, <2>2 DEF Ownership
  <2>4. /\ req'[t].closing \in SessionIds /\ ~SessionIs(req[t].closing)'
        /\ \A u \in Threads : u # t /\ Opened(u) =>
             ~SessionIs(req[u].session)' /\ req[u].session # req'[t].closing
        /\ \A u \in Threads : u # t /\ Closes(u) => ~SessionIs(req[u].closing)'
    BY <1>0, <1>1, <1>2, <1>4, <2>2, <2>3 DEF Ownership
  <2> QED BY <1>3, <1>4, <2>1, <2>2, <2>4, CloserKeepsOwnership
<1>6. NoSessionLeaks'
  <2> SUFFICES ASSUME ~poisoned', NEW s \in registered'
               PROVE  SessionIs(s)' \/ \E u \in Threads : Holds(u, s)'
    BY HeldByHolds DEF NoSessionLeaks
  <2>1. SessionIs(s) \/ \E u \in Threads : Holds(u, s)
    BY <1>4, HeldByHolds DEF ControllerInv, NoSessionLeaks
  <2> QED BY <1>0, <1>2, <1>3, <1>4, <2>1 DEF Holds
<1>7. RegistryInv' /\ GenerationsGrow
  BY <1>0, RegistryKept
<1>8. snapshot' \in Snapshots \cup {None}
  BY <1>0 DEF ControllerInv, TypeOK
<1> QED
  BY <1>0, <1>2, <1>3, <1>5, <1>6, <1>7, <1>8, OwnerStep DEF OpenIsStale, TransitionSteps

\* The session that a call closes is nobody else's.
LEMMA ClosesNativePreserves ==
  ASSUME ControllerInv, NEW t \in Threads, ClosesNative(t)
  PROVE  ControllerInv'
<1> USE DEF At
<1>0. /\ req' = req /\ snapshot' = snapshot /\ Closes(t) /\ ~Opened(t)
      /\ req \in [Threads -> Requests] /\ snapshot \in Snapshots \cup {None}
  BY DEF ClosesNative, ControllerInv, TypeOK, Opened, Closes
<1>1. Local(t) /\ ~Opened(t)' /\ ~Closes(t)'
  <2>1. pc \in [Threads -> Steps]
    BY DEF ControllerInv, TypeOK
  <2>2. "end" \in Steps /\ Goto(t, "end")
    BY DEF Steps, TransitionSteps, ClosesNative
  <2>3. pc'[t] = "end" /\ \A u \in Threads : u # t => pc'[u] = pc[u]
    BY <2>1, <2>2, GotoStep
  <2> QED BY <1>0, <2>3 DEF Local, Opened, Closes
<1>2. /\ \A u \in Threads : u # t => /\ Opened(u)' <=> Opened(u)
                                     /\ Closes(u)' <=> Closes(u)
                                     /\ req'[u] = req[u]
      /\ \A s : SessionIs(s)' <=> SessionIs(s)
  BY <1>0, <1>1 DEF Local, Opened, Closes, SessionIs
<1>3. /\ RegistryInv' /\ GenerationsGrow
      /\ nextSession' = nextSession /\ poisoned' = poisoned
      /\ registered' \subseteq registered
      /\ registered \ {req[t].closing} \subseteq registered'
      /\ ~poisoned => req[t].closing \notin registered'
  <2>1. CASE NativeClose(req[t].closing)
    BY <2>1, NativeCloseInv DEF NativeClose, ControllerInv
  <2>2. CASE poisoned /\ UNCHANGED registryVars
    BY <2>2, RegistryKept DEF registryVars
  <2> QED BY <2>1, <2>2 DEF ClosesNative
<1>4. SessionIds' = SessionIds
  BY <1>3 DEF SessionIds
<1>5. Ownership'
  <2>1. SnapshotIsLive'
    BY <1>0, <1>3 DEF ControllerInv, Ownership, SnapshotIsLive, SessionIs
  <2>2. \A u \in Threads : Opened(u) => req[u].session \in registered'
    BY <1>0, <1>3 DEF ControllerInv, Ownership
  <2> QED BY <1>0, <1>1, <1>2, <1>4, <2>1, <2>2 DEF ControllerInv, Ownership
<1>6. NoSessionLeaks'
  <2> SUFFICES ASSUME ~poisoned', NEW s \in registered'
               PROVE  SessionIs(s)' \/ \E u \in Threads : Holds(u, s)'
    BY HeldByHolds DEF NoSessionLeaks
  <2>1. s # req[t].closing /\ (SessionIs(s) \/ \E u \in Threads : Holds(u, s))
    BY <1>3, HeldByHolds DEF ControllerInv, NoSessionLeaks
  <2> QED BY <1>0, <1>2, <2>1 DEF Holds
<1> QED
  BY <1>0, <1>1, <1>3, <1>5, <1>6, OwnerStep
     DEF ClosesNative, TransitionSteps, ControllerInv, TypeOK

\* A call that detaches the current session will close it.
LEMMA DetachPreserves ==
  ASSUME ControllerInv, NEW t \in Threads, snapshot # None, snapshot' = None,
         pc[t] \in {"cleanup_detach", "close_detach"}, Goto(t, "native_close"),
         req' \in [Threads -> Requests], OthersKeep(t), req'[t].closing = snapshot.session,
         UNCHANGED <<gateVars, registryVars, revision, calls>>
  PROVE  ControllerInv'
<1>0. snapshot.session \in registered /\ snapshot.session \in SessionIds
  BY DEF ControllerInv, Ownership, SnapshotIsLive, RegistryInv, RegistryTypeOK
<1>1. Local(t) /\ ~Opened(t)' /\ Closes(t)' /\ ~Opened(t) /\ ~Closes(t)
  <2>1. pc \in [Threads -> Steps]
    BY DEF ControllerInv, TypeOK
  <2>2. "native_close" \in Steps
    BY DEF Steps, TransitionSteps
  <2>3. pc'[t] = "native_close" /\ \A u \in Threads : u # t => pc'[u] = pc[u]
    BY <2>1, <2>2, GotoStep
  <2>4. Local(t)
    BY <2>3 DEF Local, OthersKeep
  <2> QED BY <2>3, <2>4 DEF Opened, Closes
<1>2. /\ \A u \in Threads : u # t => /\ Opened(u)' <=> Opened(u)
                                     /\ Closes(u)' <=> Closes(u)
                                     /\ req'[u] = req[u]
      /\ \A s : ~SessionIs(s)'
      /\ \A s : SessionIs(s) <=> s = snapshot.session
      /\ registered' = registered /\ SessionIds' = SessionIds /\ poisoned' = poisoned
  BY <1>1 DEF Local, Opened, Closes, SessionIs, registryVars, SessionIds
<1>3. Ownership'
  <2>1. SnapshotIsLive'
    BY DEF SnapshotIsLive
  <2>2. Ownership
    BY DEF ControllerInv
  <2>3. /\ req'[t].closing \in SessionIds
        /\ \A u \in Threads : u # t /\ Opened(u) => req[u].session # req'[t].closing
    BY <1>0, <1>2, <2>2 DEF Ownership
  <2> QED BY <1>1, <1>2, <2>1, <2>2, <2>3, CloserKeepsOwnership
<1>4. NoSessionLeaks'
  <2> SUFFICES ASSUME ~poisoned', NEW s \in registered'
               PROVE  \E u \in Threads : Holds(u, s)'
    BY HeldByHolds DEF NoSessionLeaks
  <2>1. s = snapshot.session \/ \E u \in Threads : Holds(u, s)
    BY <1>2, HeldByHolds DEF ControllerInv, NoSessionLeaks
  <2> QED BY <1>1, <1>2, <2>1 DEF Holds
<1>5. RegistryInv' /\ GenerationsGrow
  BY RegistryKept
<1> QED BY <1>1, <1>3, <1>4, <1>5, OwnerStep DEF TransitionSteps

\* closeCurrent detaches whatever is current.
LEMMA CloseDetachesPreserves ==
  ASSUME ControllerInv, NEW t \in Threads, CloseDetaches(t)
  PROVE  ControllerInv'
<1> USE DEF At
<1>1. CASE snapshot = None
  <2>1. pc'[t] = "end" => Position(t)'
    BY DEF Position
  <2> QED
    BY <1>1, <2>1, LocalStep
       DEF CloseDetaches, Steps, TransitionSteps, ControllerInv, TypeOK, OthersKeep
<1>2. CASE snapshot # None
  <2>1. snapshot.session \in Nat /\ req \in [Threads -> Requests]
    BY <1>2 DEF ControllerInv, TypeOK, Snapshots
  <2>2. /\ req' \in [Threads -> Requests] /\ OthersKeep(t)
        /\ req'[t].closing = snapshot.session
    BY <1>2, <2>1, SetClosing DEF CloseDetaches
  <2> QED BY <1>2, <2>2, DetachPreserves DEF CloseDetaches
<1> QED BY <1>1, <1>2

\* closeIfCurrent detaches the session of the cancelled open, if it is still
\* the current one.
LEMMA CleanupDetachesPreserves ==
  ASSUME ControllerInv, NEW t \in Threads, CleanupDetaches(t)
  PROVE  ControllerInv'
<1> USE DEF At
<1>0. req \in [Threads -> Requests] /\ req[t] \in Requests
  BY DEF ControllerInv, TypeOK
<1>1. CASE SessionIs(req[t].session)
  <2>1. PICK n \in Nat : n = req[t].session
    BY <1>0 DEF Requests
  <2>2. req' = [req EXCEPT ![t].closing = n, ![t].session = 0] /\ 0 \in Nat
    BY <1>1, <2>1 DEF CleanupDetaches
  <2>3. req' \in [Threads -> Requests] /\ OthersKeep(t) /\ req'[t].closing = n
    BY <1>0, <2>2, SetClosingSession
  <2>4. snapshot # None /\ n = snapshot.session
    BY <1>1, <2>1 DEF SessionIs
  <2> QED BY <1>1, <2>3, <2>4, DetachPreserves DEF CleanupDetaches
<1>2. CASE ~SessionIs(req[t].session)
  <2>1. req' \in [Threads -> Requests] /\ OthersKeep(t)
    BY <1>0, <1>2, SetSession DEF CleanupDetaches
  <2>2. pc'[t] = "end" => Position(t)'
    BY DEF Position
  <2> QED
    BY <1>2, <2>1, <2>2, LocalStep
       DEF CleanupDetaches, Steps, TransitionSteps, ControllerInv, TypeOK
<1> QED BY <1>1, <1>2

(***************************************************************************)
(* The theorem.                                                            *)
(***************************************************************************)
\* The controller starts without sessions, calls or transitions.
LEMMA InitInv == Init => ControllerInv
<1> SUFFICES ASSUME Init
             PROVE  ControllerInv
  OBVIOUS
<1>1. RegistryInv /\ RegistryTypeOK
  BY RegistryInitInv DEF Init, RegistryInv
<1>2. NoRequest \in Requests
  BY DEF Requests, NoRequest
<1>3. TypeOK
  <2>1. GateTypeOK
    BY DEF Init, GateInit, GateTypeOK
  <2>2. revision \in 0 .. LastRevision /\ calls \in 0 .. MaxCalls
    BY ControllerAssumption DEF Init
  <2>3. pc \in [Threads -> Steps] /\ req \in [Threads -> Requests]
    BY <1>2 DEF Init, Steps
  <2> QED BY <1>1, <2>1, <2>2, <2>3 DEF Init, TypeOK
<1>4. \A t \in Threads : pc[t] = "idle"
  BY DEF Init
<1>5. Ownership
  BY <1>4 DEF Init, Ownership, SnapshotIsLive, Opened, Closes
<1>6. NoSessionLeaks
  BY DEF Init, RegistryInit, NoSessionLeaks
<1>7. Counted
  <2>1. InTransition = {}
    BY <1>4 DEF InTransition, TransitionSteps
  <2> QED BY <1>4, <2>1, FS_EmptySet
          DEF Counted, StorageExcludesTransitions, Init, GateInit, TransitionSteps
<1>8. \A t \in Threads : Position(t)
  BY <1>4 DEF Position
<1> QED BY <1>1, <1>3, <1>5, <1>6, <1>7, <1>8 DEF ControllerInv

\* Every step of every call preserves the invariant.
LEMMA NextInv == ControllerInv /\ [Next]_vars => ControllerInv'
<1> SUFFICES ASSUME ControllerInv, [Next]_vars
             PROVE  ControllerInv'
  OBVIOUS
<1>1. ASSUME NEW t \in Threads, Continue(t)
      PROVE  ControllerInv'
  BY <1>1, TakesRevisionPreserves, OpenCallsNativePreserves, OpenFailsPreserves,
     EndReadsPreserves, ReadsTargetPreserves, TakesHandlePreserves, NavMovesPreserves,
     NavCommitsPreserves, LoadReadsRevisionPreserves, LoadPreparesPreserves,
     LoadChecksPreserves, LoadCopiesPreserves, GivesUpPreserves, ClearPreserves,
     BeginsPreserves, EndsTransitionPreserves, StoragePreserves, OpenSucceedsPreserves,
     OpenCommitsPreserves, OpenIsStalePreserves, ClosesNativePreserves,
     CloseDetachesPreserves, CleanupDetachesPreserves
     DEF Continue
<1>2. CASE UNCHANGED vars
  <2>1. RegistryInv' /\ RegistryTypeOK'
    BY <1>2, RegistryKept DEF vars
  <2>2. TypeOK'
    BY <1>2, <2>1 DEF vars, gateVars, controllerVars, ControllerInv, TypeOK, GateTypeOK
  <2>3. UNCHANGED <<snapshot, pc, req, registered, nextSession, session, poisoned,
                    sessionTransitions, storageOperationActive>>
    BY <1>2 DEF vars, gateVars, registryVars, controllerVars
  <2>4. Ownership' /\ NoSessionLeaks'
    BY <2>3 DEF ControllerInv, Ownership, SnapshotIsLive, Opened, Closes, SessionIs,
                SessionIds, NoSessionLeaks, HeldBy
  <2>5. Counted'
    BY <2>3 DEF ControllerInv, Counted, InTransition, StorageExcludesTransitions
  <2>6. \A t \in Threads : Position(t)'
    BY <2>3 DEF ControllerInv, Position, SessionIds
  <2> QED BY <2>1, <2>2, <2>4, <2>5, <2>6 DEF ControllerInv
<1> QED BY <1>1, <1>2, StartPreserves DEF Next, Finished

\* The invariant holds in every reachable state.
LEMMA InvAlways == Spec => []ControllerInv
BY InitInv, NextInv, PTL DEF Spec

\* The session the app believes in is registered natively, whatever opens,
\* closes, failures and panics interleave (SessionController.open, close).
THEOREM SnapshotIsAlwaysLive == Spec => []SnapshotIsLive
<1>1. ControllerInv => SnapshotIsLive
  BY DEF ControllerInv, Ownership
<1> QED BY <1>1, InvAlways, PTL

\* No native session is left without an owner: the committed snapshot, or a
\* call that is about to commit or close it.
THEOREM NoSessionEverLeaks == Spec => []NoSessionLeaks
<1>1. ControllerInv => NoSessionLeaks
  BY DEF ControllerInv
<1> QED BY <1>1, InvAlways, PTL

\* Pixels that a load delivers are those of the frame the app displays, across
\* navigations that run while they are decoded (loadCurrentFrame).
THEOREM DeliveredFrameIsAlwaysShown == Spec => []DeliveredFrameIsShown
<1>1. ControllerInv => DeliveredFrameIsShown
  BY DEF ControllerInv, Position, DeliveredFrameIsShown, Delivered, StillCurrent
<1> QED BY <1>1, InvAlways, PTL

\* Storage work of the app never overlaps an open or a close
\* (StorageOperationGate), and a native clear never meets a session.
THEOREM StorageAlwaysExcludesTransitions ==
  Spec => [](StorageExcludesTransitions /\ ClearMeetsNoSession)
<1>1. ControllerInv => StorageExcludesTransitions /\ ClearMeetsNoSession
  BY DEF ControllerInv, Counted, RegistryInv
<1> QED BY <1>1, InvAlways, PTL
=============================================================================
