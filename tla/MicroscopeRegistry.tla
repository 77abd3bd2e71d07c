------------------------- MODULE MicroscopeRegistry -------------------------
(***************************************************************************)
(* The native microscope sessions of framescope-ffi: the registry of open  *)
(* sessions (microscope.rs), the lifecycle lock and the count of active    *)
(* sessions (lib.rs) and the destructive storage calls that consult them   *)
(* (storage_admin.rs).                                                     *)
(*                                                                         *)
(* A session lives on while some call holds its handle, so its state is    *)
(* kept for every session ever opened and registered says which of them    *)
(* the registry still holds.                                               *)
(***************************************************************************)
EXTENDS Integers, FiniteSets

CONSTANTS
  Threads,        \* the threads that make native calls
  MaxSessions,    \* MAX_MICROSCOPE_SESSIONS
  FrameCount,     \* indexed frames of a video that has any
  None

VARIABLES
  nextSession,    \* NEXT_SESSION_ID
  session,        \* NavigationSession of each session id handed out so far
  registered,     \* the keys of MICROSCOPE_SESSIONS
  active,         \* ACTIVE_MICROSCOPE_SESSIONS
  opening,        \* the thread inside nativeOpenMicroscopeSession, or None
  clearing,       \* the thread inside a destructive storage call, or None
  poisoned        \* a panic while the lifecycle lock was held

registryVars == <<nextSession, session, registered, active, opening, clearing, poisoned>>

ASSUME RegistryAssumption ==
  /\ MaxSessions \in Nat /\ FrameCount \in Nat \ {0}
  /\ IsFiniteSet(Threads)
  /\ None \notin Threads /\ None \notin Int

Frames == 0 .. FrameCount - 1

(***************************************************************************)
(* current and presentation_generation of a session, and the frame whose   *)
(* pixels current_presentation holds.                                      *)
(***************************************************************************)
NavigationSessions ==
  [current : Frames \cup {None}, generation : Nat, presented : Frames \cup {None}]

SessionIds == 1 .. nextSession - 1

RegistryTypeOK ==
  /\ nextSession \in Nat \ {0}
  /\ session \in [SessionIds -> NavigationSessions]
  /\ registered \subseteq SessionIds
  /\ active \in Nat
  /\ opening \in Threads \cup {None}
  /\ clearing \in Threads \cup {None}
  /\ poisoned \in BOOLEAN

RegistryInit ==
  /\ nextSession = 1
  /\ session = [s \in 1 .. 0 |-> None]
  /\ registered = {}
  /\ active = 0
  /\ opening = None
  /\ clearing = None
  /\ poisoned = FALSE

LifecycleLockFree == opening = None /\ clearing = None /\ ~poisoned

(***************************************************************************)
(* nativeOpenMicroscopeSession holds the lifecycle lock from its first     *)
(* step to its last; indexing runs in between.  A failure undoes the       *)
(* count; a panic does not, and poisons the lock.                          *)
(***************************************************************************)
\* mutant: the session being opened is not counted
NativeOpenUncounted(t) ==
  /\ LifecycleLockFree
  /\ opening' = t
  /\ UNCHANGED <<nextSession, session, registered, active, clearing, poisoned>>

NativeOpenEnters(t) ==
  /\ LifecycleLockFree
  /\ opening' = t
  /\ active' = active + 1
  /\ UNCHANGED <<nextSession, session, registered, clearing, poisoned>>

NewSession(frame) ==
  [current |-> frame, generation |-> IF frame = None THEN 0 ELSE 1, presented |-> None]

NativeOpenSucceeds(t, frame) ==
  /\ opening = t
  /\ Cardinality(registered) < MaxSessions
  /\ nextSession' = nextSession + 1
  /\ session' = [s \in 1 .. nextSession |->
                   IF s = nextSession THEN NewSession(frame) ELSE session[s]]
  /\ registered' = registered \cup {nextSession}
  /\ opening' = None
  /\ UNCHANGED <<active, clearing, poisoned>>

NativeOpenFails(t) ==
  /\ opening = t
  /\ opening' = None
  /\ active' = active - 1
  /\ UNCHANGED <<nextSession, session, registered, clearing, poisoned>>

NativeOpenPanics(t) ==
  /\ opening = t
  /\ opening' = None
  /\ poisoned' = TRUE
  /\ UNCHANGED <<nextSession, session, registered, active, clearing>>

(***************************************************************************)
(* nativeCloseMicroscopeSession, one critical section of the lifecycle     *)
(* lock.                                                                   *)
(***************************************************************************)
NativeClose(s) ==
  /\ LifecycleLockFree
  /\ registered' = registered \ {s}
  /\ active' = IF s \in registered /\ active > 0 THEN active - 1 ELSE active
  /\ UNCHANGED <<nextSession, session, opening, clearing, poisoned>>

(***************************************************************************)
(* with_destructive_access: refused while a session is counted.            *)
(***************************************************************************)
ClearRefused == poisoned \/ (LifecycleLockFree /\ active > 0)

ClearEnters(t) ==
  /\ LifecycleLockFree
  /\ active = 0
  /\ clearing' = t
  /\ UNCHANGED <<nextSession, session, registered, active, opening, poisoned>>

ClearLeaves(t) ==
  /\ clearing = t
  /\ clearing' = None
  /\ UNCHANGED <<nextSession, session, registered, active, opening, poisoned>>

(***************************************************************************)
(* Calls on one session, each inside the session's own mutex.              *)
(***************************************************************************)
\* mutant: the generation survives a navigation
SetCurrentKeepsGeneration(s, frame) ==
  session' = [session EXCEPT ![s] =
    IF @.current = frame THEN @
    ELSE [current |-> frame, generation |-> @.generation, presented |-> None]]

SetCurrentFrame(s, frame) ==
  session' = [session EXCEPT ![s] =
    IF @.current = frame THEN @
    ELSE [current |-> frame, generation |-> @.generation + 1, presented |-> None]]

NavigateSession(s, frame) ==
  /\ session[s].current # None
  /\ frame \in Frames
  /\ SetCurrentFrame(s, frame)
  /\ UNCHANGED <<nextSession, registered, active, opening, clearing, poisoned>>

\* prepare_current_frame decodes the current frame and keeps its pixels
PrepareCurrentFrame(s) ==
  /\ session[s].current # None
  /\ session' = [session EXCEPT ![s].presented = session[s].current]
  /\ UNCHANGED <<nextSession, registered, active, opening, clearing, poisoned>>

MayCopy(s, generation) ==
  /\ session[s].generation = generation
  /\ session[s].presented # None
  /\ session[s].presented = session[s].current

(***************************************************************************)
(* The registry under any client.                                          *)
(***************************************************************************)
RegistryNext ==
  \/ \E t \in Threads :
       \/ NativeOpenEnters(t)
       \/ \E frame \in {0, None} : NativeOpenSucceeds(t, frame)
       \/ NativeOpenFails(t)
       \/ NativeOpenPanics(t)
       \/ ClearEnters(t)
       \/ ClearLeaves(t)
  \/ \E s \in SessionIds :
       \/ NativeClose(s)
       \/ \E frame \in Frames : NavigateSession(s, frame)
       \/ PrepareCurrentFrame(s)

RegistrySpec == RegistryInit /\ [][RegistryNext]_registryVars

(***************************************************************************)
(* A destructive storage call never runs while a session is registered or  *)
(* being opened: with_destructive_access trusts the count, which open and  *)
(* close keep under the lifecycle lock.                                    *)
(***************************************************************************)
ClearMeetsNoSession == clearing # None => registered = {} /\ opening = None
=============================================================================
