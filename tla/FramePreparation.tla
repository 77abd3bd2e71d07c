-------------------------- MODULE FramePreparation --------------------------
(***************************************************************************)
(* Source-quality frame preparation of one microscope session              *)
(* (framescope-ffi/src/microscope.rs).  Native threads share a registry    *)
(* entry that says which request is active and which token interrupts its  *)
(* decoder, a session mutex, and a decoder cursor kept from the last       *)
(* preparation.  A cancellation token is one-shot; it is named by the      *)
(* generation of the request that created it.                              *)
(***************************************************************************)
EXTENDS Naturals

CONSTANTS
    Threads,        \* native threads that may call into the bridge
    MaxGeneration,  \* bound on preparations begun
    MaxNavigations, \* bound on steps, jumps and closes
    None

VARIABLES
    open,        \* the session is in MICROSCOPE_SESSIONS
    active,      \* its ActiveFramePreparation [generation, work], or None
    generation,  \* next_generation
    cancelled,   \* tokens on which cancel() was called
    cursor,      \* the token of the retained decoder, or None
    owner,       \* the thread that holds the session mutex, or None
    pc,          \* where each thread is
    mine,        \* the generation of each thread's request
    using,       \* the token of the decoder each thread is driving
    opens,       \* decoders opened for the request
    result,      \* what the request will answer
    superseded,  \* history: requests that a later call replaced
    navigations  \* steps, jumps and closes so far

vars == <<open, active, generation, cancelled, cursor, owner, pc, mine, using,
          opens, result, superseded, navigations>>

Tokens == 1..MaxGeneration
Steps == {"idle", "handle", "lock", "start", "present", "open", "decode",
          "shown", "drop", "nav_handle", "nav_lock", "close"}
MaxOpens == 2   \* a seek that does not reconcile is retried once from the start

Init ==
    /\ open = TRUE /\ active = None /\ generation = 0 /\ cancelled = {}
    /\ cursor = None /\ owner = None
    /\ pc = [t \in Threads |-> "idle"]
    /\ mine = [t \in Threads |-> 0] /\ using = [t \in Threads |-> 0]
    /\ opens = [t \in Threads |-> 0]
    /\ result = [t \in Threads |-> "none"]
    /\ superseded = {} /\ navigations = 0

IsCancelled(token) == token \in cancelled
ActiveTokens == IF active = None THEN {} ELSE {active.generation, active.work}
ActiveRequest == IF active = None THEN {} ELSE {active.generation}

(***************************************************************************)
(* Registry operations.                                                    *)
(***************************************************************************)

\* mutant: only the request token of the previous request is cancelled
BeginLeavingWork(t) ==
    /\ pc[t] = "idle" /\ generation < MaxGeneration
    /\ generation' = generation + 1
    /\ cancelled' = cancelled \cup ActiveRequest
    /\ superseded' = superseded \cup ActiveRequest
    /\ active' = [generation |-> generation', work |-> generation']
    /\ mine' = [mine EXCEPT ![t] = generation']
    /\ pc' = [pc EXCEPT ![t] = "handle"]
    /\ UNCHANGED <<open, cursor, owner, using, opens, result, navigations>>

BeginFramePreparation(t) ==
    /\ pc[t] = "idle" /\ generation < MaxGeneration
    /\ generation' = generation + 1
    /\ cancelled' = cancelled \cup ActiveTokens
    /\ superseded' = superseded \cup ActiveRequest
    /\ active' = [generation |-> generation', work |-> generation']
    /\ mine' = [mine EXCEPT ![t] = generation']
    /\ pc' = [pc EXCEPT ![t] = "handle"]
    /\ UNCHANGED <<open, cursor, owner, using, opens, result, navigations>>

\* A step, a jump or a close first interrupts the active preparation, before
\* it waits for the session.  Begins a step or jump when next = "nav_handle".
CancelActiveFramePreparation(t, next) ==
    /\ pc[t] = "idle" /\ navigations < MaxNavigations
    /\ navigations' = navigations + 1
    /\ cancelled' = cancelled \cup ActiveTokens
    /\ superseded' = superseded \cup ActiveRequest
    /\ pc' = [pc EXCEPT ![t] = next]
    /\ UNCHANGED <<open, active, generation, cursor, owner, mine, using, opens, result>>

\* Whether adopt_work_cancellation accepts the token for the request of t.
MayAdopt(t, token) ==
    /\ ~IsCancelled(mine[t]) /\ ~IsCancelled(token)
    /\ active # None
    /\ active.generation = mine[t]

Adopt(token) == active' = [active EXCEPT !.work = token]

\* The request ends and the session mutex is released.
Answer(t, answer) ==
    /\ owner' = IF owner = t THEN None ELSE owner
    /\ result' = [result EXCEPT ![t] = answer]
    /\ pc' = [pc EXCEPT ![t] = "drop"]

Goto(t, step) == pc' = [pc EXCEPT ![t] = step]

(***************************************************************************)
(* One preparation, step by step.                                          *)
(***************************************************************************)

\* The early check, then the handle of the session is cloned.
GetHandle(t) ==
    /\ pc[t] = "handle"
    /\ \/ IsCancelled(mine[t]) /\ Answer(t, "cancelled")
       \/ ~IsCancelled(mine[t]) /\ ~open /\ Answer(t, "not_found")
       \/ ~IsCancelled(mine[t]) /\ open /\ Goto(t, "lock") /\ UNCHANGED <<owner, result>>
    /\ UNCHANGED <<open, active, generation, cancelled, cursor, mine, using, opens,
                   superseded, navigations>>

Lock(t) ==
    /\ pc[t] = "lock" /\ owner = None
    /\ owner' = t /\ Goto(t, "start")
    /\ UNCHANGED <<open, active, generation, cancelled, cursor, mine, using, opens,
                   result, superseded, navigations>>

\* mutant: a cancelled cursor is not dropped first
StartWithStaleCursor(t) ==
    /\ pc[t] = "start"
    /\ \/ /\ IsCancelled(mine[t]) /\ Answer(t, "cancelled")
          /\ UNCHANGED <<active, cursor>>
       \/ /\ ~IsCancelled(mine[t]) /\ cursor = None
          /\ Goto(t, "present") /\ UNCHANGED <<active, cursor, owner, result>>
       \/ /\ ~IsCancelled(mine[t]) /\ cursor # None /\ MayAdopt(t, cursor)
          /\ Adopt(cursor) /\ Goto(t, "present") /\ UNCHANGED <<cursor, owner, result>>
       \/ /\ ~IsCancelled(mine[t]) /\ cursor # None /\ ~MayAdopt(t, cursor)
          /\ cursor' = None /\ Answer(t, "cancelled") /\ UNCHANGED active
    /\ UNCHANGED <<open, generation, cancelled, mine, using, opens, superseded, navigations>>

\* Under the session mutex: a cancelled cursor is dropped, a usable one has
\* its token adopted as the interrupt of this request.
Start(t) ==
    /\ pc[t] = "start"
    /\ \/ /\ IsCancelled(mine[t]) /\ Answer(t, "cancelled")
          /\ UNCHANGED <<active, cursor>>
       \/ /\ ~IsCancelled(mine[t]) /\ (cursor = None \/ IsCancelled(cursor))
          /\ cursor' = None /\ Goto(t, "present") /\ UNCHANGED <<active, owner, result>>
       \/ /\ ~IsCancelled(mine[t]) /\ cursor # None /\ MayAdopt(t, cursor)
          /\ Adopt(cursor) /\ Goto(t, "present") /\ UNCHANGED <<cursor, owner, result>>
       \/ /\ ~IsCancelled(mine[t]) /\ cursor # None /\ ~IsCancelled(cursor) /\ ~MayAdopt(t, cursor)
          /\ cursor' = None /\ Answer(t, "cancelled") /\ UNCHANGED active
    /\ UNCHANGED <<open, generation, cancelled, mine, using, opens, superseded, navigations>>

\* The cursor is reused when the target is a little ahead of it and dropped
\* otherwise; a RAM hit needs no decoder.
Present(t) ==
    /\ pc[t] = "present"
    /\ \/ /\ cursor # None /\ using' = [using EXCEPT ![t] = cursor]
          /\ Goto(t, "decode") /\ UNCHANGED cursor
       \/ /\ cursor' \in {cursor, None} /\ Goto(t, "shown") /\ UNCHANGED using
       \/ /\ cursor' = None /\ Goto(t, "open") /\ UNCHANGED using
    /\ UNCHANGED <<open, active, generation, cancelled, owner, mine, opens, result,
                   superseded, navigations>>

\* The closure that opens a decoder for the request.
OpenDecoder(t) ==
    /\ pc[t] = "open" /\ opens[t] < MaxOpens
    /\ \/ /\ ~MayAdopt(t, mine[t]) /\ Answer(t, "cancelled")
          /\ UNCHANGED <<active, using, opens>>
       \/ /\ MayAdopt(t, mine[t]) /\ Adopt(mine[t])
          /\ using' = [using EXCEPT ![t] = mine[t]]
          /\ opens' = [opens EXCEPT ![t] = @ + 1]
          /\ Goto(t, "decode") /\ UNCHANGED <<owner, result>>
    /\ UNCHANGED <<open, generation, cancelled, cursor, mine, superseded, navigations>>

\* The decoder reaches the frame, is interrupted through its token, fails, or
\* meets frames that do not reconcile and is replaced by a fresh one.
Decode(t) ==
    /\ pc[t] = "decode"
    /\ \/ /\ cursor' = using[t] /\ Goto(t, "shown") /\ UNCHANGED <<owner, result>>
       \/ /\ IsCancelled(using[t]) /\ cursor' = None /\ Answer(t, "cancelled")
       \/ /\ cursor' = None /\ Answer(t, "failed")
       \/ /\ opens[t] < MaxOpens /\ cursor' = None /\ Goto(t, "open")
          /\ UNCHANGED <<owner, result>>
    /\ UNCHANGED <<open, active, generation, cancelled, mine, using, opens,
                   superseded, navigations>>

\* The result is checked against the request once more before it is kept.
Show(t) ==
    /\ pc[t] = "shown"
    /\ \/ IsCancelled(mine[t]) /\ cursor' = None /\ Answer(t, "cancelled")
       \/ ~IsCancelled(mine[t]) /\ UNCHANGED cursor /\ Answer(t, "ok")
    /\ UNCHANGED <<open, active, generation, cancelled, mine, using, opens,
                   superseded, navigations>>

\* Drop for FramePreparationGuard: only the entry of this request is removed.
DropGuard(t) ==
    /\ pc[t] = "drop"
    /\ active' = IF active # None /\ active.generation = mine[t] THEN None ELSE active
    /\ pc' = [pc EXCEPT ![t] = "idle"] /\ mine' = [mine EXCEPT ![t] = 0]
    /\ using' = [using EXCEPT ![t] = 0] /\ opens' = [opens EXCEPT ![t] = 0]
    /\ result' = [result EXCEPT ![t] = "none"]
    /\ UNCHANGED <<open, generation, cancelled, cursor, owner, superseded, navigations>>

(***************************************************************************)
(* Steps, jumps and closes.                                                *)
(***************************************************************************)

WithSession(t) ==
    /\ \/ pc[t] = "nav_handle" /\ Goto(t, IF open THEN "nav_lock" ELSE "idle")
       \/ pc[t] = "nav_lock" /\ owner = None /\ Goto(t, "idle")
    /\ UNCHANGED <<open, active, generation, cancelled, cursor, owner, mine, using,
                   opens, result, superseded, navigations>>

CloseSession(t) ==
    /\ pc[t] = "close"
    /\ open' = FALSE /\ Goto(t, "idle")
    /\ UNCHANGED <<active, generation, cancelled, cursor, owner, mine, using, opens,
                   result, superseded, navigations>>

ThreadStep(t) ==
    \/ GetHandle(t) \/ Lock(t) \/ Start(t) \/ Present(t) \/ OpenDecoder(t)
    \/ Decode(t) \/ Show(t) \/ DropGuard(t) \/ WithSession(t) \/ CloseSession(t)

Next ==
    \E t \in Threads :
        \/ BeginFramePreparation(t)
        \/ \E next \in {"nav_handle", "close"} : CancelActiveFramePreparation(t, next)
        \/ ThreadStep(t)

Spec == Init /\ [][Next]_vars

(***************************************************************************)
(* Properties.                                                             *)
(***************************************************************************)

\* A later preparation, step, jump or close reaches the decoder that is
\* running: whenever the request of a decoding thread was superseded, the token
\* its decoder polls is cancelled, although that token may belong to the
\* retained decoder of an older request (adopt_work_cancellation).
SupersededWorkIsCancelled ==
    \A t \in Threads :
        pc[t] = "decode" /\ mine[t] \in superseded => IsCancelled(using[t])

\* A request that nothing superseded is never answered "cancelled": the token
\* of the decoder left by an earlier, superseded request cannot leak into it.
OnlySupersededIsCancelled ==
    \A t \in Threads :
        result[t] = "cancelled" => mine[t] \in superseded
=============================================================================
