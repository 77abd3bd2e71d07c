--------------------------- MODULE ScrubPreviews ---------------------------
(***************************************************************************)
(* Live scrub previews (framescope-ffi/src/scrub_handoff.rs).  Each        *)
(* session may retain a disposable preview state (a bounded preview cache  *)
(* and a decoder cursor) in a small LRU registry.  Previews, prefetches,   *)
(* exact navigation, close and budget changes run on native threads and    *)
(* meet at four kinds of mutex: the scrub registry, the preview states,    *)
(* the microscope sessions and the cancellation registry (held briefly, so *)
(* every use of it is one step).  The preview cache holds unit-size        *)
(* frames; a cancellation token is named by a number.                      *)
(***************************************************************************)
EXTENDS Integers, Sequences, FiniteSets, FiniteSetsExt, SequencesExt

CONSTANTS
    Threads, Sessions,  \* Sessions is a set of integers
    Budgets,            \* preview budgets that Android may configure
    MaxRetained,        \* MAX_RETAINED_PREVIEW_SESSIONS
    MaxCalls, None

VARIABLES
    open, sessionLock,            \* microscope sessions and their mutexes
    registryLock, retained,       \* SCRUB_REGISTRY: state ids, oldest first
    states, stateLock,            \* every ScrubSessionState ever made, and its mutex
    budget,                       \* PREVIEW_CACHE_BUDGET_BYTES
    active, exact,                \* PREVIEW_CANCELLATIONS, by session
    generation, cancelled, nextToken,
    superseded,                   \* history: previews replaced or overruled
    calls, th                     \* calls begun; the local state of each thread

locks == <<open, sessionLock, registryLock, stateLock>>
cancellations == <<active, exact, generation, cancelled, superseded>>
vars == <<locks, retained, states, budget, cancellations, nextToken, calls, th>>

Idle == [pc |-> "idle", op |-> "none", s |-> 0, st |-> 0, token |-> 0, gen |-> 0,
         late |-> FALSE]

Init ==
    /\ open = Sessions /\ sessionLock = [s \in Sessions |-> None]
    /\ registryLock = None /\ retained = <<>> /\ states = <<>> /\ stateLock = <<>>
    /\ budget \in Budgets
    /\ active = [s \in Sessions |-> None] /\ exact = [s \in Sessions |-> 0]
    /\ generation = 0 /\ cancelled = {} /\ nextToken = 1 /\ superseded = {}
    /\ calls = 0 /\ th = [t \in Threads |-> Idle]

At(t, pc) == th[t].pc = pc
Goto(t, pc) == th' = [th EXCEPT ![t].pc = pc]
Return(t) == th' = [th EXCEPT ![t] = Idle]
Aborted(t) == th[t].token \in cancelled
MyState(t) == states[th[t].st]

\* forget_session cancels the preview before it takes the registry mutex.
StartOf(op) == IF op = "forget" THEN "cancel" ELSE op

\* A call arrives on an idle thread.  A late one finds the barrier up.
Call(t, op, s) ==
    /\ At(t, "idle") /\ calls < MaxCalls
    /\ calls' = calls + 1
    /\ th' = [th EXCEPT ![t] = [Idle EXCEPT !.pc = StartOf(op), !.op = op, !.s = s,
                                            !.late = exact[s] > 0]]
    /\ UNCHANGED <<locks, retained, states, budget, cancellations, nextToken>>

(***************************************************************************)
(* The budget of the preview caches.                                       *)
(***************************************************************************)

\* ScrubPreviewCache::set_budget_bytes on the state with this id
WithBudget(state, share) ==
    [state EXCEPT !.budget = share, !.resident = Min({@, share})]

Share(total, ids, sts, id) ==
    LET earlier == {o \in ids : sts[o].session < sts[id].session}
    IN  total \div Cardinality(ids)
          + IF Cardinality(earlier) < total % Cardinality(ids) THEN 1 ELSE 0

\* Every retained state gets its share; the remainder goes to low session ids.
Rebalanced(total, seq, sts) ==
    [id \in DOMAIN sts |->
        IF id \in ToSet(seq) THEN WithBudget(sts[id], Share(total, ToSet(seq), sts, id))
                             ELSE sts[id]]

\* mutant: the cache of a removed state keeps its budget
RemovedUntrimmed(sts, id) == [sts EXCEPT ![id].cursor = None]

\* trim_removed_preview_state
Trimmed(sts, id) == [sts EXCEPT ![id] = [WithBudget(@, 0) EXCEPT !.cursor = None]]

StateOf(s) == {id \in ToSet(retained) : states[id].session = s}

(***************************************************************************)
(* Session lookups.  A handle is cloned first; the session mutex is taken  *)
(* later, when the session may already be closed.                          *)
(***************************************************************************)

NeedsSession == {"render", "prefetch", "source", "decode", "step"}
LockStep(pc) == CASE pc \in {"render", "prefetch"} -> "resolve"
                  [] pc = "source" -> "source_lock"
                  [] pc = "decode" -> "decode_lock"
                  [] pc = "step" -> "step_lock"

\* Failing before a guard exists returns; afterwards the guard is dropped.  A
\* prefetch returns at once when both RAM budgets are zero.
GetHandle(t) ==
    /\ th[t].pc \in NeedsSession
    /\ \/ At(t, "prefetch") /\ budget = 0 /\ Return(t)
       \/ IF th[t].s \in open THEN Goto(t, LockStep(th[t].pc))
          ELSE IF th[t].pc \in {"render", "prefetch"} THEN Return(t)
          ELSE Goto(t, IF th[t].pc = "step" THEN "exact_drop" ELSE "drop")
    /\ UNCHANGED <<locks, retained, states, budget, cancellations, nextToken, calls>>

\* The target is resolved under the session mutex, which is then released.
Resolve(t) ==
    /\ At(t, "resolve") /\ sessionLock[th[t].s] = None
    /\ Goto(t, "registry")
    /\ UNCHANGED <<locks, retained, states, budget, cancellations, nextToken, calls>>

LockSession(t, from, to) ==
    /\ At(t, from) /\ sessionLock[th[t].s] = None
    /\ sessionLock' = [sessionLock EXCEPT ![th[t].s] = t]
    /\ Goto(t, to)
    /\ UNCHANGED <<open, registryLock, stateLock, retained, states, budget,
                   cancellations, nextToken, calls>>

(***************************************************************************)
(* session_state: the retained state of the session, or a new one.         *)
(***************************************************************************)

\* Every user of the scrub registry takes its mutex first.
AfterRegistry(pc) == CASE pc = "registry" -> "state" [] pc = "forget" -> "unlink"
                       [] pc = "configure" -> "share"

LockRegistry(t) ==
    /\ th[t].pc \in {"registry", "forget", "configure"} /\ registryLock = None
    /\ registryLock' = t /\ Goto(t, AfterRegistry(th[t].pc))
    /\ UNCHANGED <<open, sessionLock, stateLock, retained, states, budget,
                   cancellations, nextToken, calls>>

Free(ids) == \A id \in ids : stateLock[id] = None
AfterState(t) == IF th[t].op = "prefetch" THEN "peek" ELSE "pick"

\* A known state becomes the most recent.
FindState(t) ==
    LET s == th[t].s IN
    /\ At(t, "state") /\ StateOf(s) # {} /\ Free(StateOf(s))
    /\ LET id == CHOOSE i \in StateOf(s) : TRUE IN
          /\ retained' = Append(SelectSeq(retained, LAMBDA i : i # id), id)
          /\ th' = [th EXCEPT ![t].pc = AfterState(t), ![t].st = id]
    /\ registryLock' = None
    /\ UNCHANGED <<open, sessionLock, stateLock, states, budget, cancellations,
                   nextToken, calls>>

\* The oldest states make room and are trimmed; the new one starts at zero.
CreateState(t) ==
    LET id == Len(states) + 1
        excess == Max({0, Len(retained) + 1 - MaxRetained})
        evicted == {retained[i] : i \in 1..excess}
        kept == Append(SubSeq(retained, excess + 1, Len(retained)), id)
        fresh == [session |-> th[t].s, budget |-> 0, resident |-> 0, cursor |-> None]
        trimmed == [i \in 1..id |-> IF i = id THEN fresh
                                    ELSE IF i \in evicted THEN Trimmed(states, i)[i]
                                    ELSE states[i]]
    IN
    /\ At(t, "state") /\ StateOf(th[t].s) = {} /\ Free(ToSet(retained))
    /\ states' = Rebalanced(budget, kept, trimmed)
    /\ retained' = kept /\ stateLock' = Append(stateLock, None)
    /\ th' = [th EXCEPT ![t].pc = AfterState(t), ![t].st = id]
    /\ registryLock' = None
    /\ UNCHANGED <<open, sessionLock, budget, cancellations, nextToken, calls>>

(***************************************************************************)
(* A preview or a prefetch, once it has its state.                         *)
(***************************************************************************)

\* A prefetch first looks in the preview cache, when there is a budget.
Peek(t) ==
    /\ At(t, "peek")
    /\ \/ budget > 0 /\ Free({th[t].st}) /\ MyState(t).resident > 0 /\ Return(t)
       \/ (budget > 0 => Free({th[t].st})) /\ Goto(t, "pick")
    /\ UNCHANGED <<locks, retained, states, budget, cancellations, nextToken, calls>>

\* mutant: the guard of the state lives on
PickTokenStillLocked(t) ==
    /\ At(t, "pick") /\ Free({th[t].st})
    /\ states' = [states EXCEPT ![th[t].st].cursor = None]
    /\ stateLock' = [stateLock EXCEPT ![th[t].st] = t]
    /\ th' = [th EXCEPT ![t].pc = "begin", ![t].token = nextToken]
    /\ nextToken' = nextToken + 1
    /\ UNCHANGED <<open, sessionLock, registryLock, retained, budget, cancellations, calls>>

\* cancellation_for_scrub_target: the token of a cursor that can reach the
\* target, or a new token and no cursor.
PickToken(t) ==
    /\ At(t, "pick") /\ Free({th[t].st})
    /\ \/ /\ MyState(t).cursor \notin cancelled \cup {None}
          /\ th' = [th EXCEPT ![t].pc = "begin", ![t].token = MyState(t).cursor]
          /\ UNCHANGED <<states, nextToken>>
       \/ /\ states' = [states EXCEPT ![th[t].st].cursor = None]
          /\ th' = [th EXCEPT ![t].pc = "begin", ![t].token = nextToken]
          /\ nextToken' = nextToken + 1
    /\ UNCHANGED <<locks, retained, budget, cancellations, calls>>

ActiveToken(s) == IF active[s] = None THEN {} ELSE {active[s].token}
ActiveGeneration(s) == IF active[s] = None THEN {} ELSE {active[s].gen}

Register(t) ==
    LET s == th[t].s IN
    /\ cancelled' = cancelled \cup ActiveToken(s)
    /\ superseded' = superseded \cup ActiveGeneration(s)
    /\ generation' = generation + 1
    /\ active' = [active EXCEPT ![s] = [gen |-> generation', token |-> th[t].token]]
    /\ th' = [th EXCEPT ![t].pc = "began", ![t].gen = generation']
    /\ UNCHANGED exact

\* mutant: the barrier is not looked at
BeginIgnoringBarrier(t) ==
    /\ At(t, "begin")
    /\ IF Aborted(t) THEN Return(t) /\ UNCHANGED cancellations ELSE Register(t)
    /\ UNCHANGED <<locks, retained, states, budget, nextToken, calls>>

\* begin_preview_operation_with_token
BeginPreview(t) ==
    /\ At(t, "begin")
    /\ IF Aborted(t) \/ exact[th[t].s] > 0
       THEN Return(t) /\ UNCHANGED cancellations
       ELSE Register(t)
    /\ UNCHANGED <<locks, retained, states, budget, nextToken, calls>>

\* ensure_not_cancelled, then the preview cache, for a render.
LookupPreview(t) ==
    /\ At(t, "began")
    /\ \/ Aborted(t) /\ Goto(t, "drop")
       \/ ~Aborted(t) /\ th[t].op = "prefetch" /\ Goto(t, "decode")
       \/ /\ ~Aborted(t) /\ th[t].op = "render" /\ Free({th[t].st})
          /\ \/ MyState(t).resident > 0 /\ Goto(t, "drop")
             \/ Goto(t, "source")
    /\ UNCHANGED <<locks, retained, states, budget, cancellations, nextToken, calls>>

\* source_quality_ram_hit, with the session mutex and then the state's.
SourceHit(t) ==
    /\ At(t, "source_state") /\ Free({th[t].st})
    /\ sessionLock' = [sessionLock EXCEPT ![th[t].s] = None]
    /\ \/ Goto(t, "insert")
       \/ Goto(t, "decode")
    /\ UNCHANGED <<open, registryLock, stateLock, retained, states, budget,
                   cancellations, nextToken, calls>>

\* The decoder runs with the session mutex and the state's mutex held.
LockState(t) ==
    /\ At(t, "decode_state")
    /\ \/ /\ Aborted(t) /\ Goto(t, "drop")
          /\ sessionLock' = [sessionLock EXCEPT ![th[t].s] = None]
          /\ UNCHANGED stateLock
       \/ /\ ~Aborted(t) /\ Free({th[t].st}) /\ Goto(t, "decoding")
          /\ stateLock' = [stateLock EXCEPT ![th[t].st] = t]
          /\ UNCHANGED sessionLock
    /\ UNCHANGED <<open, registryLock, retained, states, budget, cancellations,
                   nextToken, calls>>

\* The frame is reached and the cursor kept, or the decoder is interrupted
\* (or fails) and the cursor dropped.  A prefetch may hit the source cache and
\* leave the cursor alone.
DecodeEnds(t) ==
    /\ At(t, "decoding")
    /\ \/ /\ states' = [states EXCEPT ![th[t].st].cursor = th[t].token]
          /\ Goto(t, "insert")
       \/ /\ states' = [states EXCEPT ![th[t].st].cursor = None]
          /\ Goto(t, "drop")
       \/ /\ th[t].op = "prefetch" /\ Goto(t, "insert") /\ UNCHANGED states
    /\ sessionLock' = [sessionLock EXCEPT ![th[t].s] = None]
    /\ stateLock' = [stateLock EXCEPT ![th[t].st] = None]
    /\ UNCHANGED <<open, registryLock, retained, budget, cancellations, nextToken, calls>>

Inserted(state) ==
    IF state.budget = 0 THEN state
    ELSE [state EXCEPT !.resident = Min({@ + 1, state.budget})]

\* The preview is kept in the state's cache unless the call was cancelled
\* (or, for a prefetch, previews are switched off).
InsertPreview(t) ==
    /\ At(t, "insert") /\ Goto(t, "drop")
    /\ IF Aborted(t) \/ (th[t].op = "prefetch" /\ budget = 0)
       THEN UNCHANGED states
       ELSE Free({th[t].st}) /\ states' = [states EXCEPT ![th[t].st] = Inserted(@)]
    /\ UNCHANGED <<locks, retained, budget, cancellations, nextToken, calls>>

\* Drop for PreviewOperationGuard
DropPreview(t) ==
    LET s == th[t].s IN
    /\ At(t, "drop") /\ Return(t)
    /\ active' = IF ActiveGeneration(s) = {th[t].gen} THEN [active EXCEPT ![s] = None]
                 ELSE active
    /\ UNCHANGED <<locks, retained, states, budget, exact, generation, cancelled,
                   superseded, nextToken, calls>>

(***************************************************************************)
(* Exact navigation, cancellation, close and configuration.                *)
(***************************************************************************)

\* begin_exact_navigation: the barrier goes up and the active preview stops.
BeginExact(t) ==
    LET s == th[t].s IN
    /\ th[t].pc \in {"exact", "close"}
    /\ exact' = [exact EXCEPT ![s] = @ + 1]
    /\ cancelled' = cancelled \cup ActiveToken(s)
    /\ superseded' = superseded \cup ActiveGeneration(s)
    /\ Goto(t, IF At(t, "exact") THEN "step" ELSE "closing")
    /\ UNCHANGED <<locks, retained, states, budget, active, generation, nextToken, calls>>

StepEnds(t) ==
    /\ At(t, "stepping") /\ Goto(t, "exact_drop")
    /\ sessionLock' = [sessionLock EXCEPT ![th[t].s] = None]
    /\ UNCHANGED <<open, registryLock, stateLock, retained, states, budget,
                   cancellations, nextToken, calls>>

\* Drop for ExactNavigationGuard
DropExact(t) ==
    /\ At(t, "exact_drop") /\ Return(t)
    /\ exact' = [exact EXCEPT ![th[t].s] = Max({0, @ - 1})]
    /\ UNCHANGED <<locks, retained, states, budget, active, generation, cancelled,
                   superseded, nextToken, calls>>

CloseSession(t) ==
    /\ At(t, "closing")
    /\ open' = open \ {th[t].s}
    /\ Goto(t, IF th[t].s \in open THEN "cancel" ELSE "exact_drop")
    /\ UNCHANGED <<sessionLock, registryLock, stateLock, retained, states, budget,
                   cancellations, nextToken, calls>>

\* cancel_session_preview, which forget_session calls first
CancelPreview(t) ==
    LET s == th[t].s IN
    /\ At(t, "cancel")
    /\ cancelled' = cancelled \cup ActiveToken(s)
    /\ superseded' = superseded \cup ActiveGeneration(s)
    /\ IF th[t].op = "cancel" THEN Return(t) ELSE Goto(t, "forget")
    /\ UNCHANGED <<locks, retained, states, budget, active, exact, generation,
                   nextToken, calls>>

\* forget_session, with the registry mutex held
Forget(t) ==
    LET kept == SelectSeq(retained, LAMBDA i : states[i].session # th[t].s)
        gone == StateOf(th[t].s)
    IN
    /\ At(t, "unlink") /\ (gone # {} => Free(ToSet(retained)))
    /\ retained' = kept
    /\ states' = IF gone = {} THEN states
                 ELSE Rebalanced(budget, kept, Trimmed(states, CHOOSE i \in gone : TRUE))
    /\ registryLock' = None /\ Goto(t, "forgotten")
    /\ UNCHANGED <<open, sessionLock, stateLock, budget, cancellations, nextToken, calls>>

\* forget_session_after_close empties the cancellation registry as well.
ForgetAfterClose(t) ==
    LET s == th[t].s IN
    /\ At(t, "forgotten")
    /\ IF th[t].op = "close"
       THEN /\ cancelled' = cancelled \cup ActiveToken(s)
            /\ superseded' = superseded \cup ActiveGeneration(s)
            /\ active' = [active EXCEPT ![s] = None]
            /\ exact' = [exact EXCEPT ![s] = 0]
            /\ Goto(t, "exact_drop")
       ELSE Return(t) /\ UNCHANGED <<cancelled, superseded, active, exact>>
    /\ UNCHANGED <<locks, retained, states, budget, generation, nextToken, calls>>

\* configure_ram_budgets: the total is published, then shared out.
Configure(t) ==
    /\ At(t, "budget")
    /\ budget' \in Budgets /\ Goto(t, "configure")
    /\ UNCHANGED <<locks, retained, states, cancellations, nextToken, calls>>

ShareOut(t) ==
    /\ At(t, "share") /\ Free(ToSet(retained))
    /\ \E clearCursors \in BOOLEAN :
          states' = LET shared == Rebalanced(budget, retained, states) IN
             IF clearCursors
             THEN [i \in DOMAIN shared |-> IF i \in ToSet(retained)
                     THEN [shared[i] EXCEPT !.cursor = None] ELSE shared[i]]
             ELSE shared
    /\ registryLock' = None /\ Return(t)
    /\ UNCHANGED <<open, sessionLock, stateLock, retained, budget, cancellations,
                   nextToken, calls>>

Ops == {"render", "prefetch", "exact", "close", "cancel", "forget", "budget"}

PreviewStep(t) ==
    \/ GetHandle(t) \/ Resolve(t) \/ LockRegistry(t) \/ FindState(t) \/ CreateState(t)
    \/ Peek(t) \/ PickToken(t) \/ BeginPreview(t) \/ LookupPreview(t) \/ SourceHit(t)
    \/ LockSession(t, "source_lock", "source_state")
    \/ LockSession(t, "decode_lock", "decode_state")
    \/ LockState(t) \/ DecodeEnds(t) \/ InsertPreview(t) \/ DropPreview(t)

ControlStep(t) ==
    \/ BeginExact(t) \/ LockSession(t, "step_lock", "stepping") \/ StepEnds(t)
    \/ DropExact(t) \/ CloseSession(t) \/ CancelPreview(t) \/ Forget(t)
    \/ ForgetAfterClose(t) \/ Configure(t) \/ ShareOut(t)

Next ==
    \E t \in Threads :
        \/ \E op \in Ops, s \in Sessions : Call(t, op, s)
        \/ PreviewStep(t)
        \/ ControlStep(t)

Spec == Init /\ [][Next]_vars

\* Threads are scheduled.
FairSpec == Spec /\ \A t \in Threads : WF_vars(PreviewStep(t) \/ ControlStep(t))

(***************************************************************************)
(* Properties.                                                             *)
(***************************************************************************)

Working(ops) == {t \in Threads : th[t].op \in ops}

\* The preview caches together never hold more than the configured budget once
\* no configuration is under way: not while a state that left the registry is
\* still in the hands of a running preview, nor while a session is added
\* (rebalance_preview_cache_budgets, trim_removed_preview_state).
PreviewBytesBounded ==
    Working({"budget"}) = {} =>
        MapThenSumSet(LAMBDA i : states[i].resident, DOMAIN states) <= budget

\* The barrier is never passed: while an exact navigation of a session is in
\* flight, a registered preview of it has a cancelled token, whichever of the
\* two came first (begin_exact_navigation, begin_preview_operation_with_token).
BarrierStopsPreviews ==
    \A s \in Sessions :
        exact[s] > 0 /\ active[s] # None => active[s].token \in cancelled

\* Every call returns: the mutexes are taken in an order without a cycle.
CallsReturn ==
    \A t \in Threads : ~At(t, "idle") ~> At(t, "idle")

\* "a preview arriving after this point observes the barrier and exits before
\* it can wait on the authoritative microscope session lock": no preview that
\* arrives while the barrier is up waits for a session mutex somebody holds.
LatePreviewNeverWaits ==
    \A t \in Threads :
        th[t].late /\ exact[th[t].s] > 0 /\ At(t, "resolve") =>
            sessionLock[th[t].s] = None

\* A preview that just registered is not cancelled unless something newer
\* overruled it: "assert!(!second.is_cancelled())".
NewestPreviewIsAlive ==
    \A t \in Threads :
        At(t, "began") /\ Aborted(t) => th[t].gen \in superseded

\* "Drops disposable per-session scrub caches after the authoritative session
\* has closed": when no call is running, a closed session retains no state.
ClosedSessionRetainsNothing ==
    (\A t \in Threads : At(t, "idle")) =>
        \A i \in ToSet(retained) : states[i].session \in open
=============================================================================
