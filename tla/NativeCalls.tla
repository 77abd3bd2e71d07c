---- MODULE NativeCalls ----
(***************************************************************************)
(* The parts of the process that live in memory and are called from several *)
(* threads, and the decoder and the hashing of the source below them.      *)
(***************************************************************************)
EXTENDS RequestCalls, ClientCalls

CONSTANTS
    RamThreads, RamKeys, RamBudgets, RamSizes, MaxRamCalls,       \* SharedRamCache
    PreviewFrames, Edges, ByteLimits, FrameLimits,                \* ScrubPreviewCache
    ScrubThreads, Sessions, ScrubBudgets, MaxRetained, MaxScrubCalls,  \* ScrubPreviews
    Containers, MaxValue, MaxDecoders, MaxDecoderCalls            \* VideoDecoder

VARIABLES
    calls, answer,                                                \* of several components
    registration, live, owners, budgetOf,                         \* SharedRamCache
    cache,                                                        \* ScrubPreviewCache
    sessionLock, registryLock, retained, states, stateLock, budget, exact, nextToken, th,
                                                                  \* ScrubPreviews
    container, native, dimensions, decoder, handed, run           \* VideoDecoder

Ram == INSTANCE SharedRamCache WITH
    Threads <- RamThreads, Keys <- RamKeys, Budgets <- RamBudgets, Sizes <- RamSizes,
    MaxCalls <- MaxRamCalls
Previews == INSTANCE ScrubPreviewCache WITH Frames <- PreviewFrames
Scrub == INSTANCE ScrubPreviews WITH
    Threads <- ScrubThreads, Budgets <- ScrubBudgets, MaxCalls <- MaxScrubCalls
Decoder == INSTANCE VideoDecoder WITH MaxOpens <- MaxDecoders, MaxCalls <- MaxDecoderCalls

vars ==
    <<component, pc, calls, answer, opens, open, active, generation, cancelled, superseded, mine,
      registration, live, owners, budgetOf, cache, cursor, owner, using, result, navigations,
      sessionLock, registryLock, retained, states, stateLock, budget, exact, nextToken, th,
      tokens, next, aim, asked, existing, attempt, start, frame, emitted, clock, state, sampled,
      counted, session, snapshot, revision, nav, operation, stopped, ui, epoch, job, search, build, media, disk, container,
      native, dimensions, decoder, handed, run, file, seekable, reader, hashed, started, disturbed, opened>>

\* A variable that the chosen component does not have.
Idle ==
    /\ IF component \in {"Ram", "Prepare", "Tokens", "Decoder", "Identity"} THEN TRUE ELSE
         pc = 0
    /\ IF component \in {"Ram", "Scrub", "Decoder"} THEN TRUE ELSE calls = 0
    /\ IF component \in {"Previews", "Decoder"} THEN TRUE ELSE answer = 0
    /\ IF component \in {"Prepare", "Decoder"} THEN TRUE ELSE opens = 0
    /\ IF component \in {"Prepare", "Scrub"} THEN TRUE ELSE
         open = 0 /\ generation = 0 /\ superseded = 0
    /\ IF component \in {"Prepare", "Scrub", "Tokens"} THEN TRUE ELSE active = 0
    /\ IF component \in {"Prepare", "Scrub", "Decoder", "Identity"} THEN TRUE ELSE
         cancelled = 0
    /\ IF component \in {"Prepare", "Tokens"} THEN TRUE ELSE mine = 0
    /\ IF component \in {"Export", "Search"} THEN TRUE ELSE session = 0
    /\ IF component \in {"Ram"} THEN TRUE ELSE
         registration = 0 /\ live = 0 /\ owners = 0 /\ budgetOf = 0
    /\ IF component \in {"Previews"} THEN TRUE ELSE cache = 0
    /\ IF component \in {"Prepare"} THEN TRUE ELSE
         cursor = 0 /\ owner = 0 /\ using = 0 /\ result = 0 /\ navigations = 0
    /\ IF component \in {"Scrub"} THEN TRUE ELSE
         sessionLock = 0 /\ registryLock = 0 /\ retained = 0 /\ states = 0 /\
         stateLock = 0 /\ budget = 0 /\ exact = 0 /\ nextToken = 0 /\ th = 0
    /\ IF component \in {"Tokens"} THEN TRUE ELSE tokens = 0 /\ next = 0 /\ aim = 0 /\ asked = 0
    /\ IF component \in {"Progress"} THEN TRUE ELSE
         existing = 0 /\ attempt = 0 /\ start = 0 /\ frame = 0 /\ emitted = 0 /\
         clock = 0 /\ state = 0 /\ sampled = 0 /\ counted = 0
    /\ IF component \in {"Export"} THEN TRUE ELSE
         snapshot = 0 /\ revision = 0 /\ nav = 0 /\ operation = 0 /\
         stopped = 0 /\ ui = 0 /\ epoch = 0 /\ job = 0
    /\ IF component \in {"Search"} THEN TRUE ELSE
         search = 0 /\ build = 0 /\ media = 0 /\ disk = 0
    /\ IF component \in {"Decoder"} THEN TRUE ELSE
         container = 0 /\ native = 0 /\ dimensions = 0 /\ decoder = 0 /\ handed = 0 /\
         run = 0
    /\ IF component \in {"Identity"} THEN TRUE ELSE
         file = 0 /\ seekable = 0 /\ reader = 0 /\ hashed = 0 /\ started = 0 /\
         disturbed = 0 /\ opened = 0

Stays ==
    /\ IF component \in {"Ram", "Prepare", "Tokens", "Decoder", "Identity"} THEN TRUE ELSE
         UNCHANGED pc
    /\ IF component \in {"Ram", "Scrub", "Decoder"} THEN TRUE ELSE UNCHANGED calls
    /\ IF component \in {"Previews", "Decoder"} THEN TRUE ELSE UNCHANGED answer
    /\ IF component \in {"Prepare", "Decoder"} THEN TRUE ELSE UNCHANGED opens
    /\ IF component \in {"Prepare", "Scrub"} THEN TRUE ELSE
         UNCHANGED <<open, generation, superseded>>
    /\ IF component \in {"Prepare", "Scrub", "Tokens"} THEN TRUE ELSE UNCHANGED active
    /\ IF component \in {"Prepare", "Scrub", "Decoder", "Identity"} THEN TRUE ELSE
         UNCHANGED cancelled
    /\ IF component \in {"Prepare", "Tokens"} THEN TRUE ELSE UNCHANGED mine
    /\ IF component \in {"Export", "Search"} THEN TRUE ELSE UNCHANGED session
    /\ IF component \in {"Ram"} THEN TRUE ELSE
         UNCHANGED <<registration, live, owners, budgetOf>>
    /\ IF component \in {"Previews"} THEN TRUE ELSE UNCHANGED cache
    /\ IF component \in {"Prepare"} THEN TRUE ELSE
         UNCHANGED <<cursor, owner, using, result, navigations>>
    /\ IF component \in {"Scrub"} THEN TRUE ELSE
         UNCHANGED <<sessionLock, registryLock, retained, states, stateLock, budget, exact,
           nextToken, th>>
    /\ IF component \in {"Tokens"} THEN TRUE ELSE UNCHANGED <<tokens, next, aim, asked>>
    /\ IF component \in {"Progress"} THEN TRUE ELSE
         UNCHANGED <<existing, attempt, start, frame, emitted, clock, state, sampled, counted>>
    /\ IF component \in {"Export"} THEN TRUE ELSE
         UNCHANGED <<snapshot, revision, nav, operation, stopped, ui, epoch, job>>
    /\ IF component \in {"Search"} THEN TRUE ELSE UNCHANGED <<search, build, media, disk>>
    /\ IF component \in {"Decoder"} THEN TRUE ELSE
         UNCHANGED <<container, native, dimensions, decoder, handed, run>>
    /\ IF component \in {"Identity"} THEN TRUE ELSE
         UNCHANGED <<file, seekable, reader, hashed, started, disturbed, opened>>

Init ==
    /\ \/ component = "Ram" /\ Ram!Init
       \/ component = "Previews" /\ Previews!Init
       \/ component = "Prepare" /\ Prepare!Init
       \/ component = "Scrub" /\ Scrub!Init
       \/ component = "Tokens" /\ Tokens!Init
       \/ component = "Progress" /\ Progress!Init
       \/ component = "Export" /\ Export!Init
       \/ component = "Search" /\ Search!Init
       \/ component = "Decoder" /\ Decoder!Init
       \/ component = "Identity" /\ Identity!Init
    /\ Idle

Next ==
    /\ UNCHANGED component
    /\ \/ component = "Ram" /\ Ram!Next
       \/ component = "Previews" /\ Previews!Next
       \/ component = "Prepare" /\ Prepare!Next
       \/ component = "Scrub" /\ Scrub!Next
       \/ component = "Tokens" /\ Tokens!Next
       \/ component = "Progress" /\ Progress!Next
       \/ component = "Export" /\ Export!Next
       \/ component = "Search" /\ Search!Next
       \/ component = "Decoder" /\ Decoder!Next
       \/ component = "Identity" /\ Identity!Next
    /\ Stays

Spec == Init /\ [][Next]_vars

\* The running total of resident_bytes is exactly what the entries hold, and
\* never more than the ceiling in force, one entry per key: replacement, eviction, source
\* invalidation and live budget changes all keep it (frame_cache.rs).
AccountingIsExact == component = "Ram" => Ram!AccountingIsExact

\* A step that makes room (an insert or a smaller budget) never gives up a
\* frame while it keeps one that was used longer ago, and an insert that is
\* accepted never evicts the frame it has just taken in.
EvictsOldestFirst == [][component = "Ram" => Ram!MakesRoomFairly]_vars

\* The preview cache stays within both of its limits, and every request is
\* answered at its own size with an image that is neither empty nor sampled
\* outside its frame (ScrubPreviewCache::insert, preview_dimensions).
PreviewsFitRequest ==
    component = "Previews" =>
        Previews!WithinLimits /\ Previews!AnswerHasRequestedSize /\ Previews!PreviewShape

\* The preview caches together never hold more than the configured budget once
\* no configuration is under way: not while a state that left the registry is
\* still in the hands of a running preview, nor while a session is added
\* (rebalance_preview_cache_budgets, trim_removed_preview_state).
PreviewBytesBounded == component = "Scrub" => Scrub!PreviewBytesBounded

\* The barrier is never passed: while an exact navigation of a session is in
\* flight, a registered preview of it has a cancelled token, whichever of the
\* two came first (begin_exact_navigation, begin_preview_operation_with_token).
BarrierStopsPreviews == component = "Scrub" => Scrub!BarrierStopsPreviews

\* The three layers of the decoder agree: a snapshot shows the frame that was
\* handed out last, a scan misses and repeats no frame although the codec keeps
\* frames back and refuses packets, a reopened source yields the same stream,
\* and the cadence counts the intervals of one scan (engine.rs, shim).
DecoderIsFaithful ==
    component = "Decoder" =>
        /\ Decoder!SnapshotIsOfItsFrame /\ Decoder!ScanIsComplete
        /\ Decoder!ReopenFindsStream /\ Decoder!CadenceIsExact
====
