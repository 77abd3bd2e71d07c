--------------------------- MODULE OperationTokens ---------------------------
(***************************************************************************)
(* The process-wide cancellation registry of similarity searches           *)
(* (framescope-ffi, presentation_handoff/global_similarity.rs; lib.rs has  *)
(* one like it, which makes room less carefully) and the                   *)
(* repository that uses it.  One coroutine at a time owns the active       *)
(* operation; the main thread cancels it by id, possibly before the native *)
(* call has started and possibly after it has ended.                       *)
(***************************************************************************)
EXTENDS Naturals, FiniteSets

CONSTANTS
  Capacity,    \* MAX_SIMILARITY_OPERATIONS
  MaxId        \* bound on the number of operations

VARIABLES
  tokens,      \* operation id -> is its token cancelled?
  next,        \* nextOperationId
  active,      \* activeOperationId, 0 for none
  pc,          \* where the coroutine is: "idle", "start", "running", "ended"
  mine,        \* the id of the coroutine's operation
  aim,         \* the id the main thread has read and is about to cancel
  asked        \* ids whose cancellation was accepted before they ended

vars == <<tokens, next, active, pc, mine, aim, asked>>

Ids == 1 .. MaxId

(***************************************************************************)
(* The registry; every operation below holds its mutex throughout.         *)
(***************************************************************************)

With(map, id, value) ==
  [i \in DOMAIN map \cup {id} |-> IF i = id THEN value ELSE map[i]]
Without(map, ids) == [i \in DOMAIN map \ ids |-> map[i]]

Crowded(map, id) == Cardinality(DOMAIN map) >= Capacity /\ id \notin DOMAIN map

\* mutant: room is made whether or not the id is known already
PrunedAlways(map, id) ==
  IF Cardinality(DOMAIN map) >= Capacity THEN Without(map, {i \in DOMAIN map : map[i]}) ELSE map

\* cancelled tokens make room for an id that is not there yet
Pruned(map, id) ==
  IF Crowded(map, id) THEN Without(map, {i \in DOMAIN map : map[i]}) ELSE map

\* operation_token: the token an earlier cancellation left, or a new one
OperationToken ==
  /\ pc = "start"
  /\ LET pruned == Pruned(tokens, mine)
     IN  IF Crowded(pruned, mine)
         THEN tokens' = pruned /\ pc' = "ended"
         ELSE /\ tokens' = With(pruned, mine, mine \in DOMAIN pruned /\ pruned[mine])
              /\ pc' = "running"
  /\ UNCHANGED <<next, active, mine, aim, asked>>

\* SimilarityOperation::drop
Drop ==
  /\ pc = "running" /\ pc' = "ended"
  /\ tokens' = Without(tokens, {mine})
  /\ UNCHANGED <<next, active, mine, aim, asked>>

\* cancel_similarity_operation; "asked" remembers what was answered true
Cancel ==
  /\ aim # 0 /\ aim' = 0
  /\ LET pruned == Pruned(tokens, aim)
     IN  IF Crowded(pruned, aim)
         THEN tokens' = pruned /\ UNCHANGED asked
         ELSE /\ tokens' = With(pruned, aim, TRUE)
              /\ asked' = IF aim = mine /\ pc \in {"start", "running"} THEN asked \cup {aim} ELSE asked
  /\ UNCHANGED <<next, active, pc, mine>>

(***************************************************************************)
(* MicroscopeSimilarityRepository.                                         *)
(***************************************************************************)

\* allocateOperationId, then the compare-and-set of activeOperationId
FindSimilarFrames ==
  /\ pc = "idle" /\ next \in Ids
  /\ next' = next + 1 /\ mine' = next /\ active' = next /\ pc' = "start"
  /\ UNCHANGED <<tokens, aim, asked>>

\* ensureActive throws before the native call
Abandon ==
  /\ pc = "start" /\ pc' = "ended"
  /\ UNCHANGED <<tokens, next, active, mine, aim, asked>>

\* finally: the compare-and-set back
Finally ==
  /\ pc = "ended" /\ pc' = "idle"
  /\ active' = IF active = mine THEN 0 ELSE active
  /\ UNCHANGED <<tokens, next, mine, aim, asked>>

\* cancelActiveSearch, on the main thread: read, then call
ReadActive ==
  /\ aim = 0 /\ active # 0 /\ aim' = active
  /\ UNCHANGED <<tokens, next, active, pc, mine, asked>>

Init ==
  /\ tokens = [i \in {} |-> FALSE] /\ next = 1 /\ active = 0
  /\ pc = "idle" /\ mine = 0 /\ aim = 0 /\ asked = {}

Next ==
  \/ FindSimilarFrames \/ Abandon \/ OperationToken \/ Drop \/ Finally
  \/ ReadActive \/ Cancel

Spec == Init /\ [][Next]_vars

(***************************************************************************)
(* Properties.                                                             *)
(***************************************************************************)

\* A cancellation that cancel_similarity_operation accepted is what the
\* operation sees: neither the late cancellations of ended operations, which
\* stay in the registry, nor the pruning they force lose it, whether the
\* native call has started or not.
AcceptedCancelIsSeen ==
  /\ pc = "start" /\ mine \in asked => mine \in DOMAIN tokens /\ tokens[mine]
  /\ pc = "running" => mine \in DOMAIN tokens /\ (tokens[mine] <=> mine \in asked)

==============================================================================
