---- MODULE RequestCalls ----
(***************************************************************************)
(* Requests that a later call may overtake or cancel: frame preparations,  *)
(* similarity operations and the hashing of a source that is opened.       *)
(***************************************************************************)
EXTENDS SuiteState

CONSTANTS
    PrepareThreads, MaxGeneration, MaxNavigations,                \* FramePreparation
    Capacity, MaxId,                                              \* OperationTokens
    Files, Chunk, MaxReaders                                      \* SourceIdentity

\* None is a variant of its own: no thread, and no entry of a registry.
ASSUME NoneIsApart == None \notin PrepareThreads /\ None \notin [generation : Nat, work : Nat]

\* A source is a sequence of bytes.
ASSUME FilesAssumption ==
    /\ Files \subseteq Seq(Nat) /\ Chunk \in Nat
    /\ None \notin Nat /\ None \notin Seq(Nat)

VARIABLES
    pc, active, mine, cancelled,                                  \* of several components
    opens, open, generation, superseded, cursor, owner, using, result, navigations,
                                                                  \* FramePreparation
    tokens, next, aim, asked,                                     \* OperationTokens
    file, seekable, reader, hashed, started, disturbed, opened    \* SourceIdentity

Prepare == INSTANCE FramePreparation WITH Threads <- PrepareThreads
Tokens == INSTANCE OperationTokens
Identity == INSTANCE SourceIdentity WITH MaxOpens <- MaxReaders

\* A later preparation, step, jump or close reaches the decoder that is
\* running: whenever the request of a decoding thread was superseded, the token
\* its decoder polls is cancelled, although that token may belong to the
\* retained decoder of an older request (adopt_work_cancellation); and a request
\* that nothing superseded is never answered "cancelled" by such a token.
CancellationIsExact ==
    component = "Prepare" =>
        Prepare!SupersededWorkIsCancelled /\ Prepare!OnlySupersededIsCancelled

\* A cancellation that cancel_similarity_operation accepted is what the
\* operation sees: neither the late cancellations of ended operations, which
\* stay in the registry, nor the pruning they force lose it, whether the
\* native call has started or not.
AcceptedCancelIsSeen == component = "Tokens" => Tokens!AcceptedCancelIsSeen

\* A reusable identity stands for a whole source although reads are short, the
\* source is rewritten while it is hashed or the call is cancelled, and two
\* sources share a stored index only if they are equal (identity.rs).
IdentityIsSound ==
    component = "Identity" => Identity!ReuseSafeIsWhole /\ Identity!PathsTellSourcesApart
====
