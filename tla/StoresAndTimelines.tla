---- MODULE StoresAndTimelines ----
(***************************************************************************)
(* The stores on disk and the algorithms over a complete index.  They      *)
(* share no state, so a behaviour is one of one component: the one chosen  *)
(* initially owns the variables it names, and those of the others stay 0.  *)
(***************************************************************************)
EXTENDS Stores, TimelineQueries

CONSTANTS
    DiskHandles, Paths, DiskSizes, Budget, MaxOps,                      \* DiskProxyCache
    Sources, MaxRows, MaxCalls,                                         \* StorageAdministration
    Hashes, Tones, GroupHashDistance, MinimumSimilarity, GroupScale, MaxFrames,  \* Grouping
    Colours, PictureSizes, Side, HashSide, BandBits, Unit, Insets, Radius, Minimum,
    MaxHashDistance, MinimumConfirmation                                \* SimilarityMetrics

VARIABLES
    files, left,                                                        \* of several components
    temps, clock, pc, job, total, stats, failed, alone, ops,                \* DiskProxyCache
    search, indexing, clear, walk, calls,                                      \* StorageAdministration
    session, engine, timeline, active, groups,                                 \* Grouping
    right                                                               \* SimilarityMetrics

Disk == INSTANCE DiskProxyCache WITH Handles <- DiskHandles, Sizes <- DiskSizes
Storage == INSTANCE StorageAdministration
Grouper == INSTANCE Grouping WITH MaxHashDistance <- GroupHashDistance, Scale <- GroupScale
Metrics == INSTANCE SimilarityMetrics WITH Sizes <- PictureSizes

vars ==
    <<component, files, left, session, search, index, rows, temps, clock, pc, job, total,
      stats, failed, alone, ops, authority, generation, file, handle, snapshot, cuts, inodes,
      names, run, indexing, clear, walk, calls, source, indexed,
      reusable, cursor, ram, proxies, answer, current, last, request, plan, next, emitted,
      engine, timeline, active, groups, right>>

\* The variables that the chosen component does not have.
Idle ==
    /\ IF component \in {"Disk", "Storage"} THEN TRUE ELSE files = 0
    /\ IF component \in {"Disk", "Metrics"} THEN TRUE ELSE left = 0
    /\ IF component \in {"Storage", "Present"} THEN TRUE ELSE index = 0
    /\ IF component \in {"Jump", "Plan"} THEN TRUE ELSE rows = 0
    /\ IF component \in {"Disk"} THEN TRUE ELSE
         temps = 0 /\ clock = 0 /\ pc = 0 /\ job = 0 /\ total = 0 /\ stats = 0 /\
         failed = 0 /\ alone = 0 /\ ops = 0
    /\ IF component \in {"Companion"} THEN TRUE ELSE
         authority = 0 /\ generation = 0 /\ file = 0 /\ handle = 0 /\ snapshot = 0
    /\ IF component \in {"Groups"} THEN TRUE ELSE cuts = 0 /\ inodes = 0 /\ names = 0 /\ run = 0
    /\ IF component \in {"Storage"} THEN TRUE ELSE
         search = 0 /\ indexing = 0 /\ clear = 0 /\ walk = 0 /\ calls = 0
    /\ IF component \in {"Present"} THEN TRUE ELSE
         source = 0 /\ indexed = 0 /\ reusable = 0 /\ cursor = 0 /\ ram = 0 /\ proxies = 0 /\
         answer = 0
    /\ IF component \in {"Jump"} THEN TRUE ELSE current = 0 /\ last = 0
    /\ IF component \in {"Plan"} THEN TRUE ELSE
         request = 0 /\ plan = 0 /\ next = 0 /\ emitted = 0
    /\ IF component \in {"Grouper"} THEN TRUE ELSE
         session = 0 /\ engine = 0 /\ timeline = 0 /\ active = 0 /\ groups = 0
    /\ IF component \in {"Metrics"} THEN TRUE ELSE right = 0

Stays ==
    /\ IF component \in {"Disk", "Storage"} THEN TRUE ELSE UNCHANGED files
    /\ IF component \in {"Disk", "Metrics"} THEN TRUE ELSE UNCHANGED left
    /\ IF component \in {"Storage", "Present"} THEN TRUE ELSE UNCHANGED index
    /\ IF component \in {"Jump", "Plan"} THEN TRUE ELSE UNCHANGED rows
    /\ IF component \in {"Disk"} THEN TRUE ELSE
         UNCHANGED <<temps, clock, pc, job, total, stats, failed, alone, ops>>
    /\ IF component \in {"Companion"} THEN TRUE ELSE
         UNCHANGED <<authority, generation, file, handle, snapshot>>
    /\ IF component \in {"Groups"} THEN TRUE ELSE UNCHANGED <<cuts, inodes, names, run>>
    /\ IF component \in {"Storage"} THEN TRUE ELSE UNCHANGED <<search, indexing, clear, walk, calls>>
    /\ IF component \in {"Present"} THEN TRUE ELSE
         UNCHANGED <<source, indexed, reusable, cursor, ram, proxies, answer>>
    /\ IF component \in {"Jump"} THEN TRUE ELSE UNCHANGED <<current, last>>
    /\ IF component \in {"Plan"} THEN TRUE ELSE UNCHANGED <<request, plan, next, emitted>>
    /\ IF component \in {"Grouper"} THEN TRUE ELSE
         UNCHANGED <<session, engine, timeline, active, groups>>
    /\ IF component \in {"Metrics"} THEN TRUE ELSE UNCHANGED right

Init ==
    /\ \/ component = "Disk" /\ Disk!Init
       \/ component = "Companion" /\ Companion!Init
       \/ component = "Groups" /\ Groups!Init
       \/ component = "Storage" /\ Storage!Init
       \/ component = "Present" /\ Present!Init
       \/ component = "Jump" /\ Jump!Init
       \/ component = "Plan" /\ Plan!Init
       \/ component = "Grouper" /\ Grouper!Init
       \/ component = "Metrics" /\ Metrics!Init
    /\ Idle

Next ==
    /\ UNCHANGED component
    /\ \/ component = "Disk" /\ Disk!Next
       \/ component = "Companion" /\ Companion!Next
       \/ component = "Groups" /\ Groups!Next
       \/ component = "Storage" /\ Storage!Next
       \/ component = "Present" /\ Present!Next
       \/ component = "Jump" /\ Jump!Next
       \/ component = "Plan" /\ Plan!Next
       \/ component = "Grouper" /\ Grouper!Next
       \/ component = "Metrics" /\ Metrics!Next
    /\ Stays

Spec == Init /\ [][Next]_vars

\* No crash, failed write or second owner of the directory leaves a truncated
\* proxy under its final name, or a temporary file that nobody will remove.
EntriesAreWhole ==
    component = "Disk" => Disk!NoTornEntry /\ Disk!TemporariesHaveAnOwner

\* When the last eviction is over the directory is within its budget although
\* every owner worked from its own listing, and the counts of an owner that has
\* the directory to itself are the directory's.
BudgetIsKept ==
    component = "Disk" => Disk!WithinBudgetAtRest /\ Disk!StatsAreExactAlone

\* A catalogue answer taken while nothing was written or removed says of every
\* source what an open session would say of its index: legacy duplicates and
\* damaged databases never hide or imitate the current index, whatever the
\* order of the directory (entries, read_descriptor).
CatalogueTellsTruth == component = "Storage" => Storage!CatalogueTellsTruth

\* A clear reports what it removed, removes what it was asked for and nothing
\* else, and a cleared source stays forgotten although an earlier clear died
\* half-way or a search of its closed session writes on.
ClearIsExact ==
    component = "Storage" => Storage!ClearAddsUp /\ Storage!ClearedSourceIsForgotten

\* The groups are the processed frames cut into runs, none lost or repeated
\* after an error or a cancellation; each member was accepted against the first
\* frame of its group, and navigation finds the group of every frame.
GroupsPartitionTimeline ==
    component = "Grouper" => Grouper!GroupsAreAlike /\ Grouper!GroupsCoverTimeline

\* If one frame is found from another, the other is found from it, and no
\* sample of a picture, however small, lies outside it.
SearchIsMutual ==
    component = "Metrics" => Metrics!SamplesStayInside /\ Metrics!SearchIsMutual
====
