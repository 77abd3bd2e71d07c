------------------------ MODULE StorageAdministration ------------------------
(***************************************************************************)
(* The storage screen's view of the cache root: the index catalogue        *)
(* (framescope-cache/src/index_catalog.rs), the accounting and clearing of *)
(* the namespaces (framescope-cache/src/storage_admin.rs) and the bridge   *)
(* calls that guard them (framescope-ffi/src/storage_admin.rs).  A clear   *)
(* removes file by file under the session lifecycle lock; the catalogue    *)
(* takes no lock and reads a database with two separate queries while an   *)
(* indexing session may be writing it.  A similarity search may outlive    *)
(* its session and write on.                                               *)
(***************************************************************************)
EXTENDS Naturals, FiniteSets

CONSTANTS
    Sources,   \* safe source keys
    MaxRows,   \* frames of a video
    MaxCalls,  \* bound on sessions, clears and catalogue walks
    None

VARIABLES
    files,    \* files under the cache root
    index,    \* content of each source's index database of the current schema
    indexing, \* the source whose session is open, or None
    search,   \* the source a similarity search writes for, or None
    clear,    \* the destructive call in progress
    walk,     \* the catalogue call in progress
    calls     \* sessions, clears and walks begun

vars == <<files, index, indexing, search, clear, walk, calls>>

File(space, version, source, kind) ==
    [space |-> space, version |-> version, source |-> source, kind |-> kind]
Stream(version, s) == File("index", version, s, "stream")
Similar(s) == File("index", "current", s, "similar")
Proxy == File("proxy", "current", None, "proxy")
Scratch == File("other", "current", None, "scratch")
Scopes == {"proxy", "index", "other", "all"}
IsSource(scope) == scope \in Sources

(***************************************************************************)
(* An index database: the lifecycle and counts of index_meta, and the row  *)
(* numbers in frame_index.  A damaged one claims rows it does not have.    *)
(***************************************************************************)
Index(life, indexed, count, rows) ==
    [life |-> life, indexed |-> indexed, count |-> count, rows |-> rows]
Fresh == Index("building", 0, None, {})
Whole(n) == Index("complete", n, n, 0..(n - 1))
Damaged == Index("complete", MaxRows, MaxRows, 1..(MaxRows - 1))

Idle == [step |-> "idle", scope |-> None, todo |-> {}, before |-> {}, cleared |-> 0,
         total |-> 0, undisturbed |-> TRUE]
NoWalk == [step |-> "idle", seen |-> {}, listed |-> {}, found |-> [s \in Sources |-> None],
           file |-> None, meta |-> None, undisturbed |-> TRUE]

Init ==
    /\ \E old \in SUBSET Sources, now \in SUBSET Sources, rest \in {{}, {Proxy, Scratch}} :
          /\ files = {Stream("old", s) : s \in old} \cup {Stream("current", s) : s \in now} \cup rest
          /\ index \in [Sources -> {None, Whole(MaxRows), Damaged}]
          /\ \A s \in Sources : index[s] = None <=> s \notin now
    /\ indexing = None /\ search = None
    /\ clear = Idle /\ walk = NoWalk /\ calls = 0

\* History: a walk or a clear that runs while its files change says so.
Disturb(c, w) ==
    /\ clear' = IF c THEN [clear EXCEPT !.undisturbed = FALSE] ELSE clear
    /\ walk' = IF w THEN [walk EXCEPT !.undisturbed = FALSE] ELSE walk

(***************************************************************************)
(* The sessions that write.                                                *)
(***************************************************************************)

\* A session opens only outside the lifecycle lock; an unusable index is
\* replaced, a whole one is reused.
OpenSession(s) ==
    /\ indexing = None /\ clear.step = "idle" /\ calls < MaxCalls
    /\ indexing' = s /\ calls' = calls + 1
    /\ files' = files \cup {Stream("current", s)}
    /\ index' = [index EXCEPT ![s] =
          IF @ = None \/ @ = Damaged \/ @.life = "failed" THEN Fresh ELSE @]
    /\ Disturb(FALSE, TRUE)
    /\ UNCHANGED search

BuildStep(s, next) ==
    /\ indexing = s
    /\ index' = [index EXCEPT ![s] = next]
    /\ Disturb(FALSE, TRUE)
    /\ UNCHANGED <<files, indexing, search, calls>>

Build(s) ==
    LET i == index[s] IN
    /\ indexing = s /\ i.life \in {"building", "incomplete"}
    /\ \/ /\ i.indexed < MaxRows
          /\ BuildStep(s, Index("building", i.indexed + 1, None, i.rows \cup {i.indexed}))
       \/ BuildStep(s, Index("incomplete", i.indexed, None, i.rows))
       \/ BuildStep(s, Index("failed", i.indexed, None, i.rows))
       \/ BuildStep(s, Whole(i.indexed))

CloseSession ==
    /\ indexing # None
    /\ indexing' = None
    /\ search' \in {search, indexing}   \* a running search keeps its own context
    /\ UNCHANGED <<files, index, clear, walk, calls>>

WriteSimilar ==
    /\ search # None
    /\ files' = files \cup {Similar(search)}
    /\ search' = None
    /\ Disturb(TRUE, FALSE)
    /\ UNCHANGED <<index, indexing, calls>>

(***************************************************************************)
(* Clearing.                                                               *)
(***************************************************************************)

\* mutant: only the current schema's directory is visited
EntriesOfCurrent(scope) ==
    CASE scope = "all" -> files
      [] IsSource(scope) -> {f \in files : f.source = scope /\ f.version = "current"}
      [] OTHER -> {f \in files : f.space = scope}

\* mutant: the disposable scope skips only the index namespace
EntriesOfRest(scope) ==
    CASE scope = "all" -> files
      [] IsSource(scope) -> {f \in files : f.space = "index" /\ f.source = scope}
      [] scope = "other" -> {f \in files : f.space # "index"}
      [] OTHER -> {f \in files : f.space = scope}

\* The files a scope covers: one namespace, everything outside the two
\* namespaces, the whole root, or one source in every schema version.
Entries(scope) ==
    CASE scope = "all" -> files
      [] IsSource(scope) -> {f \in files : f.space = "index" /\ f.source = scope}
      [] scope = "other" -> {f \in files : f.space \notin {"index", "proxy"}}
      [] OTHER -> {f \in files : f.space = scope}

\* with_destructive_access: refused while a session is open.
BeginClear(scope) ==
    /\ clear.step \in {"idle", "answered"} /\ calls < MaxCalls
    /\ indexing = None
    /\ calls' = calls + 1
    /\ clear' = [Idle EXCEPT !.step = "remove", !.scope = scope, !.before = files,
                             !.todo = Entries(scope)]
    /\ UNCHANGED <<files, index, indexing, search, walk>>

\* remove_tree_without_following_symlinks: one file, counted when it was there.
RemoveFile(f) ==
    /\ clear.step = "remove" /\ f \in clear.todo
    /\ files' = files \ {f}
    /\ index' = [s \in Sources |-> IF f = Stream("current", s) THEN None ELSE index[s]]
    /\ clear' = [clear EXCEPT !.todo = @ \ {f}, !.cleared = @ + 1]
    /\ walk' = [walk EXCEPT !.undisturbed = FALSE]
    /\ UNCHANGED <<indexing, search, calls>>

\* The sum of the three categories of stats_unlocked.
Total ==
    Cardinality({f \in files : f.space = "index"}) + Cardinality({f \in files : f.space = "proxy"})
        + Cardinality({f \in files : f.space \notin {"index", "proxy"}})

AnswerClear ==
    /\ clear.step = "remove" /\ clear.todo = {}
    /\ clear' = [clear EXCEPT !.step = "answered", !.total = Total]
    /\ UNCHANGED <<files, index, indexing, search, walk, calls>>

LeaveClear ==
    /\ clear.step = "answered" /\ clear' = Idle
    /\ UNCHANGED <<files, index, indexing, search, walk, calls>>

\* The process dies: some files are gone, nothing else of a clear remains.
Crash ==
    /\ clear.step = "remove" \/ walk.step \in {"walk", "rows"}
    /\ clear' = Idle /\ walk' = NoWalk /\ indexing' = None /\ search' = None
    /\ UNCHANGED <<files, index, calls>>

(***************************************************************************)
(* The catalogue.                                                          *)
(***************************************************************************)

Databases == {f \in files : f.kind = "stream"}

BeginWalk ==
    /\ walk.step = "idle" /\ calls < MaxCalls
    /\ calls' = calls + 1
    /\ walk' = [NoWalk EXCEPT !.step = "walk", !.listed = Databases]
    /\ UNCHANGED <<files, index, indexing, search, clear>>

\* mutant: the first database met for a source is kept
MergedFirst(f, status) == IF walk.found[f.source] = None THEN status ELSE walk.found[f.source]
\* The current schema's descriptor replaces a legacy one, in either order.
Merged(f, status) ==
    IF walk.found[f.source] = None \/ f.version = "current" THEN status ELSE walk.found[f.source]

Described(f, status) ==
    walk' = [walk EXCEPT !.step = "walk", !.found[f.source] = Merged(f, status),
                         !.seen = @ \cup {f}, !.file = None, !.meta = None]

\* The next directory entry: a legacy database is stale unread; the metadata
\* of a current one is read.  A directory that vanished fails the whole call.
VisitDatabase(f) ==
    /\ walk.step = "walk" /\ f \in (Databases \cup walk.listed) \ walk.seen
    /\ \/ f \in files /\ f.version = "old" /\ Described(f, "stale")
       \/ /\ f \in files /\ f.version = "current"
          /\ walk' = [walk EXCEPT !.step = "rows", !.file = f, !.meta = index[f.source]]
       \/ /\ f \notin files
          /\ walk' \in {[walk EXCEPT !.seen = @ \cup {f}], [walk EXCEPT !.step = "failed"]}
    /\ UNCHANGED <<files, index, indexing, search, clear, calls>>

Contiguous(meta, rows) ==
    /\ Cardinality(rows) = meta.indexed
    /\ rows # {} => 0 \in rows /\ meta.indexed - 1 \in rows

Status(meta, rows) ==
    CASE ~Contiguous(meta, rows) -> "stale"
      [] meta.life \in {"building", "incomplete"} /\ meta.count = None -> "in_progress"
      [] meta.life = "complete" /\ meta.count = meta.indexed -> "indexed"
      [] OTHER -> "stale"

\* The second query; the database may have been written or removed between.
ReadRows ==
    /\ walk.step = "rows"
    /\ LET now == index[walk.file.source] IN
       Described(walk.file, IF now = None THEN "stale" ELSE Status(walk.meta, now.rows))
    /\ UNCHANGED <<files, index, indexing, search, clear, calls>>

\* A database created after its directory was read is missed.
AnswerWalk ==
    /\ walk.step = "walk" /\ walk.listed \subseteq walk.seen
    /\ walk' = [walk EXCEPT !.step = "answered"]
    /\ UNCHANGED <<files, index, indexing, search, clear, calls>>

LeaveWalk ==
    /\ walk.step \in {"answered", "failed"} /\ walk' = NoWalk
    /\ UNCHANGED <<files, index, indexing, search, clear, calls>>

Next ==
    \/ \E s \in Sources : OpenSession(s) \/ Build(s)
    \/ CloseSession \/ WriteSimilar
    \/ \E scope \in Scopes \cup Sources : BeginClear(scope)
    \/ \E f \in files : RemoveFile(f)
    \/ AnswerClear \/ LeaveClear \/ Crash
    \/ BeginWalk \/ \E f \in Databases \cup walk.listed : VisitDatabase(f)
    \/ ReadRows \/ AnswerWalk \/ LeaveWalk

Spec == Init /\ [][Next]_vars

(***************************************************************************)
(* Properties.                                                             *)
(***************************************************************************)

\* What a session that has the index open reports (session_index_binding).
BindingStatus(life) ==
    CASE life = "complete" -> "indexed"
      [] life = "failed" -> "stale"
      [] OTHER -> "in_progress"

\* The truth about a source; a damaged index is one that opening would replace.
Truth(s) ==
    CASE index[s] = None -> IF Stream("old", s) \in files THEN "stale" ELSE None
      [] index[s] = Damaged -> "stale"
      [] OTHER -> BindingStatus(index[s].life)

\* A catalogue answer taken while nothing was written or removed says of every
\* source what an open session would say of its index: legacy duplicates and
\* damaged databases never hide or imitate the current index, whatever the
\* order of the directory (entries, read_descriptor).
CatalogueTellsTruth ==
    walk.step = "answered" /\ walk.undisturbed =>
        \A s \in Sources : walk.found[s] = Truth(s)

\* A clear that no late search disturbed removed what it was asked for and
\* nothing else, and what it reports cleared and what it reports left add up
\* to what there was (clear_owned_path, stats_unlocked).
ClearAddsUp ==
    clear.step = "answered" /\ clear.undisturbed =>
        /\ clear.cleared + clear.total = Cardinality(clear.before)
        /\ clear.scope = "other" => \A f \in clear.before : f.kind # "scratch" => f \in files
        /\ clear.scope = "proxy" => \A f \in clear.before : f.kind # "proxy" => f \in files
        /\ clear.scope = "index" => ~\E f \in files : f.kind \in {"stream", "similar"}

\* After a source's index was cleared no database of it is left in any schema
\* version, also when an earlier clear died half-way or a similarity search
\* of the closed session writes on (clear_source_indexes).
ClearedSourceIsForgotten ==
    clear.step = "answered" /\ IsSource(clear.scope) =>
        ~\E f \in files : f.source = clear.scope /\ f.kind = "stream"
==============================================================================
