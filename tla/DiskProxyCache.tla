--------------------------- MODULE DiskProxyCache ---------------------------
(***************************************************************************)
(* DiskProxyCache: compressed previews in files below one directory.       *)
(* Every hierarchy opened on a root has a cache object (a handle) of its   *)
(* own, and all of them work on the same files, so a step here is one file *)
(* system operation or one listing.  The process may die between any two;  *)
(* files are also deleted or damaged from outside.                         *)
(*                                                                         *)
(* A file is its size, its modification time and whether its contents are  *)
(* partial (not yet flushed), whole or damaged (fails validate).           *)
(***************************************************************************)
EXTENDS Integers, Sequences, SequencesExt, FiniteSets, FiniteSetsExt, Functions

CONSTANTS
  Handles, Paths,   \* a path is [source, frame, format]
  Sizes, Budget,    \* budget_bytes, never more than MAX_PROXY_ENTRY_BYTES here
  MaxOps,           \* bound on operations, damages and crashes
  None

VARIABLES
  files,     \* committed entries: path -> [bytes, stamp, content]
  temps,     \* staged temporary files, by the handle that made them
  clock,     \* coarse file time: it need not advance between two writes
  pc, job,   \* a handle's step and the entry it works on
  left,      \* entries its eviction still has to visit
  total,     \* what its eviction believes is resident
  stats,     \* its resident_bytes and resident_files
  failed,    \* its last eviction could not remove a file
  alone,     \* nothing but one handle has touched the directory
  ops

vars == <<files, temps, clock, pc, job, left, total, stats, failed, alone, ops>>

NoStats == [bytes |-> 0, files |-> 0]
NoJob == [path |-> None, bytes |-> 0]

BytesOf(fs) == MapThenSumSet(LAMBDA p : fs[p].bytes, DOMAIN fs)

\* collect_proxy_files / resident_totals: what a listing of the directory adds up to
ResidentTotals(fs) == [bytes |-> BytesOf(fs), files |-> Cardinality(DOMAIN fs)]

Init ==
  /\ files = <<>> /\ temps = <<>> /\ clock = 0
  /\ pc = [h \in Handles |-> "closed"]
  /\ job = [h \in Handles |-> NoJob]
  /\ left = [h \in Handles |-> <<>>]
  /\ total = [h \in Handles |-> 0]
  /\ stats = [h \in Handles |-> NoStats]
  /\ failed = [h \in Handles |-> FALSE]
  /\ alone = TRUE /\ ops = 0

Op == ops < MaxOps /\ ops' = ops + 1
Goes(h, step) == pc' = [pc EXCEPT ![h] = step]
Unlink(fs, ps) == Restrict(fs, DOMAIN fs \ ps)
SaturatingSub(a, b) == IF a > b THEN a - b ELSE 0

CleanupTemporaryFiles == temps' = <<>>

\* open removes every temporary file, counts what is left and evicts
Open(h) ==
  /\ Op /\ pc[h] = "closed" /\ Goes(h, "list")
  /\ CleanupTemporaryFiles
  /\ stats' = [stats EXCEPT ![h] = ResidentTotals(files)]
  /\ alone' = (alone /\ \A g \in Handles \ {h} : pc[g] = "closed")
  /\ UNCHANGED <<files, clock, job, left, total, failed>>

Close(h) ==
  /\ pc[h] = "idle" /\ Goes(h, "closed")
  /\ stats' = [stats EXCEPT ![h] = NoStats]
  /\ UNCHANGED <<files, temps, clock, job, left, total, failed, alone, ops>>

\* evict_to_budget lists the files, oldest first; files of one age come in any order
Oldest(fs, order) ==
  \A i, j \in DOMAIN order : i < j => fs[order[i].path].stamp <= fs[order[j].path].stamp

Lists(h) ==
  /\ pc[h] = "list"
  /\ stats' = [stats EXCEPT ![h] = ResidentTotals(files)]
  /\ IF BytesOf(files) <= Budget
     THEN Goes(h, "idle") /\ failed' = [failed EXCEPT ![h] = FALSE] /\ UNCHANGED <<left, total>>
     ELSE /\ Goes(h, "evict") /\ UNCHANGED failed
          /\ total' = [total EXCEPT ![h] = BytesOf(files)]
          /\ \E order \in SetToSeqs({[path |-> p, bytes |-> files[p].bytes] : p \in DOMAIN files}) :
               Oldest(files, order) /\ left' = [left EXCEPT ![h] = order]
  /\ UNCHANGED <<files, temps, clock, job, alone, ops>>

\* mutant: stops one entry too early
EvictStopsEarly(h) == total[h] <= Budget + 1 \/ left[h] = <<>>

EvictDone(h) == total[h] <= Budget \/ left[h] = <<>>

\* one entry; one that another handle has removed already is counted off all the same
EvictRemoves(h) ==
  /\ pc[h] = "evict" /\ ~EvictDone(h)
  /\ files' = Unlink(files, {Head(left[h]).path})
  /\ total' = [total EXCEPT ![h] = SaturatingSub(@, Head(left[h]).bytes)]
  /\ stats' = [stats EXCEPT ![h].files = SaturatingSub(@, 1)]
  /\ left' = [left EXCEPT ![h] = Tail(@)]
  /\ UNCHANGED <<temps, clock, pc, job, failed, alone, ops>>

\* any other I/O error ends the eviction with the rest still there
EvictFails(h) ==
  /\ Op /\ pc[h] = "evict" /\ ~EvictDone(h)
  /\ Goes(h, "idle")
  /\ left' = [left EXCEPT ![h] = <<>>] /\ total' = [total EXCEPT ![h] = 0]
  /\ failed' = [failed EXCEPT ![h] = TRUE] /\ alone' = FALSE
  /\ UNCHANGED <<files, temps, clock, job, stats>>

EvictEnds(h) ==
  /\ pc[h] = "evict" /\ EvictDone(h)
  /\ Goes(h, "idle")
  /\ stats' = [stats EXCEPT ![h].bytes = total[h]]
  /\ left' = [left EXCEPT ![h] = <<>>] /\ total' = [total EXCEPT ![h] = 0]
  /\ failed' = [failed EXCEPT ![h] = FALSE]
  /\ UNCHANGED <<files, temps, clock, job, alone, ops>>

\* insert: TooLarge and AlreadyPresent change nothing
Stage(h, path, bytes) ==
  /\ Op /\ pc[h] = "idle" /\ bytes <= Budget /\ path \notin DOMAIN files
  /\ Goes(h, "write") /\ job' = [job EXCEPT ![h] = [path |-> path, bytes |-> bytes]]
  /\ temps' = temps @@ (h :> [bytes |-> bytes, stamp |-> clock, content |-> "partial"])
  /\ UNCHANGED <<files, clock, left, total, stats, failed, alone>>

\* mutant: the file is renamed into place without having been flushed
SyncSkipped(h) ==
  /\ pc[h] = "write" /\ Goes(h, "rename")
  /\ clock' \in {clock, clock + 1}
  /\ UNCHANGED <<files, temps, job, left, total, stats, failed, alone, ops>>

\* write_all and sync_all: the temporary file is complete and durable
Sync(h) ==
  /\ pc[h] = "write" /\ Goes(h, "rename")
  /\ temps' = IF h \in DOMAIN temps
              THEN [temps EXCEPT ![h].content = "whole", ![h].stamp = clock] ELSE temps
  /\ clock' \in {clock, clock + 1}
  /\ UNCHANGED <<files, job, left, total, stats, failed, alone, ops>>

\* rename, the counters of the new entry, and the eviction that follows
Rename(h) ==
  /\ pc[h] = "rename" /\ h \in DOMAIN temps
  /\ files' = (job[h].path :> temps[h]) @@ files
  /\ temps' = Unlink(temps, {h})
  /\ job' = [job EXCEPT ![h] = NoJob]
  /\ stats' = [stats EXCEPT ![h] = [bytes |-> @.bytes + job[h].bytes, files |-> @.files + 1]]
  /\ Goes(h, "list")
  /\ UNCHANGED <<clock, left, total, failed, alone, ops>>

\* mutant: the temporary file of a failed write is left behind
FailKeepsTemp(h) ==
  /\ pc[h] \in {"write", "rename"} /\ (h \notin DOMAIN temps \/ Op)
  /\ h \notin DOMAIN temps => pc[h] = "rename" /\ UNCHANGED ops
  /\ Goes(h, "idle") /\ job' = [job EXCEPT ![h] = NoJob]
  /\ UNCHANGED <<files, temps, clock, left, total, stats, failed, alone>>

\* an I/O error, or a rename whose file another handle's open has cleaned away
StagingFails(h) ==
  /\ pc[h] \in {"write", "rename"}
  /\ IF h \in DOMAIN temps THEN Op ELSE pc[h] = "rename" /\ UNCHANGED ops
  /\ Goes(h, "idle") /\ job' = [job EXCEPT ![h] = NoJob]
  /\ temps' = Unlink(temps, {h})
  /\ UNCHANGED <<files, clock, left, total, stats, failed, alone>>

\* get meets an entry it cannot use: too long for the budget, or not of its format
Unusable(path) == path \in DOMAIN files /\ (files[path].bytes > Budget \/ files[path].content # "whole")

GetMeetsUnusable(h, path) ==
  /\ Op /\ pc[h] = "idle" /\ Unusable(path)
  /\ Goes(h, "drop") /\ job' = [job EXCEPT ![h] = [path |-> path, bytes |-> files[path].bytes]]
  /\ UNCHANGED <<files, temps, clock, left, total, stats, failed, alone>>

\* mutant: invalidation does not count the files afresh
InvalidateKeepsStats(h, source) ==
  /\ Op /\ pc[h] = "idle"
  /\ files' = Unlink(files, {p \in DOMAIN files : p.source = source})
  /\ temps' = Unlink(temps, {g \in DOMAIN temps : job[g].path.source = source})
  /\ UNCHANGED <<clock, pc, job, left, total, stats, failed, alone>>

RemoveFileLen(path) == IF path \in DOMAIN files THEN files[path].bytes ELSE 0

\* remove_corrupt_entry: an empty file, or one already gone, is not counted off
DropCorrupt(h) ==
  /\ pc[h] = "drop" /\ Goes(h, "idle") /\ job' = [job EXCEPT ![h] = NoJob]
  /\ LET removed == RemoveFileLen(job[h].path)
     IN  stats' = [stats EXCEPT ![h] = [bytes |-> SaturatingSub(@.bytes, removed),
                                        files |-> IF removed > 0 THEN SaturatingSub(@.files, 1)
                                                  ELSE @.files]]
  /\ files' = Unlink(files, {job[h].path})
  /\ UNCHANGED <<temps, clock, left, total, failed, alone, ops>>

\* remove_dir_all of a source takes staged files along; totals are counted afresh
InvalidateSource(h, source) ==
  /\ Op /\ pc[h] = "idle"
  /\ files' = Unlink(files, {p \in DOMAIN files : p.source = source})
  /\ temps' = Unlink(temps, {g \in DOMAIN temps : job[g].path.source = source})
  /\ stats' = [stats EXCEPT ![h] = ResidentTotals(files')]
  /\ UNCHANGED <<clock, pc, job, left, total, failed, alone>>

Clear(h) ==
  /\ Op /\ pc[h] = "idle"
  /\ files' = <<>> /\ temps' = <<>>
  /\ stats' = [stats EXCEPT ![h] = NoStats]
  /\ UNCHANGED <<clock, pc, job, left, total, failed, alone>>

\* the world outside: a file is deleted, or truncated to nothing
Tamper(path) ==
  /\ Op /\ path \in DOMAIN files /\ alone' = FALSE
  /\ \/ files' = Unlink(files, {path})
     \/ files' = [files EXCEPT ![path].content = "damaged", ![path].bytes = 0]
  /\ UNCHANGED <<temps, clock, pc, job, left, total, stats, failed>>

\* the process dies: handles are lost, files and temporary files stay
Crash ==
  /\ Op /\ pc' = [h \in Handles |-> "closed"]
  /\ job' = [h \in Handles |-> NoJob] /\ left' = [h \in Handles |-> <<>>]
  /\ failed' = [h \in Handles |-> FALSE] /\ stats' = [h \in Handles |-> NoStats]
  /\ total' = [h \in Handles |-> 0]
  /\ UNCHANGED <<files, temps, clock, alone>>

Next ==
  \/ \E h \in Handles :
       \/ Open(h) \/ Close(h) \/ Lists(h) \/ EvictRemoves(h) \/ EvictFails(h) \/ EvictEnds(h)
       \/ Sync(h) \/ Rename(h) \/ StagingFails(h) \/ DropCorrupt(h) \/ Clear(h)
       \/ \E p \in Paths : GetMeetsUnusable(h, p) \/ InvalidateSource(h, p.source)
                           \/ \E b \in Sizes : Stage(h, p, b)
  \/ \E p \in Paths : Tamper(p)
  \/ Crash

Spec == Init /\ [][Next]_vars
----------------------------------------------------------------------------
\* A committed entry was flushed whole before it got its name: neither a crash
\* nor a second handle makes a partly written proxy visible ("Writes are staged
\* in the destination directory, flushed with sync_all, and atomically renamed").
NoTornEntry == \A p \in DOMAIN files : files[p].content # "partial"

\* When every open cache object is at rest and none of them had an eviction
\* fail, the files fit the budget, whatever the handles did to each other's
\* listings and however the process died before.
WithinBudgetAtRest ==
  (/\ \E h \in Handles : pc[h] # "closed"
   /\ \A h \in Handles : pc[h] \in {"closed", "idle", "drop"} /\ ~failed[h])
  => BytesOf(files) <= Budget

\* A temporary file belongs to an insert in progress, or the process has died
\* and nobody has opened the cache since: failed writes clean up after
\* themselves and open sweeps the rest.
TemporariesHaveAnOwner ==
  \A h \in DOMAIN temps : pc[h] \in {"write", "rename"} \/ \A g \in Handles : pc[g] = "closed"

\* As long as one object has the directory to itself, its running byte and
\* file counts are those of the directory whenever it is at rest.
StatsAreExactAlone ==
  \A h \in Handles : alone /\ pc[h] = "idle" => stats[h] = ResidentTotals(files)
=============================================================================
