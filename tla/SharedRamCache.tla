--------------------------- MODULE SharedRamCache ---------------------------
(***************************************************************************)
(* The process-wide registry of RAM caches (hierarchy.rs).  Hierarchies    *)
(* opened on one root share one cache; the registry holds it weakly, with  *)
(* the budget it should have.  Opening and configuring take the registry   *)
(* lock and then, after releasing it, the cache's own lock, so each is two *)
(* steps of its thread.  One root is modelled: entries of different roots  *)
(* do not meet.                                                            *)
(***************************************************************************)
EXTENDS Integers, Sequences, SequencesExt, FiniteSets

CONSTANTS
  Threads, Keys, Budgets,
  Sizes,     \* bytes of a decoded frame
  MaxCalls,  \* bound on the calls a behaviour makes
  None

VARIABLES
  registration,  \* [desired, explicit] of the root, or None
  live,          \* the cache some hierarchy or call still owns, or None
  owners,        \* threads that hold a strong reference
  pc, budgetOf,  \* a thread's step, and the budget it is about to apply
  calls

vars == <<registration, live, owners, pc, budgetOf, calls>>

(***************************************************************************)
(* RamFrameCache (frame_cache.rs): the byte-bounded cache of decoded       *)
(* frames.  A cache is a record; its operations are functions of it, since *)
(* the code runs each one under one mutex.                                 *)
(*                                                                         *)
(* lru lists the entries from the least to the most recently used: only    *)
(* the order of last_access is ever read.  resident is the running total   *)
(* the code keeps, not the sum of the entries.                             *)
(***************************************************************************)

NewCache(budget) == [budget |-> budget, resident |-> 0, lru |-> <<>>]

Holds(c, key) == \E i \in DOMAIN c.lru : c.lru[i].key = key

Without(lru, key) == SelectSeq(lru, LAMBDA e : e.key # key)

EntryOf(c, key) == c.lru[CHOOSE i \in DOMAIN c.lru : c.lru[i].key = key]

SaturatingSub(a, b) == IF a > b THEN a - b ELSE 0

ByteTotal(lru) == FoldLeft(LAMBDA total, e : total + e.bytes, 0, lru)

\* mutant: the most recently used entries go first
EvictNewest(c) ==
  LET After(n) == SaturatingSub(c.resident, ByteTotal(SubSeq(c.lru, n + 1, Len(c.lru))))
      Enough == {n \in 0 .. Len(c.lru) : After(n) <= c.budget}
      n == CHOOSE n \in Enough : \A k \in Enough : n >= k
  IN  [c EXCEPT !.resident = After(n), !.lru = SubSeq(@, 1, n)]

\* drops least recently used entries while the total is over the budget
EvictToBudget(c) ==
  LET After(n) == SaturatingSub(c.resident, ByteTotal(SubSeq(c.lru, 1, n)))
      Enough == {n \in 0 .. Len(c.lru) : After(n) <= c.budget \/ n = Len(c.lru)}
      n == CHOOSE n \in Enough : \A k \in Enough : n <= k
  IN  [c EXCEPT !.resident = After(n), !.lru = SubSeq(@, n + 1, Len(@))]

SetBudgetBytes(c, budget) == EvictToBudget([c EXCEPT !.budget = budget])

Get(c, key) ==
  IF Holds(c, key) THEN [c EXCEPT !.lru = Append(Without(@, key), EntryOf(c, key))] ELSE c

TooLarge(c, frame) == frame.bytes > c.budget

\* mutant: the bytes of the entry that is replaced are not taken off the total
InsertKeepsTotal(c, frame) ==
  IF TooLarge(c, frame) THEN c
  ELSE EvictToBudget([c EXCEPT !.resident = @ + frame.bytes,
                               !.lru = Append(Without(@, frame.key), frame)])

Insert(c, frame) ==
  IF TooLarge(c, frame) THEN c
  ELSE LET previous == IF Holds(c, frame.key) THEN EntryOf(c, frame.key).bytes ELSE 0
       IN  EvictToBudget([c EXCEPT !.resident = SaturatingSub(@, previous) + frame.bytes,
                                   !.lru = Append(Without(@, frame.key), frame)])

InvalidateSource(c, source) ==
  LET OfSource(e) == e.key.source = source
  IN  [c EXCEPT !.resident = SaturatingSub(@, ByteTotal(SelectSeq(c.lru, OfSource))),
                !.lru = SelectSeq(@, LAMBDA e : ~OfSource(e))]

Clear(c) == [c EXCEPT !.lru = <<>>, !.resident = 0]

(***************************************************************************)
(* The registry.                                                           *)
(***************************************************************************)

Frames == [key : Keys, bytes : Sizes]

Init ==
  /\ registration = None
  /\ live = None
  /\ owners = {}
  /\ pc = [t \in Threads |-> "idle"]
  /\ budgetOf = [t \in Threads |-> 0]
  /\ calls = 0

Called == calls < MaxCalls /\ calls' = calls + 1

\* retain drops a registration that is neither configured nor alive
Retained ==
  IF registration # None /\ (registration.explicit \/ live # None) THEN registration ELSE None

\* shared_ram_cache under the registry lock, and the adoption that follows it
Open(t, requested) ==
  /\ Called
  /\ pc[t] = "idle" /\ t \notin owners
  /\ owners' = owners \cup {t}
  /\ LET entry == IF Retained = None THEN [desired |-> requested, explicit |-> FALSE]
                  ELSE IF ~Retained.explicit /\ requested > Retained.desired
                       THEN [Retained EXCEPT !.desired = requested]
                       ELSE Retained
     IN  /\ registration' = entry
         /\ IF live # None
            THEN /\ pc' = [pc EXCEPT ![t] = "adopt"]
                 /\ budgetOf' = [budgetOf EXCEPT ![t] = entry.desired]
                 /\ UNCHANGED live
            ELSE /\ live' = NewCache(entry.desired)
                 /\ UNCHANGED <<pc, budgetOf>>

\* the registry lock is free again; the budget read under it is applied now
Adopt(t) ==
  /\ pc[t] = "adopt"
  /\ live' = SetBudgetBytes(live, budgetOf[t])
  /\ pc' = [pc EXCEPT ![t] = "idle"]
  /\ UNCHANGED <<registration, owners, budgetOf, calls>>

Configure(t, budget) ==
  /\ Called
  /\ pc[t] = "idle"
  /\ registration' = [desired |-> budget, explicit |-> TRUE]
  /\ IF live # None
     THEN /\ pc' = [pc EXCEPT ![t] = "trim"]
          /\ budgetOf' = [budgetOf EXCEPT ![t] = budget]
     ELSE UNCHANGED <<pc, budgetOf>>
  /\ UNCHANGED <<live, owners>>

\* a configuring thread keeps the upgraded reference alive until it has trimmed
Trim(t) ==
  /\ pc[t] = "trim"
  /\ live' = IF owners = {} /\ \A u \in Threads \ {t} : pc[u] # "trim"
             THEN None ELSE SetBudgetBytes(live, budgetOf[t])
  /\ pc' = [pc EXCEPT ![t] = "idle"]
  /\ UNCHANGED <<registration, owners, budgetOf, calls>>

\* dropping the last strong reference drops the cache with its frames
Close(t) ==
  /\ pc[t] = "idle" /\ t \in owners
  /\ owners' = owners \ {t}
  /\ live' = IF owners = {t} /\ \A u \in Threads : pc[u] # "trim" THEN None ELSE live
  /\ UNCHANGED <<registration, pc, budgetOf, calls>>

Using(t) == pc[t] = "idle" /\ t \in owners /\ UNCHANGED <<registration, owners, pc, budgetOf>>

LookupFull(t, key) == Called /\ Using(t) /\ live' = Get(live, key)

InsertFull(t, frame) == Called /\ Using(t) /\ live' = Insert(live, frame)

Invalidate(t, source) == Called /\ Using(t) /\ live' = InvalidateSource(live, source)

ClearAll(t) == Called /\ Using(t) /\ live' = Clear(live)

Next ==
  \E t \in Threads :
    \/ \E b \in Budgets : Open(t, b) \/ Configure(t, b)
    \/ Adopt(t) \/ Trim(t) \/ Close(t) \/ ClearAll(t)
    \/ \E k \in Keys : LookupFull(t, k) \/ Invalidate(t, k.source)
    \/ \E f \in Frames : InsertFull(t, f)

Spec == Init /\ [][Next]_vars
----------------------------------------------------------------------------
\* The running total of resident_bytes is exactly what the entries hold, and
\* never more than the ceiling in force, one entry per key: replacement, eviction, source
\* invalidation and live budget changes all keep it (frame_cache.rs).
AccountingIsExact ==
  live # None =>
    /\ live.resident = ByteTotal(live.lru) /\ live.resident <= live.budget
    /\ \A i, j \in DOMAIN live.lru : live.lru[i].key = live.lru[j].key => i = j

\* frames that survive the step include every one used after a survivor
KeepsRecent(inserted) ==
  \A i, j \in DOMAIN live.lru :
    i < j /\ live.lru[i].key # inserted /\ Holds(live', live.lru[i].key)
    => Holds(live', live.lru[j].key)

MakesRoomFairly ==
  \A t \in Threads :
    /\ \A f \in Frames :
         InsertFull(t, f) /\ ~TooLarge(live, f) => KeepsRecent(f.key) /\ Holds(live', f.key)
    /\ (Adopt(t) \/ Trim(t)) /\ live' # None => KeepsRecent(None)

\* A step that makes room (an insert or a smaller budget) never gives up a
\* frame while it keeps one that was used longer ago, and an insert that is
\* accepted never evicts the frame it has just taken in.
EvictsOldestFirst == [][MakesRoomFairly]_vars

\* "Set the persistent desired RAM budget for a cache namespace and
\* synchronously trim any live hierarchy sharing it": once no call is in
\* progress, a cache lives under the budget that was configured.
ConfiguredBudgetIsInForce ==
  (live # None /\ registration.explicit /\ \A t \in Threads : pc[t] = "idle")
  => live.budget = registration.desired
=============================================================================
