----------------------------- MODULE MCIndexing -----------------------------
(***************************************************************************)
(* Small timelines for Indexing.  Each identity names the kind of source   *)
(* it stands for; n frames with batches of 2 and an overlap of 2 make      *)
(* partial batches, checkpoints inside the prefix and full batches happen. *)
(***************************************************************************)
EXTENDS Indexing, FiniteSets

F(ts, k, c) == [ts |-> ts, duration |-> 1, keyframe |-> k, corrupt |-> c]
K(ts) == F(ts, TRUE, FALSE)
P(ts) == F(ts, FALSE, FALSE)

T(s) == [count |-> Cardinality(DOMAIN s), frame |-> [i \in 0 .. Cardinality(DOMAIN s) - 1 |-> s[i + 1]]]

Steady   == T(<<K(0), P(1), K(2), P(3), K(4), P(5), P(6)>>)
\* the second keyframe repeats the first one's timestamp
Repeated == T(<<K(0), P(1), K(0), P(1)>>)
\* a negative start, a corrupt keyframe and a keyframe without a timestamp
Ragged   == T(<<P(-1), F(0, TRUE, TRUE), K(1), P(None), K(None)>>)
\* the third timestamp overflows microseconds
Overlong == T(<<K(0), P(1), P(MaxTicks + 1)>>)
\* the last three frames carry timestamps already used by earlier ones
Looped   == T(<<K(0), P(1), K(5), P(6), K(5), P(6), P(7)>>)

(***************************************************************************)
(* Sources whose decoder always emits the same timeline, one of which      *)
(* cannot be recognised again.                                             *)
(***************************************************************************)
StableIdentities == {"steady", "repeated", "ragged", "overlong", "unverifiable"}
StableContent ==
  [id \in StableIdentities |->
     CASE id = "steady"       -> {Steady}
       [] id = "repeated"     -> {Repeated}
       [] id = "ragged"       -> {Ragged}
       [] id = "overlong"     -> {Overlong}
       [] id = "unverifiable" -> {T(<<K(0), P(1)>>)}]
StableReuseSafe == StableIdentities \ {"unverifiable"}

(***************************************************************************)
(* One source for which a decoder update changes what is emitted: another  *)
(* tail, another head, a shorter stream.                                   *)
(***************************************************************************)
DriftIdentities == {"updated"}
DriftContent ==
  [id \in DriftIdentities |->
     {Steady, T(<<K(0), P(1), K(2), P(3), K(5), P(6)>>),
      T(<<K(1), P(1), K(2), P(3), K(4), P(5)>>), T(<<K(0), P(1), K(2)>>)}]

LoopedIdentities == {"looped"}
LoopedContent == [id \in LoopedIdentities |-> {Looped}]

Fresh == {Absent}

Foreign == [Absent EXCEPT !.schema = "foreign"]

\* a complete index of the previous contract generation, and one whose
\* metadata counts a row that is gone
Legacy(id) ==
  [EmptyIndex(id) EXCEPT !.meta.generation = 1, !.meta.lifecycle = "complete", !.meta.frame_count = 0]
Damaged(id) == [EmptyIndex(id) EXCEPT !.meta.indexed = 1]
StableLeftovers == {Absent, Foreign, Legacy("steady"), Damaged("steady")}
=============================================================================
