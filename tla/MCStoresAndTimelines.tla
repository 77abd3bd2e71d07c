---- MODULE MCStoresAndTimelines ----
(***************************************************************************)
(* Small instances of the components of StoresAndTimelines.                *)
(***************************************************************************)
EXTENDS StoresAndTimelines

\* Three entries of two sources.
ThreeEntries == {[source |-> "a", frame |-> 0, format |-> "webp"],
              [source |-> "a", frame |-> 0, format |-> "jpg"],
              [source |-> "b", frame |-> 1, format |-> "webp"]}

ThreeIdentities ==
    {[source |-> 1, stream |-> 0, safe |-> TRUE], [source |-> 1, stream |-> 1, safe |-> TRUE],
     [source |-> 2, stream |-> 0, safe |-> FALSE]}

\* Short timelines with repeated, missing and negative timestamps, keyframes
\* that look alike and a corrupt one; and sources that changed after indexing.
Frame(ts, key, bad) == [ts |-> ts, duration |-> 1, keyframe |-> key, corrupt |-> bad]
Short(n, other) == [0 .. n - 1 -> {Frame(0, TRUE, FALSE), other}]
ShortTimelines ==
    Short(3, Frame(None, FALSE, FALSE)) \cup Short(2, Frame(-1, TRUE, FALSE))
        \cup Short(2, Frame(0, TRUE, TRUE)) \cup {[i \in 0 .. 2 |-> Frame(i - 1, i # 1, FALSE)]}
ShortDrifts ==
    UNION {Short(2, other) \X UNION {Short(n, other) : n \in {1, 3}} :
             other \in {Frame(1, TRUE, FALSE), Frame(0, FALSE, FALSE)}}

\* Every index of up to three frames over a narrow integer range, its ends,
\* repeated, unordered and missing timestamps included.
NarrowIndexes == UNION {[0 .. n - 1 -> {-4, 0, 3, None}] : n \in 1 .. 3}
PlannedIndexes == UNION {[0 .. n - 1 -> {-2, 0, 3, None}] : n \in 0 .. 3}

ThreeColours == {<<0, 0, 0>>, <<255, 255, 255>>, <<255, 0, 40>>}
SmallSizes == {<<1, 1>>, <<2, 1>>}
SmallArguments == -1 .. 4
====
