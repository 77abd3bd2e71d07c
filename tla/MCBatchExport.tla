--------------------------- MODULE MCBatchExport ---------------------------
(***************************************************************************)
(* Sources of three frames: ordinary ones, ones whose keyframes look alike *)
(* or come without a time, and ones that changed after they were indexed.  *)
(***************************************************************************)
EXTENDS BatchExport

Frame(ts, key) == [ts |-> ts, duration |-> 1, keyframe |-> key, corrupt |-> FALSE]
Three(a, b, c) == [i \in 0 .. 2 |-> <<a, b, c>>[i + 1]]

Ordered == Three(Frame(0, TRUE), Frame(1, FALSE), Frame(2, TRUE))
Untimed == Three(Frame(None, TRUE), Frame(1, TRUE), Frame(1, FALSE))
Alike == Three(Frame(0, TRUE), Frame(0, TRUE), Frame(1, FALSE))
Shortened == [i \in 0 .. 1 |-> Frame(i, i = 0)]

MCTimelines == {<<Ordered, Ordered>>, <<Untimed, Untimed>>, <<Alike, Alike>>,
                <<Ordered, Untimed>>, <<Ordered, Shortened>>, <<Alike, Three(Frame(0, TRUE), Frame(0, TRUE), Frame(0, TRUE))>>}
=============================================================================
