---- MODULE MCNativeCalls ----
(***************************************************************************)
(* Small instances of the components of NativeCalls.                       *)
(***************************************************************************)
EXTENDS NativeCalls, TLC

\* Two sources, one with two frames.
TwoSources == {[source |-> "a", frame |-> 0], [source |-> "a", frame |-> 1], [source |-> "b", frame |-> 0]}
\* A landscape, a square and a one-pixel-high frame.
Shapes == {[id |-> 1, width |-> 5, height |-> 3], [id |-> 2, width |-> 3, height |-> 3],
                 [id |-> 3, width |-> 9, height |-> 1]}
\* Containers whose best stream is neither the first nor alone, whose timestamps
\* repeat, are missing or overflow a difference, and one that has no stream to
\* decode.
Stream(kind, decodable, default) == [kind |-> kind, decodable |-> decodable, default |-> default]
Packet(stream, ts) == [stream |-> stream, ts |-> ts]
SmallContainers ==
    {[streams |-> <<Stream("video", FALSE, TRUE), Stream("video", TRUE, FALSE),
                    Stream("audio", TRUE, TRUE), Stream("video", TRUE, TRUE)>>,
      packets |-> <<Packet(4, 0), Packet(2, 0), Packet(4, 0), Packet(4, None), Packet(4, 1)>>],
     [streams |-> <<Stream("video", TRUE, FALSE)>>,
      packets |-> <<Packet(1, -2), Packet(1, 0), Packet(1, 2)>>],
     [streams |-> <<Stream("video", TRUE, FALSE)>>,
      packets |-> <<Packet(1, -2), Packet(1, 3), Packet(1, 3)>>],
     [streams |-> <<Stream("audio", TRUE, TRUE), Stream("video", FALSE, FALSE)>>,
      packets |-> <<Packet(1, 0)>>]}

\* Sources that are empty, prefixes of each other or of the same length.
SmallFiles == {<<>>, <<0>>, <<1, 1>>, <<0, 1, 1>>, <<0, 1, 0>>}

\* The index of two streams under two contract generations, and what a
\* descriptor decodes to: some of these, and so also too few or too many frames.
ShortTimeline ==
    [x \in {"s", "t"} \X {1, 2} |->
        CASE x = <<"s", 1>> -> <<"i", "p">> [] x = <<"s", 2>> -> <<"i">>
          [] x = <<"t", 1>> -> <<"i", "i">> [] OTHER -> <<"p", "i">>]
ShortMedia == {<<"i", "p">>, <<"i", "i">>, <<"i">>}

\* The threads of one component are interchangeable.
Symmetry == Permutations(PrepareThreads) \cup Permutations(ScrubThreads)
====
