------------------------- MODULE ScrubPreviewCache -------------------------
(***************************************************************************)
(* The cache of downscaled previews of one scrub state                     *)
(* (framescope-video/src/scrub_preview.rs): bounded in bytes and in        *)
(* frames, keyed by the frame and by the requested longest edge.  Pixels   *)
(* are abstracted to their width and height; a byte stands for one pixel.  *)
(***************************************************************************)
EXTENDS Naturals, Sequences, FiniteSets, SequencesExt

CONSTANTS
    Frames,      \* [id, width, height]: the frames of the source
    Edges,       \* longest edges that are asked for
    ByteLimits, FrameLimits

VARIABLES
    cache,       \* [budget, maxFrames, resident, entries], entries oldest first
    answer       \* history: what the last request asked for and got, or <<>>

vars == <<cache, answer>>

MaxOf(a, b) == IF a >= b THEN a ELSE b

(***************************************************************************)
(* preview_dimensions                                                      *)
(***************************************************************************)

\* mutant: rounded down
ScaledDown(side, edge, longest) == (side * edge) \div longest

\* Rounded to the nearest pixel, and never less than one.
Scaled(side, edge, longest) == MaxOf(1, (side * edge + longest \div 2) \div longest)

Dimensions(frame, edge) ==
    LET longest == MaxOf(frame.width, frame.height) IN
    IF longest <= edge THEN <<frame.width, frame.height>>
    ELSE <<Scaled(frame.width, edge, longest), Scaled(frame.height, edge, longest)>>

\* downscale_scrub_preview: nearest-neighbour sampling of one axis.
Sample(target, source, x) == (x * source) \div target

(***************************************************************************)
(* The cache.                                                              *)
(***************************************************************************)

\* mutant: the profile is left out of the key
KeyByFrame(frame, edge) == <<frame.id>>

Key(frame, edge) == <<frame.id, edge>>
Pixels(size) == size[1] * size[2]

TotalOf(entries) == FoldSeq(LAMBDA e, sum : sum + e.bytes, 0, entries)

\* evict_until_fits: the oldest entries go until the rest fits.
EvictUntilFits(c, additional, inserting) ==
    LET n == Len(c.entries)
        Left(k) == c.resident - TotalOf(SubSeq(c.entries, 1, k))
        Fits(k) == /\ Left(k) + additional <= c.budget
                   /\ IF inserting THEN n - k < c.maxFrames ELSE n - k <= c.maxFrames
        gone == CHOOSE k \in 0..n : /\ k = n \/ Fits(k)
                                    /\ \A j \in 0..(k - 1) : ~Fits(j)
    IN  [c EXCEPT !.entries = SubSeq(c.entries, gone + 1, n), !.resident = Left(gone)]

Without(c, key) == SelectSeq(c.entries, LAMBDA e : e.key # key)
Held(c, key) == {i \in DOMAIN c.entries : c.entries[i].key = key}

\* mutant: a replaced entry stays and the new one is not counted against the limits
InsertOverLimit(c, key, size) ==
    LET bytes == Pixels(size)
        room == EvictUntilFits(c, bytes, FALSE)
    IN  IF c.budget = 0 \/ c.maxFrames = 0 \/ bytes > c.budget THEN c
        ELSE [room EXCEPT !.resident = @ + bytes,
                          !.entries = Append(@, [key |-> key, size |-> size, bytes |-> bytes])]

Insert(c, key, size) ==
    LET bytes == Pixels(size)
        previous == SelectSeq(c.entries, LAMBDA e : e.key = key)
        room == EvictUntilFits([c EXCEPT !.entries = Without(c, key),
                                         !.resident = @ - TotalOf(previous)], bytes, TRUE)
    IN  IF c.budget = 0 \/ c.maxFrames = 0 \/ bytes > c.budget THEN c
        ELSE [room EXCEPT !.resident = @ + bytes,
                          !.entries = Append(@, [key |-> key, size |-> size, bytes |-> bytes])]

(***************************************************************************)
(* The operations.                                                         *)
(***************************************************************************)

Init ==
    /\ \E budget \in ByteLimits, frames \in FrameLimits :
          cache = [budget |-> budget, maxFrames |-> frames, resident |-> 0, entries |-> <<>>]
    /\ answer = <<>>

\* A hit refreshes the entry and hands out its pixels.
Get(frame, edge) ==
    LET key == Key(frame, edge) IN
    /\ Held(cache, key) # {}
    /\ LET e == cache.entries[CHOOSE i \in Held(cache, key) : TRUE] IN
          /\ cache' = [cache EXCEPT !.entries = Append(Without(cache, key), e)]
          /\ answer' = <<frame, edge, e.size>>

\* A miss, or a second renderer of the same preview, scales and inserts.
ScaleAndInsert(frame, edge) ==
    LET size == Dimensions(frame, edge) IN
    /\ cache' = Insert(cache, Key(frame, edge), size)
    /\ answer' = <<frame, edge, size>>

SetBudgetBytes(budget) ==
    /\ cache' = EvictUntilFits([cache EXCEPT !.budget = budget], 0, FALSE)
    /\ answer' = <<>>

SetMaxFrames(frames) ==
    /\ cache' = EvictUntilFits([cache EXCEPT !.maxFrames = frames], 0, FALSE)
    /\ answer' = <<>>

Clear == cache' = [cache EXCEPT !.entries = <<>>, !.resident = 0] /\ answer' = <<>>

Next ==
    \/ \E frame \in Frames, edge \in Edges : Get(frame, edge) \/ ScaleAndInsert(frame, edge)
    \/ \E budget \in ByteLimits : SetBudgetBytes(budget)
    \/ \E frames \in FrameLimits : SetMaxFrames(frames)
    \/ Clear

Spec == Init /\ [][Next]_vars

(***************************************************************************)
(* Properties.                                                             *)
(***************************************************************************)

\* The cache is within both limits and its byte count is exact after every
\* sequence of operations, one entry per key (evict_until_fits, insert).
WithinLimits ==
    /\ cache.resident = TotalOf(cache.entries) /\ cache.resident <= cache.budget
    /\ Len(cache.entries) <= cache.maxFrames
    /\ \A i, j \in DOMAIN cache.entries :
          cache.entries[i].key = cache.entries[j].key => i = j

\* "A smaller preview is never allowed to satisfy a later larger-preview
\* request": whatever was cached before, a request is answered at its own size.
AnswerHasRequestedSize ==
    answer # <<>> => answer[3] = Dimensions(answer[1], answer[2])

\* An answer is never empty, larger than asked for or larger than the source,
\* and every pixel of it is sampled inside the source (preview_dimensions,
\* downscale_scrub_preview).
PreviewShape ==
    answer # <<>> =>
        LET source == <<answer[1].width, answer[1].height>> IN
        \A axis \in 1..2 :
            LET target == answer[3][axis] IN
            /\ target >= 1 /\ target <= source[axis]
            /\ target <= MaxOf(answer[2], 1)
            /\ Sample(target, source[axis], target - 1) < source[axis]
=============================================================================
