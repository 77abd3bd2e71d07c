-------------------------- MODULE SimilarityMetrics --------------------------
(***************************************************************************)
(* The integer arithmetic that decides whether two frames look alike:      *)
(* descriptors, candidate keys and confirmation of the global search       *)
(* (framescope-similarity-store, global.rs), difference hash and colour    *)
(* confirmation of adjacent grouping (framescope-perceptual).  Grid sizes  *)
(* and the fixed-point unit are parameters; the formulas are the code's.   *)
(***************************************************************************)
EXTENDS Integers, FiniteSets, FiniteSetsExt

CONSTANTS
  Colours,       \* pixels that occur, <<r, g, b>> within 0 .. 255
  Sizes,         \* picture sizes <<width, height>>
  Side,          \* NORMALIZED_SIDE
  HashSide,      \* 8: rows of the hash grids, and columns of hash bits
  BandBits,      \* 16: bits of one hash band
  Unit,          \* 65536: one cell in fixed point
  Insets,        \* SCALE_INSETS_Q16
  Radius,        \* COLOR_BUCKET_RADIUS
  Minimum,       \* DEFAULT_MINIMUM_SIMILARITY
  MaxHashDistance, MinimumConfirmation   \* the hybrid policy

VARIABLES left, right   \* the two frames that are compared

vars == <<left, right>>

Scale == 10000
Channels == 1 .. 3
PicturesOf(w, h) == [w : {w}, h : {h}, at : [(0 .. w - 1) \X (0 .. h - 1) -> Colours]]
Pictures == UNION {PicturesOf(s[1], s[2]) : s \in Sizes}
Grid(w, h) == (0 .. w - 1) \X (0 .. h - 1)
AbsDiff(a, b) == IF a >= b THEN a - b ELSE b - a
SumOver(op(_), set) == MapThenSumSet(op, set)

(***************************************************************************)
(* Sampling.                                                               *)
(***************************************************************************)

\* mutant: the grid is laid over the size, not over the last position
CoordinateOfSize(out, outSize, inSize) ==
  IF outSize <= 1 \/ inSize <= 1 THEN 0 ELSE (out * inSize * Unit) \div (outSize - 1)

\* fixed_point_coordinate
Coordinate(out, outSize, inSize) ==
  IF outSize <= 1 \/ inSize <= 1 THEN 0 ELSE (out * (inSize - 1) * Unit) \div (outSize - 1)

\* sample_coordinate of the difference hash of framescope-perceptual
SampleCoordinate(size, index, count) == ((size - 1) * index) \div (count - 1)

\* the four neighbours, weighted; the last row and column repeat
Bilinear(at, c, x, y, w, h) ==
  LET x0 == x \div Unit
      y0 == y \div Unit
      x1 == Min({x0 + 1, w - 1})
      y1 == Min({y0 + 1, h - 1})
      fx == x % Unit
      fy == y % Unit
      top == at[x0, y0][c] * (Unit - fx) + at[x1, y0][c] * fx
      bottom == at[x0, y1][c] * (Unit - fx) + at[x1, y1][c] * fx
  IN  (top * (Unit - fy) + bottom * fy + (Unit * Unit) \div 2) \div (Unit * Unit)

\* resample_rgb
Resample(picture, w, h) ==
  [cell \in Grid(w, h) |-> [c \in Channels |->
     Bilinear(picture.at, c, Coordinate(cell[1], w, picture.w),
              Coordinate(cell[2], h, picture.h), picture.w, picture.h)]]

\* integer_luma
Luma(p) == (p[1] * 77 + p[2] * 150 + p[3] * 29 + 128) \div 256

(***************************************************************************)
(* Global search: descriptor, candidate keys, confirmation.                *)
(***************************************************************************)

\* descriptor_for_frame; a hash is the set of its one bits
Descriptor(picture) ==
  LET grid == Resample(picture, HashSide, HashSide)
      cells == Grid(HashSide, HashSide)
      luma(cell) == Luma(grid[cell])
      count == HashSide * HashSide
      average == (SumOver(luma, cells) + count \div 2) \div count
      wide == Resample(picture, HashSide + 1, HashSide)
  IN  [rgb |-> Resample(picture, Side, Side),
       average |-> {cell \in cells : luma(cell) >= average},
       difference |-> {cell \in cells : Luma(wide[cell]) > Luma(wide[cell[1] + 1, cell[2]])}]

\* score_from_difference
ScoreFromDifference(difference, channels) ==
  IF channels = 0 THEN 0
  ELSE Scale - Min({Scale, (difference * Scale + (channels * 255) \div 2) \div (channels * 255)})

\* the summed channel differences of corresponding cells
Difference(a, b) == SumOver(LAMBDA c : AbsDiff(a[c], b[c]), Channels)

\* translation_similarity: the best of nine shifts
TranslationSimilarity(a, b) ==
  Max({LET overlap == {p \in Grid(Side, Side) : <<p[1] + d[1], p[2] + d[2]>> \in Grid(Side, Side)}
           cost(p) == Difference(a[p], b[p[1] + d[1], p[2] + d[2]])
       IN  ScoreFromDifference(SumOver(cost, overlap), 3 * Cardinality(overlap))
         : d \in (-1 .. 1) \X (-1 .. 1)})

\* scaled_similarity with sample_descriptor_channel: a mild crop of the source
ScaledSimilarity(source, target, ix, iy) ==
  LET span(inset) == Max({0, (Side - 1) * Unit - 2 * inset})
      at(k, inset) == inset + (k * span(inset)) \div (Side - 1)
      sample(p, c) == Bilinear(source, c, at(p[1], ix), at(p[2], iy), Side, Side)
      cost(p) == SumOver(LAMBDA c : AbsDiff(sample(p, c), target[p][c]), Channels)
  IN  ScoreFromDifference(SumOver(cost, Grid(Side, Side)), 3 * Side * Side)

\* mutant: only the first frame may be the crop of the second
ConfirmOneWay(a, b) ==
  Max({TranslationSimilarity(a, b)} \cup
      {ScaledSimilarity(a, b, i[1], i[2]) : i \in (Insets \X Insets) \ {<<0, 0>>}})

\* confirmation_similarity
Confirm(a, b) ==
  Max({TranslationSimilarity(a, b)} \cup
      UNION {{ScaledSimilarity(a, b, i[1], i[2]), ScaledSimilarity(b, a, i[1], i[2])}
               : i \in (Insets \X Insets) \ {<<0, 0>>}})

\* color_bucket: the rounded mean of each channel in steps of eight
Bucket(rgb) ==
  [c \in Channels |->
     LET cells == Grid(Side, Side)
         count == Side * Side
     IN  Min({31, ((SumOver(LAMBDA p : rgb[p][c], cells) + count \div 2) \div count) \div 8})]

\* nearby_color_buckets
Nearby(bucket) == [c \in Channels |-> Max({0, bucket[c] - Radius}) .. Min({31, bucket[c] + Radius})]

\* the bands of a hash, by position in the grid
Band(hash, n) == {cell \in hash : (cell[2] * HashSide + cell[1]) \div BandBits = n}
BandCount == (HashSide * HashSide) \div BandBits

\* candidate selection of query: an equal band of either hash, or a nearby colour
Candidate(a, b) ==
  \/ \E n \in 0 .. BandCount - 1 :
       Band(a.average, n) = Band(b.average, n) \/ Band(a.difference, n) = Band(b.difference, n)
  \/ \A c \in Channels : Bucket(b.rgb)[c] \in Nearby(Bucket(a.rgb))[c]

\* the matches of query
Found(a, b, score) == Candidate(a, b) /\ score >= Minimum

(***************************************************************************)
(* Adjacent grouping.                                                      *)
(***************************************************************************)

\* DHashEngine::hash
DHash(picture) ==
  LET luma(column, row) ==
        Luma(picture.at[SampleCoordinate(picture.w, column, HashSide + 1),
                        SampleCoordinate(picture.h, row, HashSide)])
  IN  {cell \in Grid(HashSide, HashSide) : luma(cell[1], cell[2]) > luma(cell[1] + 1, cell[2])}

\* hamming_distance
Hamming(a, b) == Cardinality((a \ b) \cup (b \ a))

\* rgb_mean_absolute_similarity
RgbSimilarity(a, b) ==
  IF a.at = b.at THEN Scale
  ELSE LET cost(p) == Difference(a.at[p], b.at[p])
       IN  ScoreFromDifference(SumOver(cost, Grid(a.w, a.h)), 3 * a.w * a.h)

\* HybridSimilarityEngine::compare; different sizes are an error
Accepted(a, b) ==
  /\ <<a.w, a.h>> = <<b.w, b.h>>
  /\ Hamming(DHash(a), DHash(b)) <= MaxHashDistance
  /\ RgbSimilarity(a, b) >= MinimumConfirmation

(***************************************************************************)

First == CHOOSE p \in Pictures : TRUE
Init == left = First /\ right = First
Next == (left' \in Pictures /\ UNCHANGED right) \/ (right' \in Pictures /\ UNCHANGED left)
Spec == Init /\ [][Next]_vars

\* If one frame is found from another, the other is found from it: keys and
\* confirmation do not depend on which frame asks, and a frame always matches
\* itself ("Both orientations are evaluated so the score is symmetric").
SearchIsMutual ==
  LET a == Descriptor(left)
      b == Descriptor(right)
      score == Confirm(a.rgb, b.rgb)
      back == Confirm(b.rgb, a.rgb)
  IN  /\ score = back /\ Found(a, b, score) = Found(b, a, back)
      /\ Accepted(left, right) = Accepted(right, left)
      /\ left = right => score = Scale /\ Found(a, b, score) /\ Accepted(left, right)

\* No grid position samples outside the picture, and the last one is its last
\* row and column, down to pictures of a single row or column.
SamplesStayInside ==
  \A out \in 1 .. HashSide + 1 : \A k \in 0 .. out - 1 : \A size \in {left.w, left.h} :
    LET c == Coordinate(k, out, size)
    IN  c \div Unit <= size - 1 /\ (out > 1 /\ k = out - 1 => c = (size - 1) * Unit)

==============================================================================
