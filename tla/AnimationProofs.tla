--------------------------- MODULE AnimationProofs ---------------------------
(***************************************************************************)
(* Theorems about the animations, for every size of the screen: the path   *)
(* of the dots for every number of jumps and every sequence of directions  *)
(* and lengths, the distance of the wave lines, the thick strokes of the   *)
(* tapered wave, the particles, and their choice.                          *)
(***************************************************************************)
EXTENDS Animations, TLAPS

-----------------------------------------------------------------------------
(* DotPath.                                                                *)

(* One jump and its correction along one axis: the result stays in the      *)
(* range, and coming from outside the margins of a screen that no jump      *)
(* crosses it moves towards the other side.                                *)
LEMMA ClampRange ==
  ASSUME NEW a \in Axes, NEW j \in Lengths, NEW d \in -j .. j,
         NEW c \in Lowest(a) .. Highest(a)
  PROVE  LET new == ClampToBounds(c + d, j, Sizes[a])
         IN  /\ new \in Lowest(a) .. Highest(a)
             /\ Sizes[a] - 2 * Margin >= Longest =>
                  /\ c > Sizes[a] - Margin => new < c
                  /\ c < Margin => new > c
<1>1. Sizes[a] \in Nat /\ Margin \in Nat /\ Longest \in Nat /\ j \in 1..Longest
  BY DotPathAssumption
<1>2. c \in Int /\ d \in Int /\ -j <= d /\ d <= j
  BY <1>1 DEF Lowest, Highest
<1> QED
  BY <1>1, <1>2 DEF Lowest, Highest, ClampToBounds

(* What a jump adds along an axis is at most its length.                   *)
LEMMA OffsetRange ==
  ASSUME NEW j \in Lengths, NEW offset \in Offsets(j)
  PROVE  offset[1] \in -j .. j /\ offset[2] \in -j .. j
<1>1. j \in Nat /\ Diag[j] \in Nat /\ Diag[j] <= j
  BY DotPathAssumption
<1> QED
  BY <1>1 DEF Offsets

DotInv == DotTypeOK /\ ExcursionBounded

Back == positions' # positions =>
          \A a \in Axes : Sizes[a] - 2 * Margin >= Longest => MovesBack(a)

(* A jump appends a point that keeps DotInv and moves back as ExcursionEnds *)
(* says.                                                                   *)
LEMMA JumpStep ==
  ASSUME DotInv, NEW j \in Lengths, NEW offset \in Offsets(j),
         GenerateJump(j, offset)
  PROVE  DotInv' /\ Back
<1> DEFINE off(a) == offset[IF a = "x" THEN 1 ELSE 2]
           new == [a \in Axes |-> ClampToBounds(Last[a] + off(a), j, Sizes[a])]
<1>1. /\ positions \in Seq(Position) /\ Len(positions) \in 1 .. N
      /\ Last \in Position /\ N \in Nat
      /\ \A a \in Axes : Last[a] \in Lowest(a) .. Highest(a)
  BY DotPathAssumption
     DEF DotInv, DotTypeOK, ExcursionBounded, GenerateJump, Complete, Last
<1>2. \A a \in Axes : off(a) \in -j .. j
  BY OffsetRange
<1>3. \A a \in Axes :
        /\ new[a] \in Lowest(a) .. Highest(a)
        /\ Sizes[a] - 2 * Margin >= Longest =>
             /\ Last[a] > Sizes[a] - Margin => new[a] < Last[a]
             /\ Last[a] < Margin => new[a] > Last[a]
  <2>1. TAKE a \in Axes
  <2> QED  BY <1>1, <1>2, ClampRange
<1>4. new \in Position
  BY <1>3, DotPathAssumption DEF Position, Lowest, Highest
<1>5. positions' = Append(positions, new)
  BY DEF GenerateJump
<1> HIDE DEF new, off
<1>6. /\ positions' \in Seq(Position)
      /\ Len(positions') = Len(positions) + 1
      /\ positions'[Len(positions')] = new
      /\ \A k \in 1..Len(positions) : positions'[k] = positions[k]
  BY <1>1, <1>4, <1>5
<1>7. ExcursionBounded'
  <2>1. SUFFICES ASSUME NEW k \in 1..Len(positions'), NEW a \in Axes
                 PROVE  positions'[k][a] \in Lowest(a) .. Highest(a)
    BY DEF ExcursionBounded, Lowest, Highest
  <2>2. CASE k = Len(positions')
    BY <2>2, <1>3, <1>6
  <2>3. CASE k # Len(positions')
    <3>1. k \in 1..Len(positions)
      BY <2>3, <1>1, <1>6
    <3> QED  BY <3>1, <1>6 DEF DotInv, ExcursionBounded
  <2> QED  BY <2>2, <2>3
<1>8. DotTypeOK'
  <2>1. sizes' \in Seq({0, 1}) /\ Len(sizes') = Len(sizes) + 1
    BY DEF DotInv, DotTypeOK, GenerateJump
  <2> QED  BY <2>1, <1>1, <1>6 DEF DotInv, DotTypeOK, GenerateJump
<1>9. Back
  BY <1>3, <1>6 DEF Back, MovesBack
<1> QED  BY <1>7, <1>8, <1>9 DEF DotInv

(* DotInv is inductive, and no step moves the path further out.            *)
LEMMA DotInductive ==
  /\ DotInit => DotInv
  /\ DotInv /\ [DotNext]_dotVars => DotInv' /\ Back
<1>1. DotInit => DotInv
  <2> SUFFICES ASSUME DotInit PROVE DotInv
    OBVIOUS
  <2>1. PICK x \in Starts["x"], y \in Starts["y"] :
          positions = <<[a \in Axes |-> IF a = "x" THEN x ELSE y]>>
    BY DEF DotInit
  <2>2. /\ x \in Margin .. Sizes["x"] - Margin
        /\ y \in Margin .. Sizes["y"] - Margin
        /\ Margin \in Nat /\ Longest \in Nat /\ Sizes \in [Axes -> Nat]
    BY DotPathAssumption DEF Axes
  <2>3. [a \in Axes |-> IF a = "x" THEN x ELSE y] \in Position
    BY <2>2 DEF Position
  <2>4. /\ positions \in Seq(Position) /\ Len(positions) = 1
        /\ positions[1] = [a \in Axes |-> IF a = "x" THEN x ELSE y]
    BY <2>1, <2>3
  <2>5. \A a \in Axes : positions[1][a] \in Lowest(a) .. Highest(a)
    BY <2>2, <2>4 DEF Axes, Lowest, Highest
  <2> QED
    BY <2>4, <2>5, DotPathAssumption
       DEF DotInit, DotInv, DotTypeOK, ExcursionBounded
<1>2. DotInv /\ [DotNext]_dotVars => DotInv' /\ Back
  <2> SUFFICES ASSUME DotInv, [DotNext]_dotVars PROVE DotInv' /\ Back
    OBVIOUS
  <2>1. CASE \E j \in Lengths : \E offset \in Offsets(j) : GenerateJump(j, offset)
    BY <2>1, JumpStep
  <2>2. CASE Animate
    <3>1. time' \in 0 .. Unit - 1
      <4>1. /\ time \in 0 .. Unit - 1 /\ Unit \in Nat
            /\ Step \in Nat /\ Step > 1 /\ Unit > Step + 1
        BY DotPathAssumption DEF DotInv, DotTypeOK
      <4>2. PICK error \in {-1, 0, 1} : time' = Wrap(time + Step + error)
        BY <2>2 DEF Animate
      <4> QED
        BY <4>1, <4>2 DEF Wrap
    <3> QED
      BY <3>1, <2>2
         DEF DotInv, DotTypeOK, ExcursionBounded, Back, Animate, Lowest, Highest
  <2>3. CASE UNCHANGED dotVars
    BY <2>3 DEF DotInv, DotTypeOK, ExcursionBounded, Back, dotVars, Lowest, Highest
  <2> QED  BY <2>1, <2>2, <2>3 DEF DotNext
<1> QED  BY <1>1, <1>2

(* However many jumps are generated, in whatever directions, the path stays *)
(* within two jumps of the opposite margins.                               *)
THEOREM ExcursionAlwaysBounded == DotSpec => [](DotTypeOK /\ ExcursionBounded)
BY DotInductive, PTL DEF DotSpec, DotInv

(* Outside the margins the path always turns back.                         *)
THEOREM ExcursionAlwaysEnds == DotSpec => ExcursionEnds
<1>1. DotInit => DotInv
  BY DotInductive
<1>2. DotInv /\ [DotNext]_dotVars => DotInv' /\ [Back]_dotVars
  BY DotInductive
<1> QED  BY <1>1, <1>2, PTL DEF DotSpec, ExcursionEnds, Back

(* A sum of a dot's number and the time, rounded or not, is at most         *)
(* DOT_COUNT, so that its segment is one of the path's.                     *)
LEMMA SegmentRange ==
  ASSUME NEW at \in 0 .. DotCount * Unit
  PROVE  Segment(at) <= N - 1
<1> DEFINE whole == DotCount * Unit
           num   == at * N * (Guard - 1)
<1>1. /\ N \in Nat /\ N > 0 /\ Guard \in Nat /\ Guard > 1
      /\ DotCount \in Nat /\ Unit \in Nat /\ DotCount > 0 /\ Unit > 0
  BY DotPathAssumption
<1>2. whole \in Nat /\ whole > 0
  BY <1>1
<1> HIDE DEF whole
<1>3. at \in Nat /\ at <= whole
  BY <1>2 DEF whole
<1>4. at * N \in Nat /\ at * N <= whole * N
  BY <1>1, <1>2, <1>3
<1>5. num \in Nat /\ num <= whole * N * (Guard - 1)
  BY <1>1, <1>2, <1>4
<1>6. whole * N * (Guard - 1) < whole * N * Guard
  BY <1>1, <1>2
<1>7. whole * Guard \in Nat /\ whole * Guard > 0 /\ whole * N * Guard = N * (whole * Guard)
  BY <1>1, <1>2
<1> HIDE DEF num
<1>8. num \in Nat /\ num < N * (whole * Guard)
  BY <1>1, <1>2, <1>5, <1>6, <1>7
<1>9. num \div (whole * Guard) < N
  BY <1>1, <1>7, <1>8
<1> QED
  BY <1>1, <1>7, <1>8, <1>9 DEF Segment, whole, num

(* Animate never reads past the end of the path, whatever its numbers of    *)
(* jumps and dots and however the time is rounded.                         *)
THEOREM SegmentAlwaysExists == DotSpec => []SegmentExists
<1>1. DotInv => SegmentExists
  <2> SUFFICES ASSUME DotInv, Complete, NEW dot \in 0 .. DotCount - 1,
                      NEW at \in Sums(dot)
               PROVE  Segment(at) + 2 <= Len(positions)
    BY DEF SegmentExists
  <2>1. /\ time \in 0 .. Unit - 1 /\ DotCount \in Nat /\ Unit \in Nat /\ N \in Nat
        /\ dot \in Nat /\ dot + 1 <= DotCount
    BY DotPathAssumption DEF DotInv, DotTypeOK
  <2>2. dot * Unit \in Nat /\ (dot + 1) * Unit = dot * Unit + Unit
        /\ (dot + 1) * Unit <= DotCount * Unit
    BY <2>1
  <2>3. at \in 0 .. DotCount * Unit
    BY <2>1, <2>2 DEF Sums
  <2>4. Segment(at) <= N - 1
    BY <2>3, SegmentRange
  <2> QED  BY <2>1, <2>3, <2>4, DotPathAssumption DEF Complete, Segment
<1> QED  BY <1>1, ExcursionAlwaysBounded, PTL DEF DotInv

(* The step's part of PictureContinuous.                                   *)
Continuous ==
    Complete =>
      \A dot \in 0 .. DotCount - 1 :
        \/ \E was \in 0 .. DotCount - 1 :
             (dot * Unit + time') - (was * Unit + time) \in Step - 1 .. Step + 1
        \/ dot * Unit + time' <= Step + 1 /\ sizes[1] = 0

FirstSize == sizes[1] = 0

(* One call of Animate moves the picture on without a jump.                *)
LEMMA ContinuousStep ==
    ASSUME DotInv, FirstSize, Animate
    PROVE  Continuous
<1>1. /\ time \in Int /\ time >= 0 /\ time < Unit /\ Unit \in Nat
      /\ Step \in Nat /\ Step > 1 /\ Unit > Step + 1 /\ DotCount \in Nat
  BY DotPathAssumption DEF DotInv, DotTypeOK
<1>2. PICK error \in {-1, 0, 1} : time' = Wrap(time + Step + error)
  BY DEF Animate
<1>3. time' \in Int
  BY <1>1, <1>2 DEF Wrap
<1> SUFFICES ASSUME NEW dot \in 0 .. DotCount - 1
               PROVE  \/ \E was \in 0 .. DotCount - 1 :
                           (dot * Unit + time') - (was * Unit + time)
                             \in Step - 1 .. Step + 1
                      \/ dot * Unit + time' <= Step + 1 /\ sizes[1] = 0
  BY Zenon DEF Continuous
<1>4. dot * Unit \in Int /\ (dot - 1) * Unit = dot * Unit - Unit
  BY <1>1
<1>5. CASE time + Step + error < Unit
  <2>1. (dot * Unit + time') - (dot * Unit + time) = Step + error
    BY <1>1, <1>2, <1>4, <1>5 DEF Wrap
  <2>2. Step + error \in Step - 1 .. Step + 1
    BY <1>1
  <2> QED
    BY <2>1, <2>2
<1>6. CASE time + Step + error >= Unit
  <2>1. time' = time + Step + error - Unit
    BY <1>1, <1>2, <1>6 DEF Wrap
  <2>2. CASE dot = 0
    BY <1>1, <2>1, <2>2 DEF FirstSize
  <2>3. CASE dot # 0
    <3>1. dot - 1 \in 0 .. DotCount - 1
      BY <1>1, <2>3
    <3>2. (dot * Unit + time') - ((dot - 1) * Unit + time) = Step + error
      BY <1>1, <1>4, <2>1
    <3>3. Step + error \in Step - 1 .. Step + 1
      BY <1>1
    <3> QED
      BY <3>1, <3>2, <3>3
  <2> QED
    BY <2>2, <2>3
<1> QED
  BY <1>1, <1>2, <1>5, <1>6

(* The picture has no jumps, also when the time wraps around, for any number *)
(* of dots and however the time is rounded.                                *)
THEOREM PictureAlwaysContinuous == DotSpec => PictureContinuous
<1>1. DotInit => DotInv /\ FirstSize
  BY DotInductive DEF DotInit, FirstSize
<1>2. DotInv /\ FirstSize /\ [DotNext]_dotVars
        => DotInv' /\ FirstSize' /\ [Continuous]_dotVars
  <2> SUFFICES ASSUME DotInv, FirstSize, [DotNext]_dotVars
               PROVE  DotInv' /\ FirstSize' /\ [Continuous]_dotVars
    OBVIOUS
  <2>1. DotInv'
    BY DotInductive
  <2>2. CASE \E j \in Lengths : \E offset \in Offsets(j) : GenerateJump(j, offset)
    <3>1. ~Complete
      BY <2>2 DEF GenerateJump
    <3>2. FirstSize'
      <4>1. PICK size \in {0, 1} : sizes' = Append(sizes, size)
        BY <2>2 DEF GenerateJump
      <4>2. sizes \in Seq({0, 1}) /\ Len(sizes) >= 1
        BY DotPathAssumption DEF DotInv, DotTypeOK
      <4> QED
        BY <4>1, <4>2 DEF FirstSize
    <3> QED
      BY <2>1, <3>1, <3>2 DEF Continuous
  <2>3. CASE Animate
    BY <2>1, <2>3, ContinuousStep DEF FirstSize, Animate
  <2>4. CASE UNCHANGED dotVars
    BY <2>1, <2>4 DEF FirstSize, dotVars
  <2> QED
    BY <2>2, <2>3, <2>4 DEF DotNext
<1> QED
  BY <1>1, <1>2, PTL DEF DotSpec, PictureContinuous, Continuous

-----------------------------------------------------------------------------
(* TaperedWave.  The displays' sizes are of 16 bits.  On a screen smaller    *)
(* than this a thick stroke may reach over its edge.                       *)

LargeEnough ==
    /\ WaveScreen.width >= 14 /\ WaveScreen.width < 65536
    /\ WaveScreen.height >= 13 /\ WaveScreen.height < 65536

(* The column's place on the screen, to which the wave is squeezed.         *)
PlaceOf(n) == (WaveScreen.width + 18 * n + 10) \div 20

(* The screen of the tapered wave has pixels.                              *)
LEMMA ScreenSize == WaveScreen.width \in Nat \ {0} /\ WaveScreen.height \in Nat \ {0}
  BY WaveAssumption

(* A column of the wave has its place on the screen.                       *)
LEMMA PlaceRange ==
    ASSUME LargeEnough, NEW n \in 0..WaveScreen.width
    PROVE  PlaceOf(n) \in 0..(WaveScreen.width - 1)
  BY ScreenSize DEF PlaceOf, LargeEnough

(* A column of the wave lies where it belongs, and two pixels or more from   *)
(* the upper and the lower edge, whatever the sine is.                     *)
LEMMA PointRange ==
    ASSUME LargeEnough, i \in 0..WaveScreen.width, NEW s \in Sines, NEW p \in ScreenPoint(s)
    PROVE  p[1] = PlaceOf(i) /\ p[2] \in 2..(WaveScreen.height - 3)
<1> DEFINE w == WaveScreen.width  h == WaveScreen.height
           y == (h * (500 + 3 * s) + 500) \div 1000
<1>1. /\ s \in Int /\ s >= -100 /\ s <= 100
      /\ w \in Nat /\ w < 65536 /\ h \in Nat /\ h >= 13 /\ h < 65536
  BY ScreenSize, WaveAssumption DEF LargeEnough
<1>2. PlaceOf(i) \in 0..(w - 1)
  BY PlaceRange
<1>3. 500 + 3 * s \in Nat /\ 500 + 3 * s >= 200 /\ 500 + 3 * s <= 800
  BY <1>1
<1>4. /\ h * (500 + 3 * s) \in Nat
      /\ h * (500 + 3 * s) >= h * 200 /\ h * (500 + 3 * s) <= h * 800
  BY <1>1, <1>3
<1>5. y \in 2..(h - 3)
  BY <1>1, <1>4
<1>6. p[1] \in Uint16(PlaceOf(i)) /\ p[2] \in Uint16(y)
  BY DEF ScreenPoint, PlaceOf
<1> HIDE DEF w, h, y
<1>7. /\ PlaceOf(i) \in Nat /\ PlaceOf(i) < 65536
      /\ y \in Nat /\ y < 65536
  BY <1>1, <1>2, <1>5
<1>8. Uint16(PlaceOf(i)) = {PlaceOf(i)} /\ Uint16(y) = {y}
  BY <1>7 DEF Uint16
<1> QED
  BY <1>5, <1>6, <1>8 DEF h

(* Where the wave is thick is far enough from where it ends.                *)
LEMMA ThicknessRange ==
    ASSUME LargeEnough, i \in 0..WaveScreen.width
    PROVE  /\ HalfThickness \in 0..2
           /\ HalfThickness > 0 => 14 * i >= WaveScreen.width
                                   /\ 14 * (WaveScreen.width - i) >= WaveScreen.width
           /\ HalfThickness > 1 => 14 * i >= 3 * WaveScreen.width
                                   /\ 14 * (WaveScreen.width - i) >= 3 * WaveScreen.width
<1> DEFINE w == WaveScreen.width  j == w - i  area == i * j  square == w * w
<1>1. w \in Nat /\ w >= 14 /\ i \in Nat /\ j \in Nat /\ i + j = w
  BY ScreenSize DEF LargeEnough
<1>2. HalfThickness = (square + 14 * area) \div (2 * square)
  BY <1>1 DEF HalfThickness
<1> HIDE DEF w, j
<1>3. area \in Nat /\ square \in Nat /\ square > 0
  BY <1>1
<1>4. square = 2 * area + i * i + j * j
  BY <1>1
<1>5. 2 * area <= i * i + j * j
  <2>1. (i - j) * (i - j) = i * i + j * j - 2 * area
    BY <1>1
  <2>2. (i - j) * (i - j) >= 0
    BY <1>1
  <2> QED
    BY <1>1, <1>3, <2>1, <2>2
<1>6. 4 * area <= square
  BY <1>1, <1>3, <1>4, <1>5
<1>7. /\ i * w \in Nat /\ j * w \in Nat
      /\ area <= i * w /\ area <= j * w
  BY <1>1
<1>8. ASSUME NEW k \in {1, 3}, 14 * area >= k * square
      PROVE  14 * i >= k * w /\ 14 * j >= k * w
  <2>1. 14 * (i * w) >= k * square /\ 14 * (j * w) >= k * square
    BY <1>3, <1>7, <1>8
  <2>2. (14 * i) * w >= (k * w) * w /\ (14 * j) * w >= (k * w) * w
    BY <1>1, <2>1
  <2> QED
    BY <1>1, <2>2
<1> HIDE DEF area, square
<1>9. HalfThickness \in 0..2
  BY <1>2, <1>3, <1>6
<1>10. HalfThickness > 0 => 14 * area >= 1 * square
  BY <1>2, <1>3
<1>11. HalfThickness > 1 => 14 * area >= 3 * square
  BY <1>2, <1>3
<1>12. HalfThickness > 0 => 14 * i >= w /\ 14 * j >= w
  BY <1>1, <1>8, <1>10
<1>13. HalfThickness > 1 => 14 * i >= 3 * w /\ 14 * j >= 3 * w
  BY <1>8, <1>11
<1> QED
  BY <1>9, <1>12, <1>13 DEF j, w

(* The last point, if there is one, is that of the column before.           *)
LastPoint ==
    prev # << >> =>
      /\ i >= 1
      /\ prev = <<prev[1]>> /\ prev[1] = <<PlaceOf(i - 1), prev[1][2]>>
      /\ prev[1][2] \in 2..(WaveScreen.height - 3)

WaveInv == i \in 0..(WaveScreen.width + 1) /\ LastPoint /\ StrokesOnScreen

(* A stroke between the points of two neighbouring columns stays on the      *)
(* screen, however thick it is there.                                      *)
LEMMA StrokeOnScreen ==
    ASSUME LargeEnough, i \in 1..WaveScreen.width,
           NEW y1 \in 2..(WaveScreen.height - 3), NEW y2 \in 2..(WaveScreen.height - 3),
           NEW stroke \in ThickLine(<<PlaceOf(i - 1), y1>>, <<PlaceOf(i), y2>>),
           NEW k \in DOMAIN stroke
    PROVE  OnScreen(stroke[k], WaveScreen)
<1> DEFINE w == WaveScreen.width  h == WaveScreen.height  t == HalfThickness
           p1 == <<PlaceOf(i - 1), y1>>  p2 == <<PlaceOf(i), y2>>
<1>1. /\ w \in Nat /\ w >= 14 /\ h \in Nat /\ h >= 13
      /\ i \in Nat /\ i >= 1 /\ i <= w
  BY ScreenSize DEF LargeEnough
<1>2. OnScreen(p1, WaveScreen) /\ OnScreen(p2, WaveScreen)
  BY <1>1, PlaceRange DEF OnScreen
<1>3. CASE Thin \/ p1 = p2
  <2>1. stroke = <<p1, p2>> \/ stroke = <<p1>>
    BY <1>3 DEF ThickLine
  <2> QED
    BY <1>2, <2>1
<1>4. CASE ~Thin /\ p1 # p2
  <2>1. PICK d \in (-t .. t) \X (-t .. t) : stroke = <<Shift(p1, d), Shift(p2, d)>>
    BY <1>4 DEF ThickLine
  <2>2. /\ t \in 0..2
        /\ t > 0 => 14 * i >= w /\ 14 * (w - i) >= w
        /\ t > 1 => 14 * i >= 3 * w /\ 14 * (w - i) >= 3 * w
    BY <1>1, ThicknessRange
  <2> HIDE DEF w, h, t
  <2>3. d[1] \in Int /\ d[2] \in Int
        /\ -t <= d[1] /\ d[1] <= t /\ -t <= d[2] /\ d[2] <= t
    BY <2>2
  <2>4. /\ PlaceOf(i - 1) \in Int /\ PlaceOf(i - 1) >= t /\ PlaceOf(i - 1) + t <= w - 1
        /\ PlaceOf(i) \in Int /\ PlaceOf(i) >= t /\ PlaceOf(i) + t <= w - 1
    <3>1. PlaceOf(i) = (w + 18 * i + 10) \div 20 /\ PlaceOf(i - 1) = (w + 18 * i - 8) \div 20
      BY <1>1 DEF PlaceOf, w
    <3>2. CASE t = 0
      BY <1>1, <3>1, <3>2
    <3>3. CASE t = 1
      BY <1>1, <2>2, <3>1, <3>3
    <3>4. CASE t = 2
      BY <1>1, <2>2, <3>1, <3>4
    <3> QED
      BY <2>2, <3>2, <3>3, <3>4
  <2>5. /\ y1 + d[2] \in 0..(h - 1) /\ y2 + d[2] \in 0..(h - 1)
        /\ PlaceOf(i - 1) + d[1] \in 0..(w - 1) /\ PlaceOf(i) + d[1] \in 0..(w - 1)
    BY <1>1, <2>2, <2>3, <2>4 DEF h
  <2>6. /\ OnScreen(Shift(p1, d), WaveScreen)
        /\ OnScreen(Shift(p2, d), WaveScreen)
    BY <2>5 DEF Shift, OnScreen, w, h
  <2> QED
    BY <2>1, <2>6
<1> QED
  BY <1>3, <1>4

(* Every column drawn, and the end of the loop over them, keep the         *)
(* strokes on the screen.                                                  *)
LEMMA WaveStep == LargeEnough /\ WaveInv /\ [WaveNext]_waveVars => WaveInv'
<1> SUFFICES ASSUME LargeEnough, WaveInv, [WaveNext]_waveVars PROVE WaveInv'
  OBVIOUS
<1>0. WaveScreen.width \in Nat /\ WaveScreen.height \in Nat
  BY ScreenSize
<1>1. ASSUME NEW s \in Sines, DrawWave(s) PROVE WaveInv'
  <2>1. /\ i \in 0..WaveScreen.width /\ i' = i + 1
        /\ i' \in 0..(WaveScreen.width + 1) /\ i' >= 1 /\ i' - 1 = i
    BY <1>0, <1>1 DEF DrawWave, WaveInv
  <2>2. PICK p \in ScreenPoint(s) :
          IF OnScreen(p, WaveScreen)
            THEN /\ strokes' = IF prev = << >> THEN strokes ELSE ThickLine(prev[1], p)
                 /\ prev' = <<p>>
            ELSE prev' = << >> /\ UNCHANGED strokes
    BY <1>1 DEF DrawWave
  <2>3. p = <<PlaceOf(i), p[2]>> /\ p[2] \in 2..(WaveScreen.height - 3)
    <3>1. p = <<p[1], p[2]>>
      BY DEF ScreenPoint
    <3> QED
      BY <2>1, <3>1, PointRange
  <2>4. LastPoint'
    BY <2>1, <2>2, <2>3 DEF LastPoint, PlaceOf
  <2>5. StrokesOnScreen'
    <3>1. CASE strokes' = strokes
      BY <3>1 DEF WaveInv, StrokesOnScreen, OnScreen
    <3>2. CASE prev # << >> /\ strokes' = ThickLine(prev[1], p)
      <4>1. /\ i \in 1..WaveScreen.width
            /\ prev[1] = <<PlaceOf(i - 1), prev[1][2]>>
            /\ prev[1][2] \in 2..(WaveScreen.height - 3)
        BY <1>0, <2>1, <3>2 DEF WaveInv, LastPoint
      <4>2. strokes' = ThickLine(<<PlaceOf(i - 1), prev[1][2]>>, <<PlaceOf(i), p[2]>>)
        BY <2>3, <3>2, <4>1, Zenon
      <4>3. \A stroke \in strokes' : \A k \in DOMAIN stroke : OnScreen(stroke[k], WaveScreen)
        BY <2>3, <4>1, <4>2, StrokeOnScreen
      <4> QED
        BY <4>3 DEF StrokesOnScreen, OnScreen
    <3> QED
      BY <2>2, <3>1, <3>2
  <2> QED
    BY <2>1, <2>4, <2>5 DEF WaveInv
<1>2. CASE EndFrame
  BY <1>0, <1>2 DEF EndFrame, WaveInv, LastPoint, StrokesOnScreen
<1>3. CASE UNCHANGED waveVars
  BY <1>3 DEF waveVars, WaveInv, LastPoint, StrokesOnScreen, PlaceOf, OnScreen
<1> QED
  BY <1>1, <1>2, <1>3 DEF WaveNext

(* The check against the screen's edges is made before a stroke is made     *)
(* thick; nevertheless no parallel line leaves a screen of 14 by 13 pixels  *)
(* or more, and no negative coordinate is converted.                       *)
THEOREM StrokesAlwaysOnScreen ==
    ASSUME LargeEnough
    PROVE  WaveSpec => []StrokesOnScreen
<1>1. WaveInit => WaveInv
  BY ScreenSize DEF WaveInit, WaveInv, LastPoint, StrokesOnScreen
<1>2. WaveInv /\ [WaveNext]_waveVars => WaveInv'
  BY WaveStep
<1>3. WaveInv => StrokesOnScreen
  BY DEF WaveInv
<1> QED
  BY <1>1, <1>2, <1>3, PTL DEF WaveSpec

-----------------------------------------------------------------------------
(* Particles.                                                              *)

ParticlesInv == frame \in 0..(FramesPerPass - 1)

(* A dot is always between the left and the right edge.                     *)
LEMMA DotXRange ==
    ASSUME ParticlesInv, NEW d \in Dots
    PROVE  DotX(d) \in 0..(ParticlesScreen.width - 1)
<1> DEFINE whole == NumDots * FramesPerPass
           at == (frame * NumDots + d * FramesPerPass) % whole
<1>1. /\ ParticlesScreen.width \in Nat /\ ParticlesScreen.width > 0
      /\ NumDots \in Nat /\ NumDots > 0 /\ FramesPerPass \in Nat /\ FramesPerPass > 0
      /\ frame \in Nat /\ d \in Nat
  BY ParticlesAssumption DEF ParticlesInv, Dots
<1>2. whole \in Nat /\ whole > 0
  BY <1>1
<1>3. frame * NumDots \in Nat /\ d * FramesPerPass \in Nat
  BY <1>1
<1>4. DotX(d) = (at * ParticlesScreen.width) \div whole
  BY DEF DotX
<1> HIDE DEF whole
<1>5. at \in Nat /\ at < whole
  BY <1>2, <1>3
<1> HIDE DEF at
<1>6. /\ at * ParticlesScreen.width \in Nat
      /\ at * ParticlesScreen.width < whole * ParticlesScreen.width
  BY <1>1, <1>2, <1>5
<1> QED
  BY <1>1, <1>2, <1>4, <1>6

(* Converted to an unsigned number or not, the displacement is added right.  *)
LEMMA DotYRange ==
    ASSUME NEW wave \in Waves, NEW y \in DotY(wave)
    PROVE  /\ y - ParticlesScreen.height \div 2 \in -14..14
           /\ y \in 0..(ParticlesScreen.height - 1)
<1> DEFINE h == ParticlesScreen.height  v == Displaced(wave)
<1>1. /\ wave \in Int /\ wave >= -200 /\ wave <= 200
      /\ h \in Nat /\ h >= 29 /\ h < 65536
  BY ParticlesAssumption
<1>2. v \in Int /\ v >= -14 /\ v <= 14
  BY <1>1 DEF Displaced
<1> HIDE DEF h, v
<1>3. PICK n \in Uint16(v) : y = (h \div 2 + n) % 65536
  BY DEF DotY, h, v
<1>4. n = v \/ n = 0 \/ (v < 0 /\ n = v + 65536)
  BY <1>2, <1>3 DEF Uint16
<1>5. y = h \div 2 + v \/ y = h \div 2
  BY <1>1, <1>2, <1>3, <1>4
<1>6. h \div 2 \in Nat /\ h \div 2 >= 14 /\ h \div 2 + 14 <= h - 1
  BY <1>1
<1> QED
  BY <1>1, <1>2, <1>5, <1>6 DEF h

(* What a step shows that draws the particles.                             *)
Shown ==
    \A d \in Dots : /\ shown'[d] # NotShown
                    /\ shown'[d][2] - ParticlesScreen.height \div 2 \in -14..14

(* Every call of Animate shows all particles.                              *)
LEMMA ParticlesStep ==
    ASSUME ParticlesInv, AnimateParticles
    PROVE  ParticlesInv' /\ Shown
<1>1. ParticlesInv'
  BY ParticlesAssumption DEF ParticlesInv, AnimateParticles
<1>2. PICK y \in [Dots -> UNION {DotY(wave) : wave \in Waves}] :
        shown' = [d \in Dots |-> IF OnScreen(<<DotX(d), y[d]>>, ParticlesScreen)
                                 THEN <<DotX(d), y[d]>> ELSE NotShown]
  BY DEF AnimateParticles
<1>3. ASSUME NEW d \in Dots
      PROVE  /\ shown'[d] # NotShown
             /\ shown'[d][2] - ParticlesScreen.height \div 2 \in -14..14
  <2>1. PICK wave \in Waves : y[d] \in DotY(wave)
    BY <1>2, <1>3
  <2>2. /\ y[d] - ParticlesScreen.height \div 2 \in -14..14
        /\ y[d] \in 0..(ParticlesScreen.height - 1)
    BY <2>1, DotYRange
  <2>3. DotX(d) \in 0..(ParticlesScreen.width - 1)
    BY <1>3, DotXRange
  <2>4. shown'[d] = <<DotX(d), y[d]>>
    BY <1>2, <1>3, <2>2, <2>3 DEF OnScreen
  <2>5. DotX(d) # -1
    BY <2>3
  <2> QED
    BY <2>2, <2>4, <2>5 DEF NotShown
<1> QED
  BY <1>1, <1>3 DEF Shown

(* No particle disappears or is displaced by more than its two sines, for   *)
(* any number of particles and of frames.                                  *)
THEOREM ParticlesAlwaysShown == ParticlesSpec => ParticlesShown
<1>1. ParticlesInit => ParticlesInv
  BY ParticlesAssumption DEF ParticlesInit, ParticlesInv
<1>2. ParticlesInv /\ [AnimateParticles]_particlesVars
        => ParticlesInv' /\ [Shown]_particlesVars
  BY ParticlesStep DEF ParticlesInv, particlesVars
<1> QED
  BY <1>1, <1>2, PTL DEF ParticlesSpec, ParticlesShown, Shown

-----------------------------------------------------------------------------
(* WaveLines.                                                              *)

(* What the assumptions say of the screen of the wave lines: three rows    *)
(* for each line, and no more of them than a uint16_t counts.              *)
LEMMA LinesSizes ==
    /\ LinesScreen.width \in Nat /\ LinesScreen.width > 1 /\ LinesScreen.width < 65536
    /\ LinesScreen.height \in Nat /\ LinesScreen.height < 65536
    /\ LinesCount \in Nat /\ LinesCount > 0
    /\ LinesScreen.height >= 3 * (LinesCount + 1)
  BY LinesAssumption

(* What is eased leaves the range of 0 to 100 by rounding only.            *)
LEMMA EaseRange ==
    ASSUME NEW p \in Int, p >= -11, p <= 100
    PROVE  EaseWithGamma(p) \in Int /\ EaseWithGamma(p) >= -1 /\ EaseWithGamma(p) <= 100
<1>1. CASE p < 0
  <2>1. p * p \in Nat /\ p * p <= 121
    BY <1>1
  <2>2. (p * p) * p >= -1331 /\ (p * p) * p <= 0
    BY <1>1, <2>1
  <2> QED
    BY <1>1, <2>2 DEF EaseWithGamma
<1>2. CASE p >= 0 /\ p < 50
  <2>1. p * p \in Nat /\ p * p <= 2500
    BY <1>2
  <2>2. (p * p) * p >= 0 /\ (p * p) * p <= 125000
    BY <1>2, <2>1
  <2> QED
    BY <1>2, <2>2 DEF EaseWithGamma
<1>3. CASE p >= 50
  <2> DEFINE r == 100 - p
  <2>1. r \in Nat /\ r <= 50
    BY <1>3
  <2>2. EaseWithGamma(p) = 100 - (4 * r * r * r) \div 10000
    BY <1>3 DEF EaseWithGamma
  <2> HIDE DEF r
  <2>3. r * r \in Nat /\ r * r <= 2500
    BY <2>1
  <2>4. (r * r) * r \in Nat /\ (r * r) * r <= 125000
    BY <2>1, <2>3
  <2> QED
    BY <2>1, <2>2, <2>4
<1> QED
  BY <1>1, <1>2, <1>3

(* So does an amplitude that is eased.                                     *)
LEMMA EasedRange ==
    ASSUME NEW a \in Amplitudes
    PROVE  Eased(a) \in Int /\ Eased(a) >= -1 /\ Eased(a) <= 100
<1> DEFINE b == 100 - a
<1>1. b \in Int /\ b >= -5 /\ b <= 105
  BY LinesAssumption
<1> HIDE DEF b
<1>2. b * b \in Nat /\ b * b <= 11025
  BY <1>1
<1>3. (10000 - b * b) \div 100 \in Int
      /\ (10000 - b * b) \div 100 >= -11 /\ (10000 - b * b) \div 100 <= 100
  BY <1>2
<1> QED
  BY <1>3, EaseRange DEF Eased, b

(* Two displacements at one column differ by less than the distance of two   *)
(* lines, though each may be more than half of it.                         *)
LEMMA DisplacementRange ==
    ASSUME NEW c \in Columns, NEW a1 \in Amplitudes, NEW a2 \in Amplitudes
    PROVE  LET d1 == Displacement(a1, c)  d2 == Displacement(a2, c)
           IN  /\ d1 \in Int /\ d1 >= -60000 /\ d1 <= 60000
               /\ d2 \in Int /\ d1 - d2 <= 60600
<1> DEFINE s == Swing[c]  e1 == Eased(a1)  e2 == Eased(a2)
<1>1. /\ s \in Int /\ s >= -100 /\ s <= 100
      /\ e1 \in Int /\ e1 >= -1 /\ e1 <= 100
      /\ e2 \in Int /\ e2 >= -1 /\ e2 <= 100
  BY LinesAssumption, EasedRange
<1>2. Displacement(a1, c) = 6 * (e1 * s) /\ Displacement(a2, c) = 6 * (e2 * s)
  BY <1>1 DEF Displacement
<1> HIDE DEF s, e1, e2
<1>3. e1 * s \in Int /\ e1 * s >= -10000 /\ e1 * s <= 10000
  BY <1>1
<1>4. e2 * s \in Int /\ (e1 - e2) * s = e1 * s - e2 * s
  BY <1>1
<1>5. (e1 - e2) * s <= 10100
  BY <1>1
<1> QED
  BY <1>2, <1>3, <1>4, <1>5

(* The row of line l at a column, for an amplitude.                         *)
Row(l, a, c) ==
    LET share == 100000 * (LinesCount + 1)
    IN  (2 * LinesScreen.height * ((l + 1) * 100000 + Displacement(a, c)) + share)
          \div (2 * share)

(* Every row of every line is one of the screen's.                          *)
LEMMA RowRange ==
    ASSUME NEW l \in 0..(LinesCount - 1), NEW a \in Amplitudes, NEW c \in Columns
    PROVE  Row(l, a, c) \in 0..(LinesScreen.height - 1)
<1> DEFINE n == LinesCount + 1  h == LinesScreen.height
           at == (l + 1) * 100000 + Displacement(a, c)
<1>1. h \in Nat /\ n \in Nat /\ n > 1 /\ h >= 3 * n /\ l \in Nat /\ l + 1 <= n - 1
  BY LinesSizes
<1>2. /\ Displacement(a, c) \in Int
      /\ Displacement(a, c) >= -60000 /\ Displacement(a, c) <= 60000
  BY DisplacementRange
<1>3. at \in Nat /\ at <= 100000 * n - 40000
  BY <1>1, <1>2
<1>4. Row(l, a, c) = (2 * (h * at) + 100000 * n) \div (2 * (100000 * n))
  BY <1>1, <1>3 DEF Row
<1> HIDE DEF n, h, at
<1>5. h * at \in Nat /\ h * at <= h * (100000 * n - 40000)
  BY <1>1, <1>3
<1>6. h * (100000 * n - 40000) = h * (100000 * n) - 40000 * h /\ h * (100000 * n) \in Nat
  BY <1>1
<1>7. 40000 * h >= 120000 * n
  BY <1>1
<1> DEFINE whole == 2 * (100000 * n)  num == 2 * (h * at) + 100000 * n
<1>8. /\ whole \in Nat /\ whole > 0 /\ num \in Nat
      /\ num < h * whole
  BY <1>1, <1>5, <1>6, <1>7
<1>9. Row(l, a, c) = num \div whole
  BY <1>4
<1> HIDE DEF whole, num
<1>10. num \div whole \in Nat /\ num \div whole < h
  BY <1>1, <1>8
<1> QED
  BY <1>1, <1>9, <1>10 DEF h

(* Every row of a line is above every row of the next one at the same        *)
(* column.                                                                 *)
LEMMA RowsApart ==
    ASSUME NEW l \in 0..(LinesCount - 1), l > 0, NEW c \in Columns,
           NEW a1 \in Amplitudes, NEW a2 \in Amplitudes
    PROVE  Row(l - 1, a1, c) < Row(l, a2, c)
<1> DEFINE n == LinesCount + 1  h == LinesScreen.height
           upper == l * 100000 + Displacement(a1, c)
           lower == (l + 1) * 100000 + Displacement(a2, c)
<1>1. h \in Nat /\ n \in Nat /\ n > 1 /\ h >= 3 * n /\ l \in Nat
  BY LinesSizes
<1>2. /\ Displacement(a1, c) \in Int /\ Displacement(a2, c) \in Int
      /\ Displacement(a1, c) - Displacement(a2, c) <= 60600
  BY DisplacementRange
<1>3. upper \in Int /\ lower \in Int /\ lower - upper >= 39400
  BY <1>1, <1>2
<1>4. /\ Row(l - 1, a1, c) = (2 * (h * upper) + 100000 * n) \div (2 * (100000 * n))
      /\ Row(l, a2, c) = (2 * (h * lower) + 100000 * n) \div (2 * (100000 * n))
  <2>1. (l - 1) + 1 = l
    BY <1>1
  <2> QED
    BY <1>1, <1>3, <2>1 DEF Row
<1> HIDE DEF n, h, upper, lower
<1>5. /\ h * upper \in Int /\ h * lower \in Int
      /\ h * lower - h * upper = h * (lower - upper)
      /\ h * (lower - upper) >= h * 39400
  BY <1>1, <1>3
<1> DEFINE whole == 2 * (100000 * n)
           num1 == 2 * (h * upper) + 100000 * n  num2 == 2 * (h * lower) + 100000 * n
<1>6. /\ whole \in Nat /\ whole > 0 /\ num1 \in Int /\ num2 \in Int
      /\ num2 >= num1 + whole
  BY <1>1, <1>5
<1>7. Row(l - 1, a1, c) = num1 \div whole /\ Row(l, a2, c) = num2 \div whole
  BY <1>4
<1> HIDE DEF whole, num1, num2
<1>8. num1 \div whole \in Int /\ num2 \div whole \in Int
      /\ num1 \div whole < num2 \div whole
  <2>1. (num1 + whole) \div whole = num1 \div whole + 1
    BY <1>6
  <2>2. num2 \div whole >= (num1 + whole) \div whole
    BY <1>6
  <2> QED
    BY <1>6, <2>1, <2>2
<1> QED
  BY <1>7, <1>8

(* The last column may come out as the width; it is not drawn then.         *)
Visible(c) == ScreenX(c) < LinesScreen.width

OnLine(l, c, p) == \E a \in Amplitudes : p[2] = Row(l, a, c)

(* A stroke of line l to column c, from the column before if that is drawn.  *)
StrokeOf(l, c, stroke) ==
    IF c > 0 /\ Visible(c - 1)
      THEN Len(stroke) = 2 /\ DOMAIN stroke = {1, 2}
           /\ OnLine(l, c - 1, stroke[1]) /\ OnLine(l, c, stroke[2])
      ELSE Len(stroke) = 1 /\ DOMAIN stroke = {1} /\ OnLine(l, c, stroke[1])

(* The columns before the present one hold the line that is being drawn,     *)
(* the others the line above it, if any.                                   *)
LineAt(c) == IF c < column THEN line ELSE line - 1

ColumnsDrawn ==
    /\ DOMAIN drawn = Columns
    /\ \A c \in Columns : IF Visible(c) /\ LineAt(c) >= 0
                          THEN StrokeOf(LineAt(c), c, drawn[c])
                          ELSE drawn[c] = << >>

LastDrawn ==
    IF column > 0 /\ Visible(column - 1)
      THEN last = <<last[1]>> /\ OnLine(line, column - 1, last[1])
      ELSE last = << >>

LinesInv ==
    /\ line \in 0..(LinesCount - 1) /\ column \in 0..LinesScreen.width
    /\ ColumnsDrawn /\ LastDrawn

(* The step's part of LinesApart.                                          *)
Below ==
    \A c \in Columns : drawn'[c] # << >> /\ drawn[c] # drawn'[c] =>
      /\ line > 0 => Len(drawn'[c]) = Len(drawn[c])
      /\ \A k \in DOMAIN drawn[c] : drawn'[c][k][2] > drawn[c][k][2]

(* A column has its place on the screen, or right behind its edge.         *)
LEMMA ScreenXRange ==
    ASSUME NEW c \in Columns
    PROVE  ScreenX(c) \in 0..LinesScreen.width
<1> DEFINE w == LinesScreen.width
<1>1. w \in Nat /\ w > 1 /\ c \in Nat /\ c <= w - 1
  BY LinesSizes DEF Columns
<1>2. c * w \in Nat /\ c * w <= (w - 1) * w
  BY <1>1
<1> DEFINE num == 2 * (c * w) + w - 1  whole == 2 * (w - 1)
<1>3. ScreenX(c) = num \div whole
  BY <1>1 DEF ScreenX
<1> HIDE DEF w
<1>4. num \in Nat /\ whole \in Nat /\ whole > 0 /\ num < (w + 1) * whole
  <2>1. (w + 1) * whole = 2 * ((w - 1) * w) + 2 * (w - 1)
    BY <1>1
  <2> QED
    BY <1>1, <1>2, <2>1
<1> HIDE DEF num, whole
<1>5. num \div whole \in Nat /\ num \div whole < w + 1
  BY <1>1, <1>4
<1> QED
  BY <1>1, <1>3, <1>5 DEF w

(* Of a stroke of one line and the one in its place of the line above.      *)
LEMMA StrokesApart ==
    ASSUME NEW l \in 0..(LinesCount - 1), l > 0, NEW c \in Columns,
           NEW upper, NEW lower, StrokeOf(l - 1, c, upper), StrokeOf(l, c, lower)
    PROVE  /\ Len(lower) = Len(upper)
           /\ \A k \in DOMAIN upper : lower[k][2] > upper[k][2]
<1>1. ASSUME NEW d \in Columns, NEW p, NEW q, OnLine(l - 1, d, p), OnLine(l, d, q)
      PROVE  q[2] > p[2]
  <2>1. PICK a1 \in Amplitudes, a2 \in Amplitudes :
          p[2] = Row(l - 1, a1, d) /\ q[2] = Row(l, a2, d)
    BY <1>1 DEF OnLine
  <2>2. Row(l - 1, a1, d) < Row(l, a2, d)
    BY RowsApart
  <2>3. l - 1 \in 0..(LinesCount - 1)
    BY LinesSizes
  <2>4. Row(l - 1, a1, d) \in Int /\ Row(l, a2, d) \in Int
    BY <2>3, RowRange
  <2> QED
    BY <2>1, <2>2, <2>4
<1>2. CASE c > 0 /\ Visible(c - 1)
  <2>1. c - 1 \in Columns
    BY <1>2, LinesSizes DEF Columns
  <2>2. /\ Len(upper) = 2 /\ DOMAIN upper = {1, 2}
        /\ OnLine(l - 1, c - 1, upper[1]) /\ OnLine(l - 1, c, upper[2])
    BY <1>2 DEF StrokeOf
  <2>3. Len(lower) = 2 /\ OnLine(l, c - 1, lower[1]) /\ OnLine(l, c, lower[2])
    BY <1>2 DEF StrokeOf
  <2> QED
    BY <1>1, <2>1, <2>2, <2>3
<1>3. CASE ~(c > 0 /\ Visible(c - 1))
  <2>1. /\ Len(upper) = 1 /\ DOMAIN upper = {1} /\ OnLine(l - 1, c, upper[1])
        /\ Len(lower) = 1 /\ OnLine(l, c, lower[1])
    BY <1>3 DEF StrokeOf
  <2> QED
    BY <1>1, <2>1
<1> QED
  BY <1>2, <1>3

(* A column drawn for a line is below the same column of the line before.  *)
LEMMA DrawStep ==
    ASSUME LinesInv, NEW a \in Amplitudes, DrawColumn(a)
    PROVE  LinesInv' /\ Below
<1>1. /\ column \in Columns /\ column' = column + 1 /\ line' = line
      /\ column \in Nat /\ column < LinesScreen.width
      /\ line \in 0..(LinesCount - 1) /\ line \in Nat
  BY LinesSizes DEF DrawColumn, Columns, LinesInv
<1>2. PICK x \in Uint16(ScreenX(column)), y \in Uint16(ScreenY(a, column)) :
        IF OnScreen(<<x, y>>, LinesScreen)
          THEN /\ drawn' = [drawn EXCEPT ![column] = Append(last, <<x, y>>)]
               /\ last' = << <<x, y>> >>
          ELSE last' = << >> /\ UNCHANGED drawn
  BY DEF DrawColumn
<1>3. x = ScreenX(column) /\ x \in 0..LinesScreen.width
      /\ y = Row(line, a, column) /\ y \in 0..(LinesScreen.height - 1)
  <2>1. ScreenX(column) \in 0..LinesScreen.width
    BY <1>1, ScreenXRange
  <2>2. ScreenY(a, column) = Row(line, a, column)
    BY DEF ScreenY, Row
  <2>3. Row(line, a, column) \in 0..(LinesScreen.height - 1)
    BY <1>1, RowRange
  <2>4. /\ ScreenX(column) \in Nat /\ ScreenX(column) < 65536
        /\ ScreenY(a, column) \in Nat /\ ScreenY(a, column) < 65536
    BY <2>1, <2>2, <2>3, LinesSizes
  <2>5. Uint16(ScreenX(column)) = {ScreenX(column)} /\ Uint16(ScreenY(a, column)) = {ScreenY(a, column)}
    BY <2>4 DEF Uint16
  <2> QED
    BY <2>1, <2>2, <2>3, <2>5
<1>4. OnScreen(<<x, y>>, LinesScreen) <=> Visible(column)
  BY <1>3, LinesSizes DEF OnScreen, Visible
<1>5. /\ LineAt(column) = line - 1
      /\ \A c \in Columns : LineAt(c)' = IF c = column THEN line ELSE LineAt(c)
  BY <1>1, LinesSizes DEF LineAt, Columns
<1>6. \A c : Visible(c)' = Visible(c)
  BY DEF Visible, ScreenX
<1>7. OnLine(line, column, <<x, y>>)
  BY <1>3 DEF OnLine
<1>8. CASE Visible(column)
  <2>1. /\ drawn' = [drawn EXCEPT ![column] = Append(last, <<x, y>>)]
        /\ last' = << <<x, y>> >>
    BY <1>2, <1>4, <1>8
  <2>2. DOMAIN drawn' = Columns /\ drawn'[column] = Append(last, <<x, y>>)
        /\ \A c \in Columns : c # column => drawn'[c] = drawn[c]
    BY <1>1, <2>1 DEF LinesInv, ColumnsDrawn
  <2>3. StrokeOf(line, column, drawn'[column])
    <3>1. CASE column > 0 /\ Visible(column - 1)
      <4>1. PICK q : last = <<q>> /\ OnLine(line, column - 1, q)
        BY <3>1 DEF LinesInv, LastDrawn
      <4>2. /\ Len(drawn'[column]) = 2 /\ DOMAIN drawn'[column] = {1, 2}
            /\ drawn'[column][1] = q /\ drawn'[column][2] = <<x, y>>
        BY <2>2, <4>1
      <4> QED
        BY <1>7, <3>1, <4>1, <4>2 DEF StrokeOf
    <3>2. CASE ~(column > 0 /\ Visible(column - 1))
      <4>1. last = << >>
        BY <3>2 DEF LinesInv, LastDrawn
      <4>2. drawn'[column] = << <<x, y>> >>
        BY <2>2, <4>1
      <4> QED
        BY <1>7, <3>2, <4>2 DEF StrokeOf
    <3> QED
      BY <3>1, <3>2
  <2>4. \A c \in Columns : IF Visible(c) /\ LineAt(c)' >= 0
                           THEN StrokeOf(LineAt(c)', c, drawn'[c])
                           ELSE drawn'[c] = << >>
    <3>1. ASSUME NEW c \in Columns, c # column
          PROVE  IF Visible(c) /\ LineAt(c)' >= 0 THEN StrokeOf(LineAt(c)', c, drawn'[c])
                                                  ELSE drawn'[c] = << >>
      BY <1>5, <2>2, <3>1 DEF LinesInv, ColumnsDrawn
    <3>2. LineAt(column) = line - 1 /\ \A c \in Columns : c = column => LineAt(c)' = line
      BY <1>5
    <3>3. ASSUME NEW c \in Columns, c = column
          PROVE  IF Visible(c) /\ LineAt(c)' >= 0 THEN StrokeOf(LineAt(c)', c, drawn'[c])
                                                  ELSE drawn'[c] = << >>
      BY <1>1, <1>8, <2>3, <3>2, <3>3
    <3> QED
      BY <3>1, <3>3
  <2>5. ColumnsDrawn'
    BY <1>6, <2>2, <2>4 DEF ColumnsDrawn, StrokeOf, OnLine, Row, Displacement, Visible, ScreenX
  <2>6. LastDrawn'
    BY <1>1, <1>7, <1>8, <2>1 DEF LastDrawn, Visible, ScreenX, OnLine, Row
  <2>7. Below
    <3> SUFFICES ASSUME NEW c \in Columns, drawn[c] # drawn'[c]
                 PROVE  /\ line > 0 => Len(drawn'[c]) = Len(drawn[c])
                        /\ \A k \in DOMAIN drawn[c] : drawn'[c][k][2] > drawn[c][k][2]
      BY DEF Below
    <3>1. c = column
      BY <2>2
    <3>2. CASE line > 0
      <4>1. StrokeOf(line - 1, column, drawn[column])
        BY <1>1, <1>5, <1>8, <3>2 DEF LinesInv, ColumnsDrawn
      <4> QED
        BY <1>1, <2>3, <3>1, <3>2, <4>1, StrokesApart
    <3>3. CASE line = 0
      <4>1. drawn[column] = << >>
        BY <1>1, <1>5, <3>3 DEF LinesInv, ColumnsDrawn
      <4> QED
        BY <3>1, <3>3, <4>1
    <3> QED
      BY <1>1, <3>2, <3>3
  <2> QED
    BY <1>1, <2>5, <2>6, <2>7, LinesSizes DEF LinesInv
<1>9. CASE ~Visible(column)
  <2>1. last' = << >> /\ drawn' = drawn
    BY <1>2, <1>4, <1>9
  <2>2. ColumnsDrawn'
    <3>1. \A c \in Columns : IF Visible(c) /\ LineAt(c)' >= 0
                             THEN StrokeOf(LineAt(c)', c, drawn'[c])
                             ELSE drawn'[c] = << >>
      BY <1>1, <1>5, <1>9, <2>1 DEF LinesInv, ColumnsDrawn
    <3> QED
      BY <1>6, <2>1, <3>1 DEF LinesInv, ColumnsDrawn, StrokeOf, OnLine, Row, Displacement, Visible, ScreenX
  <2>3. LastDrawn'
    BY <1>1, <1>9, <2>1 DEF LastDrawn, Visible, ScreenX
  <2> QED
    BY <1>1, <2>1, <2>2, <2>3, LinesSizes DEF LinesInv, Below
<1> QED
  BY <1>8, <1>9

(* Every step of the loops over the lines and columns keeps them apart.    *)
LEMMA LinesStep == LinesInv /\ [LinesNext]_linesVars => LinesInv' /\ [Below]_linesVars
<1> SUFFICES ASSUME LinesInv, [LinesNext]_linesVars PROVE LinesInv' /\ [Below]_linesVars
  OBVIOUS
<1>1. CASE \E a \in Amplitudes : DrawColumn(a)
  BY <1>1, DrawStep
<1>2. CASE NextLine
  <2>1. /\ line \in Nat /\ line <= LinesCount - 1 /\ column = LinesScreen.width
        /\ column' = 0 /\ last' = << >>
        /\ IF line + 1 < LinesCount THEN line' = line + 1 /\ drawn' = drawn
                                    ELSE line' = 0 /\ drawn' = NothingDrawn
        /\ line' \in 0..(LinesCount - 1)
    BY <1>2, LinesSizes DEF NextLine, LinesInv, Columns
  <2>2. LastDrawn'
    BY <2>1 DEF LastDrawn
  <2>3. CASE line + 1 < LinesCount
    <3>1. \A c \in Columns : LineAt(c) = line /\ LineAt(c)' = line
      BY <2>1, <2>3, LinesSizes DEF LineAt, Columns
    <3>2. ColumnsDrawn'
      BY <2>1, <2>3, <3>1
      DEF LinesInv, ColumnsDrawn, StrokeOf, OnLine, Row, Displacement, Visible, ScreenX
    <3>3. Below
      BY <2>1, <2>3 DEF Below
    <3> QED
      BY <2>1, <2>2, <3>2, <3>3, LinesSizes DEF LinesInv
  <2>4. CASE line + 1 >= LinesCount
    <3>1. drawn' = NothingDrawn /\ line' = 0
      BY <2>1, <2>4, LinesSizes
    <3>2. \A c \in Columns : ~(LineAt(c)' >= 0)
      BY <2>1, <3>1, LinesSizes DEF LineAt, Columns
    <3>3. ColumnsDrawn'
      BY <3>1, <3>2 DEF ColumnsDrawn, NothingDrawn
    <3>4. Below
      BY <3>1 DEF Below, NothingDrawn
    <3> QED
      BY <2>1, <2>2, <3>3, <3>4, LinesSizes DEF LinesInv
  <2> QED
    BY <2>1, <2>3, <2>4, LinesSizes
<1>3. CASE UNCHANGED linesVars
  BY <1>3 DEF linesVars, LinesInv, ColumnsDrawn, LastDrawn, LineAt, StrokeOf, OnLine, Row,
              Displacement, Visible, ScreenX
<1> QED
  BY <1>1, <1>2, <1>3 DEF LinesNext

(* "Calculate maximum amplitude so lines don't overlap": for any number of   *)
(* lines, any wave and any amplitudes, on every screen with three rows for  *)
(* each line, every stroke lies below the one it meets of the line above.   *)
THEOREM LinesAlwaysApart == LinesSpec => LinesApart
<1>1. LinesInit => LinesInv
  <2> SUFFICES ASSUME LinesInit PROVE LinesInv
    OBVIOUS
  <2>1. line = 0 /\ column = 0 /\ last = << >> /\ drawn = NothingDrawn
    BY DEF LinesInit
  <2>2. \A c \in Columns : ~(LineAt(c) >= 0)
    BY <2>1, LinesSizes DEF LineAt, Columns
  <2> QED
    BY <2>1, <2>2, LinesSizes DEF LinesInv, ColumnsDrawn, LastDrawn, NothingDrawn
<1>2. LinesInv /\ [LinesNext]_linesVars => LinesInv' /\ [Below]_linesVars
  BY LinesStep
<1> QED
  BY <1>1, <1>2, PTL DEF LinesSpec, LinesApart, Below

-----------------------------------------------------------------------------
(* Whatever class of animation is started, each animation's variables move   *)
(* as its own specification says, so that all of the above holds of it.     *)
THEOREM EachAnimationBehaves ==
    AnimationSpec => DotSpec /\ LinesSpec /\ WaveSpec /\ ParticlesSpec
<1>1. StartAnimation => DotInit /\ LinesInit /\ WaveInit /\ ParticlesInit
  BY DEF StartAnimation
<1>2. [AnimationNext]_animationVars
        => /\ [DotNext]_dotVars /\ [LinesNext]_linesVars
           /\ [WaveNext]_waveVars /\ [AnimateParticles]_particlesVars
  BY DEF AnimationNext, animationVars, pictureVars
<1> QED
  BY <1>1, <1>2, PTL DEF AnimationSpec, DotSpec, LinesSpec, WaveSpec, ParticlesSpec
===============================================================================
