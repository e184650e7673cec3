------------------------------- MODULE DotPath -------------------------------
(***************************************************************************)
(* The dot path animation, views/animations/dot_path_animation.cpp: a       *)
(* random path is generated once, then dots travel along it for ever.      *)
(*                                                                         *)
(* Lengths are integers in a unit of the instance's choice, and times are  *)
(* integers of which Unit make 1.0.  Floating point is kept where it        *)
(* matters: adding the time step, and adding the time to a dot's number,    *)
(* may be rounded.  Drawing between two points of the path (easing, sizes   *)
(* in between, circles) is left out.                                       *)
(***************************************************************************)
EXTENDS Integers, Sequences

CONSTANTS
    Sizes,     \* screen size along x and along y
    Margin,    \* empty_margin
    Starts,    \* per axis, the outcomes of GenerateRandomPosition
    Lengths,   \* the outcomes of jump_dist
    Longest,   \* its upper limit
    Diag,      \* per length, its product with DIAGONAL
    N,         \* NUMBER_OF_JUMPS
    DotCount,  \* DOT_COUNT
    Unit,      \* 1.0 on the scale of time_
    Step,      \* 0.02 on that scale
    Guard      \* the path is walked up to the fraction 1 - 1/Guard of it (0.9999)

Axes == {"x", "y"}

ASSUME DotPathAssumption ==
    /\ Sizes \in [Axes -> Nat] /\ Margin \in Nat
    /\ \A a \in Axes : Starts[a] \subseteq Margin .. Sizes[a] - Margin
    /\ Longest \in Nat /\ Lengths \subseteq 1..Longest
    /\ Diag \in [Lengths -> Nat] /\ \A j \in Lengths : Diag[j] <= j
    /\ {N, DotCount} \subseteq Nat \ {0}
    /\ Step \in Nat /\ Step > 1 /\ Unit \in Nat /\ Unit > Step + 1
    /\ Guard \in Nat /\ Guard > 1

VARIABLES
    positions,   \* positions_
    sizes,       \* sizes_: 0, or 1 for a random size
    time         \* time_

dotVars == <<positions, sizes, time>>

Position == [Axes -> Int]
Last     == positions[Len(positions)]
Complete == Len(positions) = N + 1

(* Initialize up to its call of GeneratePath.                              *)
DotInit ==
    /\ \E x \in Starts["x"], y \in Starts["y"] :
         positions = <<[a \in Axes |-> IF a = "x" THEN x ELSE y]>>
    /\ sizes = <<0>>
    /\ time = 0

(* ApplyJump: the eight directions, as what a jump of length j adds to x    *)
(* and y.                                                                  *)
Offsets(j) ==
    {<<j, 0>>, <<-j, 0>>, <<0, j>>, <<0, -j>>}
      \cup ({Diag[j], -Diag[j]} \X {Diag[j], -Diag[j]})

(* Mutant: the correction adds the jump on both sides.                     *)
ClampToBoundsOneWay(c, j, size) ==
    IF c > size - Margin \/ c < Margin THEN c + 2 * j ELSE c

(* ClampToBounds along one axis: a coordinate that left the margins is      *)
(* moved back by twice the jump, and not looked at again.                  *)
ClampToBounds(c, j, size) ==
    IF c > size - Margin THEN c - 2 * j
    ELSE IF c < Margin THEN c + 2 * j ELSE c

(* One pass of the loop of GeneratePath.                                   *)
GenerateJump(j, offset) ==
    /\ ~Complete
    /\ positions' = Append(positions,
         [a \in Axes |->
            ClampToBounds(Last[a] + offset[IF a = "x" THEN 1 ELSE 2], j, Sizes[a])])
    /\ sizes' = Append(sizes, IF Len(positions) = N THEN 0 ELSE 1)
    /\ UNCHANGED time

(* Mutant: without the factor 0.9999.                                      *)
SegmentUnguarded(at) == (at * N) \div (DotCount * Unit)

(* GetPositionAndSize: the segment of the path, counted from 0, on which a  *)
(* dot is drawn whose number plus the time came out as at.                 *)
Segment(at) == (at * N * (Guard - 1)) \div (DotCount * Unit * Guard)

(* A dot's number plus the time, in floating point: so close to the next    *)
(* number it may be rounded up to it.                                      *)
Sums(dot) == {dot * Unit + time} \cup (IF time >= Unit - 1 THEN {(dot + 1) * Unit} ELSE {})

(* Mutant: the time starts again from 0.                                   *)
WrapToZero(t) == IF t >= Unit THEN 0 ELSE t

Wrap(t) == IF t >= Unit THEN t - Unit ELSE t

(* Animate advances the time, with rounding.                               *)
Animate ==
    /\ Complete
    /\ \E error \in {-1, 0, 1} : time' = Wrap(time + Step + error)
    /\ UNCHANGED <<positions, sizes>>

DotNext ==
    \/ \E j \in Lengths : \E offset \in Offsets(j) : GenerateJump(j, offset)
    \/ Animate

DotSpec == DotInit /\ [][DotNext]_dotVars

-----------------------------------------------------------------------------
Lowest(a)  == IF Margin < Sizes[a] - Margin - 2 * Longest
                THEN Margin ELSE Sizes[a] - Margin - 2 * Longest
Highest(a) == IF Sizes[a] - Margin > Margin + 2 * Longest
                THEN Sizes[a] - Margin ELSE Margin + 2 * Longest

(* ClampToBounds does not keep the path on the screen, but near it: for any *)
(* number of jumps no coordinate gets further out than two of the longest   *)
(* jumps from the opposite margin.                                         *)
ExcursionBounded ==
    \A k \in 1..Len(positions), a \in Axes :
      positions[k][a] \in Lowest(a) .. Highest(a)

MovesBack(a) ==
    LET new == positions'[Len(positions')][a]
    IN  /\ Last[a] > Sizes[a] - Margin => new < Last[a]
        /\ Last[a] < Margin => new > Last[a]

(* On a screen on which no jump leads from one margin to the other, a path  *)
(* that is outside the margins comes back: the next jump never takes it     *)
(* further out.                                                            *)
ExcursionEnds ==
    [][positions' # positions =>
         \A a \in Axes : Sizes[a] - 2 * Margin >= Longest => MovesBack(a)]_dotVars

(* Every variable has its type.                                            *)
DotTypeOK ==
    /\ positions \in Seq(Position) /\ Len(positions) \in 1 .. N + 1
    /\ sizes \in Seq({0, 1}) /\ Len(sizes) = Len(positions)
    /\ time \in 0 .. Unit - 1

(* When Animate runs, every dot lies on a segment whose two ends are in     *)
(* positions_ and sizes_, however the time was rounded.                    *)
SegmentExists ==
    Complete => \A dot \in 0 .. DotCount - 1 : \A at \in Sums(dot) :
                  Segment(at) + 2 <= Len(positions)

(* The picture has no jumps, also when the time wraps around: every dot is  *)
(* where a dot was in the last frame, moved on by a step, or has just       *)
(* entered at the beginning of the path, where dots have size 0.           *)
PictureContinuous ==
    [][Complete =>
         \A dot \in 0 .. DotCount - 1 :
           \/ \E was \in 0 .. DotCount - 1 :
                (dot * Unit + time') - (was * Unit + time) \in Step - 1 .. Step + 1
           \/ dot * Unit + time' <= Step + 1 /\ sizes[1] = 0]_dotVars
=============================================================================
