------------------------------ MODULE WaveLines ------------------------------
(***************************************************************************)
(* The wave lines animation, views/animations/wave_lines_animation.cpp:     *)
(* one line above the other, each drawn from column to column.  The wave   *)
(* along a line is the same for all lines.  Its amplitude fades in and out *)
(* with the time (frame_) and with the distance from the centre, and may be *)
(* any value the formula can give, in hundredths.                          *)
(***************************************************************************)
EXTENDS Pixels, Sequences

CONSTANTS
    LinesScreen,  \* width and height
    LinesCount,   \* LINES_COUNT
    Swing,        \* per column, cosf(wave_phase) in hundredths
    Amplitudes    \* outcomes of the amplitude, in hundredths

Columns == 0 .. LinesScreen.width - 1

(* A line has less than a third of its share of the screen to itself.      *)
ASSUME LinesAssumption ==
    /\ LinesScreen \in [width : Nat, height : Nat] /\ LinesScreen.width > 1
    /\ LinesScreen.width < 65536 /\ LinesScreen.height < 65536
    /\ LinesCount \in Nat \ {0} /\ LinesScreen.height >= 3 * (LinesCount + 1)
    /\ Swing \in [Columns -> -100..100]
    /\ Amplitudes \subseteq -5..105

VARIABLES
    line, column,  \* the two loops
    last,          \* prev_point, or nothing if has_prev is not set
    drawn          \* per column, the last stroke to it: a point, or a line's two ends

linesVars == <<line, column, last, drawn>>

NothingDrawn == [i \in Columns |-> << >>]

LinesInit == line = 0 /\ column = 0 /\ last = << >> /\ drawn = NothingDrawn

(* EaseWithGamma(p, 3), in hundredths.                                     *)
EaseWithGamma(p) ==
    IF p < 50 THEN (4 * p * p * p) \div 10000
              ELSE 100 - (4 * (100 - p) * (100 - p) * (100 - p)) \div 10000

Eased(a) == EaseWithGamma((10000 - (100 - a) * (100 - a)) \div 100)

(* Mutant: max_amplitude is not halved.                                    *)
DisplacementNotHalved(a, i) == 12 * Eased(a) * Swing[i]

(* How far a line is moved from its place, in 1/100000 of the distance of   *)
(* two lines: at most max_amplitude, 0.6 of it.                            *)
Displacement(a, i) == 6 * Eased(a) * Swing[i]

(* The point of a column, rounded.  The last column comes out as the width. *)
ScreenX(i) == LET w == LinesScreen.width IN (2 * i * w + w - 1) \div (2 * (w - 1))
ScreenY(a, i) ==
    LET share == 100000 * (LinesCount + 1)
    IN  (2 * LinesScreen.height * ((line + 1) * 100000 + Displacement(a, i)) + share)
          \div (2 * share)

(* One pass of the loop of DrawWaveLine.                                   *)
DrawColumn(a) ==
    /\ column \in Columns
    /\ column' = column + 1
    /\ \E x \in Uint16(ScreenX(column)), y \in Uint16(ScreenY(a, column)) :
         IF OnScreen(<<x, y>>, LinesScreen)
           THEN /\ drawn' = [drawn EXCEPT ![column] = Append(last, <<x, y>>)]
                /\ last' = << <<x, y>> >>
           ELSE last' = << >> /\ UNCHANGED drawn
    /\ UNCHANGED line

(* The next line, or the next frame: Animate clears the screen.            *)
NextLine ==
    /\ column \notin Columns
    /\ column' = 0 /\ last' = << >>
    /\ IF line + 1 < LinesCount THEN line' = line + 1 /\ UNCHANGED drawn
                                ELSE line' = 0 /\ drawn' = NothingDrawn

LinesNext == NextLine \/ \E a \in Amplitudes : DrawColumn(a)

LinesSpec == LinesInit /\ [][LinesNext]_linesVars

-----------------------------------------------------------------------------
(* "Calculate maximum amplitude so lines don't overlap": although two       *)
(* neighbours may each be moved by more than half of their distance, every *)
(* stroke lies below the one it meets of the line above, at both its ends,  *)
(* whatever the two amplitudes are.                                        *)
LinesApart ==
    [][\A c \in Columns : drawn'[c] # << >> /\ drawn[c] # drawn'[c] =>
         /\ line > 0 => Len(drawn'[c]) = Len(drawn[c])
         /\ \A k \in DOMAIN drawn[c] : drawn'[c][k][2] > drawn[c][k][2]]_linesVars
=============================================================================
