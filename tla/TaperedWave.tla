----------------------------- MODULE TaperedWave -----------------------------
(***************************************************************************)
(* The tapered wave, views/animations/tapered_wave_animation.cpp: a wave    *)
(* drawn from column to column as bundles of parallel lines, thickest in   *)
(* the middle.  Its time is a float that grows by 10 with every frame.     *)
(*                                                                         *)
(* The sine may be anything.  The parallel lines are shifted by up to half *)
(* the thickness along a unit vector, hence by no more in x and in y; the  *)
(* model has a line for every such shift.                                  *)
(***************************************************************************)
EXTENDS Pixels, Sequences

CONSTANTS
    WaveScreen,   \* width and height
    Sines,        \* outcomes of the sine, in hundredths
    Precision     \* bits of a float's significand

ASSUME WaveAssumption ==
    /\ WaveScreen \in [width : Nat \ {0}, height : Nat \ {0}]
    /\ Sines \subseteq -100..100
    /\ Precision \in Nat /\ Precision >= 4

VARIABLES
    waveTime,   \* time_
    i,          \* the loop over the columns
    prev,       \* prev_point, or nothing if has_prev is not set
    strokes     \* the lines drawn last: their ends, before the conversion

waveVars == <<waveTime, i, prev, strokes>>

WaveInit == waveTime = 0 /\ i = 0 /\ prev = << >> /\ strokes = {}

(* The distance of floats at t, and the float nearest to t, between two the *)
(* even one.                                                               *)
Spacing(t) ==
    LET wide == {k \in 0..8 : t < 2^(Precision + k)}
    IN  2^(CHOOSE k \in wide : \A m \in wide : k <= m)

Rounded(t) ==
    LET u == Spacing(t)  q == t \div u  r == t % u
    IN  IF 2 * r < u \/ (2 * r = u /\ q % 2 = 0) THEN q * u ELSE (q + 1) * u

(* Mutant: a step of 8.                                                    *)
AdvanceBy8(t) == Rounded(t + 8)

Advance(t) == Rounded(t + 10)

ScreenPoint(s) ==
    Uint16((WaveScreen.width + 18 * i + 10) \div 20)
      \X Uint16((WaveScreen.height * (500 + 3 * s) + 500) \div 1000)

(* Mutant: the wave is thickest at its end.                                *)
HalfThicknessRising == (WaveScreen.width + 14 * i) \div (2 * WaveScreen.width)

(* half_thickness, from the weight at column i.                            *)
HalfThickness ==
    LET w == WaveScreen.width
    IN  (w * w + 14 * i * (w - i)) \div (2 * w * w)

Thin == 28 * i * (WaveScreen.width - i) <= WaveScreen.width * WaveScreen.width

Shift(p, d) == <<p[1] + d[1], p[2] + d[2]>>

(* DrawThickLine.                                                          *)
ThickLine(p1, p2) ==
    IF Thin THEN { <<p1, p2>> }
    ELSE IF p1 = p2 THEN { <<p1>> }
    ELSE LET box == -HalfThickness .. HalfThickness
         IN  {<<Shift(p1, d), Shift(p2, d)>> : d \in box \X box}

(* One pass of the loop of Animate.                                        *)
DrawWave(s) ==
    /\ i <= WaveScreen.width
    /\ i' = i + 1
    /\ \E p \in ScreenPoint(s) :
         IF OnScreen(p, WaveScreen)
           THEN /\ strokes' = IF prev = << >> THEN strokes ELSE ThickLine(prev[1], p)
                /\ prev' = <<p>>
           ELSE prev' = << >> /\ UNCHANGED strokes
    /\ UNCHANGED waveTime

EndFrame ==
    /\ i > WaveScreen.width
    /\ waveTime' = Advance(waveTime)
    /\ i' = 0 /\ prev' = << >> /\ strokes' = {}

WaveNext == EndFrame \/ \E s \in Sines : DrawWave(s)

WaveSpec == WaveInit /\ [][WaveNext]_waveVars

-----------------------------------------------------------------------------
(* The bounds check is made before a stroke is made thick.  The parallel    *)
(* lines nevertheless stay on the screen, and none of their coordinates is  *)
(* negative when it is converted: the wave is thin where it ends and leaves *)
(* room above and below.                                                   *)
StrokesOnScreen ==
    \A stroke \in strokes : \A k \in DOMAIN stroke : OnScreen(stroke[k], WaveScreen)

(* Every frame moves the wave on, by 16 at most, for as long as the sum in   *)
(* floating point permits: until the time is 16 times the largest number    *)
(* below which all integers are floats (some ten days of 30 frames a        *)
(* second), when it stands still for ever.                                 *)
TimeMoves ==
    [][i > WaveScreen.width =>
         LET step == waveTime' - waveTime
         IN  IF waveTime < 2^(Precision + 4) THEN step \in 8..16 ELSE step = 0]_waveVars
=============================================================================
