----------------------------- MODULE Particles -----------------------------
(***************************************************************************)
(* The particles, views/animations/particles_animation.cpp: dots that cross *)
(* the screen at a steady pace, displaced by the sum of two sines.  Each    *)
(* sum may be anything from -200 to 200, in hundredths.                    *)
(***************************************************************************)
EXTENDS Pixels

CONSTANTS
    ParticlesScreen,  \* width and height
    NumDots,          \* NUM_DOTS
    FramesPerPass,    \* 120
    Waves             \* outcomes of wave1 + wave2

(* No dot is moved over the edge.                                          *)
ASSUME ParticlesAssumption ==
    /\ ParticlesScreen \in [width : Nat \ {0}, height : Nat]
    /\ ParticlesScreen.height >= 29 /\ ParticlesScreen.height < 65536
    /\ {NumDots, FramesPerPass} \subseteq Nat \ {0}
    /\ Waves \subseteq -200..200

Dots == 0 .. NumDots - 1
NotShown == <<-1, -1>>

VARIABLES
    frame,   \* frame_, as far as it matters to the progress
    shown    \* the point drawn for each dot in the last frame

particlesVars == <<frame, shown>>

ParticlesInit == frame = 0 /\ shown = [d \in Dots |-> NotShown]

(* time + phase_offset, of which fmodf keeps what is below 1.               *)
DotX(d) ==
    LET whole == NumDots * FramesPerPass
    IN  (((frame * NumDots + d * FramesPerPass) % whole) * ParticlesScreen.width)
          \div whole

(* The displacement, its fraction cut off.                                 *)
Displaced(wave) == IF wave < 0 THEN -((-wave * 7) \div 100) ELSE (wave * 7) \div 100

(* Mutant: y is as wide as an int.                                         *)
DotYWide(wave) == {ParticlesScreen.height \div 2 + n : n \in Uint16(Displaced(wave))}

(* The sum is converted back to 16 bits.                                   *)
DotY(wave) == {(ParticlesScreen.height \div 2 + n) % 65536 : n \in Uint16(Displaced(wave))}

(* Animate with AnimateSineParticles.                                      *)
AnimateParticles ==
    /\ \E y \in [Dots -> UNION {DotY(wave) : wave \in Waves}] :
         shown' = [d \in Dots |-> IF OnScreen(<<DotX(d), y[d]>>, ParticlesScreen)
                                  THEN <<DotX(d), y[d]>> ELSE NotShown]
    /\ frame' = (frame + 1) % FramesPerPass

ParticlesSpec == ParticlesInit /\ [][AnimateParticles]_particlesVars

-----------------------------------------------------------------------------
(* No particle disappears, and none is displaced by more than its two sines *)
(* allow, although a negative displacement is converted to an unsigned      *)
(* number first, which is undefined: the sum wraps around, or the dot stays *)
(* in the middle.                                                          *)
ParticlesShown ==
    [][\A d \in Dots :
         /\ shown'[d] # NotShown
         /\ shown'[d][2] - ParticlesScreen.height \div 2 \in -14..14]_particlesVars
=============================================================================
