----------------------------- MODULE Animations -----------------------------
(***************************************************************************)
(* The four animations behind IAnimation.  DisplayController::StartAnimation *)
(* makes a new object of one kind, from 0 to 3, and initializes it; the     *)
(* frame buffer's thread then calls its Animate for ever.                  *)
(***************************************************************************)
EXTENDS DotPath, WaveLines, TaperedWave, Particles

VARIABLE kind   \* the class of animation_

pictureVars == <<dotVars, linesVars, waveVars, particlesVars>>
animationVars == <<kind, pictureVars>>

StartAnimation ==
    /\ kind \in 0..3
    /\ DotInit /\ LinesInit /\ WaveInit /\ ParticlesInit

AnimationNext ==
    /\ UNCHANGED kind
    /\ \/ kind = 0 /\ LinesNext /\ UNCHANGED <<dotVars, waveVars, particlesVars>>
       \/ kind = 1 /\ DotNext /\ UNCHANGED <<linesVars, waveVars, particlesVars>>
       \/ kind = 2 /\ AnimateParticles /\ UNCHANGED <<dotVars, linesVars, waveVars>>
       \/ kind = 3 /\ WaveNext /\ UNCHANGED <<dotVars, linesVars, particlesVars>>

AnimationSpec == StartAnimation /\ [][AnimationNext]_animationVars
=============================================================================
