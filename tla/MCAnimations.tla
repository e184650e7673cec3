---------------------------- MODULE MCAnimations ----------------------------
(* Animations: the dot path on a screen of 128 by 64 pixels, in tenths of a *)
(* pixel, with the shortest and the longest jump and on its time scale      *)
(* coarse steps; the others on the smallest screens that show their cases.  *)
(* MCSwing is a cosine with the code's eight cycles over six columns.       *)
EXTENDS Animations, TLC

MCSizes   == "x" :> 1280 @@ "y" :> 640
MCStarts  == "x" :> {64, 500} @@ "y" :> {64, 300, 576}
MCDiag    == 100 :> 70 @@ 400 :> 282

MCLinesScreen     == [width |-> 6, height |-> 32]
MCWaveScreen      == [width |-> 16, height |-> 32]
MCParticlesScreen == [width |-> 16, height |-> 32]

MCSwing      == <<100, -81, 31, 31, -81, 100>>
MCSwings     == [column0 \in Columns |-> MCSwing[column0 + 1]]
MCAmplitudes == {-5, 20, 105}
MCSines      == {-100, -10, 40, 100}
MCWaves      == {-200, -100, -10, 0, 110, 200}
=============================================================================
