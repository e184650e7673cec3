---------------------------- MODULE MCSensorsApi ----------------------------
(* SensorsApi with two clients and a buffer of three bytes: two bodies   *)
(* that fit, a malformed one that fills the buffer, and one that is too     *)
(* long.                                                                   *)
EXTENDS SensorsApi, TLC

CONSTANTS good, other, bad, long

MCSize == (good :> 2) @@ (other :> 1) @@ (bad :> 3) @@ (long :> 4)
=============================================================================
