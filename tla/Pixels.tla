------------------------------- MODULE Pixels -------------------------------
(***************************************************************************)
(* What the animations do with coordinates: converting them to uint16_t    *)
(* (subsys/cfb's Coordinate) and comparing them with the screen.           *)
(***************************************************************************)
EXTENDS Integers

OnScreen(p, screen) ==
    p[1] \in 0 .. screen.width - 1 /\ p[2] \in 0 .. screen.height - 1

(* static_cast<uint16_t> of a float with integer part v.  A negative one is *)
(* undefined: the instruction may saturate, or the compiler may convert to  *)
(* int and keep 16 bits.                                                   *)
Uint16(v) == IF v < 0 THEN {0, v % 65536} ELSE {v % 65536}
=============================================================================
