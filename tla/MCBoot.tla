------------------------------- MODULE MCBoot -------------------------------
(* Boot on every board, with every combination of failing steps.           *)
EXTENDS Boot
=============================================================================
