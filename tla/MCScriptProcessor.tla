------------------------- MODULE MCScriptProcessor -------------------------
(* ScriptProcessor with two loaded scripts, a script that failed to load    *)
(* and a message without one.                                              *)
EXTENDS ScriptProcessor
=============================================================================
