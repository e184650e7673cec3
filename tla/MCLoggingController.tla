------------------------ MODULE MCLoggingController ------------------------
(* LoggingController with the one status it uses.                          *)
EXTENDS LoggingController
=============================================================================
