------------------------ MODULE MCDisplayController ------------------------
(* DisplayController with two statuses, under all its operations.          *)
EXTENDS DisplayController
=============================================================================
