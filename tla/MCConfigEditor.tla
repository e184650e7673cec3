--------------------------- MODULE MCConfigEditor ---------------------------
(* ConfigEditor with configurations, a text that is JSON but no             *)
(* configuration and one that is no JSON; the pages, their connections and  *)
(* the number of saves are set by each run.                                *)
EXTENDS ConfigEditor, TLC

MCClients == Pages \X (Conns \cup {LoadConn})

MCSymmetry == Permutations(Pages) \cup Permutations(Conns)
=============================================================================
