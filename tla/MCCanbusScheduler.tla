------------------------- MODULE MCCanbusScheduler -------------------------
(* Small instances of CanbusScheduler for TLC.                             *)
EXTENDS CanbusScheduler, TLC

CONSTANTS m1, m2, m3, c1, c2

MCChan == (m1 :> c1) @@ (m2 :> c2) @@ (m3 :> c2)
(* m3 is receive-only, as frame 790 in SetupCanbusConfiguration.           *)
MCPeriodic == {m1, m2}
MCScripted == {m1}
MCConfigs  == {<<m1, m2, m3>>, <<m2>>}
MCDbcSets  == {{m1, m2, m3}, {m2}}
(* For liveness: one channel and a configuration that does not change.      *)
MCOneConfig == {<<m1, m2>>}
MCOneDbc    == {{m1, m2}}
MCOneChan   == (m1 :> c1) @@ (m2 :> c1)
=============================================================================
