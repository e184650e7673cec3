------------------------------ MODULE MCLogFile ------------------------------
(* LogFile on logs of at most two records, the second of a sensor that the  *)
(* metadata file may not list, and on metadata files of at most two sensors *)
(* and one of three, which are too many.                                   *)
EXTENDS LogFile

CONSTANTS s1, s2, s3

MCLists    == {<< >>, <<s1, s2>>, <<s2, s3>>, <<s1, s2, s3>>}
MCSensorOf == [k \in 1..MaxRecords |-> IF k = 1 THEN s1 ELSE s3]
=============================================================================
