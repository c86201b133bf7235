---------------------------- MODULE MCInitShutdown ----------------------------
(* A pre-data service, a post-data service whose onrestart restarts a      *)
(* post-data debugging service.                                            *)
EXTENDS InitShutdown

MCOnRestart == [s \in Service |-> IF s = "app" THEN {"tombstoned"} ELSE {}]

\* The hypothesis of InitShutdownProofs!ResumesClean holds of these services.
ASSUME OnRestartAssumption == OnRestartDownward
===============================================================================
