----------------------- MODULE MCPersistentProperties -----------------------
(* Instances of PersistentProperties for TLC. *)
EXTENDS PersistentProperties

CONSTANTS p1, p2, a, b

\* The hypothesis of the theorems of PersistentPropertiesProofs holds here.
ASSUME ApplyAssumption == ApplyWritten
=============================================================================
