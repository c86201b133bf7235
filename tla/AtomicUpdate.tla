---------------------------- MODULE AtomicUpdate ----------------------------
(***************************************************************************)
(* What a Virtual A/B update promises: at every instant, whatever crashes, *)
(* the storage holds at least one complete system that the device can boot *)
(* into.  SnapshotManager is shown to implement this specification.        *)
(***************************************************************************)

VARIABLES
  bootable,     \* the systems a boot would find complete: "old", "new"
  running       \* the system that is running: "old", "new", or "none"

avars == <<bootable, running>>

AtomicInit ==
  /\ bootable = {"old"}
  /\ running = "old"

(***************************************************************************)
(* The new system becomes bootable beside the old one, which runs.         *)
(***************************************************************************)
Prepare ==
  /\ bootable = {"old"}
  /\ running = "old"
  /\ bootable' = {"old", "new"}
  /\ UNCHANGED running

(***************************************************************************)
(* The new system is given up; never under the feet of the new system.     *)
(***************************************************************************)
Abandon ==
  /\ bootable = {"old", "new"}
  /\ running # "new"
  /\ bootable' = {"old"}
  /\ UNCHANGED running

(***************************************************************************)
(* The point of no return: the old system starts to be overwritten, which  *)
(* never happens while it runs.                                            *)
(***************************************************************************)
Commit ==
  /\ bootable = {"old", "new"}
  /\ running # "old"
  /\ bootable' = {"new"}
  /\ UNCHANGED running

Start(version) ==
  /\ running = "none"
  /\ version \in bootable
  /\ running' = version
  /\ UNCHANGED bootable

Stop ==
  /\ running # "none"
  /\ running' = "none"
  /\ UNCHANGED bootable

AtomicNext ==
  \/ Prepare
  \/ Abandon
  \/ Commit
  \/ \E version \in {"old", "new"} : Start(version)
  \/ Stop

AtomicSpec == AtomicInit /\ [][AtomicNext]_avars

=============================================================================
