-------------------------- MODULE MCSnapshotManager --------------------------
(* Instances of SnapshotManager for TLC. *)
EXTENDS SnapshotManager

TwoPartitions == {"system", "vendor"}

OneShrunk == {"vendor"}

AllDrivers == {"dm-snapshot", "dm-snapshot-compressed", "userspace"}

Userspace == {"userspace"}

=============================================================================
