SPECIFICATION Spec
CONSTANTS
  Partitions <- TwoPartitions
  Shrunk <- OneShrunk
  Drivers <- Userspace
  MaxCrashes = 1
  MaxFaults = 0
  MaxAcks = 1
PROPERTIES MergeFinishes
