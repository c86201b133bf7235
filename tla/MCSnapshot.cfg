SPECIFICATION Spec
CONSTANTS
  Partitions <- TwoPartitions
  Shrunk <- OneShrunk
  Drivers <- AllDrivers
  MaxCrashes = 2
  MaxFaults = 1
  MaxAcks = 2
INVARIANTS TypeOK BootloaderKnows ShrunkFirst ChecksHold
PROPERTIES IsAtomic NoEarlyCancel MergingResumes KernelMergeFinishes
