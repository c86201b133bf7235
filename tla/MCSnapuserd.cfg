SPECIFICATION Spec
CONSTANTS
  r1 = r1
  r2 = r2
  Ops <- ShiftedOps
  Cow = 0
  WindowSize = 2
  BatchSize = 2
  Readers = {r1}
  Iouring = {TRUE, FALSE}
  FaultSites <- IoSites
  MaxFaults = 1
  MaxCrashes = 2
INVARIANTS TypeOK ReadsNewWhenResumed CrashKeepsNewData ChecksHold ReadsSucceed
PROPERTIES MergeFinishes ThreadsEnd
CHECK_DEADLOCK FALSE
