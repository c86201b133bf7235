SPECIFICATION Spec
CONSTANTS
  r1 = r1
  r2 = r2
  Ops <- ShiftedOps
  Cow = 0
  WindowSize = 2
  BatchSize = 2
  Readers = {r1}
  Iouring = {TRUE, FALSE}
  FaultSites = {}
  MaxFaults = 0
  MaxCrashes = 1
INVARIANTS ReadsNew
CHECK_DEADLOCK FALSE
