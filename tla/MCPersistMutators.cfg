SPECIFICATION Spec
CONSTANTS
  p1 = p1  p2 = p2  a = a  b = b
  Prop = {p1}
  Value = {a}
  None = None
  Missing = Missing
  Torn = Torn
  Failing = {}
  MaxSets = 1
  MaxCrashes = 0
INVARIANTS OneMutator
CHECK_DEADLOCK FALSE
