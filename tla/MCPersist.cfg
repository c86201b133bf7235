SPECIFICATION Spec
CONSTANTS
  p1 = p1  p2 = p2  a = a  b = b
  Prop = {p1, p2}
  Value = {a, b}
  None = None
  Missing = Missing
  Torn = Torn
  Failing = {"set", "migrate"}
  MaxSets = 2
  MaxCrashes = 2
INVARIANTS TypeOK SurvivesCrash MemoryMatchesFile
PROPERTIES AllSettle
CHECK_DEADLOCK FALSE
