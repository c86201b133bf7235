SPECIFICATION Spec
CONSTANTS
  a = a
  b = b
  Service = {a, b}
  Temp = {}
  Pid = {p1, p2}
  NoPid = NoPid
  Client = {c}
  RcFlags <- TwoRcFlags
  Timed = {}
  Updatable = {b}
  RebootOnFailure = {}
  OnRestart <- TwoOnRestart
  Order <- TwoOrder
  Commands <- TwoCommands
  CtlOps = {"start", "stop"}
  StartErrors = {}
  SerialConsoleOff = TRUE
  ExitStatus = {"failed"}
  CtlLimit = 0
SYMMETRY PidSymmetry
INVARIANTS StatusIsTrue
PROPERTIES StoppedStaysDown ExecHaltsCommands
