SPECIFICATION Spec
CONSTANTS
  a = a
  b = b
  Service = {a, b}
  Temp = {t}
  Pid = {p1, p2, p3}
  NoPid = NoPid
  Client = {}
  RcFlags <- PlainRcFlags
  Timed = {}
  Updatable = {}
  RebootOnFailure = {}
  OnRestart <- ExecOnRestart
  Order <- TwoOrder
  Commands <- ExecCommands
  CtlOps = {}
  StartErrors = {}
  SerialConsoleOff = FALSE
  ExitStatus = {"failed"}
  CtlLimit = 0
PROPERTIES ExecHaltsCommands
