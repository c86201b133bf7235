SPECIFICATION Spec
CONSTANTS
  a = a
  b = b
  Service = {a}
  Temp = {}
  Pid = {p1, p2}
  NoPid = NoPid
  Client = {c}
  RcFlags <- OneshotRcFlags
  Timed = {}
  Updatable = {}
  RebootOnFailure = {}
  OnRestart <- OneOnRestart
  Order <- OneOrder
  Commands <- OneCommands
  CtlOps = {"start"}
  StartErrors = {}
  SerialConsoleOff = FALSE
  ExitStatus = {"exited"}
  CtlLimit = 0
PROPERTIES StartSeesReapedService
