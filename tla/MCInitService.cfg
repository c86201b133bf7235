SPECIFICATION Spec
CONSTANTS
  a = a
  b = b
  Service = {a}
  Temp = {t}
  Pid = {p1, p2}
  NoPid = NoPid
  Client = {c}
  RcFlags <- OneRcFlags
  Timed = {a}
  Updatable = {}
  RebootOnFailure = {a}
  OnRestart <- OneOnRestart
  Order <- OneOrder
  Commands <- OneCommands
  CtlOps = {"start", "stop", "restart", "oneshot_on", "oneshot_off"}
  StartErrors = {"no_pipe", "no_file", "no_fork", "no_cgroup"}
  SerialConsoleOff = FALSE
  ExitStatus = {"exited", "failed"}
  CtlLimit = 0
SYMMETRY PidSymmetry
INVARIANTS TypeOK PidsTrackChildren KillsOnlyChildren ExecWaitCanEnd StatusIsTrue
PROPERTIES StoppedStaysDown
