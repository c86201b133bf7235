CONSTANTS
  Service = {"vold", "app", "tombstoned"}
  PostData = {"app", "tombstoned"}
  Debugging = {"tombstoned"}
  Critical = {"vold"}
  Vold = {"vold"}
  OnRestart <- MCOnRestart
  Requests = {"shutdown,userrequested", "reboot", "reboot,userspace", "reboot,recovery", "unknown"}
  HangSites = {"volume", "apexes", "umount", "sync"}
  FailSites = {"crash", "fork", "setprop", "resetprop", "sigkill", "volume", "apexes", "umount", "bootloader_message"}
  MaxRequests = 2
  MaxFaults = 1
SPECIFICATION Spec
INVARIANTS TypeOK MonitorInStep CleanResume
PROPERTIES RequestServed
CHECK_DEADLOCK FALSE
