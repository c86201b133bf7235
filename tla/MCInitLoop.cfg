CONSTANTS
  c1 = c1
  k1 = k1
  k2 = k2
  Child <- OneChild
  Client <- TwoClients
  MaxQueue = 1
  CtlLimit = 1
SPECIFICATION Spec
INVARIANTS TypeOK NoLostWakeup NoLostProperty
PROPERTIES
  ZombiesReaped
  RestartsServed
  CallsReturn
  ShutdownNoticed
  ClientsAnswered
