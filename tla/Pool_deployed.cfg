SPECIFICATION Spec
CONSTANTS
  Requests = {r1, r2}
  r1 = r1  r2 = r2  r3 = r3
  linux = linux  linuxBig = linuxBig  windows = windows
  Instances = {i1, i2, i3}
  Timers = {t1}
  Configs = {linux, windows}
  Os <- MCOs
  ConfigOf <- TwoOs
  MinReady = 2
  MaxTotal = 2
  Callers = {"warm"}
  FaultKinds = {"provision", "provisionLate", "destroy", "vm", "exit"}
  MaxFaults = 2
  None = None
SYMMETRY InstanceSymmetry
INVARIANTS TypeOK LeakPerFault
PROPERTIES HandoutIsLive AllocatesOnce
CHECK_DEADLOCK FALSE
