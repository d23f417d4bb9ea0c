SPECIFICATION FairSpec
CONSTANTS
  Requests = {r1, r2}
  r1 = r1  r2 = r2  r3 = r3
  linux = linux  linuxBig = linuxBig  windows = windows
  Instances = {i1, i2}
  Timers = {t1}
  Configs = {linux, linuxBig}
  Os <- MCOs
  ConfigOf <- TwoImages
  MinReady = 1
  MaxTotal = 1
  Callers = {"return"}
  FaultKinds = {"destroy", "restore", "vm"}
  MaxFaults = 1
  None = None
INVARIANTS ExclusiveCheckout
PROPERTIES CheckoutAnswered SessionEnds
CHECK_DEADLOCK FALSE
