SPECIFICATION FairSpec
CONSTANTS
  s1 = s1
  s2 = s2
  w1 = w1
  w2 = w2
  k1 = k1
  None = None
  Submissions <- OneSub
  Containers <- NoSubs
  Slots <- OneSlot
  Sweepers <- OneSweeper
  MaxAttempts = 2
  FaultKinds <- CrashOnly
  MaxFaults = 1
CHECK_DEADLOCK FALSE
PROPERTIES OrphanIsCaught
