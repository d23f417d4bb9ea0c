SPECIFICATION Spec
CONSTANTS
  s1 = s1
  s2 = s2
  w1 = w1
  w2 = w2
  k1 = k1
  None = None
  Submissions <- TwoSubs
  Containers <- OneSub
  Slots <- TwoSlots
  Sweepers <- OneSweeper
  MaxAttempts = 2
  FaultKinds <- AllFaults
  MaxFaults = 1
SYMMETRY SlotSymmetry
CHECK_DEADLOCK FALSE
INVARIANTS AlertsPerDelivery
