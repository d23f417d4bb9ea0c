SPECIFICATION FairSpec
CONSTANTS
  s1 = s1
  s2 = s2
  w1 = w1
  w2 = w2
  k1 = k1
  None = None
  Submissions <- OneSub
  Containers <- NoSubs
  Slots <- TwoSlots
  Sweepers <- OneSweeper
  MaxAttempts = 3
  FaultKinds <- NoLockLoss
  MaxFaults = 3
CHECK_DEADLOCK FALSE
INVARIANTS TypeOK SingleRun ClosedHasNoWork CompletedIsSettled
PROPERTIES FollowsLifecycle SubmittedIsPickedUp JobSettles
