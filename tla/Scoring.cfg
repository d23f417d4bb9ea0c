SPECIFICATION Spec
CONSTANTS
  None = None
  Files <- MCFiles
  MaxDeliveries = 3
  MaxFaults = 1
CHECK_DEADLOCK FALSE
INVARIANTS TypeOK SignedCleanIsQuiet KevIsAtLeastMedium BlockIsCorroborated
PROPERTIES AlertIsNotTakenBack
