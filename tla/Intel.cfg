SPECIFICATION Spec
CONSTANTS
  Sync = {call}
  Jobs = {job}
  VirusTotal = VirusTotal
  Others = {MalwareBazaar}
  Asked <- MCAsked
  Window = 3
  MaxRequests = 2
  Slack = 1
  Concurrency = 1
  Attempts = 2
  MaxFaults = 1
  MaxCrashes = 1
CHECK_DEADLOCK FALSE
INVARIANTS RateRespected LostPerFault
PROPERTIES CallEnds
