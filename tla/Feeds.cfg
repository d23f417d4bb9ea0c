SPECIFICATION Spec
CONSTANTS
  Feeds = {"kev", "nvd", "cpe_match", "osv", "enriched", "yara_rules"}
  YaraSources <- OneSource
  Ecosystems <- OneEcosystem
  MaxVersion = 1
  MaxFaults = 1
  MaxManual = 1
INVARIANTS TypeOK JoinIsCurrent ReadyIsStored
PROPERTIES CatchesUp
CHECK_DEADLOCK FALSE
