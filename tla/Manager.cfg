SPECIFICATION Spec
CONSTANTS
  r1 = r1  r2 = r2
  Requests = {r1, r2}
  Destroys = {d1, d2}
  Instances = {i1, i2}
  ModeOf <- TwoModes
  MaxFaults = 1
  None = None
  NoMode = NoMode
SYMMETRY ManagerSymmetry
INVARIANTS NeverWider AnsweredHasItsRules RulesPerFault StopFlushes
CHECK_DEADLOCK FALSE
