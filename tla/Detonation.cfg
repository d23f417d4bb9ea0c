SPECIFICATION Spec
CONSTANTS
  Requests = {q1, q2}
  MaxFaults = 2
  MaxFlips = 1
INVARIANTS LeftPerFault
PROPERTIES RequestEnds
