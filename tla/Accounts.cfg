SPECIFICATION Spec
CONSTANTS
  u1 = u1  u2 = u2
  Users <- TwoUsers
  Calls = {c1, c2}
  Clients <- Mixes
  NewRoles = {"analyst", "admin"}
  MaxFailed = 2
  MaxGuesses = 6
SYMMETRY CallSymmetry
INVARIANTS TypeOK RefreshOnce LockoutBound DisabledGetsFew
CHECK_DEADLOCK FALSE
