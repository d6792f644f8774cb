SPECIFICATION Spec
CONSTANTS
  MaxTeams = 2
  PerTeam = 2
  MaxReg = 3
  MaxAttempts = 2
  Worker = {w1, w2}
  MaxFaults = 1
CHECK_DEADLOCK FALSE
INVARIANTS SlotsConsistent RolesInOrder ReadyIsServed LatestClaimDecides
