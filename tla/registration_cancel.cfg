SPECIFICATION Spec
CONSTANTS
  MaxTeams = 2
  PerTeam = 2
  MaxReg = 2
  MaxAttempts = 2
  Worker = {w1}
  MaxFaults = 2
CHECK_DEADLOCK FALSE
INVARIANTS CancelledIsUnprovisioned
