SPECIFICATION Spec
CONSTANTS
  Parts = {"loop", "recovery", "provisioning", "deployment", "journal", "packaging",
           "installation", "edge", "rehearsal", "profile"}
  Profiles = {TRUE, FALSE}
  MaxMark = 5
  Operator = {"o1", "o2"}
  Process = {"p1", "p2"}
  Nobody = "nobody"
  Steps = 2
  MaxJournals = 2
  Component = {"c1", "c2"}
  WorkDir = {"w1"}
  MaxTree = 2
  Installer = {"i1", "i2"}
  MaxKey = 2
  Port = {15901, 15902}
  Target = {"a", "b"}
  Controller = {"c1", "c2"}
  Request = {"r1", "r2"}
  MaxHandlers = 1
  MaxTime = 2
  MaxEvents = 3
  MaxTokens = 2
  MaxChanges = 1
  MaxFaults = 1
  MaxLosses = 2
CHECK_DEADLOCK FALSE
INVARIANTS
  WaitBounded ExportIsOneInstant HandoutWorks ReadyMeansVerified OneResource 
  InstallIsWhole EdgeAsConfigured LedgersAgree ProfileKept
PROPERTIES ImplementsEventRun
