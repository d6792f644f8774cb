SPECIFICATION Spec
CONSTANTS
  Process = {p1, p2}
  None = None
  Steps = 2
  MaxJournals = 2
  MaxFaults = 2
INVARIANT JournalSurvives
