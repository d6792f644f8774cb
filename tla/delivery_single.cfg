SPECIFICATION DSpec
CONSTANTS
  t1 = t1
  q1 = q1
  Team = {ma}
  InitialTeam = {ma}
  Iris = {i1}
  Ctfd = {c1}
  Ticket = {t1}
  Question = {q1}
  Requires <- SingleRequires
  TicketOf <- SingleTicketOf
  Walkthrough = {}
  Capstone = t1
  LaneLimit = 3
  Token = {k1}
  MaxGeneration = 1
  MaxSite = 1
  None = None
  Worker = {w1, w2}
  Slot = {s1, s2}
  MaxFaults = 3
SYMMETRY Interchangeable
CHECK_DEADLOCK FALSE
INVARIANTS
  ExactlyOnceEffect WatermarkAgrees CreditIsVisible EffectsInOrder EvidenceBeforeTask
PROPERTIES QuietApplications Spec
