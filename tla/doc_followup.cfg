SPECIFICATION Spec
CONSTANTS
  t1 = t1  t2 = t2  t3 = t3
  q1 = q1  q2 = q2  q3 = q3  q4 = q4
  Team = {ma}
  InitialTeam = {ma}
  Iris = {i1}
  Ctfd = {c1}
  Ticket = {t1, t2}
  Question = {q1, q2, q3}
  Requires <- LineRequires
  TicketOf <- LineTicketOf
  Walkthrough = {}
  Capstone = t2
  LaneLimit = 3
  Token = {k1, k2}
  MaxGeneration = 2
  MaxSite = 2
  None = None
CHECK_DEADLOCK FALSE
INVARIANTS FollowUpAfterClosure
