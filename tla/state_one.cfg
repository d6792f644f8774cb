SPECIFICATION Spec
CONSTANTS
  t1 = t1  t2 = t2  t3 = t3
  q1 = q1  q2 = q2  q3 = q3  q4 = q4
  Team = {ma}
  InitialTeam = {ma}
  Iris = {i1}
  Ctfd = {c1}
  Ticket = {t1, t2, t3}
  Question = {q1, q2, q3, q4}
  Requires <- JoinRequires
  TicketOf <- JoinTicketOf
  Walkthrough = {q3}
  Capstone = t3
  LaneLimit = 1
  Token = {k1, k2}
  MaxGeneration = 2
  MaxSite = 2
  None = None
SYMMETRY Interchangeable
CHECK_DEADLOCK FALSE
INVARIANTS
  TypeOK PrerequisitesGate OwnershipLedger QuiescentSite OneEligiblePerChain
PROPERTIES FrozenWhileGuarded AcceptedWorkKept
