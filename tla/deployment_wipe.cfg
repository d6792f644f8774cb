SPECIFICATION Spec
CONSTANTS
  Operator = {o1}
  None = None
  Profiles = {FALSE}
  MaxMark = 6
  MaxFaults = 0
PROPERTY WipeKeepsWork
