SPECIFICATION FairSpec
CONSTANTS
  Rows = 6
  Affected = {1, 2, 3, 4, 5}
  Timeout = 8
  Pause = 1
  RetryDelay = 2
  MaxDelay = 30
  Latency = 1
  MaxWait = 1
  MaxOutages = 1
CHECK_DEADLOCK FALSE
PROPERTIES UnrelatedAdvance
