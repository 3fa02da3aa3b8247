SPECIFICATION FairSpec
CONSTANTS
  v1 = v1
  Vote = {v1}
  j1 = j1
  j2 = j2
  Job = {j1, j2}
  w1 = w1
  w2 = w2
  Worker = {w1, w2}
  MaxTries = 2
  MaxCrashes = 1
  Slow = TRUE
  None = None
PROPERTY ResultsNeverRegress
PROPERTY RequestedGetsResults
CHECK_DEADLOCK FALSE
