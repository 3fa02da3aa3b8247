SPECIFICATION FairSpec
CONSTANTS
  e1 = e1
  Election = {e1}
  w1 = w1
  Worker = {w1}
  Scheduler = scheduler
  AtOnce = 2
  MaxElections = 1
  Horizon = 3
  MaxVotes = 1
  None = None
INVARIANT ClosedIsQueued
PROPERTY ReopenedByStaleCopy
PROPERTY EveryElectionStops
