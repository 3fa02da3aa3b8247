SPECIFICATION Spec
CONSTANTS
  Form <- MCForm
  File <- MCFile
  MaxDrafts = 2
  MaxElections = 2
  PerPage = 2
  Threshold = 2
  MaxMoves = 6
  MaxFaults = 1
INVARIANT RecapIsOnServer
INVARIANT NeverReedited
INVARIANT OneDraft
INVARIANT BusyHasCalls
CHECK_DEADLOCK FALSE
