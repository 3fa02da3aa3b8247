CONSTANTS
    a = a
    b = b
    Candidate <- MCCandidate
    Kind <- MCKind
    Amount <- MCAmount
    Price = 2
    MaxPoll = 2
    MaxMoves = 4
SPECIFICATION Spec
INVARIANT PaidPageIsPaid
INVARIANT OneVotePerVisit
PROPERTY PollingEnds
CHECK_DEADLOCK FALSE
