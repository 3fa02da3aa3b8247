CONSTANTS
    None = None
    a = a
    b = b
    Candidate <- MCCandidate
    MaxVotes = 2
    MaxMoves = 5
    AccessTries = 1
    OtpTries = 2
    Requests = 3
SPECIFICATION Spec
SYMMETRY Candidates
INVARIANT VoteIsForThePage
INVARIANT CodeUsedOnce
INVARIANT SuccessMeansDone
INVARIANT ResendComesBack
CHECK_DEADLOCK FALSE
