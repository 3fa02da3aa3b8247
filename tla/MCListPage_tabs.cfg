CONSTANTS
    ada = ada
    bob = bob
    Page <- MCPage
    Group <- MCGroup
    Email <- MCEmail
    MaxId = 4
    MaxMoves <- MCMoves
    Filter <- MCFilter
    Text <- MCText
    MaxLost <- MCLost
    MaxCalls <- MCCalls
    MaxPolls = 2
SYMMETRY MCEmails
CONSTRAINT MCOneAddress
ACTION_CONSTRAINT MCGoesOn
SPECIFICATION Spec
INVARIANT RowsAreCurrent
INVARIANT SpinnersHaveCalls
INVARIANT SelectionIsShown
INVARIANT SecondNeedsEdit
CHECK_DEADLOCK FALSE
