CONSTANTS
    None = None
    juror = juror
    newcomer = newcomer
    Account <- MCAccount
    TwoFactor = {juror}
    Standings <- MCStandings
    Profiles <- MCProfiles
    Entered <- MCEntered
    Linked <- MCLinked
    MaxMoves = 2
    MaxCodes = 2
    MaxTries = 1
SPECIFICATION Spec
INVARIANT TabFollowsSession
INVARIANT DashboardsAdmit
INVARIANT WaitsForACall
CHECK_DEADLOCK FALSE
