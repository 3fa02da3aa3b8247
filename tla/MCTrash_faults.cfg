SPECIFICATION Spec
CONSTANTS
  r1 = r1
  r2 = r2
  r3 = r3
  r4 = r4
  Request = {r1, r2, r3, r4}
  AtOnce = 2
  None = None
SYMMETRY Symmetry
INVARIANT ForcedIsGone
INVARIANT TrashedIsListed
PROPERTY PurgeKeepsLive
CHECK_DEADLOCK FALSE
