SPECIFICATION Spec
CONSTANTS
  r1 = r1
  r2 = r2
  r3 = r3
  Request = {r1, r2, r3}
  f1 = f1
  Fingerprint = {f1}
  k1 = k1
  k2 = k2
  k3 = k3
  Key = {k1, k2, k3}
  MaxVotes = 1
  Workers = 2
  None = None
SYMMETRY Symmetry
INVARIANT TypeOK
INVARIANT HasVotedExact
INVARIANT OvershootBounded
PROPERTY ImplementsLedger
CHECK_DEADLOCK FALSE
