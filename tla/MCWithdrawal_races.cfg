SPECIFICATION Spec
CONSTANTS
  r1 = r1
  r2 = r2
  r3 = r3
  Request = {r1, r2, r3}
  a1 = a1
  a2 = a2
  Reviewer = {a1, a2}
  MaxAmount = 2
  MaxRevenue = 3
  Nobody = Nobody
SYMMETRY Symmetry
INVARIANT OneOutstanding
INVARIANT NeverOverdrawn
PROPERTY CreatedIfVerified
PROPERTY FinalIsFinal
