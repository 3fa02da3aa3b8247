SPECIFICATION Spec
CONSTANTS
  v1 = v1
  v2 = v2
  Vote = {v1, v2}
  t1 = t1
  t2 = t2
  Tx = {t1, t2}
  w1 = w1
  w2 = w2
  Worker = {w1, w2}
  Quantity <- MCQuantity
  ErrorStatus = "pending"
  WaitingStatus = "pending"
  HttpErrors = TRUE
  Crashes = TRUE
  None = None
SYMMETRY Symmetry
INVARIANTS
  CountedIsPaid
  OvercountBounded
PROPERTY CompletedIsFinal
CHECK_DEADLOCK FALSE
