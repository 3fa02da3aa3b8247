SPECIFICATION FairSpec
CONSTANTS
  v1 = v1
  Vote = {v1}
  t1 = t1
  t2 = t2
  Tx = {t1, t2}
  w1 = w1
  w2 = w2
  Worker = {w1, w2}
  Quantity <- MCQuantity
  ErrorStatus = "pending"
  WaitingStatus = "pending"
  HttpErrors = FALSE
  Crashes = FALSE
  None = None
INVARIANT CountersAgree
INVARIANT FailedIsFree
PROPERTY PaidIsCounted
CHECK_DEADLOCK FALSE
