\* One call, its upstream cannot be reached.
SPECIFICATION BudgetSpec
CONSTANTS
  c1 = c1
  c2 = c2
  Gateway = {c1}
  Reporter = {}
  Recorder = {}
  None = "none"
  Budget = {2}
  Estimates = {0, 1}
  Usage = {0, 1}
  WarnPercent = 80
  ExhaustPercent = 110
  Enforced = {"exhausted"}
  Limit <- FailLimit
INVARIANT ReservationsReturned
CHECK_DEADLOCK FALSE
