SPECIFICATION Spec
CONSTANTS
  p1 = p1
  p2 = p2
  e1 = e1
  e2 = e2
  s1 = s1
  s2 = s2
  NoId = NoId
  Confirmations = {k1}
  Decisions = {d1}
  Subjects = {s1, s2}
  Council = {s1}
  Payouts = {p1, p2}
  Executions = {e1, e2}
  ExecutionsOf <- FirstExecuted
  Executors = {x1, x2}
  Syncers = {}
  VetoWindow = 1
  Skew = 0
  MaxTime = 2
  StatusFlow <- Settled
  FirstStatuses = {"succeeded"}
  BusMayFail = FALSE
CHECK_DEADLOCK FALSE
INVARIANTS PaidOnlyAfterWindowAndConfirmation VetoIsFinal RecordsAgree
PROPERTIES NothingIsUndone
