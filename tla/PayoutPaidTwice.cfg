SPECIFICATION Spec
CONSTANTS
  p1 = p1
  p2 = p2
  e1 = e1
  e2 = e2
  s1 = s1
  s2 = s2
  NoId = NoId
  Confirmations = {k1, k2}
  Decisions = {d1}
  Subjects = {s1, s2}
  Council = {s1}
  Payouts = {p1}
  Executions = {e1, e2}
  ExecutionsOf <- AnyExecution
  Executors = {x1}
  Syncers = {}
  VetoWindow = 1
  Skew = 0
  MaxTime = 1
  StatusFlow <- Settled
  FirstStatuses = {"succeeded"}
  BusMayFail = FALSE
CHECK_DEADLOCK FALSE
INVARIANTS AtMostOnePayment
