SPECIFICATION FairSpec
CONSTANTS
  p1 = p1
  p2 = p2
  e1 = e1
  e2 = e2
  s1 = s1
  s2 = s2
  NoId = NoId
  Confirmations = {k1, k2}
  Decisions = {d1}
  Subjects = {s1, s2}
  Council = {s1}
  Payouts = {p1}
  Executions = {e1}
  ExecutionsOf <- AnyExecution
  Executors = {x1}
  Syncers = {y1}
  VetoWindow = 1
  Skew = 0
  MaxTime = 1
  StatusFlow <- Gradual
  FirstStatuses = {"accepted", "succeeded"}
  BusMayFail = TRUE
CHECK_DEADLOCK FALSE
PROPERTIES StatusIsHonest ConfirmedIsSettled
