CONSTANTS
    c1 = c1
    c2 = c2
    Callers = {c1, c2}
    MaxAttempts = 3
    InitialBackoff = 1
    MaxBackoff = 2
    Backoff <- DoublingBackoff
    PerAttempt = 1
    Total = 4
    FailureThreshold = 2
    RecoveryThreshold = 2
    Cooldown = 2
    Events = {e1, e2}
    Workers = {w1, w2}
    MaxRedeliveries = 2
    MaxFailures = 1
    MaxCancellations = 1
    MaxRestarts = 1
SPECIFICATION EitherSpec
INVARIANTS CircuitSound BudgetKept
PROPERTIES RecoveryIsOrderly ClosesAfterRecovery EventsAreHandled
