------------------------ MODULE DependencyResilience ------------------------
(***************************************************************************)
(* One DependencyResilienceGuard (libs/shared/resilience.py) shared by the *)
(* concurrent calls of a service: retries with backoff, the timeout of an  *)
(* attempt, the budget of a call, and the circuit breaker.                 *)
(*                                                                         *)
(* execute awaits the operation and the sleep between attempts; the guard's*)
(* fields are read and written between those awaits, so a call may answer  *)
(* to a circuit other calls have opened, half opened or closed since it    *)
(* began.  Times are kept as ages and remaining waits, in ticks.           *)
(***************************************************************************)
EXTENDS Naturals

CONSTANTS
    Callers,            \* the concurrent calls of execute
    MaxAttempts,        \* RetryPolicy.max_attempts
    Backoff,            \* RetryPolicy.delay_for_attempt
    PerAttempt,         \* TimeoutBudget.per_attempt_seconds
    Total,              \* TimeoutBudget.total_seconds
    FailureThreshold,   \* CircuitBreakerPolicy.failure_threshold
    RecoveryThreshold,  \* CircuitBreakerPolicy.recovery_success_threshold
    Cooldown            \* CircuitBreakerPolicy.cooldown_seconds

ASSUME RetryAssumption ==
    /\ MaxAttempts \in Nat \ {0}
    /\ Backoff \in [1..MaxAttempts -> Nat]

ASSUME BudgetAssumption ==
    /\ PerAttempt \in Nat \ {0}
    /\ Total \in Nat
    /\ Total >= PerAttempt

ASSUME CircuitAssumption ==
    /\ FailureThreshold \in Nat \ {0}
    /\ RecoveryThreshold \in Nat \ {0}
    /\ Cooldown \in Nat

VARIABLES
    down,       \* whether the dependency fails the attempts it receives
    circuit,    \* the state of the guard
    calls,      \* the calls of execute in progress
    outcome     \* how the last call of each caller ended

vars == <<down, circuit, calls, outcome>>

\* failures and age count no further than the value they are compared with.
Circuit == [state : {"closed", "open", "half_open"},
            failures : 0..FailureThreshold,
            successes : 0..RecoveryThreshold,
            age : 0..Cooldown]

\* A call: where it is suspended, its attempt number, whether it began half
\* open, whether the attempt met a failing dependency, the ticks since it
\* began, and the ticks until its timeout or the end of its sleep.
Call == [step : {"idle", "calling", "sleeping"}, attempt : 0..MaxAttempts,
         probe : BOOLEAN, unlucky : BOOLEAN, elapsed : Nat, left : Nat]

NoCall == [step |-> "idle", attempt |-> 0, probe |-> FALSE, unlucky |-> FALSE,
           elapsed |-> 0, left |-> 0]

Outcome == {"none", "succeeded", "recovered", "degraded"}

TypeOK ==
    /\ down \in BOOLEAN
    /\ circuit \in Circuit
    /\ calls \in [Callers -> Call]
    /\ outcome \in [Callers -> Outcome]

Init ==
    /\ down = FALSE
    /\ circuit = [state |-> "closed", failures |-> 0, successes |-> 0, age |-> 0]
    /\ calls = [c \in Callers |-> NoCall]
    /\ outcome = [c \in Callers |-> "none"]

-----------------------------------------------------------------------------
(***************************************************************************)
(* The circuit breaker                                                     *)
(***************************************************************************)

AtMost(n, bound) == IF n < bound THEN n ELSE bound

\* Fault: the successes of an earlier recovery are kept.
Opened_KeepsSuccesses == [circuit EXCEPT !.state = "open", !.age = 0]

Opened == [circuit EXCEPT !.state = "open", !.age = 0, !.successes = 0]

\* Fault: every call of a half-open circuit starts the recovery afresh.
Ready_StartsAfresh ==
    IF \/ circuit.state = "half_open"
       \/ circuit.state = "open" /\ circuit.age = Cooldown
      THEN [circuit EXCEPT !.state = "half_open", !.successes = 0]
      ELSE circuit

Ready ==
    IF circuit.state = "open" /\ circuit.age = Cooldown
      THEN [circuit EXCEPT !.state = "half_open", !.successes = 0]
      ELSE circuit

Recovers == /\ circuit.state = "half_open"
            /\ circuit.successes + 1 >= RecoveryThreshold

AfterSuccess ==
    CASE Recovers ->
           [state |-> "closed", failures |-> 0, successes |-> 0, age |-> 0]
      [] circuit.state = "half_open" /\ ~Recovers ->
           [circuit EXCEPT !.successes = @ + 1]
      [] circuit.state # "half_open" ->
           [circuit EXCEPT !.failures = 0, !.successes = 0]

\* Fault: a failure of a probe is counted like any other.
AfterFailure_Counts ==
    LET failures == AtMost(circuit.failures + 1, FailureThreshold)
    IN  IF failures = FailureThreshold /\ circuit.state = "closed"
          THEN [Opened EXCEPT !.failures = failures]
          ELSE [circuit EXCEPT !.failures = failures]

\* A failure that arrives while the circuit is open counts as well, and opens
\* it anew when the count is at the threshold.
AfterFailure ==
    LET failures == AtMost(circuit.failures + 1, FailureThreshold)
    IN  IF circuit.state = "half_open" THEN Opened
        ELSE IF failures = FailureThreshold
          THEN [Opened EXCEPT !.failures = failures]
          ELSE [circuit EXCEPT !.failures = failures]

-----------------------------------------------------------------------------
(***************************************************************************)
(* execute                                                                 *)
(***************************************************************************)

Begin(c) ==
    /\ calls[c].step = "idle"
    /\ Ready.state # "open"
    /\ circuit' = Ready
    /\ calls' = [calls EXCEPT ![c] =
           [step |-> "calling", attempt |-> 1,
            probe |-> (Ready.state = "half_open"),
            unlucky |-> down, elapsed |-> 0, left |-> PerAttempt]]
    /\ UNCHANGED <<down, outcome>>

\* The circuit is open: the fallback answers, and no attempt is made.
ShortCircuit(c) ==
    /\ calls[c].step = "idle"
    /\ Ready.state = "open"
    /\ outcome' = [outcome EXCEPT ![c] = "degraded"]
    /\ UNCHANGED <<down, circuit, calls>>

Succeed(c) ==
    /\ calls[c].step = "calling"
    /\ ~calls[c].unlucky
    /\ circuit' = AfterSuccess
    /\ outcome' = [outcome EXCEPT ![c] = IF Recovers THEN "recovered"
                                                     ELSE "succeeded"]
    /\ calls' = [calls EXCEPT ![c] = NoCall]
    /\ UNCHANGED down

Limit(call) == IF call.probe THEN 1 ELSE MaxAttempts

\* Fault: the sleep is not counted against the budget.
ShouldRetry_IgnoresDelay(call, retryable) ==
    /\ circuit'.state # "open"
    /\ call.attempt < Limit(call)
    /\ retryable
    /\ call.elapsed < Total

\* _should_retry looks at the circuit after the failure has been recorded.
ShouldRetry(call, retryable) ==
    /\ circuit'.state # "open"
    /\ call.attempt < Limit(call)
    /\ retryable
    /\ call.elapsed + Backoff[call.attempt] < Total

\* An attempt failed: sleep before the next one, or end in the fallback.
Failed(c, retryable) ==
    /\ circuit' = AfterFailure
    /\ IF ShouldRetry(calls[c], retryable)
         THEN /\ calls' = [calls EXCEPT ![c].step = "sleeping",
                                        ![c].left = Backoff[calls[c].attempt]]
              /\ UNCHANGED outcome
         ELSE /\ calls' = [calls EXCEPT ![c] = NoCall]
              /\ outcome' = [outcome EXCEPT ![c] = "degraded"]
    /\ UNCHANGED down

Fail(c) ==
    /\ calls[c].step = "calling"
    /\ calls[c].unlucky
    /\ \E retryable \in BOOLEAN : Failed(c, retryable)

\* wait_for gives up on an attempt that hangs; a timeout may be retried.
TimeOut(c) ==
    /\ calls[c].step = "calling"
    /\ calls[c].unlucky
    /\ calls[c].left = 0
    /\ Failed(c, TRUE)

NextAttempt(c) ==
    /\ calls[c].step = "sleeping"
    /\ calls[c].left = 0
    /\ calls' = [calls EXCEPT ![c].step = "calling", ![c].attempt = @ + 1,
                              ![c].unlucky = down, ![c].left = PerAttempt]
    /\ UNCHANGED <<down, circuit, outcome>>

\* The task of the call is cancelled at its await: no except clause of
\* execute applies, and the guard is not told.
Cancel(c) ==
    /\ calls[c].step # "idle"
    /\ calls' = [calls EXCEPT ![c] = NoCall]
    /\ UNCHANGED <<down, circuit, outcome>>

\* Time passes; timers fire in the tick they are due.
Tick ==
    /\ \A c \in Callers : calls[c].step # "idle" => calls[c].left > 0
    /\ \/ circuit.state = "open" /\ circuit.age < Cooldown
       \/ \E c \in Callers : calls[c].step # "idle"
    /\ circuit' = IF circuit.state = "open"
                    THEN [circuit EXCEPT !.age = AtMost(@ + 1, Cooldown)]
                    ELSE circuit
    /\ calls' = [c \in Callers |->
           IF calls[c].step = "idle" THEN calls[c]
           ELSE [calls[c] EXCEPT !.elapsed = @ + 1, !.left = @ - 1]]
    /\ UNCHANGED <<down, outcome>>

\* The dependency fails, or works again.
Outage ==
    /\ down' = ~down
    /\ UNCHANGED <<circuit, calls, outcome>>

Step(c) == \/ Begin(c) \/ ShortCircuit(c) \/ Succeed(c) \/ Fail(c) \/ TimeOut(c)
           \/ NextAttempt(c) \/ Cancel(c)

Next == Tick \/ Outage \/ \E c \in Callers : Step(c)

Spec == Init /\ [][Next]_vars

-----------------------------------------------------------------------------
(***************************************************************************)
(* Properties                                                              *)
(***************************************************************************)

\* A closed circuit has fewer failures in a row than the threshold, and no
\* recovery ever starts with the successes of an earlier one or ends late
\* (_record_failure, _record_success and _open_circuit, called in any order by
\* answers that arrive late).
CircuitSound ==
    /\ circuit.state = "closed" => circuit.failures < FailureThreshold
    /\ circuit.state # "half_open" => circuit.successes = 0
    /\ circuit.successes < RecoveryThreshold

\* A call is over within the total budget and the timeout of one attempt,
\* whatever the other calls do to the circuit (_should_retry).
BudgetKept ==
    \A c \in Callers : calls[c].step # "idle" =>
        calls[c].elapsed + calls[c].left < Total + PerAttempt

\* An open circuit stays open for the whole cooldown after the last failure
\* that opened it: no late answer of an earlier call can close it.
OpenIsKept ==
    [][circuit.state = "open" /\ circuit'.state # "open" =>
           circuit.age = Cooldown /\ circuit'.state = "half_open"]_vars

\* A failure while the circuit is half open opens it again, whoever observes
\* it: recovery needs successes that no failure interrupts.
FailureEndsRecovery ==
    [][circuit.state = "half_open" /\
           (\E c \in Callers : calls[c].step = "calling" /\ calls[c].unlucky
                               /\ outcome[c] # outcome'[c]
                               /\ outcome'[c] = "degraded")
           => circuit'.state = "open"]_vars

\* The circuit moves in its order whatever late answers do to it: it stays open
\* for the cooldown, closes through half_open only, and a failure on the way
\* starts it over (_transition_open_circuit_if_ready, _record_failure).
RecoveryIsOrderly == []TypeOK /\ OpenIsKept /\ FailureEndsRecovery

(***************************************************************************)
(* Liveness.  The service keeps calling, timers fire, an attempt that      *)
(* reached a working dependency is answered, and not every call is         *)
(* cancelled before its answer.                                            *)
(***************************************************************************)
Fairness ==
    /\ WF_vars(Tick)
    /\ \A c \in Callers : /\ WF_vars(Begin(c)) /\ SF_vars(Succeed(c))
                          /\ WF_vars(TimeOut(c)) /\ WF_vars(NextAttempt(c))

FairSpec == Spec /\ Fairness

\* Once the dependency works for good the circuit closes for good, whatever
\* late failures and interrupted recoveries come before.
ClosesAfterRecovery == <>[]~down => <>[](circuit.state = "closed")
=============================================================================
