--------------------- MODULE DependencyResilienceProofs ---------------------
(***************************************************************************)
(* The circuit breaker keeps its counters, moves in its order, and every   *)
(* call keeps its budget, for any number of concurrent calls and any       *)
(* policy; and the inbox of a consumer lets each event in once, for any    *)
(* number of events, workers, copies, failures and restarts.               *)
(***************************************************************************)
EXTENDS DependencyResilience, EventProcessing, TLAPS

\* What BudgetKept needs: a sleep ends inside the total budget, so that the
\* attempt after it has the timeout of one attempt on top.
SleepInBudget ==
    \A c \in Callers : calls[c].step = "sleeping" =>
        /\ calls[c].elapsed + calls[c].left < Total
        /\ calls[c].attempt < MaxAttempts

AttemptNumbered ==
    \A c \in Callers : calls[c].step = "calling" =>
        calls[c].attempt \in 1..MaxAttempts

GuardInv == TypeOK /\ CircuitSound /\ BudgetKept /\ SleepInBudget /\ AttemptNumbered

\* The circuit as a value: what the three transitions make of a sound one.
Sound(value) ==
    /\ value \in Circuit
    /\ value.state = "closed" => value.failures < FailureThreshold
    /\ value.state # "half_open" => value.successes = 0
    /\ value.successes < RecoveryThreshold

\* The records that several EXCEPTs make, for any values.
CircuitWith(old, s, a, n) == [old EXCEPT !.state = s, !.age = a, !.successes = n]

LEMMA CircuitFields ==
    ASSUME NEW old \in Circuit, NEW s \in {"closed", "open", "half_open"},
           NEW n \in 0..RecoveryThreshold, NEW a \in 0..Cooldown
    PROVE  /\ CircuitWith(old, s, a, n) \in Circuit
           /\ CircuitWith(old, s, a, n).state = s
           /\ CircuitWith(old, s, a, n).successes = n
  BY DEF Circuit, CircuitWith

Asleep(old, s, l) == [old EXCEPT !.step = s, !.left = l]

LEMMA SleepFields ==
    ASSUME NEW old \in Call, NEW s \in {"idle", "calling", "sleeping"}, NEW l \in Nat
    PROVE  /\ Asleep(old, s, l) \in Call
           /\ Asleep(old, s, l).step = s /\ Asleep(old, s, l).left = l
           /\ Asleep(old, s, l).attempt = old.attempt
           /\ Asleep(old, s, l).elapsed = old.elapsed
  BY DEF Call, Asleep

Awake(old, s, n, u, l) ==
    [old EXCEPT !.step = s, !.attempt = n, !.unlucky = u, !.left = l]

LEMMA AttemptFields ==
    ASSUME NEW old \in Call, NEW s \in {"idle", "calling", "sleeping"},
           NEW n \in 0..MaxAttempts, NEW u \in BOOLEAN, NEW l \in Nat
    PROVE  /\ Awake(old, s, n, u, l) \in Call
           /\ Awake(old, s, n, u, l).step = s /\ Awake(old, s, n, u, l).left = l
           /\ Awake(old, s, n, u, l).attempt = n
           /\ Awake(old, s, n, u, l).elapsed = old.elapsed
  BY DEF Call, Awake

LEMMA OpenedFields ==
    ASSUME circuit \in Circuit
    PROVE  Opened \in Circuit /\ Opened.state = "open" /\ Opened.successes = 0
  <1>1. Opened = CircuitWith(circuit, "open", 0, 0)
    BY DEF Opened, CircuitWith
  <1> QED
    BY <1>1, CircuitFields, CircuitAssumption

LEMMA TransitionsAreSound ==
    ASSUME Sound(circuit)
    PROVE  Sound(Ready) /\ Sound(AfterSuccess) /\ Sound(AfterFailure)
  <1> USE CircuitAssumption DEF Sound, Circuit
  <1>1. Sound(Ready)
    BY DEF Ready
  <1>2. Sound(AfterSuccess)
    <2>1. CASE Recovers
      BY <2>1 DEF AfterSuccess, Recovers
    <2>2. CASE circuit.state = "half_open" /\ ~Recovers
      <3>1. AfterSuccess = [circuit EXCEPT !.successes = @ + 1]
        BY <2>2 DEF AfterSuccess
      <3>2. circuit.successes + 1 < RecoveryThreshold
        BY <2>2 DEF Recovers
      <3> QED
        BY <2>2, <3>1, <3>2
    <2>3. CASE circuit.state # "half_open"
      <3>1. AfterSuccess = [state |-> circuit.state, failures |-> 0,
                            successes |-> 0, age |-> circuit.age]
        BY <2>3 DEF AfterSuccess, Recovers
      <3> QED
        BY <2>3, <3>1
    <2> QED
      BY <2>1, <2>2, <2>3
  <1>3. Sound(AfterFailure)
    <2> DEFINE failures == AtMost(circuit.failures + 1, FailureThreshold)
    <2>1. failures \in 0..FailureThreshold
      BY DEF AtMost
    <2>2. Opened \in Circuit /\ Opened.state = "open" /\ Opened.successes = 0
      BY OpenedFields
    <2> HIDE DEF failures
    <2>3. CASE circuit.state = "half_open"
      BY <2>2, <2>3 DEF AfterFailure
    <2>4. CASE circuit.state # "half_open" /\ failures = FailureThreshold
      <3>1. AfterFailure = [Opened EXCEPT !.failures = failures]
        BY <2>4 DEF AfterFailure, failures
      <3> QED
        BY <2>1, <2>2, <3>1
    <2>5. CASE circuit.state # "half_open" /\ failures # FailureThreshold
      <3>1. AfterFailure = [circuit EXCEPT !.failures = failures]
        BY <2>5 DEF AfterFailure, failures
      <3> QED
        BY <2>1, <2>5, <3>1
    <2> QED
      BY <2>3, <2>4, <2>5
  <1> QED
    BY <1>1, <1>2, <1>3

\* A call as a value: its part of the invariant.
InBudget(call) ==
    /\ call \in Call
    /\ call.step # "idle" => call.elapsed + call.left < Total + PerAttempt
    /\ call.step = "sleeping" => /\ call.elapsed + call.left < Total
                                 /\ call.attempt < MaxAttempts
    /\ call.step = "calling" => call.attempt \in 1..MaxAttempts

LEMMA InvByValue ==
    GuardInv <=> /\ down \in BOOLEAN /\ Sound(circuit)
                 /\ calls \in [Callers -> Call]
                 /\ \A c \in Callers : InBudget(calls[c])
                 /\ outcome \in [Callers -> Outcome]
  BY DEF GuardInv, TypeOK, CircuitSound, BudgetKept, SleepInBudget,
         AttemptNumbered, Sound, InBudget

LEMMA NoCallInBudget == InBudget(NoCall)
  BY BudgetAssumption, RetryAssumption DEF InBudget, NoCall, Call

LEMMA GuardInit == Init => GuardInv
  <1> SUFFICES ASSUME Init PROVE GuardInv
    OBVIOUS
  <1>1. Sound(circuit)
    BY CircuitAssumption DEF Init, Sound, Circuit
  <1>2. calls \in [Callers -> Call] /\ \A c \in Callers : InBudget(calls[c])
    BY NoCallInBudget DEF Init, InBudget
  <1> QED
    BY <1>1, <1>2, InvByValue DEF Init, Outcome

\* A recorded failure leaves the caller idle or asleep within its budget.
LEMMA FailureInBudget ==
    ASSUME GuardInv, NEW c \in Callers, calls[c].step = "calling",
           NEW retryable \in BOOLEAN, Failed(c, retryable)
    PROVE  GuardInv'
  <1>1. Sound(circuit')
    BY TransitionsAreSound, InvByValue DEF Failed
  <1>2. /\ calls \in [Callers -> Call] /\ InBudget(calls[c])
        /\ \A d \in Callers : InBudget(calls[d])
    BY InvByValue
  <1>3. PICK call : InBudget(call) /\ calls' = [calls EXCEPT ![c] = call]
    <2>1. CASE ShouldRetry(calls[c], retryable)
      <3>1. calls[c].attempt \in 1..MaxAttempts
            /\ Backoff[calls[c].attempt] \in Nat
        BY <1>2, RetryAssumption DEF InBudget
      <3>2. PICK wait \in Nat : wait = Backoff[calls[c].attempt]
        BY <3>1
      <3> DEFINE call == Asleep(calls[c], "sleeping", wait)
      <3>a. calls' = [calls EXCEPT ![c] = call]
        BY <2>1, <3>2 DEF Failed, Asleep
      <3>0. /\ call \in Call /\ call.step = "sleeping" /\ call.left = wait
            /\ call.attempt = calls[c].attempt /\ call.elapsed = calls[c].elapsed
        <4>1. calls[c] \in Call
          BY <1>2 DEF InBudget
        <4> QED
          BY <4>1, SleepFields, SMTT(30)
      <3>3. calls[c].attempt < MaxAttempts
        BY <2>1, <3>1, RetryAssumption DEF ShouldRetry, Limit
      <3>4. calls[c].elapsed + wait < Total
        BY <2>1, <3>2 DEF ShouldRetry
      <3> HIDE DEF call
      <3>5. InBudget(call)
        BY <1>2, <3>0, <3>1, <3>3, <3>4, BudgetAssumption DEF InBudget, Call
      <3> QED
        BY <3>a, <3>5
    <2>2. CASE ~ShouldRetry(calls[c], retryable)
      BY <2>2, NoCallInBudget DEF Failed
    <2> QED
      BY <2>1, <2>2
  <1>4. calls' \in [Callers -> Call] /\ \A d \in Callers : InBudget(calls'[d])
    BY <1>2, <1>3 DEF InBudget
  <1>5. down' \in BOOLEAN /\ outcome' \in [Callers -> Outcome]
    BY InvByValue DEF Failed, Outcome
  <1> QED
    BY <1>1, <1>4, <1>5, InvByValue DEF GuardInv, TypeOK, CircuitSound,
       BudgetKept, SleepInBudget, AttemptNumbered, Sound, InBudget

LEMMA GuardStep == GuardInv /\ [Next]_vars => GuardInv'
  <1> SUFFICES ASSUME GuardInv, [Next]_vars PROVE GuardInv'
    OBVIOUS
  <1>0. /\ down \in BOOLEAN /\ Sound(circuit)
        /\ calls \in [Callers -> Call] /\ \A d \in Callers : InBudget(calls[d])
        /\ outcome \in [Callers -> Outcome]
    BY InvByValue
  <1>a. ASSUME /\ down' \in BOOLEAN /\ Sound(circuit')
               /\ calls' \in [Callers -> Call]
               /\ \A d \in Callers : InBudget(calls'[d])
               /\ outcome' \in [Callers -> Outcome]
        PROVE  GuardInv'
    BY <1>a DEF GuardInv, TypeOK, CircuitSound, BudgetKept, SleepInBudget,
                AttemptNumbered, Sound, InBudget
  <1>1. CASE UNCHANGED vars
    BY <1>0, <1>1, <1>a DEF vars
  <1>2. CASE Outage
    BY <1>0, <1>2, <1>a DEF Outage
  <1>3. CASE Tick
    <2>1. Sound(circuit')
      <3>1. CASE circuit.state = "open"
        <4>1. AtMost(circuit.age + 1, Cooldown) \in 0..Cooldown
          BY <1>0, CircuitAssumption DEF AtMost, Sound, Circuit
        <4>2. circuit' = [circuit EXCEPT !.age = AtMost(circuit.age + 1, Cooldown)]
          BY <1>3, <3>1 DEF Tick
        <4> QED
          BY <1>0, <4>1, <4>2 DEF Sound, Circuit
      <3>2. CASE circuit.state # "open"
        BY <1>0, <1>3, <3>2 DEF Tick
      <3> QED
        BY <3>1, <3>2
    <2>2. ASSUME NEW d \in Callers PROVE InBudget(calls'[d])
      <3>1. CASE calls[d].step = "idle"
        BY <1>0, <1>3, <3>1 DEF Tick
      <3>2. CASE calls[d].step # "idle"
        <4>1. calls'[d] = [calls[d] EXCEPT !.elapsed = @ + 1, !.left = @ - 1]
          BY <1>3, <3>2 DEF Tick
        <4>2. calls[d].left > 0 /\ InBudget(calls[d])
          BY <1>0, <1>3, <3>2 DEF Tick
        <4>3. calls'[d] = [step |-> calls[d].step, attempt |-> calls[d].attempt,
                           probe |-> calls[d].probe,
                           unlucky |-> calls[d].unlucky,
                           elapsed |-> calls[d].elapsed + 1,
                           left |-> calls[d].left - 1]
          BY <1>0, <4>1, ZenonT(60) DEF Call
        <4> QED
          BY <4>2, <4>3, BudgetAssumption DEF InBudget, Call
      <3> QED
        BY <3>1, <3>2
    <2>3. calls' \in [Callers -> Call]
      BY <2>2, <1>3 DEF Tick, InBudget
    <2> QED
      BY <1>0, <1>3, <1>a, <2>1, <2>2, <2>3 DEF Tick
  <1>4. ASSUME NEW c \in Callers, Step(c) PROVE GuardInv'
    <2>a. ASSUME NEW call, InBudget(call), calls' = [calls EXCEPT ![c] = call]
          PROVE  calls' \in [Callers -> Call] /\ \A d \in Callers : InBudget(calls'[d])
      BY <1>0, <2>a DEF InBudget
    <2>1. CASE Begin(c)
      <3> DEFINE call == [step |-> "calling", attempt |-> 1,
                          probe |-> (Ready.state = "half_open"),
                          unlucky |-> down, elapsed |-> 0, left |-> PerAttempt]
      <3>1. InBudget(call)
        BY <1>0, RetryAssumption, BudgetAssumption DEF InBudget, Call
      <3>2. calls' = [calls EXCEPT ![c] = call] /\ circuit' = Ready
        BY <2>1 DEF Begin
      <3>3. Sound(circuit')
        BY <1>0, <3>2, TransitionsAreSound
      <3> HIDE DEF call
      <3> QED
        BY <1>0, <1>a, <2>a, <2>1, <3>1, <3>2, <3>3 DEF Begin
    <2>2. CASE ShortCircuit(c)
      BY <1>0, <1>a, <2>2 DEF ShortCircuit, Outcome
    <2>3. CASE Succeed(c)
      BY <1>0, <1>a, <2>a, <2>3, NoCallInBudget, TransitionsAreSound
         DEF Succeed, Outcome
    <2>4. CASE Fail(c)
      BY <2>4, FailureInBudget DEF Fail
    <2>5. CASE TimeOut(c)
      BY <2>5, FailureInBudget DEF TimeOut
    <2>6. CASE NextAttempt(c)
      <3>1. InBudget(calls[c]) /\ calls[c].step = "sleeping" /\ calls[c].left = 0
        BY <1>0, <2>6 DEF NextAttempt
      <3>2. PICK n \in 0..MaxAttempts : n = calls[c].attempt + 1
        BY <3>1, RetryAssumption DEF InBudget, Call
      <3> DEFINE call == Awake(calls[c], "calling", n, down, PerAttempt)
      <3>3. calls' = [calls EXCEPT ![c] = call]
        BY <2>6, <3>2 DEF NextAttempt, Awake
      <3>4. /\ call \in Call /\ call.step = "calling" /\ call.left = PerAttempt
            /\ call.attempt = n /\ call.elapsed = calls[c].elapsed
        BY <1>0, <3>1, AttemptFields, BudgetAssumption DEF InBudget
      <3> HIDE DEF call
      <3>5. InBudget(call)
        BY <3>1, <3>2, <3>4, RetryAssumption, BudgetAssumption DEF InBudget, Call
      <3> QED
        BY <1>0, <1>a, <2>a, <2>6, <3>3, <3>5 DEF NextAttempt
    <2>7. CASE Cancel(c)
      BY <1>0, <1>a, <2>a, <2>7, NoCallInBudget DEF Cancel
    <2> QED
      BY <1>4, <2>1, <2>2, <2>3, <2>4, <2>5, <2>6, <2>7 DEF Step
  <1> QED
    BY <1>1, <1>2, <1>3, <1>4 DEF Next

\* The circuit breaker's counters stay below their thresholds in every state
\* that waits for them, however late the answers of the calls arrive.
THEOREM CircuitIsSound == Spec => []CircuitSound
  <1>1. GuardInv => CircuitSound
    BY DEF GuardInv
  <1> QED
    BY <1>1, GuardInit, GuardStep, PTL DEF Spec

\* No call outlives its total budget by more than the timeout of an attempt.
THEOREM CallsKeepBudget == Spec => []BudgetKept
  <1>1. GuardInv => BudgetKept
    BY DEF GuardInv
  <1> QED
    BY <1>1, GuardInit, GuardStep, PTL DEF Spec

-----------------------------------------------------------------------------
(***************************************************************************)
(* The order of the circuit                                                *)
(***************************************************************************)

\* Of the transitions only Ready takes a circuit out of open, and only after
\* the cooldown; a failure of a half-open circuit opens it.
LEMMA TransitionsAreOrderly ==
    ASSUME circuit \in Circuit
    PROVE  /\ circuit.state = "open" /\ Ready.state # "open" =>
                   circuit.age = Cooldown /\ Ready.state = "half_open"
           /\ circuit.state = "open" => /\ AfterSuccess.state = "open"
                                        /\ AfterFailure.state = "open"
           /\ circuit.state = "half_open" => AfterFailure.state = "open"
  <1>1. Opened.state = "open" /\ Opened \in Circuit
    BY OpenedFields
  <1>2. circuit.state = "open" /\ Ready.state # "open" =>
            circuit.age = Cooldown /\ Ready.state = "half_open"
    BY DEF Ready, Circuit
  <1>3. circuit.state = "open" => AfterSuccess.state = "open"
    BY DEF AfterSuccess, Recovers, Circuit
  <1>4. circuit.state = "open" => AfterFailure.state = "open"
    <2> DEFINE failures == AtMost(circuit.failures + 1, FailureThreshold)
    <2> HIDE DEF failures
    <2>1. AfterFailure = IF circuit.state = "half_open" THEN Opened
                         ELSE IF failures = FailureThreshold
                           THEN [Opened EXCEPT !.failures = failures]
                           ELSE [circuit EXCEPT !.failures = failures]
      BY DEF AfterFailure, failures
    <2> QED
      BY <1>1, <2>1 DEF Circuit
  <1>5. circuit.state = "half_open" => AfterFailure.state = "open"
    BY <1>1 DEF AfterFailure
  <1> QED
    BY <1>2, <1>3, <1>4, <1>5

\* One step of any call, of the clock or of the dependency keeps the order.
LEMMA OrderlyStep ==
    ASSUME GuardInv, [Next]_vars
    PROVE  /\ circuit.state = "open" /\ circuit'.state # "open" =>
                   circuit.age = Cooldown /\ circuit'.state = "half_open"
           /\ circuit.state = "half_open" /\
                 (\E c \in Callers : calls[c].step = "calling" /\ calls[c].unlucky
                                    /\ outcome[c] # outcome'[c]
                                    /\ outcome'[c] = "degraded")
                 => circuit'.state = "open"
  <1>0. circuit \in Circuit /\ outcome \in [Callers -> Outcome]
    BY DEF GuardInv, TypeOK
  <1>1. CASE UNCHANGED vars
    BY <1>1 DEF vars
  <1>2. CASE Outage
    BY <1>2 DEF Outage
  <1>3. CASE Tick
    <2>1. circuit.state = "open" => circuit'.state = "open"
      <3>1. circuit.state = "open" =>
                circuit' = [circuit EXCEPT !.age = AtMost(circuit.age + 1, Cooldown)]
        BY <1>3 DEF Tick
      <3> QED
        BY <1>0, <3>1 DEF Circuit
    <2>2. outcome' = outcome
      BY <1>3 DEF Tick
    <2> QED
      BY <2>1, <2>2
  <1>4. ASSUME NEW d \in Callers, Step(d)
        PROVE  /\ circuit.state = "open" /\ circuit'.state # "open" =>
                       circuit.age = Cooldown /\ circuit'.state = "half_open"
               /\ \A c \in Callers :
                     circuit.state = "half_open" /\ calls[c].step = "calling"
                     /\ calls[c].unlucky /\ outcome[c] # outcome'[c]
                     => circuit'.state = "open"
    <2>1. CASE Begin(d)
      BY <1>0, <2>1, TransitionsAreOrderly DEF Begin
    <2>2. CASE ShortCircuit(d)
      BY <1>0, <2>2 DEF ShortCircuit
    <2>3. CASE Succeed(d)
      BY <1>0, <2>3, TransitionsAreOrderly DEF Succeed
    <2>4. CASE \E retryable \in BOOLEAN : Failed(d, retryable)
      BY <1>0, <2>4, TransitionsAreOrderly DEF Failed
    <2>5. CASE NextAttempt(d)
      BY <2>5 DEF NextAttempt
    <2>6. CASE Cancel(d)
      BY <2>6 DEF Cancel
    <2> QED
      BY <1>4, <2>1, <2>2, <2>3, <2>4, <2>5, <2>6 DEF Step, Fail, TimeOut
  <1> QED
    BY <1>1, <1>2, <1>3, <1>4 DEF Next

\* The circuit stays open for its cooldown, leaves open through half_open only,
\* and a failure on the way starts it over, whatever late answers do to it.
THEOREM RecoveryStaysOrderly == Spec => RecoveryIsOrderly
  <1>1. GuardInv => TypeOK
    BY DEF GuardInv
  <1>2. GuardInv /\ [Next]_vars =>
            [circuit.state = "open" /\ circuit'.state # "open" =>
                 circuit.age = Cooldown /\ circuit'.state = "half_open"]_vars
    BY OrderlyStep
  <1>3. GuardInv /\ [Next]_vars =>
            [circuit.state = "half_open" /\
               (\E c \in Callers : calls[c].step = "calling" /\ calls[c].unlucky
                                  /\ outcome[c] # outcome'[c]
                                  /\ outcome'[c] = "degraded")
               => circuit'.state = "open"]_vars
    BY OrderlyStep
  <1> QED
    BY <1>1, <1>2, <1>3, GuardInit, GuardStep, PTL
       DEF Spec, RecoveryIsOrderly, OpenIsKept, FailureEndsRecovery

-----------------------------------------------------------------------------
(***************************************************************************)
(* The inbox of a consumer                                                 *)
(***************************************************************************)

\* Why the inbox lets an event in once: an event some worker is in the handler
\* of is in progress, and one that was handled since the restart is completed.
InboxKnows ==
    /\ \A w \in Workers : running[w] # Nothing => inbox[running[w]] = "in_progress"
    /\ \A e \in Events : runs[e] > 0 => inbox[e] = "completed"

InboxInv == HandledOnce /\ InboxKnows

LEMMA InboxInit == EventsInit => InboxInv
  BY InboxAssumption
     DEF EventsInit, InboxInv, HandledOnce, InboxKnows, EventsTypeOK, Nothing

LEMMA InboxStep == InboxInv /\ [EventsNext]_eventVars => InboxInv'
  <1> SUFFICES ASSUME InboxInv, [EventsNext]_eventVars PROVE InboxInv'
    OBVIOUS
  <1> USE InboxAssumption DEF InboxInv, HandledOnce, InboxKnows, EventsTypeOK
  <1>1. CASE UNCHANGED eventVars
    BY <1>1 DEF eventVars
  <1>2. ASSUME NEW e \in Events, Publish(e) \/ Redeliver(e) PROVE InboxInv'
    BY <1>2 DEF Publish, Redeliver
  <1>3. ASSUME NEW w \in Workers, NEW e \in Events, Take(w, e) PROVE InboxInv'
    <2>1. EventsTypeOK'
      BY <1>3 DEF Take
    <2>2. \A v \in Workers : running[v] # e
      BY <1>3 DEF Take, MayBegin
    <2> QED
      BY <1>3, <2>1, <2>2 DEF Take, MayBegin
  <1>4. ASSUME NEW w \in Workers, NEW e \in Events, Skip(w, e) PROVE InboxInv'
    BY <1>4 DEF Skip
  <1>5. ASSUME NEW w \in Workers, HandlerEnds(w) PROVE InboxInv'
    <2>1. PICK e \in Events : running[w] = e
      BY <1>5 DEF HandlerEnds
    <2>2. runs[e] = 0 /\ \A v \in Workers : v # w => running[v] # e
      BY <2>1
    <2>3. EventsTypeOK'
      BY <1>5, <2>1 DEF HandlerEnds
    <2> QED
      BY <1>5, <2>1, <2>2, <2>3 DEF HandlerEnds
  <1>6. ASSUME NEW w \in Workers, HandlerRaises(w) PROVE InboxInv'
    <2>1. PICK e \in Events : running[w] = e
      BY <1>6 DEF HandlerRaises
    <2>2. runs[e] = 0 /\ \A v \in Workers : v # w => running[v] # e
      BY <2>1
    <2>3. EventsTypeOK'
      BY <1>6, <2>1 DEF HandlerRaises
    <2> QED
      BY <1>6, <2>1, <2>2, <2>3 DEF HandlerRaises
  <1>7. ASSUME NEW w \in Workers, HandlerCancelled(w) PROVE InboxInv'
    <2>1. PICK e \in Events : running[w] = e
      BY <1>7 DEF HandlerCancelled
    <2>2. EventsTypeOK'
      BY <1>7, <2>1 DEF HandlerCancelled
    <2> QED
      BY <1>7, <2>1, <2>2 DEF HandlerCancelled
  <1>8. CASE Restart
    BY <1>8 DEF Restart
  <1> QED
    BY <1>1, <1>2, <1>3, <1>4, <1>5, <1>6, <1>7, <1>8 DEF EventsNext

\* Between two restarts no handler ends well twice for one event and no two
\* workers are in the handler of one event: the safety half of EventsAreHandled.
THEOREM HandlersRunOnce == EventsSpec => []HandledOnce
  <1>1. InboxInv => HandledOnce
    BY DEF InboxInv
  <1> QED
    BY <1>1, InboxInit, InboxStep, PTL DEF EventsSpec
=============================================================================
