------------------------ MODULE PayoutGatewayProofs ------------------------
(***************************************************************************)
(* Proofs about the HITL Payout Gateway, for any sets of payouts, requests *)
(* and ids, any veto window and any bound on the clock: types, payments,   *)
(* vetoes, the records an executed payout cites and the trace of every     *)
(* payment, the refinement of PayoutLifecycle, and what the panel of the   *)
(* Council offers while the gateway moves on.                              *)
(***************************************************************************)
EXTENDS PayoutGateway, CouncilPanel, FiniteSetTheorems, TLAPS

(***************************************************************************)
(* Type correctness.  TypeOK is not inductive: a suspended request also    *)
(* has to know its payout and its execution id.                            *)
(***************************************************************************)

CallsTyped ==
    \A c \in Callers : calls[c].step # "idle" =>
        calls[c].payout \in Payouts /\ calls[c].execution \in Executions

TypeInv == TypeOK /\ CallsTyped

LEMMA IdleIsCall == Idle \in Call /\ Absent \in PayoutItem /\ Idle.step = "idle"
  BY DEF Idle, Call, Absent, PayoutItem, PayoutStatus, Steps

LEMMA EntryIsRecord ==
    ASSUME NEW type \in AuditTypes, NEW p \in Payouts,
           NEW ref \in Decisions \cup Confirmations \cup Executions \cup {NoId}
    PROVE  Entry(type, p, ref) \in AuditRecord
  BY DEF Entry, AuditRecord

LEMMA TypeInit == Init => TypeInv
  BY IdleIsCall, PayoutTimeAssumption DEF Init, TypeInv, TypeOK, CallsTyped

LEMMA TypeStep == TypeInv /\ [Next]_vars => TypeInv'
  <1> SUFFICES ASSUME TypeInv, [Next]_vars PROVE TypeInv'
    OBVIOUS
  <1> USE DEF TypeInv, TypeOK, CallsTyped
  <1>1. CASE Tick
    BY <1>1, PayoutTimeAssumption DEF Tick
  <1>2. ASSUME NEW p \in Payouts, QueuePayout(p) PROVE TypeInv'
    <2> DEFINE entry == Entry("payout.queued", p, NoId)
    <2>1. entry \in AuditRecord
      BY EntryIsRecord DEF AuditTypes
    <2>2. PICK at \in Nows : payouts' = [payouts EXCEPT ![p] =
             [Absent EXCEPT !.status = "queued", !.veto_until = at + VetoWindow,
                            !.audit = entry]]
      BY <1>2 DEF QueuePayout
    <2>3. at + VetoWindow \in Nat
      BY PayoutTimeAssumption DEF Nows
    <2>4. payouts' \in [Payouts -> PayoutItem]
      BY <2>1, <2>2, <2>3, IdleIsCall DEF PayoutItem, PayoutStatus
    <2>5. audit' \subseteq AuditRecord /\ events' \subseteq AuditRecord
      BY <1>2, <2>1 DEF QueuePayout, Record, Publish
    <2> QED
      BY <1>2, <2>4, <2>5 DEF QueuePayout
  <1>3. ASSUME NEW p \in Payouts, NEW d \in Decisions, VetoPayout(p, d)
        PROVE  TypeInv'
    <2> DEFINE entry == Entry("payout.vetoed", p, d)
    <2>1. entry \in AuditRecord
      BY EntryIsRecord DEF AuditTypes
    <2> DEFINE item == [payouts[p] EXCEPT !.status = "canceled", !.veto = d,
                                          !.audit = entry]
    <2>a. payouts' = [payouts EXCEPT ![p] = item]
      BY <1>3 DEF VetoPayout
    <2>b. payouts[p] \in PayoutItem
      OBVIOUS
    <2> HIDE DEF entry
    <2>c. item \in PayoutItem
      BY <2>1, <2>b DEF PayoutItem, PayoutStatus
    <2>2. payouts' \in [Payouts -> PayoutItem]
      BY <2>a, <2>c
    <2>3. audit' \subseteq AuditRecord /\ events' \subseteq AuditRecord
      BY <1>3, <2>1 DEF VetoPayout, Record, Publish, entry
    <2>4. decisions' \subseteq Decision
      BY <1>3 DEF VetoPayout, Decision
    <2> QED
      BY <1>3, <2>2, <2>3, <2>4 DEF VetoPayout
  <1>4. ASSUME NEW p \in Payouts, NEW d \in Decisions, VetoDuplicateDecision(p, d)
        PROVE  TypeInv'
    BY <1>4, EntryIsRecord DEF VetoDuplicateDecision, Record, AuditTypes
  <1>5. ASSUME NEW p \in Payouts, NEW k \in Confirmations, ConfirmPayout(p, k)
        PROVE  TypeInv'
    <2> DEFINE entry == Entry("payout.confirmed", p, k)
    <2>1. entry \in AuditRecord
      BY EntryIsRecord DEF AuditTypes
    <2> DEFINE item == [payouts[p] EXCEPT !.confirmation = k, !.audit = entry]
    <2>a. payouts' = [payouts EXCEPT ![p] = item]
      BY <1>5 DEF ConfirmPayout
    <2>b. payouts[p] \in PayoutItem
      OBVIOUS
    <2> HIDE DEF entry
    <2>c. item \in PayoutItem
      BY <2>1, <2>b DEF PayoutItem
    <2>2. payouts' \in [Payouts -> PayoutItem]
      BY <2>a, <2>c
    <2>3. audit' \subseteq AuditRecord /\ events' \subseteq AuditRecord
      BY <1>5, <2>1 DEF ConfirmPayout, Record, Publish, entry
    <2>4. confirmations' \subseteq Confirmation
      BY <1>5 DEF ConfirmPayout, Confirmable, Confirmation
    <2> QED
      BY <1>5, <2>2, <2>3, <2>4 DEF ConfirmPayout
  <1>6. ASSUME NEW p \in Payouts, NEW k \in Confirmations, ConfirmDuplicate(p, k)
        PROVE  TypeInv'
    BY <1>6, EntryIsRecord DEF ConfirmDuplicate, Record, AuditTypes
  <1>7. ASSUME NEW p \in Payouts, MarkReadyForExecution(p) PROVE TypeInv'
    <2>1. payouts' \in [Payouts -> PayoutItem]
      BY <1>7, SMTT(30) DEF MarkReadyForExecution, PayoutItem, PayoutStatus
    <2> QED
      BY <1>7, <2>1 DEF MarkReadyForExecution
  <1>8. ASSUME NEW c \in Executors, NEW p \in Payouts, NEW e \in Executions,
               BeginExecute(c, p, e)
        PROVE  TypeInv'
    <2>1. c \in Callers
      BY DEF Callers
    <2> DEFINE call == [Idle EXCEPT !.step = "paying", !.payout = p,
                                    !.copy = payouts[p], !.execution = e]
    <2>a. calls' = [calls EXCEPT ![c] = call]
      BY <1>8 DEF BeginExecute
    <2>b. call \in Call /\ call.payout = p /\ call.execution = e
      BY IdleIsCall DEF Call, Steps, Idle
    <2> HIDE DEF call
    <2>2. calls' \in [Callers -> Call] /\ CallsTyped'
      BY <2>1, <2>a, <2>b
    <2>3. wire' \subseteq PaymentRequest
      BY <1>8 DEF BeginExecute, PaymentRequest
    <2> QED
      BY <1>8, <2>2, <2>3 DEF BeginExecute
  <1>9. ASSUME NEW c \in Executors, PaymentAnswers(c) PROVE TypeInv'
    <2>1. c \in Callers
      BY DEF Callers
    <2>a. PICK pay \in payments :
             calls' = [calls EXCEPT ![c].step = "recording",
                                    ![c].payment_status = pay.status]
      BY <1>9 DEF PaymentAnswers
    <2> DEFINE call == [calls[c] EXCEPT !.step = "recording",
                                        !.payment_status = pay.status]
    <2>b. calls' = [calls EXCEPT ![c] = call]
      BY <2>a
    <2>c. calls[c] \in Call /\ calls[c].payout \in Payouts
          /\ calls[c].execution \in Executions
          /\ pay.status \in PayoutPaymentStatus
      BY <1>9, <2>1 DEF PaymentAnswers, Payment
    <2>d. call \in Call /\ call.payout \in Payouts /\ call.execution \in Executions
      BY <2>c DEF Call, Steps
    <2> HIDE DEF call
    <2>2. calls' \in [Callers -> Call] /\ CallsTyped'
      BY <2>1, <2>b, <2>d
    <2>3. Entry("payout.executed", calls[c].payout, calls[c].execution)
             \in AuditRecord
      BY <1>9, <2>1, EntryIsRecord DEF PaymentAnswers, AuditTypes
    <2> QED
      BY <1>9, <2>2, <2>3 DEF PaymentAnswers, Record
  <1>10. ASSUME NEW c \in Executors, ChainAnswers(c) PROVE TypeInv'
    <2>1. c \in Callers
      BY DEF Callers
    <2>2. calls' \in [Callers -> Call] /\ CallsTyped'
      BY <1>10, <2>1 DEF ChainAnswers, Call, Steps
    <2>3. Attempt(c) \in PaymentRequest
      BY <1>10, <2>1 DEF ChainAnswers, Attempt, PaymentRequest
    <2> QED
      BY <1>10, <2>2, <2>3 DEF ChainAnswers
  <1>11. ASSUME NEW c \in Executors, NotificationAnswers(c) PROVE TypeInv'
    <2> DEFINE p == calls[c].payout
               e == calls[c].execution
               entry == Entry("payout.executed", p, e)
    <2>1. c \in Callers
      BY DEF Callers
    <2>2. p \in Payouts /\ e \in Executions
      BY <1>11, <2>1 DEF NotificationAnswers
    <2>3. entry \in AuditRecord
      BY <2>2, EntryIsRecord DEF AuditTypes
    <2>4. calls[c].copy \in PayoutItem
          /\ calls[c].payment_status \in PayoutPaymentStatus \cup {NoId}
      BY <2>1 DEF Call
    <2>5. WithExecution(calls[c].copy, e, calls[c].payment_status, entry)
             \in PayoutItem
      BY <2>2, <2>3, <2>4 DEF WithExecution, PayoutItem, PayoutStatus
    <2>6. payouts' \in [Payouts -> PayoutItem]
      BY <1>11, <2>2, <2>5 DEF NotificationAnswers
    <2>7. calls' \in [Callers -> Call] /\ CallsTyped'
      BY <1>11, <2>1, IdleIsCall DEF NotificationAnswers
    <2>8. Attempt(c) \in PaymentRequest
      BY <2>2 DEF Attempt, PaymentRequest
    <2>9. events' \subseteq AuditRecord
      BY <1>11, <2>3 DEF NotificationAnswers, Publish
    <2> QED
      BY <1>11, <2>6, <2>7, <2>8, <2>9 DEF NotificationAnswers
  <1>12. ASSUME NEW c \in Callers, ConnectorFails(c) PROVE TypeInv'
    <2>1. calls' \in [Callers -> Call] /\ CallsTyped'
      BY <1>12, IdleIsCall DEF ConnectorFails
    <2>2. calls[c].payout \in Payouts /\ calls[c].execution \in Executions
      BY <1>12 DEF ConnectorFails
    <2>3. Attempt(c) \in PaymentRequest
      BY <2>2 DEF Attempt, PaymentRequest
    <2>4. Entry("payout.failed", calls[c].payout, NoId) \in AuditRecord
      BY <2>2, EntryIsRecord DEF AuditTypes
    <2>5. audit' \subseteq AuditRecord /\ events' \subseteq AuditRecord
      BY <1>12, <2>4 DEF ConnectorFails, Record, Publish
    <2>6. chain' \subseteq PaymentRequest /\ notices' \subseteq PaymentRequest
      BY <1>12, <2>3 DEF ConnectorFails
    <2> QED
      BY <1>12, <2>1, <2>5, <2>6 DEF ConnectorFails
  <1>13. ASSUME NEW c \in Syncers, NEW p \in Payouts, BeginSync(c, p)
         PROVE  TypeInv'
    <2>1. c \in Callers
      BY DEF Callers
    <2>2. payouts[p] \in PayoutItem /\ payouts[p].execution \in Executions
      BY <1>13 DEF BeginSync, PayoutItem
    <2> DEFINE call == [Idle EXCEPT !.step = "asking", !.payout = p,
                                    !.copy = payouts[p],
                                    !.execution = payouts[p].execution]
    <2>a. calls' = [calls EXCEPT ![c] = call]
      BY <1>13 DEF BeginSync
    <2>b. call \in Call /\ call.payout = p /\ call.execution \in Executions
      BY <2>2, IdleIsCall DEF Call, Steps, Idle
    <2> HIDE DEF call
    <2>3. calls' \in [Callers -> Call] /\ CallsTyped'
      BY <2>1, <2>a, <2>b
    <2> QED
      BY <1>13, <2>3 DEF BeginSync
  <1>14. ASSUME NEW c \in Syncers, GatewayReports(c) PROVE TypeInv'
    <2>1. c \in Callers
      BY DEF Callers
    <2>a. PICK pay \in payments :
             calls' = [calls EXCEPT ![c].step = "answered",
                                    ![c].payment_status = pay.status]
      BY <1>14 DEF GatewayReports
    <2> DEFINE call == [calls[c] EXCEPT !.step = "answered",
                                        !.payment_status = pay.status]
    <2>b. calls' = [calls EXCEPT ![c] = call]
      BY <2>a
    <2>c. calls[c] \in Call /\ calls[c].payout \in Payouts
          /\ calls[c].execution \in Executions
          /\ pay.status \in PayoutPaymentStatus
      BY <1>14, <2>1 DEF GatewayReports, Payment
    <2>d. call \in Call /\ call.payout \in Payouts /\ call.execution \in Executions
      BY <2>c DEF Call, Steps
    <2> HIDE DEF call
    <2>2. calls' \in [Callers -> Call] /\ CallsTyped'
      BY <2>1, <2>b, <2>d
    <2> QED
      BY <1>14, <2>2 DEF GatewayReports
  <1>15. ASSUME NEW c \in Syncers, ApplyStatus(c) PROVE TypeInv'
    <2> DEFINE p == calls[c].payout
               entry == Entry("payout.payment_status_synced", p, calls[c].execution)
    <2>1. c \in Callers
      BY DEF Callers
    <2>2. p \in Payouts /\ calls[c].execution \in Executions
      BY <1>15, <2>1 DEF ApplyStatus
    <2>3. entry \in AuditRecord
      BY <2>2, EntryIsRecord DEF AuditTypes
    <2>4. calls[c].copy \in PayoutItem
          /\ calls[c].payment_status \in PayoutPaymentStatus \cup {NoId}
      BY <2>1 DEF Call
    <2>5. WithPaymentStatus(calls[c].copy, calls[c].payment_status, entry)
             \in PayoutItem
      BY <2>3, <2>4 DEF WithPaymentStatus, PayoutItem
    <2>6. payouts' \in [Payouts -> PayoutItem]
      BY <1>15, <2>2, <2>5 DEF ApplyStatus
    <2>7. calls' \in [Callers -> Call] /\ CallsTyped'
      BY <1>15, <2>1, IdleIsCall DEF ApplyStatus
    <2>8. audit' \subseteq AuditRecord /\ events' \subseteq AuditRecord
      BY <1>15, <2>3 DEF ApplyStatus, Record, Publish
    <2> QED
      BY <1>15, <2>6, <2>7, <2>8 DEF ApplyStatus
  <1>16. ASSUME NEW r \in wire, GatewayAccepts(r) PROVE TypeInv'
    <2>1. payments' \subseteq Payment
      BY <1>16, PayoutStatusAssumption
         DEF GatewayAccepts, PaymentRequest, Payment
    <2> QED
      BY <1>16, <2>1 DEF GatewayAccepts
  <1>17. ASSUME NEW r \in wire, GatewayDrops(r) PROVE TypeInv'
    BY <1>17 DEF GatewayDrops
  <1>18. ASSUME NEW pay \in payments, GatewayProgress(pay) PROVE TypeInv'
    <2>1. payments' \subseteq Payment
      BY <1>18, PayoutStatusAssumption DEF GatewayProgress, Payment
    <2> QED
      BY <1>18, <2>1 DEF GatewayProgress
  <1>19. CASE UNCHANGED vars
    BY <1>19 DEF vars
  <1> QED
    BY <1>1, <1>2, <1>3, <1>4, <1>5, <1>6, <1>7, <1>8, <1>9, <1>10, <1>11,
       <1>12, <1>13, <1>14, <1>15, <1>16, <1>17, <1>18, <1>19
       DEF Next, CouncilStep, ExecutorStep, SyncerStep, GatewayStep, Callers

\* Every reachable state is well typed.
THEOREM TypeCorrect == Spec => []TypeOK
  <1>1. TypeInv => TypeOK
    BY DEF TypeInv
  <1> QED
    BY <1>1, TypeInit, TypeStep, PTL DEF Spec

-----------------------------------------------------------------------------
(***************************************************************************)
(* Money is asked for only after the window and the confirmation.  The     *)
(* invariant follows the facts _require_executable checked through the     *)
(* awaits: they hold of the copy, and of the payout in the repository as   *)
(* long as its window and its confirmation never change again.             *)
(***************************************************************************)

\* The caller of a time "now" that passed the check is at most Skew ahead.
WindowOver(item) == clock + Skew >= item.veto_until

Confirmed(p, item) ==
    /\ item.confirmation # NoId
    /\ \E k \in confirmations : k.id = item.confirmation /\ k.payout = p

PayoutsSound ==
    \A p \in Payouts :
        /\ payouts[p].confirmation # NoId =>
               payouts[p].status # "absent" /\ Confirmed(p, payouts[p])
        /\ payouts[p].status = "executed" =>
               WindowOver(payouts[p]) /\ payouts[p].confirmation # NoId
        /\ payouts[p].execution # NoId => payouts[p].status = "executed"

CopiesSound ==
    \A c \in Callers : calls[c].step # "idle" =>
        LET p == calls[c].payout IN
        /\ calls[c].copy.veto_until = payouts[p].veto_until
        /\ calls[c].copy.confirmation = payouts[p].confirmation
        /\ payouts[p].confirmation # NoId
        /\ WindowOver(payouts[p])
        /\ calls[c].step \in {"asking", "answered"} =>
               calls[c].copy.status = "executed"

RequestsSound ==
    \A p \in Payouts :
        (\E r \in wire \cup payments : r.payout = p) =>
            WindowOver(payouts[p]) /\ payouts[p].confirmation # NoId

PaymentInv == TypeInv /\ PayoutsSound /\ CopiesSound /\ RequestsSound

LEMMA PaymentInit == Init => PaymentInv
  BY TypeInit DEF Init, PaymentInv, PayoutsSound, CopiesSound, RequestsSound,
     Absent, Idle

\* What a step may do to a payout without disturbing the invariant: keep its
\* window and a confirmation it has.
KeepsTerms(p) ==
    /\ payouts'[p].veto_until = payouts[p].veto_until
    /\ payouts[p].confirmation # NoId =>
           payouts'[p].confirmation = payouts[p].confirmation

LEMMA TermsKept ==
    ASSUME PaymentInv, [Next]_vars, NEW p \in Payouts, payouts[p].status # "absent"
    PROVE  KeepsTerms(p)
  <1> USE DEF KeepsTerms
  <1>1. CASE payouts' = payouts
    BY <1>1
  <1>2. ASSUME NEW q \in Payouts, QueuePayout(q) PROVE KeepsTerms(p)
    BY <1>2 DEF QueuePayout, PaymentInv, TypeInv, TypeOK
  <1>3. ASSUME NEW q \in Payouts, NEW d \in Decisions, VetoPayout(q, d)
        PROVE  KeepsTerms(p)
    <2> DEFINE item == [payouts[q] EXCEPT !.status = "canceled", !.veto = d,
                                   !.audit = Entry("payout.vetoed", q, d)]
    <2>1. payouts' = [payouts EXCEPT ![q] = item]
      BY <1>3 DEF VetoPayout
    <2>2. payouts[q] \in PayoutItem /\ payouts \in [Payouts -> PayoutItem]
      BY DEF PaymentInv, TypeInv, TypeOK
    <2>3. /\ item.veto_until = payouts[q].veto_until
          /\ item.confirmation = payouts[q].confirmation
      BY <2>2 DEF PayoutItem
    <2> QED
      BY <2>1, <2>2, <2>3
  <1>4. ASSUME NEW q \in Payouts, NEW k \in Confirmations, ConfirmPayout(q, k)
        PROVE  KeepsTerms(p)
    <2> DEFINE item == [payouts[q] EXCEPT !.confirmation = k,
                                   !.audit = Entry("payout.confirmed", q, k)]
    <2>1. payouts' = [payouts EXCEPT ![q] = item]
          /\ payouts[q].confirmation = NoId
      BY <1>4, ZenonT(60) DEF ConfirmPayout, Confirmable
    <2>2. payouts[q] \in PayoutItem /\ payouts \in [Payouts -> PayoutItem]
      BY DEF PaymentInv, TypeInv, TypeOK
    <2>3. item.veto_until = payouts[q].veto_until
      BY <2>2 DEF PayoutItem
    <2> QED
      BY <2>1, <2>2, <2>3
  <1>5. ASSUME NEW q \in Payouts, MarkReadyForExecution(q) PROVE KeepsTerms(p)
    BY <1>5 DEF MarkReadyForExecution, PaymentInv, TypeInv, TypeOK, PayoutItem
  <1>6. ASSUME NEW c \in Executors, NotificationAnswers(c) PROVE KeepsTerms(p)
    <2> DEFINE q == calls[c].payout
               item == WithExecution(calls[c].copy, calls[c].execution,
                           calls[c].payment_status,
                           Entry("payout.executed", q, calls[c].execution))
    <2>1. payouts' = [payouts EXCEPT ![q] = item]
      BY <1>6 DEF NotificationAnswers
    <2>2. calls[c].copy \in PayoutItem /\ q \in Payouts
          /\ payouts \in [Payouts -> PayoutItem]
      BY <1>6 DEF NotificationAnswers, PaymentInv, TypeInv, TypeOK, CallsTyped,
                  Callers, Call
    <2>3. /\ item.veto_until = calls[c].copy.veto_until
          /\ item.confirmation = calls[c].copy.confirmation
      BY <2>2 DEF WithExecution, PayoutItem
    <2>4. /\ calls[c].copy.veto_until = payouts[q].veto_until
          /\ calls[c].copy.confirmation = payouts[q].confirmation
      BY <1>6 DEF NotificationAnswers, PaymentInv, CopiesSound, Callers
    <2> HIDE DEF item
    <2> QED
      BY <2>1, <2>2, <2>3, <2>4
  <1>7. ASSUME NEW c \in Syncers, ApplyStatus(c) PROVE KeepsTerms(p)
    <2> DEFINE q == calls[c].payout
               item == WithPaymentStatus(calls[c].copy, calls[c].payment_status,
                           Entry("payout.payment_status_synced", q,
                                 calls[c].execution))
    <2>1. payouts' = [payouts EXCEPT ![q] = item]
      BY <1>7 DEF ApplyStatus
    <2>2. calls[c].copy \in PayoutItem /\ q \in Payouts
          /\ payouts \in [Payouts -> PayoutItem]
      BY <1>7 DEF ApplyStatus, PaymentInv, TypeInv, TypeOK, CallsTyped,
                  Callers, Call
    <2>3. /\ item.veto_until = calls[c].copy.veto_until
          /\ item.confirmation = calls[c].copy.confirmation
      BY <2>2 DEF WithPaymentStatus, PayoutItem
    <2>4. /\ calls[c].copy.veto_until = payouts[q].veto_until
          /\ calls[c].copy.confirmation = payouts[q].confirmation
      BY <1>7 DEF ApplyStatus, PaymentInv, CopiesSound, Callers
    <2> HIDE DEF item
    <2> QED
      BY <2>1, <2>2, <2>3, <2>4
  <1> QED
    BY <1>1, <1>2, <1>3, <1>4, <1>5, <1>6, <1>7
       DEF Next, CouncilStep, ExecutorStep, SyncerStep, GatewayStep, vars, Tick,
           VetoDuplicateDecision, ConfirmDuplicate, BeginExecute, PaymentAnswers,
           ChainAnswers, ConnectorFails, BeginSync, GatewayReports,
           GatewayAccepts, GatewayDrops, GatewayProgress

\* Time goes forward and a stored confirmation stays.
LEMMA OnlyGrows ==
    ASSUME PaymentInv, [Next]_vars
    PROVE  /\ clock' \in Nat /\ clock \in Nat /\ clock' >= clock
           /\ confirmations \subseteq confirmations'
  <1>1. clock' = clock \/ clock' = clock + 1
    BY ZenonT(60) DEF Next, CouncilStep, ExecutorStep, SyncerStep, GatewayStep, vars, Tick,
       QueuePayout, VetoPayout, VetoDuplicateDecision, ConfirmPayout,
       ConfirmDuplicate, MarkReadyForExecution, BeginExecute, PaymentAnswers,
       ChainAnswers, NotificationAnswers, ConnectorFails, BeginSync,
       GatewayReports, ApplyStatus, GatewayAccepts, GatewayDrops, GatewayProgress
  <1>2. clock \in Nat
    BY PayoutTimeAssumption DEF PaymentInv, TypeInv, TypeOK
  <1>3. \/ confirmations' = confirmations
        \/ \E p \in Payouts, k \in Confirmations : ConfirmPayout(p, k)
    BY DEF Next, CouncilStep, ExecutorStep, SyncerStep, GatewayStep, vars, Tick,
       QueuePayout, VetoPayout, VetoDuplicateDecision, ConfirmDuplicate,
       MarkReadyForExecution, BeginExecute, PaymentAnswers,
       ChainAnswers, NotificationAnswers, ConnectorFails, BeginSync,
       GatewayReports, ApplyStatus, GatewayAccepts, GatewayDrops, GatewayProgress
  <1>4. confirmations \subseteq confirmations'
    BY <1>3 DEF ConfirmPayout
  <1> QED
    BY <1>1, <1>2, <1>4

\* A request in flight is the one that was in flight, at a later await, or it
\* has just read the payout it is about.
SameCall(c) ==
    /\ calls[c].step # "idle"
    /\ calls'[c].payout = calls[c].payout
    /\ calls'[c].copy = calls[c].copy
    /\ calls'[c].step \in {"asking", "answered"} =>
           calls[c].step \in {"asking", "answered"}

FreshCall(c) ==
    LET p == calls'[c].payout IN
    /\ p \in Payouts
    /\ calls'[c].copy = payouts[p]
    /\ payouts' = payouts /\ clock' = clock
    /\ \/ /\ calls'[c].step = "paying"
          /\ payouts[p].confirmation # NoId
          /\ WindowOver(payouts[p])
          /\ payouts[p].status \in {"queued", "ready_to_execute"}
       \/ calls'[c].step = "asking" /\ payouts[p].execution # NoId

LEMMA CallOrigin ==
    ASSUME PaymentInv, [Next]_vars, NEW c \in Callers, calls'[c].step # "idle"
    PROVE  SameCall(c) \/ FreshCall(c)
  <1>0. calls \in [Callers -> Call]
    BY DEF PaymentInv, TypeInv, TypeOK
  <1>1. CASE calls' = calls
    BY <1>1 DEF SameCall
  <1>2. ASSUME NEW b \in Executors, NEW p \in Payouts, NEW e \in Executions,
               BeginExecute(b, p, e)
        PROVE  SameCall(c) \/ FreshCall(c)
    <2>1. CASE c # b
      BY <1>0, <1>2, <2>1 DEF BeginExecute, SameCall
    <2>2. CASE c = b
      <3>1. /\ calls'[c].payout = p /\ calls'[c].copy = payouts[p]
            /\ calls'[c].step = "paying"
        BY <1>0, <1>2, <2>2 DEF BeginExecute, Idle
      <3>2. PICK at \in Nows : at >= payouts[p].veto_until
        BY <1>2 DEF BeginExecute, Executable
      <3>3. payouts[p].veto_until \in Nat /\ clock \in Nat
        BY PayoutTimeAssumption DEF PaymentInv, TypeInv, TypeOK, PayoutItem
      <3>4. WindowOver(payouts[p])
        BY <3>2, <3>3, PayoutTimeAssumption DEF Nows, WindowOver
      <3> QED
        BY <1>2, <3>1, <3>4 DEF BeginExecute, Executable, FreshCall
    <2> QED
      BY <2>1, <2>2
  <1>3. ASSUME NEW b \in Syncers, NEW p \in Payouts, BeginSync(b, p)
        PROVE  SameCall(c) \/ FreshCall(c)
    <2>1. CASE c # b
      BY <1>0, <1>3, <2>1 DEF BeginSync, SameCall
    <2>2. CASE c = b
      <3>1. /\ calls'[c].payout = p /\ calls'[c].copy = payouts[p]
            /\ calls'[c].step = "asking"
        BY <1>0, <1>3, <2>2 DEF BeginSync, Idle
      <3> QED
        BY <1>3, <3>1 DEF BeginSync, FreshCall
    <2> QED
      BY <2>1, <2>2
  <1>4. ASSUME NEW b \in Callers, PaymentAnswers(b) PROVE SameCall(c)
    BY <1>0, <1>4 DEF PaymentAnswers, SameCall, Call
  <1>5. ASSUME NEW b \in Callers, ChainAnswers(b) PROVE SameCall(c)
    BY <1>0, <1>5 DEF ChainAnswers, SameCall, Call
  <1>6. ASSUME NEW b \in Callers, GatewayReports(b) PROVE SameCall(c)
    BY <1>0, <1>6 DEF GatewayReports, SameCall, Call
  <1>7. ASSUME NEW b \in Callers,
               NotificationAnswers(b) \/ ConnectorFails(b) \/ ApplyStatus(b)
        PROVE  SameCall(c)
    BY <1>0, <1>7, IdleIsCall
       DEF NotificationAnswers, ConnectorFails, ApplyStatus, SameCall
  <1> QED
    BY <1>1, <1>2, <1>3, <1>4, <1>5, <1>6, <1>7, ZenonT(60)
       DEF Next, CouncilStep, ExecutorStep, SyncerStep, GatewayStep, vars, Tick,
           QueuePayout, VetoPayout, VetoDuplicateDecision, ConfirmPayout,
           ConfirmDuplicate, MarkReadyForExecution, GatewayAccepts, GatewayDrops,
           GatewayProgress, Callers

\* A payment request is new only in the step that checked its payout.
LEMMA RequestOrigin ==
    ASSUME PaymentInv, [Next]_vars, NEW r \in (wire \cup payments)'
    PROVE  \/ \E old \in wire \cup payments : old.payout = r.payout
           \/ /\ payouts' = payouts /\ clock' = clock
              /\ payouts[r.payout].confirmation # NoId
              /\ WindowOver(payouts[r.payout])
              /\ payouts[r.payout].status \in {"queued", "ready_to_execute"}
  <1>1. CASE wire' \cup payments' \subseteq wire \cup payments
    BY <1>1
  <1>2. ASSUME NEW b \in Executors, NEW p \in Payouts, NEW e \in Executions,
               BeginExecute(b, p, e), r \notin wire \cup payments
        PROVE  /\ payouts' = payouts /\ clock' = clock
               /\ payouts[r.payout].confirmation # NoId
               /\ WindowOver(payouts[r.payout])
               /\ payouts[r.payout].status \in {"queued", "ready_to_execute"}
    <2>1. r.payout = p
      BY <1>2 DEF BeginExecute
    <2>2. PICK at \in Nows : at >= payouts[p].veto_until
      BY <1>2 DEF BeginExecute, Executable
    <2>3. payouts[p].veto_until \in Nat /\ clock \in Nat
      BY PayoutTimeAssumption DEF PaymentInv, TypeInv, TypeOK, PayoutItem
    <2>4. WindowOver(payouts[p])
      BY <2>2, <2>3, PayoutTimeAssumption DEF Nows, WindowOver
    <2> QED
      BY <1>2, <2>1, <2>4 DEF BeginExecute, Executable
  <1>3. ASSUME NEW q \in wire, GatewayAccepts(q)
        PROVE  \E old \in wire \cup payments : old.payout = r.payout
    BY <1>3 DEF GatewayAccepts
  <1>4. ASSUME NEW pay \in payments, GatewayProgress(pay)
        PROVE  \E old \in wire \cup payments : old.payout = r.payout
    <2>1. pay \in Payment
      BY DEF PaymentInv, TypeInv, TypeOK
    <2> QED
      BY <1>4, <2>1 DEF GatewayProgress, Payment
  <1>5. CASE wire' = wire /\ payments' = payments
    BY <1>5
  <1> QED
    BY <1>1, <1>2, <1>3, <1>4, <1>5, ZenonT(60)
       DEF Next, CouncilStep, ExecutorStep, SyncerStep, GatewayStep, vars, Tick,
           QueuePayout, VetoPayout, VetoDuplicateDecision, ConfirmPayout,
           ConfirmDuplicate, MarkReadyForExecution, PaymentAnswers, ChainAnswers,
           NotificationAnswers, ConnectorFails, BeginSync, GatewayReports,
           ApplyStatus, GatewayDrops

\* What a step makes of a payout: a confirmation it did not have comes from
\* ConfirmPayout, an execution from a request in flight.
LEMMA PayoutStep ==
    ASSUME PaymentInv, [Next]_vars, NEW p \in Payouts, payouts'[p] # payouts[p]
    PROVE  /\ payouts'[p].status # "absent"
           /\ \/ payouts'[p].confirmation = payouts[p].confirmation
              \/ payouts'[p].confirmation = NoId
              \/ \E k \in confirmations' :
                     k.id = payouts'[p].confirmation /\ k.payout = p
           /\ payouts'[p].status = "executed" \/ payouts'[p].execution # NoId =>
                 /\ payouts'[p].status = "executed"
                 /\ \E c \in Callers : calls[c].step # "idle" /\ calls[c].payout = p
  <1> DEFINE Goal == /\ payouts'[p].status # "absent"
                     /\ \/ payouts'[p].confirmation = payouts[p].confirmation
                        \/ payouts'[p].confirmation = NoId
                        \/ \E k \in confirmations' :
                              k.id = payouts'[p].confirmation /\ k.payout = p
                     /\ payouts'[p].status = "executed"
                           \/ payouts'[p].execution # NoId =>
                           /\ payouts'[p].status = "executed"
                           /\ \E c \in Callers : calls[c].step # "idle"
                                                 /\ calls[c].payout = p
  <1>0. /\ payouts \in [Payouts -> PayoutItem]
        /\ \A q \in Payouts : payouts[q].execution # NoId =>
                                 payouts[q].status = "executed"
    BY DEF PaymentInv, TypeInv, TypeOK, PayoutsSound
  <1>2. ASSUME NEW q \in Payouts, QueuePayout(q) PROVE Goal
    BY <1>0, <1>2 DEF QueuePayout, Absent
  <1>3. ASSUME NEW q \in Payouts, NEW d \in Decisions, VetoPayout(q, d)
        PROVE  Goal
    <2> DEFINE item == [payouts[q] EXCEPT !.status = "canceled", !.veto = d,
                                   !.audit = Entry("payout.vetoed", q, d)]
    <2>1. payouts' = [payouts EXCEPT ![q] = item]
      BY <1>3 DEF VetoPayout
    <2>2. payouts[q] \in PayoutItem /\ payouts[q].execution = NoId
      BY <1>0, <1>3 DEF VetoPayout, Vetoable
    <2>3. /\ item.status = "canceled" /\ item.execution = NoId
          /\ item.confirmation = payouts[q].confirmation
      BY <2>2 DEF PayoutItem
    <2> HIDE DEF item
    <2> QED
      BY <1>0, <2>1, <2>3
  <1>4. ASSUME NEW q \in Payouts, NEW k \in Confirmations, ConfirmPayout(q, k)
        PROVE  Goal
    <2> DEFINE item == [payouts[q] EXCEPT !.confirmation = k,
                                   !.audit = Entry("payout.confirmed", q, k)]
    <2>1. payouts' = [payouts EXCEPT ![q] = item]
      BY <1>4 DEF ConfirmPayout
    <2>2. payouts[q] \in PayoutItem /\ payouts[q].execution = NoId
          /\ payouts[q].status = "queued"
      BY <1>0, <1>4 DEF ConfirmPayout, Confirmable
    <2>3. /\ item.status = "queued" /\ item.execution = NoId
          /\ item.confirmation = k
      BY <2>2 DEF PayoutItem
    <2>4. \E new \in confirmations' : new.id = k /\ new.payout = q
      <3>1. PICK subject \in Subjects : confirmations' = confirmations \cup
                {[id |-> k, payout |-> q, actor |-> subject]}
        BY <1>4 DEF ConfirmPayout
      <3> DEFINE new == [id |-> k, payout |-> q, actor |-> subject]
      <3>2. new \in confirmations' /\ new.id = k /\ new.payout = q
        BY <3>1
      <3> HIDE DEF new
      <3> QED
        BY <3>2
    <2> HIDE DEF item
    <2> QED
      BY <1>0, <2>1, <2>3, <2>4
  <1>5. ASSUME NEW q \in Payouts, MarkReadyForExecution(q) PROVE Goal
    BY <1>0, <1>5 DEF MarkReadyForExecution, PayoutItem
  <1>6. ASSUME NEW c \in Executors, NotificationAnswers(c) PROVE Goal
    <2> DEFINE q == calls[c].payout
               item == WithExecution(calls[c].copy, calls[c].execution,
                           calls[c].payment_status,
                           Entry("payout.executed", q, calls[c].execution))
    <2>1. payouts' = [payouts EXCEPT ![q] = item] /\ calls[c].step # "idle"
      BY <1>6 DEF NotificationAnswers
    <2>2. calls[c].copy \in PayoutItem /\ q \in Payouts /\ c \in Callers
      BY <1>6 DEF NotificationAnswers, PaymentInv, TypeInv, TypeOK, CallsTyped,
                  Callers, Call
    <2>3. /\ item.status = "executed"
          /\ item.confirmation = calls[c].copy.confirmation
      BY <2>2 DEF WithExecution, PayoutItem
    <2>4. calls[c].copy.confirmation = payouts[q].confirmation
      BY <1>6 DEF NotificationAnswers, PaymentInv, CopiesSound, Callers
    <2> HIDE DEF item
    <2> QED
      BY <1>0, <2>1, <2>2, <2>3, <2>4
  <1>7. ASSUME NEW c \in Syncers, ApplyStatus(c) PROVE Goal
    <2> DEFINE q == calls[c].payout
               item == WithPaymentStatus(calls[c].copy, calls[c].payment_status,
                           Entry("payout.payment_status_synced", q,
                                 calls[c].execution))
    <2>1. payouts' = [payouts EXCEPT ![q] = item] /\ calls[c].step # "idle"
      BY <1>7 DEF ApplyStatus
    <2>2. calls[c].copy \in PayoutItem /\ q \in Payouts /\ c \in Callers
      BY <1>7 DEF ApplyStatus, PaymentInv, TypeInv, TypeOK, CallsTyped,
                  Callers, Call
    <2>3. /\ item.status = calls[c].copy.status
          /\ item.confirmation = calls[c].copy.confirmation
      BY <2>2 DEF WithPaymentStatus, PayoutItem
    <2>4. /\ calls[c].copy.confirmation = payouts[q].confirmation
          /\ calls[c].copy.status = "executed"
      BY <1>7 DEF ApplyStatus, PaymentInv, CopiesSound, Callers
    <2> HIDE DEF item
    <2> QED
      BY <1>0, <2>1, <2>2, <2>3, <2>4
  <1> HIDE DEF Goal
  <1>8. Goal
    BY <1>2, <1>3, <1>4, <1>5, <1>6, <1>7
       DEF Next, CouncilStep, ExecutorStep, SyncerStep, GatewayStep, vars, Tick,
           VetoDuplicateDecision, ConfirmDuplicate, BeginExecute, PaymentAnswers,
           ChainAnswers, ConnectorFails, BeginSync, GatewayReports,
           GatewayAccepts, GatewayDrops, GatewayProgress
  <1> QED
    BY <1>8 DEF Goal

LEMMA PaymentStep == PaymentInv /\ [Next]_vars => PaymentInv'
  <1> SUFFICES ASSUME PaymentInv, [Next]_vars PROVE PaymentInv'
    OBVIOUS
  <1>1. TypeInv'
    BY TypeStep DEF PaymentInv
  <1>2. /\ payouts \in [Payouts -> PayoutItem] /\ payouts' \in [Payouts -> PayoutItem]
        /\ \A p \in Payouts : payouts[p].veto_until \in Nat
    BY <1>1 DEF PaymentInv, TypeInv, TypeOK, PayoutItem
  <1>3. \A p \in Payouts : WindowOver(payouts[p]) /\ payouts[p].confirmation # NoId
            => (WindowOver(payouts[p]) /\ payouts[p].confirmation # NoId)'
    <2> TAKE p \in Payouts
    <2> HAVE WindowOver(payouts[p]) /\ payouts[p].confirmation # NoId
    <2>1. payouts[p].status # "absent"
      BY DEF PaymentInv, PayoutsSound
    <2>2. KeepsTerms(p)
      BY <2>1, TermsKept
    <2> QED
      BY <1>2, <2>2, OnlyGrows, PayoutTimeAssumption DEF KeepsTerms, WindowOver
  <1>4. PayoutsSound'
    <2> SUFFICES ASSUME NEW p \in Payouts
                 PROVE  /\ payouts'[p].confirmation # NoId =>
                              payouts'[p].status # "absent"
                              /\ Confirmed(p, payouts[p])'
                        /\ payouts'[p].status = "executed" =>
                              WindowOver(payouts[p])'
                              /\ payouts'[p].confirmation # NoId
                        /\ payouts'[p].execution # NoId =>
                              payouts'[p].status = "executed"
      BY DEF PayoutsSound
    <2>1. CASE payouts'[p] = payouts[p]
      BY <2>1, <1>2, OnlyGrows, <1>3 DEF PaymentInv, PayoutsSound, Confirmed
    <2>2. CASE payouts'[p] # payouts[p]
      <3>1. payouts'[p].confirmation # NoId => Confirmed(p, payouts[p])'
        BY <2>2, PayoutStep, OnlyGrows DEF PaymentInv, PayoutsSound, Confirmed
      <3>2. payouts'[p].status = "executed" =>
               WindowOver(payouts[p])' /\ payouts'[p].confirmation # NoId
        BY <2>2, PayoutStep, <1>3 DEF PaymentInv, CopiesSound
      <3> QED
        BY <2>2, <3>1, <3>2, PayoutStep
    <2> QED
      BY <2>1, <2>2
  <1>5. CopiesSound'
    <2> SUFFICES ASSUME NEW c \in Callers, calls'[c].step # "idle"
                 PROVE  /\ calls'[c].copy.veto_until
                              = payouts'[calls'[c].payout].veto_until
                        /\ calls'[c].copy.confirmation
                              = payouts'[calls'[c].payout].confirmation
                        /\ payouts'[calls'[c].payout].confirmation # NoId
                        /\ WindowOver(payouts[calls[c].payout])'
                        /\ calls'[c].step \in {"asking", "answered"} =>
                              calls'[c].copy.status = "executed"
      BY DEF CopiesSound
    <2> DEFINE p == calls[c].payout
    <2>1. CASE SameCall(c)
      <3>1. /\ p \in Payouts
            /\ calls[c].copy.veto_until = payouts[p].veto_until
            /\ calls[c].copy.confirmation = payouts[p].confirmation
            /\ payouts[p].confirmation # NoId
            /\ WindowOver(payouts[p])
            /\ calls[c].step \in {"asking", "answered"} =>
                  calls[c].copy.status = "executed"
        BY <2>1 DEF SameCall, PaymentInv, TypeInv, CallsTyped, CopiesSound
      <3>2. payouts[p].status # "absent"
        BY <3>1 DEF PaymentInv, PayoutsSound
      <3>3. KeepsTerms(p)
        BY <3>1, <3>2, TermsKept
      <3>4. WindowOver(payouts[p])'  \/ p' # p
        BY <3>1, <3>3, <1>2, OnlyGrows, PayoutTimeAssumption
           DEF KeepsTerms, WindowOver
      <3> QED
        BY <2>1, <3>1, <3>3, <3>4 DEF SameCall, KeepsTerms, WindowOver
    <2>2. CASE FreshCall(c)
      BY <2>2 DEF FreshCall, PaymentInv, PayoutsSound, WindowOver
    <2> QED
      BY <2>1, <2>2, CallOrigin
  <1>6. RequestsSound'
    <2> SUFFICES ASSUME NEW p \in Payouts, NEW r \in (wire \cup payments)',
                        r.payout = p
                 PROVE  (WindowOver(payouts[p]) /\ payouts[p].confirmation # NoId)'
      BY DEF RequestsSound
    <2> QED
      BY RequestOrigin, <1>3 DEF PaymentInv, RequestsSound
  <1> QED
    BY <1>1, <1>4, <1>5, <1>6 DEF PaymentInv

\* No request for money leaves the gateway, and no payment is held, for a
\* payout that is not confirmed or whose window is still open.
THEOREM PaymentSafety == Spec => []PaidOnlyAfterWindowAndConfirmation
  <1>1. PaymentInv => PaidOnlyAfterWindowAndConfirmation
    <2> SUFFICES ASSUME PaymentInv, NEW r \in Requests
                 PROVE  /\ clock + Skew >= payouts[r.payout].veto_until
                        /\ payouts[r.payout].confirmation # NoId
                        /\ \E k \in confirmations :
                              k.id = payouts[r.payout].confirmation
                              /\ k.payout = r.payout
      BY DEF PaidOnlyAfterWindowAndConfirmation
    <2>1. PICK q \in wire \cup payments : q.payout = r.payout
      BY DEF Requests
    <2>2. q.payout \in Payouts
      BY DEF PaymentInv, TypeInv, TypeOK, PaymentRequest, Payment
    <2> QED
      BY <2>1, <2>2 DEF PaymentInv, RequestsSound, PayoutsSound, WindowOver,
                        Confirmed
  <1> QED
    BY <1>1, PaymentInit, PaymentStep, PTL DEF Spec

-----------------------------------------------------------------------------
(***************************************************************************)
(* A veto is final when requests are judged by the clock (Skew = 0).  A    *)
(* veto needs an open window, and everything that could undo it, a request *)
(* in flight or on the wire, implies that the window was over: the two     *)
(* exclude each other however the awaits interleave.                       *)
(***************************************************************************)

Live(p) == payouts[p].status \in {"queued", "ready_to_execute", "executed"}

VetoesStand ==
    \A d \in decisions :
        payouts[d.payout].status = "canceled" /\ payouts[d.payout].veto = d.id

UserLive ==
    /\ \A c \in Callers : calls[c].step # "idle" => Live(calls[c].payout)
    /\ \A r \in wire \cup payments : Live(r.payout)

VetoInv == PaymentInv /\ VetoesStand /\ UserLive

LEMMA VetoInit == Init => VetoInv
  BY PaymentInit DEF Init, VetoInv, VetoesStand, UserLive, Idle

\* A payout somebody is using cannot be vetoed any more.
LEMMA UsedIsNotVetoable ==
    ASSUME Skew = 0, VetoInv, NEW p \in Payouts, Vetoable(p)
    PROVE  /\ \A c \in Callers : calls[c].step # "idle" => calls[c].payout # p
           /\ \A r \in wire \cup payments : r.payout # p
  <1>1. clock \in Nat /\ payouts[p].veto_until \in Nat
    BY PayoutTimeAssumption DEF VetoInv, PaymentInv, TypeInv, TypeOK, PayoutItem
  <1>2. ~WindowOver(payouts[p])
    BY <1>1 DEF Vetoable, Nows, WindowOver
  <1> QED
    BY <1>2 DEF VetoInv, PaymentInv, CopiesSound, RequestsSound

\* Which actions write a payout.
LEMMA PayoutWriters ==
    ASSUME [Next]_vars
    PROVE  \/ payouts' = payouts
           \/ \E p \in Payouts : QueuePayout(p) \/ MarkReadyForExecution(p)
           \/ \E p \in Payouts, d \in Decisions : VetoPayout(p, d)
           \/ \E p \in Payouts, k \in Confirmations : ConfirmPayout(p, k)
           \/ \E c \in Executors : NotificationAnswers(c)
           \/ \E c \in Syncers : ApplyStatus(c)
  BY DEF Next, CouncilStep, ExecutorStep, SyncerStep, GatewayStep, vars, Tick,
         VetoDuplicateDecision, ConfirmDuplicate, BeginExecute, PaymentAnswers,
         ChainAnswers, ConnectorFails, BeginSync, GatewayReports,
         GatewayAccepts, GatewayDrops, GatewayProgress

\* A write other than a veto leaves a canceled payout alone and a live one
\* live.
Untouched(p) ==
    /\ payouts[p].status = "canceled" => payouts'[p] = payouts[p]
    /\ Live(p) => Live(p)'

LEMMA OtherWrites ==
    ASSUME VetoInv, [Next]_vars, NEW p \in Payouts,
           \A q \in Payouts, d \in Decisions : ~VetoPayout(q, d)
    PROVE  Untouched(p)
  <1> USE DEF Untouched, Live
  <1>0. payouts \in [Payouts -> PayoutItem] /\ TypeInv /\ UserLive
    BY DEF VetoInv, PaymentInv, TypeInv, TypeOK
  <1>1. CASE payouts' = payouts
    BY <1>1
  <1>2. ASSUME NEW q \in Payouts, QueuePayout(q) PROVE Untouched(p)
    <2>1. PICK item : payouts' = [payouts EXCEPT ![q] = item]
      BY <1>2 DEF QueuePayout
    <2> QED
      BY <1>0, <1>2, <2>1 DEF QueuePayout
  <1>3. ASSUME NEW q \in Payouts, MarkReadyForExecution(q) PROVE Untouched(p)
    BY <1>0, <1>3 DEF MarkReadyForExecution, PayoutItem
  <1>4. ASSUME NEW q \in Payouts, NEW k \in Confirmations, ConfirmPayout(q, k)
        PROVE  Untouched(p)
    <2> DEFINE item == [payouts[q] EXCEPT !.confirmation = k,
                                   !.audit = Entry("payout.confirmed", q, k)]
    <2>1. payouts' = [payouts EXCEPT ![q] = item] /\ payouts[q].status = "queued"
      BY <1>4 DEF ConfirmPayout, Confirmable
    <2>2. item.status = payouts[q].status
      BY <1>0 DEF PayoutItem
    <2> HIDE DEF item
    <2> QED
      BY <1>0, <2>1, <2>2
  <1>5. ASSUME NEW c \in Executors, NotificationAnswers(c) PROVE Untouched(p)
    <2> DEFINE q == calls[c].payout
               item == WithExecution(calls[c].copy, calls[c].execution,
                           calls[c].payment_status,
                           Entry("payout.executed", q, calls[c].execution))
    <2>1. payouts' = [payouts EXCEPT ![q] = item]
      BY <1>5 DEF NotificationAnswers
    <2>2. calls[c].copy \in PayoutItem /\ payouts[q].status # "canceled"
      BY <1>0, <1>5 DEF NotificationAnswers, TypeInv, TypeOK, Callers, Call, UserLive
    <2>3. item.status = "executed"
      BY <2>2 DEF WithExecution, PayoutItem
    <2> HIDE DEF item
    <2> QED
      BY <1>0, <2>1, <2>2, <2>3
  <1>6. ASSUME NEW c \in Syncers, ApplyStatus(c) PROVE Untouched(p)
    <2> DEFINE q == calls[c].payout
               item == WithPaymentStatus(calls[c].copy, calls[c].payment_status,
                           Entry("payout.payment_status_synced", q,
                                 calls[c].execution))
    <2>1. payouts' = [payouts EXCEPT ![q] = item]
      BY <1>6 DEF ApplyStatus
    <2>2. /\ calls[c].copy \in PayoutItem /\ calls[c].copy.status = "executed"
          /\ payouts[q].status # "canceled"
      BY <1>0, <1>6 DEF ApplyStatus, VetoInv, PaymentInv, TypeInv, TypeOK, Callers,
                        Call, CopiesSound, UserLive
    <2>3. item.status = "executed"
      BY <2>2 DEF WithPaymentStatus, PayoutItem
    <2> HIDE DEF item
    <2> QED
      BY <1>0, <2>1, <2>2, <2>3
  <1> QED
    BY <1>1, <1>2, <1>3, <1>4, <1>5, <1>6, PayoutWriters

LEMMA VetoStep == ASSUME Skew = 0 PROVE VetoInv /\ [Next]_vars => VetoInv'
  <1> SUFFICES ASSUME VetoInv, [Next]_vars PROVE VetoInv'
    OBVIOUS
  <1>0. /\ payouts \in [Payouts -> PayoutItem]
        /\ \A d \in decisions : d.payout \in Payouts
        /\ \A c \in Callers : calls[c].step # "idle" => calls[c].payout \in Payouts
        /\ \A r \in wire \cup payments : r.payout \in Payouts
    BY DEF VetoInv, PaymentInv, TypeInv, TypeOK, CallsTyped, Decision,
           PaymentRequest, Payment
  <1>1. PaymentInv'
    BY PaymentStep DEF VetoInv
  <1>2. ASSUME NEW p \in Payouts, NEW d \in Decisions, VetoPayout(p, d)
        PROVE  VetoesStand' /\ UserLive'
    <2> DEFINE item == [payouts[p] EXCEPT !.status = "canceled", !.veto = d,
                                   !.audit = Entry("payout.vetoed", p, d)]
               new  == [id |-> d, payout |-> p]
    <2>1. /\ payouts' = [payouts EXCEPT ![p] = item]
          /\ decisions' = decisions \cup {new}
          /\ payouts[p].status = "queued" /\ Vetoable(p)
      BY <1>2 DEF VetoPayout, Vetoable
    <2>2. item.status = "canceled" /\ item.veto = d
      BY <1>0 DEF PayoutItem
    <2>3. \A old \in decisions : old.payout # p
      BY <2>1 DEF VetoInv, VetoesStand
    <2>4. new.id = d /\ new.payout = p
      OBVIOUS
    <2> HIDE DEF item, new
    <2>5. VetoesStand'
      BY <1>0, <2>1, <2>2, <2>3, <2>4 DEF VetoInv, VetoesStand
    <2>6. UserLive'
      BY <1>0, <1>2, <2>1, UsedIsNotVetoable
         DEF VetoInv, UserLive, Live, VetoPayout
    <2> QED
      BY <2>5, <2>6
  <1>3. CASE \A p \in Payouts, d \in Decisions : ~VetoPayout(p, d)
    <2>1. decisions' = decisions
      BY <1>3, ZenonT(60) DEF Next, CouncilStep, ExecutorStep, SyncerStep, GatewayStep, vars,
         Tick, QueuePayout, VetoDuplicateDecision, ConfirmPayout,
         ConfirmDuplicate, MarkReadyForExecution, BeginExecute, PaymentAnswers,
         ChainAnswers, NotificationAnswers, ConnectorFails, BeginSync,
         GatewayReports, ApplyStatus, GatewayAccepts, GatewayDrops,
         GatewayProgress
    <2>2. \A p \in Payouts : payouts[p].status = "canceled" => payouts'[p] = payouts[p]
      BY <1>3, OtherWrites DEF Untouched
    <2>3. VetoesStand'
      BY <1>0, <2>1, <2>2 DEF VetoInv, VetoesStand
    <2>4. \A p \in Payouts : Live(p) => Live(p)'
      BY <1>3, OtherWrites DEF Untouched
    <2>5. UserLive'
      <3>1. ASSUME NEW c \in Callers, calls'[c].step # "idle"
            PROVE  Live(calls[c].payout)'
        <4>1. CASE SameCall(c)
          BY <1>0, <2>4, <4>1 DEF SameCall, VetoInv, UserLive, Live
        <4>2. CASE FreshCall(c)
          BY <4>2 DEF FreshCall, VetoInv, PaymentInv, PayoutsSound, Live
        <4> QED
          BY <3>1, <4>1, <4>2, CallOrigin DEF VetoInv
      <3>2. ASSUME NEW r \in (wire \cup payments)' PROVE Live(r.payout)'
        BY <1>0, <2>4, RequestOrigin DEF VetoInv, UserLive, Live
      <3> QED
        BY <3>1, <3>2 DEF UserLive
    <2> QED
      BY <1>1, <2>3, <2>5 DEF VetoInv
  <1> QED
    BY <1>1, <1>2, <1>3 DEF VetoInv

\* With requests judged by the clock, a stored veto stands for good, and no
\* money is asked for on behalf of a vetoed payout.
THEOREM VetoFinality == ASSUME Skew = 0 PROVE Spec => []VetoIsFinal
  <1>1. VetoInv => VetoIsFinal
    <2> SUFFICES ASSUME VetoInv, NEW d \in decisions
                 PROVE  /\ payouts[d.payout].status = "canceled"
                        /\ payouts[d.payout].veto = d.id
                        /\ \A r \in Requests : r.payout # d.payout
      BY DEF VetoIsFinal
    <2>1. payouts[d.payout].status = "canceled" /\ payouts[d.payout].veto = d.id
      BY DEF VetoInv, VetoesStand
    <2>2. ASSUME NEW r \in Requests PROVE r.payout # d.payout
      <3>1. PICK q \in wire \cup payments : q.payout = r.payout
        BY DEF Requests
      <3> QED
        BY <2>1, <3>1 DEF VetoInv, UserLive, Live
    <2> QED
      BY <2>1, <2>2
  <1> QED
    BY <1>1, VetoInit, VetoStep, PTL DEF Spec

(***************************************************************************)
(* What one step makes of one payout: who writes it, what the new record   *)
(* holds, and that no other payout changes.                                *)
(***************************************************************************)

GetsQueued(p) ==
    /\ QueuePayout(p)
    /\ payouts[p].status = "absent"
    /\ payouts'[p].status = "queued"
    /\ payouts'[p].confirmation = NoId
    /\ payouts'[p].payment_status = NoId
    /\ payouts'[p].audit = Entry("payout.queued", p, NoId)
    /\ \E at \in Nows : payouts'[p].veto_until = at + VetoWindow

GetsVetoed(p, d) ==
    /\ VetoPayout(p, d)
    /\ payouts[p].status = "queued"
    /\ payouts'[p].status = "canceled"
    /\ payouts'[p].veto = d
    /\ payouts'[p].audit = Entry("payout.vetoed", p, d)
    /\ payouts'[p].veto_until = payouts[p].veto_until
    /\ payouts'[p].payment_status = payouts[p].payment_status

GetsConfirmed(p, k) ==
    /\ ConfirmPayout(p, k)
    /\ payouts[p].status = "queued"
    /\ payouts[p].confirmation = NoId
    /\ payouts'[p].status = "queued"
    /\ payouts'[p].confirmation = k
    /\ payouts'[p].audit = Entry("payout.confirmed", p, k)
    /\ payouts'[p].veto_until = payouts[p].veto_until
    /\ payouts'[p].payment_status = payouts[p].payment_status

GetsReady(p) ==
    /\ MarkReadyForExecution(p)
    /\ payouts[p].status = "queued"
    /\ payouts'[p].status = "ready_to_execute"
    /\ payouts'[p].confirmation = payouts[p].confirmation
    /\ payouts'[p].audit = payouts[p].audit
    /\ payouts'[p].veto_until = payouts[p].veto_until
    /\ payouts'[p].payment_status = payouts[p].payment_status

GetsExecuted(p, c) ==
    LET e == calls[c].execution IN
    /\ NotificationAnswers(c)
    /\ calls[c].step = "notifying"
    /\ calls[c].payout = p
    /\ payouts'[p].status = "executed"
    /\ payouts'[p].confirmation = payouts[p].confirmation
    /\ payouts'[p].veto_until = payouts[p].veto_until
    /\ payouts'[p].execution = e
    /\ payouts'[p].chain_ref = e
    /\ payouts'[p].notification = e
    /\ payouts'[p].payment_status = calls[c].payment_status
    /\ payouts'[p].audit = Entry("payout.executed", p, e)

GetsSynced(p, c) ==
    LET copy == calls[c].copy IN
    /\ ApplyStatus(c)
    /\ calls[c].step = "answered"
    /\ calls[c].payout = p
    /\ payouts'[p].status = "executed"
    /\ payouts'[p].confirmation = payouts[p].confirmation
    /\ payouts'[p].veto_until = payouts[p].veto_until
    /\ payouts'[p].execution = copy.execution
    /\ payouts'[p].chain_ref = copy.chain_ref
    /\ payouts'[p].notification = copy.notification
    /\ payouts'[p].payment_status = calls[c].payment_status
    /\ payouts'[p].audit = Entry("payout.payment_status_synced", p,
                                 calls[c].execution)

Written(p) ==
    /\ \/ GetsQueued(p)
       \/ \E d \in Decisions : GetsVetoed(p, d)
       \/ \E k \in Confirmations : GetsConfirmed(p, k)
       \/ GetsReady(p)
       \/ \E c \in Executors : GetsExecuted(p, c)
       \/ \E c \in Syncers : GetsSynced(p, c)
    /\ \A q \in Payouts \ {p} : payouts'[q] = payouts[q]

LEMMA Writes ==
    ASSUME PaymentInv, [Next]_vars
    PROVE  payouts' = payouts \/ \E p \in Payouts : Written(p)
  <1>0. /\ payouts \in [Payouts -> PayoutItem]
        /\ \A p \in Payouts : payouts[p] \in PayoutItem
    BY DEF PaymentInv, TypeInv, TypeOK
  <1>1. ASSUME NEW p \in Payouts, QueuePayout(p) PROVE Written(p)
    <2> DEFINE entry == Entry("payout.queued", p, NoId)
    <2>1. PICK at \in Nows : payouts' = [payouts EXCEPT ![p] =
             [Absent EXCEPT !.status = "queued", !.veto_until = at + VetoWindow,
                            !.audit = entry]]
      BY <1>1 DEF QueuePayout
    <2> DEFINE item == [Absent EXCEPT !.status = "queued",
                            !.veto_until = at + VetoWindow, !.audit = entry]
    <2> HIDE DEF entry
    <2>2. /\ item.status = "queued" /\ item.confirmation = NoId
          /\ item.payment_status = NoId
          /\ item.audit = entry /\ item.veto_until = at + VetoWindow
      BY DEF Absent
    <2> HIDE DEF item
    <2>3. payouts' = [payouts EXCEPT ![p] = item]
      BY <2>1 DEF item
    <2> QED
      BY <1>0, <1>1, <2>2, <2>3 DEF Written, GetsQueued, QueuePayout, entry
  <1>2. ASSUME NEW p \in Payouts, NEW d \in Decisions, VetoPayout(p, d)
        PROVE  Written(p)
    <2> DEFINE item == [payouts[p] EXCEPT !.status = "canceled", !.veto = d,
                                   !.audit = Entry("payout.vetoed", p, d)]
    <2>1. payouts' = [payouts EXCEPT ![p] = item]
      BY <1>2 DEF VetoPayout
    <2>2. /\ item.status = "canceled" /\ item.veto = d
          /\ item.audit = Entry("payout.vetoed", p, d)
          /\ item.payment_status = payouts[p].payment_status
          /\ item.veto_until = payouts[p].veto_until
      BY <1>0 DEF PayoutItem
    <2> HIDE DEF item
    <2>3. GetsVetoed(p, d)
      BY <1>0, <1>2, <2>1, <2>2 DEF GetsVetoed, VetoPayout, Vetoable
    <2> QED
      BY <1>0, <2>1, <2>3 DEF Written
  <1>3. ASSUME NEW p \in Payouts, NEW k \in Confirmations, ConfirmPayout(p, k)
        PROVE  Written(p)
    <2> DEFINE item == [payouts[p] EXCEPT !.confirmation = k,
                                   !.audit = Entry("payout.confirmed", p, k)]
    <2>1. /\ payouts' = [payouts EXCEPT ![p] = item]
          /\ payouts[p].status = "queued" /\ payouts[p].confirmation = NoId
      BY <1>3, ZenonT(60) DEF ConfirmPayout, Confirmable
    <2>2. /\ item.status = payouts[p].status /\ item.confirmation = k
          /\ item.audit = Entry("payout.confirmed", p, k)
          /\ item.payment_status = payouts[p].payment_status
          /\ item.veto_until = payouts[p].veto_until
      BY <1>0 DEF PayoutItem
    <2> HIDE DEF item
    <2>3. GetsConfirmed(p, k)
      BY <1>0, <1>3, <2>1, <2>2 DEF GetsConfirmed
    <2> QED
      BY <1>0, <2>1, <2>3 DEF Written
  <1>4. ASSUME NEW p \in Payouts, MarkReadyForExecution(p) PROVE Written(p)
    <2> DEFINE item == [payouts[p] EXCEPT !.status = "ready_to_execute"]
    <2>1. payouts' = [payouts EXCEPT ![p] = item] /\ payouts[p].status = "queued"
      BY <1>4 DEF MarkReadyForExecution
    <2>2. /\ item.status = "ready_to_execute"
          /\ item.confirmation = payouts[p].confirmation
          /\ item.audit = payouts[p].audit
          /\ item.payment_status = payouts[p].payment_status
          /\ item.veto_until = payouts[p].veto_until
      BY <1>0 DEF PayoutItem
    <2> HIDE DEF item
    <2>3. GetsReady(p)
      BY <1>0, <1>4, <2>1, <2>2 DEF GetsReady
    <2> QED
      BY <1>0, <2>1, <2>3 DEF Written
  <1>5. ASSUME NEW c \in Executors, NotificationAnswers(c)
        PROVE  \E p \in Payouts : Written(p)
    <2> DEFINE p == calls[c].payout
               e == calls[c].execution
               entry == Entry("payout.executed", p, e)
               item == WithExecution(calls[c].copy, e, calls[c].payment_status, entry)
    <2>1. payouts' = [payouts EXCEPT ![p] = item] /\ calls[c].step = "notifying"
      BY <1>5 DEF NotificationAnswers
    <2>2. calls[c].copy \in PayoutItem /\ p \in Payouts
      BY <1>5 DEF NotificationAnswers, PaymentInv, TypeInv, TypeOK, CallsTyped,
                  Callers, Call
    <2>3. /\ calls[c].copy.veto_until = payouts[p].veto_until
          /\ calls[c].copy.confirmation = payouts[p].confirmation
      BY <2>1 DEF PaymentInv, CopiesSound, Callers
    <2> HIDE DEF entry
    <2>4. /\ item.status = "executed" /\ item.execution = e
          /\ item.chain_ref = e /\ item.notification = e /\ item.audit = entry
          /\ item.payment_status = calls[c].payment_status
          /\ item.confirmation = calls[c].copy.confirmation
          /\ item.veto_until = calls[c].copy.veto_until
      BY <2>2 DEF WithExecution, PayoutItem
    <2> HIDE DEF item
    <2>5. GetsExecuted(p, c)
      BY <1>0, <1>5, <2>1, <2>2, <2>3, <2>4 DEF GetsExecuted, entry
    <2> QED
      BY <1>0, <2>1, <2>2, <2>5 DEF Written
  <1>6. ASSUME NEW c \in Syncers, ApplyStatus(c)
        PROVE  \E p \in Payouts : Written(p)
    <2> DEFINE p == calls[c].payout
               entry == Entry("payout.payment_status_synced", p, calls[c].execution)
               item == WithPaymentStatus(calls[c].copy, calls[c].payment_status,
                                         entry)
    <2>1. payouts' = [payouts EXCEPT ![p] = item] /\ calls[c].step = "answered"
      BY <1>6 DEF ApplyStatus
    <2>2. calls[c].copy \in PayoutItem /\ p \in Payouts
      BY <1>6 DEF ApplyStatus, PaymentInv, TypeInv, TypeOK, CallsTyped,
                  Callers, Call
    <2>3. /\ calls[c].copy.veto_until = payouts[p].veto_until
          /\ calls[c].copy.confirmation = payouts[p].confirmation
          /\ calls[c].copy.status = "executed"
      BY <2>1 DEF PaymentInv, CopiesSound, Callers
    <2> HIDE DEF entry
    <2>4. /\ item.status = calls[c].copy.status
          /\ item.execution = calls[c].copy.execution
          /\ item.chain_ref = calls[c].copy.chain_ref
          /\ item.notification = calls[c].copy.notification
          /\ item.audit = entry
          /\ item.payment_status = calls[c].payment_status
          /\ item.confirmation = calls[c].copy.confirmation
          /\ item.veto_until = calls[c].copy.veto_until
      BY <2>2 DEF WithPaymentStatus, PayoutItem
    <2> HIDE DEF item
    <2>5. GetsSynced(p, c)
      BY <1>0, <1>6, <2>1, <2>2, <2>3, <2>4 DEF GetsSynced, entry
    <2> QED
      BY <1>0, <2>1, <2>2, <2>5 DEF Written
  <1> QED
    BY <1>1, <1>2, <1>3, <1>4, <1>5, <1>6, PayoutWriters

-----------------------------------------------------------------------------
(***************************************************************************)
(* What the connectors and the audit log hold is never taken back, and how *)
(* a request in flight goes from one await to the next.                    *)
(***************************************************************************)

\* A payment of the same payout under the same execution id is still held.
StillHeld(pay) ==
    \E new \in payments' :
        new.payout = pay.payout /\ new.execution = pay.execution

LEMMA NothingIsTakenBack ==
    ASSUME PaymentInv, [Next]_vars
    PROVE  /\ audit \subseteq audit' /\ events \subseteq events'
           /\ chain \subseteq chain' /\ notices \subseteq notices'
           /\ \A pay \in payments : StillHeld(pay)
  <1>1. \/ payments' = payments
        \/ \E r \in wire : GatewayAccepts(r)
        \/ \E pay \in payments : GatewayProgress(pay)
    BY ZenonT(60) DEF Next, CouncilStep, ExecutorStep, SyncerStep, GatewayStep, vars, Tick,
       QueuePayout, VetoPayout, VetoDuplicateDecision, ConfirmPayout,
       ConfirmDuplicate, MarkReadyForExecution, BeginExecute, PaymentAnswers,
       ChainAnswers, NotificationAnswers, ConnectorFails, BeginSync,
       GatewayReports, ApplyStatus, GatewayDrops
  <1>2. \A pay \in payments : StillHeld(pay)
    <2>1. CASE payments' = payments
      BY <2>1 DEF StillHeld
    <2>2. ASSUME NEW r \in wire, GatewayAccepts(r)
          PROVE  \A pay \in payments : StillHeld(pay)
      BY <2>2 DEF GatewayAccepts, StillHeld
    <2>3. ASSUME NEW old \in payments, GatewayProgress(old), NEW pay \in payments
          PROVE  StillHeld(pay)
      <3>1. PICK status \in StatusFlow[old.status] :
               payments' = (payments \ {old}) \cup {[old EXCEPT !.status = status]}
        BY <2>3 DEF GatewayProgress
      <3> DEFINE new == [old EXCEPT !.status = status]
      <3>2. old \in Payment
        BY DEF PaymentInv, TypeInv, TypeOK
      <3>3. new.payout = old.payout /\ new.execution = old.execution
        BY <3>2 DEF Payment
      <3> HIDE DEF new
      <3>4. payments' = (payments \ {old}) \cup {new}
        BY <3>1 DEF new
      <3> QED
        BY <3>3, <3>4 DEF StillHeld
    <2> QED
      BY <1>1, <2>1, <2>2, <2>3
  <1>3. audit \subseteq audit' /\ events \subseteq events'
    BY ZenonT(60) DEF Next, CouncilStep, ExecutorStep, SyncerStep, GatewayStep, vars, Tick,
       QueuePayout, VetoPayout, VetoDuplicateDecision, ConfirmPayout,
       ConfirmDuplicate, MarkReadyForExecution, BeginExecute, PaymentAnswers,
       ChainAnswers, NotificationAnswers, ConnectorFails, BeginSync,
       GatewayReports, ApplyStatus, GatewayAccepts, GatewayDrops,
       GatewayProgress, Record, Publish
  <1>4. chain \subseteq chain' /\ notices \subseteq notices'
    BY ZenonT(60) DEF Next, CouncilStep, ExecutorStep, SyncerStep, GatewayStep, vars, Tick,
       QueuePayout, VetoPayout, VetoDuplicateDecision, ConfirmPayout,
       ConfirmDuplicate, MarkReadyForExecution, BeginExecute, PaymentAnswers,
       ChainAnswers, NotificationAnswers, ConnectorFails, BeginSync,
       GatewayReports, ApplyStatus, GatewayAccepts, GatewayDrops, GatewayProgress
  <1> QED
    BY <1>2, <1>3, <1>4

\* A payment under this execution id is held.
Paid(execution) == \E pay \in payments : pay.execution = execution

\* A request in flight gets the status a payment under its execution id has now.
Answered(c) ==
    \E pay \in payments : /\ pay.execution = calls[c].execution
                          /\ pay.status = calls'[c].payment_status

\* A request in flight that reaches its next await, with the answer it got.
Advances(c) ==
    /\ calls'[c].payout = calls[c].payout
    /\ calls'[c].copy = calls[c].copy
    /\ calls'[c].execution = calls[c].execution
    /\ \/ /\ calls[c].step = "paying" /\ calls'[c].step = "recording"
          /\ Paid(calls[c].execution) /\ Answered(c)
          /\ Entry("payout.executed", calls[c].payout, calls[c].execution) \in audit'
       \/ /\ calls[c].step = "recording" /\ calls'[c].step = "notifying"
          /\ Attempt(c) \in chain'
          /\ calls'[c].payment_status = calls[c].payment_status
       \/ /\ calls[c].step = "asking" /\ calls'[c].step = "answered"
          /\ Answered(c)

\* A request that has just read its payout.
Starts(c) ==
    LET p == calls'[c].payout IN
    /\ calls[c] = Idle /\ payouts' = payouts
    /\ p \in Payouts /\ calls'[c].copy = payouts[p]
    /\ \/ /\ calls'[c].step = "paying" /\ c \in Executors
          /\ calls'[c].execution \in ExecutionsOf[p]
          /\ payouts[p].status \in {"queued", "ready_to_execute"}
       \/ /\ calls'[c].step = "asking" /\ c \in Syncers
          /\ calls'[c].execution = payouts[p].execution
          /\ payouts[p].execution # NoId

\* Which actions write a request in flight.
LEMMA CallWriters ==
    ASSUME [Next]_vars
    PROVE  \/ calls' = calls
           \/ \E b \in Executors, p \in Payouts, e \in Executions :
                  BeginExecute(b, p, e)
           \/ \E b \in Syncers, p \in Payouts : BeginSync(b, p)
           \/ \E b \in Callers : \/ PaymentAnswers(b) \/ ChainAnswers(b)
                                 \/ NotificationAnswers(b) \/ ConnectorFails(b)
                                 \/ GatewayReports(b)
           \/ \E b \in Syncers : ApplyStatus(b)
  BY ZenonT(60) DEF Next, CouncilStep, ExecutorStep, SyncerStep, GatewayStep, vars, Tick,
         QueuePayout, VetoPayout, VetoDuplicateDecision, ConfirmPayout,
         ConfirmDuplicate, MarkReadyForExecution, GatewayAccepts, GatewayDrops,
         GatewayProgress, Callers

LEMMA CallSteps ==
    ASSUME PaymentInv, [Next]_vars, NEW c \in Callers
    PROVE  \/ calls'[c] = calls[c]
           \/ calls'[c] = Idle
           \/ Advances(c)
           \/ Starts(c)
  <1> DEFINE Goal == \/ calls'[c] = calls[c] \/ calls'[c] = Idle
                     \/ Advances(c) \/ Starts(c)
  <1>0. calls \in [Callers -> Call] /\ \A b \in Callers : calls[b] \in Call
    BY DEF PaymentInv, TypeInv, TypeOK
  <1>1. ASSUME calls' = calls PROVE Goal
    BY <1>1
  <1>2. ASSUME NEW b \in Executors, NEW p \in Payouts, NEW e \in Executions,
               BeginExecute(b, p, e)
        PROVE  Goal
    <2>1. CASE c # b
      BY <1>0, <1>2, <2>1 DEF BeginExecute
    <2>2. CASE c = b
      <3>1. /\ calls'[c].payout = p /\ calls'[c].copy = payouts[p]
            /\ calls'[c].step = "paying" /\ calls'[c].execution = e
        BY <1>0, <1>2, <2>2 DEF BeginExecute, Idle
      <3> QED
        BY <1>2, <2>2, <3>1 DEF BeginExecute, Executable, Starts
    <2> QED
      BY <2>1, <2>2
  <1>3. ASSUME NEW b \in Syncers, NEW p \in Payouts, BeginSync(b, p) PROVE Goal
    <2>1. CASE c # b
      BY <1>0, <1>3, <2>1 DEF BeginSync
    <2>2. CASE c = b
      <3>1. /\ calls'[c].payout = p /\ calls'[c].copy = payouts[p]
            /\ calls'[c].step = "asking"
            /\ calls'[c].execution = payouts[p].execution
        BY <1>0, <1>3, <2>2 DEF BeginSync, Idle
      <3> QED
        BY <1>3, <2>2, <3>1 DEF BeginSync, Starts
    <2> QED
      BY <2>1, <2>2
  <1>4. ASSUME NEW b \in Callers, PaymentAnswers(b) PROVE Goal
    <2>1. PICK pay \in payments :
             /\ pay.execution = calls[b].execution
             /\ calls' = [calls EXCEPT ![b].step = "recording",
                                       ![b].payment_status = pay.status]
      BY <1>4 DEF PaymentAnswers
    <2> DEFINE call == [calls[b] EXCEPT !.step = "recording",
                                        !.payment_status = pay.status]
    <2>2. /\ call.step = "recording" /\ call.payout = calls[b].payout
          /\ call.payment_status = pay.status
          /\ call.copy = calls[b].copy /\ call.execution = calls[b].execution
      BY <1>0 DEF Call
    <2>3. calls' = [calls EXCEPT ![b] = call]
      BY <2>1
    <2> HIDE DEF call
    <2>4. /\ calls[b].step = "paying"
          /\ Entry("payout.executed", calls[b].payout, calls[b].execution) \in audit'
      BY <1>4 DEF PaymentAnswers, Record
    <2> QED
      BY <1>0, <2>1, <2>2, <2>3, <2>4 DEF Advances, Paid, Answered
  <1>5. ASSUME NEW b \in Callers, ChainAnswers(b) PROVE Goal
    <2> DEFINE call == [calls[b] EXCEPT !.step = "notifying"]
    <2>1. /\ calls' = [calls EXCEPT ![b] = call] /\ calls[b].step = "recording"
          /\ Attempt(b) \in chain'
      BY <1>5 DEF ChainAnswers
    <2>2. /\ call.step = "notifying" /\ call.payout = calls[b].payout
          /\ call.payment_status = calls[b].payment_status
          /\ call.copy = calls[b].copy /\ call.execution = calls[b].execution
      BY <1>0 DEF Call
    <2> HIDE DEF call
    <2>3. CASE c = b
      BY <1>0, <2>1, <2>2, <2>3 DEF Advances
    <2>4. CASE c # b
      BY <1>0, <2>1, <2>4
    <2> QED
      BY <2>3, <2>4
  <1>6. ASSUME NEW b \in Callers, GatewayReports(b) PROVE Goal
    <2>1. PICK pay \in payments :
             /\ pay.execution = calls[b].execution
             /\ calls' = [calls EXCEPT ![b].step = "answered",
                                       ![b].payment_status = pay.status]
      BY <1>6 DEF GatewayReports
    <2> DEFINE call == [calls[b] EXCEPT !.step = "answered",
                                        !.payment_status = pay.status]
    <2>2. /\ call.step = "answered" /\ call.payout = calls[b].payout
          /\ call.payment_status = pay.status
          /\ call.copy = calls[b].copy /\ call.execution = calls[b].execution
      BY <1>0 DEF Call
    <2>3. calls' = [calls EXCEPT ![b] = call] /\ calls[b].step = "asking"
      BY <1>6, <2>1 DEF GatewayReports
    <2> HIDE DEF call
    <2> QED
      BY <1>0, <2>1, <2>2, <2>3 DEF Advances, Answered
  <1>7. ASSUME NEW b \in Callers,
               NotificationAnswers(b) \/ ConnectorFails(b) \/ ApplyStatus(b)
        PROVE  Goal
    BY <1>0, <1>7 DEF NotificationAnswers, ConnectorFails, ApplyStatus
  <1> HIDE DEF Goal
  <1>8. Goal
    BY <1>1, <1>2, <1>3, <1>4, <1>5, <1>6, <1>7, CallWriters DEF Callers
  <1> QED
    BY <1>8 DEF Goal

-----------------------------------------------------------------------------
(***************************************************************************)
(* The evidence of an executed payout and its audit hash, for any Skew.    *)
(* What an executed payout cites was collected at the awaits before, so    *)
(* the invariant says of each await what has been collected, and of a      *)
(* reconciliation that the copy it will write back cites evidence too.     *)
(***************************************************************************)

HasEvidence(p, item) ==
    /\ Paid(item.execution)
    /\ [payout |-> p, execution |-> item.chain_ref] \in chain
    /\ [payout |-> p, execution |-> item.notification] \in notices

PayoutsHaveEvidence ==
    \A p \in Payouts :
        payouts[p].status = "executed" => HasEvidence(p, payouts[p])

CallsHaveEvidence ==
    \A c \in Callers :
        LET p == calls[c].payout
            e == calls[c].execution
        IN  /\ calls[c].step \in {"recording", "notifying"} =>
                   Paid(e) /\ Entry("payout.executed", p, e) \in audit
            /\ calls[c].step = "notifying" => Attempt(c) \in chain
            /\ calls[c].step \in {"asking", "answered"} =>
                   /\ HasEvidence(p, calls[c].copy)
                   /\ e = calls[c].copy.execution
                   /\ payouts[p].status = "executed"

RecordInv ==
    PaymentInv /\ PayoutsHaveEvidence /\ CallsHaveEvidence /\ AuditMatchesStatus

\* An executed payout stays executed, whatever copy a request writes back.
LEMMA ExecutedStays ==
    ASSUME PaymentInv, [Next]_vars, NEW p \in Payouts,
           payouts[p].status = "executed"
    PROVE  payouts'[p].status = "executed"
  BY Writes DEF Written, GetsQueued, GetsVetoed, GetsConfirmed, GetsReady,
                GetsExecuted, GetsSynced

LEMMA RecordInit == Init => RecordInv
  BY PaymentInit DEF Init, RecordInv, PayoutsHaveEvidence, CallsHaveEvidence,
     AuditMatchesStatus, Absent, Idle

LEMMA EvidenceStep ==
    ASSUME RecordInv, [Next]_vars PROVE PayoutsHaveEvidence' /\ CallsHaveEvidence'
  <1>0. PaymentInv
    BY DEF RecordInv
  <1>1. ASSUME NEW p \in Payouts, payouts'[p].status = "executed"
        PROVE  HasEvidence(p, payouts[p])'
    <2>1. CASE payouts'[p] = payouts[p]
      <3>1. HasEvidence(p, payouts[p])
        BY <1>1, <2>1 DEF RecordInv, PayoutsHaveEvidence
      <3> QED
        BY <1>0, <2>1, <3>1, NothingIsTakenBack DEF HasEvidence, Paid, StillHeld
    <2>2. ASSUME NEW c \in Executors, GetsExecuted(p, c)
          PROVE  HasEvidence(p, payouts[p])'
      <3>1. Paid(calls[c].execution) /\ Attempt(c) \in chain /\ calls[c].payout = p
        BY <2>2 DEF GetsExecuted, RecordInv, CallsHaveEvidence, Callers
      <3>2. Attempt(c) \in notices'
        BY <2>2 DEF GetsExecuted, NotificationAnswers
      <3> QED
        BY <1>0, <2>2, <3>1, <3>2, NothingIsTakenBack
           DEF GetsExecuted, HasEvidence, Paid, StillHeld, Attempt
    <2>3. ASSUME NEW c \in Syncers, GetsSynced(p, c)
          PROVE  HasEvidence(p, payouts[p])'
      <3>1. HasEvidence(p, calls[c].copy)
        BY <2>3 DEF GetsSynced, RecordInv, CallsHaveEvidence, Callers
      <3> QED
        BY <1>0, <2>3, <3>1, NothingIsTakenBack
           DEF GetsSynced, HasEvidence, Paid, StillHeld
    <2> QED
      BY <1>0, <1>1, <2>1, <2>2, <2>3, Writes
         DEF Written, GetsQueued, GetsVetoed, GetsConfirmed, GetsReady
  <1>2. ASSUME NEW c \in Callers
        PROVE  /\ calls'[c].step \in {"recording", "notifying"} =>
                     /\ Paid(calls[c].execution)'
                     /\ Entry("payout.executed", calls'[c].payout,
                              calls'[c].execution) \in audit'
               /\ calls'[c].step = "notifying" =>
                     [payout |-> calls'[c].payout,
                      execution |-> calls'[c].execution] \in chain'
               /\ calls'[c].step \in {"asking", "answered"} =>
                     /\ HasEvidence(calls[c].payout, calls[c].copy)'
                     /\ calls'[c].execution = calls'[c].copy.execution
                     /\ payouts'[calls'[c].payout].status = "executed"
    <2>0. /\ calls[c].step \in {"recording", "notifying"} =>
                /\ Paid(calls[c].execution)
                /\ Entry("payout.executed", calls[c].payout,
                         calls[c].execution) \in audit
          /\ calls[c].step = "notifying" => Attempt(c) \in chain
          /\ calls[c].step \in {"asking", "answered"} =>
                /\ HasEvidence(calls[c].payout, calls[c].copy)
                /\ calls[c].execution = calls[c].copy.execution
                /\ payouts[calls[c].payout].status = "executed"
                /\ calls[c].payout \in Payouts
      BY <1>0 DEF RecordInv, CallsHaveEvidence, PaymentInv, TypeInv, CallsTyped
    <2>1. CASE calls'[c] = calls[c] \/ Advances(c)
      <3>1. /\ calls'[c].payout = calls[c].payout
            /\ calls'[c].copy = calls[c].copy
            /\ calls'[c].execution = calls[c].execution
        BY <2>1 DEF Advances
      <3>2. calls'[c].step \in {"asking", "answered"} =>
                /\ HasEvidence(calls[c].payout, calls[c].copy)'
                /\ calls'[c].execution = calls'[c].copy.execution
                /\ payouts'[calls'[c].payout].status = "executed"
        BY <1>0, <2>0, <2>1, <3>1, ExecutedStays, NothingIsTakenBack
           DEF Advances, HasEvidence, Paid, StillHeld
      <3>3. calls'[c].step \in {"recording", "notifying"} =>
                /\ Paid(calls[c].execution)'
                /\ Entry("payout.executed", calls'[c].payout,
                         calls'[c].execution) \in audit'
        BY <1>0, <2>0, <2>1, <3>1, NothingIsTakenBack DEF Advances, Paid, StillHeld
      <3>4. calls'[c].step = "notifying" =>
                [payout |-> calls'[c].payout,
                 execution |-> calls'[c].execution] \in chain'
        BY <1>0, <2>0, <2>1, <3>1, NothingIsTakenBack DEF Advances, Attempt
      <3> QED
        BY <3>2, <3>3, <3>4
    <2>2. CASE calls'[c] = Idle
      BY <2>2 DEF Idle
    <2>3. CASE Starts(c)
      <3> DEFINE p == calls'[c].payout
      <3>1. calls'[c].step = "asking" =>
               /\ payouts[p].status = "executed" /\ payouts' = payouts
               /\ p \in Payouts /\ calls'[c].copy = payouts[p]
               /\ calls'[c].execution = payouts[p].execution
        BY <1>0, <2>3 DEF Starts, PaymentInv, PayoutsSound
      <3>2. calls'[c].step = "asking" => HasEvidence(p, payouts[p])
        BY <3>1 DEF RecordInv, PayoutsHaveEvidence
      <3>3. calls'[c].step = "asking" => HasEvidence(calls[c].payout, calls[c].copy)'
        BY <1>0, <3>1, <3>2, NothingIsTakenBack DEF HasEvidence, Paid, StillHeld
      <3> QED
        BY <2>3, <3>1, <3>3 DEF Starts
    <2> QED
      BY <1>0, <2>1, <2>2, <2>3, CallSteps
  <1>3. PayoutsHaveEvidence'
    BY <1>1 DEF PayoutsHaveEvidence
  <1>4. CallsHaveEvidence'
    BY <1>2 DEF CallsHaveEvidence, Attempt
  <1> QED
    BY <1>3, <1>4

LEMMA AuditStep == ASSUME RecordInv, [Next]_vars PROVE AuditMatchesStatus'
  <1>0. PaymentInv
    BY DEF RecordInv
  <1> DEFINE Matches(p, item, log) ==
         /\ item.audit \in log
         /\ item.audit.payout = p
         /\ item.status = "canceled" =>
                item.audit = Entry("payout.vetoed", p, item.veto)
         /\ item.status = "executed" =>
                item.audit \in {Entry("payout.executed", p, item.execution),
                    Entry("payout.payment_status_synced", p, item.execution)}
         /\ item.status \in {"queued", "ready_to_execute"} =>
                item.audit =
                    IF item.confirmation = NoId
                    THEN Entry("payout.queued", p, NoId)
                    ELSE Entry("payout.confirmed", p, item.confirmation)
  <1> SUFFICES ASSUME NEW p \in Payouts, payouts'[p].status # "absent"
               PROVE  Matches(p, payouts'[p], audit')
    BY DEF AuditMatchesStatus
  <1>1. CASE payouts'[p] = payouts[p]
    <2>1. Matches(p, payouts[p], audit)
      BY <1>1 DEF RecordInv, AuditMatchesStatus
    <2> QED
      BY <1>0, <1>1, <2>1, NothingIsTakenBack
  <1>2. CASE GetsQueued(p)
    BY <1>2 DEF GetsQueued, QueuePayout, Record, Entry
  <1>3. ASSUME NEW d \in Decisions, GetsVetoed(p, d)
        PROVE  Matches(p, payouts'[p], audit')
    <2>1. /\ payouts'[p].status = "canceled" /\ payouts'[p].veto = d
          /\ payouts'[p].audit = Entry("payout.vetoed", p, d)
          /\ payouts'[p].audit \in audit'
      BY <1>3 DEF GetsVetoed, VetoPayout, Record
    <2> QED
      BY <2>1 DEF Entry
  <1>4. ASSUME NEW k \in Confirmations, GetsConfirmed(p, k)
        PROVE  Matches(p, payouts'[p], audit')
    <2>1. k # NoId
      BY PayoutIdsAssumption
    <2> QED
      BY <1>4, <2>1 DEF GetsConfirmed, ConfirmPayout, Record, Entry
  <1>5. CASE GetsReady(p)
    <2>1. Matches(p, payouts[p], audit)
      BY <1>5 DEF GetsReady, RecordInv, AuditMatchesStatus
    <2> QED
      BY <1>0, <1>5, <2>1, NothingIsTakenBack DEF GetsReady
  <1>6. ASSUME NEW c \in Executors, GetsExecuted(p, c)
        PROVE  Matches(p, payouts'[p], audit')
    <2>1. Entry("payout.executed", p, calls[c].execution) \in audit
      BY <1>6 DEF GetsExecuted, RecordInv, CallsHaveEvidence, Callers
    <2> QED
      BY <1>0, <1>6, <2>1, NothingIsTakenBack DEF GetsExecuted, Entry
  <1>7. ASSUME NEW c \in Syncers, GetsSynced(p, c)
        PROVE  Matches(p, payouts'[p], audit')
    <2>1. calls[c].execution = calls[c].copy.execution
      BY <1>7 DEF GetsSynced, RecordInv, CallsHaveEvidence, Callers
    <2> QED
      BY <1>7, <2>1 DEF GetsSynced, ApplyStatus, Record, Entry
  <1> HIDE DEF Matches
  <1> QED
    BY <1>0, <1>1, <1>2, <1>3, <1>4, <1>5, <1>6, <1>7, Writes DEF Written

LEMMA RecordStep == RecordInv /\ [Next]_vars => RecordInv'
  BY PaymentStep, EvidenceStep, AuditStep DEF RecordInv

\* Whatever fails or is retried, and whatever callers make of the time, an
\* executed payout cites a payment, a hash, a notification and a confirmation
\* that exist, and the audit hash of a payout is that of its last decision.
THEOREM RecordsTraceable == Spec => [](ExecutedHasEvidence /\ AuditMatchesStatus)
  <1>1. RecordInv => ExecutedHasEvidence /\ AuditMatchesStatus
    BY DEF RecordInv, PayoutsHaveEvidence, HasEvidence, Paid, ExecutedHasEvidence,
           PaymentInv, PayoutsSound, Confirmed
  <1> QED
    BY <1>1, RecordInit, RecordStep, PTL DEF Spec

-----------------------------------------------------------------------------
(***************************************************************************)
(* The events, when requests are judged by the clock (Skew = 0) and        *)
(* publishing does not fail: a canceled payout stays canceled, so the      *)
(* event of its veto stays true, and likewise for an execution.            *)
(***************************************************************************)

LEMMA CanceledStays ==
    ASSUME VetoInv, [Next]_vars, NEW p \in Payouts,
           payouts[p].status = "canceled"
    PROVE  payouts'[p] = payouts[p]
  <1>1. PaymentInv /\ \A c \in Callers :
                         calls[c].step # "idle" => calls[c].payout # p
    BY DEF VetoInv, UserLive, Live
  <1> QED
    BY <1>1, Writes DEF Written, GetsQueued, GetsVetoed, GetsConfirmed, GetsReady,
                        GetsExecuted, GetsSynced, Callers

\* An event of a veto or an execution is new only in the step that makes it
\* true.
LEMMA NewEvents ==
    ASSUME PaymentInv, [Next]_vars, NEW ev \in events', ev \notin events
    PROVE  /\ ev.type = "payout.vetoed" => payouts'[ev.payout].status = "canceled"
           /\ ev.type = "payout.executed" => payouts'[ev.payout].status = "executed"
  <1> DEFINE Goal == /\ ev.type = "payout.vetoed" =>
                           payouts'[ev.payout].status = "canceled"
                     /\ ev.type = "payout.executed" =>
                           payouts'[ev.payout].status = "executed"
  <1>0. payouts \in [Payouts -> PayoutItem]
    BY DEF PaymentInv, TypeInv, TypeOK
  <1>1. ASSUME NEW p \in Payouts, QueuePayout(p) PROVE Goal
    BY <1>1 DEF QueuePayout, Publish, Entry
  <1>2. ASSUME NEW p \in Payouts, NEW d \in Decisions, VetoPayout(p, d) PROVE Goal
    <2>1. ev = Entry("payout.vetoed", p, d)
      BY <1>2 DEF VetoPayout, Publish
    <2>2. payouts'[p].status = "canceled"
      BY <1>0, <1>2 DEF VetoPayout, PayoutItem
    <2> QED
      BY <2>1, <2>2 DEF Entry
  <1>3. ASSUME NEW p \in Payouts, NEW k \in Confirmations, ConfirmPayout(p, k)
        PROVE  Goal
    BY <1>3 DEF ConfirmPayout, Publish, Entry
  <1>4. ASSUME NEW c \in Executors, NotificationAnswers(c) PROVE Goal
    <2> DEFINE p == calls[c].payout
               e == calls[c].execution
               item == WithExecution(calls[c].copy, e, calls[c].payment_status,
                                     Entry("payout.executed", p, e))
    <2>1. /\ ev = Entry("payout.executed", p, e)
          /\ payouts' = [payouts EXCEPT ![p] = item]
      BY <1>4 DEF NotificationAnswers, Publish
    <2>2. p \in Payouts /\ calls[c].copy \in PayoutItem
      BY <1>4 DEF NotificationAnswers, PaymentInv, TypeInv, TypeOK, CallsTyped,
                  Callers, Call
    <2>3. item.status = "executed"
      BY <2>2 DEF WithExecution, PayoutItem
    <2> HIDE DEF item
    <2> QED
      BY <1>0, <2>1, <2>2, <2>3 DEF Entry
  <1>5. ASSUME NEW c \in Callers, ConnectorFails(c) \/ ApplyStatus(c) PROVE Goal
    BY <1>5 DEF ConnectorFails, ApplyStatus, Publish, Entry
  <1>6. ASSUME events' = events PROVE Goal
    BY <1>6
  <1> HIDE DEF Goal
  <1>7. Goal
    BY <1>1, <1>2, <1>3, <1>4, <1>5, <1>6
       DEF Next, CouncilStep, ExecutorStep, SyncerStep, GatewayStep, vars, Tick,
           VetoDuplicateDecision, ConfirmDuplicate, MarkReadyForExecution,
           BeginExecute, PaymentAnswers, ChainAnswers, BeginSync, GatewayReports,
           GatewayAccepts, GatewayDrops, GatewayProgress, Callers
  <1> QED
    BY <1>7 DEF Goal

EventInv == VetoInv /\ RecordInv /\ EventsTellTheTruth

LEMMA EventInit == Init => EventInv
  BY VetoInit, RecordInit DEF Init, EventInv, EventsTellTheTruth, Absent

LEMMA EventStep ==
    ASSUME Skew = 0, BusMayFail = FALSE
    PROVE  EventInv /\ [Next]_vars => EventInv'
  <1> SUFFICES ASSUME EventInv, [Next]_vars PROVE EventInv'
    OBVIOUS
  <1>0. PaymentInv /\ VetoInv
    BY DEF EventInv, VetoInv
  <1>1. VetoInv' /\ RecordInv'
    BY VetoStep, RecordStep DEF EventInv
  <1> DEFINE Told(type, p) == \E ev \in events : ev.type = type /\ ev.payout = p
             ToldAfter(type, p) ==
                 \E ev \in events' : ev.type = type /\ ev.payout = p
  <1>2. ASSUME NEW p \in Payouts
        PROVE  /\ payouts'[p].status = "canceled" => ToldAfter("payout.vetoed", p)
               /\ payouts'[p].status = "executed" => ToldAfter("payout.executed", p)
    <2>1. /\ payouts[p].status = "canceled" => ToldAfter("payout.vetoed", p)
          /\ payouts[p].status = "executed" => ToldAfter("payout.executed", p)
      BY <1>0, NothingIsTakenBack DEF EventInv, EventsTellTheTruth
    <2>2. ASSUME NEW d \in Decisions, GetsVetoed(p, d)
          PROVE  ToldAfter("payout.vetoed", p)
      BY <2>2 DEF GetsVetoed, VetoPayout, Publish, Entry
    <2>3. ASSUME NEW c \in Executors, GetsExecuted(p, c)
          PROVE  ToldAfter("payout.executed", p)
      BY <2>3 DEF GetsExecuted, NotificationAnswers, Publish, Entry
    <2>4. ASSUME NEW c \in Syncers, GetsSynced(p, c)
          PROVE  payouts[p].status = "executed"
      BY <2>4 DEF GetsSynced, EventInv, RecordInv, CallsHaveEvidence, Callers
    <2> HIDE DEF ToldAfter
    <2> QED
      BY <1>0, <2>1, <2>2, <2>3, <2>4, Writes
         DEF Written, GetsQueued, GetsVetoed, GetsConfirmed, GetsReady,
             GetsExecuted, GetsSynced
  <1>3. ASSUME NEW p \in Payouts
        PROVE  /\ ToldAfter("payout.vetoed", p) => payouts'[p].status = "canceled"
               /\ ToldAfter("payout.executed", p) => payouts'[p].status = "executed"
    <2>1. /\ Told("payout.vetoed", p) => payouts'[p].status = "canceled"
          /\ Told("payout.executed", p) => payouts'[p].status = "executed"
      BY <1>0, CanceledStays, ExecutedStays DEF EventInv, EventsTellTheTruth
    <2> QED
      BY <1>0, <2>1, NewEvents
  <1>4. EventsTellTheTruth'
    BY <1>2, <1>3 DEF EventsTellTheTruth
  <1> QED
    BY <1>1, <1>4 DEF EventInv

\* With requests judged by the clock and a bus that does not fail, a payout's
\* evidence, its audit hash and the events consumers got are at all times
\* those of the status it shows.
THEOREM RecordsAgreement ==
    ASSUME Skew = 0, BusMayFail = FALSE PROVE Spec => []RecordsAgree
  <1>1. EventInv => RecordsAgree
    BY DEF EventInv, VetoInv, RecordInv, PayoutsHaveEvidence, HasEvidence, Paid,
           ExecutedHasEvidence, PaymentInv, PayoutsSound, Confirmed, TypeInv,
           RecordsAgree
  <1> QED
    BY <1>1, EventInit, EventStep, PTL DEF Spec

-----------------------------------------------------------------------------
(***************************************************************************)
(* Every payment is accounted for, for any Skew: a request for money       *)
(* starts with an execute call in flight, which ends by executing the      *)
(* payout or by recording payout.failed.  A payout is paid once if its     *)
(* callers use one execution id for it, since the gateway holds one        *)
(* payment per id.                                                         *)
(***************************************************************************)

Traced(p) ==
    \/ payouts[p].status = "executed"
    \/ \E c \in Executors : calls[c].payout = p
    \/ Entry("payout.failed", p, NoId) \in audit

\* No two payments under one execution id, and each under an id its payout's
\* callers use.
PaymentsKeyed ==
    /\ \A a, b \in payments : a.execution = b.execution => a = b
    /\ \A r \in wire \cup payments : r.execution \in ExecutionsOf[r.payout]

RequestsTraced == \A r \in wire \cup payments : Traced(r.payout)

AccountInv == RecordInv /\ PaymentsKeyed /\ RequestsTraced

LEMMA AccountInit == Init => AccountInv
  BY RecordInit DEF Init, AccountInv, PaymentsKeyed, RequestsTraced

\* Which actions write the wire or the payments.
LEMMA PaymentWriters ==
    ASSUME [Next]_vars
    PROVE  \/ wire' = wire /\ payments' = payments
           \/ \E c \in Executors, p \in Payouts, e \in Executions :
                  BeginExecute(c, p, e)
           \/ \E r \in wire : GatewayAccepts(r) \/ GatewayDrops(r)
           \/ \E pay \in payments : GatewayProgress(pay)
  <1>1. CASE Tick \/ UNCHANGED vars
    BY <1>1 DEF Tick, vars
  <1>2. CASE CouncilStep
    <2>1. PICK p \in Payouts :
             \/ QueuePayout(p) \/ MarkReadyForExecution(p)
             \/ \E d \in Decisions : VetoPayout(p, d) \/ VetoDuplicateDecision(p, d)
             \/ \E k \in Confirmations : ConfirmPayout(p, k) \/ ConfirmDuplicate(p, k)
      BY <1>2 DEF CouncilStep
    <2> QED
      BY <2>1 DEF QueuePayout, VetoPayout, VetoDuplicateDecision, ConfirmPayout,
                  ConfirmDuplicate, MarkReadyForExecution
  <1>3. CASE ExecutorStep
    BY <1>3 DEF ExecutorStep, PaymentAnswers, ChainAnswers, NotificationAnswers,
                ConnectorFails
  <1>4. CASE SyncerStep
    BY <1>4 DEF SyncerStep, BeginSync, GatewayReports, ApplyStatus, ConnectorFails
  <1>5. CASE GatewayStep
    BY <1>5 DEF GatewayStep
  <1> QED
    BY <1>1, <1>2, <1>3, <1>4, <1>5 DEF Next

\* Money is asked for under the id its caller uses; a payment keeps its payout
\* and its id.
LEMMA RequestSteps ==
    ASSUME PaymentInv, [Next]_vars, NEW r \in (wire \cup payments)'
    PROVE  \/ \E old \in wire \cup payments :
                  old.payout = r.payout /\ old.execution = r.execution
           \/ \E c \in Executors : /\ calls'[c].payout = r.payout
                                   /\ r.execution \in ExecutionsOf[r.payout]
  <1>0. payments \subseteq Payment /\ calls \in [Callers -> Call]
    BY DEF PaymentInv, TypeInv, TypeOK
  <1> DEFINE Goal ==
         \/ \E old \in wire \cup payments :
                old.payout = r.payout /\ old.execution = r.execution
         \/ \E c \in Executors : /\ calls'[c].payout = r.payout
                                 /\ r.execution \in ExecutionsOf[r.payout]
  <1>1. ASSUME wire' = wire, payments' = payments PROVE Goal
    BY <1>1
  <1>2. ASSUME NEW c \in Executors, NEW p \in Payouts, NEW e \in Executions,
               BeginExecute(c, p, e)
        PROVE  Goal
    <2>1. CASE r \in wire \cup payments
      BY <2>1
    <2>2. CASE r \notin wire \cup payments
      <3>1. r.payout = p /\ r.execution = e
        BY <1>2, <2>2 DEF BeginExecute
      <3>2. calls'[c].payout = p
        BY <1>0, <1>2 DEF BeginExecute, Idle, Callers
      <3> QED
        BY <1>2, <3>1, <3>2 DEF BeginExecute
    <2> QED
      BY <2>1, <2>2
  <1>3. ASSUME NEW q \in wire, GatewayAccepts(q) PROVE Goal
    BY <1>3 DEF GatewayAccepts
  <1>4. ASSUME NEW q \in wire, GatewayDrops(q) PROVE Goal
    BY <1>4 DEF GatewayDrops
  <1>5. ASSUME NEW pay \in payments, GatewayProgress(pay) PROVE Goal
    BY <1>0, <1>5 DEF GatewayProgress, Payment
  <1> HIDE DEF Goal
  <1>6. Goal
    BY <1>1, <1>2, <1>3, <1>4, <1>5, PaymentWriters
  <1> QED
    BY <1>6 DEF Goal

\* What is traced stays traced.
LEMMA TraceStays ==
    ASSUME PaymentInv, [Next]_vars, NEW p \in Payouts, Traced(p)
    PROVE  Traced(p)'
  <1>0. calls \in [Callers -> Call]
    BY DEF PaymentInv, TypeInv, TypeOK
  <1>1. CASE payouts[p].status = "executed"
    BY <1>1, ExecutedStays DEF Traced
  <1>2. CASE Entry("payout.failed", p, NoId) \in audit
    BY <1>2, NothingIsTakenBack DEF Traced
  <1>3. ASSUME NEW c \in Executors, calls[c].payout = p PROVE Traced(p)'
    <2>0. c \in Callers
      BY DEF Callers
    <2>1. CASE calls'[c].payout = p
      BY <2>1 DEF Traced
    <2>2. ASSUME NotificationAnswers(c) PROVE Traced(p)'
      <3> DEFINE e == calls[c].execution
                 item == WithExecution(calls[c].copy, e, calls[c].payment_status,
                                       Entry("payout.executed", p, e))
      <3>1. payouts' = [payouts EXCEPT ![p] = item]
        BY <1>3, <2>2 DEF NotificationAnswers
      <3>2. item.status = "executed"
        BY <1>0, <2>0 DEF WithExecution, Call, PayoutItem
      <3> HIDE DEF item
      <3>3. payouts'[p].status = "executed"
        BY <3>1, <3>2 DEF PaymentInv, TypeInv, TypeOK
      <3> QED
        BY <3>3 DEF Traced
    <2>3. ASSUME ConnectorFails(c) PROVE Traced(p)'
      BY <1>3, <2>3 DEF ConnectorFails, Record, Traced
    <2>4. ASSUME calls'[c].payout # p
          PROVE  NotificationAnswers(c) \/ ConnectorFails(c)
      <3>1. CASE calls' = calls
        BY <1>3, <2>4, <3>1
      <3>2. ASSUME NEW b \in Executors, NEW q \in Payouts, NEW e \in Executions,
                   BeginExecute(b, q, e)
            PROVE  FALSE
        BY <1>0, <1>3, <2>0, <2>4, <3>2, PayoutIdsAssumption
           DEF BeginExecute, Idle, Callers
      <3>3. ASSUME NEW b \in Syncers, NEW q \in Payouts, BeginSync(b, q)
            PROVE  FALSE
        BY <1>0, <1>3, <2>0, <2>4, <3>3, PayoutIdsAssumption
           DEF BeginSync, Idle, Callers
      <3>4. ASSUME NEW b \in Callers, PaymentAnswers(b) \/ ChainAnswers(b)
                                      \/ GatewayReports(b)
            PROVE  FALSE
        BY <1>0, <1>3, <2>0, <2>4, <3>4
           DEF PaymentAnswers, ChainAnswers, GatewayReports, Call
      <3>5. ASSUME NEW b \in Callers, NotificationAnswers(b) \/ ConnectorFails(b)
            PROVE  NotificationAnswers(c) \/ ConnectorFails(c)
        BY <1>0, <1>3, <2>0, <2>4, <3>5 DEF NotificationAnswers, ConnectorFails
      <3>6. ASSUME NEW b \in Syncers, ApplyStatus(b) PROVE FALSE
        BY <1>0, <1>3, <2>0, <2>4, <3>6, PayoutIdsAssumption DEF ApplyStatus, Callers
      <3> QED
        BY <3>1, <3>2, <3>3, <3>4, <3>5, <3>6, CallWriters
    <2> QED
      BY <2>1, <2>2, <2>3, <2>4
  <1> QED
    BY <1>1, <1>2, <1>3 DEF Traced

LEMMA AccountStep == AccountInv /\ [Next]_vars => AccountInv'
  <1> SUFFICES ASSUME AccountInv, [Next]_vars PROVE AccountInv'
    OBVIOUS
  <1>0. PaymentInv /\ \A r \in wire \cup payments : r.payout \in Payouts
    BY DEF AccountInv, RecordInv, PaymentInv, TypeInv, TypeOK, PaymentRequest,
           Payment
  <1>1. RecordInv'
    BY RecordStep DEF AccountInv
  <1>2. RequestsTraced'
    <2> SUFFICES ASSUME NEW r \in (wire \cup payments)' PROVE Traced(r.payout)'
      BY DEF RequestsTraced
    <2>1. CASE \E old \in wire \cup payments : old.payout = r.payout
      BY <1>0, <2>1, TraceStays DEF AccountInv, RequestsTraced
    <2>2. CASE \E c \in Executors : calls'[c].payout = r.payout
      BY <2>2 DEF Traced
    <2> QED
      BY <1>0, <2>1, <2>2, RequestSteps
  <1>3. PaymentsKeyed'
    <2>1. \A r \in (wire \cup payments)' : r.execution \in ExecutionsOf[r.payout]
      BY <1>0, RequestSteps DEF AccountInv, PaymentsKeyed
    <2>2. ASSUME NEW a \in payments', NEW b \in payments', a.execution = b.execution
          PROVE  a = b
      <3>1. CASE payments' = payments
        BY <2>2, <3>1 DEF AccountInv, PaymentsKeyed
      <3>2. ASSUME NEW r \in wire, GatewayAccepts(r) PROVE a = b
        BY <2>2, <3>2 DEF GatewayAccepts, AccountInv, PaymentsKeyed
      <3>3. ASSUME NEW pay \in payments, GatewayProgress(pay) PROVE a = b
        <4>1. PICK status \in StatusFlow[pay.status] :
                 payments' = (payments \ {pay}) \cup {[pay EXCEPT !.status = status]}
          BY <3>3 DEF GatewayProgress
        <4> DEFINE new == [pay EXCEPT !.status = status]
        <4>2. new.execution = pay.execution
          BY DEF AccountInv, RecordInv, PaymentInv, TypeInv, TypeOK, Payment
        <4> HIDE DEF new
        <4>3. payments' = (payments \ {pay}) \cup {new}
          BY <4>1 DEF new
        <4> QED
          BY <2>2, <4>2, <4>3 DEF AccountInv, PaymentsKeyed
      <3>4. \/ payments' = payments
            \/ \E r \in wire : GatewayAccepts(r)
            \/ \E pay \in payments : GatewayProgress(pay)
        BY PaymentWriters DEF BeginExecute, GatewayDrops
      <3> QED
        BY <3>1, <3>2, <3>3, <3>4
    <2> QED
      BY <2>1, <2>2 DEF PaymentsKeyed
  <1> QED
    BY <1>1, <1>2, <1>3 DEF AccountInv

\* Whatever fails after it was made, a payment is never without a trace: its
\* payout is executed, its request in flight, or payout.failed recorded.
THEOREM PaymentTraceability == Spec => []PaymentIsTraceable
  <1>1. AccountInv => PaymentIsTraceable
    BY DEF AccountInv, RequestsTraced, Traced, PaymentIsTraceable
  <1> QED
    BY <1>1, AccountInit, AccountStep, PTL DEF Spec

\* With callers that use one execution id for a payout, retries included, it
\* is paid at most once, and the payment is accounted for.
THEOREM PaymentAccounting ==
    ASSUME \A p \in Payouts : \A d, e \in ExecutionsOf[p] : d = e
    PROVE  Spec => []PaymentsAreAccounted
  <1>1. AccountInv => PaymentsAreAccounted
    <2>1. payments \subseteq Payment => \A pay \in payments : pay.payout \in Payouts
      BY DEF Payment
    <2> QED
      BY <2>1 DEF AccountInv, RequestsTraced, Traced, PaymentsKeyed,
         PaymentIsTraceable, AtMostOnePayment, PaymentsAreAccounted, RecordInv,
         PaymentInv, TypeInv, TypeOK
  <1> QED
    BY <1>1, AccountInit, AccountStep, PTL DEF Spec

-----------------------------------------------------------------------------
(***************************************************************************)
(* The payment status a payout shows.  Any request may hold an old answer, *)
(* so the invariant says of each answer, held or stored, that the provider *)
(* is at least as far by now.  That the stored status only moves forward   *)
(* takes one execute request and one reconciliation at a time; then the    *)
(* answer a reconciliation holds is at least as new as what is stored.     *)
(***************************************************************************)

\* The provider never moves a payment back.
StatusFlowAscends ==
    \A s \in PayoutPaymentStatus : \A t \in StatusFlow[s] : Rank[s] <= Rank[t]

\* The payment under an execution id is at this status or further.
AsFar(execution, status) ==
    \E pay \in payments :
        pay.execution = execution /\ Rank[status] <= Rank[pay.status]

\* A status that a payment under the execution id had once.
HeldOnce(execution, status) ==
    status \in PayoutPaymentStatus /\ AsFar(execution, status)

StoredHeldOnce ==
    \A p \in Payouts :
        /\ payouts[p].status = "executed" =>
               HeldOnce(payouts[p].execution, payouts[p].payment_status)
        /\ payouts[p].status # "executed" => payouts[p].payment_status = NoId

AnswersHeldOnce ==
    \A c \in Callers : calls[c].step \in {"recording", "notifying", "answered"} =>
        HeldOnce(calls[c].execution, calls[c].payment_status)

StatusInv == AccountInv /\ StoredHeldOnce /\ AnswersHeldOnce

LEMMA RankIsNumber == \A s \in PayoutPaymentStatus : Rank[s] \in Nat
  BY DEF Rank, PayoutPaymentStatus

LEMMA StatusInit == Init => StatusInv
  BY AccountInit DEF Init, StatusInv, StoredHeldOnce, AnswersHeldOnce, Absent, Idle

LEMMA HeldStays ==
    ASSUME StatusFlowAscends, PaymentInv, [Next]_vars,
           NEW e, NEW s, HeldOnce(e, s)
    PROVE  HeldOnce(e, s)'
  <1>0. payments \subseteq Payment
    BY DEF PaymentInv, TypeInv, TypeOK
  <1>1. PICK pay \in payments : pay.execution = e /\ Rank[s] <= Rank[pay.status]
    BY DEF HeldOnce, AsFar
  <1>2. CASE payments' = payments
    BY <1>1, <1>2 DEF HeldOnce, AsFar
  <1>3. ASSUME NEW r \in wire, GatewayAccepts(r) PROVE HeldOnce(e, s)'
    BY <1>1, <1>3 DEF GatewayAccepts, HeldOnce, AsFar
  <1>4. ASSUME NEW old \in payments, GatewayProgress(old) PROVE HeldOnce(e, s)'
    <2>1. PICK status \in StatusFlow[old.status] :
             payments' = (payments \ {old}) \cup {[old EXCEPT !.status = status]}
      BY <1>4 DEF GatewayProgress
    <2> DEFINE new == [old EXCEPT !.status = status]
    <2>2. /\ old.status \in PayoutPaymentStatus /\ status \in PayoutPaymentStatus
          /\ new.execution = old.execution /\ new.status = status
      BY <1>0, <2>1, PayoutStatusAssumption DEF Payment
    <2> HIDE DEF new
    <2>3. payments' = (payments \ {old}) \cup {new}
      BY <2>1 DEF new
    <2>4. CASE pay # old
      BY <1>1, <2>3, <2>4 DEF HeldOnce, AsFar
    <2>5. CASE pay = old
      <3>1. Rank[old.status] <= Rank[status]
        BY <2>1, <2>2 DEF StatusFlowAscends
      <3>2. Rank[s] <= Rank[new.status]
        BY <1>1, <2>2, <2>5, <3>1, RankIsNumber DEF HeldOnce
      <3> QED
        BY <1>1, <2>2, <2>3, <2>5, <3>2 DEF HeldOnce, AsFar
    <2> QED
      BY <2>4, <2>5
  <1> QED
    BY <1>2, <1>3, <1>4, PaymentWriters DEF GatewayDrops, BeginExecute

\* An answer is the status a payment has when the provider gives it.
LEMMA AnswerHolds ==
    ASSUME StatusFlowAscends, PaymentInv, [Next]_vars, NEW c \in Callers,
           calls'[c].execution = calls[c].execution, Answered(c)
    PROVE  HeldOnce(calls[c].execution, calls[c].payment_status)'
  <1>1. PICK pay \in payments : /\ pay.execution = calls[c].execution
                                /\ pay.status = calls'[c].payment_status
    BY DEF Answered
  <1>2. pay.status \in PayoutPaymentStatus
    BY DEF PaymentInv, TypeInv, TypeOK, Payment
  <1>3. Rank[pay.status] <= Rank[pay.status]
    BY <1>2, RankIsNumber
  <1>4. HeldOnce(pay.execution, pay.status)
    BY <1>2, <1>3 DEF HeldOnce, AsFar
  <1> DEFINE e == pay.execution
             s == pay.status
  <1> HIDE DEF e, s
  <1>5. HeldOnce(e, s)
    BY <1>4 DEF e, s
  <1>6. HeldOnce(e, s)'
    BY <1>5, HeldStays
  <1> QED
    BY <1>1, <1>6 DEF e, s, HeldOnce, AsFar

LEMMA StoredStep ==
    ASSUME StatusFlowAscends, StatusInv, [Next]_vars PROVE StoredHeldOnce'
  <1>0. PaymentInv /\ RecordInv
    BY DEF StatusInv, AccountInv, RecordInv
  <1>1. ASSUME NEW p \in Payouts, payouts'[p] = payouts[p],
               payouts[p].status = "executed"
        PROVE  HeldOnce(payouts[p].execution, payouts[p].payment_status)'
    <2>1. PICK e, s : e = payouts[p].execution /\ s = payouts[p].payment_status
      OBVIOUS
    <2>2. HeldOnce(e, s)
      BY <1>1, <2>1 DEF StatusInv, StoredHeldOnce
    <2>3. HeldOnce(e, s)'
      BY <1>0, <2>2, HeldStays
    <2> QED
      BY <1>1, <2>1, <2>3 DEF HeldOnce, AsFar
  <1>2. ASSUME NEW p \in Payouts, NEW c \in Callers,
               HeldOnce(calls[c].execution, calls[c].payment_status),
               payouts'[p].execution = calls[c].execution,
               payouts'[p].payment_status = calls[c].payment_status
        PROVE  HeldOnce(payouts[p].execution, payouts[p].payment_status)'
    <2>1. PICK e, s : e = calls[c].execution /\ s = calls[c].payment_status
      OBVIOUS
    <2>2. HeldOnce(e, s)'
      BY <1>0, <1>2, <2>1, HeldStays
    <2> QED
      BY <1>2, <2>1, <2>2 DEF HeldOnce, AsFar
  <1>3. ASSUME NEW p \in Payouts, NEW c \in Executors, GetsExecuted(p, c)
        PROVE  HeldOnce(payouts[p].execution, payouts[p].payment_status)'
    BY <1>2, <1>3 DEF GetsExecuted, StatusInv, AnswersHeldOnce, Callers
  <1>4. ASSUME NEW p \in Payouts, NEW c \in Syncers, GetsSynced(p, c)
        PROVE  HeldOnce(payouts[p].execution, payouts[p].payment_status)'
    <2>1. calls[c].execution = calls[c].copy.execution
      BY <1>0, <1>4 DEF GetsSynced, RecordInv, CallsHaveEvidence, Callers
    <2> QED
      BY <1>2, <1>4, <2>1 DEF GetsSynced, StatusInv, AnswersHeldOnce, Callers
  <1>5. ASSUME NEW p \in Payouts, payouts'[p].status = "executed"
        PROVE  HeldOnce(payouts[p].execution, payouts[p].payment_status)'
    BY <1>0, <1>1, <1>3, <1>4, <1>5, Writes
       DEF Written, GetsQueued, GetsVetoed, GetsConfirmed, GetsReady
  <1>6. ASSUME NEW p \in Payouts, payouts'[p].status # "executed"
        PROVE  payouts'[p].payment_status = NoId
    BY <1>0, <1>6, Writes, ExecutedStays
       DEF Written, GetsQueued, GetsVetoed, GetsConfirmed, GetsReady,
           GetsExecuted, GetsSynced, StatusInv, StoredHeldOnce
  <1> QED
    BY <1>5, <1>6 DEF StoredHeldOnce

LEMMA AnswersStep ==
    ASSUME StatusFlowAscends, StatusInv, [Next]_vars PROVE AnswersHeldOnce'
  <1>0. PaymentInv
    BY DEF StatusInv, AccountInv, RecordInv
  <1> SUFFICES ASSUME NEW c \in Callers,
                      calls'[c].step \in {"recording", "notifying", "answered"}
               PROVE  HeldOnce(calls[c].execution, calls[c].payment_status)'
    BY DEF AnswersHeldOnce
  <1>1. ASSUME HeldOnce(calls[c].execution, calls[c].payment_status),
               calls'[c].execution = calls[c].execution,
               calls'[c].payment_status = calls[c].payment_status
        PROVE  HeldOnce(calls[c].execution, calls[c].payment_status)'
    <2>1. PICK e, s : e = calls[c].execution /\ s = calls[c].payment_status
      OBVIOUS
    <2>2. HeldOnce(e, s)'
      BY <1>0, <1>1, <2>1, HeldStays
    <2> QED
      BY <1>1, <2>1, <2>2 DEF HeldOnce, AsFar
  <1>2. CASE calls'[c] = calls[c]
    BY <1>1, <1>2 DEF StatusInv, AnswersHeldOnce
  <1>3. CASE Advances(c) /\ Answered(c)
    BY <1>0, <1>3, AnswerHolds DEF Advances
  <1>4. CASE Advances(c) /\ ~Answered(c)
    BY <1>1, <1>4 DEF Advances, StatusInv, AnswersHeldOnce
  <1> QED
    BY <1>0, <1>2, <1>3, <1>4, CallSteps DEF Starts, Idle

LEMMA StatusStep ==
    ASSUME StatusFlowAscends PROVE StatusInv /\ [Next]_vars => StatusInv'
  BY StoredStep, AnswersStep, AccountStep DEF StatusInv

\* With any number of requests and reconciliations, each free to write an older
\* answer over a newer one, the status a payout shows is one the provider gave.
THEOREM StatusHeldOnce ==
    ASSUME StatusFlowAscends PROVE Spec => []StoredStatusIsPast
  <1>1. StatusInv => StoredStatusIsPast
    BY DEF StatusInv, StoredHeldOnce, HeldOnce, AsFar, StoredStatusIsPast
  <1> QED
    BY <1>1, StatusInit, StatusStep, PTL DEF Spec

\* One execute request and one reconciliation at a time.
OneAtATime ==
    /\ \A b, c \in Executors : b = c
    /\ \A b, c \in Syncers : b = c

\* Executors wait at the awaits of execute_payout and for payouts that are not
\* executed, syncers at that of sync_payment_status, for the payment the payout
\* names, with an answer no older than what is stored.
CallsInTurn ==
    /\ \A c \in Callers : calls[c].step \in {"paying", "recording", "notifying"} =>
          c \in Executors /\ payouts[calls[c].payout].status # "executed"
    /\ \A c \in Callers : calls[c].step \in {"asking", "answered"} =>
          c \in Syncers /\ calls[c].execution = payouts[calls[c].payout].execution
    /\ \A c \in Callers : calls[c].step = "answered" =>
          Rank[payouts[calls[c].payout].payment_status] <= Rank[calls[c].payment_status]

TurnInv == StatusInv /\ CallsInTurn

LEMMA TurnInit == Init => TurnInv
  BY StatusInit DEF Init, TurnInv, CallsInTurn, Idle

\* While a request waits for a payout, no other write crosses it: one that waits
\* to execute it finds it not executed, one that reconciles it finds its payment
\* and the status as they were.
LEMMA NoCrossing ==
    ASSUME OneAtATime, TurnInv, [Next]_vars, NEW c \in Callers,
           calls[c].step # "idle", calls'[c] # Idle
    PROVE  LET p == calls[c].payout IN
           /\ calls[c].step \in {"paying", "recording", "notifying"} =>
                 payouts'[p].status # "executed"
           /\ calls[c].step \in {"asking", "answered"} =>
                 /\ payouts'[p].execution = payouts[p].execution
                 /\ payouts'[p].payment_status = payouts[p].payment_status
  <1> DEFINE p == calls[c].payout
  <1>0. /\ PaymentInv /\ RecordInv
        /\ p \in Payouts
        /\ calls \in [Callers -> Call]
    BY DEF TurnInv, StatusInv, AccountInv, RecordInv, PaymentInv, TypeInv, TypeOK,
           CallsTyped
  <1>1. ASSUME NEW b \in Executors, GetsExecuted(p, b) PROVE FALSE
    <2>1. calls'[b] = Idle
      BY <1>0, <1>1 DEF GetsExecuted, NotificationAnswers, Callers
    <2>2. payouts[p].status # "executed" /\ c \notin Executors
      BY <1>1, <2>1 DEF GetsExecuted, TurnInv, CallsInTurn, OneAtATime, Callers
    <2>3. calls[c].step \in {"asking", "answered"}
      BY <1>0, <2>2 DEF TurnInv, CallsInTurn, Call, Steps
    <2> QED
      BY <1>0, <2>2, <2>3 DEF RecordInv, CallsHaveEvidence
  <1>2. ASSUME NEW b \in Syncers, GetsSynced(p, b) PROVE FALSE
    <2>1. calls'[b] = Idle
      BY <1>0, <1>2 DEF GetsSynced, ApplyStatus, Callers
    <2>2. payouts[p].status = "executed" /\ c \notin Syncers
      BY <1>0, <1>2, <2>1 DEF GetsSynced, RecordInv, CallsHaveEvidence, OneAtATime, Callers
    <2>3. calls[c].step \in {"paying", "recording", "notifying"}
      BY <1>0, <2>2 DEF TurnInv, CallsInTurn, Call, Steps
    <2> QED
      BY <2>2, <2>3 DEF TurnInv, CallsInTurn
  <1>3. ASSUME calls[c].step \in {"paying", "recording", "notifying"}
        PROVE  payouts'[p].status # "executed"
    <2>1. payouts[p].status # "executed"
      BY <1>3 DEF TurnInv, CallsInTurn
    <2> QED
      BY <1>0, <1>1, <1>2, <2>1, Writes
         DEF Written, GetsQueued, GetsVetoed, GetsConfirmed, GetsReady
  <1>4. ASSUME calls[c].step \in {"asking", "answered"}
        PROVE  payouts'[p] = payouts[p]
    <2>1. payouts[p].status = "executed"
      BY <1>0, <1>4 DEF RecordInv, CallsHaveEvidence
    <2> QED
      BY <1>0, <1>1, <1>2, <2>1, Writes
         DEF Written, GetsQueued, GetsVetoed, GetsConfirmed, GetsReady
  <1> QED
    BY <1>3, <1>4

LEMMA TurnStep ==
    ASSUME StatusFlowAscends, OneAtATime, TurnInv, [Next]_vars PROVE TurnInv'
  <1>0. /\ PaymentInv /\ RecordInv /\ PaymentsKeyed
        /\ calls \in [Callers -> Call]
    BY DEF TurnInv, StatusInv, AccountInv, RecordInv, PaymentInv, TypeInv, TypeOK
  <1>1. StatusInv'
    BY StatusStep DEF TurnInv
  <1> DEFINE Waits(c) ==
        /\ calls[c].step \in {"paying", "recording", "notifying"} =>
              c \in Executors /\ payouts[calls[c].payout].status # "executed"
        /\ calls[c].step \in {"asking", "answered"} =>
              /\ c \in Syncers
              /\ calls[c].execution = payouts[calls[c].payout].execution
        /\ calls[c].step = "answered" =>
              Rank[payouts[calls[c].payout].payment_status] <= Rank[calls[c].payment_status]
  <1>2. ASSUME NEW c \in Callers PROVE Waits(c)'
    <2>0. Waits(c)
      BY DEF TurnInv, CallsInTurn
    <2>1. CASE calls'[c] = Idle
      BY <2>1 DEF Idle
    <2>2. CASE Starts(c)
      BY <1>0, <2>2 DEF Starts
    <2>3. CASE calls'[c] = calls[c] /\ calls'[c] # Idle
      <3>1. CASE calls[c].step = "idle"
        BY <2>3, <3>1
      <3>2. CASE calls[c].step # "idle"
        BY <2>0, <2>3, <3>2, NoCrossing
      <3> QED
        BY <3>1, <3>2
    <2>4. CASE Advances(c)
      <3>1. calls'[c] # Idle /\ calls[c].step # "idle"
        BY <2>4 DEF Advances, Idle
      <3>2. /\ calls[c].step \in {"paying", "recording", "notifying"} =>
                 payouts'[calls[c].payout].status # "executed"
            /\ calls[c].step \in {"asking", "answered"} =>
                 /\ payouts'[calls[c].payout].execution = payouts[calls[c].payout].execution
                 /\ payouts'[calls[c].payout].payment_status
                       = payouts[calls[c].payout].payment_status
        BY <3>1, NoCrossing
      <3>3. ASSUME calls[c].step = "asking"
            PROVE  Rank[payouts[calls[c].payout].payment_status] <= Rank[calls'[c].payment_status]
        <4>1. HeldOnce(payouts[calls[c].payout].execution,
                       payouts[calls[c].payout].payment_status)
          BY <1>0, <3>3 DEF TurnInv, StatusInv, StoredHeldOnce, RecordInv,
             CallsHaveEvidence, PaymentInv, TypeInv, CallsTyped
        <4>2. PICK pay \in payments :
                 /\ pay.execution = payouts[calls[c].payout].execution
                 /\ Rank[payouts[calls[c].payout].payment_status] <= Rank[pay.status]
          BY <4>1 DEF HeldOnce, AsFar
        <4>3. PICK new \in payments : /\ new.execution = calls[c].execution
                                      /\ new.status = calls'[c].payment_status
          BY <2>4, <3>3 DEF Advances, Answered
        <4>4. new = pay
          BY <1>0, <2>0, <3>3, <4>2, <4>3 DEF PaymentsKeyed
        <4> QED
          BY <4>2, <4>3, <4>4
      <3> QED
        BY <2>0, <2>4, <3>2, <3>3 DEF Advances
    <2> QED
      BY <1>0, <2>1, <2>2, <2>3, <2>4, CallSteps
  <1>3. CallsInTurn'
    BY <1>2 DEF CallsInTurn
  <1> QED
    BY <1>1, <1>3 DEF TurnInv

\* With one execute request and one reconciliation at a time, the status a payout
\* shows is one the provider gave, and moves forward only.
THEOREM StatusHonesty ==
    ASSUME StatusFlowAscends, OneAtATime PROVE Spec => StatusIsHonest
  <1> DEFINE Forward ==
        \A p \in Payouts : payouts[p].payment_status # NoId =>
            Rank[payouts[p].payment_status] <= Rank[payouts'[p].payment_status]
  <1>1. TurnInv /\ [Next]_vars => [Forward]_vars
    <2> SUFFICES ASSUME TurnInv, [Next]_vars, NEW p \in Payouts,
                        payouts[p].payment_status # NoId
                 PROVE  Rank[payouts[p].payment_status] <= Rank[payouts'[p].payment_status]
      OBVIOUS
    <2>0. PaymentInv /\ payouts[p].payment_status \in PayoutPaymentStatus
      BY DEF TurnInv, StatusInv, AccountInv, RecordInv, PaymentInv, TypeInv, TypeOK, PayoutItem
    <2>1. payouts[p].status = "executed"
      BY DEF TurnInv, StatusInv, StoredHeldOnce
    <2>2. CASE payouts'[p].payment_status = payouts[p].payment_status
      BY <2>0, <2>2, RankIsNumber
    <2>3. ASSUME NEW c \in Executors, GetsExecuted(p, c) PROVE FALSE
      BY <2>1, <2>3 DEF GetsExecuted, TurnInv, CallsInTurn, Callers
    <2>4. ASSUME NEW c \in Syncers, GetsSynced(p, c)
          PROVE  Rank[payouts[p].payment_status] <= Rank[payouts'[p].payment_status]
      BY <2>4 DEF GetsSynced, TurnInv, CallsInTurn, Callers
    <2> QED
      BY <2>0, <2>1, <2>2, <2>3, <2>4, Writes
         DEF Written, GetsQueued, GetsVetoed, GetsConfirmed, GetsReady
  <1>2. TurnInv /\ [Next]_vars => TurnInv'
    BY TurnStep
  <1>3. Spec => StatusNeverRegresses
    BY <1>1, <1>2, TurnInit, PTL DEF Spec, StatusNeverRegresses
  <1> QED
    BY <1>3, StatusHeldOnce, PTL DEF StatusIsHonest

-----------------------------------------------------------------------------
(***************************************************************************)
(* The refinement of PayoutLifecycle, and that no write undoes an earlier  *)
(* decision.  Besides the invariants above it needs to know that a payment *)
(* found under a request's execution id is one for its payout: callers of  *)
(* different payouts use different execution ids.                          *)
(***************************************************************************)

ExecutionIdsApart ==
    \A p, q \in Payouts : ExecutionsOf[p] \cap ExecutionsOf[q] # {} => p = q

IdsKept ==
    /\ \A p \in Payouts : payouts[p].status = "executed" =>
           payouts[p].execution \in ExecutionsOf[p]
    /\ \A c \in Callers : calls[c].step # "idle" =>
           calls[c].execution \in ExecutionsOf[calls[c].payout]

LifecycleInv == VetoInv /\ AccountInv /\ IdsKept

LEMMA LifecycleInit == Init => LifecycleInv
  BY VetoInit, AccountInit DEF Init, LifecycleInv, IdsKept, Absent, Idle

LEMMA IdsStep == ASSUME LifecycleInv, [Next]_vars PROVE IdsKept'
  <1>0. PaymentInv /\ RecordInv
    BY DEF LifecycleInv, AccountInv, RecordInv
  <1>1. ASSUME NEW p \in Payouts, payouts'[p].status = "executed"
        PROVE  payouts'[p].execution \in ExecutionsOf[p]
    <2>1. CASE payouts'[p] = payouts[p]
      BY <1>1, <2>1 DEF LifecycleInv, IdsKept
    <2>2. ASSUME NEW c \in Executors, GetsExecuted(p, c)
          PROVE  payouts'[p].execution \in ExecutionsOf[p]
      BY <2>2 DEF GetsExecuted, LifecycleInv, IdsKept, Callers
    <2>3. ASSUME NEW c \in Syncers, GetsSynced(p, c)
          PROVE  payouts'[p].execution \in ExecutionsOf[p]
      BY <1>0, <2>3 DEF GetsSynced, LifecycleInv, IdsKept, RecordInv,
                        CallsHaveEvidence, Callers
    <2> QED
      BY <1>0, <1>1, <2>1, <2>2, <2>3, Writes
         DEF Written, GetsQueued, GetsVetoed, GetsConfirmed, GetsReady
  <1>2. ASSUME NEW c \in Callers, calls'[c].step # "idle"
        PROVE  calls'[c].execution \in ExecutionsOf[calls'[c].payout]
    <2>1. CASE calls'[c] = calls[c] \/ Advances(c)
      BY <1>2, <2>1 DEF Advances, LifecycleInv, IdsKept
    <2>2. CASE Starts(c)
      BY <1>0, <2>2 DEF Starts, LifecycleInv, IdsKept, PaymentInv, PayoutsSound
    <2> QED
      BY <1>0, <1>2, <2>1, <2>2, CallSteps DEF Idle
  <1> QED
    BY <1>1, <1>2 DEF IdsKept

LEMMA LifecycleInvStep ==
    ASSUME Skew = 0 PROVE LifecycleInv /\ [Next]_vars => LifecycleInv'
  BY VetoStep, AccountStep, IdsStep DEF LifecycleInv

LEMMA PhaseCases ==
    ASSUME NEW item \in PayoutItem
    PROVE  /\ item.status = "absent" <=> PhaseOf(item) = "none"
           /\ item.status = "canceled" <=> PhaseOf(item) = "canceled"
           /\ item.status = "executed" <=> PhaseOf(item) = "executed"
           /\ item.status \in {"queued", "ready_to_execute"} =>
                 PhaseOf(item) =
                     IF item.confirmation = NoId THEN "queued" ELSE "confirmed"
  <1>1. item.status \in PayoutStatus
    BY DEF PayoutItem
  <1> QED
    BY <1>1 DEF PhaseOf, PayoutStatus

\* A write to one payout that keeps its window moves one phase only.
LEMMA PhaseMoves ==
    ASSUME TypeInv, TypeInv', NEW p \in Payouts,
           \A q \in Payouts \ {p} : payouts'[q] = payouts[q]
    PROVE  phaseBar' = [phaseBar EXCEPT ![p] = PhaseOf(payouts'[p])]
  BY DEF phaseBar, TypeInv, TypeOK

LEMMA WindowKept ==
    ASSUME NEW p \in Payouts, clock' = clock,
           \A q \in Payouts \ {p} : payouts'[q] = payouts[q],
           payouts[p].status # "absent", payouts'[p].status # "absent",
           payouts'[p].veto_until = payouts[p].veto_until
    PROVE  openBar' = openBar
  BY DEF openBar

LEMMA TimeSteps == ASSUME [Next]_vars PROVE Tick \/ clock' = clock
  BY ZenonT(60) DEF Next, CouncilStep, ExecutorStep, SyncerStep, GatewayStep, vars,
     QueuePayout, VetoPayout, VetoDuplicateDecision, ConfirmPayout,
     ConfirmDuplicate, MarkReadyForExecution, BeginExecute, PaymentAnswers,
     ChainAnswers, NotificationAnswers, ConnectorFails, BeginSync,
     GatewayReports, ApplyStatus, GatewayAccepts, GatewayDrops, GatewayProgress

\* The payment under the execution id of a payout is one for this payout.
LEMMA PaidIsOwn ==
    ASSUME ExecutionIdsApart, LifecycleInv, NEW p \in Payouts,
           NEW e \in ExecutionsOf[p], Paid(e)
    PROVE  p \in paidBar
  <1>1. PICK pay \in payments : pay.execution = e
    BY DEF Paid
  <1>2. pay.payout \in Payouts /\ e \in ExecutionsOf[pay.payout]
    BY <1>1 DEF LifecycleInv, AccountInv, PaymentsKeyed, RecordInv, PaymentInv,
                TypeInv, TypeOK, Payment
  <1>3. pay.payout = p
    BY <1>2 DEF ExecutionIdsApart
  <1> QED
    BY <1>3 DEF paidBar

\* A write of the repository is a step of the lifecycle or none.
LEMMA WriteRefines ==
    ASSUME Skew = 0, ExecutionIdsApart, LifecycleInv, [Next]_vars,
           NEW p \in Payouts, Written(p)
    PROVE  \/ Lifecycle!Next
           \/ UNCHANGED Lifecycle!vars
  <1>0. /\ PaymentInv /\ RecordInv /\ TypeInv /\ TypeInv'
        /\ payouts[p] \in PayoutItem /\ payouts'[p] \in PayoutItem
        /\ clock \in Nat /\ payouts[p].veto_until \in Nat
    BY PaymentStep, PayoutTimeAssumption
       DEF LifecycleInv, VetoInv, AccountInv, RecordInv, PaymentInv, TypeInv, TypeOK,
           PayoutItem
  <1>1. phaseBar' = [phaseBar EXCEPT ![p] = PhaseOf(payouts'[p])]
    BY <1>0, PhaseMoves DEF Written
  <1>2. /\ phaseBar[p] = PhaseOf(payouts[p])
        /\ phaseBar = [phaseBar EXCEPT ![p] = phaseBar[p]]
    BY DEF phaseBar
  <1>3. ASSUME GetsQueued(p) PROVE Lifecycle!Queue(p)
    <2>1. PICK at \in Nows : payouts'[p].veto_until = at + VetoWindow
      BY <1>3 DEF GetsQueued
    <2>2. clock' = clock /\ payments' = payments
      BY <1>3 DEF GetsQueued, QueuePayout
    <2>3. at = clock
      BY <1>0 DEF Nows
    <2>4. clock' < payouts'[p].veto_until
      BY <1>0, <2>1, <2>2, <2>3, PayoutTimeAssumption
    <2>5. openBar' = openBar \cup {p}
      BY <1>3, <2>2, <2>4 DEF GetsQueued, Written, openBar
    <2>6. phaseBar[p] = "none" /\ phaseBar' = [phaseBar EXCEPT ![p] = "queued"]
      BY <1>0, <1>1, <1>2, <1>3, PhaseCases DEF GetsQueued
    <2>7. paidBar' = paidBar
      BY <2>2 DEF paidBar
    <2> QED
      BY <2>5, <2>6, <2>7 DEF Lifecycle!Queue, Lifecycle!Move
  <1>4. ASSUME NEW d \in Decisions, GetsVetoed(p, d) PROVE Lifecycle!Veto(p)
    <2>1. clock' = clock /\ payments' = payments
      BY <1>4 DEF GetsVetoed, VetoPayout
    <2>2. openBar' = openBar
      BY <1>4, <2>1, WindowKept DEF GetsVetoed, Written
    <2>3. p \in openBar
      BY <1>0, <1>4 DEF GetsVetoed, VetoPayout, Vetoable, Nows, openBar
    <2>4. /\ phaseBar[p] \in {"queued", "confirmed"}
          /\ phaseBar' = [phaseBar EXCEPT ![p] = "canceled"]
      BY <1>0, <1>1, <1>2, <1>4, PhaseCases DEF GetsVetoed
    <2>5. paidBar' = paidBar
      BY <2>1 DEF paidBar
    <2> QED
      BY <2>2, <2>3, <2>4, <2>5 DEF Lifecycle!Veto, Lifecycle!Move
  <1>5. ASSUME NEW k \in Confirmations, GetsConfirmed(p, k)
        PROVE  Lifecycle!Confirm(p)
    <2>1. clock' = clock /\ payments' = payments
      BY <1>5 DEF GetsConfirmed, ConfirmPayout
    <2>2. openBar' = openBar
      BY <1>5, <2>1, WindowKept DEF GetsConfirmed, Written
    <2>3. k # NoId
      BY PayoutIdsAssumption
    <2>4. phaseBar[p] = "queued" /\ phaseBar' = [phaseBar EXCEPT ![p] = "confirmed"]
      BY <1>0, <1>1, <1>2, <1>5, <2>3, PhaseCases DEF GetsConfirmed
    <2>5. paidBar' = paidBar
      BY <2>1 DEF paidBar
    <2> QED
      BY <2>2, <2>4, <2>5 DEF Lifecycle!Confirm, Lifecycle!Move
  <1>6. ASSUME GetsReady(p) PROVE UNCHANGED Lifecycle!vars
    <2>1. clock' = clock /\ payments' = payments
      BY <1>6 DEF GetsReady, MarkReadyForExecution
    <2>2. openBar' = openBar
      BY <1>6, <2>1, WindowKept DEF GetsReady, Written
    <2>3. phaseBar' = phaseBar
      BY <1>0, <1>1, <1>2, <1>6, PhaseCases DEF GetsReady
    <2>4. paidBar' = paidBar
      BY <2>1 DEF paidBar
    <2> QED
      BY <2>2, <2>3, <2>4 DEF Lifecycle!vars
  <1>7. ASSUME NEW c \in Executors, GetsExecuted(p, c)
        PROVE  Lifecycle!Settle(p) \/ UNCHANGED Lifecycle!vars
    <2>0. c \in Callers /\ calls[c].step = "notifying" /\ calls[c].payout = p
      BY <1>7 DEF GetsExecuted, Callers
    <2>1. clock' = clock /\ payments' = payments
      BY <1>7 DEF GetsExecuted, NotificationAnswers
    <2>2. /\ payouts[p].status \in {"queued", "ready_to_execute", "executed"}
          /\ payouts[p].confirmation # NoId
      BY <1>0, <2>0 DEF LifecycleInv, VetoInv, UserLive, Live, PaymentInv, CopiesSound
    <2>3. openBar' = openBar
      BY <1>7, <2>1, <2>2, WindowKept DEF GetsExecuted, Written
    <2>4. p \in paidBar
      BY <1>0, <2>0, PaidIsOwn DEF LifecycleInv, IdsKept, RecordInv, CallsHaveEvidence
    <2>5. /\ phaseBar[p] \in {"confirmed", "executed"}
          /\ phaseBar' = [phaseBar EXCEPT ![p] = "executed"]
      BY <1>0, <1>1, <1>2, <1>7, <2>2, PhaseCases DEF GetsExecuted
    <2>6. paidBar' = paidBar
      BY <2>1 DEF paidBar
    <2>7. CASE phaseBar[p] = "confirmed"
      BY <2>3, <2>4, <2>5, <2>6, <2>7 DEF Lifecycle!Settle, Lifecycle!Move
    <2>8. CASE phaseBar[p] = "executed"
      BY <1>2, <2>3, <2>5, <2>6, <2>8 DEF Lifecycle!vars
    <2> QED
      BY <2>5, <2>7, <2>8
  <1>8. ASSUME NEW c \in Syncers, GetsSynced(p, c)
        PROVE  UNCHANGED Lifecycle!vars
    <2>1. clock' = clock /\ payments' = payments
      BY <1>8 DEF GetsSynced, ApplyStatus
    <2>2. payouts[p].status = "executed"
      BY <1>0, <1>8 DEF GetsSynced, RecordInv, CallsHaveEvidence, Callers
    <2>3. openBar' = openBar
      BY <1>8, <2>1, <2>2, WindowKept DEF GetsSynced, Written
    <2>4. phaseBar' = phaseBar
      BY <1>0, <1>1, <1>2, <1>8, <2>2, PhaseCases DEF GetsSynced
    <2>5. paidBar' = paidBar
      BY <2>1 DEF paidBar
    <2> QED
      BY <2>3, <2>4, <2>5 DEF Lifecycle!vars
  <1> QED
    BY <1>3, <1>4, <1>5, <1>6, <1>7, <1>8 DEF Written, Lifecycle!Next

\* A step that writes no payout lets time pass, pays, or is none.
LEMMA QuietRefines ==
    ASSUME Skew = 0, ExecutionIdsApart, LifecycleInv, [Next]_vars,
           payouts' = payouts
    PROVE  \/ Lifecycle!Next
           \/ UNCHANGED Lifecycle!vars
  <1>0. /\ RecordInv /\ PaymentInv /\ payments \subseteq Payment /\ clock \in Nat
        /\ wire \subseteq PaymentRequest
        /\ \A p \in Payouts : payouts[p] \in PayoutItem
    BY PayoutTimeAssumption
       DEF LifecycleInv, AccountInv, RecordInv, PaymentInv, TypeInv, TypeOK
  <1>1. phaseBar' = phaseBar
    BY DEF phaseBar
  <1>2. CASE Tick
    <2>1. openBar' \subseteq openBar
      BY <1>0, <1>2 DEF Tick, openBar, PayoutItem
    <2>2. paidBar' = paidBar
      BY <1>2 DEF Tick, paidBar
    <2> QED
      BY <1>1, <2>1, <2>2 DEF Lifecycle!Close, Lifecycle!Next
  <1>3. CASE clock' = clock
    <2>1. openBar' = openBar
      BY <1>3 DEF openBar
    <2>2. ASSUME paidBar' = paidBar PROVE UNCHANGED Lifecycle!vars
      BY <1>1, <2>1, <2>2 DEF Lifecycle!vars
    <2>3. CASE payments' = payments
      BY <2>2, <2>3 DEF paidBar
    <2>4. ASSUME NEW pay \in payments, GatewayProgress(pay) PROVE paidBar' = paidBar
      <3>1. PICK status \in StatusFlow[pay.status] :
               payments' = (payments \ {pay}) \cup {[pay EXCEPT !.status = status]}
        BY <2>4 DEF GatewayProgress
      <3> DEFINE new == [pay EXCEPT !.status = status]
      <3>2. new.payout = pay.payout
        BY <1>0 DEF Payment
      <3> HIDE DEF new
      <3>3. payments' = (payments \ {pay}) \cup {new}
        BY <3>1 DEF new
      <3> QED
        BY <3>2, <3>3 DEF paidBar
    <2>5. ASSUME NEW r \in wire, GatewayAccepts(r), payments' # payments
          PROVE  \/ Lifecycle!Pay(r.payout) \/ paidBar' = paidBar
      <3> DEFINE p == r.payout
      <3>1. paidBar' = paidBar \cup {p}
        <4>1. PICK status \in FirstStatuses :
                 payments' = payments \cup {[payout |-> p,
                                execution |-> r.execution, status |-> status]}
          BY <2>5 DEF GatewayAccepts
        <4> DEFINE new == [payout |-> p, execution |-> r.execution, status |-> status]
        <4>2. new.payout = p /\ payments' = payments \cup {new}
          BY <4>1
        <4> HIDE DEF new, p
        <4> QED
          BY <4>2 DEF paidBar
      <3>2. /\ p \in Payouts /\ WindowOver(payouts[p])
            /\ payouts[p].confirmation # NoId
            /\ payouts[p].status \in {"queued", "ready_to_execute", "executed"}
        BY <1>0 DEF PaymentRequest, PaymentInv, RequestsSound, LifecycleInv, VetoInv,
                    UserLive, Live
      <3>3. p \notin openBar
        BY <1>0, <3>2 DEF WindowOver, openBar, PayoutItem
      <3>4. CASE payouts[p].status = "executed"
        <4>1. p \in paidBar
          BY <1>0, <3>2, <3>4, PaidIsOwn
             DEF LifecycleInv, IdsKept, RecordInv, PayoutsHaveEvidence, HasEvidence
        <4> QED
          BY <3>1, <4>1
      <3>5. CASE payouts[p].status # "executed"
        <4>1. phaseBar[p] = "confirmed"
          BY <1>0, <3>2, <3>5, PhaseCases DEF phaseBar
        <4> QED
          BY <1>1, <2>1, <3>1, <3>3, <4>1 DEF Lifecycle!Pay
      <3> QED
        BY <3>4, <3>5
    <2>6. \A r \in wire : r.payout \in Payouts
      BY <1>0 DEF PaymentRequest
    <2> QED
      BY <2>2, <2>3, <2>4, <2>5, <2>6, PaymentWriters
         DEF BeginExecute, GatewayDrops, Lifecycle!Next
  <1> QED
    BY <1>2, <1>3, TimeSteps

\* Executed and canceled are final, a ready payout is executed next, and a
\* confirmation stays.
LEMMA StepsForward ==
    ASSUME Skew = 0, LifecycleInv, [Next]_vars, NEW p \in Payouts
    PROVE  /\ payouts[p].status \in {"executed", "canceled"} =>
                 payouts'[p].status = payouts[p].status
           /\ payouts[p].status = "ready_to_execute" =>
                 payouts'[p].status \in {"ready_to_execute", "executed"}
           /\ payouts[p].confirmation # NoId =>
                 payouts'[p].confirmation = payouts[p].confirmation
  <1>0. VetoInv /\ PaymentInv
    BY DEF LifecycleInv, VetoInv
  <1>1. payouts[p].status \in {"executed", "canceled"} =>
            payouts'[p].status = payouts[p].status
    BY <1>0, ExecutedStays, CanceledStays
  <1>2. payouts[p].status = "ready_to_execute" =>
            payouts'[p].status \in {"ready_to_execute", "executed"}
    BY <1>0, Writes DEF Written, GetsQueued, GetsVetoed, GetsConfirmed, GetsReady,
                        GetsExecuted, GetsSynced
  <1>3. payouts[p].confirmation # NoId =>
            payouts'[p].confirmation = payouts[p].confirmation
    BY <1>0, TermsKept DEF KeepsTerms, PaymentInv, PayoutsSound
  <1> QED
    BY <1>1, <1>2, <1>3

\* With requests judged by the clock, and execution ids that belong to one
\* payout, every step of the gateway is a step of the lifecycle or none, and
\* no write undoes an earlier decision.
THEOREM NothingUndone ==
    ASSUME Skew = 0, ExecutionIdsApart PROVE Spec => NothingIsUndone
  <1>1. Init => Lifecycle!Init
    BY DEF Init, Lifecycle!Init, phaseBar, openBar, paidBar, PhaseOf, Absent
  <1>2. LifecycleInv /\ [Next]_vars => [Lifecycle!Next]_(Lifecycle!vars)
    <2> SUFFICES ASSUME LifecycleInv, [Next]_vars
                 PROVE  Lifecycle!Next \/ UNCHANGED Lifecycle!vars
      OBVIOUS
    <2>1. PaymentInv
      BY DEF LifecycleInv, VetoInv
    <2> QED
      BY <2>1, Writes, WriteRefines, QuietRefines
  <1> DEFINE Forward ==
         \A p \in Payouts :
            /\ payouts[p].status \in {"executed", "canceled"} =>
                   payouts'[p].status = payouts[p].status
            /\ payouts[p].status = "ready_to_execute" =>
                   payouts'[p].status \in {"ready_to_execute", "executed"}
            /\ payouts[p].confirmation # NoId =>
                   payouts'[p].confirmation = payouts[p].confirmation
  <1>3. LifecycleInv /\ [Next]_vars => [Forward]_vars
    BY StepsForward
  <1>4. Spec => []LifecycleInv
    BY LifecycleInit, LifecycleInvStep, PTL DEF Spec
  <1>5. Spec => ImplementsLifecycle
    BY <1>1, <1>2, <1>4, PTL DEF Spec, ImplementsLifecycle, Lifecycle!Spec
  <1>6. Spec => NoStepBack
    BY <1>3, <1>4, PTL DEF Spec, NoStepBack
  <1> QED
    BY <1>5, <1>6 DEF NothingIsUndone

-----------------------------------------------------------------------------
(***************************************************************************)
(* The Council's panel.  What it shows is the listing put in order; a      *)
(* payout that was final when it was listed still is, and a confirmation   *)
(* on record shows on its payout.                                          *)
(***************************************************************************)

ConfirmationsShow ==
    \A k \in confirmations :
        k.payout \in Payouts /\ payouts[k.payout].confirmation # NoId

ListStands ==
    /\ panelNow = NoId \/ panelNow \in Nat
    /\ panelList.listed =>
          /\ panelNow \in Nat /\ panelNow # NoId
          /\ panelList.payouts \in [Payouts -> PayoutItem]
          /\ \A p \in Payouts :
                panelList.payouts[p].status \in {"executed", "canceled"} =>
                    payouts[p].status = panelList.payouts[p].status

ListShown ==
    /\ ~panel.shown => panel.items = <<>>
    /\ panel.shown =>
          LET items == PanelItems(panelList.payouts, panelNow)
          IN  /\ panelList.listed
              /\ panel.items \in InOrder(items)
              /\ panel.summary = PanelSummary(items)

PanelInv == VetoInv /\ ConfirmationsShow /\ ListStands /\ ListShown

LEMMA PanelInitially == Init /\ PanelInit => PanelInv
  BY VetoInit
     DEF Init, PanelInit, PanelInv, ConfirmationsShow, ListStands, ListShown,
         NotListed, NotShown

\* Which actions write confirmations.
LEMMA ConfirmationWriters ==
    ASSUME [Next]_vars
    PROVE  \/ confirmations' = confirmations
           \/ \E p \in Payouts, k \in Confirmations : ConfirmPayout(p, k)
  BY ZenonT(60)
     DEF Next, CouncilStep, ExecutorStep, SyncerStep, GatewayStep, vars, Tick,
         QueuePayout, VetoPayout, VetoDuplicateDecision, ConfirmDuplicate,
         MarkReadyForExecution, BeginExecute, PaymentAnswers, ChainAnswers,
         NotificationAnswers, ConnectorFails, BeginSync, GatewayReports,
         ApplyStatus, GatewayAccepts, GatewayDrops, GatewayProgress

LEMMA ConfirmationsStep ==
    ASSUME PaymentInv, ConfirmationsShow, [Next]_vars PROVE ConfirmationsShow'
  <1>0. payouts \in [Payouts -> PayoutItem]
    BY DEF PaymentInv, TypeInv, TypeOK
  <1>1. ASSUME NEW p \in Payouts, payouts[p].confirmation # NoId
        PROVE  payouts'[p].confirmation # NoId
    BY <1>1, TermsKept DEF KeepsTerms, PaymentInv, PayoutsSound
  <1>2. \A k \in confirmations : k.payout \in Payouts /\ payouts'[k.payout].confirmation # NoId
    BY <1>1 DEF ConfirmationsShow
  <1>3. ASSUME NEW p \in Payouts, NEW k \in Confirmations, ConfirmPayout(p, k)
        PROVE  ConfirmationsShow'
    <2>1. PICK subject \in Subjects :
             confirmations' = confirmations \cup {[id |-> k, payout |-> p, actor |-> subject]}
      BY <1>3 DEF ConfirmPayout
    <2>2. payouts' = [payouts EXCEPT ![p].confirmation = k,
                                     ![p].audit = Entry("payout.confirmed", p, k)]
      BY <1>3 DEF ConfirmPayout
    <2>3. payouts'[p].confirmation = k /\ k # NoId
      BY <1>0, <2>2, PayoutIdsAssumption DEF PayoutItem
    <2> QED
      BY <1>2, <2>1, <2>3 DEF ConfirmationsShow
  <1> QED
    BY <1>2, <1>3, ConfirmationWriters DEF ConfirmationsShow

\* A step of the gateway leaves the panel what it was.
LEMMA GatewayUnderPanel ==
    ASSUME Skew = 0, PanelInv, [Next]_vars, UNCHANGED panelVars PROVE PanelInv'
  <1>0. PaymentInv /\ VetoInv
    BY DEF PanelInv, VetoInv
  <1>1. VetoInv' /\ ConfirmationsShow'
    BY <1>0, VetoStep, ConfirmationsStep DEF PanelInv
  <1>2. panelNow' = panelNow /\ panelList' = panelList /\ panel' = panel
    BY DEF panelVars
  <1>3. ASSUME NEW p \in Payouts, payouts[p].status \in {"executed", "canceled"}
        PROVE  payouts'[p].status = payouts[p].status
    BY <1>0, <1>3, ExecutedStays, CanceledStays
  <1>4. ListStands'
    BY <1>2, <1>3 DEF PanelInv, ListStands
  <1>5. ListShown'
    BY <1>2 DEF PanelInv, ListShown
  <1> QED
    BY <1>1, <1>4, <1>5 DEF PanelInv

LEMMA PanelStep ==
    ASSUME Skew = 0 PROVE PanelInv /\ [PanelNext]_allVars => PanelInv'
  <1> SUFFICES ASSUME PanelInv, [PanelNext]_allVars PROVE PanelInv'
    OBVIOUS
  <1>0. payouts \in [Payouts -> PayoutItem]
    BY DEF PanelInv, VetoInv, PaymentInv, TypeInv, TypeOK
  <1>1. CASE [Next]_vars /\ UNCHANGED panelVars
    BY <1>1, GatewayUnderPanel
  <1>2. ASSUME UNCHANGED vars, ListStands', ListShown' PROVE PanelInv'
    <2>1. VetoInv'
      BY <1>2, VetoStep DEF PanelInv
    <2>2. ConfirmationsShow'
      BY <1>2 DEF PanelInv, ConfirmationsShow, vars
    <2> QED
      BY <1>2, <2>1, <2>2 DEF PanelInv
  <1>3. CASE OpenPanel
    <2>1. /\ UNCHANGED vars /\ panelList' = panelList /\ panel' = panel
          /\ panelNow' \in Nat /\ ~panelList.listed /\ ~panel.shown
      <3>1. panelNow = NoId /\ panelNow' \in Nows
        BY <1>3 DEF OpenPanel
      <3> QED
        BY <1>3, <3>1, PayoutTimeAssumption DEF OpenPanel, PanelInv, ListStands, ListShown, Nows
    <2> QED
      BY <1>2, <2>1 DEF PanelInv, ListStands, ListShown
  <1>4. CASE ListPayouts
    <2>1. /\ UNCHANGED vars /\ panelNow' = panelNow /\ panel' = panel
          /\ panelNow # NoId /\ panelList'.listed /\ panelList'.payouts = payouts
          /\ ~panelList.listed
      BY <1>4 DEF ListPayouts, NotListed
    <2>2. payouts' = payouts /\ ~panel.shown /\ panelNow \in Nat
      BY <2>1 DEF vars, PanelInv, ListStands, ListShown
    <2> QED
      BY <1>0, <1>2, <2>1, <2>2 DEF PanelInv, ListStands, ListShown
  <1>5. CASE ShowPanel
    <2> DEFINE items == PanelItems(panelList.payouts, panelNow)
    <2>1. PICK order \in InOrder(items) :
             panel' = [items |-> order, shown |-> TRUE, summary |-> PanelSummary(items)]
      BY <1>5 DEF ShowPanel
    <2>2. /\ panel'.shown /\ panel'.items \in InOrder(items)
          /\ panel'.summary = PanelSummary(items)
      BY <2>1
    <2>3. /\ UNCHANGED vars /\ panelNow' = panelNow /\ panelList' = panelList
          /\ panelList.listed
      BY <1>5 DEF ShowPanel
    <2>4. ListShown'
      BY <2>2, <2>3 DEF ListShown, PanelItems, PanelItem
    <2>5. ListStands'
      BY <2>3 DEF PanelInv, ListStands, vars
    <2> QED
      BY <1>2, <2>3, <2>4, <2>5
  <1>6. CASE ClosePanel
    BY <1>2, <1>6 DEF ClosePanel, NotListed, NotShown, ListStands, ListShown
  <1>7. ASSUME NEW p \in Payouts, NEW d \in Decisions, PanelVeto(p, d), UNCHANGED panelVars
        PROVE  PanelInv'
    BY <1>1, <1>7 DEF PanelVeto, Next, CouncilStep
  <1>8. ASSUME NEW p \in Payouts, NEW k \in Confirmations, NEW subject \in Council,
               PanelConfirm(p, k, subject), UNCHANGED panelVars
        PROVE  PanelInv'
    BY <1>1, <1>8 DEF PanelConfirm, Next, CouncilStep
  <1>9. CASE UNCHANGED allVars
    BY <1>1, <1>9 DEF allVars
  <1> QED
    BY <1>1, <1>3, <1>4, <1>5, <1>6, <1>7, <1>8, <1>9 DEF PanelNext, GatewayMoves

\* The levels of risk have an order.
LEMMA RisksAreOrdered == \A p \in Payouts : RiskOrder(RiskOf(p)) \in Nat
  <1>1. ASSUME NEW p \in Payouts PROVE \E i \in 1 .. 4 : RiskLevels[i] = RiskOf(p)
    <2>1. RiskOf(p) \in {"critical", "high", "medium", "low"}
      <3>1. Range(RiskLevels) = {"critical", "high", "medium", "low"}
        BY DEF Range, RiskLevels
      <3> QED
        BY <3>1, PanelAssumption DEF RiskOf, DefaultRisk
    <2> QED
      BY <2>1 DEF RiskLevels
  <1>2. DOMAIN RiskLevels = 1 .. 4
    BY DEF RiskLevels
  <1> QED
    BY <1>1, <1>2 DEF RiskOrder

\* Payouts that are listed have as many items.
ItemsFor(Q, list, now) == {PanelItem(p, list[p], now) : p \in Q}

LEMMA ItemsCounted ==
    ASSUME NEW list, NEW now, NEW Q \in SUBSET Payouts
    PROVE  /\ IsFiniteSet(ItemsFor(Q, list, now))
           /\ Cardinality(ItemsFor(Q, list, now)) = Cardinality(Q)
  <1> DEFINE items == ItemsFor(Q, list, now)
             itemOf == [p \in Q |-> PanelItem(p, list[p], now)]
  <1>1. IsFiniteSet(Q)
    BY PanelAssumption, FS_Subset
  <1>2. \A p \in Q : PanelItem(p, list[p], now).payout = p
    BY DEF PanelItem
  <1>3. itemOf \in Bijection(Q, items)
    BY <1>2 DEF Bijection, Injection, Surjection, IsInjective, ItemsFor
  <1>4. ExistsBijection(Q, items)
    BY <1>3 DEF ExistsBijection
  <1> HIDE DEF items
  <1>5. IsFiniteSet(items) /\ Cardinality(items) = Cardinality(Q)
    BY <1>1, <1>4, FS_Bijection
  <1> QED
    BY <1>5 DEF items

LEMMA ShownIsListed ==
    ASSUME PanelInv, NEW i \in Shown
    PROVE  /\ panelList.listed
           /\ \E p \in Payouts : /\ panelList.payouts[p].status # "absent"
                                 /\ i = PanelItem(p, panelList.payouts[p], panelNow)
  <1>1. panel.shown
    BY DEF PanelInv, ListShown, Shown
  <1>2. panel.items \in Injection(1 .. Cardinality(PanelItems(panelList.payouts, panelNow)),
                                  PanelItems(panelList.payouts, panelNow))
    BY <1>1 DEF PanelInv, ListShown, InOrder
  <1>3. i \in PanelItems(panelList.payouts, panelNow)
    BY <1>2 DEF Shown, Injection
  <1> QED
    BY <1>1, <1>3 DEF PanelItems, PanelInv, ListShown

LEMMA OffersHold == ASSUME Skew = 0, PanelInv PROVE OffersStand /\ NoOfferForMoney
  <1> SUFFICES ASSUME NEW i \in Shown
               PROVE  /\ Unmoved(i) =>
                            /\ i.veto_available /\ clock <= panelNow => Vetoable(i.payout)
                            /\ i.confirm_available =>
                                  /\ \A s \in SecretOf :
                                        Confirmable(i.payout, s, [subject |-> s, resource |-> i.payout])
                                  /\ \A k \in confirmations : k.payout # i.payout
                      /\ i.status \in {"executed", "canceled"} =>
                            payouts[i.payout].status = i.status
                      /\ i.veto_available =>
                            ~Executable(panelList.payouts[i.payout], panelNow)
    BY DEF OffersStand, NoOfferForMoney
  <1>1. PICK p \in Payouts : /\ panelList.payouts[p].status # "absent"
                             /\ i = PanelItem(p, panelList.payouts[p], panelNow)
    BY ShownIsListed
  <1> DEFINE item == panelList.payouts[p]
  <1>2. /\ item \in PayoutItem /\ panelNow \in Nat
        /\ item.status \in {"executed", "canceled"} => payouts[p].status = item.status
    BY ShownIsListed DEF PanelInv, ListStands
  <1>3. /\ i.payout = p /\ i.status = item.status
        /\ i.veto_available = VetoOffered(item, panelNow)
        /\ i.confirm_available = ConfirmOffered(item)
    BY <1>1 DEF PanelItem
  <1>4. clock \in 0 .. MaxTime /\ item.veto_until \in Nat
    BY <1>2 DEF PanelInv, VetoInv, PaymentInv, TypeInv, TypeOK, PayoutItem
  <1> HIDE DEF item
  <1>5. ASSUME Unmoved(i), i.veto_available, clock <= panelNow PROVE Vetoable(p)
    <2>1. item.status = "queued" /\ panelNow < item.veto_until
      BY <1>3, <1>5 DEF VetoOffered
    <2>2. payouts[p] = item
      BY <1>3, <1>5 DEF Unmoved, item
    <2>3. clock \in Nows
      BY <1>4, PayoutTimeAssumption DEF Nows
    <2> QED
      BY <1>2, <1>4, <1>5, <2>1, <2>2, <2>3 DEF Vetoable
  <1>6. ASSUME Unmoved(i), i.confirm_available
        PROVE  /\ \A s \in SecretOf : Confirmable(p, s, [subject |-> s, resource |-> p])
               /\ \A k \in confirmations : k.payout # p
    <2>1. payouts[p].status = "queued" /\ payouts[p].confirmation = NoId
      BY <1>3, <1>6 DEF Unmoved, item, ConfirmOffered
    <2>2. \A k \in confirmations : k.payout # p
      BY <2>1 DEF PanelInv, ConfirmationsShow
    <2> QED
      BY <2>1, <2>2, PanelAssumption DEF Confirmable
  <1>7. ASSUME i.veto_available PROVE ~Executable(item, panelNow)
    <2>1. panelNow < item.veto_until
      BY <1>3, <1>7 DEF VetoOffered
    <2>2. ~(panelNow >= item.veto_until)
      BY <1>2, <1>4, <2>1
    <2> QED
      BY <2>2 DEF Executable
  <1>8. i.veto_available => ~Executable(panelList.payouts[i.payout], panelNow)
    BY <1>3, <1>7 DEF item
  <1> HIDE DEF Unmoved
  <1> QED
    BY <1>2, <1>3, <1>5, <1>6, <1>8

LEMMA PanelCounts == ASSUME PanelInv PROVE PanelAddsUp
  <1> SUFFICES ASSUME panel.shown PROVE PanelAddsUp
    BY DEF PanelAddsUp
  <1> DEFINE list == panelList.payouts
             listed == {p \in Payouts : list[p].status # "absent"}
             items == PanelItems(list, panelNow)
             order == panel.items
  <1>1. /\ order \in Injection(1 .. Cardinality(items), items)
        /\ \A i, j \in DOMAIN order : i < j => ~Before(order[j], order[i])
        /\ panel.summary = PanelSummary(items)
    BY DEF PanelInv, ListShown, InOrder
  <1>2. IsFiniteSet(items) /\ Cardinality(items) = Cardinality(listed)
    <2>1. listed \in SUBSET Payouts /\ items = ItemsFor(listed, list, panelNow)
      BY DEF PanelItems, ItemsFor
    <2> HIDE DEF list, listed, items
    <2> QED
      BY <2>1, ItemsCounted
  <1>3. Cardinality(items) \in Nat
    BY <1>2, FS_CardinalityType
  <1>4. DOMAIN order = 1 .. Cardinality(listed)
    BY <1>1, <1>2 DEF Injection
  <1>5. {i.payout : i \in Shown} = listed
    <2>1. IsFiniteSet(1 .. Cardinality(items)) /\ Cardinality(1 .. Cardinality(items)) = Cardinality(items)
      BY <1>3, FS_Interval
    <2> HIDE DEF items
    <2>2. order \in Surjection(1 .. Cardinality(items), items)
      BY <1>1, <1>2, <2>1, FS_Injection
    <2>3. Shown = items
      BY <2>2 DEF Shown, Surjection
    <2>4. \A p \in Payouts : PanelItem(p, list[p], panelNow).payout = p
      BY DEF PanelItem
    <2>5. items = {PanelItem(p, list[p], panelNow) : p \in listed}
      BY DEF items, PanelItems
    <2>6. listed \subseteq Payouts
      OBVIOUS
    <2> HIDE DEF list, listed
    <2>7. {i.payout : i \in items} = listed
      BY <2>4, <2>5, <2>6
    <2> QED
      BY <2>3, <2>7
  <1>6. ASSUME NEW i \in DOMAIN order, NEW j \in DOMAIN order, i < j
        PROVE  RiskOrder(order[i].risk) <= RiskOrder(order[j].risk)
    <2>1. order[i] \in items /\ order[j] \in items
      BY <1>1 DEF Injection
    <2>2. \A x \in items : RiskOrder(x.risk) \in Nat
      BY RisksAreOrdered DEF PanelItems, PanelItem
    <2>3. ~(RiskOrder(order[j].risk) < RiskOrder(order[i].risk))
      BY <1>1, <1>6 DEF Before
    <2> QED
      BY <2>1, <2>2, <2>3
  <1>7. ASSUME NEW s \in PayoutStatus \ {"absent"}
        PROVE  panel.summary[s] = Cardinality({p \in Payouts : list[p].status = s})
    <2> DEFINE Q == {p \in Payouts : list[p].status = s}
    <2>1. {i \in items : i.status = s} = ItemsFor(Q, list, panelNow)
      BY DEF PanelItems, PanelItem, ItemsFor
    <2>2. Q \in SUBSET Payouts
      OBVIOUS
    <2> HIDE DEF Q, list
    <2>3. Cardinality(ItemsFor(Q, list, panelNow)) = Cardinality(Q)
      BY <2>2, ItemsCounted
    <2>4. panel.summary[s] = Cardinality({i \in items : i.status = s})
      BY <1>1 DEF PanelSummary
    <2> HIDE DEF items
    <2>5. panel.summary[s] = Cardinality(Q)
      BY <2>1, <2>3, <2>4
    <2> QED
      BY <2>5 DEF Q, list
  <1>8. DOMAIN panel.summary = PayoutStatus \ {"absent"}
    BY <1>1 DEF PanelSummary
  <1> HIDE DEF items
  <1> QED
    BY <1>4, <1>5, <1>6, <1>7, <1>8 DEF PanelAddsUp

\* Whatever the gateway does while a panel is built and read, what the panel offers
\* can be done unless the payout or the clock moved on, and its figures are those of
\* the listing: for any payouts, members, risks and times, judged by the clock.
THEOREM PanelStands ==
    ASSUME Skew = 0 PROVE PanelSpec => []PanelKeepsItsWord
  <1>1. PanelInv => PanelKeepsItsWord
    BY OffersHold, PanelCounts DEF PanelKeepsItsWord
  <1> QED
    BY <1>1, PanelInitially, PanelStep, PTL DEF PanelSpec
=============================================================================
