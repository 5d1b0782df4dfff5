--------------------------- MODULE PayoutGateway ---------------------------
(***************************************************************************)
(* The HITL Payout Gateway of one tenant: the payout queue, the Council's  *)
(* veto, the 2FA confirmation, execution through three connectors, and the *)
(* reconciliation of payment statuses                                      *)
(* (services/hitl-payout-gateway/hitl_payout_gateway).                     *)
(*                                                                         *)
(* Handlers run on one event loop: what a handler does between two awaits  *)
(* of a connector is one action, and any other handler may run at the      *)
(* await.  execute_payout and sync_payment_status keep across their awaits *)
(* the copy of the payout they read first, and write it back at the end.   *)
(***************************************************************************)
EXTENDS Naturals, FiniteSets

CONSTANTS
    Payouts,        \* payout ids
    Subjects,       \* authenticated users
    Council,        \* the subjects that hold the council role
    Decisions,      \* veto decision ids
    Confirmations,  \* confirmation ids
    Executions,     \* execution ids, the idempotency keys of payments
    ExecutionsOf,   \* the execution ids callers use for each payout
    Executors,      \* concurrent execute requests
    Syncers,        \* concurrent sync-status requests
    VetoWindow,     \* length of the veto window, in ticks
    Skew,           \* how far a caller's "now" may be from the clock
    MaxTime,        \* bound on the clock
    StatusFlow,     \* the provider's payment lifecycle
    FirstStatuses,  \* statuses the provider may accept a payment with
    BusMayFail,     \* whether publishing an event may fail
    NoId            \* the value None

PayoutStatus == {"absent", "queued", "ready_to_execute", "canceled", "executed"}

PayoutPaymentStatus ==
    {"accepted", "processing", "succeeded", "failed", "returned", "refunded"}

ASSUME PayoutIdsAssumption ==
    /\ NoId \notin Payouts \cup Decisions \cup Confirmations \cup Executions
    /\ NoId \notin PayoutPaymentStatus
    /\ Council \subseteq Subjects
    /\ ExecutionsOf \in [Payouts -> SUBSET Executions]
    /\ Executors \cap Syncers = {}

ASSUME PayoutTimeAssumption ==
    /\ VetoWindow \in Nat \ {0}
    /\ Skew \in Nat
    /\ MaxTime \in Nat

ASSUME PayoutStatusAssumption ==
    /\ StatusFlow \in [PayoutPaymentStatus -> SUBSET PayoutPaymentStatus]
    /\ FirstStatuses \subseteq PayoutPaymentStatus
    /\ BusMayFail \in BOOLEAN

Callers == Executors \cup Syncers

AuditTypes == {"payout.queued", "payout.vetoed", "payout.confirmed",
               "payout.executed", "payout.failed", "payout.payment_status_synced"}

AuditRecord ==
    [type : AuditTypes, payout : Payouts,
     ref : Decisions \cup Confirmations \cup Executions \cup {NoId}]

PayoutItem ==
    [status : PayoutStatus, veto_until : Nat,
     confirmation : Confirmations \cup {NoId}, veto : Decisions \cup {NoId},
     execution : Executions \cup {NoId}, chain_ref : Executions \cup {NoId},
     notification : Executions \cup {NoId},
     payment_status : PayoutPaymentStatus \cup {NoId},
     audit : AuditRecord \cup {NoId}]

Absent == [status |-> "absent", veto_until |-> 0, confirmation |-> NoId,
           veto |-> NoId, execution |-> NoId, chain_ref |-> NoId,
           notification |-> NoId, payment_status |-> NoId, audit |-> NoId]

(***************************************************************************)
(* A request in flight: the await it is suspended at, the copy of the      *)
(* payout it read, its execution id, and the payment status it got back.   *)
(***************************************************************************)
Steps == {"idle", "paying", "recording", "notifying", "asking", "answered"}

Call == [step : Steps, payout : Payouts \cup {NoId}, copy : PayoutItem,
         execution : Executions \cup {NoId},
         payment_status : PayoutPaymentStatus \cup {NoId}]

Idle == [step |-> "idle", payout |-> NoId, copy |-> Absent,
         execution |-> NoId, payment_status |-> NoId]

VARIABLES
    clock,          \* the time
    payouts,        \* the payout repository
    decisions,      \* the veto decision repository
    confirmations,  \* the confirmation repository
    audit,          \* the audit log
    events,         \* what has been published
    calls,          \* the requests in flight
    wire,           \* payment requests sent and not yet received
    payments,       \* payments held by the payment gateway
    chain,          \* hashes held by the blockchain auditor
    notices         \* notifications accepted

vars == <<clock, payouts, decisions, confirmations, audit, events, calls,
          wire, payments, chain, notices>>

PaymentRequest == [payout : Payouts, execution : Executions]
Payment == [payout : Payouts, execution : Executions,
            status : PayoutPaymentStatus]
Decision == [id : Decisions, payout : Payouts]
Confirmation == [id : Confirmations, payout : Payouts, actor : Council]

TypeOK ==
    /\ clock \in 0..MaxTime
    /\ payouts \in [Payouts -> PayoutItem]
    /\ decisions \subseteq Decision
    /\ confirmations \subseteq Confirmation
    /\ audit \subseteq AuditRecord
    /\ events \subseteq AuditRecord
    /\ calls \in [Callers -> Call]
    /\ wire \subseteq PaymentRequest
    /\ payments \subseteq Payment
    /\ chain \subseteq PaymentRequest
    /\ notices \subseteq PaymentRequest

Init ==
    /\ clock = 0
    /\ payouts = [p \in Payouts |-> Absent]
    /\ decisions = {} /\ confirmations = {}
    /\ audit = {} /\ events = {}
    /\ calls = [c \in Callers |-> Idle]
    /\ wire = {} /\ payments = {} /\ chain = {} /\ notices = {}

-----------------------------------------------------------------------------
(***************************************************************************)
(* Helpers                                                                 *)
(***************************************************************************)

\* The values of "now" a handler may use: the clock, or what the caller put
\* in the request body.
Nows == {t \in 0..(MaxTime + Skew) : t <= clock + Skew /\ clock <= t + Skew}

Tick ==
    /\ clock < MaxTime
    /\ clock' = clock + 1
    /\ UNCHANGED <<payouts, decisions, confirmations, audit, events, calls,
                   wire, payments, chain, notices>>

Entry(type, p, ref) == [type |-> type, payout |-> p, ref |-> ref]

\* AuditLogger.record: the record is in the sink before the handler goes on.
Record(entry) == audit' = audit \cup {entry}

\* publisher.publish, the last thing a handler does; the state has changed
\* already when it fails.
Publish(entry) ==
    \/ events' = events \cup {entry}
    \/ BusMayFail /\ events' = events

\* Fault: the window is not checked.
Executable_NoWindow(item, at) ==
    /\ item.status \in {"queued", "ready_to_execute"}
    /\ item.confirmation # NoId

\* Fault: an executed payout may be executed again.
Executable_Again(item, at) ==
    /\ item.status \in {"queued", "ready_to_execute", "executed"}
    /\ at >= item.veto_until
    /\ item.confirmation # NoId

Executable(item, at) ==
    /\ item.status \in {"queued", "ready_to_execute"}
    /\ at >= item.veto_until
    /\ item.confirmation # NoId

\* Fault: the audit hash of the previous status is kept.
WithExecution_KeepsAudit(item, e, status, entry) ==
    [item EXCEPT !.status = "executed", !.execution = e, !.chain_ref = e,
                 !.notification = e, !.payment_status = status]

WithExecution(item, e, status, entry) ==
    [item EXCEPT !.status = "executed", !.execution = e, !.chain_ref = e,
                 !.notification = e, !.payment_status = status, !.audit = entry]

WithPaymentStatus(item, status, entry) ==
    [item EXCEPT !.payment_status = status, !.audit = entry]

-----------------------------------------------------------------------------
(***************************************************************************)
(* Queue, veto, confirmation                                               *)
(***************************************************************************)

\* A second call with the same payout_id repeats the audit record and is
\* refused by the repository.
QueuePayout(p) ==
    /\ payouts[p].status = "absent"
    /\ LET entry == Entry("payout.queued", p, NoId)
       IN  /\ \E at \in Nows :
                payouts' = [payouts EXCEPT ![p] =
                    [Absent EXCEPT !.status = "queued",
                                   !.veto_until = at + VetoWindow,
                                   !.audit = entry]]
           /\ Record(entry)
           /\ Publish(entry)
    /\ UNCHANGED <<clock, decisions, confirmations, calls, wire, payments,
                   chain, notices>>

\* Fault: a veto is accepted after the window.
Vetoable_NoWindow(p) == payouts[p].status = "queued"

Vetoable(p) ==
    /\ payouts[p].status = "queued"
    /\ \E at \in Nows : at < payouts[p].veto_until

VetoPayout(p, d) ==
    /\ Vetoable(p)
    /\ \A old \in decisions : old.id # d
    /\ LET entry == Entry("payout.vetoed", p, d)
       IN  /\ Record(entry)
           /\ decisions' = decisions \cup {[id |-> d, payout |-> p]}
           /\ payouts' = [payouts EXCEPT ![p].status = "canceled",
                                         ![p].veto = d,
                                         ![p].audit = entry]
           /\ Publish(entry)
    /\ UNCHANGED <<clock, confirmations, calls, wire, payments, chain, notices>>

\* The decision_id is taken: the audit record is written, then add_decision
\* raises and the payout stays as it was.
VetoDuplicateDecision(p, d) ==
    /\ Vetoable(p)
    /\ \E old \in decisions : old.id = d
    /\ Record(Entry("payout.vetoed", p, d))
    /\ UNCHANGED <<clock, payouts, decisions, confirmations, events, calls,
                   wire, payments, chain, notices>>

\* The TOTP confirmation tfa was issued to a subject for one payout; it has
\* to match the caller and the payout of the request.
Confirmable(p, subject, tfa) ==
    /\ subject \in Council
    /\ payouts[p].status = "queued"
    /\ payouts[p].confirmation = NoId
    /\ tfa.subject = subject
    /\ tfa.resource = p

ConfirmPayout(p, k) ==
    \E subject \in Subjects, tfa \in [subject : Subjects, resource : Payouts] :
        /\ Confirmable(p, subject, tfa)
        /\ \A old \in confirmations : old.id # k /\ old.payout # p
        /\ LET entry == Entry("payout.confirmed", p, k)
           IN  /\ Record(entry)
               /\ confirmations' = confirmations \cup
                      {[id |-> k, payout |-> p, actor |-> subject]}
               /\ payouts' = [payouts EXCEPT ![p].confirmation = k,
                                             ![p].audit = entry]
               /\ Publish(entry)
        /\ UNCHANGED <<clock, decisions, calls, wire, payments, chain, notices>>

\* The confirmation_id is taken, or the payout index has the payout: the
\* audit record stays, nothing else changes.
ConfirmDuplicate(p, k) ==
    \E subject \in Subjects, tfa \in [subject : Subjects, resource : Payouts] :
        /\ Confirmable(p, subject, tfa)
        /\ \E old \in confirmations : old.id = k \/ old.payout = p
        /\ Record(Entry("payout.confirmed", p, k))
        /\ UNCHANGED <<clock, payouts, decisions, confirmations, events, calls,
                       wire, payments, chain, notices>>

\* Fault: the status is not checked.
MarkReady_AnyStatus(p) ==
    /\ payouts[p].confirmation # NoId
    /\ \E at \in Nows : at >= payouts[p].veto_until
    /\ payouts' = [payouts EXCEPT ![p].status = "ready_to_execute"]
    /\ UNCHANGED <<clock, decisions, confirmations, audit, events, calls, wire,
                   payments, chain, notices>>

MarkReadyForExecution(p) ==
    /\ payouts[p].status = "queued"
    /\ \E at \in Nows : Executable(payouts[p], at)
    /\ payouts' = [payouts EXCEPT ![p].status = "ready_to_execute"]
    /\ UNCHANGED <<clock, decisions, confirmations, audit, events, calls, wire,
                   payments, chain, notices>>

-----------------------------------------------------------------------------
(***************************************************************************)
(* Execution: one action for each stretch of execute_payout between awaits *)
(***************************************************************************)

\* Fault: the execution id of the request is ignored and a fresh one is made.
BeginExecute_FreshId(c, p, e) ==
    /\ calls[c] = Idle
    /\ \E at \in Nows : Executable(payouts[p], at)
    /\ calls' = [calls EXCEPT ![c] =
           [Idle EXCEPT !.step = "paying", !.payout = p,
                        !.copy = payouts[p], !.execution = e]]
    /\ wire' = wire \cup {[payout |-> p, execution |-> e]}
    /\ UNCHANGED <<clock, payouts, decisions, confirmations, audit, events,
                   payments, chain, notices>>

BeginExecute(c, p, e) ==
    /\ calls[c] = Idle
    /\ \E at \in Nows : Executable(payouts[p], at)
    /\ e \in ExecutionsOf[p]
    /\ calls' = [calls EXCEPT ![c] =
           [Idle EXCEPT !.step = "paying", !.payout = p,
                        !.copy = payouts[p], !.execution = e]]
    /\ wire' = wire \cup {[payout |-> p, execution |-> e]}
    /\ UNCHANGED <<clock, payouts, decisions, confirmations, audit, events,
                   payments, chain, notices>>

\* The gateway keys payments by execution id: a second request with the same
\* key finds the first one's payment.
GatewayAccepts(request) ==
    /\ wire' = wire \ {request}
    /\ \/ /\ \E pay \in payments : pay.execution = request.execution
          /\ payments' = payments
       \/ /\ \A pay \in payments : pay.execution # request.execution
          /\ \E status \in FirstStatuses :
                payments' = payments \cup
                    {[payout |-> request.payout, execution |-> request.execution,
                      status |-> status]}
    /\ UNCHANGED <<clock, payouts, decisions, confirmations, audit, events,
                   calls, chain, notices>>

\* The request is lost, or the gateway refuses it.
GatewayDrops(request) ==
    /\ wire' = wire \ {request}
    /\ UNCHANGED <<clock, payouts, decisions, confirmations, audit, events,
                   calls, payments, chain, notices>>

GatewayProgress(pay) ==
    /\ \E status \in StatusFlow[pay.status] :
          payments' = (payments \ {pay}) \cup {[pay EXCEPT !.status = status]}
    /\ UNCHANGED <<clock, payouts, decisions, confirmations, audit, events,
                   calls, wire, chain, notices>>

PaymentAnswers(c) ==
    /\ calls[c].step = "paying"
    /\ \E pay \in payments :
          /\ pay.execution = calls[c].execution
          /\ calls' = [calls EXCEPT ![c].step = "recording",
                                    ![c].payment_status = pay.status]
    /\ Record(Entry("payout.executed", calls[c].payout, calls[c].execution))
    /\ UNCHANGED <<clock, payouts, decisions, confirmations, events, wire,
                   payments, chain, notices>>

Attempt(c) == [payout |-> calls[c].payout, execution |-> calls[c].execution]

ChainAnswers(c) ==
    /\ calls[c].step = "recording"
    /\ chain' = chain \cup {Attempt(c)}
    /\ calls' = [calls EXCEPT ![c].step = "notifying"]
    /\ UNCHANGED <<clock, payouts, decisions, confirmations, audit, events,
                   wire, payments, notices>>

\* The rest of execute_payout runs without an await: the repository gets the
\* copy read by BeginExecute, with the execution fields set.
NotificationAnswers(c) ==
    /\ calls[c].step = "notifying"
    /\ notices' = notices \cup {Attempt(c)}
    /\ LET p == calls[c].payout
           e == calls[c].execution
           entry == Entry("payout.executed", p, e)
       IN  /\ payouts' = [payouts EXCEPT ![p] =
                  WithExecution(calls[c].copy, e, calls[c].payment_status, entry)]
           /\ Publish(entry)
    /\ calls' = [calls EXCEPT ![c] = Idle]
    /\ UNCHANGED <<clock, decisions, confirmations, audit, wire, payments, chain>>

\* Fault: the request waits on after a failure.
ConnectorFails_Waits(c) ==
    /\ calls[c].step \in {"paying", "recording", "notifying", "asking"}
    /\ calls' = [calls EXCEPT ![c].step = "answered"]
    /\ Record(Entry("payout.failed", calls[c].payout, NoId))
    /\ UNCHANGED <<clock, payouts, decisions, confirmations, events,
                   wire, payments, chain, notices>>

\* A connector raises, or its answer does not arrive in time: what it was
\* asked to do may have been done.
ConnectorFails(c) ==
    /\ calls[c].step \in {"paying", "recording", "notifying", "asking"}
    /\ IF calls[c].step = "recording"
         THEN chain' \in {chain, chain \cup {Attempt(c)}}
         ELSE chain' = chain
    /\ IF calls[c].step = "notifying"
         THEN notices' \in {notices, notices \cup {Attempt(c)}}
         ELSE notices' = notices
    /\ LET entry == Entry("payout.failed", calls[c].payout, NoId)
       IN  Record(entry) /\ Publish(entry)
    /\ calls' = [calls EXCEPT ![c] = Idle]
    /\ UNCHANGED <<clock, payouts, decisions, confirmations, wire, payments>>

-----------------------------------------------------------------------------
(***************************************************************************)
(* Reconciliation                                                          *)
(***************************************************************************)

BeginSync(c, p) ==
    /\ calls[c] = Idle
    /\ payouts[p].execution # NoId
    /\ calls' = [calls EXCEPT ![c] =
           [Idle EXCEPT !.step = "asking", !.payout = p, !.copy = payouts[p],
                        !.execution = payouts[p].execution]]
    /\ UNCHANGED <<clock, payouts, decisions, confirmations, audit, events,
                   wire, payments, chain, notices>>

\* The gateway reads its own record; the answer travels back.
GatewayReports(c) ==
    /\ calls[c].step = "asking"
    /\ \E pay \in payments :
          /\ pay.execution = calls[c].execution
          /\ calls' = [calls EXCEPT ![c].step = "answered",
                                    ![c].payment_status = pay.status]
    /\ UNCHANGED <<clock, payouts, decisions, confirmations, audit, events,
                   wire, payments, chain, notices>>

ApplyStatus(c) ==
    /\ calls[c].step = "answered"
    /\ LET p == calls[c].payout
           entry == Entry("payout.payment_status_synced", p, calls[c].execution)
       IN  /\ Record(entry)
           /\ payouts' = [payouts EXCEPT ![p] =
                  WithPaymentStatus(calls[c].copy, calls[c].payment_status, entry)]
           /\ Publish(entry)
    /\ calls' = [calls EXCEPT ![c] = Idle]
    /\ UNCHANGED <<clock, decisions, confirmations, wire, payments, chain, notices>>

-----------------------------------------------------------------------------
CouncilStep ==
    \E p \in Payouts :
        \/ QueuePayout(p)
        \/ \E d \in Decisions : VetoPayout(p, d)
        \/ \E d \in Decisions : VetoDuplicateDecision(p, d)
        \/ \E k \in Confirmations : ConfirmPayout(p, k)
        \/ \E k \in Confirmations : ConfirmDuplicate(p, k)
        \/ MarkReadyForExecution(p)

ExecutorStep ==
    \E c \in Executors :
        \/ \E p \in Payouts, e \in Executions : BeginExecute(c, p, e)
        \/ PaymentAnswers(c)
        \/ ChainAnswers(c)
        \/ NotificationAnswers(c)
        \/ ConnectorFails(c)

SyncerStep ==
    \E c \in Syncers :
        \/ \E p \in Payouts : BeginSync(c, p)
        \/ GatewayReports(c)
        \/ ApplyStatus(c)
        \/ ConnectorFails(c)

GatewayStep ==
    \/ \E request \in wire : GatewayAccepts(request) \/ GatewayDrops(request)
    \/ \E pay \in payments : GatewayProgress(pay)

Next == Tick \/ CouncilStep \/ ExecutorStep \/ SyncerStep \/ GatewayStep

Spec == Init /\ [][Next]_vars
-----------------------------------------------------------------------------
(***************************************************************************)
(* Properties                                                              *)
(***************************************************************************)

Requests == wire \cup {[payout |-> pay.payout, execution |-> pay.execution] :
                       pay \in payments}

\* Money is asked for only on behalf of a payout that the Council confirmed
\* and whose veto window is over, up to the error callers may make about the
\* time (_require_executable, across the awaits of execute_payout).
PaidOnlyAfterWindowAndConfirmation ==
    \A r \in Requests :
        /\ clock + Skew >= payouts[r.payout].veto_until
        /\ payouts[r.payout].confirmation # NoId
        /\ \E k \in confirmations : k.id = payouts[r.payout].confirmation
                                    /\ k.payout = r.payout

\* A stored veto decision holds for good: its payout is canceled, names the
\* decision, and no request or payment was made for it (veto_payout against an
\* execute_payout suspended at a connector).
VetoIsFinal ==
    \A d \in decisions :
        /\ payouts[d.payout].status = "canceled"
        /\ payouts[d.payout].veto = d.id
        /\ \A r \in Requests : r.payout # d.payout

\* What an executed payout cites exists: a payment under its execution id, the
\* hash at the blockchain auditor, the member's notification, and the
\* confirmation given by a council member for this payout (with_execution on
\* the copy read before three awaits).
ExecutedHasEvidence ==
    \A p \in Payouts : payouts[p].status = "executed" =>
        LET item == payouts[p] IN
        /\ \E pay \in payments : pay.execution = item.execution
        /\ [payout |-> p, execution |-> item.chain_ref] \in chain
        /\ [payout |-> p, execution |-> item.notification] \in notices
        /\ \E k \in confirmations : k.id = item.confirmation /\ k.payout = p

\* The audit hash a payout carries is in the audit log and is the hash of the
\* decision that brought the payout to its status (audit_hash in with_status,
\* with_confirmation, with_execution and with_payment_status).
AuditMatchesStatus ==
    \A p \in Payouts :
        LET item == payouts[p] IN
        item.status # "absent" =>
            /\ item.audit \in audit
            /\ item.audit.payout = p
            /\ item.status = "canceled" =>
                   item.audit = Entry("payout.vetoed", p, item.veto)
            /\ item.status = "executed" =>
                   item.audit \in {Entry("payout.executed", p, item.execution),
                       Entry("payout.payment_status_synced", p, item.execution)}
            /\ item.status \in {"queued", "ready_to_execute"} =>
                   item.audit =
                       IF item.confirmation = NoId
                       THEN Entry("payout.queued", p, NoId)
                       ELSE Entry("payout.confirmed", p, item.confirmation)

\* Consumers are told of a veto or an execution if and only if it stands
\* (publish after update_payout in veto_payout and execute_payout).
EventsTellTheTruth ==
    \A p \in Payouts :
        /\ payouts[p].status = "canceled" <=>
               \E ev \in events : ev.type = "payout.vetoed" /\ ev.payout = p
        /\ payouts[p].status = "executed" <=>
               \E ev \in events : ev.type = "payout.executed" /\ ev.payout = p

\* Every payment the gateway made is accounted for: its payout is executed, an
\* execute request is still in flight, or payout.failed was recorded for the
\* payout (the three except branches of execute_payout).
PaymentIsTraceable ==
    \A pay \in payments :
        \/ payouts[pay.payout].status = "executed"
        \/ \E c \in Executors : calls[c].payout = pay.payout
        \/ Entry("payout.failed", pay.payout, NoId) \in audit

\* A payout is paid at most once, as long as every caller uses one execution
\* id for it (the idempotency key of the payment connector).
AtMostOnePayment ==
    \A a, b \in payments : a.payout = b.payout => a = b

\* What the gateway keeps about a payout agrees: its evidence, its audit hash
\* and the events consumers got are those of the status it shows, however
\* requests with old copies, refusals and failures interleave (the writes of
\* queue_payout, veto_payout, confirm_payout and execute_payout).
RecordsAgree == TypeOK /\ ExecutedHasEvidence /\ AuditMatchesStatus /\ EventsTellTheTruth

\* A payout is paid once, and its payment never without a trace, whatever
\* connectors fail after it was made (execute_payout and its retries).
PaymentsAreAccounted == AtMostOnePayment /\ PaymentIsTraceable

\* Executed and canceled are final, a payout that is ready goes on to be
\* executed, and a confirmation is never lost, whatever copy of the payout a
\* suspended request writes back (update_payout replaces the whole payout).
NoStepBack ==
    [][\A p \in Payouts :
          /\ payouts[p].status \in {"executed", "canceled"} =>
                 payouts'[p].status = payouts[p].status
          /\ payouts[p].status = "ready_to_execute" =>
                 payouts'[p].status \in {"ready_to_execute", "executed"}
          /\ payouts[p].confirmation # NoId =>
                 payouts'[p].confirmation = payouts[p].confirmation]_vars

\* How far a payment is on its way through the provider's statuses.
Rank == [s \in PayoutPaymentStatus |->
            CASE s = "accepted"                 -> 0
              [] s = "processing"               -> 1
              [] s \in {"succeeded", "failed"}  -> 2
              [] OTHER                          -> 3]

\* The payment status a payout shows was never reported by the provider
\* earlier than it held there: it is at most as far as the provider's own.
StoredStatusIsPast ==
    \A p \in Payouts : payouts[p].status = "executed" =>
        \E pay \in payments :
            /\ pay.execution = payouts[p].execution
            /\ Rank[payouts[p].payment_status] <= Rank[pay.status]

\* With one execute request and one reconciliation at a time, the payment
\* status of a payout only moves forward.
StatusNeverRegresses ==
    [][\A p \in Payouts : payouts[p].payment_status # NoId =>
          Rank[payouts[p].payment_status] <= Rank[payouts'[p].payment_status]]_vars

\* The payment status a payout shows held at the provider once, and moves
\* forward only, although an execution and a reconciliation write it from
\* answers that may arrive in any order (with_payment_status).
StatusIsHonest == []StoredStatusIsPast /\ StatusNeverRegresses

-----------------------------------------------------------------------------
(***************************************************************************)
(* Refinement of PayoutLifecycle                                           *)
(***************************************************************************)

PhaseOf(item) ==
    CASE item.status = "absent" -> "none"
      [] item.status \in {"canceled", "executed"} -> item.status
      [] OTHER -> IF item.confirmation = NoId THEN "queued" ELSE "confirmed"

phaseBar == [p \in Payouts |-> PhaseOf(payouts[p])]

openBar == {p \in Payouts : /\ payouts[p].status # "absent"
                            /\ clock < payouts[p].veto_until}

paidBar == {pay.payout : pay \in payments}

Lifecycle == INSTANCE PayoutLifecycle WITH
    phase <- phaseBar, open <- openBar, paid <- paidBar

\* The gateway keeps the promises of PayoutLifecycle.
ImplementsLifecycle == Lifecycle!Spec

\* No write undoes an earlier decision: each step of the gateway is one of the
\* lifecycle or none, and final statuses and confirmations stay, although
\* suspended requests write whole payouts back (update_payout).
NothingIsUndone == NoStepBack /\ ImplementsLifecycle

-----------------------------------------------------------------------------
(***************************************************************************)
(* Liveness.  A failed attempt is published for reprocessing and left      *)
(* retryable, so callers come back (SF on BeginExecute), and a connector   *)
(* that is asked again and again answers at last (SF on its answers).      *)
(***************************************************************************)

Fairness ==
    /\ WF_vars(Tick)
    /\ \A p \in Payouts, c \in Executors :
           SF_vars(\E e \in Executions : BeginExecute(c, p, e))
    /\ \A r \in PaymentRequest : SF_vars(r \in wire /\ GatewayAccepts(r))
    /\ \A c \in Executors : /\ SF_vars(PaymentAnswers(c))
                            /\ SF_vars(ChainAnswers(c))
                            /\ SF_vars(NotificationAnswers(c))
                            /\ WF_vars(ConnectorFails(c))

FairSpec == Spec /\ Fairness

\* A confirmed payout is executed or vetoed in the end, however often the
\* connectors fail on the way (no failure makes it impossible to retry).  The
\* windows that end after the model's last tick are left out.
ConfirmedIsSettled ==
    \A p \in Payouts :
        payouts[p].confirmation # NoId /\ payouts[p].veto_until <= MaxTime ~>
            payouts[p].status \in {"executed", "canceled"}
=============================================================================
