-------------------------------- MODULE Wallet --------------------------------
(***************************************************************************)
(* The ledger of MCV operations (services/wallet). Recording an operation  *)
(* is one step of the event loop from its first look at the repository to  *)
(* the announcement: the bus of the service publishes without waiting. An  *)
(* envelope that the bus does not accept is refused after the operation    *)
(* was stored. The repository holds one tenant, whose members share it.    *)
(***************************************************************************)
EXTENDS Integers, Sequences, FiniteSets, SequencesExt, FiniteSetsExt

CONSTANTS
    WalletRequests,    \* payloads: [operation_id, member_id, amount]
    WalletKeys,        \* idempotency keys
    PageLimit,         \* limit of list_operations
    MaxOperations      \* bound: operations recorded

\* WalletOperationCreateRequest: amount_mcv is never zero, a debit is negative.
ASSUME AmountsAssumption == \A r \in WalletRequests : r.amount \in Int \ {0}

VARIABLES
    operations,     \* _operations of the repository, in order
    walletAudit,    \* wallet.operation.recorded in the audit log: id and balance
    walletEvents,   \* operation ids that were announced
    walletAnswers   \* what was answered to each key: an operation, or a conflict

walletVars == <<operations, walletAudit, walletEvents, walletAnswers>>

WalletInit ==
    /\ operations = <<>>
    /\ walletAudit = <<>>
    /\ walletEvents = {}
    /\ walletAnswers = {}

\* The amounts that count for a member, all of them credits or all debits: an
\* entry for each operation, zero for those that do not count.
AmountsOf(member, sign) ==
    [i \in DOMAIN operations |->
        LET request == operations[i].request
        IN  IF request.member_id = member /\ sign * request.amount > 0
            THEN sign * request.amount ELSE 0]

\* _sum_mcv.
SumOf(amounts) ==
    LET sum[i \in 0 .. Len(amounts)] == IF i = 0 THEN 0 ELSE sum[i - 1] + amounts[i]
    IN  sum[Len(amounts)]

\* Fault: the balance is that of the page a listing shows.
BalanceForMember_Page(member) ==
    LET page == Max({1, Len(operations) - PageLimit + 1}) .. Len(operations)
        Paged(amounts) == [i \in DOMAIN amounts |-> IF i \in page THEN amounts[i] ELSE 0]
    IN  SumOf(Paged(AmountsOf(member, 1))) - SumOf(Paged(AmountsOf(member, -1)))

\* balance_for_member: credits less debits of all operations of the member.
BalanceForMember(member) == SumOf(AmountsOf(member, 1)) - SumOf(AmountsOf(member, -1))

WithKey(key) == {o \in ToSet(operations) : o.key = key}
OperationExists(id) == \E o \in ToSet(operations) : o.request.operation_id = id

\* get_existing_operation: the recorded operation, or 409 for another payload;
\* the payload's hash tells payloads apart, so the payload stands for it.
AnswerRecorded(key, request) ==
    /\ \E o \in WithKey(key) :
          walletAnswers' = walletAnswers \cup
              {IF o.request = request THEN [key |-> key, operation |-> o]
                                      ELSE [key |-> key, conflict |-> TRUE]}
    /\ UNCHANGED <<operations, walletAudit, walletEvents>>

RefuseOperation(key, request) ==
    /\ WithKey(key) = {}
    /\ OperationExists(request.operation_id)
    /\ walletAnswers' = walletAnswers \cup {[key |-> key, conflict |-> TRUE]}
    /\ UNCHANGED <<operations, walletAudit, walletEvents>>

\* record_wallet_operation with its audit record and its event.
RecordOperation(key, request, accepted) ==
    /\ WithKey(key) = {}
    /\ ~OperationExists(request.operation_id)
    /\ Len(operations) < MaxOperations
    /\ LET balance == BalanceForMember(request.member_id) + request.amount
           operation == [key |-> key, request |-> request, balance_after |-> balance]
       IN  /\ walletAudit' = Append(walletAudit, [id |-> request.operation_id, balance |-> balance])
           /\ operations' = Append(operations, operation)
           /\ walletEvents' = walletEvents \cup (IF accepted THEN {request.operation_id} ELSE {})
           /\ walletAnswers' = walletAnswers \cup
                  (IF accepted THEN {[key |-> key, operation |-> operation]} ELSE {})

WalletNext ==
    \E key \in WalletKeys, request \in WalletRequests :
        \/ AnswerRecorded(key, request)
        \/ RefuseOperation(key, request)
        \/ \E accepted \in BOOLEAN : RecordOperation(key, request, accepted)

WalletSpec == WalletInit /\ [][WalletNext]_walletVars

----------------------------------------------------------------------------
WalletTypeOK ==
    /\ operations \in Seq([key : WalletKeys, request : WalletRequests, balance_after : Int])
    /\ walletAudit \in Seq([id : {r.operation_id : r \in WalletRequests}, balance : Int])
    /\ walletEvents \subseteq {r.operation_id : r \in WalletRequests}

MembersOfWallet == {r.member_id : r \in WalletRequests}

\* The operations of a member among the first n.
OperationsOf(ops, member, n) == {i \in 1 .. n : ops[i].request.member_id = member}

\* What the statement of a member shows after the first n operations.
BalanceAfter(ops, member, n) ==
    IF OperationsOf(ops, member, n) = {} THEN 0
    ELSE ops[Max(OperationsOf(ops, member, n))].balance_after

\* Each balance is the one before it and the amount, and the last is the balance
\* that is shown.
BalancesRun ==
    /\ \A i \in DOMAIN operations :
          LET request == operations[i].request
          IN  operations[i].balance_after =
                  BalanceAfter(operations, request.member_id, i - 1) + request.amount
    /\ \A m \in MembersOfWallet :
          BalanceForMember(m) = BalanceAfter(operations, m, Len(operations))

\* Keys and ids are recorded once.
RecordedOnce ==
    \A i, j \in DOMAIN operations :
        \/ operations[i].key = operations[j].key
        \/ operations[i].request.operation_id = operations[j].request.operation_id
        => i = j

\* The statement of a member adds up, the audit log has the same figures, and an
\* answer once given stays in the statement however often its key comes again
\* (record_wallet_operation, balance_for_member).
StatementAddsUp ==
    /\ WalletTypeOK
    /\ BalancesRun
    /\ RecordedOnce
    /\ walletAudit = [i \in DOMAIN operations |->
           [id |-> operations[i].request.operation_id, balance |-> operations[i].balance_after]]
    /\ \A a \in walletAnswers : "operation" \in DOMAIN a => a.operation \in ToSet(operations)
=============================================================================
