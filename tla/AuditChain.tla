----------------------------- MODULE AuditChain -----------------------------
(***************************************************************************)
(* The private blockchain auditor (services/blockchain-auditor/            *)
(* blockchain_auditor): a chain of hash-only records, one per event id,    *)
(* written singly by the services and in batches by the council.  A batch  *)
(* is kept as the set of its commands: the order of a batch only orders    *)
(* its receipts, and a command that is repeated in it changes nothing.     *)
(***************************************************************************)
EXTENDS Naturals, FiniteSets

CONSTANTS
    EventIds,       \* the ids the records are kept under
    CouncilHashes,  \* audit hashes of the batches the council sends
    MaxBatch,       \* max_batch_size of the AuditBatchWriter
    None

ASSUME ChainAssumption == MaxBatch \in Nat \ {0} /\ None \notin CouncilHashes

VARIABLES
    chain,          \* the audit hash recorded for each event id, or None
    acknowledged    \* history: the commands whose caller got a receipt

ChainInit ==
    /\ chain = [e \in EventIds |-> None]
    /\ acknowledged = {}

Commands(hashes) == [event : EventIds, hash : hashes]

\* Mutant: the records staged earlier in the batch are not looked at.
Acceptable_Unstaged(batch) ==
    \A c \in batch : chain[c.event] \in {None, c.hash}

\* _record_for_command raises no AuditRecordConflictError: neither the chain
\* nor an earlier command of the batch has another hash for the event.
Acceptable(batch) ==
    /\ \A c \in batch : chain[c.event] \in {None, c.hash}
    /\ \A c, d \in batch : c.event = d.event => c.hash = d.hash

\* The chain with the batch on it.
Recorded(batch) ==
    [e \in EventIds |->
        IF \E c \in batch : c.event = e
        THEN (CHOOSE c \in batch : c.event = e).hash
        ELSE chain[e]]

\* POST /audit/record, one step of the event loop.  A batch that is empty,
\* too large or in conflict is refused and changes nothing.
RecordBatch(batch) ==
    /\ batch # {} /\ Cardinality(batch) <= MaxBatch
    /\ Acceptable(batch)
    /\ chain' = Recorded(batch)
    /\ acknowledged' = acknowledged \cup batch
=============================================================================
