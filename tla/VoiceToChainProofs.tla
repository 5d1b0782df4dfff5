------------------------- MODULE VoiceToChainProofs -------------------------
(***************************************************************************)
(* Theorems about VoiceToChain and the chain it writes to, for any audios, *)
(* events, callers, councils' batches and times to live.                   *)
(***************************************************************************)
EXTENDS VoiceToChain, FiniteSetTheorems, TLAPS

Hashes == CouncilHashes \cup VoiceHash

-----------------------------------------------------------------------------
(* Type correctness.                                                       *)

LEMMA HashesAreNotNone == None \notin Hashes
BY ChainAssumption, VoiceAssumption DEF Hashes

\* The step of a request tells which record it is.
LEMMA RequestKinds ==
    ASSUME TypeOK, NEW c \in Callers
    PROVE  /\ requests[c].step \in {"storing", "transcribing"} => requests[c] \in Request
           /\ requests[c].step \in {"recording", "recorded"} => requests[c] \in Recording
BY DEF TypeOK, Idle, Request, Recording

\* So does that of a clean-up.
LEMMA CleanupKinds ==
    ASSUME TypeOK, NEW k \in Cleaners
    PROVE  cleanups[k].step = "deleting" => cleanups[k] \in Cleanup
BY DEF TypeOK, Idle, Cleanup

\* A clean-up that closes one of its cases is still a clean-up.
LEMMA ClosedCleanup ==
    ASSUME NEW r \in Cleanup, NEW d \in Expired \cup {None}, NEW more \in SUBSET Expired
    PROVE  [r EXCEPT !.dropped = d, !.receipts = more] \in Cleanup
BY DEF Cleanup

\* What the chain is after an acceptable batch: it has the hashes of the
\* batch, keeps what it had, and gets nothing else.
LEMMA RecordedChain ==
    ASSUME TypeOK, NEW batch \in SUBSET Commands(Hashes), Acceptable(batch)
    PROVE  /\ Recorded(batch) \in [EventIds -> Hashes \cup {None}]
           /\ \A c \in batch : Recorded(batch)[c.event] = c.hash
           /\ \A e \in EventIds : chain[e] # None => Recorded(batch)[e] = chain[e]
           /\ \A e \in EventIds : Recorded(batch)[e] = chain[e]
                \/ \E c \in batch : c.event = e /\ c.hash = Recorded(batch)[e]
<1> DEFINE About(e) == {c \in batch : c.event = e}
<1>1. \A e \in EventIds : About(e) # {} =>
          /\ (CHOOSE c \in batch : c.event = e) \in batch
          /\ (CHOOSE c \in batch : c.event = e).event = e
  OBVIOUS
<1>2. \A c \in batch : c.event \in EventIds /\ c.hash \in Hashes
  BY DEF Commands
<1>3. \A e \in EventIds : About(e) = {} => Recorded(batch)[e] = chain[e]
  BY DEF Recorded
<1>4. \A e \in EventIds, c \in batch : c.event = e => Recorded(batch)[e] = c.hash
  BY <1>1 DEF Recorded, Acceptable
<1>5. Recorded(batch) \in [EventIds -> Hashes \cup {None}]
  BY <1>1, <1>2 DEF Recorded, TypeOK, Hashes
<1>6. \A e \in EventIds : chain[e] # None => Recorded(batch)[e] = chain[e]
  BY <1>2, <1>3, <1>4 DEF Acceptable
<1> QED
  BY <1>2, <1>3, <1>4, <1>5, <1>6

\* What is sent to the auditor is a command with a voice hash.
LEMMA SentType ==
    ASSUME TypeOK, NEW c \in Callers, requests[c].step \in {"recording", "recorded"}
    PROVE  /\ Sent(c) \in Commands(Hashes)
           /\ Sent(c).event = requests[c].event
           /\ Sent(c).hash = requests[c].hash
           /\ requests[c].hash \in VoiceHash
           /\ requests[c].event \in EventIds
BY RequestKinds DEF Sent, Commands, Recording, Hashes

\* A request moves, a clean-up moves.
LEMMA RequestMoves ==
    ASSUME TypeOK, NEW c \in Callers, NEW r \in {Idle} \cup Request \cup Recording,
           requests' = [requests EXCEPT ![c] = r]
    PROVE  requests' \in [Callers -> {Idle} \cup Request \cup Recording]
BY DEF TypeOK

LEMMA CleanupMoves ==
    ASSUME TypeOK, NEW k \in Cleaners, NEW r \in {Idle} \cup Cleanup,
           cleanups' = [cleanups EXCEPT ![k] = r]
    PROVE  cleanups' \in [Cleaners -> {Idle} \cup Cleanup]
BY DEF TypeOK

\* The initial state is well typed.
LEMMA InitType == Init => TypeOK
<1> SUFFICES ASSUME Init PROVE TypeOK
  OBVIOUS
<1>1. /\ chain \in [EventIds -> CouncilHashes \cup VoiceHash \cup {None}]
      /\ acknowledged \subseteq Commands(CouncilHashes \cup VoiceHash)
  BY DEF Init, ChainInit
<1>2. now \in Time /\ stored \in [Audios -> 0 .. MaxStored]
  BY VoiceAssumption DEF Init, Time
<1>3. /\ records \in [Audios -> Record \cup {None}]
      /\ payloads \in [Audios -> Contents \cup {None}]
      /\ requests \in [Callers -> {Idle} \cup Request \cup Recording]
      /\ cleanups \in [Cleaners -> {Idle} \cup Cleanup]
      /\ audit \in Seq(Entry)
  BY DEF Init
<1> QED
  BY <1>1, <1>2, <1>3 DEF TypeOK

\* Every step keeps the types.
LEMMA StepType == TypeOK /\ [Next]_vars => TypeOK'
<1> SUFFICES ASSUME TypeOK, [Next]_vars PROVE TypeOK'
  OBVIOUS
<1>1. ASSUME NEW c \in Callers, NEW a \in Audios, NEW e \in EventIds,
             NEW content \in Contents, Submit(c, a, e, content)
      PROVE  TypeOK'
  <2>1. now + TTL \in Time
    BY <1>1, VoiceAssumption DEF Submit, TypeOK, Time
  <2>2. records' \in [Audios -> Record \cup {None}]
    BY <1>1, <2>1 DEF Submit, TypeOK, Record
  <2>3. stored' \in [Audios -> 0 .. MaxStored]
    BY <1>1, VoiceAssumption DEF Submit, TypeOK
  <2>4. [step |-> "storing", audio |-> a, event |-> e, content |-> content,
         expires |-> now + TTL] \in Request
    BY <2>1 DEF Request
  <2>5. requests' \in [Callers -> {Idle} \cup Request \cup Recording]
    BY <1>1, <2>4, RequestMoves DEF Submit
  <2> QED
    BY <1>1, <2>2, <2>3, <2>5 DEF Submit, TypeOK
<1>2. ASSUME NEW c \in Callers, StorePayload(c) PROVE TypeOK'
  <2>1. requests[c] \in Request
    BY <1>2, RequestKinds DEF StorePayload
  <2>2. [requests[c] EXCEPT !.step = "transcribing"] \in Request
    BY <2>1 DEF Request
  <2>3. requests' \in [Callers -> {Idle} \cup Request \cup Recording]
    BY <1>2, <2>2, RequestMoves DEF StorePayload
  <2>4. payloads' \in [Audios -> Contents \cup {None}]
    BY <1>2, <2>1 DEF StorePayload, TypeOK, Request
  <2> QED
    BY <1>2, <2>3, <2>4 DEF StorePayload, TypeOK
<1>3. ASSUME NEW c \in Callers, TranscriptionFails(c) PROVE TypeOK'
  BY <1>3 DEF TranscriptionFails, TypeOK
<1>4. ASSUME NEW c \in Callers, Transcribed(c) PROVE TypeOK'
  <2>1. requests[c] \in Request
    BY <1>4, RequestKinds DEF Transcribed
  <2> DEFINE h == [audio |-> requests[c].audio, content |-> requests[c].content,
                   expires |-> requests[c].expires, completed |-> now]
  <2>2. h \in VoiceHash
    BY <2>1 DEF Request, VoiceHash, TypeOK
  <2> HIDE DEF h
  <2>3. [step |-> "recording", event |-> requests[c].event, hash |-> h] \in Recording
    BY <2>1, <2>2 DEF Request, Recording
  <2>4. requests' = [requests EXCEPT ![c] =
            [step |-> "recording", event |-> requests[c].event, hash |-> h]]
    BY <1>4 DEF Transcribed, h
  <2>5. requests' \in [Callers -> {Idle} \cup Request \cup Recording]
    BY <2>3, <2>4, RequestMoves
  <2> QED
    BY <1>4, <2>5 DEF Transcribed, TypeOK
<1>5. ASSUME NEW c \in Callers, ChainRecords(c) PROVE TypeOK'
  <2>1. requests[c] \in Recording
    BY <1>5, RequestKinds DEF ChainRecords
  <2>2. [requests[c] EXCEPT !.step = "recorded"] \in Recording
    BY <2>1 DEF Recording
  <2>3. requests' \in [Callers -> {Idle} \cup Request \cup Recording]
    BY <1>5, <2>2, RequestMoves DEF ChainRecords
  <2>4. chain' \in [EventIds -> CouncilHashes \cup VoiceHash \cup {None}]
    BY <1>5, SentType, RecordedChain DEF ChainRecords, Hashes
  <2> QED
    BY <1>5, <2>3, <2>4 DEF ChainRecords, TypeOK
<1>6. ASSUME NEW c \in Callers, ChainFails(c) PROVE TypeOK'
  BY <1>6 DEF ChainFails, TypeOK
<1>7. ASSUME NEW c \in Callers, ChainAnswers(c) PROVE TypeOK'
  <2>1. requests[c].hash \in VoiceHash /\ Sent(c) \in Commands(CouncilHashes \cup VoiceHash)
    BY <1>7, SentType DEF ChainAnswers, Hashes
  <2>2. [type |-> "voice.transcript.recorded", hash |-> requests[c].hash] \in Entry
    BY <2>1 DEF Entry
  <2>3. audit' \in Seq(Entry)
    BY <1>7, <2>2 DEF ChainAnswers, TypeOK
  <2>4. requests' \in [Callers -> {Idle} \cup Request \cup Recording]
    BY <1>7, RequestMoves DEF ChainAnswers
  <2> QED
    BY <1>7, <2>1, <2>3, <2>4 DEF ChainAnswers, TypeOK
<1>8. ASSUME NEW batch \in SUBSET Commands(CouncilHashes), CouncilRecords(batch)
      PROVE  TypeOK'
  <2>1. batch \in SUBSET Commands(Hashes)
    BY DEF Commands, Hashes
  <2>2. chain' \in [EventIds -> CouncilHashes \cup VoiceHash \cup {None}]
    BY <1>8, <2>1, RecordedChain DEF CouncilRecords, RecordBatch, Hashes
  <2>3. acknowledged' \subseteq Commands(CouncilHashes \cup VoiceHash)
    BY <1>8, <2>1 DEF CouncilRecords, RecordBatch, TypeOK, Hashes
  <2> QED
    BY <1>8, <2>2, <2>3 DEF CouncilRecords, voice, TypeOK
<1>9. ASSUME NEW k \in Cleaners, BeginCleanup(k) PROVE TypeOK'
  <2> DEFINE found == {[audio |-> a, content |-> records[a].content,
                        expires |-> records[a].expires] :
                            a \in {b \in Audios : HasExpired(b)}}
  <2>1. found \subseteq Expired
    BY DEF HasExpired, Pending, TypeOK, Record, Expired
  <2> HIDE DEF found
  <2>2. [step |-> "deleting", dropped |-> None, receipts |-> {}, expired |-> found] \in Cleanup
    BY <2>1 DEF Cleanup
  <2>3. cleanups' = [cleanups EXCEPT ![k] =
            [step |-> "deleting", dropped |-> None, receipts |-> {}, expired |-> found]]
    BY <1>9 DEF BeginCleanup, found
  <2>4. cleanups' \in [Cleaners -> {Idle} \cup Cleanup]
    BY <2>2, <2>3, CleanupMoves
  <2> QED
    BY <1>9, <2>4 DEF BeginCleanup, TypeOK
<1>10. ASSUME NEW k \in Cleaners, DropPayload(k) PROVE TypeOK'
  <2>1. cleanups[k] \in Cleanup
    BY <1>10, CleanupKinds DEF DropPayload
  <2>2. PICK x \in cleanups[k].expired :
            /\ payloads' = [payloads EXCEPT ![x.audio] = None]
            /\ cleanups' = [cleanups EXCEPT ![k].dropped = x, ![k].expired = @ \ {x}]
    BY <1>10 DEF DropPayload
  <2>3. x \in Expired
    BY <2>1, <2>2 DEF Cleanup
  <2> DEFINE r == [step |-> "deleting", expired |-> cleanups[k].expired \ {x},
                   dropped |-> x, receipts |-> cleanups[k].receipts]
  <2>4. r \in Cleanup
    BY <2>1, <2>3 DEF Cleanup
  <2>5. cleanups' = [cleanups EXCEPT ![k] = r]
    BY <2>1, <2>2 DEF Cleanup, TypeOK
  <2> HIDE DEF r
  <2>6. cleanups' \in [Cleaners -> {Idle} \cup Cleanup]
    BY <2>4, <2>5, CleanupMoves
  <2>7. payloads' \in [Audios -> Contents \cup {None}]
    BY <2>2 DEF TypeOK
  <2> QED
    BY <1>10, <2>6, <2>7 DEF DropPayload, TypeOK
<1>11. ASSUME NEW k \in Cleaners, MarkDeleted(k) PROVE TypeOK'
  <2>1. cleanups[k] \in Cleanup /\ cleanups[k].dropped \in Expired
    BY <1>11, CleanupKinds DEF MarkDeleted, Cleanup
  <2>2. PICK x \in Expired : cleanups[k].dropped = x
    BY <2>1
  <2>3. cleanups' = [cleanups EXCEPT ![k].dropped = None, ![k].receipts = @ \cup {x}]
    BY <1>11, <2>2 DEF MarkDeleted
  <2> DEFINE more == cleanups[k].receipts \cup {x}
             r == [cleanups[k] EXCEPT !.dropped = None, !.receipts = more]
  <2>4. r \in Cleanup
    <3>1. more \in SUBSET Expired
      BY <2>1 DEF Cleanup
    <3> QED
      BY <2>1, <3>1, ClosedCleanup
  <2>5. cleanups' = [cleanups EXCEPT ![k] = r]
    BY <2>3
  <2>6. records' \in [Audios -> Record \cup {None}]
    BY <1>11, <2>1 DEF MarkDeleted, Expired, Record, TypeOK
  <2> HIDE DEF r
  <2>7. cleanups' \in [Cleaners -> {Idle} \cup Cleanup]
    BY <2>4, <2>5, CleanupMoves
  <2> QED
    BY <1>11, <2>6, <2>7 DEF MarkDeleted, TypeOK
<1>12. ASSUME NEW k \in Cleaners, AuditDeletion(k) PROVE TypeOK'
  <2>1. cleanups[k] \in Cleanup
    BY <1>12, CleanupKinds DEF AuditDeletion
  <2>2. PICK x \in cleanups[k].receipts :
            /\ audit' = Append(audit, Deletion(x))
            /\ cleanups' = [cleanups EXCEPT ![k].receipts = @ \ {x}]
    BY <1>12 DEF AuditDeletion
  <2>3. Deletion(x) \in Entry
    BY <2>1, <2>2 DEF Deletion, Entry, Cleanup, Expired
  <2>4. audit' \in Seq(Entry)
    BY <2>2, <2>3 DEF TypeOK
  <2> DEFINE r == [cleanups[k] EXCEPT !.receipts = @ \ {x}]
  <2>5. r \in Cleanup
    BY <2>1 DEF Cleanup
  <2>6. cleanups' = [cleanups EXCEPT ![k] = r]
    BY <2>2
  <2> HIDE DEF r
  <2>7. cleanups' \in [Cleaners -> {Idle} \cup Cleanup]
    BY <2>5, <2>6, CleanupMoves
  <2> QED
    BY <1>12, <2>4, <2>7 DEF AuditDeletion, TypeOK
<1>13. ASSUME NEW k \in Cleaners, EndCleanup(k) PROVE TypeOK'
  BY <1>13 DEF EndCleanup, TypeOK
<1>14. ASSUME Tick PROVE TypeOK'
  <2>1. now' \in Time
    BY <1>14, VoiceAssumption DEF Tick, TypeOK, Time
  <2> QED
    BY <1>14, <2>1 DEF Tick, TypeOK
<1>15. ASSUME UNCHANGED vars PROVE TypeOK'
  BY <1>15 DEF vars, voice, TypeOK
<1> QED
  BY <1>1, <1>2, <1>3, <1>4, <1>5, <1>6, <1>7, <1>8, <1>9, <1>10, <1>11, <1>12,
     <1>13, <1>14, <1>15 DEF Next, Clean

\* Every reachable state is well typed: what is stored, sent to the auditor,
\* cleaned up and logged is what put_audio, transcribe and
\* cleanup_expired_audio make.
THEOREM TypeCorrect == Spec => []TypeOK
BY InitType, StepType, PTL DEF Spec

-----------------------------------------------------------------------------
(* The chain and its receipts.                                             *)

\* What the auditor has answered to a request is on the chain.
AnswersAreTrue ==
    \A c \in Callers : requests[c].step = "recorded" =>
        chain[requests[c].event] = requests[c].hash

Logged(h) == \E i \in DOMAIN audit : audit[i] = [type |-> "voice.transcript.recorded", hash |-> h]

AcknowledgedAs(h) == \E e \in EventIds : [event |-> e, hash |-> h] \in acknowledged

\* A transcript is logged when it is acknowledged.
LoggedIsAcknowledged == \A h \in VoiceHash : Logged(h) <=> AcknowledgedAs(h)

ChainInv ==
    AcknowledgedIsRecorded /\ NothingByHalves /\ AnswersAreTrue /\ LoggedIsAcknowledged

LEMMA ChainInvInit == Init => ChainInv
BY ChainAssumption DEF Init, ChainInit, Idle, ChainInv, AcknowledgedIsRecorded, NothingByHalves,
   AnswersAreTrue, LoggedIsAcknowledged, Logged, AcknowledgedAs

\* Steps that leave the chain and its receipts alone, and answer nobody.
Quiet ==
    /\ UNCHANGED <<chain, acknowledged>>
    /\ \A h \in VoiceHash : Logged(h)' <=> Logged(h)
    /\ \A c \in Callers : requests'[c].step = "recorded" => requests'[c] = requests[c]

LEMMA QuietKeepsChainInv == ChainInv /\ Quiet => ChainInv'
<1> SUFFICES ASSUME ChainInv, Quiet PROVE ChainInv'
  OBVIOUS
<1>1. AcknowledgedIsRecorded' /\ NothingByHalves'
  BY DEF ChainInv, Quiet, AcknowledgedIsRecorded, NothingByHalves
<1>2. AnswersAreTrue'
  BY DEF ChainInv, Quiet, AnswersAreTrue
<1>3. LoggedIsAcknowledged'
  BY DEF ChainInv, Quiet, LoggedIsAcknowledged, AcknowledgedAs
<1> QED
  BY <1>1, <1>2, <1>3 DEF ChainInv

\* What a further entry does to the log.
LEMMA LogGrows ==
    ASSUME TypeOK, NEW entry, audit' = Append(audit, entry), NEW h \in VoiceHash
    PROVE  Logged(h)' <=> (Logged(h) \/ entry = [type |-> "voice.transcript.recorded", hash |-> h])
<1>1. /\ DOMAIN audit' = 1 .. (Len(audit) + 1) /\ DOMAIN audit = 1 .. Len(audit)
      /\ Len(audit) \in Nat
      /\ audit'[Len(audit) + 1] = entry
      /\ \A i \in 1 .. Len(audit) : audit'[i] = audit[i]
  BY DEF TypeOK
<1> QED
  BY <1>1 DEF Logged

\* The three steps that concern the chain keep the invariant.
LEMMA ChainRecordsKeepsChainInv ==
    ASSUME TypeOK, ChainInv, NEW c \in Callers, ChainRecords(c)
    PROVE  ChainInv'
<1>1. /\ Sent(c) \in Commands(Hashes) /\ Sent(c).event = requests[c].event
      /\ Sent(c).hash = requests[c].hash /\ requests[c].hash \in VoiceHash
      /\ requests[c].event \in EventIds
  BY SentType DEF ChainRecords
<1>2. /\ chain' = Recorded({Sent(c)})
      /\ chain'[Sent(c).event] = Sent(c).hash
      /\ \A e \in EventIds : chain[e] # None => chain'[e] = chain[e]
      /\ \A e \in EventIds : chain'[e] = chain[e] \/ chain'[e] = Sent(c).hash
  <2> DEFINE batch == {Sent(c)}
  <2>1. batch \in SUBSET Commands(Hashes) /\ Sent(c) \in batch
    BY <1>1
  <2>2. Acceptable(batch) /\ chain' = Recorded(batch)
    BY DEF ChainRecords
  <2>3. \A d \in batch : d = Sent(c)
    OBVIOUS
  <2> HIDE DEF batch
  <2>4. /\ \A d \in batch : chain'[d.event] = d.hash
        /\ \A e \in EventIds : chain[e] # None => chain'[e] = chain[e]
        /\ \A e \in EventIds : chain'[e] = chain[e]
              \/ \E d \in batch : d.event = e /\ d.hash = chain'[e]
    BY <2>1, <2>2, RecordedChain
  <2> QED
    BY <2>1, <2>3, <2>4 DEF ChainRecords
<1>3. \A d \in Callers : requests'[d].step = "recorded" =>
          /\ d # c => requests'[d] = requests[d]
          /\ d = c => requests'[d].event = Sent(c).event /\ requests'[d].hash = Sent(c).hash
  BY <1>1 DEF ChainRecords, TypeOK
<1>4. AcknowledgedIsRecorded'
  <2> SUFFICES ASSUME NEW d \in acknowledged PROVE chain'[d.event] = d.hash
    BY DEF ChainRecords, AcknowledgedIsRecorded
  <2>1. d.event \in EventIds /\ d.hash \in Hashes
    BY DEF TypeOK, Commands, Hashes
  <2> QED
    BY <1>2, <2>1, HashesAreNotNone DEF ChainInv, AcknowledgedIsRecorded
<1>5. NothingByHalves'
  BY <1>1, <1>2, VoiceAssumption DEF ChainRecords, ChainInv, NothingByHalves
<1>6. AnswersAreTrue'
  <2> SUFFICES ASSUME NEW d \in Callers, requests'[d].step = "recorded"
               PROVE  chain'[requests'[d].event] = requests'[d].hash
    BY DEF AnswersAreTrue
  <2>1. CASE d = c
    BY <1>2, <1>3, <2>1
  <2>2. CASE d # c
    <3>1. requests'[d] = requests[d] /\ requests[d].step = "recorded"
      BY <1>3, <2>2
    <3>2. requests[d].event \in EventIds /\ requests[d].hash \in VoiceHash
      BY <3>1, SentType
    <3>3. chain[requests[d].event] = requests[d].hash /\ requests[d].hash # None
      BY <3>1, <3>2, HashesAreNotNone DEF ChainInv, AnswersAreTrue, Hashes
    <3> QED
      BY <1>2, <3>1, <3>2, <3>3
  <2> QED
    BY <2>1, <2>2
<1>7. LoggedIsAcknowledged'
  BY DEF ChainRecords, ChainInv, LoggedIsAcknowledged, Logged, AcknowledgedAs
<1> QED
  BY <1>4, <1>5, <1>6, <1>7 DEF ChainInv

LEMMA ChainAnswersKeepsChainInv ==
    ASSUME TypeOK, ChainInv, NEW c \in Callers, ChainAnswers(c)
    PROVE  ChainInv'
<1>1. /\ Sent(c) = [event |-> requests[c].event, hash |-> requests[c].hash]
      /\ requests[c].hash \in VoiceHash /\ requests[c].event \in EventIds
      /\ chain[requests[c].event] = requests[c].hash
  BY SentType DEF ChainAnswers, Sent, ChainInv, AnswersAreTrue
<1>2. acknowledged' = acknowledged \cup {Sent(c)} /\ chain' = chain
  BY DEF ChainAnswers
<1>3. AcknowledgedIsRecorded'
  BY <1>1, <1>2 DEF ChainInv, AcknowledgedIsRecorded
<1>4. NothingByHalves'
  BY <1>2 DEF ChainInv, NothingByHalves
<1>5. AnswersAreTrue'
  BY <1>2 DEF ChainAnswers, ChainInv, AnswersAreTrue, TypeOK, Idle
<1>6. ASSUME NEW h \in VoiceHash PROVE Logged(h)' <=> AcknowledgedAs(h)'
  <2>1. Logged(h)' <=> (Logged(h) \/ requests[c].hash = h)
    BY LogGrows DEF ChainAnswers
  <2>2. AcknowledgedAs(h)' <=> (AcknowledgedAs(h) \/ requests[c].hash = h)
    BY <1>1, <1>2 DEF AcknowledgedAs
  <2> QED
    BY <2>1, <2>2 DEF ChainInv, LoggedIsAcknowledged
<1>7. LoggedIsAcknowledged'
  BY <1>6 DEF LoggedIsAcknowledged
<1> QED
  BY <1>3, <1>4, <1>5, <1>7 DEF ChainInv

LEMMA CouncilKeepsChainInv ==
    ASSUME TypeOK, ChainInv, NEW batch \in SUBSET Commands(CouncilHashes),
           CouncilRecords(batch)
    PROVE  ChainInv'
<1>1. batch \in SUBSET Commands(Hashes)
  BY DEF Commands, Hashes
<1>2. /\ \A d \in batch : chain'[d.event] = d.hash
      /\ \A e \in EventIds : chain[e] # None => chain'[e] = chain[e]
      /\ \A e \in EventIds : chain'[e] = chain[e]
            \/ \E d \in batch : d.event = e /\ d.hash = chain'[e]
  BY <1>1, RecordedChain DEF CouncilRecords, RecordBatch
<1>3. acknowledged' = acknowledged \cup batch /\ requests' = requests /\ audit' = audit
  BY DEF CouncilRecords, RecordBatch, voice
<1>4. AcknowledgedIsRecorded'
  <2> SUFFICES ASSUME NEW d \in acknowledged' PROVE chain'[d.event] = d.hash
    BY DEF AcknowledgedIsRecorded
  <2>1. CASE d \in batch
    BY <1>2, <2>1
  <2>2. CASE d \in acknowledged
    BY <1>2, <2>2, HashesAreNotNone DEF ChainInv, AcknowledgedIsRecorded, TypeOK, Commands, Hashes
  <2> QED
    BY <1>3, <2>1, <2>2
<1>5. NothingByHalves'
  <2> SUFFICES ASSUME NEW e \in EventIds, chain'[e] \in CouncilHashes
               PROVE  [event |-> e, hash |-> chain'[e]] \in acknowledged'
    BY DEF NothingByHalves
  <2>1. CASE chain'[e] = chain[e]
    BY <1>3, <2>1 DEF ChainInv, NothingByHalves
  <2>2. ASSUME NEW d \in batch, d.event = e, d.hash = chain'[e]
        PROVE  [event |-> e, hash |-> chain'[e]] \in acknowledged'
    <3>1. d = [event |-> e, hash |-> chain'[e]]
      BY <2>2 DEF Commands
    <3> QED
      BY <1>3, <3>1
  <2> QED
    BY <1>2, <2>1, <2>2
<1>6. AnswersAreTrue'
  <2> SUFFICES ASSUME NEW d \in Callers, requests[d].step = "recorded"
               PROVE  chain'[requests[d].event] = requests[d].hash
    BY <1>3 DEF AnswersAreTrue
  <2>1. requests[d].event \in EventIds /\ requests[d].hash \in VoiceHash
    BY SentType
  <2>2. chain[requests[d].event] = requests[d].hash /\ requests[d].hash # None
    BY <2>1, HashesAreNotNone DEF ChainInv, AnswersAreTrue, Hashes
  <2> QED
    BY <1>2, <2>1, <2>2
<1>7. LoggedIsAcknowledged'
  <2>1. \A d \in batch : d.hash \notin VoiceHash
    BY VoiceAssumption DEF Commands
  <2>2. \A h \in VoiceHash : AcknowledgedAs(h)' <=> AcknowledgedAs(h)
    BY <1>3, <2>1 DEF AcknowledgedAs
  <2>3. \A h \in VoiceHash : Logged(h)' <=> Logged(h)
    BY <1>3 DEF Logged
  <2> QED
    BY <2>2, <2>3 DEF ChainInv, LoggedIsAcknowledged
<1> QED
  BY <1>4, <1>5, <1>6, <1>7 DEF ChainInv

\* The deletion of an audio logs no transcript.
LEMMA DeletionIsQuiet ==
    ASSUME TypeOK, NEW k \in Cleaners, AuditDeletion(k)
    PROVE  Quiet
<1>1. PICK x : audit' = Append(audit, Deletion(x))
  BY DEF AuditDeletion
<1>2. \A h \in VoiceHash : Deletion(x) # [type |-> "voice.transcript.recorded", hash |-> h]
  BY DEF Deletion
<1>3. \A h \in VoiceHash : Logged(h)' <=> Logged(h)
  BY <1>1, <1>2, LogGrows
<1> QED
  BY <1>3 DEF Quiet, AuditDeletion

LEMMA ChainInvStep == TypeOK /\ ChainInv /\ [Next]_vars => ChainInv'
<1> SUFFICES ASSUME TypeOK, ChainInv, [Next]_vars PROVE ChainInv'
  OBVIOUS
<1>1. ASSUME NEW c \in Callers, NEW a \in Audios, NEW e \in EventIds,
             NEW content \in Contents, Submit(c, a, e, content)
      PROVE  Quiet
  BY <1>1 DEF Submit, Quiet, Logged, TypeOK
<1>2. ASSUME NEW c \in Callers, StorePayload(c) PROVE Quiet
  BY <1>2, RequestKinds DEF StorePayload, Quiet, Logged, TypeOK, Request
<1>3. ASSUME NEW c \in Callers, TranscriptionFails(c) \/ ChainFails(c) PROVE Quiet
  BY <1>3 DEF TranscriptionFails, ChainFails, Quiet, Logged, TypeOK, Idle
<1>4. ASSUME NEW c \in Callers, Transcribed(c) PROVE Quiet
  BY <1>4 DEF Transcribed, Quiet, Logged, TypeOK
<1>5. ASSUME NEW k \in Cleaners,
             BeginCleanup(k) \/ DropPayload(k) \/ MarkDeleted(k) \/ EndCleanup(k)
      PROVE  Quiet
  BY <1>5 DEF BeginCleanup, DropPayload, MarkDeleted, EndCleanup, Quiet, Logged
<1>6. ASSUME Tick \/ UNCHANGED vars PROVE Quiet
  BY <1>6 DEF Tick, vars, voice, Quiet, Logged
<1> QED
  BY <1>1, <1>2, <1>3, <1>4, <1>5, <1>6, DeletionIsQuiet, QuietKeepsChainInv,
     ChainRecordsKeepsChainInv, ChainAnswersKeepsChainInv, CouncilKeepsChainInv DEF Next, Clean

\* The invariant holds in every reachable state.
LEMMA ChainInvAlways == Spec => [](TypeOK /\ ChainInv)
<1>1. Init => TypeOK /\ ChainInv
  BY InitType, ChainInvInit
<1>2. TypeOK /\ ChainInv /\ [Next]_vars => (TypeOK /\ ChainInv)'
  BY StepType, ChainInvStep
<1> QED
  BY <1>1, <1>2, PTL DEF Spec

\* A receipt of the auditor stays true: its hash is on the chain under its
\* event id, whatever is recorded later (_record_for_command).
THEOREM ReceiptsHold == Spec => []AcknowledgedIsRecorded
<1>1. TypeOK /\ ChainInv => AcknowledgedIsRecorded
  BY DEF ChainInv
<1> QED
  BY <1>1, ChainInvAlways, PTL

\* A batch of the council is on the chain as a whole or not at all
\* (_record_batch stages it first).
THEOREM BatchesAreWhole == Spec => []NothingByHalves
<1>1. TypeOK /\ ChainInv => NothingByHalves
  BY DEF ChainInv
<1> QED
  BY <1>1, ChainInvAlways, PTL

\* Receipts are kept for ever and refused batches leave nothing, for any callers
\* and batches (record_audit_hash, _record_batch).
THEOREM ReceiptsStand == Spec => []ReceiptsAreKept
BY TypeCorrect, ReceiptsHold, BatchesAreWhole, PTL DEF ReceiptsAreKept

\* The local log has exactly the transcripts that are on the chain and were
\* answered for (transcribe logs after the auditor's receipt).
THEOREM TranscriptsLogged == Spec => []TranscriptsAreAudited
<1>1. TypeOK /\ ChainInv => TranscriptsAreAudited
  BY DEF ChainInv, LoggedIsAcknowledged, AcknowledgedIsRecorded, TranscriptsAreAudited,
     Logged, AcknowledgedAs
<1> QED
  BY <1>1, ChainInvAlways, PTL

-----------------------------------------------------------------------------
(* Raw audio, while clean-ups do not overlap.                              *)

\* No two clean-ups are under way.
CleanUpsApart ==
    \A k, l \in Cleaners : cleanups[k] # Idle /\ cleanups[l] # Idle => k = l

\* All the others are idle, before and after a step.
AloneAtWork(k) ==
    \A l \in Cleaners \ {k} : cleanups[l] = Idle /\ cleanups'[l] = Idle

LEMMA OnlyCleanUp ==
    ASSUME TypeOK, CleanUpsApart, CleanUpsApart', NEW k \in Cleaners, Clean(k)
    PROVE  AloneAtWork(k)
<1> SUFFICES ASSUME NEW l \in Cleaners \ {k} PROVE cleanups[l] = Idle /\ cleanups'[l] = Idle
  BY DEF AloneAtWork
<1>1. cleanups'[l] = cleanups[l]
  BY DEF Clean, BeginCleanup, DropPayload, MarkDeleted, AuditDeletion, EndCleanup, TypeOK
<1>2. CASE BeginCleanup(k)
  <2>1. cleanups'[k] # Idle
    BY <1>2 DEF BeginCleanup, TypeOK, Idle
  <2> QED
    BY <1>1, <2>1 DEF CleanUpsApart
<1>3. CASE cleanups[k].step = "deleting"
  BY <1>1, <1>3 DEF CleanUpsApart, Idle
<1> QED
  BY <1>2, <1>3 DEF Clean, DropPayload, MarkDeleted, AuditDeletion, EndCleanup


\* put_audio is at work for one request, and its record is fresh.
StoringIsFresh ==
    \A c \in Callers : requests[c].step = "storing" =>
        /\ Pending(requests[c].audio)
        /\ records[requests[c].audio].content = requests[c].content
        /\ records[requests[c].audio].expires > now
        /\ \A d \in Callers : requests[d].step = "storing" => d = c

\* What a clean-up still has to delete.
ToDelete(k) ==
    cleanups[k].expired \cup (IF cleanups[k].dropped = None THEN {} ELSE {cleanups[k].dropped})

\* It is in the store just as it was copied.
CopyIsCurrent ==
    \A k \in Cleaners : cleanups[k].step = "deleting" =>
        \A x \in ToDelete(k) :
            /\ Pending(x.audio) /\ x.expires <= now
            /\ records[x.audio].content = x.content
            /\ records[x.audio].expires = x.expires

DroppedIsGone ==
    \A k \in Cleaners : cleanups[k].step = "deleting" /\ cleanups[k].dropped # None =>
        /\ payloads[cleanups[k].dropped.audio] = None
        /\ cleanups[k].dropped \notin cleanups[k].expired

AudioInv == StoringIsFresh /\ CopyIsCurrent /\ DroppedIsGone /\ RawAudioIsTracked

LEMMA AudioInvInit == Init => AudioInv
BY DEF Init, Idle, AudioInv, StoringIsFresh, CopyIsCurrent, DroppedIsGone, RawAudioIsTracked

\* What a clean-up has to delete are audios, each once.
LEMMA ToDeleteType ==
    ASSUME TypeOK, NEW k \in Cleaners, cleanups[k].step = "deleting"
    PROVE  /\ ToDelete(k) \subseteq Expired
           /\ cleanups[k].expired \subseteq ToDelete(k)
           /\ cleanups[k].dropped # None => cleanups[k].dropped \in ToDelete(k)
           /\ CopyIsCurrent => \A x, y \in ToDelete(k) : x.audio = y.audio => x = y
<1>1. cleanups[k] \in Cleanup
  BY CleanupKinds
<1>2. ToDelete(k) \subseteq Expired
  BY <1>1 DEF ToDelete, Cleanup
<1>3. ASSUME CopyIsCurrent, NEW x \in ToDelete(k), NEW y \in ToDelete(k), x.audio = y.audio
      PROVE  x = y
  <2>1. x \in Expired /\ y \in Expired
    BY <1>2
  <2>2. x.content = y.content /\ x.expires = y.expires
    BY <1>3 DEF CopyIsCurrent
  <2> QED
    BY <1>3, <2>1, <2>2 DEF Expired
<1> QED
  BY <1>2, <1>3 DEF ToDelete

\* An audio that is being stored is in no clean-up.
LEMMA StoringIsNotDeleted ==
    ASSUME TypeOK, AudioInv, NEW c \in Callers, requests[c].step = "storing",
           NEW k \in Cleaners, cleanups[k].step = "deleting", NEW x \in ToDelete(k)
    PROVE  x.audio # requests[c].audio
<1>1. x \in Expired
  BY ToDeleteType
<1>2. x.expires \in Nat /\ now \in Nat
  BY <1>1 DEF Expired, TypeOK, Time
<1> QED
  BY <1>2 DEF AudioInv, StoringIsFresh, CopyIsCurrent

\* Steps that touch neither the store nor the clean-ups, and begin no storing.
LEMMA AsideKeepsAudioInv ==
    ASSUME AudioInv, UNCHANGED <<now, records, payloads, cleanups>>,
           \A c \in Callers : requests'[c].step = "storing" => requests'[c] = requests[c]
    PROVE  AudioInv'
<1>1. StoringIsFresh'
  BY DEF AudioInv, StoringIsFresh, Pending
<1>2. CopyIsCurrent' /\ DroppedIsGone' /\ RawAudioIsTracked'
  BY DEF AudioInv, CopyIsCurrent, DroppedIsGone, RawAudioIsTracked, ToDelete, Pending
<1> QED
  BY <1>1, <1>2 DEF AudioInv

LEMMA SubmitKeepsAudioInv ==
    ASSUME TypeOK, AudioInv, NEW c \in Callers, NEW a \in Audios, NEW e \in EventIds,
           NEW content \in Contents, Submit(c, a, e, content)
    PROVE  AudioInv'
<1> DEFINE r == [content |-> content, expires |-> now + TTL, status |-> "pending_deletion"]
<1>1. /\ records'[a] = r /\ \A b \in Audios \ {a} : records'[b] = records[b]
      /\ UNCHANGED <<now, payloads, cleanups>>
      /\ ~Pending(a)
  BY DEF Submit, Refused, TypeOK
<1>2. now + TTL > now /\ now + TTL \in Time
  BY VoiceAssumption DEF Submit, TypeOK, Time
<1>3. r \in Record
  BY <1>2 DEF Record
<1>4. Pending(a)' /\ \A b \in Audios \ {a} : Pending(b)' <=> Pending(b)
  BY <1>1, <1>3, VoiceAssumption DEF Pending
<1>5. \A d \in Callers : requests'[d].step = "storing" =>
          d = c /\ requests'[d].audio = a /\ requests'[d].content = content
  BY DEF Submit, LoopIsFree, TypeOK
<1>6. StoringIsFresh'
  BY <1>1, <1>2, <1>4, <1>5 DEF StoringIsFresh
<1>7. \A k \in Cleaners : cleanups[k].step = "deleting" =>
          \A x \in ToDelete(k) : x.audio \in Audios \ {a}
  BY <1>1, ToDeleteType DEF AudioInv, CopyIsCurrent, Expired
<1>8. CopyIsCurrent'
  BY <1>1, <1>4, <1>7 DEF AudioInv, CopyIsCurrent, ToDelete
<1>9. DroppedIsGone'
  BY <1>1 DEF AudioInv, DroppedIsGone
<1>10. RawAudioIsTracked'
  BY <1>1, <1>4 DEF AudioInv, RawAudioIsTracked
<1> QED
  BY <1>6, <1>8, <1>9, <1>10 DEF AudioInv

LEMMA StorePayloadKeepsAudioInv ==
    ASSUME TypeOK, AudioInv, NEW c \in Callers, StorePayload(c)
    PROVE  AudioInv'
<1> DEFINE a == requests[c].audio
<1>1. requests[c] \in Request /\ a \in Audios
  BY RequestKinds DEF StorePayload, Request
<1>2. /\ payloads'[a] = requests[c].content
      /\ \A b \in Audios \ {a} : payloads'[b] = payloads[b]
      /\ UNCHANGED <<now, records, cleanups>>
  BY <1>1 DEF StorePayload, TypeOK
<1>3. \A d \in Callers : requests'[d].step # "storing"
  <2>1. requests'[c].step = "transcribing"
    BY <1>1 DEF StorePayload, TypeOK, Request
  <2>2. \A d \in Callers \ {c} : requests'[d] = requests[d]
    BY DEF StorePayload, TypeOK
  <2> QED
    BY <2>1, <2>2 DEF StorePayload, AudioInv, StoringIsFresh
<1>4. StoringIsFresh'
  BY <1>3 DEF StoringIsFresh
<1>5. CopyIsCurrent'
  BY <1>2 DEF AudioInv, CopyIsCurrent, ToDelete, Pending
<1>6. DroppedIsGone'
  <2> SUFFICES ASSUME NEW k \in Cleaners, cleanups[k].step = "deleting", cleanups[k].dropped # None
               PROVE  payloads'[cleanups[k].dropped.audio] = None
    BY <1>2 DEF AudioInv, DroppedIsGone
  <2>1. cleanups[k].dropped \in ToDelete(k) /\ cleanups[k].dropped \in Expired
    BY ToDeleteType
  <2>2. cleanups[k].dropped.audio \in Audios \ {a}
    BY <2>1, StoringIsNotDeleted DEF StorePayload, Expired
  <2> QED
    BY <1>2, <2>2 DEF AudioInv, DroppedIsGone
<1>7. RawAudioIsTracked'
  BY <1>2 DEF AudioInv, RawAudioIsTracked, StoringIsFresh, StorePayload, Pending
<1> QED
  BY <1>4, <1>5, <1>6, <1>7 DEF AudioInv

LEMMA BeginCleanupKeepsAudioInv ==
    ASSUME TypeOK, AudioInv, NEW k \in Cleaners, BeginCleanup(k)
    PROVE  AudioInv'
<1> DEFINE found == {[audio |-> a, content |-> records[a].content,
                      expires |-> records[a].expires] :
                          a \in {b \in Audios : HasExpired(b)}}
<1>1. /\ cleanups'[k].dropped = None /\ cleanups'[k].expired = found
      /\ \A l \in Cleaners \ {k} : cleanups'[l] = cleanups[l]
      /\ UNCHANGED <<now, records, payloads, requests>>
  BY DEF BeginCleanup, TypeOK
<1>2. \A x \in found : /\ Pending(x.audio) /\ x.expires <= now
                       /\ records[x.audio].content = x.content
                       /\ records[x.audio].expires = x.expires
  BY DEF HasExpired
<1> HIDE DEF found
<1>3. CopyIsCurrent'
  BY <1>1, <1>2 DEF AudioInv, CopyIsCurrent, ToDelete, Pending
<1>4. StoringIsFresh' /\ RawAudioIsTracked'
  BY <1>1 DEF AudioInv, StoringIsFresh, RawAudioIsTracked, Pending
<1>5. DroppedIsGone'
  BY <1>1 DEF AudioInv, DroppedIsGone
<1> QED
  BY <1>3, <1>4, <1>5 DEF AudioInv

LEMMA DropPayloadKeepsAudioInv ==
    ASSUME TypeOK, AudioInv, NEW k \in Cleaners, AloneAtWork(k), DropPayload(k)
    PROVE  AudioInv'
<1>1. cleanups[k] \in Cleanup /\ cleanups[k].step = "deleting" /\ cleanups[k].dropped = None
  BY CleanupKinds DEF DropPayload
<1>2. PICK x \in cleanups[k].expired :
          /\ payloads' = [payloads EXCEPT ![x.audio] = None]
          /\ cleanups' = [cleanups EXCEPT ![k].dropped = x, ![k].expired = @ \ {x}]
  BY DEF DropPayload
<1>3. x \in Expired
  BY <1>1, <1>2 DEF Cleanup
<1>4. /\ cleanups'[k].dropped = x /\ cleanups'[k].expired = cleanups[k].expired \ {x}
      /\ payloads'[x.audio] = None
      /\ \A a \in Audios : payloads'[a] # None => payloads'[a] = payloads[a]
      /\ UNCHANGED <<now, records, requests>>
  BY <1>1, <1>2, <1>3 DEF DropPayload, TypeOK, Cleanup, Expired
<1>5. StoringIsFresh'
  BY <1>4 DEF AudioInv, StoringIsFresh, Pending
<1>6. ToDelete(k)' \subseteq ToDelete(k)
  BY <1>1, <1>2, <1>4 DEF ToDelete
<1>7. CopyIsCurrent'
  BY <1>1, <1>4, <1>6 DEF AudioInv, CopyIsCurrent, AloneAtWork, Idle, Pending
<1>8. DroppedIsGone'
  BY <1>4 DEF DroppedIsGone, AloneAtWork, Idle
<1>9. RawAudioIsTracked'
  BY <1>4 DEF AudioInv, RawAudioIsTracked, Pending
<1> QED
  BY <1>5, <1>7, <1>8, <1>9 DEF AudioInv

LEMMA MarkDeletedKeepsAudioInv ==
    ASSUME TypeOK, AudioInv, NEW k \in Cleaners, AloneAtWork(k), MarkDeleted(k)
    PROVE  AudioInv'
<1>1. /\ cleanups[k] \in Cleanup /\ cleanups[k].step = "deleting"
      /\ cleanups[k].dropped # None
  BY CleanupKinds DEF MarkDeleted
<1>2. PICK x \in Expired : cleanups[k].dropped = x
  BY <1>1 DEF Cleanup
<1>3. x \in ToDelete(k) /\ x.audio \in Audios /\ x \notin cleanups[k].expired
      /\ payloads[x.audio] = None
  BY <1>1, <1>2, ToDeleteType DEF Expired, AudioInv, DroppedIsGone
<1>4. /\ cleanups'[k].dropped = None /\ cleanups'[k].expired = cleanups[k].expired
      /\ \A a \in Audios \ {x.audio} : records'[a] = records[a]
      /\ UNCHANGED <<now, payloads, requests>>
  BY <1>1, <1>2 DEF MarkDeleted, TypeOK, Cleanup
<1>5. \A a \in Audios \ {x.audio} : Pending(a)' <=> Pending(a)
  BY <1>4 DEF Pending
<1>6. StoringIsFresh'
  <2> SUFFICES ASSUME NEW c \in Callers, requests[c].step = "storing"
               PROVE  /\ Pending(requests[c].audio)'
                      /\ records'[requests[c].audio].content = requests[c].content
                      /\ records'[requests[c].audio].expires > now
    BY <1>4 DEF AudioInv, StoringIsFresh
  <2>1. requests[c].audio \in Audios \ {x.audio}
    BY <1>1, <1>3, RequestKinds, StoringIsNotDeleted DEF Request
  <2> QED
    BY <1>4, <1>5, <2>1 DEF AudioInv, StoringIsFresh
<1>7. CopyIsCurrent'
  <2>1. ToDelete(k)' = cleanups[k].expired
    BY <1>4 DEF ToDelete
  <2>2. \A y \in cleanups[k].expired : y \in ToDelete(k) /\ y.audio \in Audios \ {x.audio}
    BY <1>1, <1>3, ToDeleteType DEF AudioInv, Expired
  <2>3. \A y \in cleanups[k].expired :
            /\ Pending(y.audio)' /\ y.expires <= now'
            /\ records'[y.audio].content = y.content
            /\ records'[y.audio].expires = y.expires
    BY <1>1, <1>4, <1>5, <2>2 DEF AudioInv, CopyIsCurrent
  <2> QED
    BY <2>1, <2>3 DEF CopyIsCurrent, AloneAtWork, Idle
<1>8. DroppedIsGone'
  BY <1>4 DEF DroppedIsGone, AloneAtWork, Idle
<1>9. RawAudioIsTracked'
  BY <1>3, <1>4, <1>5 DEF AudioInv, RawAudioIsTracked
<1> QED
  BY <1>6, <1>7, <1>8, <1>9 DEF AudioInv

LEMMA EndOfCleanupKeepsAudioInv ==
    ASSUME TypeOK, AudioInv, NEW k \in Cleaners, AuditDeletion(k) \/ EndCleanup(k)
    PROVE  AudioInv'
<1>1. /\ cleanups[k].dropped = None /\ cleanups[k].expired = {}
      /\ UNCHANGED <<now, records, payloads, requests>>
      /\ \A l \in Cleaners \ {k} : cleanups'[l] = cleanups[l]
  BY DEF AuditDeletion, EndCleanup, TypeOK
<1>2. cleanups'[k].step = "deleting" => cleanups'[k].dropped = None /\ cleanups'[k].expired = {}
  <2>1. CASE AuditDeletion(k)
    <3>1. cleanups[k] \in Cleanup
      BY <2>1, CleanupKinds DEF AuditDeletion
    <3>2. PICK x : cleanups' = [cleanups EXCEPT ![k].receipts = @ \ {x}]
      BY <2>1 DEF AuditDeletion
    <3> QED
      BY <1>1, <3>1, <3>2 DEF TypeOK, Cleanup
  <2>2. CASE EndCleanup(k)
    BY <2>2 DEF EndCleanup, TypeOK, Idle
  <2> QED
    BY <2>1, <2>2
<1>3. StoringIsFresh' /\ RawAudioIsTracked'
  BY <1>1 DEF AudioInv, StoringIsFresh, RawAudioIsTracked, Pending
<1>4. CopyIsCurrent' /\ DroppedIsGone'
  BY <1>1, <1>2 DEF AudioInv, CopyIsCurrent, DroppedIsGone, ToDelete, Pending
<1> QED
  BY <1>3, <1>4 DEF AudioInv

LEMMA TickKeepsAudioInv ==
    ASSUME TypeOK, AudioInv, Tick
    PROVE  AudioInv'
<1>1. StoringIsFresh'
  BY DEF Tick, LoopIsFree, StoringIsFresh
<1>2. \A k \in Cleaners : cleanups[k].step = "deleting" =>
          \A x \in ToDelete(k) : x.expires \in Nat /\ x.expires <= now
  BY ToDeleteType DEF AudioInv, CopyIsCurrent, Expired, Time
<1>3. now \in Nat /\ now' = now + 1 /\ UNCHANGED <<records, payloads, cleanups>>
  BY DEF Tick, TypeOK, Time
<1>4. \A k \in Cleaners : cleanups[k].step = "deleting" =>
          \A x \in ToDelete(k) : x.expires <= now'
  BY <1>2, <1>3
<1>5. CopyIsCurrent'
  BY <1>3, <1>4 DEF AudioInv, CopyIsCurrent, ToDelete, Pending
<1>6. DroppedIsGone' /\ RawAudioIsTracked'
  BY <1>3 DEF AudioInv, DroppedIsGone, RawAudioIsTracked, Pending
<1> QED
  BY <1>1, <1>5, <1>6 DEF AudioInv

LEMMA AudioInvStep ==
    TypeOK /\ AudioInv /\ CleanUpsApart /\ CleanUpsApart' /\ [Next]_vars => AudioInv'
<1> SUFFICES ASSUME TypeOK, AudioInv, CleanUpsApart, CleanUpsApart', [Next]_vars PROVE AudioInv'
  OBVIOUS
<1>1. ASSUME NEW c \in Callers, TranscriptionFails(c) \/ ChainFails(c) PROVE AudioInv'
  <2>1. \A d \in Callers : requests'[d].step = "storing" => requests'[d] = requests[d]
    BY <1>1 DEF TranscriptionFails, ChainFails, TypeOK, Idle
  <2> QED
    BY <1>1, <2>1, AsideKeepsAudioInv DEF TranscriptionFails, ChainFails
<1>2. ASSUME NEW c \in Callers, Transcribed(c) \/ ChainAnswers(c) PROVE AudioInv'
  <2>1. \A d \in Callers : requests'[d].step = "storing" => requests'[d] = requests[d]
    BY <1>2 DEF Transcribed, ChainAnswers, TypeOK, Idle
  <2> QED
    BY <1>2, <2>1, AsideKeepsAudioInv DEF Transcribed, ChainAnswers
<1>3. ASSUME NEW c \in Callers, ChainRecords(c) PROVE AudioInv'
  <2>1. requests[c] \in Recording
    BY <1>3, RequestKinds DEF ChainRecords
  <2>2. \A d \in Callers : requests'[d].step = "storing" => requests'[d] = requests[d]
    BY <1>3, <2>1 DEF ChainRecords, TypeOK, Recording
  <2> QED
    BY <1>3, <2>2, AsideKeepsAudioInv DEF ChainRecords
<1>4. ASSUME NEW batch \in SUBSET Commands(CouncilHashes), CouncilRecords(batch) PROVE AudioInv'
  BY <1>4, AsideKeepsAudioInv DEF CouncilRecords, voice
<1>5. ASSUME UNCHANGED vars PROVE AudioInv'
  BY <1>5, AsideKeepsAudioInv DEF vars, voice
<1>6. ASSUME NEW k \in Cleaners, Clean(k) PROVE AudioInv'
  <2>1. AloneAtWork(k)
    BY <1>6, OnlyCleanUp
  <2> QED
    BY <1>6, <2>1, BeginCleanupKeepsAudioInv, DropPayloadKeepsAudioInv,
       MarkDeletedKeepsAudioInv, EndOfCleanupKeepsAudioInv DEF Clean
<1> QED
  BY <1>1, <1>2, <1>3, <1>4, <1>5, <1>6, SubmitKeepsAudioInv, StorePayloadKeepsAudioInv,
     TickKeepsAudioInv DEF Next

\* As long as no two clean-ups overlap, whoever runs them and however they interleave
\* with uploads, raw audio is only kept under a record that a clean-up still finds
\* (put_audio, delete_expired_audio).
THEOREM RawAudioTracked == Spec /\ []CleanUpsApart => []RawAudioIsTracked
<1>1. Init => TypeOK /\ AudioInv
  BY InitType, AudioInvInit
<1>2. TypeOK /\ AudioInv /\ CleanUpsApart /\ CleanUpsApart' /\ [Next]_vars
          => (TypeOK /\ AudioInv)'
  BY StepType, AudioInvStep
<1>3. TypeOK /\ AudioInv => RawAudioIsTracked
  BY DEF AudioInv
<1> QED
  BY <1>1, <1>2, <1>3, PTL DEF Spec

-----------------------------------------------------------------------------
(* The deletions of raw audio are recorded once each, while clean-ups do   *)
(* not overlap: what a clean-up has marked deleted it still has a receipt  *)
(* of, or the log has the deletion.                                        *)

RecordedDeletions(a) ==
    {i \in DOMAIN audit : audit[i].type = "voice.audio.deleted" /\ audit[i].audio = a}

Reports(k, a) == cleanups[k] # Idle /\ \E x \in cleanups[k].receipts : x.audio = a

Reporting(a) == {k \in Cleaners : Reports(k, a)}

\* One receipt of an audio, and none of one that is still to be deleted.
ReceiptsApart ==
    \A k \in Cleaners : cleanups[k].step = "deleting" =>
        /\ \A x \in cleanups[k].receipts, y \in ToDelete(k) : x.audio # y.audio
        /\ \A x, y \in cleanups[k].receipts : x.audio = y.audio => x = y

DeletionInv == ReceiptsApart /\ OneDeletionEach

LEMMA DeletionsCounted ==
    ASSUME NEW a
    PROVE  /\ Deletions(a) = Cardinality(RecordedDeletions(a)) + Cardinality(Reporting(a))
           /\ Deletions(a)' = Cardinality(RecordedDeletions(a)') + Cardinality(Reporting(a)')
BY DEF Deletions, RecordedDeletions, Reporting, Reports

LEMMA DeletionInvInit == Init => DeletionInv
<1> SUFFICES ASSUME Init PROVE OneDeletionEach
  BY DEF Init, Idle, DeletionInv, ReceiptsApart
<1> SUFFICES ASSUME NEW a \in Audios PROVE Deletions(a) = 0
  BY DEF Init, OneDeletionEach, Pending
<1>1. RecordedDeletions(a) = {} /\ Reporting(a) = {}
  BY DEF Init, RecordedDeletions, Reporting, Reports
<1> QED
  BY <1>1, FS_EmptySet, DeletionsCounted

LEMMA DeletionsAreNumbers ==
    ASSUME TypeOK, NEW a \in Audios
    PROVE  /\ IsFiniteSet(RecordedDeletions(a))
           /\ Cardinality(RecordedDeletions(a)) \in Nat
<1>1. Len(audit) \in Nat /\ DOMAIN audit = 1 .. Len(audit)
  BY DEF TypeOK
<1>2. IsFiniteSet(1 .. Len(audit))
  BY <1>1, FS_Interval
<1>3. RecordedDeletions(a) \subseteq 1 .. Len(audit)
  BY <1>1 DEF RecordedDeletions
<1> QED
  BY <1>2, <1>3, FS_Subset, FS_CardinalityType

\* The clean-up at work reports a deletion or does not, and no other does.
LEMMA ReportingOf ==
    ASSUME NEW k \in Cleaners, AloneAtWork(k), NEW a
    PROVE  /\ Cardinality(Reporting(a)) = IF Reports(k, a) THEN 1 ELSE 0
           /\ Cardinality(Reporting(a)') = IF Reports(k, a)' THEN 1 ELSE 0
<1>1. /\ Reporting(a) = IF Reports(k, a) THEN {k} ELSE {}
      /\ Reporting(a)' = IF Reports(k, a)' THEN {k} ELSE {}
  BY DEF Reporting, Reports, AloneAtWork
<1> QED
  BY <1>1, FS_EmptySet, FS_Singleton

\* What a further entry of the log adds.
LEMMA EntryAdds ==
    ASSUME TypeOK, NEW entry, audit' = Append(audit, entry), NEW a \in Audios
    PROVE  Cardinality(RecordedDeletions(a)') = Cardinality(RecordedDeletions(a))
               + IF entry.type = "voice.audio.deleted" /\ entry.audio = a THEN 1 ELSE 0
<1>1. /\ DOMAIN audit' = 1 .. (Len(audit) + 1) /\ DOMAIN audit = 1 .. Len(audit)
      /\ Len(audit) \in Nat
      /\ audit'[Len(audit) + 1] = entry
      /\ \A i \in 1 .. Len(audit) : audit'[i] = audit[i]
  BY DEF TypeOK
<1>2. Len(audit) + 1 \notin RecordedDeletions(a)
  BY <1>1 DEF RecordedDeletions
<1>3. CASE entry.type = "voice.audio.deleted" /\ entry.audio = a
  <2>1. RecordedDeletions(a)' = RecordedDeletions(a) \cup {Len(audit) + 1}
    BY <1>1, <1>3 DEF RecordedDeletions
  <2> QED
    BY <1>2, <1>3, <2>1, DeletionsAreNumbers, FS_AddElement
<1>4. CASE ~(entry.type = "voice.audio.deleted" /\ entry.audio = a)
  <2>1. RecordedDeletions(a)' = RecordedDeletions(a)
    BY <1>1, <1>4 DEF RecordedDeletions
  <2> QED
    BY <1>4, <2>1, DeletionsAreNumbers
<1> QED
  BY <1>3, <1>4

\* Steps after which the same deletions are recorded and reported, and the same
\* audios pending.
LEMMA AsideKeepsDeletionInv ==
    ASSUME DeletionInv, UNCHANGED <<records, stored, cleanups>>,
           \A a \in Audios : Cardinality(RecordedDeletions(a)') = Cardinality(RecordedDeletions(a))
    PROVE  DeletionInv'
<1>1. ReceiptsApart'
  BY DEF DeletionInv, ReceiptsApart, ToDelete
<1>2. ASSUME NEW a \in Audios
      PROVE  Deletions(a)' = (IF Pending(a) THEN stored[a] - 1 ELSE stored[a])'
  <2>1. Reporting(a)' = Reporting(a)
    BY DEF Reporting, Reports
  <2>2. Deletions(a)' = Deletions(a)
    BY <2>1, DeletionsCounted
  <2> QED
    BY <2>2 DEF DeletionInv, OneDeletionEach, Pending
<1> QED
  BY <1>1, <1>2 DEF DeletionInv, OneDeletionEach

LEMMA SameLogKeepsDeletionInv ==
    ASSUME DeletionInv, UNCHANGED <<records, stored, cleanups, audit>>
    PROVE  DeletionInv'
<1>1. \A a \in Audios : Cardinality(RecordedDeletions(a)') = Cardinality(RecordedDeletions(a))
  BY DEF RecordedDeletions
<1> QED
  BY <1>1, AsideKeepsDeletionInv

LEMMA TranscriptKeepsDeletionInv ==
    ASSUME TypeOK, DeletionInv, NEW c \in Callers, ChainAnswers(c)
    PROVE  DeletionInv'
<1> DEFINE entry == [type |-> "voice.transcript.recorded", hash |-> requests[c].hash]
<1>1. audit' = Append(audit, entry) /\ entry.type # "voice.audio.deleted"
  BY DEF ChainAnswers
<1>2. \A a \in Audios : Cardinality(RecordedDeletions(a)') = Cardinality(RecordedDeletions(a))
  BY <1>1, EntryAdds, DeletionsAreNumbers
<1> QED
  BY <1>2, AsideKeepsDeletionInv DEF ChainAnswers

\* An audio that is stored again was deleted before.
LEMMA SubmitKeepsDeletionInv ==
    ASSUME TypeOK, DeletionInv, NEW c \in Callers, NEW a \in Audios, NEW e \in EventIds,
           NEW content \in Contents, Submit(c, a, e, content)
    PROVE  DeletionInv'
<1> DEFINE r == [content |-> content, expires |-> now + TTL, status |-> "pending_deletion"]
<1>1. /\ records'[a] = r /\ \A b \in Audios \ {a} : records'[b] = records[b]
      /\ stored'[a] = stored[a] + 1 /\ \A b \in Audios \ {a} : stored'[b] = stored[b]
      /\ audit' = audit /\ cleanups' = cleanups
      /\ ~Pending(a) /\ stored[a] \in Nat
  BY VoiceAssumption DEF Submit, Refused, TypeOK
<1>2. r \in Record
  BY VoiceAssumption DEF Submit, TypeOK, Record, Time
<1>3. Pending(a)' /\ \A b \in Audios \ {a} : Pending(b)' <=> Pending(b)
  BY <1>1, <1>2, VoiceAssumption DEF Pending
<1>4. \A b \in Audios : Deletions(b)' = Deletions(b)
  BY <1>1 DEF Deletions
<1>5. ReceiptsApart'
  BY <1>1 DEF DeletionInv, ReceiptsApart, ToDelete
<1>6. OneDeletionEach'
  BY <1>1, <1>3, <1>4 DEF DeletionInv, OneDeletionEach
<1> QED
  BY <1>5, <1>6 DEF DeletionInv

\* Steps of the clean-up that neither mark nor report anything.
LEMMA SameReportsKeepDeletionInv ==
    ASSUME DeletionInv, NEW k \in Cleaners, AloneAtWork(k),
           UNCHANGED <<records, stored, audit>>, ReceiptsApart',
           \A a \in Audios : Reports(k, a)' <=> Reports(k, a)
    PROVE  DeletionInv'
<1>1. ASSUME NEW a \in Audios PROVE Deletions(a)' = Deletions(a)
  <2>1. Reporting(a)' = Reporting(a)
    BY DEF Reporting, Reports, AloneAtWork
  <2>2. RecordedDeletions(a)' = RecordedDeletions(a)
    BY DEF RecordedDeletions
  <2> QED
    BY <2>1, <2>2, DeletionsCounted
<1>2. OneDeletionEach'
  BY <1>1 DEF DeletionInv, OneDeletionEach, Pending
<1> QED
  BY <1>2 DEF DeletionInv

LEMMA BeginCleanupKeepsDeletionInv ==
    ASSUME TypeOK, DeletionInv, NEW k \in Cleaners, AloneAtWork(k), BeginCleanup(k)
    PROVE  DeletionInv'
<1>1. cleanups[k] = Idle /\ cleanups'[k].receipts = {}
  BY DEF BeginCleanup, TypeOK
<1>2. ReceiptsApart'
  BY <1>1 DEF ReceiptsApart, AloneAtWork, Idle
<1>3. \A a \in Audios : Reports(k, a)' <=> Reports(k, a)
  BY <1>1 DEF Reports
<1> QED
  BY <1>2, <1>3, SameReportsKeepDeletionInv DEF BeginCleanup

LEMMA DropPayloadKeepsDeletionInv ==
    ASSUME TypeOK, DeletionInv, NEW k \in Cleaners, AloneAtWork(k), DropPayload(k)
    PROVE  DeletionInv'
<1>1. cleanups[k] \in Cleanup /\ cleanups[k].step = "deleting" /\ cleanups[k].dropped = None
  BY CleanupKinds DEF DropPayload
<1>2. PICK x \in cleanups[k].expired :
          cleanups' = [cleanups EXCEPT ![k].dropped = x, ![k].expired = @ \ {x}]
  BY DEF DropPayload
<1>3. /\ cleanups'[k].dropped = x /\ cleanups'[k].expired = cleanups[k].expired \ {x}
      /\ cleanups'[k].receipts = cleanups[k].receipts
      /\ cleanups'[k].step = "deleting"
  BY <1>1, <1>2 DEF TypeOK, Cleanup
<1>4. ToDelete(k)' \subseteq ToDelete(k)
  BY <1>1, <1>2, <1>3 DEF ToDelete
<1>5. ReceiptsApart'
  <2>1. /\ \A y \in cleanups[k].receipts, z \in ToDelete(k)' : y.audio # z.audio
        /\ \A y, z \in cleanups[k].receipts : y.audio = z.audio => y = z
    BY <1>1, <1>4 DEF DeletionInv, ReceiptsApart
  <2> QED
    BY <1>3, <2>1 DEF ReceiptsApart, AloneAtWork, Idle
<1>6. cleanups[k] # Idle /\ cleanups'[k] # Idle
  BY <1>1, <1>3 DEF Idle
<1>7. \A a \in Audios : Reports(k, a)' <=> Reports(k, a)
  BY <1>3, <1>6 DEF Reports
<1> QED
  BY <1>5, <1>7, SameReportsKeepDeletionInv DEF DropPayload

LEMMA EndCleanupKeepsDeletionInv ==
    ASSUME TypeOK, DeletionInv, NEW k \in Cleaners, AloneAtWork(k), EndCleanup(k)
    PROVE  DeletionInv'
<1>1. cleanups[k].receipts = {} /\ cleanups'[k] = Idle
  BY DEF EndCleanup, TypeOK
<1>2. ReceiptsApart'
  BY <1>1 DEF ReceiptsApart, AloneAtWork, Idle
<1>3. \A a \in Audios : Reports(k, a)' <=> Reports(k, a)
  BY <1>1 DEF Reports
<1> QED
  BY <1>2, <1>3, SameReportsKeepDeletionInv DEF EndCleanup

\* What is marked deleted is reported from now on.
LEMMA MarkDeletedKeepsDeletionInv ==
    ASSUME TypeOK, AudioInv, DeletionInv, NEW k \in Cleaners, AloneAtWork(k), MarkDeleted(k)
    PROVE  DeletionInv'
<1>1. /\ cleanups[k] \in Cleanup /\ cleanups[k].step = "deleting"
      /\ cleanups[k].dropped # None
  BY CleanupKinds DEF MarkDeleted
<1>2. PICK x \in Expired : cleanups[k].dropped = x
  BY <1>1 DEF Cleanup
<1>3. x \in ToDelete(k) /\ x.audio \in Audios /\ Pending(x.audio)
  BY <1>1, <1>2, ToDeleteType DEF Expired, AudioInv, CopyIsCurrent
<1>4. x \notin cleanups[k].expired
  BY <1>1, <1>2 DEF AudioInv, DroppedIsGone
<1>5. /\ records' = [records EXCEPT ![x.audio] =
              [content |-> x.content, expires |-> x.expires, status |-> "deleted"]]
      /\ cleanups' = [cleanups EXCEPT ![k].dropped = None, ![k].receipts = @ \cup {x}]
      /\ stored' = stored /\ audit' = audit
  BY <1>2 DEF MarkDeleted
<1>6. /\ cleanups'[k].dropped = None /\ cleanups'[k].expired = cleanups[k].expired
      /\ cleanups'[k].receipts = cleanups[k].receipts \cup {x}
      /\ cleanups'[k] # Idle /\ cleanups[k] # Idle
  <2>1. cleanups'[k] = [cleanups[k] EXCEPT !.dropped = None, !.receipts = @ \cup {x}]
    BY <1>5 DEF TypeOK
  <2>2. PICK r \in Cleanup : r = cleanups[k]
    BY <1>1
  <2>3. cleanups'[k] = [r EXCEPT !.dropped = None, !.receipts = @ \cup {x}]
    BY <2>1, <2>2
  <2>4. cleanups'[k] = [step |-> "deleting", dropped |-> None, expired |-> r.expired,
                        receipts |-> r.receipts \cup {x}]
    BY <2>3 DEF Cleanup
  <2> QED
    BY <1>1, <2>2, <2>4 DEF Idle
<1>7. ~Pending(x.audio)' /\ \A a \in Audios \ {x.audio} : Pending(a)' <=> Pending(a)
  BY <1>3, <1>5 DEF Pending, TypeOK
<1>8. ReceiptsApart'
  <2>1. ToDelete(k)' = cleanups[k].expired
    BY <1>6 DEF ToDelete
  <2>2. \A y \in cleanups[k].expired : y \in ToDelete(k) /\ y.audio # x.audio
    BY <1>1, <1>3, <1>4, ToDeleteType DEF AudioInv
  <2>3. \A y \in cleanups[k].receipts : y.audio # x.audio
    BY <1>1, <1>3 DEF DeletionInv, ReceiptsApart
  <2>4. /\ \A y \in cleanups[k].receipts \cup {x}, z \in cleanups[k].expired : y.audio # z.audio
        /\ \A y, z \in cleanups[k].receipts \cup {x} : y.audio = z.audio => y = z
    BY <1>1, <2>2, <2>3 DEF DeletionInv, ReceiptsApart
  <2> QED
    BY <1>6, <2>1, <2>4 DEF ReceiptsApart, AloneAtWork, Idle
<1>9. ASSUME NEW a \in Audios
      PROVE  Deletions(a)' = (IF Pending(a) THEN stored[a] - 1 ELSE stored[a])'
  <2>1. RecordedDeletions(a)' = RecordedDeletions(a) /\ Cardinality(RecordedDeletions(a)) \in Nat
    BY <1>5, DeletionsAreNumbers DEF RecordedDeletions
  <2>2. /\ Deletions(a) = Cardinality(RecordedDeletions(a)) + Cardinality(Reporting(a))
        /\ Deletions(a) = IF Pending(a) THEN stored[a] - 1 ELSE stored[a]
        /\ stored[a] \in Nat
    BY DeletionsCounted DEF DeletionInv, OneDeletionEach, TypeOK
  <2>3. Deletions(a)' = Cardinality(RecordedDeletions(a)) + Cardinality(Reporting(a)')
    BY <2>1, DeletionsCounted
  <2>4. /\ Cardinality(Reporting(a)) = IF Reports(k, a) THEN 1 ELSE 0
        /\ Cardinality(Reporting(a)') = IF Reports(k, a)' THEN 1 ELSE 0
    BY ReportingOf
  <2>5. CASE a = x.audio
    <3>1. ~Reports(k, a) /\ Reports(k, a)'
      BY <1>1, <1>3, <1>6, <2>5 DEF Reports, DeletionInv, ReceiptsApart
    <3> QED
      BY <1>3, <1>5, <1>7, <2>1, <2>2, <2>3, <2>4, <2>5, <3>1
  <2>6. CASE a # x.audio
    <3>1. Reports(k, a)' <=> Reports(k, a)
      BY <1>6, <2>6 DEF Reports
    <3> QED
      BY <1>5, <1>7, <2>1, <2>2, <2>3, <2>4, <2>6, <3>1
  <2> QED
    BY <2>5, <2>6
<1> QED
  BY <1>8, <1>9 DEF DeletionInv, OneDeletionEach

\* A receipt becomes an entry of the log.
LEMMA AuditDeletionKeepsDeletionInv ==
    ASSUME TypeOK, DeletionInv, NEW k \in Cleaners, AloneAtWork(k), AuditDeletion(k)
    PROVE  DeletionInv'
<1>1. cleanups[k] \in Cleanup /\ cleanups[k].step = "deleting"
  BY CleanupKinds DEF AuditDeletion
<1>2. PICK x \in cleanups[k].receipts :
          /\ audit' = Append(audit, Deletion(x))
          /\ cleanups' = [cleanups EXCEPT ![k].receipts = @ \ {x}]
  BY DEF AuditDeletion
<1>3. /\ cleanups'[k].dropped = cleanups[k].dropped
      /\ cleanups'[k].expired = cleanups[k].expired
      /\ cleanups'[k].receipts = cleanups[k].receipts \ {x}
      /\ cleanups'[k] # Idle /\ cleanups[k] # Idle
      /\ UNCHANGED <<records, stored>>
  BY <1>1, <1>2 DEF AuditDeletion, TypeOK, Cleanup, Idle
<1>4. /\ \A y \in cleanups[k].receipts, z \in ToDelete(k) : y.audio # z.audio
      /\ \A y, z \in cleanups[k].receipts : y.audio = z.audio => y = z
  BY <1>1 DEF DeletionInv, ReceiptsApart
<1>5. ReceiptsApart'
  <2>1. ToDelete(k)' = ToDelete(k)
    BY <1>3 DEF ToDelete
  <2> QED
    BY <1>3, <1>4, <2>1 DEF ReceiptsApart, AloneAtWork, Idle
<1>6. ASSUME NEW a \in Audios
      PROVE  Deletions(a)' = Deletions(a)
  <2>1. Cardinality(RecordedDeletions(a)') =
            Cardinality(RecordedDeletions(a)) + IF x.audio = a THEN 1 ELSE 0
    <3>1. Deletion(x).type = "voice.audio.deleted" /\ Deletion(x).audio = x.audio
      BY DEF Deletion
    <3>2. PICK entry : entry = Deletion(x)
      OBVIOUS
    <3> QED
      BY <1>2, <3>1, <3>2, EntryAdds
  <2>2. /\ Deletions(a) = Cardinality(RecordedDeletions(a)) + Cardinality(Reporting(a))
        /\ Deletions(a)' = Cardinality(RecordedDeletions(a)') + Cardinality(Reporting(a)')
        /\ Cardinality(RecordedDeletions(a)) \in Nat
    BY DeletionsCounted, DeletionsAreNumbers
  <2>3. /\ Cardinality(Reporting(a)) = IF Reports(k, a) THEN 1 ELSE 0
        /\ Cardinality(Reporting(a)') = IF Reports(k, a)' THEN 1 ELSE 0
    BY ReportingOf
  <2>4. CASE x.audio = a
    <3>1. Reports(k, a) /\ ~Reports(k, a)'
      BY <1>3, <1>4, <2>4 DEF Reports
    <3> QED
      BY <2>1, <2>2, <2>3, <2>4, <3>1
  <2>5. CASE x.audio # a
    <3>1. Reports(k, a)' <=> Reports(k, a)
      BY <1>3, <2>5 DEF Reports
    <3> QED
      BY <2>1, <2>2, <2>3, <2>5, <3>1
  <2> QED
    BY <2>4, <2>5
<1>7. OneDeletionEach'
  BY <1>3, <1>6 DEF DeletionInv, OneDeletionEach, Pending
<1> QED
  BY <1>5, <1>7 DEF DeletionInv

LEMMA DeletionInvStep ==
    TypeOK /\ AudioInv /\ DeletionInv /\ CleanUpsApart /\ CleanUpsApart' /\ [Next]_vars
        => DeletionInv'
<1> SUFFICES ASSUME TypeOK, AudioInv, DeletionInv, CleanUpsApart, CleanUpsApart', [Next]_vars
             PROVE  DeletionInv'
  OBVIOUS
<1>1. ASSUME NEW c \in Callers,
             \/ StorePayload(c) \/ TranscriptionFails(c) \/ Transcribed(c)
             \/ ChainRecords(c) \/ ChainFails(c)
      PROVE  DeletionInv'
  BY <1>1, SameLogKeepsDeletionInv
     DEF StorePayload, TranscriptionFails, Transcribed, ChainRecords, ChainFails
<1>2. ASSUME NEW batch \in SUBSET Commands(CouncilHashes), CouncilRecords(batch)
      PROVE  DeletionInv'
  BY <1>2, SameLogKeepsDeletionInv DEF CouncilRecords, voice
<1>3. CASE Tick
  BY <1>3, SameLogKeepsDeletionInv DEF Tick
<1>4. CASE UNCHANGED vars
  BY <1>4, SameLogKeepsDeletionInv DEF vars, voice
<1>5. ASSUME NEW k \in Cleaners, Clean(k) PROVE DeletionInv'
  <2>1. AloneAtWork(k)
    BY <1>5, OnlyCleanUp
  <2> QED
    BY <1>5, <2>1, BeginCleanupKeepsDeletionInv, DropPayloadKeepsDeletionInv,
       MarkDeletedKeepsDeletionInv, AuditDeletionKeepsDeletionInv, EndCleanupKeepsDeletionInv
       DEF Clean
<1> QED
  BY <1>1, <1>2, <1>3, <1>4, <1>5, SubmitKeepsDeletionInv, TranscriptKeepsDeletionInv DEF Next

\* As long as no two clean-ups overlap, each raw audio that was stored and deleted has
\* one record of its deletion, in the log or on its way there, however often its id is
\* stored again meanwhile (delete_expired_audio, cleanup_expired_audio).
THEOREM DeletionsRecorded == Spec /\ []CleanUpsApart => []OneDeletionEach
<1>1. Init => TypeOK /\ AudioInv /\ DeletionInv
  BY InitType, AudioInvInit, DeletionInvInit
<1>2. TypeOK /\ AudioInv /\ DeletionInv /\ CleanUpsApart /\ CleanUpsApart' /\ [Next]_vars
          => (TypeOK /\ AudioInv /\ DeletionInv)'
  BY StepType, AudioInvStep, DeletionInvStep
<1>3. DeletionInv => OneDeletionEach
  BY DEF DeletionInv
<1> QED
  BY <1>1, <1>2, <1>3, PTL DEF Spec

-----------------------------------------------------------------------------
(* Whatever clean-ups overlap: an audio whose id was stored once, and the  *)
(* traces of deletions.                                                    *)

Once(a) == stored[a] <= 1

\* An audio is stored under its record, one at a time.
StoringOnce ==
    \A c \in Callers : requests[c].step = "storing" =>
        /\ Once(requests[c].audio) =>
              /\ Pending(requests[c].audio)
              /\ records[requests[c].audio].content = requests[c].content
              /\ records[requests[c].audio].expires > now
        /\ \A d \in Callers : requests[d].step = "storing" => d = c

\* What was stored has a record, and the copies of clean-ups agree with it.
CopiesOnce ==
    /\ \A a \in Audios : stored[a] = 0 => records[a] = None /\ payloads[a] = None
    /\ \A k \in Cleaners : cleanups[k].step = "deleting" =>
          \A x \in ToDelete(k) :
              /\ stored[x.audio] # 0
              /\ Once(x.audio) => /\ records[x.audio] # None /\ x.expires <= now
                                  /\ records[x.audio].content = x.content
                                  /\ records[x.audio].expires = x.expires

DroppedOnce ==
    \A k \in Cleaners : /\ cleanups[k].step = "deleting" /\ cleanups[k].dropped # None
                        /\ Once(cleanups[k].dropped.audio)
                        => payloads[cleanups[k].dropped.audio] = None

\* Raw audio whose id was stored once is only kept under a record that a clean-up finds.
OnceStoredIsTracked ==
    \A a \in Audios : Once(a) /\ payloads[a] # None =>
        Pending(a) /\ records[a].content = payloads[a]

Receipt(k, a) == cleanups[k].step = "deleting" /\ \E x \in cleanups[k].receipts : x.audio = a
DeletionLogged(i, a) == audit[i].type = "voice.audio.deleted" /\ audit[i].audio = a

\* A record marked as deleted has left a trace: in the log, or on its way there.
DeletedIsRecorded ==
    \A a \in Audios : records[a] # None /\ records[a].status = "deleted" =>
        \/ \E i \in DOMAIN audit : DeletionLogged(i, a)
        \/ \E k \in Cleaners : Receipt(k, a)

OverlapInv ==
    StoringOnce /\ CopiesOnce /\ DroppedOnce /\ OnceStoredIsTracked /\ DeletedIsRecorded

LEMMA OverlapInit == Init => OverlapInv
BY DEF Init, Idle, OverlapInv, StoringOnce, CopiesOnce, DroppedOnce, OnceStoredIsTracked,
       DeletedIsRecorded

\* Steps that touch neither the store nor the clean-ups, and begin no storing.
LEMMA AsideKeepsOverlapInv ==
    ASSUME TypeOK, OverlapInv, UNCHANGED <<now, records, payloads, stored, cleanups>>,
           \A i \in DOMAIN audit : i \in DOMAIN audit' /\ audit'[i] = audit[i],
           \A c \in Callers : requests'[c].step = "storing" => requests'[c] = requests[c]
    PROVE  OverlapInv'
<1>1. StoringOnce'
  BY DEF OverlapInv, StoringOnce, Once, Pending
<1>2. CopiesOnce' /\ DroppedOnce' /\ OnceStoredIsTracked'
  BY DEF OverlapInv, CopiesOnce, DroppedOnce, OnceStoredIsTracked, Once, ToDelete, Pending
<1>3. DeletedIsRecorded'
  BY DEF OverlapInv, DeletedIsRecorded, DeletionLogged, Receipt
<1> QED
  BY <1>1, <1>2, <1>3 DEF OverlapInv

\* An id that is stored again is no longer one that was stored once.
LEMMA SubmitKeepsOverlapInv ==
    ASSUME TypeOK, OverlapInv, NEW c \in Callers, NEW a \in Audios, NEW e \in EventIds,
           NEW content \in Contents, Submit(c, a, e, content)
    PROVE  OverlapInv'
<1> DEFINE r == [content |-> content, expires |-> now + TTL, status |-> "pending_deletion"]
<1>1. /\ records'[a] = r /\ \A b \in Audios \ {a} : records'[b] = records[b]
      /\ stored'[a] = stored[a] + 1 /\ \A b \in Audios \ {a} : stored'[b] = stored[b]
      /\ stored[a] \in Nat /\ UNCHANGED <<now, payloads, cleanups, audit>>
  BY VoiceAssumption DEF Submit, TypeOK
<1>2. r \in Record /\ now + TTL > now
  BY VoiceAssumption DEF Submit, TypeOK, Record, Time
<1>3. r # None
  BY <1>2, VoiceAssumption
<1>4. Pending(a)' /\ \A b \in Audios \ {a} : Pending(b)' <=> Pending(b)
  BY <1>1, <1>3 DEF Pending
<1>5. \A d \in Callers : requests'[d].step = "storing" =>
          d = c /\ requests'[d].audio = a /\ requests'[d].content = content
  BY DEF Submit, LoopIsFree, TypeOK
<1>6. StoringOnce'
  BY <1>1, <1>2, <1>4, <1>5 DEF StoringOnce
<1>7. \A b \in Audios : Once(b)' => Once(b) /\ (b = a => stored[a] = 0)
  BY <1>1 DEF Once
<1>8. CopiesOnce'
  <2>1. \A b \in Audios : stored'[b] = 0 => records'[b] = None /\ payloads'[b] = None
    BY <1>1 DEF OverlapInv, CopiesOnce
  <2>2. ASSUME NEW k \in Cleaners, cleanups[k].step = "deleting", NEW x \in ToDelete(k)
        PROVE  /\ stored'[x.audio] # 0
               /\ Once(x.audio)' => /\ records'[x.audio] # None /\ x.expires <= now
                                    /\ records'[x.audio].content = x.content
                                    /\ records'[x.audio].expires = x.expires
    <3>1. x.audio \in Audios /\ stored[x.audio] # 0
      BY <2>2, ToDeleteType DEF Expired, OverlapInv, CopiesOnce
    <3>2. Once(x.audio)' => x.audio # a
      BY <1>7, <3>1
    <3>3. stored'[x.audio] # 0
      BY <1>1, <3>1
    <3> QED
      BY <1>1, <1>7, <2>2, <3>1, <3>2, <3>3 DEF OverlapInv, CopiesOnce
  <2>3. \A k \in Cleaners : ToDelete(k)' = ToDelete(k)
    BY <1>1 DEF ToDelete
  <2> QED
    BY <1>1, <2>1, <2>2, <2>3 DEF CopiesOnce
<1>9. DroppedOnce'
  <2> SUFFICES ASSUME NEW k \in Cleaners, cleanups[k].step = "deleting",
                      cleanups[k].dropped # None, stored'[cleanups[k].dropped.audio] <= 1
               PROVE  payloads[cleanups[k].dropped.audio] = None
    BY <1>1 DEF DroppedOnce, Once
  <2>1. cleanups[k].dropped.audio \in Audios
    BY ToDeleteType DEF Expired
  <2>2. Once(cleanups[k].dropped.audio)
    BY <1>7, <2>1 DEF Once
  <2> QED
    BY <2>2 DEF OverlapInv, DroppedOnce
<1>10. OnceStoredIsTracked'
  <2> SUFFICES ASSUME NEW b \in Audios, Once(b)', payloads[b] # None
               PROVE  Pending(b)' /\ records'[b].content = payloads[b]
    BY <1>1 DEF OnceStoredIsTracked
  <2>1. b # a
    BY <1>7 DEF OverlapInv, CopiesOnce
  <2> QED
    BY <1>1, <1>4, <1>7, <2>1 DEF OverlapInv, OnceStoredIsTracked
<1>11. DeletedIsRecorded'
  <2> SUFFICES ASSUME NEW b \in Audios, records'[b] # None, records'[b].status = "deleted"
               PROVE  \/ \E i \in DOMAIN audit : DeletionLogged(i, b)
                      \/ \E k \in Cleaners : Receipt(k, b)
    BY <1>1 DEF DeletedIsRecorded, DeletionLogged, Receipt
  <2>1. b # a
    BY <1>1
  <2> QED
    BY <1>1, <2>1 DEF OverlapInv, DeletedIsRecorded
<1> QED
  BY <1>6, <1>8, <1>9, <1>10, <1>11 DEF OverlapInv

LEMMA StoreKeepsOverlapInv ==
    ASSUME TypeOK, OverlapInv, NEW c \in Callers, StorePayload(c)
    PROVE  OverlapInv'
<1> PICK a \in Audios : a = requests[c].audio
  BY RequestKinds DEF StorePayload, Request
<1>1. /\ payloads'[a] = requests[c].content
      /\ \A b \in Audios \ {a} : payloads'[b] = payloads[b]
      /\ UNCHANGED <<now, records, stored, cleanups, audit>>
  BY DEF StorePayload, TypeOK
<1>2. \A d \in Callers : requests'[d].step # "storing"
  <2>1. requests[c] \in Request
    BY RequestKinds DEF StorePayload
  <2>2. requests'[c].step = "transcribing"
    BY <2>1 DEF StorePayload, TypeOK, Request
  <2>3. \A d \in Callers \ {c} : requests'[d] = requests[d]
    BY DEF StorePayload, TypeOK
  <2> QED
    BY <2>2, <2>3 DEF StorePayload, OverlapInv, StoringOnce
<1>3. StoringOnce'
  BY <1>2 DEF StoringOnce
<1>4. /\ Once(a) => /\ Pending(a) /\ records[a].content = requests[c].content
                    /\ records[a].expires > now
  BY DEF StorePayload, OverlapInv, StoringOnce
<1>5. \A k \in Cleaners : cleanups[k].step = "deleting" =>
          \A x \in ToDelete(k) : Once(x.audio) => x.audio # a
  <2> SUFFICES ASSUME NEW k \in Cleaners, cleanups[k].step = "deleting",
                      NEW x \in ToDelete(k), Once(a), x.audio = a
               PROVE  FALSE
    OBVIOUS
  <2>0. x \in Expired
    BY ToDeleteType
  <2>1. x.expires \in Nat /\ now \in Nat
    BY <2>0 DEF Expired, TypeOK, Time
  <2>2. x.expires <= now /\ records[a].expires = x.expires
    BY DEF OverlapInv, CopiesOnce
  <2> QED
    BY <1>4, <2>1, <2>2
<1>6. CopiesOnce'
  <2>1. stored[a] # 0
    <3> SUFFICES ASSUME stored[a] = 0 PROVE FALSE
      OBVIOUS
    <3> QED
      BY <1>4 DEF Once, Pending, OverlapInv, CopiesOnce
  <2> QED
    BY <1>1, <2>1 DEF OverlapInv, CopiesOnce, Once, ToDelete
<1>7. DroppedOnce'
  <2> SUFFICES ASSUME NEW k \in Cleaners, cleanups[k].step = "deleting",
                      cleanups[k].dropped # None, Once(cleanups[k].dropped.audio)
               PROVE  payloads'[cleanups[k].dropped.audio] = None
    BY <1>1 DEF DroppedOnce, Once
  <2>1. cleanups[k].dropped.audio \in Audios \ {a}
    BY <1>5, ToDeleteType DEF Expired
  <2> QED
    BY <1>1, <2>1 DEF OverlapInv, DroppedOnce
<1>8. OnceStoredIsTracked'
  BY <1>1, <1>4 DEF OverlapInv, OnceStoredIsTracked, Once, Pending
<1>9. DeletedIsRecorded'
  BY <1>1 DEF OverlapInv, DeletedIsRecorded, DeletionLogged, Receipt
<1> QED
  BY <1>3, <1>6, <1>7, <1>8, <1>9 DEF OverlapInv

LEMMA BeginKeepsOverlapInv ==
    ASSUME TypeOK, OverlapInv, NEW k \in Cleaners, BeginCleanup(k)
    PROVE  OverlapInv'
<1> DEFINE found == {[audio |-> a, content |-> records[a].content,
                      expires |-> records[a].expires] :
                          a \in {b \in Audios : HasExpired(b)}}
<1>1. /\ cleanups'[k].dropped = None /\ cleanups'[k].expired = found /\ cleanups[k] = Idle
      /\ \A l \in Cleaners \ {k} : cleanups'[l] = cleanups[l]
      /\ UNCHANGED <<now, records, payloads, stored, requests, audit>>
  BY DEF BeginCleanup, TypeOK
<1>2. \A x \in found : /\ x.audio \in Audios /\ Pending(x.audio) /\ x.expires <= now
                       /\ records[x.audio].content = x.content
                       /\ records[x.audio].expires = x.expires
  BY DEF HasExpired
<1> HIDE DEF found
<1>3. \A x \in found : stored[x.audio] # 0 /\ records[x.audio] # None
  BY <1>2 DEF OverlapInv, CopiesOnce, Pending
<1>4. CopiesOnce'
  BY <1>1, <1>2, <1>3 DEF OverlapInv, CopiesOnce, ToDelete, Once
<1>5. StoringOnce' /\ OnceStoredIsTracked' /\ DroppedOnce'
  BY <1>1 DEF OverlapInv, StoringOnce, OnceStoredIsTracked, DroppedOnce, Once, Pending
<1>6. DeletedIsRecorded'
  BY <1>1 DEF OverlapInv, DeletedIsRecorded, DeletionLogged, Receipt, Idle
<1> QED
  BY <1>4, <1>5, <1>6 DEF OverlapInv

LEMMA DropKeepsOverlapInv ==
    ASSUME TypeOK, OverlapInv, NEW k \in Cleaners, DropPayload(k)
    PROVE  OverlapInv'
<1>1. cleanups[k] \in Cleanup /\ cleanups[k].step = "deleting" /\ cleanups[k].dropped = None
  BY CleanupKinds DEF DropPayload
<1>2. PICK x \in cleanups[k].expired :
          /\ payloads' = [payloads EXCEPT ![x.audio] = None]
          /\ cleanups' = [cleanups EXCEPT ![k].dropped = x, ![k].expired = @ \ {x}]
  BY DEF DropPayload
<1>3. x \in Expired
  BY <1>1, <1>2 DEF Cleanup
<1>4. /\ cleanups'[k].dropped = x /\ cleanups'[k].expired = cleanups[k].expired \ {x}
      /\ cleanups'[k].receipts = cleanups[k].receipts /\ cleanups'[k].step = "deleting"
      /\ \A l \in Cleaners \ {k} : cleanups'[l] = cleanups[l]
      /\ payloads'[x.audio] = None
      /\ \A a \in Audios : payloads'[a] = None \/ payloads'[a] = payloads[a]
      /\ UNCHANGED <<now, records, requests, stored, audit>>
  BY <1>1, <1>2, <1>3 DEF DropPayload, TypeOK, Cleanup, Expired
<1>5. \A l \in Cleaners : cleanups'[l].step = "deleting" =>
          cleanups[l].step = "deleting" /\ ToDelete(l)' \subseteq ToDelete(l)
  <2>1. ToDelete(k)' \subseteq ToDelete(k)
    BY <1>1, <1>2, <1>4 DEF ToDelete
  <2>2. \A l \in Cleaners \ {k} : ToDelete(l)' = ToDelete(l)
    BY <1>4 DEF ToDelete
  <2> QED
    BY <1>1, <1>4, <2>1, <2>2
<1>6. CopiesOnce'
  BY <1>4, <1>5 DEF OverlapInv, CopiesOnce, Once
<1>7. DroppedOnce'
  <2> SUFFICES ASSUME NEW l \in Cleaners, cleanups'[l].step = "deleting",
                      cleanups'[l].dropped # None, Once(cleanups'[l].dropped.audio)
               PROVE  payloads'[cleanups'[l].dropped.audio] = None
    BY <1>4 DEF DroppedOnce, Once
  <2>1. CASE l = k
    BY <1>4, <2>1
  <2>2. CASE l # k
    <3>1. cleanups'[l] = cleanups[l] /\ cleanups[l].dropped.audio \in Audios
      BY <1>4, <2>2, ToDeleteType DEF Expired
    <3> QED
      BY <1>4, <3>1 DEF OverlapInv, DroppedOnce
  <2> QED
    BY <2>1, <2>2
<1>8. StoringOnce' /\ OnceStoredIsTracked'
  BY <1>4 DEF OverlapInv, StoringOnce, OnceStoredIsTracked, Once, Pending
<1>9. DeletedIsRecorded'
  BY <1>1, <1>4 DEF OverlapInv, DeletedIsRecorded, DeletionLogged, Receipt
<1> QED
  BY <1>6, <1>7, <1>8, <1>9 DEF OverlapInv

LEMMA MarkKeepsOverlapInv ==
    ASSUME TypeOK, OverlapInv, NEW k \in Cleaners, MarkDeleted(k)
    PROVE  OverlapInv'
<1>1. /\ cleanups[k] \in Cleanup /\ cleanups[k].step = "deleting"
      /\ cleanups[k].dropped # None
  BY CleanupKinds DEF MarkDeleted
<1>2. PICK x \in Expired : cleanups[k].dropped = x
  BY <1>1 DEF Cleanup
<1>3. /\ x \in ToDelete(k) /\ x.audio \in Audios
      /\ Once(x.audio) => payloads[x.audio] = None
      /\ stored[x.audio] # 0
  BY <1>1, <1>2, ToDeleteType DEF Expired, OverlapInv, DroppedOnce, CopiesOnce
<1>4. /\ cleanups'[k].dropped = None /\ cleanups'[k].expired = cleanups[k].expired
      /\ cleanups'[k].receipts = cleanups[k].receipts \cup {x}
      /\ cleanups'[k].step = "deleting"
      /\ \A l \in Cleaners \ {k} : cleanups'[l] = cleanups[l]
      /\ records'[x.audio] = [content |-> x.content, expires |-> x.expires, status |-> "deleted"]
      /\ \A a \in Audios \ {x.audio} : records'[a] = records[a]
      /\ UNCHANGED <<now, payloads, requests, stored, audit>>
  BY <1>1, <1>2, <1>3 DEF MarkDeleted, TypeOK, Cleanup
<1>5. records'[x.audio] # None
  <2>1. [content |-> x.content, expires |-> x.expires, status |-> "deleted"] \in Record
    BY DEF Expired, Record
  <2> QED
    BY <1>4, <2>1, VoiceAssumption
<1>6. \A a \in Audios \ {x.audio} : Pending(a)' <=> Pending(a)
  BY <1>4 DEF Pending
<1>7. StoringOnce'
  <2> SUFFICES ASSUME NEW c \in Callers, requests[c].step = "storing", Once(requests[c].audio)
               PROVE  /\ Pending(requests[c].audio)'
                      /\ records'[requests[c].audio].content = requests[c].content
                      /\ records'[requests[c].audio].expires > now
    BY <1>4 DEF OverlapInv, StoringOnce, Once
  <2>1. requests[c].audio \in Audios
    BY RequestKinds DEF Request
  <2>2. requests[c].audio # x.audio
    <3>1. x.expires \in Nat /\ now \in Nat
      BY DEF Expired, TypeOK, Time
    <3> QED
      BY <1>1, <1>3, <3>1 DEF OverlapInv, StoringOnce, CopiesOnce
  <2> QED
    BY <1>4, <1>6, <2>1, <2>2 DEF OverlapInv, StoringOnce
<1>8. \A l \in Cleaners : cleanups'[l].step = "deleting" =>
          cleanups[l].step = "deleting" /\ ToDelete(l)' \subseteq ToDelete(l)
  BY <1>1, <1>4 DEF ToDelete
<1>9. CopiesOnce'
  <2>1. \A a \in Audios : stored'[a] = 0 => records'[a] = None /\ payloads'[a] = None
    BY <1>3, <1>4 DEF OverlapInv, CopiesOnce
  <2>2. ASSUME NEW l \in Cleaners, cleanups'[l].step = "deleting", NEW y \in ToDelete(l)'
        PROVE  /\ stored'[y.audio] # 0
               /\ Once(y.audio)' => /\ records'[y.audio] # None /\ y.expires <= now'
                                    /\ records'[y.audio].content = y.content
                                    /\ records'[y.audio].expires = y.expires
    <3>1. cleanups[l].step = "deleting" /\ y \in ToDelete(l) /\ y.audio \in Audios
      BY <1>8, <2>2, ToDeleteType DEF Expired
    <3>2. CASE y.audio # x.audio
      BY <1>4, <3>1, <3>2 DEF OverlapInv, CopiesOnce, Once
    <3>3. CASE y.audio = x.audio
      <4>1. Once(x.audio) => y.expires = x.expires /\ y.content = x.content /\ y.expires <= now
        BY <1>1, <1>3, <3>1, <3>3 DEF OverlapInv, CopiesOnce
      <4> QED
        BY <1>3, <1>4, <1>5, <3>3, <4>1 DEF Once
    <3> QED
      BY <3>2, <3>3
  <2> QED
    BY <2>1, <2>2 DEF CopiesOnce
<1>10. DroppedOnce'
  BY <1>4 DEF OverlapInv, DroppedOnce, Once
<1>11. OnceStoredIsTracked'
  BY <1>3, <1>4, <1>6 DEF OverlapInv, OnceStoredIsTracked, Once
<1>12. DeletedIsRecorded'
  <2>1. Receipt(k, x.audio)'
    BY <1>4 DEF Receipt
  <2>2. \A l \in Cleaners, a \in Audios : Receipt(l, a) => Receipt(l, a)'
    BY <1>4 DEF Receipt
  <2>3. \A a \in Audios \ {x.audio} : records'[a] = records[a]
    BY <1>4
  <2> QED
    BY <1>4, <2>1, <2>2, <2>3 DEF OverlapInv, DeletedIsRecorded, DeletionLogged
<1> QED
  BY <1>7, <1>9, <1>10, <1>11, <1>12 DEF OverlapInv

LEMMA EndKeepsOverlapInv ==
    ASSUME TypeOK, OverlapInv, NEW k \in Cleaners, AuditDeletion(k) \/ EndCleanup(k)
    PROVE  OverlapInv'
<1>1. /\ cleanups[k].step = "deleting" /\ cleanups[k].dropped = None /\ cleanups[k].expired = {}
      /\ UNCHANGED <<now, records, payloads, stored, requests>>
      /\ \A l \in Cleaners \ {k} : cleanups'[l] = cleanups[l]
  BY DEF AuditDeletion, EndCleanup, TypeOK
<1>2. cleanups'[k].step = "deleting" => cleanups'[k].dropped = None /\ cleanups'[k].expired = {}
  <2>1. CASE AuditDeletion(k)
    <3>1. cleanups[k] \in Cleanup
      BY <2>1, CleanupKinds DEF AuditDeletion
    <3>2. PICK x : cleanups' = [cleanups EXCEPT ![k].receipts = @ \ {x}]
      BY <2>1 DEF AuditDeletion
    <3> QED
      BY <1>1, <3>1, <3>2 DEF TypeOK, Cleanup
  <2>2. CASE EndCleanup(k)
    BY <2>2 DEF EndCleanup, TypeOK, Idle
  <2> QED
    BY <2>1, <2>2
<1>3. StoringOnce' /\ OnceStoredIsTracked'
  BY <1>1 DEF OverlapInv, StoringOnce, OnceStoredIsTracked, Once, Pending
<1>4. CopiesOnce' /\ DroppedOnce'
  BY <1>1, <1>2 DEF OverlapInv, CopiesOnce, DroppedOnce, Once, ToDelete
<1>5. DeletedIsRecorded'
  <2>1. CASE AuditDeletion(k)
    <3>1. cleanups[k] \in Cleanup
      BY <2>1, CleanupKinds DEF AuditDeletion
    <3>2. PICK x \in cleanups[k].receipts :
              /\ audit' = Append(audit, Deletion(x))
              /\ cleanups' = [cleanups EXCEPT ![k].receipts = @ \ {x}]
      BY <2>1 DEF AuditDeletion
    <3>3. cleanups'[k].step = "deleting" /\ cleanups'[k].receipts = cleanups[k].receipts \ {x}
      BY <1>1, <3>1, <3>2 DEF TypeOK, Cleanup
    <3> PICK n \in Nat : n = Len(audit)
      BY DEF TypeOK
    <3>4. /\ DOMAIN audit' = 1 .. (n + 1) /\ DOMAIN audit = 1 .. n
          /\ audit'[n + 1] = Deletion(x)
          /\ \A i \in 1 .. n : audit'[i] = audit[i]
      BY <3>2 DEF TypeOK
    <3>5. n + 1 \in DOMAIN audit' /\ DeletionLogged(n + 1, x.audio)'
      BY <3>4 DEF DeletionLogged, Deletion
    <3>6. \A i \in DOMAIN audit, a \in Audios : DeletionLogged(i, a) => i \in DOMAIN audit' /\ DeletionLogged(i, a)'
      BY <3>4 DEF DeletionLogged
    <3>7. \A l \in Cleaners, a \in Audios : Receipt(l, a) => Receipt(l, a)' \/ a = x.audio
      BY <1>1, <3>3 DEF Receipt
    <3> QED
      BY <1>1, <3>5, <3>6, <3>7 DEF OverlapInv, DeletedIsRecorded
  <2>2. CASE EndCleanup(k)
    <3>1. \A l \in Cleaners, a \in Audios : Receipt(l, a) => Receipt(l, a)'
      BY <1>1, <2>2 DEF EndCleanup, Receipt
    <3>2. audit' = audit
      BY <2>2 DEF EndCleanup
    <3> QED
      BY <1>1, <3>1, <3>2 DEF OverlapInv, DeletedIsRecorded, DeletionLogged
  <2> QED
    BY <2>1, <2>2
<1> QED
  BY <1>3, <1>4, <1>5 DEF OverlapInv

LEMMA TickKeepsOverlapInv ==
    ASSUME TypeOK, OverlapInv, Tick
    PROVE  OverlapInv'
<1>1. StoringOnce'
  BY DEF Tick, LoopIsFree, StoringOnce
<1>2. now \in Nat /\ now' = now + 1 /\ UNCHANGED <<records, payloads, stored, cleanups, audit>>
  BY DEF Tick, TypeOK, Time
<1>3. \A k \in Cleaners : cleanups[k].step = "deleting" =>
          \A x \in ToDelete(k) : x.expires \in Nat /\ (x.expires <= now => x.expires <= now')
  BY <1>2, ToDeleteType DEF Expired, Time
<1>4. CopiesOnce'
  BY <1>2, <1>3 DEF OverlapInv, CopiesOnce, ToDelete, Once
<1>5. DroppedOnce' /\ OnceStoredIsTracked' /\ DeletedIsRecorded'
  BY <1>2 DEF OverlapInv, DroppedOnce, OnceStoredIsTracked, DeletedIsRecorded, Once, Pending,
     DeletionLogged, Receipt
<1> QED
  BY <1>1, <1>4, <1>5 DEF OverlapInv

LEMMA OverlapStep == TypeOK /\ OverlapInv /\ [Next]_vars => OverlapInv'
<1> SUFFICES ASSUME TypeOK, OverlapInv, [Next]_vars PROVE OverlapInv'
  OBVIOUS
<1>1. ASSUME NEW c \in Callers, TranscriptionFails(c) \/ ChainFails(c) PROVE OverlapInv'
  <2>1. \A d \in Callers : requests'[d].step = "storing" => requests'[d] = requests[d]
    BY <1>1 DEF TranscriptionFails, ChainFails, TypeOK, Idle
  <2> QED
    BY <1>1, <2>1, AsideKeepsOverlapInv DEF TranscriptionFails, ChainFails
<1>2. ASSUME NEW c \in Callers, Transcribed(c) PROVE OverlapInv'
  <2>1. \A d \in Callers : requests'[d].step = "storing" => requests'[d] = requests[d]
    BY <1>2 DEF Transcribed, TypeOK, Idle
  <2> QED
    BY <1>2, <2>1, AsideKeepsOverlapInv DEF Transcribed
<1>3. ASSUME NEW c \in Callers, ChainAnswers(c) PROVE OverlapInv'
  <2>1. \A d \in Callers : requests'[d].step = "storing" => requests'[d] = requests[d]
    BY <1>3 DEF ChainAnswers, TypeOK, Idle
  <2>2. \A i \in DOMAIN audit : i \in DOMAIN audit' /\ audit'[i] = audit[i]
    BY <1>3 DEF ChainAnswers, TypeOK
  <2> QED
    BY <1>3, <2>1, <2>2, AsideKeepsOverlapInv DEF ChainAnswers
<1>4. ASSUME NEW c \in Callers, ChainRecords(c) PROVE OverlapInv'
  <2>1. requests[c] \in Recording
    BY <1>4, RequestKinds DEF ChainRecords
  <2>2. \A d \in Callers : requests'[d].step = "storing" => requests'[d] = requests[d]
    BY <1>4, <2>1 DEF ChainRecords, TypeOK, Recording
  <2> QED
    BY <1>4, <2>2, AsideKeepsOverlapInv DEF ChainRecords
<1>5. ASSUME NEW batch \in SUBSET Commands(CouncilHashes), CouncilRecords(batch) PROVE OverlapInv'
  BY <1>5, AsideKeepsOverlapInv DEF CouncilRecords, voice
<1>6. ASSUME UNCHANGED vars PROVE OverlapInv'
  BY <1>6, AsideKeepsOverlapInv DEF vars, voice
<1> QED
  BY <1>1, <1>2, <1>3, <1>4, <1>5, <1>6, SubmitKeepsOverlapInv, StoreKeepsOverlapInv,
     BeginKeepsOverlapInv, DropKeepsOverlapInv, MarkKeepsOverlapInv, EndKeepsOverlapInv,
     TickKeepsOverlapInv DEF Next, Clean

\* However many clean-ups overlap: raw audio whose id was stored once is only kept under
\* a record that a clean-up finds, and no record is marked as deleted without a trace of
\* the deletion, in the log or on its way there (put_audio, delete_expired_audio).
THEOREM OverlappingCleanUpsAreSafe == Spec => [](OnceStoredIsTracked /\ DeletedIsRecorded)
<1>1. Init => TypeOK /\ OverlapInv
  BY InitType, OverlapInit
<1>2. TypeOK /\ OverlapInv /\ [Next]_vars => (TypeOK /\ OverlapInv)'
  BY StepType, OverlapStep
<1>3. OverlapInv => OnceStoredIsTracked /\ DeletedIsRecorded
  BY DEF OverlapInv
<1> QED
  BY <1>1, <1>2, <1>3, PTL DEF Spec
=============================================================================
