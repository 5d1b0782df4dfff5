---------------------------- MODULE VoiceToChain ----------------------------
(***************************************************************************)
(* Voice to chain (services/voice-to-chain/voice_to_chain): raw audio is   *)
(* stored for a limited time and transcribed, the hash of the transcript   *)
(* is recorded by the auditor (AuditChain), and a clean-up deletes what    *)
(* has outlived its time.                                                  *)
(*                                                                         *)
(* POST /voice/transcribe is a coroutine of the event loop, suspended at   *)
(* the transcriber and at the auditor.  POST /voice/retention/cleanup is a *)
(* plain function, which FastAPI runs on a worker thread: it interleaves   *)
(* with the loop and with other clean-ups between any two writes to the    *)
(* store.  One tenant is modelled: all keys start with the tenant.         *)
(***************************************************************************)
EXTENDS AuditChain, Sequences

CONSTANTS
    Audios,         \* audio ids
    Contents,       \* what an audio may contain, and is transcribed to
    Callers,        \* requests that may be under way at a time
    Cleaners,       \* worker threads running a clean-up
    TTL,            \* raw_audio_ttl
    MaxTime,        \* bound: the end of the clock
    MaxStored       \* bound: how often an audio id is stored

VARIABLES
    now,        \* the clock
    records,    \* the TemporaryAudioRecord of each audio id, or None
    payloads,   \* the raw audio kept for it, or None
    stored,     \* history: how often put_audio stored the audio id
    requests,   \* where each transcription stands
    cleanups,   \* where each clean-up stands
    audit       \* the local audit log

voice == <<now, records, payloads, stored, requests, cleanups, audit>>
vars == <<chain, acknowledged, voice>>

Time == 0 .. MaxTime
Record == [content : Contents, expires : Time, status : {"pending_deletion", "deleted"}]

\* The audit hash of a transcript covers what was said, when the audio
\* expires and when the transcription was completed.
VoiceHash == [audio : Audios, content : Contents, expires : Time, completed : Time]

Idle == [step |-> "idle"]
Request == [step : {"storing", "transcribing"}, audio : Audios, event : EventIds,
            content : Contents, expires : Time]
Recording == [step : {"recording", "recorded"}, event : EventIds, hash : VoiceHash]

\* An audio that a clean-up found expired, as its copy of the store has it.
Expired == [audio : Audios, content : Contents, expires : Time]

\* A clean-up goes through the copy it took ("expired" is what is left of it)
\* and collects receipts; "dropped" is the audio whose payload is gone and
\* whose record is not yet marked.
Cleanup == [step : {"deleting"}, expired : SUBSET Expired,
            dropped : Expired \cup {None}, receipts : SUBSET Expired]

Entry ==
    [type : {"voice.transcript.recorded"}, hash : VoiceHash]
        \cup [type : {"voice.audio.deleted"}, audio : Audios, content : Contents]

\* Different things have different hashes.
ASSUME VoiceAssumption ==
    /\ TTL \in Nat \ {0}
    /\ MaxTime \in Nat
    /\ MaxStored \in Nat
    /\ CouncilHashes \cap VoiceHash = {}
    /\ None \notin Contents \cup VoiceHash \cup Record \cup Expired

Init ==
    /\ ChainInit
    /\ now = 0
    /\ records = [a \in Audios |-> None]
    /\ payloads = [a \in Audios |-> None]
    /\ stored = [a \in Audios |-> 0]
    /\ requests = [c \in Callers |-> Idle]
    /\ cleanups = [k \in Cleaners |-> Idle]
    /\ audit = <<>>

-----------------------------------------------------------------------------
(* Transcription, on the event loop.                                       *)

Pending(a) == records[a] # None /\ records[a].status = "pending_deletion"

\* Mutant: put_audio replaces what is stored.
Refused_Never(a) == FALSE

\* put_audio refuses an id that is pending deletion.
Refused(a) == Pending(a)

\* No request is between the two writes of put_audio: the loop is free.
LoopIsFree == \A c \in Callers : requests[c].step # "storing"

\* POST /voice/transcribe stores the audio; put_audio first writes the record.
Submit(c, a, e, content) ==
    /\ LoopIsFree
    /\ requests[c] = Idle
    /\ ~Refused(a)
    /\ stored[a] < MaxStored /\ now + TTL <= MaxTime
    /\ records' = [records EXCEPT ![a] =
            [content |-> content, expires |-> now + TTL, status |-> "pending_deletion"]]
    /\ stored' = [stored EXCEPT ![a] = @ + 1]
    /\ requests' = [requests EXCEPT ![c] = [step |-> "storing", audio |-> a,
            event |-> e, content |-> content, expires |-> now + TTL]]
    /\ UNCHANGED <<chain, acknowledged, now, payloads, cleanups, audit>>

\* The second write; the request then waits for the transcriber.
StorePayload(c) ==
    /\ requests[c].step = "storing"
    /\ payloads' = [payloads EXCEPT ![requests[c].audio] = requests[c].content]
    /\ requests' = [requests EXCEPT ![c].step = "transcribing"]
    /\ UNCHANGED <<chain, acknowledged, now, records, stored, cleanups, audit>>

\* WhisperCppTranscriptionError: the request fails, the audio stays pending.
TranscriptionFails(c) ==
    /\ LoopIsFree
    /\ requests[c].step = "transcribing"
    /\ requests' = [requests EXCEPT ![c] = Idle]
    /\ UNCHANGED <<chain, acknowledged, now, records, payloads, stored, cleanups, audit>>

\* The transcript is hashed and sent to the auditor.
Transcribed(c) ==
    /\ LoopIsFree
    /\ requests[c].step = "transcribing"
    /\ requests' = [requests EXCEPT ![c] = [step |-> "recording",
            event |-> requests[c].event,
            hash |-> [audio |-> requests[c].audio, content |-> requests[c].content,
                      expires |-> requests[c].expires, completed |-> now]]]
    /\ UNCHANGED <<chain, acknowledged, now, records, payloads, stored, cleanups, audit>>

Sent(c) == [event |-> requests[c].event, hash |-> requests[c].hash]

\* The auditor records the hash of request c.
ChainRecords(c) ==
    /\ requests[c].step = "recording"
    /\ Acceptable({Sent(c)})
    /\ chain' = Recorded({Sent(c)})
    /\ requests' = [requests EXCEPT ![c].step = "recorded"]
    /\ UNCHANGED <<acknowledged, now, records, payloads, stored, cleanups, audit>>

\* The auditor refuses, is not reached, or its answer is lost.
ChainFails(c) ==
    /\ LoopIsFree
    /\ requests[c].step \in {"recording", "recorded"}
    /\ requests' = [requests EXCEPT ![c] = Idle]
    /\ UNCHANGED <<chain, acknowledged, now, records, payloads, stored, cleanups, audit>>

\* Mutant: the local audit record does not wait for the auditor.
ChainAnswers_Early(c) ==
    /\ LoopIsFree
    /\ requests[c].step \in {"recording", "recorded"}
    /\ audit' = Append(audit,
            [type |-> "voice.transcript.recorded", hash |-> requests[c].hash])
    /\ acknowledged' = acknowledged \cup {Sent(c)}
    /\ requests' = [requests EXCEPT ![c] = Idle]
    /\ UNCHANGED <<chain, now, records, payloads, stored, cleanups>>

\* The receipt of the auditor arrives: the transcript is recorded in the
\* local audit log, and the caller is answered.
ChainAnswers(c) ==
    /\ LoopIsFree
    /\ requests[c].step = "recorded"
    /\ audit' = Append(audit,
            [type |-> "voice.transcript.recorded", hash |-> requests[c].hash])
    /\ acknowledged' = acknowledged \cup {Sent(c)}
    /\ requests' = [requests EXCEPT ![c] = Idle]
    /\ UNCHANGED <<chain, now, records, payloads, stored, cleanups>>

\* The council records a batch of its own, over any event ids.
CouncilRecords(batch) == RecordBatch(batch) /\ UNCHANGED voice

-----------------------------------------------------------------------------
(* Clean-up, on worker threads.                                            *)

\* Mutant: an audio that expires now is left for the next clean-up.
HasExpired_Later(a) == Pending(a) /\ records[a].expires < now

HasExpired(a) == Pending(a) /\ records[a].expires <= now

\* delete_expired_audio copies the records; the callers' "now" is the clock.
BeginCleanup(k) ==
    /\ cleanups[k] = Idle
    /\ cleanups' = [cleanups EXCEPT ![k] = [step |-> "deleting", dropped |-> None,
            receipts |-> {},
            expired |-> {[audio |-> a, content |-> records[a].content,
                          expires |-> records[a].expires] :
                            a \in {b \in Audios : HasExpired(b)}}]]
    /\ UNCHANGED <<chain, acknowledged, now, records, payloads, stored, requests, audit>>

DropPayload(k) ==
    /\ cleanups[k].step = "deleting" /\ cleanups[k].dropped = None
    /\ \E x \in cleanups[k].expired :
           /\ payloads' = [payloads EXCEPT ![x.audio] = None]
           /\ cleanups' = [cleanups EXCEPT ![k].dropped = x, ![k].expired = @ \ {x}]
    /\ UNCHANGED <<chain, acknowledged, now, records, stored, requests, audit>>

\* The record of the copy replaces the one in the store.
MarkDeleted(k) ==
    /\ cleanups[k].step = "deleting" /\ cleanups[k].dropped # None
    /\ LET x == cleanups[k].dropped
       IN  /\ records' = [records EXCEPT ![x.audio] =
                  [content |-> x.content, expires |-> x.expires, status |-> "deleted"]]
           /\ cleanups' = [cleanups EXCEPT ![k].dropped = None,
                                           ![k].receipts = @ \cup {x}]
    /\ UNCHANGED <<chain, acknowledged, now, payloads, stored, requests, audit>>

Deletion(x) == [type |-> "voice.audio.deleted", audio |-> x.audio, content |-> x.content]

\* cleanup_expired_audio records the deletions one after the other and
\* answers.
AuditDeletion(k) ==
    /\ cleanups[k].step = "deleting"
    /\ cleanups[k].dropped = None /\ cleanups[k].expired = {}
    /\ \E x \in cleanups[k].receipts :
           /\ audit' = Append(audit, Deletion(x))
           /\ cleanups' = [cleanups EXCEPT ![k].receipts = @ \ {x}]
    /\ UNCHANGED <<chain, acknowledged, now, records, payloads, stored, requests>>

EndCleanup(k) ==
    /\ cleanups[k].step = "deleting" /\ cleanups[k].dropped = None
    /\ cleanups[k].expired = {} /\ cleanups[k].receipts = {}
    /\ cleanups' = [cleanups EXCEPT ![k] = Idle]
    /\ UNCHANGED <<chain, acknowledged, now, records, payloads, stored, requests, audit>>

\* A tick of the clock is a good part of TTL, which is hours: none falls
\* between the two writes of put_audio.
Tick ==
    /\ LoopIsFree
    /\ now < MaxTime
    /\ now' = now + 1
    /\ UNCHANGED <<chain, acknowledged, records, payloads, stored, requests, cleanups, audit>>

Clean(k) ==
    BeginCleanup(k) \/ DropPayload(k) \/ MarkDeleted(k) \/ AuditDeletion(k) \/ EndCleanup(k)

Next ==
    \/ \E c \in Callers, a \in Audios, e \in EventIds, content \in Contents :
           Submit(c, a, e, content)
    \/ \E c \in Callers : StorePayload(c)
    \/ \E c \in Callers : TranscriptionFails(c)
    \/ \E c \in Callers : Transcribed(c)
    \/ \E c \in Callers : ChainRecords(c)
    \/ \E c \in Callers : ChainFails(c)
    \/ \E c \in Callers : ChainAnswers(c)
    \/ \E batch \in SUBSET Commands(CouncilHashes) : CouncilRecords(batch)
    \/ \E k \in Cleaners : Clean(k)
    \/ Tick

Spec == Init /\ [][Next]_vars

\* The clock goes on, the loop gets its turn, and somebody keeps calling the
\* clean-up, as the 24 hours of the documentation suppose.
FairSpec ==
    /\ Spec
    /\ WF_vars(Tick)
    /\ \A c \in Callers : WF_vars(StorePayload(c))
    /\ \E k \in Cleaners : WF_vars(Clean(k))

-----------------------------------------------------------------------------
TypeOK ==
    /\ chain \in [EventIds -> CouncilHashes \cup VoiceHash \cup {None}]
    /\ acknowledged \subseteq Commands(CouncilHashes \cup VoiceHash)
    /\ now \in Time
    /\ records \in [Audios -> Record \cup {None}]
    /\ payloads \in [Audios -> Contents \cup {None}]
    /\ stored \in [Audios -> 0 .. MaxStored]
    /\ requests \in [Callers -> {Idle} \cup Request \cup Recording]
    /\ cleanups \in [Cleaners -> {Idle} \cup Cleanup]
    /\ audit \in Seq(Entry)

\* Who has a receipt finds that very hash under the event id, for ever: a
\* later command with another hash, or an earlier one of the same batch, is a
\* conflict (_record_for_command).
AcknowledgedIsRecorded == \A c \in acknowledged : chain[c.event] = c.hash

\* What the chain has of the council came from a batch that was acknowledged
\* as a whole: one in conflict leaves nothing behind (_record_batch).
NothingByHalves ==
    \A e \in EventIds : chain[e] \in CouncilHashes =>
        [event |-> e, hash |-> chain[e]] \in acknowledged

\* A receipt of the auditor is a promise for ever: what was acknowledged stays
\* on the chain as it was, and nothing of a refused batch does (record_audit_hash
\* and _record_batch, with lost answers and ids used twice).
ReceiptsAreKept == TypeOK /\ AcknowledgedIsRecorded /\ NothingByHalves

\* A transcript in the local audit log is on the chain under the same hash
\* and was answered for, and no transcript was answered for without the log
\* (transcribe writes it between the auditor's receipt and its own).
TranscriptsAreAudited ==
    \A h \in VoiceHash :
        (\E i \in DOMAIN audit : audit[i] = [type |-> "voice.transcript.recorded", hash |-> h])
            <=> (\E e \in EventIds : chain[e] = h /\ [event |-> e, hash |-> h] \in acknowledged)

\* Raw audio is only kept under a record that a clean-up will still find
\* (delete_expired_audio skips what is not pending deletion).
RawAudioIsTracked ==
    \A a \in Audios : payloads[a] # None => Pending(a) /\ records[a].content = payloads[a]

\* Deletions of audio a that are recorded or about to be.
Deletions(a) ==
    Cardinality({i \in DOMAIN audit :
        audit[i].type = "voice.audio.deleted" /\ audit[i].audio = a})
    + Cardinality({k \in Cleaners : cleanups[k] # Idle /\
        \E x \in cleanups[k].receipts : x.audio = a})

\* Each time an audio was stored, but the last if it is still pending, its
\* deletion is recorded once.
OneDeletionEach ==
    \A a \in Audios : Deletions(a) = IF Pending(a) THEN stored[a] - 1 ELSE stored[a]

\* Stored raw audio is eventually deleted (docs/modules/voice-to-chain.md: no
\* later than 24 hours), provided that clean-ups go on.
RawAudioIsDeleted == \A a \in Audios : payloads[a] # None ~> payloads[a] = None

\* Every stored raw audio is deleted in the end, and each deletion is recorded
\* once (delete_expired_audio and cleanup_expired_audio beside new uploads).
RawAudioEnds == []OneDeletionEach /\ RawAudioIsDeleted
=============================================================================
