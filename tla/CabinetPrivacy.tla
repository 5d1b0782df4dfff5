---------------------------- MODULE CabinetPrivacy ----------------------------
(***************************************************************************)
(* Requests of data subjects in the web cabinet (services/web-cabinet).    *)
(* The handler is a plain function: every request runs on a worker thread, *)
(* and the repository rebuilds its lists from a copy and assigns the copy, *)
(* without a lock. A step here is one read or one assignment of a thread.  *)
(* Nothing but these requests writes the records of a member once they are *)
(* there; the tenant of a record never differs from that of the request.   *)
(* What a request reports as deleted is counted from its copy, the keys it *)
(* reports as withdrawn are read with the consents, and the append to the  *)
(* journal goes with the assignment: entries are lost the same way.        *)
(***************************************************************************)
EXTENDS Integers, Sequences, FiniteSets

CONSTANTS
    Members,           \* members with records in the cabinet
    Governors,         \* subjects whose role is in PRIVACY_GOVERNANCE_POLICY
    Threads,           \* worker threads, each with one request
    Reusing,           \* bound: those whose request may bear the id of another's
    ConsentKeys,       \* keys of onboarding consents
    RequiredConsents   \* those that are required

ASSUME RequiredAssumption == RequiredConsents \subseteq ConsentKeys

VARIABLES
    asked,      \* the request of each thread, or NoRequest
    pc,         \* how far the thread is in its request: [at, of a collection]
    copied,     \* what the thread read last
    records,    \* the records of each collection, by member
    consents,   \* _onboarding_consents: member, key and whether it is granted
    report,     \* the resources a thread counted as deleted, or keys it revoked
    journal     \* _data_subject_requests

privacyVars == <<asked, pc, copied, records, consents, report, journal>>

RequestTypes == {"access", "rectification", "erasure", "processing_restriction"}
NoRequest == [type |-> "none"]
Step(at, of) == [at |-> at, of |-> of]

\* The collections in the order erase_member_privacy_projection goes through them.
Lists == {"cabinet_content", "onboarding_steps"}
Dicts == {"cabinet_contributions", "onboarding_profile"}
Following(collection) ==
    CASE collection = "cabinet_content" -> "cabinet_contributions"
      [] collection = "cabinet_contributions" -> "onboarding_profile"
      [] collection = "onboarding_profile" -> "onboarding_steps"
      [] collection = "onboarding_steps" -> "onboarding_consents"

PrivacyInit ==
    /\ asked = [t \in Threads |-> NoRequest]
    /\ pc = [t \in Threads |-> Step("idle", "none")]
    /\ copied = [t \in Threads |-> {}]
    /\ records = [c \in Lists \cup Dicts |-> Members]
    /\ consents = [member : Members, key : ConsentKeys, granted : {TRUE}]
    /\ report = [t \in Threads |-> {}]
    /\ journal = {}

\* _ensure_privacy_read_allowed: a member for itself, a governor for anyone.
MayAsk(actor, member) == actor = member \/ actor \in Governors

\* create_data_subject_request, as far as the first read of a collection. The id is
\* the client's; a thread stands for an id of its own, such as the code generates, and
\* naming another thread is using the id of its request.
BeginRequest(t, actor, member, type, keys, request_id) ==
    /\ asked[t] = NoRequest
    /\ keys # {} => type = "processing_restriction"
    /\ asked' = [asked EXCEPT ![t] = [type |-> type, actor |-> actor, member |-> member,
                                      keys |-> keys, request_id |-> request_id]]
    /\ pc' = [pc EXCEPT ![t] =
           IF MayAsk(actor, member)
             THEN CASE type = "erasure" -> Step("reading", "cabinet_content")
                    [] type = "processing_restriction" ->
                           Step("reading", "consents_to_withdraw")
                    [] OTHER -> Step("reading", "journal")
             ELSE Step("forbidden", "none")]
    /\ UNCHANGED <<copied, records, consents, report, journal>>

\* The list comprehension over a collection; for a dict, the keys to pop.
ReadCollection(t) ==
    /\ pc[t].at = "reading" /\ pc[t].of \in Lists \cup Dicts
    /\ copied' = [copied EXCEPT ![t] = records[pc[t].of]]
    /\ pc' = [pc EXCEPT ![t].at = "copied"]
    /\ UNCHANGED <<asked, records, consents, report, journal>>

\* The filtered copy replaces a list; a dict loses the member's own keys.
EraseCollection(t) ==
    /\ \E c \in Lists \cup Dicts :
          /\ pc[t] = Step("copied", c)
          /\ records' = [records EXCEPT ![c] =
                (IF c \in Lists THEN copied[t] ELSE @) \ {asked[t].member}]
          /\ report' = [report EXCEPT ![t] =
                @ \cup (IF asked[t].member \in copied[t] THEN {c} ELSE {})]
          /\ pc' = [pc EXCEPT ![t] = Step("reading", Following(c))]
    /\ UNCHANGED <<asked, copied, consents, journal>>

\* The iteration over the contributions meets a pop of another thread: Python
\* raises RuntimeError, and the request ends half way with an error.
IterationBreaks(t) ==
    /\ pc[t] = Step("copied", "cabinet_contributions")
    /\ records["cabinet_contributions"] # copied[t]
    /\ pc' = [pc EXCEPT ![t].at = "failed"]
    /\ UNCHANGED <<asked, copied, records, consents, report, journal>>

ReadConsents(t) ==
    /\ pc[t].at = "reading" /\ pc[t].of \in {"onboarding_consents", "consents_to_withdraw"}
    /\ copied' = [copied EXCEPT ![t] = consents]
    /\ pc' = [pc EXCEPT ![t].at = "copied"]
    /\ UNCHANGED <<asked, records, consents, report, journal>>

EraseConsents(t) ==
    /\ pc[t] = Step("copied", "onboarding_consents")
    /\ consents' = {r \in copied[t] : r.member # asked[t].member}
    /\ report' = [report EXCEPT ![t] =
           @ \cup (IF consents' # copied[t] THEN {"onboarding_consents"} ELSE {})]
    /\ pc' = [pc EXCEPT ![t] = Step("reading", "journal")]
    /\ UNCHANGED <<asked, copied, records, journal>>

\* Fault: the keys the member named are withdrawn for every member.
Withdrawable_Everyones(t, record) ==
    /\ record.granted
    /\ record.key \notin RequiredConsents
    /\ asked[t].keys = {} => record.member = asked[t].member
    /\ asked[t].keys # {} => record.key \in asked[t].keys

\* Named keys, or all when none is named, and never a required consent.
Withdrawable(t, record) ==
    /\ record.granted
    /\ record.key \notin RequiredConsents
    /\ record.member = asked[t].member
    /\ asked[t].keys # {} => record.key \in asked[t].keys

WithdrawConsents(t) ==
    /\ pc[t] = Step("copied", "consents_to_withdraw")
    /\ consents' = {[r EXCEPT !.granted = @ /\ ~Withdrawable(t, r)] : r \in copied[t]}
    /\ report' = [report EXCEPT ![t] = {r.key : r \in {s \in copied[t] : Withdrawable(t, s)}}]
    /\ pc' = [pc EXCEPT ![t] = Step("reading", "journal")]
    /\ UNCHANGED <<asked, copied, records, journal>>

JournalEntry(t) ==
    [request_id |-> asked[t].request_id, member |-> asked[t].member, type |-> asked[t].type,
     status |-> IF asked[t].type = "rectification" THEN "registered" ELSE "completed",
     report |-> report[t]]

\* save_data_subject_request: the copy without the entries of the request id, whose
\* ever they are, is assigned, the new entry appended, and the request answered.
ReadJournal(t) ==
    /\ pc[t] = Step("reading", "journal")
    /\ copied' = [copied EXCEPT ![t] = {e \in journal : e.request_id # asked[t].request_id}]
    /\ pc' = [pc EXCEPT ![t].at = "copied"]
    /\ UNCHANGED <<asked, records, consents, report, journal>>

SaveJournal(t) ==
    /\ pc[t] = Step("copied", "journal")
    /\ journal' = copied[t] \cup {JournalEntry(t)}
    /\ pc' = [pc EXCEPT ![t].at = "answered"]
    /\ UNCHANGED <<asked, copied, records, consents, report>>

RequestStep(t) ==
    \/ \E actor \in Members \cup Governors, member \in Members,
          type \in RequestTypes, keys \in SUBSET ConsentKeys,
          request_id \in (IF t \in Reusing THEN Threads ELSE {t}) :
             BeginRequest(t, actor, member, type, keys, request_id)
    \/ ReadCollection(t) \/ EraseCollection(t) \/ IterationBreaks(t)
    \/ ReadConsents(t) \/ EraseConsents(t) \/ WithdrawConsents(t)
    \/ ReadJournal(t) \/ SaveJournal(t)

PrivacyNext == \E t \in Threads : RequestStep(t)

PrivacySpec == PrivacyInit /\ [][PrivacyNext]_privacyVars

----------------------------------------------------------------------------
PrivacyTypeOK ==
    /\ \A t \in Threads : asked[t] = NoRequest \/ asked[t].type \in RequestTypes
    /\ records \in [Lists \cup Dicts -> SUBSET Members]
    /\ consents \subseteq [member : Members, key : ConsentKeys, granted : BOOLEAN]
    /\ \A e \in journal : e.member \in Members /\ e.request_id \in Threads

AskedFor(member, type) ==
    \E t \in Threads : /\ asked[t].type = type
                       /\ asked[t].member = member
                       /\ MayAsk(asked[t].actor, member)

\* The copies that requests write over each other bring data back at worst: no
\* record disappears and no consent is withdrawn unless its own member, or a
\* governor for it, asked for just that (erase_member_privacy_projection,
\* withdraw_onboarding_consents, _ensure_privacy_read_allowed).
OthersAreUntouched ==
    /\ PrivacyTypeOK
    /\ \A m \in Members :
           /\ ~AskedFor(m, "erasure") =>
                 /\ \A c \in Lists \cup Dicts : m \in records[c]
                 /\ \A k \in ConsentKeys : \E r \in consents : r.member = m /\ r.key = k
           /\ ~AskedFor(m, "processing_restriction") =>
                 \A r \in consents : r.member = m => r.granted
           /\ \A r \in consents : r.key \in RequiredConsents => r.granted

OwnId(t) == \A u \in Threads \ {t} : asked[u] = NoRequest \/ asked[u].request_id # asked[t].request_id

\* What the compliance document says: an answered request was carried out, and
\* it is in the journal, unless another came under its id (create_data_subject_request).
AnsweredIsDone ==
    \A t \in Threads : pc[t].at = "answered" =>
        /\ OwnId(t) => JournalEntry(t) \in journal
        /\ asked[t].type = "erasure" =>
              \A c \in Lists \cup Dicts : asked[t].member \notin records[c]

---------------------------------------------------------------------------
\* The pages of the cabinet that are put together from several collections
\* (web_cabinet/api.py), read while requests of data subjects erase the same
\* records on other threads. Each collection is read once, in the order of the
\* handler, and what was erased in between is missing from the later ones.
\*
\* Abstracted: a member has one content item with its referral links, and its
\* required steps stand for one, completed or not. The assistant's answers
\* belong to the tenant and are never erased.

CONSTANTS
    Meanwhile,   \* bound: the threads whose requests run while pages are read
    Readers,     \* threads that build a page, one each
    Completed,   \* members whose required onboarding steps are all completed
    Answers      \* the questions the assistant knows

ASSUME PagesAssumption == Completed \subseteq Members /\ Meanwhile \subseteq Threads

VARIABLES
    page,        \* reader -> [kind, member] it was asked for
    readSoFar,   \* reader -> what it has read of each collection
    shown        \* reader -> the page it answered with

pageVars == <<page, readSoFar, shown>>

NoPage == [kind |-> "none"]
NothingShown == [kind |-> "nothing"]

\* The collections of each page, in the order its builder reads them.
Reads == [cabinet    |-> <<"cabinet_contributions", "cabinet_content", "referral_links">>,
          onboarding |-> <<"onboarding_profile", "onboarding_steps", "consents">>,
          registry   |-> <<"consents">>,
          request    |-> <<"journal">>]

PagesInit ==
    /\ page = [r \in Readers |-> NoPage]
    /\ readSoFar = [r \in Readers |-> <<>>]
    /\ shown = [r \in Readers |-> NothingShown]

\* _ensure_cabinet_read_allowed, _ensure_onboarding_read_allowed: a member its
\* own pages, a governor anybody's.
OpenPage(r, actor, member, kind) ==
    /\ page[r] = NoPage
    /\ MayAsk(actor, member)
    /\ page' = [page EXCEPT ![r] = [kind |-> kind, member |-> member]]
    /\ UNCHANGED <<readSoFar, shown, privacyVars>>

NextRead(r) == Reads[page[r].kind][Len(readSoFar[r]) + 1]

Remaining(r) == page[r] # NoPage /\ Len(readSoFar[r]) < Len(Reads[page[r].kind])

Reading(r, found) ==
    /\ readSoFar' = [readSoFar EXCEPT ![r] = Append(@, found)]
    /\ UNCHANGED <<page, shown, privacyVars>>

ListOfMember(r) ==
    /\ Remaining(r)
    /\ NextRead(r) \in Lists \cup Dicts
    /\ Reading(r, page[r].member \in records[NextRead(r)])

\* The links are those of a second listing of the content.
ListReferralLinks(r) ==
    /\ Remaining(r)
    /\ NextRead(r) = "referral_links"
    /\ Reading(r, page[r].member \in records["cabinet_content"])

ListConsents(r) ==
    /\ Remaining(r)
    /\ NextRead(r) = "consents"
    /\ Reading(r, {c \in consents : c.member = page[r].member})

\* The request is looked up by its id; whose it is decides who may read it.
FindRequest(r) ==
    /\ Remaining(r)
    /\ NextRead(r) = "journal"
    /\ Reading(r, {e \in journal : e.member = page[r].member})

\* A step of the member that is required, if it was read.
RequiredSteps(found) == IF found THEN 1 ELSE 0
CompletedSteps(found, member) == IF found /\ member \in Completed THEN 1 ELSE 0

Required(cs) == {c \in cs : c.key \in RequiredConsents}
GrantedRequired(cs) == {c \in Required(cs) : c.granted}

Readiness(member, steps, cs) ==
    [required |-> RequiredSteps(steps) + Cardinality(Required(cs)),
     done |-> CompletedSteps(steps, member) + Cardinality(GrantedRequired(cs)),
     ready |-> /\ RequiredSteps(steps) + Cardinality(Required(cs)) > 0
               /\ CompletedSteps(steps, member) >= RequiredSteps(steps)
               /\ GrantedRequired(cs) = Required(cs)]

\* n / d to the nearest whole number, from half way between two to the even one.
Rounded(n, d) ==
    LET q == n \div d
    IN IF 2 * (n % d) > d \/ (2 * (n % d) = d /\ q % 2 = 1) THEN q + 1 ELSE q

ProgressPercent(readiness) ==
    IF readiness.required = 0 THEN 0 ELSE Rounded(readiness.done * 100, readiness.required)

Overview(contribution, content, links) ==
    [kind |-> "cabinet", contribution |-> contribution, content |-> content, links |-> links]

\* Without a profile the page says that onboarding begins now.
OnboardingOverview(member, profile, steps, cs) ==
    [kind |-> "onboarding", member |-> member, started |-> profile,
     readiness |-> Readiness(member, steps, cs),
     progress |-> ProgressPercent(Readiness(member, steps, cs)),
     assistant |-> Answers # {}]

Complete(r, kind) == page[r] # NoPage /\ page[r].kind = kind /\ ~Remaining(r) /\ shown[r] = NothingShown

Shows(r, what) ==
    /\ shown' = [shown EXCEPT ![r] = what]
    /\ UNCHANGED <<page, readSoFar, privacyVars>>

ShowCabinet(r) ==
    /\ Complete(r, "cabinet")
    /\ Shows(r, Overview(readSoFar[r][1], readSoFar[r][2], readSoFar[r][3]))

ShowOnboarding(r) ==
    /\ Complete(r, "onboarding")
    /\ Shows(r, OnboardingOverview(page[r].member, readSoFar[r][1], readSoFar[r][2], readSoFar[r][3]))

ShowRegistry(r) ==
    /\ Complete(r, "registry")
    /\ Shows(r, [kind |-> "registry", items |-> readSoFar[r][1]])

\* 404 when the journal has lost or never had it.
ShowRequest(r) ==
    /\ Complete(r, "request")
    /\ Shows(r, [kind |-> "request", found |-> readSoFar[r][1]])

PagesNext ==
    \/ \E t \in Meanwhile : RequestStep(t) /\ UNCHANGED pageVars
    \/ \E r \in Readers :
          \/ \E actor \in Members \cup Governors, member \in Members, kind \in DOMAIN Reads :
                OpenPage(r, actor, member, kind)
          \/ ListOfMember(r) \/ ListReferralLinks(r) \/ ListConsents(r) \/ FindRequest(r)
          \/ ShowCabinet(r) \/ ShowOnboarding(r) \/ ShowRegistry(r) \/ ShowRequest(r)

PagesSpec == PrivacyInit /\ PagesInit /\ [][PagesNext]_<<privacyVars, pageVars>>

---------------------------------------------------------------------------
OnboardingShown == {shown[r] : r \in {x \in Readers : shown[x].kind = "onboarding"}}

\* A page that recommends handing a member's questionnaire to the Council is
\* read from several collections, and the steps may be gone before the
\* consents: it recommends a member whose steps are not completed only while
\* that member's records are being erased, and a full bar means ready as long as
\* fewer than 200 steps and consents are required: with more it is rounded up to full.
\* No other request on another thread can make it (_build_onboarding_overview,
\* _onboarding_readiness, _onboarding_progress_percent).
ReadinessIsEarned ==
    \A s \in OnboardingShown :
        /\ s.readiness.ready => s.member \in Completed \/ AskedFor(s.member, "erasure")
        /\ s.readiness.ready => s.progress = 100
        /\ s.progress = 100 => s.readiness.ready \/ s.readiness.required >= 200
        /\ s.member \in Completed /\ ~AskedFor(s.member, "erasure") => s.readiness.ready
=============================================================================
