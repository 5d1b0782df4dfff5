-------------------------- MODULE ContentGeneration --------------------------
(***************************************************************************)
(* The content generator and link router (services/cglr). A request looks  *)
(* for an earlier generation of its idempotency key, renders, routes its   *)
(* referral links, announces the content, waits for the contribution       *)
(* logger (a protocol: any await may come in between), and only then       *)
(* stores what it generated. Rendering is data: it succeeds or is refused. *)
(***************************************************************************)
EXTENDS Integers, Sequences, FiniteSets, SequencesExt, FiniteSetsExt

CONSTANTS
    Callers,           \* requests that are served at the same time
    GenerationKeys,    \* idempotency keys
    ContentRequests,   \* payloads: [l3_candidates, l3_min, seed, renders, member]
    MaxContents,       \* bound: content ids handed out
    MaxClicks          \* bound: clicks counted

\* LinkRouteRequest: candidates sorted by owner; weights in their scaled units, and
\* the seed as the number that is drawn from its hash.
ASSUME ContentsAssumption ==
    /\ MaxContents \in Nat
    /\ \A r \in ContentRequests :
          /\ r.l3_candidates \in Seq(ToSet(r.l3_candidates)) /\ r.seed \in Nat /\ r.l3_min \in Nat
          /\ \A c \in ToSet(r.l3_candidates) : c.contribution_weight \in Nat

VARIABLES
    generating,    \* what each request is doing
    contents,      \* _records of the repository, in order
    announced,     \* content.generated events: the content and its key
    credited,      \* _records of the contribution logger: source_ref, in order
    contentIds,    \* content ids handed out
    clicks         \* _click_counts by content and level

contentVars == <<generating, contents, announced, credited, contentIds, clicks>>

Levels == {"L1", "L2", "L3"}

\* The candidates that reach the threshold of the request.
Eligible(request) ==
    {i \in DOMAIN request.l3_candidates :
        request.l3_candidates[i].contribution_weight >= request.l3_min}

\* The weights that count: a candidate that is not eligible has none.
Weights(request) ==
    [i \in DOMAIN request.l3_candidates |->
        IF i \in Eligible(request) THEN request.l3_candidates[i].contribution_weight ELSE 0]

WeightsUpTo(weights) ==
    LET upTo[i \in 0..Len(weights)] == IF i = 0 THEN 0 ELSE upTo[i - 1] + weights[i]
    IN  upTo
TotalWeight(weights) == WeightsUpTo(weights)[Len(weights)]

\* select_l3_partner: the offset falls into the interval of one candidate.
PlaceAt(weights, offset) == Min({i \in DOMAIN weights : offset < WeightsUpTo(weights)[i]})

SelectL3(request) ==
    LET weights == Weights(request)
    IN  request.l3_candidates[PlaceAt(weights, request.seed % TotalWeight(weights))]

\* render_template and generate_referral_links raise before anything happened: the
\* latter also for an eligible candidate without weight.
CannotGenerate(request) ==
    \/ ~request.renders
    \/ Eligible(request) = {}
    \/ \E i \in Eligible(request) : request.l3_candidates[i].contribution_weight = 0

ContentsInit ==
    /\ generating = [c \in Callers |-> [at |-> "idle"]]
    /\ contents = <<>>
    /\ announced = {}
    /\ credited = <<>>
    /\ contentIds = 0
    /\ clicks = [g \in (1..MaxContents) \X Levels |-> 0]

GenerationsOf(key) == {g \in ToSet(contents) : g.key = key}

\* get_existing_generation: the first result, or 409 for another payload.
AnswerExisting(c, key, request) ==
    /\ generating[c].at = "idle"
    /\ GenerationsOf(key) # {}
    /\ LET first == contents[Min({i \in DOMAIN contents : contents[i].key = key})]
       IN  generating' = [generating EXCEPT ![c] =
               IF first.request = request THEN [at |-> "answered", content |-> first.content]
                                          ELSE [at |-> "conflict"]]
    /\ UNCHANGED <<contents, announced, credited, contentIds, clicks>>

RefuseGeneration(c, key, request) ==
    /\ generating[c].at = "idle"
    /\ GenerationsOf(key) = {}
    /\ CannotGenerate(request)
    /\ generating' = [generating EXCEPT ![c] = [at |-> "refused"]]
    /\ UNCHANGED <<contents, announced, credited, contentIds, clicks>>

\* generate_content up to its await of the contribution logger.
AnnounceContent(c, key, request) ==
    /\ generating[c].at = "idle"
    /\ GenerationsOf(key) = {}
    /\ ~CannotGenerate(request)
    /\ contentIds < MaxContents
    /\ contentIds' = contentIds + 1
    /\ announced' = announced \cup {[content |-> contentIds', key |-> key]}
    /\ generating' = [generating EXCEPT ![c] =
           [at |-> "logging", content |-> contentIds', key |-> key, request |-> request]]
    /\ UNCHANGED <<contents, credited, clicks>>

\* log_generation finds no member to credit: 400, after the event is out.
RefuseContribution(c) ==
    /\ generating[c].at = "logging"
    /\ ~generating[c].request.member
    /\ generating' = [generating EXCEPT ![c] = [at |-> "refused"]]
    /\ UNCHANGED <<contents, announced, credited, contentIds, clicks>>

Generation(g) == [content |-> g.content, key |-> g.key, request |-> g.request,
                  l3 |-> SelectL3(g.request)]

\* Fault: the key is looked up again before storing, after the member was credited.
StoreContent_Rechecked(c) ==
    /\ generating[c].at = "logging"
    /\ generating[c].request.member
    /\ credited' = Append(credited, generating[c].content)
    /\ contents' = IF GenerationsOf(generating[c].key) = {}
                   THEN Append(contents, Generation(generating[c])) ELSE contents
    /\ generating' = [generating EXCEPT ![c] =
           [at |-> "answered", content |-> generating[c].content]]
    /\ UNCHANGED <<announced, contentIds, clicks>>

\* The logger appended its record; without another await the generation is stored.
StoreContent(c) ==
    /\ generating[c].at = "logging"
    /\ generating[c].request.member
    /\ credited' = Append(credited, generating[c].content)
    /\ contents' = Append(contents, Generation(generating[c]))
    /\ generating' = [generating EXCEPT ![c] =
           [at |-> "answered", content |-> generating[c].content]]
    /\ UNCHANGED <<announced, contentIds, clicks>>

\* record_click counts whatever link it is given, stored or not.
ClicksCounted == MapThenSumSet(LAMBDA route : clicks[route], DOMAIN clicks)
RecordClick(content, level) ==
    /\ ClicksCounted < MaxClicks
    /\ clicks' = [clicks EXCEPT ![<<content, level>>] = @ + 1]
    /\ UNCHANGED <<generating, contents, announced, credited, contentIds>>

\* The answer is sent, and the same client may come with its next request.
NextRequest(c) ==
    /\ generating[c].at \in {"answered", "conflict", "refused"}
    /\ generating' = [generating EXCEPT ![c] = [at |-> "idle"]]
    /\ UNCHANGED <<contents, announced, credited, contentIds, clicks>>

ContentsNext ==
    \/ \E c \in Callers :
          \/ \E key \in GenerationKeys, request \in ContentRequests :
                \/ AnswerExisting(c, key, request)
                \/ RefuseGeneration(c, key, request)
                \/ AnnounceContent(c, key, request)
          \/ RefuseContribution(c)
          \/ StoreContent(c)
          \/ NextRequest(c)
    \/ \E content \in 1..MaxContents, level \in Levels : RecordClick(content, level)

ContentsSpec == ContentsInit /\ [][ContentsNext]_contentVars

----------------------------------------------------------------------------
ContentsTypeOK ==
    /\ \A c \in Callers : generating[c].at \in
           {"idle", "logging", "answered", "conflict", "refused"}
    /\ contents \in Seq([content : 1..MaxContents, key : GenerationKeys,
                         request : ContentRequests,
                         l3 : UNION {ToSet(r.l3_candidates) : r \in ContentRequests}])
    /\ announced \subseteq [content : 1..MaxContents, key : GenerationKeys]
    /\ credited \in Seq(1..MaxContents)
    /\ contentIds \in 0..MaxContents

\* However requests with one key interleave and fail, a content that was credited
\* can be read, was announced, and is credited once: no contribution is left
\* without its content (generate_content, log_generation, add_generation).
CreditedContentIsReady ==
    /\ IsInjective(credited)
    /\ credited = [i \in DOMAIN contents |-> contents[i].content]
    /\ \A g \in ToSet(contents) : [content |-> g.content, key |-> g.key] \in announced

\* The choice of the third level is fair to the weight units: each place is chosen
\* by as many offsets as it weighs, none by a candidate below the threshold; what
\* was generated has an eligible partner (select_l3_partner).
PartnersAreWeighed ==
    \A g \in ToSet(contents) :
        LET weights == Weights(g.request)
        IN  /\ \E i \in Eligible(g.request) : g.l3 = g.request.l3_candidates[i]
            /\ \A i \in DOMAIN weights :
                  Cardinality({o \in 0..(TotalWeight(weights) - 1) : PlaceAt(weights, o) = i})
                      = weights[i]

\* A generated content is credited once, when it can be read, and its referral
\* links name a partner of the third level by the weights (the whole of
\* generate_content, from the request to the contribution).
ContentsAreCredited == ContentsTypeOK /\ CreditedContentIsReady /\ PartnersAreWeighed
=============================================================================
