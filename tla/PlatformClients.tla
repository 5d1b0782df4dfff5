-------------------------- MODULE PlatformClients --------------------------
(***************************************************************************)
(* The publishers of the messenger adapter, one per platform               *)
(* (services/messenger-adapter: vk_adapter.py, ok_adapter.py,              *)
(* dzen_adapter.py, telegram_adapter.py, telegram_telethon.py and          *)
(* generic_http_publisher.py), under BasePlatformAdapter.publish, which    *)
(* finds the token of the tenant once and repeats the request.             *)
(*                                                                         *)
(* A publisher sends one request for each attempt and must tell from the   *)
(* answer whether the post was made, was refused for good, or may be tried *)
(* again. The platform is the environment: it may carry a request out and  *)
(* lose the answer, or send one that cannot be read. Tokens, the registry  *)
(* and the HTTP configuration change between attempts.                     *)
(***************************************************************************)
EXTENDS Naturals, FiniteSets, Functions

CONSTANTS
    Publications,     \* publications, each published once
    Accounts,         \* tenants
    AccountOf,        \* publication -> its tenant
    NoAnswer, NoKey,
    TokenIds,
    MaxVersions,      \* bound: tokens saved
    Attempts          \* RetryPolicy.max_attempts

ASSUME ClientsAssumption ==
    /\ AccountOf \in [Publications -> Accounts]
    /\ Attempts \in Nat \ {0}
    /\ NoKey \notin Publications

VARIABLES
    client,        \* the publisher under the adapter
    registered,    \* tenant -> status of the platform and parameters.http
    tokenStore,    \* InMemoryPlatformTokenStore: tenant -> tokens and the primary
    delivery,      \* publication -> where its publish is
    wire,          \* publication -> the request that is under way, or NoAnswer
    requests,      \* every request that was sent
    made           \* posts on the platform: the requests that made them

clientVars == <<client, registered, tokenStore, delivery, wire, requests, made>>

Clients == {"vk", "ok", "dzen", "telegram", "telethon", "http"}

ClientsInit ==
    /\ client \in Clients
    /\ registered = [t \in Accounts |-> [status |-> "active", http |-> "keyed"]]
    /\ tokenStore = [t \in Accounts |->
           [primary |-> CHOOSE i \in TokenIds : TRUE,
            tokens |-> [i \in TokenIds |-> [tenant |-> t, version |-> 1]]]]
    /\ delivery = [p \in Publications |-> 
           [step |-> "new", attempt |-> 0, token |-> NoAnswer, error |-> "none"]]
    /\ wire = [p \in Publications |-> NoAnswer]
    /\ requests = {} /\ made = {}

---------------------------------------------------------------------------
\* save_token: the token that is saved last is the primary one.
SaveToken(t, i) ==
    /\ tokenStore[t].tokens[i].version < MaxVersions
    /\ tokenStore' = [tokenStore EXCEPT ![t] =
           [primary |-> i,
            tokens |-> [@.tokens EXCEPT ![i] = [tenant |-> t, version |-> @.version + 1]]]]
    /\ UNCHANGED <<client, registered, delivery, wire, requests, made>>

UpdatePlatform(t, status) ==
    /\ registered' = [registered EXCEPT ![t].status = status]
    /\ UNCHANGED <<client, tokenStore, delivery, wire, requests, made>>

UpsertHTTP(t, http) ==
    /\ client = "http"
    /\ registered' = [registered EXCEPT ![t].http = http]
    /\ UNCHANGED <<client, tokenStore, delivery, wire, requests, made>>

RequireToken(t) == tokenStore[t].tokens[tokenStore[t].primary]

\* The nonce and the associated data of the cipher name the tenant and platform.
DecryptToken(record, t) == record.tenant = t

Active(t) == registered[t].status = "active"

\* Failures of one kind: the attempt may be repeated, or never.
Retryable(error) ==
    error \in {"platform_timeout", "platform_unavailable", "rate_limited", "invalid_response"}

GiveUp(p, error) ==
    delivery' = [delivery EXCEPT ![p].step = "failed", ![p].error = error]

BeginPublish(p) ==
    LET t == AccountOf[p]
    IN  /\ delivery[p].step = "new"
        /\ IF Active(t) /\ DecryptToken(RequireToken(t), t)
           THEN delivery' = [delivery EXCEPT ![p] =
                    [step |-> "ready", attempt |-> 1, token |-> RequireToken(t), error |-> "none"]]
           ELSE GiveUp(p, "platform_paused")
        /\ UNCHANGED <<client, registered, tokenStore, wire, requests, made>>

---------------------------------------------------------------------------
\* What a request carries that matters here: the token, and the key under which a
\* platform makes one post only.
Request(p, key) ==
    [publication |-> p, attempt |-> delivery[p].attempt, token |-> delivery[p].token,
     key |-> key, allowed |-> Active(AccountOf[p])]

VKRequest(p) == Request(p, NoKey)

OKRequest(p) == Request(p, NoKey)

\* Fault: the key tells the attempts of one publication apart.
DzenRequest_PerAttempt(p) == Request(p, <<p, delivery[p].attempt>>)

DzenRequest(p) == Request(p, p)

TelegramRequest(p) == Request(p, NoKey)

TelethonRequest(p) == Request(p, NoKey)

\* The header with the key is sent when the registry asks for it.
HTTPRequest(p) ==
    Request(p, IF registered[AccountOf[p]].http = "keyed" THEN p ELSE NoKey)

RequestOf(p) ==
    CASE client = "vk" -> VKRequest(p)
      [] client = "ok" -> OKRequest(p)
      [] client = "dzen" -> DzenRequest(p)
      [] client = "telegram" -> TelegramRequest(p)
      [] client = "telethon" -> TelethonRequest(p)
      [] client = "http" -> HTTPRequest(p)

\* _config_for: the registry is asked again before every request.
ConfigError(p) ==
    IF ~Active(AccountOf[p]) THEN "platform_paused"
    ELSE IF registered[AccountOf[p]].http = "broken" THEN "platform_http_config_invalid"
    ELSE "none"

Send(p) ==
    /\ delivery[p].step = "ready"
    /\ IF client = "http" /\ ConfigError(p) # "none"
       THEN GiveUp(p, ConfigError(p)) /\ UNCHANGED <<wire, requests>>
       ELSE /\ delivery' = [delivery EXCEPT ![p].step = "waiting"]
            /\ wire' = [wire EXCEPT ![p] = RequestOf(p)]
            /\ requests' = requests \cup {RequestOf(p)}
    /\ UNCHANGED <<client, registered, tokenStore, made>>

---------------------------------------------------------------------------
\* The platform. A key that it knows makes no second post.
Known(r) == \E m \in made : r.key # NoKey /\ m.key = r.key

CarryOut(p) ==
    /\ wire[p] # NoAnswer
    /\ wire[p] \notin made /\ ~Known(wire[p])
    /\ made' = made \cup {wire[p]}
    /\ UNCHANGED <<client, registered, tokenStore, delivery, wire, requests>>

\* An answer: the class of its status, the kind of error in its body, and whether
\* the body names the post. A post that was made is answered with success, or with
\* the failure of a gateway in front of the platform.
StatusClasses == {"success", "429", "401", "403", "4xx", "5xx"}
ErrorKinds == {"none", "rate", "retry", "auth", "denied", "other"}

Answers(p) ==
    LET answer(status, kind, named) == [status |-> status, kind |-> kind, named |-> named]
    IN  IF wire[p] \in made \/ Known(wire[p])
        THEN {answer("success", "none", named) : named \in BOOLEAN}
             \cup {answer("5xx", "none", FALSE)}
        ELSE {answer(status, kind, FALSE) : status \in StatusClasses, kind \in ErrorKinds}
             \ {answer("success", "none", FALSE)}

Success(a) == a.status = "success"

\* Answers that settle the attempt whatever the platform: the post, and the end of
\* the list.
Read(a) == Success(a) /\ a.kind = "none"
Posted(a) == IF a.named THEN "posted" ELSE "invalid_response"
Refused(a) == IF Success(a) THEN "publication_failed" ELSE "invalid_request"

\* The verdicts are given in the order in which the code looks: VK looks at the
\* status before the body.
VKVerdict(a) ==
    IF Read(a) THEN Posted(a)
    ELSE IF a.status = "429" \/ (Success(a) /\ a.kind = "rate") THEN "rate_limited"
    ELSE IF a.status = "5xx" \/ (Success(a) /\ a.kind = "retry") THEN "platform_unavailable"
    ELSE IF Success(a) /\ a.kind = "auth" THEN "auth_failed"
    ELSE IF Success(a) /\ a.kind = "denied" THEN "access_denied"
    ELSE Refused(a)

\* OK: status or body, whichever matches first.
OKVerdict(a) ==
    IF Read(a) THEN Posted(a)
    ELSE IF a.status = "429" \/ a.kind = "rate" THEN "rate_limited"
    ELSE IF a.status = "5xx" \/ a.kind = "retry" THEN "platform_unavailable"
    ELSE IF a.status = "401" \/ a.kind = "auth" THEN "auth_failed"
    ELSE IF a.status = "403" \/ a.kind = "denied" THEN "access_denied"
    ELSE Refused(a)

\* Dzen has no codes for errors that pass, and asks who may post before that.
DzenVerdict(a) ==
    IF Read(a) THEN Posted(a)
    ELSE IF a.status = "429" \/ a.kind = "rate" THEN "rate_limited"
    ELSE IF a.status = "401" \/ a.kind = "auth" THEN "auth_failed"
    ELSE IF a.status = "403" \/ a.kind = "denied" THEN "access_denied"
    ELSE IF a.status = "5xx" THEN "platform_unavailable"
    ELSE Refused(a)

\* In Telegram a body without ok = true is a refusal, one that cannot be read too.
TelegramVerdict(a) ==
    IF Read(a) THEN IF a.named THEN "posted" ELSE "publication_failed"
    ELSE DzenVerdict(a)

\* Telethon raises, and the class of the exception tells the kind. What has no
\* kind, the end of the connection after the message was sent too, may be repeated.
TelethonVerdict(a) ==
    IF Read(a) THEN Posted(a)
    ELSE IF a.status = "429" \/ a.kind = "rate" THEN "rate_limited"
    ELSE IF a.kind = "auth" THEN "auth_failed"
    ELSE IF a.kind = "denied" THEN "access_denied"
    ELSE IF a.status = "4xx" THEN "invalid_request"
    ELSE "platform_unavailable"

\* The codes of the registry have the defaults of RegistryHTTPConfig.
HTTPVerdict(a) ==
    IF Read(a) THEN Posted(a)
    ELSE IF a.status = "429" \/ a.kind = "rate" THEN "rate_limited"
    ELSE IF a.status = "401" \/ a.kind = "auth" THEN "auth_failed"
    ELSE IF a.status = "403" \/ a.kind = "denied" THEN "access_denied"
    ELSE IF a.status = "5xx" \/ a.kind = "retry" THEN "platform_unavailable"
    ELSE Refused(a)

VerdictOf(a) ==
    CASE client = "vk" -> VKVerdict(a)
      [] client = "ok" -> OKVerdict(a)
      [] client = "dzen" -> DzenVerdict(a)
      [] client = "telegram" -> TelegramVerdict(a)
      [] client = "telethon" -> TelethonVerdict(a)
      [] client = "http" -> HTTPVerdict(a)

\* The attempt is over: a receipt, another attempt after a sleep, or the end.
Conclude(p, verdict) ==
    LET this == delivery[p]
    IN  delivery' = [delivery EXCEPT ![p] =
            IF verdict = "posted" THEN [this EXCEPT !.step = "succeeded"]
            ELSE IF Retryable(verdict) /\ this.attempt < Attempts
            THEN [this EXCEPT !.step = "ready", !.attempt = this.attempt + 1]
            ELSE [this EXCEPT !.step = "failed", !.error = verdict]]

AnswerArrives(p) ==
    /\ wire[p] # NoAnswer
    /\ \E a \in Answers(p) : Conclude(p, VerdictOf(a))
    /\ wire' = [wire EXCEPT ![p] = NoAnswer]
    /\ UNCHANGED <<client, registered, tokenStore, requests, made>>

\* A timeout or an error of the transport; whether the post was made is unknown.
LoseAnswer(p) ==
    /\ wire[p] # NoAnswer
    /\ \E verdict \in {"platform_timeout", "platform_unavailable"} : Conclude(p, verdict)
    /\ wire' = [wire EXCEPT ![p] = NoAnswer]
    /\ UNCHANGED <<client, registered, tokenStore, requests, made>>

ClientsNext ==
    \/ \E t \in Accounts :
          \/ \E i \in TokenIds : SaveToken(t, i)
          \/ \E status \in {"active", "paused"} : UpdatePlatform(t, status)
          \/ \E http \in {"keyed", "plain", "broken"} : UpsertHTTP(t, http)
    \/ \E p \in Publications :
          BeginPublish(p) \/ Send(p) \/ CarryOut(p) \/ AnswerArrives(p) \/ LoseAnswer(p)

ClientsSpec == ClientsInit /\ [][ClientsNext]_clientVars

---------------------------------------------------------------------------
PostsOf(p) == {m \in made : m.publication = p}

\* The publisher and the platform agree on what became of the last attempt: a
\* receipt is given for a post that is there, and a publication that is given up
\* for good was refused, unless Telegram's answer could not be read (the
\* _raise_for_..._error of each publisher, retries of BasePlatformAdapter).
AnswersAreUnderstood ==
    \A p \in Publications :
        /\ delivery[p].step = "succeeded" =>
               \E m \in PostsOf(p) : m.attempt = delivery[p].attempt \/ m.key = p
        /\ delivery[p].step = "failed" /\ ~Retryable(delivery[p].error) =>
               \/ \A m \in PostsOf(p) : m.attempt # delivery[p].attempt
               \/ client = "telegram" /\ delivery[p].error = "publication_failed"

\* Repeating a request does no harm where the platform knows its key: Dzen, and
\* platforms of the registry that ask for the header throughout, get one post of a
\* publication, whichever answers are lost. Every request bears a token of its
\* own tenant, the same in all attempts, and a platform that is paused between
\* them gets no further request through the registry (publish, _config_for,
\* _request_headers, require_token).
RepeatsAreHarmless ==
    /\ \A p \in Publications :
          client = "dzen" \/ (client = "http" /\ \A r \in requests : r.publication = p => r.key = p)
              => Cardinality(PostsOf(p)) <= 1
    /\ \A r, s \in requests :
          /\ r.token.tenant = AccountOf[r.publication]
          /\ r.publication = s.publication => r.token = s.token
          /\ client = "http" => r.allowed

\* Publishers and platforms agree on what was posted, and repeat only what may be
\* repeated: the rules by which BasePlatformAdapter retries rest on both.
ClientsAreExact == AnswersAreUnderstood /\ RepeatsAreHarmless

---------------------------------------------------------------------------
(***************************************************************************)
(* Metrics of VK posts (vk_adapter.py): the collector asks for the reach   *)
(* of the posts and then for the posts themselves, and puts both answers   *)
(* together while readers go on reacting. A post may be missing in either  *)
(* answer, and a call may fail. The pace of the calls is in                *)
(* PlatformAccounts.                                                       *)
(***************************************************************************)

CONSTANTS
    Posts,            \* post ids of the request
    MaxReactions      \* bound: reactions of one kind to a post

ASSUME PostsAssumption == Posts # {}

VARIABLES
    reactions,   \* post -> its links and likes on the platform
    collected    \* where collect is, what it read, and the batch

metricVars == <<reactions, collected>>

MetricsInit ==
    /\ reactions = [p \in Posts |-> [links |-> 0, likes |-> 0]]
    /\ collected = [step |-> "new", before |-> reactions, reach |-> <<>>,
                    metrics |-> <<>>, failed |-> {}]

React(p, kind) ==
    /\ reactions[p][kind] < MaxReactions
    /\ reactions' = [reactions EXCEPT ![p][kind] = @ + 1]
    /\ UNCHANGED collected

BeginCollect ==
    /\ collected.step = "new"
    /\ collected' = [collected EXCEPT !.step = "reach", !.before = reactions]
    /\ UNCHANGED reactions

\* An answer lists some of the posts, in an order of the platform's own.
Listings == {l \in UNION {[1 .. n -> Posts] : n \in 0 .. Cardinality(Posts)} : IsInjective(l)}

Listed(listing, kind) ==
    [i \in DOMAIN listing |-> [post_id |-> listing[i], count |-> reactions[listing[i]][kind]]]

\* Fault: answers are matched with the request by their place.
CountOf_ByPlace(items, p) ==
    IF items = <<>> THEN 0 ELSE items[1].count

\* _reach_by_post_id and _wall_posts_by_post_id: a post that the answer does not
\* list counts for nothing.
CountOf(items, p) ==
    IF \E i \in DOMAIN items : items[i].post_id = p
    THEN items[CHOOSE i \in DOMAIN items : items[i].post_id = p].count ELSE 0

\* stats.getPostReach.
ReachAnswered(listing) ==
    /\ collected.step = "reach"
    /\ collected' = [collected EXCEPT !.step = "wall", !.reach = Listed(listing, "links")]
    /\ UNCHANGED reactions

PostMetrics(p, reach, wall) ==
    [links |-> CountOf(reach, p), likes |-> CountOf(wall, p),
     engagement |-> CountOf(reach, p) + CountOf(wall, p)]

\* wall.getById, and the batch.
WallAnswered(listing) ==
    /\ collected.step = "wall"
    /\ collected' = [collected EXCEPT !.step = "done", !.metrics =
           [p \in Posts |-> PostMetrics(p, collected.reach, Listed(listing, "likes"))]]
    /\ UNCHANGED reactions

\* Whichever call fails, the batch has no metrics and every post has failed.
CallFails ==
    /\ collected.step \in {"reach", "wall"}
    /\ collected' = [collected EXCEPT !.step = "done", !.failed = Posts]
    /\ UNCHANGED reactions

MetricsNext ==
    \/ \E p \in Posts, kind \in {"links", "likes"} : React(p, kind)
    \/ BeginCollect \/ CallFails
    \/ \E listing \in Listings : ReachAnswered(listing) \/ WallAnswered(listing)

MetricsSpec == MetricsInit /\ [][MetricsNext]_metricVars

---------------------------------------------------------------------------
\* A batch has metrics for all posts or for none. Its two halves are read at two
\* times, and yet what it reports of a post is that post's own: no more than the
\* platform counts now, and no less than it counted at the start, unless an answer
\* left the post out (collect, _vk_post_metrics).
MetricsAddUp ==
    collected.step = "done" =>
        /\ (collected.failed = Posts) # (DOMAIN collected.metrics = Posts)
        /\ \A p \in DOMAIN collected.metrics :
              LET m == collected.metrics[p]
              IN  /\ m.links <= reactions[p].links /\ m.likes <= reactions[p].likes
                  /\ m.links > 0 /\ m.likes > 0 =>
                        m.engagement >= collected.before[p].links + collected.before[p].likes
=============================================================================
