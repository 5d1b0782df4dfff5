--------------------------- MODULE TenantStorage ---------------------------
(***************************************************************************)
(* Requests of several tenants over the stores they share: the bucket      *)
(* (libs/shared/object_storage.py), the vector collections                 *)
(* (libs/shared/vector.py) and the tables behind the tenant-scoped         *)
(* repositories (libs/shared/db.py), entered through the middleware that   *)
(* sets the tenant context (libs/shared/tenant.py). A client call of the   *)
(* bucket or of Chroma runs in a thread, so the store changes at a step of *)
(* its own, while other requests go on.                                    *)
(*                                                                         *)
(* Abstracted: one domain and one environment, which every key and name    *)
(* begins with alike; a body stands for its own SHA-256; roles, subjects   *)
(* and correlation ids travel with the context and decide nothing here.    *)
(***************************************************************************)
EXTENDS Integers, FiniteSets

CONSTANTS
    StorageTenants,  \* tenants whose id has the required format
    HttpRequests,    \* tasks of the server, one per request
    BearerTokens,    \* [tenant, signed, nbf, exp] that clients present
    Bodies,          \* contents of objects
    VectorIds,       \* ids of vector records
    RowIds,          \* primary keys of rows
    UrlLife,         \* expires_in_seconds of a signed URL
    MaxCalls,        \* bound: operations of one request
    MaxInstant       \* bound: clock

ASSUME UrlLifeAssumption == UrlLife \in Nat \ {0}

NoContext == "no context"
Unstated == "unstated"
Malformed == "malformed"
NoObject == [writer |-> "nobody"]
NoRecord == [tenant |-> "nobody"]
NoRow == [tenant |-> "nobody"]
NoCall == [kind |-> "none"]

VARIABLES
    instant,         \* the clock
    httpStage,       \* request -> where its handler is
    httpStatus,      \* request -> status of the answer, 0 until it answers
    context,         \* request -> tenant of the context variable of its task
    calls,           \* request -> operations done
    clientCall,      \* request -> call that runs in a thread
    session,         \* request -> rows staged in its session
    denials,         \* audit events of isolation violations, by request
    foreign,         \* requests refused because of another tenant
    objects,         \* key of the bucket, here the tenant, -> object
    vectorBackend,   \* which implementation of the contract is wired
    collections,     \* tenant -> collection of its domain, id -> record
    rows,            \* id -> committed row
    urls,            \* signed URLs in the hands of clients
    readings             \* [reader, owner] of everything a handler got to read

requestVars == <<httpStage, httpStatus, context, calls, clientCall, session, denials, foreign>>
storeVars == <<objects, collections, rows, urls, readings>>
storageVars == <<instant, vectorBackend, requestVars, storeVars>>

StorageInit ==
    /\ instant = 0
    /\ httpStage = [r \in HttpRequests |-> "new"]
    /\ httpStatus = [r \in HttpRequests |-> 0]
    /\ context = [r \in HttpRequests |-> NoContext]
    /\ calls = [r \in HttpRequests |-> 0]
    /\ clientCall = [r \in HttpRequests |-> NoCall]
    /\ session = [r \in HttpRequests |-> {}]
    /\ denials = [r \in HttpRequests |-> 0]
    /\ foreign = {}
    /\ objects = [t \in StorageTenants |-> NoObject]
    /\ vectorBackend \in {"memory", "chroma"}
    /\ collections = [t \in StorageTenants |-> [v \in VectorIds |-> NoRecord]]
    /\ rows = [i \in RowIds |-> NoRow]
    /\ urls = {}
    /\ readings = {}

---------------------------------------------------------------------------
\* The middleware and the context.

RegisteredClaimsHold(token) == token.nbf <= instant /\ instant < token.exp
DecodeJwt(token) == token.signed /\ RegisteredClaimsHold(token)

ValidTenantId(t) == t \in StorageTenants

\* assert_requested_tenant: naming nobody asks for the caller's own.
RequestedTenantMatches(tenant, requested) == requested \in {Unstated, tenant}

Answer(r, status) ==
    /\ httpStage' = [httpStage EXCEPT ![r] = "answered"]
    /\ httpStatus' = [httpStatus EXCEPT ![r] = status]
    /\ context' = [context EXCEPT ![r] = NoContext]
    /\ session' = [session EXCEPT ![r] = {}]
    /\ UNCHANGED <<calls, clientCall>>

\* A refusal because of another tenant is recorded before it is raised.
DenyTenantAccess(r) ==
    /\ denials' = [denials EXCEPT ![r] = @ + 1]
    /\ foreign' = foreign \cup {r}
    /\ Answer(r, 403)

NotAuthorized(r, token) ==
    /\ httpStage[r] = "new"
    /\ ~DecodeJwt(token)
    /\ Answer(r, 401)
    /\ UNCHANGED <<instant, vectorBackend, denials, foreign, storeVars>>

\* A tenant id without the required format was not recorded where it was
\* raised: the middleware does it.
AuditMissingDenial(r, token, header) ==
    /\ httpStage[r] = "new"
    /\ DecodeJwt(token)
    /\ ~ValidTenantId(token.tenant) \/ header = Malformed
    /\ denials' = [denials EXCEPT ![r] = @ + 1]
    /\ Answer(r, 403)
    /\ UNCHANGED <<instant, vectorBackend, foreign, storeVars>>

HeaderMismatch(r, token, header) ==
    /\ httpStage[r] = "new"
    /\ DecodeJwt(token) /\ ValidTenantId(token.tenant) /\ header # Malformed
    /\ ~RequestedTenantMatches(token.tenant, header)
    /\ DenyTenantAccess(r)
    /\ UNCHANGED <<instant, vectorBackend, storeVars>>

EnterApp(r, token, header) ==
    /\ httpStage[r] = "new"
    /\ DecodeJwt(token) /\ ValidTenantId(token.tenant)
    /\ RequestedTenantMatches(token.tenant, header)
    /\ httpStage' = [httpStage EXCEPT ![r] = "app"]
    /\ context' = [context EXCEPT ![r] = token.tenant]
    /\ UNCHANGED <<instant, vectorBackend, httpStatus, calls, clientCall, session,
                   denials, foreign, storeVars>>

\* Every operation asks for the context of its own task.
RequireContext(r) == httpStage[r] = "app" /\ context[r] # NoContext /\ calls[r] < MaxCalls

Counting(r) == calls' = [calls EXCEPT ![r] = @ + 1]

\* The operation goes on in a thread and the task waits for it.
ToThread(r, call) ==
    /\ Counting(r)
    /\ httpStage' = [httpStage EXCEPT ![r] = "client"]
    /\ clientCall' = [clientCall EXCEPT ![r] = call]
    /\ UNCHANGED <<httpStatus, context, session, denials, foreign>>

\* The thread runs on when the task that waits for it is cancelled.
InThread(r, kind) == clientCall[r].kind = kind

BackToApp(r) ==
    /\ httpStage' = [httpStage EXCEPT ![r] = IF @ = "client" THEN "app" ELSE @]
    /\ clientCall' = [clientCall EXCEPT ![r] = NoCall]
    /\ UNCHANGED <<httpStatus, context, calls, session, denials, foreign>>

Refused(r) == DenyTenantAccess(r) /\ UNCHANGED <<instant, vectorBackend, storeVars>>

Read(r, owner) == [reader |-> context[r], owner |-> owner]

---------------------------------------------------------------------------
\* The bucket.

\* tenants/<tenant>/<domain>/<object>, with no "/" inside the tenant.
ObjectKey(r) == context[r]

ObjectMetadata(r, content_hash) == [tenant |-> context[r], content_hash |-> content_hash]

PutObject(r, body, claimed) ==
    /\ RequireContext(r)
    /\ RequestedTenantMatches(context[r], claimed)
    /\ ToThread(r, [kind |-> "put", key |-> ObjectKey(r), writer |-> context[r], body |-> body,
                    metadata |-> ObjectMetadata(r, body)])
    /\ UNCHANGED <<instant, vectorBackend, storeVars>>

\* Metadata of an object, the filter of a query or a row that names another
\* tenant.
ClaimRefused(r, claimed) ==
    /\ RequireContext(r)
    /\ ~RequestedTenantMatches(context[r], claimed)
    /\ Refused(r)

StorePut(r) ==
    /\ InThread(r, "put")
    /\ objects' = [objects EXCEPT ![clientCall[r].key] =
                      [body |-> clientCall[r].body, metadata |-> clientCall[r].metadata,
                       writer |-> clientCall[r].writer]]
    /\ BackToApp(r)
    /\ UNCHANGED <<instant, vectorBackend, collections, rows, urls, readings>>

GetObject(r) ==
    /\ RequireContext(r)
    /\ ToThread(r, [kind |-> "get", key |-> ObjectKey(r)])
    /\ UNCHANGED <<instant, vectorBackend, storeVars>>

\* The body is read in a second call, of the object the first one opened, and
\* its metadata must name the reader's tenant.
StoreGet(r) ==
    /\ InThread(r, "get") /\ httpStage[r] = "client"
    /\ LET found == objects[clientCall[r].key]
       IN IF found = NoObject \/ found.metadata.tenant = context[r]
          THEN /\ readings' = IF found = NoObject THEN readings ELSE readings \cup {Read(r, found.writer)}
               /\ BackToApp(r)
               /\ UNCHANGED <<instant, vectorBackend, objects, collections, rows, urls>>
          ELSE Refused(r)

\* Pages of the keys under the prefix of the tenant: no metadata is looked at.
ListObjects(r) ==
    /\ RequireContext(r)
    /\ Counting(r)
    /\ readings' = readings \cup {Read(r, objects[t].writer) :
                            t \in {x \in {ObjectKey(r)} : objects[x] # NoObject}}
    /\ UNCHANGED <<instant, vectorBackend, httpStage, httpStatus, context, clientCall,
                   session, denials, foreign, objects, collections, rows, urls>>

DeleteObject(r) ==
    /\ RequireContext(r)
    /\ ToThread(r, [kind |-> "delete", key |-> ObjectKey(r)])
    /\ UNCHANGED <<instant, vectorBackend, storeVars>>

StoreDelete(r) ==
    /\ InThread(r, "delete")
    /\ objects' = [objects EXCEPT ![clientCall[r].key] = NoObject]
    /\ BackToApp(r)
    /\ UNCHANGED <<instant, vectorBackend, collections, rows, urls, readings>>

SignUrl(r, url) ==
    /\ RequireContext(r)
    /\ Counting(r)
    /\ urls' = urls \cup {url}
    /\ UNCHANGED <<instant, vectorBackend, httpStage, httpStatus, context, clientCall,
                   session, denials, foreign, objects, collections, rows, readings>>

PresignGet(r) ==
    SignUrl(r, [method |-> "GET", key |-> ObjectKey(r), holder |-> context[r],
                expires |-> instant + UrlLife])

\* The metadata, the hash included, are part of what is signed; the body is not.
PresignPut(r, content_hash) ==
    SignUrl(r, [method |-> "PUT", key |-> ObjectKey(r), holder |-> context[r],
                expires |-> instant + UrlLife,
                metadata |-> ObjectMetadata(r, content_hash)])

UrlHolds(url, method) == url.method = method /\ instant < url.expires

\* The store checks the signature and the time of a URL and no context: its
\* holder may use it after the request that made it has ended.
Download(url) ==
    /\ UrlHolds(url, "GET")
    /\ objects[url.key] # NoObject
    /\ readings' = readings \cup {[reader |-> url.holder, owner |-> objects[url.key].writer]}
    /\ UNCHANGED <<instant, vectorBackend, requestVars, objects, collections, rows, urls>>

Upload(url, body) ==
    /\ UrlHolds(url, "PUT")
    /\ objects' = [objects EXCEPT ![url.key] =
                      [body |-> body, metadata |-> url.metadata, writer |-> url.holder]]
    /\ UNCHANGED <<instant, vectorBackend, requestVars, collections, rows, urls, readings>>

---------------------------------------------------------------------------
\* The vector collections.

\* <prefix>_<environment>_<tenant>_<domain>
CollectionName(r) == context[r]

VectorRecord(r) == [tenant |-> context[r]]

\* Chroma is called with records that have all been checked.
UpsertChroma(r) ==
    /\ vectorBackend = "chroma"
    /\ RequireContext(r)
    /\ ToThread(r, [kind |-> "upsert", name |-> CollectionName(r), record |-> VectorRecord(r)])
    /\ UNCHANGED <<instant, vectorBackend, storeVars>>

ChromaUpsert(r) ==
    /\ InThread(r, "upsert")
    /\ collections' = [collections EXCEPT ![clientCall[r].name] =
                          [v \in VectorIds |-> clientCall[r].record]]
    /\ BackToApp(r)
    /\ UNCHANGED <<instant, vectorBackend, objects, rows, urls, readings>>

UpsertMemory(r) ==
    /\ vectorBackend = "memory"
    /\ RequireContext(r)
    /\ Counting(r)
    /\ collections' = [collections EXCEPT ![CollectionName(r)] =
                          [v \in VectorIds |-> VectorRecord(r)]]
    /\ UNCHANGED <<instant, vectorBackend, httpStage, httpStatus, context, clientCall,
                   session, denials, foreign, objects, rows, urls, readings>>

\* The store in memory checks and stores record by record: the records in
\* front of the one that names another tenant stay.
UpsertRefused(r, stored) ==
    /\ RequireContext(r)
    /\ stored # VectorIds
    /\ vectorBackend = "chroma" => stored = {}
    /\ collections' = [collections EXCEPT ![CollectionName(r)] =
                          [v \in VectorIds |-> IF v \in stored THEN VectorRecord(r) ELSE @[v]]]
    /\ DenyTenantAccess(r)
    /\ UNCHANGED <<instant, vectorBackend, objects, rows, urls, readings>>

\* The filter always asks for the caller's tenant, whatever else it asks for.
VectorsFound(r) ==
    {v \in VectorIds : /\ collections[CollectionName(r)][v] # NoRecord
                       /\ collections[CollectionName(r)][v].tenant = context[r]}

QueryVectors(r) ==
    /\ RequireContext(r)
    /\ Counting(r)
    /\ readings' = readings \cup {Read(r, collections[CollectionName(r)][v].tenant) : v \in VectorsFound(r)}
    /\ UNCHANGED <<instant, vectorBackend, httpStage, httpStatus, context, clientCall,
                   session, denials, foreign, objects, collections, rows, urls>>

---------------------------------------------------------------------------
\* The tables.

RowOwned(r, tenant) == tenant = context[r]

AddRow(r, id) ==
    /\ RequireContext(r)
    /\ Counting(r)
    /\ session' = [session EXCEPT ![r] = @ \cup {[id |-> id, tenant |-> context[r], request |-> r]}]
    /\ UNCHANGED <<instant, vectorBackend, httpStage, httpStatus, context, clientCall,
                   denials, foreign, storeVars>>

ListRows(r) ==
    /\ RequireContext(r)
    /\ Counting(r)
    /\ readings' = readings \cup {Read(r, rows[i].tenant) :
                            i \in {x \in RowIds : rows[x] # NoRow /\ RowOwned(r, rows[x].tenant)}}
    /\ UNCHANGED <<instant, vectorBackend, httpStage, httpStatus, context, clientCall,
                   session, denials, foreign, objects, collections, rows, urls>>

\* The row is looked up by its id alone, and only then asked whose it is.
GetOwned(r, id) ==
    /\ RequireContext(r)
    /\ rows[id] # NoRow
    /\ IF RowOwned(r, rows[id].tenant)
       THEN /\ Counting(r)
            /\ readings' = readings \cup {Read(r, rows[id].tenant)}
            /\ UNCHANGED <<instant, vectorBackend, httpStage, httpStatus, context,
                           clientCall, session, denials, foreign, objects, collections,
                           rows, urls>>
       ELSE Refused(r)

\* Fault: the session is committed on the way out, whatever was raised.
HandlerRaises_Commits(r) ==
    /\ httpStage[r] = "app"
    /\ rows' = [i \in RowIds |-> IF \E s \in session[r] : s.id = i
                                 THEN CHOOSE s \in session[r] : s.id = i ELSE rows[i]]
    /\ Answer(r, 500)
    /\ UNCHANGED <<instant, vectorBackend, denials, foreign, objects, collections, urls, readings>>

\* An exception rolls the session back.
HandlerRaises(r) ==
    /\ httpStage[r] = "app"
    /\ Answer(r, 500)
    /\ UNCHANGED <<instant, vectorBackend, denials, foreign, storeVars>>

\* The client fails or the task is cancelled while it waits; what the thread
\* does may still happen.
CallGivenUp(r) ==
    /\ httpStage[r] = "client"
    /\ Answer(r, 500)
    /\ UNCHANGED <<instant, vectorBackend, denials, foreign, storeVars>>

\* A row whose key is taken fails the whole commit.
Leave(r) ==
    /\ httpStage[r] = "app"
    /\ IF \E s \in session[r] : rows[s.id] # NoRow
       THEN Answer(r, 500) /\ UNCHANGED rows
       ELSE /\ rows' = [i \in RowIds |-> IF \E s \in session[r] : s.id = i
                                         THEN CHOOSE s \in session[r] : s.id = i ELSE rows[i]]
            /\ Answer(r, 200)
    /\ UNCHANGED <<instant, vectorBackend, denials, foreign, objects, collections, urls, readings>>

InstantPasses ==
    /\ instant < MaxInstant
    /\ instant' = instant + 1
    /\ UNCHANGED <<vectorBackend, requestVars, storeVars>>

MiddlewareNext(r) ==
    \E token \in BearerTokens, header \in StorageTenants \cup {Unstated, Malformed} :
        \/ NotAuthorized(r, token)
        \/ AuditMissingDenial(r, token, header)
        \/ HeaderMismatch(r, token, header)
        \/ EnterApp(r, token, header)

BucketNext(r) ==
    \/ \E body \in Bodies :
          \/ \E claimed \in StorageTenants \cup {Unstated} : PutObject(r, body, claimed)
          \/ PresignPut(r, body)
    \/ \E claimed \in StorageTenants : ClaimRefused(r, claimed)
    \/ GetObject(r) \/ ListObjects(r) \/ DeleteObject(r) \/ PresignGet(r)
    \/ StorePut(r) \/ StoreGet(r) \/ StoreDelete(r)

VectorNext(r) ==
    \/ UpsertChroma(r) \/ ChromaUpsert(r) \/ UpsertMemory(r) \/ QueryVectors(r)
    \/ \E stored \in SUBSET VectorIds : UpsertRefused(r, stored)

TableNext(r) ==
    \/ \E id \in RowIds : AddRow(r, id) \/ GetOwned(r, id)
    \/ ListRows(r) \/ HandlerRaises(r) \/ CallGivenUp(r) \/ Leave(r)

StorageNext ==
    \/ \E r \in HttpRequests :
          MiddlewareNext(r) \/ BucketNext(r) \/ VectorNext(r) \/ TableNext(r)
    \/ \E url \in urls : Download(url) \/ \E body \in Bodies : Upload(url, body)
    \/ InstantPasses

StorageSpec == StorageInit /\ [][StorageNext]_storageVars

---------------------------------------------------------------------------

\* Everything a tenant reads is its own.
OwnReads == \A s \in readings : s.reader = s.owner

\* What lies where a tenant looks for its own was written by that tenant, and
\* says so.
OwnStores ==
    /\ \A t \in StorageTenants :
          /\ objects[t] # NoObject => objects[t].writer = t /\ objects[t].metadata.tenant = t
          /\ \A v \in VectorIds : collections[t][v] # NoRecord => collections[t][v].tenant = t
    /\ \A r \in HttpRequests : httpStage[r] = "app" =>
          \A s \in session[r] : s.tenant = context[r]

\* Every refusal because of another tenant is on record, once, and no other
\* answer is on record as one.
RefusalsOnRecord ==
    \A r \in HttpRequests :
        /\ denials[r] <= 1
        /\ r \in foreign => denials[r] = 1
        /\ denials[r] = 1 => httpStatus[r] = 403

\* A request that did not end well leaves no row.
FailedLeavesNoRow ==
    \A i \in RowIds : rows[i] # NoRow => httpStatus[rows[i].request] = 200

\* The tenants that share the stores never meet in them, through any
\* interleaving of their requests, signed URLs that outlive the request
\* included; who tried is on record, and a request that failed half-way leaves
\* no row of its session.
StorageKeptApart == OwnReads /\ OwnStores /\ RefusalsOnRecord /\ FailedLeavesNoRow
=============================================================================
