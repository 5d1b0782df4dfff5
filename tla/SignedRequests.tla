--------------------------- MODULE SignedRequests ---------------------------
(***************************************************************************)
(* Requests one service signs and another verifies (libs/shared/s2s_auth.py)*)
(* over a network that delays and repeats them as they were sent, between  *)
(* hosts whose clocks differ. Each host finds its method in its environment*)
(* and its files: a shared secret; an RSA token with a life of its own; or *)
(* a Kubernetes token, which the verifier decodes with the issuer's key or *)
(* has the cluster review, a call that takes time. Every method takes the  *)
(* nonce once, from a cache that forgets what the window no longer admits. *)
(*                                                                         *)
(* require_s2s is a plain function, which FastAPI calls on a worker thread,*)
(* and the cache has no lock: a verifier reads the clock and looks at the  *)
(* window, then drops the expired nonces and looks its own up, then stores *)
(* it, and others run in between. The application keeps one authenticator  *)
(* in app.state.s2s_auth. What a signature covers is left out.             *)
(***************************************************************************)
EXTENDS Integers

CONSTANTS
    Calls,            \* calls, each with a nonce of its own
    HostEnvs,         \* environments and files a host may have
    ReplayWindow,     \* replay_window_seconds
    TokenTTL,         \* token_ttl_seconds
    MaxSkew,          \* bound: seconds the signer's clock is ahead or behind
    LastSecond,       \* bound: seconds that pass
    Copies            \* bound: the copies of one call the network delivers

AuthMethods == {"kubernetes_sa", "rsa_key", "shared_secret"}
Unset == "unset"

\* The names _normalize_optional_auth_method knows; an empty one is no name.
ClusterNames == {"k8s", "k8s_sa", "kubernetes", "kubernetes_sa"}
KeyNames == {"rsa", "rsa_key"}
SecretNames == {"secret", "shared", "shared_secret"}

NamedMethod ==
    [name \in ClusterNames \cup KeyNames \cup SecretNames \cup {Unset, ""} |->
        IF name \in ClusterNames THEN "kubernetes_sa"
        ELSE IF name \in KeyNames THEN "rsa_key"
        ELSE IF name \in SecretNames THEN "shared_secret" ELSE Unset]

SwitchedOn == {"1", "on", "true", "yes"}
Switch == [name \in SwitchedOn \cup {"0", "no", "off"} |-> name \in SwitchedOn]

\* A host: what S2S_AUTH_METHOD and K8S_AUTH_ENABLED say, which files and secret it has.
ASSUME SigningAssumption ==
    /\ {ReplayWindow, TokenTTL} \subseteq Nat \ {0}
    /\ \A env \in HostEnvs : /\ env.files \subseteq {"token", "oidc", "rsa_private", "rsa_public"}
                             /\ env.method \in DOMAIN NamedMethod

\* A service whose K8S_AUTH_ENABLED is no switch does not start.
Starts(env) == env.k8s_enabled \in {Unset} \cup DOMAIN Switch

\* _s2s_config_from_env: what is not set has its default.
ConfigFromEnv(env) ==
    [method |-> NamedMethod[env.method],
     k8s_enabled |-> IF env.k8s_enabled = Unset THEN TRUE ELSE Switch[env.k8s_enabled],
     files |-> env.files, secret |-> env.secret]

HasClusterToken(config) == "token" \in config.files
HasKeyPair(config) == {"rsa_private", "rsa_public"} \subseteq config.files

DetectAuthMethod(config) ==
    CASE config.method # Unset -> config.method
      [] config.method = Unset /\ config.k8s_enabled /\ HasClusterToken(config) -> "kubernetes_sa"
      [] OTHER -> IF HasKeyPair(config) THEN "rsa_key" ELSE "shared_secret"

\* What sign_request reads: a named method may be one the host cannot sign by.
Credential(config) ==
    CASE DetectAuthMethod(config) = "kubernetes_sa" -> HasClusterToken(config)
      [] DetectAuthMethod(config) = "rsa_key" -> "rsa_private" \in config.files
      [] DetectAuthMethod(config) = "shared_secret" -> config.secret

Unsigned == -10

VARIABLES
    signer,        \* S2SConfig of the host that calls
    verifier,      \* S2SConfig of the host that is called
    second,        \* the verifier's clock
    stamp,         \* the time stamp each call was signed with
    copies,        \* each copy: where it is, and what its verifier holds
    seen           \* InMemoryS2SReplayCache._seen_nonces: the calls in it

signedVars == <<signer, verifier, second, stamp, copies, seen>>

\* A copy under verification: now is the clock as its verifier read it, until the nonce
\* has been looked up; repeated says that the call had been let in by then.
Copy(at, now, repeated) == [at |-> at, now |-> now, repeated |-> repeated]
At(stage) == Copy(stage, 0, FALSE)

SignedInit ==
    /\ signer \in {ConfigFromEnv(env) : env \in {e \in HostEnvs : Starts(e)}}
    /\ verifier \in {ConfigFromEnv(env) : env \in {e \in HostEnvs : Starts(e)}}
    /\ second = 0
    /\ stamp = [c \in Calls |-> Unsigned]
    /\ copies = [x \in Calls \X Copies |-> At("sent")]
    /\ seen = {}

\* sign_request, on a host whose clock is off by skew.
SignRequest(c, skew) ==
    /\ Credential(signer)
    /\ stamp[c] = Unsigned
    /\ second + skew >= 0
    /\ stamp' = [stamp EXCEPT ![c] = second + skew]
    /\ UNCHANGED <<signer, verifier, second, copies, seen>>

\* The claims of an RSA token.
TokenClaims(c) == [iat |-> stamp[c], nbf |-> stamp[c] - 1, exp |-> stamp[c] + TokenTTL]

\* jwt.decode, without leeway: issued already, begun, and not at its end.
TokenHolds(claims) == claims.iat <= second /\ claims.nbf <= second /\ second < claims.exp

Distance(a, b) == IF a < b THEN b - a ELSE a - b

InWindow(c) == Distance(second, stamp[c]) <= ReplayWindow

\* A request carries the method it was signed by, and another is not supported.
Presented(x, m) ==
    /\ copies[x].at = "sent"
    /\ stamp[x[1]] # Unsigned
    /\ DetectAuthMethod(signer) = m
    /\ DetectAuthMethod(verifier) = m

LetIn(c) == \E k \in Copies : copies[<<c, k>>].at = "in"

Becomes(x, copy) ==
    /\ copies' = [copies EXCEPT ![x] = copy]
    /\ UNCHANGED <<signer, verifier, second, stamp>>

\* Every method reads the clock once for the window and the cache.
ReadClock(x) ==
    /\ InWindow(x[1])
    /\ Becomes(x, Copy("timed", second, LetIn(x[1])))
    /\ UNCHANGED seen

\* SharedSecretS2SAuth looks at the window before the signature.
VerifySigned(x) == Presented(x, "shared_secret") /\ verifier.secret /\ ReadClock(x)

VerifyToken(x) ==
    /\ Presented(x, "rsa_key") /\ "rsa_public" \in verifier.files
    /\ TokenHolds(TokenClaims(x[1]))
    /\ ReadClock(x)

\* OIDCK8sTokenValidator, which the default prefers: the token is decoded at once.
VerifyDecoded(x) ==
    Presented(x, "kubernetes_sa") /\ "oidc" \in verifier.files /\ ReadClock(x)

\* TokenReviewK8sTokenValidator: the verifier shows its own token and asks the cluster.
RequestReview(x) ==
    /\ Presented(x, "kubernetes_sa")
    /\ "oidc" \notin verifier.files /\ "token" \in verifier.files
    /\ Becomes(x, At("review"))
    /\ UNCHANGED seen

\* The answer says authenticated, for the audience and by the issuer expected.
Authenticated(x) == copies[x].at = "review" /\ ReadClock(x)

\* It says anything else, is no JSON, comes with an error status or not in time;
\* or the window closed while the cluster was asked.
ReviewFails(x) ==
    /\ copies[x].at = "review"
    /\ Becomes(x, At("refused"))
    /\ UNCHANGED seen

\* Fault: a nonce is forgotten in the second in which its request is still taken.
DropExpiredNonces_Early(now) == {c \in seen : now - stamp[c] < ReplayWindow}

DropExpiredNonces(now) == {c \in seen : now - stamp[c] <= ReplayWindow}

\* remember drops what has expired by its verifier's clock and looks the nonce up:
\* it refuses one it knows.
LookUpNonce(x) ==
    /\ copies[x].at = "timed"
    /\ seen' = DropExpiredNonces(copies[x].now)
    /\ Becomes(x, IF x[1] \in seen' THEN At("refused") ELSE Copy("unknown", 0, copies[x].repeated))

\* Another thread changed the dictionary while this one iterated over it or dropped from
\* it: RuntimeError or KeyError, some of the expired nonces are gone.
DropRaises(x) ==
    /\ copies[x].at = "timed"
    /\ \E y \in DOMAIN copies \ {x} : copies[y].at \in {"timed", "unknown"}
    /\ \E gone \in SUBSET (seen \ DropExpiredNonces(copies[x].now)) : seen' = seen \ gone
    /\ Becomes(x, At("refused"))

\* remember stores the nonce, and require_s2s hands out the identity.
StoreNonce(x) ==
    /\ copies[x].at = "unknown"
    /\ seen' = seen \cup {x[1]}
    /\ Becomes(x, At("in"))

NextSecond ==
    /\ second < LastSecond
    /\ second' = second + 1
    /\ UNCHANGED <<signer, verifier, stamp, copies, seen>>

SignedNext ==
    \/ \E c \in Calls, skew \in -MaxSkew .. MaxSkew : SignRequest(c, skew)
    \/ \E x \in Calls \X Copies :
          \/ VerifySigned(x) \/ VerifyToken(x) \/ VerifyDecoded(x)
          \/ RequestReview(x) \/ Authenticated(x) \/ ReviewFails(x)
          \/ LookUpNonce(x) \/ DropRaises(x) \/ StoreNonce(x)
    \/ NextSecond

SignedSpec == SignedInit /\ [][SignedNext]_signedVars

----------------------------------------------------------------------------
CopyStages == {"sent", "review", "timed", "unknown", "in", "refused"}

SignedTypeOK ==
    /\ \A config \in {signer, verifier} : config.method \in AuthMethods \cup {Unset}
    /\ second \in Nat
    /\ stamp \in [Calls -> Nat \cup {Unsigned}]
    /\ copies \in [Calls \X Copies -> [at : CopyStages, now : Nat, repeated : BOOLEAN]]
    /\ seen \subseteq Calls

\* A copy whose verifier read the clock when the call had already been let in gets past
\* the cache only if the window has closed since it read it: as long as the window
\* admits the call, however often the network repeats it, whether the signer's clock is
\* ahead or behind, whichever method the hosts found and however long the cluster takes
\* to review one copy while others are verified, only copies that were verified at
\* the same time as the first can be let in beside it (remember,
\* _remember_verified_nonce).
ReplaysAreRefused ==
    /\ SignedTypeOK
    /\ \A c \in Calls, k \in Copies :
           copies[<<c, k>>].at = "unknown" /\ copies[<<c, k>>].repeated
               => second - stamp[c] > ReplayWindow
=============================================================================
