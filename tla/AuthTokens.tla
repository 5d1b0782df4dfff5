----------------------------- MODULE AuthTokens -----------------------------
(***************************************************************************)
(* Access and refresh tokens (AuthTokenService of libs/shared/auth.py).    *)
(* Refresh tokens rotate: each is exchanged once for a pair of new ones.   *)
(* The exchange has no suspension point and the store is in memory, so an  *)
(* exchange is one step; clients keep old tokens and send them again, and  *)
(* log out with whichever token they still have.                           *)
(***************************************************************************)
EXTENDS Integers, Sequences, FiniteSets

CONSTANTS
    Logins,         \* sessions, each begun by one issue_token_pair
    MaxTokens,      \* bound: refresh tokens ever issued
    RefreshTTL, AccessTTL,
    MaxTime         \* bound: seconds that pass

ASSUME TokenTTLAssumption == /\ {RefreshTTL, AccessTTL} \subseteq Nat \ {0}
                             /\ MaxTokens \in Nat

VARIABLES
    time,
    records,     \* the store, in the order of issue: token i is records[i]
    accesses,    \* access tokens issued: the login and the second they expire
    closed       \* history: the second a session was left without a live refresh token

tokenVars == <<time, records, accesses, closed>>

Open == -1

TokensInit ==
    /\ time = 0
    /\ records = <<>>
    /\ accesses = {}
    /\ closed = [l \in Logins |-> Open]

NewRecord(login) ==
    [login |-> login, expires_at |-> time + RefreshTTL, state |-> "live", replaced_by |-> 0]

NewAccess(login) == [login |-> login, expires_at |-> time + AccessTTL]

Tokens == DOMAIN records

LiveTokens(login) == {i \in Tokens : records[i].login = login /\ records[i].state = "live"}

Revoked(i, replacement) ==
    [records EXCEPT ![i] = [@ EXCEPT !.state = "revoked", !.replaced_by = replacement]]

\* issue_token_pair at sign-in.
IssueTokenPair(login) ==
    /\ Len(records) < MaxTokens
    /\ \A i \in Tokens : records[i].login # login
    /\ records' = Append(records, NewRecord(login))
    /\ accesses' = accesses \cup {NewAccess(login)}
    /\ UNCHANGED <<time, closed>>

\* Fault: the token that was exchanged stays live.
RefreshTokenPair_KeepsOld(i) ==
    /\ Len(records) < MaxTokens
    /\ records[i].state = "live"
    /\ time < records[i].expires_at
    /\ records' = Append(records, NewRecord(records[i].login))
    /\ accesses' = accesses \cup {NewAccess(records[i].login)}
    /\ UNCHANGED <<time, closed>>

\* refresh_token_pair: a live token is exchanged and names its replacement.
RefreshTokenPair(i) ==
    /\ Len(records) < MaxTokens
    /\ records[i].state = "live"
    /\ time < records[i].expires_at
    /\ records' = Append(Revoked(i, Len(records) + 1), NewRecord(records[i].login))
    /\ accesses' = accesses \cup {NewAccess(records[i].login)}
    /\ UNCHANGED <<time, closed>>

\* A token is revoked and not replaced: its session ends if it was the live one.
RevokeOnly(i) ==
    /\ records' = Revoked(i, 0)
    /\ closed' = IF LiveTokens(records[i].login) = {i}
                 THEN [closed EXCEPT ![records[i].login] = time] ELSE closed
    /\ UNCHANGED <<time, accesses>>

\* An expired token is revoked on sight and refused.
RefreshExpired(i) ==
    /\ records[i].state = "live"
    /\ time >= records[i].expires_at
    /\ RevokeOnly(i)

\* revoke_refresh_token: also of a token that was exchanged long ago, whose
\* replacement it forgets.
RevokeRefreshToken(i) == RevokeOnly(i)

TimePasses ==
    /\ time < MaxTime
    /\ time' = time + 1
    /\ UNCHANGED <<records, accesses, closed>>

TokensNext ==
    \/ \E l \in Logins : IssueTokenPair(l)
    \/ \E i \in Tokens : RefreshTokenPair(i) \/ RefreshExpired(i) \/ RevokeRefreshToken(i)
    \/ TimePasses

TokensSpec == TokensInit /\ [][TokensNext]_tokenVars

----------------------------------------------------------------------------
RefreshTokenRecords ==
    [login : Logins, expires_at : Nat, state : {"live", "revoked"}, replaced_by : 0 .. MaxTokens]

TokensTypeOK ==
    /\ time \in Nat
    /\ records \in Seq(RefreshTokenRecords)
    /\ accesses \subseteq [login : Logins, expires_at : Nat]
    /\ closed \in [Logins -> Nat \cup {Open}]

\* A session has one refresh token at a time, however often tokens are sent
\* again, exchanged late or revoked, and its access tokens run out with it; a session
\* left without a live one (expired on sight, or by a logout) never has one again,
\* and nobody has access in its name for longer than one access token lasts
\* (refresh_token_pair, revoke_refresh_token).
SessionHasOneToken ==
    /\ TokensTypeOK
    /\ \A l \in Logins :
           /\ Cardinality(LiveTokens(l)) <= 1
           /\ \A i \in LiveTokens(l) : \A a \in accesses :
                  a.login = l => a.expires_at <= records[i].expires_at - RefreshTTL + AccessTTL
           /\ closed[l] # Open => LiveTokens(l) = {}
           /\ LiveTokens(l) = {} => \A a \in accesses :
                  a.login = l => closed[l] # Open /\ a.expires_at <= closed[l] + AccessTTL
=============================================================================
